SPECIFICATION AgentSpec
CONSTANTS
    Threads = {t1}
    Jobs = {"module"}
    Default = Default
    None = None
INVARIANT DisabledMeansDisabled
CHECK_DEADLOCK FALSE
