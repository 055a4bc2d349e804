SPECIFICATION FairAgentSpec
CONSTANTS
    Threads = {t1, t2, t3}
    Jobs = {"use", "setup", "builder", "host", "module"}
    Default = Default
    None = None
INVARIANTS
    ModulesInitOnce
    NoAbandonedComponents
    ConfiguredMeansComponents
PROPERTY EveryCallEnds
CHECK_DEADLOCK FALSE
