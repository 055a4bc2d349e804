SPECIFICATION Spec
CONSTANTS
    Disposers = {d1}
    Configs = {c1, c2, c3}
    c1 = c1
    c2 = c2
    c3 = c3
    NoConfig = NoConfig
    Malformed = {c3}
    Options = {"recording", "sampleRate"}
    Given <- MCGiven
    Waits = {"normal"}
    Timeouts = {"httpClient"}
CHECK_DEADLOCK FALSE
INVARIANT PollingSurvives
