SPECIFICATION ProcessSpec
CONSTANTS
    Disposers = {d1, d2, d3}
    Configs = {c1, c2, c3}
    c1 = c1
    c2 = c2
    c3 = c3
    NoConfig = NoConfig
    Malformed = {c3}
    Options = {"recording", "sampleRate"}
    Given <- MCGiven
    Waits = {"normal", "tooLong"}
    Timeouts = {"agentTimer", "httpClient"}
CHECK_DEADLOCK FALSE
INVARIANTS
    SnapshotMatchesETag
    NotModifiedMeansApplied
    SingleDisposer
    ReleasedAfterLoop
    FullyReleased
PROPERTIES DisposeReturns ConfigConverges
