SPECIFICATION AlgorithmsSpec
CONSTANTS
    Files <- OldKernelFiles
    ToLowerInvariant <- LowerCase
    Precision = 4
    Fine = 10
    MaxLong = 127
    TraceIdLength = 2
    SpanIdLength = 1
    MaxListMembers = 3
    HexValue <- HexDigit
    NoData = NoData
    NoVersion = NoVersion
    Filters = {f1, f2, f3}
    f1 = f1
    f2 = f2
    f3 = f3
    NoFilter = NoFilter
    FilteredEvents = {e1, e2}
    e1 = e1
    e2 = e2
    Verdict <- FilterVerdicts
CHECK_DEADLOCK FALSE
PROPERTY GetSamplesReturns
