SPECIFICATION FairSpec
CONSTANTS
    Callbacks = {t1, t2}
    cpu = cpu
    gc = gc
    MetricsProviders <- MCProviders
    MaxTryWithoutSuccess = 3
INVARIANTS
    MetricsTypeOK
    OneCollection
PROPERTIES
    GivenUpForGood
    CollectionEnds
    KeepsCollecting
