SPECIFICATION Spec
CONSTANTS
    Disposers = {d1}
    Producers = {p1, p2}
    Events = {e1, e2, e3, m1}
    NoEvent = NoEvent
    MetricSets = {m1}
    MaxBatchEventCount = 2
    MaxQueueEventCount = 1
    FlushImmediately = TRUE
    PostMayRefuse = TRUE
SYMMETRY Symmetry
INVARIANTS
    CountExact
    CapacityRespected
    SentAtMostOnce
    MetadataLineCurrent
PROPERTY ImplementsEventPipe
CHECK_DEADLOCK FALSE
