SPECIFICATION FairSpec
CONSTANTS
    Disposers = {d1}
    Producers = {p1}
    Events = {e1, e2, e3}
    NoEvent = NoEvent
    MetricSets = {}
    MaxBatchEventCount = 2
    MaxQueueEventCount = 2
    FlushImmediately = FALSE
    PostMayRefuse = FALSE
PROPERTIES
    QueuedIsTaken
    DisposeReturns
CHECK_DEADLOCK FALSE
