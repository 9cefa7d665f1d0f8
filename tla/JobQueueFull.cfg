SPECIFICATION FairSpec
CONSTANTS
    Producers = {p1, p2}
    Workers = {w1}
    Jobs = {j1, j2}
    NoJob = NoJob
    QueueSizes = {1}
PROPERTIES
    EnqueueReturns

\* Stop ends every thread.
CHECK_DEADLOCK FALSE
