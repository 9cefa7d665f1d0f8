SPECIFICATION FairSpec
CONSTANTS
    Producers = {p1, p2}
    Workers = {w1, w2}
    Jobs = {j1, j2, j3}
    NoJob = NoJob
    QueueSizes = {0, 1, 2}
INVARIANTS
    Fifo
    NoLostWakeup
    StopDrains
PROPERTIES
    AcceptedRuns

\* Stop ends every thread.
CHECK_DEADLOCK FALSE
