SPECIFICATION LogFairSpec
CONSTANTS
    Threads = {room, t1, t2}
    Connections = {c1, c2}
    None = None
    RoomWorker = room
    Producers = {p1}
    Jobs = {f1, d1, d2}
    NoJob = NoJob
    DbJobs = {d1, d2}
INVARIANTS
    Conserved
    NoLostWakeup
    StopsClean
PROPERTIES
    RoomStops

\* The process ends: every room stopped and the pool cleared.
CHECK_DEADLOCK FALSE
