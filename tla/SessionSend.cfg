SPECIFICATION FairSpec
CONSTANTS
    t1 = t1  t2 = t2  t3 = t3
    m1 = m1  m2 = m2  m3 = m3  m4 = m4
    NoThread = NoThread
    NoMsg = NoMsg
    Threads = {t1, t2, t3}
    Msgs = {m1, m2, m3, m4}
    WriteSize <- MCWriteSize
    Errors = {"reset", "other"}
    MAX_SEND_BATCH_BYTES = 3
    MAX_SEND_BATCH_COUNT = 2
    MAX_BACKLOG_BYTES = 6
    MAX_BACKLOG_COUNT = 3
    SOFT_BACKLOG_BYTES = 4
    SOFT_BACKLOG_COUNT = 3
CHECK_DEADLOCK FALSE
INVARIANTS
    OneOutstandingSend
    BuffersPinned
    BacklogExact
    QueueServed
PROPERTY
    ImplementsChannel
    Drains
