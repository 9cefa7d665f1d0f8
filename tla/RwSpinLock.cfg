SPECIFICATION FairSpec
CONSTANTS
    Threads = {1, 2, 3}
    MaxDepth = 2
CHECK_DEADLOCK FALSE
INVARIANTS
    FlagFaithful
    NoOrderCrash
PROPERTY
    ImplementsRWLock
    Reacquired
