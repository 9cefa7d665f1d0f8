SPECIFICATION CoreSpec
CONSTANTS
    HeaderSize = 1
    MaxPacket = 3
    BufferSize = 3
    BUFFER_COUNT = 3
    PacketEnds <- MCPacketEnds
    Threads = {t1, t2}
    Chunks = {m1, m2, m3}
    None = None
    ChunkSize = 3
    Sizes = {1, 2}
    MaxLive = 3
    Users = {t1, t2}
    Blocks = {m1, m2, m3}
    NoBlock = NoBlock
    Requests <- MCRequests
    MemoryHeaderSize = 32
    Takers = {k1, k2, k3}
    la = la
    lb = lb
    lc = lc
    ld = ld
    Locks = {la, lb, lc, ld}
    NoLock = NoLock
    NameOf <- MCNameOf
    MaxHeld = 3
SYMMETRY Symmetry
INVARIANT PooledUpToMax

\* The program stops at a pool pointer that was never set.
CHECK_DEADLOCK FALSE
