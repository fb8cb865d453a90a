SPECIFICATION RxSpec
CONSTANTS
    NUM_BLOCKS = 2
    BLOCK_BITS = 2
    VersionByte = 2
    MaxU64 = 7
    MaxKey = 2
    RxThreads = {r1, r2}
    NoThread = NoThread
    Packets <- Arriving
    ArrivingCounters = {0, 1, 5}
INVARIANTS WindowExact DeliveredOnce RefusedCommitUnreachable BufferClean OnlyAuthentic
PROPERTY ImplementsFilter
