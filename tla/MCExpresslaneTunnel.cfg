SPECIFICATION TunnelSpec
CONSTANTS
    NUM_BLOCKS = 2
    BLOCK_BITS = 2
    VersionByte = 2
    MaxU64 = 3
    MaxKey = 3
    TxThreads = {t1, t2}
    RxThreads = {r1}
    NoThread = NoThread
    Packets = {}
    MaxReservations = 2
INVARIANTS DeliveredWasSent NoLossInRotation
CHECK_DEADLOCK FALSE
