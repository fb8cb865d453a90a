SPECIFICATION FfiSpec
CONSTANTS
    NUM_BLOCKS = 2
    BLOCK_BITS = 2
    VersionByte = 2
    MaxU64 = 3
    MaxKey = 2
    TxThreads = {t1}
    RxThreads = {r1}
    NoThread = NoThread
    MaxReservations = 2
    Packets <- Arriving
INVARIANTS CallerReadsOwnPacket HintSound
PROPERTY LocksComeBack
