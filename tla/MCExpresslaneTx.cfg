SPECIFICATION TxSpec
CONSTANTS
    VersionByte = 2
    MaxU64 = 2
    MaxKey = 2
    TxThreads = {t1, t2, t3}
    NoThread = NoThread
    MaxReservations = 3
INVARIANT UniqueCounters
PROPERTIES KeyOrder TxCallsReturn
