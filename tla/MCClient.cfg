SPECIFICATION Spec
CONSTANTS
    PayloadTicks = {"key_share", "codec"}
    UnitsPerMs = 2
    MaxTimeoutMs = 2
    Delays = {1, 5}
    MaxConnections = 2
    MaxSchedules = 2
    MaxLag = 1
INVARIANTS
    DisconnectedOnce
    CachedStateExact
    NoDeadConnection
    WakesOnTime
    HandshakeTimed
PROPERTIES
    InfoStable
    TicksKept
    TicksServed
