SPECIFICATION LockSpec
CONSTANTS
    Paths = {p1}
    Clients = {c1, c2, c3}
    TicksPerSecond = 2
    DefaultTTL = 3
    TtlSeconds = {0, 1, 2, 5}
    Width = 8
    LastTime = 9
    Nobody = Nobody
INVARIANT ViewIsHeld
