SPECIFICATION Spec
CONSTANTS
    Modulus = 24
    Overflow = 10
    Stamp = 6
    MaxTimeout = 2
    MaxPause = 10
    MaxEcho = 5
    Lists = {l1, l2}
    Nodes = {n1, n2, n3}
    Garbage = garbage
    Windows = 8
    WindowSize = 2
    FreeWindows = 4
    Lifetime = 9
    Burst = 6
    MaxSent = 34
    PeerCount = 3
    Refused = {1}
    MaxBacklog = 2
    Clients = {1, 2, 3}
    ShareScale = 4
    Deceleration = 2
    Rates = {0, 3, 8}
    Loads = {0, 2, 9}
    MaxChanges = 2
    Memory = {m1, m2}
    Objects = {o1, o2, o3}
    Events = {e1}
    PeerSlots = {s1, s2}
    Runtimes = {r1, r2}
    MaxParts = 2
    MaxHeld = 2
INVARIANTS
    TypeOK
    TimeoutsOnTime
    RoundTripExact
    Threaded
    NeverTwice
    PlaceKept
    NotOverwhelmed
    OwnedOnce
PROPERTIES
    Ordered
    CallsServe
CHECK_DEADLOCK FALSE
