SPECIFICATION Spec
CONSTANTS
    Kinds = {"reliable", "unreliable", "unsequenced", "fragment", "unreliableFragment"}
    Windows = 6
    WindowSize = 3
    FreeWindows = 3
    UnreliableLimit = 2
    MaximumWaiting = 5
    Start = 16
    MaxPackets = 4
INVARIANTS
    FaithfulDelivery
    NothingReadyWaits
    HeldIsBounded
