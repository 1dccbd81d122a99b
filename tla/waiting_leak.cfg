SPECIFICATION Spec
CONSTANTS
    Kinds = {"unreliable", "unreliableFragment"}
    Windows = 6
    WindowSize = 3
    FreeWindows = 3
    UnreliableLimit = 9
    MaximumWaiting = 3
    Start = 16
    MaxPackets = 4
INVARIANT RefusedWhenFull
