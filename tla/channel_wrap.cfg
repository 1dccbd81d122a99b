SPECIFICATION Spec
CONSTANTS
    WindowSize = 2
    Windows = 6
    FreeWindows = 3
    Lifetime = 8
    MaxPackets = 15
    Backlog = 1
    MaxLosses = 0
INVARIANTS
    ListsAgree
    NothingForgotten
PROPERTIES
    ImplementsFifo
CHECK_DEADLOCK FALSE
