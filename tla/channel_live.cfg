SPECIFICATION FairSpec
CONSTANTS
    WindowSize = 2
    Windows = 6
    FreeWindows = 3
    Lifetime = 8
    MaxPackets = 4
    Backlog = 1
    MaxLosses = 2
PROPERTY ChannelDrains
CHECK_DEADLOCK FALSE
