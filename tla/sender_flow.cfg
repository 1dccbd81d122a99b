SPECIFICATION Spec
CONSTANTS
    Channels = {0}
    WindowSize = 2
    Windows = 4
    FreeWindows = 1
    Capacity = 5
    FlowWindow = 6
    Scale = 4
    ThrottleStep = 3
    Settings <- AllSettings
INVARIANTS
    TypeOK
    InTransitCounted
    NextTimeoutOfFirst
    Findable
    WholePackets
    GivenUpInTime
PROPERTIES
    PassKeepsReliable
    GivenUpForSilence
CHECK_DEADLOCK FALSE
