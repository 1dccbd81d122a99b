SPECIFICATION Spec
CONSTANTS
    PeerCount = 2
    EventModes = {TRUE, FALSE}
    Packets = {"RELIABLE"}
INVARIANT NoLostEvent
CHECK_DEADLOCK FALSE
