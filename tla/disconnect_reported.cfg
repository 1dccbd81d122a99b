SPECIFICATION Spec
CONSTANTS
    PeerCount = 1
    EventModes = {TRUE}
    Packets = {"RELIABLE"}
PROPERTY DisconnectIsReported
