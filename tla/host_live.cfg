SPECIFICATION FairSpec
CONSTANTS
    PeerCount = 1
    EventModes = {TRUE}
    Packets = {"RELIABLE", "UNRELIABLE"}
INVARIANT ConnectSettled
PROPERTIES
    ConnectAnswered
    DisconnectCompletes
