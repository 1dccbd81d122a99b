SPECIFICATION Spec
CONSTANTS
    PeerCount = 2
    EventModes = {TRUE}
    Packets = {"RELIABLE"}
INVARIANTS
    TypeOK
    CountersMatch
    QueuedOnce
    NoLostEvent
    NoStrandedPeer
    ViewAgrees
PROPERTIES
    ImplementsLifecycle
    EventKept
