SPECIFICATION Spec
CONSTANTS
    SessionCount = 4
    Settings <- Worlds
INVARIANTS
    Agreement
    OneSlotEach
    OldOnesRefused
CHECK_DEADLOCK FALSE
