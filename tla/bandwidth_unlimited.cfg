SPECIFICATION BandwidthSpec
CONSTANTS
    Clients = {1, 2, 3}
    ShareScale = 4
    Deceleration = 2
    Rates = {0, 3, 8}
    Loads = {0, 2, 9}
    MaxChanges = 2
INVARIANT NoneUnlimited
CHECK_DEADLOCK FALSE
