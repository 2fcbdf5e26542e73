SPECIFICATION Spec
CONSTANTS
    MaxOid = 4
    Prices = {1, 2, 3}
    Qtys = {1, 2}
    MAX_PRICE_LEVELS = 4
    MaxUpdates = 5
    Recovery = TRUE
    INVALID = INVALID
INVARIANTS
    ReplicaMatches
CHECK_DEADLOCK FALSE
