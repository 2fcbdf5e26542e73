\* Five exchange events over four order ids, three prices and two
\* quantities, with snapshot recoveries; four level blocks, as many as
\* price slots.
SPECIFICATION Spec
CONSTANTS
    MaxOid = 4
    Prices = {1, 2, 3}
    Qtys = {1, 2}
    MAX_PRICE_LEVELS = 4
    MaxUpdates = 5
    Recovery = TRUE
    INVALID = INVALID
INVARIANTS
    TypeOK
    LiveReplicaMatches
    LevelPoolConsistent
    BBOSoundWhenValid
\* The exchange stops after MaxUpdates events and the replica idles.
CHECK_DEADLOCK FALSE
