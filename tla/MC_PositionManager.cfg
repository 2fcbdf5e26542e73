\* Up to five fills and BBO updates at prices 1..3 with quantities 1 and 2:
\* enough to open, increase, partly close, close and flip a position.
SPECIFICATION Spec
CONSTANTS
    Prices = {1, 2, 3}
    Qtys = {1, 2}
    MaxEvents = 5
    INVALID = INVALID
INVARIANTS
    MarkToMarket
    OpenSideConsistent
\* The caller stops after MaxEvents calls.
CHECK_DEADLOCK FALSE
