\* The exchange book under every sequence of up to MaxRequests NEW and
\* CANCEL requests from two clients that number their orders 1, 2, ...
CONSTANTS
    c1 = c1
    c2 = c2
    Clients <- MC_Clients
    MaxClientOid = 3
    Prices = {1, 2, 3}
    Qtys = {1, 2}
    MAX_PRICE_LEVELS = 4
    MaxRequests = 4
    ReuseClientOids = FALSE
    INVALID = INVALID
SYMMETRY MC_Symmetry
SPECIFICATION Spec
\* The matching engine thread spins on an empty request ring: it may stop.
CHECK_DEADLOCK FALSE
INVARIANTS
    TypeOK
    BookWellFormed
    NoCrossedBook
    IndexConsistent
    QtyConservation
    MarketDataReplay
PROPERTIES
    PriceTimePriority
