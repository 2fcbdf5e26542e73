\* As MC_MarketData.cfg, with a snapshot group that loses two datagrams
\* and an incremental group that loses one and duplicates none.
CONSTANTS
    MaxOid = 2
    Qtys = {1, 2}
    MaxUpdates = 3
    MaxIncLoss = 1
    MaxSnapLoss = 2
    MaxIncDup = 0
SPECIFICATION Spec
\* Every thread spins idle once the bounded updates are delivered.
CHECK_DEADLOCK FALSE
INVARIANT
    ReplicaConsistent
