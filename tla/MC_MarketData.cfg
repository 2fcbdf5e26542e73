\* Three engine updates over two order ids; the incremental group loses up
\* to two datagrams and duplicates one, the snapshot group loses one, and
\* the synthesizer keeps publishing while the consumer recovers.
CONSTANTS
    MaxOid = 2
    Qtys = {1, 2}
    MaxUpdates = 3
    MaxIncLoss = 2
    MaxSnapLoss = 1
    MaxIncDup = 1
SPECIFICATION HFairSpec
\* Every thread spins idle once the bounded updates are delivered.
CHECK_DEADLOCK FALSE
INVARIANTS
    TypeOK
PROPERTIES
    MarketFeedRefined
    RecoveryEnds
