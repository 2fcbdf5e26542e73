\* The engine writes no faster than the ring drains: a ring of two slots, four updates.
CONSTANTS
    N_BLOCKS = 2
    MaxWrites = 4
    WriterOutpaces = FALSE
SPECIFICATION Spec
\* Both threads spin idle once the bounded updates are drained.
CHECK_DEADLOCK FALSE
INVARIANTS
    SnapshotFeedMatches
