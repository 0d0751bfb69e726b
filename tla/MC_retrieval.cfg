SPECIFICATION FairSpec
CONSTANTS
    Points = {"p1", "p2", "p3", "p4"}
    Pages = {"a", "b", "c"}
    Texts <- MCTexts
    NoText = ""
    Stores <- MCStores
    Requests <- MCRequests
    RRF_K = 60
    DenseLimit = 3
    PoolSize = 3
    GraphTopK = 3
INVARIANTS FusedFairly NoRepeats PagesTakeTurns NothingDropped
PROPERTIES QueryAnswered
\* A query that was answered is over.
CHECK_DEADLOCK FALSE
