SPECIFICATION FairSpec
CONSTANTS
    Space <- S
    Alphabetic = {1, 2, 3, 4, 5}
    MinTrackedRun = 3
    MaxConnectorGap = 2
    SplitWindow = 3
    Lookback = 3
    Overlap = 1
    ChunkSize = 2
    Documents <- SmallDocuments
    BatchSize = 1
    Faults = {"embed", "vectors", "lexical"}
    MaxAttempts = 2
INVARIANTS TypeOK IndexedIsComplete WrittenIsDurable QuietAtReturn ProvenanceIsExact WindowsAdvance
PROPERTIES EventuallyReturns
CHECK_DEADLOCK FALSE
