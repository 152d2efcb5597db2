SPECIFICATION FairSpec
CONSTANTS
    d1 = d1
    d2 = d2
    Docs = {d1}
    NoDoc = NoDoc
    Kind <- ScanKind
    Hash <- OwnHash
    Scans = {d1}
    Blank = {}
    Replicas = {1}
    Faults = {"work"}
    RequeueStatuses = {"queued", "failed"}
    MaxCuts = 1
    MaxRequeues = 1
INVARIANTS TypeOK NothingLost HalfWrittenIsPursued IndexedIsSearchable
PROPERTIES EventuallyDecided
CHECK_DEADLOCK FALSE
