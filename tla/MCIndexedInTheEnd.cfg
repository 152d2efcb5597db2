SPECIFICATION Spec
CONSTANTS
    d1 = d1
    d2 = d2
    Docs = {d1}
    NoDoc = NoDoc
    Kind <- OfficeKind
    Hash <- OwnHash
    Scans = {}
    Blank = {}
    Replicas = {1}
    Faults = {}
    RequeueStatuses = {}
    MaxCuts = 0
    MaxRequeues = 0
INVARIANTS IndexedInTheEnd
CHECK_DEADLOCK FALSE
