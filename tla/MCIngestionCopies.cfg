SPECIFICATION Spec
CONSTANTS
    d1 = d1
    d2 = d2
    Docs = {d1, d2}
    NoDoc = NoDoc
    Kind <- TextKind
    Hash <- SameHash
    Scans = {}
    Blank = {}
    Replicas = {1, 2}
    Faults = {"lookup", "timeout", "publish"}
    RequeueStatuses = {}
    MaxCuts = 1
    MaxRequeues = 0
INVARIANTS NothingLost CopiesStayOut
CHECK_DEADLOCK FALSE
