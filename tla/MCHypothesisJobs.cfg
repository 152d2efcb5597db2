SPECIFICATION FairSpec
CONSTANTS
    verify = verify
    enrich = enrich
    r1 = r1
    r2 = r2
    g1 = g1
    g2 = g2
    Jobs <- MCJobs
    Background <- MCJobs
    Replicas <- MCReplicas
    AskedAt <- MCAskedAt
    Goroutines <- MCGoroutines
    Slots = 1
    GlobalMax = 2
    MaxFaults = 1
    MaxCrashes = 1
    MaxLapses = 1
INVARIANTS TypeOK ClaimsExclude StartsAreFew
PROPERTIES StartsOnlyQueued FinishedIsKept AcceptedIsDecided
CHECK_DEADLOCK FALSE
