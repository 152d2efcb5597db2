SPECIFICATION FairSpec
CONSTANTS
    big = big
    small = small
    r1 = r1
    r2 = r2
    k1 = k1
    nokey = nokey
    Jobs <- OneJob
    Large <- MCLarge
    Replicas <- MCReplicas
    Keys <- MCKeys
    NoKey = nokey
    Retention = 1
    ArtifactRetention = 1
    MaxTime = 2
    MaxFaults = 2
    MaxCrashes = 2
INVARIANTS ResultIsKept ArtifactsAreOwned
PROPERTIES JobsEnd
