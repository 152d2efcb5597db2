SPECIFICATION Spec
CONSTANTS
    big = big
    small = small
    r1 = r1
    r2 = r2
    k1 = k1
    nokey = nokey
    Jobs <- MCJobs
    Large <- MCLarge
    Replicas <- MCReplicas
    Keys <- MCKeys
    NoKey = nokey
    Retention = 1
    ArtifactRetention = 1
    MaxTime = 1
    MaxFaults = 1
    MaxCrashes = 1
INVARIANTS TypeOK InFlightIsPursued KeyNamesOneJob
PROPERTIES ImplementsLifecycle
SYMMETRY Alike
