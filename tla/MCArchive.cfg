SPECIFICATION FairSpec
CONSTANTS
    a = a
    b = b
    c = c
    e = e
    f = f
    g = g
    h = h
    Items = {a, b, c, e, f, g, h}
    Archives = {a, b, c}
    Root = a
    Uploaded = {e}
    Content <- SmallContent
    Hash <- SmallHash
    NoHash = NoHash
    Junk = {h}
    Nobody = Nobody
    MaxDepth = 2
    Workers = 1
    Concurrency = 2
    Faults <- SmallFaults
    Fragile = {f}
    MaxDeliveries = 6
    MaxCuts = 1
INVARIANTS TypeOK NoEntryVanishes IndexedOnce
PROPERTIES EventuallyUnpacked
CHECK_DEADLOCK FALSE
