SPECIFICATION Spec
CONSTANTS
    a = a
    b = b
    x = x
    ann = ann
    bob = bob
    Clients <- MCClients
    Owners <- MCOwners
    OwnerOf <- MCOwnerOf
    Buffer = 1
    MaxEvents = 2
INVARIANTS NoPanic
CHECK_DEADLOCK FALSE
