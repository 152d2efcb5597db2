SPECIFICATION Spec
CONSTANTS
    d1 = d1
    q1 = q1
    q2 = q2
    ann = ann
    bob = bob
    Docs <- MCDocs
    Owners <- MCOwners
    OwnerOf <- MCOwnerOf
    Queries <- MCQueries
    Agentic <- MCAgentic
    MaxHops = 2
    MaxLapses = 1
    Shared = shared
INVARIANTS TypeOK AnnouncedIsSeen AnswersStayInScope
CHECK_DEADLOCK FALSE
