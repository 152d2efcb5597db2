SPECIFICATION FairSpec
CONSTANTS
    Msgs = {m1, m2}
    Consumers = {c1, c2}
    NoMsg = NoMsg
    Slots = 1
    Prefetch = 2
    MaxInterrupts = 1
INVARIANTS IndInv Custody ConfirmedIsKept SettledForCause
PROPERTIES ImplementsDelivery EventuallySettled
CHECK_DEADLOCK FALSE
