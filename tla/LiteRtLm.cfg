SPECIFICATION FairSpec
CONSTANTS
    GPU = GPU
    CPU = CPU
    Order <- MCOrder
    Outcomes <- MCOutcomes
    p1 = p1
    p2 = p2
    u1 = u1
    Preps = {p1, p2}
    Users = {u1}
    None = None
    Ttl = 1
    MaxExits = 2
    MaxFaults = 2
CHECK_DEADLOCK FALSE
INVARIANTS
    EngineOutlivesItsUse
    NoEngineLeaks
PROPERTIES
    DelegateRestsAfterItsCrash
    SkipsAreDeserved
    TranslatorAtLast
