\* Two callers, every operation, conditional updates on unique tokens.
CONSTANTS
    o1 = o1  d1 = d1  d2 = d2  t1 = t1  t2 = t2  AnyDest = AnyDest
    Objects = {o1}
    Dests = {d1, d2}
    Threads = {t1, t2}
    Metas <- MCMetas
    MaxTries = 2
    MaxCalls = 5
    EmptyTokenKept = FALSE
SPECIFICATION Spec
INVARIANTS
    TypeOK
    NoLostDeliveryUpdate
    AllConsumedSetsExpiration
PROPERTY DueObjectActivated
