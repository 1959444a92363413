CONSTANTS
    t1 = t1
    t2 = t2
    u1 = u1
    u2 = u2
    u3 = u3
    Threads = {t1, t2}
    Urls = {u1, u2, u3}
    Fold <- FoldDistinct
    MaxTries = 2
    MaxCalls = 5
SYMMETRY Symmetry
SPECIFICATION Spec
INVARIANTS TypeOK HooksMatchRequests
