CONSTANTS
    t1 = t1
    t2 = t2
    Threads = {t1, t2}
    Expected = {1, 2}
    MaxCalls = 6
SYMMETRY Symmetry
SPECIFICATION Spec
INVARIANT ConsumersWithinExpected
