--------------------------- MODULE MC_ObjectCounters ---------------------------
EXTENDS ObjectCounters, TLC

CONSTANTS t1, t2

\* The callers are interchangeable.
Symmetry == Permutations({t1, t2})
==============================================================================
