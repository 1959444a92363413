------------------------------ MODULE MC_Webhooks ------------------------------
EXTENDS Webhooks, TLC

CONSTANTS t1, t2, u1, u2, u3

\* Three URLs that differ by more than case.
FoldDistinct == (u1 :> "a") @@ (u2 :> "b") @@ (u3 :> "c")

\* u1 and u2 differ only by case, u3 is another URL.
FoldCaseVariants == (u1 :> "a") @@ (u2 :> "a") @@ (u3 :> "c")

Symmetry == Permutations({t1, t2})
==============================================================================
