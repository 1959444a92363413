--------------------------- MODULE MC_LeaderElection ---------------------------
EXTENDS LeaderElection

CONSTANTS n1, n2

MCNodes == {n1, n2}
==============================================================================
