----------------------------- MODULE LeaderLease -----------------------------
(***************************************************************************)
(* What the leader document promises, seen from far away: a singleton     *)
(* lease that has an owner and an epoch.  The owner changes only by an    *)
(* acquisition, and every acquisition takes the next epoch, so an epoch   *)
(* names exactly one owner.  Heartbeats and resignations only move the    *)
(* lease's timestamp and are stuttering steps here.                       *)
(***************************************************************************)
EXTENDS Naturals

CONSTANTS Nodes, NoNode

VARIABLES owner, epoch

leaseVars == <<owner, epoch>>

Init == owner = NoNode /\ epoch = 0

\* A node becomes owner under the epoch that follows the current one.
Acquire(n) ==
    /\ owner' = n
    /\ epoch' = epoch + 1

Next == \E n \in Nodes : Acquire(n)

Spec == Init /\ [][Next]_leaseVars
==============================================================================
