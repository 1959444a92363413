-------------------------- MODULE MC_ObjectStore ---------------------------
(***************************************************************************)
(* Instances of ObjectStore for TLC: one object of one organization, two  *)
(* destinations, two concurrent callers.  StoreObject is called with one  *)
(* ready, auto-deleted object addressed to every destination, and with    *)
(* one not-yet-ready, inactive object addressed to d1 only, whose         *)
(* activation time has passed.                                            *)
(***************************************************************************)
EXTENDS ObjectStore

CONSTANTS o1, d1, d2, t1, t2

MCMetas ==
    { [status |-> "ReadyToSend", target |-> AnyDest, autoDelete |-> TRUE, inactive |-> FALSE,
       activation |-> ""],
      [status |-> "NotReadyToSend", target |-> d1, autoDelete |-> FALSE, inactive |-> TRUE,
       activation |-> "past"] }
=============================================================================
