---------------------------- MODULE ObjectCounters ----------------------------
(***************************************************************************)
(* The consumer and receiver counters of one object document: StoreObject *)
(* sets both to metadata.ExpectedConsumers, DecrementAndReturnRemaining-  *)
(* Consumers/-Receivers apply an atomic $inc of -1 and then read the      *)
(* counter back with a second query, ResetObjectRemainingConsumers reads  *)
(* the metadata and then $sets the consumer counter, and                  *)
(* DeleteStoredObject removes the document.  Each call is a thread whose  *)
(* steps are the single-document operations it sends to the database.    *)
(***************************************************************************)
EXTENDS Integers, FiniteSets

CONSTANTS
    Threads,     \* concurrent callers
    Expected,    \* ExpectedConsumers values StoreObject may be called with
    MaxCalls     \* bound on the calls made in a behaviour

Counters == {"remaining-consumers", "remaining-receivers"}

VARIABLES
    doc,      \* [exists, expected, cnt: counter -> value]
    th,       \* th[t]: [pc, k (counter), val (value read)]
    calls,    \* calls started so far
    setTo,    \* ghost: value each counter was last $set to
    decs      \* ghost: $inc(-1) applied to each counter since that $set

vars == <<doc, th, calls, setTo, decs>>

NoDoc == [exists |-> FALSE, expected |-> 0, cnt |-> [k \in Counters |-> 0]]
Idle == [pc |-> "idle", k |-> "remaining-consumers", val |-> 0]
PCs == {"idle", "dec_inc", "dec_read", "reset_read", "reset_set"}

Init ==
    /\ doc = NoDoc
    /\ th = [t \in Threads |-> Idle]
    /\ calls = 0
    /\ setTo = [k \in Counters |-> 0]
    /\ decs = [k \in Counters |-> 0]

Begin(t) == th[t].pc = "idle" /\ calls < MaxCalls /\ calls' = calls + 1
Return(t) == th' = [th EXCEPT ![t] = Idle]

\* StoreObject's upsert (lines 393-398): both counters start at
\* ExpectedConsumers.
StoreObject(e) ==
    /\ calls < MaxCalls /\ calls' = calls + 1
    /\ doc' = [exists |-> TRUE, expected |-> e, cnt |-> [k \in Counters |-> e]]
    /\ setTo' = [k \in Counters |-> e]
    /\ decs' = [k \in Counters |-> 0]
    /\ UNCHANGED th

\* DeleteStoredObject (lines 969-986): the document goes.
DeleteStoredObject ==
    /\ calls < MaxCalls /\ calls' = calls + 1
    /\ doc' = NoDoc
    /\ UNCHANGED <<th, setTo, decs>>

StartDecrement(t, k) ==
    /\ Begin(t)
    /\ th' = [th EXCEPT ![t] = [Idle EXCEPT !.pc = "dec_inc", !.k = k]]
    /\ UNCHANGED <<doc, setTo, decs>>

\* The two decrement methods are the same two steps on different counters.
DecrementAndReturnRemainingConsumers(t) == StartDecrement(t, "remaining-consumers")
DecrementAndReturnRemainingReceivers(t) == StartDecrement(t, "remaining-receivers")

\* The update with $inc -1 (lines 559-566 and 577-584); ErrNotFound when
\* the document is gone is an error return.
DecInc(t) ==
    LET k == th[t].k IN
    /\ th[t].pc = "dec_inc"
    /\ IF doc.exists
         THEN /\ doc' = [doc EXCEPT !.cnt[k] = @ - 1]
              /\ decs' = [decs EXCEPT ![k] = @ + 1]
              /\ th' = [th EXCEPT ![t].pc = "dec_read"]
         ELSE /\ Return(t)
              /\ UNCHANGED <<doc, decs>>
    /\ UNCHANGED <<calls, setTo>>

\* The fetchOne that follows (lines 567-570): it returns the counter as it
\* is now, whatever happened to it since this call's own $inc.
DecRead(t) ==
    /\ th[t].pc = "dec_read"
    /\ Return(t)
    /\ UNCHANGED <<doc, calls, setTo, decs>>

StartReset(t) ==
    /\ Begin(t)
    /\ th' = [th EXCEPT ![t] = [Idle EXCEPT !.pc = "reset_read"]]
    /\ UNCHANGED <<doc, setTo, decs>>

\* Mutant of ResetRead: the projection reads the counter, not the metadata.
ResetReadCounter(t) ==
    /\ th[t].pc = "reset_read"
    /\ IF doc.exists
         THEN th' = [th EXCEPT ![t].pc = "reset_set",
                              ![t].val = doc.cnt["remaining-consumers"]]
         ELSE Return(t)
    /\ UNCHANGED <<doc, calls, setTo, decs>>

\* ResetObjectRemainingConsumers, the metadata fetch (lines 594-598).
ResetRead(t) ==
    /\ th[t].pc = "reset_read"
    /\ IF doc.exists
         THEN th' = [th EXCEPT ![t].pc = "reset_set", ![t].val = doc.expected]
         ELSE Return(t)
    /\ UNCHANGED <<doc, calls, setTo, decs>>

\* Mutant of ResetSet: the receiver counter is reset as well.
ResetSetBoth(t) ==
    /\ th[t].pc = "reset_set"
    /\ IF doc.exists
         THEN /\ doc' = [doc EXCEPT !.cnt = [k \in Counters |-> th[t].val]]
              /\ setTo' = [setTo EXCEPT !["remaining-consumers"] = th[t].val]
              /\ decs' = [decs EXCEPT !["remaining-consumers"] = 0]
         ELSE UNCHANGED <<doc, setTo, decs>>
    /\ Return(t)
    /\ UNCHANGED calls

\* The unconditional $set of the value read (lines 600-606).
ResetSet(t) ==
    LET k == "remaining-consumers" IN
    /\ th[t].pc = "reset_set"
    /\ IF doc.exists
         THEN /\ doc' = [doc EXCEPT !.cnt[k] = th[t].val]
              /\ setTo' = [setTo EXCEPT ![k] = th[t].val]
              /\ decs' = [decs EXCEPT ![k] = 0]
         ELSE UNCHANGED <<doc, setTo, decs>>
    /\ Return(t)
    /\ UNCHANGED calls

Terminated ==
    /\ calls = MaxCalls /\ \A t \in Threads : th[t].pc = "idle"
    /\ UNCHANGED vars

Next ==
    \/ \E e \in Expected : StoreObject(e)
    \/ DeleteStoredObject
    \/ \E t \in Threads :
         \/ DecrementAndReturnRemainingConsumers(t)
         \/ DecrementAndReturnRemainingReceivers(t)
         \/ StartReset(t)
         \/ DecInc(t) \/ DecRead(t) \/ ResetRead(t) \/ ResetSet(t)
    \/ Terminated

Spec == Init /\ [][Next]_vars

-----------------------------------------------------------------------------
TypeOK ==
    /\ doc.exists \in BOOLEAN /\ doc.expected \in Expected \cup {0}
    /\ doc.cnt \in [Counters -> -MaxCalls..MaxCalls]
    /\ th \in [Threads -> [pc : PCs, k : Counters, val : Expected \cup {0}]]
    /\ calls \in 0..MaxCalls

\* No decrement is lost or doubled: each counter equals the value it was
\* last set to (by StoreObject, or by a reset for the consumer counter)
\* minus the decrements applied since, however the calls interleave.
NoLostDecrement ==
    doc.exists => \A k \in Counters : doc.cnt[k] = setTo[k] - decs[k]

\* The design's invariant: remainingConsumers never exceeds
\* metadata.expectedConsumers.
ConsumersWithinExpected ==
    doc.exists => doc.cnt["remaining-consumers"] <= doc.expected
==============================================================================
