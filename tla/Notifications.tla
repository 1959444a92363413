--------------------------- MODULE Notifications ---------------------------
(***************************************************************************)
(* The notifications collection of MongoStorage: one record per            *)
(* (object, destination) with a status and a resend time, written by       *)
(* UpdateNotificationRecord (a replacing upsert), UpdateNotificationResend- *)
(* Time (a $set of the resend time, no upsert) and DeleteNotificationRecords *)
(* (removeAll under three key modes), and read by RetrieveNotifications.   *)
(*                                                                         *)
(* Two kinds of caller use it, as spec 4.4 describes: lifecycle code that  *)
(* records a status change or purges records, and the transport's resend   *)
(* loop, which fetches the due notifications, resends each and pushes its  *)
(* resend time forward.  Neither caller is in this repository; they are    *)
(* modelled from the spec.  Time is kept per record as the number of ticks *)
(* until its resend time (0: due), so "resend-time <= now" is wait = 0.    *)
(***************************************************************************)
EXTENDS Naturals, FiniteSets, Functions, TLC

CONSTANTS
    Objs,       \* object keys (orgID:objectType:objectID) of one org
    Dests,      \* destination keys (destType:destID) of that org
    Statuses,   \* statuses the lifecycle callers write
    Resend,     \* 6 x ResendInterval, in ticks
    MaxCalls    \* bound on lifecycle calls

\* The statuses of common/ the queries name.
ResendStatuses == {"Update", "Received", "Consumed", "Data", "Delete", "Deleted"}
PendingStatuses == {"UpdatePending", "ConsumedPending", "DeletePending", "DeletedPending"}

ASSUME Statuses \subseteq ResendStatuses \cup PendingStatuses
                          \cup {"Getdata", "Updated", "ReceivedByDestination",
                                "ConsumedByDestination", "Error"}
ASSUME Resend \in Nat \ {0} /\ MaxCalls \in Nat

Keys == Objs \X Dests
None == "none"      \* an empty objectType/objectID or destType/destID argument

VARIABLES
    notes,      \* notes[k]: the record of key k, for k in DOMAIN notes
    rs,         \* the resend loop: [pc, todo (keys it fetched and has not resent)]
    calls,      \* lifecycle calls made so far
    written     \* ghost: written[k], the status a lifecycle call last wrote
                \* for k, or "deleted" once a delete removed it

vars == <<notes, rs, calls, written>>

Rec == [status : Statuses, wait : 0..Resend]

Init ==
    /\ notes = <<>>
    /\ rs = [pc |-> "idle", todo |-> {}]
    /\ calls = 0
    /\ written = [k \in Keys |-> "deleted"]

\* Mutant of RetrieveNotifications: the resend query leaves Update out.
RetrieveNotificationsNoUpdate(dest, retrieveReceived) ==
    {k \in DOMAIN notes : notes[k].status = "Getdata"
                          \/ (notes[k].wait = 0 /\ notes[k].status \in ResendStatuses \ {"Update"})}

\* Lines 1294-1348.  Without a destination: every Getdata record and every
\* due record in a resend status; with one: that destination's records in
\* the listed statuses, Data and ReceivedByDestination only when
\* retrieveReceived, whatever their resend time.
RetrieveNotifications(dest, retrieveReceived) ==
    LET due(k) == notes[k].wait = 0
        st(k) == notes[k].status
    IN
    IF dest = None
    THEN {k \in DOMAIN notes : st(k) = "Getdata" \/ (due(k) /\ st(k) \in ResendStatuses)}
    ELSE {k \in DOMAIN notes :
            /\ k[2] = dest
            /\ st(k) \in {"Update", "Received", "Consumed", "Getdata", "Delete", "Deleted"}
                         \cup (IF retrieveReceived THEN {"Data", "ReceivedByDestination"} ELSE {})}

\* Lines 1227-1247.  The record is replaced whole; a notification whose
\* ResendTime is 0 gets now + 6 x ResendInterval, any other keeps the time
\* the caller holds ("old": one it read earlier, due or not).
UpdateNotificationRecord(k, st, rt) ==
    /\ calls < MaxCalls /\ calls' = calls + 1
    /\ \E w \in (IF rt = "fresh" THEN {Resend} ELSE 0..Resend) :
         notes' = (k :> [status |-> st, wait |-> w]) @@ notes
    /\ written' = [written EXCEPT ![k] = st]
    /\ UNCHANGED rs

\* Lines 1270-1292.  Object and destination given: the one record; only
\* the object: all its records; otherwise all records of the destination
\* (none when that is empty too).
DeleteNotificationRecords(o, d) ==
    LET gone == IF o # None
                THEN IF d # None THEN {<<o, d>>} ELSE {k \in Keys : k[1] = o}
                ELSE {k \in Keys : k[2] = d}
    IN
    /\ calls < MaxCalls /\ calls' = calls + 1
    /\ notes' = Restrict(notes, DOMAIN notes \ gone)
    /\ written' = [k \in Keys |-> IF k \in gone THEN "deleted" ELSE written[k]]
    /\ UNCHANGED rs

\* Time passes: every resend time comes one tick closer.
Tick ==
    /\ \E k \in DOMAIN notes : notes[k].wait > 0
    /\ notes' = [k \in DOMAIN notes |-> [notes[k] EXCEPT !.wait = IF @ > 0 THEN @ - 1 ELSE 0]]
    /\ UNCHANGED <<rs, calls, written>>

\* The resend loop fetches the due notifications of the org.
RetrieveDue ==
    /\ rs.pc = "idle"
    /\ rs' = [pc |-> "resending", todo |-> RetrieveNotifications(None, FALSE)]
    /\ UNCHANGED <<notes, calls, written>>

\* Mutants of UpdateNotificationResendTime: the time is pushed one tick
\* too far, and the update is an upsert.
UpdateNotificationResendTimeLate(k) ==
    notes' = IF k \in DOMAIN notes THEN [notes EXCEPT ![k].wait = Resend + 1] ELSE notes

UpdateNotificationResendTimeUpsert(k) ==
    notes' = IF k \in DOMAIN notes THEN [notes EXCEPT ![k].wait = Resend]
             ELSE (k :> [status |-> "", wait |-> Resend]) @@ notes

\* Lines 1249-1256: $set of the resend time on the record with this key;
\* when a delete removed it meanwhile, the update finds nothing and
\* returns an error.
UpdateNotificationResendTime(k) ==
    notes' = IF k \in DOMAIN notes THEN [notes EXCEPT ![k].wait = Resend] ELSE notes

\* The resend loop resends one notification it fetched and pushes its
\* resend time forward; then, with none left, it waits for the next round.
ResendOne(k) ==
    /\ rs.pc = "resending" /\ k \in rs.todo
    /\ UpdateNotificationResendTime(k)
    /\ rs' = [rs EXCEPT !.todo = @ \ {k}]
    /\ UNCHANGED <<calls, written>>

EndRound ==
    /\ rs.pc = "resending" /\ rs.todo = {}
    /\ rs' = [rs EXCEPT !.pc = "idle"]
    /\ UNCHANGED <<notes, calls, written>>

ResendLoop == RetrieveDue \/ (\E k \in Keys : ResendOne(k)) \/ EndRound

Lifecycle ==
    \/ \E k \in Keys, st \in Statuses, rt \in {"fresh", "old"} :
         UpdateNotificationRecord(k, st, rt)
    \/ \E o \in Objs \cup {None}, d \in Dests \cup {None} : DeleteNotificationRecords(o, d)

Next == Lifecycle \/ ResendLoop \/ Tick

\* The resend loop runs in its own goroutine and the clock never stops;
\* lifecycle calls get no fairness.
Spec == Init /\ [][Next]_vars /\ WF_vars(ResendLoop) /\ WF_vars(Tick)

-----------------------------------------------------------------------------
TypeOK ==
    /\ DOMAIN notes \subseteq Keys
    /\ \A k \in DOMAIN notes : notes[k] \in Rec
    /\ rs \in [pc : {"idle", "resending"}, todo : SUBSET Keys]
    /\ calls \in 0..MaxCalls
    /\ written \in [Keys -> Statuses \cup {"deleted"}]

\* A record is what the lifecycle last wrote: a delete is never undone by
\* the resend loop pushing the resend time of a record it fetched before
\* the delete, and a resend never changes a status.
RecordsMatchLastWrite ==
    \A k \in Keys :
        IF k \in DOMAIN notes THEN notes[k].status = written[k] ELSE written[k] = "deleted"

\* Every notification waiting in a resend status (or in Getdata) is fetched
\* by the resend loop, unless its status changes or it is deleted first.
Eligible(k) ==
    k \in DOMAIN notes /\ notes[k].status \in ResendStatuses \cup {"Getdata"}

DueNotificationResent ==
    \A k \in Keys : Eligible(k) ~> (k \in rs.todo \/ ~Eligible(k))
=============================================================================
