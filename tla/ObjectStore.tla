---------------------------- MODULE ObjectStore ----------------------------
(***************************************************************************)
(* The objects collection of MongoStorage and the operations that change  *)
(* an object's status and its list of per-destination delivery states.    *)
(*                                                                         *)
(* A read-modify-write operation reads the document with its last-update  *)
(* token, computes the new destinations list and writes it only if the    *)
(* token is unchanged ("_id" and "last-update" in the filter), retrying   *)
(* up to maxUpdateTries times.  Every call is a thread of the model; its  *)
(* steps are the reads and writes the code makes, so calls interleave at  *)
(* exactly the points where the database lets them.  Payload, messages,   *)
(* instance ids and sizes are left out: no property here reads them.      *)
(***************************************************************************)
EXTENDS Naturals, Sequences, FiniteSets, SequencesExt

CONSTANTS
    Objects,         \* object ids of one organization
    Dests,           \* destinations (destType, destID) of that organization
    Threads,         \* concurrent callers of the storage
    Metas,           \* metadata records StoreObject may be called with
    MaxTries,        \* maxUpdateTries (5 in the code)
    MaxCalls,        \* bound on the calls made in a behaviour
    EmptyTokenKept,  \* a replacing upsert stores the empty timestamp as is
    AnyDest          \* model value: metadata names no destination

DStatus == {"Pending", "Delivering", "Delivered", "Consumed", "Error"}
NotListed == "NotListed"
OStatus == {"NotReadyToSend", "ReadyToSend", "ObjDeleted"}
Entry == [d : Dests, st : DStatus]
\* metadata.activation-time against the maintenance loop's now: empty, at or
\* before it, or after it (the model's time does not reach it).
Activation == {"", "past", "future"}
Meta == [status : {"NotReadyToSend", "ReadyToSend"}, target : Dests \cup {AnyDest},
         autoDelete : BOOLEAN, inactive : BOOLEAN, activation : Activation]

ASSUME Metas \subseteq Meta /\ MaxTries \in Nat \ {0} /\ MaxCalls \in Nat
ASSUME EmptyTokenKept \in BOOLEAN

VARIABLES
    objs,       \* objs[o]: the document of object o
    directory,  \* destinations collection: the registered destinations
    clock,      \* last timestamp handed out by $currentDate
    th,         \* th[t]: the call thread t is running
    calls,      \* calls started so far
    intended,   \* ghost: intended[o][d], status last set on purpose for d,
                \* or NotListed
    mt          \* the maintenance loop: [pc, todo (objects fetched to activate)]

storeVars == <<objs, directory, clock, th, calls, intended>>
vars == <<objs, directory, clock, th, calls, intended, mt>>

Doc == [exists : BOOLEAN, status : OStatus, deleted : BOOLEAN, inactive : BOOLEAN,
        autoDelete : BOOLEAN, target : Dests \cup {AnyDest}, expiration : BOOLEAN,
        activation : Activation, dests : Seq(Entry), token : Nat]
NoDoc == [exists |-> FALSE, status |-> "NotReadyToSend", deleted |-> FALSE,
          inactive |-> FALSE, autoDelete |-> FALSE, target |-> AnyDest,
          expiration |-> FALSE, activation |-> "", dests |-> <<>>, token |-> 0]
Idle == [pc |-> "idle", o |-> CHOOSE o \in Objects : TRUE, d |-> CHOOSE d \in Dests : TRUE,
         st |-> "Pending", tries |-> 0, snap |-> NoDoc, meta |-> CHOOSE m \in Metas : TRUE,
         rs |-> [o \in Objects |-> NoDoc], todo |-> {}]

Init ==
    /\ objs = [o \in Objects |-> NoDoc]
    /\ directory = {}
    /\ clock = 1
    /\ th = [t \in Threads |-> Idle]
    /\ calls = 0
    /\ intended = [o \in Objects |-> [d \in Dests |-> NotListed]]
    /\ mt = [pc |-> "idle", todo |-> {}]

\* A write carrying $currentDate: the document gets a new, larger token.
Stamp(doc) == [doc EXCEPT !.token = clock + 1]
Tick == clock' = clock + 1

Matches(doc, d) == doc.target \in {AnyDest, d}
IndexOf(ds, d) == CHOOSE i \in DOMAIN ds : ds[i].d = d /\ \A j \in 1..i - 1 : ds[j].d # d
Listed(ds) == {ds[i].d : i \in DOMAIN ds}

Return(t) == th' = [th EXCEPT ![t] = Idle]
Begin(t) == th[t].pc = "idle" /\ calls < MaxCalls /\ calls' = calls + 1

\* Mutant of Retry: the loop retries without bound.
RetryUnbounded(t, pc) == th' = [th EXCEPT ![t].pc = pc, ![t].tries = @ + 1]

\* A conditional update found the token changed: retry or give up.
Retry(t, pc) ==
    IF th[t].tries + 1 < MaxTries
    THEN th' = [th EXCEPT ![t].pc = pc, ![t].tries = @ + 1]
    ELSE Return(t)

-----------------------------------------------------------------------------
(* UpdateObjectDeliveryStatus, lines 443-498. *)

\* Mutant of AllConsumedExcept: the updated entry's old status counts too.
AllConsumedIncluding(ds, i) == \A j \in DOMAIN ds : ds[j].st = "Consumed"

\* allConsumed of lines 458-471: every entry but the updated one is Consumed.
AllConsumedExcept(ds, i) == \A j \in DOMAIN ds : j # i => ds[j].st = "Consumed"

\* The fetch and the loop over the destinations (lines 451-476): the first
\* entry of the destination is updated; no entry is an error return.
UDSFetch(t) ==
    LET doc == objs[th[t].o] IN
    /\ th[t].pc = "uds_fetch"
    /\ IF doc.exists /\ th[t].d \in Listed(doc.dests)
       THEN th' = [th EXCEPT ![t].pc = "uds_update", ![t].snap = doc]
       ELSE Return(t)
    /\ UNCHANGED <<objs, directory, clock, calls, intended>>

\* The conditional update of lines 478-494, with the expiration set when
\* the object is autoDelete and every destination has now consumed it.
UDSUpdate(t) ==
    LET o == th[t].o
        s == th[t].snap
        i == IndexOf(s.dests, th[t].d)
        setExp == s.autoDelete /\ th[t].st = "Consumed" /\ AllConsumedExcept(s.dests, i)
                  /\ ~s.expiration
    IN
    /\ th[t].pc = "uds_update"
    /\ IF objs[o].exists /\ objs[o].token = s.token
       THEN /\ objs' = [objs EXCEPT ![o] = Stamp([@ EXCEPT
                           !.dests = [s.dests EXCEPT ![i].st = th[t].st],
                           !.expiration = @ \/ setExp])]
            /\ Tick
            /\ intended' = [intended EXCEPT ![o][th[t].d] = th[t].st]
            /\ Return(t)
       ELSE Retry(t, "uds_fetch") /\ UNCHANGED <<objs, clock, intended>>
    /\ UNCHANGED <<directory, calls>>

\* Lines 443-449: a call with a status starts by fetching the object.
StartUDS(t, o, d, st) ==
    /\ Begin(t)
    /\ th' = [th EXCEPT ![t] = [Idle EXCEPT !.pc = "uds_fetch", !.o = o, !.d = d, !.st = st]]
    /\ UNCHANGED <<objs, directory, clock, intended>>

-----------------------------------------------------------------------------
(* UpdateObjectDelivering, lines 501-527: every entry becomes Delivering. *)

StartDelivering(t, o) ==
    /\ Begin(t)
    /\ th' = [th EXCEPT ![t] = [Idle EXCEPT !.pc = "del_fetch", !.o = o]]
    /\ UNCHANGED <<objs, directory, clock, intended>>

DelFetch(t) ==
    /\ th[t].pc = "del_fetch"
    /\ IF objs[th[t].o].exists
       THEN th' = [th EXCEPT ![t].pc = "del_update", ![t].snap = objs[th[t].o]]
       ELSE Return(t)
    /\ UNCHANGED <<objs, directory, clock, calls, intended>>

\* Mutant of DelUpdate: the update filters on "_id" only.
DelUpdateNoToken(t) ==
    LET o == th[t].o
        s == th[t].snap
    IN
    /\ th[t].pc = "del_update"
    /\ IF objs[o].exists
       THEN /\ objs' = [objs EXCEPT ![o] = Stamp([@ EXCEPT
                           !.dests = [i \in DOMAIN s.dests |-> [s.dests[i] EXCEPT !.st = "Delivering"]]])]
            /\ Tick
            /\ intended' = [intended EXCEPT ![o] = [d \in Dests |->
                               IF d \in Listed(s.dests) THEN "Delivering" ELSE @[d]]]
            /\ Return(t)
       ELSE Retry(t, "del_fetch") /\ UNCHANGED <<objs, clock, intended>>
    /\ UNCHANGED <<directory, calls>>

DelUpdate(t) ==
    LET o == th[t].o
        s == th[t].snap
    IN
    /\ th[t].pc = "del_update"
    /\ IF objs[o].exists /\ objs[o].token = s.token
       THEN /\ objs' = [objs EXCEPT ![o] = Stamp([@ EXCEPT
                           !.dests = [i \in DOMAIN s.dests |-> [s.dests[i] EXCEPT !.st = "Delivering"]]])]
            /\ Tick
            /\ intended' = [intended EXCEPT ![o] = [d \in Dests |->
                               IF d \in Listed(s.dests) THEN "Delivering" ELSE @[d]]]
            /\ Return(t)
       ELSE Retry(t, "del_fetch") /\ UNCHANGED <<objs, clock, intended>>
    /\ UNCHANGED <<directory, calls>>

-----------------------------------------------------------------------------
(* RetrieveObjects, lines 644-692: the objects of the organization that   *)
(* are ReadyToSend or NotReadyToSend and addressed to d each get d        *)
(* appended to their list, Delivering if the object is ready and active,  *)
(* Pending otherwise.  A failed conditional update restarts the whole     *)
(* loop (continue OUTER) on a fresh fetch.                                *)

ROFetch(t) ==
    LET fetched == {o \in Objects : objs[o].exists /\
                                    objs[o].status \in {"ReadyToSend", "NotReadyToSend"}}
    IN
    /\ th[t].pc = "ro_fetch"
    /\ th' = [th EXCEPT ![t].pc = "ro_update", ![t].rs = objs,
                        ![t].todo = {o \in fetched : Matches(objs[o], th[t].d)}]
    /\ UNCHANGED <<objs, directory, clock, calls, intended>>

\* One turn of the loop over the fetched objects (lines 663-685), in the
\* order the database returned them; RetrieveDestination failing (d not
\* registered) skips the append.
ROUpdate(t) ==
    LET d == th[t].d IN
    /\ th[t].pc = "ro_update"
    /\ \/ /\ th[t].todo = {}
          /\ Return(t)
          /\ UNCHANGED <<objs, clock, intended>>
       \/ \E o \in th[t].todo :
            LET r == th[t].rs[o]
                st == IF r.status = "ReadyToSend" /\ ~r.inactive THEN "Delivering" ELSE "Pending"
            IN
            \/ /\ d \notin directory
               /\ th' = [th EXCEPT ![t].todo = @ \ {o}]
               /\ UNCHANGED <<objs, clock, intended>>
            \/ /\ d \in directory
               /\ objs[o].exists /\ objs[o].token = r.token
               /\ objs' = [objs EXCEPT ![o] = Stamp([@ EXCEPT
                              !.dests = Append(r.dests, [d |-> d, st |-> st])])]
               /\ Tick
               /\ intended' = IF d \in Listed(r.dests) THEN intended
                              ELSE [intended EXCEPT ![o][d] = st]
               /\ th' = [th EXCEPT ![t].todo = @ \ {o}]
            \/ /\ d \in directory
               /\ ~(objs[o].exists /\ objs[o].token = r.token)
               /\ Retry(t, "ro_fetch")
               /\ UNCHANGED <<objs, clock, intended>>
    /\ UNCHANGED <<directory, calls>>

StartRO(t, d) ==
    /\ Begin(t)
    /\ th' = [th EXCEPT ![t] = [Idle EXCEPT !.pc = "ro_fetch", !.d = d]]
    /\ UNCHANGED <<objs, directory, clock, intended>>

-----------------------------------------------------------------------------
(* StoreObject, lines 371-401, called on the origin (status NotReadyToSend *)
(* or ReadyToSend): createDestinations reads the destinations collection   *)
(* for the metadata's target, then the whole document is upserted with    *)
(* every entry Pending.  The upsert carries no $currentDate: its document *)
(* has the empty timestamp in last-update, which the server replaces on   *)
(* an insert; on a replacement it is kept when EmptyTokenKept.             *)

StartStoreObject(t, o, m) ==
    /\ Begin(t)
    /\ th' = [th EXCEPT ![t] = [Idle EXCEPT !.pc = "so_upsert", !.o = o, !.meta = m,
                 !.snap = [NoDoc EXCEPT !.dests =
                     LET ds == SetToSeq({d \in directory : m.target \in {AnyDest, d}})
                     IN [i \in DOMAIN ds |-> [d |-> ds[i], st |-> "Pending"]]]]]
    /\ UNCHANGED <<objs, directory, clock, intended>>

SOUpsert(t) ==
    LET o == th[t].o
        m == th[t].meta
        ds == th[t].snap.dests
        doc == [exists |-> TRUE, status |-> m.status, deleted |-> FALSE,
                inactive |-> m.inactive, autoDelete |-> m.autoDelete, target |-> m.target,
                expiration |-> FALSE, activation |-> m.activation, dests |-> ds, token |-> 0]
    IN
    /\ th[t].pc = "so_upsert"
    /\ IF EmptyTokenKept /\ objs[o].exists
       THEN objs' = [objs EXCEPT ![o] = doc] /\ UNCHANGED clock
       ELSE objs' = [objs EXCEPT ![o] = Stamp(doc)] /\ Tick
    /\ intended' = [intended EXCEPT ![o] = [d \in Dests |->
                       IF d \in Listed(ds) THEN "Pending" ELSE NotListed]]
    /\ Return(t)
    /\ UNCHANGED <<directory, calls>>

-----------------------------------------------------------------------------
(* StoreObjectData, lines 799-834: the status is read, then a separate     *)
(* update makes a NotReadyToSend object ReadyToSend (UpdateObjectStatus,   *)
(* lines 926-936, filter "_id" only, its error ignored) or gives a ready   *)
(* object a new instance id.  The payload and size writes that follow     *)
(* change no modelled field.                                              *)

StartStoreObjectData(t, o) ==
    /\ Begin(t)
    /\ th' = IF objs[o].exists /\ objs[o].status = "NotReadyToSend"
             THEN [th EXCEPT ![t] = [Idle EXCEPT !.pc = "sod_status", !.o = o]]
             ELSE IF objs[o].exists /\ objs[o].status = "ReadyToSend"
             THEN [th EXCEPT ![t] = [Idle EXCEPT !.pc = "sod_instance", !.o = o]]
             ELSE th
    /\ UNCHANGED <<objs, directory, clock, intended>>

\* UpdateObjectStatus, lines 926-936: $set of the status with a filter on
\* "_id" only; ErrNotFound when the object is gone.
UpdateObjectStatus(o, st) ==
    IF objs[o].exists
    THEN objs' = [objs EXCEPT ![o] = Stamp([@ EXCEPT !.status = st])] /\ Tick
    ELSE UNCHANGED <<objs, clock>>

SODWrite(t) ==
    LET o == th[t].o IN
    /\ th[t].pc \in {"sod_status", "sod_instance"}
    /\ IF th[t].pc = "sod_status"
       THEN UpdateObjectStatus(o, "ReadyToSend")
       ELSE IF objs[o].exists
       THEN objs' = [objs EXCEPT ![o] = Stamp(@)] /\ Tick
       ELSE UNCHANGED <<objs, clock>>
    /\ Return(t)
    /\ UNCHANGED <<directory, calls, intended>>

-----------------------------------------------------------------------------
(* Single-update operations: each is one conditional-free write.          *)

\* MarkObjectDeleted, lines 944-954.
MarkObjectDeleted(o) ==
    /\ calls < MaxCalls /\ calls' = calls + 1
    /\ objs[o].exists
    /\ objs' = [objs EXCEPT ![o] = Stamp([@ EXCEPT !.status = "ObjDeleted", !.deleted = TRUE])]
    /\ Tick
    /\ UNCHANGED <<directory, th, intended>>


\* DeleteStoredObject, lines 969-986: the data file and the document go.
DeleteStoredObject(o) ==
    /\ calls < MaxCalls /\ calls' = calls + 1
    /\ objs' = [objs EXCEPT ![o] = NoDoc]
    /\ UNCHANGED <<directory, clock, th, intended>>

\* StoreDestination (lines 1146-1154) and DeleteDestination (1157-1163).
StoreDestination(d) ==
    /\ calls < MaxCalls /\ calls' = calls + 1
    /\ directory' = directory \cup {d}
    /\ UNCHANGED <<objs, clock, th, intended>>

DeleteDestination(d) ==
    /\ calls < MaxCalls /\ calls' = calls + 1
    /\ directory' = directory \ {d}
    /\ UNCHANGED <<objs, clock, th, intended>>

-----------------------------------------------------------------------------
(* The activation pass of the maintenance loop.  The ticker goroutine of   *)
(* Init (lines 318-325) calls checkObjects, which is not in this           *)
(* repository; spec 4.6 says it activates the objects GetObjectsToActivate *)
(* returns, one ActivateObject call each.                                  *)

\* Mutant of GetObjectsToActivate: the query keeps only ReadyToSend.
GetObjectsToActivateReadyOnly ==
    {o \in Objects : /\ objs[o].exists /\ objs[o].status = "ReadyToSend"
                     /\ objs[o].inactive /\ objs[o].activation = "past"}

\* Lines 346-368: inactive objects that are NotReadyToSend or ReadyToSend
\* and whose activation-time is set and not after now.
GetObjectsToActivate ==
    {o \in Objects : /\ objs[o].exists
                     /\ objs[o].status \in {"NotReadyToSend", "ReadyToSend"}
                     /\ objs[o].inactive
                     /\ objs[o].activation = "past"}

\* Lines 957-966: $set of metadata.inactive with a filter on "_id" only;
\* when the object is gone the update fails with ErrNotFound.
ActivateObject(o) ==
    IF objs[o].exists
    THEN objs' = [objs EXCEPT ![o] = Stamp([@ EXCEPT !.inactive = FALSE])] /\ Tick
    ELSE UNCHANGED <<objs, clock>>

\* The pass fetches the objects to activate; one that finds none is over.
MaintFetch ==
    /\ mt.pc = "idle" /\ GetObjectsToActivate # {}
    /\ mt' = [pc |-> "activating", todo |-> GetObjectsToActivate]
    /\ UNCHANGED storeVars

\* ActivateObject for one fetched object; the pass ends after the last.
MaintActivate(o) ==
    /\ mt.pc = "activating" /\ o \in mt.todo
    /\ ActivateObject(o)
    /\ mt' = IF mt.todo = {o} THEN [pc |-> "idle", todo |-> {}]
             ELSE [mt EXCEPT !.todo = @ \ {o}]
    /\ UNCHANGED <<directory, th, calls, intended>>

Maintenance == MaintFetch \/ \E o \in Objects : MaintActivate(o)

\* Every caller has returned and no call is left in the budget.
Terminated ==
    /\ calls = MaxCalls /\ \A t \in Threads : th[t].pc = "idle"
    /\ UNCHANGED vars

StoreStep ==
    \/ \E t \in Threads :
          \/ UDSFetch(t) \/ UDSUpdate(t) \/ DelFetch(t) \/ DelUpdate(t)
          \/ ROFetch(t) \/ ROUpdate(t) \/ SOUpsert(t) \/ SODWrite(t)
          \/ \E o \in Objects, d \in Dests, st \in {"Delivered", "Consumed"} : StartUDS(t, o, d, st)
          \/ \E o \in Objects : StartDelivering(t, o) \/ StartStoreObjectData(t, o)
          \/ \E o \in Objects, m \in Metas : StartStoreObject(t, o, m)
          \/ \E d \in Dests : StartRO(t, d)
    \/ \E o \in Objects : MarkObjectDeleted(o) \/ DeleteStoredObject(o)
    \/ \E d \in Dests : StoreDestination(d) \/ DeleteDestination(d)

Next ==
    \/ StoreStep /\ UNCHANGED mt
    \/ Maintenance
    \/ Terminated

\* The ticker fires every StorageMaintenanceInterval seconds in its own
\* goroutine; callers of the storage get no fairness.
Spec == Init /\ [][Next]_vars /\ WF_vars(Maintenance)

-----------------------------------------------------------------------------
TypeOK ==
    /\ objs \in [Objects -> Doc]
    /\ directory \subseteq Dests
    /\ clock \in Nat
    /\ th \in [Threads -> [pc : {"idle", "uds_fetch", "uds_update", "del_fetch", "del_update",
                                 "ro_fetch", "ro_update", "so_upsert", "sod_status", "sod_instance"},
                           o : Objects, d : Dests, st : DStatus, tries : 0..MaxTries - 1,
                           snap : Doc, meta : Metas, rs : [Objects -> Doc], todo : SUBSET Objects]]
    /\ calls \in 0..MaxCalls
    /\ intended \in [Objects -> [Dests -> DStatus \cup {NotListed}]]
    /\ mt \in [pc : {"idle", "activating"}, todo : SUBSET Objects]

\* No lost update: an object lists exactly the destinations the calls on
\* it meant to list, and the status of each (first) entry is the one the
\* last call that meant to change it wrote.  A read-modify-write that
\* wrote back a stale list would undo a concurrent caller's delivery
\* status, or bring back a destination of an earlier version.
NoLostDeliveryUpdate ==
    \A o \in Objects : objs[o].exists =>
        \A d \in Dests :
            IF d \in Listed(objs[o].dests)
            THEN objs[o].dests[IndexOf(objs[o].dests, d)].st = intended[o][d]
            ELSE intended[o][d] = NotListed

\* Auto-delete: once every destination of an autoDelete object has
\* consumed it, the object carries an expiration time, so the maintenance
\* loop removes it.
AllConsumedSetsExpiration ==
    \A o \in Objects :
        (/\ objs[o].exists /\ objs[o].autoDelete /\ objs[o].dests # <<>>
         /\ \A i \in DOMAIN objs[o].dests : objs[o].dests[i].st = "Consumed")
        => objs[o].expiration

\* The design's invariant: the destinations list of an object holds no two
\* entries for the same destination.
NoDuplicateDestinations ==
    \A o \in Objects : \A i, j \in DOMAIN objs[o].dests :
        i # j => objs[o].dests[i].d # objs[o].dests[j].d

\* The design's invariant: an object marked deleted has status ObjDeleted,
\* so it is never offered to a destination again.
DeletedIsObjDeleted ==
    \A o \in Objects : (objs[o].exists /\ objs[o].deleted) => objs[o].status = "ObjDeleted"

\* Delayed activation: an inactive object that is not deleted and whose
\* activation time has passed is eventually activated by the maintenance
\* loop, unless a caller replaces, deletes or marks it deleted first.
WaitingForActivation(o) ==
    /\ objs[o].exists /\ objs[o].inactive /\ objs[o].status # "ObjDeleted"
    /\ objs[o].activation = "past"

DueObjectActivated ==
    \A o \in Objects : WaitingForActivation(o) ~> ~WaitingForActivation(o)
=============================================================================
