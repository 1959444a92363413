------------------------------- MODULE Webhooks -------------------------------
(***************************************************************************)
(* The webhook list of one orgID:objectType key (MongoStorage.AddWebhook,  *)
(* DeleteWebhook, lines 1004-1085).  Both are read-modify-write loops of   *)
(* at most maxUpdateTries turns: fetch the document, change the list in    *)
(* memory, write it back under the fetched last-update token.  AddWebhook  *)
(* compares URLs exactly; DeleteWebhook with strings.EqualFold and removes *)
(* the first match by moving the last URL into its place.  A webhooks     *)
(* document is never removed, so it is inserted at most once.             *)
(***************************************************************************)
EXTENDS Naturals, Sequences, FiniteSets, Functions

CONSTANTS
    Threads,    \* concurrent callers
    Urls,       \* webhook URLs (model values)
    Fold,       \* Fold[u]: u with its case folded, as strings.EqualFold sees it
    MaxTries,   \* maxUpdateTries
    MaxCalls    \* bound on the calls made in a behaviour

VARIABLES
    doc,    \* [exists, hooks: Seq(Urls), token]
    clock,  \* last timestamp handed out by $currentDate
    th,     \* th[t]: [pc, op, u, tries, snap]
    calls,  \* calls started so far
    want    \* ghost: want[u] is TRUE iff the last call that changed u's
            \* registration on purpose added it

vars == <<doc, clock, th, calls, want>>

NoDoc == [exists |-> FALSE, hooks |-> <<>>, token |-> 0]
Idle == [pc |-> "idle", op |-> "add", u |-> CHOOSE u \in Urls : TRUE, tries |-> 0,
         snap |-> NoDoc]

Init ==
    /\ doc = NoDoc
    /\ clock = 1
    /\ th = [t \in Threads |-> Idle]
    /\ calls = 0
    /\ want = [u \in Urls |-> FALSE]

Begin(t) == th[t].pc = "idle" /\ calls < MaxCalls /\ calls' = calls + 1
Return(t) == th' = [th EXCEPT ![t] = Idle]

\* Mutant of Retry: the loop has one more turn than maxUpdateTries.
RetryOnceMore(t) ==
    IF th[t].tries < MaxTries
    THEN th' = [th EXCEPT ![t].pc = "fetch", ![t].tries = @ + 1]
    ELSE Return(t)

\* continue: the next turn of the loop, or the final error return.
Retry(t) ==
    IF th[t].tries + 1 < MaxTries
    THEN th' = [th EXCEPT ![t].pc = "fetch", ![t].tries = @ + 1]
    ELSE Return(t)

\* strings.EqualFold, and the first index of a URL equal to u under it.
EqualFold(a, b) == Fold[a] = Fold[b]
FirstFold(s, u) ==
    CHOOSE i \in DOMAIN s : EqualFold(s[i], u) /\ \A j \in 1..i - 1 : ~EqualFold(s[j], u)

\* hooks[i] = hooks[len-1]; hooks = hooks[:len-1]
SwapRemove(s, i) == [SubSeq(s, 1, Len(s) - 1) EXCEPT ![i] = s[Len(s)]]

StartAdd(t, u) ==
    /\ Begin(t)
    /\ th' = [th EXCEPT ![t] = [Idle EXCEPT !.pc = "fetch", !.op = "add", !.u = u]]
    /\ UNCHANGED <<doc, clock, want>>

StartDelete(t, u) ==
    /\ Begin(t)
    /\ th' = [th EXCEPT ![t] = [Idle EXCEPT !.pc = "fetch", !.op = "delete", !.u = u]]
    /\ UNCHANGED <<doc, clock, want>>

\* AddWebhook, the fetchOne at the top of each turn (lines 1011-1033): no
\* document -> insert; the URL already listed -> return nil; otherwise
\* append it in memory.
FetchAdd(t) ==
    LET u == th[t].u IN
    /\ th[t].pc = "fetch" /\ th[t].op = "add"
    /\ IF ~doc.exists
         THEN th' = [th EXCEPT ![t].pc = "insert"]
         ELSE IF u \in Range(doc.hooks)
         THEN Return(t)
         ELSE th' = [th EXCEPT ![t].pc = "update",
                               ![t].snap = [doc EXCEPT !.hooks = Append(@, u)]]
    /\ UNCHANGED <<doc, clock, calls, want>>

\* DeleteWebhook, the fetchOne of each turn (lines 1057-1071): no document
\* is an error; no EqualFold match -> return nil; otherwise swap-remove
\* the first match in memory.
FetchDelete(t) ==
    LET u == th[t].u IN
    /\ th[t].pc = "fetch" /\ th[t].op = "delete"
    /\ IF doc.exists /\ \E i \in DOMAIN doc.hooks : EqualFold(doc.hooks[i], u)
         THEN th' = [th EXCEPT ![t].pc = "update", ![t].snap =
                        [doc EXCEPT !.hooks = SwapRemove(@, FirstFold(@, u))]]
         ELSE Return(t)
    /\ UNCHANGED <<doc, clock, calls, want>>

\* store.insert of {_id, hooks: [url]}; a duplicate key (another caller
\* inserted first) is the next turn.  The empty last-update timestamp is
\* kept or replaced by the server; either way no later write reuses it.
Insert(t) ==
    /\ th[t].pc = "insert"
    /\ IF ~doc.exists
         THEN /\ doc' = [exists |-> TRUE, hooks |-> <<th[t].u>>, token |-> 0]
              /\ want' = [want EXCEPT ![th[t].u] = TRUE]
              /\ Return(t)
         ELSE /\ Retry(t)
              /\ UNCHANGED <<doc, want>>
    /\ UNCHANGED <<clock, calls>>

\* Mutant of Update: the filter is {_id} only.
UpdateNoToken(t) ==
    /\ th[t].pc = "update"
    /\ doc' = [th[t].snap EXCEPT !.token = clock + 1]
    /\ clock' = clock + 1
    /\ want' = [want EXCEPT ![th[t].u] = (th[t].op = "add")]
    /\ Return(t)
    /\ UNCHANGED calls

\* The update {_id, last-update: fetched} of either call (lines 1034-1046,
\* 1072-1084) with $set hooks and $currentDate;
\* ErrNotFound (the token moved) is the next turn.
Update(t) ==
    /\ th[t].pc = "update"
    /\ IF doc.token = th[t].snap.token
         THEN /\ doc' = [th[t].snap EXCEPT !.token = clock + 1]
              /\ clock' = clock + 1
              /\ want' = [want EXCEPT ![th[t].u] = (th[t].op = "add")]
              /\ Return(t)
         ELSE /\ Retry(t)
              /\ UNCHANGED <<doc, clock, want>>
    /\ UNCHANGED calls

Terminated ==
    /\ calls = MaxCalls /\ \A t \in Threads : th[t].pc = "idle"
    /\ UNCHANGED vars

Next ==
    \/ \E t \in Threads :
         \/ \E u \in Urls : StartAdd(t, u) \/ StartDelete(t, u)
         \/ FetchAdd(t) \/ FetchDelete(t) \/ Insert(t) \/ Update(t)
    \/ Terminated

Spec == Init /\ [][Next]_vars

-----------------------------------------------------------------------------
TypeOK ==
    /\ doc.exists \in BOOLEAN /\ doc.hooks \in Seq(Urls) /\ doc.token \in Nat
    /\ th \in [Threads -> [pc : {"idle", "fetch", "insert", "update"},
                           op : {"add", "delete"}, u : Urls, tries : 0..MaxTries - 1,
                           snap : [exists : BOOLEAN, hooks : Seq(Urls), token : Nat]]]
    /\ calls \in 0..MaxCalls
    /\ want \in [Urls -> BOOLEAN]

\* No lost webhook change: the list holds exactly the URLs whose last
\* deliberate add or delete was an add, however adds and deletes of
\* different URLs interleave and retry.
HooksMatchRequests ==
    \A u \in Urls : (u \in Range(doc.hooks)) = want[u]
==============================================================================
