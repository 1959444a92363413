---------------------------- MODULE LeaderElection ----------------------------
(***************************************************************************)
(* Leader election over the singleton leader document (MongoStorage:      *)
(* InsertInitialLeader, LeaderPeriodicUpdate, RetrieveLeader,             *)
(* UpdateLeader, ResignLeadership, RetrieveTimeOnServer) driven by the    *)
(* node loop of spec 4.5: bootstrap by insert, heartbeat while leader,    *)
(* otherwise observe the lease, read the server clock and take over a     *)
(* lease whose timestamp is older than the heartbeat timeout.             *)
(*                                                                         *)
(* Time is abstracted to ages: doc.age is the server time elapsed since   *)
(* last-heartbeat-ts, and a node's obsAge is the server time elapsed      *)
(* since the timestamp it read.  Only "age > Timeout" is ever tested, so  *)
(* ages are capped at Timeout + 1 and time can pass forever.              *)
(***************************************************************************)
EXTENDS Naturals, FiniteSets

CONSTANTS
    Nodes,              \* the sync-service instances (leader uuids)
    NoNode,             \* owner of the lease before bootstrap
    Timeout,            \* heartbeat-timeout (LeadershipTimeout), in ticks
    MaxVersion,         \* bound on the takeover version counter
    MaxFaults,          \* bound on crashes and resignations
    EmptyInsertStampKept \* TRUE: the server keeps the zero last-heartbeat-ts
                         \* of the inserted leaderDocument (it is not among the
                         \* first two fields), FALSE: it stamps it with now

ASSUME Timeout \in Nat \ {0} /\ MaxVersion \in Nat \ {0}

VARIABLES
    doc,        \* the leader document: [exists, uuid, age, version]
    node,       \* per node: [pc, leader, obsVersion, obsAge, held]
    faults,     \* crashes and resignations so far
    renewAge    \* ghost: time since each node's last successful acquire/renew

vars == <<doc, node, faults, renewAge>>

Expired == Timeout + 1
Ages == 0..Expired
PCs == {"down", "start", "idle", "observed", "takeover"}

NoDoc == [exists |-> FALSE, uuid |-> NoNode, age |-> Expired, version |-> 0]

NodeRec == [pc: PCs, leader: BOOLEAN, obsVersion: 0..MaxVersion,
            obsAge: Ages, held: 0..MaxVersion]

\* Ages saturate: every age above Timeout compares the same way.
Cap(x) == IF x > Expired THEN Expired ELSE x

Init ==
    /\ doc = NoDoc
    /\ node = [n \in Nodes |-> [pc |-> "start", leader |-> FALSE,
                                obsVersion |-> 0, obsAge |-> 0, held |-> 0]]
    /\ faults = 0
    /\ renewAge = [n \in Nodes |-> Expired]

\* Server time advances by one tick.
Tick ==
    /\ doc' = IF doc.exists THEN [doc EXCEPT !.age = Cap(@ + 1)] ELSE doc
    /\ node' = [n \in Nodes |-> [node[n] EXCEPT !.obsAge = Cap(@ + 1)]]
    /\ renewAge' = [n \in Nodes |-> Cap(renewAge[n] + 1)]
    /\ UNCHANGED faults

\* Mutant: the bootstrap is an upsert, not an insert that fails on a
\* duplicate key.
StartOverwrite(n) ==
    /\ node[n].pc = "start"
    /\ doc' = [exists |-> TRUE, uuid |-> n, version |-> 1,
               age |-> IF EmptyInsertStampKept THEN Expired ELSE 0]
    /\ node' = [node EXCEPT ![n].pc = "idle", ![n].leader = TRUE, ![n].held = 1]
    /\ renewAge' = [renewAge EXCEPT ![n] = 0]
    /\ UNCHANGED faults

\* InsertInitialLeader: insert {_id:1, uuid, version:1}; a duplicate key
\* means another node bootstrapped first and is not an error.
Start(n) ==
    /\ node[n].pc = "start"
    /\ IF ~doc.exists
         THEN /\ doc' = [exists |-> TRUE, uuid |-> n, version |-> 1,
                         age |-> IF EmptyInsertStampKept THEN Expired ELSE 0]
              /\ node' = [node EXCEPT ![n].pc = "idle", ![n].leader = TRUE,
                                      ![n].held = 1]
              /\ renewAge' = [renewAge EXCEPT ![n] = 0]
         ELSE /\ node' = [node EXCEPT ![n].pc = "idle"]
              /\ UNCHANGED <<doc, renewAge>>
    /\ UNCHANGED faults

\* Mutant: the heartbeat filter is {_id:1} only.
HeartbeatAnyOwner(n) ==
    /\ node[n].pc = "idle" /\ node[n].leader
    /\ doc' = [doc EXCEPT !.age = 0]
    /\ renewAge' = [renewAge EXCEPT ![n] = 0]
    /\ UNCHANGED <<node, faults>>

\* LeaderPeriodicUpdate: $currentDate on {_id:1, uuid:n}; NotFound means
\* the lease was taken and the node stops being leader.
Heartbeat(n) ==
    /\ node[n].pc = "idle" /\ node[n].leader
    /\ IF doc.uuid = n
         THEN /\ doc' = [doc EXCEPT !.age = 0]
              /\ renewAge' = [renewAge EXCEPT ![n] = 0]
              /\ UNCHANGED node
         ELSE /\ node' = [node EXCEPT ![n].leader = FALSE, ![n].held = 0]
              /\ UNCHANGED <<doc, renewAge>>
    /\ UNCHANGED faults

\* RetrieveLeader: a non-leader reads the timestamp and version.
Observe(n) ==
    /\ node[n].pc = "idle" /\ ~node[n].leader
    /\ node' = [node EXCEPT ![n].pc = "observed",
                            ![n].obsVersion = doc.version,
                            ![n].obsAge = doc.age]
    /\ UNCHANGED <<doc, faults, renewAge>>

\* RetrieveTimeOnServer, then serverTime - lastHeartbeatTS > timeout.
Decide(n) ==
    /\ node[n].pc = "observed"
    /\ node' = [node EXCEPT ![n].pc =
                   IF node[n].obsAge > Timeout /\ node[n].obsVersion < MaxVersion
                     THEN "takeover" ELSE "idle"]
    /\ UNCHANGED <<doc, faults, renewAge>>

\* Mutant: the takeover filter is {_id:1} only and $set version
\* observed + 1.
UpdateLeaderAnyVersion(n) ==
    /\ node[n].pc = "takeover"
    /\ doc' = [doc EXCEPT !.uuid = n, !.age = 0, !.version = node[n].obsVersion + 1]
    /\ node' = [node EXCEPT ![n].pc = "idle", ![n].leader = TRUE,
                            ![n].held = node[n].obsVersion + 1]
    /\ renewAge' = [renewAge EXCEPT ![n] = 0]
    /\ UNCHANGED faults

\* Mutant: the takeover filter is copied from the heartbeat,
\* {_id:1, uuid:n}, so it only matches a lease n already owns.
UpdateLeaderOwnerFilter(n) ==
    /\ node[n].pc = "takeover"
    /\ IF doc.uuid = n
         THEN /\ doc' = [doc EXCEPT !.uuid = n, !.age = 0,
                                    !.version = node[n].obsVersion + 1]
              /\ node' = [node EXCEPT ![n].pc = "idle", ![n].leader = TRUE,
                                      ![n].held = node[n].obsVersion + 1]
              /\ renewAge' = [renewAge EXCEPT ![n] = 0]
         ELSE /\ node' = [node EXCEPT ![n].pc = "idle"]
              /\ UNCHANGED <<doc, renewAge>>
    /\ UNCHANGED faults

\* UpdateLeader(n, observed version): the filter is {_id:1, version}; on a
\* match the lease is stamped and moves to n under version + 1.
UpdateLeader(n) ==
    /\ node[n].pc = "takeover"
    /\ IF doc.version = node[n].obsVersion
         THEN /\ doc' = [doc EXCEPT !.uuid = n, !.age = 0,
                                    !.version = node[n].obsVersion + 1]
              /\ node' = [node EXCEPT ![n].pc = "idle", ![n].leader = TRUE,
                                      ![n].held = node[n].obsVersion + 1]
              /\ renewAge' = [renewAge EXCEPT ![n] = 0]
         ELSE /\ node' = [node EXCEPT ![n].pc = "idle"]
              /\ UNCHANGED <<doc, renewAge>>
    /\ UNCHANGED faults

\* ResignLeadership on shutdown: last-heartbeat-ts := 1970 if uuid matches.
ResignLeadership(n) ==
    /\ node[n].pc = "idle" /\ node[n].leader
    /\ faults < MaxFaults
    /\ doc' = IF doc.uuid = n THEN [doc EXCEPT !.age = Expired] ELSE doc
    /\ node' = [node EXCEPT ![n].pc = "down", ![n].leader = FALSE, ![n].held = 0]
    /\ faults' = faults + 1
    /\ UNCHANGED renewAge

\* A node process dies at any point of its loop.
Crash(n) ==
    /\ node[n].pc # "down"
    /\ faults < MaxFaults
    /\ node' = [node EXCEPT ![n].pc = "down", ![n].leader = FALSE, ![n].held = 0]
    /\ faults' = faults + 1
    /\ UNCHANGED <<doc, renewAge>>

\* A stopped node is started again and bootstraps from the beginning.
Restart(n) ==
    /\ node[n].pc = "down"
    /\ node' = [node EXCEPT ![n].pc = "start"]
    /\ UNCHANGED <<doc, faults, renewAge>>

NodeStep(n) ==
    \/ Start(n) \/ Heartbeat(n) \/ Observe(n) \/ Decide(n) \/ UpdateLeader(n)

Next ==
    \/ Tick
    \/ \E n \in Nodes :
         NodeStep(n) \/ ResignLeadership(n) \/ Crash(n) \/ Restart(n)

\* Time passes, and a running node's loop keeps being scheduled.
Fairness == WF_vars(Tick) /\ \A n \in Nodes : WF_vars(NodeStep(n))

Spec == Init /\ [][Next]_vars /\ Fairness

-----------------------------------------------------------------------------
TypeOK ==
    /\ doc \in {NoDoc} \cup [exists: {TRUE}, uuid: Nodes, age: Ages,
                             version: 1..MaxVersion]
    /\ node \in [Nodes -> NodeRec]
    /\ faults \in 0..MaxFaults
    /\ renewAge \in [Nodes -> Ages]

\* The leader document implements the abstract lease: the uuid only changes
\* together with a version bump of exactly one (insert, or the version
\* filter of UpdateLeader), and heartbeats and resignations leave both alone.
Lease == INSTANCE LeaderLease WITH
            owner <- IF doc.exists THEN doc.uuid ELSE NoNode,
            epoch <- IF doc.exists THEN doc.version ELSE 0

LeaseRefinement == Lease!Spec

\* Two nodes that both believe they lead (one of them not yet told by a
\* failed heartbeat) acquired the lease under different versions: the
\* version filter of UpdateLeader lets only one of the nodes that observed
\* the same version take over, and bootstrap inserts only once.
UniqueEpochOwner ==
    \A n, m \in Nodes :
        n # m /\ node[n].leader /\ node[m].leader => node[n].held # node[m].held

\* A node that believes it leads but no longer owns the document steps down
\* (its next LeaderPeriodicUpdate finds nothing) unless it stops first.
StaleLeaderStepsDown ==
    \A n \in Nodes :
        (node[n].leader /\ doc.uuid # n) ~> ~node[n].leader

\* A leader that crashes never resigns (ResignLeadership runs only on
\* shutdown), so its lease is only freed by expiring.  As long as some node
\* keeps running (and the version bound of the model is not reached), the
\* system has a leader that owns the document again and again: the
\* running nodes observe the expired timestamp, and the takeover filter on
\* the observed version lets one of them in.
LeadershipRecovers ==
    (<>[](\E n \in Nodes : node[n].pc # "down") /\ <>[](doc.version < MaxVersion))
        => []<>(\E n \in Nodes : node[n].leader /\ doc.uuid = n)

\* The lease is never taken from a node that still leads and renewed it less
\* than Timeout ago: a takeover only ever replaces an expired lease.
NoTakeoverOfLiveLease ==
    [][\A n \in Nodes :
         (node[n].leader /\ doc.uuid = n /\ doc'.uuid # n) => renewAge[n] > Timeout
      ]_vars
==============================================================================
