# TLA+ models of edge-sync-service storage

This directory holds TLA+ models of the storage layer of edge-sync-service
and the TLC configurations that check them. The models cover two files:

* `src/core/security/dummyAuthenticate.go`. Despite its name, it holds the
  whole `MongoStorage` type of the Cloud Sync Service, plus the small
  `DummyAuthenticate` authenticator.
* `src/unnamed/part_000`: the `dataURI` package, which keeps object payloads
  in the local file system.

`PROJECT.json` maps every definition to the source lines it models. It also
lists the runs, the mutants and the hazards.

## The system and how its parts interact

`MongoStorage` keeps every piece of sync state in MongoDB collections:

* `objects`: metadata, status, destination lists and counters;
* `destinations`, `notifications`, `webhooks`, `organizations`,
  `messagingGroups` and `acls`;
* `syncLeaderElection`: one document;
* GridFS: the payloads.

Any number of Cloud Sync Service nodes share one database. On each node,
HTTP handlers, the MQTT/HTTP transport and the maintenance ticker call the
storage methods concurrently.

Nothing in the code uses a transaction. Concurrency is handled by one of
three patterns:

1. **Single atomic updates.** Examples: `$inc` and `$set` with `$currentDate`.
2. **Optimistic read-modify-write.** The code reads a document with its
   `last-update` timestamp. It then updates with a filter on that timestamp
   and retries up to `maxUpdateTries` times. Used by
   `UpdateObjectDeliveryStatus`, `UpdateObjectDelivering`,
   `RetrieveObjects`, `AddWebhook` and `DeleteWebhook`.
3. **Version filter.** Leader takeover uses `UpdateLeader`, which filters on
   `version`.

Chunked uploads go through a per-object `fileHandle`. It is kept in the
process-wide `openFiles` map behind `mapLock`. Chunks that arrive out of
order are parked in the handle until the gap is filled.

The `dataURI` package writes payloads to `<path>.tmp` and publishes them by
renaming the file.

## Modules

| Module | Models | State (VARIABLES) | Actions |
|---|---|---|---|
| `ChunkedUpload` | `AppendObjectData` with `getFileHandle`/`putFileHandle`/`deleteFileHandle`, `createFile`, `removeFile`, the GridFS file, `ReadObjectData`, `RetrieveObjectData`/`CloseDataReader` and `DeleteStoredData` | `openFiles` (the map, pointing into `handles`), `handles` (each fileHandle: offset, parked chunks, written bytes, opened for reading), `blob` (published file, at first `OldBlob`), `req` (per-call pc), `acked`, `sends`, `rd` (a reader: offset and bytes so far), `dr` (a `RetrieveObjectData` caller: its handle, calls made) | `Send`, `Open`, `Place`, `WriteStep`, `Finish`, `Fail`/`Succeed`, `StartRead`, `ReadObjectData`, `RetrieveObjectData`, `CloseDataReader`, `DeleteStoredData` |
| `ObjectStore` | object documents and the `destinations` collection | `objs` (per object: status, deleted, inactive, activation time, expiration, destinations, last-update token), `directory` (the destinations collection), `th` (per-thread pc, snapshot, tries), `mt` (the maintenance loop's activation pass: pc, objects fetched), `clock`, `calls`, the ghost `intended` | `StartStoreObject`/`SOUpsert`, `StartUDS`/`UDSFetch`/`UDSUpdate` (UpdateObjectDeliveryStatus), `StartDelivering`/`DelFetch`/`DelUpdate` (UpdateObjectDelivering), `StartRO`/`ROFetch`/`ROUpdate` (RetrieveObjects), `StartStoreObjectData`/`SODWrite` (calls `UpdateObjectStatus`), `MarkObjectDeleted`, `MaintFetch` (`GetObjectsToActivate`)/`MaintActivate` (`ActivateObject`), `DeleteStoredObject`, `StoreDestination`, `DeleteDestination` |
| `ObjectCounters` | the `remaining-consumers`/`remaining-receivers` counters | `doc`, `th`, `calls`, the ghosts `setTo` and `decs` | `StoreObject`, `DeleteStoredObject`, `DecrementAndReturnRemainingConsumers`/`DecrementAndReturnRemainingReceivers` (both `StartDecrement`), `DecInc`/`DecRead`, `StartReset`/`ResetRead`/`ResetSet` |
| `LeaderLease` | the abstract lease: one owner and an epoch that grows with every hand-over | `owner`, `epoch` | `Acquire` |
| `LeaderElection` | `InsertInitialLeader`, `LeaderPeriodicUpdate`, `RetrieveLeader`, `RetrieveTimeOnServer`, `UpdateLeader`, `ResignLeadership`, driven by the node loop of spec 4.5 | `doc` (uuid, age of the heartbeat, version), `node` (pc, believed leader, observed version and age), `faults`, the ghost `renewAge` | `Start`, `Heartbeat`, `Observe`, `Decide`, `UpdateLeader`, `ResignLeadership`, `Crash`, `Restart`, `Tick` |
| `Webhooks` | `AddWebhook`, `DeleteWebhook` | `doc` (exists, hooks sequence, token), `th`, `clock`, `calls`, the ghost `want` | `StartAdd`, `StartDelete`, `FetchAdd`, `FetchDelete`, `Insert`, `Update` |
| `Notifications` | `UpdateNotificationRecord`, `UpdateNotificationResendTime`, `DeleteNotificationRecords`, `RetrieveNotifications`, with the transport's resend loop of spec 4.4 | `notes` (record per object and destination: status, ticks until the resend time), `rs` (the resend loop: pc, keys fetched), `calls`, the ghost `written` | `UpdateNotificationRecord`, `DeleteNotificationRecords`, `RetrieveDue`, `ResendOne` (calls `UpdateNotificationResendTime`), `EndRound`, `Tick` |
| `FileDataURI` | `AppendData`, `StoreData`, `GetDataChunk`, `DeleteStoredData` of `part_000` | `inodes` (file contents by inode), `tmpName`/`finalName` (which inode each name denotes), `th` (pc, operation, open descriptor, offset), `calls`, the ghost `stored` | `StartStoreData`, `StartAppendData`, `Open`, `Copy`, `Rename`, `DeleteStoredData` |
| `DummyAuthenticate` | `Start`, `Authenticate` (with `strings.Split`), `KeyandSecretForURL` | `regularUsers`, `syncAdmins` (as sets: only membership is tested), `started` | `Start` (file missing, undecodable, or decoded); `Authenticate` and `KeyandSecretForURL` are operators |

Each `MC_<Module>` module fixes the model values and the small data sets of
one module for TLC.

### How the models correspond to the code

**One step per round trip.** A storage method is split into one action for
each round trip to the database: a fetch, an update, an insert. Each call has
a per-thread record with a `pc`.

* Interleavings between other callers' round trips are exactly those that
  MongoDB allows.
* Within one round trip, the whole Go code between the two calls is part of
  the action: guards, early returns and error returns.
* Examples: `UDSFetch` covers the fetch and the loop that rewrites the
  destination list (lines 451-476). `UDSUpdate` covers the conditional
  update and its retry decision (lines 477-495).

**Timestamps.** `last-update` is modelled as a token drawn from a clock that
grows. This holds because `$currentDate` always gives a new timestamp. The
one exception is StoreObject's replacing upsert, which sends the empty
timestamp. What the server then stores depends on the server, so it is the
parameter `EmptyTokenKept`.

**Leader heartbeats.** Time since the last heartbeat is an age, capped at
`Timeout + 1`. A `Tick` action ages every age, so a crashed leader's lease
expires. The server-dependent handling of the zero stamp in
`InsertInitialLeader` is the parameter `EmptyInsertStampKept`.

**Files.** `FileDataURI` keeps files as inodes, separate from their names.
This is what `os.OpenFile` and `os.Rename` do: a descriptor keeps writing to
the file it opened after the name has moved. Two features of the code matter
here:

* `O_WRONLY|O_CREATE` without `O_TRUNC`, so a reused `.tmp` keeps its old
  bytes.
* `Seek` before the write, which leaves holes of zeros.

**Notification time.** A record's resend time is kept as the ticks left
until it (0: due), so the query's `resend-time <= now` is `wait = 0`;
`UpdateNotificationRecord` with `ResendTime` 0 and
`UpdateNotificationResendTime` set it to `Resend`, the model's
6 x `ResendInterval`. A caller passing a non-zero `ResendTime` may hold any
time, due or not.

`GetDataChunk` is an operator. It is checked against a recursive reference
that reads the file chunk by chunk, using its `n` and `eof` results.

**App keys.** `DummyAuthenticate` keeps app keys and user names as
sequences of characters, because splitting them is what `Authenticate`
does. `Split` is `strings.Split`: one more piece than separators, so `""`
gives one empty piece. Only membership in the two user lists is tested, so
the lists are sets.

**Abstracted data.** Payloads, URLs and destinations are small sets of model
values or short sequences of numbers.

* Byte contents are kept only where a property compares them: in the upload
  and data-URI models.
* In `Webhooks`, case folding is a constant `Fold` function from URLs to
  folded names.

## Runs

| Run | Expect | Checks | Shows |
|---|---|---|---|
| `upload_pass` | pass | `TypeOK`, `WrittenInOrder`, `PublishedBlobIsComplete`, `NoAckedChunkLost`, `ReadBackIsPayload` | See below. |
| `objects_pass` | pass | `TypeOK`, `NoLostDeliveryUpdate`, `AllConsumedSetsExpiration`, `DueObjectActivated` | See below. |
| `objects_duplicate_dest` | violation | `NoDuplicateDestinations` | See below. |
| `objects_deleted_resurrected` | violation | `DeletedIsObjDeleted` | See below. |
| `leader_pass` | pass | `UniqueEpochOwner`, `LeaseRefinement`, `StaleLeaderStepsDown`, `LeadershipRecovers` | See below. |
| `leader_renewal_race` | violation | `NoTakeoverOfLiveLease` | See below. |
| `counters_pass` | pass | `TypeOK`, `NoLostDecrement` | See below. |
| `counters_stale_reset` | violation | `ConsumersWithinExpected` | See below. |
| `webhooks_pass` | pass | `TypeOK`, `HooksMatchRequests` | See below. |
| `datauri_pass` | pass | `TypeOK`, `ChunkedReadRoundTrip`, `PublishOnlyByRename` | See below. |
| `notifications_pass` | pass | `TypeOK`, `RecordsMatchLastWrite`, `DueNotificationResent` | See below. |
| `auth_pass` | pass | `AuthenticateMatchesComment`, `EssKeyIsItsNode` | See below. |

What each run shows:

* **`upload_pass`**: 5 chunks sent in any order. The window is reached, reads
  are short, and `Discarded` chunks are resent. Every handle holds a prefix
  of the payload, the published file is the payload, and no acknowledged
  chunk is lost. A reader beside the upload that follows `ReadObjectData`'s
  `n` and `eof` ends with exactly the payload. A `RetrieveObjectData`
  caller and `DeleteStoredData` run beside them.
* **`objects_pass`**: Two threads call every object operation with CAS
  retries. No delivery-status or destination update is lost. An
  `autoDelete` object whose destinations all consumed it gets an
  expiration. The maintenance loop's activation pass runs beside them: an
  inactive object whose activation time has passed is eventually activated
  (`DueObjectActivated`), unless it is deleted first.
* **`objects_duplicate_dest`**: `RetrieveObjects` appends a destination that
  is already listed. The append at line 674 has no check. The trace has
  one object, so it does not show the second path to a duplicate:
  `continue OUTER` at line 682 restarts the loop after a failed CAS, and
  appends again to objects already updated.
* **`objects_deleted_resurrected`**: `StoreObjectData` reads the status, and
  `UpdateObjectStatus` then writes `ReadyToSend` unconditionally, over a
  concurrent `MarkObjectDeleted`.
* **`leader_pass`**: Two nodes, with crashes, resignations and arbitrary
  delays. The leader document refines `LeaderLease`. Two nodes that believe
  they lead hold different versions. A deposed leader eventually steps
  down. `LeadershipRecovers`: if some node stays up, and the model's
  version bound is not reached, then again and again some node leads and
  owns the document. A crashed leader never resigns, so its lease is freed
  only by expiring. The premise is needed because restarts get no
  fairness, and because the bound `MaxVersion` stops takeovers. The
  mutant copies the heartbeat's `uuid` filter into `UpdateLeader`, and
  then nobody can take over a crashed leader's lease. `LeaderElection`'s
  `TypeOK` is not checked: ages saturate at `Timeout + 1` by construction
  (`Cap`), so no bug in the code could break it.
* **`leader_renewal_race`**: A takeover decided before the leader's
  heartbeat still passes the version filter, because heartbeats do not
  change the version.
* **`counters_pass`**: Decrements, resets, stores and deletes interleave.
  Each counter equals the value last set minus the decrements since.
* **`counters_stale_reset`**: A reset that read the old `expectedConsumers`
  before a `StoreObject` sets the counter above the new one.
* **`webhooks_pass`**: Concurrent adds and deletes with insert races and CAS
  retries. The list holds exactly the URLs last added and not deleted.
* **`datauri_pass`**: One caller. The published file changes only by a
  rename. `GetDataChunk` rebuilds it for every chunk size.
* **`notifications_pass`**: Lifecycle writes and the three delete modes
  race the resend loop. A resend that comes after a delete does not bring
  the record back, and no resend changes a status. Every notification in a
  resend status, or in `Getdata`, is fetched again once it is due.
* **`auth_pass`**: `Start` loads no file, an undecodable one, or any lists
  of four candidate users. In every state, `Authenticate` classifies every
  key of up to five characters over `a`, `b`, `/` and `@` as its comment
  documents. The reference states the formats by the positions of the
  separators, not by splitting. The key `KeyandSecretForURL` gives for the
  CSS authenticates there as this node's edge identity, for every
  configuration whose IDs contain no `/`.

Each passing property has a mutant in `PROJECT.json`: a plausible bug in a
mapped definition that TLC finds. Examples: a dropped token in a CAS filter,
a drain loop that stops early, an off-by-one in the chunk offset, a rename
that leaves `.tmp` behind, a heartbeat that does not check the owner.

### Disagreements seen while modelling and not kept as runs

The model has parameters for these cases, and they are listed as hazards in
`PROJECT.json`:

* **Lost parked chunk (`WriteCanFail`).** A GridFS write error in the drain
  loop loses a parked chunk that was already acknowledged. The chunk is
  deleted from the map at line 892, before it is written, and the last
  chunk then publishes a file without it. `upload_pass` keeps writes
  reliable; with `WriteCanFail = TRUE` TLC finds `NoAckedChunkLost`
  violated. This was a run of its own until the run budget went to
  `auth_pass`.
* **Slash in a configuration ID.** If `OrgID`, `DestinationType` or
  `DestinationID` contains `/`, the key the node sends to the CSS has more
  than three `/`-separated parts, and TLC finds `EssKeyIsItsNode` violated.
* **Empty names.** `@org` authenticates as an admin of `org` with the
  empty identity, and `user@` as an admin of the empty org. The comment
  does not exclude this, so `AuthenticateMatchesComment` accepts it.

* **Window off by one.** With a window invariant, the out-of-order map holds
  `OutOfOrderLimit + 1` chunks. The code checks `len > 100` before the
  insert.
* **Lost reply (`AckCanBeLost`).** A resent first chunk restarts the upload,
  and the upload publishes an incomplete file.
* **Empty timestamp kept (`EmptyTokenKept`).** If the server keeps the empty
  timestamp of StoreObject's upsert, a stale CAS succeeds.
* **Zero heartbeat stamp kept (`EmptyInsertStampKept`).** If the server keeps
  it, a fresh lease is taken over at once.
* **Two "last" consumers.** Two `DecrementAndReturnRemainingConsumers` calls
  can both return 0.
* **Case-folded delete.** `DeleteWebhook` uses `EqualFold`, so it can remove
  a different-case URL and leave the requested one.
* **No truncation.** `StoreData` over a left-over `.tmp` publishes the stale
  tail.
* **Concurrent stores of one data URI.** With two threads, `FileDataURI`
  finds `PublishOnlyByRename` violated: two calls share `.tmp`, and after
  one renames it the other writes into the published file.
* **Stale resend.** The resend loop can push forward, and resend, a
  notification whose status changed after it fetched it, because
  `UpdateNotificationResendTime` filters on the key only.
* **Early activation.** `checkObjects` activates what
  `GetObjectsToActivate` returned, and `ActivateObject` filters on `_id`
  only. A `StoreObject` in between, whose meta has an activation time still
  ahead, is activated early. TLC shows this with a future-activation meta
  and an action property "an object becomes active only when due".
* **A reader's handle in `openFiles`.** `RetrieveObjectData` puts its
  read handle into `openFiles` under the object's key, replacing an
  upload's handle. `CloseDataReader` then deletes whatever handle is under
  that key. If GridFS still holds an earlier payload (`OldBlob =
  MCOldBlob`), TLC finds `NoAckedChunkLost` violated in 10 steps. Chunk 2
  arrives while a reader is open, so it is parked in the reader's handle
  and acknowledged. It is lost when chunk 1 installs the upload's own
  handle. `upload_pass` starts with no file, so a reader can open only the
  published file. Spec section 5 reserves `openFiles` for chunked uploads.
* **Destination query.** With a destination given, `RetrieveNotifications`
  leaves out `Data` unless `retrieveReceived` is set; spec 4.4 lists it in
  both cases.

## Bounds and why they are enough

* **`ChunkedUpload`**:
  * 5 chunks of lengths 1, 2, 1, 1, 1;
  * window 1;
  * 12 sends;
  * one call at a time, which is the single appender of the design;
  * one `RetrieveObjectData` call, and no earlier payload in GridFS.

  Window 1 is enough to fill the window, overflow it and drain it. Chunk 2
  has length 2, so a short read happens in the middle of a chunk. The reader
  asks for 2 or 4 bytes of the 6: it meets the end exactly and inside a
  request.
* **`ObjectStore`**:
  * one object, two destinations, two threads;
  * two tries;
  * five calls (about 330k states; six calls with the maintenance loop
    take 2.4M states).

  The two metas are a ready `autoDelete` one and an inactive
  `NotReadyToSend` one whose activation time has passed, so a store can
  race the activation pass. Two tries make both outcomes reachable: a CAS that succeeds on retry, and
  one that gives up. Two destinations let one thread's update hide
  another's.
* **`LeaderElection`**:
  * two nodes;
  * `Timeout = 2`;
  * versions up to 5;
  * three faults.

  Two nodes is the smallest set in which a lease is contested. A run with
  three nodes took about 5 minutes.
  Ages up to `Timeout + 1` tell apart "live", "just expired" and "stale".
* **`ObjectCounters`**:
  * two threads;
  * expected values {1, 2};
  * six calls.

  Two expected values make a reset with a stale read observable.
* **`Webhooks`**:
  * three URLs, two threads;
  * two tries;
  * five calls.

  With these bounds, an insert race, a CAS retry and a swap-remove from the
  middle all happen.
* **`FileDataURI`**:
  * one 3-byte and one 1-byte payload;
  * an upload of two chunks, `<<3,3>>` and `<<4>>`;
  * five calls.

  A short store over a longer `.tmp`, and a write past a hole, both happen.

* **`Notifications`**:
  * two objects and two destinations (four records);
  * statuses `Update`, `Getdata`, `Updated`;
  * `Resend = 2` ticks;
  * four lifecycle calls.

  The three delete modes remove different sets of records. The three
  statuses are resent by time, always, and never.

* **`DummyAuthenticate`**:
  * keys of up to five characters over `a`, `b`, `/`, `@` (1365 keys) and
    a request without basic auth;
  * file users `a`, `b`, `a@b` and the empty name, in any subset of
    either list (257 states);
  * configuration IDs: empty, `a`, `ba`, `a@`, and `a/` (which the
    round-trip property leaves out).

  Five characters are enough for two `/` with non-empty pieces, two `@`,
  keys with both separators, and empty pieces at either end.

Symmetry over threads is used only in runs without liveness properties.

## Fairness

`LeaderElection`, `Notifications` and `ObjectStore` have liveness properties.

In `LeaderElection`, `Spec` assumes weak fairness of two things:

* `Tick`: time passes;
* each node's loop step: `Start`, `Heartbeat`, `Observe`, `Decide`,
  `UpdateLeader`.

The sync service runs the election loop in a goroutine on a ticker (spec
4.5), so a node that is up takes its next step. Crashes, restarts and
resignations get no fairness, because the code never forces them.
`LeadershipRecovers` assumes nothing more: its premise says that a node
stays up, rather than assuming fairness of `Restart`.

In `Notifications`, `Spec` assumes weak fairness of the clock (`Tick`) and of
the resend loop, which the transport runs in its own goroutine. Lifecycle
calls get none.

In `ObjectStore`, `Spec` assumes weak fairness of `Maintenance`, the
activation pass that the ticker goroutine of `Init` (lines 318-325) runs
every interval. Callers' threads get none.

## Not modelled, and why

* **Notification reads.** `RetrievePendingNotifications`,
  `RetrieveNotificationRecord` and `GetObjectsForDestination` only read, and
  their callers are not in this repository.
* **The rest of the maintenance loop.** The ticker in `Init` (lines
  318-325) calls `checkObjects`, which is not in this repository. Its
  activation pass is modelled from spec 4.6 in `ObjectStore`, with the
  code's `GetObjectsToActivate` and `ActivateObject`. The expiration sweep
  is not, because its policy is not in this repository. The ticker runs on
  every node, not only the leader that spec 4.6 names. For activation this
  makes no difference, since two activations set the same value.
* **Organizations, messaging groups and destinations listing.**
  * Organizations and messaging groups are single unconditional upserts or
    deletes.
  * `DeleteOrganization` is a sequence of `removeAll` calls. Its partial
    failure is listed as a hazard. So is what it leaves behind: webhooks,
    ACLs and the organization info, although its comment says it removes
    every record of the organization.
  * `StoreOrganization` returns the timestamp it reads back in a second
    call, which can be another writer's. This is listed as a hazard.
* **ACLs.** The helpers they call are not in this repository.
* **Mongo connection, TLS, indexes, sessions, `Stop`.** These are I/O setup.
* **Concurrent appenders of one `fileHandle`.** The Go map races outside
  `mapLock`, which is undefined behaviour. `ChunkedUpload` runs one call at
  a time.
* **Read-only retrievals.** These are left out because they change no state.

## Plan for later work

1. The expiration sweep of the maintenance loop composed with
   `LeaderElection`, once its policy is fixed by code in this repository.
2. Liveness of chunked upload under a fair sender: every upload is
   eventually published.
3. Two appenders on one handle, with the racing map accesses as
   nondeterministic outcomes.
