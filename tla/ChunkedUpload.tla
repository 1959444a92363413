--------------------------- MODULE ChunkedUpload ---------------------------
(***************************************************************************)
(* Chunked upload of one object's payload into the MongoDB/GridFS backend: *)
(* MongoStorage.AppendObjectData together with the process-wide openFiles  *)
(* map of file handles and the GridFS file it publishes on close.          *)
(*                                                                         *)
(* The caller is the transport: it sends chunks of one object in any       *)
(* order, marks a chunk first when it starts at offset 0 and last when it  *)
(* is the only chunk not yet acknowledged, and resends every chunk whose   *)
(* call returned an error (Discarded included).  A chunk is a run of       *)
(* bytes; byte k of chunk i is the value i, so the content is checked      *)
(* byte for byte.                                                          *)
(*                                                                         *)
(* Each call is split at the points where it touches shared state: Open    *)
(* (lines 839-868: remove/create or look up the handle, read the body),    *)
(* Place (869-910: append in order or park in the out-of-order map),       *)
(* WriteStep (one turn of the write-and-drain loop) and Finish (911-921:   *)
(* delete the handle and close, or put the handle back).                   *)
(***************************************************************************)
EXTENDS Naturals, Sequences, FiniteSets, SequencesExt, TLC

CONSTANTS
    ChunkLen,         \* ChunkLen[i]: number of bytes of chunk i
    OutOfOrderLimit,  \* the 100 of "len(fileHandle.chunks) > 100"
    MaxInFlight,      \* calls of AppendObjectData running at once
    MaxSends,         \* bound on the number of calls the caller makes
    ReadCanFail,      \* the request body can be shorter than dataLength
    WriteCanFail,     \* a GridFS write or close can return an error
    AckCanBeLost,     \* a call can succeed while its caller times out
    ReadSizes,        \* sizes a reader asks ReadObjectData for
    NoBlob,           \* model value: no GridFS file of this name
    OldBlob,          \* the GridFS file when the upload starts: NoBlob, or
                      \* the payload of an earlier upload of the object
    MaxDataReads      \* bound on RetrieveObjectData calls

ASSUME /\ ChunkLen \in Seq(Nat \ {0}) /\ Len(ChunkLen) > 0
       /\ OutOfOrderLimit \in Nat /\ MaxInFlight \in Nat \ {0}
       /\ MaxSends \in Nat
       /\ {ReadCanFail, WriteCanFail, AckCanBeLost} \subseteq BOOLEAN
       /\ ReadSizes \subseteq Nat \ {0}
       /\ MaxDataReads \in Nat

VARIABLES
    openFiles,  \* store.openFiles[id]: index into handles, 0 when absent
    handles,    \* every fileHandle created so far, in creation order
    blob,       \* the published GridFS file of the object, or NoBlob
    req,        \* req[r]: the state of call slot r
    acked,      \* chunks whose call returned success to the caller
    sends,      \* calls made so far
    rd,         \* a reader of the object: [pc, off, got]
    dr          \* a RetrieveObjectData caller: [pc, fh (its handle), n (calls)]

upVars == <<openFiles, handles, blob, req, acked, sends>>
vars == <<openFiles, handles, blob, req, acked, sends, rd, dr>>

Chunks == 1..Len(ChunkLen)
Requests == 1..MaxInFlight

\* Byte offset at which chunk i starts, and the bytes it carries.
Offset(i) == LET RECURSIVE Sum(_) Sum(k) == IF k = 0 THEN 0 ELSE ChunkLen[k] + Sum(k - 1)
             IN Sum(i - 1)
ChunkData(i) == [k \in 1..ChunkLen[i] |-> i]

\* The whole payload: the chunks laid end to end.
Content == FlattenSeq([i \in Chunks |-> ChunkData(i)])

Bytes == Range(Content)
Data == {ChunkData(i) : i \in Chunks}
HandleRec == [offset : Nat, chunks : UNION {[D -> Data] : D \in SUBSET (0..Len(Content) - 1)},
              written : Seq(Bytes), closed : BOOLEAN, read : BOOLEAN]
ReqRec == [pc : {"idle", "open", "place", "write", "finish"}, chunk : Chunks \cup {0},
           first : BOOLEAN, last : BOOLEAN, fh : Nat, data : Seq(Bytes)]

Idle == [pc |-> "idle", chunk |-> 0, first |-> FALSE, last |-> FALSE, fh |-> 0, data |-> <<>>]

\* The upload is over for the caller once its last chunk was acknowledged.
Done == Chunks \subseteq acked /\ \A r \in Requests : req[r].pc = "idle"

Init ==
    /\ openFiles = 0
    /\ handles = <<>>
    /\ blob = OldBlob
    /\ req = [r \in Requests |-> Idle]
    /\ acked = {}
    /\ sends = 0
    /\ rd = [pc |-> "idle", off |-> 0, got |-> <<>>]
    /\ dr = [pc |-> "idle", fh |-> 0, n |-> 0]

\* Return from a call: with an error, or with success, which the caller
\* records unless its own timeout fired first.
Fail(r) == req' = [req EXCEPT ![r] = Idle] /\ UNCHANGED acked
Succeed(r) ==
    /\ req' = [req EXCEPT ![r] = Idle]
    /\ \/ acked' = acked \cup {req[r].chunk}
       \/ AckCanBeLost /\ UNCHANGED acked

\* The transport calls AppendObjectData for a chunk not yet acknowledged.
Send(r, c) ==
    /\ req[r].pc = "idle"
    /\ sends < MaxSends
    /\ c \in Chunks \ acked
    /\ req' = [req EXCEPT ![r] = [Idle EXCEPT !.pc = "open", !.chunk = c,
                                  !.first = (Offset(c) = 0),
                                  !.last = (Chunks \ acked = {c})]]
    /\ sends' = sends + 1
    /\ UNCHANGED <<openFiles, handles, blob, acked>>

\* Mutant of Open: a chunk that finds no handle creates one instead of
\* failing with "the file doesn't exist".
OpenCreateWhenMissing(r) ==
    LET new == [offset |-> 0, chunks |-> <<>>, written |-> <<>>, closed |-> FALSE,
                read |-> FALSE] IN
    /\ req[r].pc = "open"
    /\ \/ /\ req[r].first \/ openFiles = 0
          /\ blob' = IF req[r].first THEN NoBlob ELSE blob
          /\ handles' = Append(handles, new)
          /\ req' = [req EXCEPT ![r].pc = "place", ![r].fh = Len(handles'),
                                ![r].data = ChunkData(req[r].chunk)]
       \/ /\ ~req[r].first /\ openFiles # 0
          /\ req' = [req EXCEPT ![r].pc = "place", ![r].fh = openFiles,
                                ![r].data = ChunkData(req[r].chunk)]
          /\ UNCHANGED <<blob, handles>>
    /\ UNCHANGED <<openFiles, acked, sends>>

\* Lines 839-868.  A first chunk removes the stored file and creates a new
\* handle that is not yet in openFiles; any other chunk looks the handle up
\* and fails when there is none.  Then the body is read; a short read
\* returns an error and leaves what was done so far.
Open(r) ==
    LET c == req[r].chunk
        new == [offset |-> 0, chunks |-> <<>>, written |-> <<>>, closed |-> FALSE,
                read |-> FALSE]
    IN
    /\ req[r].pc = "open"
    /\ \/ /\ req[r].first
          /\ blob' = NoBlob
          /\ handles' = Append(handles, new)
          /\ \/ req' = [req EXCEPT ![r].pc = "place", ![r].fh = Len(handles'),
                                   ![r].data = ChunkData(c)]
             \/ ReadCanFail /\ Fail(r)
       \/ /\ ~req[r].first
          /\ openFiles = 0
          /\ Fail(r)
          /\ UNCHANGED <<blob, handles>>
       \/ /\ ~req[r].first
          /\ openFiles # 0
          /\ \/ req' = [req EXCEPT ![r].pc = "place", ![r].fh = openFiles,
                                   ![r].data = ChunkData(c)]
             \/ ReadCanFail /\ Fail(r)
          /\ UNCHANGED <<blob, handles>>
    /\ UNCHANGED <<openFiles, acked, sends>>

\* Mutants of Place: the chunk is parked under the offset where it ends,
\* and a chunk at or beyond the handle's offset is written at once.
PlaceKeyByEnd(r) ==
    LET h == handles[req[r].fh]
        off == Offset(req[r].chunk)
    IN
    /\ req[r].pc = "place"
    /\ \/ off = h.offset /\ req' = [req EXCEPT ![r].pc = "write"] /\ UNCHANGED handles
       \/ off # h.offset /\ Cardinality(DOMAIN h.chunks) > OutOfOrderLimit
          /\ Fail(r) /\ UNCHANGED handles
       \/ /\ off # h.offset /\ Cardinality(DOMAIN h.chunks) <= OutOfOrderLimit
          /\ handles' = [handles EXCEPT ![req[r].fh].chunks =
                             ((off + Len(req[r].data)) :> req[r].data) @@ @]
          /\ req' = [req EXCEPT ![r].pc = "finish"]
    /\ UNCHANGED <<openFiles, blob, acked, sends>>

PlaceGreaterEqual(r) ==
    LET h == handles[req[r].fh]
        off == Offset(req[r].chunk)
    IN
    /\ req[r].pc = "place"
    /\ \/ off >= h.offset /\ req' = [req EXCEPT ![r].pc = "write"] /\ UNCHANGED handles
       \/ off < h.offset /\ Cardinality(DOMAIN h.chunks) > OutOfOrderLimit
          /\ Fail(r) /\ UNCHANGED handles
       \/ /\ off < h.offset /\ Cardinality(DOMAIN h.chunks) <= OutOfOrderLimit
          /\ handles' = [handles EXCEPT ![req[r].fh].chunks = (off :> req[r].data) @@ @]
          /\ req' = [req EXCEPT ![r].pc = "finish"]
    /\ UNCHANGED <<openFiles, blob, acked, sends>>

\* Lines 869-906.  A chunk at the handle's offset goes to the write loop;
\* any other chunk is parked in the out-of-order map unless the map holds
\* more than OutOfOrderLimit chunks, in which case it is Discarded.
Place(r) ==
    LET h == handles[req[r].fh]
        off == Offset(req[r].chunk)
    IN
    /\ req[r].pc = "place"
    /\ \/ /\ off = h.offset
          /\ req' = [req EXCEPT ![r].pc = "write"]
          /\ UNCHANGED handles
       \/ /\ off # h.offset
          /\ Cardinality(DOMAIN h.chunks) > OutOfOrderLimit
          /\ Fail(r)
          /\ UNCHANGED handles
       \/ /\ off # h.offset
          /\ Cardinality(DOMAIN h.chunks) <= OutOfOrderLimit
          /\ handles' = [handles EXCEPT ![req[r].fh].chunks = (off :> req[r].data) @@ @]
          /\ req' = [req EXCEPT ![r].pc = "finish"]
    /\ UNCHANGED <<openFiles, blob, acked, sends>>

\* Mutant of WriteStep: one write and no drain of the parked chunks.
WriteStepNoDrain(r) ==
    LET i == req[r].fh IN
    /\ req[r].pc = "write"
    /\ handles' = [handles EXCEPT ![i].written = @ \o req[r].data,
                                  ![i].offset = @ + Len(req[r].data)]
    /\ req' = [req EXCEPT ![r].pc = "finish"]
    /\ UNCHANGED <<openFiles, blob, acked, sends>>

\* One turn of the loop of lines 870-890: write data at the handle's offset
\* and advance it; then take the chunk parked at the new offset out of the
\* map and loop, or leave the loop.  A failed write returns at once.
WriteStep(r) ==
    LET i == req[r].fh
        h == handles[i]
        next == h.offset + Len(req[r].data)
    IN
    /\ req[r].pc = "write"
    /\ \/ /\ handles' = [handles EXCEPT
                 ![i].written = @ \o req[r].data,
                 ![i].offset = next,
                 ![i].chunks = [o \in DOMAIN h.chunks \ {next} |-> h.chunks[o]]]
          /\ req' = IF next \in DOMAIN h.chunks
                    THEN [req EXCEPT ![r].data = h.chunks[next]]
                    ELSE [req EXCEPT ![r].pc = "finish"]
       \/ WriteCanFail /\ Fail(r) /\ UNCHANGED handles
    /\ UNCHANGED <<openFiles, blob, acked, sends>>

\* Lines 911-921.  The last chunk deletes the map entry and closes the
\* file, which publishes what was written; any other chunk puts its
\* handle back into openFiles.
Finish(r) ==
    LET i == req[r].fh IN
    /\ req[r].pc = "finish"
    /\ \/ /\ req[r].last
          /\ openFiles' = 0
          /\ \/ /\ handles' = [handles EXCEPT ![i].closed = TRUE]
                /\ blob' = IF handles[i].read THEN blob ELSE handles[i].written
                /\ Succeed(r)
             \/ WriteCanFail /\ Fail(r) /\ UNCHANGED <<handles, blob>>
       \/ /\ ~req[r].last
          /\ openFiles' = i
          /\ Succeed(r)
          /\ UNCHANGED <<handles, blob>>
    /\ UNCHANGED sends

\* A reader fetches the object's data piece by piece (spec 4.3): it starts
\* at offset 0, asks for one of ReadSizes bytes at a time, appends the n
\* bytes it gets and advances by n, and stops at eof; after an error it
\* starts over.
StartRead ==
    /\ rd.pc = "idle"
    /\ rd' = [pc |-> "reading", off |-> 0, got |-> <<>>]

\* What ReadObjectData finds at offset off for size bytes: the blob is
\* opened afresh on every call.
ReadAnswer(size, off) ==
    LET s == IF size > Len(blob) - off THEN Len(blob) - off ELSE size IN
    IF blob = NoBlob THEN [err |-> TRUE, atEnd |-> TRUE, b |-> <<>>, n |-> 0, left |-> 0]
    ELSE IF off >= Len(blob) THEN [err |-> FALSE, atEnd |-> TRUE, b |-> <<>>, n |-> 0, left |-> 0]
    ELSE [err |-> FALSE, atEnd |-> FALSE, b |-> SubSeq(blob, off + 1, off + s), n |-> s,
          left |-> Len(blob) - off]

TakeAnswer(a, eof) ==
    rd' = IF a.err THEN [rd EXCEPT !.pc = "idle"]
          ELSE [pc |-> IF eof THEN "done" ELSE "reading",
                off |-> rd.off + a.n, got |-> rd.got \o a.b]

\* Mutant of ReadObjectData: eof is reported when at least n bytes were left.
ReadObjectDataEofAtLeast(size) ==
    LET a == ReadAnswer(size, rd.off) IN
    /\ rd.pc = "reading"
    /\ TakeAnswer(a, a.atEnd \/ a.left >= a.n)

\* Lines 757-795: open the GridFS file (an error when there is none), an
\* offset at or past the end gives an empty slice and eof, otherwise read
\* min(size, remaining) bytes (GridFile.Read fills the buffer) and report
\* eof when they were all that was left.
ReadObjectData(size) ==
    LET a == ReadAnswer(size, rd.off) IN
    /\ rd.pc = "reading"
    /\ TakeAnswer(a, a.atEnd \/ a.left = a.n)

\* Lines 989-1001: DeleteStoredData removes the object's GridFS file, when
\* there is one, under whatever upload or read is in progress.
DeleteStoredData ==
    /\ blob # NoBlob
    /\ blob' = NoBlob
    /\ UNCHANGED <<openFiles, handles, req, acked, sends>>

\* Lines 725-737: RetrieveObjectData opens the GridFS file for reading
\* and puts a handle on it into openFiles under the object's id, in place
\* of whatever handle was there.  With no file it returns a nil reader and
\* changes nothing.
RetrieveObjectData ==
    LET new == [offset |-> 0, chunks |-> <<>>, written |-> <<>>, closed |-> FALSE,
                read |-> TRUE]
    IN
    /\ dr.pc = "idle" /\ dr.n < MaxDataReads
    /\ blob # NoBlob
    /\ handles' = Append(handles, new)
    /\ openFiles' = Len(handles')
    /\ dr' = [pc |-> "open", fh |-> Len(handles'), n |-> dr.n + 1]

\* Lines 741-753: CloseDataReader closes the reader and then deletes the
\* handle it finds in openFiles under the file's id, whichever call put it
\* there.  The id is the object's key, as spec 4.3 has CloseDataReader
\* release the backend handle.
CloseDataReader ==
    /\ dr.pc = "open"
    /\ handles' = [handles EXCEPT ![dr.fh].closed = TRUE]
    /\ openFiles' = 0
    /\ dr' = [dr EXCEPT !.pc = "idle"]

DataReaderStep == RetrieveObjectData \/ CloseDataReader

\* The caller stops once the upload is acknowledged or its budget is
\* spent, and no read is half done.
Terminated ==
    /\ Done \/ (sends = MaxSends /\ \A r \in Requests : req[r].pc = "idle")
    /\ rd.pc # "reading"
    /\ UNCHANGED vars

UploadStep ==
    \/ \E r \in Requests, c \in Chunks : Send(r, c)
    \/ \E r \in Requests : Open(r) \/ Place(r) \/ WriteStep(r) \/ Finish(r)
    \/ DeleteStoredData

ReadStep == StartRead \/ \E size \in ReadSizes : ReadObjectData(size)

Next ==
    \/ UploadStep /\ UNCHANGED <<rd, dr>>
    \/ ReadStep /\ UNCHANGED <<upVars, dr>>
    \/ DataReaderStep /\ UNCHANGED <<blob, req, acked, sends, rd>>
    \/ Terminated

Spec == Init /\ [][Next]_vars

-----------------------------------------------------------------------------
TypeOK ==
    /\ handles \in Seq(HandleRec)
    /\ openFiles \in 0..Len(handles)
    /\ blob \in Seq(Bytes) \cup {NoBlob, OldBlob}
    /\ dr \in [pc : {"idle", "open"}, fh : Nat, n : 0..MaxDataReads]
    /\ req \in [Requests -> ReqRec]
    /\ acked \subseteq Chunks
    /\ sends \in 0..MaxSends
    /\ rd \in [pc : {"idle", "reading", "done"}, off : 0..Len(Content), got : Seq(Bytes)]

\* Ordered reassembly: whatever order the chunks arrive in, every handle
\* has written a prefix of the payload, so AppendObjectData never writes a
\* chunk at the wrong place of the GridFS file.
WrittenInOrder == \A i \in DOMAIN handles : IsPrefix(handles[i].written, Content)

\* Round-trip law of the chunked upload: a published file is the whole
\* payload, byte for byte; closing on the last chunk never publishes a
\* file with a hole or a missing tail.
PublishedBlobIsComplete == blob # NoBlob => blob = Content

\* No acknowledged chunk is lost: while the upload is open, every chunk the
\* caller was told was stored is written to, or parked in, the handle in
\* openFiles, or is being written by the drain loop of a running call, so
\* the caller never needs to resend it.
NoAckedChunkLost ==
    (~Done /\ openFiles # 0) =>
        LET h == handles[openFiles] IN
        \A c \in acked :
            \/ Offset(c) < h.offset
            \/ Offset(c) \in DOMAIN h.chunks
            \/ \E r \in Requests : /\ req[r].pc = "write" /\ req[r].fh = openFiles
                                  /\ req[r].data = ChunkData(c)

\* Reading back what was published: a reader that follows ReadObjectData's
\* n and eof from offset 0 to eof, while uploads run beside it, ends with
\* exactly the payload; eof is neither reported early nor missed.
ReadBackIsPayload == rd.pc = "done" => rd.got = Content
=============================================================================
