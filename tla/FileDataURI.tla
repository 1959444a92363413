------------------------------ MODULE FileDataURI ------------------------------
(***************************************************************************)
(* The file-backed payload store of package dataURI (src/unnamed/part_000):*)
(* AppendData and StoreData write into <path>.tmp, opened O_WRONLY|O_CREATE *)
(* (no O_TRUNC), at a seek offset, and rename it to <path> to publish;     *)
(* GetDataChunk reads the published file at an offset; DeleteStoredData   *)
(* removes <path>.                                                          *)
(*                                                                         *)
(* The file system is modelled with inodes: tmpName and finalName are the  *)
(* directory entries, inodes[i] the bytes of inode i (0 is a hole).  An    *)
(* open file descriptor refers to an inode, not to a name, so a rename     *)
(* does not change where a call that opened the file before it writes.     *)
(***************************************************************************)
EXTENDS Naturals, Sequences, FiniteSets

CONSTANTS
    Threads,     \* concurrent callers for the same data URI
    Payloads,    \* byte sequences StoreData may be called with
    UpChunks,    \* UpChunks[c]: bytes of chunk c of a chunked upload
    MaxCalls     \* bound on the calls made in a behaviour (each creates
                 \* at most one inode)

VARIABLES
    inodes,     \* inodes[i]: content of inode i, for i in 1..Len(inodes)
    tmpName,    \* inode named <path>.tmp, 0 when there is none
    finalName,  \* inode named <path>, 0 when there is none
    th,         \* th[t]: [pc, op, data, off, last, fd]
    calls,      \* calls started so far
    stored      \* ghost: the payload the last successful StoreData published

vars == <<inodes, tmpName, finalName, th, calls, stored>>

NoData == <<>>
Idle == [pc |-> "idle", op |-> "store", data |-> NoData, off |-> 0, last |-> FALSE, fd |-> 0]

\* Mutant of ChunkOffset: the offset where the chunk ends.
ChunkOffsetEnd(c) ==
    LET RECURSIVE S(_) S(k) == IF k = 0 THEN 0 ELSE Len(UpChunks[k]) + S(k - 1)
    IN S(c)

\* Byte offset of chunk c, and the size of the whole upload.
ChunkOffset(c) ==
    LET RECURSIVE S(_) S(k) == IF k = 0 THEN 0 ELSE Len(UpChunks[k]) + S(k - 1)
    IN S(c - 1)
Total == LET RECURSIVE S(_) S(k) == IF k = 0 THEN 0 ELSE Len(UpChunks[k]) + S(k - 1)
         IN S(Len(UpChunks))

MaxOf(a, b) == IF a > b THEN a ELSE b
MinOf(a, b) == IF a < b THEN a ELSE b

\* Seek to off and write data: bytes past the old end become the data,
\* bytes skipped over become a hole (0), bytes beyond the write remain.
WriteAt(f, off, data) ==
    [i \in 1..MaxOf(Len(f), off + Len(data)) |->
        IF off < i /\ i <= off + Len(data) THEN data[i - off]
        ELSE IF i <= Len(f) THEN f[i] ELSE 0]

\* Mutant of GetDataChunk: n is the requested size, not the bytes read.
GetDataChunkFullN(f, size, off) ==
    LET n == IF off >= Len(f) THEN 0 ELSE MinOf(size, Len(f) - off) IN
    [bytes |-> [i \in 1..size |-> IF i <= n THEN f[off + i] ELSE 0],
     eof |-> IF n = size THEN Len(f) = off + size ELSE TRUE,
     n |-> size]

\* GetDataChunk (lines 112-150): ReadAt of size bytes at off into a buffer of
\* size bytes; a full read is eof when the file ends exactly there, a short
\* read ends with io.EOF and is eof.
GetDataChunk(f, size, off) ==
    LET n == IF off >= Len(f) THEN 0 ELSE MinOf(size, Len(f) - off) IN
    [bytes |-> [i \in 1..size |-> IF i <= n THEN f[off + i] ELSE 0],
     eof |-> IF n = size THEN Len(f) = off + size ELSE TRUE,
     n |-> n]

\* A reader that asks for size bytes at a time from offset 0, keeps the n
\* bytes each call produced and stops at eof.
RECURSIVE ReadFrom(_, _, _)
ReadFrom(f, size, off) ==
    LET r == GetDataChunk(f, size, off) IN
    IF r.eof \/ r.n = 0 THEN SubSeq(r.bytes, 1, r.n)
    ELSE SubSeq(r.bytes, 1, r.n) \o ReadFrom(f, size, off + r.n)

Init ==
    /\ inodes = <<>>
    /\ tmpName = 0
    /\ finalName = 0
    /\ th = [t \in Threads |-> Idle]
    /\ calls = 0
    /\ stored = NoData

Begin(t) == th[t].pc = "idle" /\ calls < MaxCalls /\ calls' = calls + 1
Return(t) == th' = [th EXCEPT ![t] = Idle]

StartStoreData(t, p) ==
    /\ Begin(t)
    /\ th' = [th EXCEPT ![t] = [Idle EXCEPT !.pc = "open", !.op = "store", !.data = p]]
    /\ UNCHANGED <<inodes, tmpName, finalName, stored>>

\* The transport marks the chunk that ends at total as the last one.
StartAppendData(t, c) ==
    /\ Begin(t)
    /\ th' = [th EXCEPT ![t] = [Idle EXCEPT !.pc = "open", !.op = "append",
                 !.data = UpChunks[c], !.off = ChunkOffset(c),
                 !.last = (ChunkOffset(c) + Len(UpChunks[c]) = Total)]]
    /\ UNCHANGED <<inodes, tmpName, finalName, stored>>

\* os.OpenFile(path.tmp, O_WRONLY|O_CREATE): an existing .tmp is opened as
\* it is; otherwise a new empty inode gets the name.
Open(t) ==
    /\ th[t].pc = "open"
    /\ IF tmpName # 0
         THEN /\ th' = [th EXCEPT ![t].pc = "copy", ![t].fd = tmpName]
              /\ UNCHANGED <<inodes, tmpName>>
         ELSE /\ inodes' = Append(inodes, <<>>)
              /\ tmpName' = Len(inodes')
              /\ th' = [th EXCEPT ![t].pc = "copy", ![t].fd = Len(inodes')]
    /\ UNCHANGED <<finalName, calls, stored>>

\* Seek and io.Copy through the descriptor.  The reader may deliver fewer
\* bytes than dataLength: what was copied stays in the file and the call
\* returns "Failed to write all the data".
Copy(t) ==
    LET d == th[t].data IN
    /\ th[t].pc = "copy"
    /\ \/ /\ inodes' = [inodes EXCEPT ![th[t].fd] = WriteAt(@, th[t].off, d)]
          /\ th' = IF th[t].op = "store" \/ th[t].last
                   THEN [th EXCEPT ![t].pc = "rename"]
                   ELSE [th EXCEPT ![t] = Idle]
       \/ \E k \in 0..Len(d) - 1 :
            /\ inodes' = [inodes EXCEPT ![th[t].fd] = WriteAt(@, th[t].off, SubSeq(d, 1, k))]
            /\ Return(t)
    /\ UNCHANGED <<tmpName, finalName, calls, stored>>

\* Mutant of Rename: the staging name is linked to the published file
\* but not removed.
RenameKeepsTmp(t) ==
    /\ th[t].pc = "rename"
    /\ IF tmpName # 0
         THEN /\ finalName' = tmpName
              /\ stored' = IF th[t].op = "store" THEN th[t].data ELSE stored
         ELSE UNCHANGED <<finalName, stored>>
    /\ Return(t)
    /\ UNCHANGED <<inodes, tmpName, calls>>

\* os.Rename(path.tmp, path): the inode named .tmp becomes the published
\* file; with no .tmp (another call renamed it) the rename fails.
Rename(t) ==
    /\ th[t].pc = "rename"
    /\ IF tmpName # 0
         THEN /\ finalName' = tmpName
              /\ tmpName' = 0
              /\ stored' = IF th[t].op = "store" THEN th[t].data ELSE stored
         ELSE UNCHANGED <<finalName, tmpName, stored>>
    /\ Return(t)
    /\ UNCHANGED <<inodes, calls>>

\* DeleteStoredData (lines 153-162): os.Remove(path); .tmp is left alone.
DeleteStoredData ==
    /\ calls < MaxCalls /\ calls' = calls + 1
    /\ finalName' = 0
    /\ UNCHANGED <<inodes, tmpName, th, stored>>

Terminated ==
    /\ calls = MaxCalls /\ \A t \in Threads : th[t].pc = "idle"
    /\ UNCHANGED vars

Next ==
    \/ \E t \in Threads :
         \/ \E p \in Payloads : StartStoreData(t, p)
         \/ \E c \in DOMAIN UpChunks : StartAppendData(t, c)
         \/ Open(t) \/ Copy(t) \/ Rename(t)
    \/ DeleteStoredData
    \/ Terminated

Spec == Init /\ [][Next]_vars

-----------------------------------------------------------------------------
Bytes == UNION {{p[i] : i \in DOMAIN p} : p \in Payloads \cup {UpChunks[c] : c \in DOMAIN UpChunks}}

TypeOK ==
    /\ inodes \in Seq(Seq(Bytes \cup {0}))
    /\ tmpName \in 0..Len(inodes) /\ finalName \in 0..Len(inodes)
    /\ th \in [Threads -> [pc : {"idle", "open", "copy", "rename"}, op : {"store", "append"},
                           data : Seq(Bytes), off : 0..Total - 1, last : BOOLEAN, fd : 0..Len(inodes)]]
    /\ calls \in 0..MaxCalls

\* Publishing is atomic: the published file never changes in place; it
\* only changes by the rename that publishes a new file (or by its
\* deletion), so a reader never sees a write in progress.
PublishOnlyByRename ==
    [][finalName' = finalName /\ finalName # 0 => inodes'[finalName] = inodes[finalName]]_vars

\* Round trip of GetDataChunk: reading the published file size bytes at a
\* time, keeping n bytes of each answer and stopping at eof, yields the
\* file, for every chunk size up to the file's length and beyond.
ChunkedReadRoundTrip ==
    finalName # 0 =>
        \A size \in 1..Len(inodes[finalName]) + 1 :
            ReadFrom(inodes[finalName], size, 0) = inodes[finalName]
==============================================================================
