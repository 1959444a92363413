------------------------- MODULE MC_ChunkedUpload --------------------------
(***************************************************************************)
(* Instances of ChunkedUpload for TLC.  Five chunks of 1, 2, 1, 1 and 1   *)
(* bytes: chunk 2 is two bytes long, so a wrong offset arithmetic shows,  *)
(* and with OutOfOrderLimit 1 the window fills after two parked chunks,   *)
(* so Discarded and the resend that follows it happen.                    *)
(***************************************************************************)
EXTENDS ChunkedUpload

MCChunkLen == <<1, 2, 1, 1, 1>>

\* A reader asking for 2 or 4 bytes meets the end of the payload both
\* exactly (6 = 2 + 2 + 2) and inside a request (4 + 2 of 4).
MCReadSizes == {2, 4}

\* An earlier upload of the object left a one-byte payload in GridFS.
MCOldBlob == <<1>>
=============================================================================
