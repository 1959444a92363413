\* One call at a time (the design's single appender), short reads allowed.
CONSTANTS
    ChunkLen <- MCChunkLen
    OutOfOrderLimit = 1
    MaxInFlight = 1
    MaxSends = 12
    ReadCanFail = TRUE
    WriteCanFail = FALSE
    AckCanBeLost = FALSE
    ReadSizes <- MCReadSizes
    NoBlob = NoBlob
    OldBlob = NoBlob
    MaxDataReads = 1
SPECIFICATION Spec
INVARIANTS
    TypeOK
    WrittenInOrder
    PublishedBlobIsComplete
    NoAckedChunkLost
    ReadBackIsPayload
