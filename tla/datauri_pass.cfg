CONSTANTS
    t1 = t1
    t2 = t2
    Threads = {t1}
    Payloads <- MCPayloads
    UpChunks <- MCUpChunks
    MaxCalls = 5
SPECIFICATION Spec
INVARIANTS TypeOK ChunkedReadRoundTrip
PROPERTY PublishOnlyByRename
