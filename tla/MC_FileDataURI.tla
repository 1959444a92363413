----------------------------- MODULE MC_FileDataURI -----------------------------
EXTENDS FileDataURI, TLC

CONSTANTS t1, t2

\* A longer and a shorter payload, and an upload of two chunks of which
\* the first is longer than the second.
MCPayloads == {<<1, 1, 1>>, <<2>>}
MCUpChunks == <<<<3, 3>>, <<4>>>>
==============================================================================
