------------------------- MODULE MCLinkShardingStore -------------------------
(* Model values and definitions for checking LinkShardingStore with TLC.   *)
EXTENDS LinkShardingStore

\* Temporary links only: a permanent link's SafePut fails on EX 0, which
\* the permanent run of ShortLink already shows.
MCTemporaryOnly == {"temporary"}

\* A CreateLink command and a CreateLinkBatch command of two links.
MCBatchSizes == {1, 2}
=============================================================================
