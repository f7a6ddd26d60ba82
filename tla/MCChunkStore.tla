---------------------------- MODULE MCChunkStore ----------------------------
(***************************************************************************)
(* Instances of ChunkStore for TLC.                                        *)
(***************************************************************************)
EXTENDS ChunkStore

CONSTANTS h1, h2, f1, f2

C(h, f) == [hash |-> h, file |-> f]

\* Batches with one chunk, two chunks of different content, and content repeated
\* inside the batch under two files.
SmallBatches ==
    { <<C(h1, f1)>>, <<C(h1, f2)>>, <<C(h2, f1)>>,
      <<C(h1, f1), C(h2, f2)>>, <<C(h2, f1), C(h2, f2)>> }

\* Batches of a repository with one file.
OneFileBatches ==
    { <<C(h1, f1)>>, <<C(h2, f1)>>, <<C(h2, f1), C(h1, f1)>> }
=============================================================================
