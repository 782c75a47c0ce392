-------------------------- MODULE MCUploadPipeline --------------------------
(* Small instances of UploadPipeline. *)
EXTENDS UploadPipeline, TLC

CONSTANTS w1, w2

Chunks == 1..MaxChunks

\* The workers are interchangeable.
Swap == Permutations({w1, w2})
=============================================================================
