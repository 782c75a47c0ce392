----------------------------- MODULE MCRotation -----------------------------
(* Small instances of Rotation. *)
EXTENDS Rotation

CONSTANTS Chunks, Rotations

FileChunk == 1..Chunks
Calls == 1..Rotations

\* Each rotation raises the latest version by one at most.
Item == [uuid : FileChunk, version : 1..(Rotations + 1), secret : 0..Rotations]
=============================================================================
