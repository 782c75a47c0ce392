--------------------------- MODULE MCPendingWorker --------------------------
(* Small instances of PendingWorker: uploads of chunks, one item each. *)
EXTENDS PendingWorker, TLC

CONSTANTS c1, c2, i1, i2

\* An uploaded chunk has a key of its own.
Item(c) == [uuid |-> c, version |-> 1, secret |-> c]

TwoItems == {Item(c1), Item(c2)}

\* Exchanging the two chunks, or the two instances, changes nothing.
Swap == Permutations({c1, c2}) \cup Permutations({i1, i2})
=============================================================================
