----------------------------- MODULE WriteBehind ----------------------------
(***************************************************************************)
(* The write-behind buffer as rotations and downloads meet it: PendingStore *)
(* and PendingWorker with their loops, IDs, retries and failures left out. *)
(* What an upload or a rotation adds to the stream is written to the two   *)
(* tables at some later time, to either one first, in no particular order, *)
(* and acknowledged when both writes have succeeded.  A batch that breaks  *)
(* the primary key counts as saved, with all items that are in it.         *)
(* PendingWorker implements this (BufferSafety).                           *)
(***************************************************************************)
EXTENDS ChunkTables

CONSTANT Amount      \* PENDING_AMOUNT: the most entries in a batch

ASSUME AmountAssumption == Amount \in Nat \ {0}

VARIABLES
    accepted,        \* the items ever added to the stream
    pending,         \* those with an entry that is not acknowledged
    saved            \* <<t, x>>: SaveKeys or SaveData has returned nil for x

bufferVars == <<accepted, pending, saved>>

BufferInit ==
    /\ TablesInit
    /\ accepted = {}
    /\ pending = {}
    /\ saved = {}

\* Flusher.write adds an item; retryDo may add it again.
Accept(x) ==
    /\ accepted' = accepted \cup {x}
    /\ pending' = pending \cup {x}
    /\ UNCHANGED <<rows, saved>>

\* The items X are those of one batch.
Batch(X) == X \subseteq accepted /\ Cardinality(X) <= Amount

\* SaveKeys or SaveData returns nil for the batch.
ReportSaved(t, X) ==
    /\ saved' = saved \cup ({t} \X X)
    /\ UNCHANGED <<accepted, pending>>

\* A COPY of the items X is committed.  None of them has to be pending: a slow
\* process goes on when another loop has claimed and acknowledged its entries.
Insert(t, X) ==
    /\ CopyFrom(t, [x \in X |-> x])
    /\ ReportSaved(t, X)

\* COPY has inserted no row, and the save reports success for all items X (not
\* only for such of which it had reported that before).
Swallow(t, X) ==
    /\ ~({t} \X X \subseteq saved)
    /\ ReportSaved(t, X)
    /\ UNCHANGED rows

\* The primary key of one of them is there already.
Duplicate(t, X) == UniqueViolation(t, [x \in X |-> x]) /\ Swallow(t, X)

\* Mutant: the acknowledgement waits for one of the two writes.
AckEither(X) ==
    /\ \A x \in X : \E t \in Table : <<t, x>> \in saved
    /\ pending' = pending \ X
    /\ UNCHANGED <<accepted, saved, rows>>

\* Both writes of the items X returned nil: process acknowledges them.
Ack(X) ==
    /\ \A x \in X, t \in Table : <<t, x>> \in saved
    /\ pending' = pending \ X
    /\ UNCHANGED <<accepted, saved, rows>>

\* The items that are not yet written to t.
Due(t) == {x \in pending : <<t, x>> \notin saved}

Save(t, X) == Batch(X) /\ (Insert(t, X) \/ Duplicate(t, X))

Write == \E t \in Table : \E X \in (SUBSET Due(t)) \ {{}} : Save(t, X)

\* Entries are written again, with others or without: they are delivered again
\* after a write or the acknowledgement failed, or a slow process is late.  A row
\* that was deleted comes back, or the batch breaks the primary key.
Rewrite ==
    \E t \in Table : \E X \in SUBSET accepted : ~(X \subseteq Due(t)) /\ Save(t, X)

\* The retry of AddBatch has added an item of X again, and the batch has both
\* entries, which break the primary key.
Repeated ==
    \E t \in Table : \E X \in SUBSET accepted : Cardinality(X) < Amount /\ Swallow(t, X)

Acknowledge == \E X \in (SUBSET pending) \ {{}} : Ack(X)

BufferNext ==
    \/ Write \/ Rewrite \/ Repeated \/ Acknowledge
    \/ \E x \in FlushItem : Accept(x)

BufferSpec == BufferInit /\ [][BufferNext]_<<rows, bufferVars>>

BufferTypeOK ==
    /\ TablesTypeOK
    /\ accepted \subseteq FlushItem
    /\ pending \subseteq accepted
    /\ saved \subseteq Table \X accepted
=============================================================================
