------------------------------- MODULE Flusher ------------------------------
(***************************************************************************)
(* Flusher.Run (internal/service/batch_flusher.go): collects the chunks    *)
(* that arrive on the channel items into a batch and adds the batch to the *)
(* Redis stream when it is full, when the timer fires and when the channel *)
(* is closed; when the context is cancelled it writes what it has under a  *)
(* context of its own.                                                     *)
(*                                                                         *)
(* Uploads and rotations run it as the last stage of their pipelines.  The *)
(* order of chunks is left out (channel and batch are sets): the workers   *)
(* before it finish in any order, and a download sorts chunks by UUID.     *)
(***************************************************************************)
EXTENDS Naturals, FiniteSets

CONSTANTS
    Chunk,       \* the chunks an upload may consist of
    BatchSize,   \* FLUSHER_BATCH_SIZE
    Attempts,    \* RETRY_ATTEMPTS: the repetitions after a first failure
    MaxFaults    \* bound on the number of failures

ASSUME BatchSizeAssumption == BatchSize \in Nat \ {0}
ASSUME AttemptsAssumption == Attempts \in Nat
ASSUME MaxFaultsAssumption == MaxFaults \in Nat

VARIABLES
    items,        \* the channel of encrypted chunks
    itemsClosed,
    flusher,      \* "select"; "flush", "drain", "tail": writing the batch
                  \* and then going on, returning nil, returning ctx.Err();
                  \* "nil", "err": it has returned
    buffer,       \* the batch
    failures,     \* how often the write of this batch has failed
    added,        \* added[c]: how often c was added to the stream
    faults        \* the failures so far

flusherVars == <<flusher, buffer, failures, added>>

FlusherInit ==
    /\ items = {}
    /\ itemsClosed = FALSE
    /\ flusher = "select"
    /\ buffer = {}
    /\ failures = 0
    /\ added = [c \in Chunk |-> 0]
    /\ faults = 0

Fault == faults < MaxFaults /\ faults' = faults + 1

Writing == flusher \in {"flush", "drain", "tail"}

FlusherEnded == flusher \in {"nil", "err"}

-----------------------------------------------------------------------------
\* A chunk arrives; a full batch is flushed.
TakeItem(c) ==
    /\ flusher = "select"
    /\ c \in items
    /\ items' = items \ {c}
    /\ buffer' = buffer \cup {c}
    /\ flusher' = IF Cardinality(buffer') >= BatchSize THEN "flush" ELSE "select"
    /\ UNCHANGED <<itemsClosed, failures, added, faults>>

\* The channel is closed and empty: the rest is flushed.
ItemsEnd ==
    /\ flusher = "select"
    /\ itemsClosed /\ items = {}
    /\ flusher' = IF buffer = {} THEN "nil" ELSE "drain"
    /\ UNCHANGED <<items, itemsClosed, buffer, failures, added, faults>>

\* The timer fires (with an empty batch it changes nothing).
FlushTime ==
    /\ flusher = "select"
    /\ buffer # {}
    /\ flusher' = "flush"
    /\ UNCHANGED <<items, itemsClosed, buffer, failures, added, faults>>

\* select picks ctx.Done(): the batch is written under flushCtx.
FlusherDone(done) ==
    /\ flusher = "select"
    /\ done
    /\ flusher' = IF buffer = {} THEN "err" ELSE "tail"
    /\ UNCHANGED <<items, itemsClosed, buffer, failures, added, faults>>

-----------------------------------------------------------------------------
\* The pipeline of XADDs that AddBatch sends is no transaction: S is the
\* part of the batch that reached the stream.
AddBatch(S) == added' = [c \in Chunk |-> IF c \in S THEN added[c] + 1 ELSE added[c]]

\* Mutant: items = items[:0] is forgotten when the write succeeds.
WriteOkKeepsBatch ==
    /\ Writing
    /\ AddBatch(buffer)
    /\ flusher' = CASE flusher = "flush" -> "select"
                    [] flusher = "drain" -> "nil"
                    [] flusher = "tail"  -> "err"
    /\ failures' = 0
    /\ UNCHANGED <<items, itemsClosed, buffer, faults>>

WriteOk ==
    /\ Writing
    /\ AddBatch(buffer)
    /\ flusher' = CASE flusher = "flush" -> "select"
                    [] flusher = "drain" -> "nil"
                    [] flusher = "tail"  -> "err"
    /\ buffer' = {}
    /\ failures' = 0
    /\ UNCHANGED <<items, itemsClosed, faults>>

\* Mutant: the error of write is logged and forgotten.
WriteForgiven ==
    IF failures = Attempts
    THEN /\ flusher' = IF flusher = "flush" THEN "select" ELSE "nil"
         /\ failures' = 0
         /\ buffer' = {}
    ELSE failures' = failures + 1 /\ UNCHANGED <<flusher, buffer>>

\* Mutant: one attempt too many.
WriteOnceMore ==
    IF failures > Attempts
    THEN flusher' = "err" /\ failures' = 0 /\ UNCHANGED buffer
    ELSE failures' = failures + 1 /\ UNCHANGED <<flusher, buffer>>

\* retryDo repeats the write or returns the error, and Run returns it too:
\* what is in the batch is not written again.
WriteRetry ==
    IF failures = Attempts
    THEN flusher' = "err" /\ failures' = 0 /\ UNCHANGED buffer
    ELSE failures' = failures + 1 /\ UNCHANGED <<flusher, buffer>>

\* AddBatch returns an error, having added S.
WriteError(S) ==
    /\ Writing
    /\ AddBatch(S)
    /\ Fault
    /\ WriteRetry
    /\ UNCHANGED <<items, itemsClosed>>

\* The context of the write ends, while AddBatch runs or between two
\* attempts: the request's context, or flushCtx by its timeout.
WriteCancelled(done, S) ==
    /\ Writing
    /\ IF flusher = "tail" THEN Fault ELSE done /\ UNCHANGED faults
    /\ AddBatch(S)
    /\ flusher' = "err"
    /\ UNCHANGED <<items, itemsClosed, buffer, failures>>

-----------------------------------------------------------------------------
\* What Run does by itself; the failures and the timer are no part of it.
FlusherStep(done) ==
    \/ \E c \in items : TakeItem(c)
    \/ ItemsEnd
    \/ FlusherDone(done)
    \/ WriteOk

FlusherNext(done) ==
    \/ FlusherStep(done)
    \/ FlushTime
    \/ \E S \in SUBSET buffer : WriteError(S) \/ WriteCancelled(done, S)

FlusherTypeOK ==
    /\ items \subseteq Chunk
    /\ itemsClosed \in BOOLEAN
    /\ flusher \in {"select", "flush", "drain", "tail", "nil", "err"}
    /\ buffer \subseteq Chunk
    /\ failures \in 0..Attempts
    /\ added \in [Chunk -> Nat]
    /\ faults \in 0..MaxFaults
=============================================================================
