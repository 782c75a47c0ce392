---------------------------- MODULE PendingWorker ---------------------------
(***************************************************************************)
(* The PendingWorker of every running instance of the service              *)
(* (internal/service/pending_worker.go): readLoop and claimLoop take       *)
(* batches of stream entries, process writes each batch to the two         *)
(* databases in parallel, with retries, and acknowledges it when both      *)
(* writes succeeded.                                                       *)
(*                                                                         *)
(* Everything that can fail does: a COPY, an XACK, the reply to either,    *)
(* the reply to XREADGROUP and XAUTOCLAIM, and the process as a whole.     *)
(***************************************************************************)
EXTENDS PendingStore, ChunkTables

CONSTANTS
    Instance,    \* the instances of the application
    Attempts,    \* RETRY_ATTEMPTS: the repetitions after a first failure
    MaxFaults    \* bound on the number of failures and crashes

ASSUME AttemptsAssumption == Attempts \in Nat
ASSUME MaxFaultsAssumption == MaxFaults \in Nat

Loop == Instance \X {"read", "claim"}

VARIABLES
    up,          \* the instances that run
    batch,       \* batch[l]: the entries loop l is processing, {} between two
    save,        \* save[l][t]: the goroutine that writes the batch to table t
    failures,    \* failures[l][t]: how often its write has failed
    faults,      \* the failures so far
    swallowed    \* history: <<t, e>> where SaveKeys or SaveData returned nil
                 \* for a batch with entry e and e's row was not in t

workerVars == <<up, batch, save, failures>>
vars == <<storeVars, rows, workerVars, faults, swallowed>>

Idle(l) == batch[l] = {}

Items(ids) == [e \in ids |-> stream[e]]

Fault == faults < MaxFaults /\ faults' = faults + 1

\* The two goroutines of process before their first attempt.
NotStarted == [t \in Table |-> "run"]
NoFailures == [t \in Table |-> 0]

Init ==
    /\ StoreInit
    /\ TablesInit
    /\ up = Instance
    /\ batch = [l \in Loop |-> {}]
    /\ save = [l \in Loop |-> NotStarted]
    /\ failures = [l \in Loop |-> NoFailures]
    /\ faults = 0
    /\ swallowed = {}

-----------------------------------------------------------------------------
\* process starts on the entries that parsePendingItem accepts; when there
\* are none the loop goes on to its next call.
StartProcess(l, ids) ==
    /\ batch' = [batch EXCEPT ![l] = WellFormed(ids)]
    /\ UNCHANGED <<rows, up, save, failures, swallowed>>

\* readLoop: one Read that returns entries, handed over to process.
Read(l) ==
    /\ l[2] = "read" /\ l[1] \in up /\ Idle(l)
    /\ XReadGroup
    /\ StartProcess(l, NextIds)
    /\ UNCHANGED faults

\* The stream delivered the entries and the reply was lost: readLoop backs
\* off and reads again, and the entries stay pending with no one at work.
ReadReplyLost(l) ==
    /\ l[2] = "read" /\ l[1] \in up /\ Idle(l)
    /\ XReadGroup
    /\ Fault
    /\ UNCHANGED <<rows, workerVars, swallowed>>

\* claimLoop: one Claim that returns entries, handed over to process.
Claim(l) ==
    /\ l[2] = "claim" /\ l[1] \in up /\ Idle(l)
    /\ XAutoClaim
    /\ StartProcess(l, ClaimIds)
    /\ UNCHANGED faults

ClaimReplyLost(l) ==
    /\ l[2] = "claim" /\ l[1] \in up /\ Idle(l)
    /\ XAutoClaim
    /\ Fault
    /\ UNCHANGED <<rows, workerVars, swallowed>>

-----------------------------------------------------------------------------
\* The errgroup context: cancelled by the first goroutine that fails.
Cancelled(l) == \E t \in Table : save[l][t] = "failed"

Saving(l, t) == ~Idle(l) /\ save[l][t] = "run"

SetSave(l, t, s) == save' = [save EXCEPT ![l][t] = s]

\* SaveKeys or SaveData inserts the batch and returns nil.
SaveOk(l, t) ==
    /\ Saving(l, t)
    /\ CopyFrom(t, Items(batch[l]))
    /\ SetSave(l, t, "ok")
    /\ UNCHANGED <<storeVars, up, batch, failures, faults, swallowed>>

\* The COPY breaks the primary key and inserts nothing; isUniqueViolation
\* turns the error into nil.
SaveDuplicate(l, t) ==
    /\ Saving(l, t)
    /\ UniqueViolation(t, Items(batch[l]))
    /\ SetSave(l, t, "ok")
    /\ swallowed' = swallowed \cup
                      {<<t, e>> : e \in {f \in batch[l] : stream[f] \notin rows[t]}}
    /\ UNCHANGED <<storeVars, rows, up, batch, failures, faults>>

\* Mutant: one attempt too many.
RetryOnceMore(l, t) ==
    IF Cancelled(l) \/ failures[l][t] > Attempts
    THEN SetSave(l, t, "failed") /\ UNCHANGED failures
    ELSE failures' = [failures EXCEPT ![l][t] = @ + 1] /\ UNCHANGED save

\* Mutant: retryDo returns nil when it runs out of attempts.
RetryOrForget(l, t) ==
    IF Cancelled(l) \/ failures[l][t] = Attempts
    THEN SetSave(l, t, "ok") /\ UNCHANGED failures
    ELSE failures' = [failures EXCEPT ![l][t] = @ + 1] /\ UNCHANGED save

\* What retryDo does with an error of the write: it gives up when the
\* context is cancelled or the attempts are used up, and tries again else.
RetryOrFail(l, t) ==
    IF Cancelled(l) \/ failures[l][t] = Attempts
    THEN SetSave(l, t, "failed") /\ UNCHANGED failures
    ELSE failures' = [failures EXCEPT ![l][t] = @ + 1] /\ UNCHANGED save

\* The COPY fails and the database is unchanged.
SaveError(l, t) ==
    /\ Saving(l, t)
    /\ Fault
    /\ RetryOrFail(l, t)
    /\ UNCHANGED <<storeVars, rows, up, batch, swallowed>>

\* The COPY is committed, but the client sees an error.
SaveReplyLost(l, t) ==
    /\ Saving(l, t)
    /\ CopyFrom(t, Items(batch[l]))
    /\ Fault
    /\ RetryOrFail(l, t)
    /\ UNCHANGED <<storeVars, up, batch, swallowed>>

\* The other write has failed for good: this one ends with ctx.Err().
SaveCancelled(l, t) ==
    /\ Saving(l, t)
    /\ Cancelled(l)
    /\ SetSave(l, t, "failed")
    /\ UNCHANGED <<storeVars, rows, up, batch, failures, faults, swallowed>>

-----------------------------------------------------------------------------
\* g.Wait() has returned.
Joined(l) == ~Idle(l) /\ \A t \in Table : save[l][t] # "run"

\* Mutant: the acknowledgement does not wait for both writes to succeed.
EitherSaved(l) == Joined(l) /\ \E t \in Table : save[l][t] = "ok"

BatchSaved(l) == Joined(l) /\ \A t \in Table : save[l][t] = "ok"

\* process returns: its errgroup and its retry counters go with it.
EndProcess(L) ==
    /\ batch' = [l \in Loop |-> IF l \in L THEN {} ELSE batch[l]]
    /\ save' = [l \in Loop |-> IF l \in L THEN NotStarted ELSE save[l]]
    /\ failures' = [l \in Loop |-> IF l \in L THEN NoFailures ELSE failures[l]]

\* Both writes returned nil: process acknowledges the batch.
Ack(l) ==
    /\ BatchSaved(l)
    /\ XAck(batch[l])
    /\ EndProcess({l})
    /\ UNCHANGED <<rows, up, faults, swallowed>>

\* XACK fails: the entries stay pending until someone claims them.
AckError(l) ==
    /\ BatchSaved(l)
    /\ Fault
    /\ EndProcess({l})
    /\ UNCHANGED <<storeVars, rows, up, swallowed>>

\* One of the writes failed: the loop logs the error and goes on, and the
\* entries stay pending.
GiveUp(l) ==
    /\ Joined(l)
    /\ Cancelled(l)
    /\ EndProcess({l})
    /\ UNCHANGED <<storeVars, rows, up, faults, swallowed>>

-----------------------------------------------------------------------------
\* The process of instance i ends, by a crash or by a signal: main does not
\* wait for the worker, and its context is cancelled wherever it stands.
Crash(i) ==
    /\ i \in up
    /\ Fault
    /\ up' = up \ {i}
    /\ EndProcess({i} \X {"read", "claim"})
    /\ UNCHANGED <<storeVars, rows, swallowed>>

\* The instance starts again; CursorInit finds the group in place
\* (BUSYGROUP) and leaves its position as it is.
Start(i) ==
    /\ i \in Instance \ up
    /\ up' = up \cup {i}
    /\ UNCHANGED <<storeVars, rows, batch, save, failures, faults, swallowed>>

\* An upload or a rotation adds an entry, or a foreign client does.
Produce(x) ==
    /\ XAdd(x)
    /\ UNCHANGED <<rows, workerVars, faults, swallowed>>

TimePasses(e) ==
    /\ Age(e)
    /\ UNCHANGED <<rows, workerVars, faults, swallowed>>

Save(l, t) == SaveOk(l, t) \/ SaveDuplicate(l, t)

Next ==
    \/ \E x \in FlushItem \cup Foreign : Produce(x)
    \/ \E e \in pel : TimePasses(e)
    \/ \E l \in Loop :
          \/ Read(l) \/ ReadReplyLost(l) \/ Claim(l) \/ ClaimReplyLost(l)
          \/ Ack(l) \/ AckError(l) \/ GiveUp(l)
          \/ \E t \in Table : \/ Save(l, t) \/ SaveError(l, t)
                              \/ SaveReplyLost(l, t) \/ SaveCancelled(l, t)
    \/ \E i \in Instance : Crash(i) \/ Start(i)

Spec == Init /\ [][Next]_vars

\* What the scheduler and the clock guarantee: a loop that can take its next
\* step takes it, time passes, and an instance that went down is restarted.
Fairness ==
    /\ \A l \in Loop :
          /\ WF_vars(Read(l) \/ Claim(l))
          /\ WF_vars(Ack(l) \/ GiveUp(l))
          /\ \A t \in Table : WF_vars(Save(l, t))
    /\ \A e \in 1..MaxEntries : WF_vars(TimePasses(e))
    /\ \A i \in Instance : WF_vars(Start(i))

FairSpec == Spec /\ Fairness

-----------------------------------------------------------------------------
\* The types; and no goroutine of process fails more often than retryDo allows,
\* and what is pending was delivered.
TypeOK ==
    /\ StoreTypeOK
    /\ TablesTypeOK
    /\ up \subseteq Instance
    /\ batch \in [Loop -> SUBSET (1..delivered)]
    /\ save \in [Loop -> [Table -> {"run", "ok", "failed"}]]
    /\ failures \in [Loop -> [Table -> 0..Attempts]]
    /\ faults \in 0..MaxFaults
    /\ swallowed \subseteq Table \X (1..delivered)

Stored(t, e) == stream[e] \in rows[t]

\* The promise of Ack's comment ("the data are processed, written to
\* Postgres, and can be deleted", pending_store.go:137) and of process
\* ("picked up again, and not lost", pending_worker.go:143): an acknowledged
\* entry has its row in both databases.
AckedStored == \A e \in Acked, t \in Table : Stored(t, e)

\* What the code guarantees for every batch size: the one way in which an
\* acknowledged entry can lack a row is a unique violation of the COPY of a
\* batch it was in, which SaveKeys and SaveData report as success.  No
\* failed write, lost reply, crash or overlapping claim loses an entry.
AckedStoredOrSwallowed ==
    \A e \in Acked, t \in Table : Stored(t, e) \/ <<t, e>> \in swallowed

\* An entry that parsePendingItem rejects is never acknowledged: it stays in
\* the pending list, where an operator can find it.
ForeignNeverAcked == \A e \in Acked : stream[e] \in FlushItem

\* With batches of one entry the worker is the durable hand-off its comments
\* describe: nothing is released before both rows are written, and the rows
\* are those of accepted entries, whatever fails and whoever overlaps.
Handoff == INSTANCE DurableHandoff WITH accepted <- stream, released <- Acked

HandoffSafety == Handoff!HandoffSpec

\* With batches of any size the worker is the buffer that rotations and downloads
\* are modelled with: an item is pending until all its entries are acknowledged,
\* and saved if its row is there or was swallowed.
StreamItems == {stream[e] : e \in DOMAIN stream} \ Foreign
OpenItems == {stream[e] : e \in DOMAIN stream \ Acked} \ Foreign
SavedItems == {w \in Table \X FlushItem :
                  \/ w[2] \in rows[w[1]]
                  \/ \E s \in swallowed : s[1] = w[1] /\ stream[s[2]] = w[2]}

Buffer == INSTANCE WriteBehind
              WITH accepted <- StreamItems, pending <- OpenItems, saved <- SavedItems

BufferSafety == Buffer!BufferSpec

\* Every entry the flusher wrote is acknowledged in the end, whatever fails
\* on the way, provided failures are finite in number.
EventuallyAcked ==
    \A e \in 1..MaxEntries :
        (e <= Len(stream) /\ stream[e] \in FlushItem) ~> (e \in Acked)
=============================================================================
