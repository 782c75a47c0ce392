------------------------ MODULE UploadPipelineProofs ------------------------
(***************************************************************************)
(* What an upload guarantees for every number of chunks, workers, attempts *)
(* and failures and for every batch size.                                  *)
(***************************************************************************)
EXTENDS UploadPipeline, FiniteSetTheorems, TLAPS

-----------------------------------------------------------------------------
\* A worker that sends holds a chunk.
HoldOK == \A w \in Worker : worker[w] = "send" => hold[w] # 0

\* A reader that sends has read a chunk; one that has left its loop knows
\* what it returns.
ReaderKnows ==
    /\ reader = "send" => read # 0
    /\ reader \in {"close", "return"} => readErr # "more"

Typed == TypeOK /\ HoldOK /\ ReaderKnows

LEMMA InitTyped == Init => Typed
<1> SUFFICES ASSUME Init PROVE Typed
  OBVIOUS
<1>1. FlusherTypeOK
  <2>1. added \in [Chunk -> Nat]
    BY DEF Init, FlusherInit
  <2>2. itemsClosed \in BOOLEAN
    BY DEF Init, FlusherInit
  <2>3. failures \in 0..Attempts /\ faults \in 0..MaxFaults
    BY AttemptsAssumption, MaxFaultsAssumption DEF Init, FlusherInit
  <2> QED
    BY <2>1, <2>2, <2>3 DEF Init, FlusherInit, FlusherTypeOK
<1>2. /\ gone \in BOOLEAN /\ read = 0 /\ reader = "read" /\ readErr = "more"
      /\ jobs = {} /\ jobsClosed \in BOOLEAN /\ pool = "wait" /\ response = "none"
  BY DEF Init
<1>3. /\ worker \in [Worker -> {"take", "send", "nil", "err"}]
      /\ hold \in [Worker -> 0..0]
      /\ \A w \in Worker : worker[w] # "send"
  BY DEF Init
<1> QED
  BY <1>1, <1>2, <1>3, MaxChunksAssumption DEF Typed, TypeOK, HoldOK, ReaderKnows

\* What the flusher does keeps its own variables well-formed.
LEMMA FlusherTyped ==
    ASSUME FlusherTypeOK, FlusherNext(Done)
    PROVE  FlusherTypeOK'
<1> USE DEF FlusherTypeOK
<1>1. ASSUME NEW S \in SUBSET Chunk, AddBatch(S)
      PROVE  added' \in [Chunk -> Nat]
  BY <1>1 DEF AddBatch
<1>2. Fault => faults' \in 0..MaxFaults
  BY MaxFaultsAssumption DEF Fault
<1>3. ASSUME NEW c \in items, TakeItem(c) PROVE FlusherTypeOK'
  BY <1>3 DEF TakeItem
<1>4. CASE ItemsEnd \/ FlushTime \/ FlusherDone(Done)
  BY <1>4 DEF ItemsEnd, FlushTime, FlusherDone
<1>5. CASE WriteOk
  BY <1>1, <1>5, AttemptsAssumption DEF WriteOk, Writing
<1>6. ASSUME NEW S \in SUBSET buffer, WriteError(S) PROVE FlusherTypeOK'
  <2>1. added' \in [Chunk -> Nat] /\ faults' \in 0..MaxFaults
    BY <1>1, <1>2, <1>6 DEF WriteError
  <2>2. /\ failures' \in 0..Attempts
        /\ buffer' = buffer
        /\ flusher' \in {flusher, "err"}
    BY <1>6, AttemptsAssumption DEF WriteError, WriteRetry
  <2> QED
    BY <1>6, <2>1, <2>2 DEF WriteError
<1>7. ASSUME NEW S \in SUBSET buffer, WriteCancelled(Done, S) PROVE FlusherTypeOK'
  <2>1. added' \in [Chunk -> Nat] /\ faults' \in 0..MaxFaults
    BY <1>1, <1>2, <1>7 DEF WriteCancelled
  <2> QED
    BY <1>7, <2>1 DEF WriteCancelled
<1> QED
  BY <1>3, <1>4, <1>5, <1>6, <1>7 DEF FlusherNext, FlusherStep

LEMMA TypedNext ==
    ASSUME Typed, [Next]_vars
    PROVE  Typed'
<1> USE DEF Typed, TypeOK, HoldOK, ReaderKnows
<1>0. MaxChunks \in Nat /\ Chunk = 1..MaxChunks
  BY MaxChunksAssumption, ChunkAssumption
<1>1. Fault => faults' \in 0..MaxFaults
  BY MaxFaultsAssumption DEF Fault, FlusherTypeOK
<1>2. ASSUME UNCHANGED flusherVars, items' \subseteq Chunk, itemsClosed' \in BOOLEAN,
             faults' = faults \/ Fault
      PROVE  FlusherTypeOK'
  BY <1>1, <1>2 DEF flusherVars, FlusherTypeOK
<1>3. items \subseteq Chunk /\ itemsClosed \in BOOLEAN /\ 1..read \subseteq Chunk
  BY <1>0 DEF FlusherTypeOK
<1>a. ASSUME NEW e \in {"more", "nil", "err"}, ReadChunk(e) PROVE Typed'
  <2>1. FlusherTypeOK'
    BY <1>2, <1>3, <1>a DEF ReadChunk
  <2>2. read' \in 0..MaxChunks /\ read' = read + 1 /\ 0..read \subseteq 0..read'
    BY <1>0, <1>a DEF ReadChunk
  <2> QED
    BY <1>a, <2>1, <2>2 DEF ReadChunk, workerVars
<1>b. ASSUME NEW e \in {"nil", "err"}, ReadEnd(e) PROVE Typed'
  <2>1. FlusherTypeOK'
    BY <1>2, <1>3, <1>b DEF ReadEnd
  <2> QED
    BY <1>b, <2>1 DEF ReadEnd, workerVars
<1>c. CASE SendJob
  <2>1. FlusherTypeOK'
    BY <1>2, <1>3, <1>c DEF SendJob
  <2>2. jobs' \subseteq 1..read
    BY <1>0, <1>c DEF SendJob
  <2> QED
    BY <1>c, <2>1, <2>2 DEF SendJob, workerVars
<1>d. CASE ReaderDone \/ CloseJobs \/ ReaderReturn
  <2>1. FlusherTypeOK'
    BY <1>2, <1>3, <1>d DEF ReaderDone, CloseJobs, ReaderReturn
  <2> QED
    BY <1>d, <2>1 DEF ReaderDone, CloseJobs, ReaderReturn, workerVars
<1>e. ASSUME NEW w \in Worker, NEW c \in jobs, TakeJob(w, c) PROVE Typed'
  <2>1. FlusherTypeOK'
    BY <1>2, <1>3, <1>e DEF TakeJob
  <2>2. c \in 0..read /\ c # 0
    BY <1>0
  <2> QED
    BY <1>e, <2>1, <2>2 DEF TakeJob, readerVars
<1>f. ASSUME NEW w \in Worker, NEW c \in jobs, EncryptError(w, c) PROVE Typed'
  <2>1. FlusherTypeOK'
    BY <1>2, <1>3, <1>f DEF EncryptError
  <2> QED
    BY <1>f, <2>1 DEF EncryptError, readerVars
<1>g. ASSUME NEW w \in Worker, JobsEnd(w) PROVE Typed'
  <2>1. FlusherTypeOK'
    BY <1>2, <1>3, <1>g DEF JobsEnd
  <2> QED
    BY <1>g, <2>1 DEF JobsEnd, readerVars
<1>k. ASSUME NEW w \in Worker, SendItem(w) PROVE Typed'
  <2>1. hold[w] \in 1..read
    BY <1>0, <1>k DEF SendItem
  <2>2. FlusherTypeOK'
    BY <1>2, <1>3, <1>k, <2>1 DEF SendItem
  <2>3. 0 \in 0..read
    BY <1>0
  <2> QED
    BY <1>k, <2>2, <2>3 DEF SendItem, readerVars
<1>l. ASSUME NEW w \in Worker, WorkerCancelled(w) PROVE Typed'
  <2>1. FlusherTypeOK'
    BY <1>2, <1>3, <1>l DEF WorkerCancelled
  <2>2. 0 \in 0..read
    BY <1>0
  <2> QED
    BY <1>l, <2>1, <2>2 DEF WorkerCancelled, readerVars
<1>h. CASE CloseItems \/ PoolReturn \/ Respond \/ Disconnect
  <2>1. FlusherTypeOK'
    BY <1>2, <1>3, <1>h DEF CloseItems, PoolReturn, Respond, Disconnect
  <2> QED
    BY <1>h, <2>1 DEF CloseItems, PoolReturn, Respond, Disconnect,
                      readerVars, workerVars
<1>i. CASE Flush
  BY <1>i, FlusherTyped DEF Flush, uploadVars, readerVars, workerVars
<1>j. CASE UNCHANGED vars
  <2>1. FlusherTypeOK'
    BY <1>2, <1>3, <1>j DEF vars
  <2> QED
    BY <1>j, <2>1 DEF vars, uploadVars, readerVars, workerVars
<1> QED
  BY <1>a, <1>b, <1>c, <1>d, <1>e, <1>f, <1>g, <1>h, <1>i, <1>j, <1>k, <1>l
     DEF Next, ReaderStep, WorkerStep

\* The channels, the batch and the counters are always well-formed; only
\* chunks that were read are in flight, and no write fails more often than
\* the attempts allow.
THEOREM UploadTypeCorrect == Spec => []TypeOK
<1>1. Typed => TypeOK
  BY DEF Typed
<1> QED
  BY <1>1, InitTyped, TypedNext, PTL DEF Spec

-----------------------------------------------------------------------------
(***************************************************************************)
(* The order in which the stages of the pipeline end.                      *)
(***************************************************************************)
ReaderStage ==
    /\ reader = "read" => readErr = "more"
    /\ reader \in {"nil", "err"} => reader = readErr
    /\ jobsClosed => reader \in {"return", "nil", "err"}

\* A worker that returned nil has seen jobs closed and empty.
WorkerStage == \A w \in Worker : worker[w] = "nil" => jobsClosed /\ jobs = {}

PoolStage ==
    /\ itemsClosed => pool # "wait"
    /\ pool # "wait" => WorkersEnded
    /\ pool = "nil" => \A w \in Worker : worker[w] = "nil"
    /\ pool = "err" => \E w \in Worker : worker[w] = "err"

\* A flusher on its way to nil has seen items closed and empty.
FlusherStage ==
    /\ flusher \in {"drain", "nil"} => itemsClosed /\ items = {}
    /\ flusher = "nil" => buffer = {}

ResponseStage ==
    /\ response # "none" => AllEnded
    /\ response = "created" => reader = "nil" /\ pool = "nil" /\ flusher = "nil"

Stages == ReaderStage /\ WorkerStage /\ PoolStage /\ FlusherStage /\ ResponseStage

LEMMA StagesNext ==
    ASSUME Typed, Stages, [Next]_vars
    PROVE  Stages'
<1> USE DEF Stages, ReaderStage, WorkerStage, PoolStage, FlusherStage,
            ResponseStage, WorkersEnded, AllEnded, FlusherEnded
<1>0. /\ worker \in [Worker -> {"take", "send", "nil", "err"}]
      /\ reader \in {"read", "send", "close", "return", "nil", "err"}
      /\ readErr \in {"more", "nil", "err"}
      /\ pool \in {"wait", "return", "nil", "err"}
      /\ flusher \in {"select", "flush", "drain", "tail", "nil", "err"}
      /\ ReaderKnows
  BY DEF Typed, TypeOK, FlusherTypeOK
<1>1. CASE \E e \in {"more", "nil", "err"} : ReadChunk(e)
  BY <1>0, <1>1 DEF ReadChunk, workerVars, flusherVars
<1>2. CASE \E e \in {"nil", "err"} : ReadEnd(e)
  BY <1>0, <1>2 DEF ReadEnd, workerVars, flusherVars
<1>3. CASE SendJob
  BY <1>0, <1>3 DEF SendJob, workerVars, flusherVars
<1>4. CASE ReaderDone \/ CloseJobs
  BY <1>0, <1>4 DEF ReaderDone, CloseJobs, workerVars, flusherVars
<1>5. CASE ReaderReturn
  BY <1>0, <1>5 DEF ReaderReturn, ReaderKnows, workerVars, flusherVars
<1>6. ASSUME NEW w \in Worker, NEW c \in jobs, TakeJob(w, c) \/ EncryptError(w, c)
      PROVE  Stages'
  BY <1>0, <1>6 DEF TakeJob, EncryptError, readerVars, flusherVars
<1>7. ASSUME NEW w \in Worker, JobsEnd(w) \/ WorkerCancelled(w) PROVE Stages'
  BY <1>0, <1>7 DEF JobsEnd, WorkerCancelled, readerVars, flusherVars
<1>8. ASSUME NEW w \in Worker, SendItem(w) PROVE Stages'
  <2>1. pool = "wait" /\ ~itemsClosed
    BY <1>0, <1>8 DEF SendItem
  <2> QED
    BY <1>0, <1>8, <2>1 DEF SendItem, readerVars, flusherVars
<1>9. CASE CloseItems \/ PoolReturn
  BY <1>0, <1>9 DEF CloseItems, PoolReturn, readerVars, workerVars, flusherVars
<1>a. CASE Flush
  <2>1. UNCHANGED <<reader, readErr, jobs, jobsClosed, worker, pool, response>>
    BY <1>a DEF Flush, uploadVars, readerVars, workerVars
  <2>2. FlusherNext(Done)
    BY <1>a DEF Flush
  <2>3. itemsClosed' = itemsClosed /\ FlusherStage' /\ (FlusherEnded => flusher' = flusher)
    BY <1>0, <2>2
       DEF FlusherNext, FlusherStep, TakeItem, ItemsEnd, FlushTime, FlusherDone,
           WriteOk, WriteError, WriteRetry, WriteCancelled, Writing
  <2> QED
    BY <2>1, <2>3
<1>b. CASE Respond
  BY <1>0, <1>b DEF Respond, readerVars, workerVars, flusherVars
<1>c. CASE Disconnect
  BY <1>c DEF Disconnect, readerVars, workerVars, flusherVars
<1>d. CASE UNCHANGED vars
  BY <1>d DEF vars, uploadVars, readerVars, workerVars, flusherVars
<1> QED
  BY <1>1, <1>2, <1>3, <1>4, <1>5, <1>6, <1>7, <1>8, <1>9, <1>a, <1>b, <1>c, <1>d
     DEF Next, ReaderStep, WorkerStep

LEMMA InitStages == Init => Stages
BY DEF Init, FlusherInit, Stages, ReaderStage, WorkerStage, PoolStage,
       FlusherStage, ResponseStage, WorkersEnded

\* The channel items is closed only when no worker can send on it any more.
THEOREM ItemsClosedLast == Spec => []NoSendOnClosed
<1>1. Stages => NoSendOnClosed
  BY DEF Stages, PoolStage, WorkersEnded, NoSendOnClosed
<1> QED
  BY <1>1, InitTyped, TypedNext, InitStages, StagesNext, PTL DEF Spec

-----------------------------------------------------------------------------
(***************************************************************************)
(* Where a chunk is between the body and the stream.                       *)
(***************************************************************************)
Kept(c) == Passing(c) \/ c \in buffer \/ added[c] > 0

\* No chunk gets lost unless a goroutine reports it.
Conserved == Broken \/ \A c \in 1..read : Kept(c)

LEMMA ConservedNext ==
    ASSUME Typed, Stages, Conserved, [Next]_vars
    PROVE  Conserved'
<1> USE DEF Conserved, Broken, Kept, Passing
<1>0. /\ worker \in [Worker -> {"take", "send", "nil", "err"}]
      /\ hold \in [Worker -> 0..read]
      /\ reader \in {"read", "send", "close", "return", "nil", "err"}
      /\ flusher \in {"select", "flush", "drain", "tail", "nil", "err"}
      /\ read \in Nat
      /\ items \subseteq Chunk /\ buffer \subseteq Chunk
      /\ added \in [Chunk -> Nat]
      /\ 1..read \subseteq Chunk
  BY MaxChunksAssumption, ChunkAssumption DEF Typed, TypeOK, FlusherTypeOK
<1>1. ASSUME NEW e \in {"more", "nil", "err"}, ReadChunk(e) PROVE Conserved'
  <2>1. read' = read + 1 /\ reader = "read" /\ reader' = "send" /\ readErr = "more"
    BY <1>1 DEF ReadChunk, Stages, ReaderStage
  <2>2. \A c \in 1..read' : c \in 1..read \/ c = read'
    BY <1>0, <2>1
  <2>3. UNCHANGED <<jobs, worker, hold, items, buffer, added, flusher>>
    BY <1>1 DEF ReadChunk, workerVars, flusherVars
  <2> QED
    BY <2>1, <2>2, <2>3
<1>2. ASSUME NEW e \in {"nil", "err"}, ReadEnd(e) PROVE Conserved'
  BY <1>2 DEF ReadEnd, Stages, ReaderStage, workerVars, flusherVars
<1>3. CASE SendJob
  BY <1>3 DEF SendJob, workerVars, flusherVars
<1>4. CASE ReaderDone \/ CloseJobs \/ ReaderReturn
  BY <1>4 DEF ReaderDone, CloseJobs, ReaderReturn, workerVars, flusherVars
<1>5. ASSUME NEW w \in Worker, NEW c \in jobs, TakeJob(w, c) PROVE Conserved'
  BY <1>0, <1>5 DEF TakeJob, readerVars, flusherVars
<1>6. ASSUME NEW w \in Worker, NEW c \in jobs, EncryptError(w, c) PROVE Conserved'
  BY <1>0, <1>6 DEF EncryptError
<1>7. ASSUME NEW w \in Worker, JobsEnd(w) PROVE Conserved'
  BY <1>0, <1>7 DEF JobsEnd, readerVars, flusherVars
<1>8. ASSUME NEW w \in Worker, SendItem(w) PROVE Conserved'
  BY <1>0, <1>8 DEF SendItem, readerVars, flusherVars
<1>9. ASSUME NEW w \in Worker, WorkerCancelled(w) PROVE Conserved'
  BY <1>0, <1>9 DEF WorkerCancelled
<1>a. CASE CloseItems \/ PoolReturn \/ Respond \/ Disconnect
  BY <1>a DEF CloseItems, PoolReturn, Respond, Disconnect, readerVars,
              workerVars, flusherVars
<1>b. CASE Flush
  <2>1. UNCHANGED <<read, reader, readErr, jobs, worker, hold>>
    BY <1>b DEF Flush, uploadVars, readerVars, workerVars
  <2>2. FlusherNext(Done)
    BY <1>b DEF Flush
  <2>3. ASSUME NEW S \in SUBSET buffer, AddBatch(S)
        PROVE  \A c \in Chunk : /\ added[c] > 0 => added'[c] > 0
                                /\ c \in S => added'[c] > 0
    BY <1>0, <2>3 DEF AddBatch
  <2>4. ASSUME NEW c \in items, TakeItem(c) PROVE Conserved'
    BY <2>1, <2>4 DEF TakeItem
  <2>5. CASE ItemsEnd \/ FlushTime \/ FlusherDone(Done)
    BY <2>1, <2>5 DEF ItemsEnd, FlushTime, FlusherDone
  <2>6. CASE WriteOk
    <3>1. \A c \in Chunk : c \in buffer \/ added[c] > 0 => added'[c] > 0
      BY <2>3, <2>6 DEF WriteOk
    <3>2. flusher # "err" /\ items' = items
      BY <2>6 DEF WriteOk, Writing
    <3> QED
      BY <1>0, <2>1, <3>1, <3>2
  <2>7. ASSUME NEW S \in SUBSET buffer, WriteError(S) PROVE Conserved'
    <3>1. \A c \in Chunk : added[c] > 0 => added'[c] > 0
      BY <2>3, <2>7 DEF WriteError
    <3>2. flusher # "err" /\ items' = items /\ buffer' = buffer
      BY <2>7 DEF WriteError, WriteRetry, Writing
    <3> QED
      BY <1>0, <2>1, <3>1, <3>2
  <2>8. ASSUME NEW S \in SUBSET buffer, WriteCancelled(Done, S) PROVE Conserved'
    BY <2>8 DEF WriteCancelled
  <2> QED
    BY <2>2, <2>4, <2>5, <2>6, <2>7, <2>8 DEF FlusherNext, FlusherStep
<1>c. CASE UNCHANGED vars
  BY <1>c DEF vars, uploadVars, readerVars, workerVars, flusherVars
<1> QED
  BY <1>1, <1>2, <1>3, <1>4, <1>5, <1>6, <1>7, <1>8, <1>9, <1>a, <1>b, <1>c
     DEF Next, ReaderStep, WorkerStep

LEMMA InitConserved == Init => Conserved
<1> SUFFICES ASSUME Init PROVE \A c \in 1..read : Kept(c)
  BY DEF Conserved
<1>1. read = 0
  BY DEF Init
<1> QED
  BY <1>1

\* A client that is told 201 has every chunk of its file in the stream,
\* whatever the number of workers and chunks, whichever goroutine fails or
\* is cancelled, and however the writes were retried.
THEOREM CreatedIsComplete == Spec => []CreatedComplete
<1> DEFINE Inv == Typed /\ Stages /\ Conserved
<1>1. Init => Inv
  BY InitTyped, InitStages, InitConserved
<1>2. Inv /\ [Next]_vars => Inv'
  BY TypedNext, StagesNext, ConservedNext
<1>3. Inv => CreatedComplete
  <2> SUFFICES ASSUME Inv, response = "created", NEW c \in 1..read
               PROVE  added[c] > 0
    BY DEF CreatedComplete
  <2>1. reader = "nil" /\ pool = "nil" /\ flusher = "nil"
    BY DEF Stages, ResponseStage
  <2>2. \A w \in Worker : worker[w] = "nil"
    BY <2>1 DEF Stages, PoolStage
  <2>3. jobs = {}
    BY <2>2, WorkerAssumption DEF Stages, WorkerStage
  <2>4. items = {} /\ buffer = {}
    BY <2>1 DEF Stages, FlusherStage
  <2>5. ~Broken
    BY <2>1, <2>2 DEF Broken, Stages, ReaderStage
  <2> QED
    BY <2>1, <2>2, <2>3, <2>4, <2>5 DEF Conserved, Kept, Passing
<1> QED
  BY <1>1, <1>2, <1>3, PTL DEF Spec

-----------------------------------------------------------------------------
(***************************************************************************)
(* How often a chunk is added.                                             *)
(***************************************************************************)
\* Before the flusher, a chunk is in one place only.
Apart ==
    /\ items \subseteq 1..read /\ buffer \subseteq 1..read
    /\ jobs \cap items = {}
    /\ reader = "send" => read \notin jobs \cup items
    /\ \A w \in Worker : worker[w] = "send" =>
          /\ hold[w] \notin jobs \cup items
          /\ reader = "send" => hold[w] # read
          /\ \A v \in Worker : worker[v] = "send" /\ hold[v] = hold[w] => v = w

OnItsWay(c) == c > read \/ Passing(c)

\* The flusher has nothing of a chunk that is on its way to it.
Untouched == \A c \in Chunk : OnItsWay(c) => c \notin buffer /\ added[c] = 0

\* A batch that is not written yet was added at most once per failure of its
\* write.
Counted ==
    /\ flusher = "select" => failures = 0
    /\ ~FlusherEnded => \A c \in buffer : added[c] <= failures /\ added[c] <= faults

Once == Apart /\ Untouched /\ Counted /\ AddedOncePerAttempt

LEMMA InitOnce == Init => Once
<1> SUFFICES ASSUME Init PROVE Once
  OBVIOUS
<1>1. items = {} /\ buffer = {} /\ jobs = {} /\ reader = "read"
  BY DEF Init, FlusherInit
<1>2. \A w \in Worker : worker[w] # "send"
  BY DEF Init
<1>3. failures = 0 /\ faults = 0 /\ \A c \in Chunk : added[c] = 0
  BY DEF Init, FlusherInit
<1> QED
  BY <1>1, <1>2, <1>3, AttemptsAssumption DEF Once, Apart, Untouched, Counted, AddedOncePerAttempt

\* The stages before the flusher move chunks and add none.
LEMMA OnceBefore ==
    ASSUME Typed, Once, [Next]_vars, ~Flush
    PROVE  Once'
<1> USE DEF Once, Apart, Untouched, OnItsWay, Passing
<1>0. /\ worker \in [Worker -> {"take", "send", "nil", "err"}]
      /\ hold \in [Worker -> 0..read]
      /\ read \in Nat /\ faults \in Nat
      /\ Chunk \subseteq Nat
      /\ added \in [Chunk -> Nat]
      /\ jobs \subseteq 1..read
      /\ \A w \in Worker : worker[w] = "send" => hold[w] # 0
  BY MaxChunksAssumption, ChunkAssumption, MaxFaultsAssumption DEF Typed, TypeOK, FlusherTypeOK, HoldOK
<1>1. Fault => faults' = faults + 1
  BY DEF Fault
<1>2. ASSUME UNCHANGED flusherVars, faults' = faults \/ faults' = faults + 1
      PROVE  Counted' /\ AddedOncePerAttempt'
  <2>1. UNCHANGED <<flusher, buffer, failures, added>>
    BY <1>2 DEF flusherVars
  <2>2. buffer \subseteq Chunk
    BY DEF Typed, TypeOK, FlusherTypeOK
  <2>3. \A c \in buffer : ~FlusherEnded => added'[c] <= failures' /\ added'[c] <= faults'
    BY <1>0, <1>2, <2>1, <2>2 DEF Counted
  <2>4. \A c \in Chunk : added'[c] <= faults' + 1 /\ added'[c] <= Attempts + 1
    BY <1>0, <1>2, <2>1 DEF AddedOncePerAttempt
  <2> QED
    BY <2>1, <2>3, <2>4 DEF Counted, AddedOncePerAttempt, FlusherEnded
<1>3. ASSUME NEW e \in {"more", "nil", "err"}, ReadChunk(e) PROVE Once'
  <2>1. /\ UNCHANGED <<items, flusherVars, jobs, worker, hold>>
        /\ reader = "read" /\ reader' = "send" /\ read' = read + 1
        /\ faults' = faults \/ faults' = faults + 1
    BY <1>1, <1>3 DEF ReadChunk, workerVars
  <2>2. Apart'
    BY <1>0, <2>1 DEF flusherVars
  <2>3. Untouched'
    BY <1>0, <2>1 DEF flusherVars
  <2> QED
    BY <1>2, <2>1, <2>2, <2>3
<1>4. ASSUME NEW e \in {"nil", "err"}, ReadEnd(e) PROVE Once'
  <2>1. /\ UNCHANGED <<items, flusherVars, jobs, worker, hold, read>>
        /\ reader' = "close"
        /\ faults' = faults \/ faults' = faults + 1
    BY <1>1, <1>4 DEF ReadEnd, workerVars
  <2> QED
    BY <1>2, <2>1 DEF flusherVars
<1>5. CASE SendJob
  <2>1. /\ UNCHANGED <<items, flusherVars, worker, hold, read, faults>>
        /\ reader = "send" /\ reader' # "send" /\ jobs' = jobs \cup {read}
    BY <1>5 DEF SendJob, workerVars
  <2> QED
    BY <1>0, <1>2, <2>1 DEF flusherVars
<1>6. CASE ReaderDone \/ CloseJobs \/ ReaderReturn
  <2>1. /\ UNCHANGED <<items, flusherVars, worker, hold, read, faults, jobs>>
        /\ reader' # "send"
    BY <1>6 DEF ReaderDone, CloseJobs, ReaderReturn, workerVars, Typed, TypeOK
  <2> QED
    BY <1>0, <1>2, <2>1 DEF flusherVars
<1>7. ASSUME NEW w \in Worker, NEW c \in jobs, TakeJob(w, c) PROVE Once'
  <2>1. /\ UNCHANGED <<items, flusherVars, read, reader, faults>>
        /\ jobs' = jobs \ {c} /\ worker[w] = "take"
        /\ worker' = [worker EXCEPT ![w] = "send"] /\ hold' = [hold EXCEPT ![w] = c]
    BY <1>7 DEF TakeJob, readerVars
  <2>2. \A v \in Worker : worker'[v] = "send" =>
           (v = w /\ hold'[v] = c) \/ (v # w /\ worker[v] = "send" /\ hold'[v] = hold[v])
    BY <1>0, <2>1
  <2>3. Apart'
    BY <1>0, <2>1, <2>2 DEF flusherVars
  <2>4. Untouched'
    BY <1>0, <2>1, <2>2 DEF flusherVars
  <2> QED
    BY <1>2, <2>1, <2>3, <2>4
<1>8. ASSUME NEW w \in Worker, NEW c \in jobs, EncryptError(w, c) PROVE Once'
  <2>1. /\ UNCHANGED <<items, flusherVars, read, reader, hold>>
        /\ jobs' = jobs \ {c} /\ worker' = [worker EXCEPT ![w] = "err"]
        /\ faults' = faults + 1
    BY <1>1, <1>8 DEF EncryptError, readerVars
  <2>2. \A v \in Worker : worker'[v] = "send" => worker[v] = "send"
    BY <1>0, <2>1
  <2>3. Apart' /\ Untouched'
    BY <1>0, <2>1, <2>2 DEF flusherVars
  <2> QED
    BY <1>2, <2>1, <2>3
<1>9. ASSUME NEW w \in Worker, JobsEnd(w) \/ WorkerCancelled(w) PROVE Once'
  <2>1. /\ UNCHANGED <<items, flusherVars, read, reader, jobs, faults>>
        /\ \A v \in Worker : worker'[v] = "send" => worker[v] = "send" /\ hold'[v] = hold[v]
    BY <1>0, <1>9 DEF JobsEnd, WorkerCancelled, readerVars
  <2>2. Apart' /\ Untouched'
    BY <1>0, <2>1 DEF flusherVars
  <2> QED
    BY <1>2, <2>1, <2>2
<1>a. ASSUME NEW w \in Worker, SendItem(w) PROVE Once'
  <2>1. /\ UNCHANGED <<flusherVars, read, reader, jobs, faults>>
        /\ items' = items \cup {hold[w]} /\ worker[w] = "send"
        /\ \A v \in Worker : worker'[v] = "send" =>
               worker[v] = "send" /\ hold'[v] = hold[v] /\ v # w
    BY <1>0, <1>a DEF SendItem, readerVars
  <2>2. hold[w] \in 1..read
    BY <1>0, <2>1
  <2>3. Apart'
    BY <1>0, <2>1, <2>2 DEF flusherVars
  <2>4. Untouched'
    BY <1>0, <2>1, <2>2 DEF flusherVars
  <2> QED
    BY <1>2, <2>1, <2>3, <2>4
<1>b. ASSUME CloseItems \/ PoolReturn \/ Respond \/ Disconnect \/ UNCHANGED vars PROVE Once'
  <2>1. UNCHANGED <<items, flusherVars, read, reader, jobs, worker, hold, faults>>
    BY <1>b DEF CloseItems, PoolReturn, Respond, Disconnect, vars, uploadVars, readerVars, workerVars
  <2> QED
    BY <1>2, <2>1 DEF flusherVars
<1> QED
  BY <1>3, <1>4, <1>5, <1>6, <1>7, <1>8, <1>9, <1>a, <1>b DEF Next, ReaderStep, WorkerStep

LEMMA OnceFlush ==
    ASSUME Typed, Once, FlusherNext(Done), UNCHANGED uploadVars
    PROVE  Once'
<1> USE DEF Once, Apart, Untouched, OnItsWay, Passing
<1>0. /\ items \subseteq Chunk /\ buffer \subseteq Chunk
      /\ added \in [Chunk -> Nat] /\ failures \in 0..Attempts /\ Attempts \in Nat
      /\ faults \in Nat
  BY AttemptsAssumption, MaxFaultsAssumption DEF Typed, TypeOK, FlusherTypeOK
<1>1. UNCHANGED <<read, reader, jobs, worker, hold>>
  BY DEF uploadVars, readerVars, workerVars
<1>2. ASSUME NEW c \in items, TakeItem(c) PROVE Once'
  <2>1. /\ items' = items \ {c} /\ buffer' = buffer \cup {c}
        /\ failures' = failures /\ failures = 0 /\ added' = added /\ faults' = faults
        /\ flusher = "select"
    BY <1>2 DEF TakeItem, Counted
  <2>2. added[c] = 0 /\ Apart'
    <3>1. added[c] = 0
      BY <1>0
    <3>2. Apart'
      BY <1>1, <2>1
    <3> QED
      BY <3>1, <3>2
  <2>3. ~(c > read) /\ \A d : OnItsWay(d)' => OnItsWay(d) /\ d # c
    <3>1. ~(c > read)
      BY DEF Typed, TypeOK
    <3> QED
      BY <1>1, <2>1, <3>1
  <2>4. Untouched'
    <3> SUFFICES ASSUME NEW d \in Chunk, OnItsWay(d)' PROVE d \notin buffer' /\ added'[d] = 0
      OBVIOUS
    <3>1. d # c /\ d \notin buffer /\ added[d] = 0
      BY <2>3
    <3> QED
      BY <2>1, <3>1
  <2>5. Counted'
    BY <1>0, <2>1, <2>2 DEF Counted, FlusherEnded
  <2> QED
    BY <2>1, <2>2, <2>5, <2>4 DEF AddedOncePerAttempt
<1>3. CASE ItemsEnd \/ FlushTime \/ FlusherDone(Done)
  <2>1. UNCHANGED <<items, buffer, failures, added, faults>> /\ flusher = "select" /\ flusher' # "select"
    BY <1>3 DEF ItemsEnd, FlushTime, FlusherDone
  <2>2. Counted' /\ AddedOncePerAttempt'
    BY <2>1 DEF Counted, FlusherEnded, AddedOncePerAttempt
  <2> QED
    BY <1>1, <2>1, <2>2
<1>4. ASSUME NEW S \in SUBSET buffer, AddBatch(S), Writing,
             items' = items, buffer' \in {buffer, {}}, faults' \in {faults, faults + 1}
      PROVE  /\ Apart' /\ Untouched' /\ AddedOncePerAttempt'
             /\ \A c \in buffer : added'[c] <= failures + 1 /\ added'[c] <= faults + 1
  <2>1. ~FlusherEnded
    BY <1>4 DEF Writing, FlusherEnded
  <2>2. \A c \in Chunk : \/ added'[c] = added[c]
                         \/ c \in buffer /\ added'[c] = added[c] + 1
    BY <1>4 DEF AddBatch
  <2>3. \A c \in buffer : added'[c] <= failures + 1 /\ added'[c] <= faults + 1
    BY <1>0, <2>1, <2>2 DEF Counted
  <2>4. AddedOncePerAttempt'
    BY <1>0, <1>4, <2>2, <2>3 DEF AddedOncePerAttempt
  <2>5. Apart' /\ Untouched'
    BY <1>0, <1>1, <1>4, <2>2
  <2> QED
    BY <2>3, <2>4, <2>5
<1>5. CASE WriteOk
  <2>1. Writing /\ AddBatch(buffer) /\ items' = items /\ buffer' = {} /\ faults' = faults /\ failures' = 0
    BY <1>5 DEF WriteOk
  <2>2. Counted'
    BY <2>1 DEF Counted
  <2> QED
    BY <1>4, <2>1, <2>2
<1>6. ASSUME NEW S \in SUBSET buffer, WriteError(S) PROVE Once'
  <2>1. /\ Writing /\ AddBatch(S) /\ items' = items /\ buffer' = buffer /\ faults' = faults + 1
        /\ flusher' = "err" \/ (flusher' = flusher /\ failures' = failures + 1)
    BY <1>6 DEF WriteError, WriteRetry, Fault
  <2>2. \A c \in buffer : added'[c] <= failures + 1 /\ added'[c] <= faults + 1
    BY <1>4, <2>1
  <2>3. Counted'
    BY <2>1, <2>2 DEF Counted, FlusherEnded, Writing
  <2> QED
    BY <1>4, <2>1, <2>3
<1>7. ASSUME NEW S \in SUBSET buffer, WriteCancelled(Done, S) PROVE Once'
  <2>1. /\ Writing /\ AddBatch(S) /\ items' = items /\ buffer' = buffer
        /\ faults' \in {faults, faults + 1} /\ flusher' = "err"
    BY <1>7 DEF WriteCancelled, Fault
  <2>2. Counted'
    BY <2>1 DEF Counted, FlusherEnded
  <2> QED
    BY <1>4, <2>1, <2>2
<1> QED
  BY <1>2, <1>3, <1>5, <1>6, <1>7 DEF FlusherNext, FlusherStep

\* A chunk is in the stream at most once more than there were failures, and
\* at most as often as a write is attempted: no write is repeated that
\* succeeded, and nothing is written again on the way out.
THEOREM AddedOnce == Spec => []AddedOncePerAttempt
<1>1. Typed /\ Once /\ [Next]_vars => Once'
  BY OnceBefore, OnceFlush DEF Flush
<1>2. Once => AddedOncePerAttempt
  BY DEF Once
<1> QED
  BY <1>1, <1>2, InitTyped, TypedNext, InitOnce, PTL DEF Spec

-----------------------------------------------------------------------------
(***************************************************************************)
(* The pipeline implements UploadContract.                                 *)
(***************************************************************************)
\* With the answer everything has come to a halt.
LEMMA OverWithAnswer ==
    ASSUME Typed, Stages, Next, response # "none"
    PROVE  FALSE
<1> USE DEF Stages, PoolStage, ResponseStage, AllEnded, FlusherEnded, WorkersEnded
<1>1. /\ reader \in {"nil", "err"} /\ pool \in {"nil", "err"}
      /\ flusher \in {"nil", "err"}
      /\ \A w \in Worker : worker[w] \in {"nil", "err"}
  OBVIOUS
<1>2. CASE ReaderStep \/ ReadEnd("err") \/ \E e \in {"more", "nil", "err"} : ReadChunk(e)
  BY <1>1, <1>2
     DEF ReaderStep, ReadChunk, ReadEnd, SendJob, ReaderDone, CloseJobs, ReaderReturn
<1>3. CASE \E w \in Worker : WorkerStep(w) \/ \E c \in jobs : EncryptError(w, c)
  BY <1>1, <1>3 DEF WorkerStep, TakeJob, EncryptError, JobsEnd, SendItem, WorkerCancelled
<1>4. CASE CloseItems \/ PoolReturn \/ Respond \/ Disconnect
  BY <1>1, <1>4 DEF CloseItems, PoolReturn, Respond, Disconnect
<1>5. CASE Flush
  BY <1>1, <1>5 DEF Flush, FlusherNext, FlusherStep, TakeItem, ItemsEnd, FlushTime,
                    FlusherDone, WriteOk, WriteError, WriteCancelled, Writing
<1> QED
  BY <1>2, <1>3, <1>4, <1>5 DEF Next

\* A step that loses chunks, but leaves an error behind.
LEMMA LossIsWork ==
    ASSUME response = "none", response' = response, Broken',
           OnTheWay' \subseteq OnTheWay, InStream' = InStream
    PROVE  Contract!Work
<1>1. OnTheWay' = OnTheWay \ (OnTheWay \ OnTheWay')
  OBVIOUS
<1> QED
  BY <1>1 DEF Contract!Work, Contract!Drop

\* A step that moves chunks within the pipeline.
LEMMA MoveIsStutter ==
    ASSUME response' = response, Broken' = Broken, UNCHANGED <<buffer, added>>,
           \A c \in Chunk : Passing(c)' <=> Passing(c)
    PROVE  UNCHANGED Contract!contractVars
<1>1. OnTheWay' = OnTheWay /\ InStream' = InStream
  BY DEF OnTheWay, InStream
<1> QED
  BY <1>1 DEF Contract!contractVars

LEMMA ReaderKeepsContract ==
    ASSUME Typed, Stages, Once, response = "none",
           ReaderStep \/ ReadEnd("err") \/ \E e \in {"more", "nil", "err"} : ReadChunk(e)
    PROVE  Contract!Work \/ UNCHANGED Contract!contractVars
<1>0. /\ read \in Nat /\ jobs \subseteq 1..read /\ items \subseteq 1..read
      /\ hold \in [Worker -> 0..read]
      /\ reader \in {"read", "send", "close", "return", "nil", "err"}
      /\ 1..read' \subseteq Chunk
  BY TypedNext, MaxChunksAssumption, ChunkAssumption DEF Typed, TypeOK, Once, Apart, Next
<1>1. ASSUME NEW e \in {"more", "nil", "err"}, ReadChunk(e) PROVE Contract!Work
  <2>1. /\ reader = "read" /\ reader' = "send" /\ read' = read + 1 /\ readErr' = e
        /\ readErr = "more"
        /\ UNCHANGED <<jobs, items, worker, hold, flusher, buffer, added, response>>
    BY <1>1 DEF ReadChunk, workerVars, flusherVars, Stages, ReaderStage
  <2>2. read' \in Chunk /\ ~Passing(read') /\ read' \notin buffer /\ added[read'] = 0
    BY <1>0, <2>1 DEF Passing, Once, Untouched, OnItsWay
  <2>3. OnTheWay' = OnTheWay \cup {read'} /\ InStream' = InStream
    BY <2>1, <2>2 DEF OnTheWay, InStream, Passing
  <2>4. Contract!Take(read')
    BY <2>2, <2>3 DEF Contract!Take, OnTheWay, InStream
  <2>5. Broken' = Broken \/ Broken' = TRUE
    BY <2>1 DEF Broken
  <2> QED
    BY <2>1, <2>2, <2>4, <2>5 DEF Contract!Work
<1>2. CASE ReadEnd("err") \/ ReaderDone
  <2>1. /\ UNCHANGED <<jobs, items, worker, hold, read, buffer, added, response>>
        /\ reader' # "send" /\ readErr' = "err"
    BY <1>2 DEF ReadEnd, ReaderDone, workerVars, flusherVars
  <2>2. OnTheWay' \subseteq OnTheWay /\ InStream' = InStream
    BY <2>1 DEF OnTheWay, InStream, Passing
  <2> QED
    BY <2>1, <2>2, LossIsWork DEF Broken
<1>3. CASE ReadEnd("nil") \/ SendJob \/ CloseJobs \/ ReaderReturn
  <2>1. UNCHANGED <<items, worker, hold, read, flusher, buffer, added, response>>
    BY <1>3 DEF ReadEnd, SendJob, CloseJobs, ReaderReturn, workerVars, flusherVars
  <2>2. readErr' = "err" <=> readErr = "err"
    BY <1>3 DEF ReadEnd, SendJob, CloseJobs, ReaderReturn, Stages, ReaderStage
  <2>3. \A c \in Chunk : Passing(c)' <=> Passing(c)
    BY <1>0, <1>3, <2>1
       DEF ReadEnd, SendJob, CloseJobs, ReaderReturn, Passing, Typed, TypeOK
  <2>4. Broken' = Broken
    BY <2>1, <2>2 DEF Broken
  <2> QED
    BY <2>1, <2>3, <2>4, MoveIsStutter
<1> QED
  BY <1>1, <1>2, <1>3 DEF ReaderStep

LEMMA WorkersKeepContract ==
    ASSUME Typed, Stages, response = "none", NEW w \in Worker,
           WorkerStep(w) \/ \E c \in jobs : EncryptError(w, c)
    PROVE  Contract!Work \/ UNCHANGED Contract!contractVars
<1>0. /\ worker \in [Worker -> {"take", "send", "nil", "err"}]
      /\ hold \in [Worker -> 0..read]
  BY DEF Typed, TypeOK
<1>1. CASE WorkerCancelled(w) \/ \E c \in jobs : EncryptError(w, c)
  <2>1. /\ UNCHANGED <<reader, read, items, buffer, added, response>>
        /\ jobs' \subseteq jobs /\ worker' = [worker EXCEPT ![w] = "err"]
        /\ \A v \in Worker : v # w => hold'[v] = hold[v]
    BY <1>0, <1>1 DEF WorkerCancelled, EncryptError, readerVars, flusherVars
  <2>2. OnTheWay' \subseteq OnTheWay /\ InStream' = InStream
    BY <1>0, <2>1 DEF OnTheWay, InStream, Passing
  <2>3. Broken'
    BY <1>0, <2>1 DEF Broken
  <2> QED
    BY <2>1, <2>2, <2>3, LossIsWork
<1>2. CASE JobsEnd(w) \/ SendItem(w) \/ \E c \in jobs : TakeJob(w, c)
  <2>1. /\ UNCHANGED <<reader, read, readErr, flusher, buffer, added, response>>
        /\ worker[w] # "err"
        /\ \E s \in {"nil", "take", "send"} : worker' = [worker EXCEPT ![w] = s]
    BY <1>2 DEF JobsEnd, SendItem, TakeJob, readerVars, flusherVars
  <2>2. \A c \in Chunk : Passing(c)' <=> Passing(c)
    BY <1>0, <1>2 DEF JobsEnd, SendItem, TakeJob, Passing, readerVars
  <2>3. Broken' = Broken
    BY <1>0, <2>1 DEF Broken
  <2> QED
    BY <2>1, <2>2, <2>3, MoveIsStutter
<1> QED
  BY <1>1, <1>2 DEF WorkerStep

LEMMA FlusherKeepsContract ==
    ASSUME Typed, Once, response = "none", Flush
    PROVE  Contract!Work \/ UNCHANGED Contract!contractVars
<1>0. /\ buffer \subseteq Chunk /\ added \in [Chunk -> Nat]
      /\ \A c \in Chunk : Passing(c) => c \notin buffer
  BY DEF Typed, TypeOK, FlusherTypeOK, Once, Untouched, OnItsWay
<1>1. UNCHANGED <<reader, read, readErr, jobs, worker, hold, response>>
  BY DEF Flush, uploadVars, readerVars, workerVars
<1>2. ASSUME NEW S \in SUBSET buffer, AddBatch(S), Writing, items' = items,
             buffer' = buffer \/ (buffer' = {} /\ S = buffer)
      PROVE  Contract!Work
  <2>1. InStream' = InStream \cup S
    BY <1>0, <1>2 DEF InStream, AddBatch
  <2>2. S \subseteq OnTheWay /\ (OnTheWay' = OnTheWay \/ OnTheWay' = OnTheWay \ S)
    BY <1>0, <1>1, <1>2 DEF OnTheWay, Passing
  <2>3. Broken' = Broken \/ Broken' = TRUE
    BY <1>1, <1>2 DEF Broken, Writing
  <2> QED
    BY <1>1, <2>1, <2>2, <2>3 DEF Contract!Work, Contract!Put
<1>3. CASE WriteOk
  BY <1>2, <1>3 DEF WriteOk
<1>4. ASSUME NEW S \in SUBSET buffer, WriteError(S) \/ WriteCancelled(Done, S)
      PROVE  Contract!Work
  <2>1. AddBatch(S) /\ Writing /\ items' = items /\ buffer' = buffer
    BY <1>4 DEF WriteError, WriteRetry, WriteCancelled
  <2> QED
    BY <1>2, <2>1
<1>5. ASSUME NEW c \in items, TakeItem(c) PROVE UNCHANGED Contract!contractVars
  <2>1. /\ items' = items \ {c} /\ buffer' = buffer \cup {c} /\ added' = added
        /\ flusher # "err" /\ flusher' # "err"
    BY <1>5 DEF TakeItem
  <2>2. OnTheWay' = OnTheWay /\ InStream' = InStream
    BY <1>1, <2>1 DEF OnTheWay, InStream, Passing
  <2>3. Broken' = Broken
    BY <1>1, <2>1 DEF Broken
  <2> QED
    BY <1>1, <2>2, <2>3 DEF Contract!contractVars
<1>6. CASE ItemsEnd \/ FlushTime \/ FlusherDone(Done)
  <2>1. UNCHANGED <<items, buffer, added>> /\ flusher # "err"
    BY <1>6 DEF ItemsEnd, FlushTime, FlusherDone
  <2>2. \A c \in Chunk : Passing(c)' <=> Passing(c)
    BY <1>1, <2>1 DEF Passing
  <2>3. OnTheWay' = OnTheWay /\ InStream' = InStream
    BY <2>1, <2>2 DEF OnTheWay, InStream
  <2>4. Broken' = Broken \/ Broken'
    BY <1>1, <2>1 DEF Broken
  <2> QED
    BY <1>1, <2>1, <2>2, <2>3, <2>4, MoveIsStutter, LossIsWork
<1> QED
  BY <1>3, <1>4, <1>5, <1>6 DEF Flush, FlusherNext, FlusherStep

LEMMA AnswerKeepsContract ==
    ASSUME Typed, Stages, Respond
    PROVE  Contract!Reply
<1> USE DEF Stages, ReaderStage, WorkerStage, PoolStage, FlusherStage
<1>1. /\ response = "none" /\ reader \in {"nil", "err"} /\ pool \in {"nil", "err"}
      /\ flusher \in {"nil", "err"}
      /\ UNCHANGED <<reader, read, readErr, jobs, worker, hold, items, flusher,
                     buffer, added>>
      /\ response' = IF reader = "err" \/ pool = "err" \/ flusher = "err"
                     THEN "failed" ELSE "created"
  BY DEF Respond, AllEnded, FlusherEnded, readerVars, workerVars, flusherVars
<1>2. Broken <=> reader = "err" \/ pool = "err" \/ flusher = "err"
  BY <1>1 DEF Broken
<1>3. ~Broken => OnTheWay = {}
  BY <1>1, <1>2, WorkerAssumption DEF OnTheWay, Passing
<1>4. OnTheWay' = OnTheWay /\ InStream' = InStream /\ Broken' = Broken
  BY <1>1 DEF OnTheWay, InStream, Passing, Broken
<1> QED
  BY <1>1, <1>2, <1>3, <1>4 DEF Contract!Reply

LEMMA StepKeepsContract ==
    ASSUME Typed, Stages, Once, [Next]_vars
    PROVE  [Contract!Work \/ Contract!Reply]_Contract!contractVars
<1>1. CASE UNCHANGED vars
  <2>1. OnTheWay' = OnTheWay /\ InStream' = InStream /\ Broken' = Broken
    BY <1>1 DEF vars, uploadVars, readerVars, workerVars, flusherVars, OnTheWay,
                InStream, Passing, Broken
  <2>2. response' = response
    BY <1>1 DEF vars, uploadVars
  <2> QED
    BY <2>1, <2>2 DEF Contract!contractVars
<1>2. CASE Next
  <2>1. response = "none"
    BY <1>2, OverWithAnswer
  <2>2. CASE ReaderStep \/ ReadEnd("err") \/ \E e \in {"more", "nil", "err"} : ReadChunk(e)
    BY <2>1, <2>2, ReaderKeepsContract
  <2>3. CASE \E w \in Worker : WorkerStep(w) \/ \E c \in jobs : EncryptError(w, c)
    BY <2>1, <2>3, WorkersKeepContract
  <2>4. CASE Flush
    BY <2>1, <2>4, FlusherKeepsContract
  <2>5. CASE Respond
    BY <2>5, AnswerKeepsContract
  <2>6. CASE CloseItems \/ PoolReturn \/ Disconnect
    <3>1. UNCHANGED <<reader, read, readErr, jobs, worker, hold, items, flusher,
                      buffer, added, response>>
      BY <2>6 DEF CloseItems, PoolReturn, Disconnect, readerVars, workerVars, flusherVars
    <3> QED
      BY <3>1, MoveIsStutter DEF Passing, Broken
  <2> QED
    BY <1>2, <2>2, <2>3, <2>4, <2>5, <2>6 DEF Next
<1> QED
  BY <1>1, <1>2

\* An upload implements its contract: a chunk is taken once, and given up only
\* if the answer will be an error; the answer is an error only if there was
\* one; and the stream gets nothing of the upload any more once the client
\* has the answer.
THEOREM UploadKeepsContract == Spec => ContractKept
<1>1. Init => Contract!ContractInit
  <2> SUFFICES ASSUME Init PROVE Contract!ContractInit
    OBVIOUS
  <2>1. /\ reader = "read" /\ readErr = "more" /\ jobs = {} /\ items = {} /\ buffer = {}
        /\ worker = [w \in Worker |-> "take"] /\ flusher = "select" /\ response = "none"
        /\ added = [c \in Chunk |-> 0]
    BY DEF Init, FlusherInit
  <2>2. OnTheWay = {} /\ InStream = {} /\ ~Broken
    BY <2>1 DEF OnTheWay, InStream, Passing, Broken
  <2> QED
    BY <2>1, <2>2 DEF Contract!ContractInit
<1>2. Typed /\ Once /\ [Next]_vars => Once'
  BY OnceBefore, OnceFlush DEF Flush
<1>3. Typed /\ Stages /\ Once /\ [Next]_vars
          => [Contract!Work \/ Contract!Reply]_Contract!contractVars
  BY StepKeepsContract
<1> QED
  BY <1>1, <1>2, <1>3, InitTyped, TypedNext, InitStages, StagesNext, InitOnce, PTL
     DEF Spec, ContractKept, Contract!ContractSpec
=============================================================================
