--------------------------- MODULE UploadPipeline ---------------------------
(***************************************************************************)
(* One upload: the handler Encrypt and the pipeline of goroutines that     *)
(* Cipher.EncryptFile starts (internal/service/cipher_file.go).  The       *)
(* reader cuts the request body into chunks and sends them on the channel  *)
(* jobs; the workers encrypt them and send them on items; a third          *)
(* goroutine waits for the workers and closes items; the Flusher adds the  *)
(* chunks to the Redis stream.  The response is 201 when all of them       *)
(* returned nil and 500 otherwise.                                         *)
(*                                                                         *)
(* The body's length is not known in advance: at every read it may go on,  *)
(* end, be cut off, or fail.  Chunks are numbered in reading order.        *)
(***************************************************************************)
EXTENDS Flusher

CONSTANTS
    MaxChunks,   \* bound on the number of chunks
    Worker       \* CIPHER_WORKERS, which is also the size of both channels

ASSUME MaxChunksAssumption == MaxChunks \in Nat
ASSUME ChunkAssumption == Chunk = 1..MaxChunks
ASSUME WorkerAssumption == IsFiniteSet(Worker) /\ Worker # {}

VARIABLES
    gone,         \* the request's context is cancelled
    read,         \* the number of chunks read from the body
    reader,       \* "read", "send", "close", "return", "nil", "err"
    readErr,      \* what the reader returns once it has sent its last chunk:
                  \* "more" (it goes on), "nil" or "err"
    jobs,         \* the channel of chunks to encrypt
    jobsClosed,
    worker,       \* worker[w]: "take", "send", "nil" or "err"
    hold,         \* hold[w]: the chunk w is sending, 0 for none
    pool,         \* the goroutine that waits for the workers: "wait",
                  \* "return", "nil" or "err"
    response      \* "none", "created" or "failed"

readerVars == <<read, reader, readErr, jobsClosed>>
workerVars == <<worker, hold>>
uploadVars == <<gone, readerVars, jobs, workerVars, pool, response>>
vars == <<items, itemsClosed, flusherVars, faults, uploadVars>>

Init ==
    /\ FlusherInit
    /\ gone = FALSE
    /\ read = 0
    /\ reader = "read"
    /\ readErr = "more"
    /\ jobs = {}
    /\ jobsClosed = FALSE
    /\ worker = [w \in Worker |-> "take"]
    /\ hold = [w \in Worker |-> 0]
    /\ pool = "wait"
    /\ response = "none"

\* Mutant: the flusher runs outside of the errgroup.
DoneWithoutFlusher == gone \/ reader = "err" \/ pool = "err"

\* The context of the outer errgroup, and the context of the workers.
Done == gone \/ reader = "err" \/ pool = "err" \/ flusher = "err"

WorkerDone == Done \/ \E w \in Worker : worker[w] = "err"

WorkersEnded == \A w \in Worker : worker[w] \in {"nil", "err"}

Room(channel) == Cardinality(channel) < Cardinality(Worker)

-----------------------------------------------------------------------------
\* io.ReadFull returns a chunk, and with it how the body goes on.  A body
\* that is cut off looks like one that ends (io.ErrUnexpectedEOF); a failing
\* one still yields the bytes before the failure as a chunk.
ReadChunk(e) ==
    /\ reader = "read"
    /\ read < MaxChunks
    /\ read' = read + 1
    /\ readErr' = e
    /\ reader' = "send"
    /\ IF e = "err" THEN Fault ELSE UNCHANGED faults
    /\ UNCHANGED <<items, itemsClosed, flusherVars, gone, jobs, jobsClosed,
                   workerVars, pool, response>>

\* io.ReadFull returns no bytes.
ReadEnd(e) ==
    /\ reader = "read"
    /\ readErr' = e
    /\ reader' = "close"
    /\ IF e = "err" THEN Fault ELSE UNCHANGED faults
    /\ UNCHANGED <<items, itemsClosed, flusherVars, gone, read, jobs, jobsClosed,
                   workerVars, pool, response>>

SendJob ==
    /\ reader = "send"
    /\ Room(jobs)
    /\ jobs' = jobs \cup {read}
    /\ reader' = IF readErr = "more" THEN "read" ELSE "close"
    /\ UNCHANGED <<items, itemsClosed, flusherVars, faults, gone, read, readErr,
                   jobsClosed, workerVars, pool, response>>

\* select picks ctx.Done(): the chunk is dropped.
ReaderDone ==
    /\ reader = "send"
    /\ Done
    /\ readErr' = "err"
    /\ reader' = "close"
    /\ UNCHANGED <<items, itemsClosed, flusherVars, faults, gone, read, jobs,
                   jobsClosed, workerVars, pool, response>>

\* The deferred close(jobs) comes before the errgroup learns of an error.
CloseJobs ==
    /\ reader = "close"
    /\ jobsClosed' = TRUE
    /\ reader' = "return"
    /\ UNCHANGED <<items, itemsClosed, flusherVars, faults, gone, read, readErr,
                   jobs, workerVars, pool, response>>

ReaderReturn ==
    /\ reader = "return"
    /\ reader' = readErr
    /\ UNCHANGED <<items, itemsClosed, flusherVars, faults, gone, read, readErr,
                   jobs, jobsClosed, workerVars, pool, response>>

-----------------------------------------------------------------------------
\* c is at the head of the channel: the reader sends in reading order.
FirstJob(c) == c \in jobs /\ \A d \in jobs : c <= d

\* A worker takes a chunk and encrypts it under a new key.
TakeJob(w, c) ==
    /\ worker[w] = "take"
    /\ FirstJob(c)
    /\ jobs' = jobs \ {c}
    /\ worker' = [worker EXCEPT ![w] = "send"]
    /\ hold' = [hold EXCEPT ![w] = c]
    /\ UNCHANGED <<items, itemsClosed, flusherVars, faults, gone, readerVars,
                   pool, response>>

\* The key or the encryption fails; the chunk is dropped.
EncryptError(w, c) ==
    /\ worker[w] = "take"
    /\ FirstJob(c)
    /\ Fault
    /\ jobs' = jobs \ {c}
    /\ worker' = [worker EXCEPT ![w] = "err"]
    /\ UNCHANGED <<items, itemsClosed, flusherVars, gone, readerVars, hold,
                   pool, response>>

JobsEnd(w) ==
    /\ worker[w] = "take"
    /\ jobsClosed /\ jobs = {}
    /\ worker' = [worker EXCEPT ![w] = "nil"]
    /\ UNCHANGED <<items, itemsClosed, flusherVars, faults, gone, readerVars,
                   jobs, hold, pool, response>>

SendItem(w) ==
    /\ worker[w] = "send"
    /\ Room(items)
    /\ items' = items \cup {hold[w]}
    /\ worker' = [worker EXCEPT ![w] = "take"]
    /\ hold' = [hold EXCEPT ![w] = 0]
    /\ UNCHANGED <<itemsClosed, flusherVars, faults, gone, readerVars, jobs,
                   pool, response>>

\* select picks ctx.Done(); a chunk that was to be sent is dropped.
WorkerCancelled(w) ==
    /\ worker[w] \in {"take", "send"}
    /\ WorkerDone
    /\ worker' = [worker EXCEPT ![w] = "err"]
    /\ hold' = [hold EXCEPT ![w] = 0]
    /\ UNCHANGED <<items, itemsClosed, flusherVars, faults, gone, readerVars,
                   jobs, pool, response>>

-----------------------------------------------------------------------------
\* Mutant: items is closed as soon as one worker has returned.
CloseItemsEarly ==
    /\ pool = "wait"
    /\ \E w \in Worker : worker[w] \in {"nil", "err"}
    /\ itemsClosed' = TRUE
    /\ pool' = "return"
    /\ UNCHANGED <<items, flusherVars, faults, gone, readerVars, jobs,
                   workerVars, response>>

\* wg.Wait() has returned; close(items) comes before the outer errgroup
\* learns of an error, so that the flusher may see a plain end first.
CloseItems ==
    /\ pool = "wait"
    /\ WorkersEnded
    /\ itemsClosed' = TRUE
    /\ pool' = "return"
    /\ UNCHANGED <<items, flusherVars, faults, gone, readerVars, jobs,
                   workerVars, response>>

PoolReturn ==
    /\ pool = "return"
    /\ pool' = IF \E w \in Worker : worker[w] = "err" THEN "err" ELSE "nil"
    /\ UNCHANGED <<items, itemsClosed, flusherVars, faults, gone, readerVars,
                   jobs, workerVars, response>>

Flush ==
    /\ FlusherNext(Done)
    /\ UNCHANGED uploadVars

\* The client hangs up, or the server closes the connection on shutdown.
Disconnect ==
    /\ ~gone /\ response = "none"
    /\ gone' = TRUE
    /\ UNCHANGED <<items, itemsClosed, flusherVars, faults, readerVars, jobs,
                   workerVars, pool, response>>

\* Mutant: EncryptFile returns with the first error.
EndedOrBroken ==
    \/ reader \in {"nil", "err"} /\ pool \in {"nil", "err"} /\ FlusherEnded
    \/ reader = "err" \/ pool = "err" \/ flusher = "err"

\* g.Wait() has returned, and Encrypt answers the request.
AllEnded == reader \in {"nil", "err"} /\ pool \in {"nil", "err"} /\ FlusherEnded

Respond ==
    /\ response = "none"
    /\ AllEnded
    /\ response' = IF reader = "err" \/ pool = "err" \/ flusher = "err"
                   THEN "failed" ELSE "created"
    /\ UNCHANGED <<items, itemsClosed, flusherVars, faults, gone, readerVars,
                   jobs, workerVars, pool>>

ReaderStep ==
    \/ ReadEnd("nil") \/ SendJob \/ ReaderDone \/ CloseJobs \/ ReaderReturn

WorkerStep(w) ==
    \/ \E c \in jobs : TakeJob(w, c)
    \/ JobsEnd(w) \/ SendItem(w) \/ WorkerCancelled(w)

Next ==
    \/ \E e \in {"more", "nil", "err"} : ReadChunk(e)
    \/ ReadEnd("err") \/ ReaderStep
    \/ \E w \in Worker : WorkerStep(w) \/ \E c \in jobs : EncryptError(w, c)
    \/ CloseItems \/ PoolReturn \/ Flush \/ Respond \/ Disconnect

Spec == Init /\ [][Next]_vars

\* Go runs every goroutine that can go on; a body that no longer grows ends
\* (or its connection does), and Redis answers a call in the end.
Fairness ==
    /\ WF_vars(ReaderStep)
    /\ \A w \in Worker : WF_vars(WorkerStep(w))
    /\ WF_vars(CloseItems \/ PoolReturn)
    /\ WF_vars(FlusherStep(Done) /\ UNCHANGED uploadVars)
    /\ WF_vars(Respond)

FairSpec == Spec /\ Fairness

-----------------------------------------------------------------------------
\* The types; nothing is on its way that was not read from the body, and no
\* batch is tried more often than retryDo allows.
TypeOK ==
    /\ FlusherTypeOK
    /\ gone \in BOOLEAN
    /\ read \in 0..MaxChunks
    /\ reader \in {"read", "send", "close", "return", "nil", "err"}
    /\ readErr \in {"more", "nil", "err"}
    /\ jobs \subseteq 1..read
    /\ jobsClosed \in BOOLEAN
    /\ worker \in [Worker -> {"take", "send", "nil", "err"}]
    /\ hold \in [Worker -> 0..read]
    /\ pool \in {"wait", "return", "nil", "err"}
    /\ response \in {"none", "created", "failed"}

\* A client that is told 201 has all its chunks in the stream: no failure,
\* cancellation or early end of any of the goroutines is mistaken for the
\* success of the upload (cipher_file.go:77, cipher.go:22).
CreatedComplete ==
    response = "created" => \A c \in 1..read : added[c] > 0

\* A chunk on its way to the flusher.
Passing(c) ==
    \/ reader = "send" /\ c = read
    \/ c \in jobs
    \/ \E w \in Worker : worker[w] = "send" /\ hold[w] = c
    \/ c \in items

OnTheWay == {c \in Chunk : Passing(c) \/ c \in buffer}

InStream == {c \in Chunk : added[c] > 0}

\* Some goroutine has an error to return.
Broken == readErr = "err" \/ (\E w \in Worker : worker[w] = "err") \/ flusher = "err"

Contract == INSTANCE UploadContract
                WITH way <- OnTheWay, out <- InStream, doomed <- Broken,
                     answer <- response

\* The upload as its caller sees it (cipher_file.go:77, cipher.go:22): from the
\* body to the stream no chunk disappears unless an error is answered, an
\* error is answered only if there was one, and nothing of the upload is at
\* work any more when the answer is given.
ContractKept == Contract!ContractSpec

\* The stream holds a chunk twice only after a failed write, and never more
\* often than retryDo attempts a batch (batch_flusher.go:112): the batch is
\* reset between two writes and not written again on the way out.  What
\* go-redis repeats within one attempt is one attempt here.
AddedOncePerAttempt ==
    \A c \in Chunk : added[c] <= faults + 1 /\ added[c] <= Attempts + 1

\* No worker can be about to send on items once it is closed, which would
\* panic (cipher_file.go:67-68).
NoSendOnClosed == itemsClosed => \A w \in Worker : worker[w] # "send"

\* EncryptFile returns, whichever goroutine fails first: also when a worker
\* waits for room in items that no flusher makes any more, or the reader for
\* room in jobs after the last worker.
Responds == <>(response # "none")

\* "ShutdownFlushTimeout: the timeout for writing the data when the context
\* is cancelled" (batch_flusher.go:27): as long as Redis does not fail, the
\* flusher leaves nothing of its batch unwritten.
BatchWritten ==
    FlusherEnded /\ faults = 0 => \A c \in buffer : added[c] > 0
=============================================================================
