------------------------------ MODULE Rotation ------------------------------
(***************************************************************************)
(* Key rotation: Rotator.Run (internal/service/cipher_rotation.go) on one  *)
(* file, any number of times and possibly at the same time, against the    *)
(* tables and the buffer through which the new versions reach them.        *)
(*                                                                         *)
(* The pipeline between produce and the stream (two channels, workers,     *)
(* flusher; see UploadPipeline) appears as the set jobs[r] of what is on   *)
(* its way: it leaves in any order, and a failure drops the rest.          *)
(***************************************************************************)
EXTENDS WriteBehind

CONSTANTS
    Chunk,       \* the UUIDs of the file's chunks
    Rotation,    \* the calls of Rotator.Run, numbered in the order in which they
                 \* start; the number also stands for the keys that a call makes
    PageSize,    \* ROTATION_PAGE_SIZE
    Overlap,     \* whether clients start a rotation while another one runs or
                 \* items are pending, from which nothing in the code keeps them
    MaxFaults    \* bound on the number of failures

ASSUME ChunkAssumption == Chunk \subseteq Nat \ {0} /\ IsFiniteSet(Chunk)
ASSUME RotationAssumption == Rotation \subseteq Nat \ {0}
ASSUME PageSizeAssumption == PageSize \in Nat \ {0}
ASSUME OverlapAssumption == Overlap \in BOOLEAN
ASSUME MaxFaultsAssumption == MaxFaults \in Nat

Nil == 0         \* uuid.Nil, smaller than every UUID; a key without a value

VARIABLES
    cursor,      \* the value of cursor:<file> in Redis
    phase,       \* phase[r]: what r does next
    at,          \* at[r]: the last chunk of the page before
    page,        \* page[r]: the chunks of this page
    chunks,      \* chunks[r]: their latest data
    jobs,        \* jobs[r]: <<data, key>> on the way to the stream
    faults,      \* the failures so far
    \* History:
    owed,        \* owed[r]: the chunks that had data when r began, behind the
                 \* cursor that it loaded
    swallowed    \* the chunks of an item that the worker counts as saved though
                 \* the table has no row of its version or of a newer one

rotationVars == <<cursor, phase, at, page, chunks, jobs, owed>>
vars == <<rows, bufferVars, swallowed, faults, rotationVars>>

Fault == faults < MaxFaults /\ faults' = faults + 1

Upload(c) == [uuid |-> c, version |-> 1, secret |-> Nil]

\* The upload was answered with 201: its chunks are in the stream.
Init ==
    /\ TablesInit
    /\ accepted = {Upload(c) : c \in Chunk}
    /\ pending = accepted
    /\ saved = {}
    /\ faults = 0
    /\ cursor = Nil
    /\ phase = [r \in Rotation |-> "off"]
    /\ at = [r \in Rotation |-> Nil]
    /\ page = [r \in Rotation |-> {}]
    /\ chunks = [r \in Rotation |-> {}]
    /\ jobs = [r \in Rotation |-> {}]
    /\ owed = [r \in Rotation |-> {}]
    /\ swallowed = {}

Ended == {"off", "ok", "failed"}

Running(r) == phase[r] \notin Ended

LastOf(ids) == CHOOSE u \in ids : \A v \in ids : v <= u

Goto(r, p) == phase' = [phase EXCEPT ![r] = p]

\* Run returns, and its local variables go with it.
Return(r, p) ==
    /\ Goto(r, p)
    /\ at' = [at EXCEPT ![r] = Nil]
    /\ page' = [page EXCEPT ![r] = {}]
    /\ chunks' = [chunks EXCEPT ![r] = {}]
    /\ owed' = [owed EXCEPT ![r] = {}]

-----------------------------------------------------------------------------
\* Run starts its goroutines, and produce loads the cursor.
Start(r) ==
    /\ phase[r] = "off" /\ \A q \in Rotation : q < r => phase[q] # "off"
    /\ Overlap \/ (pending = {} /\ \A q \in Rotation : ~Running(q))
    /\ Goto(r, "ids")
    /\ at' = [at EXCEPT ![r] = cursor]
    /\ owed' = [owed EXCEPT ![r] = {c \in Chunk : c > cursor /\ \E d \in rows["data"] : d.uuid = c}]
    /\ UNCHANGED <<rows, bufferVars, swallowed, faults, cursor, page, chunks, jobs>>

\* produce: GetChunkUUIDsByFileID; after the last page it returns nil.
ReadPage(r) ==
    /\ phase[r] = "ids"
    /\ page' = [page EXCEPT ![r] = ChunkUUIDs(at[r], PageSize)]
    /\ Goto(r, IF page'[r] = {} THEN "wait" ELSE "data")
    /\ UNCHANGED <<rows, bufferVars, swallowed, faults, cursor, at, chunks, jobs, owed>>

\* produce: GetLatestData.
ReadData(r) ==
    /\ phase[r] = "data"
    /\ chunks' = [chunks EXCEPT ![r] = Latest("data", page[r])]
    /\ Goto(r, "keys")
    /\ UNCHANGED <<rows, bufferVars, swallowed, faults, cursor, at, page, jobs, owed>>

\* Mutant: data and keys are paired by their places in the two results.
JobsByPlace(C, K) == C \X K

\* keyByUUID: the latest key of the chunk, of whatever version.
JobsOf(C, K) == {j \in C \X K : j[1].uuid = j[2].uuid}

\* produce: GetLatestKeys, and out <- rotationJob for each chunk up to the
\* first without a key, if there is one ("desync").
ReadKeys(r) ==
    LET C == chunks[r]
        K == Latest("keys", page[r])
        desync == {d \in C : \A k \in K : k.uuid # d.uuid}
    IN  /\ phase[r] = "keys"
        /\ jobs' = [jobs EXCEPT ![r] = @ \cup
               JobsOf({d \in C : \A e \in desync : d.uuid < e.uuid}, K)]
        /\ at' = [at EXCEPT ![r] = LastOf(page[r])]
        /\ page' = [page EXCEPT ![r] = {}]
        /\ chunks' = [chunks EXCEPT ![r] = {}]
        /\ Goto(r, IF desync = {} THEN "save" ELSE "desync")
        /\ UNCHANGED <<rows, bufferVars, swallowed, faults, cursor, owed>>

\* produce: the jobs of the page are handed over, and the cursor is saved.
SaveCursor(r) ==
    /\ phase[r] = "save"
    /\ cursor' = at[r]
    /\ Goto(r, "ids")
    /\ UNCHANGED <<rows, bufferVars, swallowed, faults, at, page, chunks, jobs, owed>>

\* Save fails, which is logged.
SaveCursorError(r) ==
    /\ phase[r] = "save"
    /\ Fault
    /\ Goto(r, "ids")
    /\ UNCHANGED <<rows, bufferVars, swallowed, cursor, at, page, chunks, jobs, owed>>

-----------------------------------------------------------------------------
Decrypts(j) == j[1].secret = j[2].secret

NewItem(r, j) ==
    [uuid |-> j[1].uuid, version |-> j[1].version + 1, secret |-> r]

\* Mutant: the error of Decrypt is dropped.
FlushAnything(r, j) ==
    /\ j \in jobs[r]
    /\ Accept(NewItem(r, j))
    /\ jobs' = [jobs EXCEPT ![r] = @ \ {j}]
    /\ UNCHANGED <<swallowed, faults, cursor, phase, at, page, chunks, owed>>

\* rotationWorker encrypts a chunk under a new key, and the flusher adds it
\* to the stream.
Flush(r, j) ==
    /\ j \in jobs[r] /\ Decrypts(j)
    /\ Accept(NewItem(r, j))
    /\ jobs' = [jobs EXCEPT ![r] = @ \ {j}]
    /\ UNCHANGED <<swallowed, faults, cursor, phase, at, page, chunks, owed>>

\* Mutant: Run waits for produce only.
DrainEarly(r) ==
    /\ phase[r] = "wait"
    /\ Goto(r, "oldids")
    /\ at' = [at EXCEPT ![r] = Nil]
    /\ jobs' = [jobs EXCEPT ![r] = {}]
    /\ UNCHANGED <<rows, bufferVars, swallowed, faults, cursor, page, chunks, owed>>

\* g.Wait() returns nil: deleteOldVersions starts.
Drained(r) ==
    /\ phase[r] = "wait" /\ jobs[r] = {}
    /\ Goto(r, "oldids")
    /\ at' = [at EXCEPT ![r] = Nil]
    /\ UNCHANGED <<rows, bufferVars, swallowed, faults, cursor, page, chunks, jobs, owed>>

\* deleteOldVersions: GetChunkUUIDsByFileID.
ReadOldPage(r) ==
    /\ phase[r] = "oldids"
    /\ page' = [page EXCEPT ![r] = ChunkUUIDs(at[r], PageSize)]
    /\ Goto(r, IF page'[r] = {} THEN "delcursor" ELSE "deldata")
    /\ UNCHANGED <<rows, bufferVars, swallowed, faults, cursor, at, chunks, jobs, owed>>

DeleteOldData(r) ==
    /\ phase[r] = "deldata"
    /\ DeleteOld("data", page[r])
    /\ Goto(r, "delkeys")
    /\ UNCHANGED <<bufferVars, swallowed, faults, cursor, at, page, chunks, jobs, owed>>

DeleteOldKeys(r) ==
    /\ phase[r] = "delkeys"
    /\ DeleteOld("keys", page[r])
    /\ at' = [at EXCEPT ![r] = LastOf(page[r])]
    /\ page' = [page EXCEPT ![r] = {}]
    /\ Goto(r, "oldids")
    /\ UNCHANGED <<bufferVars, swallowed, faults, cursor, chunks, jobs, owed>>

DeleteCursor(r) ==
    /\ phase[r] = "delcursor"
    /\ cursor' = Nil
    /\ Return(r, "ok")
    /\ UNCHANGED <<rows, bufferVars, swallowed, faults, jobs>>

\* Delete fails, which is logged; the response is 200.
DeleteCursorError(r) ==
    /\ phase[r] = "delcursor"
    /\ Fault
    /\ Return(r, "ok")
    /\ UNCHANGED <<rows, bufferVars, swallowed, cursor, jobs>>

-----------------------------------------------------------------------------
Fail(r) ==
    /\ Running(r)
    /\ Return(r, "failed")
    /\ jobs' = [jobs EXCEPT ![r] = {}]
    /\ UNCHANGED <<rows, bufferVars, swallowed, cursor>>

\* A query or the flusher fails for good, the client hangs up, or the process
\* ends: the chunks on their way are lost, and the cursor stays.
Abort(r) == Fail(r) /\ Fault

\* The error of a chunk without a key, or of one that does not decrypt.
FailedChunk(r) ==
    /\ Fail(r)
    /\ phase[r] = "desync" \/ \E j \in jobs[r] : ~Decrypts(j)
    /\ UNCHANGED faults

\* The time to live of the cursor ends.
Expire ==
    /\ cursor # Nil
    /\ cursor' = Nil
    /\ UNCHANGED <<rows, bufferVars, swallowed, faults, phase, at, page, chunks, jobs, owed>>

\* Items whose save has returned nil in this step, and whose chunk has no row
\* as new in that table.
SwallowedNow ==
    {w \in saved' \ saved :
        \A d \in rows'[w[1]] : d.uuid = w[2].uuid => d.version < w[2].version}

Worker ==
    /\ \/ (Write \/ Acknowledge) /\ UNCHANGED faults
       \/ Fault /\ (Rewrite \/ Repeated)
    /\ swallowed' = swallowed \cup {w[2].uuid : w \in SwallowedNow}
    /\ UNCHANGED rotationVars

Produce(r) == ReadPage(r) \/ ReadData(r) \/ ReadKeys(r) \/ SaveCursor(r)

DeleteOldVersions(r) == ReadOldPage(r) \/ DeleteOldData(r) \/ DeleteOldKeys(r)

Next ==
    \/ Worker
    \/ Expire
    \/ \E r \in Rotation :
          \/ Start(r) \/ Produce(r) \/ SaveCursorError(r)
          \/ \E j \in jobs[r] : Flush(r, j)
          \/ Drained(r) \/ DeleteOldVersions(r)
          \/ DeleteCursor(r) \/ DeleteCursorError(r)
          \/ Abort(r) \/ FailedChunk(r)

Spec == Init /\ [][Next]_vars

\* What r does when nothing fails from outside.
Proceed(r) ==
    \/ Produce(r) \/ Drained(r) \/ DeleteOldVersions(r) \/ DeleteCursor(r) \/ FailedChunk(r)
    \/ \E j \in jobs[r] : Flush(r, j)

\* Queries are answered or fail in the end, and the goroutines of a rotation
\* do not wait for each other for ever (Responds in UploadPipeline).
FairSpec == Spec /\ \A r \in Rotation : WF_vars(Proceed(r))

-----------------------------------------------------------------------------
\* The types; and a job is made of data and a key of one chunk.
RotationTypeOK ==
    /\ BufferTypeOK
    /\ faults \in 0..MaxFaults
    /\ cursor \in Chunk \cup {Nil}
    /\ phase \in [Rotation -> Ended \cup
                     {"ids", "data", "keys", "desync", "save", "wait",
                      "oldids", "deldata", "delkeys", "delcursor"}]
    /\ at \in [Rotation -> Chunk \cup {Nil}]
    /\ page \in [Rotation -> SUBSET Chunk]
    /\ \A r \in Rotation : chunks[r] \subseteq FlushItem
    /\ \A r \in Rotation, j \in UNION {jobs[q] : q \in Rotation} :
          j \in FlushItem \X FlushItem /\ j[1].uuid = j[2].uuid
    /\ owed \in [Rotation -> SUBSET Chunk]
    /\ swallowed \subseteq Chunk

\* x is in table t, or the worker will still write it there.
Obtainable(t, x) ==
    \/ x \in rows[t]
    \/ x \in Due(t) /\ ~UniqueViolation(t, <<x>>)

\* Some version of chunk c has, or will have, its two rows.
Recoverable(c) ==
    \E x \in accepted : x.uuid = c /\ \A t \in Table : Obtainable(t, x)

\* Two rotations made the same version of c with keys of their own.
Conflict(c) ==
    \E x, y \in accepted : x.uuid = c /\ x # y /\ SamePrimaryKey(x, y)

\* What versions are for (entity/chunk.go:9-25, "resumable after a failure
\* without the risk of losing data"): no chunk can be lost.  It holds only of
\* clients that rotate a file when the rotation before has ended and its items
\* are stored, and only with PENDING_AMOUNT=1: the default is 1000.
NoChunkLost == \A c \in Chunk : Recoverable(c)

\* For such clients, batches of any size and any failures: the only chunks that
\* can be lost are those of an item that was counted as saved without a row,
\* because another item of its batch broke the primary key.
LostBySwallowOnly == \A c \in Chunk : Recoverable(c) \/ c \in swallowed

\* For all clients: a chunk can be lost only if it has such an item, or if two
\* rotations made the same version of it.
LossHasCause == \A c \in Chunk : Recoverable(c) \/ c \in swallowed \/ Conflict(c)

\* A new version is never made of a half-stored one: whatever is between the
\* reading of the data and that of the keys (cipher_rotation.go:165-182), the
\* item before it had reached both tables when the new one is added.
Done(t, x) == x \in rows[t] \/ Newer(t, x) # {}

MadeFromStored ==
    [][\A n \in accepted' \ accepted : \E x \in accepted :
          /\ x.uuid = n.uuid /\ n.version = x.version + 1
          /\ \A t \in Table : Done(t, x)]_vars

\* Once the buffer has nothing left to write, the latest data and the latest
\* key of a chunk are of one version and decrypt, which is the pair that a
\* download or the next rotation reads; but for chunks of which two rotations
\* made the same version, or one version was counted as saved without its rows.
SettledPaired ==
    pending = {} => \A c \in Chunk :
        \/ Conflict(c)
        \/ c \in swallowed
        \/ Latest("data", {c}) # {} /\ Latest("data", {c}) = Latest("keys", {c})

Rekeyed(r, c) == \E x \in accepted : x.uuid = c /\ x.secret = r

\* 200 means that the keys have changed, of the chunks that had data when the
\* rotation began and that lie behind the cursor which it loaded, whatever
\* overlaps.  It says nothing of the others: a rotation that is sent right
\* after the 201 of the upload reads an empty page and answers 200 as well.
RekeyedPresent ==
    [][\A r \in Rotation : Running(r) /\ phase'[r] = "ok" =>
          \A c \in owed[r] : Rekeyed(r, c)]_vars

\* "Changes the keys of all chunks of the file" (README.md:26): after a 200 no
\* chunk has only the key that it was uploaded with, even if the rotation
\* went on where a failed one had stopped.
RekeyedAll ==
    \A r \in Rotation : phase[r] = "ok" =>
        \A c \in Chunk : \E q \in Rotation : Rekeyed(q, c)

\* "The previous version stays untouched in both databases" (entity/chunk.go:
\* 20-21) until a pair of the next is there: a chunk that was stored once has
\* a version in both tables at all times.
Paired(c) == \E x \in rows["data"] \cap rows["keys"] : x.uuid = c

PairKept == [][\A c \in Chunk : Paired(c) => Paired(c)']_vars

\* A rotation ends, whatever the worker and other rotations do to the tables it
\* pages through, and whichever pairs of data and keys it meets in them.
RotationEnds == \A r \in Rotation : Running(r) ~> ~Running(r)
=============================================================================
