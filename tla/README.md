# A verification development for file-cipher-core

file-cipher-core cuts an uploaded file into chunks, encrypts every chunk with a
key of its own, and keeps keys and ciphertexts in two independent PostgreSQL
databases. Nothing is written to the databases by the request itself: an upload
(and a rotation of a file's keys) adds its chunks to a Redis stream, and a
background worker moves them from there to both databases. No transaction spans
the three stores, so that everything the service promises rests on the order in
which goroutines, retries and failures meet. These modules say what that order
may be, TLC checks the result on small instances, and TLAPS proves most of it
for instances of every size.

Paths are relative to the repository; `pending_worker.go` stands for
`internal/service/pending_worker.go` and so on.

## 1. Inventory

| Component | State it keeps | Operations | Talks to |
|---|---|---|---|
| **PendingStore** (`repository/pending_store.go`) and its Redis stream | the stream; of its one consumer group the last delivered ID, the pending entries and their idle times | `AddBatch` (a pipeline of XADDs), `Read` (XREADGROUP `>`), `Claim` (XAUTOCLAIM from `0`), `Ack` (XACK), `CursorInit` (XGROUP CREATE) | filled by the Flusher, emptied by the PendingWorker |
| **PendingWorker** (`service/pending_worker.go`), one per instance of the application | two loops; per batch an error group with one goroutine per database and their retry counters | `Run`, `readLoop`, `claimLoop`, `process` | PendingStore, both repositories |
| **KeyRepository, DataRepository** | two tables, `PRIMARY KEY (uuid, version)` in each | `SaveKeys`/`SaveData` (COPY), `GetLatest…`, `Get…ByVersion`, `DeleteOld…`, `GetChunkUUIDsByFileID` | PostgreSQL |
| **Flusher** (`service/batch_flusher.go`), one per upload or rotation | a batch, a timer | `Run`, `write` | a channel of chunks in, PendingStore out |
| **Cipher** (`service/cipher_file.go`) with the handler `Encrypt` | per upload: two channels, a reader, a pool of workers, two error groups | `EncryptFile`, `read`, `encryptWorker` | request body, Flusher |
| **Rotator** (`service/cipher_rotation.go`) with the handler `Rotate` | per rotation: a pipeline like Cipher's, and a cursor per file | `Run`, `produce`, `rotationWorker`, `deleteOldVersions` | both repositories, CursorStore, Flusher |
| **CursorStore** (`repository/cursor_store.go`) | `cursor:<file>` in Redis, with a time to live | `Save`, `Load`, `Delete` | Rotator |
| **Decipher** (`service/decipher_file.go`) with the handler `Download` | a page position, whether a byte was written | `StreamFile`, `streamPage`, `getConsistentVersion`, `decryptChunk` | both repositories |
| **retry.go** | an attempt counter; the pause of a loop | `retryDo`, `loopBackoff` | everything above |
| **crypto** | none | `GenerateKey`, `Encrypt`, `Decrypt` | Cipher, Rotator, Decipher |
| **main, config, middleware, logger** | none | wiring, start, signals, shutdown | |

What is hard here, and what makes each part correct:

- *PendingWorker and PendingStore.* Entries are delivered at least once: replies
  get lost, processes die between the two writes or between the writes and the
  acknowledgement, a slow loop is overtaken by a claim, and `AddBatch` repeats a
  half-sent pipeline. Correct means: an acknowledged entry has its row in both
  databases (it has no other copy left), an entry is acknowledged in the end,
  and what cannot be parsed stays where an operator can find it.
- *Repositories.* A COPY inserts all its rows or none, and `SaveKeys`/`SaveData`
  turn its unique violation into success. Correct means that this never
  acknowledges a row that is not there. It does (`worker_batch_loss`), so that the
  rest of the project says what is left: losses have this cause or another named
  one.
- *Cipher and Flusher.* Four kinds of goroutines over two bounded channels and
  two contexts, any of which can fail at any time. Correct means: 201 only if
  all chunks are in the stream, never a send on a closed channel, always an
  answer, and nothing left in a batch that could have been written.
- *Rotator.* Reads the tables while the worker still writes to them, saves its
  cursor before the chunks it stands for are flushed, deletes old versions
  before the new ones are stored, and is not protected from a second rotation
  of the same file. Correct means that some version of every chunk can be
  decrypted at every moment, and that 200 means the keys have changed.
- *Decipher.* Reads two tables one after the other while both change, and has
  sent status 200 before it knows whether the rest can be read. Correct means
  that the client gets the file's bytes or learns that it did not, and that
  neither the worker nor a rotation makes a stored chunk fail without need.

`PROJECT.json` lists the hazards one by one, each at its line, with the
properties that would notice it.

## 2. Modules

```
FlushItems                 chunk + key as one record; the primary key
 |-- ChunkTables           the two tables: COPY, the reads, the deletions
 |    |-- DurableHandoff   abstract: what the buffer promises of an entry
 |    `-- WriteBehind      abstract: the buffer as rotations and downloads meet it
 |          `-- Rotation   calls of Rotator.Run on one file, over the buffer
 |                |-- MCRotation
 |                |-- RotationProofs -- RotationSteps
 |                |                       |-- RekeyProofs
 |                |                       |-- CarefulProofs
 |                |                       `-- VersionProofs
 |                `-- Download      a download of the file meanwhile
 |                      |-- MCDownload
 |                      `-- DownloadProofs   (also over CarefulProofs, VersionProofs)
 `-- PendingStore          the Redis stream and its consumer group
       `-- PendingWorker   PendingStore + ChunkTables + the loops   (refines both)
             |-- MCPendingWorker        instances for TLC
             `-- PendingWorkerProofs    theorems
Flusher                    the select loop over a channel of chunks
 `-- UploadPipeline        the goroutines of one upload around it  (refines UploadContract)
       |-- MCUploadPipeline
       `-- UploadPipelineProofs
UploadContract             abstract: what an upload promises
```

**FlushItems, ChunkTables.** An item is a record `[uuid, version, secret]`. The
secret stands for the AES key in one table and for the ciphertext and nonce in
the other: rows decrypt each other if and only if their secrets agree. `rows[t]`
is the set of rows of table `t`; `CopyFrom` is enabled when the primary key
allows it and adds all items of a batch in one step. `Latest` is the
`DISTINCT ON (uuid) ... ORDER BY version DESC` of `GetLatestKeys` and
`GetLatestData`, `ChunkUUIDs` a page of `GetChunkUUIDsByFileID`, and `DeleteOld`
removes what is older than the newest row *of the same table*. The UUIDs are
numbers here, since a UUIDv7 orders the chunks of a file and pages use the order.

**PendingStore.** An entry's ID is its position in `stream`; IDs grow and nothing
is ever deleted (`Ack` does not XDEL), so `delivered` (the group's position) and
`pel` (its pending entries) describe the group completely. `stale` is the only
thing kept of idle times: the pending entries for which `ClaimMinIdle` is over.
`XAutoClaim` takes the first `Amount` of them and makes them fresh again.
`WellFormed` is `parsePendingItem`, which accepts or rejects a whole entry.

**PendingWorker.** For every instance a read loop and a claim loop, each with the
batch it works on, and one goroutine per table in `save` with its counter of
failed attempts. One action per thing that can happen: a read or a claim, with a
reply or with a reply that is lost; a COPY that succeeds, is a duplicate, fails,
or is committed although the client sees an error; the cancellation of the
slower goroutine; an acknowledgement, its failure, and giving up; crash and
start of an instance. The retry budget and its cancellation rule are those of
`retryDo`. A crash is also what a regular shutdown looks like: `main` does not
wait for the worker. `swallowed` is a history variable and records which entries
a swallowed unique violation left without a row.

**DurableHandoff.** The abstract specification: entries are accepted, rows of
accepted entries appear in the tables, and an entry is released only when both
rows are there. Nothing of loops, batches, groups or retries is in it.

**Flusher.** `buffer` is the batch, `flusher` says where `Run` is: in the select,
in one of its three writes (after a full batch or the timer; after the end of
the channel; after a cancellation), or returned. `added[c]` counts how often
chunk `c` was added to the stream, since a pipeline that failed half-way is sent
again.

**UploadPipeline.** The reader of the body, the workers, the goroutine that waits
for them and closes `items`, the flusher, both contexts (`Done`, `WorkerDone`),
both channels with their capacity, and the handler's answer. Goroutines close
their channel *before* their error group learns that they failed, and the model
keeps those as two steps: it is the order that lets the flusher see a regular
end of a channel in which chunks are missing. The body may at each read go on,
end, be cut off (which `read` takes for an end) or fail.

**UploadContract.** The abstract specification of an upload: chunks are taken, are
on their `way`, and are put into the stream, in parts and perhaps repeatedly; one
is dropped only when an error has occurred (`doomed`); the answer is an error if
and only if there was one, is a success only if nothing is on its way, and ends
everything. `UploadPipeline` implements it with `OnTheWay` (what the reader, the
channels, the workers and the batch hold), `InStream`, `Broken` (some goroutine
has an error to return) and `response`.

**WriteBehind.** The buffer as somebody meets it who adds items and reads tables:
PendingStore and PendingWorker without loops, IDs and retries. An item is
`pending` until it is acknowledged, and `saved` says for which tables `SaveKeys`
or `SaveData` has returned nil for it. `Save(t, X)` is the COPY of a batch of at
most `Amount` items: it inserts all of them, or it breaks the primary key with one
of them (`Duplicate`), and then *all* of them count as saved and none was inserted.
`Write` saves items that are not yet written to the table, `Acknowledge` takes items
out of `pending` when both saves have returned nil. `Rewrite` is every other COPY:
of entries that are delivered again, alone or with fresh ones, because a write or
the acknowledgement failed; and of a process that was overtaken, which has no
lease, so that its COPY may commit when another loop has long acknowledged the
entry and a rotation has deleted the row. `Repeated` is a batch that has one item
twice, since `AddBatch` was retried; it breaks the primary key by itself. In
`Rotation` each `Rewrite` and `Repeated` counts as a failure; a `Duplicate` of items
that are due does not.

`PendingWorker` implements `WriteBehind` (`BufferSafety`) for every batch size and
without a condition (`WorkerIsBuffer`), and that is what entitles `Rotation` and
`Download` to use it in its place. The mapping takes the items of the stream for
`accepted`, those with an entry that is not acknowledged for `pending`, and for
`saved` the items whose row is there or was swallowed. The refinement is that of a
worker whose tables nobody else changes; rotations and downloads touch the tables
through `DeleteOld` only, which the worker meets as a primary key that is free
again (the guard of `Insert` and `Duplicate`).

**Rotation.** Calls of `Rotator.Run` on one file. `phase[r]` is the next query of
call `r`: pages of UUIDs, the latest data, the latest keys, the cursor, the wait
for the pipeline, the deletion of old versions page by page, the deletion of the
cursor. Each query is a step of its own, because the worker and other rotations
change the tables between them. `jobs[r]` is what `produce` has handed over and
the flusher has not yet added to the stream: two channels and a pool of workers
like those of `UploadPipeline`, seen as a set. A job pairs data and key by UUID,
whatever their versions are, as `keyByUUID` does, and fails if the key does not
decrypt the data. The secret of a new item is the number of the call, as each
call makes fresh keys (the keys of an upload have secret 0). A failure of any
part ends the call at once and drops its jobs; errors of the cursor store are
logged only, as in the code. Two history variables: `owed[r]` is what a 200 of
call `r` answers for, the chunks that had data when it began and lie behind the
cursor it loaded; `swallowed` has the chunks of an item which the worker counts as
saved although the table has no row of its version or a newer one. Calls start in the
order of their numbers, which only breaks their symmetry. `Overlap` says what
clients do, since nothing in the code keeps them from it: rotate a file while
another rotation runs, or while its items have not been stored.

**Download.** `Rotation` with one download of the file on top, which reads the
same `rows`. `step` is the next query of `StreamFile`: a page of UUIDs, the
latest data of the page, the latest keys, and then chunk by chunk either the
decryption of the two rows or, if their versions differ, the two queries of
`getConsistentVersion` for the smaller version. Each query is a step of its own.
`ids`, `data` and `keys` are what is left of the page and of its two maps,
`body` is what the client has received, and `answer` what it can tell from the
response: a status, or `"cut"` for the connection that the handler hijacks and
closes when an error comes after the first byte. (Where a connection cannot be
hijacked, `decipher.go:58-66` returns plainly and net/http ends the body as if it
were complete. The server speaks HTTP/1.1 without TLS, where it always can, so the
model leaves that out; the mutant of `CompleteBody` is that very behaviour.)
`retryDo` leaves no trace here (a query that fails and succeeds later is a later
query), so that `DownloadAbort` is an error that the retries did not get over. The
download writes nothing that others read, hence one download says what several
would; the history variables record what its promises refer to: which chunks had
data when it began (`stored`), which of them had a matching pair (`settled`), from
which a row was deleted since (`touched`), and at which chunk it gave up
(`culprit`). After the
answer the rest of the system stands still in this module, as the answer cannot
change any more and everything it can do is possible before `Get` too.

## 3. What TLC checks

| Run | Instance | Question |
|---|---|---|
| `worker_batches` | batches of 2, 2 entries, which may be a chunk twice, two chunks, or foreign; 1 instance (2 loops), 1 retry, 2 failures | Can anything but a swallowed unique violation acknowledge an entry that is not stored (`AckedStoredOrSwallowed`)? Can an entry that does not parse be acknowledged with the batch around it (`ForeignNeverAcked`)? Is the worker the buffer of rotations (`BufferSafety`)? Is every other entry acknowledged in the end (`EventuallyAcked`)? |
| `worker_single` | batches of 1, 2 entries, 2 instances (4 loops), no retry, 1 failure | With batches of one, is every acknowledged entry stored (`AckedStored`), and is the worker the abstract hand-off (`HandoffSafety`) and the buffer of rotations (`BufferSafety`)? |
| `worker_batch_loss` | batches of 2, 3 entries, one of which may repeat another, no failure of the worker or of PostgreSQL | **Violation**: an acknowledged entry is missing from both tables. |
| `upload_safety` | up to 4 chunks, 2 workers, batches of 2, 1 retry, 2 failures | Is 201 always the truth (`CreatedComplete`)? How often can a chunk be in the stream (`AddedOncePerAttempt`)? Can a worker send on a closed channel (`NoSendOnClosed`)? Is the error answered exactly when there was one, no chunk dropped without one, and nothing at work behind the answer (`ContractKept`)? Does every request get an answer, also when a goroutine waits on a channel behind which nobody is left (`Responds`)? |
| `upload_tail` | 2 chunks, 2 workers, no failure but the cancellation | **Violation**: the flusher ends with a batch it did not write, although Redis never failed. |
| `rotation_careful` | 2 chunks, pages of 1, batches of 2, 2 rotations that do not overlap, 2 failures | Is a swallowed batch the only way to lose a chunk (`LostBySwallowOnly`)? Do the latest rows of the others fit together once the buffer is empty (`SettledPaired`)? Does 200 mean a new key for every chunk that had data, behind the loaded cursor (`RekeyedPresent`)? |
| `rotation_overlap` | 1 chunk, batches of 2, 2 rotations at any time | Are a swallowed batch and a conflict of versions the only ways to lose a chunk (`LossHasCause`)? `SettledPaired` and `RekeyedPresent` again. Is a version made only of an item that has reached both tables, although data and keys are read one after the other (`MadeFromStored`)? Does every rotation end (`RotationEnds`)? |
| `rotation_conflict` | 1 chunk, batches of 1, 2 rotations at any time, no failure | **Violation**: a chunk of which no version can be decrypted any more. |
| `rotation_resumed` | 2 chunks, pages of 1, 2 rotations, 1 failure | **Violation**: a rotation answers 200 and a chunk has only the key of its upload. |
| `rotation_pair` | 1 chunk, 1 rotation, no failure | **Violation**: no version of a stored chunk is in both tables. |
| `download_safety` | 2 chunks, downloaded in pages of 1, and a rotation of them, both while the worker stores the upload in batches of up to 2; no failure of the rotation | Does a response that looks complete have every chunk that was stored when it began, in order (`CompleteBody`)? Does a stored chunk fail only for a deletion or a conflict (`FailsForAReason`)? Does the client get an answer (`Answers`)? |
| `download_early` | the same, batches of 1 | **Violation**: a download ends with status 200 and a part of the file. |

Six disagreements between the code and its comments come out of this.

*A batch can be acknowledged without being stored* (`worker_batch_loss`).
`SaveKeys` and `SaveData` treat a unique violation as "this batch is already
stored" (`key_repository.go:92`, `data_repository.go:113`), but COPY is all or
nothing: if one entry of the batch is stored already, the others are not
inserted, and `process` acknowledges them all the same. The run's trace is the
shortest one: an item that the retry of `AddBatch` added twice comes twice in a
batch, neither COPY inserts anything, and both entries are acknowledged. An entry
that comes back through `Claim` next to a fresh one does the same to the fresh
one. `worker_batches` shows that this is the only way to lose an entry, and
`worker_single` that batches of one (`PENDING_AMOUNT=1`; the default is 1000) do
not lose any.

The same can happen to a rotation that nobody overlaps. Let the key of chunk 1's
new item be written and its data fail, let both fail for chunk 2, and let the two
entries be claimed as one batch: `SaveKeys` reports success and has not written the
key of chunk 2, `SaveData` inserts the data of both, the batch is acknowledged, and
the next deletion takes the old data of chunk 2. Its new data have no key. This is
why the properties of rotations speak of `swallowed` chunks. With `NoChunkLost` in
the place of `LostBySwallowOnly`, `rotation_careful` fails after three steps.

*The shutdown flush does not cover a flush in progress* (`upload_tail`). The
context under which `flush(ctx)` runs at lines 96 and 103 of `batch_flusher.go`
is the one that gets cancelled; `Run` then returns from there and never reaches
the branch that writes the rest under `flushCtx`.

*Overlapping rotations can lose a chunk* (`rotation_conflict`). Two rotations
that read the same version both add "version + 1", each with its own key
(`cipher_rotation.go:229`). The worker writes the two tables separately and takes
an existing row for its own, so that one call's key can end up with the other's
ciphertext; the version before is then deleted. `entity/chunk.go:25` promises
resumption without the risk of losing data. It is enough that the second request
comes before the items of the first are stored. The run has batches of one, so that
the cause above plays no part in it. `rotation_overlap` and a theorem show that
there is no third cause; for clients that rotate one at a time and wait for the
buffer, `rotation_careful` and a theorem leave the swallowed batch only, and with
`PENDING_AMOUNT=1` none (`OneByOneLosesNothing`).

*A resumed rotation skips chunks* (`rotation_resumed`). `produce` saves the cursor
when a page has been handed to the workers (`cipher_rotation.go:200`), not when it
is in the stream. If the rotation fails in between, the next one starts behind
chunks that were never rotated and answers 200; `README.md:26` says that it
changes the keys of all chunks. What does hold is `RekeyedPresent`, which is weaker
in two ways: it speaks of the chunks behind the cursor, and of those that had data
when the rotation began. A rotation sent right after the 201 of the upload finds an
empty page, takes it for the end of the file and answers 200 without having
changed a key; nothing in the code keeps a client from that.

*Old versions go before new ones are there* (`rotation_pair`). `deleteOldVersions`
starts when the new versions are in the stream, and looks at each table on its
own. When the worker has stored the new data and not yet the new key, the old
data are deleted and the old key is not: until the key arrives no version is in
both databases, which `entity/chunk.go:20` rules out, and a download fails.

*A download right after an upload can be short* (`download_early`). An upload
answers 201 when its chunks are in the stream. `StreamFile` takes the first empty
page of `chunk_data` for the end of the file (`decipher_file.go:74`), so that a
download that overtakes the worker ends with status 200 and a part of the file,
or with 404. `README.md:27` says that it returns the original file, and
`README.md:53` and 58 check that right after the upload. What does hold is
`CompleteBody`.

### Bounds, and why they are enough

- *Entries and batches.* A loop's batch has one entry or two, and what
  `Produce` adds may be the same item twice, two items or one that does not
  parse: this gives batches that overlap without being equal (read alone, then
  claimed together), and a batch with an entry of each kind. For
  `EventuallyAcked` fewer than `Amount` entries that do not parse matter: `Amount`
  of them at the head of the pending list can starve the rest if every claim
  finds them stale, which the clocks decide (see *Not modelled*).
- *Instances.* Loops differ only in how they get their entries. One instance has
  one of each; two instances let a claim overtake a claim.
- *Failures* (`MaxFaults`). Two failures let a retry fail for good, and let one
  failure hit the recovery from another. `worker_single` has one, which without
  a retry is enough for a write to fail for good, and four loops that overtake each
  other without any; more failures are left to `worker_batches` and to the
  theorems. Crashes count as failures. A rotation
  that fails needs one, and so does an entry that is written again; a download
  fails at any point without spending one (`DownloadAbort`).
- *Chunks* (`MaxChunks`). With two workers and channels of two, four chunks let
  one goroutine wait on a full channel when the one behind it fails: the flusher
  has one chunk, `items` two, and a worker holds the fourth; or both workers are
  gone, `jobs` has two, and the reader holds the fourth. (A flusher whose failure
  does not cancel the others is found by `Responds`.) Three chunks are a full
  batch and a rest.
- *Rotations.* Two chunks in pages of one give a cursor in the middle of the file,
  a chunk behind it, and a batch with an item of each. Two rotations are one that
  fails and one that resumes, and two failures let a write fail (or an entry be
  written late) in a run with a failed rotation. Overlapping rotations are checked
  on one chunk and without failures: an item of the upload and those of two calls
  make batches of two there as well, and liveness is what costs the time. Several
  overlapping chunks with failures are left to the theorems, which cover every
  property of the run but `RotationEnds`. Versions need no bound of their own: a
  call raises them by one at most.
- *Downloads.* Two chunks in pages of one give a page before and a page after a
  change; a rotation gives each chunk two versions, which arrive in either table
  first, and deletes the old ones. It rotates both chunks in one page, so that
  one chunk changes while the other one is read. With a failure the run takes too
  long, so that rows which come back late under a download are covered by the
  theorems only.
- *Symmetry.* The two chunks and the instances of `MCPendingWorker` and the
  workers of `MCUploadPipeline` are interchangeable. The sets are used in
  `worker_single` and `upload_tail`, which check no liveness.
- The specifications stop when the bounds are used up (a stream that is
  acknowledged, an answered request), so deadlock is not checked; that the
  goroutines do not wait for each other for ever is what `Responds` says.

### Fairness

`EventuallyAcked` assumes weak fairness of: each loop's next read or claim; the
next success or duplicate of each write (a database that works answers in the
end: `MaxFaults` is finite, so failures stop); the acknowledgement or the giving
up of a joined batch; time (`TimePasses`: a pending entry that nobody touches
becomes stale); and the restart of an instance (compose restarts it, or somebody
does). None of them is assumed of lost replies, errors or crashes. Loops and
goroutines are scheduled by the Go runtime, which starves none. The run does
without a second instance on purpose: what one instance leaves behind it finds
again itself.

`RotationEnds` assumes weak fairness of `Proceed(r)`, the next step of call `r`
that is not a failure from outside: its queries are answered or fail in the end,
and the goroutines between `produce` and the stream do not block each other for
ever, which is what `Responds` shows of the same pipeline. Nothing is assumed of
the worker: a rotation does not wait for it.

`Answers` assumes weak fairness of `StreamFile`: the server runs the goroutine of
a request and a query is answered or fails. `DownloadAbort` has no fairness, and
nothing is assumed of the worker or of rotations.

`Responds` assumes weak fairness of each goroutine's steps, of a successful
write while one is in progress, and of the end of the request body. The last is
needed (`io.ReadFull` has no deadline), and is what a client that closes its
connection or finishes its upload provides. That a write or a select may be
delayed for ever by the timer or by failures is not assumed away: `FlushTime`
and errors carry no fairness and the flusher still ends.

## 4. What is proved

For every set of chunks, instances and workers, every batch size and number of
attempts, and every bound on entries and failures (`PendingWorkerProofs`,
`UploadPipelineProofs`, `RotationProofs`, `RekeyProofs`, `CarefulProofs`,
`VersionProofs`, `DownloadProofs`; `RotationSteps` holds lemmas only):

| Theorem | Says |
|---|---|
| `TypeCorrect`, `UploadTypeCorrect`, `RotationTyped`, `DownloadTyped` | the type invariants, which include the retry budgets and `stale ⊆ pel ⊆ 1..delivered`; the last two if `FlushItem` is the set of all items |
| `AcknowledgedIsStored` | `[]AckedStoredOrSwallowed` |
| `ForeignStaysPending` | `[]ForeignNeverAcked` |
| `OneByOneStored` | `[]AckedStored`, if `Amount = 1` and items with the same primary key are equal |
| `OneByOneHandoff` | `Spec => HandoffSafety` under the same two assumptions: initial states map to initial states, and each action to `Accept`, `Persist`, `Release` or a stutter |
| `HandoffUnlessSwallowed` | `Spec /\ []NothingSwallowed => HandoffSafety`: the same for every batch size and all items, as long as no batch reports rows that are not there |
| `WorkerIsBuffer` | `Spec => BufferSafety`, for every batch size and all items |
| `ItemsClosedLast` | `[]NoSendOnClosed` |
| `CreatedIsComplete` | `[]CreatedComplete` |
| `AddedOnce` | `[]AddedOncePerAttempt` |
| `UploadKeepsContract` | `Spec => ContractKept`: the pipeline implements `UploadContract` |
| `LossesHaveCause` | `[]LossHasCause`, whether rotations overlap or not |
| `LatestArePaired` | `[]SettledPaired`, whether rotations overlap or not |
| `AnsweredRekeys` | `RekeyedPresent`, a property of steps, whether rotations overlap or not |
| `CarefulLoseBySwallow` | `[]LostBySwallowOnly`, if rotations do not overlap (`~Overlap`) |
| `OneByOneLosesNothing` | `[]NoChunkLost`, if rotations do not overlap and `Amount = 1` |
| `CarefulPairs` | if rotations do not overlap, `SettledPaired` without its exception for conflicts |
| `MadeOfPairs` | `MadeFromStored`, a property of steps, whether rotations overlap or not |
| `DownloadsAreComplete` | `[]CompleteBody`, whether rotations overlap or not |
| `DownloadsFailForAReason` | `[]FailsForAReason`, whether rotations overlap or not |
| `CarefulDownloads` | if rotations do not overlap, `FailsForAReason` without its exception for conflicts |

*The worker.* `AckedStoredOrSwallowed` is not inductive: the step that could
break it is `Ack`, and at that step nothing is known of the tables. The
strengthening `IInv` adds what links a batch in progress to them:
`SavedOrSwallowed` (a goroutine that returned nil has the rows of its batch in
its table, or they are in `swallowed`), `BatchParsed` (a batch holds items only,
which is why `Ack` leaves foreign entries alone) and `IdleReset` (between two
batches the goroutines are fresh, so that no "ok" of an old batch counts for a
new one). Rows are never removed in this specification and the stream only
grows, which makes every part stable under the actions of other loops. With
`Amount = 1` two more parts hold, `SingleBatch` and `NothingSwallowed`: the only
row that can break the primary key is then the entry's own, so nothing is ever
swallowed, and `AckedStored` and the refinement follow.

The assumption that items with the same primary key are equal is what uploads
guarantee (each chunk gets a fresh UUIDv7 and version 1). Two rotations of the
same chunk can break it; then the theorem does not apply, and it should not: with
two different items of one version `AckedStored` is false.

*The worker as the buffer.* `WorkerIsBuffer` needs neither of the two assumptions,
which matters, since rotations are where items share a primary key and the default
batch is large. The mapping turns entries into items, and the lemmas follow that
turn: an XADD accepts its item (`ProduceAccepts`), which becomes pending again if it
was acknowledged before; a read and the reply it may lose are not seen
(`ReadIsUnseen`, as a delivered entry is no more acknowledged than one that is not
delivered); a batch has at most `Amount` entries and so no more items (`BatchSmall`,
`BatchItems`); a COPY inserts items of the stream, whether its client sees it or not
(`CopyInserts`), and is a `Write` or a `Rewrite` (`SaveIsBufferStep`); a swallowed
unique violation makes the items of the whole batch saved, and is a `Duplicate`, or
`Repeated` if the batch has an item twice (`DuplicateIsSaved`); an XACK takes away
the items of which it was the last entry, all of them saved by `SavedOrSwallowed`
(`AckAcknowledges`). Retries, failures, cancellation, crashes and restarts change
none of the three.

*The upload.* `CreatedComplete` needs to know where each chunk is. `Conserved`
says: a chunk that was read, and is not in the stream, is held by the reader, in
`jobs`, held by a worker, in `items` or in the buffer, or somebody has an error
to return. `Stages` says that the stages end in order: `jobs` is closed before a
worker may return nil, `items` after the last worker, and the flusher returns
nil only with both empty. When all goroutines returned nil, no place is left.
`ItemsClosedLast` is a part of `Stages`.

`AddedOncePerAttempt` needs that a chunk is in one place only (`Apart`), that a
chunk which has not reached the flusher was never added (`Untouched`), and that
`added` and the failures of the write in progress go together (`Counted`): a
batch is added once more per attempt, and reset before anything else enters it.

`UploadKeepsContract` combines all of these. The reader's chunk is a new one by
`Apart` and `Untouched`; that a successful write takes its batch off the way, and
nothing else, needs that no chunk of the batch is also on its way to it. The steps
that drop chunks each leave an error behind (`LossIsWork`), and those that hand a
chunk on, whatever becomes of the channels, are stutters (`MoveIsStutter`). For the
answer, `Stages` tells that an error of a worker is one of the pool and the other way
round, and that a success leaves no place where a chunk could be. After the answer
no action is possible at all (`OverWithAnswer`): every goroutine has returned.

*Rotations.* `LossHasCause` is about some version of a chunk and is not inductive.
`Kept` is: every item `x` that was ever accepted is, in each table, still to be
written, or there, or followed by a newer row of its chunk, or the chunk has a
conflict, or is in `swallowed`. Writes keep it: of the items of a batch that was not
inserted, each has its row or a newer one, or puts its chunk into `swallowed`.
Deletions keep it, because the newest row of a chunk stays (`DeletionKeepsNewest`).
For the accepted item of the *greatest* version, "followed by a newer row" is
impossible (`GreatestIsKept`), so that this one item is in both tables or on its way
there, and it is what `SettledPaired` finds. That a greatest version exists
(`GreatestVersion`) needs that finitely many items were accepted, which is a part of
the invariant (`Items`) and rests on the assumption that a file has finitely many
chunks. The other part, `Sourced`, says that rows, data read and jobs are accepted
items. Nothing is assumed of `Overlap`, `Amount`, `PageSize` or the number of calls.

*Careful rotations.* With `~Overlap` no version of a chunk is made twice unless it is
in `swallowed` (`NoTwins`), and `LostBySwallowOnly` follows from `LossHasCause`. That
the next item of a call is new needs that the call works on the greatest version of
the chunk (`Top`). When it reads the latest data, the item of the greatest version is
in the table (`NewestIsRead`): by `GreatestIsKept` it is there or pending, and what
is pending belongs to chunks up to the call's cursor (`Frontier`), as nothing was
pending when it began and no other call runs (`Single`). Between the reading and the
flush a new item can only be one of another chunk, because a call has one job per
chunk and the chunks of its page lie behind those of its jobs (`InStages`).
`CarefulPairs` follows from `NoTwins` and `SettledPaired` in the same way. If
`Amount = 1` besides, a batch has one item, and what breaks its primary key is its
own row or that of a twin, of which there is none: `swallowed` stays empty
(`OneByOneLosesNothing`).

*What 200 means.* `RekeyedPresent` follows a call through its stages (`Whole`). What
it owes has data as long as it runs, since a deletion keeps the newest row
(`OwedPresent`); hence a page leaves out no owed chunk between two others
(`PageIsPrefix`), and an empty page means that none is left behind the cursor
(`EmptyPageIsEnd`); the data read are of the whole page, each has a job unless the call ends with "desync", and when the pipeline has
drained every job has become an item. Nothing is assumed of clients, batches or
failures.

*Downloads.* `CompleteBody` rests on the same two lemmas about pages, but with
chunks that appear while the download runs. `NoneLeftOut` says that a chunk which
was stored at the beginning still has data (`DataStay`), and is written, or in the
page, as soon as the download has come past it. A chunk that appears behind the
cursor is missed, which is why the property speaks of `stored`, and why
`WholeFile` is false. The order is `InOrder`: what was written lies before the
page. Nothing is assumed of rotations.

*Versions.* `MadeFromStored` and `FailsForAReason` need to know in which order
versions come into being (`VersionProofs`). A call makes one key per chunk (`MadeOnce`), so that a job whose
data and key decrypt is one item, and what a call has read is in its table or
followed by a newer row there (`ReadDone`). Hence a version is made only when the
item it is made of has reached both tables, which is `MadeFromStored`; and when the
versions below it have: `Below`, with `Dense`, which says that no number is left
out.

*Failing downloads.* For a chunk that was settled when the download began, let `p`
be its latest item then. `GoodRead` says that, until a rotation deletes a row of
the chunk or a conflict appears, each table has every item from `p` on except
those newer than all it has, and that whatever the download holds for the chunk
is a row of a version from `p` on. So the smaller of two versions read is a version
in both tables (`OldRow`), and two rows of one version are one item
(`GoodDecrypts`). Without overlap only chunks in `swallowed` can have conflicts
(`CarefulDownloads`).

Only model-checked: liveness (`EventuallyAcked`, `Responds`, `RotationEnds`,
`Answers`), which is out of the prover's reach. Every safety property that a
passing run checks is a theorem, the refinements included. Not stated formally is
that a worker whose rows a rotation deletes is still the buffer (see *WriteBehind*
in section 2).

## 5. Not modelled, and why

- The values of AES keys, nonces and ciphertexts; the HTTP and JSON around the
  handlers; logging, configuration and wiring. `config.go` does not validate:
  `CIPHER_WORKERS=0` and `CIPHER_CHUNK_SIZE=0` are excluded by assumptions and
  listed as hazards.
- Consumer names: XREADGROUP `>`, XAUTOCLAIM and XACK do not look at them.
  XAUTOCLAIM scans at most `10 * COUNT` pending entries; the checked instances
  have fewer.
- Pauses (`Backoff`, `loopBackoff`, `Block`, `ClaimInterval`): a pause only
  delays a step, and a step may be delayed for ever unless fairness says
  otherwise.
- The order of chunks within `items` and batches: the workers before the flusher
  finish in any order, and a download sorts by UUID. (`jobs`, which the reader
  alone fills, is first in, first out: `FirstJob`.)
- go-redis's own retries: a pipeline it sends twice adds entries twice, which
  `PendingWorker` has anyway (`Produce` may add any item again), but the bound
  of `AddedOncePerAttempt` counts the attempts of `retryDo` only.
- Redis losing its data (the stream comes back with the next XADD, the group does
  not, and XREADGROUP fails with NOGROUP until a restart) and the clocks behind
  `claimLoop`: see the plan. The cursor's time to live is modelled (`Expire`), its
  length is not.
- The values of the pauses in `loopBackoff`: a computation on one number, which
  a unit test covers. Its effect, that a loop pauses, is in the models.

## 6. Plan

Done: the write-behind buffer with its two abstract specifications, the upload
with its contract, rotations, downloads, and proofs of the safety properties and
the refinements. Next, in this order:

1. **Redis without memory**: loss of the stream (`NOGROUP`) as an action of
   `PendingStore`, and a timed model of `claimLoop` for starvation by entries that
   do not parse.
2. **The buffer with deletions**: `PendingWorker` with `DeleteOld` as a step of its
   environment, so that the refinement covers what rotations do to its tables, and
   an upload contract that hands over to the buffer item by item.
