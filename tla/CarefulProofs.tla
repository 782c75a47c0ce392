--------------------------- MODULE CarefulProofs ---------------------------
(***************************************************************************)
(* What rotations guarantee to clients that start one only when the one    *)
(* before has ended and its items are stored.  They never make the same    *)
(* version of a chunk twice, unless an item of the chunk was swallowed.    *)
(***************************************************************************)
EXTENDS RotationSteps

-----------------------------------------------------------------------------
(***************************************************************************)
(* One rotation at a time, with nothing pending when it starts.            *)
(***************************************************************************)
Single == \A q, r \in Rotation : Running(q) /\ Running(r) => q = r

LEMMA RunningEffect ==
    ASSUME Inv, CallsOK, [Next]_vars, NEW r \in Rotation, Running(r)'
    PROVE  Running(r) \/ Start(r)
<1>0. phase \in [Rotation -> Phase]
  BY DEF CallsOK
<1>1. CASE Local(r)' = Local(r)
  BY <1>1 DEF Local, Running
<1>2. CASE Produce(r) \/ SaveCursorError(r) \/ Drained(r)
  BY <1>2 DEF Produce, ReadPage, ReadData, ReadKeys, SaveCursor, SaveCursorError, Drained, Running, Ended
<1>3. CASE DeleteOldVersions(r)
  BY <1>3 DEF DeleteOldVersions, ReadOldPage, DeleteOldData, DeleteOldKeys, Running, Ended
<1>4. CASE DeleteCursor(r) \/ DeleteCursorError(r) \/ Abort(r) \/ FailedChunk(r)
  BY <1>0, <1>4 DEF DeleteCursor, DeleteCursorError, Abort, FailedChunk, Fail, Return, Goto, Running, Ended
<1>5. CASE \E j \in jobs[r] : Flush(r, j)
  BY <1>5 DEF Flush, Running
<1> QED
  BY <1>1, <1>2, <1>3, <1>4, <1>5, LocalEffect DEF Acts

LEMMA SingleStep ==
    ASSUME ~Overlap, Inv, CallsOK, Single, [Next]_vars
    PROVE  Single'
<1> SUFFICES ASSUME NEW q \in Rotation, NEW r \in Rotation, Running(q)', Running(r)' PROVE q = r
  BY DEF Single
<1>1. ASSUME NEW s \in Rotation, Start(s), NEW t \in Rotation, Running(t)' PROVE t = s
  BY <1>1 DEF Start, Goto, Running, CallsOK
<1>2. Running(q) \/ Start(q)
  BY RunningEffect
<1>3. Running(r) \/ Start(r)
  BY RunningEffect
<1> QED
  BY <1>1, <1>2, <1>3 DEF Single

\* A rotation that is still producing has jobs, or added items, for chunks up
\* to its cursor only, and nothing else is pending.
Frontier == \A r \in Rotation : phase[r] \in Producing => \A x \in pending : x.uuid <= at[r]

LEMMA FrontierStep ==
    ASSUME ~Overlap, Inv, CallsOK, InStages, Single, Frontier, [Next]_vars
    PROVE  Frontier'
<1> SUFFICES ASSUME NEW r \in Rotation, phase'[r] \in Producing, NEW x \in pending'
             PROVE  x.uuid <= at'[r]
  BY DEF Frontier
<1>0. /\ phase \in [Rotation -> Phase] /\ at \in [Rotation -> Chunk \cup {Nil}]
  BY DEF CallsOK
<1>1. ASSUME NEW q \in Rotation, NEW j \in jobs[q], Flush(q, j) PROVE x.uuid <= at'[r]
  <2>1. phase[q] \in Producing /\ j[1].uuid <= at[q]
    BY DEF InStages, Staged
  <2>2. phase' = phase /\ at' = at /\ pending' = pending \cup {NewItem(q, j)}
    BY <1>1 DEF Flush, Accept
  <2>3. q = r
    BY <2>1, <2>2 DEF Single, Running, Ended, Producing
  <2>4. NewItem(q, j).uuid = j[1].uuid
    BY DEF NewItem
  <2> QED
    BY <2>1, <2>2, <2>3, <2>4 DEF Frontier
<1>2. CASE pending' \subseteq pending
  <2>1. CASE phase[r] \in Producing /\ at'[r] = at[r]
    BY <1>2, <2>1 DEF Frontier
  <2>2. CASE Start(r)
    BY <2>2 DEF Start, bufferVars
  <2>3. CASE ReadKeys(r)
    <3>1. phase[r] = "keys" /\ at'[r] = LastOf(page[r])
      BY <1>0, <2>3 DEF ReadKeys
    <3>2. page[r] # {} /\ page[r] \in SUBSET Chunk /\ \A u \in page[r] : u > at[r]
      BY <3>1 DEF CallsOK, Paged
    <3>3. LastOf(page[r]) \in page[r]
      BY <3>2, LastOfPage
    <3>4. LastOf(page[r]) \in Nat /\ at[r] \in Nat /\ at[r] < LastOf(page[r])
      <4>1. at[r] \in Chunk \cup {Nil} /\ LastOf(page[r]) \in Chunk \cup {Nil}
        BY <1>0, <3>2, <3>3
      <4> QED
        BY <3>2, <3>3, <4>1, CursorIsNumber
    <3>5. x \in pending /\ x.uuid <= at[r]
      BY <1>2, <3>1 DEF Frontier, Producing
    <3>6. x.uuid \in Nat
      BY <3>5, ChunkAssumption DEF Inv, Sourced, Items
    <3> QED
      BY <3>1, <3>4, <3>5, <3>6
  <2>4. CASE ReadPage(r) \/ ReadData(r) \/ SaveCursor(r) \/ SaveCursorError(r)
    BY <2>1, <2>4 DEF ReadPage, ReadData, SaveCursor, SaveCursorError, Producing
  <2>5. CASE Drained(r) \/ DeleteOldVersions(r) \/ DeleteCursor(r) \/ DeleteCursorError(r)
             \/ Abort(r) \/ FailedChunk(r)
    BY <1>0, <2>5 DEF Drained, DeleteOldVersions, ReadOldPage, DeleteOldData, DeleteOldKeys,
       DeleteCursor, DeleteCursorError, Abort, FailedChunk, Fail, Return, Goto, Producing
  <2>6. CASE Local(r)' = Local(r)
    BY <2>1, <2>6 DEF Local
  <2> QED
    BY <1>1, <2>2, <2>3, <2>4, <2>5, <2>6, LocalEffect DEF Acts, Produce
<1> QED
  BY <1>1, <1>2, AcceptedEffect

\* No two items have the same primary key, of chunks that are not swallowed: there
\* is no conflict.
NoTwins == \A x, y \in accepted : SamePrimaryKey(x, y) => x = y \/ x.uuid \in swallowed

LEMMA NoConflict == NoTwins => \A c \in Chunk : Conflict(c) => c \in swallowed
  BY DEF NoTwins, Conflict

\* What was swallowed stays so.
LEMMA SwallowedGrows == ASSUME [Next]_vars PROVE swallowed \subseteq swallowed'
<1>1. ASSUME Worker PROVE swallowed \subseteq swallowed'
  BY <1>1, WorkerEffect
<1>2. ASSUME NEW r \in Rotation, Acts(r) PROVE swallowed' = swallowed
  BY <1>2 DEF Acts, Start, Produce, ReadPage, ReadData, ReadKeys, SaveCursor, SaveCursorError,
     Drained, DeleteCursor, DeleteCursorError, Abort, FailedChunk, Fail, DeleteOldVersions,
     ReadOldPage, DeleteOldData, DeleteOldKeys, Flush
<1>3. CASE Expire \/ UNCHANGED vars
  BY <1>3 DEF Expire, vars
<1> QED
  BY <1>1, <1>2, <1>3 DEF Next, Acts

\* A rotation works on the greatest version of a chunk.
Top == \A r \in Rotation : \A y \in accepted : y.uuid \notin swallowed =>
    /\ \A d \in chunks[r] : d.uuid = y.uuid => y.version <= d.version
    /\ \A j \in jobs[r] : j[1].uuid = y.uuid => y.version <= j[1].version

LEMMA NoTwinsStep ==
    ASSUME Inv, NoTwins, Top, [Next]_vars
    PROVE  NoTwins'
<1>1. CASE accepted' = accepted
  BY <1>1, SwallowedGrows DEF NoTwins
<1>2. ASSUME NEW r \in Rotation, NEW j \in jobs[r], Flush(r, j) PROVE NoTwins'
  <2>1. accepted' = accepted \cup {NewItem(r, j)} /\ swallowed' = swallowed
    BY <1>2 DEF Flush, Accept
  <2>2. j[1] \in accepted
    BY DEF Inv, Sourced
  <2>3. ASSUME NEW y \in accepted, y.uuid \notin swallowed
        PROVE  ~SamePrimaryKey(NewItem(r, j), y) /\ ~SamePrimaryKey(y, NewItem(r, j))
    <3>1. y.version \in Nat /\ j[1].version \in Nat
      BY <2>2 DEF Inv, Items
    <3>2. j[1].uuid = y.uuid => y.version <= j[1].version
      BY <2>3 DEF Top
    <3> QED
      BY <3>1, <3>2 DEF SamePrimaryKey, NewItem
  <2>4. \A x, y : SamePrimaryKey(x, y) => x.uuid = y.uuid
    BY DEF SamePrimaryKey
  <2> QED
    BY <2>1, <2>3, <2>4 DEF NoTwins
<1> QED
  BY <1>1, <1>2, AcceptedEffect

\* The latest data that a rotation reads are of the greatest version.
LEMMA NewestIsRead ==
    ASSUME Inv, Kept, NoTwins, Frontier, NEW r \in Rotation, phase[r] \in Producing,
           NEW S, NEW d \in Latest("data", S), d.uuid > at[r], at[r] \in Nat,
           NEW y \in accepted, y.uuid = d.uuid, y.uuid \notin swallowed
    PROVE  y.version <= d.version
<1>1. /\ d \in rows["data"] /\ d \in accepted /\ Newer("data", d) = {}
      /\ d.uuid \in Chunk /\ d.version \in Nat /\ y.version \in Nat
  BY DEF Latest, Table, Inv, Sourced, Items
<1>2. PICK x \in accepted :
          /\ x.uuid = d.uuid
          /\ \A z \in accepted : z.uuid = d.uuid /\ z # x => z.version < x.version
          /\ \A t \in Table : x \in rows[t] \/ x \in Due(t)
  BY <1>1, GreatestIsKept, NoConflict
<1>3. x.version \in Nat
  BY DEF Inv, Items
<1>4. x \notin pending
  <2>1. d.uuid \in Nat
    BY <1>1, ChunkAssumption
  <2> QED
    BY <1>2, <2>1 DEF Frontier
<1>5. x \in rows["data"]
  BY <1>2, <1>4 DEF Table, Due
<1>6. ~(x.version > d.version)
  BY <1>1, <1>2, <1>5 DEF Newer
<1>7. y.version <= x.version
  BY <1>1, <1>2, <1>3
<1> QED
  BY <1>1, <1>3, <1>6, <1>7

LEMMA TopStep ==
    ASSUME Inv, Kept, CallsOK, InStages, Single, NoTwins, Frontier, Top, [Next]_vars
    PROVE  Top'
<1> DEFINE TopOf(r) == \A y \in accepted : y.uuid \notin swallowed =>
               /\ \A d \in chunks[r] : d.uuid = y.uuid => y.version <= d.version
               /\ \A j \in jobs[r] : j[1].uuid = y.uuid => y.version <= j[1].version
<1> SUFFICES ASSUME NEW r \in Rotation PROVE TopOf(r)'
  BY DEF Top
<1>0. /\ phase \in [Rotation -> Phase] /\ at[r] \in Chunk \cup {Nil} /\ page[r] \in SUBSET Chunk
      /\ chunks \in [Rotation -> SUBSET accepted] /\ jobs \in [Rotation -> SUBSET (accepted \X accepted)]
      /\ at[r] \in Nat /\ TopOf(r)
  BY CursorIsNumber DEF Inv, Sourced, CallsOK, Top
<1>s. swallowed \subseteq swallowed'
  BY SwallowedGrows
<1>1. ASSUME NEW q \in Rotation, NEW j \in jobs[q], Flush(q, j) PROVE TopOf(r)'
  <2>1. phase[q] \in Producing /\ j[1].uuid <= at[q] /\ \A k \in jobs[q] : k # j => k[1].uuid # j[1].uuid
    BY DEF InStages, Staged
  <2>2. /\ phase' = phase /\ chunks' = chunks /\ accepted' = accepted \cup {NewItem(q, j)}
        /\ jobs' = [jobs EXCEPT ![q] = @ \ {j}] /\ swallowed' = swallowed
    BY <1>1 DEF Flush, Accept
  <2>3. NewItem(q, j).uuid = j[1].uuid
    BY DEF NewItem
  <2>4. ASSUME NEW d \in chunks[r] PROVE d.uuid # j[1].uuid
    <3>1. phase[r] = "keys" /\ d.uuid \in page[r]
      BY DEF InStages, Staged
    <3>2. q = r
      BY <2>1, <3>1 DEF Single, Running, Ended, Producing
    <3>3. d.uuid > at[r] /\ d.uuid \in Nat
      BY <1>0, <3>1, ChunkAssumption DEF CallsOK, Paged
    <3> QED
      BY <1>0, <2>1, <3>2, <3>3
  <2>5. ASSUME NEW k \in jobs'[r] PROVE k \in jobs[r] /\ k[1].uuid # j[1].uuid
    <3>1. k \in jobs[r] /\ (r = q => k # j)
      BY <1>0, <2>2
    <3>2. phase[r] \in Producing
      BY <3>1 DEF InStages, Staged
    <3>3. q = r
      BY <2>1, <3>2 DEF Single, Running, Ended, Producing
    <3> QED
      BY <2>1, <3>1, <3>3
  <2> QED
    BY <1>0, <2>2, <2>3, <2>4, <2>5
<1>2. CASE accepted' = accepted
  <2>1. CASE chunks'[r] \subseteq chunks[r] /\ jobs'[r] \subseteq jobs[r]
    BY <1>0, <1>2, <1>s, <2>1
  <2>2. CASE ReadData(r)
    <3>1. phase[r] = "data" /\ chunks'[r] = Latest("data", page[r]) /\ jobs' = jobs
      BY <1>0, <2>2 DEF ReadData
    <3>2. ASSUME NEW d \in chunks'[r], NEW y \in accepted, d.uuid = y.uuid, y.uuid \notin swallowed
          PROVE  y.version <= d.version
      <4>1. d \in Latest("data", page[r]) /\ d.uuid > at[r]
        BY <3>1 DEF Latest, CallsOK, Paged
      <4> QED
        BY <1>0, <3>1, <3>2, <4>1, NewestIsRead DEF Producing
    <3> QED
      BY <1>0, <1>2, <1>s, <3>1, <3>2
  <2>3. CASE ReadKeys(r)
    <3>1. chunks'[r] = {}
      BY <1>0, <2>3 DEF ReadKeys
    <3>2. \A j \in jobs'[r] : j \in jobs[r] \/ j[1] \in chunks[r]
      <4>1. ASSUME NEW D \in SUBSET chunks[r], NEW j \in JobsOf(D, Latest("keys", page[r]))
            PROVE  j[1] \in chunks[r]
        BY DEF JobsOf
      <4> QED
        BY <4>1, JobsEffect
    <3> QED
      BY <1>0, <1>2, <1>s, <3>1, <3>2
  <2>4. CASE \/ Start(r) \/ ReadPage(r) \/ SaveCursor(r) \/ SaveCursorError(r) \/ Drained(r)
             \/ DeleteOldVersions(r)
    BY <2>1, <2>4 DEF Start, ReadPage, SaveCursor, SaveCursorError, Drained, DeleteOldVersions,
       ReadOldPage, DeleteOldData, DeleteOldKeys
  <2>5. CASE DeleteCursor(r) \/ DeleteCursorError(r) \/ Abort(r) \/ FailedChunk(r)
    <3>1. chunks'[r] = {} /\ jobs'[r] \subseteq jobs[r]
      BY <1>0, <2>5 DEF DeleteCursor, DeleteCursorError, Abort, FailedChunk, Fail, Return
    <3> QED
      BY <2>1, <3>1
  <2>6. CASE Local(r)' = Local(r)
    BY <2>1, <2>6 DEF Local
  <2> QED
    BY <1>1, <2>2, <2>3, <2>4, <2>5, <2>6, LocalEffect DEF Acts, Produce
<1> QED
  BY <1>1, <1>2, AcceptedEffect

Careful == Inv /\ Kept /\ CallsOK /\ JobsPaired /\ Keyed /\ InStages /\ Single /\ NoTwins /\ Frontier /\ Top

LEMMA InitCareful == Init => Careful
<1> SUFFICES ASSUME Init PROVE Careful
  OBVIOUS
<1>1. Inv /\ Kept /\ CallsOK /\ JobsPaired
  BY InitInv, InitKept, InitCalls, InitBuffer
<1>2. Keyed /\ InStages /\ Single /\ NoTwins /\ Frontier /\ Top
  BY DEF Init, TablesInit, Keyed, InStages, Staged, Single, Running, Ended, NoTwins, SamePrimaryKey,
     Upload, Frontier, Producing, Top
<1> QED
  BY <1>1, <1>2 DEF Careful

LEMMA CarefulStep == ASSUME ~Overlap, Careful, [Next]_vars PROVE Careful'
  BY InvStep, KeptStep, CallsStep, JobsPairedStep, KeyedStep, InStagesStep, SingleStep, NoTwinsStep,
     FrontierStep, TopStep DEF Careful

LEMMA CarefulInvariance == ASSUME ~Overlap PROVE Spec => []Careful
  BY InitCareful, CarefulStep, PTL DEF Spec

\* Clients that start a rotation when the one before has ended and its items are
\* stored lose a chunk only if an item of it was counted as saved without a row:
\* because another item of its batch broke the primary key.
THEOREM CarefulLoseBySwallow ==
    ASSUME ~Overlap
    PROVE  Spec => []LostBySwallowOnly
<1>1. Careful => LostBySwallowOnly
  BY KeptRecoverable, NoConflict DEF Careful, LossHasCause, LostBySwallowOnly
<1> QED
  BY <1>1, CarefulInvariance, PTL

\* For such clients, when the buffer has nothing left to write, the latest data
\* and the latest key of every other chunk are one item.
PairedOrSwallowed ==
    pending = {} => \A c \in Chunk :
        \/ c \in swallowed
        \/ Latest("data", {c}) # {} /\ Latest("data", {c}) = Latest("keys", {c})

LEMMA CarefulPaired == Careful => PairedOrSwallowed
  BY KeptPaired, NoConflict DEF Careful, SettledPaired, PairedOrSwallowed

THEOREM CarefulPairs ==
    ASSUME ~Overlap
    PROVE  Spec => []PairedOrSwallowed
  BY CarefulPaired, CarefulInvariance, PTL

-----------------------------------------------------------------------------
(***************************************************************************)
(* Batches of one item (PENDING_AMOUNT=1).                                 *)
(***************************************************************************)
NothingSwallowed == swallowed = {}

\* A batch of one item breaks the primary key only if its own row is there.
LEMMA SmallBatch ==
    ASSUME Amount = 1, Inv, NEW X, Batch(X)
    PROVE  \A x, y \in X : x = y
<1>1. IsFiniteSet(X)
  BY FS_Subset DEF Batch, Inv, Items
<1>2. Cardinality(X) = 0 \/ Cardinality(X) = 1
  BY <1>1, FS_CardinalityType DEF Batch
<1> QED
  BY <1>1, <1>2, FS_EmptySet, FS_Singleton

LEMMA OneByOneStep ==
    ASSUME Amount = 1, Inv, NoTwins, NothingSwallowed, [Next]_vars
    PROVE  NothingSwallowed'
<1> USE DEF NothingSwallowed
<1>1. ASSUME NEW t \in Table, NEW X, saved' = saved \cup ({t} \X X),
             \A x \in X : x \in rows'[t] /\ x.version \in Nat
      PROVE  SwallowedNow = {}
  <2>1. ASSUME NEW w \in saved' \ saved
        PROVE  \E d \in rows'[w[1]] : d.uuid = w[2].uuid /\ ~(d.version < w[2].version)
    <3>1. w[1] = t /\ w[2] \in X
      BY <1>1
    <3> QED
      BY <1>1, <3>1
  <2> QED
    BY <2>1 DEF SwallowedNow
<1>2. ASSUME NEW t \in Table, NEW X, Save(t, X) PROVE SwallowedNow = {}
  <2>1. X \subseteq accepted /\ Batch(X) /\ \A x \in X : x.version \in Nat
    BY <1>2 DEF Save, Batch, Inv, Items
  <2>2. rows \in [Table -> SUBSET accepted]
    BY DEF Inv, Sourced
  <2>3. CASE Insert(t, X)
    <3>1. rows' = [rows EXCEPT ![t] = @ \cup X] /\ saved' = saved \cup ({t} \X X)
      BY <2>3, InsertEffect DEF InsertRows
    <3>2. X \subseteq rows'[t]
      BY <2>2, <3>1
    <3> QED
      BY <1>1, <2>1, <3>1, <3>2
  <2>4. CASE Duplicate(t, X)
    <3> DEFINE b == [x \in X |-> x]
    <3>1. DOMAIN b = X /\ \A x \in X : b[x] = x
      OBVIOUS
    <3>2. UniqueViolation(t, b)
      BY <2>4 DEF Duplicate
    <3> HIDE DEF b
    <3>3. \A x, y \in X : x = y
      BY <2>1, SmallBatch
    <3>4. PICK x \in X, d \in rows[t] : SamePrimaryKey(x, d)
      BY <3>1, <3>2, <3>3 DEF UniqueViolation
    <3>5. x = d
      BY <2>1, <2>2, <3>4 DEF NoTwins
    <3>6. rows' = rows /\ saved' = saved \cup ({t} \X X)
      BY <2>4 DEF Duplicate, Swallow, ReportSaved
    <3>7. \A y \in X : y \in rows'[t]
      BY <3>3, <3>5, <3>6
    <3> QED
      BY <1>1, <2>1, <3>6, <3>7
  <2> QED
    BY <1>2, <2>3, <2>4 DEF Save
<1>3. ASSUME NEW t \in Table, NEW X \in SUBSET accepted, Cardinality(X) < Amount PROVE ~Swallow(t, X)
  <2>1. IsFiniteSet(X)
    BY FS_Subset DEF Inv, Items
  <2>2. Cardinality(X) = 0
    BY <1>3, <2>1, FS_CardinalityType
  <2>3. X = {}
    BY <2>1, <2>2, FS_EmptySet
  <2> QED
    BY <2>3 DEF Swallow
<1>4. Acknowledge => SwallowedNow = {}
  BY DEF Acknowledge, Ack, SwallowedNow
<1>5. ASSUME Worker PROVE NothingSwallowed'
  <2>1. SwallowedNow = {}
    BY <1>2, <1>3, <1>4, <1>5 DEF Worker, Write, Rewrite, Repeated
  <2> QED
    BY <1>5, <2>1 DEF Worker
<1>6. ASSUME NEW r \in Rotation, Acts(r) PROVE NothingSwallowed'
  BY <1>6 DEF Acts, Start, Produce, ReadPage, ReadData, ReadKeys, SaveCursor, SaveCursorError,
     Drained, DeleteCursor, DeleteCursorError, Abort, FailedChunk, Fail, DeleteOldVersions,
     ReadOldPage, DeleteOldData, DeleteOldKeys, Flush
<1>7. CASE Expire \/ UNCHANGED vars
  BY <1>7 DEF Expire, vars
<1> QED
  BY <1>5, <1>6, <1>7 DEF Next, Acts

LEMMA OneByOneInvariance ==
    ASSUME ~Overlap, Amount = 1
    PROVE  Spec => [](Careful /\ NothingSwallowed)
<1>1. Init => Careful /\ NothingSwallowed
  BY InitCareful DEF Init, NothingSwallowed
<1>2. Careful /\ NothingSwallowed /\ [Next]_vars => (Careful /\ NothingSwallowed)'
  BY CarefulStep, OneByOneStep DEF Careful
<1> QED
  BY <1>1, <1>2, PTL DEF Spec

\* With batches of one item, and for such clients, no chunk can be lost, whatever
\* fails; with larger batches one can, without any conflict.
THEOREM OneByOneLosesNothing ==
    ASSUME ~Overlap, Amount = 1
    PROVE  Spec => []NoChunkLost
<1>1. Careful /\ NothingSwallowed => NoChunkLost
  BY KeptRecoverable, NoConflict
     DEF Careful, LossHasCause, NothingSwallowed, NoChunkLost
<1> QED
  BY <1>1, OneByOneInvariance, PTL
=============================================================================
