--------------------------- MODULE RotationSteps ---------------------------
(***************************************************************************)
(* What a step of a rotation does to the tables and to its own variables,  *)
(* and what pages leave out; whatever overlaps and whatever fails.         *)
(***************************************************************************)
EXTENDS RotationProofs

-----------------------------------------------------------------------------
\* UUIDs and cursors are numbers.
LEMMA CursorIsNumber == ASSUME NEW u \in Chunk \cup {Nil} PROVE u \in Nat
  BY ChunkAssumption DEF Nil

\* The effect of a step on the tables, on what was accepted, on one call.
LEMMA TablesEffect ==
    ASSUME Inv, [Next]_vars
    PROVE  \/ rows' = rows
           \/ /\ accepted' = accepted
              /\ \E t \in Table :
                    \/ \E X \in SUBSET accepted :
                          /\ InsertRows(t, X)
                          /\ \A x \in X, y \in rows[t] : ~SamePrimaryKey(x, y)
                          /\ \A x, y \in X : SamePrimaryKey(x, y) => x = y
                    \/ \E r \in Rotation : DeleteOld(t, page[r])
<1>1. ASSUME Worker
      PROVE  \/ rows' = rows
             \/ /\ accepted' = accepted
                /\ \E t \in Table : \E X \in SUBSET accepted :
                      /\ InsertRows(t, X)
                      /\ \A x \in X, y \in rows[t] : ~SamePrimaryKey(x, y)
                      /\ \A x, y \in X : SamePrimaryKey(x, y) => x = y
  BY <1>1, WorkerEffect, InsertEffect DEF Insert, ReportSaved, Swallow, Ack
<1>2. ASSUME NEW r \in Rotation, DeleteOldVersions(r)
      PROVE  \/ rows' = rows
             \/ accepted' = accepted /\ \E t \in Table : DeleteOld(t, page[r])
  BY <1>2 DEF DeleteOldVersions, ReadOldPage, DeleteOldData, DeleteOldKeys, bufferVars, Table
<1>3. ASSUME NEW r \in Rotation,
             \/ Start(r) \/ Produce(r) \/ SaveCursorError(r) \/ Drained(r) \/ DeleteCursor(r)
             \/ DeleteCursorError(r) \/ Abort(r) \/ FailedChunk(r)
             \/ \E j \in jobs[r] : Flush(r, j)
      PROVE  rows' = rows
  BY <1>3 DEF Start, Produce, ReadPage, ReadData, ReadKeys, SaveCursor, SaveCursorError, Drained,
     DeleteCursor, DeleteCursorError, Abort, FailedChunk, Fail, Flush, Accept
<1>4. CASE Expire \/ UNCHANGED vars
  BY <1>4 DEF Expire, vars
<1> QED
  BY <1>1, <1>2, <1>3, <1>4 DEF Next

LEMMA AcceptedEffect ==
    ASSUME [Next]_vars
    PROVE  \/ accepted' = accepted /\ pending' \subseteq pending
           \/ \E r \in Rotation : \E j \in jobs[r] : Flush(r, j)
<1>1. ASSUME Worker PROVE accepted' = accepted /\ pending' \subseteq pending
  BY <1>1, WorkerAccepts
<1>2. ASSUME NEW r \in Rotation,
             \/ Start(r) \/ Produce(r) \/ SaveCursorError(r) \/ Drained(r) \/ DeleteCursor(r)
             \/ DeleteCursorError(r) \/ Abort(r) \/ FailedChunk(r) \/ DeleteOldVersions(r)
      PROVE  accepted' = accepted /\ pending' = pending
  BY <1>2 DEF Start, Produce, ReadPage, ReadData, ReadKeys, SaveCursor, SaveCursorError, Drained,
     DeleteCursor, DeleteCursorError, Abort, FailedChunk, Fail, DeleteOldVersions,
     ReadOldPage, DeleteOldData, DeleteOldKeys, bufferVars
<1>3. CASE Expire \/ UNCHANGED vars
  BY <1>3 DEF Expire, vars, bufferVars
<1> QED
  BY <1>1, <1>2, <1>3 DEF Next

\* What call r keeps to itself.
Local(r) == <<phase[r], at[r], page[r], chunks[r], jobs[r], owed[r]>>

Acts(r) ==
    \/ Start(r) \/ Produce(r) \/ SaveCursorError(r)
    \/ \E j \in jobs[r] : Flush(r, j)
    \/ Drained(r) \/ DeleteOldVersions(r)
    \/ DeleteCursor(r) \/ DeleteCursorError(r)
    \/ Abort(r) \/ FailedChunk(r)

\* A call is changed by its own steps only.
LEMMA LocalEffect ==
    ASSUME Inv, CallsOK, [Next]_vars, NEW r \in Rotation
    PROVE  Acts(r) \/ Local(r)' = Local(r)
<1> USE DEF Local
<1>1. ASSUME NEW q \in Rotation, Acts(q), q # r PROVE Local(r)' = Local(r)
  <2>0. /\ \E V : phase \in [Rotation -> V]
        /\ \E V : at \in [Rotation -> V]
        /\ \E V : page \in [Rotation -> V]
        /\ \E V : chunks \in [Rotation -> V]
        /\ \E V : jobs \in [Rotation -> V]
        /\ \E V : owed \in [Rotation -> V]
    BY DEF CallsOK, Inv, Sourced
  <2> USE DEF Goto, Return
  <2>1. CASE Start(q) \/ Drained(q) \/ SaveCursorError(q)
    BY <1>1, <2>0, <2>1 DEF Start, Drained, SaveCursorError
  <2>2. CASE Produce(q)
    <3>1. CASE ReadPage(q) \/ ReadData(q) \/ SaveCursor(q)
      BY <1>1, <2>0, <3>1 DEF ReadPage, ReadData, SaveCursor
    <3>2. CASE ReadKeys(q)
      BY <1>1, <2>0, <3>2 DEF ReadKeys
    <3> QED
      BY <2>2, <3>1, <3>2 DEF Produce
  <2>3. CASE \E j \in jobs[q] : Flush(q, j)
    BY <1>1, <2>0, <2>3 DEF Flush
  <2>4. CASE DeleteOldVersions(q)
    BY <1>1, <2>0, <2>4 DEF DeleteOldVersions, ReadOldPage, DeleteOldData, DeleteOldKeys
  <2>5. CASE DeleteCursor(q) \/ DeleteCursorError(q)
    BY <1>1, <2>0, <2>5 DEF DeleteCursor, DeleteCursorError
  <2>6. CASE Abort(q) \/ FailedChunk(q)
    BY <1>1, <2>0, <2>6 DEF Abort, FailedChunk, Fail
  <2> QED
    BY <1>1, <2>1, <2>2, <2>3, <2>4, <2>5, <2>6 DEF Acts
<1>2. CASE Worker \/ Expire \/ UNCHANGED vars
  BY <1>2 DEF Worker, Expire, vars, rotationVars
<1> QED
  BY <1>1, <1>2 DEF Next, Acts

-----------------------------------------------------------------------------
\* The primary key holds, whatever overlaps.
Keyed == \A t \in Table : \A x, y \in rows[t] : SamePrimaryKey(x, y) => x = y

LEMMA KeyedStep == Inv /\ Keyed /\ [Next]_vars => Keyed'
<1> SUFFICES ASSUME Inv, Keyed, [Next]_vars PROVE Keyed'
  OBVIOUS
<1> USE DEF Keyed
<1>0. rows \in [Table -> SUBSET accepted]
  BY DEF Inv, Sourced
<1>1. ASSUME NEW t \in Table, NEW X \in SUBSET accepted, InsertRows(t, X),
             \A x \in X, y \in rows[t] : ~SamePrimaryKey(x, y),
             \A x, y \in X : SamePrimaryKey(x, y) => x = y
      PROVE  Keyed'
  <2>1. \A s \in Table : rows'[s] = IF s = t THEN rows[t] \cup X ELSE rows[s]
    BY <1>0, <1>1 DEF InsertRows
  <2>2. \A y, z : SamePrimaryKey(y, z) => SamePrimaryKey(z, y)
    BY DEF SamePrimaryKey
  <2> QED
    BY <1>1, <2>1, <2>2
<1>2. ASSUME NEW t \in Table, NEW ids, DeleteOld(t, ids) PROVE Keyed'
  BY <1>0, <1>2 DEF DeleteOld
<1> QED
  BY <1>1, <1>2, TablesEffect

\* The latest row of a chunk is one row.
LEMMA LatestIsOne ==
    ASSUME Inv, Keyed, NEW t \in Table, NEW S,
           NEW x \in Latest(t, S), NEW y \in Latest(t, S), x.uuid = y.uuid
    PROVE  x = y
<1>1. x \in rows[t] /\ y \in rows[t] /\ Newer(t, x) = {} /\ Newer(t, y) = {}
  BY DEF Latest
<1>2. x.version \in Nat /\ y.version \in Nat
  BY <1>1 DEF Inv, Sourced, Items
<1>3. ~(x.version > y.version) /\ ~(y.version > x.version)
  BY <1>1 DEF Newer
<1>4. x.version = y.version
  BY <1>2, <1>3
<1> QED
  BY <1>1, <1>4 DEF Keyed, SamePrimaryKey

\* A chunk with a row has a latest one.
LEMMA LatestExists ==
    ASSUME Inv, NEW t \in Table, NEW S, NEW x \in rows[t], x.uuid \in S
    PROVE  \E y \in Latest(t, S) : y.uuid = x.uuid
<1>1. IsFiniteSet(rows[t]) /\ \A y \in rows[t] : y.version \in Nat
  BY FS_Subset DEF Inv, Sourced, Items
<1>2. PICK z \in rows[t] : /\ z.uuid = x.uuid /\ z.version >= x.version
                           /\ \A y \in rows[t] : y.uuid = x.uuid => y.version <= z.version
  BY <1>1, GreatestVersion
<1>3. \A y \in rows[t] : y.uuid = z.uuid => ~(y.version > z.version)
  BY <1>1, <1>2
<1>4. Newer(t, z) = {}
  BY <1>3 DEF Newer
<1> QED
  BY <1>2, <1>4 DEF Latest

-----------------------------------------------------------------------------
\* What a call holds belongs to its stage: data that it read to the page, and
\* jobs, one for each chunk, to the chunks up to its cursor.
Producing == {"ids", "data", "keys", "desync", "save", "wait"}

Staged(r) ==
    /\ chunks[r] # {} => phase[r] = "keys"
    /\ jobs[r] # {} => phase[r] \in Producing
    /\ \A d \in chunks[r] : d.uuid \in page[r]
    /\ \A d, e \in chunks[r] : d.uuid = e.uuid => d = e
    /\ \A j \in jobs[r] : j[1].uuid <= at[r]
    /\ \A j, k \in jobs[r] : j[1].uuid = k[1].uuid => j = k

InStages == \A r \in Rotation : Staged(r)

LEMMA InStagesStep == Inv /\ CallsOK /\ JobsPaired /\ Keyed /\ InStages /\ [Next]_vars => InStages'
<1> SUFFICES ASSUME Inv, CallsOK, JobsPaired, Keyed, InStages, [Next]_vars, NEW r \in Rotation
             PROVE  Staged(r)'
  BY DEF InStages
<1>a. at[r] \in Chunk \cup {Nil} /\ page[r] \in SUBSET Chunk
  BY DEF CallsOK
<1>0. /\ Staged(r)
      /\ chunks \in [Rotation -> SUBSET accepted] /\ jobs \in [Rotation -> SUBSET (accepted \X accepted)]
      /\ phase \in [Rotation -> Phase] /\ page \in [Rotation -> SUBSET Chunk]
      /\ at \in [Rotation -> Chunk \cup {Nil}]
      /\ \A u \in page[r] : u > at[r]
      /\ page[r] # {} <=> phase[r] \in {"data", "keys", "deldata", "delkeys"}
  BY DEF InStages, Inv, Sourced, CallsOK, Paged
<1>1. CASE Local(r)' = Local(r)
  BY <1>0, <1>1 DEF Local, Staged
<1>2. CASE Start(r)
  BY <1>0, <1>2 DEF Start, Goto, Staged, Producing
<1>3. CASE ReadPage(r)
  BY <1>0, <1>3 DEF ReadPage, Goto, Staged, Producing
<1>4. CASE ReadData(r)
  <2>1. /\ phase[r] = "data" /\ phase'[r] = "keys"
        /\ UNCHANGED <<at, page, jobs>>
        /\ chunks'[r] = Latest("data", page[r])
    BY <1>0, <1>4 DEF ReadData, Goto
  <2>2. \A d \in Latest("data", page[r]) : d.uuid \in page[r]
    BY DEF Latest
  <2>3. \A d, e \in Latest("data", page[r]) : d.uuid = e.uuid => d = e
    BY LatestIsOne DEF Table
  <2> QED
    BY <1>0, <2>1, <2>2, <2>3 DEF Staged, Producing
<1>5. CASE ReadKeys(r)
  <2>1. PICK D \in SUBSET chunks[r] :
          jobs' = [jobs EXCEPT ![r] = @ \cup JobsOf(D, Latest("keys", page[r]))]
    BY <1>5 DEF ReadKeys
  <2>2. /\ phase[r] = "keys" /\ phase'[r] \in {"save", "desync"}
        /\ at'[r] = LastOf(page[r]) /\ page'[r] = {} /\ chunks'[r] = {}
    BY <1>0, <1>5 DEF ReadKeys, Goto
  <2>3. jobs'[r] = jobs[r] \cup JobsOf(D, Latest("keys", page[r]))
    BY <1>0, <2>1
  <2> DEFINE New == JobsOf(D, Latest("keys", page[r]))
  <2>4. \A j \in New : j[1] \in chunks[r] /\ j[2] \in Latest("keys", page[r]) /\ j[1].uuid = j[2].uuid
                      /\ j = <<j[1], j[2]>>
    BY DEF JobsOf
  <2>5. \A j \in New : j[1].uuid \in page[r]
    BY <1>0, <2>4 DEF Staged
  <2>6. \A j, k \in New : j[1].uuid = k[1].uuid => j = k
    <3> SUFFICES ASSUME NEW j \in New, NEW k \in New, j[1].uuid = k[1].uuid PROVE j = k
      OBVIOUS
    <3>1. j[1] = k[1]
      BY <1>0, <2>4 DEF Staged
    <3>2. j[2] = k[2]
      BY <2>4, <3>1, LatestIsOne DEF Table
    <3> QED
      BY <2>4, <3>1, <3>2
  <2>7. /\ at[r] \in Nat /\ LastOf(page[r]) \in Nat /\ at[r] < LastOf(page[r])
        /\ \A u \in page[r] : u \in Nat /\ at[r] < u /\ u <= LastOf(page[r])
    <3>1. page[r] # {} /\ page[r] \in SUBSET Chunk
      BY <1>0, <2>2
    <3>2. LastOf(page[r]) \in page[r] /\ \A u \in page[r] : u <= LastOf(page[r])
      BY <3>1, LastOfPage
    <3>3. at[r] \in Nat /\ \A u \in page[r] : u \in Nat
      BY <1>a, <3>1, CursorIsNumber, ChunkAssumption
    <3>4. \A u \in page[r] : at[r] < u
      BY <1>0, <3>3
    <3> QED
      BY <3>2, <3>3, <3>4
  <2>8. \A j \in jobs[r] : j[1].uuid \in Nat /\ j[1].uuid <= at[r]
    <3>1. ASSUME NEW j \in jobs[r] PROVE j[1].uuid \in Chunk
      <4>1. j[1] \in accepted
        BY <1>0
      <4> QED
        BY <4>1 DEF Inv, Items
    <3>2. \A j \in jobs[r] : j[1].uuid <= at[r]
      BY <1>0 DEF Staged
    <3> QED
      BY <3>1, <3>2, ChunkAssumption
  <2>9. \A j \in jobs'[r] : j[1].uuid <= at'[r]
    <3>1. \A j \in jobs[r] : j[1].uuid <= LastOf(page[r])
      BY <2>7, <2>8
    <3>2. \A j \in New : j[1].uuid <= LastOf(page[r])
      BY <2>5, <2>7
    <3> HIDE DEF New
    <3> QED
      BY <2>2, <2>3, <3>1, <3>2 DEF New
  <2>10. \A j, k \in jobs'[r] : j[1].uuid = k[1].uuid => j = k
    <3>1. \A j, k \in jobs[r] : j[1].uuid = k[1].uuid => j = k
      BY <1>0 DEF Staged
    <3>2. \A j \in jobs[r], k \in New : j[1].uuid # k[1].uuid
      <4> SUFFICES ASSUME NEW j \in jobs[r], NEW k \in New PROVE j[1].uuid # k[1].uuid
        OBVIOUS
      <4>1. at[r] < k[1].uuid /\ k[1].uuid \in Nat /\ at[r] \in Nat
        BY <2>5, <2>7
      <4> QED
        BY <2>8, <4>1
    <3>3. jobs'[r] = jobs[r] \cup New
      BY <2>3
    <3> HIDE DEF New
    <3> QED
      BY <2>6, <3>1, <3>2, <3>3
  <2> QED
    BY <2>2, <2>9, <2>10 DEF Staged, Producing
<1>6. CASE SaveCursor(r) \/ SaveCursorError(r)
  BY <1>0, <1>6 DEF SaveCursor, SaveCursorError, Goto, Staged, Producing
<1>7. CASE \E j \in jobs[r] : Flush(r, j)
  <2>1. /\ UNCHANGED <<phase, at, page, chunks>> /\ jobs'[r] \subseteq jobs[r]
    BY <1>0, <1>7 DEF Flush
  <2> QED
    BY <1>0, <2>1 DEF Staged
<1>8. CASE Drained(r)
  BY <1>0, <1>8 DEF Drained, Goto, Staged, Producing
<1>9. CASE DeleteOldVersions(r)
  <2>1. phase[r] \notin Producing /\ phase'[r] # "keys" /\ phase'[r] \notin Producing /\ UNCHANGED <<chunks, jobs>>
    BY <1>0, <1>9 DEF DeleteOldVersions, ReadOldPage, DeleteOldData, DeleteOldKeys, Goto, Producing
  <2>2. chunks[r] = {} /\ jobs[r] = {}
    BY <1>0, <2>1 DEF Staged, Producing
  <2> QED
    BY <2>1, <2>2 DEF Staged
<1>10. CASE DeleteCursor(r) \/ DeleteCursorError(r) \/ Abort(r) \/ FailedChunk(r)
  <2>1. chunks'[r] = {} /\ jobs'[r] = {}
    <3>1. CASE DeleteCursor(r) \/ DeleteCursorError(r)
      BY <1>0, <3>1 DEF DeleteCursor, DeleteCursorError, Return, Staged, Producing
    <3>2. CASE Abort(r) \/ FailedChunk(r)
      BY <1>0, <3>2 DEF Abort, FailedChunk, Fail, Return
    <3> QED
      BY <1>10, <3>1, <3>2
  <2> QED
    BY <2>1 DEF Staged
<1>11. Acts(r) \/ Local(r)' = Local(r)
  BY LocalEffect
<1> QED
  BY <1>1, <1>2, <1>3, <1>4, <1>5, <1>6, <1>7, <1>8, <1>9, <1>10, <1>11 DEF Acts, Produce

\* A chunk that has data keeps some.
LEMMA DataStay ==
    ASSUME Inv, [Next]_vars, NEW x \in rows["data"]
    PROVE  \E z \in rows'["data"] : z.uuid = x.uuid
<1>1. CASE rows' = rows
  BY <1>1
<1>2. ASSUME NEW t \in Table, NEW X, InsertRows(t, X)
      PROVE  rows["data"] \subseteq rows'["data"]
  BY <1>2 DEF InsertRows, Inv, Sourced, Table
<1>3. ASSUME NEW t \in Table, NEW q \in Rotation, DeleteOld(t, page[q])
      PROVE  \E z \in rows'["data"] : z.uuid = x.uuid
  <2>1. x \in accepted /\ "data" \in Table
    BY DEF Inv, Sourced, Table
  <2>2. x \in rows'["data"] \/ Newer("data", x)' # {}
    BY <1>3, <2>1, DeletionKeepsNewest
  <2> QED
    BY <2>2 DEF Newer
<1> QED
  BY <1>1, <1>2, <1>3, TablesEffect

-----------------------------------------------------------------------------
\* A page that is not empty has a first chunk.
LEMMA FirstExists ==
    ASSUME NEW S \in SUBSET Chunk, S # {}
    PROVE  \E m \in S : \A u \in S : m <= u
<1>1. IsFiniteSet(S) /\ S \subseteq Nat
  BY ChunkAssumption, FS_Subset
<1> DEFINE last == LastOf(S)
           f == [u \in S |-> last - u]
<1>2. last \in Nat /\ \A u \in S : u <= last
  BY <1>1, LastOfPage
<1>3. f \in [S -> Nat]
  <2> HIDE DEF last
  <2> QED
    BY <1>1, <1>2
<1>4. PICK m \in S : \A u \in S : f[u] <= f[m]
  <2> HIDE DEF f
  <2> QED
    BY <1>1, <1>3, Greatest
<1> HIDE DEF last
<1>5. ASSUME NEW u \in S PROVE m <= u
  <2>1. last - u <= last - m
    BY <1>4
  <2> QED
    BY <1>1, <1>2, <2>1
<1> QED
  BY <1>5

\* A page leaves out no chunk that is stored.
LEMMA PageIsPrefix ==
    ASSUME Inv, NEW n \in Nat, NEW a, NEW u \in ChunkUUIDs(a, n),
           NEW x \in rows["data"], x.uuid > a, x.uuid < u
    PROVE  x.uuid \in ChunkUUIDs(a, n)
<1> DEFINE c == x.uuid
           behind == {r.uuid : r \in {d \in rows["data"] : d.uuid > a}}
           Before(w) == {v \in behind : v < w}
<1>1. behind \subseteq Chunk
  BY DEF Inv, Sourced, Items, Table
<1>2. c \in behind
  OBVIOUS
<1>3. u \in behind /\ Cardinality(Before(u)) < n
  BY DEF ChunkUUIDs
<1>4. IsFiniteSet(Before(u)) /\ Before(c) \subseteq Before(u)
  <2>1. IsFiniteSet(behind)
    BY <1>1, ChunkAssumption, FS_Subset
  <2>2. IsFiniteSet(Before(u))
    BY <2>1, FS_Subset
  <2>3. c \in Nat /\ u \in Nat /\ \A v \in behind : v \in Nat
    BY <1>1, <1>3, ChunkAssumption
  <2> HIDE DEF behind
  <2>4. ASSUME NEW v \in behind, v < c PROVE v < u
    BY <2>3, <2>4
  <2> QED
    BY <2>2, <2>4
<1>5. Cardinality(Before(c)) < n
  <2>1. /\ Cardinality(Before(c)) \in Nat /\ Cardinality(Before(u)) \in Nat
        /\ Cardinality(Before(c)) <= Cardinality(Before(u))
    <3> HIDE DEF Before
    <3> QED
      BY <1>4, FS_Subset, FS_CardinalityType
  <2> HIDE DEF Before
  <2> QED
    BY <1>3, <2>1
<1> QED
  BY <1>2, <1>5 DEF ChunkUUIDs

\* An empty page is behind every chunk that is stored.
LEMMA EmptyPageIsEnd ==
    ASSUME Inv, NEW n \in Nat \ {0}, NEW a, ChunkUUIDs(a, n) = {}, NEW x \in rows["data"]
    PROVE  ~(x.uuid > a)
<1> SUFFICES ASSUME x.uuid > a PROVE FALSE
  OBVIOUS
<1> DEFINE behind == {r.uuid : r \in {d \in rows["data"] : d.uuid > a}}
           Before(w) == {v \in behind : v < w}
<1>1. behind \in SUBSET Chunk
  BY DEF Inv, Sourced, Items, Table
<1>2. x.uuid \in behind
  OBVIOUS
<1>3. PICK m \in behind : \A u \in behind : m <= u
  <2> HIDE DEF behind
  <2> QED
    BY <1>1, <1>2, FirstExists
<1>4. Before(m) = {}
  <2>1. \A v \in behind : v \in Nat
    BY <1>1, ChunkAssumption
  <2> HIDE DEF behind
  <2>2. ASSUME NEW v \in behind PROVE ~(v < m)
    BY <1>3, <2>1
  <2> QED
    BY <2>2
<1>5. Cardinality(Before(m)) < n
  <2> HIDE DEF Before
  <2> QED
    BY <1>4, FS_EmptySet
<1> QED
  BY <1>3, <1>5 DEF ChunkUUIDs
=============================================================================
