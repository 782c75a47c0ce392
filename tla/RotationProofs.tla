--------------------------- MODULE RotationProofs ---------------------------
(***************************************************************************)
(* What rotations guarantee for every number of chunks, rotations and      *)
(* failures, every page size, and for clients that overlap or do not.      *)
(***************************************************************************)
EXTENDS Rotation, FiniteSetTheorems, WellFoundedInduction, TLAPS

-----------------------------------------------------------------------------
\* Where rows, data and jobs come from: everything was accepted once.
Sourced ==
    /\ rows \in [Table -> SUBSET accepted]
    /\ pending \subseteq accepted
    /\ saved \subseteq Table \X accepted
    /\ chunks \in [Rotation -> SUBSET accepted]
    /\ jobs \in [Rotation -> SUBSET (accepted \X accepted)]

\* The items there are: some for every chunk, and finitely many.
Items ==
    /\ IsFiniteSet(accepted)
    /\ \A x \in accepted : x.uuid \in Chunk /\ x.version \in Nat
    /\ \A c \in Chunk : \E x \in accepted : x.uuid = c

Inv == Sourced /\ Items

LEMMA InitInv == Init => Inv
<1> SUFFICES ASSUME Init PROVE Inv
  OBVIOUS
<1>1. Sourced
  BY DEF Init, TablesInit, Sourced
<1>2. IsFiniteSet(accepted)
  <2> DEFINE U == {Upload(c) : c \in Chunk}
             f == [c \in Chunk |-> Upload(c)]
  <2>1. f \in Surjection(Chunk, U)
    BY DEF Surjection
  <2>2. IsFiniteSet(U)
    <3> HIDE DEF f, U
    <3> QED
      BY <2>1, FS_Surjection, ChunkAssumption
  <2> QED
    BY <2>2 DEF Init
<1>3. \A x \in accepted : x.uuid \in Chunk /\ x.version \in Nat
  BY DEF Init, Upload
<1>4. \A c \in Chunk : Upload(c) \in accepted /\ Upload(c).uuid = c
  BY DEF Init, Upload
<1> QED
  BY <1>1, <1>2, <1>3, <1>4 DEF Inv, Items

\* Among finitely many items, each has a greatest version at or above its own.
LEMMA GreatestVersion ==
    ASSUME NEW S, IsFiniteSet(S), \A y \in S : y.version \in Nat,
           NEW x \in S
    PROVE  \E z \in S : /\ z.uuid = x.uuid /\ z.version >= x.version
                        /\ \A y \in S : y.uuid = x.uuid => y.version <= z.version
<1> DEFINE Above(z) == {y \in S : y.uuid = x.uuid /\ y.version > z.version}
           Z == {z \in S : z.uuid = x.uuid /\ z.version >= x.version}
           T == {Above(z) : z \in Z}
<1>1. IsWellFoundedOn(StrictSubsetOrdering(S), SUBSET S)
  BY FS_StrictSubsetOrderingWellFounded, FS_FiniteSubsetsOfFinite
<1>2. T \subseteq SUBSET S /\ T # {}
  <2>1. Above(x) \in T
    OBVIOUS
  <2> QED
    BY <2>1
<1>3. PICK A \in T : \A B \in T : ~ (<<B, A>> \in StrictSubsetOrdering(S))
  <2> HIDE DEF T
  <2> QED
    BY <1>1, <1>2, WFMin
<1>4. PICK z \in Z : A = Above(z)
  OBVIOUS
<1>5. ASSUME NEW y \in S, y.uuid = x.uuid, ~(y.version <= z.version) PROVE FALSE
  <2>1. y \in Above(z) /\ y \in Z
    BY <1>5
  <2>2. Above(y) \subseteq Above(z) /\ y \notin Above(y)
    BY <2>1
  <2>3. <<Above(y), Above(z)>> \in StrictSubsetOrdering(S)
    <3>1. Above(y) \in SUBSET S /\ Above(z) \in SUBSET S
      OBVIOUS
    <3> HIDE DEF Above
    <3> QED
      BY <2>1, <2>2, <3>1 DEF StrictSubsetOrdering
  <2> QED
    BY <1>3, <1>4, <2>1, <2>3
<1> QED
  BY <1>4, <1>5

\* A function on a finite set has a greatest value.
LEMMA Greatest ==
    ASSUME NEW S, IsFiniteSet(S), S # {}, NEW f \in [S -> Nat]
    PROVE  \E m \in S : \A u \in S : f[u] <= f[m]
<1> DEFINE Above(z) == {y \in S : f[y] > f[z]}
           T == {Above(z) : z \in S}
<1>1. IsWellFoundedOn(StrictSubsetOrdering(S), SUBSET S)
  BY FS_StrictSubsetOrderingWellFounded, FS_FiniteSubsetsOfFinite
<1>2. T \subseteq SUBSET S /\ T # {}
  <2>1. PICK x : x \in S
    OBVIOUS
  <2>2. Above(x) \in T
    BY <2>1
  <2>3. \A A \in T : A \subseteq S
    OBVIOUS
  <2> QED
    BY <2>2, <2>3
<1>3. PICK A \in T : \A B \in T : ~ (<<B, A>> \in StrictSubsetOrdering(S))
  <2> HIDE DEF T
  <2> QED
    BY <1>1, <1>2, WFMin
<1>4. PICK m \in S : A = Above(m)
  OBVIOUS
<1>5. ASSUME NEW u \in S, ~(f[u] <= f[m]) PROVE FALSE
  <2>1. u \in Above(m)
    BY <1>5
  <2>2. Above(u) \subseteq Above(m) /\ u \notin Above(u)
    BY <2>1
  <2>3. <<Above(u), Above(m)>> \in StrictSubsetOrdering(S)
    <3>1. Above(u) \in SUBSET S /\ Above(m) \in SUBSET S
      OBVIOUS
    <3> HIDE DEF Above
    <3> QED
      BY <2>1, <2>2, <3>1 DEF StrictSubsetOrdering
  <2> QED
    BY <1>3, <1>4, <2>3
<1>6. \A u \in S : f[u] <= f[m]
  BY <1>5
<1> QED
  BY <1>6

\* A page that is not empty has a last chunk.
LEMMA LastOfPage ==
    ASSUME NEW S \in SUBSET Chunk, S # {}
    PROVE  LastOf(S) \in S /\ \A u \in S : u <= LastOf(S)
<1>1. IsFiniteSet(S) /\ S \subseteq Nat
  BY ChunkAssumption, FS_Subset
<1> DEFINE f == [u \in S |-> u]
<1>2. f \in [S -> Nat]
  BY <1>1
<1>3. PICK m \in S : \A u \in S : f[u] <= f[m]
  <2> HIDE DEF f
  <2> QED
    BY <1>1, <1>2, Greatest
<1> QED
  BY <1>3 DEF LastOf

-----------------------------------------------------------------------------
\* The effect of the actions on what the invariant speaks of.
InsertRows(t, X) == rows' = [rows EXCEPT ![t] = @ \cup X]

LEMMA InsertEffect ==
    ASSUME NEW t \in Table, NEW X, Insert(t, X)
    PROVE  /\ InsertRows(t, X)
           /\ saved' = saved \cup ({t} \X X)
           /\ UNCHANGED <<accepted, pending>>
           /\ \A x \in X, r \in rows[t] : ~SamePrimaryKey(x, r)
           /\ \A x, y \in X : SamePrimaryKey(x, y) => x = y
<1> DEFINE b == [x \in X |-> x]
<1>1. DOMAIN b = X /\ \A x \in X : b[x] = x
  OBVIOUS
<1>2. {b[x] : x \in DOMAIN b} = X
  OBVIOUS
<1>3. /\ CopyFrom(t, b)
      /\ saved' = saved \cup ({t} \X X)
      /\ UNCHANGED <<accepted, pending>>
  BY DEF Insert, ReportSaved
<1> HIDE DEF b
<1>4. InsertRows(t, X)
  BY <1>2, <1>3 DEF CopyFrom, InsertRows
<1>5. ~UniqueViolation(t, b)
  BY <1>3 DEF CopyFrom
<1> QED
  BY <1>1, <1>3, <1>4, <1>5 DEF UniqueViolation

\* The worker inserts a batch, counts one as saved that has broken the primary
\* key, or acknowledges.
LEMMA WorkerEffect ==
    ASSUME Worker
    PROVE  /\ \/ \E t \in Table, X \in SUBSET accepted : Insert(t, X) \/ Swallow(t, X)
              \/ \E X \in SUBSET pending : Ack(X)
           /\ swallowed' = swallowed \cup {w[2].uuid : w \in SwallowedNow}
           /\ UNCHANGED rotationVars
           /\ faults' = faults \/ Fault
<1>1. ASSUME NEW t \in Table, NEW X, Save(t, X)
      PROVE  X \in SUBSET accepted /\ (Insert(t, X) \/ Swallow(t, X))
  BY <1>1 DEF Save, Batch, Duplicate
<1>2. Write \/ Rewrite => \E t \in Table, X \in SUBSET accepted : Insert(t, X) \/ Swallow(t, X)
  BY <1>1 DEF Write, Rewrite
<1>3. Acknowledge => \E X \in SUBSET pending : Ack(X)
  BY DEF Acknowledge
<1> QED
  BY <1>2, <1>3 DEF Worker, Repeated

\* It takes no item and drops none.
LEMMA WorkerAccepts ==
    ASSUME Worker
    PROVE  accepted' = accepted /\ pending' \subseteq pending
  BY WorkerEffect DEF Insert, Swallow, ReportSaved, Ack

LEMMA InvStep == Inv /\ [Next]_vars => Inv'
<1> SUFFICES ASSUME Inv, [Next]_vars PROVE Inv'
  OBVIOUS
<1> USE DEF Inv, Sourced
<1>1. ASSUME UNCHANGED <<rows, bufferVars, chunks, jobs>> PROVE Inv'
  BY <1>1 DEF Items, bufferVars
<1>2. CASE Worker
  <2>0. chunks' = chunks /\ jobs' = jobs
    BY <1>2 DEF Worker, rotationVars
  <2>1. ASSUME NEW t \in Table, NEW X \in SUBSET accepted, Insert(t, X) PROVE Inv'
    BY <2>0, <2>1, InsertEffect DEF InsertRows, Items
  <2>2. ASSUME NEW t \in Table, NEW X \in SUBSET accepted, Swallow(t, X) PROVE Inv'
    BY <2>0, <2>2 DEF Swallow, ReportSaved, Items
  <2>3. ASSUME NEW X \in SUBSET pending, Ack(X) PROVE Inv'
    BY <2>0, <2>3 DEF Ack, Items
  <2> QED
    BY <1>2, <2>1, <2>2, <2>3, WorkerEffect
<1>3. ASSUME NEW r \in Rotation, NEW j \in jobs[r], Flush(r, j) PROVE Inv'
  <2> DEFINE x == NewItem(r, j)
  <2>1. j[1] \in accepted
    OBVIOUS
  <2>2. x.uuid \in Chunk /\ x.version \in Nat
    BY <2>1 DEF NewItem, Items
  <2>3. /\ accepted' = accepted \cup {x} /\ pending' = pending \cup {x}
        /\ rows' = rows /\ saved' = saved /\ chunks' = chunks
        /\ jobs' = [jobs EXCEPT ![r] = @ \ {j}]
    BY <1>3 DEF Flush, Accept
  <2>4. Items'
    <3> HIDE DEF x
    <3>1. IsFiniteSet(accepted \cup {x})
      BY FS_AddElement DEF Items
    <3> QED
      BY <2>2, <2>3, <3>1 DEF Items
  <2>5. rows \in [Table -> SUBSET accepted'] /\ chunks \in [Rotation -> SUBSET accepted']
    BY <2>3
  <2>6. jobs' \in [Rotation -> SUBSET (accepted' \X accepted')]
    BY <2>3
  <2> QED
    BY <2>3, <2>4, <2>5, <2>6
<1>4. ASSUME NEW r \in Rotation, ReadData(r) PROVE Inv'
  <2>1. Latest("data", page[r]) \subseteq accepted
    BY DEF Latest, Table
  <2> QED
    BY <1>4, <2>1 DEF ReadData, Items, bufferVars
<1>5. ASSUME NEW r \in Rotation, ReadKeys(r) PROVE Inv'
  <2>1. Latest("keys", page[r]) \subseteq accepted
    BY DEF Latest, Table
  <2>2. PICK D \in SUBSET chunks[r] :
          jobs' = [jobs EXCEPT ![r] = @ \cup JobsOf(D, Latest("keys", page[r]))]
    BY <1>5 DEF ReadKeys
  <2>3. JobsOf(D, Latest("keys", page[r])) \subseteq accepted \X accepted
    BY <2>1 DEF JobsOf
  <2>4. jobs' \in [Rotation -> SUBSET (accepted \X accepted)]
    BY <2>2, <2>3
  <2>5. /\ UNCHANGED <<rows, accepted, pending, saved>>
        /\ chunks' \in [Rotation -> SUBSET accepted]
    BY <1>5 DEF ReadKeys, bufferVars
  <2> QED
    BY <2>4, <2>5 DEF Items
<1>6. ASSUME NEW r \in Rotation, DeleteOldData(r) \/ DeleteOldKeys(r) PROVE Inv'
  <2>1. UNCHANGED <<accepted, pending, saved, chunks, jobs>>
    BY <1>6 DEF DeleteOldData, DeleteOldKeys, bufferVars
  <2>2. rows' \in [Table -> SUBSET accepted]
    BY <1>6 DEF DeleteOldData, DeleteOldKeys, DeleteOld
  <2> QED
    BY <2>1, <2>2 DEF Items
<1>7. ASSUME NEW r \in Rotation, Abort(r) \/ FailedChunk(r) \/ DeleteCursor(r) \/ DeleteCursorError(r)
      PROVE  Inv'
  <2>1. /\ UNCHANGED <<rows, accepted, pending, saved>>
        /\ chunks' = [chunks EXCEPT ![r] = {}]
        /\ jobs' = jobs \/ jobs' = [jobs EXCEPT ![r] = {}]
    BY <1>7 DEF Abort, FailedChunk, Fail, DeleteCursor, DeleteCursorError, Return, bufferVars
  <2> QED
    BY <2>1 DEF Items
<1>8. ASSUME NEW r \in Rotation,
             \/ Start(r) \/ ReadPage(r) \/ SaveCursor(r) \/ SaveCursorError(r)
             \/ Drained(r) \/ ReadOldPage(r)
      PROVE  Inv'
  BY <1>1, <1>8 DEF Start, ReadPage, SaveCursor, SaveCursorError, Drained, ReadOldPage
<1>9. CASE Expire
  BY <1>1, <1>9 DEF Expire
<1>10. CASE UNCHANGED vars
  BY <1>1, <1>10 DEF vars, rotationVars
<1> QED
  BY <1>2, <1>3, <1>4, <1>5, <1>6, <1>7, <1>8, <1>9, <1>10
     DEF Next, Produce, DeleteOldVersions

-----------------------------------------------------------------------------
\* Table t has row x or a newer one of the chunk, or the worker will write x,
\* or two rotations made the same version of the chunk, or an item of the chunk
\* was counted as saved without a row.
Covered(t, x) ==
    \/ x \in Due(t)
    \/ x \in rows[t]
    \/ Newer(t, x) # {}
    \/ Conflict(x.uuid)
    \/ x.uuid \in swallowed

Kept == \A x \in accepted, t \in Table : Covered(t, x)

LEMMA InitKept == Init => Kept
  BY DEF Init, Kept, Covered, Due

\* A deletion leaves the newest row of every chunk.
LEMMA DeletionKeepsNewest ==
    ASSUME Inv, NEW t \in Table, NEW ids, DeleteOld(t, ids),
           NEW s \in Table, NEW x \in accepted,
           x \in rows[s] \/ Newer(s, x) # {}
    PROVE  x \in rows'[s] \/ Newer(s, x)' # {}
<1>1. rows[s] \subseteq accepted /\ IsFiniteSet(rows[s])
  BY FS_Subset DEF Inv, Sourced, Items
<1>2. \A y \in accepted : y.version \in Nat
  BY DEF Inv, Items
<1>3. CASE s # t
  BY <1>3 DEF DeleteOld, Newer, Inv, Sourced
<1>4. CASE s = t
  <2>1. PICK y \in rows[t] : y.uuid = x.uuid /\ y.version >= x.version /\ (y = x \/ y.version > x.version)
    <3>1. CASE x \in rows[t]
      BY <1>2, <3>1
    <3>2. ASSUME NEW y \in Newer(t, x)
          PROVE  y \in rows[t] /\ y.uuid = x.uuid /\ y.version > x.version /\ y.version >= x.version
      BY <1>1, <1>2, <1>4 DEF Newer
    <3> QED
      BY <1>4, <3>1, <3>2
  <2>2. PICK z \in rows[t] : /\ z.uuid = y.uuid /\ z.version >= y.version
                             /\ \A w \in rows[t] : w.uuid = y.uuid => w.version <= z.version
    BY <1>1, <1>2, <1>4, GreatestVersion
  <2>3. Newer(t, z) = {}
    <3>1. \A w \in rows[t] : w.uuid = z.uuid => ~(w.version > z.version)
      BY <1>1, <1>2, <1>4, <2>2
    <3> QED
      BY <3>1 DEF Newer
  <2>4. z \in rows'[t]
    BY <2>3 DEF DeleteOld, Inv, Sourced
  <2>5. z.version > x.version => z \in Newer(t, x)'
    BY <2>1, <2>2, <2>4 DEF Newer
  <2>6. z.version = x.version => x \in rows'[t]
    <3>1. ASSUME z.version = x.version PROVE y = x
      BY <1>1, <1>2, <1>4, <2>1, <2>2, <3>1
    <3>2. ASSUME z.version = x.version PROVE Newer(t, x) = {}
      BY <2>1, <2>2, <2>3, <3>1, <3>2 DEF Newer
    <3> QED
      BY <2>1, <3>1, <3>2 DEF DeleteOld, Inv, Sourced
  <2> QED
    BY <1>1, <1>2, <1>4, <2>1, <2>2, <2>5, <2>6
<1> QED
  BY <1>3, <1>4

LEMMA KeptStep == Inv /\ Kept /\ [Next]_vars => Kept'
<1> SUFFICES ASSUME Inv, Kept, [Next]_vars PROVE Kept'
  OBVIOUS
<1>1. ASSUME UNCHANGED <<rows, bufferVars, swallowed>> PROVE Kept'
  BY <1>1 DEF Kept, Covered, Due, Newer, Conflict, bufferVars
<1>2. ASSUME Worker, NEW s \in Table, NEW X \in SUBSET accepted, Insert(s, X) PROVE Kept'
  <2> SUFFICES ASSUME NEW x \in accepted, NEW t \in Table PROVE Covered(t, x)'
    BY <1>2 DEF Kept, Insert, ReportSaved
  <2>1. Covered(t, x)
    BY DEF Kept
  <2>2. /\ accepted' = accepted /\ pending' = pending /\ saved' = saved \cup ({s} \X X)
        /\ swallowed \subseteq swallowed'
    BY <1>2, WorkerEffect DEF Insert, ReportSaved
  <2>3. \A u \in Table : rows'[u] = IF u = s THEN rows[u] \cup X ELSE rows[u]
    <3>1. InsertRows(s, X)
      BY <1>2, InsertEffect
    <3> QED
      BY <3>1 DEF InsertRows, Inv, Sourced
  <2>4. Newer(t, x) \subseteq Newer(t, x)' /\ Conflict(x.uuid)' = Conflict(x.uuid)
    BY <2>2, <2>3 DEF Newer, Conflict
  <2> QED
    BY <2>1, <2>2, <2>3, <2>4 DEF Covered, Due
<1>3. ASSUME Worker, NEW s \in Table, NEW X \in SUBSET accepted, Swallow(s, X) PROVE Kept'
  <2>1. /\ UNCHANGED <<accepted, pending, rows>>
        /\ saved' = saved \cup ({s} \X X)
        /\ swallowed' = swallowed \cup {w[2].uuid : w \in SwallowedNow}
    BY <1>3, WorkerEffect DEF Swallow, ReportSaved
  <2>2. \A c : Conflict(c)' = Conflict(c)
    BY <2>1 DEF Conflict
  <2> SUFFICES ASSUME NEW x \in accepted, NEW t \in Table PROVE Covered(t, x)'
    BY <2>1 DEF Kept
  <2>3. Covered(t, x)
    BY DEF Kept
  <2>4. CASE ~(x \in Due(t) /\ x \notin Due(t)')
    BY <2>1, <2>2, <2>3, <2>4 DEF Covered, Newer
  <2>5. CASE x \in Due(t) /\ x \notin Due(t)'
    <3> DEFINE w == <<t, x>>
    <3>1. w \in saved' \ saved /\ w[1] = t /\ w[2] = x
      BY <2>1, <2>5 DEF Due
    <3>2. CASE w \in SwallowedNow
      BY <2>1, <3>1, <3>2 DEF Covered
    <3>3. CASE w \notin SwallowedNow
      <4>1. PICK d \in rows'[t] : d.uuid = x.uuid /\ ~(d.version < x.version)
        BY <3>1, <3>3 DEF SwallowedNow
      <4>2. d \in rows[t] /\ d \in accepted /\ d.version \in Nat /\ x.version \in Nat
        BY <2>1, <4>1 DEF Inv, Sourced, Items
      <4>3. CASE d.version > x.version
        <5>1. d \in Newer(t, x)'
          BY <4>1, <4>3 DEF Newer
        <5> QED
          BY <5>1 DEF Covered
      <4>4. CASE d.version = x.version
        <5>1. d = x \/ Conflict(x.uuid)
          BY <4>1, <4>2, <4>4 DEF Conflict, SamePrimaryKey
        <5> QED
          BY <2>1, <2>2, <4>1, <5>1 DEF Covered
      <4> QED
        BY <4>1, <4>2, <4>3, <4>4
    <3> QED
      BY <3>2, <3>3
  <2> QED
    BY <2>4, <2>5
<1>4. ASSUME Worker, NEW X \in SUBSET pending, Ack(X) PROVE Kept'
  <2>1. /\ UNCHANGED <<rows, accepted, saved>>
        /\ pending' = pending \ X /\ \A y \in X, t \in Table : <<t, y>> \in saved
        /\ swallowed \subseteq swallowed'
    BY <1>4, WorkerEffect DEF Ack
  <2> QED
    BY <2>1 DEF Kept, Covered, Due, Newer, Conflict
<1>5. ASSUME NEW r \in Rotation, NEW j \in jobs[r], Flush(r, j) PROVE Kept'
  <2> DEFINE y == NewItem(r, j)
  <2>1. /\ accepted' = accepted \cup {y} /\ pending' = pending \cup {y}
        /\ rows' = rows /\ saved' = saved /\ swallowed' = swallowed
    BY <1>5 DEF Flush, Accept
  <2> HIDE DEF y
  <2> SUFFICES ASSUME NEW x \in accepted', NEW t \in Table PROVE Covered(t, x)'
    BY DEF Kept
  <2>2. \A c : Conflict(c) => Conflict(c)'
    BY <2>1 DEF Conflict
  <2>3. CASE x \in accepted
    <3>1. Covered(t, x)
      BY <2>3 DEF Kept
    <3> QED
      BY <2>1, <2>2, <3>1 DEF Covered, Due, Newer
  <2>4. CASE x \notin accepted
    <3>1. x = y /\ <<t, x>> \notin saved
      BY <2>1, <2>4 DEF Inv, Sourced
    <3> QED
      BY <2>1, <3>1 DEF Covered, Due
  <2> QED
    BY <2>3, <2>4
<1>6. ASSUME NEW t \in Table, NEW ids, DeleteOld(t, ids),
             UNCHANGED <<bufferVars, swallowed>>
      PROVE  Kept'
  <2> SUFFICES ASSUME NEW x \in accepted, NEW s \in Table PROVE Covered(s, x)'
    BY <1>6 DEF Kept, bufferVars
  <2>1. Covered(s, x)
    BY DEF Kept
  <2> QED
    BY <1>6, <2>1, DeletionKeepsNewest DEF Covered, Due, Conflict, bufferVars
<1>7. ASSUME NEW r \in Rotation, DeleteOldData(r) \/ DeleteOldKeys(r) PROVE Kept'
  BY <1>6, <1>7 DEF DeleteOldData, DeleteOldKeys, Table
<1>8. ASSUME NEW r \in Rotation,
             \/ Start(r) \/ ReadPage(r) \/ ReadData(r) \/ ReadKeys(r) \/ SaveCursor(r)
             \/ SaveCursorError(r) \/ Drained(r) \/ ReadOldPage(r) \/ DeleteCursor(r)
             \/ DeleteCursorError(r) \/ Abort(r) \/ FailedChunk(r)
      PROVE  Kept'
  BY <1>1, <1>8 DEF Start, ReadPage, ReadData, ReadKeys, SaveCursor, SaveCursorError, Drained,
     ReadOldPage, DeleteCursor, DeleteCursorError, Abort, FailedChunk, Fail
<1>9. CASE Expire \/ UNCHANGED vars
  BY <1>1, <1>9 DEF Expire, vars
<1>10. CASE Worker
  BY <1>2, <1>3, <1>4, <1>10, WorkerEffect
<1> QED
  BY <1>5, <1>7, <1>8, <1>9, <1>10 DEF Next, Produce, DeleteOldVersions

-----------------------------------------------------------------------------
\* The item of the greatest version of a chunk is in each table or on its
\* way there, unless there is another one of that version.
LEMMA GreatestIsKept ==
    ASSUME Inv, Kept, NEW c \in Chunk, ~Conflict(c), c \notin swallowed
    PROVE  \E x \in accepted :
              /\ x.uuid = c
              /\ \A y \in accepted : y.uuid = c /\ y # x => y.version < x.version
              /\ \A t \in Table : x \in rows[t] \/ (x \in Due(t))
<1>1. PICK x \in accepted : x.uuid = c /\ \A y \in accepted : y.uuid = c => y.version <= x.version
  BY GreatestVersion DEF Inv, Items
<1>2. \A y \in accepted : y.version \in Nat
  BY DEF Inv, Items
<1>3. ASSUME NEW y \in accepted, y.uuid = c, y # x PROVE y.version < x.version
  <2>1. y.version # x.version
    BY <1>1, <1>3 DEF Conflict, SamePrimaryKey
  <2> QED
    BY <1>1, <1>2, <1>3, <2>1
<1>4. ASSUME NEW t \in Table PROVE x \in rows[t] \/ (x \in Due(t))
  <2>1. Newer(t, x) = {}
    <3>1. ASSUME NEW d \in rows[t], d.uuid = x.uuid, d.version > x.version PROVE FALSE
      <4>1. d \in accepted
        BY DEF Inv, Sourced
      <4> QED
        BY <1>1, <1>2, <3>1, <4>1
    <3> QED
      BY <3>1 DEF Newer
  <2> QED
    BY <1>1, <2>1 DEF Kept, Covered
<1> QED
  BY <1>1, <1>3, <1>4

LEMMA KeptRecoverable == Inv /\ Kept => LossHasCause
<1> SUFFICES ASSUME Inv, Kept, NEW c \in Chunk, ~Conflict(c), c \notin swallowed
             PROVE  Recoverable(c)
  BY DEF LossHasCause
<1>1. PICK x \in accepted :
          /\ x.uuid = c
          /\ \A t \in Table : x \in rows[t] \/ (x \in Due(t))
  BY GreatestIsKept
<1>2. ASSUME NEW t \in Table PROVE Obtainable(t, x)
  <2>1. CASE x \in rows[t]
    BY <2>1 DEF Obtainable
  <2>2. CASE x \in Due(t) /\ x \notin rows[t]
    <3>1. DOMAIN <<x>> = {1} /\ <<x>>[1] = x
      OBVIOUS
    <3>2. ASSUME NEW r \in rows[t], SamePrimaryKey(x, r) PROVE FALSE
      <4>1. r \in accepted /\ r # x
        BY <2>2 DEF Inv, Sourced
      <4> QED
        BY <1>1, <3>2, <4>1 DEF Conflict
    <3> QED
      BY <2>2, <3>1, <3>2 DEF Obtainable, UniqueViolation
  <2> QED
    BY <1>1, <2>1, <2>2
<1> QED
  BY <1>1, <1>2 DEF Recoverable

LEMMA KeptPaired == Inv /\ Kept => SettledPaired
<1> SUFFICES ASSUME Inv, Kept, pending = {}, NEW c \in Chunk,
                    ~Conflict(c), c \notin swallowed
             PROVE  Latest("data", {c}) # {} /\ Latest("data", {c}) = Latest("keys", {c})
  BY DEF SettledPaired
<1>1. PICK x \in accepted :
          /\ x.uuid = c
          /\ \A y \in accepted : y.uuid = c /\ y # x => y.version < x.version
          /\ \A t \in Table : x \in rows[t]
  BY GreatestIsKept DEF Due
<1>2. ASSUME NEW t \in Table PROVE Latest(t, {c}) = {x}
  <2>1. rows[t] \subseteq accepted /\ \A y \in accepted : y.version \in Nat
    BY DEF Inv, Sourced, Items
  <2>2. Newer(t, x) = {}
    BY <1>1, <2>1 DEF Newer
  <2>3. ASSUME NEW y \in rows[t], y.uuid = c, y # x PROVE x \in Newer(t, y)
    BY <1>1, <2>1, <2>3 DEF Newer
  <2> QED
    BY <1>1, <2>2, <2>3 DEF Latest
<1> QED
  BY <1>2 DEF Table

LEMMA Invariance == Spec => [](Inv /\ Kept)
<1>1. Init => Inv /\ Kept
  BY InitInv, InitKept
<1>2. Inv /\ Kept /\ [Next]_vars => Inv' /\ Kept'
  BY InvStep, KeptStep
<1> QED
  BY <1>1, <1>2, PTL DEF Spec

\* With batches of any size and clients that overlap or not, a chunk can be lost
\* only if two rotations made the same version of it, or if an item of it was
\* counted as saved without a row, because its batch broke the primary key: the
\* rest of the buffer, the deletions, failures and resumed cursors lose none.
THEOREM LossesHaveCause == Spec => []LossHasCause
  BY Invariance, KeptRecoverable, PTL

\* When the buffer is empty, the latest data and key of a chunk are a pair, but
\* for the chunks of such an item or version.
THEOREM LatestArePaired == Spec => []SettledPaired
  BY Invariance, KeptPaired, PTL

-----------------------------------------------------------------------------
(***************************************************************************)
(* The variables of the calls.                                             *)
(***************************************************************************)
\* A call has a page exactly between reading its UUIDs and the last query
\* about them, and the page lies behind its cursor.
Paged == \A r \in Rotation :
    /\ page[r] # {} <=> phase[r] \in {"data", "keys", "deldata", "delkeys"}
    /\ \A u \in page[r] : u > at[r]

Phase == Ended \cup {"ids", "data", "keys", "desync", "save", "wait",
                     "oldids", "deldata", "delkeys", "delcursor"}

CallsOK ==
    /\ cursor \in Chunk \cup {Nil}
    /\ phase \in [Rotation -> Phase]
    /\ at \in [Rotation -> Chunk \cup {Nil}]
    /\ page \in [Rotation -> SUBSET Chunk]
    /\ owed \in [Rotation -> SUBSET Chunk]
    /\ swallowed \subseteq Chunk
    /\ Paged

LEMMA InitCalls == Init => CallsOK
  BY DEF Init, CallsOK, Paged, Phase, Ended

LEMMA CallsStep == Inv /\ CallsOK /\ [Next]_vars => CallsOK'
<1> SUFFICES ASSUME Inv, CallsOK, [Next]_vars PROVE CallsOK'
  OBVIOUS
<1> USE DEF CallsOK, Paged
<1>1. ASSUME NEW r \in Rotation PROVE ChunkUUIDs(at[r], PageSize) \in SUBSET {u \in Chunk : u > at[r]}
  <2>1. \A d \in rows["data"] : d.uuid \in Chunk
    BY DEF Inv, Sourced, Items, Table
  <2> QED
    BY <2>1 DEF ChunkUUIDs
<1>2. ASSUME NEW r \in Rotation, page[r] # {} PROVE LastOf(page[r]) \in Chunk
  BY <1>2, LastOfPage
<1>3. CASE Worker
  <2>1. accepted' = accepted /\ saved' \subseteq saved \cup (Table \X accepted)
    <3>1. \/ saved' = saved
          \/ \E t \in Table, X \in SUBSET accepted : saved' = saved \cup ({t} \X X)
      BY <1>3, WorkerEffect DEF Insert, Swallow, ReportSaved, Ack
    <3> QED
      BY <1>3, <3>1, WorkerAccepts
  <2>2. \A w \in SwallowedNow : w[2] \in accepted
    BY <2>1 DEF SwallowedNow
  <2>3. swallowed' \subseteq Chunk
    BY <1>3, <2>2, WorkerEffect DEF Inv, Items
  <2> QED
    BY <1>3, <2>3 DEF Worker, rotationVars
<1>13. CASE UNCHANGED vars
  BY <1>13 DEF vars, rotationVars
<1>4. ASSUME NEW r \in Rotation, Start(r) PROVE CallsOK'
  BY <1>4 DEF Start, Goto, Phase
<1>5. ASSUME NEW r \in Rotation, ReadPage(r) \/ ReadOldPage(r) PROVE CallsOK'
  <2>1. /\ UNCHANGED <<cursor, at, owed, swallowed>>
        /\ page' = [page EXCEPT ![r] = ChunkUUIDs(at[r], PageSize)]
        /\ \E p \in {"wait", "data", "delcursor", "deldata"} :
              /\ phase' = [phase EXCEPT ![r] = p]
              /\ p \in {"data", "deldata"} <=> page'[r] # {}
    BY <1>5 DEF ReadPage, ReadOldPage, Goto
  <2>2. page' \in [Rotation -> SUBSET Chunk]
    BY <1>1, <2>1
  <2>3. page'[r] = ChunkUUIDs(at[r], PageSize)
    BY <2>1
  <2> HIDE DEF Phase
  <2>4. Paged'
    BY <1>1, <2>1, <2>3
  <2> QED
    BY <2>1, <2>2, <2>4 DEF Phase
<1>6. ASSUME NEW r \in Rotation, ReadData(r) \/ DeleteOldData(r) PROVE CallsOK'
  BY <1>6 DEF ReadData, DeleteOldData, Goto, Phase
<1>7. ASSUME NEW r \in Rotation, ReadKeys(r) \/ DeleteOldKeys(r) PROVE CallsOK'
  <2>1. /\ UNCHANGED <<cursor, owed, swallowed>> /\ page[r] # {}
        /\ at' = [at EXCEPT ![r] = LastOf(page[r])]
        /\ page' = [page EXCEPT ![r] = {}]
        /\ \E p \in {"save", "desync", "oldids"} : phase' = [phase EXCEPT ![r] = p]
    BY <1>7 DEF ReadKeys, DeleteOldKeys, Goto
  <2> QED
    BY <1>2, <2>1 DEF Phase
<1>8. ASSUME NEW r \in Rotation, SaveCursor(r) \/ SaveCursorError(r) PROVE CallsOK'
  BY <1>8 DEF SaveCursor, SaveCursorError, Goto, Phase
<1>9. ASSUME NEW r \in Rotation, Drained(r) PROVE CallsOK'
  BY <1>9 DEF Drained, Goto, Phase
<1>10. ASSUME NEW r \in Rotation,
              DeleteCursor(r) \/ DeleteCursorError(r) \/ Abort(r) \/ FailedChunk(r)
       PROVE  CallsOK'
  <2>1. /\ cursor' \in {cursor, Nil} /\ swallowed' = swallowed
        /\ \E p \in {"ok", "failed"} : Return(r, p)
    BY <1>10 DEF DeleteCursor, DeleteCursorError, Abort, FailedChunk, Fail
  <2> QED
    BY <2>1 DEF Return, Goto, Phase, Ended
<1>11. ASSUME NEW r \in Rotation, NEW j \in jobs[r], Flush(r, j) PROVE CallsOK'
  BY <1>11 DEF Flush
<1>12. CASE Expire
  BY <1>12 DEF Expire
<1> QED
  BY <1>3, <1>4, <1>5, <1>6, <1>7, <1>8, <1>9, <1>10, <1>11, <1>12, <1>13
     DEF Next, Produce, DeleteOldVersions

AllItems == [uuid : Chunk, version : Nat, secret : Nat]

BufferOK ==
    /\ accepted \subseteq AllItems
    /\ faults \in 0..MaxFaults

JobsPaired == \A r \in Rotation : \A j \in jobs[r] : j[1].uuid = j[2].uuid

LEMMA InitBuffer == Init => BufferOK /\ JobsPaired
  BY MaxFaultsAssumption DEF Init, BufferOK, JobsPaired, AllItems, Upload, Nil

LEMMA BufferStep == Inv /\ BufferOK /\ [Next]_vars => BufferOK'
<1> SUFFICES ASSUME Inv, BufferOK, [Next]_vars PROVE BufferOK'
  OBVIOUS
<1> USE DEF BufferOK
<1>1. Fault => faults' \in 0..MaxFaults
  BY MaxFaultsAssumption DEF Fault
<1>2. ASSUME UNCHANGED bufferVars, faults' = faults \/ Fault PROVE BufferOK'
  BY <1>1, <1>2 DEF bufferVars
<1>3. CASE Worker
  BY <1>1, <1>3, WorkerEffect, WorkerAccepts
<1>5. ASSUME NEW r \in Rotation, NEW j \in jobs[r], Flush(r, j) PROVE BufferOK'
  <2>1. j[1] \in accepted
    BY DEF Inv, Sourced
  <2>2. NewItem(r, j) \in AllItems
    BY <2>1, RotationAssumption DEF NewItem, AllItems
  <2> HIDE DEF AllItems
  <2> QED
    BY <1>5, <2>2 DEF Flush, Accept
<1>6. ASSUME NEW r \in Rotation,
             \/ Start(r) \/ Produce(r) \/ SaveCursorError(r) \/ Drained(r) \/ DeleteOldVersions(r)
             \/ DeleteCursor(r) \/ DeleteCursorError(r) \/ Abort(r) \/ FailedChunk(r)
      PROVE  BufferOK'
  BY <1>2, <1>6
     DEF Start, Produce, ReadPage, ReadData, ReadKeys, SaveCursor, SaveCursorError, Drained,
         DeleteOldVersions, ReadOldPage, DeleteOldData, DeleteOldKeys, DeleteCursor,
         DeleteCursorError, Abort, FailedChunk, Fail
<1>7. CASE Expire \/ UNCHANGED vars
  BY <1>2, <1>7 DEF Expire, vars
<1> QED
  BY <1>3, <1>5, <1>6, <1>7 DEF Next

\* How a step of the rotations changes the jobs and the chunks read.
LEMMA JobsEffect ==
    ASSUME Inv, [Next]_vars, NEW r \in Rotation
    PROVE  \/ jobs'[r] \subseteq jobs[r]
           \/ /\ ReadKeys(r)
              /\ \E D \in SUBSET chunks[r] :
                    jobs'[r] = jobs[r] \cup JobsOf(D, Latest("keys", page[r]))
<1> USE DEF Inv, Sourced
<1>1. ASSUME NEW q \in Rotation, ReadKeys(q)
      PROVE  \/ jobs'[r] = jobs[r]
             \/ /\ ReadKeys(r)
                /\ \E D \in SUBSET chunks[r] :
                      jobs'[r] = jobs[r] \cup JobsOf(D, Latest("keys", page[r]))
  <2>1. PICK D \in SUBSET chunks[q] :
          jobs' = [jobs EXCEPT ![q] = @ \cup JobsOf(D, Latest("keys", page[q]))]
    BY <1>1 DEF ReadKeys
  <2> HIDE DEF Inv, Sourced
  <2>2. jobs'[r] = IF r = q THEN jobs[r] \cup JobsOf(D, Latest("keys", page[r])) ELSE jobs[r]
    BY <2>1 DEF Inv, Sourced
  <2> QED
    BY <1>1, <2>2
<1>2. ASSUME NEW q \in Rotation, NEW j \in jobs[q], Flush(q, j) PROVE jobs'[r] \subseteq jobs[r]
  BY <1>2 DEF Flush
<1>3. ASSUME NEW q \in Rotation, Abort(q) \/ FailedChunk(q) PROVE jobs'[r] \subseteq jobs[r]
  BY <1>3 DEF Abort, FailedChunk, Fail
<1>4. ASSUME NEW q \in Rotation,
             \/ Start(q) \/ ReadPage(q) \/ ReadData(q) \/ SaveCursor(q) \/ SaveCursorError(q)
             \/ Drained(q) \/ DeleteOldVersions(q) \/ DeleteCursor(q) \/ DeleteCursorError(q)
      PROVE  jobs'[r] \subseteq jobs[r]
  BY <1>4 DEF Start, ReadPage, ReadData, SaveCursor, SaveCursorError, Drained,
     DeleteOldVersions, ReadOldPage, DeleteOldData, DeleteOldKeys, DeleteCursor, DeleteCursorError
<1>5. CASE Worker \/ Expire \/ UNCHANGED vars
  BY <1>5 DEF Worker, Expire, vars, rotationVars
<1> QED
  BY <1>1, <1>2, <1>3, <1>4, <1>5 DEF Next, Produce

LEMMA JobsPairedStep == Inv /\ JobsPaired /\ [Next]_vars => JobsPaired'
  BY JobsEffect DEF JobsPaired, JobsOf

Typed == Inv /\ CallsOK /\ BufferOK /\ JobsPaired

LEMMA TypedIsTypeOK ==
    ASSUME FlushItem = [uuid : Chunk, version : Nat, secret : Nat], Typed
    PROVE  RotationTypeOK
<1>1. FlushItem = AllItems
  BY DEF AllItems
<1>2. accepted \subseteq FlushItem
  BY <1>1 DEF Typed, BufferOK
<1>3. /\ rows \in [Table -> SUBSET FlushItem]
      /\ \A r \in Rotation : chunks[r] \subseteq FlushItem
  <2>1. rows \in [Table -> SUBSET accepted] /\ \A r \in Rotation : chunks[r] \subseteq accepted
    BY DEF Typed, Inv, Sourced
  <2> QED
    BY <1>2, <2>1
<1>4. \A r \in Rotation : \A j \in jobs[r] :
         j \in FlushItem \X FlushItem /\ j[1].uuid = j[2].uuid
  <2>1. \A r \in Rotation : jobs[r] \subseteq accepted \X accepted
    BY DEF Typed, Inv, Sourced
  <2> QED
    BY <1>2, <2>1 DEF Typed, JobsPaired
<1>5. BufferTypeOK
  BY <1>2, <1>3 DEF BufferTypeOK, TablesTypeOK, BufferOK, Typed, Inv, Sourced
<1>6. \A r \in Rotation, j \in UNION {jobs[q] : q \in Rotation} :
         j \in FlushItem \X FlushItem /\ j[1].uuid = j[2].uuid
  BY <1>4
<1> QED
  BY <1>3, <1>5, <1>6 DEF RotationTypeOK, Typed, CallsOK, BufferOK, Phase

LEMMA TypedStep == Typed /\ [Next]_vars => Typed'
  BY InvStep, CallsStep, BufferStep, JobsPairedStep DEF Typed

\* The types of tables, buffer and calls, if items are records of a chunk, a
\* version and a secret.
THEOREM RotationTyped ==
    ASSUME FlushItem = [uuid : Chunk, version : Nat, secret : Nat]
    PROVE  Spec => []RotationTypeOK
<1>1. Init => Typed
  BY InitInv, InitCalls, InitBuffer DEF Typed
<1>2. Typed => RotationTypeOK
  BY TypedIsTypeOK
<1> QED
  BY <1>1, <1>2, TypedStep, PTL DEF Spec
=============================================================================
