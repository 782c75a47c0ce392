---------------------------- MODULE VersionProofs ---------------------------
(***************************************************************************)
(* In which order the versions of a chunk come into being: version v + 1   *)
(* is made from a pair of version v that was in both tables, whatever      *)
(* overlaps and whatever fails.                                            *)
(***************************************************************************)
EXTENDS RotationSteps

\* A call makes a key for a chunk once, and only for chunks it has read.
MadeOnce ==
    /\ \A x, y \in accepted : x.uuid = y.uuid /\ x.secret = y.secret => x = y
    /\ \A x \in accepted, r \in Rotation : x.secret = r =>
          /\ phase[r] # "off"
          /\ phase[r] \in Producing => x.uuid <= at[r]
          /\ \A j \in jobs[r] : j[1].uuid # x.uuid

LEMMA MadeOnceStep ==
    ASSUME Inv, CallsOK, InStages, MadeOnce, [Next]_vars
    PROVE  MadeOnce'
<1> DEFINE Marked(r, x) ==
               /\ phase[r] # "off"
               /\ phase[r] \in Producing => x.uuid <= at[r]
               /\ \A j \in jobs[r] : j[1].uuid # x.uuid
<1>0. /\ phase \in [Rotation -> Phase] /\ at \in [Rotation -> Chunk \cup {Nil}]
      /\ jobs \in [Rotation -> SUBSET (accepted \X accepted)]
  BY DEF Inv, Sourced, CallsOK
<1>1. ASSUME NEW q \in Rotation, NEW j \in jobs[q], Flush(q, j) PROVE MadeOnce'
  <2> DEFINE n == NewItem(q, j)
  <2>1. phase[q] \in Producing /\ j[1].uuid <= at[q] /\ \A k \in jobs[q] : k # j => k[1].uuid # j[1].uuid
    BY DEF InStages, Staged
  <2>2. /\ phase' = phase /\ at' = at /\ accepted' = accepted \cup {n}
        /\ jobs' = [jobs EXCEPT ![q] = @ \ {j}]
    BY <1>1 DEF Flush, Accept
  <2>3. n.uuid = j[1].uuid /\ n.secret = q
    BY DEF NewItem
  <2>4. \A x \in accepted : ~(x.uuid = n.uuid /\ x.secret = n.secret)
    BY <2>3 DEF MadeOnce
  <2>5. \A r \in Rotation : jobs'[r] = IF r = q THEN jobs[q] \ {j} ELSE jobs[r]
    BY <1>0, <2>2
  <2>6. phase[q] # "off"
    BY <2>1 DEF Producing
  <2> HIDE DEF n
  <2>7. \A x, y \in accepted' : x.uuid = y.uuid /\ x.secret = y.secret => x = y
    BY <2>2, <2>4 DEF MadeOnce
  <2>8. ASSUME NEW x \in accepted', NEW r \in Rotation, x.secret = r PROVE Marked(r, x)'
    <3>1. CASE x \in accepted
      BY <2>2, <2>5, <2>8, <3>1 DEF MadeOnce
    <3>2. CASE x = n
      BY <2>1, <2>2, <2>3, <2>5, <2>6, <2>8, <3>2
    <3> QED
      BY <2>2, <3>1, <3>2
  <2> QED
    BY <2>7, <2>8 DEF MadeOnce
<1>2. CASE accepted' = accepted
  <2> SUFFICES ASSUME NEW x \in accepted, NEW r \in Rotation, x.secret = r PROVE Marked(r, x)'
    BY <1>2 DEF MadeOnce
  <2>0. Marked(r, x)
    BY DEF MadeOnce
  <2>1. CASE /\ phase'[r] # "off" /\ jobs'[r] \subseteq jobs[r]
             /\ phase'[r] \in Producing => phase[r] \in Producing /\ at'[r] = at[r]
    BY <2>0, <2>1
  <2>2. ~Start(r)
    BY <2>0 DEF Start
  <2>3. CASE ReadKeys(r)
    <3>1. phase[r] = "keys" /\ phase'[r] \in {"save", "desync"} /\ at'[r] = LastOf(page[r])
      BY <1>0, <2>3 DEF ReadKeys, Goto
    <3>2. page[r] # {} /\ page[r] \in SUBSET Chunk /\ \A u \in page[r] : u > at[r]
      BY <3>1 DEF CallsOK, Paged
    <3>3. LastOf(page[r]) \in page[r]
      BY <3>2, LastOfPage
    <3>4. at[r] \in Nat /\ x.uuid \in Nat /\ \A u \in page[r] : u \in Nat
      <4>1. at[r] \in Chunk \cup {Nil} /\ x.uuid \in Chunk \cup {Nil}
        BY <1>0 DEF Inv, Items
      <4> QED
        BY <3>2, <4>1, CursorIsNumber, ChunkAssumption
    <3>5. x.uuid <= at[r]
      BY <2>0, <3>1 DEF Producing
    <3>6. \A u \in page[r] : x.uuid < u
      BY <3>2, <3>4, <3>5
    <3>7. ASSUME NEW j \in jobs'[r] PROVE j \in jobs[r] \/ j[1].uuid \in page[r]
      <4>1. ASSUME NEW D \in SUBSET chunks[r], NEW k \in JobsOf(D, Latest("keys", page[r]))
            PROVE  k[1].uuid \in page[r]
        <5>1. k[1] \in chunks[r]
          BY DEF JobsOf
        <5> QED
          BY <5>1 DEF InStages, Staged
      <4> QED
        BY <4>1, JobsEffect
    <3>8. x.uuid <= LastOf(page[r])
      BY <3>3, <3>4, <3>6
    <3>9. \A j \in jobs'[r] : j[1].uuid # x.uuid
      BY <2>0, <3>4, <3>6, <3>7
    <3> QED
      BY <3>1, <3>8, <3>9
  <2>4. CASE ReadPage(r) \/ ReadData(r) \/ SaveCursor(r) \/ SaveCursorError(r)
    BY <1>0, <2>1, <2>4 DEF ReadPage, ReadData, SaveCursor, SaveCursorError, Goto, Producing
  <2>5. CASE Drained(r) \/ DeleteOldVersions(r)
    BY <1>0, <2>1, <2>5 DEF Drained, DeleteOldVersions, ReadOldPage, DeleteOldData, DeleteOldKeys,
       Goto, Producing
  <2>6. CASE DeleteCursor(r) \/ DeleteCursorError(r) \/ Abort(r) \/ FailedChunk(r)
    BY <1>0, <2>1, <2>6 DEF DeleteCursor, DeleteCursorError, Abort, FailedChunk, Fail, Return, Goto, Producing
  <2>7. CASE \E j \in jobs[r] : Flush(r, j)
    BY <1>0, <2>0, <2>1, <2>7 DEF Flush
  <2>8. CASE Local(r)' = Local(r)
    BY <2>0, <2>1, <2>8 DEF Local
  <2> QED
    BY <2>2, <2>3, <2>4, <2>5, <2>6, <2>7, <2>8, LocalEffect DEF Acts, Produce
<1> QED
  BY <1>1, <1>2, AcceptedEffect

-----------------------------------------------------------------------------
\* What a table has, or has in a newer version, it has for good.
LEMMA DoneStays ==
    ASSUME Inv, [Next]_vars, NEW t \in Table, NEW x \in accepted, Done(t, x)
    PROVE  Done(t, x)'
<1>1. CASE rows' = rows
  BY <1>1 DEF Done, Newer
<1>2. ASSUME NEW s \in Table, NEW X, InsertRows(s, X) PROVE Done(t, x)'
  <2>1. rows[t] \subseteq rows'[t]
    BY <1>2 DEF InsertRows, Inv, Sourced
  <2> QED
    BY <2>1 DEF Done, Newer
<1>3. ASSUME NEW s \in Table, NEW q \in Rotation, DeleteOld(s, page[q]) PROVE Done(t, x)'
  BY <1>3, DeletionKeepsNewest DEF Done
<1> QED
  BY <1>1, <1>2, <1>3, TablesEffect

\* What a call has read from a table is done in that table.
ReadDone == \A r \in Rotation :
    /\ \A d \in chunks[r] : Done("data", d)
    /\ \A j \in jobs[r] : Done("data", j[1]) /\ Done("keys", j[2])

LEMMA ReadDoneStep ==
    ASSUME Inv, CallsOK, ReadDone, [Next]_vars
    PROVE  ReadDone'
<1> SUFFICES ASSUME NEW r \in Rotation
             PROVE  /\ \A d \in chunks'[r] : Done("data", d)'
                    /\ \A j \in jobs'[r] : Done("data", j[1])' /\ Done("keys", j[2])'
  BY DEF ReadDone
<1>0. /\ chunks \in [Rotation -> SUBSET accepted]
      /\ jobs \in [Rotation -> SUBSET (accepted \X accepted)]
      /\ "data" \in Table /\ "keys" \in Table
      /\ rows \in [Table -> SUBSET accepted]
  BY DEF Inv, Sourced, Table
<1>1. ASSUME NEW d \in chunks[r] PROVE Done("data", d)'
  BY <1>0, DoneStays DEF ReadDone
<1>2. ASSUME NEW j \in jobs[r] PROVE Done("data", j[1])' /\ Done("keys", j[2])'
  <2>1. j[1] \in accepted /\ j[2] \in accepted
    BY <1>0
  <2> QED
    BY <1>0, <2>1, DoneStays DEF ReadDone
<1>3. ASSUME NEW t \in Table, NEW S, NEW x \in Latest(t, S) PROVE Done(t, x)'
  <2>1. x \in rows[t] /\ x \in accepted
    BY <1>0 DEF Latest
  <2> QED
    BY <2>1, DoneStays DEF Done
<1>4. ASSUME NEW j \in jobs'[r] PROVE Done("data", j[1])' /\ Done("keys", j[2])'
  <2>1. ASSUME NEW D \in SUBSET chunks[r], NEW k \in JobsOf(D, Latest("keys", page[r]))
        PROVE  Done("data", k[1])' /\ Done("keys", k[2])'
    <3>1. k[1] \in chunks[r] /\ k[2] \in Latest("keys", page[r])
      BY DEF JobsOf
    <3> QED
      BY <1>0, <1>1, <1>3, <3>1
  <2> QED
    BY <1>2, <2>1, JobsEffect
<1>5. ASSUME NEW d \in chunks'[r] PROVE Done("data", d)'
  <2>1. CASE chunks'[r] \subseteq chunks[r]
    BY <1>1, <2>1
  <2>2. CASE ReadData(r)
    <3>1. chunks'[r] = Latest("data", page[r])
      BY <1>0, <2>2 DEF ReadData
    <3> QED
      BY <1>0, <1>3, <3>1
  <2>3. CASE ReadKeys(r)
    BY <1>0, <2>1, <2>3 DEF ReadKeys
  <2>4. CASE \/ Start(r) \/ ReadPage(r) \/ SaveCursor(r) \/ SaveCursorError(r) \/ Drained(r)
             \/ DeleteOldVersions(r) \/ \E j \in jobs[r] : Flush(r, j)
    BY <2>1, <2>4 DEF Start, ReadPage, SaveCursor, SaveCursorError, Drained, DeleteOldVersions,
       ReadOldPage, DeleteOldData, DeleteOldKeys, Flush
  <2>5. CASE DeleteCursor(r) \/ DeleteCursorError(r) \/ Abort(r) \/ FailedChunk(r)
    BY <1>0, <2>1, <2>5 DEF DeleteCursor, DeleteCursorError, Abort, FailedChunk, Fail, Return
  <2>6. CASE Local(r)' = Local(r)
    BY <2>1, <2>6 DEF Local
  <2> QED
    BY <2>2, <2>3, <2>4, <2>5, <2>6, LocalEffect DEF Acts, Produce
<1> QED
  BY <1>4, <1>5

-----------------------------------------------------------------------------
\* No version is left out, and those below another one are done in both tables.
Dense == \A x \in accepted : \A v \in Nat : 1 <= v /\ v <= x.version =>
             \E y \in accepted : y.uuid = x.uuid /\ y.version = v

Below == \A x, y \in accepted : x.uuid = y.uuid /\ y.version < x.version =>
             Conflict(x.uuid) \/ \A t \in Table : Done(t, y)

LEMMA DenseStep == ASSUME Inv, Dense, [Next]_vars PROVE Dense'
<1>1. CASE accepted' = accepted
  BY <1>1 DEF Dense
<1>2. ASSUME NEW r \in Rotation, NEW j \in jobs[r], Flush(r, j) PROVE Dense'
  <2> DEFINE n == NewItem(r, j)
  <2>1. accepted' = accepted \cup {n}
    BY <1>2 DEF Flush, Accept
  <2>2. j[1] \in accepted /\ j[1].version \in Nat
    <3>1. j[1] \in accepted
      BY DEF Inv, Sourced
    <3> QED
      BY <3>1 DEF Inv, Items
  <2>3. n.uuid = j[1].uuid /\ n.version = j[1].version + 1
    BY DEF NewItem
  <2> HIDE DEF n
  <2>4. ASSUME NEW v \in Nat, 1 <= v, v <= n.version
        PROVE  \E y \in accepted' : y.uuid = n.uuid /\ y.version = v
    <3>1. CASE v = n.version
      BY <2>1, <3>1
    <3>2. CASE v <= j[1].version
      BY <2>1, <2>2, <2>3, <2>4, <3>2 DEF Dense
    <3> QED
      BY <2>2, <2>3, <2>4, <3>1, <3>2
  <2> QED
    BY <2>1, <2>4 DEF Dense
<1> QED
  BY <1>1, <1>2, AcceptedEffect

LEMMA BelowStep ==
    ASSUME Inv, JobsPaired, MadeOnce, ReadDone, Dense, Below, [Next]_vars
    PROVE  Below'
<1>0. \A x \in accepted, t \in Table : Done(t, x) => Done(t, x)'
  BY DoneStays
<1>1. CASE accepted' = accepted
  BY <1>0, <1>1 DEF Below, Conflict
<1>2. ASSUME NEW r \in Rotation, NEW j \in jobs[r], Flush(r, j) PROVE Below'
  <2> DEFINE n == NewItem(r, j)
  <2>1. accepted' = accepted \cup {n}
    BY <1>2 DEF Flush, Accept
  <2>2. j[1] \in accepted /\ j[2] \in accepted
    BY DEF Inv, Sourced
  <2>3. j[1] = j[2]
    BY <1>2, <2>2 DEF Flush, Decrypts, JobsPaired, MadeOnce
  <2>4. \A t \in Table : Done(t, j[1])
    BY <2>3 DEF ReadDone, Table
  <2>5. n.uuid = j[1].uuid /\ n.version = j[1].version + 1
    BY DEF NewItem
  <2>6. j[1].version \in Nat /\ \A x \in accepted : x.version \in Nat
    BY <2>2 DEF Inv, Items
  <2> HIDE DEF n
  <2>7. \A c : Conflict(c) => Conflict(c)'
    BY <2>1 DEF Conflict
  <2>8. ASSUME NEW y \in accepted, y.uuid = n.uuid, y.version < n.version
        PROVE  Conflict(n.uuid)' \/ \A t \in Table : Done(t, y)'
    <3>1. CASE y.version < j[1].version
      BY <1>0, <2>2, <2>5, <2>7, <2>8, <3>1 DEF Below
    <3>2. CASE y.version = j[1].version
      <4>1. y = j[1] \/ Conflict(n.uuid)
        BY <2>2, <2>5, <2>8, <3>2 DEF Conflict, SamePrimaryKey
      <4> QED
        BY <1>0, <2>4, <2>7, <4>1
    <3> QED
      BY <2>5, <2>6, <2>8, <3>1, <3>2
  <2>9. ASSUME NEW x \in accepted, x.uuid = n.uuid, n.version < x.version, n \notin accepted
        PROVE  Conflict(x.uuid)'
    <3>1. PICK y \in accepted : y.uuid = x.uuid /\ y.version = n.version
      BY <2>5, <2>6, <2>9 DEF Dense
    <3>2. y # n /\ SamePrimaryKey(y, n)
      BY <2>9, <3>1 DEF SamePrimaryKey
    <3> QED
      BY <2>1, <3>1, <3>2 DEF Conflict
  <2>10. ~(n.version < n.version)
    BY <2>5, <2>6
  <2>11. CASE n \in accepted
    <3>1. accepted' = accepted
      BY <2>1, <2>11
    <3> QED
      BY <1>1, <3>1
  <2>12. CASE n \notin accepted
    <3> SUFFICES ASSUME NEW x \in accepted', NEW y \in accepted', x.uuid = y.uuid, y.version < x.version
                 PROVE  Conflict(x.uuid)' \/ \A t \in Table : Done(t, y)'
      BY DEF Below
    <3>1. CASE x \in accepted /\ y \in accepted
      BY <1>0, <2>7, <3>1 DEF Below
    <3>2. CASE x = n /\ y \in accepted
      BY <2>8, <3>2
    <3>3. CASE x \in accepted /\ y = n
      BY <2>9, <2>12, <3>3
    <3> QED
      BY <2>1, <2>10, <3>1, <3>2, <3>3
  <2> QED
    BY <2>11, <2>12
<1> QED
  BY <1>1, <1>2, AcceptedEffect

-----------------------------------------------------------------------------
Versions == Inv /\ CallsOK /\ JobsPaired /\ Keyed /\ InStages /\ MadeOnce /\ ReadDone /\ Dense /\ Below

LEMMA InitVersions == Init => Versions
<1> SUFFICES ASSUME Init PROVE Versions
  OBVIOUS
<1>1. Inv /\ CallsOK /\ JobsPaired
  BY InitInv, InitCalls, InitBuffer
<1>2. Keyed /\ InStages /\ ReadDone
  BY DEF Init, TablesInit, Keyed, InStages, Staged, ReadDone
<1>3. MadeOnce
  BY RotationAssumption DEF Init, MadeOnce, Upload, Nil
<1>4. Dense /\ Below
  <2>1. \A x \in accepted : x = Upload(x.uuid) /\ x.version = 1
    BY DEF Init, Upload
  <2>2. \A v \in Nat : 1 <= v /\ v <= 1 => v = 1
    OBVIOUS
  <2>3. ~(1 < 1)
    OBVIOUS
  <2> QED
    BY <2>1, <2>2, <2>3 DEF Dense, Below
<1> QED
  BY <1>1, <1>2, <1>3, <1>4 DEF Versions

LEMMA VersionsStep == Versions /\ [Next]_vars => Versions'
  BY InvStep, CallsStep, JobsPairedStep, KeyedStep, InStagesStep, MadeOnceStep, ReadDoneStep,
     DenseStep, BelowStep DEF Versions

\* A rotation makes the next version of a chunk only from an item that is in
\* both tables, or was and has been followed there: never from data whose key
\* is still in the buffer, whatever is stored between its two reads.
THEOREM MadeOfPairs == Spec => MadeFromStored
<1> DEFINE Made == \A n \in accepted' \ accepted : \E x \in accepted :
                      /\ x.uuid = n.uuid /\ n.version = x.version + 1
                      /\ \A t \in Table : Done(t, x)
<1>1. Versions /\ [Next]_vars => [Made]_vars
  <2> SUFFICES ASSUME Versions, [Next]_vars, NEW n \in accepted' \ accepted
               PROVE  \E x \in accepted : /\ x.uuid = n.uuid /\ n.version = x.version + 1
                                          /\ \A t \in Table : Done(t, x)
    OBVIOUS
  <2>1. PICK r \in Rotation : \E j \in jobs[r] : Flush(r, j)
    BY AcceptedEffect DEF Versions
  <2>2. PICK j \in jobs[r] : Flush(r, j)
    BY <2>1
  <2>3. n = NewItem(r, j) /\ Decrypts(j)
    BY <2>2 DEF Flush, Accept
  <2>4. j[1] \in accepted /\ j[1] = j[2]
    BY <2>3 DEF Versions, Inv, Sourced, Decrypts, JobsPaired, MadeOnce
  <2>5. \A t \in Table : Done(t, j[1])
    BY <2>4 DEF Versions, ReadDone, Table
  <2> QED
    BY <2>3, <2>4, <2>5 DEF NewItem
<1> QED
  BY <1>1, InitVersions, VersionsStep, PTL DEF Spec, MadeFromStored
=============================================================================
