---------------------------- MODULE RekeyProofs ----------------------------
(***************************************************************************)
(* What a 200 says of the keys of a file, whatever overlaps, fails or is   *)
(* swallowed: all chunks that had data when the rotation began, behind the *)
(* cursor that it loaded, have new keys.                                   *)
(***************************************************************************)
EXTENDS RotationSteps

-----------------------------------------------------------------------------
\* The chunks that r is to rekey have data as long as it runs.
OwedPresent == \A r \in Rotation : \A c \in owed[r] : \E x \in rows["data"] : x.uuid = c

LEMMA OwedPresentStep ==
    ASSUME Inv, CallsOK, OwedPresent, [Next]_vars
    PROVE  OwedPresent'
<1> SUFFICES ASSUME NEW r \in Rotation, NEW c \in owed'[r]
             PROVE  \E x \in rows'["data"] : x.uuid = c
  BY DEF OwedPresent
<1>1. CASE c \in owed[r]
  <2>1. PICK x \in rows["data"] : x.uuid = c
    BY <1>1 DEF OwedPresent
  <2> QED
    BY <2>1, DataStay
<1>2. CASE Start(r)
  BY <1>2 DEF Start, CallsOK
<1>3. ASSUME ~Start(r) PROVE owed'[r] \subseteq owed[r]
  <2>1. CASE Local(r)' = Local(r)
    BY <2>1 DEF Local
  <2>2. CASE Produce(r) \/ SaveCursorError(r) \/ Drained(r) \/ DeleteOldVersions(r)
    BY <2>2 DEF Produce, ReadPage, ReadData, ReadKeys, SaveCursor, SaveCursorError, Drained,
       DeleteOldVersions, ReadOldPage, DeleteOldData, DeleteOldKeys
  <2>3. CASE DeleteCursor(r) \/ DeleteCursorError(r) \/ Abort(r) \/ FailedChunk(r)
    BY <2>3 DEF DeleteCursor, DeleteCursorError, Abort, FailedChunk, Fail, Return, CallsOK
  <2>4. CASE \E j \in jobs[r] : Flush(r, j)
    BY <2>4 DEF Flush
  <2> QED
    BY <1>3, <2>1, <2>2, <2>3, <2>4, LocalEffect DEF Acts
<1> QED
  BY <1>1, <1>2, <1>3

-----------------------------------------------------------------------------
Deleting == {"oldids", "deldata", "delkeys", "delcursor"}

\* What a rotation has done so far for the chunks that it owes: its page leaves
\* out none, its data are of all that are in the page, and each that lies behind
\* it is on its way or rekeyed.
Whole(r) ==
    /\ phase[r] \in {"data", "keys"} =>
          \A u \in page[r], c \in owed[r] : at[r] < c /\ c < u => c \in page[r]
    /\ phase[r] = "keys" =>
          \A c \in owed[r] : c \in page[r] => \E d \in chunks[r] : d.uuid = c
    /\ phase[r] \in Producing \ {"desync"} =>
          \A c \in owed[r] : c <= at[r] =>
              Rekeyed(r, c) \/ \E j \in jobs[r] : j[1].uuid = c
    /\ phase[r] = "wait" => \A c \in owed[r] : c <= at[r]
    /\ phase[r] \in Deleting => \A c \in owed[r] : Rekeyed(r, c)

Wholes == \A r \in Rotation : Whole(r)

LEMMA RekeyedStays ==
    ASSUME [Next]_vars, NEW r, NEW c, Rekeyed(r, c)
    PROVE  Rekeyed(r, c)'
<1>1. ASSUME NEW q \in Rotation, NEW j \in jobs[q], Flush(q, j) PROVE accepted \subseteq accepted'
  BY <1>1 DEF Flush, Accept
<1> QED
  BY <1>1, AcceptedEffect DEF Rekeyed

\* The jobs of a page, if every chunk has a key.
LEMMA JobsOfPage ==
    ASSUME Inv, CallsOK, Wholes, NEW r \in Rotation, ReadKeys(r), phase'[r] # "desync",
           NEW c \in owed[r], c \in page[r]
    PROVE  \E j \in jobs'[r] : j[1].uuid = c
<1> DEFINE K == Latest("keys", page[r])
           desync == {d \in chunks[r] : \A k \in K : k.uuid # d.uuid}
           D == {d \in chunks[r] : \A e \in desync : d.uuid < e.uuid}
<1>0. phase \in [Rotation -> Phase] /\ jobs \in [Rotation -> SUBSET (accepted \X accepted)]
  BY DEF CallsOK, Inv, Sourced
<1>1. phase[r] = "keys" /\ desync = {}
  BY <1>0 DEF ReadKeys, Goto
<1>2. PICK d \in chunks[r] : d.uuid = c
  BY <1>1 DEF Wholes, Whole
<1>3. PICK k \in K : k.uuid = d.uuid
  BY <1>1
<1>4. <<d, k>> \in JobsOf(D, K)
  BY <1>1, <1>3 DEF JobsOf
<1>5. jobs'[r] = jobs[r] \cup JobsOf(D, K)
  BY <1>0 DEF ReadKeys
<1> QED
  BY <1>2, <1>4, <1>5

LEMMA WholeStep ==
    ASSUME Inv, CallsOK, OwedPresent, Wholes, [Next]_vars
    PROVE  Wholes'
<1> SUFFICES ASSUME NEW r \in Rotation PROVE Whole(r)'
  BY DEF Wholes
<1>0. /\ phase \in [Rotation -> Phase]
      /\ at \in [Rotation -> Chunk \cup {Nil}]
      /\ page \in [Rotation -> SUBSET Chunk]
      /\ chunks \in [Rotation -> SUBSET accepted]
      /\ jobs \in [Rotation -> SUBSET (accepted \X accepted)]
      /\ owed \in [Rotation -> SUBSET Chunk]
  BY DEF CallsOK, Inv, Sourced
<1>n. \A c \in Chunk : c \in Nat
  BY CursorIsNumber
<1>a. at[r] \in Nat /\ \A c \in owed[r] : c \in Chunk /\ c \in Nat
  BY <1>0, CursorIsNumber
<1>b. Whole(r) /\ \A c : Rekeyed(r, c) => Rekeyed(r, c)'
  BY RekeyedStays DEF Wholes
<1>c. \A c \in owed[r] : \E x \in rows["data"] : x.uuid = c
  BY DEF OwedPresent
<1>1. CASE Local(r)' = Local(r)
  BY <1>b, <1>1 DEF Local, Whole
<1>2. CASE Start(r)
  <2>1. phase'[r] = "ids" /\ at'[r] = cursor
        /\ \A c \in owed'[r] : c \in Chunk /\ c > cursor
    BY <1>0, <1>2 DEF Start, Goto
  <2>2. cursor \in Nat
    BY CursorIsNumber DEF CallsOK
  <2>3. \A c \in owed'[r] : ~(c <= cursor)
    <3> SUFFICES ASSUME NEW c \in owed'[r] PROVE ~(c <= cursor)
      OBVIOUS
    <3>1. c \in Nat /\ c > cursor
      BY <1>n, <2>1
    <3> QED
      BY <2>2, <3>1
  <2> QED
    BY <2>1, <2>3 DEF Whole, Producing, Deleting
<1>3. CASE ReadPage(r)
  <2>1. /\ phase[r] = "ids" /\ page'[r] = ChunkUUIDs(at[r], PageSize)
        /\ phase'[r] = IF page'[r] = {} THEN "wait" ELSE "data"
        /\ UNCHANGED <<at, owed, jobs, chunks>>
    BY <1>0, <1>3 DEF ReadPage, Goto
  <2>2. ASSUME NEW u \in page'[r], NEW c \in owed[r], at[r] < c, c < u PROVE c \in page'[r]
    <3>1. PICK x \in rows["data"] : x.uuid = c
      BY <1>c
    <3> QED
      BY <1>a, <2>1, <2>2, <3>1, PageIsPrefix, PageSizeAssumption
  <2>3. ASSUME page'[r] = {}, NEW c \in owed[r] PROVE c <= at[r]
    <3>1. ~(c > at[r])
      <4>1. PICK x \in rows["data"] : x.uuid = c
        BY <1>c
      <4> QED
        BY <2>1, <2>3, <4>1, EmptyPageIsEnd, PageSizeAssumption
    <3> QED
      BY <1>a, <3>1
  <2> QED
    BY <1>b, <2>1, <2>2, <2>3 DEF Whole, Producing, Deleting
<1>4. CASE ReadData(r)
  <2>1. /\ phase[r] = "data" /\ phase'[r] = "keys" /\ chunks'[r] = Latest("data", page[r])
        /\ UNCHANGED <<at, owed, jobs, page>>
    BY <1>0, <1>4 DEF ReadData, Goto
  <2>2. ASSUME NEW c \in owed[r], c \in page[r] PROVE \E d \in chunks'[r] : d.uuid = c
    <3>1. PICK x \in rows["data"] : x.uuid = c
      BY <1>c
    <3> QED
      BY <2>1, <2>2, <3>1, LatestExists DEF Table
  <2> QED
    BY <1>b, <2>1, <2>2 DEF Whole, Producing, Deleting
<1>5. CASE ReadKeys(r)
  <2>1. /\ phase[r] = "keys" /\ phase'[r] \in {"save", "desync"} /\ at'[r] = LastOf(page[r])
        /\ owed' = owed /\ jobs[r] \subseteq jobs'[r]
    BY <1>0, <1>5 DEF ReadKeys, Goto
  <2>2. page[r] # {} /\ page[r] \in SUBSET Chunk
    BY <1>0, <2>1 DEF CallsOK, Paged
  <2>3. LastOf(page[r]) \in page[r]
    BY <2>2, LastOfPage
  <2>4. ASSUME phase'[r] # "desync", NEW c \in owed[r], c <= LastOf(page[r])
        PROVE  Rekeyed(r, c)' \/ \E j \in jobs'[r] : j[1].uuid = c
    <3>1. CASE c <= at[r]
      BY <1>b, <2>1, <2>4, <3>1 DEF Whole, Producing
    <3>2. CASE at[r] < c
      <4>1. c = LastOf(page[r]) \/ c < LastOf(page[r])
        <5>1. LastOf(page[r]) \in Nat /\ c \in Nat
          BY <1>a, <1>n, <2>2, <2>3
        <5> QED
          BY <2>4, <5>1
      <4>2. c \in page[r]
        BY <1>b, <2>1, <2>3, <3>2, <4>1 DEF Whole
      <4> QED
        BY <1>5, <2>4, <4>2, JobsOfPage
    <3> QED
      BY <1>a, <3>1, <3>2
  <2> QED
    BY <2>1, <2>4 DEF Whole, Producing, Deleting
<1>6. CASE SaveCursor(r) \/ SaveCursorError(r)
  <2>1. phase[r] = "save" /\ phase'[r] = "ids" /\ UNCHANGED <<at, owed, jobs>>
    BY <1>0, <1>6 DEF SaveCursor, SaveCursorError, Goto
  <2> QED
    BY <1>b, <2>1 DEF Whole, Producing, Deleting
<1>7. ASSUME NEW j \in jobs[r], Flush(r, j) PROVE Whole(r)'
  <2>1. /\ UNCHANGED <<phase, at, page, chunks, owed>>
        /\ jobs' = [jobs EXCEPT ![r] = @ \ {j}]
        /\ accepted' = accepted \cup {NewItem(r, j)}
    BY <1>7 DEF Flush, Accept
  <2>2. jobs'[r] = jobs[r] \ {j}
    BY <1>0, <2>1
  <2>3. Rekeyed(r, j[1].uuid)'
    <3>1. NewItem(r, j).uuid = j[1].uuid /\ NewItem(r, j).secret = r
      BY DEF NewItem
    <3> QED
      BY <2>1, <3>1 DEF Rekeyed
  <2>4. ASSUME NEW c \in owed[r], Rekeyed(r, c) \/ \E k \in jobs[r] : k[1].uuid = c
        PROVE  Rekeyed(r, c)' \/ \E k \in jobs'[r] : k[1].uuid = c
    BY <1>b, <2>2, <2>3, <2>4
  <2> QED
    BY <1>b, <2>1, <2>4 DEF Whole
<1>8. CASE Drained(r)
  <2>1. phase[r] = "wait" /\ jobs[r] = {} /\ phase'[r] = "oldids" /\ owed' = owed
    BY <1>0, <1>8 DEF Drained, Goto
  <2>2. \A c \in owed[r] : Rekeyed(r, c)
    BY <1>a, <1>b, <2>1 DEF Whole, Producing
  <2> QED
    BY <1>b, <2>1, <2>2 DEF Whole, Producing, Deleting
<1>9. CASE DeleteOldVersions(r)
  <2>1. phase[r] \in Deleting /\ phase'[r] \in Deleting /\ owed' = owed
    BY <1>0, <1>9 DEF DeleteOldVersions, ReadOldPage, DeleteOldData, DeleteOldKeys, Goto, Deleting
  <2> QED
    BY <1>b, <2>1 DEF Whole, Producing, Deleting
<1>10. CASE DeleteCursor(r) \/ DeleteCursorError(r) \/ Abort(r) \/ FailedChunk(r)
  <2>1. phase'[r] \in {"ok", "failed"}
    BY <1>0, <1>10 DEF DeleteCursor, DeleteCursorError, Abort, FailedChunk, Fail, Return, Goto
  <2> QED
    BY <2>1 DEF Whole, Producing, Deleting
<1>11. Acts(r) \/ Local(r)' = Local(r)
  BY LocalEffect
<1> QED
  BY <1>1, <1>2, <1>3, <1>4, <1>5, <1>6, <1>7, <1>8, <1>9, <1>10, <1>11 DEF Acts, Produce

\* The only step by which a running call answers 200 is its last one.
LEMMA AnswersLast ==
    ASSUME Inv, CallsOK, [Next]_vars, NEW r \in Rotation, Running(r), phase'[r] = "ok"
    PROVE  phase[r] = "delcursor"
<1>0. phase \in [Rotation -> Phase]
  BY DEF CallsOK
<1>1. CASE Local(r)' = Local(r)
  BY <1>1 DEF Local, Running, Ended
<1>2. CASE Start(r) \/ Produce(r) \/ SaveCursorError(r) \/ Drained(r)
  BY <1>0, <1>2 DEF Start, Produce, ReadPage, ReadData, ReadKeys, SaveCursor, SaveCursorError,
     Drained, Goto
<1>3. CASE DeleteOldVersions(r)
  BY <1>0, <1>3 DEF DeleteOldVersions, ReadOldPage, DeleteOldData, DeleteOldKeys, Goto
<1>4. CASE Abort(r) \/ FailedChunk(r)
  BY <1>0, <1>4 DEF Abort, FailedChunk, Fail, Return, Goto
<1>5. CASE \E j \in jobs[r] : Flush(r, j)
  BY <1>5 DEF Flush, Running, Ended
<1>6. CASE DeleteCursor(r) \/ DeleteCursorError(r)
  BY <1>6 DEF DeleteCursor, DeleteCursorError
<1> QED
  BY <1>1, <1>2, <1>3, <1>4, <1>5, <1>6, LocalEffect DEF Acts

\* A rotation that answers 200 has made a new key for every chunk that had data
\* when it began, behind the cursor that it loaded: for all clients, batches and
\* failures.
THEOREM AnsweredRekeys == Spec => RekeyedPresent
<1> DEFINE J == Inv /\ CallsOK /\ OwedPresent /\ Wholes
<1>1. Init => J
  <2> SUFFICES ASSUME Init PROVE OwedPresent /\ Wholes
    BY InitInv, InitCalls
  <2>1. \A r \in Rotation : phase[r] = "off" /\ owed[r] = {}
    BY DEF Init
  <2> QED
    BY <2>1 DEF OwedPresent, Wholes, Whole, Producing, Deleting
<1>2. J /\ [Next]_vars => J'
  BY InvStep, CallsStep, OwedPresentStep, WholeStep
<1>3. J /\ [Next]_vars =>
         [\A r \in Rotation : Running(r) /\ phase'[r] = "ok" =>
             \A c \in owed[r] : Rekeyed(r, c)]_vars
  <2> SUFFICES ASSUME J, [Next]_vars, NEW r \in Rotation, Running(r), phase'[r] = "ok"
               PROVE  \A c \in owed[r] : Rekeyed(r, c)
    OBVIOUS
  <2>1. phase[r] = "delcursor"
    BY AnswersLast
  <2> QED
    BY <2>1 DEF Wholes, Whole, Deleting
<1> HIDE DEF J
<1> QED
  BY <1>1, <1>2, <1>3, PTL DEF Spec, RekeyedPresent
=============================================================================
