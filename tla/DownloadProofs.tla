--------------------------- MODULE DownloadProofs ---------------------------
(***************************************************************************)
(* What a download guarantees for every page size, next to every number of *)
(* rotations, whatever overlaps and whatever fails.                        *)
(***************************************************************************)
EXTENDS Download, CarefulProofs, VersionProofs, SequenceTheorems

-----------------------------------------------------------------------------
\* Rotations and the worker make steps of their own under a download.
LEMMA RestSteps == [DownloadNext]_allVars => [Next]_vars
  BY DEF DownloadNext, Rest, Get, StreamFile, ReadIds, ReadLatestData, ReadLatestKeys, WriteChunk,
     ReadOldData, ReadOldKey, DownloadAbort, allVars

-----------------------------------------------------------------------------
\* Where a download is: the chunks written lie before those of its page, and
\* what was stored at the beginning is still there and was not left out.
Streaming == {"data", "keys", "chunk", "oldkey"}

LocalOK ==
    /\ step \in Streaming \cup {"off", "ids", "end"}
    /\ after \in Chunk \cup {Nil}
    /\ ids \in SUBSET Chunk
    /\ ids # {} <=> step \in Streaming
    /\ stored \in SUBSET Chunk
    /\ answer # "none" => step = "end"

InOrder ==
    /\ body \in Seq(Chunk)
    /\ \A i, j \in DOMAIN body : i < j => body[i] < body[j]
    /\ step = "off" => body = << >> /\ after = Nil
    /\ step = "ids" => \A w \in Written : w <= after
    /\ step \in Streaming => \A w \in Written, u \in ids : w < u

NoneLeftOut ==
    /\ Reading => \A c \in stored : \E x \in rows["data"] : x.uuid = c
    /\ step = "ids" => \A c \in stored : c <= after => c \in Written
    /\ step \in Streaming => \A c \in stored, u \in ids : c <= u => c \in Written \cup ids
    /\ answer \in {"200", "404"} => stored \subseteq Written

BodyInv == LocalOK /\ InOrder /\ NoneLeftOut

LEMMA InitBody == DownloadInit => BodyInv
  BY DEF DownloadInit, BodyInv, LocalOK, InOrder, NoneLeftOut, Streaming, Reading, Written

\* The sequence after another chunk was written.
LEMMA AppendWritten ==
    ASSUME body \in Seq(Chunk), NEW c \in Chunk, body' = Append(body, c)
    PROVE  /\ body' \in Seq(Chunk)
           /\ Written' = Written \cup {c}
           /\ (\A i, j \in DOMAIN body : i < j => body[i] < body[j]) /\ (\A w \in Written : w < c)
                 => \A i, j \in DOMAIN body' : i < j => body'[i] < body'[j]
<1>1. /\ body' \in Seq(Chunk) /\ Len(body') = Len(body) + 1 /\ Len(body) \in Nat
      /\ \A i \in 1..Len(body) : body'[i] = body[i]
      /\ body'[Len(body) + 1] = c
  BY AppendProperties, LenProperties
<1>2. DOMAIN body = 1..Len(body) /\ DOMAIN body' = 1..(Len(body) + 1)
  BY <1>1, LenProperties
<1>3. \A i \in DOMAIN body' : i \in DOMAIN body \/ i = Len(body) + 1
  BY <1>1, <1>2
<1>4. Written' = Written \cup {c}
  BY <1>1, <1>2, <1>3 DEF Written
<1>5. ASSUME \A i, j \in DOMAIN body : i < j => body[i] < body[j], \A w \in Written : w < c,
             NEW i \in DOMAIN body', NEW j \in DOMAIN body', i < j
      PROVE  body'[i] < body'[j]
  <2>1. i \in DOMAIN body
    BY <1>1, <1>2, <1>5
  <2>2. CASE j \in DOMAIN body
    BY <1>1, <1>2, <1>5, <2>1, <2>2
  <2>3. CASE j = Len(body) + 1
    BY <1>1, <1>2, <1>5, <2>1, <2>3 DEF Written
  <2> QED
    BY <1>3, <2>2, <2>3
<1> QED
  BY <1>1, <1>4, <1>5

\* The page of a download has a first chunk.
LEMMA FirstOfPage ==
    ASSUME NEW S \in SUBSET Chunk, S # {}
    PROVE  FirstOf(S) \in S /\ \A u \in S : FirstOf(S) <= u
  BY FirstExists DEF FirstOf

LEMMA EndedBody ==
    ASSUME BodyInv, step' = "end", ids' = {}, after' = Nil, UNCHANGED <<body, stored>>,
           answer' \in {"500", "cut"}
    PROVE  BodyInv'
  BY DEF BodyInv, LocalOK, InOrder, NoneLeftOut, Written, Reading, Streaming

LEMMA BodyStep == Inv /\ BodyInv /\ [DownloadNext]_allVars => BodyInv'
<1> SUFFICES ASSUME Inv, BodyInv, [DownloadNext]_allVars PROVE BodyInv'
  OBVIOUS
<1>0. \A u \in Chunk \cup {Nil} : u \in Nat
  BY CursorIsNumber
<1>1. CASE Rest
  <2>1. UNCHANGED <<localVars, body, answer, stored>> /\ [Next]_vars
    BY <1>1 DEF Rest
  <2>2. ASSUME NEW c, \E x \in rows["data"] : x.uuid = c PROVE \E x \in rows'["data"] : x.uuid = c
    BY <2>1, <2>2, DataStay
  <2> QED
    BY <2>1, <2>2 DEF localVars, BodyInv, LocalOK, InOrder, NoneLeftOut, Written, Reading
<1>2. CASE Get
  <2>1. /\ step = "off" /\ step' = "ids" /\ stored' = {r.uuid : r \in rows["data"]}
        /\ UNCHANGED <<rows, after, ids, body, answer>>
    BY <1>2 DEF Get, vars
  <2>2. stored' \in SUBSET Chunk
    BY <2>1 DEF Inv, Sourced, Items, Table
  <2>3. Written = {} /\ Written' = {} /\ after = Nil
    BY <2>1 DEF BodyInv, InOrder, Written
  <2>4. \A c \in stored' : ~(c <= after)
    <3>1. \A c \in stored' : c \in Nat /\ c # 0
      BY <2>2, ChunkAssumption
    <3> QED
      BY <2>3, <3>1 DEF Nil
  <2>5. LocalOK'
    BY <2>1, <2>2 DEF BodyInv, LocalOK, Streaming
  <2>6. InOrder'
    BY <2>1, <2>3 DEF BodyInv, InOrder, Streaming
  <2>7. NoneLeftOut'
    BY <2>1, <2>4 DEF BodyInv, LocalOK, NoneLeftOut, Streaming, Reading
  <2> QED
    BY <2>5, <2>6, <2>7 DEF BodyInv
<1>3. CASE ReadIds
  <2> DEFINE P == ChunkUUIDs(after, DownloadPage)
  <2>1. step = "ids" /\ UNCHANGED <<rows, body, stored>>
    BY <1>3 DEF ReadIds, vars, historyVars
  <2>2. after \in Nat /\ \A w \in Written : w \in Nat /\ w <= after
    <3>1. \A w \in Written : w \in Chunk
      BY DEF BodyInv, InOrder, Written
    <3> QED
      BY <1>0, <2>1, <3>1 DEF BodyInv, LocalOK, InOrder
  <2>3. \A u \in P : u \in Chunk /\ u \in Nat /\ after < u
    <3>1. \A d \in rows["data"] : d.uuid \in Chunk
      BY DEF Inv, Sourced, Items, Table
    <3> QED
      BY <1>0, <3>1 DEF ChunkUUIDs
  <2>4. CASE P = {}
    <3>1. answer' \in {"200", "404"} /\ step' = "end" /\ after' = Nil /\ ids' = {}
      BY <1>3, <2>4 DEF ReadIds, Answer
    <3>2. ASSUME NEW c \in stored PROVE c \in Written
      <4>1. PICK x \in rows["data"] : x.uuid = c
        BY <2>1 DEF BodyInv, NoneLeftOut, Reading
      <4>2. ~(c > after)
        BY <2>4, <4>1, EmptyPageIsEnd, DownloadPageAssumption
      <4>3. c \in Nat
        BY <1>0 DEF BodyInv, LocalOK
      <4>4. c <= after
        BY <2>2, <4>2, <4>3
      <4> QED
        BY <2>1, <4>4 DEF BodyInv, NoneLeftOut
    <3> HIDE DEF P
    <3> QED
      BY <2>1, <3>1, <3>2 DEF BodyInv, LocalOK, InOrder, NoneLeftOut, Written, Reading, Streaming
  <2>5. CASE P # {}
    <3>1. step' = "data" /\ ids' = P /\ UNCHANGED <<after, answer>>
      BY <1>3, <2>5 DEF ReadIds
    <3>2. ASSUME NEW c \in stored, NEW u \in P, c <= u PROVE c \in Written \cup P
      <4>1. PICK x \in rows["data"] : x.uuid = c
        BY <2>1 DEF BodyInv, NoneLeftOut, Reading
      <4>2. c \in Nat
        BY <1>0 DEF BodyInv, LocalOK
      <4>3. CASE c <= after
        BY <2>1, <4>3 DEF BodyInv, NoneLeftOut
      <4>4. CASE c = u
        BY <4>4
      <4>5. CASE c > after /\ c < u
        BY <4>1, <4>5, PageIsPrefix, DownloadPageAssumption
      <4>6. u \in Nat
        BY <2>3
      <4> HIDE DEF P
      <4> QED
        BY <2>2, <3>2, <4>2, <4>3, <4>4, <4>5, <4>6
    <3>3. \A w \in Written, u \in P : w < u
      <4> HIDE DEF P
      <4> QED
        BY <2>2, <2>3
    <3>4. P \in SUBSET Chunk
      BY <2>3
    <3> HIDE DEF P
    <3> QED
      BY <2>1, <2>5, <3>1, <3>2, <3>3, <3>4 DEF BodyInv, LocalOK, InOrder, NoneLeftOut, Written, Reading, Streaming
  <2> QED
    BY <2>4, <2>5
<1>4. CASE ReadLatestData \/ ReadLatestKeys
  <2>1. /\ step \in {"data", "keys"} /\ step' \in {"keys", "chunk"}
        /\ UNCHANGED <<rows, after, ids, body, answer, stored>>
    BY <1>4 DEF ReadLatestData, ReadLatestKeys, vars, historyVars
  <2> QED
    BY <2>1 DEF BodyInv, LocalOK, InOrder, NoneLeftOut, Written, Reading, Streaming
<1>5. ASSUME NEW c \in ids, ReadOldData(c) \/ ReadOldKey(c) PROVE BodyInv'
  <2>1. UNCHANGED <<rows, body, stored>> /\ step \in {"chunk", "oldkey"}
    BY <1>5 DEF ReadOldData, ReadOldKey, vars
  <2>2. CASE BadChunk(c)
    BY <2>1, <2>2, EndedBody DEF BadChunk, AnswerError, Answer
  <2>3. CASE step' \in {"chunk", "oldkey"} /\ UNCHANGED <<after, ids, answer>>
    BY <2>1, <2>3 DEF BodyInv, LocalOK, InOrder, NoneLeftOut, Written, Reading, Streaming
  <2> QED
    BY <1>5, <2>2, <2>3 DEF ReadOldData, ReadOldKey
<1>6. ASSUME NEW c \in ids, WriteChunk(c) PROVE BodyInv'
  <2>1. UNCHANGED <<rows, stored>> /\ step = "chunk" /\ c = FirstOf(ids)
    BY <1>6 DEF WriteChunk, vars
  <2>2. CASE BadChunk(c) /\ UNCHANGED body
    BY <2>1, <2>2, EndedBody DEF BadChunk, AnswerError, Answer
  <2>3. CASE ~(BadChunk(c) /\ UNCHANGED body)
    <3>1. /\ body' = Append(body, c) /\ ids' = ids \ {c} /\ answer' = answer
          /\ after' = IF ids' = {} THEN c ELSE after
          /\ step' = IF ids' = {} THEN "ids" ELSE "chunk"
      BY <1>6, <2>3 DEF WriteChunk
    <3>2. ids \in SUBSET Chunk /\ c \in Chunk /\ ids # {} /\ \A u \in ids : c <= u
      <4>1. ids \in SUBSET Chunk /\ ids # {}
        BY DEF BodyInv, LocalOK
      <4> QED
        BY <2>1, <4>1, FirstOfPage
    <3>3. c \in Nat /\ (\A u \in ids : u \in Nat) /\ (\A u \in stored : u \in Nat)
      BY <1>0, <3>2 DEF BodyInv, LocalOK
    <3>4. \A w \in Written : w < c
      BY <2>1 DEF BodyInv, InOrder, Streaming
    <3>5. /\ body' \in Seq(Chunk) /\ Written' = Written \cup {c}
          /\ \A i, j \in DOMAIN body' : i < j => body'[i] < body'[j]
      BY <3>1, <3>2, <3>4, AppendWritten DEF BodyInv, InOrder
    <3>6. \A w \in Written' : w <= c /\ \A u \in ids' : w < u
      <4>1. \A w \in Written : w \in Chunk /\ w \in Nat
        BY <1>0 DEF BodyInv, InOrder, Written
      <4>2. \A u \in ids' : c < u
        BY <3>1, <3>2, <3>3
      <4> QED
        BY <2>1, <3>1, <3>3, <3>4, <3>5, <4>1, <4>2 DEF BodyInv, InOrder, Streaming
    <3>7. ASSUME NEW d \in stored, d <= c \/ \E u \in ids' : d <= u PROVE d \in Written' \cup ids'
      BY <2>1, <3>1, <3>5, <3>7 DEF BodyInv, NoneLeftOut, Streaming
    <3>8. LocalOK'
      BY <2>1, <3>1, <3>2 DEF BodyInv, LocalOK, Streaming
    <3>9. InOrder'
      BY <3>1, <3>5, <3>6 DEF InOrder, Streaming
    <3>10. NoneLeftOut'
      <4>1. answer = "none" \/ step = "end"
        BY DEF BodyInv, LocalOK
      <4> QED
        BY <2>1, <3>1, <3>7, <4>1 DEF BodyInv, NoneLeftOut, Streaming, Reading
    <3> QED
      BY <3>8, <3>9, <3>10 DEF BodyInv
  <2> QED
    BY <2>2, <2>3
<1>7. CASE DownloadAbort
  <2>1. UNCHANGED <<body, stored>>
    BY <1>7 DEF DownloadAbort, historyVars
  <2> QED
    BY <1>7, <2>1, EndedBody DEF DownloadAbort, AnswerError, Answer
<1>8. CASE UNCHANGED allVars
  <2>1. UNCHANGED <<rows, step, after, ids, body, answer, stored>>
    BY <1>8 DEF allVars, vars, downloadVars, localVars, historyVars
  <2> QED
    BY <2>1 DEF BodyInv, LocalOK, InOrder, NoneLeftOut, Written, Reading
<1> QED
  BY <1>1, <1>2, <1>3, <1>4, <1>5, <1>6, <1>7, <1>8 DEF DownloadNext, StreamFile

\* A response that looks complete has every chunk that was stored when the
\* download began, once and in order.
THEOREM DownloadsAreComplete == DownloadSpec => []CompleteBody
<1>1. DownloadInit => Inv /\ BodyInv
  BY InitInv, InitBody DEF DownloadInit
<1>2. Inv /\ BodyInv /\ [DownloadNext]_allVars => Inv' /\ BodyInv'
  BY RestSteps, InvStep, BodyStep
<1>3. BodyInv => CompleteBody
  BY DEF BodyInv, InOrder, NoneLeftOut, CompleteBody
<1> QED
  BY <1>1, <1>2, <1>3, PTL DEF DownloadSpec
-----------------------------------------------------------------------------
(***************************************************************************)
(* Why a chunk fails.  A chunk that was settled when the download began has *)
(* a version p, the latest one then, below which the download never looks; *)
(* what any table has from p on, the other one has or lacks only at the    *)
(* top.  So the smaller of two versions read is a version in both tables.  *)
(***************************************************************************)
\* No excuse for chunk c to fail.
Good(c) == c \in settled /\ c \notin touched /\ ~Conflict(c)

\* From p on, table t lacks only what is newer than all it has.
Stays(c, p) ==
    /\ p.uuid = c
    /\ \A t \in Table : p \in rows[t]
    /\ \A t \in Table, y \in accepted :
          y.uuid = c /\ y.version >= p.version /\ Newer(t, y) # {} => y \in rows[t]
    /\ \A z \in data \cup keys : z.uuid = c => z.version >= p.version

\* The map S has one row for c, which is still in table t.
Holds(S, t, c) == \E d \in S : RowOf(S, c) = {d} /\ d \in rows[t]

GoodRead(c) ==
    /\ \E p \in accepted : Stays(c, p)
    /\ step \in {"keys", "chunk", "oldkey"} /\ c \in ids => Holds(data, "data", c)
    /\ step \in {"chunk", "oldkey"} /\ c \in ids => Holds(keys, "keys", c)
    /\ step = "oldkey" /\ c = FirstOf(ids) => Version(data, c) <= Version(keys, c)

Maps ==
    /\ data \subseteq accepted /\ keys \subseteq accepted
    /\ \A r \in data \cup keys : r.uuid \in ids
    /\ settled \in SUBSET Chunk /\ touched \in SUBSET Chunk
    /\ answer \in {"none", "200", "404", "500", "cut"}
    /\ culprit \in Chunk \cup {Nil}
    /\ step # "end" => culprit = Nil
    /\ step = "off" => settled = {}

Reads == Maps /\ FailsForAReason /\ (Reading => \A c \in Chunk : Good(c) => GoodRead(c))

DownloadInv == Versions /\ BodyInv /\ Reads

LEMMA InitReads == DownloadInit => Reads
  BY ChunkAssumption DEF DownloadInit, Reads, Maps, FailsForAReason, Reading, Nil

\* A chunk that is not good is a chunk that may fail.
LEMMA ExcusedEnd ==
    ASSUME DownloadInv, NEW c \in Chunk \cup {Nil}, c \in Chunk => ~Good(c), step' = "end",
           culprit' = c, ids' = {}, data' = {}, keys' = {}, answer' \in {"200", "404", "500", "cut"},
           UNCHANGED <<vars, settled, touched>>
    PROVE  Reads'
<1>1. Maps'
  BY DEF DownloadInv, Reads, Maps
<1>2. accepted' = accepted
  BY DEF vars, bufferVars
<1>3. Nil \notin settled
  BY ChunkAssumption DEF DownloadInv, Reads, Maps, Nil
<1>4. FailsForAReason'
  BY <1>2, <1>3 DEF FailsForAReason, Good, Conflict
<1> QED
  BY <1>1, <1>4 DEF Reads, Reading

\* The version of a chunk with one row.
LEMMA VersionOf ==
    ASSUME NEW S, NEW c, NEW d, RowOf(S, c) = {d}
    PROVE  Version(S, c) = d.version /\ d \in S /\ d.uuid = c
  BY DEF Version, RowOf

\* Between the version of a row that was read and a row in table t, nothing is
\* missing in t.
LEMMA OldRow ==
    ASSUME DownloadInv, NEW c, NEW p, Stays(c, p), NEW t \in Table,
           NEW x \in data \cup keys, x.uuid = c,
           NEW y \in rows[t], y.uuid = c, x.version <= y.version
    PROVE  \E w \in rows[t] : ByVersion(t, c, x.version) = {w} /\ w.uuid = c /\ w.version = x.version
<1>1. x \in accepted /\ x.version \in Nat /\ y.version \in Nat
  <2>1. x \in accepted /\ y \in accepted
    BY DEF DownloadInv, Reads, Maps, Versions, Inv, Sourced
  <2> QED
    BY <2>1 DEF DownloadInv, Versions, Inv, Items
<1>2. PICK w \in rows[t] : w.uuid = c /\ w.version = x.version
  <2>1. CASE x.version = y.version
    BY <2>1
  <2>2. CASE x.version < y.version
    <3>1. y \in Newer(t, x)
      BY <1>1, <2>2 DEF Newer
    <3> QED
      BY <1>1, <3>1 DEF Stays
  <2> QED
    BY <1>1, <2>1, <2>2
<1>3. \A z \in rows[t] : z.uuid = c /\ z.version = x.version => z = w
  BY <1>2 DEF DownloadInv, Versions, Keyed, SamePrimaryKey
<1> QED
  BY <1>2, <1>3 DEF ByVersion

\* The latest rows of a page.
LEMMA LatestRead ==
    ASSUME DownloadInv, NEW c, NEW p \in accepted, Stays(c, p), NEW t \in Table, c \in ids
    PROVE  /\ Holds(Latest(t, ids), t, c)
           /\ \A z \in Latest(t, ids) : z.uuid = c => z.version >= p.version
<1>1. PICK d \in Latest(t, ids) : d.uuid = c
  BY LatestExists DEF Stays, DownloadInv, Versions
<1>2. RowOf(Latest(t, ids), c) = {d}
  BY <1>1, LatestIsOne DEF RowOf, DownloadInv, Versions
<1>3. ASSUME NEW z \in Latest(t, ids), z.uuid = c PROVE z.version >= p.version
  <2>1. ~(p.version > z.version)
    BY <1>3 DEF Latest, Newer, Stays
  <2>2. z.version \in Nat /\ p.version \in Nat
    <3>1. z \in accepted
      BY DEF Latest, DownloadInv, Versions, Inv, Sourced
    <3> QED
      BY <3>1 DEF DownloadInv, Versions, Inv, Items
  <2> QED
    BY <2>1, <2>2
<1> QED
  BY <1>1, <1>2, <1>3 DEF Holds, Latest

-----------------------------------------------------------------------------
\* The worker and the rotations may change anything but that.
LEMMA RestKeeps ==
    ASSUME DownloadInv, [Next]_vars, UNCHANGED <<data, keys>>, NEW c, NEW p \in accepted, Stays(c, p),
           ~Conflict(c)', \A t \in Table : \A x \in rows[t] : x.uuid = c => x \in rows'[t]
    PROVE  Stays(c, p)'
<1>0. /\ Inv /\ Dense /\ Below
      /\ rows \in [Table -> SUBSET accepted] /\ pending \subseteq accepted
      /\ \A x \in accepted : x.version \in Nat
  BY DEF DownloadInv, Versions, Inv, Sourced, Items
<1>1. accepted \subseteq accepted'
  BY AcceptedEffect DEF Flush, Accept
<1>2. ASSUME NEW t \in Table, NEW y \in accepted', y.uuid = c, y.version >= p.version, Newer(t, y)' # {}
      PROVE  y \in rows'[t]
  <2>1. PICK d \in rows'[t] : d.uuid = c /\ d.version > y.version
    BY <1>2 DEF Newer
  <2>2. CASE y \in accepted /\ d \in rows[t]
    BY <1>2, <2>1, <2>2 DEF Stays, Newer
  <2>3. CASE y \in accepted /\ d \notin rows[t]
    <3>1. d \in accepted
      <4>1. PICK s \in Table, X \in SUBSET accepted : InsertRows(s, X)
        BY <1>0, <2>1, <2>3, TablesEffect DEF DeleteOld
      <4> QED
        BY <1>0, <2>1, <2>3, <4>1 DEF InsertRows
    <3>2. ~Conflict(c)
      BY <1>1 DEF Conflict
    <3>3. y.version < d.version
      BY <1>0, <2>1, <2>3, <3>1
    <3>4. Done(t, y)
      BY <1>0, <1>2, <2>1, <2>3, <3>1, <3>2, <3>3 DEF Below
    <3>5. y \in rows[t]
      BY <1>2, <2>3, <3>4 DEF Done, Stays
    <3> QED
      BY <1>2, <3>5
  <2>4. CASE y \notin accepted
    <3>0. PICK r \in Rotation : \E i \in jobs[r] : Flush(r, i)
      BY <2>4, AcceptedEffect
    <3>1. PICK j \in jobs[r] : Flush(r, j)
      BY <3>0
    <3>2. y = NewItem(r, j) /\ rows' = rows
      BY <1>2, <2>4, <3>1 DEF Flush, Accept
    <3>3. y.version \in Nat /\ 1 <= y.version
      <4>1. j[1] \in accepted
        BY <1>0 DEF Inv, Sourced
      <4> QED
        BY <1>0, <3>2, <4>1 DEF NewItem
    <3>4. d \in accepted
      BY <1>0, <2>1, <3>2
    <3>5. y.version <= d.version
      BY <1>0, <2>1, <3>3, <3>4
    <3>6. PICK z \in accepted : z.uuid = c /\ z.version = y.version
      BY <1>0, <2>1, <3>3, <3>4, <3>5 DEF Dense
    <3>7. z \in accepted' /\ z # y /\ SamePrimaryKey(z, y)
      BY <1>1, <1>2, <2>4, <3>6 DEF SamePrimaryKey
    <3> QED
      BY <1>2, <3>6, <3>7 DEF Conflict
  <2> QED
    BY <2>2, <2>3, <2>4
<1> QED
  BY <1>2 DEF Stays

LEMMA RestReads == DownloadInv /\ Rest => Reads'
<1> SUFFICES ASSUME DownloadInv, Rest PROVE Reads'
  OBVIOUS
<1>1. /\ [Next]_vars /\ step # "end"
      /\ UNCHANGED <<step, ids, data, keys, answer, settled, culprit>>
      /\ touched \subseteq touched'
      /\ Reading => touched' = touched \cup {r.uuid : r \in UNION {rows[t] \ rows'[t] : t \in Table}}
      /\ ~Reading => touched' = touched
  BY DEF Rest, localVars
<1>2. accepted \subseteq accepted'
  BY AcceptedEffect, <1>1 DEF Flush, Accept
<1>3. touched' \in SUBSET Chunk
  BY <1>1 DEF DownloadInv, Reads, Maps, Versions, Inv, Sourced, Items
<1>4. Maps'
  BY <1>1, <1>2, <1>3 DEF DownloadInv, Reads, Maps
<1>5. FailsForAReason'
  <2>1. culprit' = Nil /\ Nil \notin settled'
    BY <1>1, ChunkAssumption DEF DownloadInv, Reads, Maps, Nil
  <2> QED
    BY <2>1 DEF FailsForAReason
<1>6. ASSUME Reading, NEW c \in Chunk, Good(c)' PROVE GoodRead(c)'
  <2>1. Good(c) /\ ~Conflict(c)'
    BY <1>1, <1>2, <1>6 DEF Good, Conflict
  <2>2. GoodRead(c)
    BY <1>6, <2>1 DEF DownloadInv, Reads
  <2>3. \A t \in Table : \A x \in rows[t] : x.uuid = c => x \in rows'[t]
    BY <1>1, <1>6 DEF Good
  <2>4. PICK p \in accepted : Stays(c, p)
    BY <2>2 DEF GoodRead
  <2>5. Stays(c, p)' /\ p \in accepted'
    BY <1>1, <1>2, <2>1, <2>3, <2>4, RestKeeps
  <2>6. \A t \in Table : \A S : Holds(S, t, c) => \E d \in S : RowOf(S, c) = {d} /\ d \in rows'[t]
    BY <2>3 DEF Holds, RowOf
  <2>7. step' = step /\ ids' = ids /\ data' = data /\ keys' = keys
    BY <1>1
  <2>8. /\ Holds(data, "data", c) => Holds(data, "data", c)'
        /\ Holds(keys, "keys", c) => Holds(keys, "keys", c)'
    <3> DEFINE Stored(S, t) == \E d \in S : RowOf(S, c) = {d} /\ d \in rows'[t]
    <3>1. Holds(data, "data", c) => Stored(data, "data")
      <4>1. "data" \in Table
        BY DEF Table
      <4> QED
        BY <2>6, <4>1
    <3>2. Holds(keys, "keys", c) => Stored(keys, "keys")
      <4>1. "keys" \in Table
        BY DEF Table
      <4> QED
        BY <2>6, <4>1
    <3> QED
      BY <2>7, <3>1, <3>2 DEF Holds, RowOf
  <2>9. Version(data, c)' = Version(data, c) /\ Version(keys, c)' = Version(keys, c)
    BY <2>7 DEF Version, RowOf
  <2> QED
    BY <2>2, <2>5, <2>7, <2>8, <2>9 DEF GoodRead, FirstOf
<1> QED
  BY <1>1, <1>4, <1>5, <1>6 DEF Reads, Reading

-----------------------------------------------------------------------------
\* A step of the download that deletes nothing and answers nothing.
LEMMA ReadsOn ==
    ASSUME DownloadInv, UNCHANGED <<vars, settled, touched, culprit, answer>>, Reading, step' # "end",
           step' # "off", ids' \in SUBSET Chunk, data' \subseteq accepted, keys' \subseteq accepted,
           \A r \in data' \cup keys' : r.uuid \in ids',
           \A c \in Chunk : Good(c) /\ GoodRead(c) => GoodRead(c)'
    PROVE  Reads'
<1>1. UNCHANGED <<accepted, rows>>
  BY DEF vars, bufferVars
<1>2. \A c : Good(c)' <=> Good(c)
  BY <1>1 DEF Good, Conflict
<1>3. Maps'
  BY <1>1 DEF DownloadInv, Reads, Maps, Reading
<1>4. FailsForAReason'
  BY <1>1 DEF DownloadInv, Reads, FailsForAReason, Conflict
<1> QED
  BY <1>2, <1>3, <1>4 DEF DownloadInv, Reads

LEMMA GetReads == DownloadInv /\ Get => Reads'
<1> SUFFICES ASSUME DownloadInv, Get PROVE Reads'
  OBVIOUS
<1>1. /\ step = "off" /\ step' = "ids" /\ UNCHANGED <<rows, accepted, ids, data, keys, answer, touched, culprit>>
      /\ settled' = {c \in Chunk : Latest("data", {c}) # {} /\ Latest("data", {c}) = Latest("keys", {c})}
  BY DEF Get, vars, bufferVars
<1>2. data = {} /\ keys = {}
  BY <1>1 DEF DownloadInv, Reads, Maps, BodyInv, LocalOK, Streaming
<1>3. Maps'
  BY <1>1 DEF DownloadInv, Reads, Maps
<1>4. FailsForAReason'
  <2>1. culprit' = Nil /\ Nil \notin settled'
    BY <1>1, ChunkAssumption DEF DownloadInv, Reads, Maps, Nil
  <2> QED
    BY <2>1 DEF FailsForAReason
<1>5. ASSUME NEW c \in Chunk, Good(c)' PROVE GoodRead(c)'
  <2>1. PICK p \in Latest("data", {c}) : p \in Latest("keys", {c})
    BY <1>1, <1>5 DEF Good
  <2>2. p.uuid = c /\ (\A t \in Table : p \in rows[t] /\ Newer(t, p) = {}) /\ p \in accepted
    BY <2>1 DEF Latest, Table, DownloadInv, Versions, Inv, Sourced
  <2>3. ASSUME NEW t \in Table, NEW y \in accepted, y.uuid = c, y.version >= p.version
        PROVE  Newer(t, y) = {}
    <3>1. \A d \in rows[t] : d.version \in Nat
      BY DEF DownloadInv, Versions, Inv, Sourced, Items
    <3>2. y.version \in Nat /\ p.version \in Nat
      BY <2>2 DEF DownloadInv, Versions, Inv, Items
    <3>3. \A d \in rows[t] : d.version > y.version => d.version > p.version
      BY <2>3, <3>1, <3>2
    <3> QED
      BY <2>2, <2>3, <3>3 DEF Newer
  <2>4. Stays(c, p)'
    BY <1>1, <1>2, <2>2, <2>3 DEF Stays, Newer
  <2> QED
    BY <1>1, <2>2, <2>4 DEF GoodRead
<1> QED
  BY <1>3, <1>4, <1>5 DEF Reads

LEMMA PageReads == DownloadInv /\ (ReadIds \/ ReadLatestData \/ ReadLatestKeys) => Reads'
<1> SUFFICES ASSUME DownloadInv, ReadIds \/ ReadLatestData \/ ReadLatestKeys PROVE Reads'
  OBVIOUS
<1>0. /\ UNCHANGED <<vars, settled, touched, culprit>> /\ UNCHANGED <<rows, accepted>>
  BY DEF ReadIds, ReadLatestData, ReadLatestKeys, vars, bufferVars, historyVars
<1>m. /\ Maps /\ ids \in SUBSET Chunk /\ (step = "ids" => ids = {})
      /\ rows \in [Table -> SUBSET accepted]
  BY DEF DownloadInv, Reads, BodyInv, LocalOK, Streaming, Versions, Inv, Sourced
<1>1. CASE ReadIds /\ step' = "end"
  <2>1. /\ step = "ids" /\ answer' \in {"200", "404"} /\ ids' = {} /\ data' = {} /\ keys' = {}
    BY <1>1 DEF ReadIds, Answer
  <2>2. culprit = Nil /\ Nil \notin Chunk
    BY <1>m, <2>1, ChunkAssumption DEF Maps, Nil
  <2> QED
    BY <1>0, <1>1, <2>1, <2>2, ExcusedEnd
<1>2. CASE ReadIds /\ step' # "end"
  <2>1. /\ step = "ids" /\ step' = "data" /\ ids' = ChunkUUIDs(after, DownloadPage)
        /\ UNCHANGED <<data, keys, answer>>
    BY <1>2 DEF ReadIds, Answer
  <2>2. ids' \in SUBSET Chunk
    <3>1. \A d \in rows["data"] : d.uuid \in Chunk
      BY DEF DownloadInv, Versions, Inv, Sourced, Items, Table
    <3> QED
      BY <2>1, <3>1 DEF ChunkUUIDs
  <2>3. data = {} /\ keys = {}
    BY <1>m, <2>1 DEF Maps
  <2>4. ASSUME NEW c \in Chunk, GoodRead(c) PROVE GoodRead(c)'
    BY <1>0, <2>1, <2>4 DEF GoodRead, Stays, Newer
  <2> QED
    BY <1>0, <2>1, <2>2, <2>3, <2>4, ReadsOn DEF Reading
<1>3. CASE ReadLatestData
  <2>1. /\ step = "data" /\ step' = "keys" /\ data' = Latest("data", ids)
        /\ UNCHANGED <<ids, keys, answer>>
    BY <1>3 DEF ReadLatestData
  <2>2. data' \subseteq accepted /\ \A r \in data' : r.uuid \in ids
    BY <1>m, <2>1 DEF Latest, Table
  <2>3. ASSUME NEW c \in Chunk, GoodRead(c) PROVE GoodRead(c)'
    <3>1. PICK p \in accepted : Stays(c, p)
      BY <2>3 DEF GoodRead
    <3>2. ASSUME c \in ids
          PROVE  Holds(data', "data", c) /\ \A z \in data' : z.uuid = c => z.version >= p.version
      BY <2>1, <3>1, <3>2, LatestRead DEF Table
    <3>3. Stays(c, p)'
      BY <1>0, <2>1, <2>2, <3>1, <3>2 DEF Stays, Newer
    <3>4. c \in ids => Holds(data, "data", c)'
      BY <1>0, <3>2 DEF Holds, RowOf
    <3> QED
      BY <1>0, <2>1, <3>1, <3>3, <3>4 DEF GoodRead
  <2> QED
    BY <1>0, <1>m, <2>1, <2>2, <2>3, ReadsOn DEF Reading, Maps
<1>4. CASE ReadLatestKeys
  <2>1. /\ step = "keys" /\ step' = "chunk" /\ keys' = Latest("keys", ids)
        /\ UNCHANGED <<ids, data, answer>>
    BY <1>4 DEF ReadLatestKeys
  <2>2. keys' \subseteq accepted /\ \A r \in keys' : r.uuid \in ids
    BY <1>m, <2>1 DEF Latest, Table
  <2>3. ASSUME NEW c \in Chunk, GoodRead(c) PROVE GoodRead(c)'
    <3>1. PICK p \in accepted : Stays(c, p)
      BY <2>3 DEF GoodRead
    <3>2. ASSUME c \in ids
          PROVE  Holds(keys', "keys", c) /\ \A z \in keys' : z.uuid = c => z.version >= p.version
      BY <2>1, <3>1, <3>2, LatestRead DEF Table
    <3>3. Stays(c, p)'
      BY <1>0, <2>1, <2>2, <3>1, <3>2 DEF Stays, Newer
    <3>4. c \in ids => Holds(keys, "keys", c)' /\ Holds(data, "data", c)'
      BY <1>0, <2>1, <2>3, <3>2 DEF Holds, RowOf, GoodRead
    <3> QED
      BY <1>0, <2>1, <3>1, <3>3, <3>4 DEF GoodRead
  <2> QED
    BY <1>0, <1>m, <2>1, <2>2, <2>3, ReadsOn DEF Reading, Maps
<1> QED
  BY <1>1, <1>2, <1>3, <1>4

\* Two rows of one version that are read for a good chunk are a pair.
LEMMA GoodDecrypts ==
    ASSUME DownloadInv, NEW c \in ids, step = "chunk", Agree(c), Good(c)
    PROVE  Decryptable(c)
<1>1. GoodRead(c)
  BY DEF DownloadInv, Reads, BodyInv, LocalOK, Reading
<1>2. PICK d \in data : RowOf(data, c) = {d}
  BY <1>1 DEF GoodRead, Holds
<1>3. PICK k \in keys : RowOf(keys, c) = {k}
  BY <1>1 DEF GoodRead, Holds
<1>4. d.uuid = c /\ k.uuid = c /\ d.version = k.version
  BY <1>2, <1>3, VersionOf DEF Agree
<1>5. d \in accepted /\ k \in accepted
  BY DEF DownloadInv, Reads, Maps
<1>6. d = k
  BY <1>4, <1>5 DEF Good, Conflict, SamePrimaryKey
<1>7. Decrypts(<<d, k>>)
  BY <1>6 DEF Decrypts
<1> QED
  BY <1>2, <1>3, <1>4, <1>7 DEF Decryptable

LEMMA WriteReads == ASSUME DownloadInv, NEW c \in ids, WriteChunk(c) PROVE Reads'
<1>1. /\ step = "chunk" /\ c = FirstOf(ids) /\ Agree(c) /\ UNCHANGED <<vars, settled, touched>>
      /\ UNCHANGED <<rows, accepted>>
  BY DEF WriteChunk, vars, bufferVars
<1>2. ids \in SUBSET Chunk /\ Maps
  BY DEF DownloadInv, BodyInv, LocalOK, Reads
<1>3. CASE Decryptable(c)
  <2>1. /\ ids' = ids \ {c} /\ data' = data \ RowOf(data, c) /\ keys' = keys \ RowOf(keys, c)
        /\ step' \in {"ids", "chunk"} /\ UNCHANGED <<answer, culprit>>
    BY <1>3 DEF WriteChunk
  <2>2. \A e : e # c => RowOf(data', e) = RowOf(data, e) /\ RowOf(keys', e) = RowOf(keys, e)
    BY <2>1 DEF RowOf
  <2>3. \A r \in data' \cup keys' : r.uuid \in ids'
    BY <1>2, <2>1 DEF Maps, RowOf
  <2>4. ASSUME NEW e \in Chunk, GoodRead(e) PROVE GoodRead(e)'
    <3>1. PICK p \in accepted : Stays(e, p)
      BY <2>4 DEF GoodRead
    <3>2. Stays(e, p)'
      BY <1>1, <2>1, <3>1 DEF Stays, Newer
    <3>3. e \in ids' => Holds(data, "data", e)' /\ Holds(keys, "keys", e)'
      BY <1>1, <2>1, <2>2, <2>4 DEF GoodRead, Holds, RowOf
    <3> QED
      BY <1>1, <2>1, <3>1, <3>2, <3>3 DEF GoodRead
  <2> QED
    BY <1>1, <1>2, <2>1, <2>3, <2>4, ReadsOn DEF Maps, Reading
<1>4. CASE ~Decryptable(c)
  <2>1. BadChunk(c)
    BY <1>4 DEF WriteChunk
  <2>2. ~Good(c)
    BY <1>1, <1>4, GoodDecrypts
  <2> QED
    BY <1>1, <1>2, <2>1, <2>2, ExcusedEnd DEF BadChunk, AnswerError, Answer
<1> QED
  BY <1>3, <1>4

LEMMA OldDataReads == ASSUME DownloadInv, NEW c \in ids, ReadOldData(c) PROVE Reads'
<1> DEFINE row == ByVersion("data", c, OldVersion(c))
<1>1. /\ step = "chunk" /\ c = FirstOf(ids) /\ ~Agree(c) /\ UNCHANGED <<vars, settled, touched>>
      /\ UNCHANGED <<rows, accepted>>
  BY DEF ReadOldData, vars, bufferVars
<1>2. ids \in SUBSET Chunk /\ Maps /\ rows["data"] \subseteq accepted
  BY DEF DownloadInv, BodyInv, LocalOK, Reads, Versions, Inv, Sourced, Table
<1>3. ASSUME Good(c), NEW p \in accepted, Stays(c, p)
      PROVE  \E w \in rows["data"] : /\ row = {w} /\ w.uuid = c /\ w.version >= p.version
                                     /\ w.version <= Version(keys, c)
  <2>1. GoodRead(c)
    BY <1>1, <1>2, <1>3 DEF DownloadInv, Reads, Reading
  <2>2. PICK d \in data : RowOf(data, c) = {d} /\ d \in rows["data"]
    BY <1>1, <2>1 DEF GoodRead, Holds
  <2>3. PICK k \in keys : RowOf(keys, c) = {k}
    BY <1>1, <2>1 DEF GoodRead, Holds
  <2>4. d.uuid = c /\ k.uuid = c /\ Version(data, c) = d.version /\ Version(keys, c) = k.version
    BY <2>2, <2>3, VersionOf
  <2>5. d.version \in Nat /\ k.version \in Nat /\ p.version \in Nat
    <3>1. d \in accepted /\ k \in accepted
      BY <1>2 DEF Maps
    <3> QED
      BY <3>1 DEF DownloadInv, Versions, Inv, Items
  <2>6. d.version >= p.version /\ k.version >= p.version
    BY <1>3, <2>4 DEF Stays
  <2>7. CASE d.version < k.version
    <3>1. OldVersion(c) = d.version
      BY <2>4, <2>7 DEF OldVersion
    <3>2. PICK w \in rows["data"] : ByVersion("data", c, d.version) = {w} /\ w.uuid = c /\ w.version = d.version
      BY <1>3, <2>2, <2>4, <2>5, OldRow DEF Table
    <3> QED
      BY <2>4, <2>5, <2>6, <2>7, <3>1, <3>2
  <2>8. CASE ~(d.version < k.version)
    <3>1. OldVersion(c) = k.version
      BY <2>4, <2>8 DEF OldVersion
    <3>2. PICK w \in rows["data"] : ByVersion("data", c, k.version) = {w} /\ w.uuid = c /\ w.version = k.version
      BY <1>3, <2>2, <2>4, <2>5, <2>8, OldRow DEF Table
    <3> QED
      BY <2>4, <2>5, <2>6, <2>8, <3>1, <3>2
  <2> QED
    BY <2>7, <2>8
<1>4. CASE row = {}
  <2>1. BadChunk(c)
    BY <1>4 DEF ReadOldData
  <2>2. ~Good(c)
    <3> SUFFICES ASSUME Good(c) PROVE FALSE
      OBVIOUS
    <3>1. PICK p \in accepted : Stays(c, p)
      BY <1>1, <1>2 DEF DownloadInv, Reads, Reading, GoodRead
    <3> QED
      BY <1>3, <1>4, <3>1
  <2> QED
    BY <1>1, <1>2, <2>1, <2>2, ExcusedEnd DEF BadChunk, AnswerError, Answer
<1>5. CASE row # {}
  <2>1. /\ data' = (data \ RowOf(data, c)) \cup row /\ step' = "oldkey"
        /\ UNCHANGED <<ids, keys, answer, culprit>>
    BY <1>5 DEF ReadOldData
  <2>2. \A w \in row : w.uuid = c /\ w \in accepted
    BY <1>2 DEF ByVersion
  <2> HIDE DEF row
  <2>3. data' \subseteq accepted /\ \A r \in data' \cup keys' : r.uuid \in ids'
    BY <1>2, <2>1, <2>2 DEF Maps
  <2>4. ASSUME NEW e \in Chunk, Good(e), GoodRead(e) PROVE GoodRead(e)'
    <3>1. PICK p \in accepted : Stays(e, p)
      BY <2>4 DEF GoodRead
    <3>2. CASE e # c
      <4>1. Stays(e, p)'
        BY <1>1, <2>1, <2>2, <3>1, <3>2 DEF Stays, Newer
      <4>2. RowOf(data', e) = RowOf(data, e)
        BY <2>1, <2>2, <3>2 DEF RowOf
      <4>3. e \in ids' => Holds(data, "data", e)' /\ Holds(keys, "keys", e)'
        BY <1>1, <2>1, <2>4, <4>2 DEF GoodRead, Holds, RowOf
      <4>4. e # FirstOf(ids')
        BY <1>1, <2>1, <3>2
      <4> QED
        BY <1>1, <2>1, <3>1, <4>1, <4>3, <4>4 DEF GoodRead, FirstOf
    <3>3. CASE e = c
      <4>1. PICK w \in rows["data"] : /\ row = {w} /\ w.uuid = c /\ w.version >= p.version
                                      /\ w.version <= Version(keys, c)
        BY <1>3, <2>4, <3>1, <3>3
      <4>2. RowOf(data', c) = {w}
        BY <2>1, <4>1 DEF RowOf
      <4>3. Holds(data, "data", c)' /\ Holds(keys, "keys", c)'
        BY <1>1, <2>1, <2>4, <3>3, <4>1, <4>2 DEF GoodRead, Holds, RowOf
      <4>4. Version(data, c)' = w.version
        BY <4>2 DEF Version, RowOf
      <4>5. Version(data, c)' <= Version(keys, c)'
        BY <2>1, <4>1, <4>4 DEF Version, RowOf
      <4>6. Stays(c, p)'
        BY <1>1, <2>1, <3>1, <3>3, <4>1 DEF Stays, Newer
      <4> QED
        BY <1>1, <2>1, <3>1, <3>3, <4>3, <4>5, <4>6 DEF GoodRead
    <3> QED
      BY <3>2, <3>3
  <2> QED
    BY <1>1, <1>2, <2>1, <2>3, <2>4, ReadsOn DEF Maps, Reading
<1> QED
  BY <1>4, <1>5

LEMMA OldKeyReads == ASSUME DownloadInv, NEW c \in ids, ReadOldKey(c) PROVE Reads'
<1> DEFINE row == ByVersion("keys", c, Version(data, c))
<1>1. /\ step = "oldkey" /\ c = FirstOf(ids) /\ UNCHANGED <<vars, settled, touched>>
      /\ UNCHANGED <<rows, accepted>>
  BY DEF ReadOldKey, vars, bufferVars
<1>2. ids \in SUBSET Chunk /\ Maps /\ rows["keys"] \subseteq accepted
  BY DEF DownloadInv, BodyInv, LocalOK, Reads, Versions, Inv, Sourced, Table
<1>3. ASSUME Good(c), NEW p \in accepted, Stays(c, p)
      PROVE  \E w \in rows["keys"] : row = {w} /\ w.uuid = c /\ w.version >= p.version
  <2>1. GoodRead(c)
    BY <1>1, <1>2, <1>3 DEF DownloadInv, Reads, Reading
  <2>2. PICK d \in data : RowOf(data, c) = {d}
    BY <1>1, <2>1 DEF GoodRead, Holds
  <2>3. PICK k \in keys : RowOf(keys, c) = {k} /\ k \in rows["keys"]
    BY <1>1, <2>1 DEF GoodRead, Holds
  <2>4. d.uuid = c /\ k.uuid = c /\ Version(data, c) = d.version /\ Version(keys, c) = k.version
    BY <2>2, <2>3, VersionOf
  <2>5. d.version <= k.version
    BY <1>1, <2>1, <2>4 DEF GoodRead
  <2>6. PICK w \in rows["keys"] : ByVersion("keys", c, d.version) = {w} /\ w.uuid = c /\ w.version = d.version
    BY <1>3, <2>3, <2>4, <2>5, OldRow DEF Table
  <2>7. d.version >= p.version
    BY <1>3, <2>4 DEF Stays
  <2> QED
    BY <2>4, <2>6, <2>7
<1>4. CASE row = {}
  <2>1. BadChunk(c)
    BY <1>4 DEF ReadOldKey
  <2>2. ~Good(c)
    <3> SUFFICES ASSUME Good(c) PROVE FALSE
      OBVIOUS
    <3>1. PICK p \in accepted : Stays(c, p)
      BY <1>1, <1>2 DEF DownloadInv, Reads, Reading, GoodRead
    <3> QED
      BY <1>3, <1>4, <3>1
  <2> QED
    BY <1>1, <1>2, <2>1, <2>2, ExcusedEnd DEF BadChunk, AnswerError, Answer
<1>5. CASE row # {}
  <2>1. /\ keys' = (keys \ RowOf(keys, c)) \cup row /\ step' = "chunk"
        /\ UNCHANGED <<ids, data, answer, culprit>>
    BY <1>5 DEF ReadOldKey
  <2>2. \A w \in row : w.uuid = c /\ w \in accepted
    BY <1>2 DEF ByVersion
  <2> HIDE DEF row
  <2>3. keys' \subseteq accepted /\ \A r \in data' \cup keys' : r.uuid \in ids'
    BY <1>2, <2>1, <2>2 DEF Maps
  <2>4. ASSUME NEW e \in Chunk, Good(e), GoodRead(e) PROVE GoodRead(e)'
    <3>1. PICK p \in accepted : Stays(e, p)
      BY <2>4 DEF GoodRead
    <3>2. CASE e # c
      <4>1. Stays(e, p)'
        BY <1>1, <2>1, <2>2, <3>1, <3>2 DEF Stays, Newer
      <4>2. RowOf(keys', e) = RowOf(keys, e)
        BY <2>1, <2>2, <3>2 DEF RowOf
      <4>3. e \in ids' => Holds(data, "data", e)' /\ Holds(keys, "keys", e)'
        BY <1>1, <2>1, <2>4, <4>2 DEF GoodRead, Holds, RowOf
      <4> QED
        BY <1>1, <2>1, <3>1, <4>1, <4>3 DEF GoodRead
    <3>3. CASE e = c
      <4>1. PICK w \in rows["keys"] : row = {w} /\ w.uuid = c /\ w.version >= p.version
        BY <1>3, <2>4, <3>1, <3>3
      <4>2. RowOf(keys', c) = {w}
        BY <2>1, <4>1 DEF RowOf
      <4>3. Holds(data, "data", c)' /\ Holds(keys, "keys", c)'
        BY <1>1, <2>1, <2>4, <3>3, <4>1, <4>2 DEF GoodRead, Holds, RowOf
      <4>4. Stays(c, p)'
        BY <1>1, <2>1, <3>1, <3>3, <4>1 DEF Stays, Newer
      <4> QED
        BY <1>1, <2>1, <3>1, <3>3, <4>3, <4>4 DEF GoodRead
    <3> QED
      BY <3>2, <3>3
  <2> QED
    BY <1>1, <1>2, <2>1, <2>3, <2>4, ReadsOn DEF Maps, Reading
<1> QED
  BY <1>4, <1>5

LEMMA ReadsStep == DownloadInv /\ [DownloadNext]_allVars => Reads'
<1> SUFFICES ASSUME DownloadInv, [DownloadNext]_allVars PROVE Reads'
  OBVIOUS
<1>1. CASE DownloadAbort
  <2>1. /\ step' = "end" /\ ids' = {} /\ data' = {} /\ keys' = {} /\ answer' \in {"500", "cut"}
        /\ UNCHANGED <<vars, settled, touched, culprit>> /\ step # "end"
    BY <1>1 DEF DownloadAbort, AnswerError, Answer, historyVars, Reading
  <2>2. culprit = Nil /\ Nil \notin Chunk
    BY <2>1, ChunkAssumption DEF DownloadInv, Reads, Maps, Nil
  <2> QED
    BY <2>1, <2>2, ExcusedEnd
<1>2. CASE UNCHANGED allVars
  <2>1. /\ UNCHANGED <<rows, accepted, step, ids, data, keys, answer>>
        /\ UNCHANGED <<settled, touched, culprit>>
    BY <1>2 DEF allVars, vars, bufferVars, downloadVars, localVars, historyVars
  <2>2. Maps' /\ FailsForAReason'
    BY <2>1 DEF DownloadInv, Reads, Maps, FailsForAReason, Conflict
  <2>3. \A c : (Good(c)' <=> Good(c)) /\ (GoodRead(c) => GoodRead(c)')
    BY <2>1 DEF Good, Conflict, GoodRead, Stays, Newer, Holds, Version, RowOf, FirstOf
  <2> QED
    BY <2>1, <2>2, <2>3 DEF DownloadInv, Reads, Reading
<1> QED
  BY <1>1, <1>2, RestReads, GetReads, PageReads, WriteReads, OldDataReads, OldKeyReads
     DEF DownloadNext, StreamFile

LEMMA DownloadInvariance == DownloadSpec => []DownloadInv
<1>1. DownloadInit => DownloadInv
  BY InitVersions, InitBody, InitReads DEF DownloadInit, DownloadInv
<1>2. DownloadInv /\ [DownloadNext]_allVars => DownloadInv'
  BY RestSteps, VersionsStep, BodyStep, ReadsStep DEF DownloadInv, Versions
<1> QED
  BY <1>1, <1>2, PTL DEF DownloadSpec

\* A chunk that was settled when the download began fails it only because a
\* row of it was deleted or two rotations made the same version of it: all
\* that the worker adds meanwhile, to either table first, is no obstacle.
THEOREM DownloadsFailForAReason == DownloadSpec => []FailsForAReason
<1>1. DownloadInv => FailsForAReason
  BY DEF DownloadInv, Reads
<1> QED
  BY <1>1, DownloadInvariance, PTL

\* If clients start a rotation when the one before has ended and its items are
\* stored, a settled chunk fails a download only because a rotation deleted a row
\* of it meanwhile, or because an item of it was swallowed: nothing but these two
\* stands between a stored file and its client.
THEOREM CarefulDownloads ==
    ASSUME ~Overlap
    PROVE  DownloadSpec => [](culprit \in settled => culprit \in touched \/ culprit \in swallowed)
<1> DEFINE Reason == culprit \in settled => culprit \in touched \/ culprit \in swallowed
<1>1. DownloadInit => Careful
  BY InitCareful DEF DownloadInit
<1>2. Careful /\ [DownloadNext]_allVars => Careful'
  BY RestSteps, CarefulStep
<1>3. Careful /\ DownloadInv => Reason
  <2> SUFFICES ASSUME Careful, DownloadInv, culprit \in settled
               PROVE  culprit \in touched \/ culprit \in swallowed
    OBVIOUS
  <2>1. culprit \in Chunk
    BY DEF DownloadInv, BodyInv, Reads, Maps, LocalOK
  <2> QED
    BY <2>1, NoConflict DEF Careful, DownloadInv, Reads, FailsForAReason
<1> QED
  BY <1>1, <1>2, <1>3, DownloadInvariance, PTL DEF DownloadSpec

\* The types, and the rows of a page belong to what is left of it, if items
\* are records of a chunk, a version and a secret.
THEOREM DownloadTyped ==
    ASSUME FlushItem = [uuid : Chunk, version : Nat, secret : Nat]
    PROVE  DownloadSpec => []DownloadTypeOK
<1>1. DownloadInit => Typed
  BY InitInv, InitCalls, InitBuffer DEF DownloadInit, Typed
<1>2. Typed /\ [DownloadNext]_allVars => Typed'
  BY RestSteps, TypedStep
<1>3. Typed /\ DownloadInv => DownloadTypeOK
  <2> SUFFICES ASSUME Typed, DownloadInv PROVE DownloadTypeOK
    OBVIOUS
  <2>1. RotationTypeOK
    BY TypedIsTypeOK
  <2>2. accepted \subseteq FlushItem
    BY <2>1 DEF RotationTypeOK, BufferTypeOK
  <2>3. data \subseteq FlushItem /\ keys \subseteq FlushItem
    BY <2>2 DEF DownloadInv, Reads, Maps
  <2> QED
    BY <2>1, <2>3 DEF DownloadInv, DownloadTypeOK, Reads, Maps, BodyInv, LocalOK, InOrder, Streaming
<1> QED
  BY <1>1, <1>2, <1>3, DownloadInvariance, PTL DEF DownloadSpec
=============================================================================
