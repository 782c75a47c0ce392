---------------------------- MODULE ChunkTables -----------------------------
(***************************************************************************)
(* The tables cipher.chunk_keys and cipher.chunk_data, each in a           *)
(* PostgreSQL database of its own, both with PRIMARY KEY (uuid, version).  *)
(* A row is the FlushItem it was written from.                             *)
(***************************************************************************)
EXTENDS Naturals, FiniteSets, FlushItems

VARIABLE rows        \* rows[t] is the set of rows of table t

Table == {"keys", "data"}

TablesInit == rows = [t \in Table |-> {}]

\* A COPY of the items b[e], e \in DOMAIN b, would break the primary key,
\* by a row that is already there or by two of its own.
UniqueViolation(t, b) ==
    \/ \E e \in DOMAIN b, r \in rows[t] : SamePrimaryKey(b[e], r)
    \/ \E e, f \in DOMAIN b : e # f /\ SamePrimaryKey(b[e], b[f])

\* CopyFrom is one statement: either every row is inserted or none is.
CopyFrom(t, b) ==
    /\ ~UniqueViolation(t, b)
    /\ rows' = [rows EXCEPT ![t] = @ \cup {b[e] : e \in DOMAIN b}]

-----------------------------------------------------------------------------
\* The queries of rotations and downloads.  UUIDs are numbers where they are used:
\* a UUIDv7 orders the chunks of a file as they were uploaded.

Newer(t, r) == {d \in rows[t] : d.uuid = r.uuid /\ d.version > r.version}

\* GetLatestKeys, GetLatestData: DISTINCT ON (uuid) ... ORDER BY version DESC.
Latest(t, ids) == {r \in rows[t] : r.uuid \in ids /\ Newer(t, r) = {}}

\* Mutant: uuid >= after.
ChunkUUIDsFrom(after, limit) ==
    LET behind == {r.uuid : r \in {d \in rows["data"] : d.uuid >= after}}
    IN {u \in behind : Cardinality({v \in behind : v < u}) < limit}

\* GetChunkUUIDsByFileID: the next limit chunks of the file behind after.
ChunkUUIDs(after, limit) ==
    LET behind == {r.uuid : r \in {d \in rows["data"] : d.uuid > after}}
    IN {u \in behind : Cardinality({v \in behind : v < u}) < limit}

\* Mutant: version <= (SELECT max(version) ...).
DeleteOldAndLatest(t, ids) ==
    rows' = [rows EXCEPT ![t] = {r \in @ : r.uuid \notin ids}]

\* DeleteOldKeys, DeleteOldData.
DeleteOld(t, ids) ==
    rows' = [rows EXCEPT ![t] =
                {r \in @ : r.uuid \in ids => Newer(t, r) = {}}]

TablesTypeOK == rows \in [Table -> SUBSET FlushItem]
=============================================================================
