---------------------------- MODULE PendingStore ----------------------------
(***************************************************************************)
(* The Redis stream that buffers encrypted chunks on their way to the two  *)
(* PostgreSQL databases, seen through internal/repository/pending_store.go *)
(* (AddBatch, Read, Claim, Ack) with its single consumer group.            *)
(*                                                                         *)
(* An entry ID is the position of the entry in the stream: XADD numbers    *)
(* entries in increasing order, and nothing in the code ever deletes one.  *)
(* The name of the consumer that owns a pending entry is left out, because *)
(* XREADGROUP ">", XAUTOCLAIM and XACK do not look at it.  The idle time   *)
(* of a pending entry is kept only as far as Claim looks at it: whether it *)
(* exceeds ClaimMinIdle.                                                   *)
(***************************************************************************)
EXTENDS Naturals, Sequences, FiniteSets, FlushItems

CONSTANTS
    Foreign,     \* entries parsePendingItem rejects: a field is missing
    Amount,      \* PENDING_AMOUNT, the COUNT of XREADGROUP and XAUTOCLAIM
    MaxEntries   \* bound on the length of the stream

ASSUME ForeignAssumption == Foreign \cap FlushItem = {}
ASSUME AmountAssumption == Amount \in Nat \ {0}
ASSUME MaxEntriesAssumption == MaxEntries \in Nat

VARIABLES
    stream,      \* the entries ever added, in ID order
    delivered,   \* the group's last-delivered-id
    pel,         \* the pending entries list: delivered and not acknowledged
    stale        \* the pending entries that have been idle for ClaimMinIdle

storeVars == <<stream, delivered, pel, stale>>

StoreInit ==
    /\ stream = << >>
    /\ delivered = 0
    /\ pel = {}
    /\ stale = {}

\* The acknowledged entries: Redis keeps no list of them, they are the
\* delivered ones that are no longer pending.
Acked == (1..delivered) \ pel

WellFormed(ids) == {e \in ids : stream[e] \in FlushItem}

-----------------------------------------------------------------------------
\* One XADD of an AddBatch pipeline.  The pipeline is no transaction: its
\* commands reach the stream one by one, and a batch that failed half-way is
\* sent again by retryDo, so that the same item can be added more than once.
XAdd(x) ==
    /\ Len(stream) < MaxEntries
    /\ stream' = Append(stream, x)
    /\ UNCHANGED <<delivered, pel, stale>>

\* XREADGROUP ">": the next Amount entries that the group has not delivered.
LastRead == IF delivered + Amount < Len(stream) THEN delivered + Amount
            ELSE Len(stream)

NextIds == (delivered + 1)..LastRead

\* Mutant: NoAck: true, the group forgets what it delivers.
XReadGroupNoAck ==
    /\ NextIds # {}
    /\ delivered' = LastRead
    /\ UNCHANGED <<stream, pel, stale>>

XReadGroup ==
    /\ NextIds # {}
    /\ delivered' = LastRead
    /\ pel' = pel \cup NextIds
    /\ UNCHANGED <<stream, stale>>

\* Mutant: XAUTOCLAIM starts at the last delivered ID instead of "0".
ClaimIdsFromLast == stale \cap {delivered}

\* XAUTOCLAIM from "0": the first Amount stale entries; claiming one resets
\* its idle time.  (Redis looks at 10 * Amount pending entries for them; the
\* instances that are checked never have more.)
ClaimIds == {e \in stale : Cardinality({f \in stale : f < e}) < Amount}

XAutoClaim ==
    /\ ClaimIds # {}
    /\ stale' = stale \ ClaimIds
    /\ UNCHANGED <<stream, delivered, pel>>

\* Mutant: an acknowledgement that commits a position, as an offset does.
XAckUpTo(ids) ==
    /\ pel' = {e \in pel : \A f \in ids : f < e}
    /\ stale' = stale \cap pel'
    /\ UNCHANGED <<stream, delivered>>

XAck(ids) ==
    /\ pel' = pel \ ids
    /\ stale' = stale \ ids
    /\ UNCHANGED <<stream, delivered>>

\* Time passes: a pending entry reaches ClaimMinIdle, whether the process
\* that reads it has crashed or is merely slow.
Age(e) ==
    /\ e \in pel \ stale
    /\ stale' = stale \cup {e}
    /\ UNCHANGED <<stream, delivered, pel>>

StoreTypeOK ==
    /\ stream \in Seq(FlushItem \cup Foreign)
    /\ delivered \in 0..Len(stream)
    /\ pel \subseteq 1..delivered
    /\ stale \subseteq pel
=============================================================================
