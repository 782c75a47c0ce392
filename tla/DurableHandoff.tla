--------------------------- MODULE DurableHandoff ---------------------------
(***************************************************************************)
(* What the write-behind buffer promises to those who add to it, with no   *)
(* loop, batch, retry or consumer group in sight: an accepted entry is     *)
(* written to both databases and released only after that; no row comes    *)
(* from anywhere else, and none is changed or removed.                     *)
(***************************************************************************)
EXTENDS Naturals, Sequences, ChunkTables

CONSTANT Foreign     \* accepted entries that are no FlushItems

VARIABLES
    accepted,        \* the entries, in the order of their arrival
    released         \* the entries the buffer may forget

handoffVars == <<accepted, rows, released>>

HandoffInit ==
    /\ accepted = << >>
    /\ TablesInit
    /\ released = {}

Accept(x) ==
    /\ accepted' = Append(accepted, x)
    /\ UNCHANGED <<rows, released>>

Persist(t, X) ==
    /\ X \subseteq {accepted[e] : e \in DOMAIN accepted} \ Foreign
    /\ rows' = [rows EXCEPT ![t] = @ \cup X]
    /\ UNCHANGED <<accepted, released>>

Release(E) ==
    /\ E \subseteq DOMAIN accepted
    /\ \A e \in E, t \in Table : accepted[e] \in rows[t]
    /\ released' = released \cup E
    /\ UNCHANGED <<accepted, rows>>

HandoffNext ==
    \/ \E x \in FlushItem \cup Foreign : Accept(x)
    \/ \E t \in Table, X \in SUBSET FlushItem : Persist(t, X)
    \/ \E E \in SUBSET DOMAIN accepted : Release(E)

HandoffSpec == HandoffInit /\ [][HandoffNext]_handoffVars
=============================================================================
