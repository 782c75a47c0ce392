------------------------- MODULE PendingWorkerProofs ------------------------
(***************************************************************************)
(* What the PendingWorker guarantees for any number of instances, entries, *)
(* attempts and failures and for any batch size.                           *)
(***************************************************************************)
EXTENDS PendingWorker, FiniteSetTheorems, WellFoundedInduction, TLAPS

-----------------------------------------------------------------------------
\* Only parsed entries get into a batch.
BatchParsed == \A l \in Loop : \A e \in batch[l] : stream[e] \in FlushItem

\* A loop between two batches has no goroutine that already wrote one.
IdleReset == \A l \in Loop : Idle(l) => save[l] = NotStarted

\* A write that returned nil has stored every entry of its batch, or the
\* batch broke the primary key.
SavedOrSwallowed ==
    \A l \in Loop, t \in Table :
        save[l][t] = "ok" =>
            \A e \in batch[l] : Stored(t, e) \/ <<t, e>> \in swallowed

\* The inductive invariant.
IInv ==
    /\ TypeOK
    /\ BatchParsed
    /\ IdleReset
    /\ SavedOrSwallowed
    /\ AckedStoredOrSwallowed
    /\ ForeignNeverAcked

-----------------------------------------------------------------------------
\* The entries that a read or a claim hands over are entries of the stream.
LEMMA IdsDelivered ==
    ASSUME TypeOK
    PROVE  /\ LastRead \in delivered..Len(stream)
           /\ NextIds \subseteq 1..LastRead
           /\ ClaimIds \subseteq 1..delivered
           /\ delivered \in Nat
           /\ Len(stream) \in Nat
<1>1. delivered \in 0..Len(stream) /\ Len(stream) \in Nat
  BY DEF TypeOK, StoreTypeOK
<1>2. LastRead \in delivered..Len(stream)
  BY <1>1, AmountAssumption DEF LastRead
<1>3. NextIds \subseteq 1..LastRead
  BY <1>1, <1>2 DEF NextIds
<1>4. ClaimIds \subseteq 1..delivered
  BY DEF TypeOK, StoreTypeOK, ClaimIds
<1> QED
  BY <1>1, <1>2, <1>3, <1>4

\* The initial state satisfies the invariant.
LEMMA InitIInv == Init => IInv
<1> SUFFICES ASSUME Init PROVE IInv
  OBVIOUS
<1>1. TypeOK
  BY AttemptsAssumption, MaxFaultsAssumption
     DEF Init, StoreInit, TablesInit, TypeOK, StoreTypeOK, TablesTypeOK,
         NotStarted, NoFailures, Table
<1>2. BatchParsed /\ IdleReset /\ SavedOrSwallowed
  BY DEF Init, BatchParsed, IdleReset, SavedOrSwallowed, NotStarted, Idle, Table
<1>3. Acked = {}
  BY DEF Init, StoreInit, Acked
<1>4. AckedStoredOrSwallowed /\ ForeignNeverAcked
  BY <1>3 DEF AckedStoredOrSwallowed, ForeignNeverAcked
<1> QED
  BY <1>1, <1>2, <1>4 DEF IInv

-----------------------------------------------------------------------------
\* A loop that ends its batch leaves the others as they are.
LEMMA EndProcessTyped ==
    ASSUME TypeOK, NEW L, EndProcess(L)
    PROVE  /\ batch' \in [Loop -> SUBSET (1..delivered)]
           /\ save' \in [Loop -> [Table -> {"run", "ok", "failed"}]]
           /\ failures' \in [Loop -> [Table -> 0..Attempts]]
           /\ \A l \in Loop : batch'[l] \subseteq batch[l]
           /\ \A l \in Loop :
                 (batch'[l] = batch[l] /\ save'[l] = save[l])
                    \/ (batch'[l] = {} /\ save'[l] = NotStarted)
BY AttemptsAssumption
   DEF TypeOK, EndProcess, NotStarted, NoFailures, Table

-----------------------------------------------------------------------------
\* Every operation on the stream keeps the store well-formed, keeps the
\* entries that are there, and takes no delivery back.
StoreStep ==
    \/ \E x \in FlushItem \cup Foreign : XAdd(x)
    \/ \E e \in pel : Age(e)
    \/ XReadGroup
    \/ XAutoClaim
    \/ \E ids \in SUBSET (1..delivered) : XAck(ids)
    \/ UNCHANGED storeVars

StorePreserved ==
    /\ StoreTypeOK'
    /\ delivered \in Nat
    /\ delivered' \in Nat
    /\ delivered <= delivered'
    /\ \A e \in 1..delivered : stream'[e] = stream[e]

LEMMA StoreStepPreserved ==
    ASSUME TypeOK, StoreStep
    PROVE  StorePreserved
<1> USE DEF StorePreserved
<1>0. StoreTypeOK
  BY DEF TypeOK
<1>1. delivered \in Nat /\ Len(stream) \in Nat /\ delivered <= Len(stream)
  BY <1>0 DEF StoreTypeOK
<1>2. CASE \E x \in FlushItem \cup Foreign : XAdd(x)
  <2>1. PICK x \in FlushItem \cup Foreign : XAdd(x)
    BY <1>2
  <2>2. /\ stream' \in Seq(FlushItem \cup Foreign)
        /\ Len(stream') = Len(stream) + 1
        /\ \A e \in 1..Len(stream) : stream'[e] = stream[e]
    BY <1>0, <2>1 DEF StoreTypeOK, XAdd
  <2> QED
    BY <1>0, <1>1, <2>1, <2>2 DEF StoreTypeOK, XAdd
<1>3. CASE \E e \in pel : Age(e)
  BY <1>0, <1>1, <1>3 DEF StoreTypeOK, Age
<1>4. CASE XReadGroup
  <2>1. /\ LastRead \in delivered..Len(stream)
        /\ NextIds \subseteq 1..LastRead
    BY IdsDelivered
  <2>2. /\ stream' = stream /\ stale' = stale
        /\ delivered' = LastRead /\ pel' = pel \cup NextIds
    BY <1>4 DEF XReadGroup
  <2>3. delivered' \in 0..Len(stream) /\ delivered <= delivered'
    BY <1>1, <2>1, <2>2
  <2> QED
    BY <1>0, <1>1, <2>1, <2>2, <2>3 DEF StoreTypeOK
<1>5. CASE XAutoClaim
  <2>1. /\ stream' = stream /\ delivered' = delivered /\ pel' = pel
        /\ stale' \subseteq stale
    BY <1>5 DEF XAutoClaim
  <2> QED
    BY <1>0, <1>1, <2>1 DEF StoreTypeOK
<1>6. CASE \E ids \in SUBSET (1..delivered) : XAck(ids)
  BY <1>0, <1>1, <1>6 DEF StoreTypeOK, XAck
<1>7. CASE UNCHANGED storeVars
  BY <1>0, <1>1, <1>7 DEF StoreTypeOK, storeVars
<1> QED
  BY StoreStep, <1>2, <1>3, <1>4, <1>5, <1>6, <1>7 DEF StoreStep

\* Every step of the worker is one operation on the stream, or none.
LEMMA NextIsStoreStep ==
    ASSUME TypeOK, [Next]_vars
    PROVE  StoreStep
<1>1. CASE \E x \in FlushItem \cup Foreign : Produce(x)
  BY <1>1 DEF Produce, StoreStep
<1>2. CASE \E e \in pel : TimePasses(e)
  BY <1>2 DEF TimePasses, StoreStep
<1>3. ASSUME NEW l \in Loop, Read(l) \/ ReadReplyLost(l) PROVE StoreStep
  BY <1>3 DEF Read, ReadReplyLost, StoreStep
<1>4. ASSUME NEW l \in Loop, Claim(l) \/ ClaimReplyLost(l) PROVE StoreStep
  BY <1>4 DEF Claim, ClaimReplyLost, StoreStep
<1>5. ASSUME NEW l \in Loop, Ack(l) PROVE StoreStep
  BY <1>5 DEF Ack, StoreStep, TypeOK
<1>6. ASSUME NEW l \in Loop, AckError(l) \/ GiveUp(l) PROVE StoreStep
  BY <1>6 DEF AckError, GiveUp, StoreStep
<1>7. ASSUME NEW l \in Loop, NEW t \in Table,
             Save(l, t) \/ SaveError(l, t) \/ SaveReplyLost(l, t) \/ SaveCancelled(l, t)
      PROVE  StoreStep
  BY <1>7 DEF Save, SaveOk, SaveDuplicate, SaveError, SaveReplyLost,
              SaveCancelled, StoreStep
<1>8. CASE \E i \in Instance : Crash(i) \/ Start(i)
  BY <1>8 DEF Crash, Start, StoreStep
<1>9. CASE UNCHANGED vars
  BY <1>9 DEF vars, StoreStep
<1> QED
  BY <1>1, <1>2, <1>3, <1>4, <1>5, <1>6, <1>7, <1>8, <1>9 DEF Next

-----------------------------------------------------------------------------
\* Type correctness needs to know that a batch holds parsed entries only:
\* they are what a COPY inserts.
LEMMA TypedNext ==
    ASSUME TypeOK, BatchParsed, [Next]_vars
    PROVE  TypeOK' /\ BatchParsed'
<1>0. StorePreserved
  BY NextIsStoreStep, StoreStepPreserved
<1> DEFINE Rest ==
        /\ TablesTypeOK
        /\ up \subseteq Instance
        /\ save \in [Loop -> [Table -> {"run", "ok", "failed"}]]
        /\ failures \in [Loop -> [Table -> 0..Attempts]]
        /\ faults \in 0..MaxFaults
        /\ swallowed \subseteq Table \X (1..delivered)
    Batches ==
        /\ batch \in [Loop -> SUBSET (1..delivered)]
        /\ BatchParsed
<1>1. Rest /\ Batches
  BY DEF TypeOK
<1>2. SUFFICES Rest' /\ Batches'
  BY <1>0 DEF TypeOK, StorePreserved
<1>3. 1..delivered \subseteq 1..delivered'
  BY <1>0 DEF StorePreserved
<1>4. ASSUME batch' = batch PROVE Batches'
  BY <1>0, <1>1, <1>3, <1>4 DEF BatchParsed, StorePreserved
<1>5. ASSUME NEW l \in Loop, NEW ids \in SUBSET (1..delivered'),
             batch' = [batch EXCEPT ![l] = WellFormed(ids)],
             stream' = stream
      PROVE  Batches'
  BY <1>0, <1>1, <1>3, <1>5 DEF BatchParsed, WellFormed
<1>6. ASSUME faults' = faults \/ Fault PROVE faults' \in 0..MaxFaults
  BY <1>1, <1>6, MaxFaultsAssumption DEF Fault
<1>7. ASSUME NEW L, EndProcess(L)
      PROVE  /\ Batches'
             /\ save' \in [Loop -> [Table -> {"run", "ok", "failed"}]]
             /\ failures' \in [Loop -> [Table -> 0..Attempts]]
  <2>1. /\ batch' \in [Loop -> SUBSET (1..delivered)]
        /\ save' \in [Loop -> [Table -> {"run", "ok", "failed"}]]
        /\ failures' \in [Loop -> [Table -> 0..Attempts]]
        /\ \A l \in Loop : batch'[l] \subseteq batch[l]
    BY <1>7, EndProcessTyped
  <2> QED
    BY <1>0, <1>1, <1>3, <2>1 DEF BatchParsed, StorePreserved
<1>8. ASSUME NEW l \in Loop, NEW t \in Table, CopyFrom(t, Items(batch[l]))
      PROVE  TablesTypeOK'
  <2>1. {Items(batch[l])[e] : e \in DOMAIN Items(batch[l])} \subseteq FlushItem
    BY <1>1 DEF Items, BatchParsed
  <2> QED
    BY <1>1, <1>8, <2>1 DEF CopyFrom, TablesTypeOK
<1>9. ASSUME NEW l \in Loop, NEW t \in Table, RetryOrFail(l, t)
      PROVE  /\ save' \in [Loop -> [Table -> {"run", "ok", "failed"}]]
             /\ failures' \in [Loop -> [Table -> 0..Attempts]]
  <2>1. failures[l][t] \in 0..Attempts /\ failures[l] \in [Table -> 0..Attempts]
    BY <1>1
  <2>2. CASE Cancelled(l) \/ failures[l][t] = Attempts
    <3>1. /\ save' = [save EXCEPT ![l][t] = "failed"]
          /\ failures' = failures
      BY <1>9, <2>2 DEF RetryOrFail, SetSave
    <3> QED
      BY <1>1, <3>1
  <2>3. CASE ~(Cancelled(l) \/ failures[l][t] = Attempts)
    <3>1. failures[l][t] + 1 \in 0..Attempts
      BY <2>1, <2>3, AttemptsAssumption
    <3>2. /\ save' = save
          /\ failures' = [failures EXCEPT ![l][t] = @ + 1]
      BY <1>9, <2>3 DEF RetryOrFail
    <3> QED
      BY <1>1, <3>1, <3>2
  <2> QED
    BY <2>2, <2>3
<1>a. CASE \E x \in FlushItem \cup Foreign : Produce(x)
  BY <1>1, <1>3, <1>4, <1>a DEF Produce, XAdd, workerVars, TablesTypeOK
<1>b. CASE \E e \in pel : TimePasses(e)
  BY <1>1, <1>3, <1>4, <1>b DEF TimePasses, Age, workerVars, TablesTypeOK
<1>c. ASSUME NEW l \in Loop, Read(l) \/ Claim(l) PROVE Rest' /\ Batches'
  <2>1. \E ids \in SUBSET (1..delivered') :
            stream' = stream /\ StartProcess(l, ids)
    BY <1>c, IdsDelivered DEF Read, Claim, XReadGroup, XAutoClaim
  <2> QED
    BY <1>1, <1>3, <1>5, <1>c, <2>1 DEF Read, Claim, StartProcess, TablesTypeOK
<1>d. ASSUME NEW l \in Loop, ReadReplyLost(l) \/ ClaimReplyLost(l)
      PROVE  Rest' /\ Batches'
  BY <1>1, <1>3, <1>4, <1>6, <1>d
     DEF ReadReplyLost, ClaimReplyLost, workerVars, TablesTypeOK
<1>e. ASSUME NEW l \in Loop, Ack(l) \/ AckError(l) \/ GiveUp(l)
      PROVE  Rest' /\ Batches'
  BY <1>1, <1>3, <1>6, <1>7, <1>e DEF Ack, AckError, GiveUp, TablesTypeOK
<1>f. ASSUME NEW l \in Loop, NEW t \in Table, SaveOk(l, t)
      PROVE  Rest' /\ Batches'
  BY <1>1, <1>3, <1>4, <1>8, <1>f DEF SaveOk, SetSave
<1>g. ASSUME NEW l \in Loop, NEW t \in Table, SaveDuplicate(l, t)
      PROVE  Rest' /\ Batches'
  BY <1>1, <1>3, <1>4, <1>g DEF SaveDuplicate, SetSave, TablesTypeOK
<1>h. ASSUME NEW l \in Loop, NEW t \in Table, SaveError(l, t)
      PROVE  Rest' /\ Batches'
  BY <1>1, <1>3, <1>4, <1>6, <1>9, <1>h DEF SaveError, TablesTypeOK
<1>i. ASSUME NEW l \in Loop, NEW t \in Table, SaveReplyLost(l, t)
      PROVE  Rest' /\ Batches'
  BY <1>1, <1>3, <1>4, <1>6, <1>8, <1>9, <1>i DEF SaveReplyLost
<1>j. ASSUME NEW l \in Loop, NEW t \in Table, SaveCancelled(l, t)
      PROVE  Rest' /\ Batches'
  BY <1>1, <1>3, <1>4, <1>j DEF SaveCancelled, SetSave, TablesTypeOK
<1>k. ASSUME NEW i \in Instance, Crash(i) PROVE Rest' /\ Batches'
  BY <1>1, <1>3, <1>6, <1>7, <1>k DEF Crash, TablesTypeOK
<1>l. ASSUME NEW i \in Instance, Start(i) PROVE Rest' /\ Batches'
  BY <1>1, <1>3, <1>4, <1>l DEF Start, TablesTypeOK
<1>m. CASE UNCHANGED vars
  BY <1>1, <1>3, <1>4, <1>m DEF vars, workerVars, TablesTypeOK
<1> QED
  BY <1>a, <1>b, <1>c, <1>d, <1>e, <1>f, <1>g, <1>h, <1>i, <1>j, <1>k, <1>l, <1>m
     DEF Next, Save

\* The stream, the tables and the bookkeeping are always well-formed: no
\* write ever fails more often than the attempts allow, nothing that was not
\* parsed becomes a row, and only delivered entries are pending or processed.
THEOREM TypeCorrect == Spec => []TypeOK
<1>1. Init => TypeOK /\ BatchParsed
  BY InitIInv DEF IInv
<1>2. TypeOK /\ BatchParsed /\ [Next]_vars => (TypeOK /\ BatchParsed)'
  BY TypedNext
<1> QED
  BY <1>1, <1>2, PTL DEF Spec

-----------------------------------------------------------------------------
\* An unchanged or grown stock of rows keeps what is stored.
Grown ==
    /\ \A t \in Table : rows[t] \subseteq rows'[t]
    /\ swallowed \subseteq swallowed'

StoredOrSwallowed(t, e) == Stored(t, e) \/ <<t, e>> \in swallowed

LEMMA NextGrows ==
    ASSUME TypeOK, [Next]_vars
    PROVE  Grown
<1> USE DEF Grown
<1>1. rows \in [Table -> SUBSET FlushItem]
  BY DEF TypeOK, TablesTypeOK
<1>2. ASSUME NEW l \in Loop, NEW t \in Table, SaveOk(l, t) \/ SaveReplyLost(l, t)
      PROVE  Grown
  BY <1>1, <1>2 DEF SaveOk, SaveReplyLost, CopyFrom
<1>3. ASSUME NEW l \in Loop, NEW t \in Table, SaveDuplicate(l, t) PROVE Grown
  BY <1>3 DEF SaveDuplicate
<1>4. CASE UNCHANGED <<rows, swallowed>>
  BY <1>4
<1>5. ASSUME ~UNCHANGED <<rows, swallowed>>
      PROVE  \E l \in Loop, t \in Table :
                SaveOk(l, t) \/ SaveDuplicate(l, t) \/ SaveReplyLost(l, t)
  BY <1>5 DEF Next, Save, vars, Produce, TimePasses, Read, ReadReplyLost, Claim,
              ClaimReplyLost, StartProcess, Ack, AckError, GiveUp, SaveError,
              SaveCancelled, Crash, Start
<1> QED
  BY <1>2, <1>3, <1>4, <1>5

\* What was stored or swallowed stays so.
LEMMA StoredStays ==
    ASSUME TypeOK, [Next]_vars, NEW t \in Table, NEW e \in 1..delivered,
           StoredOrSwallowed(t, e)
    PROVE  StoredOrSwallowed(t, e)'
<1>1. Grown
  BY NextGrows
<1>2. stream'[e] = stream[e]
  BY NextIsStoreStep, StoreStepPreserved DEF StorePreserved
<1> QED
  BY <1>1, <1>2 DEF Grown, StoredOrSwallowed, Stored

LEMMA IdleResetNext ==
    ASSUME TypeOK, IdleReset, [Next]_vars
    PROVE  IdleReset'
<1>1. ASSUME batch' = batch, save' = save PROVE IdleReset'
  BY <1>1 DEF IdleReset, Idle
<1>2. ASSUME NEW L, EndProcess(L) PROVE IdleReset'
  BY <1>2, EndProcessTyped DEF IdleReset, Idle
<1>3. ASSUME NEW l \in Loop, NEW ids, Idle(l), StartProcess(l, ids)
      PROVE  IdleReset'
  BY <1>3 DEF IdleReset, Idle, StartProcess, TypeOK
<1>4. ASSUME NEW l \in Loop, NEW t \in Table, NEW s, Saving(l, t),
             batch' = batch, SetSave(l, t, s)
      PROVE  IdleReset'
  BY <1>4 DEF IdleReset, Idle, Saving, SetSave, TypeOK
<1>5. ASSUME NEW l \in Loop, NEW t \in Table, Saving(l, t), batch' = batch,
             RetryOrFail(l, t)
      PROVE  IdleReset'
  BY <1>1, <1>4, <1>5 DEF RetryOrFail
<1>a. CASE \E x \in FlushItem \cup Foreign : Produce(x)
  BY <1>1, <1>a DEF Produce, workerVars
<1>b. CASE \E e \in pel : TimePasses(e)
  BY <1>1, <1>b DEF TimePasses, workerVars
<1>c. ASSUME NEW l \in Loop, Read(l) \/ Claim(l) PROVE IdleReset'
  BY <1>3, <1>c DEF Read, Claim
<1>d. ASSUME NEW l \in Loop, ReadReplyLost(l) \/ ClaimReplyLost(l)
      PROVE  IdleReset'
  BY <1>1, <1>d DEF ReadReplyLost, ClaimReplyLost, workerVars
<1>e. ASSUME NEW l \in Loop, Ack(l) \/ AckError(l) \/ GiveUp(l)
      PROVE  IdleReset'
  BY <1>2, <1>e DEF Ack, AckError, GiveUp
<1>f. ASSUME NEW l \in Loop, NEW t \in Table,
             SaveOk(l, t) \/ SaveDuplicate(l, t) \/ SaveCancelled(l, t)
      PROVE  IdleReset'
  BY <1>4, <1>f DEF SaveOk, SaveDuplicate, SaveCancelled
<1>g. ASSUME NEW l \in Loop, NEW t \in Table, SaveError(l, t) \/ SaveReplyLost(l, t)
      PROVE  IdleReset'
  BY <1>5, <1>g DEF SaveError, SaveReplyLost
<1>h. ASSUME NEW i \in Instance, Crash(i) \/ Start(i) PROVE IdleReset'
  BY <1>1, <1>2, <1>h DEF Crash, Start
<1>i. CASE UNCHANGED vars
  BY <1>1, <1>i DEF vars, workerVars
<1> QED
  BY <1>a, <1>b, <1>c, <1>d, <1>e, <1>f, <1>g, <1>h, <1>i DEF Next, Save

-----------------------------------------------------------------------------
\* A write returns nil only when each entry of its batch is stored or was
\* swallowed, and then that stays so for as long as the batch lasts.
LEMMA SavedNext ==
    ASSUME TypeOK, IdleReset, SavedOrSwallowed, [Next]_vars
    PROVE  SavedOrSwallowed'
<1>0. ASSUME NEW k \in Loop, NEW u \in Table, NEW e \in batch[k],
             save[k][u] = "ok"
      PROVE  StoredOrSwallowed(u, e)'
  BY <1>0, StoredStays DEF SavedOrSwallowed, StoredOrSwallowed, TypeOK
<1> SUFFICES ASSUME NEW k \in Loop, NEW u \in Table, save'[k][u] = "ok",
                    NEW e \in batch'[k]
             PROVE  StoredOrSwallowed(u, e)'
  BY DEF SavedOrSwallowed, StoredOrSwallowed
<1>1. ASSUME batch' = batch, save' = save PROVE StoredOrSwallowed(u, e)'
  BY <1>0, <1>1
<1>2. ASSUME NEW L, EndProcess(L) PROVE StoredOrSwallowed(u, e)'
  BY <1>0, <1>2, EndProcessTyped
<1>3. ASSUME NEW l \in Loop, NEW ids, Idle(l), StartProcess(l, ids)
      PROVE  StoredOrSwallowed(u, e)'
  <2>1. save'[l][u] # "ok"
    BY <1>3 DEF StartProcess, IdleReset, NotStarted
  <2>2. batch'[k] = batch[k] /\ save'[k] = save[k]
    BY <1>3, <2>1 DEF StartProcess, TypeOK
  <2> QED
    BY <1>0, <2>2
<1>4. ASSUME NEW l \in Loop, NEW t \in Table, batch' = batch,
             SetSave(l, t, "failed")
      PROVE  StoredOrSwallowed(u, e)'
  BY <1>0, <1>4 DEF SetSave, TypeOK
<1>5. ASSUME NEW l \in Loop, NEW t \in Table, batch' = batch,
             RetryOrFail(l, t)
      PROVE  StoredOrSwallowed(u, e)'
  BY <1>1, <1>4, <1>5 DEF RetryOrFail
<1>6. ASSUME NEW l \in Loop, NEW t \in Table, SaveOk(l, t) \/ SaveDuplicate(l, t)
      PROVE  StoredOrSwallowed(u, e)'
  <2>1. batch' = batch /\ stream' = stream /\ SetSave(l, t, "ok")
    BY <1>6 DEF SaveOk, SaveDuplicate, storeVars
  <2>2. CASE save[k][u] = "ok"
    BY <1>0, <2>1, <2>2
  <2>3. CASE save[k][u] # "ok"
    <3>1. k = l /\ u = t
      BY <2>1, <2>3 DEF SetSave, TypeOK
    <3>2. CASE SaveOk(l, t)
      <4>1. stream[e] \in {Items(batch[l])[f] : f \in DOMAIN Items(batch[l])}
        BY <2>1, <3>1 DEF Items
      <4> QED
        BY <2>1, <3>1, <3>2, <4>1
           DEF SaveOk, CopyFrom, StoredOrSwallowed, Stored, TypeOK, TablesTypeOK
    <3>3. CASE SaveDuplicate(l, t)
      BY <2>1, <3>1, <3>3 DEF SaveDuplicate, StoredOrSwallowed, Stored
    <3> QED
      BY <1>6, <3>2, <3>3
  <2> QED
    BY <2>2, <2>3
<1>a. CASE \E x \in FlushItem \cup Foreign : Produce(x)
  BY <1>1, <1>a DEF Produce, workerVars
<1>b. CASE \E f \in pel : TimePasses(f)
  BY <1>1, <1>b DEF TimePasses, workerVars
<1>c. ASSUME NEW l \in Loop, Read(l) \/ Claim(l) PROVE StoredOrSwallowed(u, e)'
  BY <1>3, <1>c DEF Read, Claim
<1>d. ASSUME NEW l \in Loop, ReadReplyLost(l) \/ ClaimReplyLost(l)
      PROVE  StoredOrSwallowed(u, e)'
  BY <1>1, <1>d DEF ReadReplyLost, ClaimReplyLost, workerVars
<1>e. ASSUME NEW l \in Loop, Ack(l) \/ AckError(l) \/ GiveUp(l)
      PROVE  StoredOrSwallowed(u, e)'
  BY <1>2, <1>e DEF Ack, AckError, GiveUp
<1>f. ASSUME NEW l \in Loop, NEW t \in Table, SaveCancelled(l, t)
      PROVE  StoredOrSwallowed(u, e)'
  BY <1>4, <1>f DEF SaveCancelled
<1>g. ASSUME NEW l \in Loop, NEW t \in Table, SaveError(l, t) \/ SaveReplyLost(l, t)
      PROVE  StoredOrSwallowed(u, e)'
  BY <1>5, <1>g DEF SaveError, SaveReplyLost
<1>h. ASSUME NEW i \in Instance, Crash(i) \/ Start(i)
      PROVE  StoredOrSwallowed(u, e)'
  BY <1>1, <1>2, <1>h DEF Crash, Start
<1>i. CASE UNCHANGED vars
  BY <1>1, <1>i DEF vars, workerVars
<1> QED
  BY <1>6, <1>a, <1>b, <1>c, <1>d, <1>e, <1>f, <1>g, <1>h, <1>i DEF Next, Save

-----------------------------------------------------------------------------
\* Ack is the one step that acknowledges anything: the batch of a loop whose
\* two writes have returned nil.
AckedStays == Acked' \subseteq Acked

LEMMA AckedNext ==
    ASSUME TypeOK, [Next]_vars
    PROVE  AckedStays \/ \E l \in Loop : Ack(l) /\ Acked' = Acked \cup batch[l]
<1> USE DEF AckedStays
<1>0. /\ delivered \in Nat
      /\ pel \subseteq 1..delivered
      /\ batch \in [Loop -> SUBSET (1..delivered)]
  BY DEF TypeOK, StoreTypeOK
<1>1. ASSUME delivered' = delivered, pel' = pel PROVE AckedStays
  BY <1>1 DEF Acked
<1>2. ASSUME XReadGroup PROVE AckedStays
  <2>1. LastRead \in Nat
    BY IdsDelivered
  <2> QED
    BY <1>0, <1>2, <2>1 DEF Acked, XReadGroup, NextIds
<1>3. ASSUME NEW l \in Loop, Ack(l)
      PROVE  Acked' = Acked \cup batch[l]
  BY <1>0, <1>3 DEF Ack, XAck, Acked
<1>a. CASE \E x \in FlushItem \cup Foreign : Produce(x)
  BY <1>1, <1>a DEF Produce, XAdd
<1>b. CASE \E e \in pel : TimePasses(e)
  BY <1>1, <1>b DEF TimePasses, Age
<1>c. ASSUME NEW l \in Loop, Read(l) \/ ReadReplyLost(l) PROVE AckedStays
  BY <1>2, <1>c DEF Read, ReadReplyLost
<1>d. ASSUME NEW l \in Loop, Claim(l) \/ ClaimReplyLost(l) PROVE AckedStays
  BY <1>1, <1>d DEF Claim, ClaimReplyLost, XAutoClaim
<1>e. ASSUME NEW l \in Loop, AckError(l) \/ GiveUp(l) PROVE AckedStays
  BY <1>1, <1>e DEF AckError, GiveUp, storeVars
<1>f. ASSUME NEW l \in Loop, NEW t \in Table,
             \/ SaveOk(l, t) \/ SaveDuplicate(l, t) \/ SaveError(l, t)
             \/ SaveReplyLost(l, t) \/ SaveCancelled(l, t)
      PROVE  AckedStays
  BY <1>1, <1>f DEF SaveOk, SaveDuplicate, SaveError, SaveReplyLost,
                    SaveCancelled, storeVars
<1>g. ASSUME NEW i \in Instance, Crash(i) \/ Start(i) PROVE AckedStays
  BY <1>1, <1>g DEF Crash, Start, storeVars
<1>h. CASE UNCHANGED vars
  BY <1>1, <1>h DEF vars, storeVars
<1> QED
  BY <1>3, <1>a, <1>b, <1>c, <1>d, <1>e, <1>f, <1>g, <1>h DEF Next, Save

LEMMA IInvNext ==
    ASSUME IInv, [Next]_vars
    PROVE  IInv'
<1> USE DEF IInv
<1>1. TypeOK' /\ BatchParsed'
  BY TypedNext
<1>2. IdleReset'
  BY IdleResetNext
<1>3. SavedOrSwallowed'
  BY SavedNext
<1>4. ASSUME NEW e \in Acked', e \in Acked
      PROVE  /\ stream'[e] \in FlushItem
             /\ \A t \in Table : StoredOrSwallowed(t, e)'
  <2>1. e \in 1..delivered
    BY <1>4 DEF Acked
  <2>2. stream'[e] = stream[e]
    BY <2>1, NextIsStoreStep, StoreStepPreserved DEF StorePreserved
  <2> QED
    BY <1>4, <2>1, <2>2, StoredStays
       DEF AckedStoredOrSwallowed, StoredOrSwallowed, ForeignNeverAcked
<1>5. ASSUME NEW l \in Loop, Ack(l), NEW e \in batch[l]
      PROVE  /\ stream'[e] \in FlushItem
             /\ \A t \in Table : StoredOrSwallowed(t, e)'
  <2>1. e \in 1..delivered /\ stream'[e] = stream[e]
    BY <1>5 DEF TypeOK, Ack, XAck
  <2>2. \A t \in Table : StoredOrSwallowed(t, e)
    BY <1>5 DEF Ack, BatchSaved, SavedOrSwallowed, StoredOrSwallowed
  <2> QED
    BY <1>5, <2>1, <2>2, StoredStays DEF BatchParsed
<1>6. AckedStoredOrSwallowed' /\ ForeignNeverAcked'
  BY <1>4, <1>5, AckedNext
     DEF AckedStays, AckedStoredOrSwallowed, StoredOrSwallowed, ForeignNeverAcked
<1> QED
  BY <1>1, <1>2, <1>3, <1>6

\* No failed write, lost reply, crash or overlapping claim makes the worker
\* acknowledge an entry whose row is missing, whatever the batch size: a
\* unique violation reported as success is the only way.
THEOREM AcknowledgedIsStored == Spec => []AckedStoredOrSwallowed
<1>1. IInv => AckedStoredOrSwallowed
  BY DEF IInv
<1> QED
  BY <1>1, InitIInv, IInvNext, PTL DEF Spec

\* Entries that parsePendingItem rejects stay in the pending list.
THEOREM ForeignStaysPending == Spec => []ForeignNeverAcked
<1>1. IInv => ForeignNeverAcked
  BY DEF IInv
<1> QED
  BY <1>1, InitIInv, IInvNext, PTL DEF Spec

-----------------------------------------------------------------------------
(***************************************************************************)
(* Batches of one entry, and no two items with the same primary key (what  *)
(* uploads produce, whose chunk UUIDs are fresh).                          *)
(***************************************************************************)
OneByOne == Amount = 1

UniqueItems == \A x, y \in FlushItem : SamePrimaryKey(x, y) => x = y

SingleBatch == \A l \in Loop : \A e, f \in batch[l] : e = f

NothingSwallowed == swallowed = {}

LEMMA IdsSingle ==
    ASSUME OneByOne, TypeOK
    PROVE  /\ \A e, f \in NextIds : e = f
           /\ \A e, f \in ClaimIds : e = f
<1>1. delivered \in Nat /\ stale \subseteq 1..delivered
  BY DEF TypeOK, StoreTypeOK
<1>2. \A e, f \in NextIds : e = f
  BY <1>1 DEF OneByOne, NextIds, LastRead
<1>3. IsFiniteSet(stale)
  <2>1. IsFiniteSet(1..delivered)
    BY <1>1, FS_Interval
  <2> QED
    BY <1>1, <2>1, FS_Subset
<1>4. ASSUME NEW e \in ClaimIds, NEW f \in ClaimIds, f < e PROVE FALSE
  <2> DEFINE before == {g \in stale : g < e}
  <2>1. IsFiniteSet(before)
    BY <1>3, FS_Subset
  <2>2. Cardinality(before) < 1
    BY DEF OneByOne, ClaimIds
  <2>3. Cardinality(before) \in Nat
    BY <2>1, FS_CardinalityType
  <2>4. Cardinality(before) = 0
    BY <2>2, <2>3
  <2>5. before = {}
    BY <2>1, <2>4, FS_EmptySet
  <2>6. f \in before
    BY <1>4 DEF ClaimIds
  <2> QED
    BY <2>5, <2>6
<1>5. ClaimIds \subseteq Nat
  <2>1. ClaimIds \subseteq stale
    BY DEF ClaimIds
  <2> QED
    BY <1>1, <2>1
<1>6. \A e, f \in ClaimIds : e = f
  BY <1>4, <1>5
<1> QED
  BY <1>2, <1>6

LEMMA SingleBatchNext ==
    ASSUME OneByOne, TypeOK, SingleBatch, [Next]_vars
    PROVE  SingleBatch'
<1>1. ASSUME batch' = batch PROVE SingleBatch'
  BY <1>1 DEF SingleBatch
<1>2. ASSUME NEW L, EndProcess(L) PROVE SingleBatch'
  BY <1>2, EndProcessTyped DEF SingleBatch
<1>3. ASSUME NEW l \in Loop, Read(l) \/ Claim(l) PROVE SingleBatch'
  <2>1. PICK ids : /\ \A e, f \in ids : e = f
                   /\ StartProcess(l, ids)
    BY <1>3, IdsSingle DEF Read, Claim
  <2>2. \A k \in Loop : batch'[k] = batch[k] \/ batch'[k] \subseteq ids
    BY <2>1 DEF StartProcess, WellFormed, TypeOK
  <2> QED
    BY <2>1, <2>2 DEF SingleBatch
<1>a. CASE \E x \in FlushItem \cup Foreign : Produce(x)
  BY <1>1, <1>a DEF Produce, workerVars
<1>b. CASE \E e \in pel : TimePasses(e)
  BY <1>1, <1>b DEF TimePasses, workerVars
<1>c. ASSUME NEW l \in Loop, ReadReplyLost(l) \/ ClaimReplyLost(l) PROVE SingleBatch'
  BY <1>1, <1>c DEF ReadReplyLost, ClaimReplyLost, workerVars
<1>d. ASSUME NEW l \in Loop, Ack(l) \/ AckError(l) \/ GiveUp(l) PROVE SingleBatch'
  BY <1>2, <1>d DEF Ack, AckError, GiveUp
<1>e. ASSUME NEW l \in Loop, NEW t \in Table,
             \/ SaveOk(l, t) \/ SaveDuplicate(l, t) \/ SaveError(l, t)
             \/ SaveReplyLost(l, t) \/ SaveCancelled(l, t)
      PROVE  SingleBatch'
  BY <1>1, <1>e DEF SaveOk, SaveDuplicate, SaveError, SaveReplyLost, SaveCancelled
<1>f. ASSUME NEW i \in Instance, Crash(i) \/ Start(i) PROVE SingleBatch'
  BY <1>1, <1>2, <1>f DEF Crash, Start
<1>g. CASE UNCHANGED vars
  BY <1>1, <1>g DEF vars, workerVars
<1> QED
  BY <1>3, <1>a, <1>b, <1>c, <1>d, <1>e, <1>f, <1>g DEF Next, Save

\* Nothing but SaveDuplicate swallows.
LEMMA SwallowedNext ==
    ASSUME [Next]_vars
    PROVE  swallowed' = swallowed \/ \E l \in Loop, t \in Table : SaveDuplicate(l, t)
BY DEF Next, Save, vars, Produce, TimePasses, Read, ReadReplyLost, Claim, ClaimReplyLost,
       StartProcess, SaveOk, SaveError, SaveReplyLost, SaveCancelled, Ack, AckError,
       GiveUp, Crash, Start

LEMMA NothingSwallowedNext ==
    ASSUME UniqueItems, TypeOK, BatchParsed, SingleBatch, NothingSwallowed, [Next]_vars
    PROVE  NothingSwallowed'
<1>1. ASSUME NEW l \in Loop, NEW t \in Table, SaveDuplicate(l, t)
      PROVE  NothingSwallowed'
  <2>1. PICK e \in batch[l], r \in rows[t] : SamePrimaryKey(stream[e], r)
    BY <1>1 DEF SaveDuplicate, UniqueViolation, Items, SingleBatch
  <2>2. stream[e] \in rows[t]
    BY <2>1 DEF UniqueItems, BatchParsed, TypeOK, TablesTypeOK
  <2>3. {f \in batch[l] : stream[f] \notin rows[t]} = {}
    BY <2>1, <2>2 DEF SingleBatch
  <2> QED
    BY <1>1, <2>3 DEF SaveDuplicate, NothingSwallowed
<1> QED
  BY <1>1, SwallowedNext DEF NothingSwallowed

LEMMA OneByOneInvariance ==
    ASSUME OneByOne
    PROVE  Spec => [](IInv /\ SingleBatch)
<1>1. Init => IInv /\ SingleBatch
  BY InitIInv DEF Init, SingleBatch
<1>2. IInv /\ SingleBatch /\ [Next]_vars => (IInv /\ SingleBatch)'
  BY IInvNext, SingleBatchNext DEF IInv
<1> QED
  BY <1>1, <1>2, PTL DEF Spec

LEMMA OneByOneSwallowsNothing ==
    ASSUME OneByOne, UniqueItems
    PROVE  Spec => []NothingSwallowed
<1>1. Init => NothingSwallowed
  BY DEF Init, NothingSwallowed
<1>2. IInv /\ SingleBatch /\ NothingSwallowed /\ [Next]_vars => NothingSwallowed'
  BY NothingSwallowedNext DEF IInv
<1> QED
  BY <1>1, <1>2, OneByOneInvariance, PTL DEF Spec

LEMMA Invariance == Spec => []IInv
  BY InitIInv, IInvNext, PTL DEF Spec

LEMMA StoredUnlessSwallowed == IInv /\ NothingSwallowed => AckedStored
  BY DEF IInv, AckedStoredOrSwallowed, NothingSwallowed, AckedStored

\* The worker keeps the promise of Ack's comment if it takes the entries one
\* by one: an acknowledged entry has its row in both databases.
THEOREM OneByOneStored ==
    ASSUME OneByOne, UniqueItems
    PROVE  Spec => []AckedStored
  BY Invariance, StoredUnlessSwallowed, OneByOneSwallowsNothing, PTL

-----------------------------------------------------------------------------
\* A step of the worker is a step of the hand-off, or changes nothing that
\* the hand-off can see.
LEMMA StepIsHandoff ==
    ASSUME IInv, IInv', AckedStored, AckedStored', [Next]_vars
    PROVE  [Handoff!HandoffNext]_(Handoff!handoffVars)
<1> DEFINE A == [Handoff!HandoffNext]_(Handoff!handoffVars)
<1>0. /\ TypeOK /\ BatchParsed
      /\ delivered \in Nat /\ Len(stream) \in Nat /\ delivered <= Len(stream)
      /\ DOMAIN stream = 1..Len(stream)
      /\ \A l \in Loop : batch[l] \subseteq 1..delivered
      /\ Handoff!Table = Table
  BY DEF IInv, TypeOK, StoreTypeOK, Handoff!Table, Table
<1>1. ASSUME stream' = stream, rows' = rows, delivered' = delivered, pel' = pel
      PROVE  A
  BY <1>1 DEF Acked, Handoff!handoffVars
<1>2. ASSUME NEW x \in FlushItem \cup Foreign, Produce(x) PROVE A
  BY <1>2 DEF Produce, XAdd, Acked, Handoff!HandoffNext, Handoff!Accept
<1>3. ASSUME NEW l \in Loop, Read(l) \/ ReadReplyLost(l) PROVE A
  <2>1. XReadGroup /\ rows' = rows
    BY <1>3 DEF Read, ReadReplyLost, StartProcess
  <2>2. LastRead \in Nat /\ LastRead >= delivered
    BY <1>0, IdsDelivered
  <2>3. pel \subseteq 1..delivered
    BY <1>0 DEF TypeOK, StoreTypeOK
  <2>4. Acked' = Acked
    BY <1>0, <2>1, <2>2, <2>3 DEF XReadGroup, NextIds, Acked
  <2> QED
    BY <2>1, <2>4 DEF XReadGroup, Handoff!handoffVars
<1>4. ASSUME NEW l \in Loop, Claim(l) \/ ClaimReplyLost(l) PROVE A
  BY <1>1, <1>4 DEF Claim, ClaimReplyLost, XAutoClaim, StartProcess
<1>5. ASSUME NEW l \in Loop, NEW t \in Table, SaveOk(l, t) \/ SaveReplyLost(l, t)
      PROVE  A
  <2> DEFINE X == {Items(batch[l])[e] : e \in DOMAIN Items(batch[l])}
  <2>1. /\ stream' = stream /\ delivered' = delivered /\ pel' = pel
        /\ rows' = [rows EXCEPT ![t] = @ \cup X]
    BY <1>5 DEF SaveOk, SaveReplyLost, CopyFrom, storeVars
  <2>2. X = {stream[e] : e \in batch[l]}
    BY DEF Items
  <2>3. X \in SUBSET FlushItem
    BY <1>0, <2>2 DEF BatchParsed
  <2>4. X \subseteq {stream[e] : e \in DOMAIN stream}
    <3>1. batch[l] \subseteq DOMAIN stream
      BY <1>0
    <3> QED
      BY <2>2, <3>1
  <2>5. X \cap Foreign = {}
    BY <2>3, ForeignAssumption
  <2>6. Handoff!Persist(t, X)
    BY <2>1, <2>4, <2>5 DEF Handoff!Persist, Acked
  <2> QED
    BY <1>0, <2>3, <2>6 DEF Handoff!HandoffNext
<1>6. ASSUME NEW l \in Loop, Ack(l) PROVE A
  <2>1. stream' = stream /\ rows' = rows
    BY <1>6 DEF Ack, XAck
  <2>2. Acked' = Acked \cup batch[l]
    BY <1>0, <1>6 DEF Ack, XAck, Acked, TypeOK, StoreTypeOK
  <2>3. \A e \in batch[l], t \in Table : stream[e] \in rows[t]
    BY <2>1, <2>2 DEF AckedStored, Stored
  <2>4. batch[l] \in SUBSET DOMAIN stream
    BY <1>0
  <2>5. Handoff!Release(batch[l])
    BY <1>0, <2>1, <2>2, <2>3, <2>4 DEF Handoff!Release
  <2> QED
    BY <2>4, <2>5 DEF Handoff!HandoffNext
<1>a. CASE \E e \in pel : TimePasses(e)
  BY <1>1, <1>a DEF TimePasses, Age
<1>b. ASSUME NEW l \in Loop, AckError(l) \/ GiveUp(l) PROVE A
  BY <1>1, <1>b DEF AckError, GiveUp, storeVars
<1>c. ASSUME NEW l \in Loop, NEW t \in Table,
             SaveDuplicate(l, t) \/ SaveError(l, t) \/ SaveCancelled(l, t)
      PROVE  A
  BY <1>1, <1>c DEF SaveDuplicate, SaveError, SaveCancelled, storeVars
<1>d. ASSUME NEW i \in Instance, Crash(i) \/ Start(i) PROVE A
  BY <1>1, <1>d DEF Crash, Start, storeVars
<1>e. CASE UNCHANGED vars
  BY <1>1, <1>e DEF vars, storeVars
<1> QED
  BY <1>2, <1>3, <1>4, <1>5, <1>6, <1>a, <1>b, <1>c, <1>d, <1>e DEF Next, Save

\* With batches of any size, as long as no write is reported that did not
\* happen, the worker with all its loops, retries, claims and restarts
\* implements the durable hand-off.
THEOREM HandoffUnlessSwallowed == Spec /\ []NothingSwallowed => HandoffSafety
<1>1. Init => Handoff!HandoffInit
  BY DEF Init, StoreInit, TablesInit, Acked, Table, Handoff!HandoffInit,
         Handoff!TablesInit, Handoff!Table
<1>2. IInv /\ IInv' /\ AckedStored /\ AckedStored' /\ [Next]_vars
         => [Handoff!HandoffNext]_(Handoff!handoffVars)
  BY StepIsHandoff
<1> QED
  BY <1>1, <1>2, Invariance, StoredUnlessSwallowed, PTL
     DEF Spec, HandoffSafety, Handoff!HandoffSpec

\* Entry by entry, it always does.
THEOREM OneByOneHandoff ==
    ASSUME OneByOne, UniqueItems
    PROVE  Spec => HandoffSafety
  BY HandoffUnlessSwallowed, OneByOneSwallowsNothing, PTL

-----------------------------------------------------------------------------
(***************************************************************************)
(* The worker implements the buffer of rotations and downloads.            *)
(***************************************************************************)
BufferStep == [Buffer!BufferNext]_<<rows, Buffer!bufferVars>>

SeenByBuffer == <<rows, StreamItems, OpenItems, SavedItems>>

LEMMA SeenUnchanged == UNCHANGED SeenByBuffer => BufferStep
  BY DEF SeenByBuffer, BufferStep, Buffer!bufferVars

\* What the buffer sees depends on these variables only.
LEMMA SeenFrom ==
    ASSUME stream' = stream, Acked' = Acked, rows' = rows, swallowed' = swallowed
    PROVE  UNCHANGED SeenByBuffer
  BY DEF SeenByBuffer, StreamItems, OpenItems, SavedItems

\* Redis delivers: no entry is acknowledged by it.
LEMMA ReadIsUnseen ==
    ASSUME TypeOK, NEW l \in Loop, Read(l) \/ ReadReplyLost(l)
    PROVE  UNCHANGED SeenByBuffer
<1>1. /\ XReadGroup /\ rows' = rows /\ swallowed' = swallowed
  BY DEF Read, ReadReplyLost, StartProcess
<1>2. LastRead \in Nat /\ LastRead >= delivered /\ delivered \in Nat
  BY IdsDelivered
<1>3. pel \subseteq 1..delivered
  BY DEF TypeOK, StoreTypeOK
<1>4. Acked' = Acked
  BY <1>1, <1>2, <1>3 DEF XReadGroup, NextIds, Acked
<1> QED
  BY <1>1, <1>4, SeenFrom DEF XReadGroup

\* An entry that parses is accepted, and any other is not seen.
LEMMA ProduceAccepts ==
    ASSUME TypeOK, NEW x \in FlushItem \cup Foreign, Produce(x)
    PROVE  BufferStep
<1>1. /\ stream \in Seq(FlushItem \cup Foreign) /\ Len(stream) \in Nat
      /\ delivered \in 0..Len(stream)
      /\ swallowed \subseteq Table \X (1..delivered)
  BY DEF TypeOK, StoreTypeOK
<1>2. /\ stream' = Append(stream, x) /\ rows' = rows /\ swallowed' = swallowed
      /\ Acked' = Acked
  BY DEF Produce, XAdd, Acked
<1>3. /\ DOMAIN stream = 1..Len(stream)
      /\ DOMAIN stream' = DOMAIN stream \cup {Len(stream) + 1}
      /\ \A e \in DOMAIN stream : stream'[e] = stream[e]
      /\ stream'[Len(stream) + 1] = x
  BY <1>1, <1>2
<1>4. Acked \subseteq DOMAIN stream /\ Len(stream) + 1 \notin DOMAIN stream
  BY <1>1, <1>3 DEF Acked
<1>5. StreamItems' = StreamItems \cup ({x} \ Foreign)
  BY <1>3 DEF StreamItems
<1>6. OpenItems' = OpenItems \cup ({x} \ Foreign)
  BY <1>2, <1>3, <1>4 DEF OpenItems
<1>7. SavedItems' = SavedItems
  <2>1. \A s \in swallowed : stream'[s[2]] = stream[s[2]]
    BY <1>1, <1>3
  <2> QED
    BY <1>2, <2>1 DEF SavedItems
<1>8. CASE x \in Foreign
  <2>1. UNCHANGED SeenByBuffer
    BY <1>2, <1>5, <1>6, <1>7, <1>8 DEF SeenByBuffer
  <2> QED
    BY <2>1, SeenUnchanged
<1>9. CASE x \in FlushItem
  <2>1. x \notin Foreign
    BY <1>9, ForeignAssumption
  <2>2. Buffer!Accept(x)
    BY <1>2, <1>5, <1>6, <1>7, <2>1 DEF Buffer!Accept
  <2> QED
    BY <1>9, <2>2 DEF BufferStep, Buffer!BufferNext
<1> QED
  BY <1>8, <1>9

\* No batch is larger than PENDING_AMOUNT.
BatchSmall == \A l \in Loop : Cardinality(batch[l]) <= Amount

\* A set of delivered entries has a last one.
LEMMA LastEntry ==
    ASSUME NEW n \in Nat, NEW S \in SUBSET (1..n), S # {}
    PROVE  \E e \in S : \A f \in S : f <= e
<1> DEFINE Rest == {n - e : e \in S}
<1>1. Rest \subseteq Nat /\ Rest # {}
  <2>1. \A e \in S : n - e \in Nat
    OBVIOUS
  <2> QED
    BY <2>1
<1>2. PICK r \in Rest : \A q \in Rest : ~(<<q, r>> \in OpToRel(<, Nat))
  <2> HIDE DEF Rest
  <2> QED
    BY <1>1, NatLessThanWellFounded, WFMin
<1>3. \A q \in Rest : r <= q
  <2>1. \A q \in Rest : ~(q < r)
    <3> HIDE DEF Rest
    <3> QED
      BY <1>1, <1>2 DEF OpToRel
  <2> QED
    BY <1>1, <2>1
<1>4. PICK e \in S : r = n - e
  OBVIOUS
<1>5. ASSUME NEW f \in S PROVE f <= e
  <2>1. n - e <= n - f
    BY <1>3, <1>4
  <2> QED
    BY <2>1
<1> QED
  BY <1>5

\* XREADGROUP and XAUTOCLAIM return no more entries than they are asked for.
LEMMA IdsSmall ==
    ASSUME TypeOK
    PROVE  /\ IsFiniteSet(NextIds) /\ Cardinality(NextIds) <= Amount
           /\ IsFiniteSet(ClaimIds) /\ Cardinality(ClaimIds) <= Amount
<1>1. /\ delivered \in Nat /\ Len(stream) \in Nat /\ Amount \in Nat
      /\ stale \subseteq 1..delivered
  BY AmountAssumption DEF TypeOK, StoreTypeOK
<1>2. IsFiniteSet(NextIds) /\ Cardinality(NextIds) <= Amount
  <2>1. LastRead \in Nat /\ LastRead <= delivered + Amount
    BY <1>1 DEF LastRead
  <2>2. delivered + 1 \in Int /\ LastRead \in Int
    BY <1>1, <2>1
  <2>3. /\ IsFiniteSet(NextIds)
        /\ Cardinality(NextIds) = IF delivered + 1 > LastRead THEN 0
                                  ELSE LastRead - (delivered + 1) + 1
    BY <2>2, FS_Interval DEF NextIds
  <2> QED
    BY <1>1, <2>1, <2>3
<1>3. IsFiniteSet(stale) /\ IsFiniteSet(ClaimIds) /\ ClaimIds \subseteq stale
  <2>1. IsFiniteSet(1..delivered)
    BY <1>1, FS_Interval
  <2> QED
    BY <1>1, <2>1, FS_Subset DEF ClaimIds
<1>4. Cardinality(ClaimIds) <= Amount
  <2>1. CASE ClaimIds = {}
    <3>1. Cardinality({}) = 0
      BY FS_EmptySet
    <3> QED
      BY <1>1, <2>1, <3>1
  <2>2. CASE ClaimIds # {}
    <3>1. PICK e \in ClaimIds : \A f \in ClaimIds : f <= e
      BY <1>1, <1>3, <2>2, LastEntry
    <3> DEFINE before == {f \in stale : f < e}
    <3>2. IsFiniteSet(before) /\ Cardinality(before) < Amount
      BY <1>3, FS_Subset DEF ClaimIds
    <3>3. ClaimIds \ {e} \in SUBSET before
      BY <1>1, <1>3, <3>1
    <3> HIDE DEF before
    <3>4. Cardinality(ClaimIds \ {e}) <= Cardinality(before)
      BY <3>2, <3>3, FS_Subset
    <3>5. Cardinality(ClaimIds \ {e}) = Cardinality(ClaimIds) - 1
      BY <1>3, <3>1, FS_RemoveElement
    <3>6. Cardinality(before) \in Nat /\ Cardinality(ClaimIds) \in Nat
      BY <1>3, <3>2, FS_CardinalityType
    <3> QED
      BY <1>1, <3>2, <3>4, <3>5, <3>6
  <2> QED
    BY <2>1, <2>2
<1> QED
  BY <1>2, <1>3, <1>4

LEMMA BatchSmallNext ==
    ASSUME TypeOK, BatchSmall, [Next]_vars
    PROVE  BatchSmall'
<1>1. ASSUME batch' = batch PROVE BatchSmall'
  BY <1>1 DEF BatchSmall
<1>2. ASSUME NEW L, EndProcess(L) PROVE BatchSmall'
  <2>1. \A l \in Loop : batch'[l] = {} \/ batch'[l] = batch[l]
    BY <1>2 DEF EndProcess
  <2> QED
    BY <2>1, FS_EmptySet, AmountAssumption DEF BatchSmall
<1>3. ASSUME NEW l \in Loop, Read(l) \/ Claim(l) PROVE BatchSmall'
  <2>1. PICK ids : /\ IsFiniteSet(ids) /\ Cardinality(ids) <= Amount
                   /\ StartProcess(l, ids)
    BY <1>3, IdsSmall DEF Read, Claim
  <2>2. \A k \in Loop : batch'[k] = batch[k] \/ batch'[k] \in SUBSET ids
    BY <2>1 DEF StartProcess, WellFormed, TypeOK
  <2>3. ASSUME NEW S \in SUBSET ids PROVE Cardinality(S) <= Amount
    <3>1. /\ Cardinality(S) <= Cardinality(ids)
          /\ Cardinality(S) \in Nat /\ Cardinality(ids) \in Nat
      BY <2>1, FS_Subset, FS_CardinalityType
    <3> QED
      BY <2>1, <3>1, AmountAssumption
  <2> QED
    BY <2>2, <2>3 DEF BatchSmall
<1>a. CASE \E x \in FlushItem \cup Foreign : Produce(x)
  BY <1>1, <1>a DEF Produce, workerVars
<1>b. CASE \E e \in pel : TimePasses(e)
  BY <1>1, <1>b DEF TimePasses, workerVars
<1>c. ASSUME NEW l \in Loop, ReadReplyLost(l) \/ ClaimReplyLost(l) PROVE BatchSmall'
  BY <1>1, <1>c DEF ReadReplyLost, ClaimReplyLost, workerVars
<1>d. ASSUME NEW l \in Loop, Ack(l) \/ AckError(l) \/ GiveUp(l) PROVE BatchSmall'
  BY <1>2, <1>d DEF Ack, AckError, GiveUp
<1>e. ASSUME NEW l \in Loop, NEW t \in Table,
             \/ SaveOk(l, t) \/ SaveDuplicate(l, t) \/ SaveError(l, t)
             \/ SaveReplyLost(l, t) \/ SaveCancelled(l, t)
      PROVE  BatchSmall'
  BY <1>1, <1>e DEF SaveOk, SaveDuplicate, SaveError, SaveReplyLost, SaveCancelled
<1>f. ASSUME NEW i \in Instance, Crash(i) \/ Start(i) PROVE BatchSmall'
  BY <1>1, <1>2, <1>f DEF Crash, Start
<1>g. CASE UNCHANGED vars
  BY <1>1, <1>g DEF vars, workerVars
<1> QED
  BY <1>3, <1>a, <1>b, <1>c, <1>d, <1>e, <1>f, <1>g DEF Next, Save

\* The instance has a copy of the definition of its own.
LEMMA BufferCardinality == \A S : Buffer!Cardinality(S) = Cardinality(S)
  BY Zenon DEF Cardinality, Buffer!Cardinality

\* The items of a batch are accepted, and at most as many as the batch has
\* entries; fewer if two entries are of one item.
LEMMA BatchItems ==
    ASSUME TypeOK, BatchParsed, BatchSmall, NEW l \in Loop
    PROVE  LET X == {stream[e] : e \in batch[l]}
           IN  /\ X \subseteq StreamItems /\ X \subseteq FlushItem
               /\ Buffer!Batch(X)
               /\ (\E e, f \in batch[l] : e # f /\ stream[e] = stream[f])
                     => Cardinality(X) < Amount
<1> DEFINE X == {stream[e] : e \in batch[l]}
           image == [e \in batch[l] |-> stream[e]]
<1>1. X \subseteq StreamItems /\ X \subseteq FlushItem
  <2>1. batch[l] \subseteq DOMAIN stream
    BY DEF TypeOK, StoreTypeOK
  <2>2. X \subseteq FlushItem
    BY DEF BatchParsed
  <2> QED
    BY <2>1, <2>2, ForeignAssumption DEF StreamItems
<1>2. IsFiniteSet(batch[l])
  <2>1. delivered \in Int /\ batch[l] \in SUBSET (1..delivered)
    BY DEF TypeOK, StoreTypeOK
  <2>2. IsFiniteSet(1..delivered)
    BY <2>1, FS_Interval
  <2> QED
    BY <2>1, <2>2, FS_Subset
<1>3. image \in Surjection(batch[l], X)
  <2>1. image \in [batch[l] -> X] /\ \A x \in X : \E e \in batch[l] : image[e] = x
    OBVIOUS
  <2> HIDE DEF image, X
  <2> QED
    BY <2>1 DEF Surjection
<1>4. /\ IsFiniteSet(X)
      /\ Cardinality(X) <= Cardinality(batch[l])
      /\ Cardinality(X) = Cardinality(batch[l]) => image \in Injection(batch[l], X)
  <2> HIDE DEF image, X
  <2> QED
    BY <1>2, <1>3, FS_Surjection
<1>5. /\ Cardinality(X) \in Nat /\ Cardinality(batch[l]) \in Nat
      /\ Cardinality(batch[l]) <= Amount /\ Amount \in Nat
  <2> HIDE DEF X
  <2> QED
    BY <1>2, <1>4, FS_CardinalityType, AmountAssumption DEF BatchSmall
<1>6. Buffer!Batch(X)
  <2> HIDE DEF X
  <2> QED
    BY <1>1, <1>4, <1>5, BufferCardinality DEF Buffer!Batch
<1>7. ASSUME NEW e \in batch[l], NEW f \in batch[l], e # f, stream[e] = stream[f]
      PROVE  Cardinality(X) < Amount
  <2>1. image \notin Injection(batch[l], X)
    <3>1. image[e] = image[f]
      BY <1>7
    <3> HIDE DEF image, X
    <3> QED
      BY <1>7, <3>1 DEF Injection, IsInjective
  <2> HIDE DEF image, X
  <2> QED
    BY <1>4, <1>5, <2>1
<1> QED
  BY <1>1, <1>6, <1>7

\* Whether the items are still to be written or were before, the buffer saves
\* them.
LEMMA SaveIsBufferStep ==
    ASSUME NEW t \in Buffer!Table, NEW X, X \subseteq StreamItems, X # {},
           Buffer!Save(t, X)
    PROVE  BufferStep
<1>1. CASE X \subseteq Buffer!Due(t)
  <2>1. X \in (SUBSET Buffer!Due(t)) \ {{}}
    BY <1>1
  <2>2. Buffer!Write
    BY <2>1 DEF Buffer!Write
  <2> QED
    BY <2>2 DEF BufferStep, Buffer!BufferNext
<1>2. CASE ~(X \subseteq Buffer!Due(t))
  <2>1. Buffer!Rewrite
    BY <1>2 DEF Buffer!Rewrite
  <2> QED
    BY <2>1 DEF BufferStep, Buffer!BufferNext
<1> QED
  BY <1>1, <1>2

\* A COPY that is committed inserts the items of its batch, whether they are
\* still to be written, or were before.
LEMMA CopyInserts ==
    ASSUME TypeOK, BatchParsed, BatchSmall, NEW l \in Loop, NEW t \in Table,
           SaveOk(l, t) \/ SaveReplyLost(l, t)
    PROVE  BufferStep
<1> DEFINE X == {stream[e] : e \in batch[l]}
           B == Items(batch[l])
<1>1. /\ stream' = stream /\ Acked' = Acked /\ swallowed' = swallowed
      /\ batch[l] # {} /\ CopyFrom(t, B)
  BY DEF SaveOk, SaveReplyLost, storeVars, Acked, Saving, Idle
<1>2. DOMAIN B = batch[l] /\ \A e \in batch[l] : B[e] = stream[e]
  BY DEF Items
<1>3. /\ rows \in [Table -> SUBSET FlushItem]
      /\ rows' = [rows EXCEPT ![t] = @ \cup X]
  <2>1. {B[e] : e \in DOMAIN B} = X
    BY <1>2
  <2> QED
    BY <1>1, <2>1 DEF CopyFrom, TypeOK, TablesTypeOK
<1>4. /\ X \subseteq StreamItems /\ X \subseteq FlushItem /\ X # {}
      /\ Buffer!Batch(X)
  BY <1>1, BatchItems
<1>5. StreamItems' = StreamItems /\ OpenItems' = OpenItems
  BY <1>1 DEF StreamItems, OpenItems
<1>6. SavedItems' = SavedItems \cup ({t} \X X)
  <2>1. \A u \in Table : rows'[u] = IF u = t THEN rows[t] \cup X ELSE rows[u]
    BY <1>3
  <2> HIDE DEF X
  <2>2. \A w \in Table \X FlushItem :
           w[2] \in rows'[w[1]] <=> w[2] \in rows[w[1]] \/ w \in {t} \X X
    BY <2>1
  <2>3. {t} \X X \subseteq Table \X FlushItem
    BY <1>4
  <2> QED
    BY <1>1, <2>2, <2>3 DEF SavedItems
<1>7. ~UniqueViolation(t, [x \in X |-> x])
  <2>1. ~UniqueViolation(t, B)
    BY <1>1 DEF CopyFrom
  <2>2. \A x \in X : \E e \in DOMAIN B : B[e] = x
    BY <1>2
  <2>3. \A x \in X, r \in rows[t] : ~SamePrimaryKey(x, r)
    BY <2>1, <2>2 DEF UniqueViolation
  <2>4. \A x, y \in X : x # y => ~SamePrimaryKey(x, y)
    BY <2>1, <2>2 DEF UniqueViolation
  <2> HIDE DEF X
  <2> QED
    BY <2>3, <2>4 DEF UniqueViolation
<1> HIDE DEF X
<1>8. Buffer!Insert(t, X)
  <2>1. {[x \in X |-> x][e] : e \in DOMAIN [x \in X |-> x]} = X
    OBVIOUS
  <2>2. Buffer!CopyFrom(t, [x \in X |-> x])
    BY <1>3, <1>7, <2>1 DEF Buffer!CopyFrom, Buffer!UniqueViolation, UniqueViolation,
       Buffer!SamePrimaryKey, SamePrimaryKey
  <2> QED
    BY <1>5, <1>6, <2>2 DEF Buffer!Insert, Buffer!ReportSaved
<1>9. t \in Buffer!Table
  BY DEF Table, Buffer!Table
<1>10. Buffer!Save(t, X)
  BY <1>4, <1>8 DEF Buffer!Save
<1> QED
  BY <1>4, <1>9, <1>10, SaveIsBufferStep

\* An acknowledgement covers items of the batch only, which are saved.
LEMMA AckAcknowledges ==
    ASSUME IInv, NEW l \in Loop, Ack(l)
    PROVE  BufferStep
<1> DEFINE X == OpenItems \ OpenItems'
<1>1. /\ stream' = stream /\ rows' = rows /\ swallowed' = swallowed
      /\ Acked' = Acked \cup batch[l]
  BY DEF Ack, XAck, Acked, IInv, TypeOK, StoreTypeOK
<1>2. StreamItems' = StreamItems /\ SavedItems' = SavedItems
  BY <1>1 DEF StreamItems, SavedItems
<1>3. OpenItems' \subseteq OpenItems
  BY <1>1 DEF OpenItems
<1>4. ASSUME NEW x \in X, NEW t \in Table PROVE <<t, x>> \in SavedItems
  <2>1. PICK e \in DOMAIN stream \ Acked : stream[e] = x
    BY DEF OpenItems
  <2>2. e \in batch[l]
    BY <1>1, <2>1 DEF OpenItems
  <2>3. x \in FlushItem
    BY <2>1, <2>2 DEF IInv, BatchParsed
  <2>4. save[l][t] = "ok"
    BY DEF Ack, BatchSaved
  <2>5. x \in rows[t] \/ <<t, e>> \in swallowed
    BY <2>1, <2>2, <2>4 DEF IInv, SavedOrSwallowed, Stored
  <2> QED
    BY <2>1, <2>3, <2>5 DEF SavedItems
<1>5. CASE X = {}
  BY <1>1, <1>2, <1>3, <1>5, SeenUnchanged DEF SeenByBuffer
<1>6. CASE X # {}
  <2>1. X \in (SUBSET OpenItems) \ {{}} /\ OpenItems' = OpenItems \ X
    BY <1>3, <1>6
  <2>2. Buffer!Ack(X)
    <3>1. Buffer!Table = Table
      BY DEF Table, Buffer!Table
    <3> HIDE DEF X
    <3> QED
      BY <1>1, <1>2, <1>4, <2>1, <3>1 DEF Buffer!Ack
  <2> HIDE DEF X
  <2> QED
    BY <2>1, <2>2 DEF BufferStep, Buffer!BufferNext, Buffer!Acknowledge
<1> QED
  BY <1>5, <1>6

\* A batch that breaks the primary key counts as saved: the worker notes the
\* entries without a row, and the buffer the items.
LEMMA DuplicateIsSaved ==
    ASSUME IInv, BatchSmall, NEW l \in Loop, NEW t \in Table, SaveDuplicate(l, t)
    PROVE  BufferStep
<1> DEFINE X == {stream[e] : e \in batch[l]}
           B == Items(batch[l])
           new == {<<t, e>> : e \in {f \in batch[l] : stream[f] \notin rows[t]}}
<1>1. /\ stream' = stream /\ Acked' = Acked /\ rows' = rows
      /\ batch[l] # {} /\ UniqueViolation(t, B)
      /\ swallowed' = swallowed \cup new
  BY DEF SaveDuplicate, storeVars, Acked, Saving, Idle
<1>2. /\ X \subseteq StreamItems /\ X \subseteq FlushItem /\ X # {}
      /\ Buffer!Batch(X)
      /\ (\E e, f \in batch[l] : e # f /\ stream[e] = stream[f])
            => Cardinality(X) < Amount
  BY <1>1, BatchItems DEF IInv
<1>3. StreamItems' = StreamItems /\ OpenItems' = OpenItems
  BY <1>1 DEF StreamItems, OpenItems
<1>4. SavedItems' = SavedItems \cup ({t} \X X)
  <2>1. ASSUME NEW w \in Table \X FlushItem
        PROVE  w \in SavedItems' <=> w \in SavedItems \/ w \in {t} \X X
    <3>1. w \in SavedItems' <=>
             \/ w[2] \in rows[w[1]]
             \/ \E s \in swallowed \cup new : s[1] = w[1] /\ stream[s[2]] = w[2]
      BY <1>1 DEF SavedItems
    <3>2. w \in SavedItems <=>
             \/ w[2] \in rows[w[1]]
             \/ \E s \in swallowed : s[1] = w[1] /\ stream[s[2]] = w[2]
      BY DEF SavedItems
    <3>3. ASSUME NEW s \in new, s[1] = w[1], stream[s[2]] = w[2]
          PROVE  w \in {t} \X X
      <4>1. PICK e \in batch[l] : s = <<t, e>>
        OBVIOUS
      <4>2. w[1] = t /\ w[2] = stream[e]
        BY <3>3, <4>1
      <4>3. w[2] \in X
        BY <4>2
      <4> QED
        BY <4>2, <4>3
    <3>4. ASSUME w \in {t} \X X, w[2] \notin rows[w[1]]
          PROVE  \E s \in new : s[1] = w[1] /\ stream[s[2]] = w[2]
      <4>1. w[1] = t /\ w[2] \in X
        BY <3>4
      <4>2. PICK e \in batch[l] : w[2] = stream[e]
        BY <4>1
      <4>3. stream[e] \notin rows[t]
        BY <3>4, <4>1, <4>2
      <4>4. <<t, e>> \in new
        BY <4>2, <4>3
      <4> QED
        BY <4>1, <4>2, <4>4
    <3> HIDE DEF new, X
    <3> QED
      BY <3>1, <3>2, <3>3, <3>4
  <2>2. SavedItems' \subseteq Table \X FlushItem /\ SavedItems \subseteq Table \X FlushItem
    BY DEF SavedItems
  <2>3. {t} \X X \subseteq Table \X FlushItem
    BY <1>2
  <2> HIDE DEF X, new
  <2> QED
    BY <2>1, <2>2, <2>3
<1>5. t \in Buffer!Table
  BY DEF Table, Buffer!Table
<1>6. CASE {t} \X X \subseteq SavedItems
  <2>1. SavedItems' = SavedItems
    BY <1>4, <1>6
  <2> QED
    BY <1>1, <1>3, <2>1, SeenUnchanged DEF SeenByBuffer
<1>7. CASE ~({t} \X X \subseteq SavedItems)
  <2>1. Buffer!Swallow(t, X)
    BY <1>1, <1>3, <1>4, <1>7 DEF Buffer!Swallow, Buffer!ReportSaved
  <2>2. CASE \E e, f \in batch[l] : e # f /\ stream[e] = stream[f]
    <3>1. Cardinality(X) < Amount
      BY <1>2, <2>2
    <3> HIDE DEF X
    <3>2. Buffer!Repeated
      BY <1>2, <1>5, <2>1, <3>1, BufferCardinality DEF Buffer!Repeated
    <3> QED
      BY <3>2 DEF BufferStep, Buffer!BufferNext
  <2>3. CASE \A e, f \in batch[l] : stream[e] = stream[f] => e = f
    <3> DEFINE C == [x \in X |-> x]
    <3>1. DOMAIN B = batch[l] /\ \A e \in batch[l] : B[e] = stream[e] /\ stream[e] \in X
      BY DEF Items
    <3>2. DOMAIN C = X /\ \A x \in X : C[x] = x
      OBVIOUS
    <3>3. ASSUME \E e \in DOMAIN B, r \in rows[t] : SamePrimaryKey(B[e], r)
          PROVE  Buffer!UniqueViolation(t, C)
      <4>1. \E x \in X, r \in rows[t] : SamePrimaryKey(x, r)
        BY <3>1, <3>3
      <4> QED
        BY <3>2, <4>1 DEF Buffer!UniqueViolation, Buffer!SamePrimaryKey, SamePrimaryKey
    <3>4. ASSUME \E e, f \in DOMAIN B : e # f /\ SamePrimaryKey(B[e], B[f])
          PROVE  Buffer!UniqueViolation(t, C)
      <4>1. \E x, y \in X : x # y /\ SamePrimaryKey(x, y)
        BY <2>3, <3>1, <3>4
      <4> HIDE DEF X
      <4> QED
        BY <3>2, <4>1 DEF Buffer!UniqueViolation, Buffer!SamePrimaryKey, SamePrimaryKey
    <3>5. Buffer!UniqueViolation(t, C)
      BY <1>1, <3>3, <3>4 DEF UniqueViolation
    <3> HIDE DEF X
    <3>6. Buffer!Save(t, X)
      BY <1>2, <2>1, <3>5 DEF Buffer!Duplicate, Buffer!Save
    <3> QED
      BY <1>2, <1>5, <3>6, SaveIsBufferStep
  <2> QED
    BY <2>2, <2>3
<1> QED
  BY <1>6, <1>7

\* Every step of the worker is a step of the buffer or not seen by it.
LEMMA StepIsBuffer ==
    ASSUME IInv, BatchSmall, [Next]_vars
    PROVE  BufferStep
<1>0. TypeOK /\ BatchParsed
  BY DEF IInv
<1>1. ASSUME UNCHANGED <<stream, Acked, rows, swallowed>> PROVE BufferStep
  BY <1>1, SeenFrom, SeenUnchanged
<1>2. ASSUME delivered' = delivered, pel' = pel PROVE Acked' = Acked
  BY <1>2 DEF Acked
<1>a. ASSUME NEW x \in FlushItem \cup Foreign, Produce(x) PROVE BufferStep
  BY <1>0, <1>a, ProduceAccepts
<1>b. CASE \E e \in pel : TimePasses(e)
  BY <1>1, <1>2, <1>b DEF TimePasses, Age
<1>c. ASSUME NEW l \in Loop, Read(l) \/ ReadReplyLost(l) PROVE BufferStep
  BY <1>0, <1>c, ReadIsUnseen, SeenUnchanged
<1>d. ASSUME NEW l \in Loop, Claim(l) \/ ClaimReplyLost(l) PROVE BufferStep
  BY <1>1, <1>2, <1>d DEF Claim, ClaimReplyLost, XAutoClaim, StartProcess
<1>e. ASSUME NEW l \in Loop, Ack(l) PROVE BufferStep
  BY <1>e, AckAcknowledges
<1>f. ASSUME NEW l \in Loop, AckError(l) \/ GiveUp(l) PROVE BufferStep
  BY <1>1, <1>2, <1>f DEF AckError, GiveUp, storeVars
<1>g. ASSUME NEW l \in Loop, NEW t \in Table, SaveOk(l, t) \/ SaveReplyLost(l, t)
      PROVE  BufferStep
  BY <1>0, <1>g, CopyInserts
<1>h. ASSUME NEW l \in Loop, NEW t \in Table, SaveDuplicate(l, t) PROVE BufferStep
  BY <1>h, DuplicateIsSaved
<1>i. ASSUME NEW l \in Loop, NEW t \in Table, SaveError(l, t) \/ SaveCancelled(l, t)
      PROVE  BufferStep
  BY <1>1, <1>2, <1>i DEF SaveError, SaveCancelled, storeVars
<1>j. ASSUME NEW i \in Instance, Crash(i) \/ Start(i) PROVE BufferStep
  BY <1>1, <1>2, <1>j DEF Crash, Start, storeVars
<1>k. CASE UNCHANGED vars
  BY <1>1, <1>2, <1>k DEF vars, storeVars
<1> QED
  BY <1>a, <1>b, <1>c, <1>d, <1>e, <1>f, <1>g, <1>h, <1>i, <1>j, <1>k DEF Next, Save

LEMMA InitIsBuffer == Init => Buffer!BufferInit
  BY DEF Init, StoreInit, TablesInit, Buffer!BufferInit, Buffer!TablesInit, Buffer!Table,
         Table, StreamItems, OpenItems, SavedItems

\* The worker with its loops, batches of any size, retries, claims and restarts
\* implements the buffer that rotations and downloads are proved correct with.
\* Items may share a primary key, as those of two rotations do.
THEOREM WorkerIsBuffer == Spec => BufferSafety
<1>1. Init => BatchSmall
  BY FS_EmptySet, AmountAssumption DEF Init, BatchSmall
<1>2. IInv /\ BatchSmall /\ [Next]_vars => BatchSmall'
  BY BatchSmallNext DEF IInv
<1>3. IInv /\ BatchSmall /\ [Next]_vars => BufferStep
  BY StepIsBuffer
<1> QED
  BY <1>1, <1>2, <1>3, InitIsBuffer, Invariance, PTL
     DEF Spec, BufferSafety, Buffer!BufferSpec, BufferStep
=============================================================================
