------------------------ MODULE Transactions_proofs ------------------------
(***************************************************************************)
(* The transactions of MapperFactory and the routing counters keep their   *)
(* invariants for any number of threads, statuses, levels and slaves.      *)
(***************************************************************************)
EXTENDS Transactions, FiniteSetTheorems, TLAPS

-----------------------------------------------------------------------------
(* The routing counters *)

SourceInv == SourcesTypeOK /\ CountersBounded

At(v) == {u \in Threads : step[u] = v}

\* At(v) is finite.
LEMMA AtFinite == ASSUME NEW v PROVE IsFiniteSet(At(v)) /\ Cardinality(At(v)) \in Nat
<1>1. At(v) \subseteq Threads /\ IsFiniteSet(Threads)
  BY RoutingAssumption DEF At
<1>2. IsFiniteSet(At(v))
  BY <1>1, FS_Subset
<1> QED BY <1>2, FS_CardinalityType

\* A thread that comes to v raises its count by one.
LEMMA AtEnters ==
  ASSUME NEW v, NEW t \in Threads, step \in [Threads -> Step], step[t] # v,
         step' = [step EXCEPT ![t] = v]
  PROVE  Cardinality(At(v)') = Cardinality(At(v)) + 1
<1>1. At(v)' = At(v) \cup {t} /\ t \notin At(v)
  BY DEF At
<1> QED BY <1>1, AtFinite, FS_AddElement

\* A thread that neither comes nor goes leaves the count.
LEMMA AtStays ==
  ASSUME NEW v, NEW w, NEW t \in Threads, step \in [Threads -> Step], step[t] # v, w # v,
         step' = [step EXCEPT ![t] = w]
  PROVE  At(v)' = At(v)
  BY DEF At

\* After a step the counts are still numbers.
LEMMA AtLeaves ==
  ASSUME NEW v, NEW t \in Threads, step \in [Threads -> Step],
         step' = [step EXCEPT ![t] = "out"], v # "out"
  PROVE  Cardinality(At(v)') \in Nat
<1>1. At(v)' \subseteq At(v)
  BY DEF At
<1>2. IsFiniteSet(At(v)')
  BY <1>1, AtFinite, FS_Subset
<1> QED BY <1>2, FS_CardinalityType

LEMMA BoundsAt ==
  CountersBounded <=> /\ counter <= Limit + Cardinality(At("over"))
                      /\ preIndex <= MaxIndex + 1 + Cardinality(At("over_keys"))
  BY DEF CountersBounded, At

LEMMA BoundsAtPrime ==
  CountersBounded' <=> /\ counter' <= Limit + Cardinality(At("over")')
                       /\ preIndex' <= MaxIndex + 1 + Cardinality(At("over_keys")')
  BY DEF CountersBounded, At

LEMMA SourcesStart == SourcesInit => SourceInv
<1> SUFFICES ASSUME SourcesInit PROVE SourceInv
  OBVIOUS
<1>1. SourcesTypeOK
  BY RoutingAssumption DEF SourcesInit, SourcesTypeOK, Step
<1>2. Cardinality(At("over")) \in Nat /\ Cardinality(At("over_keys")) \in Nat
  BY AtFinite
<1>3. counter = 0 /\ preIndex = 0 /\ Limit \in Nat /\ MaxIndex \in Nat
  BY RoutingAssumption DEF SourcesInit
<1> QED BY <1>1, <1>2, <1>3, BoundsAt DEF SourceInv

LEMMA SourcesStay == SourceInv /\ UNCHANGED sourceVars => SourceInv'
  BY DEF SourceInv, SourcesTypeOK, CountersBounded, sourceVars

LEMMA TakeSlaveKeeps ==
  ASSUME SourceInv, NEW t \in Threads, TakeSlave(t)
  PROVE  SourceInv'
<1>0. /\ counter \in Nat /\ preIndex \in Nat /\ step \in [Threads -> Step] /\ step[t] = "out"
      /\ Limit \in Nat /\ NumSlaves \in Nat \ {0} /\ MaxIndex \in Nat
      /\ Cardinality(At("over")) \in Nat /\ Cardinality(At("over_keys")) \in Nat
  BY RoutingAssumption, AtFinite DEF SourceInv, SourcesTypeOK, TakeSlave
<1>1. /\ counter' = counter + 1 /\ preIndex' = preIndex /\ key' = key
      /\ slave' = [slave EXCEPT ![t] = (counter + 1) % NumSlaves]
  BY DEF TakeSlave
<1>2. (counter + 1) % NumSlaves \in 0..(NumSlaves - 1)
  BY <1>0
<1>3. counter <= Limit + Cardinality(At("over")) /\ preIndex <= MaxIndex + 1 + Cardinality(At("over_keys"))
  BY BoundsAt DEF SourceInv
<1>4. CASE counter + 1 > Limit
  <2>1. step' = [step EXCEPT ![t] = "over"]
    BY <1>4 DEF TakeSlave, Over
  <2>2. Cardinality(At("over")') = Cardinality(At("over")) + 1
    BY <1>0, <2>1, AtEnters
  <2>3. At("over_keys")' = At("over_keys")
    BY <1>0, <2>1, AtStays
  <2>4. CountersBounded'
    BY <1>0, <1>1, <1>3, <2>2, <2>3, BoundsAtPrime
  <2>5. SourcesTypeOK'
    BY <1>0, <1>1, <1>2, <2>1 DEF SourceInv, SourcesTypeOK, Step
  <2> QED BY <2>4, <2>5 DEF SourceInv
<1>5. CASE ~(counter + 1 > Limit)
  <2>1. step' = [step EXCEPT ![t] = "out"] /\ step' = step
    BY <1>0, <1>5 DEF TakeSlave, Over
  <2>2. At("over")' = At("over") /\ At("over_keys")' = At("over_keys")
    BY <2>1 DEF At
  <2>3. CountersBounded'
    BY <1>0, <1>1, <1>3, <1>5, <2>2, BoundsAtPrime
  <2>4. SourcesTypeOK'
    BY <1>0, <1>1, <1>2, <2>1 DEF SourceInv, SourcesTypeOK
  <2> QED BY <2>3, <2>4 DEF SourceInv
<1> QED BY <1>4, <1>5

LEMMA TakeKeyKeeps ==
  ASSUME SourceInv, NEW t \in Threads, TakeKey(t)
  PROVE  SourceInv'
<1>0. /\ counter \in Nat /\ preIndex \in Nat /\ step \in [Threads -> Step] /\ step[t] = "out"
      /\ Limit \in Nat /\ MaxIndex \in Nat
      /\ Cardinality(At("over")) \in Nat /\ Cardinality(At("over_keys")) \in Nat
  BY RoutingAssumption, AtFinite DEF SourceInv, SourcesTypeOK, TakeKey
<1>1. counter' = counter /\ preIndex' = preIndex + 1 /\ slave' = slave
  BY DEF TakeKey
<1>3. counter <= Limit + Cardinality(At("over")) /\ preIndex <= MaxIndex + 1 + Cardinality(At("over_keys"))
  BY BoundsAt DEF SourceInv
<1>4. CASE preIndex > MaxIndex
  <2>1. step' = [step EXCEPT ![t] = "over_keys"] /\ key' = [key EXCEPT ![t] = 0]
    BY <1>4 DEF TakeKey
  <2>2. Cardinality(At("over_keys")') = Cardinality(At("over_keys")) + 1
    BY <1>0, <2>1, AtEnters
  <2>3. At("over")' = At("over")
    BY <1>0, <2>1, AtStays
  <2>4. CountersBounded'
    BY <1>0, <1>1, <1>3, <2>2, <2>3, BoundsAtPrime
  <2>5. SourcesTypeOK'
    BY <1>0, <1>1, <2>1 DEF SourceInv, SourcesTypeOK, Step
  <2> QED BY <2>4, <2>5 DEF SourceInv
<1>5. CASE ~(preIndex > MaxIndex)
  <2>1. step' = [step EXCEPT ![t] = "out"] /\ step' = step /\ key' = [key EXCEPT ![t] = preIndex]
    BY <1>0, <1>5 DEF TakeKey
  <2>2. At("over")' = At("over") /\ At("over_keys")' = At("over_keys")
    BY <2>1 DEF At
  <2>3. CountersBounded'
    BY <1>0, <1>1, <1>3, <1>5, <2>2, BoundsAtPrime
  <2>4. preIndex \in 0..MaxIndex
    BY <1>0, <1>5
  <2>5. SourcesTypeOK'
    BY <1>0, <1>1, <2>1, <2>4 DEF SourceInv, SourcesTypeOK
  <2> QED BY <2>3, <2>5 DEF SourceInv
<1> QED BY <1>4, <1>5

LEMMA ResetKeeps ==
  ASSUME SourceInv, NEW t \in Threads, ResetCounter(t) \/ ResetIndex(t)
  PROVE  SourceInv'
<1>0. /\ counter \in Nat /\ preIndex \in Nat /\ step \in [Threads -> Step]
      /\ Limit \in Nat /\ MaxIndex \in Nat
  BY RoutingAssumption DEF SourceInv, SourcesTypeOK
<1>1. step' = [step EXCEPT ![t] = "out"] /\ slave' = slave /\ key' = key
  BY DEF ResetCounter, ResetIndex
<1>2. Cardinality(At("over")') \in Nat /\ Cardinality(At("over_keys")') \in Nat
  BY <1>0, <1>1, AtLeaves
<1>3. counter <= Limit + Cardinality(At("over")) /\ preIndex <= MaxIndex + 1 + Cardinality(At("over_keys"))
  BY BoundsAt DEF SourceInv
<1>4. CASE ResetCounter(t)
  <2>1. counter' = 0 /\ preIndex' = preIndex /\ step[t] = "over"
    BY <1>4 DEF ResetCounter
  <2>2. At("over_keys")' = At("over_keys")
    BY <1>0, <1>1, <2>1, AtStays
  <2>3. CountersBounded'
    BY <1>0, <1>2, <1>3, <2>1, <2>2, BoundsAtPrime
  <2>4. SourcesTypeOK'
    BY <1>0, <1>1, <2>1 DEF SourceInv, SourcesTypeOK, Step
  <2> QED BY <2>3, <2>4 DEF SourceInv
<1>5. CASE ResetIndex(t)
  <2>1. preIndex' = 0 /\ counter' = counter /\ step[t] = "over_keys"
    BY <1>5 DEF ResetIndex
  <2>2. At("over")' = At("over")
    BY <1>0, <1>1, <2>1, AtStays
  <2>3. CountersBounded'
    BY <1>0, <1>2, <1>3, <2>1, <2>2, BoundsAtPrime
  <2>4. SourcesTypeOK'
    BY <1>0, <1>1, <2>1 DEF SourceInv, SourcesTypeOK, Step
  <2> QED BY <2>3, <2>4 DEF SourceInv
<1> QED BY <1>4, <1>5

\* A worker takes a slave or leaves the data sources alone.
LEMMA WorkAtSources ==
  ASSUME NEW t \in Workers, Work(t)
  PROVE  TakeSlave(t) \/ UNCHANGED sourceVars
  BY DEF Work, StartRequest, CutRequest, BeginNew, BeginFails, EndRequest, BeginJoins,
         BeginNested, Commit, RollbackNested, Rollback, CommitStatus, CommitStatusThrows,
         CommitStatusAgain, WriteInTx, Statement, Connect

LEMMA SourcesKept == SourceInv /\ [Next]_vars => SourceInv'
<1> SUFFICES ASSUME SourceInv, [Next]_vars PROVE SourceInv'
  OBVIOUS
<1>1. ASSUME NEW t \in Workers, Work(t) PROVE SourceInv'
  BY <1>1, WorkAtSources, TakeSlaveKeeps, SourcesStay, TransactionAssumption
<1>2. ASSUME NEW t \in Threads, Query(t) PROVE SourceInv'
  BY <1>2, TakeSlaveKeeps, TakeKeyKeeps, ResetKeeps DEF Query
<1>3. CASE UNCHANGED vars
  BY <1>3, SourcesStay DEF vars
<1> QED BY <1>1, <1>2, <1>3 DEF Next

\* Neither counter of the routing data sources runs away, however many threads
\* pass its limit at the same time (DynamicDataSource, MultiDataSource).
THEOREM CountersStayBounded == Spec => []CountersBounded
<1>1. Init => SourceInv
  BY SourcesStart DEF Init
<1> QED BY <1>1, SourcesKept, PTL DEF Spec, SourceInv

-----------------------------------------------------------------------------
(* The state of a serving thread *)

TxType ==
  /\ kind \in [Workers -> {"web", "dubbo"}]
  /\ busy \in [Workers -> BOOLEAN]
  /\ local \in [Workers -> [id : Statuses, counter : 1..MaxDepth] \cup {NoStatus}]
  /\ tx \in [Workers -> [owner : Statuses, readOnly : BOOLEAN, rollbackOnly : BOOLEAN] \cup {NoTx}]
  /\ completed \in [Workers -> SUBSET Statuses]
  /\ handles \in [Workers -> SUBSET Statuses]
  /\ holder \in [Workers -> Holder]
  /\ pending \in [Workers -> SUBSET {"own", "other"}]
  /\ lost \in [Workers -> BOOLEAN]
  /\ reply \in [Workers -> {"none", "ok", "error"}]
  /\ fault \in [Workers -> SUBSET Fault]

\* What MapperFactory knows of the transaction of a thread.
Knows(t) ==
  /\ local[t] = NoStatus /\ tx[t] # NoTx => "stale" \in fault[t]
  /\ local[t] # NoStatus /\ "thrown" \notin fault[t] => tx[t] # NoTx
  /\ local[t] # NoStatus /\ tx[t] # NoTx /\ "stale" \notin fault[t] => tx[t].owner = local[t].id

\* What is bound to a thread with its transaction.
Bound(t) ==
  /\ tx[t] # NoTx => holder[t] = Route(tx[t].readOnly) /\ tx[t].owner \notin completed[t]
  /\ tx[t] = NoTx => pending[t] = {} /\ (holder[t] = "none" \/ "begin_failed" \in fault[t])
  /\ "other" \in pending[t] => "left" \in fault[t] \/ "stale" \in fault[t]

\* What one request may leave to the next.
Leaves(t) ==
  /\ ~busy[t] /\ local[t] # NoStatus => "left" \in fault[t]
  /\ local[t] = NoStatus => "left" \notin fault[t] /\ "thrown" \notin fault[t]
  /\ ~busy[t] /\ kind[t] = "dubbo" /\ reply[t] = "ok" /\ "stale" \notin fault[t]
       => ~lost[t] /\ pending[t] = {}

ThreadInv(t) == Knows(t) /\ Bound(t) /\ Leaves(t)

\* Nothing of thread u changes.
Same(u) ==
  /\ kind'[u] = kind[u] /\ busy'[u] = busy[u] /\ local'[u] = local[u] /\ tx'[u] = tx[u]
  /\ completed'[u] = completed[u] /\ holder'[u] = holder[u] /\ pending'[u] = pending[u]
  /\ lost'[u] = lost[u] /\ reply'[u] = reply[u] /\ fault'[u] = fault[u]

LEMMA SameKeeps ==
  ASSUME NEW u \in Workers, ThreadInv(u), Same(u)
  PROVE  ThreadInv(u)'
  BY DEF ThreadInv, Knows, Bound, Leaves, Same, Route

\* The manager's calls and the clearing of the thread local change t only.
TxOnly(t) == \A u \in Workers \ {t} : Same(u)

LEMMA DoRollbackIsLocal ==
  ASSUME TxType, NEW t \in Workers, DoRollback(t), NEW u \in Workers \ {t}
  PROVE  /\ local'[u] = local[u] /\ tx'[u] = tx[u] /\ completed'[u] = completed[u]
         /\ holder'[u] = holder[u] /\ pending'[u] = pending[u] /\ fault'[u] = fault[u]
<1>1. local'[u] = local[u] /\ fault'[u] = fault[u]
  BY DEF TxType, DoRollback
<1>2. CASE local[t].id \in completed[t]
  BY <1>1, <1>2 DEF DoRollback
<1>3. CASE local[t].id \notin completed[t]
  <2>1. ManagerRollback(t, local[t].id)
    BY <1>3 DEF DoRollback
  <2> QED BY <1>1, <2>1 DEF TxType, ManagerRollback, EndTx
<1> QED BY <1>2, <1>3

LEMMA WorkIsLocal ==
  ASSUME TxType, NEW t \in Workers, Work(t)
  PROVE  TxOnly(t)
<1> USE DEF TxOnly, Same, TxType
<1>1. CASE StartRequest(t) \/ CutRequest(t)
  BY <1>1 DEF StartRequest, CutRequest
<1>2. ASSUME NEW b \in BOOLEAN, BeginNew(t, b) \/ BeginFails(t, b) PROVE TxOnly(t)
  BY <1>2 DEF BeginNew, BeginFails
<1>3. ASSUME NEW b \in BOOLEAN, EndRequest(t, b) PROVE TxOnly(t)
  <2> SUFFICES ASSUME NEW u \in Workers \ {t} PROVE Same(u)
    OBVIOUS
  <2>1. kind'[u] = kind[u] /\ busy'[u] = busy[u] /\ lost'[u] = lost[u] /\ reply'[u] = reply[u]
    BY <1>3 DEF EndRequest
  <2>2. RealRollback(t)
    BY <1>3 DEF EndRequest
  <2>3. CASE local[t] = NoStatus
    BY <2>1, <2>2, <2>3 DEF RealRollback
  <2>4. CASE local[t] # NoStatus
    BY <2>1, <2>2, <2>4, DoRollbackIsLocal DEF RealRollback
  <2> QED BY <2>3, <2>4
<1>4. CASE BeginJoins(t) \/ BeginNested(t) \/ RollbackNested(t)
  BY <1>4 DEF BeginJoins, BeginNested, RollbackNested
<1>5. CASE Commit(t)
  BY <1>5 DEF Commit, ManagerCommit, EndTx
<1>6. CASE Rollback(t)
  BY <1>6 DEF Rollback, DoRollback, ManagerRollback, EndTx
<1>7. ASSUME NEW s \in Statuses, CommitStatus(t, s) PROVE TxOnly(t)
  BY <1>7 DEF CommitStatus, ManagerCommit, EndTx
<1>8. ASSUME NEW s \in Statuses, CommitStatusThrows(t, s) PROVE TxOnly(t)
  BY <1>8 DEF CommitStatusThrows, ManagerCommit, EndTx
<1>9. ASSUME NEW s \in Statuses, CommitStatusAgain(t, s) PROVE TxOnly(t)
  BY <1>9 DEF CommitStatusAgain
<1>10. CASE WriteInTx(t) \/ Statement(t)
  BY <1>10 DEF WriteInTx, Statement
<1> QED BY <1>1, <1>2, <1>3, <1>4, <1>5, <1>6, <1>7, <1>8, <1>9, <1>10 DEF Work

-----------------------------------------------------------------------------
(* The manager *)

\* tx[t] after commit(s), and what goes with it.
LEMMA CommitEffect ==
  ASSUME TxType, NEW t \in Workers, NEW s \in Statuses, ManagerCommit(t, s)
  PROVE  /\ completed'[t] = completed[t] \cup {s}
         /\ Owns(t, s) => tx'[t] = NoTx /\ pending'[t] = {} /\ holder'[t] = "none"
         /\ ~Owns(t, s) => tx'[t] = tx[t] /\ pending'[t] = pending[t] /\ holder'[t] = holder[t]
  BY DEF TxType, ManagerCommit, EndTx

\* tx[t] after rollback(s): a transaction that goes on keeps its owner.
LEMMA RollbackEffect ==
  ASSUME TxType, NEW t \in Workers, NEW s \in Statuses, ManagerRollback(t, s)
  PROVE  /\ completed'[t] = completed[t] \cup {s}
         /\ Owns(t, s) => tx'[t] = NoTx /\ pending'[t] = {} /\ holder'[t] = "none"
         /\ ~Owns(t, s) => /\ pending'[t] = pending[t] /\ holder'[t] = holder[t]
                           /\ tx[t] = NoTx => tx'[t] = NoTx
                           /\ tx[t] # NoTx => /\ tx'[t] # NoTx
                                              /\ tx'[t].owner = tx[t].owner
                                              /\ tx'[t].readOnly = tx[t].readOnly
<1>1. completed'[t] = completed[t] \cup {s}
  BY DEF TxType, ManagerRollback
<1>2. CASE Owns(t, s)
  BY <1>1, <1>2 DEF TxType, ManagerRollback, EndTx
<1>3. CASE ~Owns(t, s)
  <2>1. pending' = pending /\ holder' = holder
    BY <1>3 DEF ManagerRollback
  <2>2. CASE tx[t] = NoTx
    BY <1>1, <1>3, <2>1, <2>2 DEF ManagerRollback
  <2>3. CASE tx[t] # NoTx
    <3>1. tx' = [tx EXCEPT ![t].rollbackOnly = TRUE]
      BY <1>3, <2>3 DEF ManagerRollback
    <3>2. tx[t] \in [owner : Statuses, readOnly : BOOLEAN, rollbackOnly : BOOLEAN]
      BY <2>3 DEF TxType
    <3>3. tx'[t] = [tx[t] EXCEPT !.rollbackOnly = TRUE]
      BY <3>1 DEF TxType
    <3>4. /\ tx'[t] \in [owner : Statuses, readOnly : BOOLEAN, rollbackOnly : BOOLEAN]
          /\ tx'[t].owner = tx[t].owner /\ tx'[t].readOnly = tx[t].readOnly
      BY <3>2, <3>3
    <3>5. tx'[t] # NoTx
      BY <3>4, TransactionAssumption
    <3> QED BY <1>1, <1>3, <2>1, <2>3, <3>4, <3>5
  <2> QED BY <2>2, <2>3
<1> QED BY <1>2, <1>3

\* The state of a thread after its status was committed or rolled back and
\* the thread local cleared: the transaction ended, or it goes on because it
\* had been forgotten before.
Ended(t) ==
  /\ tx'[t] = NoTx /\ pending'[t] = {} /\ holder'[t] = "none"
  /\ fault'[t] = fault[t] \ {"left", "thrown", "stale", "begin_failed"}

GoesOn(t) ==
  /\ tx[t] = NoTx => tx'[t] = NoTx
  /\ tx[t] # NoTx => /\ tx'[t] # NoTx /\ tx'[t].owner = tx[t].owner
                     /\ tx'[t].readOnly = tx[t].readOnly
                     /\ tx[t].owner \notin completed'[t]
                     /\ "stale" \in fault[t]
  /\ pending'[t] = pending[t] /\ holder'[t] = holder[t]
  /\ fault'[t] = fault[t] \ {"left", "thrown"}

LEMMA AfterForget ==
  ASSUME NEW t \in Workers, ThreadInv(t), local'[t] = NoStatus, Ended(t) \/ GoesOn(t)
  PROVE  /\ Knows(t)' /\ Bound(t)'
         /\ "left" \notin fault'[t] /\ "thrown" \notin fault'[t]
<1>1. CASE Ended(t)
  BY <1>1 DEF Ended, Knows, Bound
<1>2. CASE GoesOn(t)
  <2>1. Knows(t)'
    BY <1>2 DEF GoesOn, Knows
  <2>2. Bound(t)'
    <3>1. CASE tx[t] = NoTx
      BY <1>2, <3>1 DEF GoesOn, ThreadInv, Bound
    <3>2. CASE tx[t] # NoTx
      BY <1>2, <3>2 DEF GoesOn, ThreadInv, Bound, Route
    <3> QED BY <3>1, <3>2
  <2> QED BY <1>2, <2>1, <2>2 DEF GoesOn
<1> QED BY <1>1, <1>2

\* A transaction in progress that was not forgotten is the known status's own,
\* and that status is not completed.
LEMMA OwnOrForgotten ==
  ASSUME NEW t \in Workers, ThreadInv(t), local[t] # NoStatus, tx[t] # NoTx,
         "stale" \notin fault[t]
  PROVE  Owns(t, local[t].id) /\ local[t].id \notin completed[t]
  BY DEF ThreadInv, Knows, Bound, Owns

LEMMA RollbackOutcome ==
  ASSUME TxType, NEW t \in Workers, ThreadInv(t), local[t] # NoStatus, DoRollback(t)
  PROVE  local'[t] = NoStatus /\ (Ended(t) \/ GoesOn(t))
<1> DEFINE s == local[t].id
<1>0. s \in Statuses /\ local'[t] = NoStatus
  BY DEF TxType, DoRollback
<1>1. fault'[t] = fault[t] \ Undone(TRUE, s \notin completed[t] /\ Owns(t, s))
  BY DEF TxType, DoRollback
<1>2. CASE s \in completed[t]
  <2>1. completed' = completed /\ tx' = tx /\ pending' = pending /\ holder' = holder
    BY <1>2 DEF DoRollback
  <2>2. fault'[t] = fault[t] \ {"left", "thrown"}
    BY <1>1, <1>2 DEF Undone
  <2>3. tx[t] # NoTx => "stale" \in fault[t] /\ tx[t].owner \notin completed[t]
    BY <1>2, OwnOrForgotten DEF ThreadInv, Bound
  <2> QED BY <1>0, <2>1, <2>2, <2>3 DEF GoesOn
<1>3. CASE s \notin completed[t] /\ Owns(t, s)
  <2>1. ManagerRollback(t, s)
    BY <1>3 DEF DoRollback
  <2>2. fault'[t] = fault[t] \ {"left", "thrown", "stale", "begin_failed"}
    BY <1>1, <1>3 DEF Undone
  <2> QED BY <1>0, <1>3, <2>1, <2>2, RollbackEffect DEF Ended
<1>4. CASE s \notin completed[t] /\ ~Owns(t, s)
  <2>1. ManagerRollback(t, s)
    BY <1>4 DEF DoRollback
  <2>2. fault'[t] = fault[t] \ {"left", "thrown"}
    BY <1>1, <1>4 DEF Undone
  <2>3. tx[t] # NoTx => "stale" \in fault[t] /\ tx[t].owner \notin completed[t] \cup {s}
    BY <1>4, OwnOrForgotten DEF ThreadInv, Bound, Owns
  <2>4. completed'[t] = completed[t] \cup {s}
    BY <1>0, <2>1, RollbackEffect
  <2> QED BY <1>0, <1>4, <2>1, <2>2, <2>3, <2>4, RollbackEffect DEF GoesOn
<1> QED BY <1>2, <1>3, <1>4

LEMMA CommitOutcome ==
  ASSUME TxType, NEW t \in Workers, ThreadInv(t), Commit(t)
  PROVE  local'[t] = NoStatus /\ (Ended(t) \/ GoesOn(t))
<1> DEFINE s == local[t].id
<1>0. s \in Statuses /\ local'[t] = NoStatus /\ local[t] # NoStatus
  BY DEF TxType, Commit
<1>1. fault'[t] = fault[t] \ Undone(TRUE, s \notin completed[t] /\ Owns(t, s))
  BY DEF TxType, Commit
<1>2. CASE s \in completed[t]
  <2>1. completed' = completed /\ tx' = tx /\ pending' = pending /\ holder' = holder
    BY <1>2 DEF Commit
  <2>2. fault'[t] = fault[t] \ {"left", "thrown"}
    BY <1>1, <1>2 DEF Undone
  <2>3. tx[t] # NoTx => "stale" \in fault[t] /\ tx[t].owner \notin completed[t]
    BY <1>0, <1>2, OwnOrForgotten DEF ThreadInv, Bound
  <2> QED BY <1>0, <2>1, <2>2, <2>3 DEF GoesOn
<1>3. CASE s \notin completed[t] /\ Owns(t, s)
  <2>1. ManagerCommit(t, s)
    BY <1>3 DEF Commit
  <2>2. fault'[t] = fault[t] \ {"left", "thrown", "stale", "begin_failed"}
    BY <1>1, <1>3 DEF Undone
  <2> QED BY <1>0, <1>3, <2>1, <2>2, CommitEffect DEF Ended
<1>4. CASE s \notin completed[t] /\ ~Owns(t, s)
  <2>1. ManagerCommit(t, s)
    BY <1>4 DEF Commit
  <2>2. fault'[t] = fault[t] \ {"left", "thrown"}
    BY <1>1, <1>4 DEF Undone
  <2>3. tx[t] # NoTx => "stale" \in fault[t] /\ tx[t].owner \notin completed[t] \cup {s}
    BY <1>0, <1>4, OwnOrForgotten DEF ThreadInv, Bound, Owns
  <2>4. completed'[t] = completed[t] \cup {s}
    BY <1>0, <2>1, CommitEffect
  <2> QED BY <1>0, <1>4, <2>1, <2>2, <2>3, <2>4, CommitEffect DEF GoesOn
<1> QED BY <1>2, <1>3, <1>4

-----------------------------------------------------------------------------
(* The invariant of a thread, one lemma for each kind of step *)

LEMMA StartKeeps ==
  ASSUME TxType, NEW t \in Workers, ThreadInv(t), StartRequest(t)
  PROVE  ThreadInv(t)'
<1>1. /\ ~busy[t] /\ busy'[t] /\ local' = local /\ tx' = tx /\ completed' = completed
      /\ holder' = holder /\ fault' = fault
      /\ pending'[t] = IF pending[t] = {} THEN {} ELSE {"other"}
  BY DEF TxType, StartRequest
<1>2. pending[t] # {} => "left" \in fault[t] \/ "stale" \in fault[t]
  BY <1>1 DEF ThreadInv, Knows, Bound, Leaves
<1>3. Knows(t)'
  BY <1>1 DEF ThreadInv, Knows
<1>4. Bound(t)'
  BY <1>1, <1>2 DEF ThreadInv, Bound, Route
<1>5. Leaves(t)'
  BY <1>1 DEF ThreadInv, Leaves
<1> QED BY <1>3, <1>4, <1>5 DEF ThreadInv

LEMMA CutKeeps ==
  ASSUME TxType, NEW t \in Workers, ThreadInv(t), CutRequest(t)
  PROVE  ThreadInv(t)'
<1>1. /\ local' = local /\ tx' = tx /\ completed' = completed
      /\ holder' = holder /\ pending' = pending /\ reply'[t] = "error"
      /\ fault'[t] = fault[t] \cup (IF local[t] # NoStatus THEN {"left"} ELSE {})
  BY DEF TxType, CutRequest
<1>3. Knows(t)'
  BY <1>1 DEF ThreadInv, Knows
<1>4. Bound(t)'
  BY <1>1 DEF ThreadInv, Bound, Route
<1>5. Leaves(t)'
  BY <1>1 DEF ThreadInv, Leaves
<1> QED BY <1>3, <1>4, <1>5 DEF ThreadInv

\* While a request runs, Leaves(t) is about the thread local only.
LEMMA RunningLeaves ==
  ASSUME NEW t \in Workers, busy'[t],
         local'[t] = NoStatus => "left" \notin fault'[t] /\ "thrown" \notin fault'[t]
  PROVE  Leaves(t)'
  BY DEF Leaves

LEMMA BeginNewKeeps ==
  ASSUME TxType, NEW t \in Workers, NEW b \in BOOLEAN, ThreadInv(t), BeginNew(t, b)
  PROVE  ThreadInv(t)'
<1>0. PICK s \in Statuses \ handles[t] :
        /\ local' = [local EXCEPT ![t] = [id |-> s, counter |-> 1]]
        /\ tx' = [tx EXCEPT ![t] = [owner |-> s, readOnly |-> b, rollbackOnly |-> FALSE]]
        /\ completed' = [completed EXCEPT ![t] = @ \ {s}]
  BY DEF BeginNew
<1>1. /\ local'[t] = [id |-> s, counter |-> 1]
      /\ tx'[t] = [owner |-> s, readOnly |-> b, rollbackOnly |-> FALSE]
      /\ completed'[t] = completed[t] \ {s}
      /\ holder'[t] = Route(b) /\ pending' = pending
      /\ fault'[t] = fault[t] \ {"begin_failed"}
      /\ busy'[t] /\ tx[t] = NoTx
  <2>1. /\ local'[t] = [id |-> s, counter |-> 1]
        /\ tx'[t] = [owner |-> s, readOnly |-> b, rollbackOnly |-> FALSE]
        /\ completed'[t] = completed[t] \ {s}
    BY <1>0 DEF TxType
  <2>2. /\ holder' = [holder EXCEPT ![t] = Route(b)]
        /\ fault' = [fault EXCEPT ![t] = @ \ {"begin_failed"}]
        /\ busy[t] /\ busy' = busy /\ pending' = pending /\ tx[t] = NoTx
    BY DEF BeginNew, Running
  <2>3. holder'[t] = Route(b) /\ fault'[t] = fault[t] \ {"begin_failed"}
    BY <2>2 DEF TxType
  <2> QED BY <2>1, <2>2, <2>3
<1>2. local'[t] # NoStatus /\ tx'[t] # NoTx
  <2>1. local'[t] \in [id : Statuses, counter : Nat]
    BY <1>0, <1>1
  <2>2. [owner |-> s, readOnly |-> b, rollbackOnly |-> FALSE]
          \in [owner : Statuses, readOnly : BOOLEAN, rollbackOnly : BOOLEAN]
    BY <1>0
  <2> QED BY <1>1, <2>1, <2>2, TransactionAssumption
<1>3. tx'[t].owner = local'[t].id /\ tx'[t].owner = s /\ tx'[t].readOnly = b
  BY <1>1
<1>4. Knows(t)'
  BY <1>2, <1>3 DEF Knows
<1>5. Bound(t)'
  <2>1. pending'[t] = {}
    BY <1>1 DEF ThreadInv, Bound
  <2> QED BY <1>1, <1>2, <1>3, <2>1 DEF Bound, Route
<1>6. Leaves(t)'
  BY <1>1, <1>2, RunningLeaves
<1> QED BY <1>4, <1>5, <1>6 DEF ThreadInv

LEMMA BeginFailsKeeps ==
  ASSUME TxType, NEW t \in Workers, NEW b \in BOOLEAN, ThreadInv(t), BeginFails(t, b)
  PROVE  ThreadInv(t)'
<1>1. /\ local' = local /\ tx' = tx /\ pending' = pending /\ completed' = completed
      /\ fault'[t] = fault[t] \cup {"begin_failed"}
      /\ busy'[t] /\ tx[t] = NoTx /\ local[t] = NoStatus
  BY DEF TxType, BeginFails, Running
<1>2. Knows(t)' /\ Bound(t)'
  BY <1>1 DEF ThreadInv, Knows, Bound
<1>3. Leaves(t)'
  BY <1>1, RunningLeaves DEF ThreadInv, Leaves
<1> QED BY <1>2, <1>3 DEF ThreadInv

LEMMA BeginJoinsKeeps ==
  ASSUME TxType, NEW t \in Workers, ThreadInv(t), BeginJoins(t)
  PROVE  ThreadInv(t)'
<1>0. PICK s \in Statuses \ (handles[t] \cup {tx[t].owner}) :
        /\ local' = [local EXCEPT ![t] = [id |-> s, counter |-> 1]]
        /\ completed' = [completed EXCEPT ![t] = @ \ {s}]
  BY DEF BeginJoins
<1>1. /\ local'[t] = [id |-> s, counter |-> 1]
      /\ completed'[t] = completed[t] \ {s}
      /\ tx' = tx /\ holder' = holder /\ pending' = pending /\ fault' = fault
      /\ busy'[t] /\ tx[t] # NoTx /\ local[t] = NoStatus
  BY <1>0 DEF TxType, BeginJoins, Running
<1>2. local'[t] # NoStatus
  BY <1>1, TransactionAssumption
<1>3. "stale" \in fault'[t]
  BY <1>1 DEF ThreadInv, Knows
<1>4. Knows(t)' /\ Bound(t)'
  BY <1>1, <1>2, <1>3 DEF ThreadInv, Knows, Bound, Route
<1>5. Leaves(t)'
  BY <1>1, <1>2, RunningLeaves
<1> QED BY <1>4, <1>5 DEF ThreadInv

\* Going a level deeper or up changes the counter only.
LEMMA NestedKeeps ==
  ASSUME TxType, NEW t \in Workers, ThreadInv(t), BeginNested(t) \/ RollbackNested(t)
  PROVE  ThreadInv(t)'
<1>1. /\ tx' = tx /\ holder' = holder /\ pending' = pending /\ fault' = fault
      /\ completed' = completed /\ busy'[t] /\ local[t] # NoStatus
  BY DEF TxType, BeginNested, RollbackNested, Running
<1>2. local[t] \in [id : Statuses, counter : 1..MaxDepth]
  BY <1>1 DEF TxType
<1>3. PICK n \in Nat : local' = [local EXCEPT ![t].counter = n]
  <2>1. local[t].counter + 1 \in Nat /\ (local[t].counter > 1 => local[t].counter - 1 \in Nat)
    BY <1>2, TransactionAssumption
  <2>2. CASE BeginNested(t)
    BY <2>1, <2>2 DEF BeginNested
  <2>3. CASE RollbackNested(t)
    BY <2>1, <2>3 DEF RollbackNested
  <2> QED BY <2>2, <2>3
<1>4. local'[t] = [local[t] EXCEPT !.counter = n]
  BY <1>3 DEF TxType
<1>5. local'[t] \in [id : Statuses, counter : Nat] /\ local'[t].id = local[t].id
  BY <1>2, <1>4
<1>6. local'[t] # NoStatus
  BY <1>5, TransactionAssumption
<1>7. Knows(t)' /\ Bound(t)'
  BY <1>1, <1>5, <1>6 DEF ThreadInv, Knows, Bound, Route
<1>8. Leaves(t)'
  BY <1>1, <1>6, RunningLeaves
<1> QED BY <1>7, <1>8 DEF ThreadInv

LEMMA CommitKeeps ==
  ASSUME TxType, NEW t \in Workers, ThreadInv(t), Commit(t)
  PROVE  ThreadInv(t)'
<1>1. busy'[t]
  BY DEF Commit, Running
<1> QED BY <1>1, CommitOutcome, AfterForget, RunningLeaves DEF ThreadInv

LEMMA RollbackKeeps ==
  ASSUME TxType, NEW t \in Workers, ThreadInv(t), Rollback(t)
  PROVE  ThreadInv(t)'
<1>1. busy'[t] /\ local[t] # NoStatus /\ DoRollback(t)
  BY DEF Rollback, Running
<1> QED BY <1>1, RollbackOutcome, AfterForget, RunningLeaves DEF ThreadInv

LEMMA CommitStatusKeeps ==
  ASSUME TxType, NEW t \in Workers, NEW s \in Statuses, ThreadInv(t), CommitStatus(t, s)
  PROVE  ThreadInv(t)'
<1>1. /\ local'[t] = NoStatus /\ busy'[t] /\ ManagerCommit(t, s)
      /\ fault'[t] = (fault[t] \ Undone(TRUE, Owns(t, s))) \cup (IF tx'[t] # NoTx THEN {"stale"} ELSE {})
  BY DEF TxType, CommitStatus, Running
<1>2. CASE Owns(t, s)
  <2>1. tx'[t] = NoTx /\ pending'[t] = {} /\ holder'[t] = "none"
    BY <1>1, <1>2, CommitEffect
  <2>2. fault'[t] = fault[t] \ {"left", "thrown", "stale", "begin_failed"}
    BY <1>1, <1>2, <2>1 DEF Undone
  <2> QED BY <1>1, <2>1, <2>2, AfterForget, RunningLeaves DEF ThreadInv, Ended
<1>3. CASE ~Owns(t, s)
  <2>1. /\ tx'[t] = tx[t] /\ pending'[t] = pending[t] /\ holder'[t] = holder[t]
        /\ completed'[t] = completed[t] \cup {s}
    BY <1>1, <1>3, CommitEffect
  <2>2. fault'[t] = (fault[t] \ {"left", "thrown"}) \cup (IF tx[t] # NoTx THEN {"stale"} ELSE {})
    BY <1>1, <1>3, <2>1 DEF Undone
  <2>3. Knows(t)'
    BY <1>1, <2>1, <2>2 DEF Knows
  <2>4. Bound(t)'
    <3>1. CASE tx[t] = NoTx
      BY <2>1, <2>2, <3>1 DEF ThreadInv, Bound
    <3>2. CASE tx[t] # NoTx
      BY <1>3, <2>1, <2>2, <3>2 DEF ThreadInv, Bound, Route, Owns
    <3> QED BY <3>1, <3>2
  <2>5. Leaves(t)'
    BY <1>1, <2>2, RunningLeaves
  <2> QED BY <2>3, <2>4, <2>5 DEF ThreadInv
<1> QED BY <1>2, <1>3

LEMMA CommitStatusThrowsKeeps ==
  ASSUME TxType, NEW t \in Workers, NEW s \in Statuses, ThreadInv(t), CommitStatusThrows(t, s)
  PROVE  ThreadInv(t)'
<1>1. /\ local' = local /\ busy'[t] /\ ManagerCommit(t, s)
      /\ fault'[t] = (fault[t] \ Undone(FALSE, Owns(t, s)))
                       \cup (IF local[t] # NoStatus THEN {"thrown"} ELSE {})
  BY DEF TxType, CommitStatusThrows, Running
<1>2. CASE Owns(t, s)
  <2>1. tx'[t] = NoTx /\ pending'[t] = {} /\ holder'[t] = "none"
    BY <1>1, <1>2, CommitEffect
  <2>2. fault'[t] = (fault[t] \ {"stale", "begin_failed"}) \cup (IF local[t] # NoStatus THEN {"thrown"} ELSE {})
    BY <1>1, <1>2 DEF Undone
  <2>3. Knows(t)' /\ Bound(t)'
    BY <1>1, <2>1, <2>2 DEF Knows, Bound
  <2>4. Leaves(t)'
    BY <1>1, <2>2, RunningLeaves DEF ThreadInv, Leaves
  <2> QED BY <2>3, <2>4 DEF ThreadInv
<1>3. CASE ~Owns(t, s)
  <2>1. /\ tx'[t] = tx[t] /\ pending'[t] = pending[t] /\ holder'[t] = holder[t]
        /\ completed'[t] = completed[t] \cup {s}
    BY <1>1, <1>3, CommitEffect
  <2>2. fault'[t] = fault[t] \cup (IF local[t] # NoStatus THEN {"thrown"} ELSE {})
    BY <1>1, <1>3 DEF Undone
  <2>3. Knows(t)'
    BY <1>1, <2>1, <2>2 DEF ThreadInv, Knows
  <2>4. Bound(t)'
    BY <1>3, <2>1, <2>2 DEF ThreadInv, Bound, Route, Owns
  <2>5. Leaves(t)'
    BY <1>1, <2>2, RunningLeaves DEF ThreadInv, Leaves
  <2> QED BY <2>3, <2>4, <2>5 DEF ThreadInv
<1> QED BY <1>2, <1>3

LEMMA CommitStatusAgainKeeps ==
  ASSUME TxType, NEW t \in Workers, NEW s \in Statuses, ThreadInv(t), CommitStatusAgain(t, s)
  PROVE  ThreadInv(t)'
<1>1. /\ local'[t] = NoStatus /\ busy'[t] /\ tx' = tx /\ completed' = completed
      /\ holder' = holder /\ pending' = pending
      /\ fault'[t] = (fault[t] \ Undone(TRUE, FALSE)) \cup (IF tx[t] # NoTx THEN {"stale"} ELSE {})
  BY DEF TxType, CommitStatusAgain, Running
<1>2. fault'[t] = (fault[t] \ {"left", "thrown"}) \cup (IF tx[t] # NoTx THEN {"stale"} ELSE {})
  BY <1>1 DEF Undone
<1>3. Knows(t)'
  BY <1>1, <1>2 DEF Knows
<1>4. Bound(t)'
  BY <1>1, <1>2 DEF ThreadInv, Bound, Route
<1>5. Leaves(t)'
  BY <1>1, <1>2, RunningLeaves
<1> QED BY <1>3, <1>4, <1>5 DEF ThreadInv

LEMMA StatementKeeps ==
  ASSUME TxType, NEW t \in Workers, ThreadInv(t), WriteInTx(t) \/ Statement(t)
  PROVE  ThreadInv(t)'
<1>1. CASE WriteInTx(t)
  <2>1. /\ local' = local /\ busy'[t] /\ tx' = tx /\ completed' = completed /\ tx[t] # NoTx
        /\ holder' = holder /\ fault' = fault /\ pending'[t] = pending[t] \cup {"own"}
    BY <1>1 DEF TxType, WriteInTx, Running
  <2>2. Knows(t)' /\ Bound(t)'
    BY <2>1 DEF ThreadInv, Knows, Bound, Route
  <2>3. Leaves(t)'
    BY <2>1, RunningLeaves DEF ThreadInv, Leaves
  <2> QED BY <2>2, <2>3 DEF ThreadInv
<1>2. CASE Statement(t)
  <2>1. /\ local' = local /\ busy'[t] /\ tx' = tx /\ completed' = completed /\ tx[t] = NoTx
        /\ holder'[t] = "none" /\ pending' = pending /\ fault'[t] = fault[t] \ {"begin_failed"}
    BY <1>2 DEF TxType, Statement, Running
  <2>2. Knows(t)' /\ Bound(t)'
    BY <2>1 DEF ThreadInv, Knows, Bound, Route
  <2>3. Leaves(t)'
    BY <2>1, RunningLeaves DEF ThreadInv, Leaves
  <2> QED BY <2>2, <2>3 DEF ThreadInv
<1> QED BY <1>1, <1>2

\* The cleanup: the caller of a dubbo service is told, or there was nothing.
LEMMA EndKeeps ==
  ASSUME TxType, NEW t \in Workers, NEW b \in BOOLEAN, ThreadInv(t), EndRequest(t, b)
  PROVE  ThreadInv(t)'
<1>0. /\ RealRollback(t) /\ kind' = kind
      /\ lost'[t] = ("own" \in pending[t] /\ "own" \notin pending'[t])
      /\ reply'[t] = Answer(t, b)
  BY DEF TxType, EndRequest
<1>1. CASE local[t] # NoStatus
  <2>1. local'[t] = NoStatus /\ (Ended(t) \/ GoesOn(t))
    BY <1>0, <1>1, RollbackOutcome DEF RealRollback
  <2>2. /\ Knows(t)' /\ Bound(t)'
        /\ "left" \notin fault'[t] /\ "thrown" \notin fault'[t]
    BY <2>1, AfterForget
  <2>3. ~(kind'[t] = "dubbo" /\ reply'[t] = "ok")
    BY <1>0, <1>1 DEF Answer
  <2> QED BY <2>1, <2>2, <2>3 DEF ThreadInv, Leaves
<1>2. CASE local[t] = NoStatus
  <2>1. /\ local' = local /\ tx' = tx /\ completed' = completed
        /\ holder' = holder /\ pending' = pending /\ fault' = fault
    BY <1>0, <1>2 DEF RealRollback
  <2>2. Knows(t)' /\ Bound(t)'
    BY <2>1 DEF ThreadInv, Knows, Bound, Route
  <2>3. ~lost'[t]
    BY <1>0, <2>1
  <2>4. "stale" \notin fault[t] => pending[t] = {}
    BY <1>2 DEF ThreadInv, Knows, Bound
  <2> QED BY <1>2, <2>1, <2>2, <2>3, <2>4 DEF ThreadInv, Leaves
<1> QED BY <1>1, <1>2

-----------------------------------------------------------------------------
(* Types *)

Local == [id : Statuses, counter : 1..MaxDepth]

Tx == [owner : Statuses, readOnly : BOOLEAN, rollbackOnly : BOOLEAN]

\* What the manager's calls change stays of its type.
TouchedType ==
  /\ tx \in [Workers -> Tx \cup {NoTx}]
  /\ completed \in [Workers -> SUBSET Statuses]
  /\ pending \in [Workers -> SUBSET {"own", "other"}]
  /\ holder \in [Workers -> Holder]

LEMMA ManagerTypes ==
  ASSUME TouchedType, NEW t \in Workers, NEW s \in Statuses,
         ManagerCommit(t, s) \/ ManagerRollback(t, s)
  PROVE  TouchedType'
<1>1. completed' \in [Workers -> SUBSET Statuses]
  BY DEF TouchedType, ManagerCommit, ManagerRollback
<1>2. CASE EndTx(t)
  BY <1>1, <1>2 DEF TouchedType, EndTx, Holder
<1>3. CASE pending' = pending /\ holder' = holder /\ tx' = tx
  BY <1>1, <1>3 DEF TouchedType
<1>4. CASE /\ pending' = pending /\ holder' = holder /\ tx[t] # NoTx
           /\ tx' = [tx EXCEPT ![t].rollbackOnly = TRUE]
  <2>1. tx[t] \in Tx
    BY <1>4 DEF TouchedType
  <2>2. [tx[t] EXCEPT !.rollbackOnly = TRUE] \in Tx
    BY <2>1 DEF Tx
  <2>3. tx' = [tx EXCEPT ![t] = [tx[t] EXCEPT !.rollbackOnly = TRUE]]
    BY <1>4
  <2>4. tx' \in [Workers -> Tx \cup {NoTx}]
    BY <2>2, <2>3 DEF TouchedType
  <2> QED BY <1>1, <1>4, <2>4 DEF TouchedType
<1>5. \/ EndTx(t)
      \/ pending' = pending /\ holder' = holder /\ tx' = tx
      \/ /\ pending' = pending /\ holder' = holder /\ tx[t] # NoTx
         /\ tx' = [tx EXCEPT ![t].rollbackOnly = TRUE]
  BY DEF ManagerCommit, ManagerRollback
<1> QED BY <1>2, <1>3, <1>4, <1>5

LEMMA TouchedStays ==
  ASSUME TouchedType, UNCHANGED <<completed, tx, pending, holder>>
  PROVE  TouchedType'
  BY DEF TouchedType

LEMMA TouchedIsTyped == TxType => TouchedType
  BY DEF TxType, TouchedType, Tx

\* Everything but what the manager's calls change.
OwnType ==
  /\ kind \in [Workers -> {"web", "dubbo"}]
  /\ busy \in [Workers -> BOOLEAN]
  /\ local \in [Workers -> Local \cup {NoStatus}]
  /\ handles \in [Workers -> SUBSET Statuses]
  /\ lost \in [Workers -> BOOLEAN]
  /\ reply \in [Workers -> {"none", "ok", "error"}]
  /\ fault \in [Workers -> SUBSET Fault]

LEMMA TypeParts == TxType <=> OwnType /\ TouchedType
  BY DEF TxType, OwnType, TouchedType, Local, Tx

LEMMA TypePartsPrime == OwnType' /\ TouchedType' => TxType'
  BY DEF TxType, OwnType, TouchedType, Local, Tx

LEMMA RollbackTypes ==
  ASSUME TxType, NEW t \in Workers, local[t] # NoStatus, DoRollback(t)
  PROVE  /\ TouchedType'
         /\ local' \in [Workers -> Local \cup {NoStatus}]
         /\ fault' \in [Workers -> SUBSET Fault]
<1>1. local[t].id \in Statuses /\ TouchedType
  BY TypeParts DEF TxType
<1>2. TouchedType'
  BY <1>1, ManagerTypes, TouchedStays DEF DoRollback
<1>3. local' \in [Workers -> Local \cup {NoStatus}]
  BY TypeParts DEF DoRollback, OwnType
<1>4. fault' \in [Workers -> SUBSET Fault]
  BY DEF TxType, DoRollback
<1> QED BY <1>2, <1>3, <1>4

LEMMA OpensTypes ==
  ASSUME TxType, NEW t \in Workers, NEW s \in Statuses
  PROVE  [local EXCEPT ![t] = [id |-> s, counter |-> 1]] \in [Workers -> Local \cup {NoStatus}]
<1>1. [id |-> s, counter |-> 1] \in Local
  BY TransactionAssumption DEF Local
<1> QED BY <1>1, TypeParts DEF OwnType

LEMMA WorkTypes ==
  ASSUME TxType, NEW t \in Workers, Work(t)
  PROVE  TxType'
<1> USE TypeParts
<1>1. CASE StartRequest(t) \/ CutRequest(t)
  <2>1. TouchedType'
    BY <1>1 DEF StartRequest, CutRequest, TouchedType
  <2>2. OwnType'
    <3>1. CASE StartRequest(t)
      BY <3>1 DEF StartRequest, OwnType
    <3>2. CASE CutRequest(t)
      <4>1. fault' \in [Workers -> SUBSET Fault]
        BY <3>2 DEF CutRequest, OwnType, Fault
      <4> QED BY <3>2, <4>1 DEF CutRequest, OwnType
    <3> QED BY <1>1, <3>1, <3>2
  <2> QED BY <2>1, <2>2, TypePartsPrime
<1>2. ASSUME NEW b \in BOOLEAN, BeginNew(t, b) PROVE TxType'
  <2>0. PICK s \in Statuses \ handles[t] :
          /\ local' = [local EXCEPT ![t] = [id |-> s, counter |-> 1]]
          /\ tx' = [tx EXCEPT ![t] = [owner |-> s, readOnly |-> b, rollbackOnly |-> FALSE]]
          /\ completed' = [completed EXCEPT ![t] = @ \ {s}]
          /\ handles' = [handles EXCEPT ![t] = @ \cup {s}]
    BY <1>2 DEF BeginNew
  <2>1. [owner |-> s, readOnly |-> b, rollbackOnly |-> FALSE] \in Tx
    BY <2>0 DEF Tx
  <2>2. TouchedType'
    BY <1>2, <2>0, <2>1 DEF BeginNew, TouchedType, Holder, Route
  <2>3. local' \in [Workers -> Local \cup {NoStatus}]
    BY <2>0, OpensTypes
  <2>4. OwnType'
    BY <1>2, <2>0, <2>3 DEF BeginNew, OwnType
  <2> QED BY <2>2, <2>4, TypePartsPrime
<1>3. ASSUME NEW b \in BOOLEAN, BeginFails(t, b) PROVE TxType'
  <2>1. TouchedType'
    BY <1>3 DEF BeginFails, TouchedType, Holder, Route
  <2>2. OwnType'
    BY <1>3 DEF BeginFails, OwnType, Fault
  <2> QED BY <2>1, <2>2, TypePartsPrime
<1>4. ASSUME NEW b \in BOOLEAN, EndRequest(t, b) PROVE TxType'
  <2>1. /\ kind' = kind /\ handles' = handles
        /\ busy' = [busy EXCEPT ![t] = FALSE]
        /\ lost' = [lost EXCEPT ![t] = "own" \in pending[t] /\ "own" \notin pending'[t]]
        /\ reply' = [reply EXCEPT ![t] = Answer(t, b)]
    BY <1>4 DEF EndRequest
  <2>2. Answer(t, b) \in {"none", "ok", "error"}
    BY DEF Answer
  <2>3. ("own" \in pending[t] /\ "own" \notin pending'[t]) \in BOOLEAN
    OBVIOUS
  <2>4. /\ TouchedType'
        /\ local' \in [Workers -> Local \cup {NoStatus}]
        /\ fault' \in [Workers -> SUBSET Fault]
    <3>1. CASE local[t] # NoStatus
      BY <1>4, <3>1, RollbackTypes DEF EndRequest, RealRollback
    <3>2. CASE local[t] = NoStatus
      BY <1>4, <3>2 DEF EndRequest, RealRollback, OwnType, TouchedType
    <3> QED BY <3>1, <3>2
  <2>5. /\ lost' \in [Workers -> BOOLEAN] /\ busy' \in [Workers -> BOOLEAN]
        /\ reply' \in [Workers -> {"none", "ok", "error"}]
    BY <2>1, <2>2, <2>3 DEF OwnType
  <2>6. OwnType'
    BY <2>1, <2>4, <2>5 DEF OwnType
  <2> QED BY <2>4, <2>6, TypePartsPrime
<1>5. CASE BeginJoins(t)
  <2>0. PICK s \in Statuses \ (handles[t] \cup {tx[t].owner}) :
          /\ local' = [local EXCEPT ![t] = [id |-> s, counter |-> 1]]
          /\ completed' = [completed EXCEPT ![t] = @ \ {s}]
          /\ handles' = [handles EXCEPT ![t] = @ \cup {s}]
    BY <1>5 DEF BeginJoins
  <2>1. local' \in [Workers -> Local \cup {NoStatus}]
    BY <2>0, OpensTypes
  <2>2. TouchedType'
    BY <1>5, <2>0 DEF BeginJoins, TouchedType
  <2>3. OwnType'
    BY <1>5, <2>0, <2>1 DEF BeginJoins, OwnType
  <2> QED BY <2>2, <2>3, TypePartsPrime
<1>6. CASE BeginNested(t) \/ RollbackNested(t)
  <2>1. local[t] \in Local /\ local \in [Workers -> Local \cup {NoStatus}]
    BY <1>6 DEF BeginNested, RollbackNested, OwnType
  <2>2. local[t].counter \in 1..MaxDepth /\ local[t].id \in Statuses /\ MaxDepth \in Nat
    BY <2>1, TransactionAssumption DEF Local
  <2>3. PICK n \in 1..MaxDepth : local' = [local EXCEPT ![t].counter = n]
    <3>1. CASE BeginNested(t)
      <4>1. local[t].counter + 1 \in 1..MaxDepth
        BY <2>2, <3>1 DEF BeginNested
      <4> QED BY <3>1, <4>1 DEF BeginNested
    <3>2. CASE RollbackNested(t)
      <4>1. local[t].counter - 1 \in 1..MaxDepth
        BY <2>2, <3>2 DEF RollbackNested
      <4> QED BY <3>2, <4>1 DEF RollbackNested
    <3> QED BY <1>6, <3>1, <3>2
  <2>4. [local[t] EXCEPT !.counter = n] \in Local
    BY <2>1, <2>3 DEF Local
  <2>5. local' = [local EXCEPT ![t] = [local[t] EXCEPT !.counter = n]]
    BY <2>3
  <2>6. local' \in [Workers -> Local \cup {NoStatus}]
    BY <2>1, <2>4, <2>5
  <2>7. handles' \in [Workers -> SUBSET Statuses]
    BY <1>6, <2>2 DEF BeginNested, RollbackNested, OwnType
  <2>8. OwnType' /\ TouchedType'
    BY <1>6, <2>6, <2>7 DEF BeginNested, RollbackNested, OwnType, TouchedType
  <2> QED BY <2>8, TypePartsPrime
<1>7. CASE Commit(t)
  <2>1. local[t].id \in Statuses
    BY <1>7 DEF Commit, OwnType, Local
  <2>2. TouchedType'
    BY <1>7, <2>1, ManagerTypes, TouchedStays DEF Commit
  <2>3. OwnType'
    BY <1>7 DEF Commit, OwnType
  <2> QED BY <2>2, <2>3, TypePartsPrime
<1>8. CASE Rollback(t)
  <2>1. OwnType'
    BY <1>8, RollbackTypes DEF Rollback, OwnType
  <2> QED BY <1>8, <2>1, RollbackTypes, TypePartsPrime DEF Rollback
<1>9. ASSUME NEW s \in Statuses, CommitStatus(t, s) \/ CommitStatusThrows(t, s) PROVE TxType'
  <2>1. TouchedType'
    BY <1>9, ManagerTypes DEF CommitStatus, CommitStatusThrows
  <2>2. OwnType'
    <3>1. CASE CommitStatus(t, s)
      <4>1. fault' \in [Workers -> SUBSET Fault]
        BY <3>1 DEF CommitStatus, OwnType, Fault
      <4> QED BY <3>1, <4>1 DEF CommitStatus, OwnType
    <3>2. CASE CommitStatusThrows(t, s)
      <4>1. fault' \in [Workers -> SUBSET Fault]
        BY <3>2 DEF CommitStatusThrows, OwnType, Fault
      <4> QED BY <3>2, <4>1 DEF CommitStatusThrows, OwnType
    <3> QED BY <1>9, <3>1, <3>2
  <2> QED BY <2>1, <2>2, TypePartsPrime
<1>10. ASSUME NEW s \in Statuses, CommitStatusAgain(t, s) PROVE TxType'
  <2>1. OwnType' /\ TouchedType'
    BY <1>10 DEF CommitStatusAgain, OwnType, TouchedType, Fault
  <2> QED BY <2>1, TypePartsPrime
<1>11. CASE WriteInTx(t) \/ Statement(t)
  <2>1. OwnType' /\ TouchedType'
    BY <1>11 DEF WriteInTx, Statement, OwnType, TouchedType, Holder
  <2> QED BY <2>1, TypePartsPrime
<1> QED BY <1>1, <1>2, <1>3, <1>4, <1>5, <1>6, <1>7, <1>8, <1>9, <1>10, <1>11 DEF Work

-----------------------------------------------------------------------------
(* The inductive invariant *)

IndInv == SourceInv /\ TxType /\ \A t \in Workers : ThreadInv(t)

LEMMA WorkKeeps ==
  ASSUME TxType, NEW t \in Workers, ThreadInv(t), Work(t)
  PROVE  ThreadInv(t)'
  BY StartKeeps, CutKeeps, BeginNewKeeps, BeginFailsKeeps, BeginJoinsKeeps, NestedKeeps,
     CommitKeeps, RollbackKeeps, CommitStatusKeeps, CommitStatusThrowsKeeps,
     CommitStatusAgainKeeps, StatementKeeps, EndKeeps
  DEF Work

LEMMA StepKeeps ==
  ASSUME TxType, \A u \in Workers : ThreadInv(u), NEW t \in Workers, Work(t)
  PROVE  TxType' /\ \A u \in Workers : ThreadInv(u)'
<1>1. TxType' /\ TxOnly(t)
  BY WorkTypes, WorkIsLocal
<1>2. ThreadInv(t)'
  BY WorkKeeps
<1>3. ASSUME NEW u \in Workers \ {t} PROVE ThreadInv(u)'
  BY <1>1, <1>3, SameKeeps DEF TxOnly
<1> QED BY <1>1, <1>2, <1>3

LEMMA RestKeeps ==
  ASSUME TxType, \A u \in Workers : ThreadInv(u), UNCHANGED txVars
  PROVE  TxType' /\ \A u \in Workers : ThreadInv(u)'
<1>1. TxType'
  BY DEF TxType, txVars
<1>2. \A u \in Workers : Same(u)
  BY DEF Same, txVars
<1> QED BY <1>1, <1>2, SameKeeps

LEMMA IndInvStarts == Init => IndInv
<1> SUFFICES ASSUME Init PROVE IndInv
  OBVIOUS
<1>1. SourceInv
  BY SourcesStart DEF Init
<1>2. TxType
  BY DEF Init, TxType, Holder
<1>3. ASSUME NEW t \in Workers PROVE ThreadInv(t)
  BY DEF Init, ThreadInv, Knows, Bound, Leaves
<1> QED BY <1>1, <1>2, <1>3 DEF IndInv

LEMMA IndInvKept == IndInv /\ [Next]_vars => IndInv'
<1> SUFFICES ASSUME IndInv, [Next]_vars PROVE IndInv'
  OBVIOUS
<1>1. SourceInv'
  BY SourcesKept DEF IndInv
<1>2. TxType' /\ \A u \in Workers : ThreadInv(u)'
  <2>1. ASSUME NEW t \in Workers, Work(t) PROVE TxType' /\ \A u \in Workers : ThreadInv(u)'
    BY <2>1, StepKeeps DEF IndInv
  <2>2. CASE UNCHANGED txVars
    BY <2>2, RestKeeps DEF IndInv
  <2> QED BY <2>1, <2>2 DEF Next, vars
<1> QED BY <1>1, <1>2 DEF IndInv

LEMMA Invariance == Spec => []IndInv
  BY IndInvStarts, IndInvKept, PTL DEF Spec

-----------------------------------------------------------------------------
(* Theorems *)

\* Every variable of a thread and of the data sources keeps its type: the
\* counter of CounterTransactionStatus stays between one and the deepest
\* nesting, and an index of a slave or a key is always one of a list.
THEOREM TypeCorrect == Spec => []TypeOK
<1>1. IndInv => TypeOK
  BY DEF IndInv, SourceInv, TxType, TypeOK
<1> QED BY <1>1, Invariance, PTL

\* A thread goes back to its pool with nothing of a request on it, unless one
\* of the named faults happened (checkAndRollbackTransaction).
THEOREM ThreadsGoBackClean == Spec => []CleanThread
<1>1. IndInv => CleanThread
  BY DEF IndInv, ThreadInv, Knows, Bound, Leaves, CleanThread
<1> QED BY <1>1, Invariance, PTL

\* MapperFactory holds a status only inside a physical transaction, unless
\* commitTransaction(status) threw.
THEOREM StatusIsCovered == Spec => []Covered
<1>1. IndInv => Covered
  BY DEF IndInv, ThreadInv, Knows, Covered
<1> QED BY <1>1, Invariance, PTL

\* A dubbo caller that gets a result lost no write to CheckFilter's cleanup.
THEOREM LossIsTold == Spec => []NoSilentLoss
<1>1. IndInv => NoSilentLoss
  BY DEF IndInv, ThreadInv, Leaves, NoSilentLoss
<1> QED BY <1>1, Invariance, PTL

\* Uncommitted writes pass from one request to the next only after a handler
\* threw past postHandle or a transaction was forgotten.
THEOREM RequestsAreSeparated == Spec => []Separated
<1>1. IndInv => Separated
  <2> SUFFICES ASSUME IndInv, NEW t \in Workers, "other" \in pending[t]
               PROVE  fault[t] \cap {"left", "stale"} # {}
    BY DEF Separated
  <2>1. "left" \in fault[t] \/ "stale" \in fault[t]
    BY DEF IndInv, ThreadInv, Bound
  <2> QED BY <2>1
<1> QED BY <1>1, Invariance, PTL

\* The data source a transaction chose in doBegin() is its own until it ends.
THEOREM RouteIsKept == Spec => []RouteKept
<1>1. IndInv => RouteKept
  BY DEF IndInv, ThreadInv, Bound, RouteKept
<1> QED BY <1>1, Invariance, PTL
=============================================================================
