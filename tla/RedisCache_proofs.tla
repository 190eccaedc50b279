-------------------------- MODULE RedisCache_proofs --------------------------
(***************************************************************************)
(* Proofs about RedisCache: its types, and that the cache settles.         *)
(***************************************************************************)
EXTENDS RedisCache, SequenceTheorems, TLAPS

-----------------------------------------------------------------------------
(* The inductive invariant                                                 *)

\* Redis may hold v for k once every call for k is through.
Good(k, v) == v = backend[k] \/ (v = NoValue /\ lastCall[k] # "update")

\* The delete of k that has not been overtaken.
FreshDelete(k) == [key |-> k, val |-> NoValue, late |-> FALSE]

In(e, q) == \E i \in DOMAIN q : q[i] = e

\* Server s has the delete o under way: in its caller, its queue or its worker.
Deleting(s, o) ==
    \/ caller[s].pc \in {"delete", "requeue"} /\ caller[s].op = o
    \/ In(o, removeQueue[s])
    \/ HasOp(removeWorker[s]) /\ removeWorker[s].op = o

\* Server s has a call of update(k) that its worker has not taken.
Waiting(s, k) ==
    \/ caller[s].pc = "update" /\ caller[s].key = k
    \/ In(k, updateQueue[s])

\* The update worker of s is busy with k.
Updating(s, k) ==
    IF HasOp(updateWorker[s]) THEN updateWorker[s].op.key = k
    ELSE updateWorker[s] # Idle /\ updateWorker[s].key = k

WillDelete(k) == \E s \in Servers : \E o \in Deletes : o.key = k /\ Deleting(s, o)
WillUpdate(k) == \E s \in Servers : Waiting(s, k) \/ Updating(s, k)

\* An update of k is under way in another thread than the update worker of s.
OtherUpdates(k, s) == \E t \in Servers : Waiting(t, k) \/ (t # s /\ Updating(t, k))

\* A write of v that is not late is good, or a later call is going to repair it.
Repaired(k, v) == Good(k, v) \/ WillDelete(k) \/ WillUpdate(k)

\* A delete does not repair itself, nor does an update: what a call in flight
\* needs is a good value or another call.
DeletesOK(k) ==
    (\E s \in Servers : Deleting(s, FreshDelete(k))) => Good(k, NoValue) \/ WillUpdate(k)

WritesOK(k) ==
    \A s \in Servers :
        updateWorker[s].pc = "write" /\ updateWorker[s].op.key = k /\ ~updateWorker[s].op.late
            => Good(k, updateWorker[s].op.val) \/ WillDelete(k) \/ OtherUpdates(k, s)

AddsOK(k) ==
    \A s \in Servers :
        caller[s].pc = "add" /\ caller[s].op.key = k /\ ~caller[s].op.late
            => Repaired(k, caller[s].op.val)

OrphansOK(k) == \A o \in orphans : o.key = k /\ ~o.late => Repaired(k, o.val)

RedisOK(k) == ~overtaken[k] => Repaired(k, redis[k])

KeyInv(k) == DeletesOK(k) /\ WritesOK(k) /\ AddsOK(k) /\ OrphansOK(k) /\ RedisOK(k)

IInv == TypeOK /\ \A k \in Keys : KeyInv(k)

-----------------------------------------------------------------------------
(* Types of the writes and of the threads                                  *)

\* The values a step may write are values.
LEMMA ValuesType == NoValue \in Values /\ (changes \in 0..MaxChanges /\ changes < MaxChanges => changes + 1 \in Values)
BY RedisCacheAssumption DEF NoValue, Values

\* A write that becomes late keeps its key and its value.
LEMMA LateOpType ==
    ASSUME NEW o \in Ops, NEW k
    PROVE  /\ LateOp(o, k) \in Ops
           /\ LateOp(o, k).key = o.key /\ LateOp(o, k).val = o.val
           /\ o.key = k => LateOp(o, k).late
           /\ o.key # k => LateOp(o, k) = o
           /\ o \in Deletes => LateOp(o, k) \in Deletes
BY DEF LateOp, Ops, Deletes

\* So does the write a thread is busy with; the thread stays where it is.
LEMMA LateType ==
    ASSUME NEW k, NEW p
    PROVE  /\ p \in CallerStates => Late(p, k) \in CallerStates
           /\ p \in RemoverStates => Late(p, k) \in RemoverStates
           /\ p \in UpdaterStates => Late(p, k) \in UpdaterStates
<1>1. ASSUME HasOp(p), p.op.key = k, p.op \in Ops
      PROVE  Late(p, k) = [p EXCEPT !.op = LateOp(p.op, k)]
  BY <1>1 DEF Late, LateOp, HasOp, Ops
<1>2. ASSUME ~(HasOp(p) /\ p.op.key = k) PROVE Late(p, k) = p
  BY <1>2 DEF Late
<1>3. ASSUME p \in CallerStates PROVE Late(p, k) \in CallerStates
  BY <1>1, <1>2, <1>3, LateOpType DEF CallerStates, Deletes, Idle, HasOp
<1>4. ASSUME p \in RemoverStates PROVE Late(p, k) \in RemoverStates
  BY <1>1, <1>2, <1>4, LateOpType DEF RemoverStates, Deletes, Idle, HasOp
<1>5. ASSUME p \in UpdaterStates PROVE Late(p, k) \in UpdaterStates
  BY <1>1, <1>2, <1>5, LateOpType DEF UpdaterStates, Idle, HasOp
<1>. QED BY <1>3, <1>4, <1>5

\* The queue of deletes keeps its length.
LEMMA LateQueue ==
    ASSUME NEW q \in Seq(Deletes), NEW k
    PROVE  /\ [i \in DOMAIN q |-> LateOp(q[i], k)] \in Seq(Deletes)
           /\ Len([i \in DOMAIN q |-> LateOp(q[i], k)]) = Len(q)
<1>1. \A i \in 1..Len(q) : q[i] \in Deletes /\ LateOp(q[i], k) \in Deletes
  BY LateOpType DEF Deletes
<1>. QED BY <1>1

-----------------------------------------------------------------------------
(* The types                                                               *)

\* What the answer of a write for k does to the other threads and queues.
LEMMA OvertakeType ==
    ASSUME TypeOK, NEW k, Overtake(k)
    PROVE  /\ orphans' \subseteq Ops
           /\ removeQueue' \in [Servers -> Seq(Deletes)]
           /\ \A s \in Servers : Len(removeQueue'[s]) <= Capacity
           /\ AllLate(caller, k) \in [Servers -> CallerStates]
           /\ AllLate(removeWorker, k) \in [Servers -> RemoverStates]
           /\ AllLate(updateWorker, k) \in [Servers -> UpdaterStates]
<1>1. orphans' \subseteq Ops
  BY LateOpType DEF TypeOK, Overtake
<1>2. \A s \in Servers : /\ removeQueue'[s] \in Seq(Deletes)
                         /\ Len(removeQueue'[s]) <= Capacity
  <2>. TAKE s \in Servers
  <2>1. removeQueue[s] \in Seq(Deletes) /\ Len(removeQueue[s]) <= Capacity
    BY DEF TypeOK
  <2>2. removeQueue'[s] = [i \in DOMAIN removeQueue[s] |-> LateOp(removeQueue[s][i], k)]
    BY DEF Overtake
  <2>. QED BY <2>1, <2>2, LateQueue
<1>3. removeQueue' \in [Servers -> Seq(Deletes)]
  BY <1>2 DEF Overtake
<1>4. AllLate(caller, k) \in [Servers -> CallerStates]
  BY LateType DEF TypeOK, AllLate
<1>5. AllLate(removeWorker, k) \in [Servers -> RemoverStates]
  BY LateType DEF TypeOK, AllLate
<1>6. AllLate(updateWorker, k) \in [Servers -> UpdaterStates]
  BY LateType DEF TypeOK, AllLate
<1>. QED BY <1>1, <1>2, <1>3, <1>4, <1>5, <1>6

\* A write of Redis, answered or not.
LEMMA ApplyType ==
    ASSUME TypeOK, NEW o \in Ops, Apply(o)
    PROVE  redis' \in [Keys -> Values] /\ overtaken' \in [Keys -> BOOLEAN]
BY DEF TypeOK, Apply, Ops

LEMMA ThrowsType ==
    ASSUME TypeOK, NEW o \in Ops, Throws(o)
    PROVE  orphans' \subseteq Ops /\ failures' \in 0..MaxFailures
<1>1. orphans' \subseteq Ops
  BY DEF TypeOK, Throws
<1>. QED BY <1>1, RedisCacheAssumption DEF TypeOK, Throws

\* What a thread is busy with at each of its steps.
LEMMA BusyType ==
    ASSUME TypeOK, NEW s \in Servers
    PROVE  /\ caller[s].pc = "update" => caller[s].key \in Keys
           /\ caller[s].pc \in {"delete", "requeue"} =>
                caller[s].op \in Deletes /\ caller[s] = [pc |-> caller[s].pc, op |-> caller[s].op]
           /\ caller[s].pc = "add" => caller[s].op \in Ops
           /\ removeWorker[s].pc \in {"delete", "put"} =>
                removeWorker[s].op \in Deletes /\ removeWorker[s] = [pc |-> removeWorker[s].pc, op |-> removeWorker[s].op]
           /\ updateWorker[s].pc \in {"fetch", "put"} =>
                updateWorker[s].key \in Keys /\ updateWorker[s] = [pc |-> updateWorker[s].pc, key |-> updateWorker[s].key]
           /\ updateWorker[s].pc = "write" => updateWorker[s].op \in Ops
           /\ Deletes \subseteq Ops
<1>1. /\ caller[s] \in CallerStates
      /\ removeWorker[s] \in RemoverStates
      /\ updateWorker[s] \in UpdaterStates
  BY DEF TypeOK
<1>2. Deletes \subseteq Ops
  BY DEF Deletes
<1>3. /\ caller[s].pc = "update" => caller[s].key \in Keys
      /\ caller[s].pc \in {"delete", "requeue"} => caller[s].op \in Deletes
      /\ caller[s].pc = "add" => caller[s].op \in Ops
  BY <1>1, <1>2 DEF CallerStates, Idle
<1>4. caller[s].pc \in {"delete", "requeue"} => caller[s] = [pc |-> caller[s].pc, op |-> caller[s].op]
  BY <1>1, <1>2 DEF CallerStates, Idle
<1>5. removeWorker[s].pc \in {"delete", "put"} =>
        removeWorker[s].op \in Deletes /\ removeWorker[s] = [pc |-> removeWorker[s].pc, op |-> removeWorker[s].op]
  BY <1>1 DEF RemoverStates, Idle
<1>6. /\ updateWorker[s].pc \in {"fetch", "put"} =>
            updateWorker[s].key \in Keys /\ updateWorker[s] = [pc |-> updateWorker[s].pc, key |-> updateWorker[s].key]
      /\ updateWorker[s].pc = "write" => updateWorker[s].op \in Ops
  BY <1>1 DEF UpdaterStates, Idle
<1>. QED BY <1>2, <1>3, <1>4, <1>5, <1>6

\* The steps of a thread that leave Redis alone.
LEMMA IdleStates ==
    /\ Idle \in CallerStates /\ Idle \in RemoverStates /\ Idle \in UpdaterStates
BY DEF CallerStates, RemoverStates, UpdaterStates

LEMMA BusyStates ==
    /\ \A k \in Keys : [pc |-> "update", key |-> k] \in CallerStates
    /\ \A o \in Deletes : /\ [pc |-> "delete", op |-> o] \in CallerStates
                          /\ [pc |-> "requeue", op |-> o] \in CallerStates
                          /\ [pc |-> "delete", op |-> o] \in RemoverStates
                          /\ [pc |-> "put", op |-> o] \in RemoverStates
    /\ \A o \in Ops \ Deletes : [pc |-> "add", op |-> o] \in CallerStates
    /\ \A k \in Keys : /\ [pc |-> "fetch", key |-> k] \in UpdaterStates
                       /\ [pc |-> "put", key |-> k] \in UpdaterStates
    /\ \A o \in Ops : [pc |-> "write", op |-> o] \in UpdaterStates
BY DEF CallerStates, RemoverStates, UpdaterStates

\* A queue that is not full takes one more.
Queued(f, s, e) == [f EXCEPT ![s] = Append(@, e)]

LEMMA QueueType ==
    ASSUME NEW S, NEW f \in [Servers -> Seq(S)], NEW s \in Servers, NEW e \in S,
           \A t \in Servers : Len(f[t]) <= Capacity, Len(f[s]) < Capacity
    PROVE  /\ Queued(f, s, e) \in [Servers -> Seq(S)]
           /\ \A t \in Servers : Len(Queued(f, s, e)[t]) <= Capacity
<1>. DEFINE g == Queued(f, s, e)
<1>1. f[s] \in Seq(S) /\ Append(f[s], e) \in Seq(S) /\ Len(Append(f[s], e)) = Len(f[s]) + 1
  OBVIOUS
<1>2. g \in [Servers -> Seq(S)]
  BY <1>1 DEF Queued
<1>3. ASSUME NEW t \in Servers PROVE Len(g[t]) <= Capacity
  BY <1>1, RedisCacheAssumption DEF Queued
<1>. QED BY <1>2, <1>3

\* The head leaves a queue.
LEMMA TakeType ==
    ASSUME NEW S, NEW f \in [Servers -> Seq(S)], NEW s \in Servers, f[s] # <<>>,
           \A t \in Servers : Len(f[t]) <= Capacity
    PROVE  /\ Head(f[s]) \in S
           /\ [f EXCEPT ![s] = Tail(@)] \in [Servers -> Seq(S)]
           /\ \A t \in Servers : Len([f EXCEPT ![s] = Tail(@)][t]) <= Capacity
<1>. DEFINE g == [f EXCEPT ![s] = Tail(@)]
<1>1. f[s] \in Seq(S) /\ Head(f[s]) \in S /\ Tail(f[s]) \in Seq(S) /\ Len(Tail(f[s])) = Len(f[s]) - 1
  OBVIOUS
<1>2. g \in [Servers -> Seq(S)]
  BY <1>1
<1>3. ASSUME NEW t \in Servers PROVE Len(g[t]) <= Capacity
  BY <1>1, RedisCacheAssumption
<1>. QED BY <1>1, <1>2, <1>3

LEMMA ChangeType ==
    ASSUME TypeOK, NEW s \in Servers, NEW k \in Keys, NEW m \in {"update", "delete"}, Change(s, k, m)
    PROVE  TypeOK'
<1>1. backend' \in [Keys -> Values]
  BY ValuesType DEF TypeOK, Change
<1>2. [key |-> k, val |-> NoValue, late |-> FALSE] \in Deletes
  BY ValuesType DEF Deletes, Ops
<1>3. caller' \in [Servers -> CallerStates]
  BY <1>2, BusyStates DEF TypeOK, Change
<1>4. lastCall' \in [Keys -> {"none", "update", "delete"}]
  BY DEF TypeOK, Change
<1>5. changes' \in 0..MaxChanges
  BY RedisCacheAssumption DEF TypeOK, Change
<1>. QED BY <1>1, <1>3, <1>4, <1>5 DEF TypeOK, Change, queues, workers

LEMMA ReadType ==
    ASSUME TypeOK, NEW s \in Servers, NEW k \in Keys, Read(s, k)
    PROVE  TypeOK'
<1>1. [key |-> k, val |-> backend[k], late |-> FALSE] \in Ops \ Deletes
  BY DEF TypeOK, Read, Deletes, Ops
<1>2. caller' \in [Servers -> CallerStates]
  BY <1>1, BusyStates DEF TypeOK, Read
<1>3. fills' \in 0..MaxFills
  BY RedisCacheAssumption DEF TypeOK, Read
<1>. QED BY <1>2, <1>3 DEF TypeOK, Read, queues, workers

LEMMA CallType ==
    ASSUME TypeOK, NEW s \in Servers, CallStep(s)
    PROVE  TypeOK'
<1>1. CASE Update(s)
  <2>1. caller[s].key \in Keys
    BY <1>1, BusyType DEF Update
  <2>2. /\ updateQueue' \in [Servers -> Seq(Keys)]
        /\ \A t \in Servers : Len(updateQueue'[t]) <= Capacity
    <3>1. updateQueue \in [Servers -> Seq(Keys)] /\ \A t \in Servers : Len(updateQueue[t]) <= Capacity
      BY DEF TypeOK
    <3>2. updateQueue' = Queued(updateQueue, s, caller[s].key) /\ Len(updateQueue[s]) < Capacity
      BY <1>1 DEF Update, Queued
    <3>. QED BY <2>1, <3>1, <3>2, QueueType
  <2>3. caller' \in [Servers -> CallerStates]
    BY <1>1, IdleStates DEF TypeOK, Update
  <2>. QED BY <1>1, <2>2, <2>3 DEF TypeOK, Update, workers, counters
<1>2. CASE Delete(s)
  <2>. DEFINE k == caller[s].op.key
  <2>1. caller[s].op \in Ops /\ Apply(caller[s].op) /\ Overtake(k)
    BY <1>2, BusyType DEF Delete
  <2>2. redis' \in [Keys -> Values] /\ overtaken' \in [Keys -> BOOLEAN]
    BY <2>1, ApplyType
  <2>3. caller' \in [Servers -> CallerStates]
    <3>1. AllLate(caller, k) \in [Servers -> CallerStates]
      BY <2>1, OvertakeType
    <3>. QED BY <1>2, <3>1, IdleStates DEF Delete
  <2>4. removeWorker' \in [Servers -> RemoverStates] /\ updateWorker' \in [Servers -> UpdaterStates]
    BY <1>2, <2>1, OvertakeType DEF Delete
  <2>. QED BY <1>2, <2>1, <2>2, <2>3, <2>4, OvertakeType DEF TypeOK, Delete, counters
<1>3. CASE DeleteFails(s)
  <2>1. caller[s].op \in Deletes /\ caller[s].op \in Ops /\ caller[s] = [pc |-> caller[s].pc, op |-> caller[s].op]
    BY <1>3, BusyType DEF DeleteFails
  <2>2. orphans' \subseteq Ops /\ failures' \in 0..MaxFailures
    BY <1>3, <2>1, ThrowsType DEF DeleteFails
  <2>3. caller' \in [Servers -> CallerStates]
    <3>1. [caller[s] EXCEPT !.pc = "requeue"] = [pc |-> "requeue", op |-> caller[s].op]
      BY <2>1
    <3>2. caller' = [caller EXCEPT ![s] = [pc |-> "requeue", op |-> caller[s].op]]
      BY <1>3, <3>1 DEF DeleteFails, TypeOK
    <3>. QED BY <2>1, <3>2, BusyStates DEF TypeOK
  <2>. QED BY <1>3, <2>2, <2>3 DEF TypeOK, DeleteFails, queues, workers
<1>4. CASE PutRemoveQueue(s)
  <2>1. caller[s].op \in Deletes
    BY <1>4, BusyType DEF PutRemoveQueue
  <2>2. /\ removeQueue' \in [Servers -> Seq(Deletes)]
        /\ \A t \in Servers : Len(removeQueue'[t]) <= Capacity
    <3>1. removeQueue \in [Servers -> Seq(Deletes)] /\ \A t \in Servers : Len(removeQueue[t]) <= Capacity
      BY DEF TypeOK
    <3>2. removeQueue' = Queued(removeQueue, s, caller[s].op) /\ Len(removeQueue[s]) < Capacity
      BY <1>4 DEF PutRemoveQueue, Queued
    <3>. QED BY <2>1, <3>1, <3>2, QueueType
  <2>3. caller' \in [Servers -> CallerStates]
    BY <1>4, IdleStates DEF TypeOK, PutRemoveQueue
  <2>. QED BY <1>4, <2>2, <2>3 DEF TypeOK, PutRemoveQueue, workers, counters
<1>5. CASE Add(s)
  <2>1. redis' \in [Keys -> Values] /\ overtaken' \in [Keys -> BOOLEAN]
    BY <1>5, BusyType, ApplyType DEF Add
  <2>2. caller' \in [Servers -> CallerStates]
    BY <1>5, IdleStates DEF TypeOK, Add
  <2>. QED BY <1>5, <2>1, <2>2 DEF TypeOK, Add, queues, workers, counters
<1>6. CASE AddFails(s)
  <2>1. orphans' \subseteq Ops /\ failures' \in 0..MaxFailures
    BY <1>6, BusyType, ThrowsType DEF AddFails
  <2>2. caller' \in [Servers -> CallerStates]
    BY <1>6, IdleStates DEF TypeOK, AddFails
  <2>. QED BY <1>6, <2>1, <2>2 DEF TypeOK, AddFails, queues, workers
<1>. QED BY <1>1, <1>2, <1>3, <1>4, <1>5, <1>6 DEF CallStep

LEMMA RemoveType ==
    ASSUME TypeOK, NEW s \in Servers, RemoveStep(s)
    PROVE  TypeOK'
<1>0. removeQueue \in [Servers -> Seq(Deletes)] /\ \A t \in Servers : Len(removeQueue[t]) <= Capacity
  BY DEF TypeOK
<1>1. CASE RemoveTake(s)
  <2>1. /\ Head(removeQueue[s]) \in Deletes
        /\ removeQueue' \in [Servers -> Seq(Deletes)]
        /\ \A t \in Servers : Len(removeQueue'[t]) <= Capacity
    <3>1. removeQueue' = [removeQueue EXCEPT ![s] = Tail(@)] /\ removeQueue[s] # <<>>
      BY <1>1 DEF RemoveTake
    <3>. QED BY <1>0, <3>1, TakeType
  <2>2. removeWorker' \in [Servers -> RemoverStates]
    BY <1>1, <2>1, BusyStates DEF TypeOK, RemoveTake
  <2>. QED BY <1>1, <2>1, <2>2 DEF TypeOK, RemoveTake, counters
<1>2. CASE RemoveDelete(s)
  <2>. DEFINE k == removeWorker[s].op.key
  <2>1. removeWorker[s].op \in Ops /\ Apply(removeWorker[s].op) /\ Overtake(k)
    BY <1>2, BusyType DEF RemoveDelete
  <2>2. redis' \in [Keys -> Values] /\ overtaken' \in [Keys -> BOOLEAN]
    BY <2>1, ApplyType
  <2>3. removeWorker' \in [Servers -> RemoverStates]
    <3>1. AllLate(removeWorker, k) \in [Servers -> RemoverStates]
      BY <2>1, OvertakeType
    <3>. QED BY <1>2, <3>1, IdleStates DEF RemoveDelete
  <2>4. caller' \in [Servers -> CallerStates] /\ updateWorker' \in [Servers -> UpdaterStates]
    BY <1>2, <2>1, OvertakeType DEF RemoveDelete
  <2>. QED BY <1>2, <2>1, <2>2, <2>3, <2>4, OvertakeType DEF TypeOK, RemoveDelete, counters
<1>3. CASE RemoveFails(s)
  <2>1. /\ removeWorker[s].op \in Deletes /\ removeWorker[s].op \in Ops
        /\ removeWorker[s] = [pc |-> removeWorker[s].pc, op |-> removeWorker[s].op]
    BY <1>3, BusyType DEF RemoveFails
  <2>2. orphans' \subseteq Ops /\ failures' \in 0..MaxFailures
    BY <1>3, <2>1, ThrowsType DEF RemoveFails
  <2>3. removeWorker' \in [Servers -> RemoverStates]
    <3>1. [removeWorker[s] EXCEPT !.pc = "put"] = [pc |-> "put", op |-> removeWorker[s].op]
      BY <2>1
    <3>2. removeWorker' = [removeWorker EXCEPT ![s] = [pc |-> "put", op |-> removeWorker[s].op]]
      BY <1>3, <3>1 DEF RemoveFails, TypeOK
    <3>. QED BY <2>1, <3>2, BusyStates DEF TypeOK
  <2>. QED BY <1>3, <2>2, <2>3 DEF TypeOK, RemoveFails, queues
<1>4. CASE RemovePutBack(s)
  <2>1. removeWorker[s].op \in Deletes
    BY <1>4, BusyType DEF RemovePutBack
  <2>2. /\ removeQueue' \in [Servers -> Seq(Deletes)]
        /\ \A t \in Servers : Len(removeQueue'[t]) <= Capacity
    <3>1. removeQueue' = Queued(removeQueue, s, removeWorker[s].op) /\ Len(removeQueue[s]) < Capacity
      BY <1>4 DEF RemovePutBack, Queued
    <3>. QED BY <1>0, <2>1, <3>1, QueueType
  <2>3. removeWorker' \in [Servers -> RemoverStates]
    BY <1>4, IdleStates DEF TypeOK, RemovePutBack
  <2>. QED BY <1>4, <2>2, <2>3 DEF TypeOK, RemovePutBack, counters
<1>. QED BY <1>1, <1>2, <1>3, <1>4 DEF RemoveStep

LEMMA UpdateType ==
    ASSUME TypeOK, NEW s \in Servers, UpdateStep(s)
    PROVE  TypeOK'
<1>0. updateQueue \in [Servers -> Seq(Keys)] /\ \A t \in Servers : Len(updateQueue[t]) <= Capacity
  BY DEF TypeOK
<1>1. CASE UpdateTake(s)
  <2>1. /\ Head(updateQueue[s]) \in Keys
        /\ updateQueue' \in [Servers -> Seq(Keys)]
        /\ \A t \in Servers : Len(updateQueue'[t]) <= Capacity
    <3>1. updateQueue' = [updateQueue EXCEPT ![s] = Tail(@)] /\ updateQueue[s] # <<>>
      BY <1>1 DEF UpdateTake
    <3>. QED BY <1>0, <3>1, TakeType
  <2>2. updateWorker' \in [Servers -> UpdaterStates]
    BY <1>1, <2>1, BusyStates DEF TypeOK, UpdateTake
  <2>. QED BY <1>1, <2>1, <2>2 DEF TypeOK, UpdateTake, counters
<1>2. CASE Fetch(s)
  <2>1. updateWorker[s].key \in Keys
    BY <1>2, BusyType DEF Fetch
  <2>2. [key |-> updateWorker[s].key, val |-> backend[updateWorker[s].key], late |-> FALSE] \in Ops
    BY <2>1 DEF TypeOK, Ops
  <2>3. updateWorker' \in [Servers -> UpdaterStates]
    BY <1>2, <2>2, BusyStates DEF TypeOK, Fetch
  <2>. QED BY <1>2, <2>3 DEF TypeOK, Fetch, queues, counters
<1>3. CASE FetchFails(s)
  <2>1. /\ updateWorker[s].key \in Keys
        /\ updateWorker[s] = [pc |-> updateWorker[s].pc, key |-> updateWorker[s].key]
    BY <1>3, BusyType DEF FetchFails
  <2>2. updateWorker' \in [Servers -> UpdaterStates]
    <3>1. [updateWorker[s] EXCEPT !.pc = "put"] = [pc |-> "put", key |-> updateWorker[s].key]
      BY <2>1
    <3>2. updateWorker' = [updateWorker EXCEPT ![s] = [pc |-> "put", key |-> updateWorker[s].key]]
      BY <1>3, <3>1 DEF FetchFails, TypeOK
    <3>. QED BY <2>1, <3>2, BusyStates DEF TypeOK
  <2>3. failures' \in 0..MaxFailures
    BY <1>3, RedisCacheAssumption DEF TypeOK, FetchFails
  <2>. QED BY <1>3, <2>2, <2>3 DEF TypeOK, FetchFails, queues
<1>4. CASE Write(s)
  <2>. DEFINE k == updateWorker[s].op.key
  <2>1. updateWorker[s].op \in Ops /\ Apply(updateWorker[s].op) /\ Overtake(k)
    BY <1>4, BusyType DEF Write
  <2>2. redis' \in [Keys -> Values] /\ overtaken' \in [Keys -> BOOLEAN]
    BY <2>1, ApplyType
  <2>3. updateWorker' \in [Servers -> UpdaterStates]
    <3>1. AllLate(updateWorker, k) \in [Servers -> UpdaterStates]
      BY <2>1, OvertakeType
    <3>. QED BY <1>4, <3>1, IdleStates DEF Write
  <2>4. caller' \in [Servers -> CallerStates] /\ removeWorker' \in [Servers -> RemoverStates]
    BY <1>4, <2>1, OvertakeType DEF Write
  <2>. QED BY <1>4, <2>1, <2>2, <2>3, <2>4, OvertakeType DEF TypeOK, Write, counters
<1>5. CASE WriteFails(s)
  <2>1. updateWorker[s].op \in Ops /\ updateWorker[s].op.key \in Keys
    BY <1>5, BusyType DEF WriteFails, Ops
  <2>2. orphans' \subseteq Ops /\ failures' \in 0..MaxFailures
    BY <1>5, <2>1, ThrowsType DEF WriteFails
  <2>3. updateWorker' \in [Servers -> UpdaterStates]
    BY <1>5, <2>1, BusyStates DEF TypeOK, WriteFails
  <2>. QED BY <1>5, <2>2, <2>3 DEF TypeOK, WriteFails, queues
<1>6. CASE UpdatePutBack(s)
  <2>1. updateWorker[s].key \in Keys
    BY <1>6, BusyType DEF UpdatePutBack
  <2>2. /\ updateQueue' \in [Servers -> Seq(Keys)]
        /\ \A t \in Servers : Len(updateQueue'[t]) <= Capacity
    <3>1. updateQueue' = Queued(updateQueue, s, updateWorker[s].key) /\ Len(updateQueue[s]) < Capacity
      BY <1>6 DEF UpdatePutBack, Queued
    <3>. QED BY <1>0, <2>1, <3>1, QueueType
  <2>3. updateWorker' \in [Servers -> UpdaterStates]
    BY <1>6, IdleStates DEF TypeOK, UpdatePutBack
  <2>. QED BY <1>6, <2>2, <2>3 DEF TypeOK, UpdatePutBack, counters
<1>. QED BY <1>1, <1>2, <1>3, <1>4, <1>5, <1>6 DEF UpdateStep

LEMMA InitType == Init => TypeOK
<1>. SUFFICES ASSUME Init PROVE TypeOK
  OBVIOUS
<1>1. backend \in [Keys -> Values] /\ redis \in [Keys -> Values]
  BY ValuesType DEF Init
<1>2. /\ removeQueue \in [Servers -> Seq(Deletes)]
      /\ updateQueue \in [Servers -> Seq(Keys)]
      /\ \A s \in Servers : Len(removeQueue[s]) <= Capacity /\ Len(updateQueue[s]) <= Capacity
  BY RedisCacheAssumption DEF Init
<1>3. changes \in 0..MaxChanges /\ fills \in 0..MaxFills /\ failures \in 0..MaxFailures
  BY RedisCacheAssumption DEF Init
<1>4. /\ caller \in [Servers -> CallerStates]
      /\ removeWorker \in [Servers -> RemoverStates]
      /\ updateWorker \in [Servers -> UpdaterStates]
  BY IdleStates DEF Init
<1>. QED BY <1>1, <1>2, <1>3, <1>4 DEF TypeOK, Init

LEMMA TypeStep == TypeOK /\ [Next]_vars => TypeOK'
<1>. SUFFICES ASSUME TypeOK, [Next]_vars PROVE TypeOK'
  OBVIOUS
<1>1. ASSUME NEW s \in Servers, CallStep(s) PROVE TypeOK'
  BY <1>1, CallType
<1>2. ASSUME NEW s \in Servers, RemoveStep(s) PROVE TypeOK'
  BY <1>2, RemoveType
<1>3. ASSUME NEW s \in Servers, UpdateStep(s) PROVE TypeOK'
  BY <1>3, UpdateType
<1>4. ASSUME NEW s \in Servers, NEW k \in Keys, Read(s, k) PROVE TypeOK'
  BY <1>4, ReadType
<1>5. ASSUME NEW s \in Servers, NEW k \in Keys, NEW m \in {"update", "delete"}, Change(s, k, m)
      PROVE  TypeOK'
  BY <1>5, ChangeType
<1>6. ASSUME NEW o \in orphans, OrphanLands(o) PROVE TypeOK'
  <2>1. o \in Ops
    BY DEF TypeOK
  <2>2. redis' \in [Keys -> Values] /\ overtaken' \in [Keys -> BOOLEAN]
    BY <1>6, <2>1, ApplyType DEF OrphanLands
  <2>. QED BY <1>6, <2>2 DEF TypeOK, OrphanLands, queues, workers, counters
<1>7. CASE UNCHANGED vars
  BY <1>7 DEF TypeOK, vars, queues, workers, counters
<1>. QED BY <1>1, <1>2, <1>3, <1>4, <1>5, <1>6, <1>7 DEF Next

\* The queues never hold more than their capacity, a thread is always at a step
\* of its method with the operation that step needs, and only deletes are ever
\* queued for the remove worker (RedisCache's two LinkedBlockingQueues).
THEOREM TypeCorrect == Spec => []TypeOK
BY InitType, TypeStep, PTL DEF Spec

-----------------------------------------------------------------------------
(* A step that answers no call of key j keeps the invariant of j           *)

\* The calls that are going to repair j stay under way.
Kept(j) ==
    /\ backend'[j] = backend[j] /\ lastCall'[j] = lastCall[j]
    /\ WillDelete(j) => WillDelete(j)'
    /\ WillUpdate(j) => WillUpdate(j)'

\* The writes that are under way after the step were so before it, or are good.
NoNewDelete(j) ==
    (\E s \in Servers : Deleting(s, FreshDelete(j))') => \E s \in Servers : Deleting(s, FreshDelete(j))

NoNewWrite(j) ==
    \A s \in Servers :
        updateWorker'[s].pc = "write" /\ updateWorker'[s].op.key = j /\ ~updateWorker'[s].op.late
            => \/ Good(j, updateWorker'[s].op.val)
               \/ updateWorker[s] = updateWorker'[s] /\ (OtherUpdates(j, s) => OtherUpdates(j, s)')

NoNewAdd(j) ==
    \A s \in Servers :
        caller'[s].pc = "add" /\ caller'[s].op.key = j /\ ~caller'[s].op.late
            => Good(j, caller'[s].op.val) \/ caller[s] = caller'[s]

NoNewOrphan(j) ==
    \A o \in orphans' : o.key = j /\ ~o.late => o \in orphans \/ Repaired(j, o.val)

NoNewValue(j) ==
    ~overtaken'[j] => \/ redis'[j] = redis[j] /\ ~overtaken[j]
                      \/ Repaired(j, redis'[j])

LEMMA KeptRepair ==
    ASSUME NEW j, NEW v, Kept(j)
    PROVE  /\ Good(j, v) => Good(j, v)'
           /\ Repaired(j, v) => Repaired(j, v)'
<1>1. Good(j, v) => Good(j, v)'
  BY DEF Kept, Good
<1>. QED BY <1>1 DEF Kept, Repaired

LEMMA KeyStays ==
    ASSUME NEW j \in Keys, KeyInv(j), Kept(j),
           NoNewDelete(j), NoNewWrite(j), NoNewAdd(j), NoNewOrphan(j), NoNewValue(j)
    PROVE  KeyInv(j)'
<1>0. (WillDelete(j) => WillDelete(j)') /\ (WillUpdate(j) => WillUpdate(j)')
  BY DEF Kept
<1>1. DeletesOK(j)'
  <2>1. Good(j, NoValue) => Good(j, NoValue)'
    BY KeptRepair
  <2>. QED BY <2>1 DEF KeyInv, DeletesOK, NoNewDelete, Kept
<1>2. WritesOK(j)'
  <2>. SUFFICES ASSUME NEW s \in Servers,
                       updateWorker'[s].pc = "write", updateWorker'[s].op.key = j,
                       ~updateWorker'[s].op.late, NEW v, v = updateWorker'[s].op.val
                PROVE  Good(j, v)' \/ WillDelete(j)' \/ OtherUpdates(j, s)'
    BY DEF WritesOK, Good
  <2>1. \/ Good(j, v)
        \/ updateWorker[s] = updateWorker'[s] /\ (OtherUpdates(j, s) => OtherUpdates(j, s)')
    BY DEF NoNewWrite
  <2>2. Good(j, v) => Good(j, v)'
    BY DEF Kept, Good
  <2>. QED BY <2>1, <2>2 DEF KeyInv, WritesOK, Kept
<1>3. AddsOK(j)'
  <2>. SUFFICES ASSUME NEW s \in Servers,
                       caller'[s].pc = "add", caller'[s].op.key = j, ~caller'[s].op.late,
                       NEW v, v = caller'[s].op.val
                PROVE  Repaired(j, v)'
    BY DEF AddsOK, Repaired, Good
  <2>1. Good(j, v) \/ caller[s] = caller'[s]
    BY DEF NoNewAdd
  <2>2. Repaired(j, v)
    BY <2>1 DEF KeyInv, AddsOK, Repaired
  <2>. QED BY <2>2, KeptRepair
<1>4. OrphansOK(j)'
  <2>. SUFFICES ASSUME NEW o \in orphans', o.key = j, ~o.late
                PROVE  Repaired(j, o.val)'
    BY DEF OrphansOK
  <2>1. Repaired(j, o.val)
    BY DEF NoNewOrphan, KeyInv, OrphansOK
  <2>. QED BY <2>1, KeptRepair
<1>5. RedisOK(j)'
  <2>. SUFFICES ASSUME ~overtaken'[j], NEW v, v = redis'[j]
                PROVE  Repaired(j, v)'
    BY DEF RedisOK, Repaired, Good
  <2>1. Repaired(j, v)
    BY DEF NoNewValue, KeyInv, RedisOK
  <2>. QED BY <2>1, KeptRepair
<1>. QED BY <1>1, <1>2, <1>3, <1>4, <1>5 DEF KeyInv

-----------------------------------------------------------------------------
(* Calls move from a caller to a queue, to a worker and back               *)

LEMMA InAppend ==
    ASSUME NEW S, NEW q \in Seq(S), NEW e \in S, NEW x
    PROVE  In(x, Append(q, e)) <=> In(x, q) \/ x = e
<1>1. /\ Len(Append(q, e)) = Len(q) + 1
      /\ \A i \in 1..Len(q) : Append(q, e)[i] = q[i]
      /\ Append(q, e)[Len(q) + 1] = e
      /\ DOMAIN q = 1..Len(q) /\ DOMAIN Append(q, e) = 1..(Len(q) + 1)
      /\ Len(q) \in Nat
  OBVIOUS
<1>2. In(x, Append(q, e)) => In(x, q) \/ x = e
  BY <1>1 DEF In
<1>3. In(x, q) => In(x, Append(q, e))
  BY <1>1 DEF In
<1>4. x = e => In(x, Append(q, e))
  BY <1>1 DEF In
<1>. QED BY <1>2, <1>3, <1>4

LEMMA InTail ==
    ASSUME NEW S, NEW q \in Seq(S), q # <<>>, NEW x
    PROVE  In(x, q) <=> In(x, Tail(q)) \/ x = Head(q)
<1>1. /\ Len(Tail(q)) = Len(q) - 1 /\ Len(q) \in Nat \ {0}
      /\ \A i \in 1..(Len(q) - 1) : Tail(q)[i] = q[i + 1]
      /\ Head(q) = q[1]
      /\ DOMAIN q = 1..Len(q) /\ DOMAIN Tail(q) = 1..(Len(q) - 1)
  OBVIOUS
<1>2. ASSUME NEW i \in DOMAIN q, q[i] = x, x # Head(q) PROVE In(x, Tail(q))
  <2>1. i - 1 \in DOMAIN Tail(q) /\ Tail(q)[i - 1] = x
    BY <1>1, <1>2
  <2>. QED BY <2>1 DEF In
<1>3. ASSUME NEW i \in DOMAIN Tail(q), Tail(q)[i] = x PROVE In(x, q)
  <2>1. i + 1 \in DOMAIN q /\ q[i + 1] = x
    BY <1>1, <1>3
  <2>. QED BY <2>1 DEF In
<1>4. x = Head(q) => In(x, q)
  BY <1>1 DEF In
<1>. QED BY <1>2, <1>3, <1>4 DEF In

\* What an ordinary step does to the calls: each of them stays in its server.
Moves ==
    /\ UNCHANGED <<backend, lastCall>>
    /\ \A t \in Servers : \A o \in Deletes : Deleting(t, o)' <=> Deleting(t, o)
    /\ \A t \in Servers : \A j \in Keys :
          Waiting(t, j) \/ Updating(t, j) => Waiting(t, j)' \/ Updating(t, j)'
    /\ \A t \in Servers : updateWorker'[t].pc = "write" /\ updateWorker'[t] = updateWorker[t] =>
          \A j \in Keys : Waiting(t, j) => Waiting(t, j)'

LEMMA MovesKeep ==
    ASSUME Moves, NEW j \in Keys
    PROVE  /\ Kept(j) /\ NoNewDelete(j)
           /\ \A s \in Servers : updateWorker'[s].pc = "write" /\ updateWorker'[s] = updateWorker[s] =>
                (OtherUpdates(j, s) => OtherUpdates(j, s)')
<1>1. Kept(j)
  <2>1. WillDelete(j) => WillDelete(j)'
    BY DEF Moves, WillDelete
  <2>2. WillUpdate(j) => WillUpdate(j)'
    BY DEF Moves, WillUpdate
  <2>. QED BY <2>1, <2>2 DEF Kept, Moves
<1>2. NoNewDelete(j)
  <2>1. FreshDelete(j) \in Deletes
    BY ValuesType DEF FreshDelete, Deletes, Ops
  <2>. QED BY <2>1 DEF Moves, NoNewDelete
<1>3. ASSUME NEW s \in Servers, updateWorker'[s].pc = "write", updateWorker'[s] = updateWorker[s],
             OtherUpdates(j, s)
      PROVE  OtherUpdates(j, s)'
  <2>1. PICK t \in Servers : Waiting(t, j) \/ (t # s /\ Updating(t, j))
    BY <1>3 DEF OtherUpdates
  <2>2. CASE t = s
    BY <1>3, <2>1, <2>2 DEF OtherUpdates, Moves
  <2>3. CASE t # s
    BY <2>1, <2>3 DEF OtherUpdates, Moves
  <2>. QED BY <2>2, <2>3
<1>. QED BY <1>1, <1>2, <1>3

\* The steps that answer no call.
LEMMA MovesKeepKey ==
    ASSUME Moves, NEW j \in Keys, KeyInv(j),
           NoNewWrite(j) \/ UNCHANGED updateWorker, NoNewAdd(j) \/ UNCHANGED caller,
           NoNewOrphan(j) \/ UNCHANGED orphans, NoNewValue(j) \/ UNCHANGED <<redis, overtaken>>
    PROVE  KeyInv(j)'
<1>1. NoNewWrite(j)
  <2>1. ASSUME UNCHANGED updateWorker PROVE NoNewWrite(j)
    BY <2>1, MovesKeep DEF NoNewWrite
  <2>. QED BY <2>1
<1>2. NoNewAdd(j)
  BY DEF NoNewAdd
<1>3. NoNewOrphan(j)
  BY DEF NoNewOrphan
<1>4. NoNewValue(j)
  BY DEF NoNewValue
<1>. QED BY <1>1, <1>2, <1>3, <1>4, MovesKeep, KeyStays

\* Where the threads of a server stand, for the definitions above.
LEMMA ThreadFacts ==
    ASSUME TypeOK, NEW t \in Servers
    PROVE  /\ HasOp(removeWorker[t]) <=> removeWorker[t].pc \in {"delete", "put"}
           /\ HasOp(updateWorker[t]) <=> updateWorker[t].pc = "write"
           /\ updateWorker[t] # Idle <=> updateWorker[t].pc \in {"fetch", "put", "write"}
<1>1. removeWorker[t] \in RemoverStates /\ updateWorker[t] \in UpdaterStates
  BY DEF TypeOK
<1>2. HasOp(removeWorker[t]) <=> removeWorker[t].pc \in {"delete", "put"}
  BY <1>1 DEF RemoverStates, HasOp, Idle
<1>3. HasOp(updateWorker[t]) <=> updateWorker[t].pc = "write"
  BY <1>1 DEF UpdaterStates, HasOp, Idle
<1>4. updateWorker[t] # Idle <=> updateWorker[t].pc \in {"fetch", "put", "write"}
  BY <1>1 DEF UpdaterStates, Idle
<1>. QED BY <1>2, <1>3, <1>4

LEMMA UpdateKeeps ==
    ASSUME TypeOK, NEW s \in Servers, Update(s), NEW j \in Keys, KeyInv(j)
    PROVE  KeyInv(j)'
<1>1. ASSUME NEW t \in Servers, NEW o \in Deletes PROVE Deleting(t, o)' <=> Deleting(t, o)
  BY DEF Update, Deleting, Idle, TypeOK, workers
<1>2. ASSUME NEW t \in Servers, NEW i \in Keys
      PROVE  (Waiting(t, i) => Waiting(t, i)') /\ (Updating(t, i)' <=> Updating(t, i))
  <2>1. caller[s].key \in Keys /\ updateQueue[s] \in Seq(Keys)
    BY BusyType DEF Update, TypeOK
  <2>2. In(i, Append(updateQueue[s], caller[s].key)) <=> In(i, updateQueue[s]) \/ i = caller[s].key
    BY <2>1, InAppend
  <2>3. Waiting(t, i) => Waiting(t, i)'
    BY <2>2 DEF Update, Waiting, TypeOK
  <2>. QED BY <2>3 DEF Update, Updating, workers
<1>3. Moves
  BY <1>1, <1>2 DEF Moves, Update
<1>4. NoNewAdd(j)
  BY DEF NoNewAdd, Update, Idle, TypeOK
<1>. QED BY <1>3, <1>4, MovesKeepKey DEF Update, workers

LEMMA DeleteFailsKeeps ==
    ASSUME TypeOK, NEW s \in Servers, DeleteFails(s), NEW j \in Keys, KeyInv(j)
    PROVE  KeyInv(j)'
<1>0. /\ caller[s].op \in Deletes
      /\ caller' = [caller EXCEPT ![s] = [pc |-> "requeue", op |-> caller[s].op]]
  <2>1. caller[s].op \in Deletes /\ caller[s] = [pc |-> caller[s].pc, op |-> caller[s].op]
    BY BusyType DEF DeleteFails
  <2>2. [caller[s] EXCEPT !.pc = "requeue"] = [pc |-> "requeue", op |-> caller[s].op]
    BY <2>1
  <2>. QED BY <2>1, <2>2 DEF DeleteFails, TypeOK
<1>1. ASSUME NEW t \in Servers, NEW o \in Deletes PROVE Deleting(t, o)' <=> Deleting(t, o)
  <2>1. /\ removeQueue' = removeQueue /\ removeWorker' = removeWorker
        /\ caller'[t] = IF t = s THEN [pc |-> "requeue", op |-> caller[s].op] ELSE caller[t]
        /\ caller[s].pc = "delete"
    BY <1>0 DEF DeleteFails, TypeOK, queues, workers
  <2>2. CASE t = s
    BY <2>1, <2>2 DEF Deleting
  <2>3. CASE t # s
    BY <2>1, <2>3 DEF Deleting
  <2>. QED BY <2>2, <2>3
<1>2. ASSUME NEW t \in Servers, NEW i \in Keys
      PROVE  (Waiting(t, i) => Waiting(t, i)') /\ (Updating(t, i)' <=> Updating(t, i))
  BY <1>0 DEF DeleteFails, Waiting, Updating, TypeOK, queues, workers
<1>3. Moves
  BY <1>1, <1>2 DEF Moves, DeleteFails
<1>4. NoNewAdd(j)
  BY <1>0 DEF NoNewAdd, TypeOK
<1>5. NoNewOrphan(j)
  <2>1. ASSUME caller[s].op.key = j PROVE WillDelete(j)
    BY <1>0, <2>1 DEF WillDelete, Deleting, DeleteFails
  <2>. QED BY <2>1 DEF NoNewOrphan, DeleteFails, Throws, Repaired
<1>. QED BY <1>3, <1>4, <1>5, MovesKeepKey DEF DeleteFails, workers

LEMMA PutRemoveQueueKeeps ==
    ASSUME TypeOK, NEW s \in Servers, PutRemoveQueue(s), NEW j \in Keys, KeyInv(j)
    PROVE  KeyInv(j)'
<1>0. caller[s].op \in Deletes /\ removeQueue[s] \in Seq(Deletes)
  BY BusyType DEF PutRemoveQueue, TypeOK
<1>1. ASSUME NEW t \in Servers, NEW o \in Deletes PROVE Deleting(t, o)' <=> Deleting(t, o)
  <2>1. In(o, Append(removeQueue[s], caller[s].op)) <=> In(o, removeQueue[s]) \/ o = caller[s].op
    BY <1>0, InAppend
  <2>. QED BY <2>1 DEF PutRemoveQueue, Deleting, TypeOK, Idle, workers
<1>2. ASSUME NEW t \in Servers, NEW i \in Keys
      PROVE  (Waiting(t, i) => Waiting(t, i)') /\ (Updating(t, i)' <=> Updating(t, i))
  BY DEF PutRemoveQueue, Waiting, Updating, TypeOK, workers
<1>3. Moves
  BY <1>1, <1>2 DEF Moves, PutRemoveQueue
<1>4. NoNewAdd(j)
  BY DEF NoNewAdd, PutRemoveQueue, Idle, TypeOK
<1>. QED BY <1>3, <1>4, MovesKeepKey DEF PutRemoveQueue, workers

LEMMA ReadKeeps ==
    ASSUME TypeOK, NEW s \in Servers, NEW k \in Keys, Read(s, k), NEW j \in Keys, KeyInv(j)
    PROVE  KeyInv(j)'
<1>1. ASSUME NEW t \in Servers, NEW o \in Deletes PROVE Deleting(t, o)' <=> Deleting(t, o)
  BY DEF Read, Deleting, Idle, TypeOK, queues, workers
<1>2. ASSUME NEW t \in Servers, NEW i \in Keys
      PROVE  (Waiting(t, i) => Waiting(t, i)') /\ (Updating(t, i)' <=> Updating(t, i))
  BY DEF Read, Waiting, Updating, Idle, TypeOK, queues, workers
<1>3. Moves
  BY <1>1, <1>2 DEF Moves, Read
<1>4. NoNewAdd(j)
  BY DEF NoNewAdd, Read, Good, TypeOK
<1>. QED BY <1>3, <1>4, MovesKeepKey DEF Read, workers

LEMMA AddKeeps ==
    ASSUME TypeOK, NEW s \in Servers, Add(s) \/ AddFails(s), NEW j \in Keys, KeyInv(j)
    PROVE  KeyInv(j)'
<1>0. /\ caller[s].pc = "add" /\ caller[s].op \in Ops
      /\ caller' = [caller EXCEPT ![s] = Idle]
      /\ UNCHANGED <<backend, lastCall, removeQueue, updateQueue, removeWorker, updateWorker>>
  BY BusyType DEF Add, AddFails, queues, workers
<1>1. ASSUME NEW t \in Servers, NEW o \in Deletes PROVE Deleting(t, o)' <=> Deleting(t, o)
  BY <1>0 DEF Deleting, Idle, TypeOK
<1>2. ASSUME NEW t \in Servers, NEW i \in Keys
      PROVE  (Waiting(t, i) => Waiting(t, i)') /\ (Updating(t, i)' <=> Updating(t, i))
  BY <1>0 DEF Waiting, Updating, Idle, TypeOK
<1>3. Moves
  BY <1>0, <1>1, <1>2 DEF Moves
<1>4. NoNewAdd(j)
  BY <1>0 DEF NoNewAdd, Idle, TypeOK
<1>5. caller[s].op.key = j /\ ~caller[s].op.late => Repaired(j, caller[s].op.val)
  BY <1>0 DEF KeyInv, AddsOK
<1>6. CASE Add(s)
  <2>1. NoNewValue(j)
    BY <1>0, <1>5, <1>6 DEF NoNewValue, Add, Apply, TypeOK, Ops
  <2>. QED BY <1>0, <1>3, <1>4, <1>6, <2>1, MovesKeepKey DEF Add
<1>7. CASE AddFails(s)
  <2>1. NoNewOrphan(j)
    BY <1>5, <1>7 DEF NoNewOrphan, AddFails, Throws
  <2>. QED BY <1>0, <1>3, <1>4, <1>7, <2>1, MovesKeepKey DEF AddFails
<1>. QED BY <1>6, <1>7

LEMMA OrphanKeeps ==
    ASSUME TypeOK, NEW o \in orphans, OrphanLands(o), NEW j \in Keys, KeyInv(j)
    PROVE  KeyInv(j)'
<1>1. UNCHANGED <<backend, lastCall, caller, removeQueue, updateQueue, removeWorker, updateWorker>>
  BY DEF OrphanLands, queues, workers
<1>2. Moves
  BY <1>1 DEF Moves, Deleting, Waiting, Updating
<1>3. NoNewOrphan(j)
  BY DEF NoNewOrphan, OrphanLands
<1>4. NoNewValue(j)
  <2>1. o \in Ops
    BY DEF TypeOK
  <2>2. o.key = j /\ ~o.late => Repaired(j, o.val)
    BY DEF KeyInv, OrphansOK
  <2>. QED BY <2>1, <2>2 DEF NoNewValue, OrphanLands, Apply, TypeOK, Ops
<1>. QED BY <1>1, <1>2, <1>3, <1>4, MovesKeepKey

LEMMA RemoveTakeKeeps ==
    ASSUME TypeOK, NEW s \in Servers, RemoveTake(s), NEW j \in Keys, KeyInv(j)
    PROVE  KeyInv(j)'
<1>0. removeQueue[s] \in Seq(Deletes) /\ removeQueue[s] # <<>>
  BY DEF RemoveTake, TypeOK
<1>1. ASSUME NEW t \in Servers, NEW o \in Deletes PROVE Deleting(t, o)' <=> Deleting(t, o)
  <2>1. In(o, removeQueue[s]) <=> In(o, Tail(removeQueue[s])) \/ o = Head(removeQueue[s])
    BY <1>0, InTail
  <2>2. /\ caller' = caller
        /\ removeQueue'[t] = IF t = s THEN Tail(removeQueue[s]) ELSE removeQueue[t]
        /\ removeWorker'[t] = IF t = s THEN [pc |-> "delete", op |-> Head(removeQueue[s])] ELSE removeWorker[t]
        /\ removeWorker[s] = Idle
    BY DEF RemoveTake, TypeOK
  <2>3. CASE t = s
    BY <2>1, <2>2, <2>3 DEF Deleting, HasOp, Idle
  <2>4. CASE t # s
    BY <2>2, <2>4 DEF Deleting
  <2>. QED BY <2>3, <2>4
<1>2. ASSUME NEW t \in Servers, NEW i \in Keys
      PROVE  (Waiting(t, i) => Waiting(t, i)') /\ (Updating(t, i)' <=> Updating(t, i))
  BY DEF RemoveTake, Waiting, Updating
<1>3. Moves
  BY <1>1, <1>2 DEF Moves, RemoveTake
<1>. QED BY <1>3, MovesKeepKey DEF RemoveTake

LEMMA RemoveFailsKeeps ==
    ASSUME TypeOK, NEW s \in Servers, RemoveFails(s), NEW j \in Keys, KeyInv(j)
    PROVE  KeyInv(j)'
<1>0. /\ removeWorker[s].op \in Deletes /\ HasOp(removeWorker[s])
      /\ removeWorker' = [removeWorker EXCEPT ![s] = [pc |-> "put", op |-> removeWorker[s].op]]
  <2>1. removeWorker[s].op \in Deletes /\ removeWorker[s] = [pc |-> removeWorker[s].pc, op |-> removeWorker[s].op]
    BY BusyType DEF RemoveFails
  <2>2. [removeWorker[s] EXCEPT !.pc = "put"] = [pc |-> "put", op |-> removeWorker[s].op]
    BY <2>1
  <2>. QED BY <2>1, <2>2, ThreadFacts DEF RemoveFails, TypeOK
<1>1. ASSUME NEW t \in Servers, NEW o \in Deletes PROVE Deleting(t, o)' <=> Deleting(t, o)
  <2>1. /\ removeQueue' = removeQueue /\ caller' = caller
        /\ removeWorker'[t] = IF t = s THEN [pc |-> "put", op |-> removeWorker[s].op] ELSE removeWorker[t]
    BY <1>0 DEF RemoveFails, TypeOK, queues
  <2>2. CASE t = s
    BY <1>0, <2>1, <2>2 DEF Deleting, HasOp
  <2>3. CASE t # s
    BY <2>1, <2>3 DEF Deleting
  <2>. QED BY <2>2, <2>3
<1>2. ASSUME NEW t \in Servers, NEW i \in Keys
      PROVE  (Waiting(t, i) => Waiting(t, i)') /\ (Updating(t, i)' <=> Updating(t, i))
  BY DEF RemoveFails, Waiting, Updating, queues
<1>3. Moves
  BY <1>1, <1>2 DEF Moves, RemoveFails
<1>4. NoNewOrphan(j)
  <2>1. ASSUME removeWorker[s].op.key = j PROVE WillDelete(j)
    BY <1>0, <2>1 DEF WillDelete, Deleting
  <2>. QED BY <2>1 DEF NoNewOrphan, RemoveFails, Throws, Repaired
<1>. QED BY <1>3, <1>4, MovesKeepKey DEF RemoveFails

LEMMA RemovePutBackKeeps ==
    ASSUME TypeOK, NEW s \in Servers, RemovePutBack(s), NEW j \in Keys, KeyInv(j)
    PROVE  KeyInv(j)'
<1>0. removeWorker[s].op \in Deletes /\ removeQueue[s] \in Seq(Deletes) /\ HasOp(removeWorker[s])
  BY BusyType, ThreadFacts DEF RemovePutBack, TypeOK
<1>1. ASSUME NEW t \in Servers, NEW o \in Deletes PROVE Deleting(t, o)' <=> Deleting(t, o)
  <2>1. In(o, Append(removeQueue[s], removeWorker[s].op)) <=> In(o, removeQueue[s]) \/ o = removeWorker[s].op
    BY <1>0, InAppend
  <2>2. /\ caller' = caller
        /\ removeQueue'[t] = IF t = s THEN Append(removeQueue[s], removeWorker[s].op) ELSE removeQueue[t]
        /\ removeWorker'[t] = IF t = s THEN Idle ELSE removeWorker[t]
    BY DEF RemovePutBack, TypeOK
  <2>3. CASE t = s
    BY <1>0, <2>1, <2>2, <2>3 DEF Deleting, HasOp, Idle
  <2>4. CASE t # s
    BY <2>2, <2>4 DEF Deleting
  <2>. QED BY <2>3, <2>4
<1>2. ASSUME NEW t \in Servers, NEW i \in Keys
      PROVE  (Waiting(t, i) => Waiting(t, i)') /\ (Updating(t, i)' <=> Updating(t, i))
  BY DEF RemovePutBack, Waiting, Updating
<1>3. Moves
  BY <1>1, <1>2 DEF Moves, RemovePutBack
<1>. QED BY <1>3, MovesKeepKey DEF RemovePutBack

\* The steps of the update worker leave the deletes alone.
LEMMA UpdaterMoves ==
    ASSUME UNCHANGED <<backend, lastCall, caller, removeQueue, removeWorker>>,
           \A t \in Servers : \A i \in Keys :
               Waiting(t, i) \/ Updating(t, i) => Waiting(t, i)' \/ Updating(t, i)',
           \A t \in Servers : updateWorker'[t].pc = "write" /\ updateWorker'[t] = updateWorker[t] =>
               updateQueue'[t] = updateQueue[t]
    PROVE  Moves
<1>1. \A t \in Servers : \A o \in Deletes : Deleting(t, o)' <=> Deleting(t, o)
  BY DEF Deleting
<1>2. \A t \in Servers : updateWorker'[t].pc = "write" /\ updateWorker'[t] = updateWorker[t] =>
          \A i \in Keys : Waiting(t, i) => Waiting(t, i)'
  BY DEF Waiting
<1>. QED BY <1>1, <1>2 DEF Moves

LEMMA UpdateTakeKeeps ==
    ASSUME TypeOK, NEW s \in Servers, UpdateTake(s), NEW j \in Keys, KeyInv(j)
    PROVE  KeyInv(j)'
<1>0. updateQueue[s] \in Seq(Keys) /\ updateQueue[s] # <<>>
  BY DEF UpdateTake, TypeOK
<1>1. ASSUME NEW t \in Servers
      PROVE  /\ caller' = caller
             /\ updateQueue'[t] = IF t = s THEN Tail(updateQueue[s]) ELSE updateQueue[t]
             /\ updateWorker'[t] = IF t = s THEN [pc |-> "fetch", key |-> Head(updateQueue[s])] ELSE updateWorker[t]
  BY DEF UpdateTake, TypeOK
<1>2. ASSUME NEW t \in Servers, NEW i \in Keys, Waiting(t, i) \/ Updating(t, i)
      PROVE  Waiting(t, i)' \/ Updating(t, i)'
  <2>1. In(i, updateQueue[s]) <=> In(i, Tail(updateQueue[s])) \/ i = Head(updateQueue[s])
    BY <1>0, InTail
  <2>2. CASE t = s
    <3>1. ~Updating(t, i)
      BY <2>2 DEF Updating, UpdateTake, HasOp, Idle
    <3>2. i = Head(updateQueue[s]) => Updating(t, i)'
      BY <1>1, <2>2 DEF Updating, HasOp, Idle
    <3>. QED BY <1>1, <1>2, <2>1, <2>2, <3>1, <3>2 DEF Waiting
  <2>3. CASE t # s
    BY <1>1, <1>2, <2>3 DEF Waiting, Updating
  <2>. QED BY <2>2, <2>3
<1>3. Moves
  <2>1. UNCHANGED <<backend, lastCall, caller, removeQueue, removeWorker>>
    BY DEF UpdateTake
  <2>. QED BY <1>1, <1>2, <2>1, UpdaterMoves
<1>4. NoNewWrite(j)
  BY <1>1, <1>3, MovesKeep DEF NoNewWrite
<1>. QED BY <1>3, <1>4, MovesKeepKey DEF UpdateTake

\* A fetch and what throws: the worker stays busy with its key.
LEMMA UpdaterStays ==
    ASSUME TypeOK, NEW s \in Servers, NEW p \in UpdaterStates,
           updateWorker' = [updateWorker EXCEPT ![s] = p], updateWorker[s] # Idle,
           \A i \in Keys : Updating(s, i) => IF HasOp(p) THEN p.op.key = i ELSE p # Idle /\ p.key = i,
           UNCHANGED <<backend, lastCall, caller, removeQueue, removeWorker, updateQueue>>
    PROVE  Moves
<1>1. ASSUME NEW t \in Servers
      PROVE  updateWorker'[t] = IF t = s THEN p ELSE updateWorker[t]
  BY DEF TypeOK
<1>2. ASSUME NEW t \in Servers, NEW i \in Keys, Waiting(t, i) \/ Updating(t, i)
      PROVE  Waiting(t, i)' \/ Updating(t, i)'
  BY <1>1, <1>2 DEF Waiting, Updating
<1>. QED BY <1>1, <1>2, UpdaterMoves

LEMMA FetchKeeps ==
    ASSUME TypeOK, NEW s \in Servers, Fetch(s), NEW j \in Keys, KeyInv(j)
    PROVE  KeyInv(j)'
<1>. DEFINE k == updateWorker[s].key
            o == [key |-> k, val |-> backend[k], late |-> FALSE]
            p == [pc |-> "write", op |-> o]
<1>0. k \in Keys /\ ~HasOp(updateWorker[s]) /\ updateWorker[s] # Idle
  BY BusyType, ThreadFacts DEF Fetch
<1>1. o \in Ops
  BY <1>0 DEF Ops, TypeOK
<1>2. p \in UpdaterStates
  BY <1>1, BusyStates
<1>3. Moves
  <2>1. \A i \in Keys : Updating(s, i) => IF HasOp(p) THEN p.op.key = i ELSE p # Idle /\ p.key = i
    BY <1>0 DEF Updating, HasOp
  <2>2. UNCHANGED <<backend, lastCall, caller, removeQueue, removeWorker, updateQueue>>
    BY DEF Fetch, queues
  <2>3. updateWorker' = [updateWorker EXCEPT ![s] = p]
    BY DEF Fetch
  <2>. HIDE DEF p
  <2>. QED BY <1>0, <1>2, <2>1, <2>2, <2>3, UpdaterStays
<1>4. NoNewWrite(j)
  <2>. SUFFICES ASSUME NEW t \in Servers, updateWorker'[t].op.key = j
                PROVE  \/ Good(j, updateWorker'[t].op.val)
                       \/ updateWorker[t] = updateWorker'[t]
    BY <1>3, MovesKeep DEF NoNewWrite
  <2>1. CASE t = s
    BY <1>0, <2>1 DEF Fetch, Good, TypeOK
  <2>2. CASE t # s
    BY <2>2 DEF Fetch, TypeOK
  <2>. QED BY <2>1, <2>2
<1>. QED BY <1>3, <1>4, MovesKeepKey DEF Fetch

LEMMA UpdateThrowsKeeps ==
    ASSUME TypeOK, NEW s \in Servers, FetchFails(s) \/ WriteFails(s), NEW j \in Keys, KeyInv(j)
    PROVE  KeyInv(j)'
<1>. DEFINE k == IF HasOp(updateWorker[s]) THEN updateWorker[s].op.key ELSE updateWorker[s].key
            p == [pc |-> "put", key |-> k]
<1>0. /\ k \in Keys /\ updateWorker[s] # Idle
      /\ updateWorker' = [updateWorker EXCEPT ![s] = p]
      /\ UNCHANGED <<backend, lastCall, caller, removeQueue, removeWorker, updateQueue, redis, overtaken>>
  <2>1. CASE FetchFails(s)
    <3>1. ~HasOp(updateWorker[s]) /\ updateWorker[s] # Idle /\ k \in Keys
      BY <2>1, ThreadFacts, BusyType DEF FetchFails
    <3>2. updateWorker[s] = [pc |-> "fetch", key |-> k]
      BY <2>1, <3>1, BusyType DEF FetchFails
    <3>3. [updateWorker[s] EXCEPT !.pc = "put"] = p
      BY <3>1, <3>2
    <3>. QED BY <2>1, <3>1, <3>3 DEF FetchFails, queues, TypeOK
  <2>2. CASE WriteFails(s)
    <3>1. HasOp(updateWorker[s]) /\ updateWorker[s] # Idle /\ k \in Keys
      BY <2>2, ThreadFacts, BusyType DEF WriteFails, Ops
    <3>. QED BY <2>2, <3>1 DEF WriteFails, queues, TypeOK
  <2>. QED BY <2>1, <2>2
<1>2. p \in UpdaterStates
  BY <1>0, BusyStates
<1>3. Moves
  <2>1. \A i \in Keys : Updating(s, i) => IF HasOp(p) THEN p.op.key = i ELSE p # Idle /\ p.key = i
    BY <1>0 DEF Updating, HasOp, Idle
  <2>. HIDE DEF p
  <2>. QED BY <1>0, <1>2, <2>1, UpdaterStays
<1>4. NoNewWrite(j)
  <2>1. ASSUME NEW t \in Servers, updateWorker'[t].pc = "write" PROVE updateWorker[t] = updateWorker'[t]
    BY <1>0, <2>1 DEF TypeOK
  <2>. QED BY <1>3, <2>1, MovesKeep DEF NoNewWrite
<1>5. NoNewOrphan(j)
  <2>1. ASSUME WriteFails(s), updateWorker[s].op.key = j PROVE WillUpdate(j)
    BY <2>1, ThreadFacts DEF WillUpdate, Updating, WriteFails
  <2>. QED BY <2>1 DEF NoNewOrphan, FetchFails, WriteFails, Throws, Repaired
<1>. QED BY <1>0, <1>3, <1>4, <1>5, MovesKeepKey

LEMMA UpdatePutBackKeeps ==
    ASSUME TypeOK, NEW s \in Servers, UpdatePutBack(s), NEW j \in Keys, KeyInv(j)
    PROVE  KeyInv(j)'
<1>0. updateWorker[s].key \in Keys /\ updateQueue[s] \in Seq(Keys) /\ ~HasOp(updateWorker[s])
  BY BusyType, ThreadFacts DEF UpdatePutBack, TypeOK
<1>1. ASSUME NEW t \in Servers
      PROVE  /\ caller' = caller
             /\ updateQueue'[t] = IF t = s THEN Append(updateQueue[s], updateWorker[s].key) ELSE updateQueue[t]
             /\ updateWorker'[t] = IF t = s THEN Idle ELSE updateWorker[t]
  BY DEF UpdatePutBack, TypeOK
<1>2. ASSUME NEW t \in Servers, NEW i \in Keys, Waiting(t, i) \/ Updating(t, i)
      PROVE  Waiting(t, i)' \/ Updating(t, i)'
  <2>1. In(i, Append(updateQueue[s], updateWorker[s].key)) <=> In(i, updateQueue[s]) \/ i = updateWorker[s].key
    BY <1>0, InAppend
  <2>2. CASE t = s
    <3>1. Updating(t, i) => i = updateWorker[s].key
      BY <1>0, <2>2 DEF Updating
    <3>. QED BY <1>1, <1>2, <2>1, <2>2, <3>1 DEF Waiting
  <2>3. CASE t # s
    BY <1>1, <1>2, <2>3 DEF Waiting, Updating
  <2>. QED BY <2>2, <2>3
<1>3. Moves
  <2>1. UNCHANGED <<backend, lastCall, caller, removeQueue, removeWorker>>
    BY DEF UpdatePutBack
  <2>2. \A t \in Servers : updateWorker'[t].pc = "write" /\ updateWorker'[t] = updateWorker[t] =>
            updateQueue'[t] = updateQueue[t]
    BY <1>1 DEF Idle
  <2>. QED BY <1>2, <2>1, <2>2, UpdaterMoves
<1>4. NoNewWrite(j)
  BY <1>1, <1>3, MovesKeep DEF NoNewWrite, Idle
<1>. QED BY <1>3, <1>4, MovesKeepKey DEF UpdatePutBack

-----------------------------------------------------------------------------
(* An answered write overtakes the other writes of its key                 *)

LEMMA LateFacts ==
    ASSUME NEW k, NEW p, p \in CallerStates \cup RemoverStates \cup UpdaterStates
    PROVE  /\ Late(p, k).pc = p.pc /\ (HasOp(Late(p, k)) <=> HasOp(p))
           /\ HasOp(p) => p.op \in Ops /\ Late(p, k).op = LateOp(p.op, k)
           /\ ~HasOp(p) => Late(p, k) = p
           /\ HasOp(p) /\ p.op.key # k => Late(p, k) = p
<1>1. HasOp(p) => p.op \in Ops /\ p = [pc |-> p.pc, op |-> p.op]
  BY DEF CallerStates, RemoverStates, UpdaterStates, Deletes, Idle, HasOp
<1>2. CASE HasOp(p) /\ p.op.key = k
  <2>1. Late(p, k) = [pc |-> p.pc, op |-> LateOp(p.op, k)]
    BY <1>1, <1>2 DEF Late, LateOp, HasOp, Ops
  <2>. QED BY <1>1, <1>2, <2>1 DEF HasOp
<1>3. CASE ~(HasOp(p) /\ p.op.key = k)
  BY <1>1, <1>3 DEF Late, LateOp
<1>. QED BY <1>2, <1>3

\* What the answer does to a thread: its write becomes late, or it was the one
\* answered.
Overtakes(p, q, k) == q = Late(p, k) \/ (q = Idle /\ HasOp(p) /\ p.op.key = k)

Answered(k) ==
    /\ Overtake(k)
    /\ UNCHANGED <<backend, lastCall, updateQueue>>
    /\ \A t \in Servers : /\ Overtakes(caller[t], caller'[t], k)
                          /\ Overtakes(removeWorker[t], removeWorker'[t], k)
                          /\ Overtakes(updateWorker[t], updateWorker'[t], k)

LEMMA OvertakesFacts ==
    ASSUME NEW k, NEW p, NEW q, p \in CallerStates \cup RemoverStates \cup UpdaterStates,
           Overtakes(p, q, k)
    PROVE  /\ HasOp(q) => HasOp(p) /\ p.op \in Ops /\ q.pc = p.pc /\ q.op = LateOp(p.op, k)
           /\ ~HasOp(p) => q = p
           /\ HasOp(p) /\ p.op.key # k => q = p
<1>1. ~HasOp(Idle)
  BY DEF HasOp, Idle
<1>. QED BY <1>1, LateFacts DEF Overtakes

\* The threads that hold an operation.
LEMMA OpOf ==
    ASSUME NEW p
    PROVE  /\ p \in CallerStates => (HasOp(p) <=> p.pc \in {"delete", "requeue", "add"})
           /\ p \in UpdaterStates => (HasOp(p) <=> p.pc = "write")
<1>1. ASSUME p \in CallerStates PROVE HasOp(p) <=> p.pc \in {"delete", "requeue", "add"}
  BY <1>1 DEF CallerStates, HasOp, Idle
<1>2. ASSUME p \in UpdaterStates PROVE HasOp(p) <=> p.pc = "write"
  BY <1>2 DEF UpdaterStates, HasOp, Idle
<1>. QED BY <1>1, <1>2

LEMMA OpPC ==
    ASSUME TypeOK, NEW t \in Servers
    PROVE  /\ HasOp(caller[t]) <=> caller[t].pc \in {"delete", "requeue", "add"}
           /\ HasOp(removeWorker[t]) <=> removeWorker[t].pc \in {"delete", "put"}
           /\ HasOp(updateWorker[t]) <=> updateWorker[t].pc = "write"
           /\ caller[t] \in CallerStates /\ removeWorker[t] \in RemoverStates
           /\ updateWorker[t] \in UpdaterStates
<1>1. /\ caller[t] \in CallerStates /\ removeWorker[t] \in RemoverStates
      /\ updateWorker[t] \in UpdaterStates
  BY DEF TypeOK
<1>2. HasOp(caller[t]) <=> caller[t].pc \in {"delete", "requeue", "add"}
  BY <1>1, OpOf
<1>. QED BY <1>1, <1>2, ThreadFacts

LEMMA InLate ==
    ASSUME NEW q \in Seq(Deletes), NEW k, NEW r, r = [i \in DOMAIN q |-> LateOp(q[i], k)]
    PROVE  \A o \in Deletes : In(o, q) => In(LateOp(o, k), r)
BY DEF In

\* The deletes after the answer are those before it, late if they are of k.
LEMMA AnsweredDeletes ==
    ASSUME TypeOK, TypeOK', NEW k \in Keys, Answered(k), NEW t \in Servers, NEW o, Deleting(t, o)'
    PROVE  \E x \in Deletes : Deleting(t, x) /\ o = LateOp(x, k)
<1>1. CASE caller'[t].pc \in {"delete", "requeue"} /\ caller'[t].op = o
  <2>0. caller[t] \in CallerStates /\ caller'[t] \in CallerStates
    BY DEF TypeOK
  <2>1. HasOp(caller'[t])
    BY <1>1, <2>0, OpOf
  <2>2. HasOp(caller[t]) /\ caller'[t].pc = caller[t].pc /\ caller'[t].op = LateOp(caller[t].op, k)
    BY <2>0, <2>1, OvertakesFacts DEF Answered
  <2>3. caller[t].op \in Deletes
    BY <1>1, <2>2, BusyType
  <2>. QED BY <1>1, <2>2, <2>3 DEF Deleting
<1>2. CASE In(o, removeQueue'[t])
  <2>1. removeQueue[t] \in Seq(Deletes)
    BY DEF TypeOK
  <2>2. removeQueue'[t] = [i \in DOMAIN removeQueue[t] |-> LateOp(removeQueue[t][i], k)]
    BY DEF Answered, Overtake
  <2>3. \E x \in Deletes : In(x, removeQueue[t]) /\ o = LateOp(x, k)
    BY <1>2, <2>1, <2>2 DEF In
  <2>. QED BY <2>3 DEF Deleting
<1>3. CASE HasOp(removeWorker'[t]) /\ removeWorker'[t].op = o
  <2>0. removeWorker[t] \in RemoverStates
    BY OpPC
  <2>1. HasOp(removeWorker[t]) /\ removeWorker'[t].op = LateOp(removeWorker[t].op, k)
    BY <1>3, <2>0, OvertakesFacts DEF Answered
  <2>2. removeWorker[t].op \in Deletes
    BY <2>1, BusyType, OpPC
  <2>. QED BY <1>3, <2>1, <2>2 DEF Deleting
<1>. QED BY <1>1, <1>2, <1>3 DEF Deleting

\* Deletes of another key are untouched.
LEMMA AnsweredOthers ==
    ASSUME TypeOK, TypeOK', NEW k \in Keys, Answered(k), NEW j \in Keys \ {k}, KeyInv(j)
    PROVE  /\ Kept(j) /\ NoNewDelete(j) /\ NoNewWrite(j) /\ NoNewAdd(j) /\ NoNewOrphan(j)
<1>1. ASSUME NEW t \in Servers, NEW o \in Deletes, o.key = j, Deleting(t, o) PROVE Deleting(t, o)'
  <2>0. LateOp(o, k) = o
    BY <1>1, LateOpType DEF Deletes
  <2>1. CASE caller[t].pc \in {"delete", "requeue"} /\ caller[t].op = o
    <3>1. HasOp(caller[t]) /\ caller[t].op.key # k
      BY <1>1, <2>1, OpPC
    <3>2. caller'[t] = caller[t]
      BY <3>1, OpPC, OvertakesFacts DEF Answered
    <3>. QED BY <2>1, <3>2 DEF Deleting
  <2>2. CASE In(o, removeQueue[t])
    <3>1. removeQueue[t] \in Seq(Deletes)
      BY DEF TypeOK
    <3>2. removeQueue'[t] = [i \in DOMAIN removeQueue[t] |-> LateOp(removeQueue[t][i], k)]
      BY DEF Answered, Overtake
    <3>. QED BY <2>0, <2>2, <3>1, <3>2, InLate DEF Deleting
  <2>3. CASE HasOp(removeWorker[t]) /\ removeWorker[t].op = o
    <3>1. removeWorker'[t] = removeWorker[t]
      BY <1>1, <2>3, OpPC, OvertakesFacts DEF Answered
    <3>. QED BY <2>3, <3>1 DEF Deleting
  <2>. QED BY <1>1, <2>1, <2>2, <2>3 DEF Deleting
<1>2. ASSUME NEW t \in Servers
      PROVE  (Waiting(t, j) => Waiting(t, j)') /\ (Updating(t, j) => Updating(t, j)')
  <2>1. Waiting(t, j) => Waiting(t, j)'
    <3>1. caller[t].pc = "update" => caller'[t] = caller[t]
      BY OpPC, OvertakesFacts DEF Answered
    <3>. QED BY <3>1 DEF Waiting, Answered
  <2>2. Updating(t, j) => Updating(t, j)'
    <3>1. Updating(t, j) => updateWorker'[t] = updateWorker[t]
      BY OpPC, OvertakesFacts DEF Answered, Updating
    <3>. QED BY <3>1 DEF Updating
  <2>. QED BY <2>1, <2>2
<1>3. Kept(j)
  <2>1. WillDelete(j) => WillDelete(j)'
    BY <1>1 DEF WillDelete
  <2>2. WillUpdate(j) => WillUpdate(j)'
    BY <1>2 DEF WillUpdate
  <2>. QED BY <2>1, <2>2 DEF Kept, Answered
<1>4. NoNewDelete(j)
  <2>. SUFFICES ASSUME NEW t \in Servers, Deleting(t, FreshDelete(j))'
                PROVE  Deleting(t, FreshDelete(j))
    BY DEF NoNewDelete
  <2>1. PICK x \in Deletes : Deleting(t, x) /\ FreshDelete(j) = LateOp(x, k)
    BY AnsweredDeletes DEF FreshDelete
  <2>2. x.key = j
    BY <2>1, LateOpType DEF FreshDelete, Deletes
  <2>3. LateOp(x, k) = x
    BY <2>2, LateOpType DEF Deletes
  <2>. QED BY <2>1, <2>3
<1>5. NoNewWrite(j)
  <2>. SUFFICES ASSUME NEW t \in Servers, updateWorker'[t].pc = "write", updateWorker'[t].op.key = j
                PROVE  updateWorker[t] = updateWorker'[t] /\ (OtherUpdates(j, t) => OtherUpdates(j, t)')
    BY DEF NoNewWrite
  <2>0. updateWorker'[t] \in UpdaterStates
    BY DEF TypeOK
  <2>1. HasOp(updateWorker'[t])
    BY <2>0, OpOf
  <2>2. HasOp(updateWorker[t]) /\ updateWorker[t].op \in Ops /\ updateWorker'[t].op = LateOp(updateWorker[t].op, k)
    BY <2>1, OpPC, OvertakesFacts DEF Answered
  <2>3. updateWorker[t].op.key = j
    BY <2>2, LateOpType
  <2>4. updateWorker[t] = updateWorker'[t]
    BY <2>2, <2>3, OpPC, OvertakesFacts DEF Answered
  <2>5. OtherUpdates(j, t) => OtherUpdates(j, t)'
    BY <1>2 DEF OtherUpdates
  <2>. QED BY <2>4, <2>5
<1>6. NoNewAdd(j)
  <2>. SUFFICES ASSUME NEW t \in Servers, caller'[t].pc = "add", caller'[t].op.key = j
                PROVE  caller[t] = caller'[t]
    BY DEF NoNewAdd
  <2>0. caller'[t] \in CallerStates
    BY DEF TypeOK
  <2>1. HasOp(caller'[t])
    BY <2>0, OpOf
  <2>2. HasOp(caller[t]) /\ caller[t].op \in Ops /\ caller'[t].op = LateOp(caller[t].op, k)
    BY <2>1, OpPC, OvertakesFacts DEF Answered
  <2>3. caller[t].op.key = j
    BY <2>2, LateOpType
  <2>. QED BY <2>2, <2>3, OpPC, OvertakesFacts DEF Answered
<1>7. NoNewOrphan(j)
  <2>. SUFFICES ASSUME NEW o \in orphans', o.key = j PROVE o \in orphans
    BY DEF NoNewOrphan
  <2>1. PICK x \in orphans : o = LateOp(x, k)
    BY DEF Answered, Overtake
  <2>2. x \in Ops
    BY DEF TypeOK
  <2>. QED BY <2>1, <2>2, LateOpType
<1>. QED BY <1>3, <1>4, <1>5, <1>6, <1>7

\* Whatever is under way for k after the answer is late.
LEMMA AnsweredKey ==
    ASSUME TypeOK, TypeOK', NEW k \in Keys, Answered(k), RedisOK(k)'
    PROVE  KeyInv(k)'
<1>1. DeletesOK(k)'
  <2>1. ASSUME NEW t \in Servers, Deleting(t, FreshDelete(k))' PROVE FALSE
    <3>1. PICK x \in Deletes : FreshDelete(k) = LateOp(x, k)
      BY <2>1, AnsweredDeletes DEF FreshDelete
    <3>2. x \in Ops
      BY DEF Deletes
    <3>. QED BY <3>1, <3>2, LateOpType DEF FreshDelete
  <2>. QED BY <2>1 DEF DeletesOK, FreshDelete
<1>2. WritesOK(k)'
  <2>1. ASSUME NEW t \in Servers, updateWorker'[t].pc = "write", updateWorker'[t].op.key = k
        PROVE  updateWorker'[t].op.late
    <3>0. updateWorker'[t] \in UpdaterStates
      BY DEF TypeOK
    <3>1. HasOp(updateWorker'[t])
      BY <2>1, <3>0, OpOf
    <3>2. updateWorker[t].op \in Ops /\ updateWorker'[t].op = LateOp(updateWorker[t].op, k)
      BY <3>1, OpPC, OvertakesFacts DEF Answered
    <3>. QED BY <2>1, <3>2, LateOpType
  <2>. QED BY <2>1 DEF WritesOK
<1>3. AddsOK(k)'
  <2>1. ASSUME NEW t \in Servers, caller'[t].pc = "add", caller'[t].op.key = k
        PROVE  caller'[t].op.late
    <3>0. caller'[t] \in CallerStates
      BY DEF TypeOK
    <3>1. HasOp(caller'[t])
      BY <2>1, <3>0, OpOf
    <3>2. caller[t].op \in Ops /\ caller'[t].op = LateOp(caller[t].op, k)
      BY <3>1, OpPC, OvertakesFacts DEF Answered
    <3>. QED BY <2>1, <3>2, LateOpType
  <2>. QED BY <2>1 DEF AddsOK
<1>4. OrphansOK(k)'
  <2>1. ASSUME NEW o \in orphans', o.key = k PROVE o.late
    <3>1. PICK x \in orphans : o = LateOp(x, k)
      BY DEF Answered, Overtake
    <3>2. x \in Ops
      BY DEF TypeOK
    <3>. QED BY <2>1, <3>1, <3>2, LateOpType
  <2>. QED BY <2>1 DEF OrphansOK
<1>. QED BY <1>1, <1>2, <1>3, <1>4 DEF KeyInv

LEMMA AnsweredKeeps ==
    ASSUME TypeOK, TypeOK', NEW k \in Keys, Answered(k), RedisOK(k)',
           \A i \in Keys \ {k} : redis'[i] = redis[i] /\ overtaken'[i] = overtaken[i],
           NEW j \in Keys, KeyInv(j)
    PROVE  KeyInv(j)'
<1>1. CASE j = k
  BY <1>1, AnsweredKey
<1>2. CASE j # k
  <2>1. NoNewValue(j)
    BY <1>2 DEF NoNewValue
  <2>. QED BY <1>2, <2>1, AnsweredOthers, KeyStays
<1>. QED BY <1>1, <1>2

\* The answer of a delete leaves the updates of its key where they are.
LEMMA DeleteAnswered ==
    ASSUME TypeOK, TypeOK', NEW o \in Deletes, Answered(o.key), Apply(o),
           NEW s \in Servers, Deleting(s, o), KeyInv(o.key),
           \A t \in Servers : updateWorker'[t] = Late(updateWorker[t], o.key)
    PROVE  RedisOK(o.key)'
<1>. DEFINE k == o.key
<1>0. k \in Keys /\ o.val = NoValue /\ o \in Ops
  BY DEF Deletes, Ops
<1>1. redis'[k] = NoValue /\ overtaken'[k] = o.late
  BY <1>0 DEF Apply, TypeOK
<1>2. ASSUME ~o.late PROVE Good(k, NoValue) \/ WillUpdate(k)
  <2>1. o = FreshDelete(k)
    BY <1>0, <1>2 DEF FreshDelete, Ops
  <2>. QED BY <2>1 DEF KeyInv, DeletesOK
<1>3. WillUpdate(k) => WillUpdate(k)'
  <2>1. ASSUME NEW t \in Servers PROVE (Waiting(t, k) => Waiting(t, k)') /\ (Updating(t, k) => Updating(t, k)')
    <3>1. caller[t].pc = "update" => caller'[t] = caller[t]
      BY OpPC, OvertakesFacts DEF Answered
    <3>2. Waiting(t, k) => Waiting(t, k)'
      BY <3>1 DEF Waiting, Answered
    <3>3. /\ HasOp(updateWorker'[t]) <=> HasOp(updateWorker[t])
          /\ HasOp(updateWorker[t]) => updateWorker[t].op \in Ops /\ updateWorker'[t].op = LateOp(updateWorker[t].op, k)
          /\ ~HasOp(updateWorker[t]) => updateWorker'[t] = updateWorker[t]
      BY OpPC, LateFacts
    <3>4. HasOp(updateWorker[t]) => updateWorker'[t].op.key = updateWorker[t].op.key
      BY <3>3, LateOpType
    <3>5. Updating(t, k) => Updating(t, k)'
      BY <3>3, <3>4 DEF Updating
    <3>. QED BY <3>2, <3>5
  <2>. QED BY <2>1 DEF WillUpdate
<1>4. Good(k, NoValue) => Good(k, NoValue)'
  BY DEF Good, Answered
<1>5. ASSUME ~overtaken'[k] PROVE Repaired(k, NoValue)'
  BY <1>1, <1>2, <1>3, <1>4, <1>5 DEF Repaired
<1>. QED BY <1>1, <1>5 DEF RedisOK, Repaired, Good

LEMMA ApplyOthers ==
    ASSUME TypeOK, NEW o \in Ops, Apply(o)
    PROVE  \A i \in Keys \ {o.key} : redis'[i] = redis[i] /\ overtaken'[i] = overtaken[i]
BY DEF Apply, TypeOK

LEMMA DeleteKeeps ==
    ASSUME TypeOK, TypeOK', NEW s \in Servers, Delete(s), \A i \in Keys : KeyInv(i), NEW j \in Keys
    PROVE  KeyInv(j)'
<1>0. PICK o : o = caller[s].op
  OBVIOUS
<1>1. o \in Deletes /\ o \in Ops /\ o.key \in Keys
  BY <1>0, BusyType DEF Delete, Deletes, Ops
<1>2. Answered(o.key)
  <2>1. HasOp(caller[s])
    BY <1>0, OpPC DEF Delete
  <2>2. ASSUME NEW t \in Servers PROVE Overtakes(caller[t], caller'[t], o.key)
    <3>1. caller'[t] = IF t = s THEN Idle ELSE Late(caller[t], o.key)
      BY <1>0 DEF Delete, AllLate
    <3>. QED BY <1>0, <2>1, <3>1 DEF Overtakes
  <2>3. ASSUME NEW t \in Servers
        PROVE  Overtakes(removeWorker[t], removeWorker'[t], o.key) /\ Overtakes(updateWorker[t], updateWorker'[t], o.key)
    BY <1>0 DEF Delete, AllLate, Overtakes
  <2>. QED BY <1>0, <2>2, <2>3 DEF Answered, Delete
<1>3. RedisOK(o.key)'
  <2>1. Deleting(s, o)
    BY <1>0 DEF Deleting, Delete
  <2>2. \A t \in Servers : updateWorker'[t] = Late(updateWorker[t], o.key)
    BY <1>0 DEF Delete, AllLate
  <2>3. Apply(o)
    BY <1>0 DEF Delete
  <2>. QED BY <1>1, <1>2, <2>1, <2>2, <2>3, DeleteAnswered
<1>4. \A i \in Keys \ {o.key} : redis'[i] = redis[i] /\ overtaken'[i] = overtaken[i]
  BY <1>0, <1>1, ApplyOthers DEF Delete
<1>. QED BY <1>1, <1>2, <1>3, <1>4, AnsweredKeeps

LEMMA RemoveDeleteKeeps ==
    ASSUME TypeOK, TypeOK', NEW s \in Servers, RemoveDelete(s), \A i \in Keys : KeyInv(i), NEW j \in Keys
    PROVE  KeyInv(j)'
<1>0. PICK o : o = removeWorker[s].op
  OBVIOUS
<1>1. o \in Deletes /\ o \in Ops /\ o.key \in Keys /\ HasOp(removeWorker[s])
  BY <1>0, BusyType, OpPC DEF RemoveDelete, Deletes, Ops
<1>2. Answered(o.key)
  <2>1. ASSUME NEW t \in Servers PROVE Overtakes(removeWorker[t], removeWorker'[t], o.key)
    <3>1. removeWorker'[t] = IF t = s THEN Idle ELSE Late(removeWorker[t], o.key)
      BY <1>0 DEF RemoveDelete, AllLate
    <3>. QED BY <1>0, <1>1, <3>1 DEF Overtakes
  <2>2. ASSUME NEW t \in Servers
        PROVE  Overtakes(caller[t], caller'[t], o.key) /\ Overtakes(updateWorker[t], updateWorker'[t], o.key)
    BY <1>0 DEF RemoveDelete, AllLate, Overtakes
  <2>. QED BY <1>0, <2>1, <2>2 DEF Answered, RemoveDelete
<1>3. RedisOK(o.key)'
  <2>1. Deleting(s, o)
    BY <1>0, <1>1 DEF Deleting
  <2>2. \A t \in Servers : updateWorker'[t] = Late(updateWorker[t], o.key)
    BY <1>0 DEF RemoveDelete, AllLate
  <2>3. Apply(o)
    BY <1>0 DEF RemoveDelete
  <2>. QED BY <1>1, <1>2, <2>1, <2>2, <2>3, DeleteAnswered
<1>4. \A i \in Keys \ {o.key} : redis'[i] = redis[i] /\ overtaken'[i] = overtaken[i]
  BY <1>0, <1>1, ApplyOthers DEF RemoveDelete
<1>. QED BY <1>1, <1>2, <1>3, <1>4, AnsweredKeeps

\* The answer of an update leaves the other calls for its key where they are.
LEMMA WriteKeeps ==
    ASSUME TypeOK, TypeOK', NEW s \in Servers, Write(s), \A i \in Keys : KeyInv(i), NEW j \in Keys
    PROVE  KeyInv(j)'
<1>0. PICK o, k : o = updateWorker[s].op /\ k = o.key
  OBVIOUS
<1>1. o \in Ops /\ k \in Keys /\ HasOp(updateWorker[s]) /\ updateWorker[s].pc = "write"
  BY <1>0, BusyType, OpPC DEF Write, Ops
<1>2. ASSUME NEW t \in Servers
      PROVE  /\ updateWorker'[t] = IF t = s THEN Idle ELSE Late(updateWorker[t], k)
             /\ caller'[t] = Late(caller[t], k) /\ removeWorker'[t] = Late(removeWorker[t], k)
  BY <1>0 DEF Write, AllLate
<1>3. Answered(k)
  <2>1. ASSUME NEW t \in Servers
        PROVE  /\ Overtakes(caller[t], caller'[t], k) /\ Overtakes(removeWorker[t], removeWorker'[t], k)
               /\ Overtakes(updateWorker[t], updateWorker'[t], k)
    BY <1>0, <1>1, <1>2 DEF Overtakes
  <2>. QED BY <1>0, <2>1 DEF Answered, Write
<1>4. Good(k, o.val) \/ WillDelete(k) \/ OtherUpdates(k, s) \/ o.late
  BY <1>0, <1>1 DEF KeyInv, WritesOK
<1>5. WillDelete(k) => WillDelete(k)'
  <2>. SUFFICES ASSUME NEW t \in Servers, NEW x \in Deletes, x.key = k, Deleting(t, x)
                PROVE  WillDelete(k)'
    BY DEF WillDelete
  <2>1. LateOp(x, k) \in Deletes /\ LateOp(x, k).key = k
    BY LateOpType DEF Deletes
  <2>2. PICK y : y = LateOp(x, k)
    OBVIOUS
  <2>3. Deleting(t, y)'
    <3>1. CASE caller[t].pc \in {"delete", "requeue"} /\ caller[t].op = x
      <4>1. caller'[t].pc = caller[t].pc /\ caller'[t].op = y
        BY <1>2, <2>2, <3>1, OpPC, LateFacts
      <4>. QED BY <3>1, <4>1 DEF Deleting
    <3>2. CASE In(x, removeQueue[t])
      <4>1. removeQueue[t] \in Seq(Deletes)
        BY DEF TypeOK
      <4>2. removeQueue'[t] = [i \in DOMAIN removeQueue[t] |-> LateOp(removeQueue[t][i], k)]
        BY <1>3 DEF Answered, Overtake
      <4>. QED BY <2>2, <3>2, <4>1, <4>2, InLate DEF Deleting
    <3>3. CASE HasOp(removeWorker[t]) /\ removeWorker[t].op = x
      <4>1. HasOp(removeWorker'[t]) /\ removeWorker'[t].op = y
        BY <1>2, <2>2, <3>3, OpPC, LateFacts
      <4>. QED BY <4>1 DEF Deleting
    <3>. QED BY <3>1, <3>2, <3>3 DEF Deleting
  <2>. QED BY <2>1, <2>2, <2>3 DEF WillDelete
<1>6. OtherUpdates(k, s) => WillUpdate(k)'
  <2>. SUFFICES ASSUME NEW t \in Servers, Waiting(t, k) \/ (t # s /\ Updating(t, k))
                PROVE  Waiting(t, k)' \/ Updating(t, k)'
    BY DEF OtherUpdates, WillUpdate
  <2>1. caller[t].pc = "update" => caller'[t] = caller[t]
    BY <1>2, OpPC, LateFacts
  <2>2. Waiting(t, k) => Waiting(t, k)'
    BY <1>3, <2>1 DEF Waiting, Answered
  <2>3. ASSUME t # s, Updating(t, k) PROVE Updating(t, k)'
    <3>1. /\ HasOp(updateWorker'[t]) <=> HasOp(updateWorker[t])
          /\ HasOp(updateWorker[t]) => updateWorker[t].op \in Ops /\ updateWorker'[t].op = LateOp(updateWorker[t].op, k)
          /\ ~HasOp(updateWorker[t]) => updateWorker'[t] = updateWorker[t]
      BY <1>2, <2>3, OpPC, LateFacts
    <3>2. HasOp(updateWorker[t]) => updateWorker'[t].op.key = updateWorker[t].op.key
      BY <3>1, LateOpType
    <3>. QED BY <2>3, <3>1, <3>2 DEF Updating
  <2>. QED BY <2>2, <2>3
<1>7. RedisOK(k)'
  <2>1. redis'[k] = o.val /\ overtaken'[k] = o.late
    BY <1>0, <1>1 DEF Write, Apply, TypeOK
  <2>2. ASSUME NEW v, v = o.val, ~o.late PROVE Repaired(k, v)'
    <3>1. Good(k, v) => Good(k, v)'
      BY <1>3 DEF Good, Answered
    <3>. QED BY <1>4, <1>5, <1>6, <2>2, <3>1 DEF Repaired
  <2>. QED BY <2>1, <2>2 DEF RedisOK, Repaired, Good
<1>8. \A i \in Keys \ {k} : redis'[i] = redis[i] /\ overtaken'[i] = overtaken[i]
  BY <1>0, <1>1, ApplyOthers DEF Write
<1>. QED BY <1>1, <1>3, <1>7, <1>8, AnsweredKeeps

-----------------------------------------------------------------------------
(* A change of the backend is told at once                                 *)

LEMMA ChangeKeeps ==
    ASSUME TypeOK, NEW s \in Servers, NEW k \in Keys, NEW m \in {"update", "delete"},
           Change(s, k, m), NEW j \in Keys, KeyInv(j)
    PROVE  KeyInv(j)'
<1>0. PICK p : /\ p = IF m = "update" THEN [pc |-> "update", key |-> k]
                      ELSE [pc |-> "delete", op |-> FreshDelete(k)]
               /\ caller' = [caller EXCEPT ![s] = p]
  BY DEF Change, FreshDelete
<1>1. /\ caller[s] = Idle
      /\ UNCHANGED <<orphans, redis, overtaken, removeQueue, updateQueue, removeWorker, updateWorker>>
  BY DEF Change, queues, workers
<1>2. ASSUME NEW t \in Servers PROVE caller'[t] = IF t = s THEN p ELSE caller[t]
  BY <1>0 DEF TypeOK
<1>3. FreshDelete(k) \in Deletes /\ FreshDelete(j) \in Deletes
  BY ValuesType DEF FreshDelete, Deletes, Ops
<1>4. ASSUME NEW t \in Servers, NEW o \in Deletes, Deleting(t, o) PROVE Deleting(t, o)'
  <2>1. CASE t = s
    BY <1>1, <1>4, <2>1 DEF Deleting, Idle
  <2>2. CASE t # s
    BY <1>1, <1>2, <1>4, <2>2 DEF Deleting
  <2>. QED BY <2>1, <2>2
<1>5. ASSUME NEW t \in Servers, NEW i \in Keys
      PROVE  (Waiting(t, i) => Waiting(t, i)') /\ (Updating(t, i) => Updating(t, i)')
  <2>1. Waiting(t, i) => Waiting(t, i)'
    BY <1>1, <1>2 DEF Waiting, Idle
  <2>. QED BY <1>1, <2>1 DEF Updating
<1>6. CASE j # k
  <2>1. Kept(j)
    <3>1. WillDelete(j) => WillDelete(j)'
      BY <1>4 DEF WillDelete
    <3>2. WillUpdate(j) => WillUpdate(j)'
      BY <1>5 DEF WillUpdate
    <3>. QED BY <1>6, <3>1, <3>2 DEF Kept, Change, TypeOK
  <2>2. NoNewDelete(j)
    <3>. SUFFICES ASSUME NEW t \in Servers, Deleting(t, FreshDelete(j))'
                  PROVE  Deleting(t, FreshDelete(j))
      BY DEF NoNewDelete
    <3>1. FreshDelete(j)' = FreshDelete(j) /\ FreshDelete(j) # FreshDelete(k)
      BY <1>6 DEF FreshDelete
    <3>2. PICK d : d = FreshDelete(j)
      OBVIOUS
    <3>3. Deleting(t, d)'
      BY <3>1, <3>2
    <3>4. Deleting(t, d)
      <4>1. CASE t = s
        BY <1>0, <1>1, <1>2, <3>1, <3>2, <3>3, <4>1 DEF Deleting
      <4>2. CASE t # s
        BY <1>1, <1>2, <3>3, <4>2 DEF Deleting
      <4>. QED BY <4>1, <4>2
    <3>. QED BY <3>2, <3>4
  <2>3. NoNewWrite(j)
    BY <1>1, <1>5 DEF NoNewWrite, OtherUpdates
  <2>4. NoNewAdd(j)
    BY <1>0, <1>2 DEF NoNewAdd
  <2>5. NoNewOrphan(j) /\ NoNewValue(j)
    BY <1>1 DEF NoNewOrphan, NoNewValue
  <2>. QED BY <2>1, <2>2, <2>3, <2>4, <2>5, KeyStays
<1>7. CASE j = k /\ m = "update"
  <2>1. Waiting(s, k)'
    BY <1>0, <1>2, <1>7 DEF Waiting
  <2>2. WillUpdate(j)' /\ \A t \in Servers : OtherUpdates(j, t)'
    BY <1>7, <2>1 DEF WillUpdate, OtherUpdates
  <2>. QED BY <2>2 DEF KeyInv, DeletesOK, WritesOK, AddsOK, OrphansOK, RedisOK, Repaired
<1>8. CASE j = k /\ m = "delete"
  <2>1. PICK d \in Deletes : d = FreshDelete(k)
    BY <1>3
  <2>2. Deleting(s, d)' /\ d.key = k
    <3>1. caller'[s] = [pc |-> "delete", op |-> d]
      BY <1>0, <1>2, <1>8, <2>1
    <3>2. d.key = k
      BY <2>1 DEF FreshDelete
    <3>. QED BY <3>1, <3>2 DEF Deleting
  <2>3. WillDelete(j)'
    BY <1>8, <2>2 DEF WillDelete
  <2>4. Good(j, NoValue)'
    BY <1>8 DEF Good, NoValue, Change, TypeOK
  <2>. QED BY <2>3, <2>4 DEF KeyInv, DeletesOK, WritesOK, AddsOK, OrphansOK, RedisOK, Repaired
<1>. QED BY <1>6, <1>7, <1>8

-----------------------------------------------------------------------------
(* The cache settles                                                       *)

LEMMA InitKeys == Init => \A k \in Keys : KeyInv(k)
<1>. SUFFICES ASSUME Init, NEW k \in Keys PROVE KeyInv(k)
  OBVIOUS
<1>1. ASSUME NEW s \in Servers PROVE /\ caller[s].pc = "idle" /\ updateWorker[s].pc = "idle"
                                     /\ ~HasOp(removeWorker[s]) /\ removeQueue[s] = <<>>
  BY DEF Init, Idle, HasOp
<1>2. DeletesOK(k)
  <2>1. ASSUME NEW s \in Servers, NEW o PROVE ~Deleting(s, o)
    BY <1>1 DEF Deleting, In
  <2>. QED BY <2>1 DEF DeletesOK
<1>3. WritesOK(k)
  BY <1>1 DEF WritesOK
<1>4. AddsOK(k)
  BY <1>1 DEF AddsOK
<1>5. OrphansOK(k) /\ RedisOK(k)
  BY DEF Init, OrphansOK, RedisOK, Repaired, Good
<1>. QED BY <1>2, <1>3, <1>4, <1>5 DEF KeyInv

LEMMA KeyStep ==
    ASSUME TypeOK, \A k \in Keys : KeyInv(k), [Next]_vars, NEW j \in Keys
    PROVE  KeyInv(j)'
<1>0. TypeOK'
  BY TypeStep
<1>1. ASSUME NEW s \in Servers, CallStep(s) PROVE KeyInv(j)'
  BY <1>0, <1>1, UpdateKeeps, DeleteKeeps, DeleteFailsKeeps, PutRemoveQueueKeeps, AddKeeps DEF CallStep
<1>2. ASSUME NEW s \in Servers, RemoveStep(s) PROVE KeyInv(j)'
  BY <1>0, <1>2, RemoveTakeKeeps, RemoveDeleteKeeps, RemoveFailsKeeps, RemovePutBackKeeps DEF RemoveStep
<1>3. ASSUME NEW s \in Servers, UpdateStep(s) PROVE KeyInv(j)'
  BY <1>0, <1>3, UpdateTakeKeeps, FetchKeeps, UpdateThrowsKeeps, WriteKeeps, UpdatePutBackKeeps DEF UpdateStep
<1>4. ASSUME NEW s \in Servers, NEW k \in Keys, Read(s, k) PROVE KeyInv(j)'
  BY <1>4, ReadKeeps
<1>5. ASSUME NEW s \in Servers, NEW k \in Keys, NEW m \in {"update", "delete"}, Change(s, k, m)
      PROVE  KeyInv(j)'
  BY <1>5, ChangeKeeps
<1>6. ASSUME NEW o \in orphans, OrphanLands(o) PROVE KeyInv(j)'
  BY <1>6, OrphanKeeps
<1>7. CASE UNCHANGED vars
  <2>1. UNCHANGED <<backend, lastCall, caller, removeQueue, updateQueue, removeWorker, updateWorker,
                    orphans, redis, overtaken>>
    BY <1>7 DEF vars, queues, workers
  <2>2. Moves
    BY <2>1 DEF Moves, Deleting, Waiting, Updating
  <2>. QED BY <2>1, <2>2, MovesKeepKey
<1>. QED BY <1>1, <1>2, <1>3, <1>4, <1>5, <1>6, <1>7 DEF Next

\* Pending, the way the runs state it, covers every call that may repair k.
LEMMA InvSettled == IInv => Settled
<1>. SUFFICES ASSUME IInv, NEW k \in Keys, ~Pending(k), ~overtaken[k]
              PROVE  Good(k, redis[k])
  BY DEF Settled, Good
<1>1. ~WillDelete(k)
  BY DEF Pending, PendingDelete, WillDelete, Deleting, In
<1>2. ~WillUpdate(k)
  BY DEF Pending, PendingUpdate, WillUpdate, Waiting, Updating, In
<1>. QED BY <1>1, <1>2 DEF IInv, KeyInv, RedisOK, Repaired

\* Once every call for a key is through, Redis holds the value of the backend,
\* or none after a delete(), unless the last write had been overtaken: for any
\* number of servers, keys, changes and calls that throw or land late
\* (RedisCache.update, delete and add, and the two workers).
THEOREM CacheSettles == Spec => []Settled
<1>1. Init => IInv
  BY InitType, InitKeys DEF IInv
<1>2. IInv /\ [Next]_vars => IInv'
  BY TypeStep, KeyStep DEF IInv
<1>. QED BY <1>1, <1>2, InvSettled, PTL DEF Spec
=============================================================================
