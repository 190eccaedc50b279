----------------------------- MODULE RedisCache -----------------------------
(***************************************************************************)
(* RedisCache: values of a backend store kept in Redis by several servers. *)
(* A caller changes the backend and calls update(), which queues the key   *)
(* for a worker that reads the backend and writes Redis, or delete(),      *)
(* which deletes from Redis at once and queues the key for another worker  *)
(* when that throws; add(key, value) writes a value its caller has read.   *)
(* Both workers put a key that failed back into their queue.               *)
(*                                                                         *)
(* A call of Redis that throws may still be carried out, then or later     *)
(* (an orphan).  Nothing orders the calls of two threads or two servers.   *)
(***************************************************************************)
EXTENDS Integers, Sequences, FiniteSets

CONSTANTS Keys, Servers,
          Capacity,    \* of QUEUE_FOR_REMOVE and QUEUE_FOR_UPDATE
          MaxChanges,  \* bound on the changes of the backend
          MaxFills,    \* bound on the calls of add(key, value)
          MaxFailures  \* bound on the calls that throw

ASSUME RedisCacheAssumption ==
    Capacity \in Nat \ {0} /\ MaxChanges \in Nat /\ MaxFills \in Nat /\ MaxFailures \in Nat

NoValue == 0                        \* no value, null
Values == 0..MaxChanges
Ops == [key : Keys, val : Values, late : BOOLEAN]   \* a write of Redis under way
Deletes == {o \in Ops : o.val = NoValue}
Idle == [pc |-> "idle"]

VARIABLES backend,       \* the values of the store behind the cache
          redis,         \* the values in Redis
          orphans,       \* writes whose call threw and that Redis may still do
          caller,        \* the application thread of a server
          removeQueue,   \* QUEUE_FOR_REMOVE
          updateQueue,   \* QUEUE_FOR_UPDATE
          removeWorker, updateWorker,
          changes, fills, failures,  \* counters for the bounds
          lastCall,      \* history: the last change was told with this method
          overtaken      \* history: the last write of Redis had been overtaken

queues == <<removeQueue, updateQueue>>
workers == <<removeWorker, updateWorker>>
counters == <<changes, fills, failures>>
vars == <<backend, redis, orphans, caller, queues, workers, counters, lastCall, overtaken>>

HasOp(p) == "op" \in DOMAIN p

CallerStates == {Idle} \cup [pc : {"update"}, key : Keys]
                       \cup [pc : {"delete", "requeue"}, op : Deletes]
                       \cup [pc : {"add"}, op : Ops \ Deletes]
RemoverStates == {Idle} \cup [pc : {"delete", "put"}, op : Deletes]
UpdaterStates == {Idle} \cup [pc : {"fetch", "put"}, key : Keys]
                        \cup [pc : {"write"}, op : Ops]

TypeOK ==
    /\ backend \in [Keys -> Values] /\ redis \in [Keys -> Values]
    /\ orphans \subseteq Ops
    /\ caller \in [Servers -> CallerStates]
    /\ removeWorker \in [Servers -> RemoverStates]
    /\ updateWorker \in [Servers -> UpdaterStates]
    /\ removeQueue \in [Servers -> Seq(Deletes)]
    /\ updateQueue \in [Servers -> Seq(Keys)]
    /\ \A s \in Servers : Len(removeQueue[s]) <= Capacity /\ Len(updateQueue[s]) <= Capacity
    /\ changes \in 0..MaxChanges /\ fills \in 0..MaxFills /\ failures \in 0..MaxFailures
    /\ lastCall \in [Keys -> {"none", "update", "delete"}]
    /\ overtaken \in [Keys -> BOOLEAN]

Init ==
    /\ backend = [k \in Keys |-> NoValue] /\ redis = [k \in Keys |-> NoValue]
    /\ orphans = {}
    /\ caller = [s \in Servers |-> Idle]
    /\ removeQueue = [s \in Servers |-> <<>>] /\ updateQueue = [s \in Servers |-> <<>>]
    /\ removeWorker = [s \in Servers |-> Idle] /\ updateWorker = [s \in Servers |-> Idle]
    /\ changes = 0 /\ fills = 0 /\ failures = 0
    /\ lastCall = [k \in Keys |-> "none"]
    /\ overtaken = [k \in Keys |-> FALSE]

-----------------------------------------------------------------------------
(* Writes of Redis                                                         *)

\* A write for k was answered: those still under way for k come late.
Late(p, k) == IF HasOp(p) /\ p.op.key = k THEN [p EXCEPT !.op.late = TRUE] ELSE p
LateOp(o, k) == IF o.key = k THEN [o EXCEPT !.late = TRUE] ELSE o

\* Redis applies the write o: a set, or a delete when there is no value.
Apply(o) ==
    /\ redis' = [redis EXCEPT ![o.key] = o.val]
    /\ overtaken' = [overtaken EXCEPT ![o.key] = o.late]

Overtake(k) ==
    /\ orphans' = {LateOp(o, k) : o \in orphans}
    /\ removeQueue' = [s \in Servers |->
                         [i \in DOMAIN removeQueue[s] |-> LateOp(removeQueue[s][i], k)]]

AllLate(group, k) == [s \in Servers |-> Late(group[s], k)]

\* A call throws; its write o may be carried out later, or never.
Throws(o) ==
    /\ failures < MaxFailures
    /\ failures' = failures + 1
    /\ \/ orphans' = orphans \cup {o}
       \/ UNCHANGED orphans

OrphanLands(o) ==
    /\ o \in orphans
    /\ Apply(o)
    /\ orphans' = orphans \ {o}
    /\ UNCHANGED <<backend, caller, queues, workers, counters, lastCall>>

-----------------------------------------------------------------------------
(* The callers                                                             *)

\* The backend changes to a new value, or loses it, and the server tells the
\* cache by update(key) or delete(key).
Change(s, k, method) ==
    /\ caller[s] = Idle /\ changes < MaxChanges
    /\ changes' = changes + 1
    /\ \E v \in {changes + 1, NoValue} : backend' = [backend EXCEPT ![k] = v]
    /\ lastCall' = [lastCall EXCEPT ![k] = method]
    /\ caller' = [caller EXCEPT ![s] =
                    IF method = "update" THEN [pc |-> "update", key |-> k]
                    ELSE [pc |-> "delete", op |-> [key |-> k, val |-> NoValue, late |-> FALSE]]]
    /\ UNCHANGED <<redis, orphans, queues, workers, fills, failures, overtaken>>

\* update(key), add(key): QUEUE_FOR_UPDATE.put blocks while it is full.
Update(s) ==
    /\ caller[s].pc = "update" /\ Len(updateQueue[s]) < Capacity
    /\ updateQueue' = [updateQueue EXCEPT ![s] = Append(@, caller[s].key)]
    /\ caller' = [caller EXCEPT ![s] = Idle]
    /\ UNCHANGED <<backend, redis, orphans, removeQueue, workers, counters, lastCall, overtaken>>

\* delete(key): redisTemplate.delete
Delete(s) ==
    /\ caller[s].pc = "delete"
    /\ Apply(caller[s].op)
    /\ Overtake(caller[s].op.key)
    /\ caller' = [AllLate(caller, caller[s].op.key) EXCEPT ![s] = Idle]
    /\ removeWorker' = AllLate(removeWorker, caller[s].op.key)
    /\ updateWorker' = AllLate(updateWorker, caller[s].op.key)
    /\ UNCHANGED <<backend, updateQueue, counters, lastCall>>

DeleteFails(s) ==
    /\ caller[s].pc = "delete"
    /\ Throws(caller[s].op)
    /\ caller' = [caller EXCEPT ![s].pc = "requeue"]
    /\ UNCHANGED <<backend, redis, queues, workers, changes, fills, lastCall, overtaken>>

\* putRemoveQueue blocks while QUEUE_FOR_REMOVE is full.
PutRemoveQueue(s) ==
    /\ caller[s].pc = "requeue" /\ Len(removeQueue[s]) < Capacity
    /\ removeQueue' = [removeQueue EXCEPT ![s] = Append(@, caller[s].op)]
    /\ caller' = [caller EXCEPT ![s] = Idle]
    /\ UNCHANGED <<backend, redis, orphans, updateQueue, workers, counters, lastCall, overtaken>>

\* A caller has read a value from the backend and is going to add it.
Read(s, k) ==
    /\ caller[s] = Idle /\ backend[k] # NoValue /\ fills < MaxFills
    /\ fills' = fills + 1
    /\ caller' = [caller EXCEPT ![s] =
                    [pc |-> "add", op |-> [key |-> k, val |-> backend[k], late |-> FALSE]]]
    /\ UNCHANGED <<backend, redis, orphans, queues, workers, changes, failures, lastCall, overtaken>>

\* add(key, value): a call that throws does so to its caller.
Add(s) ==
    /\ caller[s].pc = "add"
    /\ Apply(caller[s].op)
    /\ caller' = [caller EXCEPT ![s] = Idle]
    /\ UNCHANGED <<backend, orphans, queues, workers, counters, lastCall>>

\* Mutant of AddFails: the key is queued like that of a delete.
MutQueuesAdd(s) ==
    /\ caller[s].pc = "add"
    /\ Throws(caller[s].op)
    /\ caller' = [caller EXCEPT ![s].pc = "requeue"]
    /\ UNCHANGED <<backend, redis, queues, workers, changes, fills, lastCall, overtaken>>

AddFails(s) ==
    /\ caller[s].pc = "add"
    /\ Throws(caller[s].op)
    /\ caller' = [caller EXCEPT ![s] = Idle]
    /\ UNCHANGED <<backend, redis, queues, workers, changes, fills, lastCall, overtaken>>

-----------------------------------------------------------------------------
(* The workers                                                             *)

RemoveTake(s) ==
    /\ removeWorker[s] = Idle /\ removeQueue[s] # <<>>
    /\ removeWorker' = [removeWorker EXCEPT ![s] = [pc |-> "delete", op |-> Head(removeQueue[s])]]
    /\ removeQueue' = [removeQueue EXCEPT ![s] = Tail(@)]
    /\ UNCHANGED <<backend, redis, orphans, caller, updateQueue, updateWorker,
                   counters, lastCall, overtaken>>

RemoveDelete(s) ==
    /\ removeWorker[s].pc = "delete"
    /\ Apply(removeWorker[s].op)
    /\ Overtake(removeWorker[s].op.key)
    /\ caller' = AllLate(caller, removeWorker[s].op.key)
    /\ removeWorker' = [AllLate(removeWorker, removeWorker[s].op.key) EXCEPT ![s] = Idle]
    /\ updateWorker' = AllLate(updateWorker, removeWorker[s].op.key)
    /\ UNCHANGED <<backend, updateQueue, counters, lastCall>>

RemoveFails(s) ==
    /\ removeWorker[s].pc = "delete"
    /\ Throws(removeWorker[s].op)
    /\ removeWorker' = [removeWorker EXCEPT ![s].pc = "put"]
    /\ UNCHANGED <<backend, redis, caller, queues, updateWorker, changes, fills, lastCall, overtaken>>

RemovePutBack(s) ==
    /\ removeWorker[s].pc = "put" /\ Len(removeQueue[s]) < Capacity
    /\ removeQueue' = [removeQueue EXCEPT ![s] = Append(@, removeWorker[s].op)]
    /\ removeWorker' = [removeWorker EXCEPT ![s] = Idle]
    /\ UNCHANGED <<backend, redis, orphans, caller, updateQueue, updateWorker,
                   counters, lastCall, overtaken>>

UpdateTake(s) ==
    /\ updateWorker[s] = Idle /\ updateQueue[s] # <<>>
    /\ updateWorker' = [updateWorker EXCEPT ![s] = [pc |-> "fetch", key |-> Head(updateQueue[s])]]
    /\ updateQueue' = [updateQueue EXCEPT ![s] = Tail(@)]
    /\ UNCHANGED <<backend, redis, orphans, caller, removeQueue, removeWorker,
                   counters, lastCall, overtaken>>

\* fetchFromBackend
Fetch(s) ==
    LET k == updateWorker[s].key IN
    /\ updateWorker[s].pc = "fetch"
    /\ updateWorker' = [updateWorker EXCEPT ![s] =
                          [pc |-> "write", op |-> [key |-> k, val |-> backend[k], late |-> FALSE]]]
    /\ UNCHANGED <<backend, redis, orphans, caller, queues, removeWorker,
                   counters, lastCall, overtaken>>

\* fetchAndAddToCache: delete when there is no value, add otherwise.
Write(s) ==
    /\ updateWorker[s].pc = "write"
    /\ Apply(updateWorker[s].op)
    /\ Overtake(updateWorker[s].op.key)
    /\ caller' = AllLate(caller, updateWorker[s].op.key)
    /\ removeWorker' = AllLate(removeWorker, updateWorker[s].op.key)
    /\ updateWorker' = [AllLate(updateWorker, updateWorker[s].op.key) EXCEPT ![s] = Idle]
    /\ UNCHANGED <<backend, updateQueue, counters, lastCall>>

\* Mutant of FetchFails: the exception ends the worker.
MutWorkerEnds(s) ==
    /\ updateWorker[s].pc = "fetch" /\ failures < MaxFailures
    /\ failures' = failures + 1
    /\ updateWorker' = [updateWorker EXCEPT ![s].pc = "ended"]
    /\ UNCHANGED <<backend, redis, orphans, caller, queues, removeWorker,
                   changes, fills, lastCall, overtaken>>

\* The backend throws, or Redis does: the key goes back to be fetched again.
FetchFails(s) ==
    /\ updateWorker[s].pc = "fetch" /\ failures < MaxFailures
    /\ failures' = failures + 1
    /\ updateWorker' = [updateWorker EXCEPT ![s].pc = "put"]
    /\ UNCHANGED <<backend, redis, orphans, caller, queues, removeWorker,
                   changes, fills, lastCall, overtaken>>

\* Mutant of WriteFails: the key is not put back.
MutForgetsKey(s) ==
    /\ updateWorker[s].pc = "write"
    /\ Throws(updateWorker[s].op)
    /\ updateWorker' = [updateWorker EXCEPT ![s] = Idle]
    /\ UNCHANGED <<backend, redis, caller, queues, removeWorker, changes, fills, lastCall, overtaken>>

WriteFails(s) ==
    /\ updateWorker[s].pc = "write"
    /\ Throws(updateWorker[s].op)
    /\ updateWorker' = [updateWorker EXCEPT ![s] = [pc |-> "put", key |-> updateWorker[s].op.key]]
    /\ UNCHANGED <<backend, redis, caller, queues, removeWorker, changes, fills, lastCall, overtaken>>

UpdatePutBack(s) ==
    /\ updateWorker[s].pc = "put" /\ Len(updateQueue[s]) < Capacity
    /\ updateQueue' = [updateQueue EXCEPT ![s] = Append(@, updateWorker[s].key)]
    /\ updateWorker' = [updateWorker EXCEPT ![s] = Idle]
    /\ UNCHANGED <<backend, redis, orphans, caller, removeQueue, removeWorker,
                   counters, lastCall, overtaken>>

CallStep(s) == \/ Update(s) \/ Delete(s) \/ DeleteFails(s) \/ PutRemoveQueue(s)
               \/ Add(s) \/ AddFails(s)
RemoveStep(s) == RemoveTake(s) \/ RemoveDelete(s) \/ RemoveFails(s) \/ RemovePutBack(s)
UpdateStep(s) == \/ UpdateTake(s) \/ Fetch(s) \/ FetchFails(s) \/ Write(s)
                 \/ WriteFails(s) \/ UpdatePutBack(s)

Next ==
    \/ \E s \in Servers : \/ CallStep(s) \/ RemoveStep(s) \/ UpdateStep(s)
                          \/ \E k \in Keys : \/ Read(s, k)
                                             \/ \E m \in {"update", "delete"} : Change(s, k, m)
    \/ \E o \in orphans : OrphanLands(o)

\* Every thread that is not blocked runs on; calls do not throw for ever
\* (MaxFailures).
Fairness == \A s \in Servers : WF_vars(CallStep(s)) /\ WF_vars(RemoveStep(s)) /\ WF_vars(UpdateStep(s))

Spec == Init /\ [][Next]_vars /\ Fairness

-----------------------------------------------------------------------------
(* Properties                                                              *)

\* Server s has not carried out a delete of k yet.
PendingDelete(s, k) ==
    \/ caller[s].pc \in {"delete", "requeue"} /\ caller[s].op.key = k
    \/ \E i \in DOMAIN removeQueue[s] : removeQueue[s][i].key = k
    \/ HasOp(removeWorker[s]) /\ removeWorker[s].op.key = k

\* Nor an update of k.
PendingUpdate(s, k) ==
    \/ caller[s].pc = "update" /\ caller[s].key = k
    \/ \E i \in DOMAIN updateQueue[s] : updateQueue[s][i] = k
    \/ IF HasOp(updateWorker[s]) THEN updateWorker[s].op.key = k
       ELSE updateWorker[s] # Idle /\ updateWorker[s].key = k

\* A change of k has not been told to Redis yet.
Pending(k) == \E s \in Servers : PendingDelete(s, k) \/ PendingUpdate(s, k)

\* A worker, the only thread that takes from its queue, has to put a key that
\* failed back into it, and the queue is full.
RemoverBlocked(s) == removeWorker[s].pc = "put" /\ Len(removeQueue[s]) = Capacity
UpdaterBlocked(s) == updateWorker[s].pc = "put" /\ Len(updateQueue[s]) = Capacity

\* Once every call for a key is through, Redis has the value of the backend;
\* after a delete() it may also have none.  The one exception is a write that
\* was under way when another one for the key was answered, and came last:
\* a value read before a change (or a delete retried after an update).
Settled ==
    \A k \in Keys :
        ~Pending(k) /\ ~overtaken[k] =>
            \/ redis[k] = backend[k]
            \/ redis[k] = NoValue /\ lastCall[k] # "update"

\* What throws is done again until Redis is told of every change, with one
\* exception: callers filled the queue of a worker while it had a failed key in
\* hand.  That worker then waits for itself for ever, and nothing is lost but
\* the calls of this queue: the other queue, and other servers, go on.
CallsEnd ==
    \A s \in Servers, k \in Keys :
        /\ PendingDelete(s, k) ~> (~PendingDelete(s, k) \/ []RemoverBlocked(s))
        /\ PendingUpdate(s, k) ~> (~PendingUpdate(s, k) \/ []UpdaterBlocked(s))
=============================================================================
