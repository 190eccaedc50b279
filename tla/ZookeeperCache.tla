--------------------------- MODULE ZookeeperCache ---------------------------
(***************************************************************************)
(* ZookeeperLocalCacheFactory: objects kept in one process, each with the  *)
(* dependencies it was computed from.  A dependency is a ZooKeeper node.   *)
(* add() watches the nodes, stores the object and maps every dependency to *)
(* the key; expire() queues a dependency, a worker thread writes its node, *)
(* and the watchers of every process clear the objects mapped to it.       *)
(*                                                                         *)
(* One process is modelled in detail.  Other processes write nodes; the    *)
(* ZooKeeper service (nodes, one-shot watches, sessions) is modelled from  *)
(* how this class uses it: a watch fires once; one that fires while the    *)
(* session is disconnected is delivered when it reconnects; a session that *)
(* expires loses its watches.  An object is represented by the             *)
(* dependencies whose data changed since it was loaded.                    *)
(***************************************************************************)
EXTENDS Integers, Sequences, FiniteSets, SequencesExt

CONSTANTS Keys,        \* keys of cached objects
          Deps,        \* dependencies
          DepsOf,      \* the dependencies of the object of a key, in order
          Adders,      \* threads that load an object and add() it
          Notifiers,   \* threads that change data and call expire()
          Capacity,    \* of updateDependencyQueue
          MaxLoads,    \* bound on the calls of add()
          MaxChanges,  \* bound on the changes of data
          MaxWatchers, \* bound on the watchers of a dependency not run yet
          MaxFailures  \* bound on the losses of the connection

ASSUME CacheAssumption ==
    /\ Capacity \in Nat \ {0}
    /\ MaxLoads \in Nat
    /\ MaxChanges \in Nat
    /\ MaxWatchers \in Nat
    /\ MaxFailures \in Nat
    /\ DepsOf \in [Keys -> Seq(Deps) \ {<<>>}]

VARIABLES cached,    \* cachedObjectsMap: the keys that have an object
          stale,     \* what changed since the cached object was loaded
          depMap,    \* dependecyMap; no set for a dependency is {}
          adder,     \* the threads in add()
          notifier,  \* the threads in expire()
          queue,     \* updateDependencyQueue
          worker,    \* updateDependencyWorker
          clearing,  \* the event thread in clearCacheObjectByDependency
          nodes,     \* ZooKeeper: the nodes that exist
          watchers,  \* ZooKeeper: watchers of this session, per node
          fired,     \* ZooKeeper: nodes written while this session is away
          events,    \* watchers of a node that the event thread has to run
          session,   \* state of the ZooKeeper client
          remote,    \* dependencies another process is about to write
          loads, changes, failures,  \* counters for the bounds
          excuse     \* history: see "What the cache may miss" below

appVars == <<adder, notifier, remote, loads, changes>>
zkVars == <<nodes, watchers, fired, events, session, failures>>
vars == <<cached, stale, depMap, queue, worker, clearing, excuse, appVars, zkVars>>

Idle == [pc |-> "idle"]

\* todo: the dependencies still to be watched, or to be mapped.
AdderStates ==
    {Idle} \cup [pc : {"exists", "create", "get", "contains", "add", "new"}, key : Keys,
                 todo : Seq(Deps) \ {<<>>}, stale : SUBSET Deps, excuse : SUBSET Deps]
           \cup [pc : {"put"}, key : Keys, todo : {<<>>}, stale : SUBSET Deps, excuse : SUBSET Deps]
NotifierStates == {Idle} \cup [pc : {"contains", "put"}, dep : Deps]
WorkerStates == {Idle} \cup [pc : {"set", "put"}, dep : Deps]
ClearingStates == {Idle} \cup [dep : Deps, left : SUBSET Keys]

TypeOK ==
    /\ cached \subseteq Keys
    /\ stale \in [Keys -> SUBSET Deps]
    /\ depMap \in [Deps -> SUBSET Keys]
    /\ adder \in [Adders -> AdderStates]
    /\ notifier \in [Notifiers -> NotifierStates]
    /\ queue \in Seq(Deps) /\ Len(queue) <= Capacity
    /\ worker \in WorkerStates
    /\ clearing \in ClearingStates
    /\ nodes \subseteq Deps
    /\ watchers \in [Deps -> Nat] /\ events \in [Deps -> Nat]
    /\ \A d \in Deps : watchers[d] + events[d] <= MaxWatchers
    /\ fired \subseteq Deps
    /\ session \in {"up", "down", "expired", "new"}
    /\ remote \subseteq Deps
    /\ loads \in 0..MaxLoads
    /\ changes \in 0..MaxChanges /\ failures \in 0..MaxFailures
    /\ excuse \in [Keys -> SUBSET Deps]

Init ==
    /\ cached = {}
    /\ stale = [k \in Keys |-> {}]
    /\ depMap = [d \in Deps |-> {}]
    /\ adder = [a \in Adders |-> Idle]
    /\ notifier = [n \in Notifiers |-> Idle]
    /\ queue = <<>>
    /\ worker = Idle
    /\ clearing = Idle
    /\ nodes = {}
    /\ watchers = [d \in Deps |-> 0]
    /\ fired = {}
    /\ events = [d \in Deps |-> 0]
    /\ session = "up"
    /\ remote = {}
    /\ loads = 0 /\ changes = 0 /\ failures = 0
    /\ excuse = [k \in Keys |-> {}]

-----------------------------------------------------------------------------
(* What the cache may miss.  excuse[k] holds the dependencies whose next   *)
(* notification is not going to clear k, each for one of these causes:     *)
(*   early    the node was written after the object was loaded and before  *)
(*            add() watched it, or the watcher ran before add() had stored *)
(*            the object and its mapping;                                  *)
(*   mapping  two threads mapped the dependency at the same time: the set  *)
(*            of one replaces the set of the other, or HashSet.add is lost *)
(*   torn     HashSet.add during the watcher's iteration ended it with a   *)
(*            ConcurrentModificationException;                             *)
(*   session  the session expired and its watches with it.                 *)

\* Adder a has loaded its object and not yet set its watch on d.
BeforeWatch(a, d) ==
    adder[a].pc \in {"exists", "create", "get"} /\ Contains(adder[a].todo, d)

\* Adder a has set its watch on d and not yet stored the object.
BeforePut(a, d) ==
    \/ adder[a].pc = "put" /\ Contains(DepsOf[adder[a].key], d)
    \/ /\ adder[a].pc \in {"exists", "create", "get"}
       /\ Contains(DepsOf[adder[a].key], d) /\ ~Contains(adder[a].todo, d)

\* An adder has stored its object of key k and not yet mapped d to k.
BeforeMapping(k, d) ==
    \E a \in Adders : /\ adder[a].pc \in {"contains", "add", "new"}
                      /\ adder[a].key = k /\ Contains(adder[a].todo, d)

\* The adders of the set A do not learn of the next change of d.
ExcuseAdders(A, d) ==
    adder' = [a \in Adders |-> IF a \in A
                               THEN [adder[a] EXCEPT !.excuse = @ \cup {d}]
                               ELSE adder[a]]

\* Nor does the cache for the keys of K.
ExcuseKeys(K, d) ==
    excuse' = [k \in Keys |-> IF k \in K \cap cached THEN excuse[k] \cup {d} ELSE excuse[k]]

\* There is no longer an object of key k.
Forget(k) ==
    /\ cached' = cached \ {k}
    /\ stale' = [stale EXCEPT ![k] = {}]
    /\ excuse' = [excuse EXCEPT ![k] = {}]

-----------------------------------------------------------------------------
(* ZooKeeper and the session                                               *)

\* A write of the node of d that the service applies; a node that does not
\* exist has no watchers.
WriteNode(d) ==
    /\ IF session = "up"
       THEN /\ events' = [events EXCEPT ![d] = @ + watchers[d]]
            /\ watchers' = [watchers EXCEPT ![d] = 0]
            /\ UNCHANGED fired
       ELSE /\ fired' = IF watchers[d] > 0 THEN fired \cup {d} ELSE fired
            /\ UNCHANGED <<watchers, events>>
    /\ ExcuseAdders({a \in Adders : BeforeWatch(a, d) /\ d \in adder[a].stale}, d)

\* Mutant of Connect: a dead client is kept.
MutKeepsDead == session' = session

\* connect() does nothing unless the client is dead; then it starts a session.
Connect == session' = IF session = "expired" THEN "new" ELSE session

Disconnect ==
    /\ session = "up" /\ failures < MaxFailures
    /\ session' = "down"
    /\ failures' = failures + 1
    /\ UNCHANGED <<cached, stale, depMap, queue, worker, clearing, excuse,
                   appVars, nodes, watchers, fired, events>>

\* The client reconnects; what fired meanwhile reaches the event thread.
Reconnect ==
    /\ session \in {"down", "new"}
    /\ session' = "up"
    /\ events' = [d \in Deps |-> IF d \in fired THEN events[d] + watchers[d] ELSE events[d]]
    /\ watchers' = [d \in Deps |-> IF d \in fired THEN 0 ELSE watchers[d]]
    /\ fired' = {}
    /\ UNCHANGED <<cached, stale, depMap, queue, worker, clearing, excuse,
                   appVars, nodes, failures>>

\* The service gives up the session: its watches are gone, and with them what
\* the cached objects and the threads in add() would have been told.
SessionExpires ==
    /\ session = "down"
    /\ session' = "expired"
    /\ watchers' = [d \in Deps |-> 0]
    /\ fired' = {}
    /\ excuse' = [k \in Keys |-> IF k \in cached THEN excuse[k] \cup {d \in Deps : watchers[d] > 0}
                                 ELSE excuse[k]]
    /\ adder' = [a \in Adders |->
                   IF adder[a].pc \in {"exists", "create", "get", "put"}
                   THEN [adder[a] EXCEPT !.excuse = @ \cup {d \in Deps : BeforePut(a, d)}]
                   ELSE adder[a]]
    /\ UNCHANGED <<cached, stale, depMap, queue, worker, clearing,
                   notifier, remote, loads, changes, nodes, events, failures>>

\* handleEvent(): the Expired event reconnects.
HandleEvent ==
    /\ session = "expired"
    /\ Connect
    /\ UNCHANGED <<cached, stale, depMap, queue, worker, clearing, excuse,
                   appVars, nodes, watchers, fired, events, failures>>

-----------------------------------------------------------------------------
(* add()                                                                   *)

\* The caller computes the object from the data as they are now.
Load(a, k) ==
    /\ adder[a] = Idle /\ loads < MaxLoads
    /\ loads' = loads + 1
    /\ adder' = [adder EXCEPT ![a] = [pc |-> "exists", key |-> k, todo |-> DepsOf[k],
                                      stale |-> {}, excuse |-> {}]]
    /\ UNCHANGED <<cached, stale, depMap, queue, worker, clearing, excuse,
                   notifier, remote, changes, zkVars>>

\* zk.exists(path)
Exists(a) ==
    /\ adder[a].pc = "exists" /\ session = "up"
    /\ adder' = [adder EXCEPT ![a].pc = IF Head(adder[a].todo) \in nodes THEN "get" ELSE "create"]
    /\ UNCHANGED <<cached, stale, depMap, queue, worker, clearing, excuse,
                   notifier, remote, loads, changes, zkVars>>

\* zk.create(path, ...): it fails when another thread has created the node.
Create(a) ==
    /\ adder[a].pc = "create" /\ session = "up"
    /\ nodes' = nodes \cup {Head(adder[a].todo)}
    /\ adder' = IF Head(adder[a].todo) \in nodes
                THEN [adder EXCEPT ![a] = Idle]
                ELSE [adder EXCEPT ![a].pc = "get"]
    /\ UNCHANGED <<cached, stale, depMap, queue, worker, clearing, excuse,
                   notifier, remote, loads, changes, watchers, fired, events, session, failures>>

\* Mutant of GetData: no watch when the dependency is mapped already.
MutWatchesOnce(a) ==
    LET d == Head(adder[a].todo) IN
    /\ adder[a].pc = "get" /\ session = "up"
    /\ watchers[d] + events[d] < MaxWatchers
    /\ watchers' = [watchers EXCEPT ![d] = IF depMap[d] = {} THEN @ + 1 ELSE @]
    /\ adder' = [adder EXCEPT ![a].todo = Tail(@),
                              ![a].pc = IF Len(adder[a].todo) = 1 THEN "put" ELSE "exists"]
    /\ UNCHANGED <<cached, stale, depMap, queue, worker, clearing, excuse,
                   notifier, remote, loads, changes, nodes, fired, events, session, failures>>

\* zk.getData(path, watcher, stat) sets the watch.
GetData(a) ==
    LET d == Head(adder[a].todo) IN
    /\ adder[a].pc = "get" /\ session = "up"
    /\ watchers[d] + events[d] < MaxWatchers
    /\ watchers' = [watchers EXCEPT ![d] = @ + 1]
    /\ adder' = [adder EXCEPT ![a].todo = Tail(@),
                              ![a].pc = IF Len(adder[a].todo) = 1 THEN "put" ELSE "exists"]
    /\ UNCHANGED <<cached, stale, depMap, queue, worker, clearing, excuse,
                   notifier, remote, loads, changes, nodes, fired, events, session, failures>>

\* Any of the three calls throws while the client is away: add() reconnects
\* and answers false.  A create whose reply is lost has been applied.
AddFails(a) ==
    /\ adder[a].pc \in {"exists", "create", "get"} /\ session # "up"
    /\ Connect
    /\ nodes' \in {nodes} \cup (IF adder[a].pc = "create" /\ session = "down"
                                THEN {nodes \cup {Head(adder[a].todo)}} ELSE {})
    /\ adder' = [adder EXCEPT ![a] = Idle]
    /\ UNCHANGED <<cached, stale, depMap, queue, worker, clearing, excuse,
                   notifier, remote, loads, changes, watchers, fired, events, failures>>

\* cachedObjectsMap.put
Put(a) ==
    LET k == adder[a].key IN
    /\ adder[a].pc = "put"
    /\ cached' = cached \cup {k}
    /\ stale' = [stale EXCEPT ![k] = adder[a].stale]
    /\ excuse' = [excuse EXCEPT ![k] = adder[a].excuse]
    /\ adder' = [adder EXCEPT ![a].pc = "contains", ![a].todo = DepsOf[k]]
    /\ UNCHANGED <<depMap, queue, worker, clearing, notifier, remote, loads, changes, zkVars>>

\* dependecyMap.containsKey
ContainsKey(a) ==
    /\ adder[a].pc = "contains"
    /\ adder' = [adder EXCEPT ![a].pc = IF depMap[Head(adder[a].todo)] # {} THEN "add" ELSE "new"]
    /\ UNCHANGED <<cached, stale, depMap, queue, worker, clearing, excuse,
                   notifier, remote, loads, changes, zkVars>>

\* The next dependency to map, or the end of add().
Mapped(a) ==
    adder' = [adder EXCEPT ![a] = IF Len(adder[a].todo) = 1 THEN Idle
                                  ELSE [adder[a] EXCEPT !.todo = Tail(@), !.pc = "contains"]]

\* dependecyMap.get(d).add(k) on a HashSet that no lock protects: an add at the
\* same time as another one may be lost, and one during the watcher's iteration
\* may be seen by it, or missed, or end it.
AddToSet(a) ==
    LET d == Head(adder[a].todo)
        k == adder[a].key
        races == \E b \in Adders \ {a} : adder[b].pc = "add" /\ Head(adder[b].todo) = d
        torn == clearing # Idle /\ clearing.dep = d /\ k \notin depMap[d]
    IN
    /\ adder[a].pc = "add"
    /\ Mapped(a)
    /\ \/ /\ depMap' = [depMap EXCEPT ![d] = @ \cup {k}]
          /\ \/ UNCHANGED <<clearing, excuse>>
             \/ /\ torn
                /\ clearing' = [clearing EXCEPT !.left = @ \cup {k}]
                /\ UNCHANGED excuse
             \/ /\ torn
                /\ clearing' = Idle
                /\ ExcuseKeys(clearing.left \cup {k}, d)
       \/ /\ races /\ k \notin depMap[d]
          /\ ExcuseKeys({k}, d)
          /\ UNCHANGED <<depMap, clearing>>
    /\ UNCHANGED <<cached, stale, queue, worker, notifier, remote, loads, changes, zkVars>>

\* dependecyMap.put(d, {k}) replaces a set another thread put after the check.
NewSet(a) ==
    LET d == Head(adder[a].todo)
        k == adder[a].key
    IN
    /\ adder[a].pc = "new"
    /\ depMap' = [depMap EXCEPT ![d] = {k}]
    /\ ExcuseKeys(depMap[d] \ {k}, d)
    /\ Mapped(a)
    /\ UNCHANGED <<cached, stale, queue, worker, clearing, notifier, remote, loads, changes, zkVars>>

\* remove(k)
RemoveObject(k) ==
    /\ k \in cached
    /\ Forget(k)
    /\ UNCHANGED <<depMap, queue, worker, clearing, appVars, zkVars>>

-----------------------------------------------------------------------------
(* expire()                                                                *)

\* The data behind d change: what was loaded from them is out of date.
DataChange(d) ==
    /\ changes < MaxChanges
    /\ changes' = changes + 1
    /\ stale' = [k \in Keys |-> IF k \in cached /\ Contains(DepsOf[k], d) THEN stale[k] \cup {d} ELSE stale[k]]
    /\ adder' = [a \in Adders |->
                   IF adder[a] # Idle /\ Contains(DepsOf[adder[a].key], d)
                   THEN [adder[a] EXCEPT !.stale = @ \cup {d}]
                   ELSE adder[a]]

\* A thread changes the data and calls expire(d).
Expire(n, d) ==
    /\ notifier[n] = Idle
    /\ DataChange(d)
    /\ notifier' = [notifier EXCEPT ![n] = [pc |-> "contains", dep |-> d]]
    /\ UNCHANGED <<cached, depMap, queue, worker, clearing, excuse, remote, loads, zkVars>>

\* updateDependencyQueue.contains
QueueContains(n) ==
    /\ notifier[n] # Idle /\ notifier[n].pc = "contains"
    /\ notifier' = [notifier EXCEPT ![n] = IF Contains(queue, notifier[n].dep) THEN Idle
                                           ELSE [@ EXCEPT !.pc = "put"]]
    /\ UNCHANGED <<cached, stale, depMap, queue, worker, clearing, excuse,
                   adder, remote, loads, changes, zkVars>>

\* updateDependencyQueue.put blocks while the queue is full.
QueuePut(n) ==
    /\ notifier[n] # Idle /\ notifier[n].pc = "put" /\ Len(queue) < Capacity
    /\ queue' = Append(queue, notifier[n].dep)
    /\ notifier' = [notifier EXCEPT ![n] = Idle]
    /\ UNCHANGED <<cached, stale, depMap, worker, clearing, excuse,
                   adder, remote, loads, changes, zkVars>>

\* The worker takes a dependency; it is the only thread that takes.
WorkerTake ==
    /\ worker = Idle /\ queue # <<>>
    /\ worker' = [pc |-> "set", dep |-> Head(queue)]
    /\ queue' = Tail(queue)
    /\ UNCHANGED <<cached, stale, depMap, clearing, excuse, appVars, zkVars>>

\* updateDependecyNode writes the node; a node that is missing has no watchers.
UpdateNode ==
    /\ worker # Idle /\ worker.pc = "set" /\ session = "up"
    /\ WriteNode(worker.dep)
    /\ worker' = Idle
    /\ UNCHANGED <<cached, stale, depMap, queue, clearing, excuse,
                   notifier, remote, loads, changes, nodes, session, failures>>

\* Mutant of UpdateFails: the dependency is not put back.
MutGivesUp ==
    /\ worker # Idle /\ worker.pc = "set" /\ session # "up"
    /\ Connect
    /\ worker' = Idle
    /\ UNCHANGED <<cached, stale, depMap, queue, clearing, excuse, appVars,
                   nodes, watchers, fired, events, failures>>

\* The write throws, and may have been applied all the same when the reply was
\* lost with the connection; the client reconnects.
UpdateFails ==
    /\ worker # Idle /\ worker.pc = "set" /\ session # "up"
    /\ \/ session = "down" /\ WriteNode(worker.dep)
       \/ UNCHANGED <<watchers, fired, events, adder>>
    /\ Connect
    /\ worker' = [worker EXCEPT !.pc = "put"]
    /\ UNCHANGED <<cached, stale, depMap, queue, clearing, excuse,
                   notifier, remote, loads, changes, nodes, failures>>

\* Mutant of PutBack: the queue takes more than its capacity.
MutPutBackAlways ==
    /\ worker # Idle /\ worker.pc = "put"
    /\ queue' = Append(queue, worker.dep)
    /\ worker' = Idle
    /\ UNCHANGED <<cached, stale, depMap, clearing, excuse, appVars, zkVars>>

\* The worker puts it back, which blocks while the queue is full, and sleeps.
PutBack ==
    /\ worker # Idle /\ worker.pc = "put" /\ Len(queue) < Capacity
    /\ queue' = Append(queue, worker.dep)
    /\ worker' = Idle
    /\ UNCHANGED <<cached, stale, depMap, clearing, excuse, appVars, zkVars>>

\* Another process changes the data, and its worker writes the node.
RemoteExpire(d) ==
    /\ DataChange(d)
    /\ remote' = remote \cup {d}
    /\ UNCHANGED <<cached, depMap, queue, worker, clearing, excuse, notifier, loads, zkVars>>

RemoteWrite(d) ==
    /\ d \in remote
    /\ WriteNode(d)
    /\ remote' = remote \ {d}
    /\ UNCHANGED <<cached, stale, depMap, queue, worker, clearing, excuse,
                   notifier, loads, changes, nodes, session, failures>>

-----------------------------------------------------------------------------
(* The watcher, on the event thread                                        *)

\* clearCacheObjectByDependency starts: without a set for d it throws at once.
\* It may be too early for the objects that are just being added.
ClearStart(d) ==
    LET missed(S) == events[d] = 1 /\ (watchers[d] = 0 \/ d \in S) IN
    /\ clearing = Idle /\ events[d] > 0
    /\ events' = [events EXCEPT ![d] = @ - 1]
    /\ clearing' = IF depMap[d] = {} THEN Idle ELSE [dep |-> d, left |-> depMap[d]]
    /\ ExcuseAdders({a \in Adders : BeforePut(a, d) /\ missed(adder[a].stale)}, d)
    /\ ExcuseKeys({k \in Keys \ depMap[d] : BeforeMapping(k, d) /\ missed(stale[k])}, d)
    /\ UNCHANGED <<cached, stale, depMap, queue, worker, notifier, remote, loads, changes,
                   nodes, watchers, fired, session, failures>>

\* cachedObjectsMap.remove for the next key of the set.
ClearKey(k) ==
    /\ clearing # Idle /\ k \in clearing.left
    /\ Forget(k)
    /\ clearing' = IF clearing.left = {k} THEN Idle
                   ELSE [clearing EXCEPT !.left = @ \ {k}]
    /\ UNCHANGED <<depMap, queue, worker, appVars, zkVars>>

AddStep(a) == \/ Exists(a) \/ Create(a) \/ GetData(a) \/ AddFails(a) \/ Put(a)
              \/ ContainsKey(a) \/ AddToSet(a) \/ NewSet(a)

Next ==
    \/ \E a \in Adders : AddStep(a) \/ \E k \in Keys : Load(a, k)
    \/ \E k \in Keys : RemoveObject(k) \/ ClearKey(k)
    \/ \E n \in Notifiers : \/ QueueContains(n) \/ QueuePut(n)
                           \/ \E d \in Deps : Expire(n, d)
    \/ WorkerTake \/ UpdateNode \/ UpdateFails \/ PutBack
    \/ \E d \in Deps : RemoteExpire(d) \/ RemoteWrite(d) \/ ClearStart(d)
    \/ Disconnect \/ Reconnect \/ SessionExpires \/ HandleEvent

\* Threads that are not blocked run on, the client reconnects by itself, and the
\* losses of the connection are finite (MaxFailures): ZooKeeper comes back.
Fairness ==
    /\ \A a \in Adders : WF_vars(AddStep(a))
    /\ \A n \in Notifiers : WF_vars(QueueContains(n) \/ QueuePut(n))
    /\ WF_vars(WorkerTake \/ UpdateNode \/ UpdateFails \/ PutBack)
    /\ \A d \in Deps : WF_vars(RemoteWrite(d))
    /\ WF_vars((\E d \in Deps : ClearStart(d)) \/ (\E k \in Keys : ClearKey(k)))
    /\ WF_vars(Reconnect) /\ WF_vars(HandleEvent)

Spec == Init /\ [][Next]_vars /\ Fairness

-----------------------------------------------------------------------------
(* Properties                                                              *)

\* Mutant of Serves: the state of the client is not looked at.
MutServesAlways(k) == k \in cached

\* getObject answers an object only while the client is connected.
Serves(k) == session = "up" /\ k \in cached

\* d is in the hands of expire(), of the worker or of another process.
Queued(d) == \/ \E n \in Notifiers : notifier[n] # Idle /\ notifier[n].dep = d
             \/ Contains(queue, d)
             \/ worker # Idle /\ worker.dep = d
             \/ d \in remote

\* The event thread has d's watcher to run, or is removing k for it.
BeingCleared(k, d) == events[d] > 0 \/ (clearing # Idle /\ clearing.dep = d /\ k \in clearing.left)

\* An object getObject serves although the data behind it changed is about to
\* be cleared in this very process, or the change has not been written to
\* ZooKeeper yet: once the notification is out, a connected client serves stale
\* data only until its event thread ran (but for the named causes of a miss).
ServedStaleIsTold ==
    \A k \in Keys : Serves(k) =>
        \A d \in stale[k] \ excuse[k] : Queued(d) \/ BeingCleared(k, d)

\* The next notification of any dependency reaches every cached object: its
\* node is watched or its event is on the way, and the dependency is mapped to
\* the key, or add() is about to map it (but for the named causes of a miss).
ObjectsReachable ==
    \A k \in cached : \A d \in ToSet(DepsOf[k]) \ excuse[k] :
        /\ watchers[d] > 0 \/ BeingCleared(k, d)
        /\ k \in depMap[d] \/ BeforeMapping(k, d)

\* Every dependency given to expire() is written to ZooKeeper in the end: what
\* fails while ZooKeeper is away is queued and done when it is back.
ExpiresAreSent == \A d \in Deps : Queued(d) ~> ~Queued(d)

\* A stale object does not stay: it is cleared, or replaced, or was missed for
\* one of the named causes.
StaleLeaves ==
    \A k \in Keys : \A d \in Deps :
        (k \in cached /\ d \in stale[k] \ excuse[k])
            ~> (k \notin cached \/ d \notin stale[k] \ excuse[k])
=============================================================================
