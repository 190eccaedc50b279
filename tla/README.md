# TLA+ models of yz-framework

yz-framework is a Java toolkit for web services: locks and scripts on Redis, id
generators, a job pipeline on ActiveMQ, caches, configuration and service
registries on ZooKeeper, transactions over MyBatis. This directory models the
parts that are hard to test, checks them with TLC on small instances and proves
their main properties with TLAPS for every instance.

## Inventory

| Part | State | Operations | Interacts through | What is hard | Correct means |
|---|---|---|---|---|---|
| Distributed lock (`core/redis/RedisLock`, Lua scripts) | `keys`, `value`, `timeout`, `hasLock`; the keys in Redis | `lock`, `tryLock`, `unLock` | Redis calls | expiry while held, lost replies, late scripts, several keys at once | mutual exclusion, all keys or none, only the owner frees, keys come free |
| Id generators (`SnowFlake`, `IdWorker`, `IdBuilder`) | `sequence`, `lastTimestamp` | `nextId` | the system clock | clock set back, sequence overflow, restarts | unique and increasing ids, calls return |
| Job pipeline (`service-consumer`, `core/job`, `queue/activemq`) | the job in the message: success flags, `failedTimes`; the broker's schedule | listeners, `doWork`, `executeTask`, `produce` | ActiveMQ, HTTP services, a Redis switch | failures of some tasks, duplicates, crashes after the acknowledgement, delays | finished means served, retries as often and as late as asked, no repeated success |
| Redis scripts (`StringRedisTemplateEX`, `*.lua`) | stock and counter keys in Redis | decrease stock, decrease coupons, rate limit, multi set | Redis | several keys, one failing; limits at zero | never negative, all or nothing |
| ZooKeeper local cache (`ZookeeperLocalCacheFactory`) | objects, dependency map, invalidation queue | `add`, `getObject`, `expire`, watch events | one-shot watches, session | event between watch and put; session expiry | no stale object for ever |
| Redis caches (`RedisCache`, `RedisEhCache`, `RedisInJVMCacheFactory`) | Redis values, local copies, two worker queues | `get`, `update`, `delete`, messages | publish/subscribe, backend reads | late writes, retried deletes | copies converge to the backend |
| Configuration (`PropertyRegistry`, `PropertiesRegistry`, watchers) | `ALL_PROPERTIES`, watches, local file | load, reload, delete, reconnect | ZooKeeper | one-shot watches, failed reads | properties follow the nodes |
| Service registry (`ServiceRegistryMonitor`), `ZK` | nodes "1"/"0", `isSysToServer` | register, stop, recursive create/delete | ZooKeeper | restarts, concurrent creators | a running service is registered as running |
| Transactions (`MapperFactory`), data source routing | thread-local counter and status; round-robin index | begin, commit, rollback, cleanup | Spring's transaction manager | nesting, missing commits, shared counters | the outer commit commits; no open transaction after a request |
| Business logging | bounded queue, table names | log, flush, destroy | database | full queue, shutdown | no blocked caller |
| Not modelled | | | | | Memcached wrapper, sessions in cookies, RabbitMQ wrappers, security, search, web consoles: see `PROJECT.json` |

`PROJECT.json` lists every part with its sources, and under `hazards` the places
in the code where each difficulty bites.

## Plan

1. `RedisLock`, `IdGenerator`, `ServiceConsumer`: **done**, with proofs.
2. `DataSources`, `Transactions`: **done**, with proofs.
3. `RedisScripts`, shown to implement `Allotment`: **done**, with proofs of the
   invariants and of the refinement.
4. `ZookeeperCache`, `RedisCache`: **done**, with proofs.
5. Left: `PropertyRegistry` with its watchers, `ZK` and the service registry; the
   notification channel of `RedisEhCache`.

| Module | Extends or instantiates | Checked by |
|---|---|---|
| `RedisLock`, `IdGenerator`, `ServiceConsumer` | | `MC...`, `..._proofs` |
| `DataSources` | | through `Transactions` |
| `Transactions` | `DataSources` | `MCTransactions`, `Transactions_proofs` |
| `Allotment` | | abstract specification |
| `RedisScripts` | `Allotment` by `INSTANCE ... WITH` | `MCRedisScripts`, `RedisScripts_proofs` |
| `ZookeeperCache` | | `MCZookeeperCache` with three configurations, `ZookeeperCache_proofs` |
| `RedisCache` | | `MCRedisCache`, `RedisCache_proofs` |

No module that is proved about uses a `RECURSIVE` operator.

## Modules

### RedisLock

One record of state per lock object. A call of Redis takes three steps: the
method sends the script (`Lock`, `TryLock`, `UnLock`, `Wake`), Redis runs it
(`SetRuns`, `DeleteRuns`), the reply arrives (`SetReturns`, `DeleteReturns`). At any
point the call may throw (`SetThrows`, `DeleteThrows`): the script has run, is
lost, or stays in the network as an orphan that runs later (`OrphanRuns`).
Scripts are atomic because Redis runs them so. `Prefix` and `SetIfAbsent` follow
the loop of `multi_set_if_absent.lua` with its rollback; the one-key scripts are
the case of a list of length one. `Tick` is the time in which keys expire.
The scripts are assumed to be found: `StringRedisTemplateEX` loads them from
`lua/`, while the repository keeps them one directory higher.

Two facts about the environment limit what the lock can promise, and the
properties say so in `Sound`: the identifying value is the millisecond of
construction, so two objects with the same value can delete each other's keys;
and a delete script left behind by a throwing `unLock` may run after the object
has locked again. Both cases are in the model, the properties are claimed for the
objects they do not concern. The auxiliary `owner`, `lease` and `abandoned`
appear in no guard of the code's actions.

### IdGenerator

`kind` says which of the three classes a node runs; their `nextId` methods differ
only in `NextIdRefused` (IdBuilder resets the sequence before it throws) and in
`NextMillisStuck` (IdWorker never reads the clock again). `nextId` is
`synchronized`, so a call is one step except for the wait after an overflow,
during which the clock moves. The shifts and ors are arithmetic in `Pack`: the
fields do not overlap, because the node number and the sequence are within their
sizes. `Trusted` states what uniqueness needs: a restarted process does not issue
in a millisecond its predecessor may have used, and IdBuilder's clock is never
set back. The 64-bit width is not reached: 41 bits of milliseconds last for 69
years.

### ServiceConsumer

A message carries a job. `place` says where it is: in the broker (`queued`,
`scheduled`), in a handler (`received`, `reading` the delay switch, `working` in the
loop of `doWork`, `calling` a service) or at its end. A handler's step is one
remote call or one decision of `doWork`. The listener containers of
`spring-activemq-consumer-0*.xml` use the default acknowledgement: the message is
acknowledged when it is received, so a handler that throws or dies (`CutShort`)
loses it, and an acknowledgement that gets lost duplicates it (`Redeliver`). A
redelivery later in the handler is the same as one at `received` followed by a
`CutShort`. The broker is external: it delivers a scheduled message without its
delay property and with `AMQ_SCHEDULED_ID`, and it does not schedule a message
that carries that id, which is why `createMessage` removes it.

A delay of the list is the int that `getDelaySeconds` returns for its text; `Wrap`
is the int product with 1000 in `createMessage`, on the scale of ticks. `custom`
jobs set `successStatus`, which the code never matches. The counters that are only
reported (a task's `failedTimes`, return message and data) are left out. Jobs
share nothing but the broker and the switch.

### DataSources and Transactions

`DataSources` has the two shared counters: reading a counter (`TakeSlave`,
`TakeKey`) and setting it back (`ResetCounter`, `ResetIndex`) are separate atomic
steps, so any number of threads may be between them. Choosing the master changes
nothing. `MultiDataSource` fills its map at 1..n and reads 0..n-1: index 0 finds no
key, for which Spring takes its default data source, and the last key is never
used. The map is filled once, so this is no matter of states and is only noted.

`Transactions` puts the pooled threads on top of them. Everything else is thread
local: the `CounterTransactionStatus` of `MapperFactory`, the holder of the data
source, and, on Spring's side, the physical transaction and the statuses that are
completed. Spring is external: `getTransaction` begins a transaction or joins the
one the thread has; `commit` and `rollback` end it only for the status that began
it. Each `MapperFactory` method is an action, with one more for each way it can
fail: no connection for `doBegin` (`BeginFails`), a manager that throws
(`CommitStatusThrows`). `EndRequest` is the cleanup after a request, by `postHandle`
for web requests and by `CheckFilter` for dubbo calls; `CutRequest` is a handler that
throws where no cleanup is called.

`fault` records what went wrong and is not yet undone. It appears in no guard; the
properties use it to say precisely after which events they do not hold. The
other auxiliary variables are `pending` (whose uncommitted writes are in the
transaction), `lost` and `reply`.

What the model shows about nesting: `commitTransaction()` never counts down, so
after two begins no number of commits commits. The cleanup then rolls back. A
dubbo caller gets an exception (`NoSilentLoss`); a web request has been answered
normally and only the log tells.

### Allotment and RedisScripts

`Allotment` is what the stock scripts promise: one stock, a quota for each person
until it is renewed. `RedisScripts` has the keys, answers and times to live of the
scripts; the time of a user's key is the quota's period. Redis runs a script as
one step, so an action is a whole script; between them keys expire (`Tick`). The
order of the tests in the coupon script is kept (`DrawLimited` before `DrawNone`).
The limiter's counter is capped at `MaxTimes`, beyond its limit. `Read` and
`HUpdateIfEqual` are the two halves of a read-modify-write. Amounts are positive: a
negative one would be a refill.

### ZookeeperCache

One process in detail: threads in `add()`, threads in `expire()`, the worker, and
ZooKeeper's event thread that runs the watchers. A step is one access of a shared
map or queue, or one call of ZooKeeper. Other processes only write nodes.
ZooKeeper is external: watches fire once, what fires during a disconnection is
delivered afterwards, an expired session has no watches. A watcher that finds no
set for its dependency ends with an exception in the client library. `HashSet` is
not thread safe: an `add` during another one may be lost, and one during the
watcher's iteration may end it. `NodeDataChanged` is the only event that clears.

An object is abstracted to the set of dependencies that changed since it was
loaded. There are four ways in which the code misses an invalidation; they are
listed in the module above `BeforeWatch` and recorded in `excuse`, at the step where
the miss happens. The properties say that there is no fifth.

### RedisCache

Servers with one caller, the two queues and the two workers of `RedisCache` each,
one Redis, one backend. A value is the number of the change that made it. A call
that throws may be carried out by Redis at that time, later (`OrphanLands`) or never.
`late` marks a write that was under way when another one of the key was answered;
it appears in no guard. The lists of `delete(List)` and `update(List)` are the single
calls one after the other. The expiry of `add` with a timeout is left out: it only
removes values.

## Runs

| Run | Bounds | Result |
|---|---|---|
| `redis_lock` | 2 lock objects, 2 keys, lists of one, two and repeated keys, 2 stamps, timeout of 2 ticks, 1 orphan | 1.2 million states; passes |
| `id_generator` | 2 nodes of any kind, 2 sequence numbers per millisecond, times up to 2, 1 set-back and 3 ids per node | 0.6 million states; passes |
| `id_builder_ntp` | 1 IdBuilder | violated: after a refusal, ids repeat |
| `id_worker_next_millis` | 1 IdWorker | violated: an overflow never returns |
| `service_consumer` | 2 messages (two jobs, or a job and its duplicate), jobs of 1 and 2 tasks with 1 to 3 delays, one of which wraps around, the switch absent, 0 or 1 | 0.4 million states; passes |
| `sequential_mode` | 1 job of 2 tasks in `INVOKE_MODE_SEQ` | violated: a task runs after a failed one |
| `transactions` | 1 serving and 1 querying thread, 4 statuses (symmetric), 3 levels, 2 slaves, 2 keys, a counter limit of 2 | 2.9 million states; passes |
| `redis_scripts` | 2 users, a limit of 2, a stock of up to 4, amounts of 1 to 3, times to live of 2 ticks, 2 writers of the hash field | 48 thousand states; passes, with the refinement |
| `zookeeper_cache` | 2 adding threads, 1 expiring thread, 2 keys with a shared dependency, 3 loads, 2 changes, 1 lost connection | 4.1 million states; passes |
| `zookeeper_expiry` | 1 key with 2 dependencies, a queue with room for 4, 1 lost connection | 69 thousand states; passes |
| `zookeeper_full_queue` | a queue of 1 | violated: the worker waits for itself |
| `redis_cache` | 2 servers, 1 key, queues of 1, 2 changes, 1 added value, 3 calls that throw | 74 thousand states; passes |

Two lock objects and two keys reach every conflict between a holder, an expired
holder and a half-set list. Two sequence numbers make every second id of a
millisecond overflow; with two of them and one set-back the clock can return to,
before and past the last timestamp. Two messages suffice because jobs interact
only through duplication and the switch. Threads share nothing in `Transactions`
but the counters, and both take slaves and keys, so one that serves and one that
only queries reach every conflict of two threads.
Two adding threads and a shared dependency reach every race on `dependecyMap`, and
one lost connection reaches expiry during each step of `add()`. One key suffices in
`RedisCache`, where keys share only the queues; two servers with two changes and three
failures let a late write meet a retried one, and fill either queue of size one
while its worker has a failed key in hand. In `zookeeper_expiry` the queue has
room for each dependency twice, which one expiring thread and the worker never
fill; `zookeeper_full_queue` is the other case. The proofs remove the bounds on the numbers of objects,
threads, keys and calls for every safety property of the passing runs.

Fairness. `RedisLock`: time passes, Redis runs and answers what waits for it,
sleeping threads wake; nobody has to call or to fail. `IdGenerator`: time goes on
and a waiting loop runs. `ServiceConsumer`: time passes, containers poll their
queues, handler threads run and HTTP calls end (`HttpRequestUtil` sets socket
timeouts); nothing forces a producer, a crash, a duplicate or the switch.
`LockReturns` and `JobsEnd` exclude the executions in which other objects take the
keys, or the switch goes on, again and again: the code retries without a limit.
`RedisScripts` assumes that time passes (`RateRenews`). `ZookeeperCache` and
`RedisCache`: every thread that is not blocked runs on, the ZooKeeper client
reconnects by itself and its events are delivered; connections and calls fail
finitely often. No thread is forced to load, to change data or to call.

## Findings

* `IdBuilder.nextId` resets the sequence before it checks the clock; after a
  refused call it returns ids of the last millisecond again.
* `IdWorker.nextMillis` loops for ever once a millisecond's sequence numbers are
  used up, holding the generator's monitor.
* `ExecuteTask.doWork` ignores `invokeMode`; in the default, sequential mode the
  tasks after a failed one are executed.
* The worker of `ZookeeperLocalCacheFactory` puts a failed dependency back into the
  bounded queue that it alone empties; if the queue has filled meanwhile, it blocks
  for ever, and later calls of `expire()` with it.

Other observations, without a statement in the repository that they contradict or
outside the models: nested commits (above); the indices of `MultiDataSource`
(above); `updateReturnStatus` compares with the text of an array
(`ServiceTask.java:134`); `PropertyRegistry.java:255` calls `contains`, which looks for a
value, where a key is meant; `RedisCache` shares the shape of the blocked worker
(`RedisCache.java:49`, `:67`) with queues of 1000. There no comment promises more, so
`CallsEnd` names it as the exception: every call is carried out, or the worker of
its queue is blocked for ever (`RemoverBlocked`, `UpdaterBlocked`), while the other
queue and the other servers go on. Both blocks happen in the run.

## Proofs

All theorems are of the form `Spec => []Inv` or `Spec => [][A]_vars`, for every value
of the constants that satisfies the `ASSUME` of its module, except
`ScriptsImplementAllotment`, which states a refinement. No proof uses fairness: where
`Spec` has it (`ZookeeperCache`, `RedisCache`), the invariants follow from `Init` and
`Next`.

* `RedisLock_proofs` (`TypeCorrect`, `ExclusionHolds`, `AllOrNothingHolds`,
  `OnlyOwnerFreesHolds`). `Exclusion` speaks of what callers were told, so the
  invariant ties it to Redis: the entries of an object carry its value and its
  keys (`EntryInv`); as long as an object's lease runs, all its keys are its own
  with the time that is left (`LeaseInv`); an object that is not built has
  nothing (`NewInv`); only abandoned objects have a delete script in the network
  (`AbandonInv`). A delete that compares values then frees a sound object's keys
  only if it is that object's own.
* `IdGenerator_proofs` (`TypeCorrect`, `UniqueHolds`, `IncreasingHolds`). Every id is
  the packing of a time and a sequence number of its node (`NodeBits`), none later
  than the last one issued, and none in the last millisecond beyond the current
  sequence (`NodeInv`). Lemmas show that packing is monotone in the time and then
  in the sequence, and injective in the node.
* `ServiceConsumer_proofs` (`TypeCorrect`, `FinishedIsServedHolds`, `NoRepeatHolds`,
  `AttemptsExactHolds`, `RetryWaitsHolds`). `OriginInv` says that a job that was
  delivered once is the only one that counts under its name; `OnceInv` then gives
  the exact number of attempts of each task from `failedTimes` and the position of
  the loop, `FailedInv` the delays that were used, and `DueInv` that a running delay
  is with the scheduler. The number of usable delays is the cardinality of a
  prefix, compared with the failures by `UsableFacts`.

* `RedisScripts_proofs` (`TypeCorrect`, `StockConserved`, `LimitKept`, `LimiterExact`,
  `UpdatesKept`, `ScriptsImplementAllotment`). The invariants are inductive together
  with the types; the refinement maps the stock key to the units left (none if
  absent) and each script to `Give`, `Sell` or a stutter, an expiry to `Renew`.
* `Transactions_proofs` (`TypeCorrect`, `CountersStayBounded`, `ThreadsGoBackClean`,
  `StatusIsCovered`, `LossIsTold`, `RequestsAreSeparated`, `RouteIsKept`). The counters
  need that the threads inside their reset are counted exactly, by cardinality
  lemmas. The rest follows from an invariant of a single thread: what
  `MapperFactory` knows of its transaction (`Knows`), what is bound to the thread
  with it (`Bound`), what one request may leave to the next (`Leaves`); a step of one
  thread leaves the others' untouched (`WorkIsLocal`). The first attempt failed at
  `CommitStatus`: a status that only joined a forgotten transaction can be committed
  and leaves that transaction forgotten, which takes four statuses where the run
  had three. The fault is now recorded (`"stale"`), and the run has four.

* `ZookeeperCache_proofs` (`TypeCorrect`, `NotificationsReach`, `StaleIsTold`). The two
  properties speak of stored objects and of a connected client; to be inductive they
  are stated also for the objects that a thread in `add()` has loaded and not stored
  yet (`AddersReachable`, `AddersTold`), and for a client that is away, when a
  notification may still be with the service (`ObjectsTold`, `FiredOK`). An object
  goes stale only by its own dependencies (`StaleOK`), so what is watched is what
  matters. The steps fall into four kinds, each with a lemma of its own: a change of
  data that is queued (`QuietKeeps`), a thread in `add()` that moves on (`AdderMoves`,
  `MappingKeeps`, and `PutKeeps`, where the object takes over what held of the
  thread), an object that leaves (`ForgetKeeps`), and a notification that moves from
  watch to event to the watcher's loop (`ExcusesKeeps`). The proof shows that `excuse`
  is complete: each miss is recorded at the step where it happens.
* `RedisCache_proofs` (`TypeCorrect`, `CacheSettles`). `Settled` speaks of a key for
  which nothing is under way; the invariant says what is under way until then: a
  write that no answer has overtaken carries a good value, or another call that is
  going to repair it is queued or running (`DeletesOK`, `WritesOK`, `AddsOK`,
  `OrphansOK`, `RedisOK`). A delete does not repair itself, nor an update, hence
  `OtherUpdates`. A step without an answer only moves a call between the caller, a
  queue and a worker of its server (`Moves`); an answer marks the other writes of its
  key as late (`Answered`).

The inductive invariants were checked with TLC before they were proved. Liveness
(`KeysComeFree`, `LockReturns`, `OverflowReturns`, `JobsEnd`, `RateRenews`,
`ExpiresAreSent`, `StaleLeaves`, `CallsEnd`) is model-checked only: the prover has no
rules for fairness. Every invariant and every action property of a passing run is
proved. The modules use no recursive definitions.

## Not modelled

* The configuration registry, the ZooKeeper client and the service registry: left
  in the plan; their hazards are in `PROJECT.json`.
* `RedisEhCache`, `RedisInJVMCacheFactory`: local copies behind publish/subscribe.
* `destroy` and `init` of the caches, the timed `add`, and
  `multi_value_set.lua`, which sets each of its keys on its own (NX, XX or neither).
* Memcached, RabbitMQ and search wrappers, cookies, cryptography: each method is a
  call of a library or pure formatting, without state between calls.
* The JavaScript under `src/*/src/main/webapp/js`. It is three identical copies of
  the jQuery EasyUI widget library, third-party code that ships with the web
  consoles and has no logic of this framework in it. By lines it is most of the
  repository; the framework itself is the Java and Lua code, and only that is
  modelled and mapped.
