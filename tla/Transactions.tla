---------------------------- MODULE Transactions ----------------------------
(***************************************************************************)
(* The transactions of MapperFactory on pooled server threads, over        *)
(* DynamicDataSourceTransactionManager and DynamicSqlSessionTemplate, and  *)
(* the cleanup after a request: ConnectionCleanInterceptor.postHandle for  *)
(* web requests, CheckFilter for dubbo calls.  Everything but the routing  *)
(* counters (DataSources) is thread local.  Spring's transaction manager   *)
(* is external: a status either began the physical transaction of its      *)
(* thread or joined it.                                                    *)
(***************************************************************************)
EXTENDS DataSources

CONSTANTS
  Workers,   \* the threads that serve requests; the others only query
  Statuses,  \* bound: the TransactionStatus objects in use on one thread
  MaxDepth,  \* bound: nested beginTransaction() calls
  NoStatus,  \* no CounterTransactionStatus in the thread local
  NoTx       \* no physical transaction on the thread

ASSUME TransactionAssumption ==
  /\ Workers \subseteq Threads
  /\ MaxDepth \in Nat \ {0}
  /\ NoStatus \notin [id : Statuses, counter : Nat]
  /\ NoTx \notin [owner : Statuses, readOnly : BOOLEAN, rollbackOnly : BOOLEAN]

VARIABLES
  kind,      \* what the thread serves
  busy,      \* the thread is inside a handler
  local,     \* transactionstatusLocal: the status and its counter
  tx,        \* external: the physical transaction bound to the thread
  completed, \* external: the statuses for which isCompleted()
  handles,   \* the statuses beginTransaction() returned to the request
  holder,    \* DataSourceHolder.dataSources
  pending,   \* auxiliary: whose uncommitted writes the transaction holds
  lost,      \* auxiliary: the cleanup rolled back writes of the request
  reply,     \* auxiliary: what the caller was told last
  fault      \* auxiliary: what went wrong on the thread and is not yet undone

txVars == <<kind, busy, local, tx, completed, handles, holder, pending, lost, reply, fault>>
vars == <<sourceVars, txVars>>

Holder == {"none", "master", "slave"}

\* "stale": commitTransaction(status) was given another status than that of
\*   the transaction in progress, and forgot it;
\* "thrown": commitTransaction(status) threw and left a completed status;
\* "left": a handler threw and its transaction was not cleaned up;
\* "begin_failed": no connection for a transaction; the holder was set.
Fault == {"stale", "thrown", "left", "begin_failed"}

TypeOK ==
  /\ SourcesTypeOK
  /\ kind \in [Workers -> {"web", "dubbo"}]
  /\ busy \in [Workers -> BOOLEAN]
  /\ local \in [Workers -> [id : Statuses, counter : 1..MaxDepth] \cup {NoStatus}]
  /\ tx \in [Workers -> [owner : Statuses, readOnly : BOOLEAN, rollbackOnly : BOOLEAN] \cup {NoTx}]
  /\ completed \in [Workers -> SUBSET Statuses]
  /\ handles \in [Workers -> SUBSET Statuses]
  /\ holder \in [Workers -> Holder]
  /\ pending \in [Workers -> SUBSET {"own", "other"}]
  /\ lost \in [Workers -> BOOLEAN]
  /\ reply \in [Workers -> {"none", "ok", "error"}]
  /\ fault \in [Workers -> SUBSET Fault]

Init ==
  /\ SourcesInit
  /\ kind \in [Workers -> {"web", "dubbo"}]
  /\ busy = [t \in Workers |-> FALSE]
  /\ local = [t \in Workers |-> NoStatus]
  /\ tx = [t \in Workers |-> NoTx]
  /\ completed = [t \in Workers |-> {}]
  /\ handles = [t \in Workers |-> {}]
  /\ holder = [t \in Workers |-> "none"]
  /\ pending = [t \in Workers |-> {}]
  /\ lost = [t \in Workers |-> FALSE]
  /\ reply = [t \in Workers |-> "none"]
  /\ fault = [t \in Workers |-> {}]

\* The thread runs code of a request and is not inside a data source.
Running(t) == busy[t] /\ step[t] = "out"

-----------------------------------------------------------------------------
(* The transaction manager *)

\* doBegin() selects the data source before it asks for a connection.
Route(readOnly) == IF readOnly THEN "slave" ELSE "master"

\* The connection of a transaction comes from DynamicDataSource.
Connect(t, readOnly) == IF readOnly THEN TakeSlave(t) ELSE UNCHANGED sourceVars

\* The physical transaction ends, either way: doCleanupAfterCompletion().
EndTx(t) ==
  /\ tx' = [tx EXCEPT ![t] = NoTx]
  /\ pending' = [pending EXCEPT ![t] = {}]
  /\ holder' = [holder EXCEPT ![t] = "none"]

Owns(t, s) == tx[t] # NoTx /\ tx[t].owner = s

\* tranactionManager.commit(s): ends the transaction that s began.  It may
\* throw, and rolls back a transaction that is marked for it.
ManagerCommit(t, s) ==
  /\ completed' = [completed EXCEPT ![t] = @ \cup {s}]
  /\ IF Owns(t, s) THEN EndTx(t) ELSE UNCHANGED <<tx, pending, holder>>

\* tranactionManager.rollback(s): a status that joined can only mark it.
ManagerRollback(t, s) ==
  /\ completed' = [completed EXCEPT ![t] = @ \cup {s}]
  /\ IF Owns(t, s) THEN EndTx(t)
     ELSE /\ tx' = IF tx[t] = NoTx THEN tx ELSE [tx EXCEPT ![t].rollbackOnly = TRUE]
          /\ UNCHANGED <<pending, holder>>

\* The faults that are undone when the thread local is cleared, and when the
\* physical transaction ends.
Undone(forgets, ends) ==
  (IF forgets THEN {"left", "thrown"} ELSE {})
    \cup (IF ends THEN {"stale", "begin_failed"} ELSE {})

-----------------------------------------------------------------------------
(* MapperFactory *)

\* beginTransaction(definition) without a status: getTransaction() begins a
\* transaction.
BeginNew(t, readOnly) ==
  /\ Running(t)
  /\ local[t] = NoStatus /\ tx[t] = NoTx
  /\ \E s \in Statuses \ handles[t] :
       /\ local' = [local EXCEPT ![t] = [id |-> s, counter |-> 1]]
       /\ tx' = [tx EXCEPT ![t] = [owner |-> s, readOnly |-> readOnly, rollbackOnly |-> FALSE]]
       /\ completed' = [completed EXCEPT ![t] = @ \ {s}]
       /\ handles' = [handles EXCEPT ![t] = @ \cup {s}]
  /\ holder' = [holder EXCEPT ![t] = Route(readOnly)]
  /\ fault' = [fault EXCEPT ![t] = @ \ {"begin_failed"}]
  /\ Connect(t, readOnly)
  /\ UNCHANGED <<kind, busy, pending, lost, reply>>

\* The same, and there is no connection: getTransaction() throws, and nobody
\* clears what doBegin() put in the holder.
BeginFails(t, readOnly) ==
  /\ Running(t)
  /\ local[t] = NoStatus /\ tx[t] = NoTx
  /\ holder' = [holder EXCEPT ![t] = Route(readOnly)]
  /\ fault' = [fault EXCEPT ![t] = @ \cup {"begin_failed"}]
  /\ Connect(t, readOnly)
  /\ UNCHANGED <<kind, busy, local, tx, completed, handles, pending, lost, reply>>

\* The same on a thread with a forgotten transaction: the status joins it.
BeginJoins(t) ==
  /\ Running(t)
  /\ local[t] = NoStatus /\ tx[t] # NoTx
  /\ \E s \in Statuses \ (handles[t] \cup {tx[t].owner}) :
       /\ local' = [local EXCEPT ![t] = [id |-> s, counter |-> 1]]
       /\ completed' = [completed EXCEPT ![t] = @ \ {s}]
       /\ handles' = [handles EXCEPT ![t] = @ \cup {s}]
  /\ UNCHANGED <<sourceVars, kind, busy, tx, holder, pending, lost, reply, fault>>

\* beginTransaction() with a status: one level deeper.
BeginNested(t) ==
  /\ Running(t)
  /\ local[t] # NoStatus
  /\ local[t].counter < MaxDepth
  /\ local' = [local EXCEPT ![t].counter = @ + 1]
  /\ handles' = [handles EXCEPT ![t] = @ \cup {local[t].id}]
  /\ UNCHANGED <<sourceVars, kind, busy, tx, completed, holder, pending, lost, reply, fault>>

\* Mutant: a commit of the outermost level keeps the status.
MutCommitKeeps(t) ==
  /\ Running(t)
  /\ local[t] # NoStatus
  /\ local[t].counter < 2
  /\ local[t].id \notin completed[t]
  /\ ManagerCommit(t, local[t].id)
  /\ fault' = [fault EXCEPT ![t] = @ \ Undone(FALSE, Owns(t, local[t].id))]
  /\ UNCHANGED <<sourceVars, kind, busy, local, handles, lost, reply>>

\* commitTransaction().  At a counter of two or more it does nothing, and it
\* never counts down.  When the manager throws, the status is removed as well.
Commit(t) ==
  /\ Running(t)
  /\ local[t] # NoStatus
  /\ local[t].counter < 2
  /\ IF local[t].id \notin completed[t]
     THEN ManagerCommit(t, local[t].id)
     ELSE UNCHANGED <<completed, tx, pending, holder>>
  /\ local' = [local EXCEPT ![t] = NoStatus]
  /\ fault' = [fault EXCEPT ![t] =
                 @ \ Undone(TRUE, local[t].id \notin completed[t] /\ Owns(t, local[t].id))]
  /\ UNCHANGED <<sourceVars, kind, busy, handles, lost, reply>>

\* commitTransaction(status), whatever the counter says.
CommitStatus(t, s) ==
  /\ Running(t)
  /\ s \in handles[t]
  /\ s \notin completed[t]
  /\ ManagerCommit(t, s)
  /\ local' = [local EXCEPT ![t] = NoStatus]
  /\ fault' = [fault EXCEPT ![t] =
                 (@ \ Undone(TRUE, Owns(t, s))) \cup (IF tx'[t] # NoTx THEN {"stale"} ELSE {})]
  /\ UNCHANGED <<sourceVars, kind, busy, handles, lost, reply>>

\* The same, and the manager throws: the thread local is not touched.
CommitStatusThrows(t, s) ==
  /\ Running(t)
  /\ s \in handles[t]
  /\ s \notin completed[t]
  /\ ManagerCommit(t, s)
  /\ fault' = [fault EXCEPT ![t] = (@ \ Undone(FALSE, Owns(t, s)))
                                     \cup (IF local[t] # NoStatus THEN {"thrown"} ELSE {})]
  /\ UNCHANGED <<sourceVars, kind, busy, local, handles, lost, reply>>

\* The same with a completed status: only the thread local is cleared, even
\* if it holds another transaction.
CommitStatusAgain(t, s) ==
  /\ Running(t)
  /\ s \in handles[t]
  /\ s \in completed[t]
  /\ local' = [local EXCEPT ![t] = NoStatus]
  /\ fault' = [fault EXCEPT ![t] =
                 (@ \ Undone(TRUE, FALSE)) \cup (IF tx[t] # NoTx THEN {"stale"} ELSE {})]
  /\ UNCHANGED <<sourceVars, kind, busy, tx, completed, handles, holder, pending, lost, reply>>

\* Mutant: a rollback does not remove the status.
MutRollbackKeeps(t) ==
  /\ IF local[t].id \notin completed[t]
     THEN ManagerRollback(t, local[t].id)
     ELSE UNCHANGED <<completed, tx, pending, holder>>
  /\ UNCHANGED local
  /\ fault' = [fault EXCEPT ![t] =
                 @ \ Undone(FALSE, local[t].id \notin completed[t] /\ Owns(t, local[t].id))]

\* doRollback(): whether the manager throws or not.
DoRollback(t) ==
  /\ IF local[t].id \notin completed[t]
     THEN ManagerRollback(t, local[t].id)
     ELSE UNCHANGED <<completed, tx, pending, holder>>
  /\ local' = [local EXCEPT ![t] = NoStatus]
  /\ fault' = [fault EXCEPT ![t] =
                 @ \ Undone(TRUE, local[t].id \notin completed[t] /\ Owns(t, local[t].id))]

\* rollbackTransaction(): one level up; the outermost one rolls back.
RollbackNested(t) ==
  /\ Running(t)
  /\ local[t] # NoStatus
  /\ local[t].counter > 1
  /\ local' = [local EXCEPT ![t].counter = @ - 1]
  /\ UNCHANGED <<sourceVars, kind, busy, tx, completed, handles, holder, pending, lost, reply, fault>>

Rollback(t) ==
  /\ Running(t)
  /\ local[t] # NoStatus
  /\ local[t].counter = 1
  /\ DoRollback(t)
  /\ UNCHANGED <<sourceVars, kind, busy, handles, lost, reply>>

-----------------------------------------------------------------------------
(* DynamicSqlSessionTemplate.  In a transaction the connection is given. *)

WriteInTx(t) ==
  /\ Running(t)
  /\ tx[t] # NoTx
  /\ pending' = [pending EXCEPT ![t] = @ \cup {"own"}]
  /\ UNCHANGED <<sourceVars, kind, busy, local, tx, completed, handles, holder, lost, reply, fault>>

\* Mutant: the interceptor does not look for a transaction.
MutAlwaysRoutes(t) ==
  /\ Running(t)
  /\ holder' = [holder EXCEPT ![t] = "none"]
  /\ fault' = [fault EXCEPT ![t] = @ \ {"begin_failed"}]
  /\ \/ UNCHANGED sourceVars
     \/ TakeSlave(t)
  /\ UNCHANGED <<kind, busy, local, tx, completed, handles, pending, lost, reply>>

\* Outside, the interceptor routes a write or a select with the hint to the
\* master and a select to a slave; another call goes where the holder says.
\* Whatever the call does, the holder is cleared after it.
Statement(t) ==
  /\ Running(t)
  /\ tx[t] = NoTx
  /\ holder' = [holder EXCEPT ![t] = "none"]
  /\ fault' = [fault EXCEPT ![t] = @ \ {"begin_failed"}]
  /\ \/ UNCHANGED sourceVars
     \/ TakeSlave(t)
  /\ UNCHANGED <<kind, busy, local, tx, completed, handles, pending, lost, reply>>

-----------------------------------------------------------------------------
(* Requests *)

StartRequest(t) ==
  /\ ~busy[t]
  /\ busy' = [busy EXCEPT ![t] = TRUE]
  /\ handles' = [handles EXCEPT ![t] = {}]
  /\ pending' = [pending EXCEPT ![t] = IF @ = {} THEN {} ELSE {"other"}]
  /\ lost' = [lost EXCEPT ![t] = FALSE]
  /\ reply' = [reply EXCEPT ![t] = "none"]
  /\ UNCHANGED <<sourceVars, kind, local, tx, completed, holder, fault>>

\* Mutant: the cleanup counts down as rollbackTransaction() does.
MutCountsDown(t) ==
  IF local[t] = NoStatus THEN UNCHANGED <<local, tx, completed, holder, pending, fault>>
  ELSE IF local[t].counter = 1 THEN DoRollback(t)
  ELSE /\ local' = [local EXCEPT ![t].counter = @ - 1]
       /\ UNCHANGED <<tx, completed, holder, pending, fault>>

\* realRollbackTransaction(): rolls back at any depth.
RealRollback(t) ==
  IF local[t] # NoStatus
  THEN DoRollback(t)
  ELSE UNCHANGED <<local, tx, completed, holder, pending, fault>>

\* Mutant: CheckFilter returns the result of the call in any case.
MutTellsNobody(t, threw) == IF threw THEN "error" ELSE "ok"

\* What the caller gets: CheckFilter throws when it finds a transaction,
\* postHandle only logs it.
Answer(t, threw) ==
  IF threw \/ (kind[t] = "dubbo" /\ local[t] # NoStatus) THEN "error" ELSE "ok"

\* checkAndRollbackTransaction() after a handler.  dubbo hands CheckFilter
\* the exception of a service inside the result; Spring calls postHandle
\* only after a handler that returned.
EndRequest(t, threw) ==
  /\ Running(t)
  /\ threw => kind[t] = "dubbo"
  /\ busy' = [busy EXCEPT ![t] = FALSE]
  /\ RealRollback(t)
  /\ lost' = [lost EXCEPT ![t] = "own" \in pending[t] /\ "own" \notin pending'[t]]
  /\ reply' = [reply EXCEPT ![t] = Answer(t, threw)]
  /\ UNCHANGED <<sourceVars, kind, handles>>

\* A web handler, or the invoker of CheckFilter itself, throws: no cleanup.
CutRequest(t) ==
  /\ Running(t)
  /\ busy' = [busy EXCEPT ![t] = FALSE]
  /\ reply' = [reply EXCEPT ![t] = "error"]
  /\ fault' = [fault EXCEPT ![t] = @ \cup (IF local[t] # NoStatus THEN {"left"} ELSE {})]
  /\ UNCHANGED <<sourceVars, kind, local, tx, completed, handles, holder, pending, lost>>

Work(t) ==
  \/ StartRequest(t) \/ CutRequest(t)
  \/ \E b \in BOOLEAN : BeginNew(t, b) \/ BeginFails(t, b) \/ EndRequest(t, b)
  \/ BeginJoins(t) \/ BeginNested(t) \/ Commit(t) \/ RollbackNested(t) \/ Rollback(t)
  \/ \E s \in Statuses : CommitStatus(t, s) \/ CommitStatusThrows(t, s) \/ CommitStatusAgain(t, s)
  \/ WriteInTx(t) \/ Statement(t)

\* What every thread may do at a data source.
Query(t) ==
  \/ t \notin Workers /\ TakeSlave(t)
  \/ TakeKey(t)
  \/ ResetCounter(t)
  \/ ResetIndex(t)

Next ==
  \/ \E t \in Workers : Work(t)
  \/ \E t \in Threads : Query(t) /\ UNCHANGED txVars

Spec == Init /\ [][Next]_vars

-----------------------------------------------------------------------------
(* Properties *)

\* Between requests a pooled thread carries no status, no open transaction, no
\* uncommitted write and no routing decision into the next request, unless an
\* earlier request threw, failed to begin, or committed a status twice
\* (checkAndRollbackTransaction, doCleanupAfterCompletion).
CleanThread ==
  \A t \in Workers :
    ~busy[t] /\ fault[t] = {} =>
      local[t] = NoStatus /\ tx[t] = NoTx /\ pending[t] = {} /\ holder[t] = "none"

\* As long as MapperFactory knows a status, the thread is inside a physical
\* transaction: what is written after beginTransaction() is never committed
\* statement by statement, except after commitTransaction(status) threw and
\* left its completed status behind.  The transaction is the status's own
\* unless one was forgotten before.
Covered ==
  \A t \in Workers :
    local[t] # NoStatus /\ "thrown" \notin fault[t] =>
      /\ tx[t] # NoTx
      /\ "stale" \notin fault[t] => tx[t].owner = local[t].id

\* A dubbo caller that gets a result has not lost a write to the cleanup, and
\* none of its writes waits in an open transaction, whatever the nesting of
\* begins, commits and rollbacks in the service (CheckFilter.invoke).
NoSilentLoss ==
  \A t \in Workers :
    ~busy[t] /\ kind[t] = "dubbo" /\ reply[t] = "ok" /\ "stale" \notin fault[t] =>
      ~lost[t] /\ pending[t] = {}

\* A request finds uncommitted writes of an earlier one on its thread only if
\* that one threw past the cleanup or left its transaction forgotten.
Separated ==
  \A t \in Workers :
    "other" \in pending[t] => fault[t] \cap {"left", "stale"} # {}

\* While a transaction is open the thread's data source stays the one chosen
\* at its begin (the comments of SqlSessionInterceptor: "the entry of the
\* transaction has chosen the data source"); outside, the holder is empty
\* unless a begin failed.
RouteKept ==
  \A t \in Workers :
    IF tx[t] # NoTx THEN holder[t] = Route(tx[t].readOnly)
    ELSE holder[t] = "none" \/ "begin_failed" \in fault[t]
=============================================================================
