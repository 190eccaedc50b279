-------------------------- MODULE ServiceConsumer --------------------------
(***************************************************************************)
(* The job pipeline of yz-framework-service-consumer: a ServiceJob travels *)
(* as a JMS message, a listener receives it, ExecuteTask.doWork posts each *)
(* unsuccessful task to its service, and a job with failures is sent back  *)
(* to its queue with the next delay of its list, or to the failed queue    *)
(* when the list is used up.  The listener containers acknowledge a        *)
(* message when they receive it, so what a handler drops is gone; an       *)
(* acknowledgement that does not reach the broker duplicates the message.  *)
(*                                                                         *)
(* ActiveMQ, Redis and the services are external.  Time is in ticks, and   *)
(* so are the delays: a delay of the list is the int getDelaySeconds()     *)
(* returns for its text, not positive for a text it does not understand.   *)
(***************************************************************************)
EXTENDS Integers, Sequences, FiniteSets

CONSTANTS
  Messages,   \* the messages there may be, the duplicates included
  Jobs,       \* the jobs that may be produced
  Switches,   \* the values of the Redis key queue:control:delay
  NoKey,      \* that key is absent
  MaxTasks,   \* bound: tasks of a job
  IntSize     \* an int counts milliseconds up to this many ticks

TaskIds == 1..MaxTasks

Job == [tasks : 0..MaxTasks, delays : Seq(Int), queue : {"service", "wms", "delayed"},
        custom : BOOLEAN, mode : {"SEQ", "CON"}]

ASSUME ConsumerAssumption ==
  /\ Jobs \subseteq Job
  /\ Switches \subseteq Int
  /\ NoKey \notin Switches
  /\ MaxTasks \in Nat
  /\ IntSize \in Nat \ {0}

VARIABLES
  place,       \* where each message is, in the broker or in a handler
  job,         \* the job in its body
  done,        \* its tasks with success = true
  failedTimes, \* ServiceJob.failedTimes
  scheduledId, \* the message carries the property AMQ_SCHEDULED_ID
  timer,       \* the broker's scheduler: ticks until it delivers the message
  at,          \* the task the handler's loop is at
  switch,      \* the Redis key queue:control:delay
  origin,      \* auxiliary: the message this one is a duplicate of, or itself
  attempts,    \* auxiliary: how often executeTask ran, by origin and task
  served,      \* auxiliary: the tasks the service answered "ok", by origin
  due          \* auxiliary: ticks left of the delay the job asked for

vars == <<place, job, done, failedTimes, scheduledId, timer, at, switch,
          origin, attempts, served, due>>

Handling == {"received", "reading", "working", "calling"}
Ended == {"finished", "failed_queue", "lost"}
Place == {"unused", "scheduled", "queued"} \cup Handling \cup Ended

TypeOK ==
  /\ place \in [Messages -> Place]
  /\ job \in [Messages -> Jobs]
  /\ done \in [Messages -> SUBSET TaskIds]
  /\ failedTimes \in [Messages -> Nat]
  /\ scheduledId \in [Messages -> BOOLEAN]
  /\ timer \in [Messages -> Nat]
  /\ \A m \in Messages : place[m] = "scheduled" <=> timer[m] > 0
  /\ at \in [Messages -> Nat]
  /\ switch \in Switches \cup {NoKey}
  /\ origin \in [Messages -> Messages]
  /\ attempts \in [Messages -> [TaskIds -> Nat]]
  /\ served \in [Messages -> SUBSET TaskIds]
  /\ due \in [Messages -> Nat]

Init ==
  /\ place = [m \in Messages |-> "unused"]
  /\ job \in [Messages -> Jobs]
  /\ done = [m \in Messages |-> {}]
  /\ failedTimes = [m \in Messages |-> 0]
  /\ scheduledId = [m \in Messages |-> FALSE]
  /\ timer = [m \in Messages |-> 0]
  /\ at = [m \in Messages |-> 0]
  /\ switch = NoKey
  /\ origin = [m \in Messages |-> m]
  /\ attempts = [m \in Messages |-> [t \in TaskIds |-> 0]]
  /\ served = [m \in Messages |-> {}]
  /\ due = [m \in Messages |-> 0]

-----------------------------------------------------------------------------
(* Messages and the broker *)

\* int arithmetic: what is left of d ticks when the milliseconds wrap around.
Wrap(d) == ((d + IntSize) % (2 * IntSize)) - IntSize

\* Mutant: createMessage keeps AMQ_SCHEDULED_ID.
MutKeepsScheduledId(m) == scheduledId[m]

\* createMessage copies the properties, AMQ_SCHEDULED_ID left out.
ScheduledId(m) == FALSE

\* Mutant: a delay that wrapped around to a time in the past is scheduled.
MutSchedulesPast(m, d) ==
  /\ place' = [place EXCEPT ![m] = "scheduled"]
  /\ timer' = [timer EXCEPT ![m] = Wrap(d)]
  /\ scheduledId' = [scheduledId EXCEPT ![m] = ScheduledId(m)]

\* The handler's message is sent again with delay d > 0.  The broker schedules
\* it unless it carries the id of a schedule; a delay that wrapped around to a
\* time in the past is over at once.
SendDelayed(m, d) ==
  LET waits == ~ScheduledId(m) /\ Wrap(d) > 0
  IN  /\ place' = [place EXCEPT ![m] = IF waits THEN "scheduled" ELSE "queued"]
      /\ timer' = [timer EXCEPT ![m] = IF waits THEN Wrap(d) ELSE 0]
      /\ scheduledId' = [scheduledId EXCEPT ![m] = ScheduledId(m)]

\* A client produces a job.
Produce(m) ==
  /\ place[m] = "unused"
  /\ place' = [place EXCEPT ![m] = "queued"]
  /\ UNCHANGED <<job, done, failedTimes, scheduledId, timer, at, switch,
                 origin, attempts, served, due>>

\* A listener receives a message: the broker forgets it.
Receive(m) ==
  /\ place[m] = "queued"
  /\ place' = [place EXCEPT ![m] = "received"]
  /\ at' = [at EXCEPT ![m] = 0]
  /\ UNCHANGED <<job, done, failedTimes, scheduledId, timer, switch,
                 origin, attempts, served, due>>

\* The acknowledgement of m is lost with the connection, and the broker
\* delivers the message again, as n.
Redeliver(m, n) ==
  /\ place[m] = "received"
  /\ place[n] = "unused"
  /\ place' = [place EXCEPT ![n] = "queued"]
  /\ job' = [job EXCEPT ![n] = job[m]]
  /\ done' = [done EXCEPT ![n] = done[m]]
  /\ failedTimes' = [failedTimes EXCEPT ![n] = failedTimes[m]]
  /\ scheduledId' = [scheduledId EXCEPT ![n] = scheduledId[m]]
  /\ origin' = [origin EXCEPT ![n] = origin[m]]
  /\ due' = [due EXCEPT ![n] = due[m]]
  /\ UNCHANGED <<timer, at, switch, attempts, served>>

\* Time passes; the scheduler delivers the messages whose delay is over, with
\* the id of their schedule.
Tick ==
  /\ \E m \in Messages : timer[m] > 0 \/ due[m] > 0
  /\ timer' = [m \in Messages |-> IF timer[m] > 0 THEN timer[m] - 1 ELSE 0]
  /\ due' = [m \in Messages |-> IF due[m] > 0 THEN due[m] - 1 ELSE 0]
  /\ place' = [m \in Messages |-> IF timer[m] = 1 THEN "queued" ELSE place[m]]
  /\ scheduledId' = [m \in Messages |-> scheduledId[m] \/ timer[m] = 1]
  /\ UNCHANGED <<job, done, failedTimes, at, switch, origin, attempts, served>>

\* Somebody sets or deletes the Redis key queue:control:delay.
SetSwitch ==
  /\ switch' \in (Switches \cup {NoKey}) \ {switch}
  /\ UNCHANGED <<place, job, done, failedTimes, scheduledId, timer, at,
                 origin, attempts, served, due>>

-----------------------------------------------------------------------------
(* The listeners *)

\* processMessage: the service and wms listeners call doWork; the delayed
\* control listener first asks Redis whether the key exists.
ProcessMessage(m) ==
  /\ place[m] = "received"
  /\ place' = [place EXCEPT ![m] = IF job[m].queue = "delayed" /\ switch # NoKey
                                   THEN "reading" ELSE "working"]
  /\ UNCHANGED <<job, done, failedTimes, scheduledId, timer, at, switch,
                 origin, attempts, served, due>>

\* Mutant: a delay of zero sends the message back, too.
MutPutsBackZero(m) ==
  /\ place[m] = "reading"
  /\ switch # NoKey /\ switch >= 0
  /\ SendDelayed(m, switch)
  /\ UNCHANGED <<job, done, failedTimes, at, switch, origin, attempts, served, due>>

\* The listener reads the key and sends the message back to its queue.
PutBack(m) ==
  /\ place[m] = "reading"
  /\ switch # NoKey /\ switch > 0
  /\ SendDelayed(m, switch)
  /\ UNCHANGED <<job, done, failedTimes, at, switch, origin, attempts, served, due>>

\* The listener reads the key: no delay, or the key is gone by now, and
\* Integer.valueOf(null) throws the message away.
ReadSwitch(m) ==
  /\ place[m] = "reading"
  /\ \/ switch = NoKey /\ place' = [place EXCEPT ![m] = "lost"]
     \/ /\ switch # NoKey /\ switch <= 0
        /\ place' = [place EXCEPT ![m] = "working"]
  /\ UNCHANGED <<job, done, failedTimes, scheduledId, timer, at, switch,
                 origin, attempts, served, due>>

-----------------------------------------------------------------------------
(* ExecuteTask.doWork *)

Undone(m) == (1..job[m].tasks) \ done[m]

\* Mutant: doWork does not ask whether a task has succeeded already.
MutRunsAll(m) == {t \in 1..job[m].tasks : t > at[m]}

\* The tasks the loop still has to execute: those after this one that have not
\* succeeded.  invokeMode is not looked at.
Remaining(m) == {t \in Undone(m) : t > at[m]}

\* The loop goes on to its next task: executeTask posts the task's data to the URL configured for its service.
Call(m) ==
  /\ place[m] = "working"
  /\ place' = [place EXCEPT ![m] = "calling"]
  /\ \E t \in Remaining(m) :
       /\ \A u \in Remaining(m) : t <= u
       /\ at' = [at EXCEPT ![m] = t]
       /\ attempts' = [attempts EXCEPT ![origin[m]][t] = @ + 1]
  /\ UNCHANGED <<job, done, failedTimes, scheduledId, timer, switch, origin, served, due>>

\* What executeTask makes of a call: the service answers with status 0 or
\* 10000, or with another one; or there is no URL, no connection, no answer in
\* time or no JSON in it: -1.
Statuses == {"ok", "other", "-1"}

\* Mutant: the status stays 0 when the call fails.
MutFailureIsZero(m, status) == ~job[m].custom /\ status # "other"

\* ServiceTask.updateReturnStatus.  With a successStatus of its own the task
\* compares each status of the list with the text of the array: never equal.
IsSuccess(m, status) == ~job[m].custom /\ status = "ok"

Return(m) ==
  /\ place[m] = "calling"
  /\ place' = [place EXCEPT ![m] = "working"]
  /\ \E status \in Statuses :
       /\ done' = IF IsSuccess(m, status) THEN [done EXCEPT ![m] = @ \cup {at[m]}] ELSE done
       /\ served' = IF status = "ok" THEN [served EXCEPT ![origin[m]] = @ \cup {at[m]}]
                    ELSE served
  /\ UNCHANGED <<job, failedTimes, scheduledId, timer, at, switch, origin, attempts, due>>

\* ServiceJob.getDelaySeconds, with the failures f counted so far.
GetDelaySeconds(m, f) ==
  IF f < 1 \/ f > Len(job[m].delays) THEN -1 ELSE job[m].delays[f]

\* The loop is over, and no task failed.
Finish(m) ==
  /\ place[m] = "working"
  /\ Undone(m) = {}
  /\ place' = [place EXCEPT ![m] = "finished"]
  /\ UNCHANGED <<job, done, failedTimes, scheduledId, timer, at, switch,
                 origin, attempts, served, due>>

\* The loop is over, and some task failed: the failure is counted.
RoundFailed(m) ==
  /\ place[m] = "working"
  /\ Remaining(m) = {}
  /\ Undone(m) # {}
  /\ failedTimes' = [failedTimes EXCEPT ![m] = @ + 1]

\* Mutant: the failures counted in the body do not reach the message.
MutBodyNotSet(m) ==
  /\ place[m] = "working" /\ Remaining(m) = {} /\ Undone(m) # {}
  /\ GetDelaySeconds(m, failedTimes[m] + 1) > 0
  /\ SendDelayed(m, GetDelaySeconds(m, failedTimes[m] + 1))
  /\ due' = [due EXCEPT ![m] = GetDelaySeconds(m, failedTimes[m] + 1)]
  /\ UNCHANGED <<job, done, failedTimes, at, switch, origin, attempts, served>>

\* The job goes back to its queue with its next delay.
Retry(m) ==
  /\ RoundFailed(m)
  /\ GetDelaySeconds(m, failedTimes'[m]) > 0
  /\ SendDelayed(m, GetDelaySeconds(m, failedTimes'[m]))
  /\ due' = [due EXCEPT ![m] = GetDelaySeconds(m, failedTimes'[m])]
  /\ UNCHANGED <<job, done, at, switch, origin, attempts, served>>

\* The job goes to the failed queue of its listener.
GiveUp(m) ==
  /\ RoundFailed(m)
  /\ GetDelaySeconds(m, failedTimes'[m]) <= 0
  /\ place' = [place EXCEPT ![m] = "failed_queue"]
  /\ scheduledId' = [scheduledId EXCEPT ![m] = ScheduledId(m)]
  /\ UNCHANGED <<job, done, timer, at, switch, origin, attempts, served, due>>

\* A handler is cut short: parsing the body, reading the key, reading the delay
\* or producing the message throws, which is logged; or the process dies.
CutShort(m) ==
  /\ place[m] \in Handling
  /\ place' = [place EXCEPT ![m] = "lost"]
  /\ UNCHANGED <<job, done, failedTimes, scheduledId, timer, at, switch,
                 origin, attempts, served, due>>

-----------------------------------------------------------------------------

\* The step of a handler that is not cut short.
HandlerStep(m) ==
  \/ Receive(m) \/ ProcessMessage(m) \/ PutBack(m) \/ ReadSwitch(m)
  \/ Call(m) \/ Return(m) \/ Finish(m) \/ Retry(m) \/ GiveUp(m)

Next ==
  \/ \E m \in Messages : Produce(m) \/ HandlerStep(m) \/ CutShort(m)
  \/ \E m, n \in Messages : Redeliver(m, n)
  \/ Tick
  \/ SetSwitch

Spec == Init /\ [][Next]_vars

\* Time passes, the listener containers poll their queues, a handler's thread
\* runs and an HTTP call ends, by its timeout at the latest.
Fairness == WF_vars(Tick) /\ \A m \in Messages : WF_vars(HandlerStep(m))
FairSpec == Spec /\ Fairness

-----------------------------------------------------------------------------
(* Properties *)

\* The broker never delivered the job of m twice.
DeliveredOnce(m) == \A n \in Messages : n # m => origin[n] # origin[m]

\* A job that left the pipeline as finished was served: its services answered
\* every one of its tasks with success, in this round or in an earlier one,
\* whatever was retried, delivered twice or cut short meanwhile (doWork).
FinishedIsServed ==
  \A m \in Messages :
    place[m] = "finished" => 1..job[m].tasks \subseteq served[origin[m]]

CallsOnlyUnserved ==
  \A m \in Messages : Call(m) /\ DeliveredOnce(m) /\ ~job[m].custom =>
    at'[m] \notin served[m]

\* No task is posted again once its success is known: the success flag
\* survives the way through the queue and the other tasks' failures.  (Only for
\* a job the broker delivers once, with the default success statuses.)
NoRepeat == [][CallsOnlyUnserved]_vars

\* The delays at the head of the list that are usable.
UsableDelays(m) ==
  Cardinality({i \in DOMAIN job[m].delays : \A k \in 1..i : job[m].delays[k] > 0})

\* A task is tried once and once more for each usable delay of its job, never
\* more often; and a job is in the failed queue only after its failed tasks
\* were tried that often (increaseFailedTimes, getDelaySeconds).
AttemptsExact ==
  \A m \in Messages : DeliveredOnce(m) => \A t \in 1..job[m].tasks :
    /\ attempts[m][t] <= 1 + UsableDelays(m)
    /\ place[m] = "failed_queue" /\ t \notin done[m] => attempts[m][t] = 1 + UsableDelays(m)

\* A retry starts after the delay the job asked for, however often the message
\* was scheduled before, if the delay's milliseconds fit an int.
RetryWaits ==
  \A m \in Messages :
    /\ place[m] \in Handling
    /\ \A i \in DOMAIN job[m].delays : job[m].delays[i] < IntSize
    => due[m] = 0

\* Every job ends, served, in the failed queue or lost, unless the delay switch
\* is on again and again.
JobsEnd ==
  \A m \in Messages :
    \/ []<>(switch # NoKey /\ switch > 0)
    \/ place[m] # "unused" ~> place[m] \in Ended

CallsInOrder ==
  \A m \in Messages : Call(m) /\ job[m].mode = "SEQ" =>
    1..(at'[m] - 1) \subseteq done[m]

\* INVOKE_MODE_SEQ: "sequential mode: while an earlier task has not succeeded,
\* the later tasks must not be executed" (ServiceJob.java:57).
SequentialMode == [][CallsInOrder]_vars
=============================================================================
