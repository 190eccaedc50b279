---------------------- MODULE ServiceConsumer_proofs ----------------------
(***************************************************************************)
(* Proofs about ServiceConsumer, for any messages, jobs and delays.        *)
(* A job that is delivered once is the only writer of what is counted      *)
(* under its origin; the counters of its message then say exactly how      *)
(* often each of its tasks was tried.                                      *)
(***************************************************************************)
EXTENDS ServiceConsumer, FiniteSetTheorems, TLAPS

\* Duplicates name a message that was produced; nothing happened to a message
\* that does not exist yet.
OriginInv ==
  \A m \in Messages :
    /\ origin[origin[m]] = origin[m]
    /\ origin[m] # m => place[origin[m]] # "unused"
    /\ place[m] = "unused" => /\ origin[m] = m /\ done[m] = {} /\ served[m] = {}
                              /\ failedTimes[m] = 0 /\ due[m] = 0
                              /\ \A t \in TaskIds : attempts[m][t] = 0

\* Where the loop of doWork is.
LoopInv ==
  \A m \in Messages :
    /\ place[m] \in {"received", "reading"} => at[m] = 0
    /\ place[m] = "calling" => at[m] \in 1..job[m].tasks
    /\ place[m] = "finished" => 1..job[m].tasks \subseteq done[m]

\* Successes were answered by the service.
ServedInv == \A m \in Messages : done[m] \subseteq served[origin[m]]

\* The failures counted so far, and the delays they have used.
Used(m) == IF place[m] = "failed_queue" THEN failedTimes[m] - 1 ELSE failedTimes[m]

FailedInv ==
  \A m \in Messages :
    /\ Used(m) \in 0..Len(job[m].delays)
    /\ \A k \in 1..Used(m) : job[m].delays[k] > 0
    /\ place[m] = "failed_queue" =>
         Used(m) = Len(job[m].delays) \/ job[m].delays[Used(m) + 1] <= 0

\* In this round, the loop has come past task t.
Passed(m, t) == place[m] \in Handling /\ t <= at[m]

\* What is counted for a job that was delivered once.
Once(m) ==
  /\ ~job[m].custom => served[m] \subseteq done[m]
  /\ \A t \in 1..job[m].tasks :
       /\ attempts[m][t] <= failedTimes[m] + 1
       /\ place[m] \notin {"finished", "lost"} /\ ~Passed(m, t) => attempts[m][t] <= failedTimes[m]
       /\ place[m] \notin {"finished", "lost"} /\ t \notin done[m] =>
            attempts[m][t] = IF Passed(m, t) THEN failedTimes[m] + 1 ELSE failedTimes[m]

OnceInv == \A m \in Messages : DeliveredOnce(m) => Once(m)

Fits(m) == \A i \in DOMAIN job[m].delays : job[m].delays[i] < IntSize

\* While a delay is running, the message is with the broker's scheduler.
DueInv ==
  \A m \in Messages : Fits(m) /\ due[m] > 0 => place[m] = "scheduled" /\ timer[m] >= due[m]

IndInv == TypeOK /\ OriginInv /\ LoopInv /\ ServedInv /\ FailedInv /\ OnceInv /\ DueInv

-----------------------------------------------------------------------------
(* Lemmas *)

\* What the types of the constants say of a job.
LEMMA JobFacts ==
  ASSUME NEW j \in Jobs
  PROVE  /\ j.tasks \in 0..MaxTasks
         /\ 1..j.tasks \subseteq TaskIds
         /\ j.delays \in Seq(Int)
         /\ Len(j.delays) \in Nat
         /\ DOMAIN j.delays = 1..Len(j.delays)
         /\ \A k \in 1..Len(j.delays) : j.delays[k] \in Int
         /\ j.custom \in BOOLEAN
<1>1. j.tasks \in 0..MaxTasks /\ j.delays \in Seq(Int) /\ j.custom \in BOOLEAN /\ MaxTasks \in Nat
  BY ConsumerAssumption DEF Job
<1> QED BY <1>1 DEF TaskIds

\* What the types say of a task of m's job.
LEMMA TaskFacts ==
  ASSUME TypeOK, NEW m \in Messages, NEW t \in 1..job[m].tasks
  PROVE  t \in TaskIds /\ t \in Nat /\ at[m] \in Nat /\ \A o \in Messages : attempts[o][t] \in Nat
<1>1. job[m] \in Jobs /\ at[m] \in Nat /\ attempts \in [Messages -> [TaskIds -> Nat]]
  BY DEF TypeOK
<1>2. t \in TaskIds
  BY <1>1, JobFacts
<1>3. t \in Nat
  BY <1>2 DEF TaskIds
<1> QED BY <1>1, <1>2, <1>3

\* A delay whose milliseconds fit an int does not wrap around.
LEMMA WrapFits ==
  ASSUME NEW d \in Int, d > 0, d < IntSize
  PROVE  Wrap(d) = d
BY ConsumerAssumption DEF Wrap

\* Delays stay integers when they wrap around.
LEMMA WrapType ==
  ASSUME NEW d \in Int
  PROVE  Wrap(d) \in Int
BY ConsumerAssumption DEF Wrap

\* A message delivered once is its own origin, and nobody else counts there.
LEMMA OnceFacts ==
  ASSUME TypeOK, OriginInv, NEW m \in Messages, DeliveredOnce(m)
  PROVE  origin[m] = m /\ \A n \in Messages : origin[n] = m => n = m
BY DEF TypeOK, OriginInv, DeliveredOnce

\* A step of m's handler leaves what is counted for the other jobs alone.
LEMMA OnceOthers ==
  ASSUME IndInv, NEW m \in Messages, NEW n \in Messages, n # m, DeliveredOnce(n),
         UNCHANGED <<job, origin>>,
         place'[n] = place[n], done'[n] = done[n], failedTimes'[n] = failedTimes[n],
         at'[n] = at[n],
         \A o \in Messages : o # origin[m] => attempts'[o] = attempts[o] /\ served'[o] = served[o]
  PROVE  Once(n)'
<1>1. origin[m] # n
  BY OnceFacts DEF IndInv
<1>2. attempts'[n] = attempts[n] /\ served'[n] = served[n]
  BY <1>1
<1> QED BY <1>2 DEF IndInv, OnceInv, Once, Passed

\* A step that counts nothing and goes past no task.
LEMMA OnceKept ==
  ASSUME IndInv, NEW m \in Messages,
         UNCHANGED <<job, done, failedTimes, origin, attempts, served>>,
         \A n \in Messages : n # m => place'[n] = place[n] /\ at'[n] = at[n],
         \/ place'[m] \in {"finished", "lost"}
         \/ /\ place[m] \notin {"finished", "lost"}
            /\ \A t \in 1..job[m].tasks : Passed(m, t)' <=> Passed(m, t)
  PROVE  OnceInv'
<1> SUFFICES ASSUME NEW n \in Messages, DeliveredOnce(n)' PROVE Once(n)'
  BY DEF OnceInv
<1>1. DeliveredOnce(n)
  BY DEF DeliveredOnce
<1>2. CASE n # m
  BY <1>1, <1>2, OnceOthers
<1>3. CASE n = m
  <2>1. Once(m)
    BY <1>1, <1>3 DEF IndInv, OnceInv
  <2> QED BY <1>3, <2>1 DEF Once, Passed
<1> QED BY <1>2, <1>3

-----------------------------------------------------------------------------
(* The steps *)

\* A client produces a job (Producer.produce).
LEMMA ProduceStep ==
  ASSUME IndInv, NEW m \in Messages, Produce(m)
  PROVE  IndInv'
<1> USE DEF IndInv
<1>j. \A n \in Messages : job[n] \in Jobs
  BY DEF TypeOK
<1>1. TypeOK'
  BY <1>j, JobFacts DEF TypeOK, Place, Handling, Ended, LoopInv, Produce
<1>2. OriginInv'
  BY DEF OriginInv, TypeOK, Produce
<1>3. LoopInv'
  BY <1>j, JobFacts DEF LoopInv, TypeOK, Produce
<1>4. ServedInv'
  BY DEF ServedInv, TypeOK, OriginInv, Produce
<1>5. FailedInv'
  BY <1>j, JobFacts DEF FailedInv, Used, TypeOK, Handling, Produce
<1>6. OnceInv'
  <2>1. /\ UNCHANGED <<job, done, failedTimes, origin, attempts, served>>
        /\ \A n \in Messages : n # m => place'[n] = place[n] /\ at'[n] = at[n]
    BY DEF TypeOK, Produce
  <2>2. \/ place'[m] \in {"finished", "lost"}
        \/ /\ place[m] \notin {"finished", "lost"}
           /\ \A t \in 1..job[m].tasks : Passed(m, t)' <=> Passed(m, t)
    BY <1>j, JobFacts DEF TypeOK, LoopInv, Passed, Handling, Produce
  <2> QED BY <2>1, <2>2, OnceKept
<1>7. DueInv'
  BY <1>j, JobFacts DEF DueInv, Fits, TypeOK, Handling, Produce
<1> QED BY <1>1, <1>2, <1>3, <1>4, <1>5, <1>6, <1>7

\* A listener receives a message: its loop starts at its first task.
LEMMA ReceiveStep ==
  ASSUME IndInv, NEW m \in Messages, Receive(m)
  PROVE  IndInv'
<1> USE DEF IndInv
<1>j. \A n \in Messages : job[n] \in Jobs
  BY DEF TypeOK
<1>1. TypeOK'
  BY <1>j, JobFacts DEF TypeOK, Place, Handling, Ended, LoopInv, Receive
<1>2. OriginInv'
  BY DEF OriginInv, TypeOK, Receive
<1>3. LoopInv'
  BY <1>j, JobFacts DEF LoopInv, TypeOK, Receive
<1>4. ServedInv'
  BY DEF ServedInv, TypeOK, OriginInv, Receive
<1>5. FailedInv'
  BY <1>j, JobFacts DEF FailedInv, Used, TypeOK, Handling, Receive
<1>6. OnceInv'
  <2>1. /\ UNCHANGED <<job, done, failedTimes, origin, attempts, served>>
        /\ \A n \in Messages : n # m => place'[n] = place[n] /\ at'[n] = at[n]
    BY DEF TypeOK, Receive
  <2>2. \/ place'[m] \in {"finished", "lost"}
        \/ /\ place[m] \notin {"finished", "lost"}
           /\ \A t \in 1..job[m].tasks : Passed(m, t)' <=> Passed(m, t)
    BY <1>j, JobFacts DEF TypeOK, LoopInv, Passed, Handling, Receive
  <2> QED BY <2>1, <2>2, OnceKept
<1>7. DueInv'
  BY <1>j, JobFacts DEF DueInv, Fits, TypeOK, Handling, Receive
<1> QED BY <1>1, <1>2, <1>3, <1>4, <1>5, <1>6, <1>7

\* A listener hands the message to doWork or asks for the delay switch.
LEMMA ProcessMessageStep ==
  ASSUME IndInv, NEW m \in Messages, ProcessMessage(m)
  PROVE  IndInv'
<1> USE DEF IndInv
<1>j. \A n \in Messages : job[n] \in Jobs
  BY DEF TypeOK
<1>1. TypeOK'
  BY <1>j, JobFacts DEF TypeOK, Place, Handling, Ended, LoopInv, ProcessMessage
<1>2. OriginInv'
  BY DEF OriginInv, TypeOK, ProcessMessage
<1>3. LoopInv'
  BY <1>j, JobFacts DEF LoopInv, TypeOK, ProcessMessage
<1>4. ServedInv'
  BY DEF ServedInv, TypeOK, OriginInv, ProcessMessage
<1>5. FailedInv'
  BY <1>j, JobFacts DEF FailedInv, Used, TypeOK, Handling, ProcessMessage
<1>6. OnceInv'
  <2>1. /\ UNCHANGED <<job, done, failedTimes, origin, attempts, served>>
        /\ \A n \in Messages : n # m => place'[n] = place[n] /\ at'[n] = at[n]
    BY DEF TypeOK, ProcessMessage
  <2>2. \/ place'[m] \in {"finished", "lost"}
        \/ /\ place[m] \notin {"finished", "lost"}
           /\ \A t \in 1..job[m].tasks : Passed(m, t)' <=> Passed(m, t)
    BY <1>j, JobFacts DEF TypeOK, LoopInv, Passed, Handling, ProcessMessage
  <2> QED BY <2>1, <2>2, OnceKept
<1>7. DueInv'
  BY <1>j, JobFacts DEF DueInv, Fits, TypeOK, Handling, ProcessMessage
<1> QED BY <1>1, <1>2, <1>3, <1>4, <1>5, <1>6, <1>7

\* The delayed control listener reads the switch: no delay, or the key is gone.
LEMMA ReadSwitchStep ==
  ASSUME IndInv, NEW m \in Messages, ReadSwitch(m)
  PROVE  IndInv'
<1> USE DEF IndInv
<1>j. \A n \in Messages : job[n] \in Jobs
  BY DEF TypeOK
<1>1. TypeOK'
  BY <1>j, JobFacts DEF TypeOK, Place, Handling, Ended, LoopInv, ReadSwitch
<1>2. OriginInv'
  BY DEF OriginInv, TypeOK, ReadSwitch
<1>3. LoopInv'
  BY <1>j, JobFacts DEF LoopInv, TypeOK, ReadSwitch
<1>4. ServedInv'
  BY DEF ServedInv, TypeOK, OriginInv, ReadSwitch
<1>5. FailedInv'
  BY <1>j, JobFacts DEF FailedInv, Used, TypeOK, Handling, ReadSwitch
<1>6. OnceInv'
  <2>1. /\ UNCHANGED <<job, done, failedTimes, origin, attempts, served>>
        /\ \A n \in Messages : n # m => place'[n] = place[n] /\ at'[n] = at[n]
    BY DEF TypeOK, ReadSwitch
  <2>2. \/ place'[m] \in {"finished", "lost"}
        \/ /\ place[m] \notin {"finished", "lost"}
           /\ \A t \in 1..job[m].tasks : Passed(m, t)' <=> Passed(m, t)
    BY <1>j, JobFacts DEF TypeOK, LoopInv, Passed, Handling, ReadSwitch
  <2> QED BY <2>1, <2>2, OnceKept
<1>7. DueInv'
  BY <1>j, JobFacts DEF DueInv, Fits, TypeOK, Handling, ReadSwitch
<1> QED BY <1>1, <1>2, <1>3, <1>4, <1>5, <1>6, <1>7

\* The delayed control listener puts a message back: no round was run.
LEMMA PutBackStep ==
  ASSUME IndInv, NEW m \in Messages, PutBack(m)
  PROVE  IndInv'
<1> USE DEF IndInv
<1>j. \A n \in Messages : job[n] \in Jobs
  BY DEF TypeOK
<1>1. TypeOK'
  <2>1. switch \in Int /\ Wrap(switch) \in Int
    BY WrapType, ConsumerAssumption DEF TypeOK, PutBack
  <2> HIDE DEF Wrap
  <2>2. /\ place' \in [Messages -> Place]
        /\ timer' \in [Messages -> Nat]
        /\ \A n \in Messages : place'[n] = "scheduled" <=> timer'[n] > 0
        /\ scheduledId' \in [Messages -> BOOLEAN]
    BY <2>1 DEF TypeOK, PutBack, SendDelayed, ScheduledId, Place
  <2> QED BY <2>2 DEF TypeOK, PutBack
<1>2. OriginInv'
  BY DEF OriginInv, TypeOK, PutBack, SendDelayed, ScheduledId
<1>3. LoopInv'
  BY <1>j, JobFacts DEF LoopInv, TypeOK, PutBack, SendDelayed, ScheduledId
<1>4. ServedInv'
  BY DEF ServedInv, TypeOK, OriginInv, PutBack, SendDelayed, ScheduledId
<1>5. FailedInv'
  BY <1>j, JobFacts DEF FailedInv, Used, TypeOK, Handling, PutBack, SendDelayed, ScheduledId
<1>6. OnceInv'
  <2>1. /\ UNCHANGED <<job, done, failedTimes, origin, attempts, served>>
        /\ \A n \in Messages : n # m => place'[n] = place[n] /\ at'[n] = at[n]
    BY DEF TypeOK, PutBack, SendDelayed, ScheduledId
  <2>2. \/ place'[m] \in {"finished", "lost"}
        \/ /\ place[m] \notin {"finished", "lost"}
           /\ \A t \in 1..job[m].tasks : Passed(m, t)' <=> Passed(m, t)
    BY <1>j, JobFacts DEF TypeOK, LoopInv, Passed, Handling, PutBack, SendDelayed, ScheduledId
  <2> QED BY <2>1, <2>2, OnceKept
<1>7. DueInv'
  BY <1>j, JobFacts DEF DueInv, Fits, TypeOK, Handling, PutBack, SendDelayed, ScheduledId
<1> QED BY <1>1, <1>2, <1>3, <1>4, <1>5, <1>6, <1>7

\* executeTask posts the next task: it was tried once in every earlier round.
LEMMA CallStep ==
  ASSUME IndInv, NEW m \in Messages, Call(m)
  PROVE  IndInv'
<1> USE DEF IndInv
<1>j. \A n \in Messages : job[n] \in Jobs
  BY DEF TypeOK
<1>1. TypeOK'
  <2>1. PICK t \in Remaining(m) :
          /\ \A u \in Remaining(m) : t <= u
          /\ at' = [at EXCEPT ![m] = t]
          /\ attempts' = [attempts EXCEPT ![origin[m]][t] = @ + 1]
    BY DEF Call
  <2>2. t \in TaskIds /\ t \in Nat
    BY <1>j, JobFacts DEF Remaining, Undone, TaskIds
  <2>3. attempts' \in [Messages -> [TaskIds -> Nat]]
    BY <2>1, <2>2 DEF TypeOK
  <2> QED BY <2>1, <2>2, <2>3 DEF TypeOK, Place, Handling, Call
<1>2. OriginInv'
  BY DEF OriginInv, TypeOK, Call, Remaining, Undone
<1>3. LoopInv'
  BY <1>j, JobFacts DEF LoopInv, TypeOK, Call, Remaining, Undone
<1>4. ServedInv'
  BY DEF ServedInv, TypeOK, OriginInv, Call, Remaining, Undone
<1>5. FailedInv'
  BY <1>j, JobFacts DEF FailedInv, Used, TypeOK, Handling, Call, Remaining, Undone
<1>6. OnceInv'
  <2> SUFFICES ASSUME NEW n \in Messages, DeliveredOnce(n)' PROVE Once(n)'
    BY DEF OnceInv
  <2>1. DeliveredOnce(n)
    BY DEF DeliveredOnce, Call
  <2>2. CASE n # m
    <3>1. /\ UNCHANGED <<job, origin>>
          /\ place'[n] = place[n] /\ done'[n] = done[n] /\ failedTimes'[n] = failedTimes[n]
          /\ at'[n] = at[n]
          /\ \A o \in Messages : o # origin[m] => attempts'[o] = attempts[o] /\ served'[o] = served[o]
      BY <2>2 DEF TypeOK, Call
    <3> QED BY <2>1, <2>2, <3>1, OnceOthers
  <2>3. CASE n = m
    <3>1. Once(m) /\ origin[m] = m
      BY <2>1, <2>3, OnceFacts DEF OnceInv
    <3>2. PICK t \in Remaining(m) :
            /\ \A u \in Remaining(m) : t <= u
            /\ at' = [at EXCEPT ![m] = t]
            /\ attempts' = [attempts EXCEPT ![origin[m]][t] = @ + 1]
      BY DEF Call
    <3>3. t \in 1..job[m].tasks /\ t \in TaskIds /\ t \notin done[m] /\ t > at[m] /\ t \in Nat
      BY <1>j, JobFacts DEF Remaining, Undone, TaskIds
    <3>4. /\ at'[m] = t /\ at[m] \in Nat /\ place[m] = "working" /\ place'[m] = "calling"
          /\ attempts'[m][t] = attempts[m][t] + 1
          /\ \A u \in TaskIds : u # t => attempts'[m][u] = attempts[m][u]
          /\ UNCHANGED <<job, done, failedTimes, served>>
          /\ failedTimes[m] \in Nat
      BY <3>1, <3>2, <3>3 DEF TypeOK, Call
    <3>5. ASSUME NEW u \in 1..job[m].tasks
          PROVE  /\ attempts'[m][u] <= failedTimes[m] + 1
                 /\ u > t => attempts'[m][u] <= failedTimes[m]
                 /\ u \notin done[m] =>
                      attempts'[m][u] = IF u <= t THEN failedTimes[m] + 1 ELSE failedTimes[m]
      <4>1. u \in TaskIds /\ u \in Nat /\ attempts[m][u] \in Nat
        BY TaskFacts
      <4>2. Passed(m, u) <=> u <= at[m]
        BY <3>4 DEF Passed, Handling
      <4>3. u \notin done[m] /\ u > at[m] => t <= u
        BY <3>2 DEF Remaining, Undone
      <4> QED BY <3>1, <3>3, <3>4, <4>1, <4>2, <4>3 DEF Once
    <3>6. \A u \in 1..job[m].tasks : Passed(m, u)' <=> u <= t
      BY <3>4 DEF Passed, Handling
    <3>7. \A u \in 1..job[m].tasks : u \in Nat
      BY <1>j, JobFacts
    <3> QED BY <2>3, <3>1, <3>3, <3>4, <3>5, <3>6, <3>7 DEF Once
  <2> QED BY <2>2, <2>3
<1>7. DueInv'
  BY <1>j, JobFacts DEF DueInv, Fits, TypeOK, Handling, Call, Remaining, Undone
<1> QED BY <1>1, <1>2, <1>3, <1>4, <1>5, <1>6, <1>7

\* A call returns: a success is recorded in the job and served.
LEMMA ReturnStep ==
  ASSUME IndInv, NEW m \in Messages, Return(m)
  PROVE  IndInv'
<1> USE DEF IndInv
<1>j. \A n \in Messages : job[n] \in Jobs
  BY DEF TypeOK
<1>1. TypeOK'
  <2>1. at[m] \in TaskIds
    BY <1>j, JobFacts DEF LoopInv, Return
  <2>2. done' \in [Messages -> SUBSET TaskIds] /\ served' \in [Messages -> SUBSET TaskIds]
    BY <2>1 DEF TypeOK, Return
  <2> QED BY <2>2 DEF TypeOK, Place, Handling, Return
<1>2. OriginInv'
  BY DEF OriginInv, TypeOK, Return, IsSuccess, Statuses
<1>3. LoopInv'
  BY <1>j, JobFacts DEF LoopInv, TypeOK, Return, IsSuccess, Statuses
<1>4. ServedInv'
  BY DEF ServedInv, TypeOK, OriginInv, Return, IsSuccess, Statuses
<1>5. FailedInv'
  BY <1>j, JobFacts DEF FailedInv, Used, TypeOK, Handling, Return, IsSuccess, Statuses
<1>6. OnceInv'
  <2> SUFFICES ASSUME NEW n \in Messages, DeliveredOnce(n)' PROVE Once(n)'
    BY DEF OnceInv
  <2>1. DeliveredOnce(n)
    BY DEF DeliveredOnce, Return
  <2>2. CASE n # m
    <3>1. /\ UNCHANGED <<job, origin>>
          /\ place'[n] = place[n] /\ done'[n] = done[n] /\ failedTimes'[n] = failedTimes[n]
          /\ at'[n] = at[n]
          /\ \A o \in Messages : o # origin[m] => attempts'[o] = attempts[o] /\ served'[o] = served[o]
      BY <2>2 DEF TypeOK, Return
    <3> QED BY <2>1, <2>2, <3>1, OnceOthers
  <2>3. CASE n = m
    <3>1. Once(m) /\ origin[m] = m
      BY <2>1, <2>3, OnceFacts DEF OnceInv
    <3>2. /\ place[m] = "calling" /\ place'[m] = "working"
          /\ UNCHANGED <<job, at, failedTimes, attempts>>
      BY DEF TypeOK, Return
    <3>3. done[m] \subseteq done'[m] /\ (~job[m].custom => served'[m] \subseteq done'[m])
      BY <3>1 DEF TypeOK, Return, IsSuccess, Statuses, Once
    <3>4. \A t \in 1..job[m].tasks : Passed(m, t)' <=> Passed(m, t)
      BY <3>2 DEF Passed, Handling
    <3> QED BY <2>3, <3>1, <3>2, <3>3, <3>4 DEF Once
  <2> QED BY <2>2, <2>3
<1>7. DueInv'
  BY <1>j, JobFacts DEF DueInv, Fits, TypeOK, Handling, Return, IsSuccess, Statuses
<1> QED BY <1>1, <1>2, <1>3, <1>4, <1>5, <1>6, <1>7

\* doWork finds no failed task.
LEMMA FinishStep ==
  ASSUME IndInv, NEW m \in Messages, Finish(m)
  PROVE  IndInv'
<1> USE DEF IndInv
<1>j. \A n \in Messages : job[n] \in Jobs
  BY DEF TypeOK
<1>1. TypeOK'
  BY <1>j, JobFacts DEF TypeOK, Place, Handling, Ended, LoopInv, Finish, Undone
<1>2. OriginInv'
  BY DEF OriginInv, TypeOK, Finish, Undone
<1>3. LoopInv'
  BY <1>j, JobFacts DEF LoopInv, TypeOK, Finish, Undone
<1>4. ServedInv'
  BY DEF ServedInv, TypeOK, OriginInv, Finish, Undone
<1>5. FailedInv'
  BY <1>j, JobFacts DEF FailedInv, Used, TypeOK, Handling, Finish, Undone
<1>6. OnceInv'
  <2>1. /\ UNCHANGED <<job, done, failedTimes, origin, attempts, served>>
        /\ \A n \in Messages : n # m => place'[n] = place[n] /\ at'[n] = at[n]
    BY DEF TypeOK, Finish, Undone
  <2>2. \/ place'[m] \in {"finished", "lost"}
        \/ /\ place[m] \notin {"finished", "lost"}
           /\ \A t \in 1..job[m].tasks : Passed(m, t)' <=> Passed(m, t)
    BY <1>j, JobFacts DEF TypeOK, LoopInv, Passed, Handling, Finish, Undone
  <2> QED BY <2>1, <2>2, OnceKept
<1>7. DueInv'
  BY <1>j, JobFacts DEF DueInv, Fits, TypeOK, Handling, Finish, Undone
<1> QED BY <1>1, <1>2, <1>3, <1>4, <1>5, <1>6, <1>7

\* doWork counts the failure and sends the job back with a usable delay.
LEMMA RetryStep ==
  ASSUME IndInv, NEW m \in Messages, Retry(m)
  PROVE  IndInv'
<1> USE DEF IndInv
<1>j. \A n \in Messages : job[n] \in Jobs
  BY DEF TypeOK
<1>1. TypeOK'
  <2> DEFINE d == GetDelaySeconds(m, failedTimes'[m])
  <2>1. d > 0 /\ d \in Int /\ Wrap(d) \in Int
    <3>1. GetDelaySeconds(m, failedTimes'[m]) \in Int
      BY <1>j, JobFacts DEF TypeOK, Retry, RoundFailed, GetDelaySeconds
    <3> QED BY <3>1, WrapType DEF Retry
  <2> HIDE DEF d
  <2>2. SendDelayed(m, d) /\ due' = [due EXCEPT ![m] = d] /\ RoundFailed(m)
    BY DEF Retry, d
  <2>3. /\ place' \in [Messages -> Place]
        /\ timer' \in [Messages -> Nat]
        /\ \A n \in Messages : place'[n] = "scheduled" <=> timer'[n] > 0
        /\ scheduledId' \in [Messages -> BOOLEAN]
    BY <2>1, <2>2 DEF TypeOK, SendDelayed, ScheduledId, Place
  <2>4. due' \in [Messages -> Nat] /\ failedTimes' \in [Messages -> Nat]
    BY <2>1, <2>2 DEF TypeOK, RoundFailed
  <2> QED BY <2>3, <2>4 DEF TypeOK, Retry
<1>2. OriginInv'
  BY SMTT(30) DEF OriginInv, TypeOK, Retry, RoundFailed, SendDelayed, ScheduledId, Remaining, Undone, GetDelaySeconds
<1>3. LoopInv'
  BY <1>j, JobFacts DEF LoopInv, TypeOK, Retry, RoundFailed, SendDelayed, ScheduledId, Remaining, Undone, GetDelaySeconds
<1>4. ServedInv'
  BY DEF ServedInv, TypeOK, OriginInv, Retry, RoundFailed, SendDelayed, ScheduledId, Remaining, Undone, GetDelaySeconds
<1>5. FailedInv'
  <2>1. /\ place[m] = "working" /\ place'[m] # "failed_queue"
        /\ failedTimes'[m] = failedTimes[m] + 1 /\ failedTimes[m] \in Nat
        /\ \A n \in Messages : n # m => place'[n] = place[n] /\ failedTimes'[n] = failedTimes[n]
        /\ UNCHANGED job
    BY DEF TypeOK, Retry, RoundFailed, SendDelayed
  <2>2. /\ failedTimes'[m] \in 1..Len(job[m].delays)
        /\ job[m].delays[failedTimes'[m]] > 0
    BY <1>j, <2>1, JobFacts DEF Retry, GetDelaySeconds
  <2>3. \A k \in 1..failedTimes[m] : job[m].delays[k] > 0
    BY <2>1 DEF FailedInv, Used
  <2>4. \A k \in 1..failedTimes'[m] : job[m].delays[k] > 0
    BY <2>1, <2>2, <2>3
  <2> QED BY <2>1, <2>2, <2>4 DEF FailedInv, Used
<1>6. OnceInv'
  <2> SUFFICES ASSUME NEW n \in Messages, DeliveredOnce(n)' PROVE Once(n)'
    BY DEF OnceInv
  <2>1. DeliveredOnce(n)
    BY DEF DeliveredOnce, Retry
  <2>2. CASE n # m
    <3>1. /\ UNCHANGED <<job, origin>>
          /\ place'[n] = place[n] /\ done'[n] = done[n] /\ failedTimes'[n] = failedTimes[n]
          /\ at'[n] = at[n]
          /\ \A o \in Messages : o # origin[m] => attempts'[o] = attempts[o] /\ served'[o] = served[o]
      BY <2>2 DEF TypeOK, Retry, RoundFailed, SendDelayed
    <3> QED BY <2>1, <2>2, <3>1, OnceOthers
  <2>3. CASE n = m
    <3>1. Once(m) /\ origin[m] = m
      BY <2>1, <2>3, OnceFacts DEF OnceInv
    <3>2. /\ place[m] = "working" /\ place'[m] \notin Handling \cup {"finished", "lost"}
          /\ failedTimes'[m] = failedTimes[m] + 1 /\ failedTimes[m] \in Nat
          /\ UNCHANGED <<job, done, attempts, served>>
      BY DEF TypeOK, Handling, RoundFailed, Retry, SendDelayed
    <3>3. ASSUME NEW t \in 1..job[m].tasks
          PROVE  /\ attempts[m][t] <= failedTimes'[m]
                 /\ t \notin done[m] => attempts[m][t] = failedTimes'[m]
      <4>1. t \in Nat /\ at[m] \in Nat /\ attempts[m][t] \in Nat
        BY TaskFacts
      <4>2. t \notin done[m] => Passed(m, t)
        BY <3>2, <4>1 DEF Passed, Handling, RoundFailed, Remaining, Undone, Retry
      <4> QED BY <3>1, <3>2, <4>1, <4>2 DEF Once
    <3>4. \A t \in 1..job[m].tasks : ~Passed(m, t)'
      BY <3>2 DEF Passed
    <3>5. \A t \in 1..job[m].tasks : attempts[m][t] \in Nat
      BY <1>j, JobFacts DEF TypeOK
    <3> QED BY <2>3, <3>1, <3>2, <3>3, <3>4, <3>5 DEF Once
  <2> QED BY <2>2, <2>3
<1>7. DueInv'
  <2> DEFINE d == GetDelaySeconds(m, failedTimes'[m])
  <2>1. d > 0 /\ d \in Int /\ Wrap(d) \in Int
    <3>1. GetDelaySeconds(m, failedTimes'[m]) \in Int
      BY <1>j, JobFacts DEF TypeOK, Retry, RoundFailed, GetDelaySeconds
    <3> QED BY <3>1, WrapType DEF Retry
  <2> HIDE DEF d
  <2>2. SendDelayed(m, d) /\ due' = [due EXCEPT ![m] = d] /\ UNCHANGED job
    BY DEF Retry, d
  <2>3. Fits(m) => Wrap(d) = d
    <3>1. Fits(m) => d < IntSize
      <4>1. failedTimes'[m] \in 1..Len(job[m].delays) /\ d = job[m].delays[failedTimes'[m]]
        BY <1>j, <2>1, JobFacts DEF d, GetDelaySeconds, Retry, RoundFailed, TypeOK
      <4>2. DOMAIN job[m].delays = 1..Len(job[m].delays)
        BY <1>j, JobFacts
      <4> QED BY <4>1, <4>2 DEF Fits
    <3> QED BY <2>1, <3>1, WrapFits
  <2>4. ASSUME Fits(m) PROVE place'[m] = "scheduled" /\ timer'[m] = due'[m]
    BY <2>1, <2>2, <2>3, <2>4 DEF SendDelayed, ScheduledId, TypeOK
  <2>5. \A n \in Messages : n # m => place'[n] = place[n] /\ timer'[n] = timer[n] /\ due'[n] = due[n]
    BY <2>2 DEF SendDelayed, TypeOK
  <2>6. due'[m] \in Nat
    BY <1>1 DEF TypeOK
  <2> QED BY <2>2, <2>4, <2>5, <2>6 DEF DueInv, Fits
<1> QED BY <1>1, <1>2, <1>3, <1>4, <1>5, <1>6, <1>7

\* doWork counts the failure and finds no usable delay left.
LEMMA GiveUpStep ==
  ASSUME IndInv, NEW m \in Messages, GiveUp(m)
  PROVE  IndInv'
<1> USE DEF IndInv
<1>j. \A n \in Messages : job[n] \in Jobs
  BY DEF TypeOK
<1>1. TypeOK'
  <2>1. failedTimes' \in [Messages -> Nat]
    BY DEF TypeOK, GiveUp, RoundFailed
  <2>2. place' \in [Messages -> Place] /\ place[m] = "working" /\ place' = [place EXCEPT ![m] = "failed_queue"]
    BY DEF TypeOK, GiveUp, RoundFailed, Place, Ended
  <2>3. scheduledId' \in [Messages -> BOOLEAN]
    BY DEF TypeOK, GiveUp, ScheduledId
  <2> QED BY <2>1, <2>2, <2>3 DEF TypeOK, GiveUp
<1>2. OriginInv'
  BY DEF OriginInv, TypeOK, GiveUp, RoundFailed, Remaining, Undone, GetDelaySeconds
<1>3. LoopInv'
  BY <1>j, JobFacts DEF LoopInv, TypeOK, GiveUp, RoundFailed, Remaining, Undone, GetDelaySeconds
<1>4. ServedInv'
  BY DEF ServedInv, TypeOK, OriginInv, GiveUp, RoundFailed, Remaining, Undone, GetDelaySeconds
<1>5. FailedInv'
  BY <1>j, JobFacts, SMTT(30) DEF FailedInv, Used, TypeOK, Handling, GiveUp, RoundFailed, Remaining, Undone, GetDelaySeconds
<1>6. OnceInv'
  <2> SUFFICES ASSUME NEW n \in Messages, DeliveredOnce(n)' PROVE Once(n)'
    BY DEF OnceInv
  <2>1. DeliveredOnce(n)
    BY DEF DeliveredOnce, GiveUp
  <2>2. CASE n # m
    <3>1. /\ UNCHANGED <<job, origin>>
          /\ place'[n] = place[n] /\ done'[n] = done[n] /\ failedTimes'[n] = failedTimes[n]
          /\ at'[n] = at[n]
          /\ \A o \in Messages : o # origin[m] => attempts'[o] = attempts[o] /\ served'[o] = served[o]
      BY <2>2 DEF TypeOK, GiveUp, RoundFailed
    <3> QED BY <2>1, <2>2, <3>1, OnceOthers
  <2>3. CASE n = m
    <3>1. Once(m) /\ origin[m] = m
      BY <2>1, <2>3, OnceFacts DEF OnceInv
    <3>2. /\ place[m] = "working" /\ place'[m] \notin Handling \cup {"finished", "lost"}
          /\ failedTimes'[m] = failedTimes[m] + 1 /\ failedTimes[m] \in Nat
          /\ UNCHANGED <<job, done, attempts, served>>
      BY DEF TypeOK, Handling, RoundFailed, GiveUp
    <3>3. ASSUME NEW t \in 1..job[m].tasks
          PROVE  /\ attempts[m][t] <= failedTimes'[m]
                 /\ t \notin done[m] => attempts[m][t] = failedTimes'[m]
      <4>1. t \in Nat /\ at[m] \in Nat /\ attempts[m][t] \in Nat
        BY TaskFacts
      <4>2. t \notin done[m] => Passed(m, t)
        BY <3>2, <4>1 DEF Passed, Handling, RoundFailed, Remaining, Undone, GiveUp
      <4> QED BY <3>1, <3>2, <4>1, <4>2 DEF Once
    <3>4. \A t \in 1..job[m].tasks : ~Passed(m, t)'
      BY <3>2 DEF Passed
    <3>5. \A t \in 1..job[m].tasks : attempts[m][t] \in Nat
      BY <1>j, JobFacts DEF TypeOK
    <3> QED BY <2>3, <3>1, <3>2, <3>3, <3>4, <3>5 DEF Once
  <2> QED BY <2>2, <2>3
<1>7. DueInv'
  BY <1>j, JobFacts DEF DueInv, Fits, TypeOK, Handling, GiveUp, RoundFailed, Remaining, Undone, GetDelaySeconds
<1> QED BY <1>1, <1>2, <1>3, <1>4, <1>5, <1>6, <1>7

\* A handler is cut short.
LEMMA CutShortStep ==
  ASSUME IndInv, NEW m \in Messages, CutShort(m)
  PROVE  IndInv'
<1> USE DEF IndInv
<1>j. \A n \in Messages : job[n] \in Jobs
  BY DEF TypeOK
<1>1. TypeOK'
  BY <1>j, JobFacts DEF TypeOK, Place, Handling, Ended, LoopInv, CutShort
<1>2. OriginInv'
  BY DEF OriginInv, TypeOK, CutShort
<1>3. LoopInv'
  BY <1>j, JobFacts DEF LoopInv, TypeOK, CutShort
<1>4. ServedInv'
  BY DEF ServedInv, TypeOK, OriginInv, CutShort
<1>5. FailedInv'
  BY <1>j, JobFacts DEF FailedInv, Used, TypeOK, Handling, CutShort
<1>6. OnceInv'
  <2>1. /\ UNCHANGED <<job, done, failedTimes, origin, attempts, served>>
        /\ \A n \in Messages : n # m => place'[n] = place[n] /\ at'[n] = at[n]
    BY DEF TypeOK, CutShort
  <2>2. \/ place'[m] \in {"finished", "lost"}
        \/ /\ place[m] \notin {"finished", "lost"}
           /\ \A t \in 1..job[m].tasks : Passed(m, t)' <=> Passed(m, t)
    BY <1>j, JobFacts DEF TypeOK, LoopInv, Passed, Handling, CutShort
  <2> QED BY <2>1, <2>2, OnceKept
<1>7. DueInv'
  BY <1>j, JobFacts DEF DueInv, Fits, TypeOK, Handling, CutShort
<1> QED BY <1>1, <1>2, <1>3, <1>4, <1>5, <1>6, <1>7

\* The duplicate n of m, and its original, no longer count as delivered once.
LEMMA RedeliverStep ==
  ASSUME IndInv, NEW m \in Messages, NEW n \in Messages, Redeliver(m, n)
  PROVE  IndInv'
<1> USE DEF IndInv
<1>0. m # n /\ origin[n] = n /\ place[origin[m]] # "unused" /\ timer[n] = 0
  <2>1. place[m] = "received" /\ place[n] = "unused"
    BY DEF Redeliver
  <2>2. timer[n] = 0
    BY <2>1 DEF TypeOK
  <2> QED BY <2>1, <2>2 DEF OriginInv
<1>1. TypeOK'
  BY <1>0 DEF TypeOK, Place, Redeliver
<1>2. OriginInv'
  BY <1>0 DEF OriginInv, TypeOK, Redeliver
<1>3. LoopInv'
  BY DEF LoopInv, TypeOK, Redeliver
<1>4. ServedInv'
  BY DEF ServedInv, TypeOK, Redeliver
<1>5. FailedInv'
  <2>1. Used(n)' = Used(m) /\ Used(m) = failedTimes[m] /\ job'[n] = job[m] /\ place'[n] = "queued"
    BY DEF Used, Redeliver, TypeOK
  <2>2. \A p \in Messages : p # n => Used(p)' = Used(p) /\ job'[p] = job[p] /\ place'[p] = place[p]
    BY DEF Used, Redeliver, TypeOK
  <2> QED BY <2>1, <2>2 DEF FailedInv
<1>6. OnceInv'
  <2> SUFFICES ASSUME NEW p \in Messages, DeliveredOnce(p)' PROVE Once(p)'
    BY DEF OnceInv
  <2>1. origin'[n] = origin[m] /\ origin'[m] = origin[m]
    BY <1>0 DEF Redeliver, TypeOK
  <2>2. p # n
    BY <1>0, <2>1 DEF DeliveredOnce
  <2>3. /\ place'[p] = place[p] /\ job'[p] = job[p] /\ done'[p] = done[p]
        /\ failedTimes'[p] = failedTimes[p] /\ origin'[p] = origin[p]
        /\ UNCHANGED <<at, attempts, served>>
    BY <2>2 DEF Redeliver, TypeOK
  <2>4. DeliveredOnce(p)
    <3> SUFFICES ASSUME NEW q \in Messages, q # p PROVE origin[q] # origin[p]
      BY DEF DeliveredOnce
    <3>1. CASE q # n
      BY <2>3, <3>1 DEF DeliveredOnce, Redeliver, TypeOK
    <3>2. CASE q = n
      BY <1>0, <2>2, <3>2 DEF OriginInv, Redeliver
    <3> QED BY <3>1, <3>2
  <2> QED BY <2>3, <2>4 DEF OnceInv, Once, Passed
<1>7. DueInv'
  <2>1. Fits(m) => due[m] = 0
    BY DEF DueInv, Redeliver, TypeOK
  <2>2. job'[n] = job[m] /\ due'[n] = due[m]
    BY DEF Redeliver, TypeOK
  <2>3. \A p \in Messages : p # n => /\ job'[p] = job[p] /\ due'[p] = due[p]
                                     /\ place'[p] = place[p] /\ timer'[p] = timer[p]
    BY DEF Redeliver, TypeOK
  <2>4. Fits(n)' => due'[n] = 0
    BY <2>1, <2>2 DEF Fits
  <2> QED BY <2>3, <2>4 DEF DueInv, Fits
<1> QED BY <1>1, <1>2, <1>3, <1>4, <1>5, <1>6, <1>7

\* Time passes: a delay and its timer run down together.
LEMMA TickStep ==
  ASSUME IndInv, Tick
  PROVE  IndInv'
<1> USE DEF IndInv
<1>1. /\ UNCHANGED <<job, done, failedTimes, at, switch, origin, attempts, served>>
      /\ \A m \in Messages :
           /\ timer[m] \in Nat /\ due[m] \in Nat
           /\ place'[m] = IF timer[m] = 1 THEN "queued" ELSE place[m]
           /\ timer'[m] = IF timer[m] > 0 THEN timer[m] - 1 ELSE 0
           /\ due'[m] = IF due[m] > 0 THEN due[m] - 1 ELSE 0
           /\ timer[m] = 1 => place[m] = "scheduled"
  BY DEF Tick, TypeOK
<1>2. TypeOK'
  <2>1. place' \in [Messages -> Place]
    BY DEF Tick, TypeOK, Place
  <2>2. timer' \in [Messages -> Nat] /\ due' \in [Messages -> Nat]
    BY DEF Tick, TypeOK
  <2>3. scheduledId' \in [Messages -> BOOLEAN]
    BY DEF Tick, TypeOK
  <2>4. \A m \in Messages : place'[m] = "scheduled" <=> timer'[m] > 0
    BY <1>1, SMTT(30) DEF TypeOK
  <2> QED BY <1>1, <2>1, <2>2, <2>3, <2>4 DEF TypeOK
<1>3. OriginInv' /\ LoopInv' /\ ServedInv'
  <2>1. OriginInv'
    BY <1>1 DEF OriginInv, TypeOK
  <2>2. LoopInv'
    BY <1>1 DEF LoopInv
  <2>3. ServedInv'
    BY <1>1 DEF ServedInv
  <2> QED BY <2>1, <2>2, <2>3
<1>4. FailedInv'
  BY <1>1 DEF FailedInv, Used
<1>5. OnceInv'
  BY <1>1 DEF OnceInv, Once, Passed, Handling, DeliveredOnce
<1>6. DueInv'
  BY <1>1 DEF DueInv, Fits
<1> QED BY <1>2, <1>3, <1>4, <1>5, <1>6

\* The steps that leave every message alone.
LEMMA SwitchStep ==
  ASSUME IndInv, SetSwitch \/ UNCHANGED vars
  PROVE  IndInv'
<1>1. /\ UNCHANGED <<place, job, done, failedTimes, scheduledId, timer, at,
                     origin, attempts, served, due>>
      /\ switch' \in Switches \cup {NoKey}
  BY DEF SetSwitch, vars, IndInv, TypeOK
<1>2. TypeOK'
  BY <1>1 DEF IndInv, TypeOK
<1>3. OriginInv' /\ LoopInv' /\ ServedInv'
  BY <1>1 DEF IndInv, OriginInv, LoopInv, ServedInv
<1>4. FailedInv'
  BY <1>1 DEF IndInv, FailedInv, Used
<1>5. OnceInv'
  BY <1>1 DEF IndInv, OnceInv, Once, Passed, DeliveredOnce
<1>6. DueInv'
  BY <1>1 DEF IndInv, DueInv, Fits
<1> QED BY <1>2, <1>3, <1>4, <1>5, <1>6 DEF IndInv

\* The invariant holds initially.
LEMMA InitInv == Init => IndInv
<1> SUFFICES ASSUME Init PROVE IndInv
  OBVIOUS
<1>1. TypeOK
  BY DEF Init, TypeOK, Place
<1>2. OriginInv /\ LoopInv /\ ServedInv
  BY DEF Init, OriginInv, LoopInv, ServedInv
<1>3. FailedInv
  <2>1. \A m \in Messages : Used(m) = 0 /\ job[m] \in Jobs /\ place[m] = "unused"
    BY DEF Init, Used
  <2> QED BY <2>1, JobFacts DEF FailedInv
<1>4. OnceInv
  <2> SUFFICES ASSUME NEW m \in Messages PROVE Once(m)
    BY DEF OnceInv
  <2>1. \A t \in 1..job[m].tasks : attempts[m][t] = 0 /\ ~Passed(m, t)
    BY <1>1, TaskFacts DEF Init, Passed, Handling
  <2> QED BY <2>1 DEF Once, Init
<1>5. DueInv
  BY DEF Init, DueInv
<1> QED BY <1>1, <1>2, <1>3, <1>4, <1>5 DEF IndInv

\* Every step keeps the invariant.
LEMMA NextInv == IndInv /\ [Next]_vars => IndInv'
<1> SUFFICES ASSUME IndInv, [Next]_vars PROVE IndInv'
  OBVIOUS
<1>1. ASSUME NEW m \in Messages, Produce(m) \/ HandlerStep(m) \/ CutShort(m) PROVE IndInv'
  BY <1>1, ProduceStep, ReceiveStep, ProcessMessageStep, PutBackStep, ReadSwitchStep, CallStep,
     ReturnStep, FinishStep, RetryStep, GiveUpStep, CutShortStep DEF HandlerStep
<1>2. ASSUME NEW m \in Messages, NEW n \in Messages, Redeliver(m, n) PROVE IndInv'
  BY <1>2, RedeliverStep
<1> QED BY <1>1, <1>2, TickStep, SwitchStep DEF Next

\* The invariant is inductive: it holds in every reachable state.
THEOREM Inductive == Spec => []IndInv
BY InitInv, NextInv, PTL DEF Spec

-----------------------------------------------------------------------------
(* The properties *)

\* Every variable keeps its type, and the scheduler holds exactly the messages
\* whose delay is running.
THEOREM TypeCorrect == Spec => []TypeOK
<1>1. IndInv => TypeOK
  BY DEF IndInv
<1> QED BY <1>1, Inductive, PTL

\* A finished job was served, whatever was retried, duplicated or cut short.
THEOREM FinishedIsServedHolds == Spec => []FinishedIsServed
<1>1. IndInv => FinishedIsServed
  BY DEF IndInv, LoopInv, ServedInv, FinishedIsServed
<1> QED BY <1>1, Inductive, PTL

\* No task is posted again once its success is known (of a job delivered once).
THEOREM NoRepeatHolds == Spec => NoRepeat
<1>1. IndInv /\ [Next]_vars => CallsOnlyUnserved
  <2> SUFFICES ASSUME IndInv, NEW m \in Messages, Call(m), DeliveredOnce(m), ~job[m].custom
               PROVE  at'[m] \notin served[m]
    BY DEF CallsOnlyUnserved
  <2>1. at'[m] \in Remaining(m)
    BY DEF IndInv, TypeOK, Call
  <2>2. served[m] \subseteq done[m]
    BY DEF IndInv, OnceInv, Once
  <2> QED BY <2>1, <2>2 DEF Remaining, Undone
<1> QED BY <1>1, Inductive, PTL DEF Spec, NoRepeat

\* The usable delays of m's job, counted from the failures it has used up.
LEMMA UsableFacts ==
  ASSUME IndInv, NEW m \in Messages
  PROVE  /\ UsableDelays(m) \in Nat
         /\ Used(m) <= UsableDelays(m)
         /\ place[m] = "failed_queue" => UsableDelays(m) = Used(m)
<1> DEFINE D == job[m].delays
           S == {i \in DOMAIN D : \A k \in 1..i : D[k] > 0}
           U == 1..Used(m)
<1>1. /\ Len(D) \in Nat /\ DOMAIN D = 1..Len(D)
      /\ \A k \in 1..Len(D) : D[k] \in Int
  BY JobFacts DEF IndInv, TypeOK
<1>2. /\ Used(m) \in 0..Len(D)
      /\ \A k \in 1..Used(m) : D[k] > 0
      /\ place[m] = "failed_queue" => Used(m) = Len(D) \/ D[Used(m) + 1] <= 0
  BY DEF IndInv, FailedInv
<1>3. IsFiniteSet(DOMAIN D) /\ IsFiniteSet(U) /\ Cardinality(U) = Used(m)
  <2>1. Used(m) \in Int /\ Len(D) \in Int /\ 1 \in Int /\ Used(m) \in Nat
    BY <1>1, <1>2
  <2> HIDE DEF D
  <2>2. IsFiniteSet(1..Len(D))
    BY <2>1, FS_Interval
  <2>3. IsFiniteSet(1..Used(m))
    BY <2>1, FS_Interval
  <2>4. Cardinality(1..Used(m)) = IF 1 > Used(m) THEN 0 ELSE Used(m) - 1 + 1
    BY <2>1, FS_Interval, Zenon
  <2> QED BY <1>1, <2>1, <2>2, <2>3, <2>4
<1>4. IsFiniteSet(S)
  BY <1>3, FS_Subset
<1>5. U \subseteq S
  BY <1>1, <1>2
<1>6. Cardinality(S) \in Nat /\ Cardinality(U) <= Cardinality(S)
  BY <1>3, <1>4, <1>5, FS_CardinalityType, FS_Subset
<1>7. place[m] = "failed_queue" => S = U
  <2> SUFFICES ASSUME place[m] = "failed_queue", NEW i \in S PROVE i \in U
    BY <1>5
  <2>1. i \in 1..Len(D) /\ \A k \in 1..i : D[k] > 0
    BY <1>1
  <2>2. ~(Used(m) + 1 \in 1..i)
    BY <1>1, <1>2, <2>1
  <2> QED BY <1>1, <1>2, <2>1, <2>2
<1>8. UsableDelays(m) = Cardinality(S)
  BY DEF UsableDelays
<1> QED BY <1>2, <1>3, <1>6, <1>7, <1>8

\* A task is tried once and once more for each usable delay, never more often,
\* and exactly that often before its job reaches the failed queue.
THEOREM AttemptsExactHolds == Spec => []AttemptsExact
<1>1. IndInv => AttemptsExact
  <2> SUFFICES ASSUME IndInv, NEW m \in Messages, DeliveredOnce(m), NEW t \in 1..job[m].tasks
               PROVE  /\ attempts[m][t] <= 1 + UsableDelays(m)
                      /\ place[m] = "failed_queue" /\ t \notin done[m] =>
                           attempts[m][t] = 1 + UsableDelays(m)
    BY DEF AttemptsExact
  <2>1. attempts[m][t] \in Nat /\ failedTimes[m] \in Nat
    BY TaskFacts DEF IndInv, TypeOK
  <2>2. Once(m)
    BY DEF IndInv, OnceInv
  <2>3. CASE place[m] = "failed_queue"
    <3>1. UsableDelays(m) = failedTimes[m] - 1 /\ UsableDelays(m) \in Nat
      BY <2>3, UsableFacts DEF Used
    <3>2. ~Passed(m, t)
      BY <2>3 DEF Passed, Handling
    <3> QED BY <2>1, <2>2, <2>3, <3>1, <3>2 DEF Once
  <2>4. CASE place[m] # "failed_queue"
    <3>1. failedTimes[m] <= UsableDelays(m) /\ UsableDelays(m) \in Nat
      BY <2>4, UsableFacts DEF Used
    <3>2. attempts[m][t] <= failedTimes[m] + 1
      BY <2>2 DEF Once
    <3> QED BY <2>1, <2>4, <3>1, <3>2
  <2> QED BY <2>3, <2>4
<1> QED BY <1>1, Inductive, PTL

\* A retry starts after the delay its job asked for.
THEOREM RetryWaitsHolds == Spec => []RetryWaits
<1>1. IndInv => RetryWaits
  <2> SUFFICES ASSUME IndInv, NEW m \in Messages, place[m] \in Handling, Fits(m)
               PROVE  due[m] = 0
    BY DEF RetryWaits, Fits
  <2>1. due[m] \in Nat /\ place[m] # "scheduled"
    BY DEF IndInv, TypeOK, Handling
  <2> QED BY <2>1 DEF IndInv, DueInv
<1> QED BY <1>1, Inductive, PTL
=============================================================================
