---------------------------- MODULE IdGenerator ----------------------------
(***************************************************************************)
(* The three 64-bit id generators of yz-framework-core: SnowFlake.java,    *)
(* IdWorker.java and IdBuilder.java.  Each packs a timestamp, the number   *)
(* of its node and a sequence number within the millisecond into one id.   *)
(* nextId() is synchronized, so a node runs one call at a time; what moves *)
(* during a call is the node's clock, which NTP may also set back.         *)
(*                                                                         *)
(* Times count milliseconds from the generator's epoch.  A node's number   *)
(* is its ten bits: datacenter and machine, or the IdBuilder's worker id.  *)
(***************************************************************************)
EXTENDS Integers, Sequences

CONSTANTS
  Nodes,     \* the numbers of the nodes that run a generator
  Kinds,     \* the classes they may run
  SeqSize,   \* sequence numbers per millisecond: 4096
  NodeSize,  \* node numbers: 1024
  MaxClock,  \* bound: calls start before this time
  MaxBack,   \* bound: how often a clock is set back
  MaxIds     \* bound: ids of one node

ASSUME GeneratorAssumption ==
  /\ SeqSize \in Nat \ {0}
  /\ NodeSize \in Nat \ {0}
  /\ Nodes \subseteq 0..(NodeSize - 1)   \* checked by the constructors
  /\ Kinds \subseteq {"SnowFlake", "IdWorker", "IdBuilder"}
  /\ MaxClock \in Nat /\ MaxBack \in Nat /\ MaxIds \in Nat

VARIABLES
  kind,      \* the class each node runs
  clock,     \* System.currentTimeMillis() of each node
  back,      \* how often the node's clock was set back
  pc,        \* "idle"; "overflow": in getNextMill, nextMillis or tilNextMillis;
             \* "stuck": in IdWorker.nextMillis with a timestamp it never re-reads
  last,      \* lastStmp, lastTimestamp
  sequence,  \* sequence
  ids,       \* the ids returned on each node, in order
  high,      \* auxiliary: the last millisecond in which the node issued an id
  lapsed     \* auxiliary: a restarted generator issued in a millisecond its
             \* predecessor may have used

vars == <<kind, clock, back, pc, last, sequence, ids, high, lapsed>>

TypeOK ==
  /\ kind \in [Nodes -> Kinds]
  /\ clock \in [Nodes -> Nat]
  /\ back \in [Nodes -> Nat]
  /\ pc \in [Nodes -> {"idle", "overflow", "stuck"}]
  /\ last \in [Nodes -> Nat \cup {-1}]
  /\ sequence \in [Nodes -> 0..(SeqSize - 1)]
  /\ ids \in [Nodes -> Seq(Nat)]
  /\ high \in [Nodes -> Nat \cup {-1}]
  /\ lapsed \in [Nodes -> BOOLEAN]

Init ==
  /\ kind \in [Nodes -> Kinds]
  /\ clock = [n \in Nodes |-> 0]
  /\ back = [n \in Nodes |-> 0]
  /\ pc = [n \in Nodes |-> "idle"]
  /\ last = [n \in Nodes |-> -1]
  /\ sequence = [n \in Nodes |-> 0]
  /\ ids = [n \in Nodes |-> <<>>]
  /\ high = [n \in Nodes |-> -1]
  /\ lapsed = [n \in Nodes |-> FALSE]

-----------------------------------------------------------------------------
(* nextId() *)

\* Mutant: the node's bits overlap the highest bit of the sequence.
MutPackOverlap(t, n, s) == (t * NodeSize + n) * (SeqSize \div 2) + s

\* Shifts and ors: time, node number and sequence in disjoint bits.
Pack(t, n, s) == (t * NodeSize + n) * SeqSize + s

\* Mutant: the sequence is not masked.
MutNoMask(n) == sequence[n] + 1

NextSequence(n) == (sequence[n] + 1) % SeqSize

\* nextId() sets lastTimestamp and returns, with timestamp t and sequence s.
Return(n, t, s) ==
  /\ pc' = [pc EXCEPT ![n] = "idle"]
  /\ last' = [last EXCEPT ![n] = t]
  /\ sequence' = [sequence EXCEPT ![n] = s]
  /\ ids' = [ids EXCEPT ![n] = Append(@, Pack(t, n, s))]
  /\ high' = [high EXCEPT ![n] = t]
  /\ lapsed' = [lapsed EXCEPT ![n] = @ \/ (last[n] = -1 /\ t <= high[n])]

\* The call of nextId() reads the clock, in the bounds of the model.
Calls(n) ==
  /\ pc[n] = "idle"
  /\ clock[n] < MaxClock
  /\ Len(ids[n]) < MaxIds

\* Mutant: no check that the clock moved backwards.
MutNoBackwardsCheck(n) ==
  /\ Calls(n)
  /\ clock[n] # last[n]
  /\ Return(n, clock[n], 0)
  /\ UNCHANGED <<kind, clock, back>>

\* A later millisecond than the last: the sequence starts again.
NextIdLater(n) ==
  /\ Calls(n)
  /\ clock[n] > last[n]
  /\ Return(n, clock[n], 0)
  /\ UNCHANGED <<kind, clock, back>>

\* The same millisecond: the next sequence number.
NextIdSame(n) ==
  /\ Calls(n)
  /\ clock[n] = last[n]
  /\ NextSequence(n) # 0
  /\ Return(n, clock[n], NextSequence(n))
  /\ UNCHANGED <<kind, clock, back>>

\* The same millisecond, and its sequence numbers are used up: the sequence
\* wraps to zero and the call waits for the next millisecond.
NextIdOverflow(n) ==
  /\ Calls(n)
  /\ clock[n] = last[n]
  /\ NextSequence(n) = 0
  /\ sequence' = [sequence EXCEPT ![n] = 0]
  /\ pc' = [pc EXCEPT ![n] = "overflow"]
  /\ UNCHANGED <<kind, clock, back, last, ids, high, lapsed>>

\* An earlier millisecond than the last: nextId() throws.  SnowFlake and
\* IdWorker look before they touch the sequence; IdBuilder has reset it.
NextIdRefused(n) ==
  /\ Calls(n)
  /\ clock[n] < last[n]
  /\ sequence' = IF kind[n] = "IdBuilder" THEN [sequence EXCEPT ![n] = 0] ELSE sequence
  /\ UNCHANGED <<kind, clock, back, pc, last, ids, high, lapsed>>

\* getNextMill, tilNextMillis, nextMillis: the clock is read and has moved on.
NextMillis(n) ==
  /\ pc[n] = "overflow"
  /\ clock[n] > last[n]
  /\ Return(n, clock[n], sequence[n])
  /\ UNCHANGED <<kind, clock, back>>

\* Mutant: no generator reads the clock again.
MutNeverRereads(n) ==
  /\ pc[n] = "overflow"
  /\ clock[n] <= last[n]
  /\ pc' = [pc EXCEPT ![n] = "stuck"]
  /\ UNCHANGED <<kind, clock, back, last, sequence, ids, high, lapsed>>

\* It has not: the loop of IdWorker.nextMillis assigns lastTimestamp to the
\* timestamp it compares with lastTimestamp.  The others read the clock again.
NextMillisStuck(n) ==
  /\ pc[n] = "overflow"
  /\ kind[n] = "IdWorker"
  /\ clock[n] <= last[n]
  /\ pc' = [pc EXCEPT ![n] = "stuck"]
  /\ UNCHANGED <<kind, clock, back, last, sequence, ids, high, lapsed>>

-----------------------------------------------------------------------------
(* The environment *)

ClockForward(n) ==
  /\ clock[n] < MaxClock
  /\ clock' = [clock EXCEPT ![n] = @ + 1]
  /\ UNCHANGED <<kind, back, pc, last, sequence, ids, high, lapsed>>

\* NTP sets the clock back.
ClockBack(n) ==
  /\ back[n] < MaxBack
  /\ \E t \in 0..(clock[n] - 1) : clock' = [clock EXCEPT ![n] = t]
  /\ back' = [back EXCEPT ![n] = @ + 1]
  /\ UNCHANGED <<kind, pc, last, sequence, ids, high, lapsed>>

\* The process restarts with a new generator: nothing is kept on disk.
Restart(n) ==
  /\ pc' = [pc EXCEPT ![n] = "idle"]
  /\ last' = [last EXCEPT ![n] = -1]
  /\ sequence' = [sequence EXCEPT ![n] = 0]
  /\ UNCHANGED <<kind, clock, back, ids, high, lapsed>>

Next ==
  \E n \in Nodes :
    \/ NextIdLater(n) \/ NextIdSame(n) \/ NextIdOverflow(n) \/ NextIdRefused(n)
    \/ NextMillis(n) \/ NextMillisStuck(n)
    \/ ClockForward(n) \/ ClockBack(n) \/ Restart(n)

Spec == Init /\ [][Next]_vars

\* Time goes on (a clock is set back only MaxBack times), and the thread in
\* the waiting loop runs.  Nobody has to call, and nothing has to restart.
Fairness ==
  \A n \in Nodes : /\ WF_vars(ClockForward(n))
                   /\ WF_vars(NextMillis(n) \/ NextMillisStuck(n))
FairSpec == Spec /\ Fairness

-----------------------------------------------------------------------------
(* Properties *)

\* What the generators need of their environment: no restarted process issues
\* in a millisecond its predecessor may have used, and (IdBuilder only) the
\* clock is never set back.
Trusted(n) ==
  /\ ~lapsed[n]
  /\ kind[n] = "IdBuilder" => back[n] = 0

\* No id is returned twice, on one node or on two, by trusted generators.
Unique ==
  \A m, n \in Nodes : \A i \in DOMAIN ids[m] : \A j \in DOMAIN ids[n] :
    /\ Trusted(m) /\ Trusted(n)
    /\ <<m, i>> # <<n, j>>
    => ids[m][i] # ids[n][j]

\* The ids of a trusted generator increase: whatever the clock did meanwhile,
\* an id returned later is larger, across sequence overflows and restarts.
Increasing ==
  \A n \in Nodes : Trusted(n) =>
    \A i, j \in DOMAIN ids[n] : i < j => ids[n][i] < ids[n][j]

\* SnowFlake and IdBuilder: a call that used up its millisecond returns once
\* the clock moves on, even if the clock was set back while it waited.
OverflowReturns ==
  \A n \in Nodes : kind[n] # "IdWorker" => (pc[n] = "overflow" ~> pc[n] = "idle")

\* IdWorker.nextMillis: "blocks until the next millisecond, until it gets a new
\* timestamp" (IdWorker.java:112).
NextMillisReturns ==
  \A n \in Nodes : pc[n] = "overflow" ~> pc[n] = "idle"

\* IdBuilder: the ids of one generator are unique because it "refuses to
\* allocate ids once an NTP adjustment is detected" (IdBuilder.java:11).
RefusalKeepsUnique ==
  \A n \in Nodes : ~lapsed[n] =>
    \A i, j \in DOMAIN ids[n] : i # j => ids[n][i] # ids[n][j]
=============================================================================
