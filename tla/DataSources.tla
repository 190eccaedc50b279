---------------------------- MODULE DataSources ----------------------------
(***************************************************************************)
(* The two routing data sources of yz-framework-data.  DynamicDataSource   *)
(* takes the slaves in turn with an AtomicInteger that starts again from   *)
(* zero beyond a limit; MultiDataSource takes its keys in turn the same    *)
(* way.  Reading the counter and setting it back are two atomic steps, and *)
(* other threads may come between them.                                    *)
(***************************************************************************)
EXTENDS Integers, FiniteSets

CONSTANTS
  Threads,   \* the threads that ask for connections
  NumSlaves, \* slaves.size()
  MaxIndex,  \* MultiDataSource.maxIndex
  Limit      \* 1000000 in DynamicDataSource

ASSUME RoutingAssumption ==
  /\ IsFiniteSet(Threads)
  /\ NumSlaves \in Nat \ {0}
  /\ MaxIndex \in Nat \ {0}
  /\ Limit \in Nat

VARIABLES
  counter,   \* DynamicDataSource.counter
  preIndex,  \* MultiDataSource.preIndex
  step,      \* where each thread is inside determine...()
  slave,     \* the index each thread last took of the slaves
  key        \* the index each thread last took of the keys

sourceVars == <<counter, preIndex, step, slave, key>>

Step == {"out", "over", "over_keys"}

SourcesTypeOK ==
  /\ counter \in Nat
  /\ preIndex \in Nat
  /\ step \in [Threads -> Step]
  /\ slave \in [Threads -> 0..(NumSlaves - 1)]
  /\ key \in [Threads -> 0..MaxIndex]

SourcesInit ==
  /\ counter = 0
  /\ preIndex = 0
  /\ step = [t \in Threads |-> "out"]
  /\ slave = [t \in Threads |-> 0]
  /\ key = [t \in Threads |-> 0]

\* Mutant: the counter is not set back.
MutNeverOver(count) == FALSE

\* The counter has to be set back.
Over(count) == count > Limit

\* Mutant: the counter is taken modulo a slave too many.
MutTakeOneMore(t) ==
  LET count == counter + 1
  IN  /\ step[t] = "out"
      /\ counter' = count
      /\ slave' = [slave EXCEPT ![t] = count % (NumSlaves + 1)]
      /\ step' = [step EXCEPT ![t] = IF Over(count) THEN "over" ELSE "out"]
      /\ UNCHANGED <<preIndex, key>>

\* determineTargetDataSource() for a slave, up to counter.set(0).
TakeSlave(t) ==
  LET count == counter + 1
  IN  /\ step[t] = "out"
      /\ counter' = count
      /\ slave' = [slave EXCEPT ![t] = count % NumSlaves]
      /\ step' = [step EXCEPT ![t] = IF Over(count) THEN "over" ELSE "out"]
      /\ UNCHANGED <<preIndex, key>>

\* counter.set(0)
ResetCounter(t) ==
  /\ step[t] = "over"
  /\ counter' = 0
  /\ step' = [step EXCEPT ![t] = "out"]
  /\ UNCHANGED <<preIndex, slave, key>>

\* MultiDataSource.determineCurrentLookupKey() up to preIndex.set(0); a
\* MultiDataSource with one key has no counter.
TakeKey(t) ==
  /\ step[t] = "out"
  /\ preIndex' = preIndex + 1
  /\ key' = [key EXCEPT ![t] = IF preIndex > MaxIndex THEN 0 ELSE preIndex]
  /\ step' = [step EXCEPT ![t] = IF preIndex > MaxIndex THEN "over_keys" ELSE "out"]
  /\ UNCHANGED <<counter, slave>>

\* preIndex.set(0)
ResetIndex(t) ==
  /\ step[t] = "over_keys"
  /\ preIndex' = 0
  /\ step' = [step EXCEPT ![t] = "out"]
  /\ UNCHANGED <<counter, slave, key>>

\* However the threads interleave, neither counter gets further than the
\* number of threads beyond its limit: a thread that reads too much is inside
\* its own reset until it has set the counter back (AtomicInteger in
\* DynamicDataSource and MultiDataSource).  So neither ever overflows, and an
\* index is never negative.
CountersBounded ==
  /\ counter <= Limit + Cardinality({t \in Threads : step[t] = "over"})
  /\ preIndex <= MaxIndex + 1 + Cardinality({t \in Threads : step[t] = "over_keys"})
=============================================================================
