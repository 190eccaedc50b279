------------------------ MODULE ZookeeperCache_proofs ------------------------
(***************************************************************************)
(* Proofs about ZookeeperCache: its types, that the next notification      *)
(* reaches every cached object, and that a stale object that is served is  *)
(* about to be cleared.                                                    *)
(***************************************************************************)
EXTENDS ZookeeperCache, TLAPS

-----------------------------------------------------------------------------
(* The inductive invariant                                                 *)

\* What fires while the client is away is kept by the service, with its watch.
FiredOK == /\ session = "up" => fired = {}
           /\ \A d \in fired : watchers[d] > 0

\* An object goes stale by its own dependencies only.
StaleOK ==
    /\ \A k \in cached : \A d \in stale[k] : Contains(DepsOf[k], d)
    /\ \A a \in Adders : adder[a] # Idle => \A d \in adder[a].stale : Contains(DepsOf[adder[a].key], d)

\* The service or the event thread still has the notification of d.
OnTheWay(d) == events[d] > 0 \/ d \in fired

\* add(): a dependency it has watched is watched, or its event is to be run.
AddersReachable ==
    \A a \in Adders : \A d \in Deps :
        BeforePut(a, d) /\ d \notin adder[a].excuse => watchers[d] > 0 \/ events[d] > 0

\* add(): a change since the load has not been written yet, or is on the way.
AddersTold ==
    \A a \in Adders :
        adder[a].pc \in {"exists", "create", "get", "put"} =>
            \A d \in adder[a].stale \ adder[a].excuse :
                Queued(d) \/ (BeforePut(a, d) /\ OnTheWay(d))

\* ServedStaleIsTold, whatever the state of the client.
ObjectsTold ==
    \A k \in cached : \A d \in stale[k] \ excuse[k] :
        Queued(d) \/ BeingCleared(k, d) \/ d \in fired

IInv == /\ TypeOK /\ FiredOK /\ StaleOK
        /\ AddersReachable /\ ObjectsReachable
        /\ AddersTold /\ ObjectsTold

-----------------------------------------------------------------------------
(* The states of a thread in add()                                         *)

Adding(pc, k, todo, st, ex) == [pc |-> pc, key |-> k, todo |-> todo, stale |-> st, excuse |-> ex]

\* The steps that still have dependencies to do.
Working == {"exists", "create", "get", "contains", "add", "new"}

LEMMA AddingType ==
    ASSUME NEW pc, NEW k \in Keys, NEW st \in SUBSET Deps, NEW ex \in SUBSET Deps
    PROVE  /\ \A todo \in Seq(Deps) : pc \in Working /\ todo # <<>> => Adding(pc, k, todo, st, ex) \in AdderStates
           /\ Adding("put", k, <<>>, st, ex) \in AdderStates
BY DEF Adding, AdderStates, Working

LEMMA AdderFacts ==
    ASSUME NEW p \in AdderStates
    PROVE  /\ p # Idle <=> p.pc # "idle"
           /\ p # Idle => /\ p.key \in Keys /\ p.todo \in Seq(Deps)
                          /\ p.stale \in SUBSET Deps /\ p.excuse \in SUBSET Deps
                          /\ p = Adding(p.pc, p.key, p.todo, p.stale, p.excuse)
           /\ p.pc \in Working => p # Idle /\ p.todo # <<>>
           /\ p.pc = "put" => p # Idle /\ p.todo = <<>>
           /\ p.pc \in Working \cup {"put", "idle"}
<1>1. CASE p = Idle
  BY <1>1 DEF Idle, Working
<1>2. CASE p \in [pc : Working, key : Keys, todo : Seq(Deps) \ {<<>>}, stale : SUBSET Deps, excuse : SUBSET Deps]
  <2>1. p.pc \in Working /\ p.pc # "idle" /\ p.pc # "put" /\ p # Idle
    BY <1>2 DEF Working, Idle
  <2>2. /\ p.key \in Keys /\ p.todo \in Seq(Deps) /\ p.todo # <<>>
        /\ p.stale \in SUBSET Deps /\ p.excuse \in SUBSET Deps
    BY <1>2
  <2>3. p = Adding(p.pc, p.key, p.todo, p.stale, p.excuse)
    BY <1>2 DEF Adding
  <2>. QED BY <2>1, <2>2, <2>3
<1>3. CASE p \in [pc : {"put"}, key : Keys, todo : {<<>>}, stale : SUBSET Deps, excuse : SUBSET Deps]
  <2>1. p.pc = "put" /\ p.pc # "idle" /\ p.pc \notin Working /\ p # Idle
    BY <1>3 DEF Working, Idle
  <2>0. <<>> \in Seq(Deps)
    OBVIOUS
  <2>2. /\ p.key \in Keys /\ p.todo \in Seq(Deps) /\ p.todo = <<>>
        /\ p.stale \in SUBSET Deps /\ p.excuse \in SUBSET Deps
    BY <1>3, <2>0
  <2>3. p = Adding(p.pc, p.key, p.todo, p.stale, p.excuse)
    BY <1>3 DEF Adding
  <2>. QED BY <2>1, <2>2, <2>3
<1>. QED BY <1>1, <1>2, <1>3 DEF AdderStates, Working

LEMMA TodoFacts ==
    ASSUME NEW q \in Seq(Deps), q # <<>>
    PROVE  /\ Head(q) \in Deps /\ Tail(q) \in Seq(Deps)
           /\ Len(q) = 1 <=> Tail(q) = <<>>
           /\ \A d : Contains(q, d) <=> d = Head(q) \/ Contains(Tail(q), d)
<1>1. /\ Head(q) \in Deps /\ Tail(q) \in Seq(Deps) /\ Head(q) = q[1]
      /\ Len(q) \in Nat \ {0} /\ Len(Tail(q)) = Len(q) - 1
      /\ \A i \in 1..(Len(q) - 1) : Tail(q)[i] = q[i + 1]
  OBVIOUS
<1>2. Len(q) = 1 <=> Tail(q) = <<>>
  BY <1>1
<1>3. ASSUME NEW d, Contains(q, d), d # Head(q) PROVE Contains(Tail(q), d)
  <2>1. PICK i \in 1..Len(q) : q[i] = d
    BY <1>3 DEF Contains
  <2>2. i - 1 \in 1..Len(Tail(q)) /\ Tail(q)[i - 1] = d
    BY <1>1, <1>3, <2>1
  <2>. QED BY <2>2 DEF Contains
<1>4. ASSUME NEW d, d = Head(q) \/ Contains(Tail(q), d) PROVE Contains(q, d)
  <2>1. CASE d = Head(q)
    BY <1>1, <2>1 DEF Contains
  <2>2. CASE Contains(Tail(q), d)
    <3>1. PICK i \in 1..Len(Tail(q)) : Tail(q)[i] = d
      BY <2>2 DEF Contains
    <3>2. i + 1 \in 1..Len(q) /\ q[i + 1] = d
      BY <1>1, <3>1
    <3>. QED BY <3>2 DEF Contains
  <2>. QED BY <1>4, <2>1, <2>2
<1>. QED BY <1>1, <1>2, <1>3, <1>4

LEMMA ContainsAppend ==
    ASSUME NEW q \in Seq(Deps), NEW e \in Deps, NEW d
    PROVE  Contains(Append(q, e), d) <=> Contains(q, d) \/ d = e
<1>1. /\ Len(Append(q, e)) = Len(q) + 1 /\ Len(q) \in Nat
      /\ \A i \in 1..Len(q) : Append(q, e)[i] = q[i]
      /\ Append(q, e)[Len(q) + 1] = e
  OBVIOUS
<1>2. Contains(Append(q, e), d) => Contains(q, d) \/ d = e
  BY <1>1 DEF Contains
<1>3. Contains(q, d) => Contains(Append(q, e), d)
  BY <1>1 DEF Contains
<1>4. d = e => Contains(Append(q, e), d)
  BY <1>1 DEF Contains
<1>. QED BY <1>2, <1>3, <1>4

LEMMA DepsFacts ==
    ASSUME NEW k \in Keys
    PROVE  /\ DepsOf[k] \in Seq(Deps) /\ DepsOf[k] # <<>>
           /\ \A d : d \in ToSet(DepsOf[k]) <=> Contains(DepsOf[k], d)
           /\ \A d : Contains(DepsOf[k], d) => d \in Deps
<1>1. DepsOf[k] \in Seq(Deps) /\ DepsOf[k] # <<>>
  BY CacheAssumption
<1>. QED BY <1>1 DEF ToSet, Contains

LEMMA AddingExcept ==
    ASSUME NEW p, p = Adding(p.pc, p.key, p.todo, p.stale, p.excuse), NEW pc, NEW q, NEW e
    PROVE  /\ [p EXCEPT !.pc = pc] = Adding(pc, p.key, p.todo, p.stale, p.excuse)
           /\ [p EXCEPT !.todo = q, !.pc = pc] = Adding(pc, p.key, q, p.stale, p.excuse)
           /\ [p EXCEPT !.pc = pc, !.todo = q] = Adding(pc, p.key, q, p.stale, p.excuse)
           /\ [p EXCEPT !.stale = e] = Adding(p.pc, p.key, p.todo, e, p.excuse)
           /\ [p EXCEPT !.excuse = e] = Adding(p.pc, p.key, p.todo, p.stale, e)
<1>1. [p EXCEPT !.pc = pc] = Adding(pc, p.key, p.todo, p.stale, p.excuse)
  BY DEF Adding
<1>2. PICK r : r = [p EXCEPT !.todo = q]
  OBVIOUS
<1>3. [p EXCEPT !.todo = q, !.pc = pc] = Adding(pc, p.key, q, p.stale, p.excuse)
  <2>1. r = Adding(p.pc, p.key, q, p.stale, p.excuse)
    BY <1>2 DEF Adding
  <2>2. [r EXCEPT !.pc = pc] = Adding(pc, p.key, q, p.stale, p.excuse)
    BY <2>1 DEF Adding
  <2>. QED BY <1>2, <2>2
<1>4. [p EXCEPT !.pc = pc, !.todo = q] = Adding(pc, p.key, q, p.stale, p.excuse)
  <2>1. PICK w : w = [p EXCEPT !.pc = pc]
    OBVIOUS
  <2>2. w = Adding(pc, p.key, p.todo, p.stale, p.excuse)
    BY <1>1, <2>1
  <2>3. [w EXCEPT !.todo = q] = Adding(pc, p.key, q, p.stale, p.excuse)
    BY <2>2 DEF Adding
  <2>. QED BY <2>1, <2>3
<1>5. [p EXCEPT !.stale = e] = Adding(p.pc, p.key, p.todo, e, p.excuse)
  BY DEF Adding
<1>6. [p EXCEPT !.excuse = e] = Adding(p.pc, p.key, p.todo, p.stale, e)
  BY DEF Adding
<1>. QED BY <1>1, <1>3, <1>4, <1>5, <1>6

\* The steps of a thread in add(), as whole records.
TodoThenPC(f, a, q, pc) == [f EXCEPT ![a].todo = q, ![a].pc = pc]
PCThenTodo(f, a, q, pc) == [f EXCEPT ![a].pc = pc, ![a].todo = q]

LEMMA AdderSteps ==
    ASSUME TypeOK, NEW a \in Adders, adder[a] # Idle, NEW pc, NEW q
    PROVE  /\ [adder EXCEPT ![a].pc = pc]
                 = [adder EXCEPT ![a] = Adding(pc, adder[a].key, adder[a].todo, adder[a].stale, adder[a].excuse)]
           /\ TodoThenPC(adder, a, q, pc)
                 = [adder EXCEPT ![a] = Adding(pc, adder[a].key, q, adder[a].stale, adder[a].excuse)]
           /\ PCThenTodo(adder, a, q, pc)
                 = [adder EXCEPT ![a] = Adding(pc, adder[a].key, q, adder[a].stale, adder[a].excuse)]
           /\ [adder[a] EXCEPT !.todo = q, !.pc = pc]
                 = Adding(pc, adder[a].key, q, adder[a].stale, adder[a].excuse)
<1>1. adder[a] = Adding(adder[a].pc, adder[a].key, adder[a].todo, adder[a].stale, adder[a].excuse)
  BY AdderFacts DEF TypeOK
<1>2. adder \in [Adders -> AdderStates]
  BY DEF TypeOK
<1>3. PICK p : p = adder[a]
  OBVIOUS
<1>0. p = Adding(p.pc, p.key, p.todo, p.stale, p.excuse)
  BY <1>1, <1>3
<1>4. /\ [p EXCEPT !.pc = pc] = Adding(pc, p.key, p.todo, p.stale, p.excuse)
      /\ [p EXCEPT !.todo = q, !.pc = pc] = Adding(pc, p.key, q, p.stale, p.excuse)
      /\ [p EXCEPT !.pc = pc, !.todo = q] = Adding(pc, p.key, q, p.stale, p.excuse)
  <2>1. [p EXCEPT !.pc = pc] = Adding(pc, p.key, p.todo, p.stale, p.excuse)
    BY <1>0, AddingExcept, Zenon
  <2>2. [p EXCEPT !.todo = q, !.pc = pc] = Adding(pc, p.key, q, p.stale, p.excuse)
    BY <1>0, AddingExcept, Zenon
  <2>3. [p EXCEPT !.pc = pc, !.todo = q] = Adding(pc, p.key, q, p.stale, p.excuse)
    BY <1>0, AddingExcept, Zenon
  <2>. QED BY <2>1, <2>2, <2>3
<1>5. /\ [adder EXCEPT ![a].pc = pc] = [adder EXCEPT ![a] = [p EXCEPT !.pc = pc]]
      /\ [adder EXCEPT ![a].todo = q, ![a].pc = pc] = [adder EXCEPT ![a] = [p EXCEPT !.todo = q, !.pc = pc]]
      /\ [adder EXCEPT ![a].pc = pc, ![a].todo = q] = [adder EXCEPT ![a] = [p EXCEPT !.pc = pc, !.todo = q]]
  BY <1>2, <1>3
<1>. QED BY <1>3, <1>4, <1>5 DEF TodoThenPC, PCThenTodo

-----------------------------------------------------------------------------
(* What a step does to the threads in add()                                *)

\* A step of a itself, to the state p.
Steps(a, p) == p \in AdderStates /\ adder' = [adder EXCEPT ![a] = p]

\* A step of another thread: an object loaded meanwhile is more out of date, or
\* it is known that a notification will not reach it.
Grows(p, q) ==
    /\ p = Idle <=> q = Idle
    /\ p # Idle => /\ q = Adding(p.pc, p.key, p.todo, q.stale, q.excuse)
                   /\ p.stale \subseteq q.stale /\ q.stale \in SUBSET Deps
                   /\ p.excuse \subseteq q.excuse /\ q.excuse \in SUBSET Deps

AddersGrow == /\ adder' = [b \in Adders |-> adder'[b]]
              /\ \A b \in Adders : Grows(adder[b], adder'[b])

Excused(p, D) == [p EXCEPT !.excuse = @ \cup D]
OutOfDate(p, D) == [p EXCEPT !.stale = @ \cup D]

LEMMA GrowsSelf ==
    ASSUME NEW p \in AdderStates
    PROVE  Grows(p, p)
BY AdderFacts DEF Grows

LEMMA GrowsExcuse ==
    ASSUME NEW p \in AdderStates, p # Idle, NEW D \in SUBSET Deps
    PROVE  /\ Grows(p, Excused(p, D))
           /\ Grows(p, OutOfDate(p, D))
           /\ Excused(p, D) = Adding(p.pc, p.key, p.todo, p.stale, p.excuse \cup D)
           /\ OutOfDate(p, D) = Adding(p.pc, p.key, p.todo, p.stale \cup D, p.excuse)
<1>1. /\ p = Adding(p.pc, p.key, p.todo, p.stale, p.excuse)
      /\ p.stale \in SUBSET Deps /\ p.excuse \in SUBSET Deps
  BY AdderFacts
<1>2. /\ [p EXCEPT !.excuse = p.excuse \cup D] = Adding(p.pc, p.key, p.todo, p.stale, p.excuse \cup D)
      /\ [p EXCEPT !.stale = p.stale \cup D] = Adding(p.pc, p.key, p.todo, p.stale \cup D, p.excuse)
  BY <1>1, AddingExcept, Zenon
<1>3. ASSUME NEW st \in SUBSET Deps, NEW ex \in SUBSET Deps, p.stale \subseteq st, p.excuse \subseteq ex,
             NEW q, q = Adding(p.pc, p.key, p.todo, st, ex)
      PROVE  Grows(p, q)
  BY <1>3 DEF Grows, Adding, Idle
<1>4. Grows(p, Adding(p.pc, p.key, p.todo, p.stale, p.excuse \cup D))
  BY <1>1, <1>3
<1>5. Grows(p, Adding(p.pc, p.key, p.todo, p.stale \cup D, p.excuse))
  BY <1>1, <1>3
<1>6. /\ Excused(p, D) = Adding(p.pc, p.key, p.todo, p.stale, p.excuse \cup D)
      /\ OutOfDate(p, D) = Adding(p.pc, p.key, p.todo, p.stale \cup D, p.excuse)
  BY <1>2 DEF Excused, OutOfDate
<1>. QED BY <1>4, <1>5, <1>6

LEMMA GrowType ==
    ASSUME TypeOK, AddersGrow
    PROVE  adder' \in [Adders -> AdderStates]
<1>1. ASSUME NEW b \in Adders PROVE adder'[b] \in AdderStates
  <2>1. adder[b] \in AdderStates /\ Grows(adder[b], adder'[b])
    BY DEF TypeOK, AddersGrow
  <2>2. CASE adder[b] = Idle
    BY <2>1, <2>2 DEF Grows
  <2>3. CASE adder[b] # Idle
    <3>1. /\ adder'[b] = Adding(adder[b].pc, adder[b].key, adder[b].todo, adder'[b].stale, adder'[b].excuse)
          /\ adder'[b].stale \in SUBSET Deps /\ adder'[b].excuse \in SUBSET Deps
      BY <2>1, <2>3 DEF Grows
    <3>2. adder[b].key \in Keys /\ adder[b].todo \in Seq(Deps)
      BY <2>1, <2>3, AdderFacts
    <3>3. \/ adder[b].pc \in Working /\ adder[b].todo # <<>>
          \/ adder[b].pc = "put" /\ adder[b].todo = <<>>
      BY <2>1, <2>3, AdderFacts
    <3>. QED BY <3>1, <3>2, <3>3, AddingType
  <2>. QED BY <2>2, <2>3
<1>. QED BY <1>1 DEF AddersGrow

LEMMA StepType ==
    ASSUME TypeOK, NEW a \in Adders, NEW p, Steps(a, p)
    PROVE  /\ adder' \in [Adders -> AdderStates]
           /\ adder'[a] = p /\ \A b \in Adders \ {a} : adder'[b] = adder[b]
BY DEF TypeOK, Steps

LEMMA ExcuseAddersGrow ==
    ASSUME TypeOK, NEW A, NEW d \in Deps, ExcuseAdders(A, d),
           \A b \in Adders \cap A : adder[b] # Idle
    PROVE  AddersGrow
<1>1. ASSUME NEW b \in Adders PROVE Grows(adder[b], adder'[b])
  <2>0. adder[b] \in AdderStates
    BY DEF TypeOK
  <2>1. CASE b \in A
    <3>1. adder[b] # Idle /\ adder'[b] = Excused(adder[b], {d})
      BY <2>1 DEF ExcuseAdders, Excused
    <3>. QED BY <2>0, <3>1, GrowsExcuse
  <2>2. CASE b \notin A
    BY <2>0, <2>2, GrowsSelf DEF ExcuseAdders
  <2>. QED BY <2>1, <2>2
<1>. QED BY <1>1 DEF AddersGrow, ExcuseAdders

LEMMA BeforePutBusy ==
    ASSUME TypeOK, NEW b \in Adders, NEW d, BeforePut(b, d) \/ BeforeWatch(b, d)
    PROVE  adder[b] # Idle /\ d \in Deps
<1>1. adder[b] # Idle /\ adder[b] \in AdderStates
  BY DEF BeforePut, BeforeWatch, Idle, TypeOK
<1>2. adder[b].key \in Keys /\ adder[b].todo \in Seq(Deps)
  BY <1>1, AdderFacts
<1>3. Contains(adder[b].todo, d) => d \in Deps
  BY <1>2 DEF Contains
<1>. QED BY <1>1, <1>2, <1>3, DepsFacts DEF BeforePut, BeforeWatch

LEMMA DataChangeGrow ==
    ASSUME TypeOK, NEW d \in Deps, DataChange(d)
    PROVE  AddersGrow
<1>1. ASSUME NEW b \in Adders PROVE Grows(adder[b], adder'[b])
  <2>0. adder[b] \in AdderStates
    BY DEF TypeOK
  <2>1. CASE adder[b] # Idle /\ Contains(DepsOf[adder[b].key], d)
    <3>1. adder'[b] = OutOfDate(adder[b], {d})
      BY <2>1 DEF DataChange, OutOfDate
    <3>. QED BY <2>0, <2>1, <3>1, GrowsExcuse
  <2>2. CASE ~(adder[b] # Idle /\ Contains(DepsOf[adder[b].key], d))
    BY <2>0, <2>2, GrowsSelf DEF DataChange
  <2>. QED BY <2>1, <2>2
<1>. QED BY <1>1 DEF AddersGrow, DataChange

LEMMA ExpiresGrow ==
    ASSUME TypeOK, SessionExpires
    PROVE  AddersGrow
<1>1. ASSUME NEW b \in Adders PROVE Grows(adder[b], adder'[b])
  <2>0. adder[b] \in AdderStates
    BY DEF TypeOK
  <2>1. CASE adder[b].pc \in {"exists", "create", "get", "put"}
    <3>1. adder'[b] = Excused(adder[b], {d \in Deps : BeforePut(b, d)})
      BY <2>1 DEF SessionExpires, Excused
    <3>2. adder[b] # Idle /\ {d \in Deps : BeforePut(b, d)} \in SUBSET Deps
      BY <2>1 DEF Idle
    <3>. QED BY <2>0, <3>1, <3>2, GrowsExcuse
  <2>2. CASE adder[b].pc \notin {"exists", "create", "get", "put"}
    BY <2>0, <2>2, GrowsSelf DEF SessionExpires
  <2>. QED BY <2>1, <2>2
<1>. QED BY <1>1 DEF AddersGrow, SessionExpires

LEMMA WriteNodeGrow ==
    ASSUME TypeOK, NEW d \in Deps, WriteNode(d)
    PROVE  AddersGrow
<1>1. \A b \in Adders \cap {a \in Adders : BeforeWatch(a, d) /\ d \in adder[a].stale} : adder[b] # Idle
  BY BeforePutBusy
<1>. QED BY <1>1, ExcuseAddersGrow DEF WriteNode

\* The thread of add() at each of its steps.
At(a, pc) == Adding(pc, adder[a].key, adder[a].todo, adder[a].stale, adder[a].excuse)
Turn(a, pc, todo) == Adding(pc, adder[a].key, todo, adder[a].stale, adder[a].excuse)

LEMMA WorkingFacts ==
    ASSUME TypeOK, NEW a \in Adders, adder[a].pc \in Working
    PROVE  /\ adder[a] # Idle /\ adder[a].key \in Keys
           /\ adder[a].todo \in Seq(Deps) /\ adder[a].todo # <<>>
           /\ Head(adder[a].todo) \in Deps
           /\ adder[a].stale \in SUBSET Deps /\ adder[a].excuse \in SUBSET Deps
           /\ \A pc \in Working : At(a, pc) \in AdderStates
<1>1. adder[a] \in AdderStates
  BY DEF TypeOK
<1>2. /\ adder[a] # Idle /\ adder[a].key \in Keys
      /\ adder[a].todo \in Seq(Deps) /\ adder[a].todo # <<>>
      /\ adder[a].stale \in SUBSET Deps /\ adder[a].excuse \in SUBSET Deps
  BY <1>1, AdderFacts
<1>3. \A pc \in Working : At(a, pc) \in AdderStates
  BY <1>2, AddingType DEF At
<1>. QED BY <1>2, <1>3, TodoFacts

LEMMA LoadStep ==
    ASSUME TypeOK, NEW a \in Adders, NEW k \in Keys, Load(a, k)
    PROVE  Steps(a, Adding("exists", k, DepsOf[k], {}, {}))
<1>1. Adding("exists", k, DepsOf[k], {}, {}) \in AdderStates
  BY AddingType, DepsFacts DEF Working
<1>. QED BY <1>1 DEF Load, Steps, Adding

LEMMA ExistsStep ==
    ASSUME TypeOK, NEW a \in Adders, Exists(a)
    PROVE  \E pc \in {"get", "create"} : Steps(a, At(a, pc))
<1>1. adder[a].pc \in Working
  BY DEF Exists, Working
<1>2. PICK pc : /\ pc = (IF Head(adder[a].todo) \in nodes THEN "get" ELSE "create")
                /\ adder' = [adder EXCEPT ![a].pc = pc]
  BY DEF Exists
<1>3. adder' = [adder EXCEPT ![a] = At(a, pc)]
  BY <1>1, <1>2, WorkingFacts, AdderSteps DEF At
<1>4. pc \in {"get", "create"} /\ pc \in Working
  BY <1>2 DEF Working
<1>. QED BY <1>1, <1>3, <1>4, WorkingFacts DEF Steps

LEMMA CreateStep ==
    ASSUME TypeOK, NEW a \in Adders, Create(a)
    PROVE  Steps(a, Idle) \/ Steps(a, At(a, "get"))
<1>1. adder[a].pc \in Working
  BY DEF Create, Working
<1>2. CASE Head(adder[a].todo) \in nodes
  BY <1>2 DEF Create, Steps, AdderStates
<1>3. CASE Head(adder[a].todo) \notin nodes
  <2>1. adder' = [adder EXCEPT ![a] = At(a, "get")]
    BY <1>1, <1>3, WorkingFacts, AdderSteps DEF At, Create
  <2>2. At(a, "get") \in AdderStates
    BY <1>1, WorkingFacts DEF Working
  <2>. QED BY <2>1, <2>2 DEF Steps
<1>. QED BY <1>2, <1>3

LEMMA GetDataStep ==
    ASSUME TypeOK, NEW a \in Adders, GetData(a)
    PROVE  \E pc \in {"put", "exists"} : Steps(a, Turn(a, pc, Tail(adder[a].todo)))
<1>1. adder[a].pc \in Working
  BY DEF GetData, Working
<1>2. PICK pc : /\ pc = (IF Len(adder[a].todo) = 1 THEN "put" ELSE "exists")
                /\ adder' = [adder EXCEPT ![a].todo = Tail(@), ![a].pc = pc]
  BY DEF GetData
<1>3. adder' = [adder EXCEPT ![a].todo = Tail(adder[a].todo), ![a].pc = pc]
  BY <1>2 DEF TypeOK
<1>4. adder' = [adder EXCEPT ![a] = Turn(a, pc, Tail(adder[a].todo))]
  <2>1. adder' = TodoThenPC(adder, a, Tail(adder[a].todo), pc)
    BY <1>3 DEF TodoThenPC
  <2>. QED BY <1>1, <2>1, WorkingFacts, AdderSteps DEF Turn
<1>5. Turn(a, pc, Tail(adder[a].todo)) \in AdderStates
  <2>1. /\ adder[a].key \in Keys /\ adder[a].todo \in Seq(Deps) /\ adder[a].todo # <<>>
        /\ adder[a].stale \in SUBSET Deps /\ adder[a].excuse \in SUBSET Deps
    BY <1>1, WorkingFacts
  <2>2. /\ Tail(adder[a].todo) \in Seq(Deps)
        /\ pc = "put" => Tail(adder[a].todo) = <<>>
        /\ pc = "exists" => Tail(adder[a].todo) # <<>>
    BY <1>2, <2>1, TodoFacts
  <2>. QED BY <1>2, <2>1, <2>2, AddingType DEF Turn, Working
<1>. QED BY <1>2, <1>4, <1>5 DEF Steps

LEMMA PutStep ==
    ASSUME TypeOK, NEW a \in Adders, Put(a)
    PROVE  /\ adder[a] # Idle /\ adder[a].key \in Keys
           /\ adder[a].stale \in SUBSET Deps /\ adder[a].excuse \in SUBSET Deps
           /\ Steps(a, Turn(a, "contains", DepsOf[adder[a].key]))
<1>1. adder[a] \in AdderStates /\ adder[a].pc = "put"
  BY DEF TypeOK, Put
<1>2. /\ adder[a] # Idle /\ adder[a].key \in Keys
      /\ adder[a].stale \in SUBSET Deps /\ adder[a].excuse \in SUBSET Deps
  BY <1>1, AdderFacts
<1>3. adder' = [adder EXCEPT ![a] = Turn(a, "contains", DepsOf[adder[a].key])]
  <2>1. adder' = PCThenTodo(adder, a, DepsOf[adder[a].key], "contains")
    BY DEF Put, PCThenTodo
  <2>. QED BY <1>2, <2>1, AdderSteps DEF Turn
<1>4. Turn(a, "contains", DepsOf[adder[a].key]) \in AdderStates
  BY <1>2, AddingType, DepsFacts DEF Turn, Working
<1>. QED BY <1>2, <1>3, <1>4 DEF Steps

LEMMA ContainsKeyStep ==
    ASSUME TypeOK, NEW a \in Adders, ContainsKey(a)
    PROVE  \E pc \in {"add", "new"} : Steps(a, At(a, pc))
<1>1. adder[a].pc \in Working
  BY DEF ContainsKey, Working
<1>2. PICK pc : /\ pc = (IF depMap[Head(adder[a].todo)] # {} THEN "add" ELSE "new")
                /\ adder' = [adder EXCEPT ![a].pc = pc]
  BY DEF ContainsKey
<1>3. adder' = [adder EXCEPT ![a] = At(a, pc)]
  BY <1>1, <1>2, WorkingFacts, AdderSteps DEF At
<1>4. pc \in {"add", "new"} /\ pc \in Working
  BY <1>2 DEF Working
<1>. QED BY <1>1, <1>3, <1>4, WorkingFacts DEF Steps

LEMMA MappedStep ==
    ASSUME TypeOK, NEW a \in Adders, adder[a].pc \in Working, Mapped(a)
    PROVE  \/ Len(adder[a].todo) = 1 /\ Tail(adder[a].todo) = <<>> /\ Steps(a, Idle)
           \/ Steps(a, Turn(a, "contains", Tail(adder[a].todo)))
<1>1. /\ adder[a].key \in Keys /\ adder[a].todo \in Seq(Deps) /\ adder[a].todo # <<>>
      /\ adder[a].stale \in SUBSET Deps /\ adder[a].excuse \in SUBSET Deps /\ adder[a] # Idle
  BY WorkingFacts
<1>2. CASE Len(adder[a].todo) = 1
  <2>1. Tail(adder[a].todo) = <<>>
    BY <1>1, <1>2, TodoFacts
  <2>. QED BY <1>2, <2>1 DEF Mapped, Steps, AdderStates
<1>3. CASE Len(adder[a].todo) # 1
  <2>1. Tail(adder[a].todo) \in Seq(Deps) /\ Tail(adder[a].todo) # <<>>
    BY <1>1, <1>3, TodoFacts
  <2>2. Turn(a, "contains", Tail(adder[a].todo)) \in AdderStates
    BY <1>1, <2>1, AddingType DEF Turn, Working
  <2>3. [adder[a] EXCEPT !.todo = Tail(adder[a].todo), !.pc = "contains"] = Turn(a, "contains", Tail(adder[a].todo))
    BY <1>1, AdderSteps DEF Turn
  <2>. QED BY <1>3, <2>2, <2>3 DEF Mapped, Steps
<1>. QED BY <1>2, <1>3

-----------------------------------------------------------------------------
(* The types                                                               *)

LEMMA ExcuseKeysType ==
    ASSUME TypeOK, NEW K, NEW d \in Deps, ExcuseKeys(K, d)
    PROVE  excuse' \in [Keys -> SUBSET Deps]
BY DEF TypeOK, ExcuseKeys

LEMMA ForgetType ==
    ASSUME TypeOK, NEW k \in Keys, Forget(k)
    PROVE  /\ cached' \subseteq Keys
           /\ stale' \in [Keys -> SUBSET Deps] /\ excuse' \in [Keys -> SUBSET Deps]
BY DEF TypeOK, Forget

\* The watchers of a node are moved, never multiplied.
LEMMA WriteNodeType ==
    ASSUME TypeOK, NEW d \in Deps, WriteNode(d)
    PROVE  /\ watchers' \in [Deps -> Nat] /\ events' \in [Deps -> Nat]
           /\ \A i \in Deps : watchers'[i] + events'[i] <= MaxWatchers
           /\ fired' \subseteq Deps
           /\ adder' \in [Adders -> AdderStates]
<1>1. adder' \in [Adders -> AdderStates]
  BY WriteNodeGrow, GrowType
<1>2. CASE session = "up"
  <2>1. /\ events' = [events EXCEPT ![d] = events[d] + watchers[d]]
        /\ watchers' = [watchers EXCEPT ![d] = 0] /\ fired' = fired
    BY <1>2 DEF WriteNode
  <2>2. watchers \in [Deps -> Nat] /\ events \in [Deps -> Nat] /\ fired \subseteq Deps
    BY DEF TypeOK
  <2>3. watchers' \in [Deps -> Nat] /\ events' \in [Deps -> Nat]
    BY <2>1, <2>2
  <2>4. ASSUME NEW i \in Deps PROVE watchers'[i] + events'[i] <= MaxWatchers
    <3>1. watchers[i] \in Nat /\ events[i] \in Nat /\ watchers[i] + events[i] <= MaxWatchers
      BY DEF TypeOK
    <3>2. CASE i = d
      BY <2>1, <2>2, <3>1, <3>2
    <3>3. CASE i # d
      BY <2>1, <2>2, <3>1, <3>3
    <3>. QED BY <3>2, <3>3
  <2>. QED BY <1>1, <2>1, <2>2, <2>3, <2>4
<1>3. CASE session # "up"
  BY <1>1, <1>3 DEF WriteNode, TypeOK
<1>. QED BY <1>2, <1>3

LEMMA ReconnectType ==
    ASSUME TypeOK, Reconnect
    PROVE  TypeOK'
<1>1. watchers \in [Deps -> Nat] /\ events \in [Deps -> Nat]
  BY DEF TypeOK
<1>2. watchers' \in [Deps -> Nat] /\ events' \in [Deps -> Nat]
  BY <1>1 DEF Reconnect
<1>3. ASSUME NEW i \in Deps PROVE watchers'[i] + events'[i] <= MaxWatchers
  <2>1. watchers[i] \in Nat /\ events[i] \in Nat /\ watchers[i] + events[i] <= MaxWatchers
    BY DEF TypeOK
  <2>2. CASE i \in fired
    BY <2>1, <2>2 DEF Reconnect
  <2>3. CASE i \notin fired
    BY <2>1, <2>3 DEF Reconnect
  <2>. QED BY <2>2, <2>3
<1>. QED BY <1>2, <1>3 DEF TypeOK, Reconnect, appVars

LEMMA SessionExpiresType ==
    ASSUME TypeOK, SessionExpires
    PROVE  TypeOK'
<1>1. adder' \in [Adders -> AdderStates]
  BY ExpiresGrow, GrowType
<1>2. excuse' \in [Keys -> SUBSET Deps]
  BY DEF TypeOK, SessionExpires
<1>3. /\ watchers' \in [Deps -> Nat]
      /\ \A i \in Deps : watchers'[i] + events'[i] <= MaxWatchers
  <2>1. ASSUME NEW i \in Deps PROVE watchers'[i] + events'[i] <= MaxWatchers
    <3>1. watchers[i] \in Nat /\ events[i] \in Nat /\ watchers[i] + events[i] <= MaxWatchers
      BY DEF TypeOK
    <3>. QED BY <3>1, CacheAssumption DEF SessionExpires
  <2>2. watchers' \in [Deps -> Nat]
    BY DEF SessionExpires
  <2>. QED BY <2>1, <2>2
<1>. QED BY <1>1, <1>2, <1>3 DEF TypeOK, SessionExpires

LEMMA SessionType ==
    ASSUME TypeOK, Disconnect \/ HandleEvent
    PROVE  TypeOK'
<1>1. CASE Disconnect
  <2>1. failures' \in 0..MaxFailures
    BY <1>1, CacheAssumption DEF TypeOK, Disconnect
  <2>. QED BY <1>1, <2>1 DEF TypeOK, Disconnect, appVars
<1>2. CASE HandleEvent
  <2>1. session' \in {"up", "down", "expired", "new"}
    BY <1>2 DEF HandleEvent, Connect
  <2>. QED BY <1>2, <2>1 DEF TypeOK, HandleEvent, appVars
<1>. QED BY <1>1, <1>2

LEMMA LoadType ==
    ASSUME TypeOK, NEW a \in Adders, NEW k \in Keys, Load(a, k)
    PROVE  TypeOK'
<1>1. adder' \in [Adders -> AdderStates]
  BY LoadStep, StepType
<1>2. loads' \in 0..MaxLoads
  BY CacheAssumption DEF TypeOK, Load
<1>. QED BY <1>1, <1>2 DEF TypeOK, Load, zkVars

LEMMA WatchingType ==
    ASSUME TypeOK, NEW a \in Adders, Exists(a) \/ Create(a) \/ GetData(a) \/ AddFails(a)
    PROVE  TypeOK'
<1>1. CASE Exists(a)
  <2>1. adder' \in [Adders -> AdderStates]
    BY <1>1, ExistsStep, StepType
  <2>. QED BY <1>1, <2>1 DEF TypeOK, Exists, zkVars
<1>2. CASE Create(a)
  <2>1. adder' \in [Adders -> AdderStates]
    BY <1>2, CreateStep, StepType
  <2>2. Head(adder[a].todo) \in Deps
    BY <1>2, WorkingFacts DEF Create, Working
  <2>3. nodes' \subseteq Deps
    BY <1>2, <2>2 DEF TypeOK, Create
  <2>. QED BY <1>2, <2>1, <2>3 DEF TypeOK, Create
<1>3. CASE GetData(a)
  <2>1. adder' \in [Adders -> AdderStates]
    BY <1>3, GetDataStep, StepType
  <2>. DEFINE d == Head(adder[a].todo)
  <2>2. d \in Deps /\ watchers' = [watchers EXCEPT ![d] = watchers[d] + 1] /\ events' = events
        /\ watchers[d] + events[d] < MaxWatchers
    BY <1>3, WorkingFacts DEF GetData, Working
  <2>3. watchers \in [Deps -> Nat] /\ events \in [Deps -> Nat]
    BY DEF TypeOK
  <2>4. watchers' \in [Deps -> Nat]
    BY <2>2, <2>3
  <2>5. ASSUME NEW i \in Deps PROVE watchers'[i] + events'[i] <= MaxWatchers
    <3>1. watchers[i] \in Nat /\ events[i] \in Nat /\ watchers[i] + events[i] <= MaxWatchers
      BY DEF TypeOK
    <3>. QED BY <2>2, <2>3, <3>1, CacheAssumption
  <2>. QED BY <1>3, <2>1, <2>4, <2>5 DEF TypeOK, GetData
<1>4. CASE AddFails(a)
  <2>1. adder' \in [Adders -> AdderStates]
    BY <1>4 DEF TypeOK, AddFails, AdderStates
  <2>2. adder[a].pc \in Working
    BY <1>4 DEF AddFails, Working
  <2>3. Head(adder[a].todo) \in Deps
    BY <2>2, WorkingFacts
  <2>4. nodes' \subseteq Deps
    BY <1>4, <2>3 DEF TypeOK, AddFails
  <2>5. session' \in {"up", "down", "expired", "new"}
    BY <1>4 DEF TypeOK, AddFails, Connect
  <2>. QED BY <1>4, <2>1, <2>4, <2>5 DEF TypeOK, AddFails
<1>. QED BY <1>1, <1>2, <1>3, <1>4

LEMMA StoringType ==
    ASSUME TypeOK, NEW a \in Adders, Put(a) \/ ContainsKey(a) \/ AddToSet(a) \/ NewSet(a)
    PROVE  TypeOK'
<1>1. CASE Put(a)
  <2>1. adder' \in [Adders -> AdderStates]
    BY <1>1, PutStep, StepType
  <2>2. /\ cached' \subseteq Keys
        /\ stale' \in [Keys -> SUBSET Deps] /\ excuse' \in [Keys -> SUBSET Deps]
    BY <1>1, PutStep DEF TypeOK, Put
  <2>. QED BY <1>1, <2>1, <2>2 DEF TypeOK, Put, zkVars
<1>2. CASE ContainsKey(a)
  <2>1. adder' \in [Adders -> AdderStates]
    BY <1>2, ContainsKeyStep, StepType
  <2>. QED BY <1>2, <2>1 DEF TypeOK, ContainsKey, zkVars
<1>. DEFINE d == Head(adder[a].todo)
            k == adder[a].key
<1>3. CASE AddToSet(a)
  <2>0. adder[a].pc \in Working /\ Mapped(a)
    BY <1>3 DEF AddToSet, Working
  <2>1. adder' \in [Adders -> AdderStates]
    BY <2>0, MappedStep, StepType
  <2>2. d \in Deps /\ k \in Keys
    BY <2>0, WorkingFacts
  <2>3. depMap' \in [Deps -> SUBSET Keys]
    <3>1. depMap' = depMap \/ depMap' = [depMap EXCEPT ![d] = @ \cup {k}]
      BY <1>3 DEF AddToSet
    <3>2. depMap \in [Deps -> SUBSET Keys]
      BY DEF TypeOK
    <3>. HIDE DEF d, k
    <3>. QED BY <2>2, <3>1, <3>2
  <2>4. clearing' \in ClearingStates
    <3>1. CASE clearing' = clearing \/ clearing' = Idle
      BY <3>1 DEF TypeOK, ClearingStates
    <3>2. CASE clearing # Idle /\ clearing' = [clearing EXCEPT !.left = @ \cup {k}]
      BY <2>2, <3>2 DEF TypeOK, ClearingStates
    <3>. QED BY <1>3, <3>1, <3>2 DEF AddToSet
  <2>5. excuse' \in [Keys -> SUBSET Deps]
    <3>1. CASE excuse' = excuse
      BY <3>1 DEF TypeOK
    <3>2. CASE ExcuseKeys(clearing.left \cup {k}, d) \/ ExcuseKeys({k}, d)
      BY <2>2, <3>2, ExcuseKeysType
    <3>. QED BY <1>3, <3>1, <3>2 DEF AddToSet
  <2>. QED BY <1>3, <2>1, <2>3, <2>4, <2>5 DEF TypeOK, AddToSet, zkVars
<1>4. CASE NewSet(a)
  <2>0. adder[a].pc \in Working /\ Mapped(a)
    BY <1>4 DEF NewSet, Working
  <2>1. adder' \in [Adders -> AdderStates]
    BY <2>0, MappedStep, StepType
  <2>2. d \in Deps /\ k \in Keys
    BY <2>0, WorkingFacts
  <2>3. depMap' \in [Deps -> SUBSET Keys]
    BY <1>4, <2>2 DEF TypeOK, NewSet
  <2>4. excuse' \in [Keys -> SUBSET Deps]
    BY <1>4, <2>2, ExcuseKeysType DEF NewSet
  <2>. QED BY <1>4, <2>1, <2>3, <2>4 DEF TypeOK, NewSet, zkVars
<1>. QED BY <1>1, <1>2, <1>3, <1>4

LEMMA ExpireType ==
    ASSUME TypeOK, NEW d \in Deps, DataChange(d)
    PROVE  /\ stale' \in [Keys -> SUBSET Deps] /\ adder' \in [Adders -> AdderStates]
           /\ changes' \in 0..MaxChanges
<1>1. adder' \in [Adders -> AdderStates]
  BY DataChangeGrow, GrowType
<1>2. stale' \in [Keys -> SUBSET Deps]
  BY DEF TypeOK, DataChange
<1>3. changes' \in 0..MaxChanges
  BY CacheAssumption DEF TypeOK, DataChange
<1>. QED BY <1>1, <1>2, <1>3

LEMMA NotifierFacts ==
    ASSUME TypeOK, NEW n \in Notifiers, notifier[n] # Idle
    PROVE  /\ notifier[n].dep \in Deps
           /\ [notifier[n] EXCEPT !.pc = "put"] = [pc |-> "put", dep |-> notifier[n].dep]
<1>1. notifier[n] \in [pc : {"contains", "put"}, dep : Deps]
  BY DEF TypeOK, NotifierStates
<1>2. notifier[n] = [pc |-> notifier[n].pc, dep |-> notifier[n].dep]
  BY <1>1
<1>. QED BY <1>1, <1>2

LEMMA NotifierType ==
    ASSUME TypeOK, NEW n \in Notifiers, QueueContains(n) \/ QueuePut(n) \/ \E d \in Deps : Expire(n, d)
    PROVE  TypeOK'
<1>1. CASE QueueContains(n)
  <2>1. [notifier[n] EXCEPT !.pc = "put"] \in NotifierStates /\ Idle \in NotifierStates
    BY <1>1, NotifierFacts DEF QueueContains, NotifierStates
  <2>2. notifier' \in [Notifiers -> NotifierStates]
    BY <1>1, <2>1 DEF TypeOK, QueueContains
  <2>. QED BY <1>1, <2>2 DEF TypeOK, QueueContains, zkVars
<1>2. CASE QueuePut(n)
  <2>1. notifier[n].dep \in Deps
    BY <1>2, NotifierFacts DEF QueuePut
  <2>2. queue' \in Seq(Deps) /\ Len(queue') <= Capacity
    BY <1>2, <2>1, CacheAssumption DEF TypeOK, QueuePut
  <2>3. notifier' \in [Notifiers -> NotifierStates]
    BY <1>2 DEF TypeOK, QueuePut, NotifierStates
  <2>. QED BY <1>2, <2>2, <2>3 DEF TypeOK, QueuePut, zkVars
<1>3. ASSUME NEW d \in Deps, Expire(n, d) PROVE TypeOK'
  <2>1. [pc |-> "contains", dep |-> d] \in NotifierStates
    BY DEF NotifierStates
  <2>2. notifier' \in [Notifiers -> NotifierStates]
    BY <1>3, <2>1 DEF TypeOK, Expire
  <2>3. /\ stale' \in [Keys -> SUBSET Deps] /\ adder' \in [Adders -> AdderStates]
        /\ changes' \in 0..MaxChanges
    BY <1>3, ExpireType DEF Expire
  <2>. QED BY <1>3, <2>2, <2>3 DEF TypeOK, Expire, zkVars
<1>. QED BY <1>1, <1>2, <1>3

LEMMA WorkerFacts ==
    ASSUME TypeOK, worker # Idle
    PROVE  /\ worker.dep \in Deps /\ [worker EXCEPT !.pc = "put"] = [pc |-> "put", dep |-> worker.dep]
<1>1. worker \in [pc : {"set", "put"}, dep : Deps]
  BY DEF TypeOK, WorkerStates
<1>2. worker = [pc |-> worker.pc, dep |-> worker.dep]
  BY <1>1
<1>. QED BY <1>1, <1>2

LEMMA WorkerType ==
    ASSUME TypeOK, WorkerTake \/ UpdateNode \/ UpdateFails \/ PutBack
    PROVE  TypeOK'
<1>0. /\ Idle \in WorkerStates
      /\ \A d \in Deps : {[pc |-> "set", dep |-> d], [pc |-> "put", dep |-> d]} \subseteq WorkerStates
  BY DEF WorkerStates
<1>1. CASE WorkerTake
  <2>1. Head(queue) \in Deps /\ Tail(queue) \in Seq(Deps) /\ Len(Tail(queue)) = Len(queue) - 1
    BY <1>1 DEF TypeOK, WorkerTake
  <2>2. worker' \in WorkerStates
    BY <1>0, <1>1, <2>1 DEF WorkerTake
  <2>3. queue' \in Seq(Deps) /\ Len(queue') <= Capacity
    BY <1>1, <2>1, CacheAssumption DEF TypeOK, WorkerTake
  <2>. QED BY <1>1, <2>2, <2>3 DEF TypeOK, WorkerTake, appVars, zkVars
<1>2. CASE UpdateNode
  <2>1. worker.dep \in Deps /\ WriteNode(worker.dep)
    BY <1>2, WorkerFacts DEF UpdateNode
  <2>2. /\ watchers' \in [Deps -> Nat] /\ events' \in [Deps -> Nat]
        /\ \A i \in Deps : watchers'[i] + events'[i] <= MaxWatchers
        /\ fired' \subseteq Deps /\ adder' \in [Adders -> AdderStates]
    BY <2>1, WriteNodeType
  <2>. QED BY <1>0, <1>2, <2>2 DEF TypeOK, UpdateNode
<1>3. CASE UpdateFails
  <2>1. worker.dep \in Deps /\ worker' = [pc |-> "put", dep |-> worker.dep]
    BY <1>3, WorkerFacts DEF UpdateFails
  <2>2. worker' \in WorkerStates
    BY <1>0, <2>1
  <2>3. /\ watchers' \in [Deps -> Nat] /\ events' \in [Deps -> Nat]
        /\ \A i \in Deps : watchers'[i] + events'[i] <= MaxWatchers
        /\ fired' \subseteq Deps /\ adder' \in [Adders -> AdderStates]
    <3>1. CASE WriteNode(worker.dep)
      BY <2>1, <3>1, WriteNodeType
    <3>2. CASE UNCHANGED <<watchers, fired, events, adder>>
      BY <3>2 DEF TypeOK
    <3>. QED BY <1>3, <3>1, <3>2 DEF UpdateFails
  <2>4. session' \in {"up", "down", "expired", "new"}
    BY <1>3 DEF TypeOK, UpdateFails, Connect
  <2>. QED BY <1>3, <2>2, <2>3, <2>4 DEF TypeOK, UpdateFails
<1>4. CASE PutBack
  <2>1. worker.dep \in Deps
    BY <1>4, WorkerFacts DEF PutBack
  <2>2. queue' \in Seq(Deps) /\ Len(queue') <= Capacity
    BY <1>4, <2>1, CacheAssumption DEF TypeOK, PutBack
  <2>. QED BY <1>0, <1>4, <2>2 DEF TypeOK, PutBack, appVars, zkVars
<1>. QED BY <1>1, <1>2, <1>3, <1>4

LEMMA RemoteType ==
    ASSUME TypeOK, NEW d \in Deps, RemoteExpire(d) \/ RemoteWrite(d)
    PROVE  TypeOK'
<1>1. CASE RemoteExpire(d)
  <2>1. /\ stale' \in [Keys -> SUBSET Deps] /\ adder' \in [Adders -> AdderStates]
        /\ changes' \in 0..MaxChanges
    BY <1>1, ExpireType DEF RemoteExpire
  <2>. QED BY <1>1, <2>1 DEF TypeOK, RemoteExpire, zkVars
<1>2. CASE RemoteWrite(d)
  <2>1. /\ watchers' \in [Deps -> Nat] /\ events' \in [Deps -> Nat]
        /\ \A i \in Deps : watchers'[i] + events'[i] <= MaxWatchers
        /\ fired' \subseteq Deps /\ adder' \in [Adders -> AdderStates]
    BY <1>2, WriteNodeType DEF RemoteWrite
  <2>. QED BY <1>2, <2>1 DEF TypeOK, RemoteWrite
<1>. QED BY <1>1, <1>2

LEMMA ClearStartGrow ==
    ASSUME TypeOK, NEW d \in Deps, ClearStart(d)
    PROVE  AddersGrow
<1>1. PICK A : /\ ExcuseAdders(A, d) /\ \A b \in A : b \in Adders /\ BeforePut(b, d)
  BY DEF ClearStart
<1>. QED BY <1>1, BeforePutBusy, ExcuseAddersGrow

LEMMA ClearType ==
    ASSUME TypeOK, (\E d \in Deps : ClearStart(d)) \/ (\E k \in Keys : ClearKey(k) \/ RemoveObject(k))
    PROVE  TypeOK'
<1>1. ASSUME NEW d \in Deps, ClearStart(d) PROVE TypeOK'
  <2>1. adder' \in [Adders -> AdderStates]
    BY <1>1, ClearStartGrow, GrowType
  <2>2. excuse' \in [Keys -> SUBSET Deps]
    BY <1>1, ExcuseKeysType DEF ClearStart
  <2>3. clearing' \in ClearingStates
    BY <1>1 DEF TypeOK, ClearStart, ClearingStates
  <2>4. events \in [Deps -> Nat] /\ events' = [events EXCEPT ![d] = events[d] - 1] /\ events[d] > 0
    BY <1>1 DEF TypeOK, ClearStart
  <2>5. events' \in [Deps -> Nat]
    BY <2>4
  <2>6. ASSUME NEW i \in Deps PROVE watchers'[i] + events'[i] <= MaxWatchers
    <3>1. watchers[i] \in Nat /\ events[i] \in Nat /\ watchers[i] + events[i] <= MaxWatchers /\ watchers' = watchers
      BY <1>1 DEF TypeOK, ClearStart
    <3>2. events'[i] = events[i] \/ events'[i] = events[i] - 1
      BY <2>4
    <3>. QED BY <3>1, <3>2, CacheAssumption
  <2>. QED BY <1>1, <2>1, <2>2, <2>3, <2>5, <2>6 DEF TypeOK, ClearStart
<1>2. ASSUME NEW k \in Keys, ClearKey(k) PROVE TypeOK'
  <2>1. clearing' \in ClearingStates
    <3>1. CASE clearing' = Idle
      BY <3>1 DEF ClearingStates
    <3>2. CASE clearing # Idle /\ clearing' = [clearing EXCEPT !.left = @ \ {k}]
      BY <3>2 DEF TypeOK, ClearingStates
    <3>. QED BY <1>2, <3>1, <3>2 DEF ClearKey
  <2>2. /\ cached' \subseteq Keys
        /\ stale' \in [Keys -> SUBSET Deps] /\ excuse' \in [Keys -> SUBSET Deps]
    BY <1>2, ForgetType DEF ClearKey
  <2>. QED BY <1>2, <2>1, <2>2 DEF TypeOK, ClearKey, appVars, zkVars
<1>3. ASSUME NEW k \in Keys, RemoveObject(k) PROVE TypeOK'
  <2>1. /\ cached' \subseteq Keys
        /\ stale' \in [Keys -> SUBSET Deps] /\ excuse' \in [Keys -> SUBSET Deps]
    BY <1>3, ForgetType DEF RemoveObject
  <2>. QED BY <1>3, <2>1 DEF TypeOK, RemoveObject, appVars, zkVars
<1>. QED BY <1>1, <1>2, <1>3

LEMMA InitType == Init => TypeOK
<1>. SUFFICES ASSUME Init PROVE TypeOK
  OBVIOUS
<1>1. adder \in [Adders -> AdderStates] /\ notifier \in [Notifiers -> NotifierStates]
  BY DEF Init, AdderStates, NotifierStates
<1>2. worker \in WorkerStates /\ clearing \in ClearingStates
  BY DEF Init, WorkerStates, ClearingStates
<1>3. queue \in Seq(Deps) /\ Len(queue) <= Capacity
  BY CacheAssumption DEF Init
<1>4. /\ watchers \in [Deps -> Nat] /\ events \in [Deps -> Nat]
      /\ \A d \in Deps : watchers[d] + events[d] <= MaxWatchers
      /\ loads \in 0..MaxLoads /\ changes \in 0..MaxChanges /\ failures \in 0..MaxFailures
  BY CacheAssumption DEF Init
<1>. QED BY <1>1, <1>2, <1>3, <1>4 DEF TypeOK, Init

LEMMA TypeStep == TypeOK /\ [Next]_vars => TypeOK'
<1>. SUFFICES ASSUME TypeOK, [Next]_vars PROVE TypeOK'
  OBVIOUS
<1>1. ASSUME NEW a \in Adders, AddStep(a) PROVE TypeOK'
  BY <1>1, WatchingType, StoringType DEF AddStep
<1>2. ASSUME NEW a \in Adders, NEW k \in Keys, Load(a, k) PROVE TypeOK'
  BY <1>2, LoadType
<1>3. ASSUME NEW k \in Keys, RemoveObject(k) \/ ClearKey(k) PROVE TypeOK'
  BY <1>3, ClearType
<1>4. ASSUME NEW n \in Notifiers, QueueContains(n) \/ QueuePut(n) \/ \E d \in Deps : Expire(n, d)
      PROVE  TypeOK'
  BY <1>4, NotifierType
<1>5. ASSUME WorkerTake \/ UpdateNode \/ UpdateFails \/ PutBack PROVE TypeOK'
  BY <1>5, WorkerType
<1>6. ASSUME NEW d \in Deps, RemoteExpire(d) \/ RemoteWrite(d) \/ ClearStart(d) PROVE TypeOK'
  BY <1>6, RemoteType, ClearType
<1>7. ASSUME Disconnect \/ Reconnect \/ SessionExpires \/ HandleEvent PROVE TypeOK'
  BY <1>7, SessionType, ReconnectType, SessionExpiresType
<1>8. CASE UNCHANGED vars
  BY <1>8 DEF TypeOK, vars, appVars, zkVars
<1>. QED BY <1>1, <1>2, <1>3, <1>4, <1>5, <1>6, <1>7, <1>8 DEF Next

\* The queue of dependencies never holds more than its capacity, a thread in
\* add() that watches or maps has a dependency left to do it for, and the
\* watchers of a node are moved between the service and the event thread,
\* never multiplied (ZookeeperLocalCacheFactory.add, expire and the worker).
THEOREM TypeCorrect == Spec => []TypeOK
BY InitType, TypeStep, PTL DEF Spec

-----------------------------------------------------------------------------
(* What is said of a thread in add(), as a function of its state           *)

Loaded == {"exists", "create", "get", "put"}

WatchOf(p, d) == p.pc \in {"exists", "create", "get"} /\ Contains(p.todo, d)
PutOf(p, d) ==
    \/ p.pc = "put" /\ Contains(DepsOf[p.key], d)
    \/ p.pc \in {"exists", "create", "get"} /\ Contains(DepsOf[p.key], d) /\ ~Contains(p.todo, d)
MapOf(p, k, d) == p.pc \in {"contains", "add", "new"} /\ p.key = k /\ Contains(p.todo, d)

LEMMA Forms ==
    /\ \A a, d : /\ BeforeWatch(a, d) <=> WatchOf(adder[a], d)
                 /\ BeforePut(a, d) <=> PutOf(adder[a], d)
                 /\ BeforePut(a, d)' <=> PutOf(adder'[a], d)
    /\ \A k, d : /\ BeforeMapping(k, d) <=> \E a \in Adders : MapOf(adder[a], k, d)
                 /\ BeforeMapping(k, d)' <=> \E a \in Adders : MapOf(adder'[a], k, d)
BY DEF BeforeWatch, BeforePut, BeforeMapping, WatchOf, PutOf, MapOf

\* Nothing of it changes when the object only becomes more out of date.
LEMMA GrowForms ==
    ASSUME NEW p \in AdderStates, NEW q, Grows(p, q)
    PROVE  /\ q.pc = p.pc
           /\ \A d : (WatchOf(q, d) <=> WatchOf(p, d)) /\ (PutOf(q, d) <=> PutOf(p, d))
           /\ \A k, d : MapOf(q, k, d) <=> MapOf(p, k, d)
           /\ p.pc # "idle" => /\ q.key = p.key
                               /\ p.stale \subseteq q.stale /\ p.excuse \subseteq q.excuse
<1>1. CASE p = Idle
  BY <1>1, AdderFacts DEF Grows, Idle
<1>2. CASE p # Idle
  <2>1. q.pc = p.pc /\ q.key = p.key /\ q.todo = p.todo
    BY <1>2 DEF Grows, Adding
  <2>. QED BY <1>2, <2>1 DEF Grows, WatchOf, PutOf, MapOf
<1>. QED BY <1>1, <1>2

LEMMA IdleForms ==
    /\ Idle.pc = "idle"
    /\ \A k, d : ~WatchOf(Idle, d) /\ ~PutOf(Idle, d) /\ ~MapOf(Idle, k, d)
BY DEF Idle, WatchOf, PutOf, MapOf

\* The parts of the invariant in these terms.
LEMMA InvForms ==
    ASSUME IInv
    PROVE  /\ \A a \in Adders : \A d \in Deps :
                 PutOf(adder[a], d) /\ d \notin adder[a].excuse => watchers[d] > 0 \/ events[d] > 0
           /\ \A a \in Adders : adder[a].pc \in Loaded => \A d \in adder[a].stale \ adder[a].excuse :
                 Queued(d) \/ (PutOf(adder[a], d) /\ OnTheWay(d))
           /\ \A k \in cached : \A d : Contains(DepsOf[k], d) /\ d \notin excuse[k] =>
                 /\ watchers[d] > 0 \/ BeingCleared(k, d)
                 /\ k \in depMap[d] \/ \E a \in Adders : MapOf(adder[a], k, d)
           /\ \A k \in cached : \A d \in stale[k] \ excuse[k] : Queued(d) \/ BeingCleared(k, d) \/ d \in fired
           /\ \A a \in Adders : adder[a] \in AdderStates
           /\ \A k \in cached : k \in Keys
<1>1. \A k \in cached : k \in Keys
  BY DEF IInv, TypeOK
<1>2. \A k \in cached : \A d : Contains(DepsOf[k], d) /\ d \notin excuse[k] =>
                 /\ watchers[d] > 0 \/ BeingCleared(k, d)
                 /\ k \in depMap[d] \/ BeforeMapping(k, d)
  BY <1>1, DepsFacts DEF IInv, ObjectsReachable
<1>3. \A a \in Adders : adder[a] \in AdderStates
  BY DEF IInv, TypeOK
<1>4. \A k \in cached : \A d \in stale[k] \ excuse[k] : Queued(d) \/ BeingCleared(k, d) \/ d \in fired
  BY DEF IInv, ObjectsTold
<1>5. \A a \in Adders : \A d \in Deps :
         PutOf(adder[a], d) /\ d \notin adder[a].excuse => watchers[d] > 0 \/ events[d] > 0
  BY Forms DEF IInv, AddersReachable
<1>6. \A a \in Adders : adder[a].pc \in Loaded => \A d \in adder[a].stale \ adder[a].excuse :
         Queued(d) \/ (PutOf(adder[a], d) /\ OnTheWay(d))
  BY Forms DEF IInv, AddersTold, Loaded
<1>. QED BY <1>1, <1>2, <1>3, <1>4, <1>5, <1>6, Forms

LEMMA ToInv ==
    ASSUME TypeOK', FiredOK', StaleOK',
           \A a \in Adders : \A d \in Deps :
              PutOf(adder'[a], d) /\ d \notin adder'[a].excuse => watchers'[d] > 0 \/ events'[d] > 0,
           \A a \in Adders : adder'[a].pc \in Loaded => \A d \in adder'[a].stale \ adder'[a].excuse :
              Queued(d)' \/ (PutOf(adder'[a], d) /\ OnTheWay(d)'),
           \A k \in cached' : \A d \in Deps : Contains(DepsOf[k], d) /\ d \notin excuse'[k] =>
              /\ watchers'[d] > 0 \/ BeingCleared(k, d)'
              /\ k \in depMap'[d] \/ \E a \in Adders : MapOf(adder'[a], k, d),
           \A k \in cached' : \A d \in stale'[k] \ excuse'[k] :
              Queued(d)' \/ BeingCleared(k, d)' \/ d \in fired'
    PROVE  IInv'
<1>1. ObjectsReachable'
  <2>1. \A k \in cached' : k \in Keys
    BY DEF TypeOK
  <2>. SUFFICES ASSUME NEW k \in cached', NEW d \in ToSet(DepsOf[k]) \ excuse'[k]
                PROVE  /\ watchers'[d] > 0 \/ BeingCleared(k, d)'
                       /\ k \in depMap'[d] \/ BeforeMapping(k, d)'
    BY DEF ObjectsReachable
  <2>2. Contains(DepsOf[k], d) /\ d \in Deps
    BY <2>1, DepsFacts
  <2>. QED BY <2>2, Forms
<1>2. AddersReachable'
  BY Forms DEF AddersReachable
<1>3. AddersTold'
  BY Forms DEF AddersTold, Loaded
<1>4. ObjectsTold'
  BY DEF ObjectsTold
<1>. QED BY <1>1, <1>2, <1>3, <1>4 DEF IInv

-----------------------------------------------------------------------------
(* Steps of expire(), of the worker's queue and of other processes         *)

\* No dependency leaves the queue, and what becomes stale is queued.
Quiet ==
    /\ UNCHANGED <<cached, depMap, clearing, excuse, watchers, events, fired>>
    /\ session' = "up" => session = "up"
    /\ AddersGrow
    /\ \A b \in Adders : adder[b] # Idle => adder'[b].excuse = adder[b].excuse
    /\ \A d \in Deps : Queued(d) => Queued(d)'
    /\ \A k \in cached : \A d \in stale'[k] \ stale[k] : Queued(d)' /\ Contains(DepsOf[k], d)
    /\ \A b \in Adders : adder[b] # Idle =>
         \A d \in adder'[b].stale \ adder[b].stale : Queued(d)' /\ Contains(DepsOf[adder[b].key], d)

LEMMA QuietKeeps ==
    ASSUME IInv, TypeOK', Quiet
    PROVE  IInv'
<1>0. /\ TypeOK /\ cached' = cached /\ excuse' = excuse
      /\ \A k \in cached : k \in Keys /\ stale[k] \subseteq Deps /\ stale'[k] \subseteq Deps
  BY DEF IInv, TypeOK, Quiet
<1>1. ASSUME NEW a \in Adders
      PROVE  /\ adder[a] \in AdderStates /\ adder'[a].pc = adder[a].pc
             /\ \A d : PutOf(adder'[a], d) <=> PutOf(adder[a], d)
             /\ \A k, d : MapOf(adder'[a], k, d) <=> MapOf(adder[a], k, d)
             /\ adder'[a] = Idle <=> adder[a] = Idle
             /\ adder[a] # Idle => /\ adder'[a].key = adder[a].key /\ adder'[a].excuse = adder[a].excuse
                                   /\ adder[a].stale \subseteq Deps
  <2>1. adder[a] \in AdderStates /\ Grows(adder[a], adder'[a])
    BY <1>0 DEF TypeOK, Quiet, AddersGrow
  <2>2. adder[a] # Idle <=> adder[a].pc # "idle"
    BY <2>1, AdderFacts
  <2>3. adder'[a] = Idle <=> adder[a] = Idle
    BY <2>1 DEF Grows
  <2>4. adder[a] # Idle => adder[a].stale \subseteq Deps
    BY <2>1, AdderFacts
  <2>5. adder[a] # Idle => adder'[a].key = adder[a].key
    BY <2>1, <2>2, GrowForms
  <2>. QED BY <2>1, <2>3, <2>4, <2>5, GrowForms DEF Quiet
<1>2. FiredOK'
  BY DEF IInv, FiredOK, Quiet
<1>3. StaleOK'
  <2>1. ASSUME NEW k \in cached', NEW d \in stale'[k] PROVE Contains(DepsOf[k], d)
    BY <1>0 DEF IInv, StaleOK, Quiet
  <2>2. ASSUME NEW a \in Adders, adder'[a] # Idle, NEW d \in adder'[a].stale
        PROVE  Contains(DepsOf[adder'[a].key], d)
    BY <1>1, <2>2 DEF IInv, StaleOK, Quiet
  <2>. QED BY <2>1, <2>2 DEF StaleOK
<1>4. ASSUME NEW a \in Adders, NEW d \in Deps, PutOf(adder'[a], d), d \notin adder'[a].excuse
      PROVE  watchers'[d] > 0 \/ events'[d] > 0
  <2>1. adder[a] # Idle /\ PutOf(adder[a], d)
    BY <1>1, <1>4, IdleForms
  <2>. QED BY <1>1, <1>4, <2>1, InvForms DEF Quiet
<1>5. ASSUME NEW a \in Adders, adder'[a].pc \in Loaded, NEW d \in adder'[a].stale \ adder'[a].excuse
      PROVE  Queued(d)' \/ (PutOf(adder'[a], d) /\ OnTheWay(d)')
  <2>1. adder[a].pc \in Loaded /\ adder[a] # Idle
    BY <1>1, <1>5 DEF Loaded, Idle
  <2>2. CASE d \in adder[a].stale
    <3>1. Queued(d) \/ (PutOf(adder[a], d) /\ OnTheWay(d))
      BY <1>1, <1>5, <2>1, <2>2, InvForms
    <3>2. d \in Deps
      BY <1>1, <2>1, <2>2
    <3>. QED BY <1>1, <3>1, <3>2 DEF Quiet, OnTheWay
  <2>3. CASE d \notin adder[a].stale
    BY <1>5, <2>1, <2>3 DEF Quiet
  <2>. QED BY <2>2, <2>3
<1>6. ASSUME NEW k \in cached', NEW d \in Deps, Contains(DepsOf[k], d), d \notin excuse'[k]
      PROVE  /\ watchers'[d] > 0 \/ BeingCleared(k, d)'
             /\ k \in depMap'[d] \/ \E a \in Adders : MapOf(adder'[a], k, d)
  <2>1. /\ watchers[d] > 0 \/ BeingCleared(k, d)
        /\ k \in depMap[d] \/ \E a \in Adders : MapOf(adder[a], k, d)
    BY <1>0, <1>6, InvForms
  <2>. QED BY <1>1, <2>1 DEF Quiet, BeingCleared
<1>7. ASSUME NEW k \in cached', NEW d \in stale'[k] \ excuse'[k]
      PROVE  Queued(d)' \/ BeingCleared(k, d)' \/ d \in fired'
  <2>1. CASE d \in stale[k]
    <3>1. Queued(d) \/ BeingCleared(k, d) \/ d \in fired
      BY <1>0, <1>7, <2>1, InvForms
    <3>2. d \in Deps
      BY <1>0, <1>7
    <3>. QED BY <3>1, <3>2 DEF Quiet, BeingCleared
  <2>2. CASE d \notin stale[k]
    BY <1>0, <1>7, <2>2 DEF Quiet
  <2>. QED BY <2>1, <2>2
<1>. QED BY <1>2, <1>3, <1>4, <1>5, <1>6, <1>7, ToInv

\* The threads in add() are not concerned.
LEMMA SameAdders ==
    ASSUME TypeOK, adder' = adder
    PROVE  /\ AddersGrow
           /\ \A b \in Adders : adder[b] # Idle =>
                adder'[b].excuse = adder[b].excuse /\ adder'[b].stale = adder[b].stale
BY GrowsSelf DEF TypeOK, AddersGrow

LEMMA DataChangeKeeps ==
    ASSUME IInv, TypeOK', NEW d \in Deps, DataChange(d), Queued(d)',
           UNCHANGED <<cached, depMap, clearing, excuse, watchers, events, fired, session>>,
           \A i \in Deps : Queued(i) => Queued(i)'
    PROVE  IInv'
<1>0. TypeOK
  BY DEF IInv
<1>1. AddersGrow
  BY <1>0, DataChangeGrow
<1>2. ASSUME NEW b \in Adders, adder[b] # Idle
      PROVE  /\ adder'[b].excuse = adder[b].excuse
             /\ \A i \in adder'[b].stale \ adder[b].stale : i = d /\ Contains(DepsOf[adder[b].key], d)
  <2>0. adder[b] \in AdderStates
    BY <1>0 DEF TypeOK
  <2>1. CASE Contains(DepsOf[adder[b].key], d)
    <3>1. adder'[b] = OutOfDate(adder[b], {d})
      BY <1>2, <2>1 DEF DataChange, OutOfDate
    <3>2. adder'[b] = Adding(adder[b].pc, adder[b].key, adder[b].todo, adder[b].stale \cup {d}, adder[b].excuse)
      BY <1>2, <2>0, <3>1, GrowsExcuse
    <3>. QED BY <2>1, <3>2 DEF Adding
  <2>2. CASE ~Contains(DepsOf[adder[b].key], d)
    BY <2>2 DEF DataChange
  <2>. QED BY <2>1, <2>2
<1>3. \A k \in cached : \A i \in stale'[k] \ stale[k] : i = d /\ Contains(DepsOf[k], i)
  BY <1>0 DEF DataChange, TypeOK
<1>4. Quiet
  BY <1>1, <1>2, <1>3 DEF Quiet
<1>. QED BY <1>4, QuietKeeps

\* Steps that only move a dependency between expire(), the queue and the worker.
LEMMA QueueKeeps ==
    ASSUME IInv, TypeOK', \A i \in Deps : Queued(i) => Queued(i)',
           UNCHANGED <<cached, stale, depMap, clearing, excuse, watchers, events, fired, adder>>,
           session' = "up" => session = "up"
    PROVE  IInv'
<1>0. TypeOK
  BY DEF IInv
<1>1. Quiet
  BY <1>0, SameAdders DEF Quiet
<1>. QED BY <1>1, QuietKeeps

LEMMA NotifierKeeps ==
    ASSUME IInv, TypeOK', NEW n \in Notifiers,
           QueueContains(n) \/ QueuePut(n) \/ \E d \in Deps : Expire(n, d)
    PROVE  IInv'
<1>0. TypeOK
  BY DEF IInv
<1>1. CASE QueueContains(n)
  <2>1. [notifier[n] EXCEPT !.pc = "put"] = [pc |-> "put", dep |-> notifier[n].dep]
    BY <1>0, <1>1, NotifierFacts DEF QueueContains
  <2>2. ASSUME NEW i \in Deps, Queued(i) PROVE Queued(i)'
    <3>1. CASE \E m \in Notifiers : notifier[m] # Idle /\ notifier[m].dep = i
      <4>1. PICK m \in Notifiers : notifier[m] # Idle /\ notifier[m].dep = i
        BY <3>1
      <4>2. CASE m # n
        BY <1>0, <1>1, <4>1, <4>2 DEF QueueContains, Queued, TypeOK
      <4>3. CASE m = n /\ Contains(queue, i)
        BY <1>1, <4>3 DEF QueueContains, Queued
      <4>4. CASE m = n /\ ~Contains(queue, i)
        <5>1. notifier'[n] = [pc |-> "put", dep |-> i]
          BY <1>0, <1>1, <2>1, <4>1, <4>4 DEF QueueContains, TypeOK
        <5>2. notifier'[n] # Idle /\ notifier'[n].dep = i
          BY <5>1 DEF Idle
        <5>. QED BY <5>2 DEF Queued
      <4>. QED BY <4>2, <4>3, <4>4
    <3>2. CASE Contains(queue, i) \/ (worker # Idle /\ worker.dep = i) \/ i \in remote
      BY <1>1, <3>2 DEF QueueContains, Queued
    <3>. QED BY <2>2, <3>1, <3>2 DEF Queued
  <2>. QED BY <1>1, <2>2, QueueKeeps DEF QueueContains, zkVars
<1>2. CASE QueuePut(n)
  <2>1. notifier[n].dep \in Deps /\ queue \in Seq(Deps)
    BY <1>0, <1>2, NotifierFacts DEF QueuePut, TypeOK
  <2>2. ASSUME NEW i \in Deps, Queued(i) PROVE Queued(i)'
    <3>1. Contains(queue', i) <=> Contains(queue, i) \/ i = notifier[n].dep
      BY <1>2, <2>1, ContainsAppend DEF QueuePut
    <3>2. \A m \in Notifiers \ {n} : notifier'[m] = notifier[m]
      BY <1>0, <1>2 DEF QueuePut, TypeOK
    <3>3. worker' = worker /\ remote' = remote
      BY <1>2 DEF QueuePut
    <3>. QED BY <2>2, <3>1, <3>2, <3>3 DEF Queued
  <2>. QED BY <1>2, <2>2, QueueKeeps DEF QueuePut, zkVars
<1>3. ASSUME NEW d \in Deps, Expire(n, d) PROVE IInv'
  <2>1. Queued(d)'
    <3>1. notifier'[n] = [pc |-> "contains", dep |-> d]
      BY <1>0, <1>3 DEF Expire, TypeOK
    <3>2. notifier'[n] # Idle /\ notifier'[n].dep = d
      BY <3>1 DEF Idle
    <3>. QED BY <3>2 DEF Queued
  <2>2. ASSUME NEW i \in Deps, Queued(i) PROVE Queued(i)'
    <3>1. \A m \in Notifiers : notifier[m] # Idle => notifier'[m] = notifier[m]
      BY <1>0, <1>3 DEF Expire, TypeOK
    <3>2. queue' = queue /\ worker' = worker /\ remote' = remote
      BY <1>3 DEF Expire
    <3>. QED BY <2>2, <3>1, <3>2 DEF Queued
  <2>. QED BY <1>3, <2>1, <2>2, DataChangeKeeps DEF Expire, zkVars
<1>. QED BY <1>1, <1>2, <1>3

LEMMA RemoteExpireKeeps ==
    ASSUME IInv, TypeOK', NEW d \in Deps, RemoteExpire(d)
    PROVE  IInv'
<1>1. Queued(d)' /\ \A i \in Deps : Queued(i) => Queued(i)'
  BY DEF Queued, RemoteExpire
<1>. QED BY <1>1, DataChangeKeeps DEF RemoteExpire, zkVars

LEMMA WorkerQueueKeeps ==
    ASSUME IInv, TypeOK', WorkerTake \/ PutBack
    PROVE  IInv'
<1>0. TypeOK
  BY DEF IInv
<1>1. CASE WorkerTake
  <2>1. queue \in Seq(Deps) /\ queue # <<>>
    BY <1>0, <1>1 DEF WorkerTake, TypeOK
  <2>2. ASSUME NEW i \in Deps, Queued(i) PROVE Queued(i)'
    <3>1. Contains(queue, i) <=> i = Head(queue) \/ Contains(queue', i)
      BY <1>1, <2>1, TodoFacts DEF WorkerTake
    <3>2. worker = Idle /\ worker' # Idle /\ worker'.dep = Head(queue) /\ notifier' = notifier /\ remote' = remote
      BY <1>1 DEF WorkerTake, Idle, appVars
    <3>. QED BY <2>2, <3>1, <3>2 DEF Queued
  <2>. QED BY <1>1, <2>2, QueueKeeps DEF WorkerTake, zkVars, appVars
<1>2. CASE PutBack
  <2>1. queue \in Seq(Deps) /\ worker.dep \in Deps
    BY <1>0, <1>2, WorkerFacts DEF PutBack, TypeOK
  <2>2. ASSUME NEW i \in Deps, Queued(i) PROVE Queued(i)'
    <3>1. Contains(queue', i) <=> Contains(queue, i) \/ i = worker.dep
      BY <1>2, <2>1, ContainsAppend DEF PutBack
    <3>2. notifier' = notifier /\ remote' = remote
      BY <1>2 DEF PutBack, appVars
    <3>. QED BY <2>2, <3>1, <3>2 DEF Queued
  <2>. QED BY <1>2, <2>2, QueueKeeps DEF PutBack, zkVars, appVars
<1>. QED BY <1>1, <1>2

LEMMA SessionKeeps ==
    ASSUME IInv, TypeOK', Disconnect \/ HandleEvent
    PROVE  IInv'
<1>1. \A i \in Deps : Queued(i) => Queued(i)'
  BY DEF Queued, Disconnect, HandleEvent, appVars
<1>2. session' = "up" => session = "up"
  BY DEF Disconnect, HandleEvent, Connect
<1>3. UNCHANGED <<cached, stale, depMap, clearing, excuse, watchers, events, fired, adder>>
  BY DEF Disconnect, HandleEvent, appVars
<1>. QED BY <1>1, <1>2, <1>3, QueueKeeps

-----------------------------------------------------------------------------
(* Steps of add() that leave the cache alone                               *)

\* What the step leaves to the notifications: watches are only added.
StillTold ==
    /\ UNCHANGED <<events, fired, notifier, queue, worker, remote>>
    /\ session' = "up" => session = "up"
    /\ \A d \in Deps : watchers[d] > 0 => watchers'[d] > 0

\* What the invariant says of the new state p of a thread in add().
AdderOK(p) ==
    /\ \A d \in Deps : PutOf(p, d) /\ d \notin p.excuse => watchers'[d] > 0 \/ events[d] > 0
    /\ p.pc \in Loaded => \A d \in p.stale \ p.excuse : Queued(d) \/ (PutOf(p, d) /\ OnTheWay(d))
    /\ p # Idle => \A d \in p.stale : Contains(DepsOf[p.key], d)

\* A thread whose object is stored, or that is done, waits for nothing.
LEMMA StoredOK ==
    ASSUME NEW p, p = Idle \/ (p.pc \in {"contains", "add", "new"} /\ \A d \in p.stale : Contains(DepsOf[p.key], d))
    PROVE  AdderOK(p)
BY DEF AdderOK, PutOf, Loaded, Idle

LEMMA AddersKept ==
    ASSUME IInv, TypeOK', NEW a \in Adders, NEW p, Steps(a, p), StillTold, AdderOK(p)
    PROVE  /\ FiredOK'
           /\ \A b \in Adders : adder'[b] # Idle => \A d \in adder'[b].stale : Contains(DepsOf[adder'[b].key], d)
           /\ \A b \in Adders : \A d \in Deps :
                PutOf(adder'[b], d) /\ d \notin adder'[b].excuse => watchers'[d] > 0 \/ events'[d] > 0
           /\ \A b \in Adders : adder'[b].pc \in Loaded => \A d \in adder'[b].stale \ adder'[b].excuse :
                Queued(d)' \/ (PutOf(adder'[b], d) /\ OnTheWay(d)')
           /\ \A d : Queued(d)' <=> Queued(d)
<1>0. TypeOK /\ adder'[a] = p /\ \A b \in Adders \ {a} : adder'[b] = adder[b]
  BY StepType DEF IInv
<1>1. FiredOK'
  BY DEF IInv, FiredOK, StillTold, TypeOK
<1>2. \A d : (Queued(d)' <=> Queued(d)) /\ (OnTheWay(d)' <=> OnTheWay(d))
  BY DEF StillTold, Queued, OnTheWay
<1>3. ASSUME NEW b \in Adders
      PROVE  /\ adder'[b] # Idle => \A d \in adder'[b].stale : Contains(DepsOf[adder'[b].key], d)
             /\ \A d \in Deps :
                  PutOf(adder'[b], d) /\ d \notin adder'[b].excuse => watchers'[d] > 0 \/ events'[d] > 0
             /\ adder'[b].pc \in Loaded => \A d \in adder'[b].stale \ adder'[b].excuse :
                  Queued(d) \/ (PutOf(adder'[b], d) /\ OnTheWay(d))
  <2>1. CASE b = a
    BY <1>0, <2>1 DEF AdderOK, StillTold
  <2>2. CASE b # a
    <3>1. adder'[b] = adder[b]
      BY <1>0, <2>2
    <3>2. adder[b] # Idle => \A d \in adder[b].stale : Contains(DepsOf[adder[b].key], d)
      BY DEF IInv, StaleOK
    <3>. QED BY <3>1, <3>2, InvForms DEF StillTold
  <2>. QED BY <2>1, <2>2
<1>. QED BY <1>1, <1>2, <1>3

LEMMA AdderMoves ==
    ASSUME IInv, TypeOK', NEW a \in Adders, NEW p, Steps(a, p), StillTold, AdderOK(p),
           UNCHANGED <<cached, stale, depMap, clearing, excuse>>,
           \A k, d : MapOf(adder[a], k, d) => MapOf(p, k, d)
    PROVE  IInv'
<1>0. /\ adder'[a] = p /\ \A b \in Adders \ {a} : adder'[b] = adder[b]
  BY StepType DEF IInv
<1>1. \A b \in Adders : \A k, d : MapOf(adder[b], k, d) => MapOf(adder'[b], k, d)
  BY <1>0
<1>2. \A k, d : BeingCleared(k, d)' <=> BeingCleared(k, d)
  BY DEF BeingCleared, StillTold
<1>3. StaleOK'
  <2>1. \A k \in cached' : \A d \in stale'[k] : Contains(DepsOf[k], d)
    BY DEF IInv, StaleOK
  <2>. QED BY <2>1, AddersKept DEF StaleOK
<1>4. ASSUME NEW k \in cached', NEW d \in Deps, Contains(DepsOf[k], d), d \notin excuse'[k]
      PROVE  /\ watchers'[d] > 0 \/ BeingCleared(k, d)'
             /\ k \in depMap'[d] \/ \E b \in Adders : MapOf(adder'[b], k, d)
  <2>1. /\ watchers[d] > 0 \/ BeingCleared(k, d)
        /\ k \in depMap[d] \/ \E b \in Adders : MapOf(adder[b], k, d)
    BY <1>4, InvForms
  <2>. QED BY <1>1, <1>2, <2>1 DEF StillTold
<1>5. ASSUME NEW k \in cached', NEW d \in stale'[k] \ excuse'[k]
      PROVE  Queued(d)' \/ BeingCleared(k, d)' \/ d \in fired'
  <2>1. Queued(d) \/ BeingCleared(k, d) \/ d \in fired
    BY <1>5, InvForms
  <2>. QED BY <1>2, <2>1, AddersKept DEF StillTold
<1>. QED BY <1>3, <1>4, <1>5, AddersKept, ToInv

\* The record of a thread that takes a step within the same part of add().
LEMMA SamePart ==
    ASSUME IInv, NEW a \in Adders, NEW pc, NEW d, NEW k
    PROVE  /\ adder[a].pc \in {"exists", "create", "get"} /\ pc \in {"exists", "create", "get"} =>
                /\ PutOf(At(a, pc), d) <=> PutOf(adder[a], d)
                /\ adder[a].pc \in Loaded /\ At(a, pc).pc \in Loaded
                /\ ~MapOf(adder[a], k, d)
           /\ adder[a].pc \in {"contains", "add", "new"} /\ pc \in {"contains", "add", "new"} =>
                (MapOf(At(a, pc), k, d) <=> MapOf(adder[a], k, d))
           /\ /\ At(a, pc).pc = pc /\ At(a, pc).key = adder[a].key
              /\ At(a, pc).stale = adder[a].stale /\ At(a, pc).excuse = adder[a].excuse
BY DEF At, Adding, PutOf, MapOf, Loaded

LEMMA WatchStepOK ==
    ASSUME IInv, NEW a \in Adders, adder[a].pc \in {"exists", "create", "get"}, StillTold,
           NEW pc \in {"exists", "create", "get"}
    PROVE  AdderOK(At(a, pc)) /\ \A k, d : ~MapOf(adder[a], k, d)
<1>1. /\ \A d : PutOf(At(a, pc), d) <=> PutOf(adder[a], d)
      /\ adder[a].pc \in Loaded /\ adder[a] # Idle
      /\ At(a, pc).key = adder[a].key /\ At(a, pc).stale = adder[a].stale /\ At(a, pc).excuse = adder[a].excuse
  BY SamePart DEF Idle
<1>2. \A d \in Deps : PutOf(adder[a], d) /\ d \notin adder[a].excuse => watchers'[d] > 0 \/ events[d] > 0
  BY InvForms DEF StillTold
<1>3. \A d \in adder[a].stale \ adder[a].excuse : Queued(d) \/ (PutOf(adder[a], d) /\ OnTheWay(d))
  BY <1>1, InvForms
<1>4. \A d \in adder[a].stale : Contains(DepsOf[adder[a].key], d)
  BY <1>1 DEF IInv, StaleOK
<1>5. AdderOK(At(a, pc))
  BY <1>1, <1>2, <1>3, <1>4 DEF AdderOK
<1>. QED BY <1>5, SamePart

LEMMA LoadKeeps ==
    ASSUME IInv, TypeOK', NEW a \in Adders, NEW k \in Keys, Load(a, k)
    PROVE  IInv'
<1>1. PICK p : p = Adding("exists", k, DepsOf[k], {}, {})
  OBVIOUS
<1>2. Steps(a, p)
  BY <1>1, LoadStep DEF IInv
<1>3. AdderOK(p)
  BY <1>1 DEF AdderOK, PutOf, Adding, Loaded
<1>4. StillTold
  BY DEF Load, StillTold, zkVars
<1>5. \A i, d : ~MapOf(adder[a], i, d)
  BY IdleForms DEF Load
<1>. QED BY <1>2, <1>3, <1>4, <1>5, AdderMoves DEF Load

LEMMA WatchingKeeps ==
    ASSUME IInv, TypeOK', NEW a \in Adders, Exists(a) \/ Create(a) \/ AddFails(a)
    PROVE  IInv'
<1>1. StillTold /\ UNCHANGED <<cached, stale, depMap, clearing, excuse>>
  BY DEF StillTold, Exists, Create, AddFails, Connect, zkVars
<1>2. adder[a].pc \in {"exists", "create", "get"}
  BY DEF Exists, Create, AddFails
<1>3. Steps(a, Idle) \/ \E pc \in {"get", "create"} : Steps(a, At(a, pc))
  <2>1. AddFails(a) => Steps(a, Idle)
    BY DEF AddFails, Steps, AdderStates
  <2>. QED BY <2>1, ExistsStep, CreateStep DEF IInv
<1>4. \A k, d : ~MapOf(adder[a], k, d)
  BY <1>1, <1>2, WatchStepOK
<1>5. CASE Steps(a, Idle)
  BY <1>1, <1>4, <1>5, StoredOK, AdderMoves
<1>6. ASSUME NEW pc \in {"get", "create"}, Steps(a, At(a, pc)) PROVE IInv'
  <2>1. AdderOK(At(a, pc))
    BY <1>1, <1>2, WatchStepOK
  <2>. QED BY <1>1, <1>4, <1>6, <2>1, AdderMoves
<1>. QED BY <1>3, <1>5, <1>6

LEMMA ContainsKeyKeeps ==
    ASSUME IInv, TypeOK', NEW a \in Adders, ContainsKey(a)
    PROVE  IInv'
<1>1. StillTold /\ UNCHANGED <<cached, stale, depMap, clearing, excuse>> /\ adder[a].pc = "contains"
  BY DEF StillTold, ContainsKey, zkVars
<1>2. PICK pc \in {"add", "new"} : Steps(a, At(a, pc))
  BY ContainsKeyStep DEF IInv
<1>3. \A k, d : MapOf(adder[a], k, d) => MapOf(At(a, pc), k, d)
  BY <1>1, SamePart
<1>4. AdderOK(At(a, pc))
  <2>1. \A d \in adder[a].stale : Contains(DepsOf[adder[a].key], d)
    BY <1>1 DEF IInv, StaleOK, Idle
  <2>. QED BY <2>1, SamePart, StoredOK
<1>. QED BY <1>1, <1>2, <1>3, <1>4, AdderMoves

\* getData sets the watch: what the thread has watched is one more dependency.
LEMMA GetDataKeeps ==
    ASSUME IInv, TypeOK', NEW a \in Adders, GetData(a)
    PROVE  IInv'
<1>0. TypeOK /\ adder[a].pc = "get" /\ session = "up"
  BY DEF IInv, GetData
<1>1. /\ adder[a] # Idle /\ adder[a].key \in Keys
      /\ adder[a].todo \in Seq(Deps) /\ adder[a].todo # <<>>
      /\ Head(adder[a].todo) \in Deps
  BY <1>0, WorkingFacts DEF Working
<1>2. PICK pc \in {"put", "exists"} : Steps(a, Turn(a, pc, Tail(adder[a].todo)))
  BY <1>0, GetDataStep
<1>3. PICK p : p = Turn(a, pc, Tail(adder[a].todo))
  OBVIOUS
<1>4. /\ p.pc = pc /\ p.key = adder[a].key /\ p.todo = Tail(adder[a].todo)
      /\ p.stale = adder[a].stale /\ p.excuse = adder[a].excuse
  BY <1>3 DEF Turn, Adding
<1>5. /\ watchers'[Head(adder[a].todo)] > 0
      /\ \A d \in Deps : watchers[d] > 0 => watchers'[d] > 0
  <2>1. PICK h \in Deps : h = Head(adder[a].todo)
    BY <1>1
  <2>2. watchers \in [Deps -> Nat] /\ watchers' = [watchers EXCEPT ![h] = watchers[h] + 1]
    BY <1>0, <2>1 DEF TypeOK, GetData
  <2>3. watchers[h] \in Nat /\ watchers'[h] = watchers[h] + 1
    BY <2>2
  <2>4. \A d \in Deps \ {h} : watchers'[d] = watchers[d]
    BY <2>2
  <2>. QED BY <2>1, <2>3, <2>4
<1>6. StillTold
  BY <1>5 DEF StillTold, GetData
<1>7. \A d : /\ PutOf(adder[a], d) => PutOf(p, d)
             /\ PutOf(p, d) => PutOf(adder[a], d) \/ d = Head(adder[a].todo)
  <2>1. \A d : Contains(adder[a].todo, d) <=> d = Head(adder[a].todo) \/ Contains(p.todo, d)
    BY <1>1, <1>4, TodoFacts
  <2>2. p.pc = "put" => \A d : ~Contains(p.todo, d)
    <3>1. p.pc = "put" => p \in AdderStates /\ p.todo = <<>>
      BY <1>2, <1>3, AdderFacts DEF Steps
    <3>. QED BY <3>1 DEF Contains
  <2>. QED BY <1>0, <1>2, <1>4, <2>1, <2>2 DEF PutOf
<1>8. AdderOK(p)
  <2>1. \A d \in Deps : PutOf(p, d) /\ d \notin p.excuse => watchers'[d] > 0 \/ events[d] > 0
    BY <1>4, <1>5, <1>7, InvForms
  <2>2. \A d \in p.stale \ p.excuse : Queued(d) \/ (PutOf(p, d) /\ OnTheWay(d))
    BY <1>0, <1>4, <1>7, InvForms DEF Loaded
  <2>3. \A d \in p.stale : Contains(DepsOf[p.key], d)
    BY <1>1, <1>4 DEF IInv, StaleOK
  <2>. QED BY <2>1, <2>2, <2>3 DEF AdderOK
<1>9. \A k, d : ~MapOf(adder[a], k, d)
  BY <1>0 DEF MapOf
<1>. QED BY <1>2, <1>3, <1>6, <1>8, <1>9, AdderMoves DEF GetData

-----------------------------------------------------------------------------
(* Steps of add() that store the object and map its dependencies           *)

\* cachedObjectsMap.put: the object takes over what is known of the thread.
LEMMA PutKeeps ==
    ASSUME IInv, TypeOK', NEW a \in Adders, Put(a)
    PROVE  IInv'
<1>0. TypeOK /\ adder[a].pc = "put"
  BY DEF IInv, Put
<1>1. /\ adder[a] # Idle /\ adder[a].key \in Keys
      /\ Steps(a, Turn(a, "contains", DepsOf[adder[a].key]))
  BY <1>0, PutStep
<1>2. PICK p : p = Turn(a, "contains", DepsOf[adder[a].key])
  OBVIOUS
<1>3. /\ p.pc = "contains" /\ p.key = adder[a].key /\ p.todo = DepsOf[adder[a].key]
      /\ p.stale = adder[a].stale /\ p.excuse = adder[a].excuse
  BY <1>2 DEF Turn, Adding
<1>4. \A d \in adder[a].stale : Contains(DepsOf[adder[a].key], d)
  BY <1>1 DEF IInv, StaleOK
<1>5. StillTold /\ AdderOK(p) /\ Steps(a, p)
  BY <1>1, <1>2, <1>3, <1>4, StoredOK DEF StillTold, Put, zkVars
<1>6. /\ adder'[a] = p /\ \A b \in Adders \ {a} : adder'[b] = adder[b]
  BY <1>0, <1>5, StepType
<1>7. PICK o \in Keys : o = adder[a].key
  BY <1>1
<1>8. /\ cached' = cached \cup {o}
      /\ stale'[o] = adder[a].stale /\ excuse'[o] = adder[a].excuse
      /\ \A k \in Keys \ {o} : stale'[k] = stale[k] /\ excuse'[k] = excuse[k]
      /\ UNCHANGED <<depMap, clearing, watchers, events, fired>>
  BY <1>0, <1>7 DEF Put, TypeOK, zkVars
<1>9. /\ \A k, d : BeingCleared(k, d)' <=> BeingCleared(k, d)
      /\ \A k, d : MapOf(adder[a], k, d) => MapOf(p, k, d)
      /\ \A d : Contains(DepsOf[o], d) => MapOf(p, o, d) /\ PutOf(adder[a], d)
      /\ \A k \in cached' : k = o \/ (k \in cached /\ k \in Keys \ {o})
  <2>1. \A k, d : BeingCleared(k, d)' <=> BeingCleared(k, d)
    BY <1>8 DEF BeingCleared
  <2>. QED BY <1>0, <1>3, <1>7, <1>8, <2>1, InvForms DEF MapOf, PutOf
<1>10. StaleOK'
  <2>1. \A k \in cached' : \A d \in stale'[k] : Contains(DepsOf[k], d)
    BY <1>4, <1>7, <1>8, <1>9 DEF IInv, StaleOK
  <2>. QED BY <1>5, <2>1, AddersKept DEF StaleOK
<1>11. ASSUME NEW k \in cached', NEW d \in Deps, Contains(DepsOf[k], d), d \notin excuse'[k]
       PROVE  /\ watchers'[d] > 0 \/ BeingCleared(k, d)'
              /\ k \in depMap'[d] \/ \E b \in Adders : MapOf(adder'[b], k, d)
  <2>1. CASE k = o
    <3>1. watchers[d] > 0 \/ events[d] > 0
      BY <1>8, <1>9, <1>11, <2>1, InvForms
    <3>2. MapOf(adder'[a], k, d)
      BY <1>6, <1>9, <1>11, <2>1
    <3>. QED BY <1>8, <1>9, <3>1, <3>2 DEF BeingCleared
  <2>2. CASE k # o
    <3>1. /\ watchers[d] > 0 \/ BeingCleared(k, d)
          /\ k \in depMap[d] \/ \E b \in Adders : MapOf(adder[b], k, d)
      BY <1>8, <1>9, <1>11, <2>2, InvForms
    <3>2. \A b \in Adders : MapOf(adder[b], k, d) => MapOf(adder'[b], k, d)
      BY <1>6, <1>9
    <3>. QED BY <1>8, <1>9, <3>1, <3>2
  <2>. QED BY <2>1, <2>2
<1>12. ASSUME NEW k \in cached', NEW d \in stale'[k] \ excuse'[k]
       PROVE  Queued(d)' \/ BeingCleared(k, d)' \/ d \in fired'
  <2>1. CASE k = o
    <3>1. Queued(d) \/ OnTheWay(d)
      BY <1>0, <1>8, <1>12, <2>1, InvForms DEF Loaded
    <3>. QED BY <1>5, <1>8, <1>9, <3>1, AddersKept DEF BeingCleared, OnTheWay
  <2>2. CASE k # o
    <3>1. Queued(d) \/ BeingCleared(k, d) \/ d \in fired
      BY <1>8, <1>9, <1>12, <2>2, InvForms
    <3>. QED BY <1>5, <1>8, <1>9, <3>1, AddersKept
  <2>. QED BY <2>1, <2>2
<1>. QED BY <1>5, <1>10, <1>11, <1>12, AddersKept, ToInv

\* A dependency is mapped: no object loses its mapping, or the watcher that is
\* about to remove it, unless that is one of the named causes.
LEMMA MappingKeeps ==
    ASSUME IInv, TypeOK', NEW a \in Adders, adder[a].pc \in {"add", "new"}, Mapped(a),
           StillTold, UNCHANGED <<cached, stale>>,
           \A k \in cached : excuse[k] \subseteq excuse'[k],
           \A k \in cached : \A d \in Deps : BeingCleared(k, d) => BeingCleared(k, d)' \/ d \in excuse'[k],
           \A k \in cached : \A d \in Deps : k \in depMap[d] => k \in depMap'[d] \/ d \in excuse'[k],
           NEW h, h = Head(adder[a].todo), NEW o, o = adder[a].key,
           o \in cached => o \in depMap'[h] \/ h \in excuse'[o]
    PROVE  IInv'
<1>0. TypeOK /\ adder[a].pc \in Working
  BY DEF IInv, Working
<1>1. /\ adder[a] # Idle /\ adder[a].todo \in Seq(Deps) /\ adder[a].todo # <<>>
  BY <1>0, WorkingFacts
<1>2. PICK p : /\ Steps(a, p) /\ AdderOK(p)
               /\ \A k, d : MapOf(adder[a], k, d) => MapOf(p, k, d) \/ (k = o /\ d = h)
  <2>1. \A d : Contains(adder[a].todo, d) <=> d = h \/ Contains(Tail(adder[a].todo), d)
    BY <1>1, TodoFacts
  <2>2. CASE Tail(adder[a].todo) = <<>> /\ Steps(a, Idle)
    <3>0. \A d : ~Contains(<<>>, d)
      BY DEF Contains
    <3>1. \A d : ~Contains(Tail(adder[a].todo), d)
      BY <2>2, <3>0
    <3>2. \A k, d : MapOf(adder[a], k, d) => k = o /\ d = h
      BY <2>1, <3>1 DEF MapOf
    <3>. QED BY <2>2, <3>2, StoredOK
  <2>3. CASE Steps(a, Turn(a, "contains", Tail(adder[a].todo)))
    <3>1. PICK p : p = Turn(a, "contains", Tail(adder[a].todo))
      OBVIOUS
    <3>2. /\ p.pc = "contains" /\ p.key = adder[a].key /\ p.todo = Tail(adder[a].todo)
          /\ p.stale = adder[a].stale
      BY <3>1 DEF Turn, Adding
    <3>3. \A d \in adder[a].stale : Contains(DepsOf[adder[a].key], d)
      BY <1>1 DEF IInv, StaleOK
    <3>4. AdderOK(p)
      BY <3>2, <3>3, StoredOK
    <3>5. \A k, d : MapOf(adder[a], k, d) => MapOf(p, k, d) \/ (k = o /\ d = h)
      BY <2>1, <3>2 DEF MapOf
    <3>. QED BY <2>3, <3>1, <3>4, <3>5
  <2>. QED BY <1>0, <2>2, <2>3, MappedStep
<1>3. /\ adder'[a] = p /\ \A b \in Adders \ {a} : adder'[b] = adder[b]
  BY <1>0, <1>2, StepType
<1>4. \A b \in Adders : \A k, d : MapOf(adder[b], k, d) => MapOf(adder'[b], k, d) \/ (k = o /\ d = h)
  BY <1>2, <1>3
<1>5. StaleOK'
  <2>1. \A k \in cached' : \A d \in stale'[k] : Contains(DepsOf[k], d)
    BY DEF IInv, StaleOK
  <2>. QED BY <1>2, <2>1, AddersKept DEF StaleOK
<1>6. ASSUME NEW k \in cached', NEW d \in Deps, Contains(DepsOf[k], d), d \notin excuse'[k]
      PROVE  /\ watchers'[d] > 0 \/ BeingCleared(k, d)'
             /\ k \in depMap'[d] \/ \E b \in Adders : MapOf(adder'[b], k, d)
  <2>0. k \in cached /\ d \notin excuse[k]
    BY <1>6
  <2>1. /\ watchers[d] > 0 \/ BeingCleared(k, d)
        /\ k \in depMap[d] \/ \E b \in Adders : MapOf(adder[b], k, d)
    BY <1>6, <2>0, InvForms
  <2>2. watchers'[d] > 0 \/ BeingCleared(k, d)'
    BY <1>6, <2>0, <2>1 DEF StillTold
  <2>3. k \in depMap'[d] \/ \E b \in Adders : MapOf(adder'[b], k, d)
    BY <1>4, <1>6, <2>0, <2>1
  <2>. QED BY <2>2, <2>3
<1>7. ASSUME NEW k \in cached', NEW d \in stale'[k] \ excuse'[k]
      PROVE  Queued(d)' \/ BeingCleared(k, d)' \/ d \in fired'
  <2>1. k \in cached /\ d \in stale[k] \ excuse[k] /\ d \in Deps
    BY <1>0, <1>7 DEF TypeOK
  <2>2. Queued(d) \/ BeingCleared(k, d) \/ d \in fired
    BY <2>1, InvForms
  <2>3. (Queued(d)' <=> Queued(d)) /\ fired' = fired
    BY <1>2, AddersKept DEF StillTold
  <2>. QED BY <1>7, <2>1, <2>2, <2>3
<1>. QED BY <1>2, <1>5, <1>6, <1>7, AddersKept, ToInv

LEMMA ExcuseKeysFacts ==
    ASSUME TypeOK, NEW K, NEW d, ExcuseKeys(K, d)
    PROVE  /\ \A k \in cached : excuse[k] \subseteq excuse'[k]
           /\ \A k \in cached : k \in K => d \in excuse'[k]
BY DEF ExcuseKeys, TypeOK

LEMMA NewSetKeeps ==
    ASSUME IInv, TypeOK', NEW a \in Adders, NewSet(a)
    PROVE  IInv'
<1>0. TypeOK /\ adder[a].pc = "new" /\ Mapped(a) /\ UNCHANGED <<cached, stale>>
  BY DEF IInv, NewSet
<1>1. PICK h \in Deps : h = Head(adder[a].todo)
  BY <1>0, WorkingFacts DEF Working
<1>2. PICK o : o = adder[a].key
  OBVIOUS
<1>3. /\ StillTold
      /\ \A k, d : BeingCleared(k, d)' <=> BeingCleared(k, d)
  BY DEF StillTold, NewSet, zkVars, BeingCleared
<1>4. depMap'[h] = {o} /\ \A d \in Deps \ {h} : depMap'[d] = depMap[d]
  BY <1>0, <1>1, <1>2 DEF NewSet, TypeOK
<1>5. ExcuseKeys(depMap[h] \ {o}, h)
  BY <1>1, <1>2 DEF NewSet
<1>6. /\ \A k \in cached : excuse[k] \subseteq excuse'[k]
      /\ \A k \in cached : k \in depMap[h] \ {o} => h \in excuse'[k]
  BY <1>0, <1>5, ExcuseKeysFacts
<1>7. \A k \in cached : \A d \in Deps : k \in depMap[d] => k \in depMap'[d] \/ d \in excuse'[k]
  BY <1>4, <1>6
<1>. QED BY <1>0, <1>1, <1>2, <1>3, <1>4, <1>6, <1>7, MappingKeeps

LEMMA AddToSetKeeps ==
    ASSUME IInv, TypeOK', NEW a \in Adders, AddToSet(a)
    PROVE  IInv'
<1>0. TypeOK /\ adder[a].pc = "add" /\ Mapped(a) /\ UNCHANGED <<cached, stale>>
  BY DEF IInv, AddToSet
<1>1. PICK h \in Deps : h = Head(adder[a].todo)
  BY <1>0, WorkingFacts DEF Working
<1>2. PICK o : o = adder[a].key
  OBVIOUS
<1>3. StillTold
  BY DEF StillTold, AddToSet, zkVars
<1>4. /\ \A k \in cached : excuse[k] \subseteq excuse'[k]
      /\ \A d \in Deps : depMap[d] \subseteq depMap'[d]
      /\ \A k \in cached : \A d \in Deps : BeingCleared(k, d) => BeingCleared(k, d)' \/ d \in excuse'[k]
      /\ o \in cached => o \in depMap'[h] \/ h \in excuse'[o]
  <2>0. \/ /\ depMap' = [depMap EXCEPT ![h] = @ \cup {o}]
           /\ \/ UNCHANGED <<clearing, excuse>>
              \/ clearing # Idle /\ clearing' = [clearing EXCEPT !.left = @ \cup {o}] /\ excuse' = excuse
              \/ clearing # Idle /\ clearing.dep = h /\ clearing' = Idle /\ ExcuseKeys(clearing.left \cup {o}, h)
        \/ ExcuseKeys({o}, h) /\ UNCHANGED <<depMap, clearing>>
    BY <1>1, <1>2 DEF AddToSet
  <2>1. CASE /\ depMap' = [depMap EXCEPT ![h] = @ \cup {o}]
             /\ \/ UNCHANGED <<clearing, excuse>>
                \/ clearing # Idle /\ clearing' = [clearing EXCEPT !.left = @ \cup {o}] /\ excuse' = excuse
                \/ clearing # Idle /\ clearing.dep = h /\ clearing' = Idle /\ ExcuseKeys(clearing.left \cup {o}, h)
    <3>1. o \in depMap'[h] /\ \A d \in Deps : depMap[d] \subseteq depMap'[d]
      BY <1>0, <1>1, <2>1 DEF TypeOK
    <3>2. CASE UNCHANGED <<clearing, excuse>>
      BY <1>3, <3>1, <3>2 DEF BeingCleared, StillTold
    <3>3. CASE clearing # Idle /\ clearing' = [clearing EXCEPT !.left = @ \cup {o}] /\ excuse' = excuse
      <4>1. clearing \in [dep : Deps, left : SUBSET Keys]
        BY <1>0, <3>3 DEF TypeOK, ClearingStates
      <4>2. clearing'.dep = clearing.dep /\ clearing'.left = clearing.left \cup {o} /\ clearing' # Idle
        BY <3>3, <4>1 DEF Idle
      <4>3. \A k \in cached : \A d \in Deps : BeingCleared(k, d) => BeingCleared(k, d)'
        BY <1>3, <4>2 DEF BeingCleared, StillTold
      <4>. QED BY <3>1, <3>3, <4>3
    <3>4. CASE clearing # Idle /\ clearing.dep = h /\ clearing' = Idle /\ ExcuseKeys(clearing.left \cup {o}, h)
      <4>1. /\ \A k \in cached : excuse[k] \subseteq excuse'[k]
            /\ \A k \in cached : k \in clearing.left \cup {o} => h \in excuse'[k]
        BY <1>0, <3>4, ExcuseKeysFacts
      <4>2. \A k \in cached : \A d \in Deps : BeingCleared(k, d) => BeingCleared(k, d)' \/ d \in excuse'[k]
        BY <1>3, <3>4, <4>1 DEF BeingCleared, StillTold
      <4>. QED BY <3>1, <4>1, <4>2
    <3>. QED BY <2>1, <3>2, <3>3, <3>4
  <2>2. CASE ExcuseKeys({o}, h) /\ UNCHANGED <<depMap, clearing>>
    <3>1. /\ \A k \in cached : excuse[k] \subseteq excuse'[k]
          /\ o \in cached => h \in excuse'[o]
      BY <1>0, <2>2, ExcuseKeysFacts
    <3>. QED BY <1>3, <2>2, <3>1 DEF BeingCleared, StillTold
  <2>. QED BY <2>0, <2>1, <2>2
<1>. QED BY <1>0, <1>1, <1>2, <1>3, <1>4, MappingKeeps

-----------------------------------------------------------------------------
(* An object leaves the cache                                              *)

LEMMA ForgetKeeps ==
    ASSUME IInv, TypeOK', NEW o \in Keys, Forget(o),
           UNCHANGED <<depMap, queue, worker, appVars, zkVars>>,
           \A k \in cached \ {o} : \A d : BeingCleared(k, d) => BeingCleared(k, d)'
    PROVE  IInv'
<1>0. /\ UNCHANGED <<depMap, adder, watchers, events, fired, session>>
      /\ \A d : (Queued(d)' <=> Queued(d)) /\ (OnTheWay(d)' <=> OnTheWay(d))
  BY DEF appVars, zkVars, Queued, OnTheWay
<1>1. /\ cached' = cached \ {o}
      /\ \A k \in cached' : k \in cached \ {o} /\ stale'[k] = stale[k] /\ excuse'[k] = excuse[k]
  BY DEF Forget, IInv, TypeOK
<1>2. FiredOK' /\ StaleOK'
  BY <1>0, <1>1 DEF IInv, FiredOK, StaleOK
<1>3. ASSUME NEW k \in cached', NEW d \in Deps, Contains(DepsOf[k], d), d \notin excuse'[k]
      PROVE  /\ watchers'[d] > 0 \/ BeingCleared(k, d)'
             /\ k \in depMap'[d] \/ \E b \in Adders : MapOf(adder'[b], k, d)
  <2>1. k \in cached \ {o} /\ d \notin excuse[k]
    BY <1>1, <1>3
  <2>2. /\ watchers[d] > 0 \/ BeingCleared(k, d)
        /\ k \in depMap[d] \/ \E b \in Adders : MapOf(adder[b], k, d)
    BY <1>3, <2>1, InvForms
  <2>. QED BY <1>0, <2>1, <2>2
<1>4. ASSUME NEW k \in cached', NEW d \in stale'[k] \ excuse'[k]
      PROVE  Queued(d)' \/ BeingCleared(k, d)' \/ d \in fired'
  <2>1. k \in cached \ {o} /\ d \in stale[k] \ excuse[k]
    BY <1>1, <1>4
  <2>2. Queued(d) \/ BeingCleared(k, d) \/ d \in fired
    BY <2>1, InvForms
  <2>. QED BY <1>0, <2>1, <2>2
<1>5. /\ \A b \in Adders : \A d \in Deps :
            PutOf(adder'[b], d) /\ d \notin adder'[b].excuse => watchers'[d] > 0 \/ events'[d] > 0
      /\ \A b \in Adders : adder'[b].pc \in Loaded => \A d \in adder'[b].stale \ adder'[b].excuse :
            Queued(d)' \/ (PutOf(adder'[b], d) /\ OnTheWay(d)')
  BY <1>0, InvForms
<1>. QED BY <1>2, <1>3, <1>4, <1>5, ToInv

LEMMA RemoveKeeps ==
    ASSUME IInv, TypeOK', NEW o \in Keys, RemoveObject(o) \/ ClearKey(o)
    PROVE  IInv'
<1>1. CASE RemoveObject(o)
  <2>1. \A k, d : BeingCleared(k, d)' <=> BeingCleared(k, d)
    BY <1>1 DEF RemoveObject, BeingCleared, zkVars
  <2>. QED BY <1>1, <2>1, ForgetKeeps DEF RemoveObject
<1>2. CASE ClearKey(o)
  <2>1. events' = events
    BY <1>2 DEF ClearKey, zkVars
  <2>2. clearing \in [dep : Deps, left : SUBSET Keys]
    BY <1>2 DEF IInv, TypeOK, ClearKey, ClearingStates
  <2>3. CASE clearing.left = {o}
    <3>1. \A k \in cached \ {o} : \A d : BeingCleared(k, d) => BeingCleared(k, d)'
      BY <2>1, <2>3 DEF BeingCleared
    <3>. QED BY <1>2, <3>1, ForgetKeeps DEF ClearKey
  <2>4. CASE clearing.left # {o}
    <3>1. clearing' # Idle /\ clearing'.dep = clearing.dep /\ clearing'.left = clearing.left \ {o}
      BY <1>2, <2>2, <2>4 DEF ClearKey, Idle
    <3>2. \A k \in cached \ {o} : \A d : BeingCleared(k, d) => BeingCleared(k, d)'
      BY <2>1, <3>1 DEF BeingCleared
    <3>. QED BY <1>2, <3>2, ForgetKeeps DEF ClearKey
  <2>. QED BY <2>3, <2>4
<1>. QED BY <1>1, <1>2

-----------------------------------------------------------------------------
(* Notifications: the write of a node, the watcher, the session            *)

LEMMA GrownFacts ==
    ASSUME TypeOK, AddersGrow, NEW b \in Adders
    PROVE  /\ adder'[b].pc = adder[b].pc
           /\ adder'[b] = Idle <=> adder[b] = Idle
           /\ \A d : (WatchOf(adder'[b], d) <=> WatchOf(adder[b], d)) /\ (PutOf(adder'[b], d) <=> PutOf(adder[b], d))
           /\ \A k, d : MapOf(adder'[b], k, d) <=> MapOf(adder[b], k, d)
           /\ adder[b] # Idle => adder'[b].key = adder[b].key /\ adder[b].excuse \subseteq adder'[b].excuse
<1>1. adder[b] \in AdderStates /\ Grows(adder[b], adder'[b])
  BY DEF TypeOK, AddersGrow
<1>2. adder[b] # Idle <=> adder[b].pc # "idle"
  BY <1>1, AdderFacts
<1>3. adder'[b] = Idle <=> adder[b] = Idle
  BY <1>1 DEF Grows
<1>. QED BY <1>1, <1>2, <1>3, GrowForms

\* A step that only excuses: nothing becomes more out of date.
Excuses == AddersGrow /\ \A b \in Adders : adder[b] # Idle => adder'[b].stale = adder[b].stale

LEMMA ExcuseAddersFacts ==
    ASSUME TypeOK, NEW A, NEW d \in Deps, ExcuseAdders(A, d),
           \A b \in Adders \cap A : adder[b] # Idle
    PROVE  Excuses /\ \A b \in Adders \cap A : d \in adder'[b].excuse
<1>1. ASSUME NEW b \in Adders \cap A PROVE d \in adder'[b].excuse /\ adder'[b].stale = adder[b].stale
  <2>1. adder[b] # Idle /\ adder'[b] = Excused(adder[b], {d}) /\ adder[b] \in AdderStates
    BY DEF ExcuseAdders, Excused, TypeOK
  <2>2. adder'[b] = Adding(adder[b].pc, adder[b].key, adder[b].todo, adder[b].stale, adder[b].excuse \cup {d})
    BY <2>1, GrowsExcuse
  <2>. QED BY <2>2 DEF Adding
<1>2. \A b \in Adders \ A : adder'[b] = adder[b]
  BY DEF ExcuseAdders
<1>. QED BY <1>1, <1>2, ExcuseAddersGrow DEF Excuses

\* What remains to be shown of a step that changes only the notifications and
\* what is excused.
LEMMA ExcusesKeeps ==
    ASSUME IInv, TypeOK', FiredOK', Excuses, UNCHANGED <<cached, stale, depMap>>,
           \A k \in cached : excuse[k] \subseteq excuse'[k],
           \A b \in Adders : \A d \in Deps \ adder'[b].excuse :
              PutOf(adder[b], d) => watchers'[d] > 0 \/ events'[d] > 0,
           \A b \in Adders : adder[b].pc \in Loaded => \A d \in adder[b].stale \ adder'[b].excuse :
              Queued(d)' \/ (PutOf(adder[b], d) /\ OnTheWay(d)'),
           \A k \in cached : \A d \in Deps \ excuse'[k] :
              Contains(DepsOf[k], d) => watchers'[d] > 0 \/ BeingCleared(k, d)',
           \A k \in cached : \A d \in stale[k] \ excuse'[k] : Queued(d)' \/ BeingCleared(k, d)' \/ d \in fired'
    PROVE  IInv'
<1>0. TypeOK /\ AddersGrow
  BY DEF IInv, Excuses
<1>1. StaleOK'
  <2>1. \A k \in cached' : \A d \in stale'[k] : Contains(DepsOf[k], d)
    BY DEF IInv, StaleOK
  <2>2. ASSUME NEW b \in Adders, adder'[b] # Idle, NEW d \in adder'[b].stale
        PROVE  Contains(DepsOf[adder'[b].key], d)
    <3>1. adder[b] # Idle /\ adder'[b].key = adder[b].key
      BY <1>0, <2>2, GrownFacts
    <3>. QED BY <2>2, <3>1 DEF IInv, StaleOK, Excuses
  <2>. QED BY <2>1, <2>2 DEF StaleOK
<1>2. \A b \in Adders : \A d \in Deps :
         PutOf(adder'[b], d) /\ d \notin adder'[b].excuse => watchers'[d] > 0 \/ events'[d] > 0
  BY <1>0, GrownFacts
<1>3. ASSUME NEW b \in Adders, adder'[b].pc \in Loaded, NEW d \in adder'[b].stale \ adder'[b].excuse
      PROVE  Queued(d)' \/ (PutOf(adder'[b], d) /\ OnTheWay(d)')
  <2>1. adder[b].pc \in Loaded /\ (PutOf(adder'[b], d) <=> PutOf(adder[b], d))
    BY <1>0, <1>3, GrownFacts
  <2>2. adder[b] # Idle
    BY <2>1 DEF Loaded, Idle
  <2>3. d \in adder[b].stale \ adder'[b].excuse
    BY <1>3, <2>2 DEF Excuses
  <2>. QED BY <2>1, <2>3
<1>4. ASSUME NEW k \in cached', NEW d \in Deps, Contains(DepsOf[k], d), d \notin excuse'[k]
      PROVE  /\ watchers'[d] > 0 \/ BeingCleared(k, d)'
             /\ k \in depMap'[d] \/ \E b \in Adders : MapOf(adder'[b], k, d)
  <2>1. k \in depMap[d] \/ \E b \in Adders : MapOf(adder[b], k, d)
    BY <1>4, InvForms
  <2>. QED BY <1>0, <1>4, <2>1, GrownFacts
<1>. QED BY <1>1, <1>2, <1>3, <1>4, ToInv

\* The write of a node: every watch becomes a notification on its way, and who
\* has not set the watch yet will not hear of the change.
LEMMA WriteNodeKeeps ==
    ASSUME IInv, TypeOK', NEW d \in Deps, WriteNode(d),
           UNCHANGED <<cached, stale, depMap, clearing, excuse>>,
           session' = "up" => session = "up",
           \A i \in Deps \ {d} : Queued(i) => Queued(i)'
    PROVE  IInv'
<1>0. TypeOK
  BY DEF IInv
<1>. DEFINE A == {a \in Adders : BeforeWatch(a, d) /\ d \in adder[a].stale}
<1>1. Excuses /\ \A b \in A : d \in adder'[b].excuse
  <2>1. ExcuseAdders(A, d) /\ \A b \in Adders \cap A : adder[b] # Idle
    BY <1>0, BeforePutBusy DEF WriteNode
  <2>2. A \subseteq Adders
    OBVIOUS
  <2>. HIDE DEF A
  <2>. QED BY <1>0, <2>1, <2>2, ExcuseAddersFacts
<1>2. /\ fired \subseteq fired'
      /\ \A i \in Deps : events[i] > 0 => events'[i] > 0
      /\ \A i \in Deps : watchers[i] > 0 => watchers'[i] > 0 \/ events'[i] > 0
      /\ watchers[d] > 0 => events'[d] > 0 \/ d \in fired'
      /\ FiredOK'
  <2>0. watchers \in [Deps -> Nat] /\ events \in [Deps -> Nat] /\ fired \subseteq Deps
    BY <1>0 DEF TypeOK
  <2>1. CASE session = "up"
    <3>1. /\ events' = [events EXCEPT ![d] = events[d] + watchers[d]]
          /\ watchers' = [watchers EXCEPT ![d] = 0] /\ fired' = fired /\ fired = {}
      BY <2>1 DEF WriteNode, IInv, FiredOK
    <3>2. \A i \in Deps \ {d} : events'[i] = events[i] /\ watchers'[i] = watchers[i]
      BY <2>0, <3>1
    <3>3. events'[d] = events[d] + watchers[d] /\ events[d] \in Nat /\ watchers[d] \in Nat
      BY <2>0, <3>1
    <3>4. FiredOK'
      BY <3>1 DEF FiredOK
    <3>. QED BY <3>1, <3>2, <3>3, <3>4
  <2>2. CASE session # "up"
    <3>1. /\ fired' = (IF watchers[d] > 0 THEN fired \cup {d} ELSE fired)
          /\ watchers' = watchers /\ events' = events
      BY <2>2 DEF WriteNode
    <3>2. FiredOK'
      BY <2>2, <3>1 DEF FiredOK, IInv
    <3>. QED BY <3>1, <3>2
  <2>. QED BY <2>1, <2>2
<1>3. \A k \in cached : \A i \in Deps : BeingCleared(k, i) => BeingCleared(k, i)'
  BY <1>2 DEF BeingCleared
<1>4. ASSUME NEW b \in Adders, adder[b].pc \in Loaded, NEW i \in adder[b].stale \ adder'[b].excuse
      PROVE  Queued(i)' \/ (PutOf(adder[b], i) /\ OnTheWay(i)')
  <2>1. adder[b] # Idle /\ adder[b] \in AdderStates
    BY <1>0, <1>4 DEF Loaded, Idle, TypeOK
  <2>2. i \in Deps /\ i \notin adder[b].excuse
    BY <1>0, <1>1, <1>4, <2>1, AdderFacts, GrownFacts DEF Excuses
  <2>3. Queued(i) \/ (PutOf(adder[b], i) /\ OnTheWay(i))
    BY <1>4, <2>2, InvForms
  <2>4. CASE i # d
    BY <1>2, <2>2, <2>3, <2>4 DEF OnTheWay
  <2>5. CASE i = d
    <3>1. ~WatchOf(adder[b], d)
      BY <1>1, <1>4, <2>5, Forms
    <3>2. Contains(DepsOf[adder[b].key], d)
      BY <1>4, <2>1, <2>5 DEF IInv, StaleOK
    <3>3. PutOf(adder[b], d)
      BY <1>4, <3>1, <3>2 DEF WatchOf, PutOf, Loaded
    <3>4. watchers[d] > 0 \/ events[d] > 0
      BY <2>2, <2>5, <3>3, InvForms
    <3>. QED BY <1>2, <2>5, <3>3, <3>4 DEF OnTheWay
  <2>. QED BY <2>4, <2>5
<1>5. ASSUME NEW k \in cached, NEW i \in stale[k] \ excuse'[k]
      PROVE  Queued(i)' \/ BeingCleared(k, i)' \/ i \in fired'
  <2>0. i \in Deps /\ i \notin excuse[k]
    BY <1>0, <1>5 DEF TypeOK
  <2>1. CASE i # d
    <3>1. Queued(i) \/ BeingCleared(k, i) \/ i \in fired
      BY <1>5, <2>0, InvForms
    <3>. QED BY <1>2, <1>3, <2>0, <2>1, <3>1
  <2>2. CASE i = d
    <3>1. Contains(DepsOf[k], d)
      BY <1>5, <2>2 DEF IInv, StaleOK
    <3>2. watchers[d] > 0 \/ BeingCleared(k, d)
      BY <2>0, <2>2, <3>1, InvForms
    <3>. QED BY <1>2, <1>3, <2>2, <3>2 DEF BeingCleared
  <2>. QED BY <2>1, <2>2
<1>6. ASSUME NEW b \in Adders, NEW i \in Deps \ adder'[b].excuse, PutOf(adder[b], i)
      PROVE  watchers'[i] > 0 \/ events'[i] > 0
  <2>1. adder[b] # Idle
    BY <1>6, IdleForms
  <2>2. i \notin adder[b].excuse
    BY <1>0, <1>1, <1>6, <2>1, GrownFacts DEF Excuses
  <2>. QED BY <1>2, <1>6, <2>2, InvForms
<1>7. ASSUME NEW k \in cached, NEW i \in Deps \ excuse'[k], Contains(DepsOf[k], i)
      PROVE  watchers'[i] > 0 \/ BeingCleared(k, i)'
  <2>1. watchers[i] > 0 \/ BeingCleared(k, i)
    BY <1>7, InvForms
  <2>. QED BY <1>2, <1>3, <2>1 DEF BeingCleared
<1>. HIDE DEF A
<1>. QED BY <1>1, <1>2, <1>4, <1>5, <1>6, <1>7, ExcusesKeeps

LEMMA WritesKeep ==
    ASSUME IInv, TypeOK', UpdateNode \/ UpdateFails \/ \E d \in Deps : RemoteWrite(d)
    PROVE  IInv'
<1>0. TypeOK
  BY DEF IInv
<1>1. CASE UpdateNode
  <2>1. worker # Idle /\ worker.dep \in Deps /\ WriteNode(worker.dep)
    BY <1>0, <1>1, WorkerFacts DEF UpdateNode
  <2>2. \A i \in Deps \ {worker.dep} : Queued(i) => Queued(i)'
    BY <1>1 DEF UpdateNode, Queued
  <2>. QED BY <1>1, <2>1, <2>2, WriteNodeKeeps DEF UpdateNode
<1>2. CASE UpdateFails
  <2>1. worker.dep \in Deps /\ worker' = [pc |-> "put", dep |-> worker.dep] /\ worker # Idle
    BY <1>0, <1>2, WorkerFacts DEF UpdateFails
  <2>2. worker' # Idle /\ worker'.dep = worker.dep
    BY <2>1 DEF Idle
  <2>3. \A i \in Deps : Queued(i) => Queued(i)'
    BY <1>2, <2>2 DEF UpdateFails, Queued
  <2>4. session' = "up" => session = "up"
    BY <1>2 DEF UpdateFails, Connect
  <2>5. UNCHANGED <<cached, stale, depMap, clearing, excuse>>
    BY <1>2 DEF UpdateFails
  <2>6. CASE WriteNode(worker.dep)
    BY <2>1, <2>3, <2>4, <2>5, <2>6, WriteNodeKeeps
  <2>7. CASE UNCHANGED <<watchers, fired, events, adder>>
    BY <2>3, <2>4, <2>5, <2>7, QueueKeeps
  <2>. QED BY <1>2, <2>6, <2>7 DEF UpdateFails
<1>3. ASSUME NEW d \in Deps, RemoteWrite(d) PROVE IInv'
  <2>1. \A i \in Deps \ {d} : Queued(i) => Queued(i)'
    BY <1>3 DEF RemoteWrite, Queued
  <2>. QED BY <1>3, <2>1, WriteNodeKeeps DEF RemoteWrite
<1>. QED BY <1>1, <1>2, <1>3

\* The watcher starts: it clears the keys it finds mapped.  Whoever it comes too
\* early for hears of the change by another event or watch, or is excused.
LEMMA ClearStartKeeps ==
    ASSUME IInv, TypeOK', NEW d \in Deps, ClearStart(d)
    PROVE  IInv'
<1>0. TypeOK /\ UNCHANGED <<cached, stale, depMap, watchers, fired, session>>
  BY DEF IInv, ClearStart
<1>1. /\ Excuses
      /\ \A b \in Adders : /\ PutOf(adder[b], d) /\ events[d] = 1
                           /\ watchers[d] = 0 \/ d \in adder[b].stale
                           => d \in adder'[b].excuse
  <2>1. PICK A : /\ A = {a \in Adders : BeforePut(a, d) /\ events[d] = 1 /\ (watchers[d] = 0 \/ d \in adder[a].stale)}
                 /\ ExcuseAdders(A, d)
    BY DEF ClearStart
  <2>2. \A b \in Adders \cap A : adder[b] # Idle
    BY <1>0, <2>1, BeforePutBusy
  <2>3. Excuses /\ \A b \in Adders \cap A : d \in adder'[b].excuse
    BY <1>0, <2>1, <2>2, ExcuseAddersFacts
  <2>. QED BY <2>1, <2>3, Forms
<1>2. /\ \A k \in cached : excuse[k] \subseteq excuse'[k]
      /\ \A k \in cached : /\ k \notin depMap[d] /\ BeforeMapping(k, d) /\ events[d] = 1
                           /\ watchers[d] = 0 \/ d \in stale[k]
                           => d \in excuse'[k]
  <2>1. PICK K : /\ K = {k \in Keys \ depMap[d] :
                          BeforeMapping(k, d) /\ events[d] = 1 /\ (watchers[d] = 0 \/ d \in stale[k])}
                 /\ ExcuseKeys(K, d)
    BY DEF ClearStart
  <2>2. /\ \A k \in cached : excuse[k] \subseteq excuse'[k]
        /\ \A k \in cached : k \in K => d \in excuse'[k]
    BY <1>0, <2>1, ExcuseKeysFacts
  <2>. QED BY <2>1, <2>2, InvForms
<1>3. /\ events[d] \in Nat /\ watchers[d] \in Nat /\ events[d] > 0 /\ events'[d] = events[d] - 1
      /\ \A i \in Deps \ {d} : events'[i] = events[i]
  BY <1>0 DEF ClearStart, TypeOK
<1>4. events'[d] > 0 \/ events[d] = 1
  BY <1>3
<1>5. \A i : (Queued(i)' <=> Queued(i)) /\ FiredOK'
  BY <1>0 DEF ClearStart, Queued, IInv, FiredOK
<1>6. /\ \A k \in depMap[d] : BeingCleared(k, d)'
      /\ \A k : \A i \in Deps \ {d} : BeingCleared(k, i) => BeingCleared(k, i)'
  <2>1. clearing = Idle /\ clearing' = (IF depMap[d] = {} THEN Idle ELSE [dep |-> d, left |-> depMap[d]])
    BY DEF ClearStart
  <2>2. ASSUME NEW k \in depMap[d] PROVE BeingCleared(k, d)'
    <3>1. clearing' = [dep |-> d, left |-> depMap[d]]
      BY <2>1
    <3>2. clearing' # Idle /\ clearing'.dep = d /\ clearing'.left = depMap[d]
      BY <3>1 DEF Idle
    <3>. QED BY <3>2 DEF BeingCleared
  <2>. QED BY <1>3, <2>1, <2>2 DEF BeingCleared
<1>7. ASSUME NEW b \in Adders, NEW i \in Deps \ adder'[b].excuse, PutOf(adder[b], i)
      PROVE  watchers'[i] > 0 \/ events'[i] > 0
  <2>1. adder[b] # Idle
    BY <1>7, IdleForms
  <2>2. i \notin adder[b].excuse
    BY <1>0, <1>1, <1>7, <2>1, GrownFacts DEF Excuses
  <2>3. CASE i # d
    BY <1>0, <1>3, <1>7, <2>2, <2>3, InvForms
  <2>4. CASE i = d
    BY <1>0, <1>1, <1>3, <1>4, <1>7, <2>4
  <2>. QED BY <2>3, <2>4
<1>8. ASSUME NEW b \in Adders, adder[b].pc \in Loaded, NEW i \in adder[b].stale \ adder'[b].excuse
      PROVE  Queued(i)' \/ (PutOf(adder[b], i) /\ OnTheWay(i)')
  <2>1. adder[b] # Idle /\ adder[b] \in AdderStates
    BY <1>0, <1>8 DEF Loaded, Idle, TypeOK
  <2>2. i \in Deps /\ i \notin adder[b].excuse
    BY <1>0, <1>1, <1>8, <2>1, AdderFacts, GrownFacts DEF Excuses
  <2>3. Queued(i) \/ (PutOf(adder[b], i) /\ OnTheWay(i))
    BY <1>8, <2>2, InvForms
  <2>4. CASE i # d
    BY <1>0, <1>3, <1>5, <2>2, <2>3, <2>4 DEF OnTheWay
  <2>5. CASE i = d
    BY <1>1, <1>4, <1>5, <1>8, <2>3, <2>5 DEF OnTheWay
  <2>. QED BY <2>4, <2>5
<1>9. ASSUME NEW k \in cached, NEW i \in Deps \ excuse'[k], Contains(DepsOf[k], i)
      PROVE  /\ watchers'[i] > 0 \/ BeingCleared(k, i)'
             /\ i = d /\ i \in stale[k] => BeingCleared(k, i)'
  <2>1. /\ i \notin excuse[k]
        /\ watchers[i] > 0 \/ BeingCleared(k, i)
        /\ k \in depMap[i] \/ BeforeMapping(k, i)
    BY <1>2, <1>9, InvForms, Forms
  <2>2. CASE i # d
    BY <1>0, <1>6, <1>9, <2>1, <2>2
  <2>3. CASE i = d /\ k \in depMap[d]
    BY <1>6, <2>3
  <2>4. CASE i = d /\ k \notin depMap[d]
    <3>1. events[d] = 1 => watchers[d] # 0 /\ d \notin stale[k]
      BY <1>2, <1>9, <2>1, <2>4
    <3>2. CASE events'[d] > 0
      BY <2>4, <3>2 DEF BeingCleared
    <3>3. CASE events[d] = 1
      BY <1>0, <1>3, <2>4, <3>1, <3>3
    <3>. QED BY <1>4, <3>2, <3>3
  <2>. QED BY <2>2, <2>3, <2>4
<1>10. ASSUME NEW k \in cached, NEW i \in stale[k] \ excuse'[k]
       PROVE  Queued(i)' \/ BeingCleared(k, i)' \/ i \in fired'
  <2>1. i \in Deps /\ i \notin excuse[k] /\ Contains(DepsOf[k], i)
    BY <1>0, <1>2, <1>10 DEF TypeOK, IInv, StaleOK
  <2>2. CASE i # d
    <3>1. Queued(i) \/ BeingCleared(k, i) \/ i \in fired
      BY <1>10, <2>1, InvForms
    <3>. QED BY <1>0, <1>5, <1>6, <2>1, <2>2, <3>1
  <2>3. CASE i = d
    BY <1>9, <1>10, <2>1, <2>3
  <2>. QED BY <2>2, <2>3
<1>. QED BY <1>0, <1>1, <1>2, <1>5, <1>7, <1>8, <1>9, <1>10, ExcusesKeeps

\* The client is back: what fired meanwhile is given to the event thread.
LEMMA ReconnectKeeps ==
    ASSUME IInv, TypeOK', Reconnect
    PROVE  IInv'
<1>0. TypeOK /\ UNCHANGED <<cached, stale, depMap, clearing, excuse, adder>>
  BY DEF IInv, Reconnect, appVars
<1>1. Excuses
  BY <1>0, SameAdders DEF Excuses
<1>2. ASSUME NEW i \in Deps
      PROVE  /\ events[i] > 0 \/ i \in fired => events'[i] > 0
             /\ watchers[i] > 0 => watchers'[i] > 0 \/ events'[i] > 0
  <2>1. watchers[i] \in Nat /\ events[i] \in Nat
    BY <1>0 DEF TypeOK
  <2>2. CASE i \in fired
    <3>1. watchers[i] > 0 /\ events'[i] = events[i] + watchers[i]
      BY <2>2 DEF IInv, FiredOK, Reconnect
    <3>. QED BY <2>1, <3>1
  <2>3. CASE i \notin fired
    <3>1. watchers'[i] = watchers[i] /\ events'[i] = events[i]
      BY <2>3 DEF Reconnect
    <3>. QED BY <2>3, <3>1
  <2>. QED BY <2>2, <2>3
<1>3. FiredOK' /\ \A i : Queued(i)' <=> Queued(i)
  BY DEF Reconnect, FiredOK, Queued, appVars
<1>4. \A k : \A i \in Deps : BeingCleared(k, i) \/ i \in fired => BeingCleared(k, i)'
  BY <1>0, <1>2 DEF BeingCleared
<1>5. ASSUME NEW b \in Adders, adder[b].pc \in Loaded, NEW i \in adder[b].stale \ adder'[b].excuse
      PROVE  Queued(i)' \/ (PutOf(adder[b], i) /\ OnTheWay(i)')
  <2>1. adder[b] # Idle /\ adder[b] \in AdderStates
    BY <1>0, <1>5 DEF Loaded, Idle, TypeOK
  <2>2. i \in Deps
    BY <1>5, <2>1, AdderFacts
  <2>3. Queued(i) \/ (PutOf(adder[b], i) /\ OnTheWay(i))
    BY <1>0, <1>5, InvForms
  <2>. QED BY <1>2, <1>3, <2>2, <2>3 DEF OnTheWay
<1>6. ASSUME NEW k \in cached, NEW i \in stale[k] \ excuse'[k]
      PROVE  Queued(i)' \/ BeingCleared(k, i)' \/ i \in fired'
  <2>1. i \in Deps /\ i \notin excuse[k]
    BY <1>0, <1>6 DEF TypeOK
  <2>. QED BY <1>3, <1>4, <1>6, <2>1, InvForms
<1>7. \A b \in Adders : \A i \in Deps \ adder'[b].excuse :
         PutOf(adder[b], i) => watchers'[i] > 0 \/ events'[i] > 0
  BY <1>0, <1>2, InvForms
<1>8. \A k \in cached : \A i \in Deps \ excuse'[k] :
         Contains(DepsOf[k], i) => watchers'[i] > 0 \/ BeingCleared(k, i)'
  BY <1>0, <1>2, <1>4, InvForms DEF BeingCleared
<1>. QED BY <1>0, <1>1, <1>3, <1>5, <1>6, <1>7, <1>8, ExcusesKeeps

\* The session expires: who relied on one of its watches is excused.
LEMMA SessionExpiresKeeps ==
    ASSUME IInv, TypeOK', SessionExpires
    PROVE  IInv'
<1>0. TypeOK /\ UNCHANGED <<cached, stale, depMap, clearing, events>>
  BY DEF IInv, SessionExpires
<1>1. ASSUME NEW b \in Adders, adder[b] # Idle
      PROVE  /\ adder'[b].stale = adder[b].stale
             /\ \A i \in Deps : PutOf(adder[b], i) => i \in adder'[b].excuse
  <2>0. adder[b] \in AdderStates
    BY <1>0 DEF TypeOK
  <2>1. CASE adder[b].pc \in {"exists", "create", "get", "put"}
    <3>1. PICK D : D = {d \in Deps : BeforePut(b, d)}
      OBVIOUS
    <3>2. adder'[b] = Excused(adder[b], D) /\ D \in SUBSET Deps
      BY <2>1, <3>1 DEF SessionExpires, Excused
    <3>3. adder'[b] = Adding(adder[b].pc, adder[b].key, adder[b].todo, adder[b].stale, adder[b].excuse \cup D)
      BY <1>1, <2>0, <3>2, GrowsExcuse
    <3>4. adder'[b].stale = adder[b].stale /\ adder'[b].excuse = adder[b].excuse \cup D
      BY <3>3 DEF Adding
    <3>. QED BY <3>1, <3>4, Forms
  <2>2. CASE adder[b].pc \notin {"exists", "create", "get", "put"}
    BY <2>2 DEF SessionExpires, PutOf
  <2>. QED BY <2>1, <2>2
<1>2. Excuses
  BY <1>0, <1>1, ExpiresGrow DEF Excuses
<1>3. \A b \in Adders : \A i \in Deps : PutOf(adder[b], i) => i \in adder'[b].excuse
  BY <1>1, IdleForms
<1>4. \A k \in cached : /\ excuse[k] \subseteq excuse'[k]
                        /\ \A i \in Deps : watchers[i] > 0 => i \in excuse'[k]
  BY <1>0 DEF SessionExpires, TypeOK
<1>5. FiredOK' /\ \A i : Queued(i)' <=> Queued(i)
  BY DEF SessionExpires, FiredOK, Queued
<1>6. \A k, i : BeingCleared(k, i)' <=> BeingCleared(k, i)
  BY <1>0 DEF BeingCleared
<1>7. ASSUME NEW b \in Adders, adder[b].pc \in Loaded, NEW i \in adder[b].stale \ adder'[b].excuse
      PROVE  Queued(i)'
  <2>1. adder[b] # Idle /\ adder[b] \in AdderStates
    BY <1>0, <1>7 DEF Loaded, Idle, TypeOK
  <2>2. i \in Deps /\ i \notin adder[b].excuse
    BY <1>0, <1>2, <1>7, <2>1, AdderFacts, GrownFacts DEF Excuses
  <2>3. Queued(i) \/ PutOf(adder[b], i)
    BY <1>7, <2>2, InvForms
  <2>. QED BY <1>3, <1>5, <1>7, <2>2, <2>3
<1>8. ASSUME NEW k \in cached, NEW i \in stale[k] \ excuse'[k]
      PROVE  Queued(i)' \/ BeingCleared(k, i)'
  <2>1. i \in Deps /\ i \notin excuse[k] /\ ~(watchers[i] > 0)
    BY <1>0, <1>4, <1>8 DEF TypeOK
  <2>2. i \notin fired
    BY <2>1 DEF IInv, FiredOK
  <2>3. Queued(i) \/ BeingCleared(k, i)
    BY <1>8, <2>1, <2>2, InvForms
  <2>. QED BY <1>5, <1>6, <2>3
<1>9. ASSUME NEW k \in cached, NEW i \in Deps \ excuse'[k], Contains(DepsOf[k], i)
      PROVE  BeingCleared(k, i)'
  <2>1. i \notin excuse[k] /\ ~(watchers[i] > 0)
    BY <1>4, <1>9
  <2>2. BeingCleared(k, i)
    BY <1>9, <2>1, InvForms
  <2>. QED BY <1>6, <2>2
<1>. QED BY <1>0, <1>2, <1>3, <1>4, <1>5, <1>7, <1>8, <1>9, ExcusesKeeps

-----------------------------------------------------------------------------
(* The theorems                                                            *)

LEMMA InitInv == Init => IInv
<1>. SUFFICES ASSUME Init PROVE IInv
  OBVIOUS
<1>1. TypeOK
  BY InitType
<1>2. cached = {} /\ fired = {} /\ \A a \in Adders : adder[a] = Idle /\ adder[a].pc = "idle"
  BY DEF Init, Idle
<1>3. FiredOK /\ StaleOK
  BY <1>2 DEF FiredOK, StaleOK
<1>4. AddersReachable /\ AddersTold
  BY <1>2 DEF AddersReachable, AddersTold, BeforePut
<1>5. ObjectsReachable /\ ObjectsTold
  BY <1>2 DEF ObjectsReachable, ObjectsTold
<1>. QED BY <1>1, <1>3, <1>4, <1>5 DEF IInv

LEMMA InvStep == IInv /\ [Next]_vars => IInv'
<1>. SUFFICES ASSUME IInv, [Next]_vars PROVE IInv'
  OBVIOUS
<1>0. TypeOK'
  BY TypeStep DEF IInv
<1>1. ASSUME NEW a \in Adders, AddStep(a) PROVE IInv'
  BY <1>0, <1>1, WatchingKeeps, GetDataKeeps, PutKeeps, ContainsKeyKeeps, AddToSetKeeps, NewSetKeeps DEF AddStep
<1>2. ASSUME NEW a \in Adders, NEW k \in Keys, Load(a, k) PROVE IInv'
  BY <1>0, <1>2, LoadKeeps
<1>3. ASSUME NEW k \in Keys, RemoveObject(k) \/ ClearKey(k) PROVE IInv'
  BY <1>0, <1>3, RemoveKeeps
<1>4. ASSUME NEW n \in Notifiers, QueueContains(n) \/ QueuePut(n) \/ \E d \in Deps : Expire(n, d)
      PROVE  IInv'
  BY <1>0, <1>4, NotifierKeeps
<1>5. ASSUME WorkerTake \/ UpdateNode \/ UpdateFails \/ PutBack PROVE IInv'
  BY <1>0, <1>5, WorkerQueueKeeps, WritesKeep
<1>6. ASSUME NEW d \in Deps, RemoteExpire(d) \/ RemoteWrite(d) \/ ClearStart(d) PROVE IInv'
  BY <1>0, <1>6, RemoteExpireKeeps, WritesKeep, ClearStartKeeps
<1>7. ASSUME Disconnect \/ Reconnect \/ SessionExpires \/ HandleEvent PROVE IInv'
  BY <1>0, <1>7, SessionKeeps, ReconnectKeeps, SessionExpiresKeeps
<1>8. CASE UNCHANGED vars
  <2>1. /\ UNCHANGED <<cached, stale, depMap, clearing, excuse, watchers, events, fired, adder, session>>
        /\ \A i \in Deps : Queued(i) => Queued(i)'
    BY <1>8 DEF vars, appVars, zkVars, Queued
  <2>. QED BY <1>0, <2>1, QueueKeeps
<1>. QED BY <1>1, <1>2, <1>3, <1>4, <1>5, <1>6, <1>7, <1>8 DEF Next

\* getObject's client is connected: nothing that fired is still with the service.
LEMMA InvTells == IInv => ServedStaleIsTold
BY DEF IInv, FiredOK, ObjectsTold, ServedStaleIsTold, Serves

\* Whatever the threads in add(), the event thread and the session do, the next
\* notification of a dependency reaches every cached object (watched in add(),
\* mapped in dependecyMap, cleared by clearCacheObjectByDependency), but for
\* the named causes of a miss.
THEOREM NotificationsReach == Spec => []ObjectsReachable
<1>1. IInv => ObjectsReachable
  BY DEF IInv
<1>. QED BY <1>1, InitInv, InvStep, PTL DEF Spec

\* An object that getObject serves although its data changed is about to be
\* cleared, or the change has not been written by updateDependecyNode yet: the
\* failed writes of the worker, what fires while the client is away and objects
\* added meanwhile included.
THEOREM StaleIsTold == Spec => []ServedStaleIsTold
BY InitInv, InvStep, InvTells, PTL DEF Spec
=============================================================================
