-------------------------- MODULE RedisLock_proofs --------------------------
(***************************************************************************)
(* Proofs that the lock of RedisLock.java excludes, for any number of lock *)
(* objects, keys, stamps and timeouts.  Exclusion is not inductive: it     *)
(* speaks of what callers were told (hasLock) and of time (lease), while   *)
(* the scripts look at values in Redis.  LeaseInv ties the three together. *)
(***************************************************************************)
EXTENDS RedisLock, FiniteSetTheorems, TLAPS

\* An entry in Redis holds the value of the object that set it, under one of
\* that object's keys.
EntryInv ==
  \A k \in Keys : ~Absent(k) => /\ store[k].value = value[store[k].owner]
                                /\ k \in KeysOf(store[k].owner)

\* A sound object owns in Redis exactly its keys while its time runs, with
\* that time to live, and nothing once it is over or its delete script ran.
LeaseInv ==
  \A l \in Locks : Sound(l) =>
    \A k \in Keys : /\ k \in Owned(l) <=> (k \in KeysOf(l) /\ lease[l] > 0)
                    /\ k \in Owned(l) => store[k].ttl = lease[l]

\* An object that is not built yet has no keys and has sent no script.
NewInv ==
  \A l \in Locks : pc[l] = "new" => lease[l] = 0 /\ orphans[l] = {} /\ keys[l] = <<>>

\* A delete script is left in the network only by an unLock() that gave up.
AbandonInv ==
  \A l \in Locks : "delete" \in orphans[l] => abandoned[l]

IndInv == TypeOK /\ EntryInv /\ LeaseInv /\ NewInv /\ AbandonInv

-----------------------------------------------------------------------------
(* The scripts *)

\* The keys of a lock object are Redis keys.
LEMMA KeysOfKeys ==
  ASSUME TypeOK, NEW l \in Locks
  PROVE  KeysOf(l) \subseteq Keys
BY DEF TypeOK, KeysOf, ToSet

\* multi_set_if_absent answers OK only if it found every key absent.
LEMMA SetOkAbsent ==
  ASSUME TypeOK, NEW l \in Locks, SetSucceeds(l)
  PROVE  \A k \in KeysOf(l) : Absent(k)
<1> SUFFICES ASSUME NEW i \in DOMAIN keys[l] PROVE Absent(keys[l][i])
  BY DEF KeysOf, ToSet
<1>1. keys[l] \in Seq(Keys)
  BY DEF TypeOK
<1>2. i \in 1..i
  BY <1>1
<1> QED BY <1>2 DEF SetSucceeds, Prefix

\* A set script that fails leaves Redis as it was: it deletes only what it set.
LEMMA SetFailsUnchanged ==
  ASSUME TypeOK, NEW l \in Locks, ~SetSucceeds(l)
  PROVE  SetIfAbsent(l) = store
<1> DEFINE P == {keys[l][i] : i \in Prefix(l)}
<1>1. keys[l] \in Seq(Keys)
  BY DEF TypeOK
<1>2. \A k \in P : store[k] = NoEntry
  <2> SUFFICES ASSUME NEW i \in Prefix(l) PROVE store[keys[l][i]] = NoEntry
    OBVIOUS
  <2>1. i \in DOMAIN keys[l] /\ i \in 1..i
    BY <1>1 DEF Prefix
  <2> QED BY <2>1 DEF Prefix, Absent
<1>3. SetIfAbsent(l) = [k \in Keys |-> IF k \in P THEN NoEntry ELSE store[k]]
  BY DEF SetIfAbsent
<1>4. \A k \in Keys : SetIfAbsent(l)[k] = store[k]
  BY <1>2, <1>3
<1> QED BY <1>3, <1>4 DEF TypeOK

\* The constructor's de-duplicated list is a list of Redis keys.
LEMMA OrderType ==
  ASSUME NEW ks \in KeyLists, NEW order \in SetToSeqs(ToSet(ks))
  PROVE  order \in Seq(Keys)
<1> DEFINE S == ToSet(ks)
<1>1. ks \in Seq(Keys)
  BY LockAssumption
<1>2. IsFiniteSet(DOMAIN ks)
  BY <1>1, FS_Interval
<1>3. ks \in Surjection(DOMAIN ks, S)
  BY <1>1 DEF Surjection, ToSet
<1>4. IsFiniteSet(S)
  BY <1>2, <1>3, FS_Surjection
<1>5. Cardinality(S) \in Nat
  BY <1>4, FS_CardinalityType
<1>6. S \subseteq Keys
  BY <1>1 DEF ToSet
<1>7. order \in [1..Cardinality(S) -> Keys]
  BY <1>6 DEF SetToSeqs
<1> QED BY <1>5, <1>7

-----------------------------------------------------------------------------
(* The inductive invariant *)

\* What the store and the leases must satisfy, without the callers' state.
StoreOK ==
  /\ store \in [Keys -> Entry \cup {NoEntry}]
  /\ \A k \in Keys : store[k] # NoEntry => store[k].ttl > 0
  /\ lease \in [Locks -> Nat]
  /\ EntryInv
  /\ LeaseInv

\* Running a set script, for a caller that waits or for one that gave up,
\* keeps Redis and the leases in agreement.
LEMMA RunSetStep ==
  ASSUME IndInv, NEW l \in Locks, RunSet(l), UNCHANGED <<objVars, abandoned>>
  PROVE  StoreOK'
<1> USE DEF IndInv
<1>1. CASE ~SetSucceeds(l)
  <2>1. store' = store /\ lease' = lease
    BY <1>1, SetFailsUnchanged DEF RunSet
  <2>2. \A m \in Locks : KeysOf(m)' = KeysOf(m) /\ (Sound(m)' <=> Sound(m))
    BY DEF KeysOf, Sound, objVars
  <2>3. /\ \A k \in Keys : Absent(k)' = Absent(k)
        /\ \A m \in Locks : Owned(m)' = Owned(m)
        /\ value' = value
    BY <2>1 DEF Absent, Owned, objVars
  <2>4. EntryInv'
    <3> SUFFICES ASSUME NEW k \in Keys, ~Absent(k)
                 PROVE  /\ store[k].value = value[store[k].owner]
                        /\ k \in KeysOf(store[k].owner)'
      BY <2>1, <2>3 DEF EntryInv
    <3>1. store[k].owner \in Locks
      BY DEF TypeOK, Absent, Entry
    <3>2. store[k].value = value[store[k].owner] /\ k \in KeysOf(store[k].owner)
      BY DEF EntryInv
    <3>3. KeysOf(store[k].owner)' = KeysOf(store[k].owner)
      BY <2>1, <2>2, <3>1 DEF KeysOf, objVars
    <3> QED BY <3>2, <3>3
  <2>5. LeaseInv'
    BY <2>1, <2>2, <2>3 DEF LeaseInv
  <2> QED BY <2>1, <2>4, <2>5 DEF StoreOK, TypeOK
<1>2. CASE SetSucceeds(l)
  <2> DEFINE e == [value |-> value[l], ttl |-> timeout[l], owner |-> l]
  <2>1. /\ store' = [k \in Keys |-> IF k \in KeysOf(l) THEN e ELSE store[k]]
        /\ lease' = [lease EXCEPT ![l] = timeout[l]]
    BY <1>2 DEF RunSet, SetIfAbsent
  <2>2. \A k \in KeysOf(l) : Absent(k)
    BY <1>2, SetOkAbsent
  <2>3. timeout[l] \in Nat /\ timeout[l] > 0 /\ value[l] \in Stamps
    <3>1. timeout[l] \in Timeouts /\ value[l] \in Stamps
      BY DEF TypeOK
    <3>2. timeout[l] \in Nat \ {0}
      BY <3>1, LockAssumption
    <3> QED BY <3>1, <3>2
  <2>4. e \in Entry /\ e # NoEntry
    BY <2>3, LockAssumption DEF Entry
  <2>5. \A m \in Locks : KeysOf(m)' = KeysOf(m) /\ (Sound(m)' <=> Sound(m))
    BY DEF KeysOf, Sound, objVars
  <2>6. /\ store' \in [Keys -> Entry \cup {NoEntry}]
        /\ \A k \in Keys : store'[k] # NoEntry => store'[k].ttl > 0
        /\ lease' \in [Locks -> Nat]
    BY <2>1, <2>3, <2>4 DEF TypeOK
  <2>7. EntryInv'
    BY <2>1, <2>5, <2>6 DEF EntryInv, Absent, TypeOK, objVars, Entry
  <2>8. LeaseInv'
    <3> SUFFICES ASSUME NEW m \in Locks, Sound(m), NEW k \in Keys
                 PROVE  /\ (k \in Owned(m))' <=> (k \in KeysOf(m) /\ lease'[m] > 0)
                        /\ (k \in Owned(m))' => store'[k].ttl = lease'[m]
      BY <2>5 DEF LeaseInv
    <3>1. (k \in Owned(m))' <=> store'[k] # NoEntry /\ store'[k].owner = m
      BY DEF Owned, Absent
    <3>2. k \in Owned(m) <=> store[k] # NoEntry /\ store[k].owner = m
      BY DEF Owned, Absent
    <3>3. /\ k \in Owned(m) <=> (k \in KeysOf(m) /\ lease[m] > 0)
          /\ k \in Owned(m) => store[k].ttl = lease[m]
      BY DEF LeaseInv
    <3>4. CASE m = l
      BY <3>4, <2>1, <2>2, <2>3, <2>4, <2>6, <3>1, <3>2, <3>3 DEF Absent, TypeOK
    <3>5. CASE m # l
      BY <3>5, <2>1, <2>2, <2>4, <3>1, <3>2, <3>3 DEF Absent, TypeOK
    <3> QED BY <3>4, <3>5
  <2> QED BY <2>6, <2>7, <2>8 DEF StoreOK
<1> QED BY <1>1, <1>2

\* Running a delete script takes nothing from a sound object but its own keys.
LEMMA RunDeleteStep ==
  ASSUME IndInv, NEW l \in Locks, RunDelete(l), UNCHANGED <<objVars, abandoned>>
  PROVE  StoreOK'
<1> USE DEF IndInv
<1> DEFINE gone(k) == k \in KeysOf(l) /\ ~Absent(k) /\ store[k].value = value[l]
<1>1. /\ store' = [k \in Keys |-> IF gone(k) THEN NoEntry ELSE store[k]]
      /\ lease' = [lease EXCEPT ![l] = 0]
  BY DEF RunDelete, DeleteIfEqual
<1>2. \A m \in Locks : KeysOf(m)' = KeysOf(m) /\ (Sound(m)' <=> Sound(m))
  BY DEF KeysOf, Sound, objVars
<1>3. /\ store' \in [Keys -> Entry \cup {NoEntry}]
      /\ \A k \in Keys : store'[k] # NoEntry => store'[k].ttl > 0
      /\ lease' \in [Locks -> Nat]
  BY <1>1 DEF TypeOK
<1>4. \A k \in Keys : store[k] # NoEntry => store[k].owner \in Locks
  BY DEF TypeOK, Entry
<1>5. EntryInv'
  BY <1>1, <1>2, <1>4 DEF EntryInv, Absent, TypeOK, objVars
<1>6. LeaseInv'
  <2> SUFFICES ASSUME NEW m \in Locks, Sound(m), NEW k \in Keys
               PROVE  /\ (k \in Owned(m))' <=> (k \in KeysOf(m) /\ lease'[m] > 0)
                      /\ (k \in Owned(m))' => store'[k].ttl = lease'[m]
    BY <1>2 DEF LeaseInv
  <2>1. (k \in Owned(m))' <=> store'[k] # NoEntry /\ store'[k].owner = m
    BY DEF Owned, Absent
  <2>2. k \in Owned(m) <=> store[k] # NoEntry /\ store[k].owner = m
    BY DEF Owned, Absent
  <2>3. /\ k \in Owned(m) <=> (k \in KeysOf(m) /\ lease[m] > 0)
        /\ k \in Owned(m) => store[k].ttl = lease[m]
    BY DEF LeaseInv
  <2>4. store[k] # NoEntry => store[k].value = value[store[k].owner]
    BY DEF EntryInv, Absent
  <2>5. CASE m = l
    BY <2>5, <1>1, <2>1, <2>2, <2>3, <2>4 DEF Absent, TypeOK
  <2>6. CASE m # l
    <3>1. value[m] # value[l]
      BY <2>6 DEF Sound
    <3>2. k \in Owned(m) => ~gone(k)
      BY <3>1, <2>2, <2>4
    <3> QED BY <2>6, <3>2, <1>1, <2>1, <2>2, <2>3, <2>4 DEF Absent, TypeOK
  <2> QED BY <2>5, <2>6
<1> QED BY <1>3, <1>5, <1>6 DEF StoreOK

\* Time passes at the same rate for a lease and for the keys it is about.
LEMMA TickStep ==
  ASSUME IndInv, Tick
  PROVE  StoreOK'
<1> USE DEF IndInv
<1>1. /\ store' = [k \in Keys |-> Aged(store[k])]
      /\ lease' = [l \in Locks |-> IF lease[l] = 0 THEN 0 ELSE lease[l] - 1]
  BY DEF Tick
<1>2. \A m \in Locks : KeysOf(m)' = KeysOf(m) /\ (Sound(m)' <=> Sound(m))
  BY DEF Tick, KeysOf, Sound, objVars
<1>3. ASSUME NEW k \in Keys
      PROVE  \/ /\ store[k] = NoEntry \/ store[k].ttl = 1
                /\ store'[k] = NoEntry
             \/ /\ store[k] \in Entry /\ store[k].ttl > 1
                /\ store'[k] \in Entry /\ store'[k] # NoEntry
                /\ store'[k].ttl = store[k].ttl - 1
                /\ store'[k].owner = store[k].owner
                /\ store'[k].value = store[k].value
  <2>1. store'[k] = Aged(store[k])
    BY <1>1
  <2>2. CASE store[k] = NoEntry
    BY <2>1, <2>2 DEF Aged
  <2>3. CASE store[k] # NoEntry
    <3>1. store[k] \in Entry /\ store[k].ttl \in Nat /\ store[k].ttl > 0
      BY <2>3 DEF TypeOK, Entry
    <3>2. CASE store[k].ttl = 1
      BY <3>2, <2>1 DEF Aged
    <3>3. CASE store[k].ttl > 1
      <4>1. store'[k] = [store[k] EXCEPT !.ttl = store[k].ttl - 1]
        BY <3>1, <3>3, <2>1, <2>3 DEF Aged
      <4>2. store[k].ttl - 1 \in Nat
        BY <3>1, <3>3
      <4>3. store'[k] \in Entry
        BY <4>1, <4>2, <3>1 DEF Entry
      <4> QED BY <4>1, <4>3, <3>1, <3>3, LockAssumption DEF Entry
    <3> QED BY <3>1, <3>2, <3>3
  <2> QED BY <2>2, <2>3
<1>4. store' \in [Keys -> Entry \cup {NoEntry}]
  BY <1>1, <1>3
<1>5. \A k \in Keys : store'[k] # NoEntry => store'[k].ttl > 0
  BY <1>3 DEF Entry
<1>6. lease' \in [Locks -> Nat]
  BY <1>1 DEF TypeOK
<1>7. EntryInv'
  <2> SUFFICES ASSUME NEW k \in Keys, store'[k] # NoEntry
               PROVE  /\ store'[k].value = value'[store'[k].owner]
                      /\ k \in ToSet(keys'[store'[k].owner])
    BY DEF EntryInv, Absent, KeysOf
  <2>1. store[k] \in Entry /\ store[k] # NoEntry
    BY <1>3, LockAssumption
  <2>2. store[k].owner \in Locks
    BY <2>1 DEF Entry
  <2>3. store'[k].owner = store[k].owner /\ store'[k].value = store[k].value
    BY <1>3
  <2>4. store[k].value = value[store[k].owner] /\ k \in KeysOf(store[k].owner)
    BY <2>1 DEF EntryInv, Absent
  <2>5. value' = value /\ keys' = keys
    BY DEF Tick, objVars
  <2> QED BY <2>3, <2>4, <2>5 DEF KeysOf
<1>8. LeaseInv'
  <2> SUFFICES ASSUME NEW m \in Locks, Sound(m), NEW k \in Keys
               PROVE  /\ (k \in Owned(m))' <=> (k \in KeysOf(m) /\ lease'[m] > 0)
                      /\ (k \in Owned(m))' => store'[k].ttl = lease'[m]
    BY <1>2 DEF LeaseInv
  <2>1. (k \in Owned(m))' <=> store'[k] # NoEntry /\ store'[k].owner = m
    BY DEF Owned, Absent
  <2>2. k \in Owned(m) <=> store[k] # NoEntry /\ store[k].owner = m
    BY DEF Owned, Absent
  <2>3. /\ k \in Owned(m) <=> (k \in KeysOf(m) /\ lease[m] > 0)
        /\ k \in Owned(m) => store[k].ttl = lease[m]
    BY DEF LeaseInv
  <2>4. lease[m] \in Nat /\ lease'[m] = IF lease[m] = 0 THEN 0 ELSE lease[m] - 1
    BY <1>1 DEF TypeOK
  <2>5. store[k] \in Entry => store[k] # NoEntry
    BY LockAssumption
  <2> QED BY <1>3, <2>1, <2>2, <2>3, <2>4, <2>5
<1> QED BY <1>4, <1>5, <1>6, <1>7, <1>8 DEF StoreOK

\* A step of a caller that runs no script: only its own bookkeeping changes,
\* and an abandoned unLock() makes an object unsound, never sound again.
LEMMA CallerStep ==
  ASSUME IndInv, UNCHANGED <<store, objVars, lease>>,
         \A m \in Locks : abandoned[m] => abandoned'[m]
  PROVE  StoreOK'
<1>1. \A m \in Locks : KeysOf(m)' = KeysOf(m) /\ (Sound(m)' => Sound(m))
  BY DEF KeysOf, Sound, objVars
<1>2. EntryInv'
  BY DEF IndInv, EntryInv, Absent, KeysOf, objVars
<1>3. LeaseInv'
  BY <1>1 DEF IndInv, LeaseInv, Owned, Absent
<1> QED BY <1>2, <1>3 DEF IndInv, StoreOK, TypeOK

\* The constructor gives keys to an object that owns nothing yet.
LEMMA BuildStep ==
  ASSUME IndInv, NEW l \in Locks, Build(l)
  PROVE  StoreOK' /\ keys' \in [Locks -> Seq(Keys)]
<1> USE DEF IndInv
<1>0. PICK ks \in KeyLists : \E order \in SetToSeqs(ToSet(ks)) :
                               keys' = [keys EXCEPT ![l] = order]
  BY DEF Build
<1>1. PICK order \in SetToSeqs(ToSet(ks)) : keys' = [keys EXCEPT ![l] = order]
  BY <1>0
<1>2. keys' \in [Locks -> Seq(Keys)]
  BY <1>1, OrderType DEF TypeOK
<1>3. /\ pc[l] = "new" /\ lease[l] = 0
      /\ store' = store /\ lease' = lease /\ value' = value /\ abandoned' = abandoned
  BY DEF Build, NewInv
<1>4. \A m \in Locks : /\ Sound(m)' <=> Sound(m)
                       /\ m # l => KeysOf(m)' = KeysOf(m)
                       /\ Owned(m)' = Owned(m)
  BY <1>1, <1>3 DEF KeysOf, Sound, Owned, Absent, TypeOK
<1>5. EntryInv'
  <2> SUFFICES ASSUME NEW k \in Keys, store[k] # NoEntry
               PROVE  /\ store[k].value = value[store[k].owner]
                      /\ k \in ToSet(keys'[store[k].owner])
    BY <1>3 DEF EntryInv, Absent, KeysOf
  <2>1. store[k].owner \in Locks
    BY DEF TypeOK, Entry
  <2>2. store[k].value = value[store[k].owner] /\ k \in KeysOf(store[k].owner)
    BY DEF EntryInv, Absent
  <2>3. store[k].owner # l
    BY <2>2, <1>3 DEF NewInv, KeysOf, ToSet
  <2>4. keys'[store[k].owner] = keys[store[k].owner]
    BY <1>1, <2>1, <2>3 DEF TypeOK
  <2> QED BY <2>2, <2>4 DEF KeysOf
<1>6. LeaseInv'
  <2> SUFFICES ASSUME NEW m \in Locks, Sound(m), NEW k \in Keys
               PROVE  /\ k \in Owned(m) <=> (k \in KeysOf(m)' /\ lease[m] > 0)
                      /\ k \in Owned(m) => store[k].ttl = lease[m]
    BY <1>3, <1>4 DEF LeaseInv
  <2>1. /\ k \in Owned(m) <=> (k \in KeysOf(m) /\ lease[m] > 0)
        /\ k \in Owned(m) => store[k].ttl = lease[m]
    BY DEF LeaseInv
  <2> QED BY <2>1, <1>3, <1>4
<1> QED BY <1>2, <1>3, <1>5, <1>6 DEF StoreOK, TypeOK

\* Every step of the callers, of Redis and of time keeps the invariant.
LEMMA InductiveStep == IndInv /\ [Next]_vars => IndInv'
<1> SUFFICES ASSUME IndInv, [Next]_vars PROVE IndInv'
  OBVIOUS
<1> DEFINE CallersOK == /\ pc \in [Locks -> PC]
                        /\ keys \in [Locks -> Seq(Keys)]
                        /\ value \in [Locks -> Stamps]
                        /\ timeout \in [Locks -> Timeouts]
                        /\ hasLock \in [Locks -> BOOLEAN]
                        /\ orphans \in [Locks -> SUBSET Script]
                        /\ abandoned \in [Locks -> BOOLEAN]
                        /\ NewInv
                        /\ AbandonInv
<1>0. CallersOK
  BY DEF IndInv, TypeOK
<1> SUFFICES StoreOK' /\ CallersOK'
  BY DEF IndInv, StoreOK, TypeOK
<1>1. ASSUME NEW l \in Locks, Build(l) PROVE StoreOK' /\ CallersOK'
  <2>1. StoreOK' /\ keys' \in [Locks -> Seq(Keys)]
    BY <1>1, BuildStep
  <2> QED BY <1>0, <1>1, <2>1 DEF Build, PC, NewInv, AbandonInv
<1>2. ASSUME NEW l \in Locks,
             Lock(l) \/ TryLock(l) \/ SetReturns(l) \/ SetThrows(l) \/ Wake(l) \/ Interrupt(l)
               \/ UnLock(l) \/ DeleteReturns(l) \/ DeleteThrows(l)
      PROVE  StoreOK' /\ CallersOK'
  <2>1. UNCHANGED <<store, objVars, lease>>
    BY <1>2 DEF Lock, TryLock, SetReturns, SetThrows, Wake, Interrupt, UnLock,
                DeleteReturns, DeleteThrows
  <2>2. /\ abandoned' \in [Locks -> BOOLEAN]
        /\ \A m \in Locks : abandoned[m] => abandoned'[m]
    BY <1>0, <1>2 DEF Lock, TryLock, SetReturns, SetThrows, Wake, Interrupt, UnLock,
                      DeleteReturns, DeleteThrows
  <2>3. StoreOK'
    BY <2>1, <2>2, CallerStep
  <2>4. /\ pc[l] # "new"
        /\ \E p \in PC \ {"new"} : pc' = [pc EXCEPT ![l] = p]
    BY <1>2 DEF PC, Lock, TryLock, SetReturns, SetThrows, Wake, Interrupt, UnLock,
                DeleteReturns, DeleteThrows
  <2>5. /\ hasLock' \in [Locks -> BOOLEAN]
        /\ orphans' \in [Locks -> SUBSET Script]
        /\ \A m \in Locks : m # l => orphans'[m] = orphans[m]
    <3>1. \/ hasLock' = hasLock
          \/ \E b \in BOOLEAN : hasLock' = [hasLock EXCEPT ![l] = b]
      BY <1>2 DEF Lock, TryLock, SetReturns, SetThrows, Wake, Interrupt, UnLock,
                  DeleteReturns, DeleteThrows
    <3>2. \/ orphans' = orphans
          \/ \E s \in Script : orphans' = [orphans EXCEPT ![l] = @ \cup {s}]
      BY <1>2 DEF Script, Lock, TryLock, SetReturns, SetThrows, Wake, Interrupt, UnLock,
                  DeleteReturns, DeleteThrows
    <3>3. hasLock' \in [Locks -> BOOLEAN]
      BY <1>0, <3>1
    <3>4. /\ orphans' \in [Locks -> SUBSET Script]
          /\ \A m \in Locks : m # l => orphans'[m] = orphans[m]
      BY <1>0, <3>2
    <3> QED BY <3>3, <3>4
  <2>6. /\ pc' \in [Locks -> PC]
        /\ \A m \in Locks : pc'[m] = "new" => m # l /\ pc[m] = "new"
    BY <1>0, <2>4
  <2>7. NewInv'
    BY <1>0, <2>1, <2>5, <2>6 DEF NewInv, objVars
  <2>8. AbandonInv'
    <3>1. \/ UNCHANGED <<orphans, abandoned>>
          \/ orphans' = [orphans EXCEPT ![l] = @ \cup {"set"}] /\ abandoned' = abandoned
          \/ /\ orphans' = [orphans EXCEPT ![l] = @ \cup {"delete"}]
             /\ abandoned' = [abandoned EXCEPT ![l] = TRUE]
      BY <1>2 DEF Lock, TryLock, SetReturns, SetThrows, Wake, Interrupt, UnLock,
                  DeleteReturns, DeleteThrows
    <3>2. CASE UNCHANGED <<orphans, abandoned>>
      BY <1>0, <3>2 DEF AbandonInv
    <3>3. CASE orphans' = [orphans EXCEPT ![l] = @ \cup {"set"}] /\ abandoned' = abandoned
      BY <1>0, <3>3 DEF AbandonInv
    <3>4. CASE /\ orphans' = [orphans EXCEPT ![l] = @ \cup {"delete"}]
               /\ abandoned' = [abandoned EXCEPT ![l] = TRUE]
      BY <1>0, <3>4 DEF AbandonInv
    <3> QED BY <3>1, <3>2, <3>3, <3>4
  <2> QED BY <1>0, <2>1, <2>2, <2>3, <2>5, <2>6, <2>7, <2>8 DEF objVars
<1>3. ASSUME NEW l \in Locks, SetRuns(l) PROVE StoreOK' /\ CallersOK'
  <2>1. RunSet(l) /\ UNCHANGED <<objVars, hasLock, orphans, abandoned>>
    BY <1>3 DEF SetRuns
  <2>2. StoreOK'
    BY <2>1, RunSetStep
  <2>3. /\ pc[l] # "new"
        /\ \E p \in PC \ {"new"} : pc' = [pc EXCEPT ![l] = p]
    BY <1>3 DEF SetRuns, PC
  <2>4. \A m \in Locks : m # l => lease'[m] = lease[m]
    BY <2>1 DEF RunSet, IndInv, TypeOK
  <2> QED BY <1>0, <2>1, <2>2, <2>3, <2>4 DEF NewInv, AbandonInv, objVars
<1>4. ASSUME NEW l \in Locks, DeleteRuns(l) PROVE StoreOK' /\ CallersOK'
  <2>1. RunDelete(l) /\ UNCHANGED <<objVars, hasLock, orphans, abandoned>>
    BY <1>4 DEF DeleteRuns
  <2>2. StoreOK'
    BY <2>1, RunDeleteStep
  <2>3. /\ pc[l] # "new"
        /\ \E p \in PC \ {"new"} : pc' = [pc EXCEPT ![l] = p]
    BY <1>4 DEF DeleteRuns, PC
  <2>4. \A m \in Locks : m # l => lease'[m] = lease[m]
    BY <2>1 DEF RunDelete, IndInv, TypeOK
  <2> QED BY <1>0, <2>1, <2>2, <2>3, <2>4 DEF NewInv, AbandonInv, objVars
<1>5. ASSUME NEW l \in Locks, OrphanRuns(l) PROVE StoreOK' /\ CallersOK'
  <2>1. PICK s \in orphans[l] : /\ orphans' = [orphans EXCEPT ![l] = @ \ {s}]
                                /\ RunSet(l) \/ RunDelete(l)
    BY <1>5 DEF OrphanRuns
  <2>2. UNCHANGED <<pc, objVars, hasLock, abandoned>>
    BY <1>5 DEF OrphanRuns
  <2>3. StoreOK'
    BY <2>1, <2>2, RunSetStep, RunDeleteStep
  <2>4. \A m \in Locks : m # l => lease'[m] = lease[m]
    BY <2>1 DEF RunSet, RunDelete, IndInv, TypeOK
  <2>5. pc[l] # "new"
    BY <1>0, <2>1 DEF NewInv
  <2> QED BY <1>0, <2>1, <2>2, <2>3, <2>4, <2>5 DEF NewInv, AbandonInv, objVars
<1>6. CASE Tick
  <2>1. StoreOK'
    BY <1>6, TickStep
  <2> QED BY <1>0, <1>6, <2>1 DEF Tick, NewInv, AbandonInv, objVars
<1>7. CASE UNCHANGED vars
  <2>1. StoreOK'
    BY <1>7, CallerStep DEF vars, objVars
  <2> QED BY <1>0, <1>7, <2>1 DEF vars, NewInv, AbandonInv
<1> QED BY <1>1, <1>2, <1>3, <1>4, <1>5, <1>6, <1>7 DEF Next

\* The invariant holds initially.
LEMMA InductiveInit == Init => IndInv
BY DEF Init, IndInv, TypeOK, EntryInv, LeaseInv, NewInv, AbandonInv, Owned, Absent, PC

\* The inductive invariant holds throughout.
THEOREM Inductive == Spec => []IndInv
BY InductiveInit, InductiveStep, PTL DEF Spec

\* Type correctness of the model of RedisLock.java and its Redis store.
THEOREM TypeCorrect == Spec => []TypeOK
<1>1. IndInv => TypeOK
  BY DEF IndInv
<1> QED BY <1>1, Inductive, PTL

\* Two sound lock objects that were told they have the lock, within their
\* time, share no key: for any number of objects, keys, stamps and timeouts.
THEOREM ExclusionHolds == Spec => []Exclusion
<1>1. IndInv => Exclusion
  <2> SUFFICES ASSUME IndInv, NEW l \in Locks, NEW m \in Locks, l # m,
                      Sound(l), InLease(l), Sound(m), InLease(m),
                      NEW k \in KeysOf(l), k \in KeysOf(m)
               PROVE  FALSE
    BY DEF Exclusion
  <2>1. k \in Keys
    BY KeysOfKeys DEF IndInv
  <2>2. k \in Owned(l) /\ k \in Owned(m)
    BY <2>1 DEF IndInv, LeaseInv, InLease
  <2> QED BY <2>2 DEF Owned
<1> QED BY <1>1, Inductive, PTL

\* A sound lock object has all its keys in Redis or none.
THEOREM AllOrNothingHolds == Spec => []AllOrNothing
<1>1. IndInv => AllOrNothing
  <2> SUFFICES ASSUME IndInv, NEW l \in Locks, Sound(l)
               PROVE  Owned(l) = {} \/ Owned(l) = KeysOf(l)
    BY DEF AllOrNothing
  <2>1. KeysOf(l) \subseteq Keys
    BY KeysOfKeys DEF IndInv
  <2>2. \A k \in Keys : k \in Owned(l) <=> (k \in KeysOf(l) /\ lease[l] > 0)
    BY DEF IndInv, LeaseInv
  <2>3. Owned(l) \subseteq Keys
    BY DEF Owned
  <2> QED BY <2>1, <2>2, <2>3
<1> QED BY <1>1, Inductive, PTL

\* A key of a sound lock object goes only by expiry or by the object's own
\* unLock(): no other object's script, on time or late, takes it.
THEOREM OnlyOwnerFreesHolds == Spec => OnlyOwnerFrees
<1>1. IndInv /\ [Next]_vars => [FreedByOwner]_vars
  <2> SUFFICES ASSUME IndInv, Next, NEW l \in Locks, NEW k \in Owned(l), Sound(l), k \notin Owned(l)'
               PROVE  (Tick /\ store[k].ttl = 1) \/ DeleteRuns(l)
    BY DEF FreedByOwner
  <2>1. /\ k \in Keys /\ store[k] # NoEntry /\ store[k].owner = l
        /\ store[k].value = value[l]
    BY DEF Owned, Absent, IndInv, EntryInv
  <2>2. store'[k] # store[k]
    BY <2>1 DEF Owned, Absent
  <2>3. ASSUME NEW m \in Locks, RunSet(m) PROVE FALSE
    <3>1. CASE SetSucceeds(m)
      <4>1. k \notin KeysOf(m)
        BY <3>1, <2>1, SetOkAbsent DEF IndInv, Absent
      <4> QED BY <4>1, <3>1, <2>1, <2>2, <2>3 DEF RunSet, SetIfAbsent
    <3>2. CASE ~SetSucceeds(m)
      BY <3>2, <2>2, <2>3, SetFailsUnchanged DEF RunSet, IndInv
    <3> QED BY <3>1, <3>2
  <2>4. ASSUME NEW m \in Locks, RunDelete(m) PROVE m = l
    <3>1. store[k].value = value[m]
      BY <2>1, <2>2, <2>4 DEF RunDelete, DeleteIfEqual
    <3> QED BY <3>1, <2>1 DEF Sound
  <2>5. CASE Tick
    <3>1. store'[k] = Aged(store[k])
      BY <2>1, <2>5 DEF Tick
    <3>2. store[k] \in Entry /\ store[k].ttl \in Nat /\ store[k].ttl > 0
      BY <2>1 DEF IndInv, TypeOK, Entry
    <3>3. CASE store[k].ttl > 1
      <4>1. store'[k] = [store[k] EXCEPT !.ttl = store[k].ttl - 1]
        BY <3>1, <3>2, <3>3, <2>1 DEF Aged
      <4>2. store'[k] \in Entry /\ store'[k].owner = l
        BY <4>1, <3>2, <3>3, <2>1 DEF Entry
      <4>3. store'[k] # NoEntry
        BY <4>2, LockAssumption
      <4> QED BY <4>2, <4>3, <2>1 DEF Owned, Absent
    <3> QED BY <3>2, <3>3, <2>5
  <2>6. ASSUME NEW m \in Locks, OrphanRuns(m) PROVE FALSE
    <3>1. "delete" \in orphans[m] /\ RunDelete(m)
      BY <2>6, <2>3 DEF OrphanRuns
    <3>2. m = l
      BY <3>1, <2>4
    <3> QED BY <3>1, <3>2 DEF IndInv, AbandonInv, Sound
  <2>7. ASSUME NEW m \in Locks, DeleteRuns(m) PROVE DeleteRuns(l)
    BY <2>7, <2>4 DEF DeleteRuns
  <2>8. ASSUME NEW m \in Locks, SetRuns(m) PROVE FALSE
    BY <2>8, <2>3 DEF SetRuns
  <2>9. ASSUME UNCHANGED store PROVE FALSE
    BY <2>2, <2>9
  <2> QED BY <2>5, <2>6, <2>7, <2>8, <2>9
          DEF Next, Build, Lock, TryLock, SetReturns, SetThrows, Wake, Interrupt, UnLock,
              DeleteReturns, DeleteThrows
<1> QED BY <1>1, Inductive, PTL DEF Spec, OnlyOwnerFrees
=============================================================================
