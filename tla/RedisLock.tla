----------------------------- MODULE RedisLock -----------------------------
(***************************************************************************)
(* The distributed lock of yz-framework-core: RedisLock.java on top of the *)
(* Lua scripts that StringRedisTemplateEX.java sends to Redis.             *)
(*                                                                         *)
(* A lock object is built over a list of keys and a value, the clock's     *)
(* milliseconds at construction (a "stamp" here).  To acquire it, Redis    *)
(* sets all its keys with SET PX NX in one script; to release it, Redis    *)
(* deletes the keys that still hold the object's value.  Redis executes a  *)
(* script atomically, but the call is remote: the script runs some time    *)
(* after it is sent, its reply arrives some time after that, and either    *)
(* may be lost.  A request whose caller gave up may still run, late.       *)
(***************************************************************************)
EXTENDS Naturals, Sequences, FiniteSets, SequencesExt

CONSTANTS
  Locks,     \* the RedisLock objects of all the processes
  Keys,      \* the Redis keys they are about
  KeyLists,  \* the lists of keys a lock object may be built over
  Stamps,    \* the values System.currentTimeMillis() may return
  Timeouts,  \* the expiry times a lock object may be built with, in ticks
  MaxOrphans, \* bound: abandoned scripts in the network at the same time
  NoEntry    \* what Redis answers for a key that is absent

Entry == [value : Stamps, ttl : Nat, owner : Locks]

ASSUME LockAssumption ==
  /\ KeyLists \subseteq Seq(Keys) \ {<<>>}
  /\ Timeouts \subseteq Nat \ {0}
  /\ MaxOrphans \in Nat
  /\ NoEntry \notin Entry

VARIABLES
  store,     \* Redis: the entry of each key; its "owner" is auxiliary
  pc,        \* what the thread that uses the lock object is doing
  keys,      \* RedisLock.keys
  value,     \* RedisLock.value
  timeout,   \* RedisLock.timeout
  hasLock,   \* RedisLock.hasLock
  orphans,   \* the scripts sent for the object whose caller gave up
  lease,     \* auxiliary: ticks left of the object's last acquisition
  abandoned  \* auxiliary: an unLock() of the object gave up on its script

vars == <<store, pc, keys, value, timeout, hasLock, orphans, lease, abandoned>>
objVars == <<keys, value, timeout>>

Script == {"set", "delete"}

\* "new": not built; "idle": no call in progress; "sleep": lock() between two
\* attempts; the others name a call in progress and how far it is: the script
\* is sent, or it has run with that result and the reply is on its way.
PC == {"new", "idle", "sleep", "lock_sent", "lock_nil", "try_sent", "try_nil",
       "set_ok", "delete_sent", "delete_done"}

TypeOK ==
  /\ store \in [Keys -> Entry \cup {NoEntry}]
  /\ \A k \in Keys : store[k] # NoEntry => store[k].ttl > 0
  /\ pc \in [Locks -> PC]
  /\ keys \in [Locks -> Seq(Keys)]
  /\ value \in [Locks -> Stamps]
  /\ timeout \in [Locks -> Timeouts]
  /\ hasLock \in [Locks -> BOOLEAN]
  /\ orphans \in [Locks -> SUBSET Script]
  /\ lease \in [Locks -> Nat]
  /\ abandoned \in [Locks -> BOOLEAN]

-----------------------------------------------------------------------------
(* Redis and the scripts *)

Absent(k) == store[k] = NoEntry

KeysOf(l) == ToSet(keys[l])

\* The positions multi_set_if_absent.lua gets past: SET NX succeeds on each
\* key up to there.  A key that occurs twice is taken the second time.
Prefix(l) ==
  {i \in DOMAIN keys[l] :
     \A j \in 1..i : /\ Absent(keys[l][j])
                     /\ \A m \in 1..(j - 1) : keys[l][m] # keys[l][j]}

\* Mutant: SET without NX.
MutSetWithoutNX(l) == TRUE

\* The script reaches its last key and answers 'OK'.  The one-key script
\* (SET PX NX) is the case of a list of length one.
SetSucceeds(l) == Prefix(l) = DOMAIN keys[l]

\* Mutant: no rollback of the keys set so far.
MutNoRollback(l) ==
  LET set == IF SetSucceeds(l) THEN KeysOf(l) ELSE {keys[l][i] : i \in Prefix(l)}
  IN  [k \in Keys |-> IF k \in set
                      THEN [value |-> value[l], ttl |-> timeout[l], owner |-> l]
                      ELSE store[k]]

\* Mutant: the rollback deletes the whole list.
MutRollbackAll(l) ==
  [k \in Keys |-> IF k \notin KeysOf(l) THEN store[k]
                  ELSE IF SetSucceeds(l)
                  THEN [value |-> value[l], ttl |-> timeout[l], owner |-> l]
                  ELSE NoEntry]

\* Mutant: SET without PX: the keys never expire.
MutNoExpiry(l) ==
  [k \in Keys |-> IF SetSucceeds(l) /\ k \in KeysOf(l)
                  THEN [value |-> value[l], ttl |-> 0, owner |-> l]
                  ELSE store[k]]

\* Redis after setIfAbsent: every key set, or those set so far deleted again.
SetIfAbsent(l) ==
  IF SetSucceeds(l)
  THEN [k \in Keys |-> IF k \in KeysOf(l)
                       THEN [value |-> value[l], ttl |-> timeout[l], owner |-> l]
                       ELSE store[k]]
  ELSE [k \in Keys |-> IF k \in {keys[l][i] : i \in Prefix(l)}
                       THEN NoEntry
                       ELSE store[k]]

\* Mutant: DEL without comparing the value.
MutDeleteAlways(l) == [k \in Keys |-> IF k \in KeysOf(l) THEN NoEntry ELSE store[k]]

\* Redis after deleteIfEqual: the scripts compare values, not owners.
DeleteIfEqual(l) ==
  [k \in Keys |-> IF k \in KeysOf(l) /\ ~Absent(k) /\ store[k].value = value[l]
                  THEN NoEntry
                  ELSE store[k]]

\* A set script runs for l, wherever its caller is.
RunSet(l) ==
  /\ store' = SetIfAbsent(l)
  /\ lease' = IF SetSucceeds(l) THEN [lease EXCEPT ![l] = timeout[l]] ELSE lease

\* A delete script runs for l, wherever its caller is.
RunDelete(l) ==
  /\ store' = DeleteIfEqual(l)
  /\ lease' = [lease EXCEPT ![l] = 0]

-----------------------------------------------------------------------------
(* The lock objects *)

Init ==
  /\ store = [k \in Keys |-> NoEntry]
  /\ pc = [l \in Locks |-> "new"]
  /\ keys = [l \in Locks |-> <<>>]
  /\ value \in [Locks -> Stamps]
  /\ timeout \in [Locks -> Timeouts]
  /\ hasLock = [l \in Locks |-> FALSE]
  /\ orphans = [l \in Locks |-> {}]
  /\ lease = [l \in Locks |-> 0]
  /\ abandoned = [l \in Locks |-> FALSE]

\* Mutant: the list of keys is taken as it is.
MutBuildKeepsDuplicates(l) ==
  /\ pc[l] = "new"
  /\ \E ks \in KeyLists : keys' = [keys EXCEPT ![l] = ks]
  /\ pc' = [pc EXCEPT ![l] = "idle"]
  /\ UNCHANGED <<store, value, timeout, hasLock, orphans, lease, abandoned>>

\* The constructors.  A HashSet removes duplicate keys and orders the others
\* as it likes; value and timeout were chosen in Init.
Build(l) ==
  /\ pc[l] = "new"
  /\ \E ks \in KeyLists : \E order \in SetToSeqs(ToSet(ks)) :
       keys' = [keys EXCEPT ![l] = order]
  /\ pc' = [pc EXCEPT ![l] = "idle"]
  /\ UNCHANGED <<store, value, timeout, hasLock, orphans, lease, abandoned>>

\* lock() and tryLock() call acquireLock(), which sends the set script.
Lock(l) ==
  /\ pc[l] = "idle"
  /\ pc' = [pc EXCEPT ![l] = "lock_sent"]
  /\ UNCHANGED <<store, objVars, hasLock, orphans, lease, abandoned>>

TryLock(l) ==
  /\ pc[l] = "idle"
  /\ pc' = [pc EXCEPT ![l] = "try_sent"]
  /\ UNCHANGED <<store, objVars, hasLock, orphans, lease, abandoned>>

\* Redis runs the set script of a caller that is waiting for it.
SetRuns(l) ==
  /\ \/ /\ pc[l] = "lock_sent"
        /\ pc' = [pc EXCEPT ![l] = IF SetSucceeds(l) THEN "set_ok" ELSE "lock_nil"]
     \/ /\ pc[l] = "try_sent"
        /\ pc' = [pc EXCEPT ![l] = IF SetSucceeds(l) THEN "set_ok" ELSE "try_nil"]
  /\ RunSet(l)
  /\ UNCHANGED <<objVars, hasLock, orphans, abandoned>>

\* acquireLock() assigns hasLock from the reply; lock() sleeps and retries.
SetReturns(l) ==
  /\ \/ /\ pc[l] = "set_ok"
        /\ hasLock' = [hasLock EXCEPT ![l] = TRUE]
        /\ pc' = [pc EXCEPT ![l] = "idle"]
     \/ /\ pc[l] \in {"lock_nil", "try_nil"}
        /\ hasLock' = [hasLock EXCEPT ![l] = FALSE]
        /\ pc' = [pc EXCEPT ![l] = IF pc[l] = "lock_nil" THEN "sleep" ELSE "idle"]
  /\ UNCHANGED <<store, objVars, orphans, lease, abandoned>>

\* Room for one more abandoned script.
OrphanFits == Cardinality({p \in Locks \X Script : p[2] \in orphans[p[1]]}) < MaxOrphans

\* The Redis call throws: out of lock() or tryLock(), with hasLock as it was.
\* The script has run, or is lost, or stays behind to run later.
SetThrows(l) ==
  /\ pc[l] \in {"lock_sent", "lock_nil", "try_sent", "try_nil", "set_ok"}
  /\ pc' = [pc EXCEPT ![l] = "idle"]
  /\ \/ UNCHANGED orphans
     \/ /\ pc[l] \in {"lock_sent", "try_sent"}
        /\ OrphanFits
        /\ orphans' = [orphans EXCEPT ![l] = @ \cup {"set"}]
  /\ UNCHANGED <<store, objVars, hasLock, lease, abandoned>>

\* Thread.sleep ends: the loop of lock() tries again.
Wake(l) ==
  /\ pc[l] = "sleep"
  /\ pc' = [pc EXCEPT ![l] = "lock_sent"]
  /\ UNCHANGED <<store, objVars, hasLock, orphans, lease, abandoned>>

\* Thread.sleep throws InterruptedException: lock() returns false.
Interrupt(l) ==
  /\ pc[l] = "sleep"
  /\ pc' = [pc EXCEPT ![l] = "idle"]
  /\ hasLock' = [hasLock EXCEPT ![l] = FALSE]
  /\ UNCHANGED <<store, objVars, orphans, lease, abandoned>>

\* unLock() does nothing unless hasLock.
UnLock(l) ==
  /\ pc[l] = "idle"
  /\ hasLock[l]
  /\ pc' = [pc EXCEPT ![l] = "delete_sent"]
  /\ UNCHANGED <<store, objVars, hasLock, orphans, lease, abandoned>>

DeleteRuns(l) ==
  /\ pc[l] = "delete_sent"
  /\ pc' = [pc EXCEPT ![l] = "delete_done"]
  /\ RunDelete(l)
  /\ UNCHANGED <<objVars, hasLock, orphans, abandoned>>

\* deleteIfEqual() returns: whatever it says, hasLock is cleared.
DeleteReturns(l) ==
  /\ pc[l] = "delete_done"
  /\ pc' = [pc EXCEPT ![l] = "idle"]
  /\ hasLock' = [hasLock EXCEPT ![l] = FALSE]
  /\ UNCHANGED <<store, objVars, orphans, lease, abandoned>>

\* deleteIfEqual() throws: unLock() prints the exception and keeps hasLock.
DeleteThrows(l) ==
  /\ pc[l] \in {"delete_sent", "delete_done"}
  /\ pc' = [pc EXCEPT ![l] = "idle"]
  /\ \/ UNCHANGED <<orphans, abandoned>>
     \/ /\ pc[l] = "delete_sent"
        /\ OrphanFits
        /\ orphans' = [orphans EXCEPT ![l] = @ \cup {"delete"}]
        /\ abandoned' = [abandoned EXCEPT ![l] = TRUE]
  /\ UNCHANGED <<store, objVars, hasLock, lease>>

\* A script whose caller gave up runs after all.
OrphanRuns(l) ==
  /\ \E s \in orphans[l] :
       /\ orphans' = [orphans EXCEPT ![l] = @ \ {s}]
       /\ \/ s = "set" /\ RunSet(l)
          \/ s = "delete" /\ RunDelete(l)
  /\ UNCHANGED <<pc, objVars, hasLock, abandoned>>

\* Time passes; Redis removes the keys whose PX time is over.
Aged(e) == IF e = NoEntry \/ e.ttl <= 1 THEN NoEntry ELSE [e EXCEPT !.ttl = @ - 1]

Tick ==
  /\ \E k \in Keys : ~Absent(k)
  /\ store' = [k \in Keys |-> Aged(store[k])]
  /\ lease' = [l \in Locks |-> IF lease[l] = 0 THEN 0 ELSE lease[l] - 1]
  /\ UNCHANGED <<pc, objVars, hasLock, orphans, abandoned>>

Next ==
  \/ \E l \in Locks :
       \/ Build(l) \/ Lock(l) \/ TryLock(l) \/ SetRuns(l) \/ SetReturns(l)
       \/ SetThrows(l) \/ Wake(l) \/ Interrupt(l) \/ UnLock(l) \/ DeleteRuns(l)
       \/ DeleteReturns(l) \/ DeleteThrows(l) \/ OrphanRuns(l)
  \/ Tick

Spec == Init /\ [][Next]_vars

\* Time passes, Redis runs what it is sent and answers, sleeping threads wake:
\* no caller has to call, and no call has to fail.
Fairness ==
  /\ WF_vars(Tick)
  /\ \A l \in Locks : /\ WF_vars(SetRuns(l))
                      /\ WF_vars(SetReturns(l))
                      /\ WF_vars(Wake(l))
FairSpec == Spec /\ Fairness

-----------------------------------------------------------------------------
(* Properties *)

\* What the mechanism needs of its environment, object by object: no other
\* object was built in the same millisecond, and no unLock() of this object
\* left its delete script behind in the network.
Sound(l) ==
  /\ ~abandoned[l]
  /\ \A m \in Locks \ {l} : value[m] # value[l]

Owned(l) == {k \in Keys : ~Absent(k) /\ store[k].owner = l}

\* l was told that it has the lock, and its time is not over.
InLease(l) == hasLock[l] /\ lease[l] > 0

\* Two sound lock objects that were both told that they have the lock, and
\* whose times are not over, share no key: whatever expired holders unlock
\* late, whichever calls throw after their script ran (RedisLock.lock/unLock).
Exclusion ==
  \A l, m \in Locks :
    /\ l # m
    /\ Sound(l) /\ InLease(l)
    /\ Sound(m) /\ InLease(m)
    => KeysOf(l) \cap KeysOf(m) = {}

\* A sound lock object has all its keys in Redis or none of them: a failed
\* multi_set_if_absent leaves no key behind, and neither an unlock nor the
\* expiry nor another object's unlock takes some of them only.
AllOrNothing ==
  \A l \in Locks : Sound(l) => Owned(l) \in {{}, KeysOf(l)}

FreedByOwner ==
  \A l \in Locks : \A k \in Owned(l) :
    Sound(l) /\ k \notin Owned(l)' => (Tick /\ store[k].ttl = 1) \/ DeleteRuns(l)

\* A key of a sound lock object leaves Redis, or changes owner, only because
\* its time is over or because Redis runs that object's own delete script for
\* a waiting unLock(): deleteIfEqual never takes a key that expired and was
\* set again by another object, and no failed set script takes a key.
OnlyOwnerFrees == [][FreedByOwner]_vars

\* No key stays taken for ever, whoever crashed, threw or lost its reply: the
\* PX time of SET is never renewed, so every key is free again and again.
KeysComeFree == \A k \in Keys : []<>Absent(k)

\* The threads of other objects leave l's keys alone.
Undisturbed(l) == \A k \in KeysOf(l) : Absent(k) \/ store[k].owner = l

Spinning(l) == pc[l] \in {"lock_sent", "lock_nil", "sleep"}

\* lock() does not spin for ever unless others take its keys again and again:
\* not on the keys its own object left in Redis (a second lock(), a lost
\* reply), and not on a list of keys that names one twice.
LockReturns ==
  \A l \in Locks : []<>~Spinning(l) \/ []<>~Undisturbed(l)
=============================================================================
