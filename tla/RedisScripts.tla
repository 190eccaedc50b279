---------------------------- MODULE RedisScripts ----------------------------
(***************************************************************************)
(* The counting scripts of StringRedisTemplateEX: stock_decrease.lua and   *)
(* coupon_stock_decrease.lua on one stock, rate_limiting.lua on one key,   *)
(* and the compare-and-set of a hash field.  Redis runs a script as one    *)
(* step and removes keys whose time is over between scripts.               *)
(***************************************************************************)
EXTENDS Integers, FiniteSets

CONSTANTS
  People,    \* the users that draw coupons
  Limit,     \* perPersonLimit of the coupon
  Amounts,   \* the increments callers ask for
  StockTTL,  \* seconds, in ticks, that a user's remaining count is kept
  RateLimit, \* ARGV[2] of rate_limiting.lua
  RateTTL,   \* ARGV[1] of rate_limiting.lua
  Writers,   \* the callers of hUpdateIfEqual
  MaxStock,  \* bound: units ever put into the stock
  MaxTimes,  \* bound: the limiter's counter stays there, beyond the limit
  MaxField,  \* bound: value of the hash field
  NoKey      \* the answer of GET for a key that is absent

ASSUME ScriptsAssumption ==
  /\ Limit \in Nat \ {0}
  /\ Amounts \subseteq Nat \ {0}
  /\ StockTTL \in Nat \ {0} /\ RateTTL \in Nat \ {0}
  /\ RateLimit \in Nat
  /\ MaxStock \in Nat /\ MaxField \in Nat
  /\ MaxTimes \in Nat /\ MaxTimes > RateLimit
  /\ NoKey \notin Int

VARIABLES
  stock,      \* KEYS[1] of both stock scripts
  remaining,  \* KEYS[2] of the coupon script, for each user
  life,       \* ticks until that key expires; 0 if it is absent
  answer,     \* what the last stock script answered, "" before it
  times,      \* KEYS[1] of the rate limiter
  window,     \* ticks until that key expires
  admitted,   \* auxiliary: the calls admitted since the window began
  field,      \* the hash field
  seen,       \* what each writer read of it last; external: HGET
  updates,    \* auxiliary: updates that were answered 'OK'
  filled,     \* auxiliary: units ever put into the stock
  granted,    \* auxiliary: units taken out of it
  got         \* auxiliary: units a user drew since the key was set

stockVars == <<stock, remaining, life, answer, filled, granted, got>>
rateVars == <<times, window, admitted>>
hashVars == <<field, seen, updates>>
vars == <<stockVars, rateVars, hashVars>>

Count == Nat \cup {NoKey}

TypeOK ==
  /\ stock \in Count
  /\ remaining \in [People -> Count]
  /\ life \in [People -> Nat]
  /\ \A p \in People : life[p] = 0 <=> remaining[p] = NoKey
  /\ answer \in {"", "OK", "NO", "LIMIT", "NOKEY", "null"}
  /\ times \in Nat
  /\ window \in Nat
  /\ window = 0 <=> times = 0
  /\ admitted \in Nat
  /\ field \in Nat /\ updates \in Nat
  /\ seen \in [Writers -> Nat]
  /\ filled \in Nat /\ granted \in Nat
  /\ got \in [People -> Nat]

Init ==
  /\ stock = NoKey
  /\ remaining = [p \in People |-> NoKey]
  /\ life = [p \in People |-> 0]
  /\ answer = ""
  /\ times = 0 /\ window = 0 /\ admitted = 0
  /\ field = 0 /\ updates = 0
  /\ seen = [w \in Writers |-> 0]
  /\ filled = 0 /\ granted = 0
  /\ got = [p \in People |-> 0]

-----------------------------------------------------------------------------
(* Stock and coupons *)

\* Mutant: any stock will do.
MutAnyStock(n) == stock # NoKey /\ stock > 0

\* Enough stock: it is there, it is not zero, and n leaves none missing.
Enough(n) == stock # NoKey /\ stock > 0 /\ stock - n >= 0

\* The business sets the stock key, or adds to it; external.
PutStock ==
  \E n \in 1..(MaxStock - filled) :
    /\ stock' = IF stock = NoKey THEN n ELSE stock + n
    /\ filled' = filled + n
    /\ UNCHANGED <<remaining, life, answer, granted, got>>

Decrease(n) ==
  /\ stock' = stock - n
  /\ granted' = granted + n

Refuse(why) ==
  /\ answer' = why
  /\ UNCHANGED <<stock, remaining, life, granted, got>>

\* atomicDecrease(): stock_decrease.lua.
AtomicDecrease(n) ==
  /\ \/ /\ Enough(n)
        /\ Decrease(n)
        /\ answer' = "OK"
        /\ UNCHANGED <<remaining, life, got>>
     \/ stock # NoKey /\ ~Enough(n) /\ Refuse("NO")
     \/ stock = NoKey /\ Refuse("NOKEY")
  /\ UNCHANGED filled

\* Mutant: the first coupon of a user is not counted.
MutFirstIsFree(p, n) == Limit

\* What a user may still draw after drawing n for the first time.
FirstRemaining(p, n) == Limit - n

\* Mutant: only an exhausted user is refused.
MutAnyRemaining(p, n) == remaining[p] > 0

\* The user's key lets him draw n.
Allowed(p, n) == remaining[p] > 0 /\ remaining[p] - n >= 0

\* coupon_stock_decrease.lua for a user with a key, and for one without.
DrawAgain(p, n) ==
  /\ remaining[p] # NoKey
  /\ Allowed(p, n)
  /\ Enough(n)
  /\ Decrease(n)
  /\ remaining' = [remaining EXCEPT ![p] = @ - n]
  /\ got' = [got EXCEPT ![p] = @ + n]
  /\ answer' = "OK"
  /\ UNCHANGED life

DrawFirst(p, n) ==
  /\ remaining[p] = NoKey
  /\ Enough(n)
  /\ Decrease(n)
  /\ remaining' = [remaining EXCEPT ![p] = FirstRemaining(p, n)]
  /\ life' = [life EXCEPT ![p] = StockTTL]
  /\ got' = [got EXCEPT ![p] = n]
  /\ answer' = "OK"

\* Mutant: the stock is taken before the user's count is looked at.
MutStockFirst(p, n) ==
  /\ remaining[p] # NoKey /\ ~Allowed(p, n)
  /\ Enough(n)
  /\ stock' = stock - n
  /\ answer' = "LIMIT"
  /\ UNCHANGED <<remaining, life, granted, got>>

\* The user's count comes first: a user at his limit is told so even when
\* the stock is gone.
DrawLimited(p, n) ==
  /\ stock # NoKey
  /\ remaining[p] # NoKey /\ ~Allowed(p, n)
  /\ Refuse("LIMIT")

DrawNone(p, n) ==
  /\ stock # NoKey /\ ~Enough(n)
  /\ remaining[p] # NoKey => Allowed(p, n)
  /\ Refuse("NO")

\* atomicDecreaseForCoupon(), which refuses more than the limit itself.
AtomicDecreaseForCoupon(p, n) ==
  /\ IF n > Limit THEN Refuse("null")
     ELSE \/ DrawAgain(p, n)
          \/ DrawFirst(p, n)
          \/ DrawLimited(p, n)
          \/ DrawNone(p, n)
          \/ stock = NoKey /\ Refuse("NOKEY")
  /\ UNCHANGED filled

-----------------------------------------------------------------------------
(* Rate limiting *)

\* Mutant: every call starts the time again.
MutExpireAlways == RateTTL

\* Only the call that creates the key gives it a time to live.
Expiry == IF times = 0 THEN RateTTL ELSE window

\* Mutant: one call too many.
MutAdmitsOneMore(n) == n <= RateLimit + 1

Admits(n) == ~(n > RateLimit)

\* rate_limiting.lua: the call counts, whether it is admitted or not.
RateLimiting ==
  /\ times' = IF times < MaxTimes THEN times + 1 ELSE times
  /\ window' = Expiry
  /\ admitted' = IF Admits(times') THEN admitted + 1 ELSE admitted

-----------------------------------------------------------------------------
(* hUpdateIfEqual *)

Read(w) ==
  /\ seen' = [seen EXCEPT ![w] = field]
  /\ UNCHANGED <<field, updates>>

\* Mutant: HSET without comparing.
MutUpdateAlways(w) ==
  /\ field < MaxField
  /\ seen[w] < MaxField
  /\ field' = seen[w] + 1
  /\ updates' = updates + 1
  /\ UNCHANGED seen

\* A writer that wants to add one to what it read; the update that finds
\* another value changes nothing.
HUpdateIfEqual(w) ==
  /\ field < MaxField
  /\ field = seen[w]
  /\ field' = seen[w] + 1
  /\ updates' = updates + 1
  /\ UNCHANGED seen

-----------------------------------------------------------------------------
\* A tick: keys whose time is over disappear.
Tick ==
  /\ window > 0 \/ \E p \in People : life[p] > 0
  /\ life' = [p \in People |-> IF life[p] > 0 THEN life[p] - 1 ELSE 0]
  /\ remaining' = [p \in People |-> IF life[p] = 1 THEN NoKey ELSE remaining[p]]
  /\ got' = [p \in People |-> IF life[p] = 1 THEN 0 ELSE got[p]]
  /\ window' = IF window > 0 THEN window - 1 ELSE 0
  /\ times' = IF window = 1 THEN 0 ELSE times
  /\ admitted' = IF window = 1 THEN 0 ELSE admitted
  /\ UNCHANGED <<stock, answer, filled, granted, hashVars>>

Next ==
  \/ PutStock /\ UNCHANGED <<rateVars, hashVars>>
  \/ \E n \in Amounts :
       /\ AtomicDecrease(n) \/ \E p \in People : AtomicDecreaseForCoupon(p, n)
       /\ UNCHANGED <<rateVars, hashVars>>
  \/ RateLimiting /\ UNCHANGED <<stockVars, hashVars>>
  \/ \E w \in Writers : Read(w) /\ UNCHANGED <<stockVars, rateVars>>
  \/ \E w \in Writers : HUpdateIfEqual(w) /\ UNCHANGED <<stockVars, rateVars>>
  \/ Tick

Spec == Init /\ [][Next]_vars

\* Time passes; nobody has to call.
FairSpec == Spec /\ WF_vars(Tick)

-----------------------------------------------------------------------------
(* Properties *)

\* Whatever is drawn, sold, refused and expires in whatever order, the units
\* put in are those taken out and those left: no script takes units it does
\* not answer for, none takes more than there are.
Conserved ==
  filled = granted + (IF stock = NoKey THEN 0 ELSE stock)

\* A user's key and what he drew while it lives make up the limit, and no
\* user draws more: also when the stock runs out between two draws.
WithinLimit ==
  \A p \in People :
    /\ got[p] <= Limit
    /\ remaining[p] # NoKey => got[p] + remaining[p] = Limit

\* Between two expiries of its key the rate limiter admits exactly the first
\* calls, up to the limit.
RateExact ==
  admitted = IF times <= RateLimit THEN times ELSE RateLimit

\* However often it is called, the limiter's key expires again and again: the
\* refused calls do not keep the window open.
RateRenews == []<>(times = 0)

\* No update is lost: the field has counted every update that was answered
\* 'OK', although all writers compute their value from an earlier read.
NoLostUpdate == field = updates

Abstract == INSTANCE Allotment WITH
  Quota <- Limit,
  left <- IF stock = NoKey THEN 0 ELSE stock,
  got <- got

\* The scripts implement the allotment: one stock, one quota for each user
\* until his key expires (atomicDecrease, atomicDecreaseForCoupon).
ImplementsAllotment == Abstract!Spec
=============================================================================
