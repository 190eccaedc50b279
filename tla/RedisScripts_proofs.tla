------------------------ MODULE RedisScripts_proofs ------------------------
(***************************************************************************)
(* The counting scripts keep their invariants and implement the allotment, *)
(* for any users, limits, amounts and times to live.                       *)
(***************************************************************************)
EXTENDS RedisScripts, TLAPS

\* A user without a key has drawn nothing that still counts.
FreshUser == \A p \in People : remaining[p] = NoKey => got[p] = 0

IndInv == TypeOK /\ Conserved /\ WithinLimit /\ FreshUser /\ RateExact /\ NoLostUpdate

\* The parts of IndInv, by the variables they are about.
StockInv ==
  /\ stock \in Count
  /\ remaining \in [People -> Count]
  /\ life \in [People -> Nat]
  /\ \A p \in People : life[p] = 0 <=> remaining[p] = NoKey
  /\ answer \in {"", "OK", "NO", "LIMIT", "NOKEY", "null"}
  /\ filled \in Nat /\ granted \in Nat
  /\ got \in [People -> Nat]
  /\ Conserved /\ WithinLimit /\ FreshUser

RateInv ==
  /\ times \in Nat
  /\ window \in Nat
  /\ window = 0 <=> times = 0
  /\ admitted \in Nat
  /\ RateExact

HashInv ==
  /\ field \in Nat /\ updates \in Nat
  /\ seen \in [Writers -> Nat]
  /\ NoLostUpdate

LEMMA Parts == IndInv <=> StockInv /\ RateInv /\ HashInv
  BY DEF IndInv, StockInv, RateInv, HashInv, TypeOK

LEMMA PartsPrime == IndInv' <=> StockInv' /\ RateInv' /\ HashInv'
  BY DEF IndInv, StockInv, RateInv, HashInv, TypeOK

\* Without the stock key everything that was put in has been taken.
LEMMA NoStock == stock = NoKey => (Conserved <=> filled = granted + 0)
  BY Zenon DEF Conserved

LEMMA InitInv == Init => IndInv
<1> SUFFICES ASSUME Init PROVE StockInv /\ RateInv /\ HashInv
  BY Parts
<1>0. Limit \in Nat /\ RateLimit \in Nat
  BY ScriptsAssumption
<1>1. StockInv
  <2>1. remaining \in [People -> Count] /\ life \in [People -> Nat] /\ got \in [People -> Nat]
    BY DEF Init, Count
  <2>2. \A p \in People : life[p] = 0 /\ remaining[p] = NoKey /\ got[p] = 0
    BY DEF Init
  <2>3. WithinLimit /\ FreshUser
    BY <1>0, <2>2 DEF WithinLimit, FreshUser
  <2>4. Conserved
    <3>1. filled = 0 /\ granted = 0 /\ stock = NoKey
      BY DEF Init
    <3> QED BY <3>1, NoStock
  <2> QED BY <2>1, <2>2, <2>3, <2>4 DEF Init, StockInv, Count
<1>2. RateInv
  <2>1. RateExact
    <3>1. times = 0 /\ admitted = 0
      BY DEF Init
    <3> QED BY <1>0, <3>1 DEF RateExact
  <2> QED BY <2>1 DEF Init, RateInv
<1>3. HashInv
  BY DEF Init, HashInv, NoLostUpdate
<1> QED BY <1>1, <1>2, <1>3

-----------------------------------------------------------------------------
(* Each part is kept by a step on its variables, and by one on others. *)

LEMMA StockStays == StockInv /\ UNCHANGED stockVars => StockInv'
  BY DEF StockInv, stockVars, Count, Conserved, WithinLimit, FreshUser

LEMMA RateStays == RateInv /\ UNCHANGED rateVars => RateInv'
  BY DEF RateInv, rateVars, RateExact

LEMMA HashStays == HashInv /\ UNCHANGED hashVars => HashInv'
  BY DEF HashInv, hashVars, NoLostUpdate

LEMMA RefuseKeeps ==
  ASSUME StockInv, NEW why \in {"NO", "LIMIT", "NOKEY", "null"},
         Refuse(why), filled' = filled
  PROVE  StockInv'
  BY DEF StockInv, Refuse, Count, Conserved, WithinLimit, FreshUser

\* A script that finds enough stock leaves a count that is not negative.
LEMMA DecreaseKeeps ==
  ASSUME StockInv, NEW n \in Amounts, Enough(n), Decrease(n), filled' = filled
  PROVE  /\ stock \in Nat /\ n \in Nat \ {0} /\ n <= stock
         /\ stock' = stock - n /\ stock' \in Nat /\ stock' # NoKey
         /\ granted' \in Nat
         /\ Conserved'
<1>0. n \in Nat \ {0} /\ stock \in Nat /\ granted \in Nat /\ filled \in Nat
  BY ScriptsAssumption DEF StockInv, Enough, Count
<1>1. stock \in Nat /\ n \in Nat \ {0} /\ n <= stock
  BY <1>0 DEF Enough
<1>2. stock' = stock - n /\ stock' \in Nat /\ granted' = granted + n /\ granted' \in Nat
  BY <1>0, <1>1 DEF Decrease
<1>3. stock # NoKey /\ stock' # NoKey
  BY <1>1, <1>2, ScriptsAssumption
<1>4. filled = granted + stock
  BY <1>3 DEF StockInv, Conserved
<1>5. filled' = granted' + stock'
  BY <1>0, <1>1, <1>2, <1>4
<1> QED BY <1>1, <1>2, <1>3, <1>5 DEF Conserved

LEMMA PutStockKeeps == StockInv /\ PutStock => StockInv'
<1> SUFFICES ASSUME StockInv, PutStock PROVE StockInv'
  OBVIOUS
<1> PICK n \in 1..(MaxStock - filled) :
       /\ stock' = IF stock = NoKey THEN n ELSE stock + n
       /\ filled' = filled + n
       /\ UNCHANGED <<remaining, life, answer, granted, got>>
  BY DEF PutStock
<1>0. filled \in Nat /\ granted \in Nat /\ stock \in Count /\ MaxStock \in Nat /\ NoKey \notin Int
  BY ScriptsAssumption DEF StockInv
<1>1. n \in Nat \ {0}
  BY <1>0
<1>2. CASE stock = NoKey
  <2>1. filled = granted
    <3>1. filled = granted + 0
      BY <1>2, NoStock DEF StockInv
    <3> QED BY <1>0, <3>1
  <2>2. stock' = n /\ filled' = granted' + stock' /\ filled' \in Nat /\ stock' # NoKey
    BY <1>0, <1>1, <1>2, <2>1
  <2>3. Conserved' /\ stock' \in Count
    BY <1>1, <2>2 DEF Conserved, Count
  <2> QED BY <2>2, <2>3 DEF StockInv, WithinLimit, FreshUser
<1>3. CASE stock # NoKey
  <2>1. filled = granted + stock /\ stock \in Nat
    BY <1>0, <1>3 DEF StockInv, Conserved, Count
  <2>2. stock' = stock + n /\ filled' = granted' + stock' /\ filled' \in Nat /\ stock' \in Nat
    BY <1>0, <1>1, <1>3, <2>1
  <2>3. stock' # NoKey
    BY <1>0, <2>2
  <2>4. Conserved' /\ stock' \in Count
    BY <2>2, <2>3 DEF Conserved, Count
  <2> QED BY <2>2, <2>4 DEF StockInv, WithinLimit, FreshUser
<1> QED BY <1>2, <1>3

LEMMA AtomicDecreaseKeeps ==
  ASSUME StockInv, NEW n \in Amounts, AtomicDecrease(n)
  PROVE  StockInv'
<1>1. CASE Enough(n) /\ Decrease(n) /\ answer' = "OK" /\ UNCHANGED <<remaining, life, got>>
  <2>1. stock' \in Nat /\ granted' \in Nat /\ Conserved' /\ filled' = filled
    BY <1>1, DecreaseKeeps DEF AtomicDecrease
  <2> QED BY <1>1, <2>1 DEF StockInv, Count, WithinLimit, FreshUser
<1>2. CASE Refuse("NO") \/ Refuse("NOKEY")
  BY <1>2, RefuseKeeps DEF AtomicDecrease
<1> QED BY <1>1, <1>2 DEF AtomicDecrease

LEMMA DrawAgainKeeps ==
  ASSUME StockInv, NEW n \in Amounts, NEW p \in People, DrawAgain(p, n), filled' = filled
  PROVE  StockInv'
<1>1. /\ stock' \in Nat /\ granted' \in Nat /\ Conserved' /\ n \in Nat \ {0}
  BY DecreaseKeeps DEF DrawAgain
<1>a. remaining[p] # NoKey /\ remaining[p] \in Count /\ got[p] \in Nat
  BY DEF DrawAgain, StockInv
<1>b. remaining[p] \in Nat /\ got[p] + remaining[p] = Limit
  BY <1>a DEF StockInv, Count, WithinLimit
<1>2. remaining[p] \in Nat /\ remaining[p] - n \in Nat /\ got[p] + remaining[p] = Limit /\ got[p] \in Nat
  BY <1>1, <1>a, <1>b DEF DrawAgain, Allowed
<1>3. /\ remaining' = [remaining EXCEPT ![p] = remaining[p] - n]
      /\ got' = [got EXCEPT ![p] = got[p] + n]
      /\ life' = life /\ answer' = "OK"
  BY DEF DrawAgain
<1>4. remaining' \in [People -> Count] /\ got' \in [People -> Nat]
  <2>1. remaining[p] - n \in Count /\ got[p] + n \in Nat
    BY <1>1, <1>2 DEF Count
  <2> QED BY <1>3, <2>1 DEF StockInv
<1>5. /\ remaining'[p] = remaining[p] - n /\ got'[p] = got[p] + n
      /\ \A q \in People : q # p => remaining'[q] = remaining[q] /\ got'[q] = got[q]
  BY <1>3 DEF StockInv
<1>6. remaining[p] # NoKey /\ remaining'[p] # NoKey
  BY <1>2, <1>5, ScriptsAssumption
<1>7. got'[p] + remaining'[p] = Limit /\ got'[p] <= Limit
  BY <1>1, <1>2, <1>5, ScriptsAssumption
<1>8. WithinLimit' /\ FreshUser'
  BY <1>5, <1>6, <1>7 DEF StockInv, WithinLimit, FreshUser
<1>9. \A q \in People : life'[q] = 0 <=> remaining'[q] = NoKey
  BY <1>3, <1>5, <1>6 DEF StockInv
<1> QED BY <1>1, <1>3, <1>4, <1>8, <1>9 DEF StockInv, Count

LEMMA DrawFirstKeeps ==
  ASSUME StockInv, NEW n \in Amounts, NEW p \in People, DrawFirst(p, n), n <= Limit, filled' = filled
  PROVE  StockInv'
<1>1. /\ stock' \in Nat /\ granted' \in Nat /\ Conserved' /\ n \in Nat \ {0}
  BY DecreaseKeeps DEF DrawFirst
<1>2. Limit \in Nat /\ Limit - n \in Nat /\ StockTTL \in Nat \ {0}
  BY <1>1, ScriptsAssumption
<1>3. /\ remaining' = [remaining EXCEPT ![p] = Limit - n]
      /\ got' = [got EXCEPT ![p] = n]
      /\ life' = [life EXCEPT ![p] = StockTTL]
      /\ answer' = "OK"
  BY DEF DrawFirst, FirstRemaining
<1>4. remaining' \in [People -> Count] /\ got' \in [People -> Nat] /\ life' \in [People -> Nat]
  <2>1. Limit - n \in Count
    BY <1>2 DEF Count
  <2> QED BY <1>1, <1>2, <1>3, <2>1 DEF StockInv
<1>5. /\ remaining'[p] = Limit - n /\ got'[p] = n /\ life'[p] = StockTTL
      /\ \A q \in People : q # p => /\ remaining'[q] = remaining[q] /\ got'[q] = got[q]
                                    /\ life'[q] = life[q]
  BY <1>3 DEF StockInv
<1>6. remaining'[p] # NoKey
  BY <1>2, <1>5, ScriptsAssumption
<1>7. got'[p] + remaining'[p] = Limit /\ got'[p] <= Limit
  BY <1>1, <1>2, <1>5
<1>8. WithinLimit' /\ FreshUser'
  BY <1>5, <1>6, <1>7 DEF StockInv, WithinLimit, FreshUser
<1>9. \A q \in People : life'[q] = 0 <=> remaining'[q] = NoKey
  BY <1>2, <1>5, <1>6 DEF StockInv
<1> QED BY <1>1, <1>3, <1>4, <1>8, <1>9 DEF StockInv, Count

LEMMA CouponKeeps ==
  ASSUME StockInv, NEW n \in Amounts, NEW p \in People, AtomicDecreaseForCoupon(p, n)
  PROVE  StockInv'
<1>0. filled' = filled
  BY DEF AtomicDecreaseForCoupon
<1>1. CASE n > Limit
  BY <1>0, <1>1, RefuseKeeps DEF AtomicDecreaseForCoupon
<1>2. CASE ~(n > Limit)
  <2>0. n <= Limit
    BY <1>2, ScriptsAssumption
  <2>1. CASE DrawAgain(p, n)
    BY <1>0, <2>1, DrawAgainKeeps
  <2>2. CASE DrawFirst(p, n)
    BY <1>0, <2>0, <2>2, DrawFirstKeeps
  <2>3. CASE DrawLimited(p, n)
    BY <1>0, <2>3, RefuseKeeps DEF DrawLimited
  <2>4. CASE DrawNone(p, n)
    BY <1>0, <2>4, RefuseKeeps DEF DrawNone
  <2>5. CASE Refuse("NOKEY")
    BY <1>0, <2>5, RefuseKeeps
  <2> QED BY <1>2, <2>1, <2>2, <2>3, <2>4, <2>5 DEF AtomicDecreaseForCoupon
<1> QED BY <1>1, <1>2

LEMMA RateKeeps == RateInv /\ RateLimiting => RateInv'
<1> SUFFICES ASSUME RateInv, RateLimiting PROVE RateInv'
  OBVIOUS
<1>1. RateTTL \in Nat \ {0} /\ RateLimit \in Nat /\ MaxTimes \in Nat /\ MaxTimes > RateLimit
  BY ScriptsAssumption
<1>2. times' = IF times < MaxTimes THEN times + 1 ELSE times
  BY DEF RateLimiting
<1>3. times' \in Nat /\ times' > 0
  BY <1>1, <1>2 DEF RateInv
<1>4. window' \in Nat /\ window' # 0
  BY <1>1 DEF RateInv, RateLimiting, Expiry
<1>5. admitted' = IF times' > RateLimit THEN admitted ELSE admitted + 1
  BY DEF RateLimiting, Admits
<1>6. admitted' \in Nat
  BY <1>5 DEF RateInv
<1>7. RateExact'
  BY <1>1, <1>2, <1>3, <1>5 DEF RateInv, RateExact
<1> QED BY <1>3, <1>4, <1>6, <1>7 DEF RateInv

LEMMA HashKeeps ==
  ASSUME HashInv, NEW w \in Writers, Read(w) \/ HUpdateIfEqual(w)
  PROVE  HashInv'
  BY DEF HashInv, NoLostUpdate, Read, HUpdateIfEqual

LEMMA TickKeeps == StockInv /\ RateInv /\ HashInv /\ Tick => StockInv' /\ RateInv' /\ HashInv'
<1> SUFFICES ASSUME StockInv, RateInv, HashInv, Tick PROVE StockInv' /\ RateInv' /\ HashInv'
  OBVIOUS
<1>1. RateInv'
  <2>1. window' \in Nat /\ times' \in Nat /\ admitted' \in Nat /\ (window' = 0 <=> times' = 0)
    BY DEF Tick, RateInv
  <2>2. RateExact'
    <3>1. RateLimit \in Nat
      BY ScriptsAssumption
    <3>2. CASE window = 1
      BY <3>1, <3>2 DEF Tick, RateExact
    <3>3. CASE window # 1
      BY <3>3 DEF Tick, RateInv, RateExact
    <3> QED BY <3>2, <3>3
  <2> QED BY <2>1, <2>2 DEF RateInv
<1>2. HashInv'
  BY HashStays DEF Tick
<1>3. StockInv'
  <2>1. stock' \in Count /\ answer' = answer /\ filled' = filled /\ granted' = granted /\ Conserved'
    BY DEF Tick, StockInv, Conserved
  <2>2. life' \in [People -> Nat] /\ remaining' \in [People -> Count] /\ got' \in [People -> Nat]
    <3>0. \A p \in People : life[p] \in Nat /\ got[p] \in Nat
      BY DEF StockInv
    <3>1. life' \in [People -> Nat] /\ got' \in [People -> Nat]
      BY <3>0 DEF Tick
    <3>2. NoKey \in Count
      BY DEF Count
    <3>3. remaining' \in [People -> Count]
      BY <3>2 DEF Tick, StockInv
    <3> QED BY <3>1, <3>3
  <2>3. ASSUME NEW p \in People
        PROVE  /\ life'[p] = 0 <=> remaining'[p] = NoKey
               /\ got'[p] <= Limit
               /\ remaining'[p] # NoKey => got'[p] + remaining'[p] = Limit
               /\ remaining'[p] = NoKey => got'[p] = 0
    <3>1. /\ life'[p] = IF life[p] > 0 THEN life[p] - 1 ELSE 0
          /\ remaining'[p] = IF life[p] = 1 THEN NoKey ELSE remaining[p]
          /\ got'[p] = IF life[p] = 1 THEN 0 ELSE got[p]
      BY DEF Tick
    <3>2. life[p] \in Nat /\ (life[p] = 0 <=> remaining[p] = NoKey)
      BY DEF StockInv
    <3>3. /\ got[p] <= Limit /\ (remaining[p] # NoKey => got[p] + remaining[p] = Limit)
          /\ remaining[p] = NoKey => got[p] = 0
      BY DEF StockInv, WithinLimit, FreshUser
    <3>4. CASE life[p] = 1
      BY <3>1, <3>4, ScriptsAssumption
    <3>5. CASE life[p] # 1
      BY <3>1, <3>2, <3>3, <3>5
    <3> QED BY <3>4, <3>5
  <2>4. WithinLimit' /\ FreshUser'
    BY <2>3 DEF WithinLimit, FreshUser
  <2> QED BY <2>1, <2>2, <2>3, <2>4 DEF StockInv
<1> QED BY <1>1, <1>2, <1>3

LEMMA NextInv == IndInv /\ [Next]_vars => IndInv'
<1> SUFFICES ASSUME StockInv, RateInv, HashInv, [Next]_vars
             PROVE  StockInv' /\ RateInv' /\ HashInv'
  BY Parts, PartsPrime
<1>1. CASE PutStock /\ UNCHANGED <<rateVars, hashVars>>
  BY <1>1, PutStockKeeps, RateStays, HashStays
<1>2. ASSUME NEW n \in Amounts, AtomicDecrease(n), UNCHANGED <<rateVars, hashVars>>
      PROVE  StockInv' /\ RateInv' /\ HashInv'
  BY <1>2, AtomicDecreaseKeeps, RateStays, HashStays
<1>3. ASSUME NEW n \in Amounts, NEW p \in People, AtomicDecreaseForCoupon(p, n),
             UNCHANGED <<rateVars, hashVars>>
      PROVE  StockInv' /\ RateInv' /\ HashInv'
  BY <1>3, CouponKeeps, RateStays, HashStays
<1>4. CASE RateLimiting /\ UNCHANGED <<stockVars, hashVars>>
  BY <1>4, StockStays, RateKeeps, HashStays
<1>5. ASSUME NEW w \in Writers, Read(w) \/ HUpdateIfEqual(w), UNCHANGED <<stockVars, rateVars>>
      PROVE  StockInv' /\ RateInv' /\ HashInv'
  BY <1>5, StockStays, RateStays, HashKeeps
<1>6. CASE Tick
  BY <1>6, TickKeeps
<1>7. CASE UNCHANGED vars
  BY <1>7, StockStays, RateStays, HashStays DEF vars
<1> QED BY <1>1, <1>2, <1>3, <1>4, <1>5, <1>6, <1>7 DEF Next

LEMMA Invariance == Spec => []IndInv
  BY InitInv, NextInv, PTL DEF Spec

-----------------------------------------------------------------------------
(* The refinement *)

\* The stock as the allotment sees it.
Left == IF stock = NoKey THEN 0 ELSE stock

LEMMA AbstractUnchanged ==
  ASSUME stock' = stock, got' = got
  PROVE  UNCHANGED <<Left, got>>
  BY DEF Left

LEMMA AbstractInit == Init => Abstract!Init
<1> SUFFICES ASSUME Init PROVE Left = 0 /\ got = [p \in People |-> 0]
  BY DEF Abstract!Init, Left
<1> QED BY DEF Init, Left

\* A decrease takes n of what is left.
LEMMA AbstractDecrease ==
  ASSUME StockInv, NEW n \in Amounts, Enough(n), Decrease(n), filled' = filled
  PROVE  n \in 1..Left /\ Left' = Left - n
<1>1. /\ stock \in Nat /\ n \in Nat \ {0} /\ n <= stock
      /\ stock' = stock - n /\ stock' # NoKey
  BY DecreaseKeeps
<1>2. stock # NoKey
  BY <1>1, ScriptsAssumption
<1>3. Left = stock /\ Left' = stock'
  BY <1>1, <1>2 DEF Left
<1> QED BY <1>1, <1>3

LEMMA FillStep == StockInv /\ PutStock => Abstract!Fill
<1> SUFFICES ASSUME StockInv, PutStock
             PROVE  Left' \in Nat /\ Left' >= Left /\ got' = got
  BY DEF Abstract!Fill, Left
<1> PICK n \in 1..(MaxStock - filled) :
       /\ stock' = IF stock = NoKey THEN n ELSE stock + n
       /\ UNCHANGED got
  BY DEF PutStock
<1>0. filled \in Nat /\ stock \in Count /\ MaxStock \in Nat /\ NoKey \notin Int
  BY ScriptsAssumption DEF StockInv
<1>1. n \in Nat
  BY <1>0
<1>2. CASE stock = NoKey
  <2>1. stock' = n /\ stock' # NoKey
    BY <1>0, <1>1, <1>2
  <2>2. Left = 0 /\ Left' = n
    BY <1>2, <2>1 DEF Left
  <2> QED BY <1>1, <2>2
<1>3. CASE stock # NoKey
  <2>1. stock \in Nat /\ stock' = stock + n
    BY <1>0, <1>3 DEF Count
  <2>2. stock' \in Nat /\ stock' # NoKey
    BY <1>0, <1>1, <2>1
  <2>3. Left = stock /\ Left' = stock'
    BY <1>3, <2>2 DEF Left
  <2> QED BY <1>1, <2>1, <2>2, <2>3
<1> QED BY <1>2, <1>3

LEMMA SellStep ==
  ASSUME StockInv, NEW n \in Amounts, AtomicDecrease(n)
  PROVE  Abstract!Sell \/ UNCHANGED <<Left, got>>
<1>1. CASE Enough(n) /\ Decrease(n) /\ answer' = "OK" /\ UNCHANGED <<remaining, life, got>>
  <2>1. n \in 1..Left /\ Left' = Left - n
    BY <1>1, AbstractDecrease DEF AtomicDecrease
  <2> QED BY <1>1, <2>1 DEF Abstract!Sell, Left
<1>2. CASE Refuse("NO") \/ Refuse("NOKEY")
  BY <1>2, AbstractUnchanged DEF Refuse
<1> QED BY <1>1, <1>2 DEF AtomicDecrease

LEMMA GiveStep ==
  ASSUME StockInv, NEW n \in Amounts, NEW p \in People, AtomicDecreaseForCoupon(p, n)
  PROVE  Abstract!Give(p) \/ UNCHANGED <<Left, got>>
<1>0. filled' = filled
  BY DEF AtomicDecreaseForCoupon
<1>1. CASE \E why \in {"NO", "LIMIT", "NOKEY", "null"} : Refuse(why)
  BY <1>1, AbstractUnchanged DEF Refuse
<1>2. CASE DrawAgain(p, n)
  <2>1. n \in 1..Left /\ Left' = Left - n
    BY <1>0, <1>2, AbstractDecrease DEF DrawAgain
  <2>2. remaining[p] # NoKey /\ remaining[p] \in Count /\ got[p] \in Nat
    BY <1>2 DEF DrawAgain, StockInv
  <2>3. remaining[p] \in Nat /\ got[p] + remaining[p] = Limit
    BY <2>2 DEF StockInv, Count, WithinLimit
  <2>4. n \in Nat /\ remaining[p] - n >= 0
    BY <1>2, ScriptsAssumption DEF DrawAgain, Allowed
  <2>5. got[p] + n <= Limit
    BY <2>2, <2>3, <2>4, ScriptsAssumption
  <2>6. got' = [got EXCEPT ![p] = got[p] + n]
    BY <1>2 DEF DrawAgain
  <2> QED BY <2>1, <2>5, <2>6 DEF Abstract!Give, Left
<1>3. CASE DrawFirst(p, n) /\ ~(n > Limit)
  <2>1. n \in 1..Left /\ Left' = Left - n
    BY <1>0, <1>3, AbstractDecrease DEF DrawFirst
  <2>2. got[p] = 0
    BY <1>3 DEF DrawFirst, StockInv, FreshUser
  <2>3. n \in Nat /\ got[p] + n = n
    BY <2>2, ScriptsAssumption
  <2>4. got[p] + n <= Limit
    BY <1>3, <2>3, ScriptsAssumption
  <2>5. got' = [got EXCEPT ![p] = got[p] + n]
    BY <1>3, <2>3 DEF DrawFirst
  <2> QED BY <2>1, <2>4, <2>5 DEF Abstract!Give, Left
<1> QED
  BY <1>1, <1>2, <1>3 DEF AtomicDecreaseForCoupon, DrawLimited, DrawNone

LEMMA RenewStep == Tick => Abstract!Renew
<1> SUFFICES ASSUME Tick PROVE Abstract!Renew
  OBVIOUS
<1> DEFINE S == {p \in People : life[p] = 1}
<1>1. got' = [p \in People |-> IF p \in S THEN 0 ELSE got[p]]
  BY DEF Tick
<1>2. Left' = Left
  BY DEF Tick, Left
<1> QED BY <1>1, <1>2 DEF Abstract!Renew, Left

LEMMA AbstractStep == IndInv /\ [Next]_vars => [Abstract!Next]_<<Left, got>>
<1> SUFFICES ASSUME StockInv, [Next]_vars
             PROVE  Abstract!Next \/ UNCHANGED <<Left, got>>
  BY Parts
<1>1. CASE PutStock
  BY <1>1, FillStep DEF Abstract!Next
<1>2. ASSUME NEW n \in Amounts, AtomicDecrease(n)
      PROVE  Abstract!Next \/ UNCHANGED <<Left, got>>
  BY <1>2, SellStep DEF Abstract!Next
<1>3. ASSUME NEW n \in Amounts, NEW p \in People, AtomicDecreaseForCoupon(p, n)
      PROVE  Abstract!Next \/ UNCHANGED <<Left, got>>
  BY <1>3, GiveStep DEF Abstract!Next
<1>4. CASE UNCHANGED stockVars
  BY <1>4, AbstractUnchanged DEF stockVars
<1>5. CASE Tick
  BY <1>5, RenewStep DEF Abstract!Next
<1> QED BY <1>1, <1>2, <1>3, <1>4, <1>5 DEF Next, vars

-----------------------------------------------------------------------------
(* The results *)

\* The keys, counters and answers of the scripts keep their types; a count is
\* there exactly while it has a time to live (coupon_stock_decrease.lua,
\* rate_limiting.lua).
THEOREM TypeCorrect == Spec => []TypeOK
  BY Invariance, PTL DEF IndInv

\* No unit of stock is taken without an answer and none is taken twice
\* (stock_decrease.lua, coupon_stock_decrease.lua).
THEOREM StockConserved == Spec => []Conserved
  BY Invariance, PTL DEF IndInv

\* No user draws more than the limit while his key lives
\* (coupon_stock_decrease.lua).
THEOREM LimitKept == Spec => []WithinLimit
  BY Invariance, PTL DEF IndInv

\* The limiter admits exactly the first calls of a window (rate_limiting.lua).
THEOREM LimiterExact == Spec => []RateExact
  BY Invariance, PTL DEF IndInv

\* No update that was answered 'OK' is lost (hUpdateIfEqual).
THEOREM UpdatesKept == Spec => []NoLostUpdate
  BY Invariance, PTL DEF IndInv

\* The stock and coupon scripts implement the allotment: whatever users,
\* amounts and expiries, units leave the stock within it and within the quota.
THEOREM ScriptsImplementAllotment == Spec => ImplementsAllotment
<1>1. Init => Abstract!Init
  BY AbstractInit
<1>2. IndInv /\ [Next]_vars => [Abstract!Next]_<<IF stock = NoKey THEN 0 ELSE stock, got>>
  BY AbstractStep DEF Left
<1> QED BY <1>1, <1>2, Invariance, PTL DEF Spec, ImplementsAllotment, Abstract!Spec
=============================================================================
