----------------------------- MODULE Allotment -----------------------------
(***************************************************************************)
(* What the stock and coupon scripts promise: units are handed out of one  *)
(* stock, never more than there are, and nobody gets more than a quota     *)
(* before it is renewed.  Nothing is said of keys, scripts or expiry.      *)
(***************************************************************************)
EXTENDS Naturals

CONSTANTS
  People,
  Quota   \* what one person may get before a renewal

VARIABLES
  left,   \* the units that are left
  got     \* what each person got since the last renewal

Init ==
  /\ left = 0
  /\ got = [p \in People |-> 0]

\* Units arrive.
Fill ==
  /\ left' \in Nat
  /\ left' >= left
  /\ UNCHANGED got

\* Somebody gets units within the stock and the quota, all or none.
Give(p) ==
  \E n \in 1..left :
    /\ got[p] + n <= Quota
    /\ left' = left - n
    /\ got' = [got EXCEPT ![p] = @ + n]

\* Units are sold without a quota.
Sell ==
  \E n \in 1..left : left' = left - n /\ UNCHANGED got

\* Quotas are renewed.
Renew ==
  \E S \in SUBSET People :
    /\ got' = [p \in People |-> IF p \in S THEN 0 ELSE got[p]]
    /\ UNCHANGED left

Next == Fill \/ Sell \/ Renew \/ \E p \in People : Give(p)

Spec == Init /\ [][Next]_<<left, got>>
=============================================================================
