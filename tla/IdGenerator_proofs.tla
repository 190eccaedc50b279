------------------------- MODULE IdGenerator_proofs -------------------------
(***************************************************************************)
(* Proofs that trusted generators return increasing ids and that no two    *)
(* ids are equal, for any number of nodes, any widths of the bit fields    *)
(* and any behaviour of the clocks.                                        *)
(***************************************************************************)
EXTENDS IdGenerator, TLAPS

-----------------------------------------------------------------------------
(* The packing is injective and ordered by time, then by sequence number *)

\* Two-digit numbers in base b differ as their high digits do.
LEMMA DigitOrder ==
  ASSUME NEW b \in Nat \ {0}, NEW x \in Nat, NEW y \in Nat, x < y,
         NEW u \in 0..(b - 1), NEW v \in 0..(b - 1)
  PROVE  x * b + u < y * b + v
<1>1. y >= x + 1
  OBVIOUS
<1>2. y * b >= (x + 1) * b
  BY <1>1
<1>3. (x + 1) * b = x * b + b
  OBVIOUS
<1>4. x * b \in Int /\ y * b \in Int /\ (x + 1) * b \in Int
  OBVIOUS
<1> QED BY <1>2, <1>3, <1>4

\* An id is a number.
LEMMA PackType ==
  ASSUME NEW t \in Nat, NEW n \in Nodes, NEW s \in 0..(SeqSize - 1)
  PROVE  Pack(t, n, s) \in Nat /\ t * NodeSize + n \in Nat
BY GeneratorAssumption DEF Pack

\* A later millisecond gives a larger id, whatever the sequence numbers.
LEMMA PackLater ==
  ASSUME NEW n \in Nodes, NEW t1 \in Nat, NEW t2 \in Nat, t1 < t2,
         NEW s1 \in 0..(SeqSize - 1), NEW s2 \in 0..(SeqSize - 1)
  PROVE  Pack(t1, n, s1) < Pack(t2, n, s2)
<1>1. n \in 0..(NodeSize - 1) /\ NodeSize \in Nat \ {0} /\ SeqSize \in Nat \ {0}
  BY GeneratorAssumption
<1>2. t1 * NodeSize + n < t2 * NodeSize + n
  BY <1>1, DigitOrder
<1>3. t1 * NodeSize + n \in Nat /\ t2 * NodeSize + n \in Nat
  BY PackType
<1> QED BY <1>1, <1>2, <1>3, DigitOrder DEF Pack

\* Within a millisecond a larger sequence number gives a larger id.
LEMMA PackSame ==
  ASSUME NEW n \in Nodes, NEW t \in Nat, NEW s1 \in 0..(SeqSize - 1), NEW s2 \in 0..(SeqSize - 1), s1 < s2
  PROVE  Pack(t, n, s1) < Pack(t, n, s2)
<1>1. (t * NodeSize + n) * SeqSize \in Int
  BY GeneratorAssumption
<1> QED BY <1>1, GeneratorAssumption DEF Pack

\* Ids of different nodes differ: their node bits do.
LEMMA PackNodes ==
  ASSUME NEW m \in Nodes, NEW n \in Nodes, m # n, NEW t1 \in Nat, NEW t2 \in Nat,
         NEW s1 \in 0..(SeqSize - 1), NEW s2 \in 0..(SeqSize - 1)
  PROVE  Pack(t1, m, s1) # Pack(t2, n, s2)
<1> DEFINE a == t1 * NodeSize + m
           b == t2 * NodeSize + n
<1>1. /\ m \in 0..(NodeSize - 1) /\ n \in 0..(NodeSize - 1)
      /\ NodeSize \in Nat \ {0} /\ SeqSize \in Nat \ {0}
  BY GeneratorAssumption
<1>2. a \in Nat /\ b \in Nat
  BY PackType
<1>3. a # b
  <2>1. CASE t1 < t2
    BY <2>1, <1>1, DigitOrder
  <2>2. CASE t2 < t1
    BY <2>2, <1>1, DigitOrder
  <2>3. CASE t1 = t2
    BY <2>3, <1>1
  <2> QED BY <2>1, <2>2, <2>3
<1>4. CASE a < b
  BY <1>1, <1>2, <1>4, DigitOrder DEF Pack
<1>5. CASE b < a
  BY <1>1, <1>2, <1>5, DigitOrder DEF Pack
<1> QED BY <1>2, <1>3, <1>4, <1>5

-----------------------------------------------------------------------------
(* The inductive invariant *)

\* x is an id of node n from no later than its last millisecond and, while the
\* running generator may still issue in that millisecond, from no later
\* sequence number than the generator's.
Issued(n, x) ==
  \E t \in Nat, s \in 0..(SeqSize - 1) :
    /\ x = Pack(t, n, s)
    /\ t <= high[n]
    /\ pc[n] = "idle" /\ last[n] = high[n] /\ t = high[n] => s <= sequence[n]

\* What ties a trusted generator to the ids of its node.
NodeInv(n) ==
  /\ last[n] = -1 \/ last[n] = high[n]
  /\ pc[n] # "idle" => last[n] = high[n] /\ last[n] # -1
  /\ kind[n] = "IdBuilder" => high[n] <= clock[n]
  /\ \A i \in DOMAIN ids[n] : Issued(n, ids[n][i])
  /\ \A i, j \in DOMAIN ids[n] : i < j => ids[n][i] < ids[n][j]

\* Ids carry their node's number, trusted or not.
NodeBits ==
  \A n \in Nodes : \A i \in DOMAIN ids[n] :
    \E t \in Nat, s \in 0..(SeqSize - 1) : ids[n][i] = Pack(t, n, s)

IndInv ==
  /\ TypeOK
  /\ NodeBits
  /\ \A n \in Nodes : Trusted(n) => NodeInv(n)

\* The milliseconds and sequence numbers in which a trusted generator returns.
LEMMA ReturnFresh ==
  ASSUME IndInv, NEW n \in Nodes, Trusted(n), NEW t \in Nat, NEW s \in 0..(SeqSize - 1),
         \/ t > high[n]
         \/ t = high[n] /\ pc[n] = "idle" /\ last[n] = high[n] /\ s > sequence[n]
  PROVE  \A i \in DOMAIN ids[n] : ids[n][i] < Pack(t, n, s)
<1> SUFFICES ASSUME NEW i \in DOMAIN ids[n] PROVE ids[n][i] < Pack(t, n, s)
  OBVIOUS
<1>1. PICK t0 \in Nat, s0 \in 0..(SeqSize - 1) :
        /\ ids[n][i] = Pack(t0, n, s0)
        /\ t0 <= high[n]
        /\ pc[n] = "idle" /\ last[n] = high[n] /\ t0 = high[n] => s0 <= sequence[n]
  BY DEF IndInv, NodeInv, Issued
<1>2. high[n] \in Nat \cup {-1} /\ sequence[n] \in 0..(SeqSize - 1) /\ SeqSize \in Nat
  BY GeneratorAssumption DEF IndInv, TypeOK
<1>3. CASE t0 < t
  BY <1>1, <1>3, PackLater
<1>4. CASE ~(t0 < t)
  <2>1. t0 = t /\ s0 < s
    BY <1>1, <1>2, <1>4
  <2> QED BY <1>1, <2>1, PackSame
<1> QED BY <1>3, <1>4

\* What appending an id to a node's list does.
LEMMA AppendFacts ==
  ASSUME NEW q \in Seq(Nat), NEW x \in Nat
  PROVE  /\ DOMAIN Append(q, x) = DOMAIN q \cup {Len(q) + 1}
         /\ \A i \in DOMAIN q : i \in Nat /\ i <= Len(q) /\ Append(q, x)[i] = q[i]
         /\ Append(q, x)[Len(q) + 1] = x
         /\ Len(q) \in Nat
<1>1. Len(q) \in Nat /\ DOMAIN q = 1..Len(q)
  OBVIOUS
<1>2. Len(Append(q, x)) = Len(q) + 1 /\ Append(q, x) \in Seq(Nat)
  OBVIOUS
<1>3. DOMAIN Append(q, x) = 1..(Len(q) + 1)
  BY <1>2
<1>4. 1..(Len(q) + 1) = 1..Len(q) \cup {Len(q) + 1}
  BY <1>1
<1>5. \A i \in 1..Len(q) : Append(q, x)[i] = q[i]
  OBVIOUS
<1> QED BY <1>1, <1>2, <1>3, <1>4, <1>5

\* Returning an id later than all of the node's ids keeps the invariant.
LEMMA ReturnStep ==
  ASSUME IndInv, NEW n \in Nodes, NEW t \in Nat, NEW s \in 0..(SeqSize - 1),
         Return(n, t, s), UNCHANGED <<kind, clock, back>>, t <= clock[n],
         last[n] # -1 => \/ t > last[n]
                         \/ t = last[n] /\ pc[n] = "idle" /\ s > sequence[n]
  PROVE  IndInv'
<1> USE DEF IndInv
<1>0. Pack(t, n, s) \in Nat
  BY PackType, GeneratorAssumption
<1>1. TypeOK'
  <2>1. ids' \in [Nodes -> Seq(Nat)]
    <3>1. ids \in [Nodes -> Seq(Nat)]
      BY DEF TypeOK
    <3>2. Append(ids[n], Pack(t, n, s)) \in Seq(Nat)
      BY <1>0, <3>1
    <3>3. ids' = [ids EXCEPT ![n] = Append(ids[n], Pack(t, n, s))]
      BY DEF Return
    <3> QED BY <3>1, <3>2, <3>3
  <2>2. lapsed' \in [Nodes -> BOOLEAN]
    BY DEF TypeOK, Return
  <2> QED BY <2>1, <2>2 DEF TypeOK, Return
<1>2. ids' = [ids EXCEPT ![n] = Append(ids[n], Pack(t, n, s))]
  BY DEF Return
<1>3. \A m \in Nodes : m # n => /\ ids'[m] = ids[m] /\ high'[m] = high[m] /\ last'[m] = last[m]
                                /\ pc'[m] = pc[m] /\ sequence'[m] = sequence[m]
                                /\ lapsed'[m] = lapsed[m]
  BY DEF Return, TypeOK
<1>4. /\ last'[n] = t /\ high'[n] = t /\ sequence'[n] = s /\ pc'[n] = "idle"
      /\ lapsed'[n] = (lapsed[n] \/ (last[n] = -1 /\ t <= high[n]))
  BY DEF Return, TypeOK
<1>5. /\ ids[n] \in Seq(Nat)
      /\ ids'[n] = Append(ids[n], Pack(t, n, s))
      /\ DOMAIN ids'[n] = DOMAIN ids[n] \cup {Len(ids[n]) + 1}
      /\ \A i \in DOMAIN ids[n] : i \in Nat /\ i <= Len(ids[n]) /\ ids'[n][i] = ids[n][i]
      /\ ids'[n][Len(ids[n]) + 1] = Pack(t, n, s)
      /\ Len(ids[n]) \in Nat
  <2>1. ids[n] \in Seq(Nat) /\ ids'[n] = Append(ids[n], Pack(t, n, s))
    BY <1>2 DEF TypeOK
  <2> QED BY <1>0, <2>1, AppendFacts
<1>6. NodeBits'
  <2> SUFFICES ASSUME NEW m \in Nodes, NEW i \in DOMAIN ids'[m]
               PROVE  \E t0 \in Nat, s0 \in 0..(SeqSize - 1) : ids'[m][i] = Pack(t0, m, s0)
    BY DEF NodeBits, Pack
  <2>1. CASE m # n
    BY <1>3, <2>1 DEF NodeBits
  <2>2. CASE m = n /\ i \in DOMAIN ids[n]
    BY <1>5, <2>2 DEF NodeBits
  <2>3. CASE m = n /\ i = Len(ids[n]) + 1
    BY <1>5, <2>3
  <2> QED BY <1>5, <2>1, <2>2, <2>3
<1>7. ASSUME NEW m \in Nodes, Trusted(m)', m # n PROVE NodeInv(m)'
  <2>1. Trusted(m)
    BY <1>3, <1>7 DEF Trusted
  <2> QED BY <1>3, <1>7, <2>1 DEF NodeInv, Issued, Pack
<1>8. ASSUME Trusted(n)' PROVE NodeInv(n)'
  <2>1. Trusted(n) /\ ~(last[n] = -1 /\ t <= high[n])
    BY <1>4, <1>8 DEF Trusted, TypeOK
  <2>2. NodeInv(n) /\ high[n] \in Nat \cup {-1}
    BY <2>1 DEF TypeOK
  <2>3. \/ t > high[n]
        \/ t = high[n] /\ pc[n] = "idle" /\ last[n] = high[n] /\ s > sequence[n]
    BY <2>1, <2>2 DEF NodeInv
  <2>4. \A i \in DOMAIN ids[n] : ids[n][i] < Pack(t, n, s)
    BY <2>1, <2>3, ReturnFresh
  <2>5. \A i, j \in DOMAIN ids'[n] : i < j => ids'[n][i] < ids'[n][j]
    BY <1>5, <2>2, <2>4 DEF NodeInv
  <2>6. ASSUME NEW i \in DOMAIN ids[n] PROVE Issued(n, ids[n][i])'
    <3>1. PICK t0 \in Nat, s0 \in 0..(SeqSize - 1) :
            /\ ids[n][i] = Pack(t0, n, s0)
            /\ t0 <= high[n]
            /\ pc[n] = "idle" /\ last[n] = high[n] /\ t0 = high[n] => s0 <= sequence[n]
      BY <2>2, <2>6 DEF NodeInv, Issued
    <3>2. sequence[n] \in 0..(SeqSize - 1) /\ SeqSize \in Nat
      BY GeneratorAssumption DEF TypeOK
    <3>3. t0 <= t /\ (t0 = t => s0 <= s)
      BY <2>2, <2>3, <3>1, <3>2
    <3>4. ids'[n][i] = Pack(t0, n, s0)
      BY <3>1, <1>5
    <3> QED BY <1>4, <3>3, <3>4 DEF Issued, Pack
  <2>7. ASSUME NEW i \in DOMAIN ids'[n], i = Len(ids[n]) + 1 PROVE Issued(n, ids[n][i])'
    BY <1>4, <1>5, <2>7 DEF Issued, Pack
  <2>8. \A i \in DOMAIN ids'[n] : Issued(n, ids[n][i])'
    BY <1>5, <2>6, <2>7
  <2>9. kind'[n] = "IdBuilder" => high'[n] <= clock'[n]
    BY <1>4
  <2> QED BY <1>4, <2>5, <2>8, <2>9 DEF NodeInv
<1> QED BY <1>1, <1>6, <1>7, <1>8

\* Every step keeps the invariant.
LEMMA InductiveStep == IndInv /\ [Next]_vars => IndInv'
<1> SUFFICES ASSUME IndInv, [Next]_vars PROVE IndInv'
  OBVIOUS
<1>0. \A n \in Nodes : /\ clock[n] \in Nat /\ last[n] \in Nat \cup {-1} /\ high[n] \in Nat \cup {-1}
                       /\ sequence[n] \in 0..(SeqSize - 1) /\ back[n] \in Nat
  BY DEF IndInv, TypeOK
<1>s. SeqSize \in Nat \ {0}
  BY GeneratorAssumption
<1>1. ASSUME NEW n \in Nodes, NextIdLater(n) PROVE IndInv'
  <2>1. 0 \in 0..(SeqSize - 1)
    BY <1>s
  <2> QED BY <1>0, <1>1, <2>1, ReturnStep DEF NextIdLater
<1>2. ASSUME NEW n \in Nodes, NextIdSame(n) PROVE IndInv'
  <2>1. NextSequence(n) \in 0..(SeqSize - 1) /\ NextSequence(n) > sequence[n]
    BY <1>0, <1>s, <1>2 DEF NextSequence, NextIdSame
  <2>2. clock[n] = last[n] /\ pc[n] = "idle" /\ Return(n, clock[n], NextSequence(n))
        /\ UNCHANGED <<kind, clock, back>>
    BY <1>2 DEF NextIdSame, Calls
  <2> QED BY <1>0, <2>1, <2>2, ReturnStep
<1>3. ASSUME NEW n \in Nodes, NextMillis(n) PROVE IndInv'
  BY <1>0, <1>3, ReturnStep DEF NextMillis
<1>4. ASSUME NEW n \in Nodes,
             NextIdOverflow(n) \/ NextIdRefused(n) \/ NextMillisStuck(n)
               \/ ClockForward(n) \/ ClockBack(n) \/ Restart(n) \/ UNCHANGED vars
      PROVE  IndInv'
  <2>1. /\ UNCHANGED <<kind, ids, high, lapsed>>
        /\ \A m \in Nodes \ {n} : /\ last'[m] = last[m] /\ sequence'[m] = sequence[m]
                                  /\ pc'[m] = pc[m] /\ clock'[m] = clock[m] /\ back'[m] = back[m]
    BY <1>4 DEF IndInv, TypeOK, NextIdOverflow, NextIdRefused, NextMillisStuck, ClockForward,
                ClockBack, Restart, vars
  <2>2. TypeOK'
    <3>1. 0 \in 0..(SeqSize - 1)
      BY <1>s
    <3>2. CASE NextIdOverflow(n) \/ NextIdRefused(n) \/ NextMillisStuck(n)
      BY <3>1, <3>2 DEF IndInv, TypeOK, NextIdOverflow, NextIdRefused, NextMillisStuck
    <3>3. CASE ClockForward(n)
      BY <1>0, <3>3 DEF IndInv, TypeOK, ClockForward
    <3>4. CASE ClockBack(n)
      <4>1. PICK t \in 0..(clock[n] - 1) : clock' = [clock EXCEPT ![n] = t]
        BY <3>4 DEF ClockBack
      <4>2. t \in Nat
        BY <1>0, <4>1
      <4> QED BY <1>0, <3>4, <4>1, <4>2 DEF IndInv, TypeOK, ClockBack
    <3>5. CASE Restart(n)
      BY <3>1, <3>5 DEF IndInv, TypeOK, Restart
    <3>6. CASE UNCHANGED vars
      BY <3>6 DEF IndInv, TypeOK, vars
    <3> QED BY <1>4, <3>2, <3>3, <3>4, <3>5, <3>6
  <2>3. NodeBits'
    BY <2>1 DEF IndInv, NodeBits, Pack
  <2>4. back'[n] >= back[n]
    BY <1>0, <1>4 DEF IndInv, TypeOK, NextIdOverflow, NextIdRefused, NextMillisStuck, ClockForward,
                ClockBack, Restart, vars
  <2>5. \A m \in Nodes : Trusted(m)' => Trusted(m)
    BY <1>0, <2>1, <2>2, <2>4 DEF Trusted, TypeOK
  <2>6. ASSUME NEW m \in Nodes, m # n, Trusted(m)' PROVE NodeInv(m)'
    BY <2>1, <2>5, <2>6 DEF IndInv, NodeInv, Issued, Pack
  <2>7. ASSUME Trusted(n)' PROVE NodeInv(n)'
    <3>1. NodeInv(n) /\ Trusted(n)
      BY <2>5, <2>7 DEF IndInv
    <3>2. CASE NextIdOverflow(n)
      BY <1>0, <2>1, <3>1, <3>2 DEF IndInv, TypeOK, NextIdOverflow, Calls, NodeInv, Issued, Pack
    <3>3. CASE NextIdRefused(n)
      <4>1. kind[n] # "IdBuilder"
        BY <1>0, <3>1, <3>3 DEF NextIdRefused, NodeInv
      <4> QED BY <4>1, <2>1, <3>1, <3>3 DEF NextIdRefused, NodeInv, Issued, Pack
    <3>4. CASE NextMillisStuck(n)
      BY <2>1, <3>1, <3>4 DEF IndInv, TypeOK, NextMillisStuck, NodeInv, Issued, Pack
    <3>5. CASE ClockForward(n)
      <4>1. clock'[n] = clock[n] + 1
        BY <3>5 DEF ClockForward, IndInv, TypeOK
      <4> QED BY <1>0, <2>1, <3>1, <3>5, <4>1 DEF ClockForward, NodeInv, Issued, Pack
    <3>6. CASE ClockBack(n)
      <4>1. back'[n] # 0
        BY <1>0, <3>6 DEF ClockBack, IndInv, TypeOK
      <4>2. kind[n] # "IdBuilder"
        BY <2>1, <2>7, <4>1 DEF Trusted
      <4> QED BY <2>1, <3>1, <3>6, <4>2 DEF ClockBack, NodeInv, Issued, Pack
    <3>7. CASE Restart(n)
      <4>1. last'[n] = -1 /\ pc'[n] = "idle"
        BY <3>7 DEF Restart, IndInv, TypeOK
      <4> QED BY <1>0, <2>1, <3>1, <3>7, <4>1 DEF Restart, NodeInv, Issued, Pack
    <3>8. CASE UNCHANGED vars
      BY <3>1, <3>8 DEF vars, NodeInv, Issued, Pack
    <3> QED BY <1>4, <3>2, <3>3, <3>4, <3>5, <3>6, <3>7, <3>8
  <2> QED BY <2>2, <2>3, <2>6, <2>7 DEF IndInv
<1>5. CASE UNCHANGED vars
  BY <1>5 DEF vars, IndInv, TypeOK, NodeBits, Trusted, NodeInv, Issued, Pack
<1> QED BY <1>1, <1>2, <1>3, <1>4, <1>5 DEF Next

\* The invariant holds initially.
LEMMA InductiveInit == Init => IndInv
<1>1. SeqSize \in Nat \ {0}
  BY GeneratorAssumption
<1> QED BY <1>1 DEF Init, IndInv, TypeOK, NodeBits, Trusted, NodeInv

\* The inductive invariant holds throughout.
THEOREM Inductive == Spec => []IndInv
BY InductiveInit, InductiveStep, PTL DEF Spec

\* Type correctness of the generators' state.
THEOREM TypeCorrect == Spec => []TypeOK
<1>1. IndInv => TypeOK
  BY DEF IndInv
<1> QED BY <1>1, Inductive, PTL

\* Ids of a trusted generator increase, whatever its clock did.
THEOREM IncreasingHolds == Spec => []Increasing
<1>1. IndInv => Increasing
  BY DEF IndInv, NodeInv, Increasing
<1> QED BY <1>1, Inductive, PTL

\* No two ids of trusted generators are equal, for any number of nodes and
\* any widths of the node and sequence fields.
THEOREM UniqueHolds == Spec => []Unique
<1>1. IndInv => Unique
  <2> SUFFICES ASSUME IndInv, NEW m \in Nodes, NEW n \in Nodes,
                      NEW i \in DOMAIN ids[m], NEW j \in DOMAIN ids[n],
                      Trusted(m), Trusted(n), <<m, i>> # <<n, j>>
               PROVE  ids[m][i] # ids[n][j]
    BY DEF Unique
  <2>1. CASE m # n
    BY <2>1, PackNodes DEF IndInv, NodeBits
  <2>2. CASE m = n
    <3>1. /\ i \in Nat /\ j \in Nat /\ i # j
          /\ ids[n][i] \in Nat /\ ids[n][j] \in Nat
      BY <2>2 DEF IndInv, TypeOK
    <3>2. i < j => ids[n][i] < ids[n][j]
      BY <2>2 DEF IndInv, NodeInv
    <3>3. j < i => ids[n][j] < ids[n][i]
      BY <2>2 DEF IndInv, NodeInv
    <3> QED BY <2>2, <3>1, <3>2, <3>3
  <2> QED BY <2>1, <2>2
<1> QED BY <1>1, Inductive, PTL
=============================================================================
