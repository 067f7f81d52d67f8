------------------------------- MODULE Loops -------------------------------
(***************************************************************************)
(* Loops as functions on 0..K whose value at k is made from the one before:  *)
(* what the proofs about matchLike and about the replay of a log rest on.    *)
(* Induction is over the set of rounds where a fact holds.                   *)
(***************************************************************************)
EXTENDS Integers, TLAPS, WellFoundedInduction, NaturalsInduction

\* A set of numbers that is not empty has a least member.
LEMMA LeastOf ==
  ASSUME NEW A \in SUBSET Nat, A # {}
  PROVE  \E x \in A : \A y \in A : x <= y
<1>1. \E x \in A : \A y \in A : ~ (<<y, x>> \in OpToRel(<, Nat))
  BY NatLessThanWellFounded, WFMin
<1>2. \A x, y \in Nat : y < x => <<y, x>> \in OpToRel(<, Nat)
  BY DEF OpToRel
<1>3. \A x, y \in Nat : ~ (y < x) => x <= y
  OBVIOUS
<1> QED
  BY <1>1, <1>2, <1>3

\* A set that holds 0, and every number whose predecessor it holds, holds all of 0..K.
LEMMA UpTo ==
  ASSUME NEW K \in Nat, NEW P, 0 \in P, \A i \in 1..K : i - 1 \in P => i \in P
  PROVE  \A i \in 0..K : i \in P
<1> SUFFICES ASSUME ~ \A i \in 0..K : i \in P PROVE FALSE
  OBVIOUS
<1> DEFINE D == {i \in 0..K : i \notin P}
<1>1. D \in SUBSET Nat /\ D # {}
  OBVIOUS
<1>2. PICK i \in D : \A j \in D : i <= j
  <2> HIDE DEF D
  <2> QED
    BY <1>1, LeastOf
<1>3. i \in 1..K /\ i - 1 \in 0..K /\ ~ (i <= i - 1)
  BY <1>2
<1>4. i - 1 \in P
  BY <1>2, <1>3
<1> QED
  BY <1>2, <1>3, <1>4

\* What every round keeps holds at the end of each. St[i] is what may hold after round i.
LEMMA LoopStays ==
  ASSUME NEW K \in Nat, NEW St, NEW w, w[0] \in St[0],
         \A i \in 1..K : w[i - 1] \in St[i - 1] => w[i] \in St[i]
  PROVE  \A i \in 0..K : w[i] \in St[i]
<1> DEFINE P == {i \in 0..K : w[i] \in St[i]}
<1>1. 0 \in P /\ \A i \in 1..K : i - 1 \in P => i \in P
  OBVIOUS
<1> HIDE DEF P
<1>2. \A i \in 0..K : i \in P
  BY <1>1, UpTo
<1> QED
  BY <1>2 DEF P

\* The loop that starts with a and makes round i of what the one before left.
Loop(K, a, round) ==
  LET g[i \in 0..K] == IF i = 0 THEN a ELSE round[<<i, g[i - 1]>>] IN g

\* When every round is defined on what the rounds before it leave, there is such a function.
LEMMA LoopExists ==
  ASSUME NEW K \in Nat, NEW St, NEW a \in St[0], NEW round,
         \A i \in 1..K : \A v \in St[i - 1] : round[<<i, v>>] \in St[i]
  PROVE  /\ Loop(K, a, round) =
              [i \in 0..K |-> IF i = 0 THEN a ELSE round[<<i, Loop(K, a, round)[i - 1]>>]]
         /\ \A i \in 0..K : Loop(K, a, round)[i] \in St[i]
<1> DEFINE Run(k, g) == /\ g = [i \in 0..k |-> IF i = 0 THEN a ELSE round[<<i, g[i - 1]>>]]
                        /\ \A i \in 0..k : g[i] \in St[i]
           P == {k \in 0..K : \E g : Run(k, g)}
<1>1. 0 \in P
  <2> DEFINE g == [i \in 0..0 |-> a]
  <2>1. g = [i \in 0..0 |-> IF i = 0 THEN a ELSE round[<<i, g[i - 1]>>]]
    OBVIOUS
  <2>2. Run(0, g)
    BY <2>1
  <2>3. \E f : Run(0, f)
    <3> HIDE DEF Run, g
    <3> QED
      BY <2>2
  <2> HIDE DEF Run
  <2> QED
    BY <2>3
<1>2. ASSUME NEW k \in 1..K, k - 1 \in P PROVE k \in P
  <2>1. PICK g : Run(k - 1, g)
    BY <1>2
  <2>2. \A i \in 0..(k - 1) : g[i] = (IF i = 0 THEN a ELSE round[<<i, g[i - 1]>>]) /\ g[i] \in St[i]
    BY <2>1
  <2> DEFINE v == round[<<k, g[k - 1]>>]
             h == [i \in 0..k |-> IF i = k THEN v ELSE g[i]]
  <2>3. v \in St[k]
    <3>1. k - 1 \in 0..(k - 1)
      OBVIOUS
    <3> QED
      BY <2>2, <3>1
  <2> HIDE DEF v
  <2>4. \A i \in 0..(k - 1) : i # k /\ h[i] = g[i]
    OBVIOUS
  <2>5. h[k] = v /\ k # 0 /\ k - 1 \in 0..(k - 1)
    OBVIOUS
  <2>6. ASSUME NEW i \in 0..k
        PROVE  h[i] = (IF i = 0 THEN a ELSE round[<<i, h[i - 1]>>]) /\ h[i] \in St[i]
    <3> HIDE DEF h
    <3>1. CASE i = k
      BY <2>3, <2>4, <2>5, <3>1 DEF v
    <3>2. CASE i # k
      <4>1. i \in 0..(k - 1) /\ (i # 0 => i - 1 \in 0..(k - 1))
        BY <3>2
      <4> QED
        BY <2>2, <2>4, <4>1
    <3> QED
      BY <3>1, <3>2
  <2>7. h = [i \in 0..k |-> IF i = 0 THEN a ELSE round[<<i, h[i - 1]>>]]
    <3>1. h = [i \in 0..k |-> h[i]]
      OBVIOUS
    <3> HIDE DEF h
    <3> QED
      BY <2>6, <3>1
  <2> HIDE DEF h
  <2>8. Run(k, h)
    BY <2>6, <2>7
  <2> HIDE DEF Run
  <2> QED
    BY <2>8
<1> HIDE DEF P
<1>3. K \in P
  BY <1>1, <1>2, UpTo
<1> DEFINE Body(f) == [i \in 0..K |-> IF i = 0 THEN a ELSE round[<<i, f[i - 1]>>]]
           w == Loop(K, a, round)
<1>4. PICK g : g = Body(g)
  BY <1>3 DEF P
<1>5. w = CHOOSE f : f = Body(f)
  BY DEF Loop
<1>6. w = Body(w)
  <2> HIDE DEF w, Body
  <2> QED
    BY <1>4, <1>5
<1>7. /\ w[0] \in St[0] /\ \A i \in 1..K : w[i] = round[<<i, w[i - 1]>>]
  <2> HIDE DEF w
  <2>1. 0 \in 0..K /\ \A i \in 1..K : i \in 0..K /\ i # 0
    OBVIOUS
  <2> QED
    BY <1>6, <2>1
<1>8. \A i \in 0..K : w[i] \in St[i]
  <2> HIDE DEF w
  <2>1. \A i \in 1..K : w[i - 1] \in St[i - 1] => w[i] \in St[i]
    BY <1>7
  <2> QED
    BY <1>7, <2>1, LoopStays
<1> QED
  BY <1>6, <1>8
=============================================================================
