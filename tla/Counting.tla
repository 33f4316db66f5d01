------------------------------- MODULE Counting -------------------------------
(***************************************************************************)
(* Facts about sets of natural numbers that the proofs count and induct    *)
(* with.                                                                   *)
(***************************************************************************)
EXTENDS Integers, NaturalsInduction, WellFoundedInduction, TLAPS

(* A set of natural numbers that is not empty has a smallest member.        *)
LEMMA SmallestNat ==
    ASSUME NEW T \in SUBSET Nat, T # {}
    PROVE  \E n \in T : \A m \in T : n <= m
<1>1. PICK n \in T : \A m \in T : ~(<<m, n>> \in OpToRel(<, Nat))
  BY NatLessThanWellFounded, WFMin
<1>2. \A m \in T : ~(m < n)
  BY <1>1 DEF OpToRel
<1> QED
  BY <1>2

(* It has a largest one if it has a bound.                                  *)
LEMMA LargestNat ==
    ASSUME NEW S \in SUBSET Nat, S # {}, NEW b \in Nat, \A n \in S : n <= b
    PROVE  \E n \in S : \A m \in S : m <= n
<1> DEFINE T == {k \in Nat : b - k \in S}
<1>1. \A n \in S : b - n \in T
  OBVIOUS
<1>2. PICK k \in T : \A m \in T : k <= m
  <2> HIDE DEF T
  <2>1. T \in SUBSET Nat /\ T # {}
    BY <1>1 DEF T
  <2> QED
    BY <2>1, SmallestNat
<1>3. b - k \in S /\ k \in Nat
  BY <1>2
<1>4. ASSUME NEW m \in S PROVE m <= b - k
  <2>1. k <= b - m
    BY <1>1, <1>2
  <2> QED
    BY <1>3, <2>1
<1> QED
  BY <1>3, <1>4

(* What holds of 0, and of n + 1 whenever it holds of n, holds of every n:  *)
(* induction, over the set of the numbers it holds of.                      *)
LEMMA CountUp ==
    ASSUME NEW S \in SUBSET Nat, 0 \in S, \A n \in S : n + 1 \in S
    PROVE  S = Nat
<1> DEFINE T == Nat \ S
<1> SUFFICES ASSUME T # {} PROVE FALSE
  OBVIOUS
<1>1. PICK n \in T : \A m \in T : n <= m
  <2> HIDE DEF T
  <2>1. T \in SUBSET Nat
    BY DEF T
  <2> QED
    BY <2>1, SmallestNat
<1>2. n # 0 /\ n \in Nat
  OBVIOUS
<1>3. n - 1 \in S
  <2>1. n - 1 \in Nat
    BY <1>2
  <2> QED
    BY <1>1, <2>1
<1> QED
  BY <1>2, <1>3
=============================================================================
