------------------------------ MODULE Induction ------------------------------
(***************************************************************************)
(* Induction stated with sets in place of predicates, and what it shows of *)
(* recursive functions on an initial segment of the natural numbers.       *)
(***************************************************************************)
EXTENDS Integers, WellFoundedInduction, TLAPS

(* Every nonempty set of naturals has a least element.                     *)
LEMMA LeastNat ==
  ASSUME NEW T, T \subseteq Nat, T # {}
  PROVE  \E x \in T : \A y \in T : x <= y
<1> DEFINE R == OpToRel(<, Nat)
<1>1. IsWellFoundedOn(R, Nat)
  BY NatLessThanWellFounded, Zenon
<1>2. \A x, y \in Nat : <<x, y>> \in R <=> x < y
  BY DEF OpToRel
<1> HIDE DEF R
<1>3. PICK x \in T : \A y \in T : ~(<<y, x>> \in R)
  BY <1>1, WFMin
<1>4. \A y \in T : ~(y < x)
  BY <1>2, <1>3
<1>5. \A y \in T : x <= y
  BY <1>4
<1> QED
  BY <1>5

(* Induction up to m.                                                      *)
THEOREM SegmentInduction ==
  ASSUME NEW m \in Nat, NEW S, 0 \in S,
         \A n \in 0..(m - 1) : n \in S => n + 1 \in S
  PROVE  0..m \subseteq S
<1> DEFINE T == {n \in 0..m : n \notin S}
<1> SUFFICES ASSUME T # {} PROVE FALSE
  OBVIOUS
<1>0. T \subseteq 1..m /\ \A n \in 0..m : n \notin S => n \in T
  <2>1. \A n \in T : n \in 0..m /\ n # 0
    OBVIOUS
  <2> QED
    BY <2>1
<1> HIDE DEF T
<1>a. T \subseteq Nat
  BY <1>0
<1>1. PICK x \in T : \A y \in T : x <= y
  BY <1>a, LeastNat
<1>2. x \in 1..m /\ x \notin S
  BY <1>0 DEF T
<1>3. x - 1 \in 0..(m - 1) /\ x - 1 \notin T
  BY <1>1, <1>2
<1>4. x - 1 \in S
  BY <1>0, <1>3
<1>5. (x - 1) + 1 \in S
  BY <1>3, <1>4
<1> QED
  BY <1>1, <1>2, <1>5
==============================================================================
