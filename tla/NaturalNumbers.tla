---------------------------- MODULE NaturalNumbers ----------------------------
(***************************************************************************)
(* Least elements and induction, stated about sets of numbers: a proof by  *)
(* induction is a proof that the set of good numbers is closed.            *)
(***************************************************************************)
EXTENDS Integers, FiniteSetsExt, WellFoundedInduction, TLAPS

(* Every non-empty set of naturals has a least element. *)
LEMMA LeastNatural ==
  ASSUME NEW T, T \subseteq Nat, T # {}
  PROVE  \E x \in T : \A y \in T : x <= y
<1> DEFINE R == OpToRel(<, Nat)
<1>1. \A x, y \in Nat : x < y => <<x, y>> \in R
  BY DEF OpToRel
<1>2. IsWellFoundedOn(R, Nat)
  BY NatLessThanWellFounded
<1> HIDE DEF R
<1>3. PICK x \in T : \A y \in T : ~(<<y, x>> \in R)
  BY <1>2, WFMin
<1>4. ASSUME NEW y \in T PROVE x <= y
  <2>1. x \in Nat /\ y \in Nat /\ ~(y < x)
    BY <1>1, <1>3, Zenon
  <2> QED
    BY <2>1
<1> QED
  BY <1>4

(* Induction: a set with 0 that is closed under successors has all naturals. *)
LEMMA Induction ==
  ASSUME NEW S, 0 \in S, \A n \in Nat : n \in S => n + 1 \in S
  PROVE  Nat \subseteq S
<1> DEFINE T == Nat \ S
<1> SUFFICES ASSUME T # {} PROVE FALSE
  OBVIOUS
<1>1. PICK x \in T : \A y \in T : x <= y
  BY LeastNatural
<1>2. x # 0 /\ x - 1 \in Nat /\ x - 1 \notin T
  BY <1>1
<1>3. (x - 1) + 1 \in S
  BY <1>2
<1> QED
  BY <1>1, <1>3

(* A set of numbers with a bound has a largest. *)
LEMMA MaxIsLargest ==
  ASSUME NEW b \in Nat, NEW S \in SUBSET (0 .. b), NEW x \in S
  PROVE  Max(S) \in S /\ Max(S) >= x
<1> DEFINE T == {b - y : y \in S}
<1>1. T \subseteq Nat /\ T # {}
  OBVIOUS
<1>2. PICK t \in T : \A u \in T : t <= u
  BY <1>1, LeastNatural
<1>3. PICK m \in S : t = b - m
  BY <1>2
<1>4. \A y \in S : m >= y
  <2>1. ASSUME NEW y \in S PROVE m >= y
    <3>1. b - m <= b - y
      BY <1>2, <1>3
    <3> QED
      BY <3>1
  <2> QED
    BY <2>1
<1>5. \E n \in S : \A y \in S : n >= y
  BY <1>4
<1> QED
  BY <1>5 DEF Max
=============================================================================
