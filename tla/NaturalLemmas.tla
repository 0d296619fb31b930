---------------------------- MODULE NaturalLemmas ----------------------------
(***************************************************************************)
(* Smallest and largest elements of sets of natural numbers, and induction.*)
(***************************************************************************)
EXTENDS Integers, FiniteSetsExt, TLAPS, WellFoundedInduction

\* A nonempty set of naturals has a smallest element.
LEMMA SmallestElement ==
    ASSUME NEW D, D \subseteq Nat, D # {}
    PROVE  \E m \in D : \A d \in D : m <= d
<1> DEFINE R == {ss \in Nat \X Nat : ss[1] < ss[2]}
<1>1. IsWellFoundedOn(R, Nat)
  BY NatLessThanWellFounded DEF OpToRel
<1>2. PICK m \in D : \A d \in D : ~ (<<d, m>> \in R)
  <2> HIDE DEF R
  <2> QED BY <1>1, WFMin
<1>3. \A d \in D : d \in Nat /\ m \in Nat /\ ~ (d < m)
  <2> TAKE d \in D
  <2>1. <<d, m>> \in Nat \X Nat /\ <<d, m>>[1] = d /\ <<d, m>>[2] = m
    OBVIOUS
  <2>2. d < m => <<d, m>> \in R
    BY <2>1
  <2> QED BY <1>2, <2>2
<1>4. \A d \in D : m <= d
  BY <1>3
<1> QED BY <1>4

\* Min returns the smallest element of a nonempty set of naturals.
LEMMA MinIsElement ==
    ASSUME NEW D, D \subseteq Nat, D # {}
    PROVE  Min(D) \in D /\ \A d \in D : Min(D) <= d
<1>1. PICK m \in D : \A d \in D : m <= d
  BY SmallestElement
<1>2. Min(D) = CHOOSE x \in D : \A y \in D : x <= y
  BY DEF Min
<1> QED BY <1>1, <1>2

\* Max returns the largest element of a nonempty set that has a bound.
LEMMA LargestElement ==
    ASSUME NEW S, NEW b \in Nat, S \subseteq 0 .. b, S # {}
    PROVE  Max(S) \in S /\ \A x \in S : x <= Max(S)
<1> DEFINE Gaps == {b - x : x \in S}
<1>1. Gaps \subseteq Nat /\ Gaps # {}
  <2>1. \A x \in S : b - x \in Nat
    OBVIOUS
  <2>2. PICK x \in S : TRUE
    OBVIOUS
  <2>3. b - x \in Gaps
    OBVIOUS
  <2> QED BY <2>1, <2>3
<1>2. PICK g \in Gaps : \A h \in Gaps : g <= h
  <2> HIDE DEF Gaps
  <2> QED BY <1>1, SmallestElement
<1>3. PICK m \in S : g = b - m
  BY <1>2
<1>4. \A x \in S : m >= x
  <2> TAKE x \in S
  <2>1. b - m <= b - x
    BY <1>2, <1>3
  <2> QED BY <2>1
<1>5. Max(S) \in S /\ \A x \in S : Max(S) >= x
  BY <1>3, <1>4 DEF Max
<1> QED BY <1>5

\* Induction, for sets: the library states it for an operator.
LEMMA NatSetInduction ==
    ASSUME NEW Good, 0 \in Good, \A k \in Nat : k \in Good => k + 1 \in Good
    PROVE  Nat \subseteq Good
<1> DEFINE Bad == Nat \ Good
<1> SUFFICES ASSUME Bad # {} PROVE FALSE
  OBVIOUS
<1>1. PICK m \in Bad : \A d \in Bad : m <= d
  BY SmallestElement
<1>2. m \in Nat /\ m # 0
  OBVIOUS
<1>3. m - 1 \in Nat /\ m - 1 \notin Bad
  BY <1>1, <1>2
<1>4. (m - 1) + 1 \in Good
  BY <1>3
<1> QED BY <1>2, <1>4
=============================================================================
