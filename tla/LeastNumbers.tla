---------------------------- MODULE LeastNumbers ----------------------------
(***************************************************************************)
(* The well-ordering of the naturals, as the other proofs use it.          *)
(***************************************************************************)
EXTENDS WellFoundedInduction, TLAPS

\* A set of numbers has a least one.
LEMMA LeastNumber ==
  ASSUME NEW T, T \subseteq Nat, T # {}
  PROVE  \E m \in T : \A k \in T : m <= k
<1> DEFINE R == OpToRel(<, Nat)
<1>1. IsWellFoundedOn(R, Nat)
  BY NatLessThanWellFounded, Zenon
<1>2. \A x, y \in Nat : y < x => <<y, x>> \in R
  BY DEF OpToRel
<1> HIDE DEF R
<1> PICK x \in T : \A y \in T : <<y, x>> \notin R
  BY <1>1, WFMin, Zenon
<1>3. ASSUME NEW k \in T
      PROVE  x <= k
  <2>1. x \in Nat /\ k \in Nat /\ ~(k < x)
    BY <1>2
  <2> QED
    BY ONLY <2>1
<1> QED
  BY <1>3

\* A bounded one that is not empty has a greatest one.
LEMMA GreatestIsThere ==
  ASSUME NEW S, NEW n \in Nat, S \subseteq 0 .. n, S # {}
  PROVE  \E g \in S : \A k \in S : k <= g
<1> DEFINE T == {n - k : k \in S}
<1>1. T \subseteq Nat /\ T # {}
  <2>1. \A k \in S : n - k \in Nat
    OBVIOUS
  <2> QED
    BY <2>1
<1> HIDE DEF T
<1>2. PICK m \in T : \A k \in T : m <= k
  BY <1>1, LeastNumber
<1>3. PICK g \in S : m = n - g
  BY <1>2 DEF T
<1>4. ASSUME NEW k \in S
      PROVE  k <= g
  <2>1. n - k \in T
    BY DEF T
  <2>2. n - g <= n - k
    BY <1>2, <1>3, <2>1
  <2>3. n \in Nat /\ g \in Nat /\ k \in Nat
    OBVIOUS
  <2> QED
    BY <2>2, <2>3
<1> QED
  BY <1>3, <1>4

=============================================================================
