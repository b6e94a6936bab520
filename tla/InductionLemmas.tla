-------------------------- MODULE InductionLemmas --------------------------
(***************************************************************************)
(* Facts about numbers that the proofs of several components need: the     *)
(* largest element of a set, and induction stated for a set of numbers.    *)
(***************************************************************************)
EXTENDS Integers, WellFoundedInduction, TLAPS

\* A nonempty set of numbers up to a bound has a largest element.
LEMMA Largest ==
  ASSUME NEW N \in Nat, NEW T \in SUBSET (0 .. N), T # {}
  PROVE  \E x \in T : \A y \in T : y <= x
<1> DEFINE gap == {N - x : x \in T}
<1>1. gap \subseteq Nat /\ gap # {}
  <2>1. \A x \in T : N - x \in Nat
    OBVIOUS
  <2>2. PICK x \in T : TRUE
    OBVIOUS
  <2> QED
    BY <2>1, <2>2
<1>2. \E g \in gap : \A h \in gap : ~(<<h, g>> \in OpToRel(<, Nat))
  <2> HIDE DEF gap
  <2> QED
    BY <1>1, NatLessThanWellFounded, WFMin, Zenon
<1>3. PICK g \in gap : \A h \in gap : ~(h < g)
  BY <1>1, <1>2 DEF OpToRel
<1>4. PICK x \in T : g = N - x
  OBVIOUS
<1>5. \A y \in T : ~(N - y < N - x)
  BY <1>3, <1>4
<1> QED
  BY <1>4, <1>5

\* A set that holds zero and the successor of each of its numbers holds them all.
LEMMA InductionOnNat ==
  ASSUME NEW G, 0 \in G, \A n \in Nat : n \in G => n + 1 \in G
  PROVE  Nat \subseteq G
<1> DEFINE out == Nat \ G
<1> SUFFICES ASSUME out # {} PROVE FALSE
  OBVIOUS
<1>1. \E n \in out : \A m \in out : ~(<<m, n>> \in OpToRel(<, Nat))
  <2>1. out \subseteq Nat
    OBVIOUS
  <2> HIDE DEF out
  <2> QED
    BY <2>1, NatLessThanWellFounded, WFMin, Zenon
<1>2. PICK n \in out : \A m \in out : ~(m < n)
  BY <1>1 DEF OpToRel
<1>3. n \in Nat /\ n # 0
  OBVIOUS
<1>4. n - 1 \in Nat /\ n - 1 < n /\ (n - 1) + 1 = n
  BY <1>3
<1>5. n - 1 \in G
  BY <1>2, <1>4
<1>6. n \in G
  BY <1>4, <1>5
<1> QED
  BY <1>6
=============================================================================
