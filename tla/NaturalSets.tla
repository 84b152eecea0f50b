----------------------------- MODULE NaturalSets ----------------------------
(***************************************************************************)
(* Induction over the natural numbers, stated about sets, so that the      *)
(* proofs about lists and recursive functions can cite it: the set is that *)
(* of the numbers for which something holds.                               *)
(***************************************************************************)
EXTENDS Integers, TLAPS, WellFoundedInduction

LEMMA LeastNatural ==
    ASSUME NEW T, T \subseteq Nat, T # {}
    PROVE  \E m \in T : \A n \in T : m <= n
<1>1. IsWellFoundedOn(OpToRel(<, Nat), Nat)
  BY NatLessThanWellFounded, Zenon
<1>2. PICK m \in T : \A n \in T : ~(<<n, m>> \in OpToRel(<, Nat))
  BY <1>1, WFMin, Zenon
<1>3. \A n \in T : ~(n < m)
  BY <1>2, Zenon DEF OpToRel
<1> QED BY <1>3

LEMMA InductionOnSet ==
    ASSUME NEW A, NEW a \in Nat, a \in A,
           \A n \in Nat : n >= a /\ n \in A => n + 1 \in A
    PROVE  \A n \in Nat : n >= a => n \in A
<1> DEFINE T == {n \in Nat : n >= a /\ n \notin A}
<1>1. CASE T = {}
  BY <1>1
<1>2. CASE T # {}
  <2>1. PICK m \in T : \A n \in T : m <= n
    BY <1>2, LeastNatural
  <2>2. m \in Nat /\ m >= a /\ m \notin A
    BY <2>1
  <2>3. m - 1 \in Nat /\ m - 1 >= a
    BY <2>2
  <2>4. m - 1 \in A
    BY <2>1, <2>2, <2>3
  <2>5. (m - 1) + 1 \in A
    BY <2>3, <2>4
  <2> QED BY <2>2, <2>5
<1> QED BY <1>1, <1>2
=============================================================================
