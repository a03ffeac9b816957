---------------------------- MODULE WaitCircles ----------------------------
(***************************************************************************)
(* Who waits for whom, as a graph, and why waiting that leads nowhere      *)
(* closes a circle.  For the proofs about calls that wait for row locks,   *)
(* and for the least of a set of step numbers.                             *)
(***************************************************************************)
EXTENDS Naturals, FiniteSets, FiniteSetTheorems, WellFoundedInduction, TLAPS

\* Each of the group waits for one of the group, and is waited for by one.
Circle(waits, group) ==
    \A u \in group : /\ waits[u] \cap group # {}
                     /\ \E w \in group : u \in waits[w]

\* The least-number principle.
LEMMA LeastOf ==
    ASSUME NEW S, S \subseteq Nat, S # {}
    PROVE  \E m \in S : \A k \in S : m <= k
<1>1. PICK m \in S : \A k \in S : ~ (<<k, m>> \in OpToRel(<, Nat))
  BY NatLessThanWellFounded, WFMin
<1>2. \A k \in S : ~ (k < m)
  BY <1>1 DEF OpToRel
<1> QED
  BY <1>2

\* In a finite group that waits for none but its own, if nobody is free and nobody waits
\* for itself, some of them stand in a circle: a smallest part of the group in which each
\* waits for one of that part.
LEMMA WaitingClosesACircle ==
    ASSUME NEW group, IsFiniteSet(group), group # {}, NEW waits,
           \A u \in group : waits[u] \subseteq group \ {u} /\ waits[u] # {}
    PROVE  \E circle \in (SUBSET group) \ {{}} : Circle(waits, circle)
<1> DEFINE Closed == {part \in (SUBSET group) \ {{}} :
                        \A u \in part : waits[u] \cap part # {}}
           Sizes == {Cardinality(part) : part \in Closed}
<1>1. \A part \in Closed : IsFiniteSet(part) /\ Cardinality(part) \in Nat
  BY FS_Subset, FS_CardinalityType
<1>2. group \in Closed
  OBVIOUS
<1>3. PICK part \in Closed : \A other \in Closed : Cardinality(part) <= Cardinality(other)
  <2>1. Sizes \subseteq Nat /\ Sizes # {}
    BY <1>1, <1>2
  <2>2. PICK m \in Sizes : \A k \in Sizes : m <= k
    BY <2>1, LeastOf
  <2> QED
    BY <2>2
<1>4. ASSUME NEW u \in part PROVE \E w \in part : u \in waits[w]
  <2>1. SUFFICES ASSUME \A w \in part : u \notin waits[w] PROVE FALSE
    OBVIOUS
  <2>2. part \ {u} \in Closed
    <3>1. waits[u] \cap part # {} /\ u \notin waits[u]
      OBVIOUS
    <3>2. part \ {u} # {}
      BY <3>1
    <3>3. \A w \in part \ {u} : waits[w] \cap (part \ {u}) # {}
      BY <2>1
    <3> QED
      BY <3>2, <3>3
  <2>3. Cardinality(part \ {u}) = Cardinality(part) - 1
    BY <1>1, FS_RemoveElement
  <2>4. Cardinality(part) <= Cardinality(part \ {u}) /\ Cardinality(part) \in Nat
    BY <1>1, <1>3, <2>2
  <2> QED
    BY <2>3, <2>4
<1> QED
  BY <1>4 DEF Circle
=============================================================================
