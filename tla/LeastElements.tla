---------------------------- MODULE LeastElements ----------------------------
(* The least of some natural numbers, which the proofs about the oldest call *)
(* and about the first connection of a call need.                            *)
EXTENDS Naturals, FiniteSetTheorems, TLAPS

(* A finite, non-empty set of natural numbers has a least element. *)
LEMMA LeastElement ==
  ASSUME NEW T, T \subseteq Nat, T # {}, IsFiniteSet(T)
  PROVE  \E x \in T : \A y \in T : x <= y
<1> DEFINE Below(x) == {y \in T : y < x}
           W == {Below(x) : x \in T}
<1>1. W \subseteq SUBSET T /\ W # {}
  OBVIOUS
<1>2. W \subseteq FiniteSubsetsOf(T)
  BY <1>1, FS_FiniteSubsetsOfFinite
<1>3. PICK w \in W : \A v \in W : ~(<<v, w>> \in StrictSubsetOrdering(T))
  <2> HIDE DEF W
  <2> QED BY <1>1, <1>2, FS_StrictSubsetOrderingWellFounded, WFMin
<1>4. PICK x \in T : w = Below(x)
  OBVIOUS
<1>5. ASSUME NEW y \in T, y < x PROVE FALSE
  <2>1. ASSUME NEW z \in T, z < y PROVE z < x
    <3>1. x \in Nat /\ y \in Nat /\ z \in Nat
      OBVIOUS
    <3> QED BY <3>1, <2>1, <1>5
  <2>2. Below(y) \subseteq Below(x)
    BY <2>1
  <2>3. y \in Below(x) /\ y \notin Below(y)
    BY <1>5
  <2>4. Below(y) \in W
    OBVIOUS
  <2>5. <<Below(y), Below(x)>> \in StrictSubsetOrdering(T)
    BY <2>2, <2>3, <2>4 DEF StrictSubsetOrdering
  <2> QED BY <1>3, <1>4, <2>4, <2>5
<1> QED BY <1>5

=============================================================================
