---------------------------- MODULE NaturalOrder ----------------------------
(***************************************************************************)
(* Induction over the natural numbers, stated for sets: the least element  *)
(* of a set, and the set that is closed under successors.  The proofs      *)
(* about flushed calls and about levels of the impact analysis rest on it. *)
(***************************************************************************)
EXTENDS Integers, FiniteSetTheorems, WellFoundedInduction, TLAPS

\* Every set of natural numbers but the empty one has a least element: the
\* initial segments 0..m are finite, and strict inclusion of finite sets is
\* well-founded.
LEMMA LeastNatural ==
  ASSUME NEW S, S \subseteq Nat, S # {}
  PROVE  \E m \in S : \A k \in S : m <= k
<1> DEFINE segments == {0..m : m \in S}
           smaller  == StrictSubsetOrdering(Nat)
<1>1. IsWellFoundedOn(smaller, FiniteSubsetsOf(Nat))
  BY FS_StrictSubsetOrderingWellFounded
<1>2. segments \subseteq FiniteSubsetsOf(Nat)
  <2>1. ASSUME NEW m \in S PROVE 0..m \subseteq Nat /\ IsFiniteSet(0..m)
    BY FS_Interval
  <2>. QED BY <2>1 DEF FiniteSubsetsOf
<1>3. segments # {}
  OBVIOUS
<1>4. PICK least \in segments :
        \A other \in segments : ~(<<other, least>> \in smaller)
  <2> HIDE DEF segments, smaller
  <2>. QED BY <1>1, <1>2, <1>3, WFMin
<1>5. PICK m \in S : least = 0..m
  OBVIOUS
<1>6. ASSUME NEW k \in S PROVE m <= k
  <2> SUFFICES ASSUME k < m PROVE FALSE
    OBVIOUS
  <2>1. 0..k \subseteq 0..m /\ 0..k # 0..m
    <3>1. m \in 0..m /\ m \notin 0..k
      OBVIOUS
    <3>. QED BY <3>1
  <2>2. <<0..k, 0..m>> \in smaller
    BY <2>1 DEF StrictSubsetOrdering
  <2>. QED BY <1>4, <1>5, <2>2
<1>. QED BY <1>6

\* A set that holds zero and every successor of its numbers holds them all.
LEMMA SuccessorsHeld ==
  ASSUME NEW S, 0 \in S, \A n \in Nat : n \in S => n + 1 \in S
  PROVE  Nat \subseteq S
<1> SUFFICES ASSUME Nat \ S # {} PROVE FALSE
  OBVIOUS
<1>1. PICK m \in Nat \ S : \A k \in Nat \ S : m <= k
  BY LeastNatural
<1>2. m - 1 \in Nat /\ m - 1 \in S
  BY <1>1
<1>. QED BY <1>1, <1>2
=============================================================================
