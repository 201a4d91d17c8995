------------------------------- MODULE Induction -------------------------------
(***************************************************************************)
(* Induction on the natural numbers, stated with a set in the place of the *)
(* predicate: the provers at hand can instantiate it.                      *)
(***************************************************************************)
EXTENDS Integers, FiniteSetTheorems, TLAPS

(* What holds of 0, and of n + 1 whenever it holds of n, holds of every    *)
(* natural number.  A smallest counterexample x would be the last element  *)
(* of a minimal interval 0 .. x, and intervals are well founded.           *)
LEMMA SetInduction ==
  ASSUME NEW S, 0 \in S, \A n \in Nat : n \in S => n + 1 \in S
  PROVE  Nat \subseteq S
<1>1. SUFFICES ASSUME Nat \ S # {} PROVE FALSE
  OBVIOUS
<1> DEFINE T == {0 .. n : n \in Nat \ S}
           R == StrictSubsetOrdering(Nat)
           F == FiniteSubsetsOf(Nat)
<1>2. T \subseteq F /\ T # {}
  <2>1. ASSUME NEW n \in Nat PROVE 0 .. n \in F
    BY <2>1, FS_Interval DEF FiniteSubsetsOf
  <2> QED
    BY <1>1, <2>1
<1>3. IsWellFoundedOn(R, F)
  BY FS_StrictSubsetOrderingWellFounded
<1>4. PICK X \in T : \A Y \in T : ~(<<Y, X>> \in R)
  <2> HIDE DEF R, F, T
  <2> QED
    BY <1>2, <1>3, WFMin
<1>5. PICK x \in Nat \ S : X = 0 .. x
  BY <1>4
<1>6. x # 0 /\ x - 1 \in Nat
  BY <1>5
<1>7. x - 1 \notin S
  BY <1>5, <1>6
<1>8. 0 .. (x - 1) \in T /\ <<0 .. (x - 1), X>> \in R
  BY <1>5, <1>6, <1>7 DEF StrictSubsetOrdering
<1> QED
  BY <1>4, <1>8
================================================================================
