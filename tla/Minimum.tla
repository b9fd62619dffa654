------------------------------- MODULE Minimum -------------------------------
(***************************************************************************)
(* A fact about the naturals: the oldest of the inputs of a text (Oldest   *)
(* in Templating) is always one of them, and what holds for no counter-    *)
(* example of least size holds for every size.                             *)
(***************************************************************************)
EXTENDS Integers, WellFoundedInduction, TLAPS

\* A non-empty set of naturals has a least element, so that the CHOOSE by which
\* Templating takes the oldest input of a template is well defined.
LEMMA MinimumExists ==
    ASSUME NEW S, S \subseteq Nat, S # {}
    PROVE  \E x \in S : \A y \in S : x <= y
<1>. DEFINE R == {ss \in Nat \X Nat : ss[1] < ss[2]}
<1>1. IsWellFoundedOn(R, Nat)
  BY NatLessThanWellFounded, Zenon DEF OpToRel
<1>. HIDE DEF R
<1>2. PICK x \in S : \A y \in S : ~(<<y, x>> \in R)
  BY <1>1, WFMin
<1>3. \A y \in S : x <= y
  <2>1. SUFFICES ASSUME NEW y \in S, y < x
                 PROVE  FALSE
    BY <1>2
  <2>2. <<y, x>> \in R
    BY <2>1, <1>2 DEF R
  <2>. QED
    BY <2>2, <1>2
<1>. QED
  BY <1>2, <1>3
===============================================================================
