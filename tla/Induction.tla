------------------------------- MODULE Induction -------------------------------
(***************************************************************************)
(* Induction on the natural numbers, stated of a set: the proofs about the *)
(* recursive functions of the models put into a set the numbers for which  *)
(* what they want holds.  It follows from the well-foundedness of <.       *)
(***************************************************************************)
EXTENDS Integers, WellFoundedInduction, TLAPS

\* A set of numbers that is not empty has a least one.
LEMMA LeastNat ==
    ASSUME NEW S, S \subseteq Nat, S # {}
    PROVE  \E m \in S : \A n \in S : m <= n
<1>. DEFINE Less == {p \in Nat \X Nat : p[1] < p[2]}
<1>1. IsWellFoundedOn(Less, Nat)
    BY NatLessThanWellFounded DEF OpToRel
<1>2. \E m \in S : \A n \in S : <<n, m>> \notin Less
    <2>. HIDE DEF Less
    <2>. QED  BY <1>1, WFMin
<1>3. PICK m \in S : \A n \in S : <<n, m>> \notin Less
    BY <1>2
<1>4. ASSUME NEW n \in S PROVE m <= n
    <2>1. m \in Nat /\ n \in Nat /\ <<n, m>> \in Nat \X Nat
        OBVIOUS
    <2>2. ~(n < m)
        BY <1>3, <2>1
    <2>. QED  BY <2>1, <2>2
<1>. QED  BY <1>3, <1>4

\* A set with 0, and with the successor of each number it has, has every number.
LEMMA Induct ==
    ASSUME NEW S, 0 \in S, \A n \in Nat : n \in S => n + 1 \in S
    PROVE  Nat \subseteq S
<1>1. SUFFICES ASSUME Nat \ S # {} PROVE FALSE
    OBVIOUS
<1>2. PICK m \in Nat \ S : \A n \in Nat \ S : m <= n
    <2>1. Nat \ S \subseteq Nat
        OBVIOUS
    <2>. QED  BY <1>1, <2>1, LeastNat
<1>3. m # 0 /\ m - 1 \in Nat
    BY <1>2
<1>4. m - 1 \in S
    BY <1>2, <1>3
<1>. QED  BY <1>2, <1>3, <1>4
=============================================================================
