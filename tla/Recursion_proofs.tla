-------------------------- MODULE Recursion_proofs --------------------------
(***************************************************************************)
(* Induction on numbers without an operator as a parameter: the numbers of *)
(* which a statement holds are a set.  This is how the recursive functions *)
(* of Paging and FileSys are reasoned about.                               *)
(***************************************************************************)
EXTENDS Integers, WellFoundedInduction, TLAPS

(* A set of numbers that is not empty has a least element.                 *)
LEMMA LeastNumber ==
  ASSUME NEW T \in SUBSET Nat, T # {}
  PROVE  \E n \in T : \A m \in T : n <= m
<1> DEFINE R == {ss \in Nat \X Nat : ss[1] < ss[2]}
<1>1. IsWellFoundedOn(R, Nat)
  BY NatLessThanWellFounded DEF OpToRel
<1>2. PICK n \in T : \A m \in T : <<m, n>> \notin R
  <2> HIDE DEF R
  <2> QED  BY <1>1, WFMin
<1>3. ASSUME NEW m \in T PROVE n <= m
  <2>1. <<m, n>> \in Nat \X Nat /\ <<m, n>>[1] = m /\ <<m, n>>[2] = n
    OBVIOUS
  <2>2. ~ (m < n)
    BY <1>2, <2>1
  <2> QED  BY <2>2
<1> QED  BY <1>3

(* A set of numbers that has 0, and with each number the next, has all.    *)
LEMMA Numbers ==
  ASSUME NEW T \in SUBSET Nat, 0 \in T, \A n \in T : n + 1 \in T
  PROVE  T = Nat
<1> SUFFICES ASSUME Nat \ T # {} PROVE FALSE
  OBVIOUS
<1>1. PICK n \in Nat \ T : \A m \in Nat \ T : n <= m
  BY LeastNumber
<1>2. n # 0 /\ n - 1 \in Nat
  OBVIOUS
<1>3. n - 1 \in T
  BY <1>1, <1>2
<1> QED  BY <1>2, <1>3

(* The same for the numbers up to a bound.                                 *)
LEMMA NumbersUpTo ==
  ASSUME NEW b \in Nat, NEW T, 0 \in T, \A n \in 0..(b - 1) : n \in T => n + 1 \in T
  PROVE  0..b \subseteq T
<1> DEFINE U == {n \in Nat : n <= b => n \in T}
<1>1. 0 \in U /\ \A n \in U : n + 1 \in U
  OBVIOUS
<1>2. U = Nat
  <2> HIDE DEF U
  <2> QED  BY <1>1, Numbers, U \subseteq Nat DEF U
<1> QED  BY <1>2
=============================================================================
