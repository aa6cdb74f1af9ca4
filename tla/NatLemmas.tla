----------------------------- MODULE NatLemmas ------------------------------
(* The least-number principle and division, in the form in which the proofs  *)
(* use them.                                                                 *)
EXTENDS Integers, WellFoundedInduction, TLAPS

\* Every nonempty set of natural numbers has a least element.
LEMMA LeastNat ==
  ASSUME NEW T, T \subseteq Nat, T # {}
  PROVE  \E x \in T : \A y \in T : x <= y
<1> DEFINE R == {ss \in Nat \X Nat : ss[1] < ss[2]}
<1>1. IsWellFoundedOn(R, Nat)
  BY NatLessThanWellFounded DEF OpToRel
<1>2. PICK x \in T : \A y \in T : ~(<<y, x>> \in R)
  <2> HIDE DEF R
  <2> QED
    BY <1>1, WFMin
<1>3. ASSUME NEW y \in T
      PROVE  x <= y
  <2>1. x \in Nat /\ y \in Nat
    BY <1>3
  <2>2. y < x => <<y, x>> \in R
    BY <2>1
  <2> QED
    BY <1>2, <2>1, <2>2
<1> QED
  BY <1>3

\* Multiplication is monotonic.
LEMMA MulMono ==
  ASSUME NEW x \in Nat, NEW y \in Nat, NEW k \in Nat, x <= y
  PROVE  k * x <= k * y
OBVIOUS

\* What division with remainder says.
LEMMA DivBounds ==
  ASSUME NEW x \in Nat, NEW k \in Nat \ {0}
  PROVE  x \div k \in Nat /\ k * (x \div k) <= x /\ x < k * (x \div k) + k
OBVIOUS

\* A number below (c + 1) * k lies in one of the first c + 1 intervals of length k.
LEMMA DivLess ==
  ASSUME NEW x \in Nat, NEW c \in Nat, NEW k \in Nat \ {0}, x < (c + 1) * k
  PROVE  x \div k <= c
<1> DEFINE q == x \div k
<1>1. q \in Nat /\ k * q <= x
  BY DivBounds
<1> HIDE DEF q
<1>2. SUFFICES ASSUME q >= c + 1 PROVE FALSE
  BY <1>1 DEF q
<1>3. k * (c + 1) <= k * q
  BY <1>1, <1>2, MulMono
<1>4. k * (c + 1) = (c + 1) * k
  OBVIOUS
<1> QED
  BY <1>1, <1>3, <1>4

\* Division is monotonic: a later card is in the same deck or in a later one.
LEMMA DivMono ==
  ASSUME NEW x \in Nat, NEW y \in Nat, NEW k \in Nat \ {0}, x <= y
  PROVE  x \div k <= y \div k
<1> DEFINE q == y \div k
<1>1. q \in Nat /\ y < k * q + k
  BY DivBounds
<1> HIDE DEF q
<1>2. k * q + k = (q + 1) * k
  BY <1>1
<1>3. x < (q + 1) * k
  BY <1>1, <1>2
<1> QED
  BY <1>1, <1>3, DivLess DEF q
=============================================================================
