---------------------------- MODULE NumberLemmas ----------------------------
(***************************************************************************)
(* What the proofs of several components need of numbers, and of functions *)
(* that are defined from one number to the next: loops of the code, and    *)
(* rounds of an analysis.                                                  *)
(***************************************************************************)
EXTENDS Integers, WellFoundedInduction, TLAPS

\* Every set of natural numbers that is not empty has a least element.
LEMMA LeastNumber ==
  ASSUME NEW T, T \subseteq Nat, T # {}
  PROVE  \E x \in T : \A y \in T : x <= y
<1> DEFINE R == {ss \in Nat \X Nat : ss[1] < ss[2]}
<1>1. IsWellFoundedOn(OpToRel(<, Nat), Nat)
  BY NatLessThanWellFounded
<1>2. OpToRel(<, Nat) = R
  BY DEF OpToRel
<1>3. \E x \in T : \A y \in T : ~ (<<y, x>> \in R)
  BY <1>1, <1>2, WFMin
<1>4. \A x, y \in Nat : ~ (<<y, x>> \in R) => x <= y
  OBVIOUS
<1> HIDE DEF R
<1> QED BY <1>3, <1>4

\* What holds at the start of an interval, and at a place when at the one before, holds
\* in all of it.
LEMMA Ascends ==
  ASSUME NEW a \in Int, NEW b \in Int, NEW T, a <= b => a \in T, \A p \in a + 1 .. b : p - 1 \in T => p \in T
  PROVE  \A p \in a .. b : p \in T
<1> DEFINE Bad == {d \in 0 .. b - a : a + d \notin T}
<1>1. ASSUME Bad # {} PROVE FALSE
  <2>1. Bad \subseteq Nat
    OBVIOUS
  <2>2. PICK d \in Bad : \A e \in Bad : d <= e
    <3> HIDE DEF Bad
    <3> QED BY <1>1, <2>1, LeastNumber
  <2>3. d \in 0 .. b - a /\ a + d \notin T
    OBVIOUS
  <2> HIDE DEF Bad
  <2>4. d # 0
    <3>1. ASSUME d = 0 PROVE FALSE
      <4>1. a <= b
        BY <2>3
      <4>2. a \in T
        BY <4>1
      <4>3. a + d = a
        BY <3>1
      <4>4. QED
        BY <2>3, <4>2, <4>3
    <3>2. QED
      BY <3>1
  <2>5. d - 1 \in 0 .. b - a /\ ~(d <= d - 1)
    BY <2>3, <2>4
  <2>6. a + (d - 1) \in T
    BY <2>2, <2>5 DEF Bad
  <2>7. a + d \in a + 1 .. b /\ (a + d) - 1 = a + (d - 1)
    BY <2>3, <2>4
  <2>8. QED
    BY <2>3, <2>6, <2>7
<1>2. ASSUME NEW p \in a .. b PROVE p \in T
  <2>1. p - a \in 0 .. b - a /\ a + (p - a) = p
    OBVIOUS
  <2>2. QED
    BY <1>1, <2>1
<1>3. QED
  BY <1>2

\* From s0 at a, each place up to b has what F makes of the one before.
Stepwise(a, b, s0, F, g) == g = [p \in a .. b |-> IF p = a THEN s0 ELSE F[<<p, g[p - 1]>>]]

\* There is such a function, and it keeps what F keeps.
LEMMA StepsExist ==
  ASSUME NEW a \in Int, NEW b \in Int, a <= b, NEW I, NEW s0, <<a, s0>> \in I, NEW F,
         \A p \in a + 1 .. b : \A x : <<p - 1, x>> \in I => <<p, F[<<p, x>>]>> \in I
  PROVE  \E g : Stepwise(a, b, s0, F, g) /\ \A p \in a .. b : <<p, g[p]>> \in I
<1> DEFINE runs(m, g) == /\ g = [p \in a .. m |-> IF p = a THEN s0 ELSE F[<<p, g[p - 1]>>]]
                         /\ \A p \in a .. m : <<p, g[p]>> \in I
           T == {m \in a .. b : \E g : runs(m, g)}
<1>1. a \in T
  <2> DEFINE g == [p \in a .. a |-> s0]
  <2>1. \A p \in a .. a : p = a /\ g[p] = s0
    OBVIOUS
  <2>2. g = [p \in a .. a |-> IF p = a THEN s0 ELSE F[<<p, g[p - 1]>>]]
    BY <2>1
  <2>3. \A p \in a .. a : <<p, g[p]>> \in I
    BY <2>1
  <2>4. runs(a, g) /\ a \in a .. b
    BY <2>2, <2>3
  <2>5. QED
    BY <2>4
<1>2. ASSUME NEW m \in a + 1 .. b, m - 1 \in T PROVE m \in T
  <2>1. PICK g : runs(m - 1, g)
    BY <1>2
  <2> DEFINE h == [p \in a .. m |-> IF p = m THEN F[<<m, g[m - 1]>>] ELSE g[p]]
  <2>2. \A p \in a .. m : p = m \/ p \in a .. m - 1
    BY <1>2
  <2>3. m # a /\ m - 1 \in a .. m - 1 /\ m \in a .. m
    BY <1>2
  <2>4. g = [p \in a .. m - 1 |-> IF p = a THEN s0 ELSE F[<<p, g[p - 1]>>]] /\ \A p \in a .. m - 1 : <<p, g[p]>> \in I
    BY <2>1
  <2>5. h[m] = F[<<m, g[m - 1]>>] /\ \A p \in a .. m - 1 : h[p] = g[p]
    <3>1. \A p \in a .. m - 1 : p \in a .. m /\ p # m
      BY <1>2
    <3>2. QED
      BY <2>3, <3>1
  <2>6. \A p \in a .. m : <<p, h[p]>> \in I
    <3>1. <<m, h[m]>> \in I
      BY <2>3, <2>4, <2>5, <1>2
    <3>2. QED
      BY <2>2, <2>4, <2>5, <3>1
  <2>7. ASSUME NEW p \in a .. m PROVE h[p] = IF p = a THEN s0 ELSE F[<<p, h[p - 1]>>]
    <3>1. CASE p = m
      BY <2>3, <2>5, <3>1
    <3>2. CASE p # m
      <4>1. p \in a .. m - 1
        BY <2>2, <3>2
      <4>2. p = a \/ p - 1 \in a .. m - 1
        BY <4>1
      <4>3. g[p] = IF p = a THEN s0 ELSE F[<<p, g[p - 1]>>]
        BY <2>4, <4>1
      <4>4. QED
        BY <2>5, <4>1, <4>2, <4>3
    <3>3. QED
      BY <3>1, <3>2
  <2>8. h = [p \in a .. m |-> h[p]]
    OBVIOUS
  <2> HIDE DEF h
  <2>9. h = [p \in a .. m |-> IF p = a THEN s0 ELSE F[<<p, h[p - 1]>>]]
    BY <2>7, <2>8
  <2>10. runs(m, h)
    BY <2>6, <2>9
  <2>11. m \in a .. b
    BY <1>2
  <2>12. QED
    BY <2>10, <2>11
<1>3. b \in a .. b
  OBVIOUS
<1>4. b \in T
  <2> HIDE DEF T
  <2> QED BY <1>1, <1>2, <1>3, Ascends
<1>5. QED
  BY <1>4 DEF Stepwise
=============================================================================
