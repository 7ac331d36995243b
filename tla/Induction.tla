------------------------------ MODULE Induction ------------------------------
(***************************************************************************)
(* Induction over the naturals with a set in place of a predicate, which   *)
(* the provers can be given.                                               *)
(***************************************************************************)
EXTENDS Integers, WellFoundedInduction, TLAPS

\* A set of naturals has a least element.
LEMMA LeastNatural ==
    ASSUME NEW T, T \subseteq Nat, T # {}
    PROVE  \E x \in T : \A y \in T : x <= y
<1> DEFINE R == OpToRel(<, Nat)
<1>1. IsWellFoundedOn(R, Nat)
  BY NatLessThanWellFounded
<1> HIDE DEF R
<1>2. PICK x \in T : \A y \in T : ~ (<<y, x>> \in R)
  BY <1>1, WFMin
<1>3. \A y \in T : ~ (y < x)
  BY <1>2 DEF R, OpToRel
<1> QED
  BY <1>2, <1>3

\* A set with 0 and all successors has every natural.
LEMMA NatSetInduction ==
    ASSUME NEW S, 0 \in S, \A n \in Nat : n \in S => n + 1 \in S
    PROVE  Nat \subseteq S
<1> DEFINE T == Nat \ S
<1>1. SUFFICES ASSUME T # {} PROVE FALSE
  OBVIOUS
<1>2. PICK x \in T : \A y \in T : x <= y
  BY <1>1, LeastNatural
<1>3. x # 0 /\ x - 1 \in Nat /\ x - 1 \notin T
  BY <1>2
<1> QED
  BY <1>3

\* g starts at x and takes n steps.
Iterates(g, x, step, n) ==
    g[0] = x /\ \A k \in 1..n : g[k] = step[<<k, g[k - 1]>>]

\* A function defined by its first value and a step exists.
LEMMA IterationExists ==
    ASSUME NEW S, NEW x \in S, NEW step \in [Nat \X S -> S], NEW n \in Nat
    PROVE  \E g \in [0..n -> S] : Iterates(g, x, step, n)
<1> DEFINE Good == {m \in Nat : \E g \in [0..m -> S] : Iterates(g, x, step, m)}
<1>1. 0 \in Good
  <2> DEFINE g == [k \in 0..0 |-> x]
  <2>1. g \in [0..0 -> S] /\ Iterates(g, x, step, 0)
    BY DEF Iterates
  <2> QED
    BY <2>1
<1>2. ASSUME NEW m \in Nat, m \in Good PROVE m + 1 \in Good
  <2>1. PICK h \in [0..m -> S] : Iterates(h, x, step, m)
    BY <1>2
  <2> DEFINE last == step[<<m + 1, h[m]>>]
             g == [k \in 0..(m + 1) |-> IF k = m + 1 THEN last ELSE h[k]]
  <2>2. m + 1 \in Nat /\ m \in 0..m /\ last \in S
    OBVIOUS
  <2> HIDE DEF last
  <2>3. g \in [0..(m + 1) -> S]
    BY <2>2
  <2>4. g[m + 1] = last /\ \A k \in 0..m : g[k] = h[k]
    OBVIOUS
  <2> HIDE DEF g
  <2>5. ASSUME NEW k \in 1..(m + 1) PROVE g[k] = step[<<k, g[k - 1]>>]
    <3>1. CASE k = m + 1
      <4>1. k - 1 = m /\ g[k - 1] = h[m]
        BY <2>2, <2>4, <3>1
      <4> QED
        BY <2>4, <3>1, <4>1 DEF last
    <3>2. CASE k # m + 1
      <4>1. k \in 1..m /\ k \in 0..m /\ k - 1 \in 0..m
        BY <3>2
      <4> QED
        BY <2>1, <2>4, <4>1 DEF Iterates
    <3> QED
      BY <3>1, <3>2
  <2>6. Iterates(g, x, step, m + 1)
    BY <2>1, <2>2, <2>4, <2>5 DEF Iterates
  <2> QED
    BY <2>2, <2>3, <2>6
<1>3. Nat \subseteq Good
  <2> HIDE DEF Good
  <2> QED
    BY <1>1, <1>2, NatSetInduction
<1> QED
  BY <1>3
=============================================================================
