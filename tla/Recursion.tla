----------------------------- MODULE Recursion -----------------------------
(***************************************************************************)
(* Induction on the natural numbers and the existence of functions defined *)
(* by recursion on them, for the proofs about operations that go through a *)
(* list one element after the other.  Both are stated of sets, so that no  *)
(* operator is passed as a parameter.                                      *)
(***************************************************************************)
EXTENDS Integers, WellFoundedInduction, TLAPS

Below == {ss \in Nat \X Nat : ss[1] < ss[2]}

LEMMA BelowIsWellFounded == IsWellFoundedOn(Below, Nat)
BY NatLessThanWellFounded DEF OpToRel, Below

\* Induction: a set that has 0, and with every number the next, has them all.
LEMMA SetInduction ==
    ASSUME NEW S, 0 \in S, \A n \in Nat : n \in S => n + 1 \in S
    PROVE  Nat \subseteq S
<1>1. SUFFICES ASSUME Nat \ S # {} PROVE FALSE
  OBVIOUS
<1>2. PICK x \in Nat \ S : \A y \in Nat \ S : <<y, x>> \notin Below
  BY <1>1, BelowIsWellFounded, WFMin, Nat \ S \subseteq Nat
<1>3. x # 0 /\ x - 1 \in Nat /\ x - 1 < x
  OBVIOUS
<1>4. <<x - 1, x>> \in Below
  BY <1>3 DEF Below
<1>5. x - 1 \in S
  BY <1>2, <1>3, <1>4
<1> QED
  BY <1>3, <1>5

\* The same up to a bound.
LEMMA BoundedInduction ==
    ASSUME NEW N \in Nat, NEW S, 0 \in S, \A n \in 1..N : n - 1 \in S => n \in S
    PROVE  0..N \subseteq S
<1> DEFINE T == {n \in Nat : n <= N => n \in S}
<1>1. 0 \in T
  OBVIOUS
<1>2. ASSUME NEW n \in Nat, n \in T PROVE n + 1 \in T
  <2>1. SUFFICES ASSUME n + 1 <= N PROVE n + 1 \in S
    OBVIOUS
  <2>2. n <= N /\ n + 1 \in 1..N /\ (n + 1) - 1 = n
    BY <2>1
  <2>3. n \in S
    BY <1>2, <2>2
  <2> QED
    BY <2>2, <2>3
<1> HIDE DEF T
<1>3. Nat \subseteq T
  BY <1>1, <1>2, SetInduction
<1> QED
  BY <1>3 DEF T

\* How the next value is had from the one before and its number.
Steps(V, N) == [V \X (1..N) -> V]

\* f starts with b and takes each next value with G.
Follows(f, V, b, N, G) ==
    /\ f \in [0..N -> V]
    /\ f[0] = b
    /\ \A n \in 1..N : f[n] = G[<<f[n - 1], n>>]

\* Such a function exists.
LEMMA RecursionExists ==
    ASSUME NEW V, NEW b \in V, NEW N \in Nat, NEW G \in Steps(V, N)
    PROVE  \E f : Follows(f, V, b, N, G)
<1> USE DEF Steps
<1> DEFINE Computes(f, m) == f \in [0..m -> V] /\ f[0] = b /\ \A n \in 1..m : f[n] = G[<<f[n - 1], n>>]
           S == {m \in 0..N : \E f \in [0..m -> V] : Computes(f, m)}
<1>1. 0 \in S
  <2> DEFINE f == [n \in 0..0 |-> b]
  <2>1. f \in [0..0 -> V] /\ f[0] = b
    OBVIOUS
  <2>2. \A n \in 1..0 : FALSE
    OBVIOUS
  <2> HIDE DEF f
  <2> QED
    BY <2>1, <2>2
<1>2. ASSUME NEW m \in 1..N, m - 1 \in S PROVE m \in S
  <2>1. PICK f \in [0..(m - 1) -> V] : Computes(f, m - 1)
    BY <1>2
  <2> DEFINE g == [n \in 0..m |-> IF n = m THEN G[<<f[m - 1], m>>] ELSE f[n]]
  <2>2. m - 1 \in 0..(m - 1) /\ \A n \in 0..m : n = m \/ n \in 0..(m - 1)
    OBVIOUS
  <2>3. f[m - 1] \in V /\ <<f[m - 1], m>> \in V \X (1..N)
    BY <2>2
  <2>4. G[<<f[m - 1], m>>] \in V
    BY <2>3
  <2>5. g \in [0..m -> V]
    BY <2>2, <2>4
  <2>6. /\ g[m] = G[<<f[m - 1], m>>]
        /\ \A n \in 0..(m - 1) : g[n] = f[n]
    OBVIOUS
  <2>7. 0 \in 0..(m - 1) /\ \A n \in 1..m : n - 1 \in 0..(m - 1) /\ (n = m \/ n \in 1..(m - 1))
    OBVIOUS
  <2> HIDE DEF g
  <2>8. g[0] = b
    BY <2>1, <2>6, <2>7
  <2>9. ASSUME NEW n \in 1..m PROVE g[n] = G[<<g[n - 1], n>>]
    <3>1. g[n - 1] = f[n - 1]
      BY <2>6, <2>7
    <3>2. CASE n = m
      BY <2>6, <3>1, <3>2
    <3>3. CASE n \in 1..(m - 1)
      <4>1. g[n] = f[n] /\ f[n] = G[<<f[n - 1], n>>]
        BY <2>1, <2>6, <3>3
      <4> QED
        BY <3>1, <4>1
    <3> QED
      BY <2>7, <3>2, <3>3
  <2>10. Computes(g, m)
    BY <2>5, <2>8, <2>9
  <2> QED
    BY <2>5, <2>10
<1> HIDE DEF S
<1>3. 0..N \subseteq S
  BY <1>1, <1>2, BoundedInduction
<1>4. N \in S
  BY <1>3
<1> QED
  BY <1>4 DEF S, Follows
=============================================================================
