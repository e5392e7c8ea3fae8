--------------------------- MODULE RecursionFacts ---------------------------
(***************************************************************************)
(* Induction along an initial interval of the naturals, stated over sets,  *)
(* and what it says of a function defined by recursion on its argument.    *)
(* The proofs about logs and record lists cite these.                      *)
(***************************************************************************)
EXTENDS Naturals, WellFoundedInduction, TLAPS

\* Every set of naturals that is not empty has a least member.
LEMMA LeastNatural ==
    ASSUME NEW X, X \subseteq Nat, X # {}
    PROVE  \E n \in X : \A m \in X : n <= m
<1> DEFINE Less == {p \in Nat \X Nat : p[1] < p[2]}
<1>1. IsWellFoundedOn(Less, Nat)
  BY NatLessThanWellFounded, Zenon DEF OpToRel
<1>2. \E n \in X : \A m \in X : <<m, n>> \notin Less
  <2> HIDE DEF Less
  <2> QED BY <1>1, WFMin
<1>3. \A m, n \in Nat : <<m, n>> \notin Less => n <= m
  <2> TAKE m, n \in Nat
  <2>1. <<m, n>> \in Nat \X Nat /\ <<m, n>>[1] = m /\ <<m, n>>[2] = n
    OBVIOUS
  <2> QED BY <2>1
<1>4. QED
  <2> HIDE DEF Less
  <2> QED BY <1>2, <1>3

\* A set that holds 0 and, with each number below N, the next one, holds
\* every number up to N.
LEMMA IntervalInduction ==
    ASSUME NEW N \in Nat, NEW S, 0 \in S,
           \A n \in 1..N : n - 1 \in S => n \in S
    PROVE  \A n \in 0..N : n \in S
<1> DEFINE Missing == {n \in 0..N : n \notin S}
<1> SUFFICES ASSUME Missing # {} PROVE FALSE
  OBVIOUS
<1>1. PICK k \in Missing : \A m \in Missing : k <= m
  <2>1. Missing \subseteq Nat
    OBVIOUS
  <2> HIDE DEF Missing
  <2> QED BY <2>1, LeastNatural
<1>2. k \in 1..N /\ k - 1 \in 0..N /\ ~ (k <= k - 1)
  BY <1>1
<1>3. k - 1 \in S
  BY <1>1, <1>2
<1> QED BY <1>1, <1>2, <1>3

\* What the n-th value of a recursive function is, given the values before.
Fold(base, step, g, n) == IF n = 0 THEN base ELSE step[<<n, g[n - 1]>>]

\* The steps of a recursion over 0..N on T, and that such a recursion has a
\* solution.  They are named to keep the provers from expanding function sets
\* where they only have to match this lemma.
StepsOn(N, T) == [(1..N) \X T -> T]

HasSolution(N, T, base, step) ==
    \E g \in [0..N -> T] : \A n \in 0..N : g[n] = Fold(base, step, g, n)

\* A recursion over 0..N whose step is a function on T has a solution in T.
LEMMA FoldExists ==
    ASSUME NEW N \in Nat, NEW T, NEW base \in T,
           NEW step \in StepsOn(N, T)
    PROVE  HasSolution(N, T, base, step)
<1> USE DEF StepsOn
<1> DEFINE Solves(g, k) == \A n \in 0..k : g[n] = Fold(base, step, g, n)
           S == {k \in 0..N : \E g \in [0..k -> T] : Solves(g, k)}
<1>1. 0 \in S
  <2>1. Solves([n \in 0..0 |-> base], 0)
    BY DEF Fold
  <2> QED BY <2>1
<1>2. ASSUME NEW k \in 1..N, k - 1 \in S PROVE k \in S
  <2>1. k - 1 \in 0..N /\ k \in 0..N /\ k # 0
    OBVIOUS
  <2>2. PICK g \in [0..(k - 1) -> T] : Solves(g, k - 1)
    BY <1>2
  <2> DEFINE h == [n \in 0..k |-> IF n = k THEN step[<<k, g[k - 1]>>] ELSE g[n]]
  <2>3. k - 1 \in 0..(k - 1) /\ step[<<k, g[k - 1]>>] \in T
    BY <2>1
  <2>4. h \in [0..k -> T]
    BY <2>3
  <2>5. ASSUME NEW n \in 0..k PROVE h[n] = Fold(base, step, h, n)
    <3>1. CASE n = k
      <4>1. h[k - 1] = g[k - 1]
        BY <2>1
      <4> QED BY <3>1, <4>1, <2>1 DEF Fold
    <3>2. CASE n # k
      <4>1. n \in 0..(k - 1) /\ h[n] = g[n]
        BY <3>2
      <4>2. g[n] = Fold(base, step, g, n)
        <5> HIDE DEF h
        <5> QED BY <2>2, <4>1
      <4>3. n # 0 => h[n - 1] = g[n - 1]
        BY <4>1
      <4> HIDE DEF h
      <4> QED BY <4>1, <4>2, <4>3 DEF Fold
    <3> QED BY <3>1, <3>2
  <2>6. Solves(h, k)
    BY <2>5
  <2> HIDE DEF h, Solves
  <2> QED BY <2>1, <2>4, <2>6
<1>3. N \in 0..N
  OBVIOUS
<1>4. N \in S
  <2> HIDE DEF S
  <2> QED BY <1>1, <1>2, <1>3, IntervalInduction
<1> QED BY <1>4 DEF HasSolution
=============================================================================
