---------------------------- MODULE NumberLemmas -----------------------------
(***************************************************************************)
(* What the proofs need to know of numbers: the least and the greatest     *)
(* member of a set, and the functions that are defined by recursion on     *)
(* them.                                                                   *)
(***************************************************************************)
EXTENDS Naturals, FiniteSetsExt, WellFoundedInduction, TLAPS

LEMMA Least ==
  ASSUME NEW S \in SUBSET Nat, S # {}
  PROVE  Min(S) \in S /\ \A y \in S : Min(S) <= y
  <1> DEFINE R == {ss \in Nat \X Nat : ss[1] < ss[2]}
  <1>1. IsWellFoundedOn(R, Nat)
    BY NatLessThanWellFounded, Zenon DEF OpToRel
  <1>2. PICK x \in S : \A y \in S : <<y, x>> \notin R
    BY <1>1, WFMin, Zenon
  <1>3. \A y \in S : x <= y
    <2>1. x \in Nat /\ \A y \in Nat : y < x => <<y, x>> \in R
      OBVIOUS
    <2> HIDE DEF R
    <2>2. ASSUME NEW y \in S PROVE ~ (y < x)
      BY <1>2, <2>1
    <2>3. \A y \in S : y \in Nat
      OBVIOUS
    <2> QED BY <2>1, <2>2, <2>3
  <1> QED BY <1>3 DEF Min

LEMMA Greatest ==
  ASSUME NEW n \in Nat, NEW S \in SUBSET (1..n), S # {}
  PROVE  Max(S) \in S /\ \A y \in S : y <= Max(S)
  <1> DEFINE T == {n - x : x \in S}
  <1>1. T \in SUBSET Nat /\ T # {}
    <2>1. \A x \in S : n - x \in T /\ n - x \in Nat
      OBVIOUS
    <2> QED BY <2>1
  <1>2. PICK x \in S : Min(T) = n - x
    BY <1>1, Least
  <1>3. \A y \in S : n - x <= n - y
    BY <1>1, <1>2, Least
  <1>4. \A y \in S : x >= y
    BY <1>3
  <1> QED BY <1>4 DEF Max

\* The function that starts with start and continues with step.
Follows(f, m, start, step) == f[0] = start /\ \A k \in 1..m : f[k] = step[<<f[k - 1], k>>]

LEMMA Recursion ==
  ASSUME NEW n \in Nat, NEW X, NEW start \in X, NEW step \in [X \X (1..n) -> X]
  PROVE  \E f \in [0..n -> X] : Follows(f, n, start, step)
  <1> DEFINE Defined(m) == \E f \in [0..m -> X] : Follows(f, m, start, step)
             S == {m \in 0..n : ~ Defined(m)}
  <1> SUFFICES ASSUME ~ Defined(n) PROVE FALSE
    OBVIOUS
  <1>1. S \in SUBSET Nat /\ S # {}
    OBVIOUS
  <1>2. PICK m \in S : \A y \in S : m <= y
    <2> HIDE DEF S
    <2> QED BY <1>1, Least
  <1>3. m \in 0..n /\ ~ Defined(m)
    BY <1>2
  <1>4. m # 0
    <2> DEFINE f == [k \in 0..0 |-> start]
    <2>1. f \in [0..0 -> X] /\ Follows(f, 0, start, step)
      BY DEF Follows
    <2> HIDE DEF f
    <2> QED BY <1>3, <2>1
  <1>5. m - 1 \in 0..n /\ m - 1 \notin S
    <2>1. m - 1 \in 0..n /\ ~ (m <= m - 1)
      BY <1>3, <1>4
    <2> HIDE DEF S
    <2> QED BY <1>2, <2>1
  <1>6. PICK f \in [0..m - 1 -> X] : Follows(f, m - 1, start, step)
    BY <1>5
  <1> HIDE DEF Defined, S
  <1>7. f[m - 1] \in X /\ m \in 1..n /\ m - 1 \in Nat
    BY <1>3, <1>4
  <1> DEFINE last == step[<<f[m - 1], m>>]
             g == [k \in 0..m |-> IF k = m THEN last ELSE f[k]]
  <1>8. last \in X
    BY <1>7
  <1> HIDE DEF last
  <1>9. /\ g \in [0..m -> X]
        /\ g[m] = last
        /\ \A k \in 0..m - 1 : g[k] = f[k]
    BY <1>3, <1>7, <1>8
  <1> HIDE DEF g
  <1>10. Follows(g, m, start, step)
    <2>1. g[0] = start
      BY <1>6, <1>7, <1>9 DEF Follows
    <2>2. ASSUME NEW k \in 1..m PROVE g[k] = step[<<g[k - 1], k>>]
      <3>1. CASE k = m
        <4>1. g[k - 1] = f[m - 1]
          BY <1>7, <1>9, <3>1
        <4> QED BY <1>9, <3>1, <4>1 DEF last
      <3>2. CASE k # m
        <4>1. k \in 1..m - 1 /\ k \in 0..m - 1 /\ k - 1 \in 0..m - 1
          BY <1>7, <3>2
        <4> QED BY <1>6, <1>9, <4>1 DEF Follows
      <3> QED BY <3>1, <3>2
    <2> QED BY <2>1, <2>2 DEF Follows
  <1> QED BY <1>3, <1>9, <1>10 DEF Defined
=============================================================================
