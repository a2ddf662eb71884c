----------------------------- MODULE Induction -----------------------------
(***************************************************************************)
(* Induction over the naturals, stated with a set in place of a predicate: *)
(* a theorem whose parameter is an operator cannot be cited for the        *)
(* provers used here, and one whose parameter is a set can.  What holds of *)
(* every number is proved of the set of the numbers it holds of.           *)
(***************************************************************************)
EXTENDS Naturals, WellFoundedInduction, TLAPS

LEMMA NatSetInduction ==
    ASSUME NEW T, 0 \in T, \A n \in Nat : n \in T => n + 1 \in T
    PROVE  \A n \in Nat : n \in T
<1> DEFINE R == {p \in Nat \X Nat : p[1] < p[2]}
           B == Nat \ T
<1>1. IsWellFoundedOn(R, Nat)
  BY NatLessThanWellFounded DEF OpToRel
<1>2. SUFFICES ASSUME B # {} PROVE FALSE
  OBVIOUS
<1>3. \A x, y \in Nat : x < y => <<x, y>> \in R
  OBVIOUS
<1>4. B \subseteq Nat
  OBVIOUS
<1>5. \A x : x \in B <=> x \in Nat /\ x \notin T
  OBVIOUS
<1> HIDE DEF R, B
<1>6. PICK x \in B : \A y \in B : <<y, x>> \notin R
  BY <1>1, <1>2, <1>4, WFMin
<1>7. x \in Nat /\ x \notin T /\ x # 0
  BY <1>5
<1>8. x - 1 \in Nat /\ x - 1 < x /\ x = (x - 1) + 1
  BY <1>7
<1>9. x - 1 \in B
  BY <1>5, <1>7, <1>8
<1>10. QED
  BY <1>3, <1>6, <1>7, <1>8, <1>9

\* The same from a number on, and up to one.
LEMMA UpToInduction ==
    ASSUME NEW T, NEW N \in Nat, 0 \in T, \A n \in 0..(N - 1) : n \in T => n + 1 \in T
    PROVE  \A n \in 0..N : n \in T
<1> DEFINE U == {n \in Nat : n <= N => n \in T}
<1>1. 0 \in U
  OBVIOUS
<1>2. \A n \in Nat : n \in U => n + 1 \in U
  OBVIOUS
<1> HIDE DEF U
<1>3. \A n \in Nat : n \in U
  BY <1>1, <1>2, NatSetInduction
<1>4. QED
  BY <1>3 DEF U

LEMMA GreatestExists ==
    ASSUME NEW N \in Nat, NEW S \in SUBSET (1..N), S # {}
    PROVE  \E i \in S : \A j \in S : j <= i
<1> DEFINE T == {n \in Nat : \A R \in SUBSET (1..n) : R # {} => \E i \in R : \A j \in R : j <= i}
<1>1. 0 \in T
  <2>1. 1..0 = {}
    OBVIOUS
  <2>2. QED
    BY <2>1
<1>2. ASSUME NEW n \in Nat, n \in T
      PROVE  n + 1 \in T
  <2> SUFFICES ASSUME NEW R \in SUBSET (1..(n + 1)), R # {}
               PROVE  \E i \in R : \A j \in R : j <= i
    OBVIOUS
  <2>1. CASE n + 1 \in R
    BY <2>1
  <2>2. CASE n + 1 \notin R
    <3>1. R \in SUBSET (1..n)
      BY <2>2
    <3>2. QED
      BY <1>2, <3>1
  <2>3. QED
    BY <2>1, <2>2
<1> HIDE DEF T
<1>3. \A n \in Nat : n \in T
  BY <1>1, <1>2, NatSetInduction
<1>4. QED
  BY <1>3 DEF T

-----------------------------------------------------------------------------
(* What is computed from a by one step after another: G[n] makes f[n] of   *)
(* f[n - 1].                                                               *)

Steps(f, a, G, N) == f[0] = a /\ \A n \in 1..N : f[n] = G[n][f[n - 1]]

LEMMA StepsExist ==
    ASSUME NEW S, NEW N \in Nat, NEW a \in S, NEW G \in [1..N -> [S -> S]]
    PROVE  \E f \in [0..N -> S] : Steps(f, a, G, N)
<1> DEFINE T == {n \in 0..N : \E f \in [0..n -> S] : Steps(f, a, G, n)}
<1>1. 0 \in T
  <2> DEFINE f == [k \in 0..0 |-> a]
  <2>1. f \in [0..0 -> S] /\ f[0] = a
    OBVIOUS
  <2>2. 1..0 = {} /\ 0 \in 0..N
    OBVIOUS
  <2> HIDE DEF f
  <2>3. Steps(f, a, G, 0)
    BY <2>1, <2>2 DEF Steps
  <2>4. QED
    BY <2>1, <2>2, <2>3
<1>2. ASSUME NEW n \in 0..(N - 1), n \in T
      PROVE  n + 1 \in T
  <2>1. PICK f \in [0..n -> S] : Steps(f, a, G, n)
    BY <1>2
  <2>2. n \in Nat /\ n + 1 \in 0..N /\ n + 1 \in 1..N /\ n \in 0..n /\ n + 1 \notin 0..n /\ (n + 1) - 1 = n
    OBVIOUS
  <2> DEFINE h == [k \in 0..(n + 1) |-> IF k = n + 1 THEN G[n + 1][f[n]] ELSE f[k]]
  <2>3. G[n + 1] \in [S -> S] /\ f[n] \in S
    BY <2>1, <2>2
  <2>4. G[n + 1][f[n]] \in S
    BY <2>3
  <2>5. h \in [0..(n + 1) -> S] /\ h[n + 1] = G[n + 1][f[n]] /\ \A k \in 0..n : h[k] = f[k]
    BY <2>1, <2>2, <2>4
  <2> HIDE DEF h
  <2>6. h[0] = a /\ \A k \in 1..n : h[k] = G[k][h[k - 1]]
    BY <2>1, <2>2, <2>5 DEF Steps
  <2>7. Steps(h, a, G, n + 1)
    <3>1. \A k \in 1..(n + 1) : k = n + 1 \/ k \in 1..n
      BY <2>2
    <3>2. h[n + 1] = G[n + 1][h[(n + 1) - 1]]
      BY <2>2, <2>5
    <3>3. QED
      BY <2>6, <3>1, <3>2 DEF Steps
  <2>8. QED
    BY <2>2, <2>5, <2>7
<1> HIDE DEF T
<1>3. \A n \in 0..N : n \in T
  BY <1>1, <1>2, UpToInduction
<1>4. N \in 0..N
  OBVIOUS
<1>5. QED
  BY <1>3, <1>4 DEF T

\* As far as the steps are the same, so are their results.
LEMMA StepsAgree ==
    ASSUME NEW N \in Nat, NEW a, NEW G, NEW H, NEW f, NEW h, Steps(f, a, G, N), Steps(h, a, H, N),
           \A n \in 1..N : G[n] = H[n]
    PROVE  \A n \in 0..N : f[n] = h[n]
<1> DEFINE T == {n \in 0..N : f[n] = h[n]}
<1>1. 0 \in T
  BY DEF Steps
<1>2. ASSUME NEW n \in 0..(N - 1), n \in T
      PROVE  n + 1 \in T
  <2>1. n + 1 \in 1..N /\ n + 1 \in 0..N /\ (n + 1) - 1 = n
    OBVIOUS
  <2>2. f[n + 1] = G[n + 1][f[n]] /\ h[n + 1] = H[n + 1][h[n]]
    BY <2>1 DEF Steps
  <2>3. QED
    BY <1>2, <2>1, <2>2
<1> HIDE DEF T
<1>3. \A n \in 0..N : n \in T
  BY <1>1, <1>2, UpToInduction
<1>4. QED
  BY <1>3 DEF T
=============================================================================
