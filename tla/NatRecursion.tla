----------------------------- MODULE NatRecursion -----------------------------
(***************************************************************************)
(* Induction and recursion over the natural numbers as facts about sets    *)
(* and functions.  The proofs about recursive definitions of the models    *)
(* rest on these: the property is given as the set of the numbers that     *)
(* have it, the step of a recursion as a function.                         *)
(***************************************************************************)
EXTENDS Naturals, NaturalsInduction, WellFoundedInduction, TLAPS

\* A set of natural numbers has a least element.
LEMMA LeastElement ==
  ASSUME NEW T, T \subseteq Nat, T # {}
  PROVE  \E m \in T : \A j \in T : m <= j
<1> DEFINE R == OpToRel(<, Nat)
<1>1. IsWellFoundedOn(R, Nat)
  BY NatLessThanWellFounded
<1>2. \A j, k \in Nat : j < k => <<j, k>> \in R
  BY DEF OpToRel
<1> HIDE DEF R
<1>3. PICK m \in T : \A j \in T : ~ (<<j, m>> \in R)
  BY <1>1, WFMin
<1>4. ASSUME NEW j \in T PROVE m <= j
  <2>1. j \in Nat /\ m \in Nat /\ ~ (j < m)
    BY <1>2, <1>3
  <2> QED
    BY <2>1
<1> QED
  BY <1>4

\* Induction: P holds every number if it holds 0 and each successor of a member.
LEMMA SetInduction ==
  ASSUME NEW P, 0 \in P, \A n \in Nat : n \in P => n + 1 \in P
  PROVE  Nat \subseteq P
<1> SUFFICES ASSUME Nat \ P # {} PROVE FALSE
  OBVIOUS
<1>1. PICK m \in Nat \ P : \A j \in Nat \ P : m <= j
  BY LeastElement
<1>2. m # 0 /\ m - 1 \in Nat
  BY <1>1
<1>3. m - 1 \in P
  BY <1>1, <1>2
<1>4. (m - 1) + 1 \in P
  BY <1>2, <1>3
<1> QED
  BY <1>1, <1>4

\* What the first n + 1 values of a recursive function are.
IsStart(g, n, S, base, step) ==
  /\ g \in [0 .. n -> S]
  /\ g[0] = base
  /\ \A k \in 0 .. n : k + 1 <= n => g[k + 1] = step[<<k, g[k]>>]

LEMMA StartsAgree ==
  ASSUME NEW S, NEW base \in S, NEW step \in [Nat \X S -> S], NEW m \in Nat, NEW n \in Nat,
         NEW g, NEW h, IsStart(g, m, S, base, step), IsStart(h, n, S, base, step)
  PROVE  \A k \in Nat : k <= m /\ k <= n => g[k] = h[k]
<1> DEFINE P == {k \in Nat : k <= m /\ k <= n => g[k] = h[k]}
<1>1. 0 \in P
  BY DEF IsStart
<1>2. ASSUME NEW k \in Nat, k \in P PROVE k + 1 \in P
  <2>1. ASSUME k + 1 <= m, k + 1 <= n PROVE g[k + 1] = h[k + 1]
    <3>1. k \in 0 .. m /\ k \in 0 .. n /\ g[k] = h[k]
      BY <1>2, <2>1
    <3> QED
      BY <2>1, <3>1 DEF IsStart
  <2> QED
    BY <2>1
<1> HIDE DEF P
<1>3. Nat \subseteq P
  BY <1>1, <1>2, SetInduction
<1> QED
  BY <1>3 DEF P

LEMMA StartExists ==
  ASSUME NEW S, NEW base \in S, NEW step \in [Nat \X S -> S]
  PROVE  \A n \in Nat : \E g : IsStart(g, n, S, base, step)
<1> DEFINE P == {n \in Nat : \E g : IsStart(g, n, S, base, step)}
<1>1. 0 \in P
  <2>1. IsStart([k \in 0 .. 0 |-> base], 0, S, base, step)
    BY DEF IsStart
  <2> QED
    BY <2>1
<1>2. ASSUME NEW n \in Nat, n \in P PROVE n + 1 \in P
  <2>1. PICK g : IsStart(g, n, S, base, step)
    BY <1>2
  <2> DEFINE h == [k \in 0 .. n + 1 |-> IF k <= n THEN g[k] ELSE step[<<n, g[n]>>]]
  <2>2. g[n] \in S
    BY <2>1 DEF IsStart
  <2>3. h \in [0 .. n + 1 -> S]
    BY <2>1, <2>2 DEF IsStart
  <2>4. h[0] = base
    BY <2>1 DEF IsStart
  <2>5. ASSUME NEW k \in 0 .. n + 1, k + 1 <= n + 1
        PROVE  h[k + 1] = step[<<k, h[k]>>]
    <3>1. CASE k + 1 <= n
      BY <2>1, <2>5, <3>1 DEF IsStart
    <3>2. CASE k = n
      BY <2>5, <3>2
    <3> QED
      BY <2>5, <3>1, <3>2
  <2> HIDE DEF h
  <2>6. IsStart(h, n + 1, S, base, step)
    BY <2>3, <2>4, <2>5 DEF IsStart
  <2> QED
    BY <2>6
<1> HIDE DEF P
<1>3. Nat \subseteq P
  BY <1>1, <1>2, SetInduction
<1> QED
  BY <1>3 DEF P

\* The function f on the naturals with the given value at 0 and the given step.
IsRecursive(f, S, base, step) ==
  f \in [Nat -> S] /\ f[0] = base /\ \A n \in Nat : f[n + 1] = step[<<n, f[n]>>]

\* Recursion: there is such a function.
LEMMA SetRecursion ==
  ASSUME NEW S, NEW base \in S, NEW step \in [Nat \X S -> S]
  PROVE  \E f : IsRecursive(f, S, base, step)
<1> DEFINE G == [n \in Nat |-> CHOOSE g : IsStart(g, n, S, base, step)]
           f == [n \in Nat |-> G[n][n]]
<1>1. ASSUME NEW n \in Nat PROVE IsStart(G[n], n, S, base, step)
  BY StartExists
<1> HIDE DEF G
<1>2. f \in [Nat -> S]
  BY <1>1 DEF IsStart
<1>3. f[0] = base
  BY <1>1 DEF IsStart
<1>4. ASSUME NEW n \in Nat PROVE f[n + 1] = step[<<n, f[n]>>]
  <2>1. IsStart(G[n], n, S, base, step) /\ IsStart(G[n + 1], n + 1, S, base, step)
    BY <1>1
  <2>2. G[n][n] = G[n + 1][n]
    <3> DEFINE m == n + 1
               g == G[n]
               h == G[m]
    <3>1. m \in Nat /\ n <= m
      OBVIOUS
    <3>2. IsStart(g, n, S, base, step) /\ IsStart(h, m, S, base, step)
      BY <2>1
    <3>3. g[n] = h[n]
      <4> HIDE DEF m, g, h
      <4> QED
        BY <3>1, <3>2, StartsAgree
    <3> QED
      BY <3>3
  <2>3. G[n + 1][n + 1] = step[<<n, G[n + 1][n]>>]
    BY <2>1 DEF IsStart
  <2> QED
    BY <2>2, <2>3
<1> HIDE DEF f
<1> QED
  BY <1>2, <1>3, <1>4 DEF IsRecursive
==============================================================================
