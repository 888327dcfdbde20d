---------------------------- MODULE NormalizerProof ----------------------------
(***************************************************************************)
(* Proofs about the normaliser, for every module, function and command     *)
(* line.  Nothing a module pass leaves in the module refers to a function  *)
(* or a global that a pass has erased, the functions it leaves do what     *)
(* they did, and a function pass crashes only on a slot that is read       *)
(* before it is written.                                                   *)
(*                                                                         *)
(* The argument has four parts.  The queue always has InitGlobal before    *)
(* every other module pass and ElimAllocaStoreArg before every other       *)
(* function pass, so each finds the module, or the function, as it was     *)
(* read (OrderInv); from there every visit, erasure and inlining keeps     *)
(* every reference of the module pointing at something it still lists      *)
(* (ModuleInv); a call and the body of a forwarding function, cut into     *)
(* pieces and put together again, do the same (CallsInv); and every        *)
(* function pass leaves to the next a function with no empty block and a   *)
(* record for each instruction in place (CrashInv).                        *)
(***************************************************************************)
EXTENDS Normalizer, NatRecursion, SequenceTheorems, FiniteSetTheorems, TLAPS

------------------------------------------------------------------------------
(* Sequences *)

\* The length, the domain and the elements of a sequence.
LEMMA SequenceFacts ==
  ASSUME NEW s, IsSequence(s)
  PROVE  /\ s \in Seq(ToSet(s)) /\ Len(s) \in Nat /\ DOMAIN s = 1 .. Len(s)
         /\ \A k \in 1 .. Len(s) : s[k] \in ToSet(s)
         /\ \A x \in ToSet(s) : \E k \in 1 .. Len(s) : s[k] = x
<1>1. s \in Seq(ToSet(s))
  BY DEF IsSequence
<1>2. Len(s) \in Nat /\ DOMAIN s = 1 .. Len(s)
  BY <1>1, LenProperties
<1> QED
  BY <1>1, <1>2 DEF ToSet

\* A sequence over a set is one over its own elements, which are in the set.
LEMMA SeqIsSequence ==
  ASSUME NEW S, NEW s \in Seq(S)
  PROVE  IsSequence(s) /\ ToSet(s) \subseteq S
<1>1. s \in [1 .. Len(s) -> S] /\ Len(s) \in Nat /\ DOMAIN s = 1 .. Len(s)
  BY LenProperties
<1>2. ToSet(s) \subseteq S
  BY <1>1 DEF ToSet
<1>3. \A i \in 1 .. Len(s) : s[i] \in ToSet(s)
  BY <1>1 DEF ToSet
<1>4. SubSeq(s, 1, Len(s)) \in Seq(ToSet(s))
  BY <1>1, <1>3, SubSeqProperties
<1>5. SubSeq(s, 1, Len(s)) = s
  BY SubSeqFull
<1> QED
  BY <1>2, <1>4, <1>5 DEF IsSequence

\* The elements of a list of lists.
Elements(ss) == UNION {ToSet(ss[k]) : k \in DOMAIN ss}

\* FlattenSeq puts one list after the other.
LEMMA FlattenRecursion ==
  ASSUME NEW ss, IsSequence(ss), ss # <<>>, NEW S,
         \A k \in 1 .. Len(ss) : ss[k] \in Seq(S)
  PROVE  \E w : /\ w \in [Nat -> Seq(S)] /\ w[0] = ss[1]
                /\ \A n \in Nat : n + 2 <= Len(ss) => w[n + 1] = w[n] \o ss[n + 2]
                /\ FlattenSeq(ss) = w[Len(ss) - 1]
<1>1. Len(ss) \in Nat \ {0}
  BY EmptySeq DEF IsSequence
<1> DEFINE T == Seq(S)
           base == ss[1]
           step == [p \in Nat \X T |-> IF p[1] + 2 <= Len(ss) THEN p[2] \o ss[p[1] + 2] ELSE p[2]]
           Def(f) == [i \in 1 .. Len(ss) |-> IF i = 1 THEN ss[i] ELSE f[i - 1] \o ss[i]]
           flatten == CHOOSE f : f = Def(f)
<1>2. base \in T
  BY <1>1
<1>3. step \in [Nat \X T -> T]
  <2>1. ASSUME NEW n \in Nat, NEW t \in T PROVE (IF n + 2 <= Len(ss) THEN t \o ss[n + 2] ELSE t) \in T
    <3>1. CASE n + 2 <= Len(ss)
      <4>1. ss[n + 2] \in Seq(S)
        BY <1>1, <3>1
      <4> QED
        BY <3>1, <4>1, ConcatProperties
    <3> QED
      BY <3>1
  <2> HIDE DEF T
  <2> QED
    BY <2>1
<1>4. PICK w : IsRecursive(w, T, base, step)
  <2> HIDE DEF step, T, base
  <2> QED
    BY <1>2, <1>3, SetRecursion
<1>5. w \in [Nat -> T] /\ w[0] = ss[1]
  BY <1>4 DEF IsRecursive
<1>6. ASSUME NEW n \in Nat, n + 2 <= Len(ss) PROVE w[n + 1] = w[n] \o ss[n + 2]
  <2>1. w[n + 1] = step[<<n, w[n]>>] /\ <<n, w[n]>> \in Nat \X T
    <3> HIDE DEF step, base, T
    <3> QED
      BY <1>4 DEF IsRecursive
  <2> QED
    BY <1>6, <2>1
<1> DEFINE g == [i \in 1 .. Len(ss) |-> w[i - 1]]
<1>7. g = Def(g)
  <2>1. ASSUME NEW i \in 1 .. Len(ss) PROVE g[i] = Def(g)[i]
    <3>1. CASE i = 1
      BY <1>5, <3>1
    <3>2. CASE i # 1
      <4>1. PICK n \in Nat : i = n + 2
        <5>1. i - 2 \in Nat /\ i = (i - 2) + 2
          BY <1>1, <3>2
        <5> QED
          BY <5>1
      <4>2. n + 2 <= Len(ss) /\ i - 1 = n + 1 /\ n + 1 \in 1 .. Len(ss) /\ (n + 1) - 1 = n
        BY <1>1, <4>1
      <4>3. w[n + 1] = w[n] \o ss[n + 2]
        BY <1>6, <4>2
      <4>4. g[n + 1] = w[n] /\ g[n + 2] = w[n + 1]
        BY <4>1, <4>2
      <4> QED
        BY <3>2, <4>1, <4>2, <4>3, <4>4
    <3> QED
      BY <3>1, <3>2
  <2> QED
    BY <2>1
<1>8. flatten = Def(flatten)
  <2> HIDE DEF Def
  <2> QED
    BY <1>7
<1> HIDE DEF flatten
<1> DEFINE P == {n \in Nat : n + 1 <= Len(ss) => flatten[n + 1] = w[n]}
<1>9. 0 \in P
  BY <1>1, <1>5, <1>8
<1>10. ASSUME NEW n \in Nat, n \in P PROVE n + 1 \in P
  <2>1. ASSUME (n + 1) + 1 <= Len(ss) PROVE flatten[(n + 1) + 1] = w[n + 1]
    <3>1. flatten[n + 1] = w[n]
      BY <1>1, <1>10, <2>1
    <3>2. n + 2 <= Len(ss) /\ (n + 1) + 1 = n + 2 /\ n + 2 \in 1 .. Len(ss) /\ n + 2 # 1 /\ (n + 2) - 1 = n + 1
      BY <1>1, <2>1
    <3>3. flatten[n + 2] = Def(flatten)[n + 2]
      <4> HIDE DEF Def
      <4> QED
        BY <1>8
    <3>4. flatten[n + 2] = flatten[n + 1] \o ss[n + 2]
      BY <3>2, <3>3
    <3> QED
      BY <1>6, <3>1, <3>2, <3>4
  <2> QED
    BY <2>1
<1> HIDE DEF P
<1>11. Nat \subseteq P
  BY <1>9, <1>10, SetInduction
<1>12. flatten[Len(ss)] = w[Len(ss) - 1]
  <2>1. Len(ss) - 1 \in Nat /\ (Len(ss) - 1) + 1 = Len(ss)
    BY <1>1
  <2> QED
    BY <1>11, <2>1 DEF P
<1>13. FlattenSeq(ss) = flatten[Len(ss)]
  BY <1>1 DEF FlattenSeq, flatten
<1> QED
  BY <1>5, <1>6, <1>12, <1>13

\* The elements of a concatenation.
LEMMA ConcatElements ==
  ASSUME NEW S, NEW s \in Seq(S), NEW t \in Seq(S)
  PROVE  s \o t \in Seq(S) /\ ToSet(s \o t) = ToSet(s) \union ToSet(t)
<1>1. /\ s \o t \in Seq(S) /\ Len(s \o t) = Len(s) + Len(t)
      /\ \A i \in 1 .. Len(s) + Len(t) : (s \o t)[i] = IF i <= Len(s) THEN s[i] ELSE t[i - Len(s)]
  BY ConcatProperties
<1>2. /\ Len(s) \in Nat /\ Len(t) \in Nat /\ DOMAIN s = 1 .. Len(s) /\ DOMAIN t = 1 .. Len(t)
      /\ DOMAIN (s \o t) = 1 .. Len(s) + Len(t)
  BY <1>1, LenProperties
<1>3. ToSet(s \o t) \subseteq ToSet(s) \union ToSet(t)
  <2>1. ASSUME NEW i \in 1 .. Len(s) + Len(t) PROVE (s \o t)[i] \in ToSet(s) \union ToSet(t)
    <3>1. CASE i <= Len(s)
      <4>1. (s \o t)[i] = s[i] /\ i \in DOMAIN s
        BY <1>1, <1>2, <3>1
      <4> QED
        BY <4>1 DEF ToSet
    <3>2. CASE ~ (i <= Len(s))
      <4>1. (s \o t)[i] = t[i - Len(s)] /\ i - Len(s) \in DOMAIN t
        BY <1>1, <1>2, <3>2
      <4> QED
        BY <4>1 DEF ToSet
    <3> QED
      BY <3>1, <3>2
  <2>2. ASSUME NEW x \in ToSet(s \o t) PROVE \E i \in 1 .. Len(s) + Len(t) : x = (s \o t)[i]
    BY <1>2 DEF ToSet
  <2> QED
    BY <2>1, <2>2
<1>4. ToSet(s) \subseteq ToSet(s \o t)
  <2>1. ASSUME NEW i \in 1 .. Len(s) PROVE s[i] = (s \o t)[i] /\ i \in DOMAIN (s \o t)
    BY <1>1, <1>2
  <2> QED
    BY <1>2, <2>1 DEF ToSet
<1>5. ToSet(t) \subseteq ToSet(s \o t)
  <2>1. ASSUME NEW i \in 1 .. Len(t)
        PROVE  t[i] = (s \o t)[i + Len(s)] /\ i + Len(s) \in DOMAIN (s \o t)
    <3>1. i + Len(s) \in 1 .. Len(s) + Len(t) /\ ~ (i + Len(s) <= Len(s)) /\ (i + Len(s)) - Len(s) = i
      BY <1>2
    <3> QED
      BY <1>1, <1>2, <3>1
  <2>2. ASSUME NEW x \in ToSet(t) PROVE \E i \in 1 .. Len(t) : x = t[i]
    BY <1>2 DEF ToSet
  <2>3. ASSUME NEW j \in DOMAIN (s \o t) PROVE (s \o t)[j] \in ToSet(s \o t)
    BY DEF ToSet
  <2> QED
    BY <2>1, <2>2, <2>3
<1> QED
  BY <1>1, <1>3, <1>4, <1>5

\* FlattenSeq keeps every element and adds none.
LEMMA FlattenFacts ==
  ASSUME NEW ss, IsSequence(ss), \A k \in DOMAIN ss : IsSequence(ss[k])
  PROVE  IsSequence(FlattenSeq(ss)) /\ ToSet(FlattenSeq(ss)) = Elements(ss)
<1> DEFINE S == Elements(ss)
<1>0. Len(ss) \in Nat /\ DOMAIN ss = 1 .. Len(ss)
  BY SequenceFacts
<1>1. \A k \in 1 .. Len(ss) : ss[k] \in Seq(S)
  <2>1. ASSUME NEW k \in 1 .. Len(ss) PROVE ss[k] \in Seq(S)
    <3>1. k \in DOMAIN ss
      BY <1>0
    <3>2. ss[k] \in Seq(ToSet(ss[k])) /\ ToSet(ss[k]) \subseteq S
      BY <3>1 DEF IsSequence, Elements
    <3> QED
      BY <3>2, SeqMonotonic
  <2> QED
    BY <2>1
<1>2. CASE ss = <<>>
  <2>1. FlattenSeq(ss) = <<>> /\ <<>> \in Seq(S) /\ DOMAIN ss = {}
    BY <1>0, <1>2, EmptySeq DEF FlattenSeq
  <2> QED
    BY <1>2, <2>1, SeqIsSequence DEF ToSet, Elements
<1>3. CASE ss # <<>>
  <2>1. PICK w : /\ w \in [Nat -> Seq(S)] /\ w[0] = ss[1]
                 /\ \A n \in Nat : n + 2 <= Len(ss) => w[n + 1] = w[n] \o ss[n + 2]
                 /\ FlattenSeq(ss) = w[Len(ss) - 1]
    <3> HIDE DEF S
    <3> QED
      BY <1>1, <1>3, FlattenRecursion
  <2>2. Len(ss) - 1 \in Nat /\ Len(ss) # 0
    BY <1>3, EmptySeq DEF IsSequence
  <2> DEFINE P == {n \in Nat : n + 1 <= Len(ss) =>
                     \A j \in 1 .. n + 1 : ToSet(ss[j]) \subseteq ToSet(w[n])}
  <2>3. 0 \in P
    <3>1. \A j \in 1 .. 0 + 1 : ToSet(ss[j]) \subseteq ToSet(w[0])
      <4>1. \A j \in 1 .. 0 + 1 : j = 1
        OBVIOUS
      <4> QED
        BY <2>1, <4>1
    <3> QED
      BY <3>1
  <2>4. ASSUME NEW n \in Nat, n \in P PROVE n + 1 \in P
    <3>1. ASSUME (n + 1) + 1 <= Len(ss), NEW j \in 1 .. (n + 1) + 1
          PROVE  ToSet(ss[j]) \subseteq ToSet(w[n + 1])
      <4>1. n + 2 <= Len(ss) /\ n + 2 \in 1 .. Len(ss) /\ n + 1 <= Len(ss)
        BY <1>0, <3>1
      <4>2. w[n + 1] = w[n] \o ss[n + 2] /\ w[n] \in Seq(S) /\ ss[n + 2] \in Seq(S)
        BY <1>1, <2>1, <4>1
      <4>3. ToSet(w[n + 1]) = ToSet(w[n]) \union ToSet(ss[n + 2])
        <5> HIDE DEF S
        <5> QED
          BY <4>2, ConcatElements
      <4>4. CASE j = n + 2
        BY <4>3, <4>4
      <4>5. CASE j \in 1 .. n + 1
        <5>1. ToSet(ss[j]) \subseteq ToSet(w[n])
          BY <2>4, <4>1, <4>5
        <5> QED
          BY <4>3, <5>1
      <4> QED
        BY <4>4, <4>5
    <3> QED
      BY <3>1
  <2> HIDE DEF P
  <2>5. Nat \subseteq P
    BY <2>3, <2>4, SetInduction
  <2>6. \A j \in 1 .. Len(ss) : ToSet(ss[j]) \subseteq ToSet(FlattenSeq(ss))
    <3>1. Len(ss) - 1 \in P /\ (Len(ss) - 1) + 1 = Len(ss)
      BY <1>0, <2>2, <2>5
    <3> QED
      BY <1>0, <2>1, <3>1 DEF P
  <2>7. S \subseteq ToSet(FlattenSeq(ss))
    BY <1>0, <2>6 DEF Elements
  <2>8. FlattenSeq(ss) \in Seq(S)
    BY <2>1, <2>2
  <2> HIDE DEF S
  <2>9. IsSequence(FlattenSeq(ss)) /\ ToSet(FlattenSeq(ss)) \subseteq S
    BY <2>8, SeqIsSequence
  <2> QED
    BY <2>7, <2>9 DEF S
<1> QED
  BY <1>2, <1>3

\* The first list comes first.
LEMMA FlattenHead ==
  ASSUME NEW ss, IsSequence(ss), ss # <<>>, NEW S, NEW T, ss[1] \in Seq(S), S \subseteq T,
         NEW R, R \subseteq T, \A k \in 2 .. Len(ss) : ss[k] \in Seq(R)
  PROVE  \E r \in Seq(R) : FlattenSeq(ss) = ss[1] \o r
<1>1. Len(ss) \in Nat \ {0}
  BY EmptySeq DEF IsSequence
<1>2. \A k \in 1 .. Len(ss) : ss[k] \in Seq(T)
  <2>1. ss[1] \in Seq(T)
    BY SeqMonotonic
  <2>2. ASSUME NEW k \in 2 .. Len(ss) PROVE ss[k] \in Seq(T)
    BY SeqMonotonic
  <2> QED
    BY <1>1, <2>1, <2>2
<1>3. PICK w : /\ w \in [Nat -> Seq(T)] /\ w[0] = ss[1]
               /\ \A n \in Nat : n + 2 <= Len(ss) => w[n + 1] = w[n] \o ss[n + 2]
               /\ FlattenSeq(ss) = w[Len(ss) - 1]
  BY <1>2, FlattenRecursion
<1> DEFINE P == {n \in Nat : n + 1 <= Len(ss) => \E r \in Seq(R) : w[n] = ss[1] \o r}
<1>4. 0 \in P
  <2>1. ss[1] = ss[1] \o <<>> /\ <<>> \in Seq(R)
    BY ConcatEmptySeq, EmptySeq
  <2> QED
    BY <1>3, <2>1
<1>5. ASSUME NEW n \in Nat, n \in P PROVE n + 1 \in P
  <2>1. ASSUME (n + 1) + 1 <= Len(ss) PROVE \E r \in Seq(R) : w[n + 1] = ss[1] \o r
    <3>1. n + 2 <= Len(ss) /\ n + 2 \in 2 .. Len(ss) /\ n + 1 <= Len(ss)
      BY <1>1, <2>1
    <3>2. PICK r \in Seq(R) : w[n] = ss[1] \o r
      BY <1>5, <3>1
    <3>3. w[n + 1] = (ss[1] \o r) \o ss[n + 2] /\ ss[n + 2] \in Seq(R)
      BY <1>3, <3>1, <3>2
    <3>4. r \o ss[n + 2] \in Seq(R)
      BY <3>3, ConcatProperties
    <3>5. r \in Seq(T) /\ ss[n + 2] \in Seq(T) /\ ss[1] \in Seq(T)
      BY <3>3, SeqMonotonic
    <3>6. (ss[1] \o r) \o ss[n + 2] = ss[1] \o (r \o ss[n + 2])
      <4> DEFINE a == ss[1]
                 b == ss[n + 2]
      <4>1. a \in Seq(T) /\ r \in Seq(T) /\ b \in Seq(T)
        BY <3>5
      <4> HIDE DEF a, b
      <4>2. (a \o r) \o b = a \o (r \o b)
        BY <4>1, ConcatAssociative
      <4> QED
        BY <4>2 DEF a, b
    <3> QED
      BY <3>3, <3>4, <3>6
  <2> QED
    BY <2>1
<1> HIDE DEF P
<1>6. Nat \subseteq P
  BY <1>4, <1>5, SetInduction
<1>7. PICK m \in Nat : m = Len(ss) - 1 /\ m + 1 = Len(ss)
  <2>1. Len(ss) - 1 \in Nat /\ (Len(ss) - 1) + 1 = Len(ss)
    BY <1>1
  <2> QED
    BY <2>1
<1>8. \E r \in Seq(R) : w[m] = ss[1] \o r
  <2>1. m \in P /\ m + 1 <= Len(ss)
    BY <1>1, <1>6, <1>7
  <2> QED
    BY <2>1 DEF P
<1> QED
  BY <1>3, <1>7, <1>8

\* What Select flattens.
Picks(s, P) == [k \in DOMAIN s |-> IF s[k] \in P THEN <<s[k]>> ELSE <<>>]

\* What is picked from a sequence is what it has in common with the set.
LEMMA PicksFacts ==
  ASSUME NEW s, IsSequence(s), NEW P
  PROVE  IsSequence(FlattenSeq(Picks(s, P))) /\ ToSet(FlattenSeq(Picks(s, P))) = ToSet(s) \intersect P
<1> DEFINE ss == Picks(s, P)
<1>1. Len(s) \in Nat /\ DOMAIN s = 1 .. Len(s) /\ \A k \in 1 .. Len(s) : s[k] \in ToSet(s)
  BY SequenceFacts
<1>2. \A k \in 1 .. Len(s) : ss[k] \in Seq(ToSet(s)) /\ ToSet(ss[k]) = {s[k]} \intersect P
  <2>1. ASSUME NEW k \in 1 .. Len(s) PROVE ss[k] \in Seq(ToSet(s)) /\ ToSet(ss[k]) = {s[k]} \intersect P
    <3>1. CASE s[k] \in P
      <4>1. ss[k] = <<s[k]>>
        BY <1>1, <3>1 DEF Picks
      <4>2. ToSet(<<s[k]>>) = {s[k]}
        BY DEF ToSet
      <4> QED
        BY <1>1, <3>1, <4>1, <4>2
    <3>2. CASE s[k] \notin P
      <4>1. ss[k] = <<>>
        BY <1>1, <3>2 DEF Picks
      <4>2. ToSet(<<>>) = {}
        BY DEF ToSet
      <4> QED
        BY <3>2, <4>1, <4>2, EmptySeq
    <3> QED
      BY <3>1, <3>2
  <2> QED
    BY <2>1
<1>3. DOMAIN ss = 1 .. Len(s)
  BY <1>1 DEF Picks
<1>4. ss \in [1 .. Len(s) -> Seq(ToSet(s))]
  BY <1>1, <1>2 DEF Picks
<1>5. ss \in Seq(Seq(ToSet(s)))
  BY <1>1, <1>4
<1>6. IsSequence(ss) /\ \A k \in DOMAIN ss : IsSequence(ss[k])
  <2> HIDE DEF ss
  <2>1. IsSequence(ss)
    BY <1>5, SeqIsSequence
  <2>2. ASSUME NEW k \in DOMAIN ss PROVE IsSequence(ss[k])
    <3>1. ss[k] \in Seq(ToSet(s))
      BY <1>2, <1>3
    <3> QED
      BY <3>1, SeqIsSequence
  <2> QED
    BY <2>1, <2>2
<1>7. Elements(ss) = ToSet(s) \intersect P
  <2> HIDE DEF ss
  <2>1. ASSUME NEW x \in Elements(ss) PROVE x \in ToSet(s) \intersect P
    <3>1. PICK k \in DOMAIN ss : x \in ToSet(ss[k])
      BY DEF Elements
    <3>2. x \in {s[k]} \intersect P /\ k \in 1 .. Len(s)
      BY <1>2, <1>3, <3>1
    <3> QED
      BY <1>1, <3>2
  <2>2. ASSUME NEW x \in ToSet(s) \intersect P PROVE x \in Elements(ss)
    <3>1. PICK k \in 1 .. Len(s) : s[k] = x
      BY SequenceFacts
    <3>2. x \in ToSet(ss[k]) /\ k \in DOMAIN ss
      BY <1>2, <1>3, <3>1
    <3> QED
      BY <3>2 DEF Elements
  <2> QED
    BY <2>1, <2>2
<1> HIDE DEF ss
<1>8. IsSequence(FlattenSeq(ss)) /\ ToSet(FlattenSeq(ss)) = Elements(ss)
  BY <1>6, FlattenFacts
<1> QED
  BY <1>7, <1>8 DEF ss
\* FlattenSeq grows by one list at a time.
LEMMA FlattenPrefix ==
  ASSUME NEW S, NEW ss \in Seq(Seq(S))
  PROVE  \E w : /\ w \in [Nat -> Seq(S)] /\ w[0] = <<>>
                /\ \A n \in Nat : n + 1 <= Len(ss) => w[n + 1] = w[n] \o ss[n + 1]
                /\ FlattenSeq(ss) = w[Len(ss)]
<1>1. Len(ss) \in Nat /\ DOMAIN ss = 1 .. Len(ss) /\ \A k \in 1 .. Len(ss) : ss[k] \in Seq(S)
  OBVIOUS
<1>2. CASE ss = <<>>
  <2> DEFINE w == [n \in Nat |-> <<>>]
  <2>1. Len(ss) = 0 /\ FlattenSeq(ss) = <<>>
    BY <1>2 DEF FlattenSeq
  <2>2. w \in [Nat -> Seq(S)] /\ w[0] = <<>>
    OBVIOUS
  <2>3. \A n \in Nat : ~ (n + 1 <= Len(ss))
    BY <2>1
  <2> HIDE DEF w
  <2>4. FlattenSeq(ss) = w[Len(ss)]
    BY <2>1, <2>2
  <2> QED
    BY <2>2, <2>3, <2>4
<1>3. CASE ss # <<>>
  <2>1. IsSequence(ss)
    BY SeqIsSequence
  <2>2. PICK u : /\ u \in [Nat -> Seq(S)] /\ u[0] = ss[1]
                 /\ \A n \in Nat : n + 2 <= Len(ss) => u[n + 1] = u[n] \o ss[n + 2]
                 /\ FlattenSeq(ss) = u[Len(ss) - 1]
    BY <1>1, <1>3, <2>1, FlattenRecursion
  <2> DEFINE w == [n \in Nat |-> IF n = 0 THEN <<>> ELSE u[n - 1]]
  <2>3. Len(ss) # 0
    BY <1>3, EmptySeq
  <2>4. w \in [Nat -> Seq(S)] /\ w[0] = <<>>
    BY <2>2
  <2>5. ASSUME NEW n \in Nat, n + 1 <= Len(ss) PROVE w[n + 1] = w[n] \o ss[n + 1]
    <3>1. w[n + 1] = u[n]
      BY <2>5
    <3>2. CASE n = 0
      <4>1. ss[1] \in Seq(S)
        BY <1>1, <2>3
      <4>2. <<>> \o ss[1] = ss[1]
        BY <4>1, ConcatEmptySeq
      <4>3. w[n] = <<>> /\ n + 1 = 1 /\ u[n] = ss[n + 1]
        BY <2>2, <2>4, <3>2
      <4> HIDE DEF w
      <4> QED
        BY <3>1, <4>2, <4>3
    <3>3. CASE n # 0
      <4>1. PICK k \in Nat : n = k + 1
        <5>1. n - 1 \in Nat /\ n = (n - 1) + 1
          BY <3>3
        <5> QED
          BY <5>1
      <4>2. k + 2 <= Len(ss) /\ n + 1 = k + 2 /\ n - 1 = k
        BY <1>1, <2>5, <4>1
      <4>3. u[n] = u[k] \o ss[k + 2]
        BY <2>2, <4>1, <4>2
      <4>4. w[n] = u[k]
        BY <3>3, <4>2
      <4> QED
        BY <3>1, <4>2, <4>3, <4>4
    <3> QED
      BY <3>2, <3>3
  <2>6. FlattenSeq(ss) = w[Len(ss)]
    BY <1>1, <2>2, <2>3
  <2> QED
    BY <2>4, <2>5, <2>6
<1> QED
  BY <1>2, <1>3

\* Flattening commutes with concatenation.
LEMMA FlattenConcat ==
  ASSUME NEW S, NEW ss \in Seq(Seq(S)), NEW tt \in Seq(Seq(S))
  PROVE  /\ FlattenSeq(ss) \in Seq(S) /\ FlattenSeq(tt) \in Seq(S)
         /\ FlattenSeq(ss \o tt) = FlattenSeq(ss) \o FlattenSeq(tt)
<1> DEFINE rr == ss \o tt
           m == Len(ss)
<1>1. /\ rr \in Seq(Seq(S)) /\ Len(rr) = m + Len(tt)
      /\ \A i \in 1 .. m + Len(tt) : rr[i] = IF i <= m THEN ss[i] ELSE tt[i - m]
  BY ConcatProperties
<1>2. m \in Nat /\ Len(tt) \in Nat
  OBVIOUS
<1>3. \A k \in 1 .. Len(tt) : tt[k] \in Seq(S)
  OBVIOUS
<1> HIDE DEF rr, m
<1>4. PICK w : /\ w \in [Nat -> Seq(S)] /\ w[0] = <<>>
               /\ \A n \in Nat : n + 1 <= Len(rr) => w[n + 1] = w[n] \o rr[n + 1]
               /\ FlattenSeq(rr) = w[Len(rr)]
  BY <1>1, FlattenPrefix
<1>5. PICK u : /\ u \in [Nat -> Seq(S)] /\ u[0] = <<>>
               /\ \A n \in Nat : n + 1 <= m => u[n + 1] = u[n] \o ss[n + 1]
               /\ FlattenSeq(ss) = u[m]
  BY FlattenPrefix DEF m
<1>6. PICK v : /\ v \in [Nat -> Seq(S)] /\ v[0] = <<>>
               /\ \A n \in Nat : n + 1 <= Len(tt) => v[n + 1] = v[n] \o tt[n + 1]
               /\ FlattenSeq(tt) = v[Len(tt)]
  BY FlattenPrefix
<1> DEFINE P == {n \in Nat : n <= m => w[n] = u[n]}
<1>7. 0 \in P
  BY <1>4, <1>5
<1>8. ASSUME NEW n \in Nat, n \in P PROVE n + 1 \in P
  <2>1. ASSUME n + 1 <= m PROVE w[n + 1] = u[n + 1]
    <3>1. n + 1 <= Len(rr) /\ n + 1 \in 1 .. m + Len(tt) /\ n <= m
      BY <1>1, <1>2, <2>1
    <3>2. rr[n + 1] = ss[n + 1]
      BY <1>1, <2>1, <3>1
    <3> QED
      BY <1>4, <1>5, <1>8, <2>1, <3>1, <3>2
  <2> QED
    BY <2>1
<1> HIDE DEF P
<1>9. Nat \subseteq P
  BY <1>7, <1>8, SetInduction
<1>10. w[m] = u[m]
  BY <1>2, <1>9 DEF P
<1> DEFINE Q == {n \in Nat : n <= Len(tt) => w[m + n] = u[m] \o v[n]}
<1>11. u[m] \in Seq(S) /\ \A n \in Nat : v[n] \in Seq(S)
  BY <1>2, <1>5, <1>6
<1>12. 0 \in Q
  <2>1. u[m] \o <<>> = u[m]
    BY <1>11, ConcatEmptySeq
  <2>2. m + 0 = m
    BY <1>2
  <2> QED
    BY <1>6, <1>10, <2>1, <2>2
<1>13. ASSUME NEW n \in Nat, n \in Q PROVE n + 1 \in Q
  <2>1. ASSUME n + 1 <= Len(tt) PROVE w[m + (n + 1)] = u[m] \o v[n + 1]
    <3> DEFINE k == m + n
    <3>1. k \in Nat /\ k + 1 = m + (n + 1) /\ k + 1 <= Len(rr) /\ k + 1 \in 1 .. m + Len(tt) /\ n <= Len(tt)
      BY <1>1, <1>2, <2>1
    <3>2. rr[k + 1] = tt[n + 1] /\ n + 1 \in 1 .. Len(tt)
      <4>1. ~ (k + 1 <= m) /\ (k + 1) - m = n + 1 /\ n + 1 \in 1 .. Len(tt)
        BY <1>2, <2>1
      <4> QED
        BY <1>1, <3>1, <4>1
    <3>3. w[k] = u[m] \o v[n]
      BY <1>13, <3>1
    <3> HIDE DEF k
    <3>4. w[k + 1] = w[k] \o rr[k + 1]
      BY <1>4, <3>1
    <3>5. v[n + 1] = v[n] \o tt[n + 1]
      BY <1>6, <2>1
    <3>6. (u[m] \o v[n]) \o tt[n + 1] = u[m] \o (v[n] \o tt[n + 1])
      <4> DEFINE a == u[m]
                 b == v[n]
                 c == tt[n + 1]
      <4>1. a \in Seq(S) /\ b \in Seq(S) /\ c \in Seq(S)
        BY <1>3, <1>11, <3>2
      <4> HIDE DEF a, b, c
      <4>2. (a \o b) \o c = a \o (b \o c)
        BY <4>1, ConcatAssociative
      <4> QED
        BY <4>2 DEF a, b, c
    <3> QED
      BY <3>1, <3>2, <3>3, <3>4, <3>5, <3>6
  <2>2. n + 1 \in Nat
    OBVIOUS
  <2> QED
    BY ONLY <2>1, <2>2
<1> HIDE DEF Q
<1>14. Nat \subseteq Q
  BY <1>12, <1>13, SetInduction
<1>15. w[m + Len(tt)] = u[m] \o v[Len(tt)]
  <2>1. Len(tt) \in Q /\ Len(tt) <= Len(tt)
    BY <1>2, <1>14
  <2> QED
    BY ONLY <2>1 DEF Q
<1> QED
  BY <1>1, <1>2, <1>4, <1>5, <1>6, <1>11, <1>15 DEF rr

\* The flattened list of one list.
LEMMA FlattenOne ==
  ASSUME NEW S, NEW a \in Seq(S)
  PROVE  FlattenSeq(<<a>>) = a
<1>1. <<a>> \in Seq(Seq(S)) /\ Len(<<a>>) = 1 /\ <<a>>[1] = a
  OBVIOUS
<1> DEFINE ss == <<a>>
<1> HIDE DEF ss
<1>2. PICK w : /\ w \in [Nat -> Seq(S)] /\ w[0] = <<>>
               /\ \A n \in Nat : n + 1 <= Len(ss) => w[n + 1] = w[n] \o ss[n + 1]
               /\ FlattenSeq(ss) = w[Len(ss)]
  BY <1>1, FlattenPrefix DEF ss
<1>3. Len(ss) = 1 /\ ss[1] = a
  BY <1>1 DEF ss
<1>4. w[0 + 1] = w[0] \o ss[0 + 1]
  <2>1. 0 \in Nat /\ 0 + 1 <= Len(ss)
    BY <1>3
  <2> QED
    BY <1>2, <2>1
<1>5. w[1] = <<>> \o a
  <2>1. 0 + 1 = 1
    OBVIOUS
  <2> QED
    BY <1>2, <1>3, <1>4, <2>1
<1>6. <<>> \o a = a
  BY ConcatEmptySeq
<1> QED
  BY <1>2, <1>3, <1>5, <1>6 DEF ss
------------------------------------------------------------------------------
(* The queue of passes *)

\* No pass of S comes before pass p in q.
ComesFirst(q, p, S) ==
  \A k \in 1 .. Len(q) : q[k] = p => \A j \in 1 .. k - 1 : q[j] \notin S

\* A sequence without the pass may follow.
LEMMA FirstAppend ==
  ASSUME NEW T, NEW a \in Seq(T), NEW b \in Seq(T), NEW p, NEW S,
         ComesFirst(a, p, S), p \notin ToSet(b)
  PROVE  ComesFirst(a \o b, p, S)
<1>1. /\ Len(a \o b) = Len(a) + Len(b) /\ Len(a) \in Nat /\ Len(b) \in Nat
      /\ \A i \in 1 .. Len(a) + Len(b) : (a \o b)[i] = IF i <= Len(a) THEN a[i] ELSE b[i - Len(a)]
  BY ConcatProperties, LenProperties
<1>2. \A i \in 1 .. Len(b) : b[i] # p
  BY LenProperties DEF ToSet
<1>3. ASSUME NEW k \in 1 .. Len(a \o b), (a \o b)[k] = p, NEW j \in 1 .. k - 1
      PROVE  (a \o b)[j] \notin S
  <2>1. k <= Len(a)
    <3>1. CASE ~ (k <= Len(a))
      <4>1. k - Len(a) \in 1 .. Len(b) /\ (a \o b)[k] = b[k - Len(a)]
        BY <1>1, <3>1
      <4> QED
        BY <1>2, <1>3, <4>1
    <3> QED
      BY <3>1
  <2>2. a[k] = p /\ k \in 1 .. Len(a) /\ (a \o b)[j] = a[j]
    BY <1>1, <1>3, <2>1
  <2> QED
    BY <2>2 DEF ComesFirst
<1> QED
  BY <1>3 DEF ComesFirst

\* A sequence without the pass and without those of S may come before.
LEMMA FirstPrepend ==
  ASSUME NEW T, NEW a \in Seq(T), NEW b \in Seq(T), NEW p, NEW S,
         ComesFirst(b, p, S), p \notin ToSet(a), ToSet(a) \intersect S = {}
  PROVE  ComesFirst(a \o b, p, S)
<1>1. /\ Len(a \o b) = Len(a) + Len(b) /\ Len(a) \in Nat /\ Len(b) \in Nat
      /\ \A i \in 1 .. Len(a) + Len(b) : (a \o b)[i] = IF i <= Len(a) THEN a[i] ELSE b[i - Len(a)]
  BY ConcatProperties, LenProperties
<1>2. \A i \in 1 .. Len(a) : a[i] # p /\ a[i] \notin S
  BY LenProperties DEF ToSet
<1>3. ASSUME NEW k \in 1 .. Len(a \o b), (a \o b)[k] = p, NEW j \in 1 .. k - 1
      PROVE  (a \o b)[j] \notin S
  <2>1. ~ (k <= Len(a))
    BY <1>1, <1>2, <1>3
  <2>2. b[k - Len(a)] = p /\ k - Len(a) \in 1 .. Len(b)
    BY <1>1, <1>3, <2>1
  <2>3. CASE j <= Len(a)
    BY <1>1, <1>2, <2>3
  <2>4. CASE ~ (j <= Len(a))
    <3> DEFINE m == k - Len(a)
               i == j - Len(a)
    <3>1. b[m] = p /\ m \in 1 .. Len(b) /\ i \in 1 .. m - 1 /\ (a \o b)[j] = b[i]
      BY <1>1, <2>2, <2>4
    <3> HIDE DEF m, i
    <3> QED
      BY <3>1 DEF ComesFirst
  <2> QED
    BY <2>3, <2>4
<1> QED
  BY <1>3 DEF ComesFirst

\* The order holds for the rest of the queue, and once a pass of S is taken the
\* first one is no longer queued.
LEMMA FirstTail ==
  ASSUME NEW q, IsSequence(q), q # <<>>, NEW p, NEW S, ComesFirst(q, p, S)
  PROVE  /\ IsSequence(Tail(q)) /\ ComesFirst(Tail(q), p, S) /\ ToSet(Tail(q)) \subseteq ToSet(q)
         /\ Head(q) \in ToSet(q)
         /\ Head(q) \in S => p \notin ToSet(Tail(q))
<1>1. q \in Seq(ToSet(q)) /\ Len(q) \in Nat \ {0} /\ DOMAIN q = 1 .. Len(q)
  BY SequenceFacts, EmptySeq
<1>2. /\ Head(q) \in ToSet(q) /\ Tail(q) \in Seq(ToSet(q)) /\ Len(Tail(q)) = Len(q) - 1
      /\ \A i \in 1 .. Len(Tail(q)) : Tail(q)[i] = q[i + 1]
  BY <1>1, HeadTailProperties
<1>3. Head(q) = q[1]
  BY <1>1
<1>4. IsSequence(Tail(q)) /\ ToSet(Tail(q)) \subseteq ToSet(q)
  BY <1>2, SeqIsSequence
<1>5. ASSUME NEW k \in 1 .. Len(Tail(q)), Tail(q)[k] = p
      PROVE  Head(q) \notin S /\ \A j \in 1 .. k - 1 : Tail(q)[j] \notin S
  <2>1. k + 1 \in 1 .. Len(q) /\ q[k + 1] = p
    BY <1>1, <1>2, <1>5
  <2>2. \A j \in 1 .. (k + 1) - 1 : q[j] \notin S
    BY <2>1 DEF ComesFirst
  <2>3. 1 \in 1 .. (k + 1) - 1
    BY <1>1, <1>2
  <2>4. ASSUME NEW j \in 1 .. k - 1 PROVE Tail(q)[j] = q[j + 1] /\ j + 1 \in 1 .. (k + 1) - 1
    BY <1>1, <1>2
  <2> QED
    BY <1>3, <2>2, <2>3, <2>4
<1>6. Head(q) \in S => p \notin ToSet(Tail(q))
  <2>1. ASSUME p \in ToSet(Tail(q)) PROVE \E k \in 1 .. Len(Tail(q)) : Tail(q)[k] = p
    BY <1>4, <2>1, SequenceFacts
  <2> QED
    BY <1>5, <2>1
<1> QED
  BY <1>2, <1>4, <1>5, <1>6 DEF ComesFirst

ModulePassSet == ToSet(ModulePassNames)
FunctionPassSet == ToSet(FunctionPassNames) \cup {"ElimIdenticalInstrs"}

\* What is queued around a pass.
Wrapping == {"debugify", "check-debugify", "verify", "print"}

\* The names of the passes, spelled out.
LEMMA PassSets ==
  /\ ModulePassSet = {"InitGlobal", "ElimUnusedFunction", "InlineSimpleFunction",
                      "ElimUnusedGlobal", "ElimInlineAsm"}
  /\ FunctionPassSet = {"ElimAllocaStoreArg", "UninlineInstruction", "CombineGEP", "ElimIdenticalInstrs"}
  /\ AllPasses = ModulePassSet \cup FunctionPassSet
  /\ ToSet(FunctionPassNames) = {"ElimAllocaStoreArg", "UninlineInstruction", "CombineGEP"}
<1>1. DOMAIN ModulePassNames = {1, 2, 3, 4, 5} /\ DOMAIN FunctionPassNames = {1, 2, 3}
  BY DEF ModulePassNames, FunctionPassNames
<1>2. ToSet(ModulePassNames) = {"InitGlobal", "ElimUnusedFunction", "InlineSimpleFunction",
                                "ElimUnusedGlobal", "ElimInlineAsm"}
  <2>1. ToSet(ModulePassNames) = {ModulePassNames[1], ModulePassNames[2], ModulePassNames[3],
                                  ModulePassNames[4], ModulePassNames[5]}
    BY <1>1 DEF ToSet
  <2> QED
    BY <2>1 DEF ModulePassNames
<1>3. ToSet(FunctionPassNames) = {"ElimAllocaStoreArg", "UninlineInstruction", "CombineGEP"}
  <2>1. ToSet(FunctionPassNames) = {FunctionPassNames[1], FunctionPassNames[2], FunctionPassNames[3]}
    BY <1>1 DEF ToSet
  <2> QED
    BY <2>1 DEF FunctionPassNames
<1> QED
  BY <1>2, <1>3 DEF ModulePassSet, FunctionPassSet, AllPasses

\* A single pass is in order.
LEMMA OneFirst ==
  ASSUME NEW x, NEW p, NEW S
  PROVE  ComesFirst(<<x>>, p, S) /\ ToSet(<<x>>) = {x}
<1>1. Len(<<x>>) = 1 /\ DOMAIN <<x>> = {1} /\ <<x>>[1] = x
  OBVIOUS
<1> QED
  BY <1>1 DEF ComesFirst, ToSet

\* add() queues the pass, and around it only what wraps.
LEMMA AddedFacts ==
  ASSUME NEW p, NEW S, S \intersect Wrapping = {}
  PROVE  Added(p) \in Seq({p} \cup Wrapping) /\ (p \notin Wrapping => ComesFirst(Added(p), p, S))
<1>1. CASE Added(p) = <<p>>
  BY <1>1, OneFirst
<1>2. CASE Added(p) = <<"debugify", p, "check-debugify">>
  <2>1. Added(p) \in Seq({p} \cup Wrapping)
    BY <1>2 DEF Wrapping
  <2>2. ASSUME p \notin Wrapping PROVE ComesFirst(Added(p), p, S)
    <3>1. p # "debugify" /\ p # "check-debugify" /\ "debugify" \notin S
      BY <2>2 DEF Wrapping
    <3>2. Len(Added(p)) = 3 /\ Added(p)[1] = "debugify" /\ Added(p)[2] = p /\ Added(p)[3] = "check-debugify"
      BY <1>2
    <3>3. ASSUME NEW k \in 1 .. 3, Added(p)[k] = p, NEW j \in 1 .. k - 1 PROVE Added(p)[j] \notin S
      <4>1. k \in {1, 2, 3}
        OBVIOUS
      <4>2. k = 2
        BY <3>1, <3>2, <3>3, <4>1
      <4>3. j = 1
        BY <4>2
      <4> QED
        BY <3>1, <3>2, <4>3
    <3> QED
      BY <3>2, <3>3 DEF ComesFirst
  <2> QED
    BY <2>1, <2>2
<1> QED
  BY <1>1, <1>2 DEF Added

\* The verifier and the printer, when the options ask for them, only wrap.
LEMMA WrappingFacts ==
  /\ (IF opts.verifyEach THEN Added("verify") ELSE <<>>) \in Seq(Wrapping)
  /\ (IF opts.printEach THEN Added("print") ELSE <<>>) \in Seq(Wrapping)
<1>1. {"verify"} \cup Wrapping = Wrapping /\ {"print"} \cup Wrapping = Wrapping
  BY DEF Wrapping
<1>2. Added("verify") \in Seq(Wrapping) /\ Added("print") \in Seq(Wrapping)
  <2>1. \A p : Added(p) \in Seq({p} \cup Wrapping)
    <3>1. {} \intersect Wrapping = {}
      OBVIOUS
    <3> QED
      BY <3>1, AddedFacts
  <2> QED
    BY <1>1, <2>1
<1> QED
  BY <1>2, EmptySeq

\* addModulePass queues the pass before any other of S.
LEMMA ModulePassQueued ==
  ASSUME NEW p, NEW S, S \intersect Wrapping = {}
  PROVE  /\ addModulePass(p) \in Seq({p} \cup Wrapping)
         /\ p \notin Wrapping => ComesFirst(addModulePass(p), p, S)
<1> DEFINE T == {p} \cup Wrapping
           a == Added(p)
           b == IF opts.verifyEach THEN Added("verify") ELSE <<>>
           c == IF opts.printEach THEN Added("print") ELSE <<>>
<1>1. a \in Seq(T) /\ (p \notin Wrapping => ComesFirst(a, p, S))
  BY AddedFacts
<1>2. b \in Seq(Wrapping) /\ c \in Seq(Wrapping)
  BY WrappingFacts
<1>3. addModulePass(p) = (a \o b) \o c
  BY DEF addModulePass
<1>4. Wrapping \subseteq T
  OBVIOUS
<1> HIDE DEF a, b, c, T
<1>5. b \in Seq(T) /\ c \in Seq(T) /\ ToSet(b) \subseteq Wrapping /\ ToSet(c) \subseteq Wrapping
  BY <1>2, <1>4, SeqMonotonic, SeqIsSequence
<1>6. a \o b \in Seq(T)
  BY <1>1, <1>5, ConcatProperties
<1>7. (a \o b) \o c \in Seq(T)
  BY <1>5, <1>6, ConcatProperties
<1>8. ASSUME p \notin Wrapping PROVE ComesFirst((a \o b) \o c, p, S)
  <2>1. p \notin ToSet(b) /\ p \notin ToSet(c)
    BY <1>5, <1>8
  <2>2. ComesFirst(a \o b, p, S)
    BY <1>1, <1>5, <1>8, <2>1, FirstAppend
  <2> QED
    BY <1>5, <1>6, <2>1, <2>2, FirstAppend
<1> QED
  BY <1>3, <1>7, <1>8 DEF T

\* So does addFunctionPass.
LEMMA FunctionPassQueued ==
  ASSUME NEW p, NEW S
  PROVE  /\ addFunctionPass(p) \in Seq({p} \cup Wrapping)
         /\ p \notin Wrapping => ComesFirst(addFunctionPass(p), p, S)
<1> DEFINE T == {p} \cup Wrapping
           a == <<p>>
           b == IF opts.verifyEach THEN <<"verify">> ELSE <<>>
           c == IF opts.printEach THEN <<"print">> ELSE <<>>
<1>1. a \in Seq(T) /\ ComesFirst(a, p, S)
  BY OneFirst
<1>2. b \in Seq(Wrapping) /\ c \in Seq(Wrapping)
  <2>1. <<"verify">> \in Seq(Wrapping) /\ <<"print">> \in Seq(Wrapping)
    BY DEF Wrapping
  <2> QED
    BY <2>1, EmptySeq
<1>3. addFunctionPass(p) = (a \o b) \o c
  BY DEF addFunctionPass
<1>4. Wrapping \subseteq T
  OBVIOUS
<1> HIDE DEF a, b, c, T
<1>5. b \in Seq(T) /\ c \in Seq(T) /\ ToSet(b) \subseteq Wrapping /\ ToSet(c) \subseteq Wrapping
  BY <1>2, <1>4, SeqMonotonic, SeqIsSequence
<1>6. a \o b \in Seq(T)
  BY <1>1, <1>5, ConcatProperties
<1>7. (a \o b) \o c \in Seq(T)
  BY <1>5, <1>6, ConcatProperties
<1>8. ASSUME p \notin Wrapping PROVE ComesFirst((a \o b) \o c, p, S)
  <2>1. p \notin ToSet(b) /\ p \notin ToSet(c)
    BY <1>5, <1>8
  <2>2. ComesFirst(a \o b, p, S)
    BY <1>1, <1>5, <2>1, FirstAppend
  <2> QED
    BY <1>5, <1>6, <2>1, <2>2, FirstAppend
<1> QED
  BY <1>3, <1>7, <1>8 DEF T

\* The module passes as main() queues them.
LEMMA ModulePassesQueued ==
  LET A == FlattenSeq([k \in DOMAIN ModulePassNames |-> addModulePass(ModulePassNames[k])])
  IN  A \in Seq(ModulePassSet \cup Wrapping) /\ ComesFirst(A, "InitGlobal", ModulePassSet)
<1> DEFINE ss == [k \in DOMAIN ModulePassNames |-> addModulePass(ModulePassNames[k])]
           T == ModulePassSet \cup Wrapping
           R == (ModulePassSet \ {"InitGlobal"}) \cup Wrapping
           S == {"InitGlobal"} \cup Wrapping
<1>1. ModulePassSet \intersect Wrapping = {} /\ "InitGlobal" \notin Wrapping /\ "InitGlobal" \in ModulePassSet
  BY PassSets DEF Wrapping
<1>2. DOMAIN ModulePassNames = 1 .. 5 /\ ModulePassNames[1] = "InitGlobal"
  BY DEF ModulePassNames
<1>3. \A k \in 2 .. 5 : ModulePassNames[k] \in ModulePassSet \ {"InitGlobal"}
  <2>1. \A k \in 2 .. 5 : k = 2 \/ k = 3 \/ k = 4 \/ k = 5
    OBVIOUS
  <2> QED
    BY <2>1, PassSets DEF ModulePassNames
<1>4. ss[1] \in Seq(S) /\ ComesFirst(ss[1], "InitGlobal", ModulePassSet)
  BY <1>1, <1>2, ModulePassQueued
<1>5. ASSUME NEW k \in 2 .. 5 PROVE ss[k] \in Seq(R)
  <2>1. ss[k] \in Seq({ModulePassNames[k]} \cup Wrapping)
    BY <1>1, <1>2, ModulePassQueued
  <2>2. {ModulePassNames[k]} \cup Wrapping \subseteq R
    BY <1>3
  <2> QED
    BY <2>1, <2>2, SeqMonotonic
<1>6. S \subseteq T /\ R \subseteq T /\ "InitGlobal" \notin R
  BY <1>1
<1>7. DOMAIN ss = 1 .. 5
  BY <1>2
<1> HIDE DEF T, R, S
<1>8. \A k \in 1 .. 5 : ss[k] \in Seq(T)
  <2>1. ss[1] \in Seq(T)
    BY <1>4, <1>6, SeqMonotonic
  <2>2. ASSUME NEW k \in 2 .. 5 PROVE ss[k] \in Seq(T)
    BY <1>5, <1>6, SeqMonotonic
  <2> QED
    BY <2>1, <2>2
<1>9. ss \in Seq(Seq(T)) /\ Len(ss) = 5
  <2>1. ss \in [1 .. 5 -> Seq(T)]
    BY <1>2, <1>8
  <2> QED
    BY <2>1
<1> HIDE DEF ss
<1>10. IsSequence(ss) /\ ss # <<>>
  <2>1. Len(<<>>) = 0
    OBVIOUS
  <2> QED
    BY <1>9, <2>1, SeqIsSequence
<1>11. PICK r \in Seq(R) : FlattenSeq(ss) = ss[1] \o r
  BY <1>4, <1>5, <1>6, <1>9, <1>10, FlattenHead
<1> DEFINE a == ss[1]
<1>12. a \in Seq(T) /\ r \in Seq(T) /\ "InitGlobal" \notin ToSet(r) /\ ComesFirst(a, "InitGlobal", ModulePassSet)
  BY <1>4, <1>6, <1>8, <1>11, SeqMonotonic, SeqIsSequence
<1> HIDE DEF a
<1>13. a \o r \in Seq(T) /\ ComesFirst(a \o r, "InitGlobal", ModulePassSet)
  BY <1>12, ConcatProperties, FirstAppend
<1> QED
  BY <1>11, <1>13 DEF a, ss, T

\* The function passes as main() queues them.
LEMMA FunctionPassesQueued ==
  LET B == FlattenSeq([k \in DOMAIN FunctionPassNames |-> addFunctionPass(FunctionPassNames[k])])
  IN  B \in Seq(ToSet(FunctionPassNames) \cup Wrapping) /\ ComesFirst(B, "ElimAllocaStoreArg", FunctionPassSet)
<1> DEFINE ss == [k \in DOMAIN FunctionPassNames |-> addFunctionPass(FunctionPassNames[k])]
           T == ToSet(FunctionPassNames) \cup Wrapping
           R == (ToSet(FunctionPassNames) \ {"ElimAllocaStoreArg"}) \cup Wrapping
           S == {"ElimAllocaStoreArg"} \cup Wrapping
<1>1. "ElimAllocaStoreArg" \notin Wrapping /\ "ElimAllocaStoreArg" \in ToSet(FunctionPassNames)
  BY PassSets DEF Wrapping
<1>2. DOMAIN FunctionPassNames = 1 .. 3 /\ FunctionPassNames[1] = "ElimAllocaStoreArg"
  BY DEF FunctionPassNames
<1>3. \A k \in 2 .. 3 : FunctionPassNames[k] \in ToSet(FunctionPassNames) \ {"ElimAllocaStoreArg"}
  <2>1. \A k \in 2 .. 3 : k = 2 \/ k = 3
    OBVIOUS
  <2> QED
    BY <2>1, PassSets DEF FunctionPassNames
<1>4. ss[1] \in Seq(S) /\ ComesFirst(ss[1], "ElimAllocaStoreArg", FunctionPassSet)
  <2>1. ss[1] = addFunctionPass("ElimAllocaStoreArg")
    BY <1>2
  <2> QED
    BY <1>1, <2>1, FunctionPassQueued
<1>5. ASSUME NEW k \in 2 .. 3 PROVE ss[k] \in Seq(R)
  <2>1. ss[k] \in Seq({FunctionPassNames[k]} \cup Wrapping)
    BY <1>2, FunctionPassQueued
  <2>2. {FunctionPassNames[k]} \cup Wrapping \subseteq R
    BY <1>3
  <2> QED
    BY <2>1, <2>2, SeqMonotonic
<1>6. S \subseteq T /\ R \subseteq T /\ "ElimAllocaStoreArg" \notin R
  BY <1>1
<1> HIDE DEF T, R, S
<1>8. \A k \in 1 .. 3 : ss[k] \in Seq(T)
  <2>1. ss[1] \in Seq(T)
    BY <1>4, <1>6, SeqMonotonic
  <2>2. ASSUME NEW k \in 2 .. 3 PROVE ss[k] \in Seq(T)
    BY <1>5, <1>6, SeqMonotonic
  <2> QED
    BY <2>1, <2>2
<1>9. ss \in Seq(Seq(T)) /\ Len(ss) = 3
  <2>1. ss \in [1 .. 3 -> Seq(T)]
    BY <1>2, <1>8
  <2> QED
    BY <2>1
<1> HIDE DEF ss
<1>10. IsSequence(ss) /\ ss # <<>>
  <2>1. Len(<<>>) = 0
    OBVIOUS
  <2> QED
    BY <1>9, <2>1, SeqIsSequence
<1>11. PICK r \in Seq(R) : FlattenSeq(ss) = ss[1] \o r
  BY <1>4, <1>5, <1>6, <1>9, <1>10, FlattenHead
<1> DEFINE a == ss[1]
<1>12. a \in Seq(T) /\ r \in Seq(T) /\ "ElimAllocaStoreArg" \notin ToSet(r)
       /\ ComesFirst(a, "ElimAllocaStoreArg", FunctionPassSet)
  BY <1>4, <1>6, <1>8, <1>11, SeqMonotonic, SeqIsSequence
<1> HIDE DEF a
<1>13. a \o r \in Seq(T) /\ ComesFirst(a \o r, "ElimAllocaStoreArg", FunctionPassSet)
  BY <1>12, ConcatProperties, FirstAppend
<1> QED
  BY <1>11, <1>13 DEF a, ss, T

\* Whatever the options ask for, InitGlobal is queued before every module pass and
\* ElimAllocaStoreArg before every function pass.
LEMMA QueuedInOrder ==
  /\ IsSequence(Queued)
  /\ ComesFirst(Queued, "InitGlobal", ModulePassSet)
  /\ ComesFirst(Queued, "ElimAllocaStoreArg", FunctionPassSet)
<1> DEFINE ig == "InitGlobal"
           ea == "ElimAllocaStoreArg"
<1>1. /\ ModulePassSet \intersect Wrapping = {} /\ FunctionPassSet \intersect Wrapping = {}
      /\ ModulePassSet \intersect FunctionPassSet = {} /\ ig \in ModulePassSet /\ ea \in FunctionPassSet
      /\ ig \notin Wrapping /\ ea \notin Wrapping /\ ig \notin FunctionPassSet /\ ea \notin ModulePassSet
  BY PassSets DEF Wrapping
<1>2. ASSUME NEW q, NEW T, q \in Seq(T), ig \notin T, ea \notin T
      PROVE  /\ IsSequence(q) /\ ComesFirst(q, ig, ModulePassSet) /\ ComesFirst(q, ea, FunctionPassSet)
  <2>1. IsSequence(q)
    BY <1>2, SeqIsSequence
  <2>2. \A k \in 1 .. Len(q) : q[k] # ig /\ q[k] # ea
    BY <1>2, ElementOfSeq
  <2> QED
    BY <2>1, <2>2 DEF ComesFirst
<1>3. CASE Queued = <<opts.only>>
  <2>1. <<opts.only>> \in Seq({opts.only})
    OBVIOUS
  <2>2. IsSequence(<<opts.only>>)
    BY <2>1, SeqIsSequence
  <2> QED
    BY <1>3, <2>2, OneFirst
<1>4. CASE Queued = addModulePass("PrintIR")
  <2>1. addModulePass("PrintIR") \in Seq({"PrintIR"} \cup Wrapping)
    BY <1>1, ModulePassQueued
  <2>2. ig \notin {"PrintIR"} \cup Wrapping /\ ea \notin {"PrintIR"} \cup Wrapping
    BY <1>1
  <2> QED
    BY <1>2, <1>4, <2>1, <2>2
<1>5. CASE Queued = Added("verify")
  <2>1. Added("verify") \in Seq({"verify"} \cup Wrapping)
    BY <1>1, AddedFacts
  <2>2. ig \notin {"verify"} \cup Wrapping /\ ea \notin {"verify"} \cup Wrapping
    BY <1>1
  <2> QED
    BY <1>2, <1>5, <2>1, <2>2
<1> DEFINE A == FlattenSeq([k \in DOMAIN ModulePassNames |-> addModulePass(ModulePassNames[k])])
           B == FlattenSeq([k \in DOMAIN FunctionPassNames |-> addFunctionPass(FunctionPassNames[k])])
           M == ModulePassSet \cup Wrapping
           F == ToSet(FunctionPassNames) \cup Wrapping
           T == M \cup F
<1>6. A \in Seq(M) /\ ComesFirst(A, ig, ModulePassSet)
  BY ModulePassesQueued
<1>7. B \in Seq(F) /\ ComesFirst(B, ea, FunctionPassSet)
  BY FunctionPassesQueued
<1>8. M \subseteq T /\ F \subseteq T /\ ig \notin F /\ ea \notin M /\ M \intersect FunctionPassSet = {}
  BY <1>1, PassSets
<1>9. Queued \in {<<opts.only>>, addModulePass("PrintIR"), Added("verify"), A \o B}
  BY DEF Queued
<1> HIDE DEF A, B, M, F, T, ig, ea
<1>10. A \in Seq(T) /\ B \in Seq(T) /\ ToSet(A) \subseteq M /\ ToSet(B) \subseteq F
  BY <1>6, <1>7, <1>8, SeqMonotonic, SeqIsSequence
<1>11. CASE Queued = A \o B
  <2>1. A \o B \in Seq(T)
    BY <1>10, ConcatProperties
  <2>2. IsSequence(A \o B)
    BY <2>1, SeqIsSequence
  <2>3. ComesFirst(A \o B, ig, ModulePassSet)
    <3>1. ig \notin ToSet(B)
      BY <1>8, <1>10
    <3> QED
      BY <1>6, <1>10, <3>1, FirstAppend
  <2>4. ComesFirst(A \o B, ea, FunctionPassSet)
    <3>1. ea \notin ToSet(A) /\ ToSet(A) \intersect FunctionPassSet = {}
      BY <1>8, <1>10
    <3> QED
      BY <1>7, <1>10, <3>1, FirstPrepend
  <2> QED
    BY <1>11, <2>2, <2>3, <2>4 DEF ig, ea
<1> QED
  BY <1>3, <1>4, <1>5, <1>9, <1>11

(***************************************************************************)
(* The order of the passes.  The input is what was read; until InitGlobal  *)
(* starts no module pass has run, and until ElimAllocaStoreArg starts no   *)
(* function pass has.                                                      *)
(***************************************************************************)
InputKept == \E p \in Inputs : input = p.input /\ origin = p.origin

QueueInv ==
  /\ IsSequence(queue)
  /\ ComesFirst(queue, "InitGlobal", ModulePassSet)
  /\ ComesFirst(queue, "ElimAllocaStoreArg", FunctionPassSet)

ModuleFresh ==
  "InitGlobal" \in ToSet(queue) \/ status = "start" => mpass = "idle" /\ at = 0 /\ mod = input.m

FunctionFresh ==
  /\ "ElimAllocaStoreArg" \in ToSet(queue) \/ status = "start" => fpass = "idle" /\ fn = origin.fn
  /\ fpass = "ElimAllocaStoreArg" => fn = origin.fn

OrderInv == InputKept /\ QueueInv /\ ModuleFresh /\ FunctionFresh

\* A step of a module pass is taken in one, and leaves the input alone.
LEMMA ModuleStepPass ==
  ASSUME ModuleStep
  PROVE  mpass \in ModulePassSet /\ mpass # "idle" /\ UNCHANGED input
BY PassSets DEF ModuleStep, VisitGlobal, VisitField, FinishInit, ElimUnusedFunction,
     InlineSimpleFunction, ElimUnusedGlobal, ElimInlineAsm

\* So is a step of a function pass; none starts ElimAllocaStoreArg.
LEMMA FunctionStepPass ==
  ASSUME FunctionStep
  PROVE  /\ fpass \in FunctionPassSet /\ fpass # "idle" /\ UNCHANGED origin
         /\ fpass' = "ElimAllocaStoreArg" => UNCHANGED <<fn, fpass>>
<1>1. CASE ElimAllocaStoreArg
  BY <1>1, PassSets DEF ElimAllocaStoreArg
<1>2. CASE UninlineInstruction
  BY <1>2, PassSets DEF UninlineInstruction
<1>3. CASE CombineGEP
  BY <1>3, PassSets DEF CombineGEP
<1>4. CASE ElimIdenticalInstrs
  BY <1>4, PassSets DEF ElimIdenticalInstrs
<1> QED
  BY <1>1, <1>2, <1>3, <1>4 DEF FunctionStep

\* The order of the passes holds at first,
LEMMA OrderInit == Init => OrderInv
<1> SUFFICES ASSUME Init PROVE OrderInv
  OBVIOUS
<1>1. queue = <<>> /\ <<>> \in Seq({}) /\ Len(<<>>) = 0
  BY DEF Init
<1>2. IsSequence(queue) /\ ToSet(queue) = {}
  <2>1. IsSequence(<<>>) /\ ToSet(<<>>) \subseteq {}
    BY EmptySeq DEF IsSequence, ToSet
  <2> QED
    BY <1>1, <2>1
<1>3. QueueInv
  BY <1>1, <1>2 DEF QueueInv, ComesFirst
<1>4. InputKept /\ ModuleFresh /\ FunctionFresh
  BY <1>2 DEF Init, InputKept, ModuleFresh, FunctionFresh
<1> QED
  BY <1>3, <1>4 DEF OrderInv

\* and every step keeps it.
LEMMA OrderStep == OrderInv /\ [Next]_vars => OrderInv'
<1> SUFFICES ASSUME OrderInv, [Next]_vars PROVE OrderInv'
  OBVIOUS
<1> USE DEF OrderInv
<1>1. CASE ReadInput
  <2>1. UNCHANGED <<input, mod, mpass, at, origin, fn, fpass>> /\ status = "start"
    BY <1>1 DEF ReadInput, mvars, fvars
  <2>2. queue' = Queued \/ queue' = queue
    BY <1>1 DEF ReadInput
  <2>3. QueueInv'
    BY <2>2, QueuedInOrder DEF QueueInv, ComesFirst, IsSequence, ToSet
  <2> QED
    BY <2>1, <2>3 DEF InputKept, ModuleFresh, FunctionFresh
<1>2. CASE StartPass
  <2>1. queue # <<>> /\ queue' = Tail(queue) /\ UNCHANGED <<input, mod, at, origin, fn, status>>
    BY <1>2 DEF StartPass, Ready
  <2>2. QueueInv' /\ ToSet(queue') \subseteq ToSet(queue) /\ Head(queue) \in ToSet(queue)
    BY <2>1, FirstTail DEF QueueInv
  <2>3. Head(queue) \in ModulePassSet => "InitGlobal" \notin ToSet(queue')
    BY <2>1, FirstTail DEF QueueInv
  <2>4. Head(queue) \in FunctionPassSet => "ElimAllocaStoreArg" \notin ToSet(queue')
    BY <2>1, FirstTail DEF QueueInv
  <2>5. status = "run" /\ status' = "run"
    BY <1>2, <2>1 DEF StartPass, Ready
  <2>6. /\ mpass' = mpass \/ (Head(queue) \in ModulePassSet /\ mpass' = Head(queue))
        /\ fpass' = fpass \/ (Head(queue) \in FunctionPassSet /\ fpass' = Head(queue))
    BY <1>2, PassSets DEF StartPass, ModulePassSet
  <2>7. InputKept'
    BY <2>1 DEF InputKept
  <2>8. ModuleFresh'
    BY <2>1, <2>2, <2>3, <2>5, <2>6 DEF ModuleFresh
  <2>9. FunctionFresh'
    BY <2>1, <2>2, <2>4, <2>5, <2>6 DEF FunctionFresh
  <2> QED
    BY <2>2, <2>7, <2>8, <2>9
<1>3. CASE CheckOrPrint
  <2>1. queue # <<>> /\ queue' = Tail(queue) /\ UNCHANGED <<input, mod, mpass, at, origin, fn, fpass>>
    BY <1>3 DEF CheckOrPrint, Ready, mvars, fvars
  <2>2. QueueInv' /\ ToSet(queue') \subseteq ToSet(queue)
    BY <2>1, FirstTail DEF QueueInv
  <2>3. status' # "start"
    BY <1>3 DEF CheckOrPrint, Ready
  <2> QED
    BY <2>1, <2>2, <2>3 DEF InputKept, ModuleFresh, FunctionFresh
<1>4. CASE RunModulePass
  <2>1. mpass # "idle" /\ status = "run" /\ UNCHANGED <<input, origin, fn, fpass, queue, status>>
    BY <1>4, ModuleStepPass DEF RunModulePass, fvars
  <2> QED
    BY <2>1 DEF InputKept, QueueInv, ComesFirst, ModuleFresh, FunctionFresh
<1>5. CASE RunFunctionPass
  <2>1. /\ fpass # "idle" /\ status = "run"
        /\ UNCHANGED <<input, mod, mpass, at, origin, queue, status>>
        /\ fpass' = "ElimAllocaStoreArg" => UNCHANGED <<fn, fpass>>
    BY <1>5, FunctionStepPass DEF RunFunctionPass, mvars
  <2> QED
    BY <2>1 DEF InputKept, QueueInv, ComesFirst, ModuleFresh, FunctionFresh
<1>6. CASE Crash
  BY <1>6 DEF Crash, mvars, fvars, InputKept, QueueInv, ComesFirst, ModuleFresh, FunctionFresh
<1>7. CASE WriteOutput
  BY <1>7 DEF WriteOutput, mvars, fvars, InputKept, QueueInv, ComesFirst, ModuleFresh, FunctionFresh
<1>8. CASE UNCHANGED vars
  BY <1>8 DEF vars, mvars, fvars, InputKept, QueueInv, ComesFirst, ModuleFresh, FunctionFresh
<1> QED
  BY <1>1, <1>2, <1>3, <1>4, <1>5, <1>6, <1>7, <1>8 DEF Next, Stop

\* The initialisation function refers to x, whether or not it is in the list yet.
InitUse(m, x) == \E i \in ToSet(m.body[InitGlobals]) : x \in {i.f, i.g}

AnyUse(m, x) == UsedBy(m, x) \/ InitUse(m, x)

\* A new body of the initialisation function.
LEMMA BodyChanged ==
  ASSUME NEW m, IsModule(m), NEW b, IsSequence(b)
  PROVE  LET n == [m EXCEPT !.body[InitGlobals] = b]
         IN  /\ IsModule(n) /\ n.body[InitGlobals] = b
             /\ n.globals = m.globals /\ n.funcs = m.funcs /\ n.init = m.init /\ n.heap = m.heap
             /\ n.asm = m.asm
             /\ \A x : AnyUse(n, x) => AnyUse(m, x) \/ \E i \in ToSet(b) : x \in {i.f, i.g}
<1> DEFINE n == [m EXCEPT !.body[InitGlobals] = b]
<1>1. /\ m = [globals |-> m.globals, funcs |-> m.funcs, init |-> m.init,
              heap |-> m.heap, body |-> m.body, asm |-> m.asm]
      /\ m.body = [h \in DOMAIN m.body |-> m.body[h]] /\ InitGlobals \in DOMAIN m.body
  BY DEF IsModule
<1>2. /\ n = [globals |-> n.globals, funcs |-> n.funcs, init |-> n.init,
              heap |-> n.heap, body |-> n.body, asm |-> n.asm]
      /\ n.globals = m.globals /\ n.funcs = m.funcs /\ n.init = m.init /\ n.heap = m.heap /\ n.asm = m.asm
      /\ n.body = [m.body EXCEPT ![InitGlobals] = b]
  BY <1>1
<1>3. /\ DOMAIN n.body = DOMAIN m.body /\ n.body[InitGlobals] = b
      /\ \A h \in DOMAIN m.body : h # InitGlobals => n.body[h] = m.body[h]
      /\ n.body = [h \in DOMAIN n.body |-> n.body[h]]
  BY <1>1, <1>2
<1> HIDE DEF n
<1>4. IsModule(n)
  BY <1>2, <1>3 DEF IsModule
<1>5. ASSUME NEW x, AnyUse(n, x) PROVE AnyUse(m, x) \/ \E i \in ToSet(b) : x \in {i.f, i.g}
  <2>1. ToSet(m.funcs) \subseteq DOMAIN m.body
    BY DEF IsModule
  <2> QED
    BY <1>2, <1>3, <1>5, <2>1 DEF AnyUse, UsedBy, InitUse
<1> QED
  BY <1>2, <1>3, <1>4, <1>5 DEF n

\* A new initialiser of a global.
LEMMA InitChanged ==
  ASSUME NEW m, IsModule(m), NEW g \in ToSet(m.globals), NEW v
  PROVE  LET n == [m EXCEPT !.init[g] = v]
         IN  /\ IsModule(n) /\ n.body = m.body
             /\ n.globals = m.globals /\ n.funcs = m.funcs /\ n.heap = m.heap
             /\ \A x : AnyUse(n, x) => AnyUse(m, x) \/ x = v
<1> DEFINE n == [m EXCEPT !.init[g] = v]
<1>1. /\ m = [globals |-> m.globals, funcs |-> m.funcs, init |-> m.init,
              heap |-> m.heap, body |-> m.body, asm |-> m.asm]
      /\ m.init = [h \in DOMAIN m.init |-> m.init[h]] /\ ToSet(m.globals) \subseteq DOMAIN m.init
  BY DEF IsModule
<1>2. /\ n = [globals |-> n.globals, funcs |-> n.funcs, init |-> n.init,
              heap |-> n.heap, body |-> n.body, asm |-> n.asm]
      /\ n.globals = m.globals /\ n.funcs = m.funcs /\ n.body = m.body /\ n.heap = m.heap
      /\ n.init = [m.init EXCEPT ![g] = v]
  BY <1>1
<1>3. /\ DOMAIN n.init = DOMAIN m.init
      /\ \A h \in DOMAIN m.init : n.init[h] = m.init[h] \/ n.init[h] = v
      /\ n.init = [h \in DOMAIN n.init |-> n.init[h]]
  BY <1>1, <1>2
<1> HIDE DEF n
<1>4. IsModule(n)
  BY <1>2, <1>3 DEF IsModule
<1>5. ASSUME NEW x, AnyUse(n, x) PROVE AnyUse(m, x) \/ x = v
  BY <1>1, <1>2, <1>3, <1>5 DEF AnyUse, UsedBy, InitUse
<1> QED
  BY <1>2, <1>4, <1>5 DEF n

\* A new element in a sequence.
LEMMA FieldChanged ==
  ASSUME NEW s, IsSequence(s), NEW k \in 1 .. Len(s), NEW v
  PROVE  IsSequence([s EXCEPT ![k] = v]) /\ ToSet([s EXCEPT ![k] = v]) \subseteq ToSet(s) \cup {v}
<1> DEFINE t == [s EXCEPT ![k] = v]
<1>1. ToSet(s) \subseteq ToSet(s) \cup {v} /\ s \in Seq(ToSet(s))
  BY DEF IsSequence
<1>2. s \in Seq(ToSet(s) \cup {v})
  BY <1>1, SeqMonotonic
<1>3. t \in Seq(ToSet(s) \cup {v})
  BY <1>2, ExceptSeq
<1> HIDE DEF t
<1>4. IsSequence(t) /\ ToSet(t) \subseteq ToSet(s) \cup {v}
  BY <1>3, SeqIsSequence
<1> QED
  BY <1>4 DEF t

\* A new field in a constant.
LEMMA HeapChanged ==
  ASSUME NEW m, IsModule(m), NEW n,
         n = [globals |-> m.globals, funcs |-> m.funcs, init |-> m.init,
              heap |-> n.heap, body |-> m.body, asm |-> m.asm],
         n.heap = [c \in DOMAIN m.heap |-> n.heap[c]],
         NEW v,
         \A c \in DOMAIN m.heap :
           IsSequence(n.heap[c]) /\ ToSet(n.heap[c]) \subseteq ToSet(m.heap[c]) \cup {v}
  PROVE  IsModule(n) /\ \A x : AnyUse(n, x) => AnyUse(m, x) \/ x = v
<1>1. /\ n.globals = m.globals /\ n.funcs = m.funcs /\ n.body = m.body /\ n.init = m.init
      /\ n.asm = m.asm /\ DOMAIN n.heap = DOMAIN m.heap
  OBVIOUS
<1>2. n = [globals |-> n.globals, funcs |-> n.funcs, init |-> n.init,
           heap |-> n.heap, body |-> n.body, asm |-> n.asm]
  BY <1>1
<1>3. IsModule(n)
  BY <1>1, <1>2 DEF IsModule
<1>4. ASSUME NEW x, AnyUse(n, x) PROVE AnyUse(m, x) \/ x = v
  BY <1>1, <1>4 DEF AnyUse, UsedBy, InitUse
<1> QED
  BY <1>3, <1>4

\* Fewer functions, fewer globals and bodies of what was there: no new use.
LEMMA UsesShrink ==
  ASSUME NEW m, NEW n, n.heap = m.heap, n.init = m.init,
         ToSet(n.funcs) \subseteq ToSet(m.funcs), ToSet(n.globals) \subseteq ToSet(m.globals),
         \A h \in ToSet(n.funcs) : \A i \in ToSet(n.body[h]) :
           \E g \in ToSet(m.funcs) : i \in ToSet(m.body[g]),
         NEW x, UsedBy(n, x)
  PROVE  UsedBy(m, x)
BY DEF UsedBy

\* Functions erased from the list of functions.
LEMMA ErasedFacts ==
  ASSUME NEW m, IsModule(m), NEW F
  PROVE  LET n == Erased(m, F)
         IN  /\ IsModule(n) /\ ToSet(n.funcs) = ToSet(m.funcs) \ F
             /\ n.globals = m.globals /\ n.body = m.body /\ n.heap = m.heap /\ n.init = m.init
<1> DEFINE P == ToSet(m.funcs) \ F
           fs == FlattenSeq(Picks(m.funcs, P))
           n == Erased(m, F)
<1>1. /\ m = [globals |-> m.globals, funcs |-> m.funcs, init |-> m.init,
              heap |-> m.heap, body |-> m.body, asm |-> m.asm]
      /\ IsSequence(m.funcs) /\ ToSet(m.funcs) \subseteq DOMAIN m.body
  BY DEF IsModule
<1>2. Picks(m.funcs, P) = [k \in DOMAIN m.funcs |-> IF m.funcs[k] \notin F THEN <<m.funcs[k]>> ELSE <<>>]
  BY DEF Picks, ToSet
<1>3. n = [m EXCEPT !.funcs = fs]
  BY <1>2 DEF Erased, Select
<1>4. IsSequence(fs) /\ ToSet(fs) = P
  <2>1. ToSet(m.funcs) \intersect P = P
    OBVIOUS
  <2> HIDE DEF P
  <2> QED
    BY <1>1, <2>1, PicksFacts
<1> HIDE DEF fs, n
<1>5. /\ n = [globals |-> n.globals, funcs |-> n.funcs, init |-> n.init,
              heap |-> n.heap, body |-> n.body, asm |-> n.asm]
      /\ n.globals = m.globals /\ n.funcs = fs /\ n.body = m.body /\ n.heap = m.heap /\ n.init = m.init
  BY <1>1, <1>3
<1>6. IsModule(n)
  BY <1>1, <1>4, <1>5 DEF IsModule
<1> QED
  BY <1>4, <1>5, <1>6 DEF n

\* The instructions of an inlined body come from the caller and from the callee.
LEMMA SplicedFacts ==
  ASSUME NEW b, IsSequence(b), NEW f, IsSequence(mod.body[f])
  PROVE  IsSequence(Spliced(b, f)) /\ ToSet(Spliced(b, f)) \subseteq ToSet(b) \cup ToSet(mod.body[f])
<1> DEFINE t == mod.body[f]
           P == {i \in ToSet(t) : i.op # "ret"}
           inner == FlattenSeq(Picks(t, P))
           T == ToSet(b) \cup ToSet(t)
           ss == [i \in DOMAIN b |-> IF IsCallOf(b[i], f) THEN inner ELSE <<b[i]>>]
<1>1. Picks(t, P) = [k \in DOMAIN t |-> IF t[k].op # "ret" THEN <<t[k]>> ELSE <<>>]
  BY DEF Picks, ToSet
<1>2. Spliced(b, f) = FlattenSeq(ss)
  BY <1>1 DEF Spliced, Select
<1>3. IsSequence(inner) /\ ToSet(inner) \subseteq ToSet(t)
  <2> HIDE DEF P
  <2> QED
    BY PicksFacts
<1> HIDE DEF inner
<1>4. inner \in Seq(T)
  BY <1>3, SeqMonotonic DEF IsSequence
<1>5. Len(b) \in Nat /\ DOMAIN b = 1 .. Len(b) /\ \A k \in 1 .. Len(b) : b[k] \in ToSet(b)
  BY SequenceFacts
<1>6. \A k \in 1 .. Len(b) : ss[k] \in Seq(T)
  <2>1. ASSUME NEW k \in 1 .. Len(b) PROVE ss[k] \in Seq(T)
    <3>1. b[k] \in T
      BY <1>5
    <3>2. <<b[k]>> \in Seq(T)
      <4> HIDE DEF T
      <4> QED
        BY <3>1
    <3>3. ss[k] = inner \/ ss[k] = <<b[k]>>
      BY <1>5
    <3> QED
      BY <1>4, <3>2, <3>3
  <2> QED
    BY <2>1
<1>7. ss \in Seq(Seq(T)) /\ DOMAIN ss = 1 .. Len(b)
  BY <1>5, <1>6
<1> HIDE DEF ss, T
<1>8. IsSequence(ss)
  BY <1>7, SeqIsSequence
<1>9. \A k \in DOMAIN ss : IsSequence(ss[k]) /\ ToSet(ss[k]) \subseteq T
  BY <1>6, <1>7, SeqIsSequence
<1>10. IsSequence(FlattenSeq(ss)) /\ ToSet(FlattenSeq(ss)) = Elements(ss)
  BY <1>8, <1>9, FlattenFacts
<1>11. Elements(ss) \subseteq T
  BY <1>9 DEF Elements
<1> QED
  BY <1>2, <1>10, <1>11 DEF T

\* Inlining a function everywhere only moves uses.
LEMMA InlinedFacts ==
  ASSUME IsModule(mod), NEW f \in Functions
  PROVE  LET m == InlinedEverywhere(f)
         IN  /\ IsModule(m) /\ m.funcs = mod.funcs /\ m.globals = mod.globals
             /\ m.heap = mod.heap /\ m.init = mod.init
             /\ \A h \in Functions : \A i \in ToSet(m.body[h]) :
                  \E g \in Functions : i \in ToSet(mod.body[g])
<1> DEFINE m == InlinedEverywhere(f)
           new == [h \in DOMAIN mod.body |->
                     IF h \in Functions /\ <<f, h>> \notin input.refused
                     THEN Spliced(mod.body[h], f) ELSE mod.body[h]]
<1>1. /\ mod = [globals |-> mod.globals, funcs |-> mod.funcs, init |-> mod.init,
                heap |-> mod.heap, body |-> mod.body, asm |-> mod.asm]
      /\ Functions \cup {InitGlobals} \subseteq DOMAIN mod.body
      /\ \A h \in DOMAIN mod.body : IsSequence(mod.body[h])
  BY DEF IsModule, Functions
<1>2. m = [mod EXCEPT !.body = new]
  BY DEF InlinedEverywhere
<1>3. \A h \in DOMAIN mod.body :
        /\ IsSequence(new[h])
        /\ new[h] = mod.body[h] \/ ToSet(new[h]) \subseteq ToSet(mod.body[h]) \cup ToSet(mod.body[f])
  BY <1>1, SplicedFacts
<1>4. DOMAIN new = DOMAIN mod.body /\ new = [h \in DOMAIN new |-> new[h]]
  OBVIOUS
<1> HIDE DEF new, m
<1>5. /\ m = [globals |-> m.globals, funcs |-> m.funcs, init |-> m.init,
              heap |-> m.heap, body |-> m.body, asm |-> m.asm]
      /\ m.globals = mod.globals /\ m.funcs = mod.funcs /\ m.body = new
      /\ m.heap = mod.heap /\ m.init = mod.init
  BY <1>1, <1>2
<1>6. IsModule(m)
  BY <1>1, <1>3, <1>4, <1>5 DEF IsModule
<1>7. ASSUME NEW h \in Functions, NEW i \in ToSet(m.body[h])
      PROVE  \E g \in Functions : i \in ToSet(mod.body[g])
  BY <1>1, <1>3, <1>5, <1>7
<1> QED
  BY <1>5, <1>6, <1>7 DEF m

\* One more element at the end.
LEMMA AppendElements ==
  ASSUME NEW s, IsSequence(s), NEW x
  PROVE  IsSequence(Append(s, x)) /\ ToSet(Append(s, x)) = ToSet(s) \cup {x}
<1> DEFINE T == ToSet(s) \cup {x}
<1>1. s \in Seq(T) /\ <<x>> \in Seq(T)
  <2>1. s \in Seq(ToSet(s)) /\ ToSet(s) \subseteq T
    BY DEF IsSequence
  <2> QED
    BY <2>1, SeqMonotonic
<1>2. Append(s, x) = s \o <<x>>
  BY <1>1
<1>3. s \o <<x>> \in Seq(T) /\ ToSet(s \o <<x>>) = ToSet(s) \union ToSet(<<x>>)
  <2> HIDE DEF T
  <2> QED
    BY <1>1, ConcatElements
<1>4. ToSet(<<x>>) = {x}
  BY OneFirst
<1>5. IsSequence(s \o <<x>>)
  <2> HIDE DEF T
  <2> QED
    BY <1>3, SeqIsSequence
<1> QED
  BY <1>2, <1>3, <1>4, <1>5

\* The last element, and the others.
LEMMA FrontLast ==
  ASSUME NEW s, IsSequence(s), s # <<>>
  PROVE  IsSequence(Front(s)) /\ ToSet(Front(s)) \subseteq ToSet(s) /\ Last(s) \in ToSet(s)
<1>1. Len(s) \in Nat /\ Len(s) # 0 /\ DOMAIN s = 1 .. Len(s) /\ \A k \in 1 .. Len(s) : s[k] \in ToSet(s)
  BY SequenceFacts, EmptySeq
<1>2. Front(s) \in Seq(ToSet(s))
  <2>1. \A i \in 1 .. Len(s) - 1 : s[i] \in ToSet(s)
    BY <1>1
  <2>2. Len(s) - 1 \in Int /\ 1 \in Int
    BY <1>1
  <2>3. SubSeq(s, 1, Len(s) - 1) \in Seq(ToSet(s))
    BY <2>1, <2>2, SubSeqProperties
  <2> QED
    BY <2>3 DEF Front
<1>3. IsSequence(Front(s)) /\ ToSet(Front(s)) \subseteq ToSet(s)
  BY <1>2, SeqIsSequence
<1>4. Last(s) \in ToSet(s)
  BY <1>1 DEF Last
<1> QED
  BY <1>3, <1>4

\* Whatever order the constructors are sorted in, they are operands of constants.
LEMMA CtorFacts ==
  ASSUME NEW m, IsModule(m), NEW s \in Sorted(CtorEntries(m))
  PROVE  \E n \in Nat : /\ DOMAIN s = 1 .. n
           /\ \A i \in 1 .. n : s[i].func = Null \/ \E c \in DOMAIN m.heap : s[i].func \in ToSet(m.heap[c])
<1> DEFINE table == IF m.init[GlobalCtors] \in DOMAIN m.heap THEN m.heap[m.init[GlobalCtors]] ELSE <<>>
           P == {c \in DOMAIN m.heap : Len(m.heap[c]) = 3}
           entries == FlattenSeq(Picks(table, P))
           E == CtorEntries(m)
<1>1. IsSequence(table)
  <2>1. IsSequence(<<>>)
    BY EmptySeq DEF IsSequence
  <2> QED
    BY <2>1 DEF IsModule
<1>2. IsSequence(entries) /\ ToSet(entries) \subseteq P
  <2> HIDE DEF P, table
  <2> QED
    BY <1>1, PicksFacts
<1>3. Picks(table, P) = [k \in DOMAIN table |->
        IF table[k] \in DOMAIN m.heap /\ Len(m.heap[table[k]]) = 3 THEN <<table[k]>> ELSE <<>>]
  BY DEF Picks
<1>4. E = [i \in 1 .. Len(entries) |->
         LET e == m.heap[entries[i]]
         IN  [prio |-> IF e[1] \in DOMAIN input.intVal THEN input.intVal[e[1]] ELSE 0,
              func |-> IF e[2] \in DOMAIN input.linkage THEN e[2] ELSE Null]]
  <2> HIDE DEF table, P
  <2>1. FlattenSeq([k \in DOMAIN table |->
          IF table[k] \in DOMAIN m.heap /\ Len(m.heap[table[k]]) = 3 THEN <<table[k]>> ELSE <<>>]) = entries
    BY <1>3
  <2> QED
    BY <2>1 DEF CtorEntries, Select, table
<1> HIDE DEF entries, table, P, E
<1>5. Len(entries) \in Nat /\ \A i \in 1 .. Len(entries) : entries[i] \in P
  BY <1>2, SequenceFacts
<1>6. DOMAIN E = 1 .. Len(entries)
  BY <1>4
<1>7. ASSUME NEW i \in 1 .. Len(entries)
      PROVE  E[i].func = Null \/ \E c \in DOMAIN m.heap : E[i].func \in ToSet(m.heap[c])
  <2> DEFINE e == m.heap[entries[i]]
  <2>1. E[i].func = Null \/ E[i].func = e[2]
    BY <1>4
  <2>2. entries[i] \in DOMAIN m.heap /\ Len(e) = 3
    BY <1>5 DEF P
  <2>3. IsSequence(e)
    BY <2>2 DEF IsModule
  <2>4. e[2] \in ToSet(e)
    <3> HIDE DEF e
    <3>1. 2 \in 1 .. Len(e)
      BY <2>2
    <3> QED
      BY <2>3, <3>1, SequenceFacts
  <2> QED
    BY <2>1, <2>2, <2>4
<1>8. PICK q \in [DOMAIN E -> DOMAIN E] : s = [i \in DOMAIN E |-> E[q[i]]]
  BY DEF Sorted, E
<1>9. DOMAIN s = 1 .. Len(entries)
  BY <1>6, <1>8
<1>10. ASSUME NEW i \in 1 .. Len(entries)
       PROVE  s[i].func = Null \/ \E c \in DOMAIN m.heap : s[i].func \in ToSet(m.heap[c])
  <2>1. s[i] = E[q[i]] /\ q[i] \in 1 .. Len(entries)
    BY <1>6, <1>8
  <2> QED
    BY <1>7, <2>1
<1> QED
  BY <1>5, <1>9, <1>10
------------------------------------------------------------------------------
(* Nothing dangles *)

StackInv ==
  /\ IsSequence(stack)
  /\ \A fr \in ToSet(stack) :
       /\ fr = [path |-> fr.path, c |-> fr.c, next |-> fr.next]
       /\ fr.c \in DOMAIN mod.heap /\ fr.next \in Nat \ {0}
  /\ stack # <<>> => mpass = "InitGlobal" /\ at # 0
  /\ mpass = "InitGlobal" => at \in 0 .. Len(mod.globals)

Names == ToSet(input.m.funcs) \cup ToSet(input.m.globals)
Present == Functions \cup GlobalVars

\* While InitGlobal works the initialisation function counts, whose uses will be uses.
UsesPresent ==
  \A x \in Names :
    Used(x) \/ (mpass = "InitGlobal" /\ InitUse(mod, x)) => x \in Present

ModuleInv == IsModule(mod) /\ StackInv /\ UsesPresent

\* A step of InitGlobal: what it newly refers to is there.
LEMMA UsesGrow ==
  ASSUME UsesPresent, mpass = "InitGlobal", UNCHANGED input,
         mod'.funcs = mod.funcs, mod'.globals = mod.globals,
         \A x \in Names : AnyUse(mod', x) => AnyUse(mod, x) \/ x \in Present
  PROVE  UsesPresent'
<1>1. Present' = Present /\ Names' = Names
  BY DEF Present, Functions, GlobalVars, Names
<1>2. ASSUME NEW x PROVE Used(x)' \/ InitUse(mod, x)' => AnyUse(mod', x)
  BY DEF Used, UsedBy, InitUse, AnyUse
<1>3. ASSUME NEW x \in Names, AnyUse(mod, x) PROVE x \in Present
  BY <1>3 DEF UsesPresent, AnyUse, Used
<1> QED
  BY <1>1, <1>2, <1>3 DEF UsesPresent

\* Null and None are no names of the module.
LEMMA NamesAreNot ==
  ASSUME InputKept
  PROVE  Null \notin Names /\ None \notin Names /\ IsModule(input.m) /\ input.m.body[InitGlobals] = <<>>
<1>1. PICK p \in Inputs : input = p.input
  BY DEF InputKept
<1> DEFINE fs == input.m.funcs
           gs == input.m.globals
<1>2. /\ IsModule(input.m) /\ input.m.body[InitGlobals] = <<>>
      /\ ToSet(fs \o gs) \cap {Null, None} = {}
  BY <1>1, InputAssumption
<1>3. IsSequence(fs) /\ IsSequence(gs)
  BY <1>2 DEF IsModule
<1> HIDE DEF fs, gs
<1>4. ToSet(fs \o gs) = ToSet(fs) \union ToSet(gs)
  <2> DEFINE T == ToSet(fs) \cup ToSet(gs)
  <2>1. fs \in Seq(T) /\ gs \in Seq(T)
    <3>1. ToSet(fs) \subseteq T /\ ToSet(gs) \subseteq T
      OBVIOUS
    <3> QED
      BY <1>3, <3>1, SeqMonotonic DEF IsSequence
  <2> HIDE DEF T
  <2> QED
    BY <2>1, ConcatElements
<1> QED
  BY <1>2, <1>4 DEF Names, fs, gs

\* An instruction emitted into the initialisation function adds its own uses only.
LEMMA EmitFacts ==
  ASSUME NEW m, IsModule(m), NEW i
  PROVE  LET n == Emit(m, i)
         IN  /\ IsModule(n) /\ n.globals = m.globals /\ n.funcs = m.funcs
             /\ n.heap = m.heap /\ n.init = m.init
             /\ \A x : AnyUse(n, x) => AnyUse(m, x) \/ x \in {i.f, i.g}
<1> DEFINE b == Append(m.body[InitGlobals], i)
<1>1. IsSequence(m.body[InitGlobals])
  BY DEF IsModule
<1>2. IsSequence(b) /\ ToSet(b) = ToSet(m.body[InitGlobals]) \cup {i}
  BY <1>1, AppendElements
<1>3. Emit(m, i) = [m EXCEPT !.body[InitGlobals] = b]
  BY DEF Emit
<1> HIDE DEF b
<1> DEFINE n == [m EXCEPT !.body[InitGlobals] = b]
<1>4. /\ IsModule(n) /\ n.globals = m.globals /\ n.funcs = m.funcs
      /\ n.heap = m.heap /\ n.init = m.init
      /\ \A x : AnyUse(n, x) => AnyUse(m, x) \/ \E j \in ToSet(b) : x \in {j.f, j.g}
  BY <1>2, BodyChanged
<1> HIDE DEF n
<1>5. ASSUME NEW x, AnyUse(n, x) PROVE AnyUse(m, x) \/ x \in {i.f, i.g}
  BY <1>2, <1>4, <1>5 DEF AnyUse, InitUse
<1> QED
  BY <1>3, <1>4, <1>5 DEF n

\* The two names of an instruction.
LEMMA InstrFields ==
  ASSUME NEW op, NEW f, NEW g, NEW path
  PROVE  Instr(op, f, g, path).f = f /\ Instr(op, f, g, path).g = g
BY DEF Instr

\* InitGlobal: looking at the next global,
LEMMA VisitGlobalKeeps ==
  ASSUME ModuleInv, InputKept, VisitGlobal
  PROVE  ModuleInv'
<1> DEFINE g == mod.globals[at + 1]
<1>1. /\ mpass = "InitGlobal" /\ stack = <<>> /\ at \in Nat /\ at < Len(mod.globals) /\ at' = at + 1
      /\ UNCHANGED input /\ IsModule(mod) /\ IsSequence(mod.globals) /\ Len(mod.globals) \in Nat
  <2>1. IsSequence(mod.globals)
    BY DEF ModuleInv, IsModule
  <2> QED
    BY <2>1, SequenceFacts DEF VisitGlobal, ModuleInv, StackInv
<1>2. at + 1 \in 1 .. Len(mod.globals)
  BY <1>1
<1>3. g \in ToSet(mod.globals) /\ g \in Present
  BY <1>1, <1>2, SequenceFacts DEF Present, GlobalVars
<1>4. Null \notin Names /\ None \notin Names
  BY NamesAreNot
<1> HIDE DEF g
\* What each kind of global has to show.
<1>5. SUFFICES /\ IsModule(mod') /\ mod'.funcs = mod.funcs /\ mod'.globals = mod.globals
               /\ \A x \in Names : AnyUse(mod', x) => AnyUse(mod, x) \/ x \in Present
               /\ IsSequence(stack')
               /\ \A fr \in ToSet(stack') : /\ fr = [path |-> fr.path, c |-> fr.c, next |-> fr.next]
                                            /\ fr.c \in DOMAIN mod'.heap /\ fr.next \in Nat \ {0}
               /\ stack' # <<>> => mpass' = "InitGlobal"
  <2>1. UsesPresent'
    BY <1>1, <1>5, UsesGrow DEF ModuleInv
  <2>2. StackInv'
    BY <1>1, <1>2, <1>5 DEF StackInv
  <2> QED
    BY <1>5, <2>1, <2>2 DEF ModuleInv
<1>6. IsSequence(<<>>) /\ ToSet(<<>>) = {}
  BY EmptySeq DEF IsSequence, ToSet
<1>7. CASE InvokeGlobalInitFunctions /\ UNCHANGED stack
  <2>1. PICK s \in Sorted(CtorEntries(mod)) :
          IF \E i \in DOMAIN s : s[i].func = Null
          THEN mpass' = "crash" /\ UNCHANGED mod
          ELSE /\ mod' = [mod EXCEPT !.body[InitGlobals] =
                            @ \o [i \in DOMAIN s |-> Instr("call", s[i].func, None, <<>>)]]
               /\ UNCHANGED mpass
    BY <1>7 DEF InvokeGlobalInitFunctions
  <2>2. CASE \E i \in DOMAIN s : s[i].func = Null
    BY <1>1, <1>6, <1>7, <2>1, <2>2
  <2>3. CASE ~ \E i \in DOMAIN s : s[i].func = Null
    <3>1. PICK n \in Nat : /\ DOMAIN s = 1 .. n
             /\ \A i \in 1 .. n : s[i].func = Null \/ \E c \in DOMAIN mod.heap : s[i].func \in ToSet(mod.heap[c])
      BY <1>1, CtorFacts
    <3> DEFINE calls == [i \in DOMAIN s |-> Instr("call", s[i].func, None, <<>>)]
               old == mod.body[InitGlobals]
               I == ToSet(old) \cup {Instr("call", s[i].func, None, <<>>) : i \in DOMAIN s}
               b == old \o calls
    <3>2. calls \in Seq(I)
      BY <3>1
    <3>3. old \in Seq(I)
      <4>1. old \in Seq(ToSet(old))
        BY <1>1 DEF IsModule, IsSequence
      <4>2. ToSet(old) \subseteq I
        OBVIOUS
      <4> HIDE DEF old, I
      <4> QED
        BY <4>1, <4>2, SeqMonotonic
    <3>4. IsSequence(b) /\ ToSet(b) \subseteq I
      <4> HIDE DEF old, I, calls
      <4>1. b \in Seq(I)
        BY <3>2, <3>3, ConcatProperties
      <4> HIDE DEF b
      <4> QED
        BY <4>1, SeqIsSequence
    <3>5. mod' = [mod EXCEPT !.body[InitGlobals] = b] /\ UNCHANGED mpass
      BY <2>1, <2>3
    <3> HIDE DEF b
    <3>6. /\ IsModule(mod') /\ mod'.globals = mod.globals /\ mod'.funcs = mod.funcs
          /\ \A x : AnyUse(mod', x) => AnyUse(mod, x) \/ \E j \in ToSet(b) : x \in {j.f, j.g}
      BY <1>1, <3>4, <3>5, BodyChanged
    <3>7. ASSUME NEW x \in Names, NEW j \in ToSet(b), x \in {j.f, j.g} PROVE AnyUse(mod, x)
      <4>1. CASE j \in ToSet(old)
        BY <3>7, <4>1 DEF AnyUse, InitUse
      <4>2. ASSUME NEW i \in DOMAIN s, j = Instr("call", s[i].func, None, <<>>) PROVE AnyUse(mod, x)
        <5>1. x = s[i].func
          BY <1>4, <3>7, <4>2, InstrFields
        <5>2. \E c \in DOMAIN mod.heap : x \in ToSet(mod.heap[c])
          BY <1>4, <3>1, <5>1
        <5> QED
          BY <5>2 DEF AnyUse, UsedBy
      <4> QED
        BY <3>4, <4>1, <4>2
    <3> QED
      BY <1>1, <1>6, <1>7, <3>5, <3>6, <3>7
  <2> QED
    BY <2>2, <2>3
<1>8. CASE EnterAggregate(g) /\ UNCHANGED <<mod, mpass>>
  <2>1. CASE stack' = <<>>
    BY <1>1, <1>6, <1>8, <2>1
  <2>2. CASE stack' # <<>>
    <3> DEFINE fr == [path |-> <<>>, c |-> mod.init[g], next |-> 1]
    <3>1. stack' = <<fr>> /\ mod.init[g] \in DOMAIN mod.heap
      BY <1>8, <2>2 DEF EnterAggregate, IsAggregate
    <3>2. fr = [path |-> fr.path, c |-> fr.c, next |-> fr.next] /\ fr.c \in DOMAIN mod.heap /\ fr.next = 1
      BY <3>1
    <3> HIDE DEF fr
    <3>3. ToSet(<<fr>>) = {fr} /\ IsSequence(<<fr>>)
      <4>1. <<fr>> \in Seq({fr})
        OBVIOUS
      <4> QED
        BY <4>1, OneFirst, SeqIsSequence
    <3> QED
      BY <1>1, <1>8, <3>1, <3>2, <3>3
  <2> QED
    BY <2>1, <2>2
<1>9. CASE PointerInit(g) /\ UNCHANGED <<stack, mpass>>
  <2>1. CASE mod' = mod
    BY <1>1, <1>6, <1>9, <2>1
  <2>2. CASE mod' # mod
    <3> DEFINE i == StoreAt(g, <<>>, mod.init[g])
               m == Emit(mod, i)
    <3>1. mod' = [m EXCEPT !.init[g] = Null]
      BY <1>9, <2>2 DEF PointerInit
    <3>2. i.f = mod.init[g] /\ i.g = g
      BY InstrFields DEF StoreAt
    <3> HIDE DEF i
    <3>3. /\ IsModule(m) /\ m.globals = mod.globals /\ m.funcs = mod.funcs
          /\ \A x : AnyUse(m, x) => AnyUse(mod, x) \/ x \in {i.f, i.g}
      BY <1>1, EmitFacts
    <3> HIDE DEF m
    <3>4. /\ IsModule(mod') /\ mod'.globals = mod.globals /\ mod'.funcs = mod.funcs
          /\ \A x : AnyUse(mod', x) => AnyUse(m, x) \/ x = Null
      <4> DEFINE n == [m EXCEPT !.init[g] = Null]
      <4>1. g \in ToSet(m.globals) /\ IsModule(m)
        BY <1>3, <3>3
      <4>2. /\ IsModule(n) /\ n.globals = m.globals /\ n.funcs = m.funcs
            /\ \A x : AnyUse(n, x) => AnyUse(m, x) \/ x = Null
        BY ONLY <4>1, InitChanged
      <4>3. mod' = n
        BY <3>1
      <4> HIDE DEF n
      <4> QED
        BY <3>3, <4>2, <4>3
    <3>5. AnyUse(mod, mod.init[g])
      BY <1>3 DEF AnyUse, UsedBy
    <3>6. ASSUME NEW x \in Names, AnyUse(mod', x) PROVE AnyUse(mod, x) \/ x \in Present
      BY <1>3, <1>4, <3>2, <3>3, <3>4, <3>5, <3>6
    <3> QED
      BY <1>1, <1>6, <1>9, <3>4, <3>6
  <2> QED
    BY <2>1, <2>2
<1>10. CASE UNCHANGED <<mod, stack, mpass>>
  BY <1>1, <1>6, <1>10
<1> QED
  BY <1>7, <1>8, <1>9, <1>10 DEF VisitGlobal, g

\* at the next field of its initialiser,
LEMMA VisitFieldKeeps ==
  ASSUME ModuleInv, InputKept, VisitField
  PROVE  ModuleInv'
<1> DEFINE fr == Last(stack)
           rest == Front(stack)
           c == mod.heap[fr.c][fr.next]
           later == Append(rest, [fr EXCEPT !.next = @ + 1])
           G == mod.globals[at]
<1>1. /\ mpass = "InitGlobal" /\ stack # <<>> /\ UNCHANGED <<input, mpass, at>>
      /\ IsModule(mod) /\ IsSequence(stack)
      /\ \A f \in ToSet(stack) : /\ f = [path |-> f.path, c |-> f.c, next |-> f.next]
                                 /\ f.c \in DOMAIN mod.heap /\ f.next \in Nat \ {0}
      /\ at \in 0 .. Len(mod.globals) /\ at # 0 /\ IsSequence(mod.globals)
  BY DEF VisitField, ModuleInv, StackInv, IsModule
<1>2. IsSequence(rest) /\ ToSet(rest) \subseteq ToSet(stack) /\ fr \in ToSet(stack)
  BY <1>1, FrontLast
<1>3. G \in Present
  <2>1. at \in 1 .. Len(mod.globals)
    BY <1>1
  <2>2. mod.globals[at] \in ToSet(mod.globals)
    BY <1>1, <2>1, SequenceFacts
  <2> QED
    BY <2>2 DEF Present, GlobalVars
<1>4. Null \notin Names /\ None \notin Names
  BY NamesAreNot
<1>5. SUFFICES /\ IsModule(mod') /\ mod'.funcs = mod.funcs /\ mod'.globals = mod.globals
               /\ DOMAIN mod'.heap = DOMAIN mod.heap
               /\ \A x \in Names : AnyUse(mod', x) => AnyUse(mod, x) \/ x \in Present
               /\ IsSequence(stack')
               /\ \A f \in ToSet(stack') : /\ f = [path |-> f.path, c |-> f.c, next |-> f.next]
                                           /\ f.c \in DOMAIN mod.heap /\ f.next \in Nat \ {0}
  <2>1. UsesPresent'
    BY <1>1, <1>5, UsesGrow DEF ModuleInv
  <2>2. StackInv'
    BY <1>1, <1>5 DEF StackInv
  <2> QED
    BY <1>5, <2>1, <2>2 DEF ModuleInv
<1>6. /\ fr = [path |-> fr.path, c |-> fr.c, next |-> fr.next]
      /\ fr.c \in DOMAIN mod.heap /\ fr.next \in Nat \ {0}
  BY <1>1, <1>2
<1>7. IF fr.next > Len(mod.heap[fr.c])
      THEN stack' = rest /\ UNCHANGED mod
      ELSE /\ mod' = IF c = Null THEN mod ELSE FieldMoved(fr, c)
           /\ stack' = IF c # Null /\ IsAggregate(c)
                       THEN Append(later, [path |-> Append(fr.path, fr.next), c |-> c, next |-> 1])
                       ELSE later
  BY DEF VisitField
<1> HIDE DEF fr, rest, G
<1>8. CASE fr.next > Len(mod.heap[fr.c])
  BY <1>1, <1>2, <1>7, <1>8
<1>9. CASE ~ (fr.next > Len(mod.heap[fr.c]))
  <2>1. IsSequence(mod.heap[fr.c]) /\ fr.next \in 1 .. Len(mod.heap[fr.c])
    <3>1. IsSequence(mod.heap[fr.c])
      BY <1>1, <1>6 DEF IsModule
    <3>2. Len(mod.heap[fr.c]) \in Nat
      BY <3>1, SequenceFacts
    <3> QED
      BY <1>6, <1>9, <3>1, <3>2
  <2>2. c \in ToSet(mod.heap[fr.c])
    BY <2>1, SequenceFacts
  <2>3. AnyUse(mod, c)
    BY <1>6, <2>2 DEF AnyUse, UsedBy
  <2>4. /\ IsModule(mod') /\ mod'.funcs = mod.funcs /\ mod'.globals = mod.globals
        /\ DOMAIN mod'.heap = DOMAIN mod.heap
        /\ \A x \in Names : AnyUse(mod', x) => AnyUse(mod, x) \/ x \in Present
    <3>1. CASE c = Null
      BY <1>1, <1>7, <1>9, <3>1
    <3>2. CASE c # Null
      <4> DEFINE v == IF NulledField(c) THEN Null ELSE c
                 n == [mod EXCEPT !.heap[fr.c][fr.next] = v]
                 i == StoreAt(G, Append(fr.path, fr.next), c)
      <4>1. mod' = IF StoredLeaf(c) THEN Emit(n, i) ELSE n
        <5>1. mod' = FieldMoved(fr, c)
          BY <1>7, <1>9, <3>2
        <5>2. n = [mod EXCEPT !.heap[fr.c][fr.next] = IF NulledField(c) THEN Null ELSE @]
          OBVIOUS
        <5> HIDE DEF n, v
        <5> QED
          BY <5>1, <5>2 DEF FieldMoved, G
      <4>2. i.f = c /\ i.g = G
        BY InstrFields DEF StoreAt
      <4>3. v = Null \/ v = c
        OBVIOUS
      <4> HIDE DEF v, i
      <4>4. /\ IsModule(n) /\ n.funcs = mod.funcs /\ n.globals = mod.globals
            /\ DOMAIN n.heap = DOMAIN mod.heap
            /\ \A x : AnyUse(n, x) => AnyUse(mod, x) \/ x = v
        <5> DEFINE d == fr.c
                   k == fr.next
        <5>1. IsModule(mod) /\ d \in DOMAIN mod.heap /\ k \in 1 .. Len(mod.heap[d])
          BY <1>1, <1>6, <2>1
        <5>2. n = [mod EXCEPT !.heap = [mod.heap EXCEPT ![d] = [mod.heap[d] EXCEPT ![k] = v]]]
          OBVIOUS
        <5> HIDE DEF d, k, n
        <5> DEFINE hh == [mod.heap EXCEPT ![d] = [mod.heap[d] EXCEPT ![k] = v]]
        <5>3. n = [mod EXCEPT !.heap = hh]
          BY <5>2
        <5>4. mod = [globals |-> mod.globals, funcs |-> mod.funcs, init |-> mod.init,
                     heap |-> mod.heap, body |-> mod.body, asm |-> mod.asm]
          BY <1>1 DEF IsModule
        <5> HIDE DEF hh
        <5>5. /\ n = [globals |-> mod.globals, funcs |-> mod.funcs, init |-> mod.init,
                      heap |-> n.heap, body |-> mod.body, asm |-> mod.asm]
              /\ n.heap = hh
          BY ONLY <5>3, <5>4
        <5> DEFINE t == [mod.heap[d] EXCEPT ![k] = v]
        <5>6. IsSequence(t) /\ ToSet(t) \subseteq ToSet(mod.heap[d]) \cup {v}
          <6> DEFINE s == mod.heap[d]
          <6>1. IsSequence(s) /\ k \in 1 .. Len(s)
            BY <5>1 DEF IsModule
          <6> HIDE DEF s
          <6>2. IsSequence([s EXCEPT ![k] = v]) /\ ToSet([s EXCEPT ![k] = v]) \subseteq ToSet(s) \cup {v}
            BY <6>1, FieldChanged
          <6> QED
            BY <6>2 DEF s
        <5>7. hh = [mod.heap EXCEPT ![d] = t]
          BY DEF hh
        <5> HIDE DEF t
        <5>8. /\ DOMAIN hh = DOMAIN mod.heap /\ hh[d] = t
              /\ \A a \in DOMAIN mod.heap : a # d => hh[a] = mod.heap[a]
              /\ hh = [a \in DOMAIN mod.heap |-> hh[a]]
          BY <5>1, <5>7
        <5>9. \A a \in DOMAIN mod.heap :
                IsSequence(hh[a]) /\ ToSet(hh[a]) \subseteq ToSet(mod.heap[a]) \cup {v}
          BY <1>1, <5>6, <5>8 DEF IsModule
        <5>10. IsModule(n) /\ \A x : AnyUse(n, x) => AnyUse(mod, x) \/ x = v
          <6>1. n.heap = [a \in DOMAIN mod.heap |-> n.heap[a]]
            BY <5>5, <5>8
          <6>2. \A a \in DOMAIN mod.heap :
                  IsSequence(n.heap[a]) /\ ToSet(n.heap[a]) \subseteq ToSet(mod.heap[a]) \cup {v}
            BY <5>5, <5>9
          <6>3. IsModule(mod)
            BY <1>1
          <6>4. n = [globals |-> mod.globals, funcs |-> mod.funcs, init |-> mod.init,
                     heap |-> n.heap, body |-> mod.body, asm |-> mod.asm]
            BY <5>5
          <6> QED
            BY ONLY <6>1, <6>2, <6>3, <6>4, HeapChanged
        <5>11. n.funcs = mod.funcs /\ n.globals = mod.globals
          BY ONLY <5>5
        <5> QED
          BY <5>5, <5>8, <5>10, <5>11
      <4> HIDE DEF n
      <4> DEFINE o == Emit(n, i)
      <4>5. /\ IsModule(o) /\ o.funcs = n.funcs /\ o.globals = n.globals /\ o.heap = n.heap
            /\ \A x : AnyUse(o, x) => AnyUse(n, x) \/ x \in {i.f, i.g}
        BY <4>4, EmitFacts
      <4> HIDE DEF o
      <4>6. ASSUME NEW x \in Names, AnyUse(n, x) PROVE AnyUse(mod, x)
        BY <1>4, <2>3, <4>3, <4>4, <4>6
      <4>7. ASSUME NEW x \in Names, AnyUse(o, x) PROVE AnyUse(mod, x) \/ x \in Present
        BY <1>3, <2>3, <4>2, <4>5, <4>6, <4>7
      <4> QED
        BY <4>1, <4>4, <4>5, <4>6, <4>7 DEF o
    <3> QED
      BY <3>1, <3>2
  <2>5. /\ IsSequence(stack')
        /\ \A f \in ToSet(stack') : /\ f = [path |-> f.path, c |-> f.c, next |-> f.next]
                                    /\ f.c \in DOMAIN mod.heap /\ f.next \in Nat \ {0}
    <3> DEFINE on == [fr EXCEPT !.next = @ + 1]
               in == [path |-> Append(fr.path, fr.next), c |-> c, next |-> 1]
    <3>1. on = [path |-> on.path, c |-> on.c, next |-> on.next] /\ on.c = fr.c /\ on.next = fr.next + 1
      BY <1>6
    <3>2. in = [path |-> in.path, c |-> in.c, next |-> in.next] /\ in.c = c /\ in.next = 1
      OBVIOUS
    <3>3. /\ stack' = Append(Append(rest, on), in) /\ c \in DOMAIN mod.heap
          \/ stack' = Append(rest, on)
      BY <1>7, <1>9 DEF IsAggregate
    <3> HIDE DEF on, in
    <3>4. IsSequence(Append(rest, on)) /\ ToSet(Append(rest, on)) = ToSet(rest) \cup {on}
      BY <1>2, AppendElements
    <3>5. /\ IsSequence(Append(Append(rest, on), in))
          /\ ToSet(Append(Append(rest, on), in)) = (ToSet(rest) \cup {on}) \cup {in}
      BY <3>4, AppendElements
    <3>6. on.next \in Nat \ {0} /\ in.next \in Nat \ {0}
      BY <1>6, <3>1, <3>2
    <3> QED
      BY <1>1, <1>2, <1>6, <3>1, <3>2, <3>3, <3>4, <3>5, <3>6
  <2> QED
    BY <2>4, <2>5
<1> QED
  BY <1>8, <1>9

\* A new list of functions.
LEMMA FuncsChanged ==
  ASSUME NEW m, IsModule(m), NEW fs, IsSequence(fs), ToSet(fs) \subseteq DOMAIN m.body
  PROVE  LET n == [m EXCEPT !.funcs = fs]
         IN  /\ IsModule(n) /\ n.funcs = fs
             /\ n.globals = m.globals /\ n.body = m.body /\ n.heap = m.heap /\ n.init = m.init
<1> DEFINE n == [m EXCEPT !.funcs = fs]
<1>1. m = [globals |-> m.globals, funcs |-> m.funcs, init |-> m.init,
           heap |-> m.heap, body |-> m.body, asm |-> m.asm]
  BY DEF IsModule
<1>2. /\ n = [globals |-> n.globals, funcs |-> n.funcs, init |-> n.init,
              heap |-> n.heap, body |-> n.body, asm |-> n.asm]
      /\ n.globals = m.globals /\ n.funcs = fs /\ n.body = m.body /\ n.heap = m.heap /\ n.init = m.init
  BY <1>1
<1> HIDE DEF n
<1>3. IsModule(n)
  BY <1>2 DEF IsModule
<1> QED
  BY <1>2, <1>3 DEF n

\* and, at the end, calling the initialisation function from main.
LEMMA FinishInitKeeps ==
  ASSUME ModuleInv, InputKept, FinishInit
  PROVE  ModuleInv'
<1>1. /\ mpass = "InitGlobal" /\ stack = <<>> /\ mpass' = "idle" /\ UNCHANGED <<input, at, stack>>
      /\ IsModule(mod)
  BY DEF FinishInit, ModuleInv
<1>2. None \notin Names
  BY NamesAreNot
<1>3. StackInv'
  <2>1. IsSequence(<<>>) /\ ToSet(<<>>) = {}
    BY EmptySeq DEF IsSequence, ToSet
  <2> QED
    BY <1>1, <2>1 DEF StackInv
<1>4. ASSUME NEW x \in Names, AnyUse(mod, x) PROVE x \in Present
  BY <1>1, <1>4 DEF ModuleInv, UsesPresent, AnyUse, Used
<1>5. CASE mod' = mod
  <2>1. UsesPresent'
    BY <1>1, <1>5 DEF ModuleInv, UsesPresent, Used, UsedBy, Names, Present, Functions, GlobalVars
  <2> QED
    BY <1>1, <1>3, <1>5, <2>1 DEF ModuleInv
<1>6. CASE mod' # mod
  <2> DEFINE ret == Instr("ret", None, None, <<>>)
             m == Emit(mod, ret)
             fs == <<InitGlobals>> \o mod.funcs
  <2>1. mod' = [m EXCEPT !.funcs = fs]
    BY <1>6 DEF FinishInit, Emit
  <2>2. ret.f = None /\ ret.g = None
    BY InstrFields
  <2> HIDE DEF ret
  <2>3. /\ IsModule(m) /\ m.globals = mod.globals /\ m.funcs = mod.funcs
        /\ m.heap = mod.heap /\ m.init = mod.init
        /\ \A x : AnyUse(m, x) => AnyUse(mod, x) \/ x \in {ret.f, ret.g}
    BY <1>1, EmitFacts
  <2> HIDE DEF m
  <2>4. IsSequence(fs) /\ ToSet(fs) = ToSet(mod.funcs) \cup {InitGlobals}
    <3> DEFINE T == ToSet(mod.funcs) \cup {InitGlobals}
               a == <<InitGlobals>>
    <3>1. a \in Seq(T)
      OBVIOUS
    <3>2. mod.funcs \in Seq(T)
      <4>1. mod.funcs \in Seq(ToSet(mod.funcs)) /\ ToSet(mod.funcs) \subseteq T
        BY <1>1 DEF IsModule, IsSequence
      <4> QED
        BY <4>1, SeqMonotonic
    <3>3. ToSet(a) = {InitGlobals}
      BY OneFirst
    <3> HIDE DEF T, a
    <3>4. a \o mod.funcs \in Seq(T) /\ ToSet(a \o mod.funcs) = ToSet(a) \union ToSet(mod.funcs)
      BY <3>1, <3>2, ConcatElements
    <3>5. IsSequence(a \o mod.funcs)
      BY <3>4, SeqIsSequence
    <3> QED
      BY <3>3, <3>4, <3>5 DEF a
  <2> HIDE DEF fs
  <2>5. ToSet(fs) \subseteq DOMAIN m.body
    BY <2>3, <2>4 DEF IsModule
  <2>6. /\ IsModule(mod') /\ mod'.funcs = fs
        /\ mod'.globals = m.globals /\ mod'.body = m.body /\ mod'.heap = m.heap /\ mod'.init = m.init
    BY <2>1, <2>3, <2>4, <2>5, FuncsChanged
  <2>7. Present \subseteq Present' /\ Names' = Names
    BY <1>1, <2>3, <2>4, <2>6 DEF Present, Functions, GlobalVars, Names
  <2>8. ASSUME NEW x \in Names, Used(x)' PROVE x \in Present
    <3>1. AnyUse(m, x)
      BY <1>1, <2>3, <2>4, <2>6, <2>8 DEF Used, UsedBy, AnyUse, InitUse
    <3>2. AnyUse(mod, x)
      BY <1>2, <2>2, <2>3, <3>1
    <3> QED
      BY <1>4, <3>2
  <2>9. UsesPresent'
    BY <1>1, <2>7, <2>8 DEF UsesPresent
  <2> QED
    BY <1>3, <2>6, <2>9 DEF ModuleInv
<1> QED
  BY <1>5, <1>6

\* The other passes: uses only go, and what goes has none.
LEMMA UsesGo ==
  ASSUME ModuleInv, mpass # "InitGlobal", mpass' # "InitGlobal", UNCHANGED <<input, stack>>,
         IsModule(mod'),
         \A x \in Names : UsedBy(mod', x) => Used(x),
         \A x \in Names : UsedBy(mod', x) /\ x \in Present =>
           x \in ToSet(mod'.funcs) \cup ToSet(mod'.globals)
  PROVE  ModuleInv'
<1>1. stack = <<>>
  BY DEF ModuleInv, StackInv
<1>2. StackInv'
  <2>1. IsSequence(<<>>) /\ ToSet(<<>>) = {}
    BY EmptySeq DEF IsSequence, ToSet
  <2> QED
    BY <1>1, <2>1 DEF StackInv
<1>3. ASSUME NEW x \in Names, Used(x)' PROVE x \in Present'
  <2>1. UsedBy(mod', x)
    BY <1>3 DEF Used, UsedBy
  <2>2. x \in Present
    BY <2>1 DEF ModuleInv, UsesPresent
  <2> QED
    BY <2>1, <2>2 DEF Present, Functions, GlobalVars
<1>4. UsesPresent'
  BY <1>3 DEF UsesPresent, Names
<1> QED
  BY <1>2, <1>4 DEF ModuleInv

\* A round of ElimUnusedFunction erases only what nothing refers to.
LEMMA ElimUnusedFunctionKeeps ==
  ASSUME ModuleInv, ElimUnusedFunction
  PROVE  ModuleInv'
<1> DEFINE F == UnusedFunctions
           n == Erased(mod, F)
<1>1. /\ mpass # "InitGlobal" /\ mpass' # "InitGlobal" /\ UNCHANGED <<input, stack>> /\ IsModule(mod)
      /\ mod' = mod \/ mod' = n
  BY DEF ElimUnusedFunction, ModuleInv
<1>2. \A f \in F : f \in Functions /\ ~ Used(f)
  BY DEF UnusedFunctions
<1> HIDE DEF F
<1>3. /\ IsModule(n) /\ ToSet(n.funcs) = ToSet(mod.funcs) \ F
      /\ n.globals = mod.globals /\ n.body = mod.body /\ n.heap = mod.heap /\ n.init = mod.init
  BY <1>1, ErasedFacts
<1> HIDE DEF n
<1>4. ASSUME NEW x, UsedBy(mod', x) PROVE Used(x)
  BY <1>1, <1>3, <1>4 DEF Used, UsedBy
<1>5. ASSUME NEW x, UsedBy(mod', x), x \in Present PROVE x \in ToSet(mod'.funcs) \cup ToSet(mod'.globals)
  BY <1>1, <1>2, <1>3, <1>4, <1>5 DEF Present, Functions, GlobalVars
<1> QED
  BY <1>1, <1>3, <1>4, <1>5, UsesGo

\* A function that InlineSimpleFunction removes is called no more.
LEMMA InlineSimpleFunctionKeeps ==
  ASSUME ModuleInv, InlineSimpleFunction
  PROVE  ModuleInv'
<1>1. /\ mpass # "InitGlobal" /\ mpass' # "InitGlobal" /\ UNCHANGED <<input, stack>>
      /\ IsModule(mod) /\ IsSequence(mod.funcs)
  BY DEF InlineSimpleFunction, ModuleInv, IsModule
<1>2. CASE mod' = mod
  <2>1. \A x : UsedBy(mod', x) => Used(x)
    BY <1>2 DEF Used, UsedBy
  <2> QED
    BY <1>1, <1>2, <2>1, UsesGo DEF Present, Functions, GlobalVars
<1>3. ASSUME NEW k \in DOMAIN mod.funcs,
             \/ /\ Erasable(InlinedEverywhere(mod.funcs[k]), mod.funcs[k])
                /\ mod' = Erased(InlinedEverywhere(mod.funcs[k]), {mod.funcs[k]})
             \/ mod' = InlinedEverywhere(mod.funcs[k])
      PROVE  ModuleInv'
  <2> DEFINE f == mod.funcs[k]
             m == InlinedEverywhere(f)
             n == Erased(m, {f})
  <2>1. f \in Functions
    BY DEF Functions, ToSet
  <2>2. (Erasable(m, f) /\ mod' = n) \/ mod' = m
    BY <1>3
  <2> HIDE DEF f
  <2>3. /\ IsModule(m) /\ m.funcs = mod.funcs /\ m.globals = mod.globals
        /\ m.heap = mod.heap /\ m.init = mod.init
        /\ \A h \in Functions : \A i \in ToSet(m.body[h]) :
             \E g \in Functions : i \in ToSet(mod.body[g])
    BY <1>1, <2>1, InlinedFacts
  <2>4. Erasable(m, f) => ~ UsedBy(m, f)
    BY DEF Erasable
  <2> HIDE DEF m
  <2>5. /\ IsModule(n) /\ ToSet(n.funcs) = ToSet(m.funcs) \ {f}
        /\ n.globals = m.globals /\ n.body = m.body /\ n.heap = m.heap /\ n.init = m.init
    BY <2>3, ErasedFacts
  <2> HIDE DEF n
  <2>6. ASSUME NEW x, UsedBy(m, x) PROVE Used(x)
    BY <2>3, <2>6, UsesShrink DEF Used, Functions
  <2>7. ASSUME NEW x, UsedBy(n, x) PROVE UsedBy(m, x)
    BY <2>5, <2>7 DEF UsedBy
  <2>8. ASSUME NEW x, UsedBy(mod', x), x \in Present PROVE x \in ToSet(mod'.funcs) \cup ToSet(mod'.globals)
    BY <2>2, <2>3, <2>4, <2>5, <2>7, <2>8 DEF Present, Functions, GlobalVars
  <2>9. ASSUME NEW x, UsedBy(mod', x) PROVE Used(x)
    BY <2>2, <2>6, <2>7, <2>9
  <2> QED
    BY <1>1, <2>2, <2>3, <2>5, <2>8, <2>9, UsesGo
<1> QED
  BY <1>2, <1>3 DEF InlineSimpleFunction

\* ElimUnusedGlobal erases only what nothing refers to.
LEMMA ElimUnusedGlobalKeeps ==
  ASSUME ModuleInv, ElimUnusedGlobal
  PROVE  ModuleInv'
<1> DEFINE P == {g \in GlobalVars : Used(g)}
           gs == FlattenSeq(Picks(mod.globals, P))
<1>1. /\ mpass # "InitGlobal" /\ mpass' # "InitGlobal" /\ UNCHANGED <<input, stack>>
      /\ IsModule(mod) /\ IsSequence(mod.globals)
      /\ mod = [globals |-> mod.globals, funcs |-> mod.funcs, init |-> mod.init,
                heap |-> mod.heap, body |-> mod.body, asm |-> mod.asm]
  BY DEF ElimUnusedGlobal, ModuleInv, IsModule
<1>2. Picks(mod.globals, P) =
        [k \in DOMAIN mod.globals |-> IF Used(mod.globals[k]) THEN <<mod.globals[k]>> ELSE <<>>]
  BY DEF Picks, GlobalVars, ToSet
<1>3. mod' = [mod EXCEPT !.globals = gs]
  BY <1>2 DEF ElimUnusedGlobal, Select
<1>4. IsSequence(gs) /\ ToSet(gs) = ToSet(mod.globals) \intersect P
  <2> HIDE DEF P
  <2> QED
    BY <1>1, PicksFacts
<1> HIDE DEF gs
<1> DEFINE n == mod'
<1>5. /\ n = [globals |-> n.globals, funcs |-> n.funcs, init |-> n.init,
              heap |-> n.heap, body |-> n.body, asm |-> n.asm]
      /\ n.globals = gs /\ n.funcs = mod.funcs /\ n.body = mod.body
      /\ n.heap = mod.heap /\ n.init = mod.init
  BY <1>1, <1>3
<1>6. IsModule(mod')
  BY <1>1, <1>4, <1>5 DEF IsModule
<1>7. ASSUME NEW x, UsedBy(mod', x) PROVE Used(x)
  BY <1>4, <1>5, <1>7 DEF Used, UsedBy
<1>8. ASSUME NEW x, UsedBy(mod', x), x \in Present PROVE x \in ToSet(mod'.funcs) \cup ToSet(mod'.globals)
  BY <1>4, <1>5, <1>7, <1>8 DEF Present, Functions, GlobalVars
<1> QED
  BY <1>1, <1>6, <1>7, <1>8, UsesGo

\* ElimInlineAsm only removes uses.
LEMMA ElimInlineAsmKeeps ==
  ASSUME ModuleInv, ElimInlineAsm
  PROVE  ModuleInv'
<1>1. /\ mpass # "InitGlobal" /\ mpass' # "InitGlobal" /\ UNCHANGED <<input, stack>> /\ IsModule(mod)
      /\ mod = [globals |-> mod.globals, funcs |-> mod.funcs, init |-> mod.init,
                heap |-> mod.heap, body |-> mod.body, asm |-> mod.asm]
  BY DEF ElimInlineAsm, ModuleInv, IsModule
<1>2. mod' = mod \/ \E v : mod' = [mod EXCEPT !.asm = v]
  BY DEF ElimInlineAsm
<1> DEFINE n == mod'
<1>3. /\ n = [globals |-> n.globals, funcs |-> n.funcs, init |-> n.init,
              heap |-> n.heap, body |-> n.body, asm |-> n.asm]
      /\ n.globals = mod.globals /\ n.funcs = mod.funcs /\ n.body = mod.body
      /\ n.heap = mod.heap /\ n.init = mod.init
  BY <1>1, <1>2
<1>4. IsModule(mod')
  BY <1>1, <1>3 DEF IsModule
<1>5. ASSUME NEW x, UsedBy(mod', x) PROVE Used(x)
  BY <1>3, <1>5 DEF Used, UsedBy
<1> QED
  BY <1>1, <1>3, <1>4, <1>5, UsesGo DEF Present, Functions, GlobalVars

\* The module is sound as read,
LEMMA ModuleInit == Init => ModuleInv
<1> SUFFICES ASSUME Init PROVE ModuleInv
  OBVIOUS
<1>1. PICK p \in Inputs : input = p.input /\ mod = p.input.m
  BY DEF Init
<1>2. IsModule(mod) /\ mod = input.m
  BY <1>1, InputAssumption
<1>3. IsSequence(<<>>) /\ ToSet(<<>>) = {}
  BY EmptySeq DEF IsSequence, ToSet
<1>4. StackInv
  BY <1>3 DEF Init, StackInv
<1>5. UsesPresent
  BY <1>2 DEF UsesPresent, Names, Present, Functions, GlobalVars
<1> QED
  BY <1>2, <1>4, <1>5 DEF ModuleInv

\* and every step keeps it so.
LEMMA ModuleInvStep == OrderInv /\ ModuleInv /\ [Next]_vars => ModuleInv'
<1> SUFFICES ASSUME OrderInv, ModuleInv, [Next]_vars PROVE ModuleInv'
  OBVIOUS
<1>1. InputKept
  BY DEF OrderInv
<1>2. CASE UNCHANGED mvars
  BY <1>2 DEF mvars, ModuleInv, StackInv, UsesPresent, Used, UsedBy, InitUse, Names, Present,
         Functions, GlobalVars
<1>3. CASE StartPass
  <2>1. UNCHANGED <<input, mod, at, stack>> /\ mpass = "idle" /\ queue # <<>>
    BY <1>3 DEF StartPass, Ready
  <2>2. stack = <<>>
    BY <2>1 DEF ModuleInv, StackInv
  <2>3. CASE mpass' # "InitGlobal"
    <3>1. IsModule(mod')
      BY <2>1 DEF ModuleInv
    <3>2. \A x : UsedBy(mod', x) => Used(x)
      BY <2>1 DEF Used, UsedBy
    <3> QED
      BY <2>1, <2>3, <3>1, <3>2, UsesGo DEF Present, Functions, GlobalVars
  <2>4. CASE mpass' = "InitGlobal"
    <3>1. Head(queue) = "InitGlobal"
      BY <1>3, <2>1, <2>4 DEF StartPass
    <3>2. "InitGlobal" \in ToSet(queue)
      BY <2>1, <3>1, FirstTail DEF OrderInv, QueueInv
    <3>3. at = 0 /\ mod = input.m
      BY <3>2 DEF OrderInv, ModuleFresh
    <3>4. mod.body[InitGlobals] = <<>>
      BY <1>1, <3>3, NamesAreNot
    <3>5. \A x : ~ InitUse(mod, x)
      BY <3>4, EmptySeq DEF InitUse, ToSet
    <3>6. UsesPresent'
      BY <2>1, <3>5 DEF ModuleInv, UsesPresent, Used, UsedBy, InitUse, Names, Present,
            Functions, GlobalVars
    <3>7. Len(mod.globals) \in Nat
      BY SequenceFacts DEF ModuleInv, IsModule
    <3>8. StackInv'
      BY <2>1, <2>2, <2>4, <3>3, <3>7 DEF ModuleInv, StackInv
    <3> QED
      BY <2>1, <3>6, <3>8 DEF ModuleInv
  <2> QED
    BY <2>3, <2>4
<1>4. CASE RunModulePass
  BY <1>1, <1>4, VisitGlobalKeeps, VisitFieldKeeps, FinishInitKeeps, ElimUnusedFunctionKeeps,
     InlineSimpleFunctionKeeps, ElimUnusedGlobalKeeps, ElimInlineAsmKeeps DEF RunModulePass, ModuleStep
<1> QED
  BY <1>2, <1>3, <1>4 DEF Next, ReadInput, CheckOrPrint, RunFunctionPass, Crash, WriteOutput, Stop, vars

(***************************************************************************)
(* In every module and under every command line no pass erases a function  *)
(* or a global that is still referred to.                                  *)
(***************************************************************************)
THEOREM NothingDanglingCorrect == Spec => []NothingDangling
<1>1. Init => OrderInv /\ ModuleInv
  BY OrderInit, ModuleInit
<1>2. OrderInv /\ ModuleInv /\ [Next]_vars => (OrderInv /\ ModuleInv)'
  BY OrderStep, ModuleInvStep
<1>3. ModuleInv => NothingDangling
  BY DEF ModuleInv, UsesPresent, NothingDangling, Names, Present
<1> QED
  BY <1>1, <1>2, <1>3, PTL DEF Spec

------------------------------------------------------------------------------
(* What the functions do *)

\* Every instruction of I does a list of instructions of S.
Does(m, t, I, S) == \A i \in I : Effect(m, t, i) \in Seq(S)

\* What a body does, instruction by instruction.
EffectList(m, t, b) == [k \in DOMAIN b |-> Effect(m, t, b[k])]

\* It is a list of lists.
LEMMA EffectsList ==
  ASSUME NEW m, NEW t, NEW I, NEW S, Does(m, t, I, S), NEW b \in Seq(I)
  PROVE  LET es == EffectList(m, t, b)
         IN  /\ es \in Seq(Seq(S)) /\ Len(es) = Len(b)
             /\ \A k \in 1 .. Len(b) : es[k] = Effect(m, t, b[k])
             /\ Effects(m, t, b) = FlattenSeq(es)
<1> DEFINE es == EffectList(m, t, b)
<1>1. Len(b) \in Nat /\ DOMAIN b = 1 .. Len(b) /\ \A k \in 1 .. Len(b) : b[k] \in I
  OBVIOUS
<1>2. es \in [1 .. Len(b) -> Seq(S)]
  BY <1>1 DEF Does, EffectList
<1>3. \A k \in 1 .. Len(b) : es[k] = Effect(m, t, b[k])
  BY <1>1 DEF EffectList
<1>4. Effects(m, t, b) = FlattenSeq(es)
  BY DEF Effects, EffectList
<1> HIDE DEF es
<1>5. es \in Seq(Seq(S)) /\ Len(es) = Len(b)
  BY <1>1, <1>2
<1> QED
  BY <1>3, <1>4, <1>5 DEF es

\* A body of one instruction does what the instruction does.
LEMMA EffectsOne ==
  ASSUME NEW m, NEW t, NEW I, NEW S, Does(m, t, I, S), NEW i \in I
  PROVE  Effects(m, t, <<i>>) = Effect(m, t, i)
<1> DEFINE b == <<i>>
           es == EffectList(m, t, b)
           a == Effect(m, t, i)
<1>1. b \in Seq(I) /\ Len(b) = 1 /\ b[1] = i
  OBVIOUS
<1> HIDE DEF b
<1>2. /\ Len(es) = Len(b) /\ \A k \in 1 .. Len(b) : es[k] = Effect(m, t, b[k])
      /\ es \in Seq(Seq(S)) /\ Effects(m, t, b) = FlattenSeq(es)
  BY <1>1, EffectsList
<1>3. a \in Seq(S)
  BY DEF Does
<1> HIDE DEF es, a
<1>4. es = <<a>>
  BY <1>1, <1>2 DEF a
<1>5. FlattenSeq(<<a>>) = a
  BY <1>3, FlattenOne
<1> QED
  BY <1>2, <1>4, <1>5 DEF a, b

\* One body after the other does what the two do.
LEMMA EffectsConcat ==
  ASSUME NEW m, NEW t, NEW I, NEW S, Does(m, t, I, S), NEW b \in Seq(I), NEW c \in Seq(I)
  PROVE  /\ Effects(m, t, b) \in Seq(S) /\ Effects(m, t, c) \in Seq(S)
         /\ Effects(m, t, b \o c) = Effects(m, t, b) \o Effects(m, t, c)
<1> DEFINE d == b \o c
           eb == EffectList(m, t, b)
           ec == EffectList(m, t, c)
           ed == EffectList(m, t, d)
<1>1. /\ d \in Seq(I) /\ Len(d) = Len(b) + Len(c) /\ Len(b) \in Nat /\ Len(c) \in Nat
      /\ \A k \in 1 .. Len(b) + Len(c) : d[k] = IF k <= Len(b) THEN b[k] ELSE c[k - Len(b)]
  BY ConcatProperties
<1> HIDE DEF d
<1>2. /\ eb \in Seq(Seq(S)) /\ Len(eb) = Len(b) /\ \A k \in 1 .. Len(b) : eb[k] = Effect(m, t, b[k])
      /\ Effects(m, t, b) = FlattenSeq(eb)
  BY EffectsList
<1>3. /\ ec \in Seq(Seq(S)) /\ Len(ec) = Len(c) /\ \A k \in 1 .. Len(c) : ec[k] = Effect(m, t, c[k])
      /\ Effects(m, t, c) = FlattenSeq(ec)
  BY EffectsList
<1>4. /\ ed \in Seq(Seq(S)) /\ Len(ed) = Len(d) /\ \A k \in 1 .. Len(d) : ed[k] = Effect(m, t, d[k])
      /\ Effects(m, t, d) = FlattenSeq(ed)
  <2>1. d \in Seq(I)
    BY <1>1
  <2> QED
    BY <2>1, EffectsList
<1> HIDE DEF eb, ec, ed
<1> DEFINE e == eb \o ec
           T == Seq(S)
<1>5. /\ e \in Seq(Seq(S)) /\ Len(e) = Len(b) + Len(c)
      /\ \A k \in 1 .. Len(b) + Len(c) : e[k] = IF k <= Len(b) THEN eb[k] ELSE ec[k - Len(b)]
  <2>1. eb \in Seq(T) /\ ec \in Seq(T) /\ Len(eb) = Len(b) /\ Len(ec) = Len(c)
    BY <1>2, <1>3
  <2> HIDE DEF T
  <2>2. /\ e \in Seq(T) /\ Len(e) = Len(eb) + Len(ec)
        /\ \A k \in 1 .. Len(eb) + Len(ec) : e[k] = IF k <= Len(eb) THEN eb[k] ELSE ec[k - Len(eb)]
    BY <2>1, ConcatProperties
  <2> QED
    BY <2>1, <2>2 DEF T
<1> HIDE DEF e
<1>6. ed = e
  <2>1. ASSUME NEW k \in 1 .. Len(ed) PROVE ed[k] = e[k]
    <3>1. k \in 1 .. Len(b) + Len(c) /\ ed[k] = Effect(m, t, d[k])
      BY <1>1, <1>4, <2>1
    <3>2. CASE k <= Len(b)
      <4>1. k \in 1 .. Len(b)
        BY <1>1, <3>1, <3>2
      <4> QED
        BY <1>1, <1>2, <1>5, <3>1, <3>2, <4>1
    <3>3. CASE ~ (k <= Len(b))
      <4>1. k - Len(b) \in 1 .. Len(c)
        BY <1>1, <3>1, <3>3
      <4> QED
        BY <1>1, <1>3, <1>5, <3>1, <3>3, <4>1
    <3> QED
      BY <3>2, <3>3
  <2>2. Len(ed) = Len(e)
    BY <1>1, <1>4, <1>5
  <2> QED
    BY <1>4, <1>5, <2>1, <2>2, SeqEqual
<1>7. /\ FlattenSeq(eb) \in Seq(S) /\ FlattenSeq(ec) \in Seq(S)
      /\ FlattenSeq(eb \o ec) = FlattenSeq(eb) \o FlattenSeq(ec)
  BY <1>2, <1>3, FlattenConcat
<1> QED
  BY <1>2, <1>3, <1>4, <1>6, <1>7 DEF d, e

\* A body cut into pieces that do, one by one, what the instructions of
\* another body do, does what that body does.
LEMMA PiecesDo ==
  ASSUME NEW m, NEW t, NEW I, NEW S, Does(m, t, I, S), NEW b \in Seq(I), NEW ss \in Seq(Seq(I)),
         Len(ss) = Len(b),
         \A k \in 1 .. Len(b) : Effects(m, t, ss[k]) = Effect(m, t, b[k])
  PROVE  Effects(m, t, FlattenSeq(ss)) = Effects(m, t, b)
<1> DEFINE es == EffectList(m, t, b)
<1>1. /\ es \in Seq(Seq(S)) /\ Len(es) = Len(b) /\ \A k \in 1 .. Len(b) : es[k] = Effect(m, t, b[k])
      /\ Effects(m, t, b) = FlattenSeq(es)
  BY EffectsList
<1> HIDE DEF es
<1>2. Len(b) \in Nat /\ \A k \in 1 .. Len(b) : ss[k] \in Seq(I)
  OBVIOUS
<1>3. PICK w : /\ w \in [Nat -> Seq(I)] /\ w[0] = <<>>
               /\ \A n \in Nat : n + 1 <= Len(ss) => w[n + 1] = w[n] \o ss[n + 1]
               /\ FlattenSeq(ss) = w[Len(ss)]
  BY FlattenPrefix
<1>4. PICK u : /\ u \in [Nat -> Seq(S)] /\ u[0] = <<>>
               /\ \A n \in Nat : n + 1 <= Len(es) => u[n + 1] = u[n] \o es[n + 1]
               /\ FlattenSeq(es) = u[Len(es)]
  BY <1>1, FlattenPrefix
<1> DEFINE P == {n \in Nat : n <= Len(b) => Effects(m, t, w[n]) = u[n]}
<1>5. 0 \in P
  <2>1. Effects(m, t, <<>>) = <<>>
    BY DEF Effects, FlattenSeq
  <2> QED
    BY <1>3, <1>4, <2>1
<1>6. ASSUME NEW n \in Nat, n \in P PROVE n + 1 \in P
  <2>1. ASSUME n + 1 <= Len(b) PROVE Effects(m, t, w[n + 1]) = u[n + 1]
    <3>1. n + 1 \in 1 .. Len(b) /\ n <= Len(b)
      BY <1>2, <2>1
    <3>2. Effects(m, t, w[n]) = u[n]
      BY <1>6, <3>1
    <3>3. w[n + 1] = w[n] \o ss[n + 1] /\ u[n + 1] = u[n] \o es[n + 1]
      BY <1>1, <1>3, <1>4, <2>1
    <3>4. Effects(m, t, w[n] \o ss[n + 1]) = Effects(m, t, w[n]) \o Effects(m, t, ss[n + 1])
      <4> DEFINE x == w[n]
                 y == ss[n + 1]
      <4>1. x \in Seq(I) /\ y \in Seq(I)
        BY <1>2, <1>3, <3>1
      <4> HIDE DEF x, y
      <4>2. Effects(m, t, x \o y) = Effects(m, t, x) \o Effects(m, t, y)
        BY <4>1, EffectsConcat
      <4> QED
        BY <4>2 DEF x, y
    <3>5. Effects(m, t, ss[n + 1]) = es[n + 1]
      BY <1>1, <3>1
    <3> QED
      BY <3>2, <3>3, <3>4, <3>5
  <2>2. n + 1 \in Nat
    OBVIOUS
  <2> QED
    BY ONLY <2>1, <2>2
<1> HIDE DEF P
<1>7. Nat \subseteq P
  BY <1>5, <1>6, SetInduction
<1>8. Effects(m, t, w[Len(b)]) = u[Len(b)]
  <2>1. Len(b) \in P /\ Len(b) <= Len(b)
    BY <1>2, <1>7
  <2> QED
    BY ONLY <2>1 DEF P
<1> QED
  BY <1>1, <1>3, <1>4, <1>8

\* Inlining keeps the instructions that are no calls of the function.
LEMMA SplicedKeeps ==
  ASSUME NEW b, IsSequence(b), NEW f, IsSequence(mod.body[f])
  PROVE  /\ b = <<>> => Spliced(b, f) = <<>>
         /\ \A i \in ToSet(b) : ~ IsCallOf(i, f) => i \in ToSet(Spliced(b, f))
<1> DEFINE t == mod.body[f]
           P == {i \in ToSet(t) : i.op # "ret"}
           inner == FlattenSeq(Picks(t, P))
           ss == [i \in DOMAIN b |-> IF IsCallOf(b[i], f) THEN inner ELSE <<b[i]>>]
           T == ToSet(b) \cup ToSet(inner)
<1>1. Picks(t, P) = [k \in DOMAIN t |-> IF t[k].op # "ret" THEN <<t[k]>> ELSE <<>>]
  BY DEF Picks, ToSet
<1>2. Spliced(b, f) = FlattenSeq(ss)
  BY <1>1 DEF Spliced, Select
<1>3. IsSequence(inner)
  <2> HIDE DEF P
  <2> QED
    BY PicksFacts
<1> HIDE DEF inner
<1>4. inner \in Seq(T)
  <2>1. inner \in Seq(ToSet(inner)) /\ ToSet(inner) \subseteq T
    BY <1>3 DEF IsSequence
  <2> QED
    BY <2>1, SeqMonotonic
<1>5. Len(b) \in Nat /\ DOMAIN b = 1 .. Len(b) /\ \A k \in 1 .. Len(b) : b[k] \in ToSet(b)
  BY SequenceFacts
<1>6. \A k \in 1 .. Len(b) : ss[k] \in Seq(T)
  <2>1. ASSUME NEW k \in 1 .. Len(b) PROVE ss[k] \in Seq(T)
    <3>1. b[k] \in T
      BY <1>5
    <3>2. <<b[k]>> \in Seq(T)
      <4> HIDE DEF T
      <4> QED
        BY <3>1
    <3>3. ss[k] = inner \/ ss[k] = <<b[k]>>
      BY <1>5
    <3> QED
      BY <1>4, <3>2, <3>3
  <2> QED
    BY <2>1
<1>7. ss \in Seq(Seq(T)) /\ DOMAIN ss = 1 .. Len(b) /\ Len(ss) = Len(b)
  BY <1>5, <1>6
<1>8. \A k \in 1 .. Len(b) : ~ IsCallOf(b[k], f) => ss[k] = <<b[k]>>
  BY <1>5
<1> HIDE DEF ss, T
<1>9. b = <<>> => FlattenSeq(ss) = <<>>
  <2>1. ASSUME b = <<>> PROVE FlattenSeq(ss) = <<>>
    <3>1. Len(ss) = 0
      BY <1>7, <2>1
    <3>2. ss = <<>>
      BY <1>7, <3>1, EmptySeq
    <3> QED
      BY <3>1, <3>2 DEF FlattenSeq
  <2> QED
    BY <2>1
<1>10. IsSequence(ss) /\ \A k \in DOMAIN ss : IsSequence(ss[k])
  BY <1>6, <1>7, SeqIsSequence
<1>11. ToSet(FlattenSeq(ss)) = Elements(ss)
  BY <1>10, FlattenFacts
<1>12. ASSUME NEW i \in ToSet(b), ~ IsCallOf(i, f) PROVE i \in Elements(ss)
  <2>1. PICK k \in 1 .. Len(b) : b[k] = i
    BY SequenceFacts
  <2>2. ss[k] = <<i>> /\ k \in DOMAIN ss
    BY <1>7, <1>8, <1>12, <2>1
  <2>3. ToSet(<<i>>) = {i}
    BY DEF ToSet
  <2> QED
    BY <2>2, <2>3 DEF Elements
<1> QED
  BY <1>2, <1>9, <1>11, <1>12

\* The part of a body that inlining puts in the place of a call.
Inner(b) == Select(b, LAMBDA i : i.op # "ret")

\* The body of a forwarding function without its return does the same.
LEMMA InnerDoes ==
  ASSUME NEW m, NEW t, NEW I, NEW S, Does(m, t, I, S), NEW b \in Seq(I)
  PROVE  Inner(b) \in Seq(I) /\ Effects(m, t, Inner(b)) = Effects(m, t, b)
<1> DEFINE P == {i \in ToSet(b) : i.op # "ret"}
           ss == Picks(b, P)
<1>1. Len(b) \in Nat /\ DOMAIN b = 1 .. Len(b) /\ \A k \in 1 .. Len(b) : b[k] \in I
  OBVIOUS
<1>2. ss = [k \in DOMAIN b |-> IF b[k].op # "ret" THEN <<b[k]>> ELSE <<>>]
  BY DEF Picks, ToSet
<1>3. Inner(b) = FlattenSeq(ss)
  BY <1>2 DEF Inner, Select
<1> HIDE DEF ss
<1>4. \A k \in 1 .. Len(b) : ss[k] \in Seq(I)
  <2>1. ASSUME NEW k \in 1 .. Len(b) PROVE ss[k] \in Seq(I)
    <3>1. <<b[k]>> \in Seq(I) /\ <<>> \in Seq(I)
      BY <1>1
    <3> QED
      BY <1>1, <1>2, <3>1
  <2> QED
    BY <2>1
<1>5. ss \in Seq(Seq(I)) /\ Len(ss) = Len(b)
  BY <1>1, <1>2, <1>4
<1>6. FlattenSeq(ss) \in Seq(I)
  <2>1. ss \o <<>> = ss /\ <<>> \in Seq(Seq(I))
    BY <1>5
  <2> QED
    BY <1>5, <2>1, FlattenConcat
<1>7. ASSUME NEW k \in 1 .. Len(b) PROVE Effects(m, t, ss[k]) = Effect(m, t, b[k])
  <2>1. CASE b[k].op = "ret"
    <3>1. ss[k] = <<>>
      BY <1>1, <1>2, <2>1
    <3>2. Effects(m, t, <<>>) = <<>>
      BY DEF Effects, FlattenSeq
    <3>3. Effect(m, t, b[k]) = <<>>
      BY <2>1 DEF Effect
    <3> QED
      BY <3>1, <3>2, <3>3
  <2>2. CASE b[k].op # "ret"
    <3>1. ss[k] = <<b[k]>>
      BY <1>1, <1>2, <2>2
    <3> QED
      BY <1>1, <3>1, EffectsOne
  <2> QED
    BY <2>1, <2>2
<1>8. Effects(m, t, FlattenSeq(ss)) = Effects(m, t, b)
  BY <1>5, <1>7, PiecesDo
<1> QED
  BY <1>3, <1>6, <1>8

\* Inlining a function at its calls in a body leaves what the body does.
LEMMA SplicedDoes ==
  ASSUME NEW t, NEW I, NEW S, Does(mod, t, I, S), NEW b \in Seq(I), NEW f,
         mod.body[f] \in Seq(I), Expandable(mod, f), t[f] = Effects(mod, t, mod.body[f])
  PROVE  Effects(mod, t, Spliced(b, f)) = Effects(mod, t, b)
<1> DEFINE inner == Inner(mod.body[f])
           ss == [i \in DOMAIN b |-> IF IsCallOf(b[i], f) THEN inner ELSE <<b[i]>>]
<1>1. inner \in Seq(I) /\ Effects(mod, t, inner) = t[f]
  BY InnerDoes
<1>2. Spliced(b, f) = FlattenSeq(ss)
  BY DEF Spliced, Inner
<1> HIDE DEF inner
<1>3. Len(b) \in Nat /\ DOMAIN b = 1 .. Len(b) /\ \A k \in 1 .. Len(b) : b[k] \in I
  OBVIOUS
<1>4. \A k \in 1 .. Len(b) : ss[k] \in Seq(I)
  <2>1. ASSUME NEW k \in 1 .. Len(b) PROVE ss[k] \in Seq(I)
    <3>1. <<b[k]>> \in Seq(I)
      BY <1>3
    <3> QED
      BY <1>1, <1>3, <3>1
  <2> QED
    BY <2>1
<1>5. ss \in Seq(Seq(I)) /\ Len(ss) = Len(b)
  BY <1>3, <1>4
<1>6. \A k \in 1 .. Len(b) : ss[k] = IF IsCallOf(b[k], f) THEN inner ELSE <<b[k]>>
  BY <1>3
<1> HIDE DEF ss
<1>7. ASSUME NEW k \in 1 .. Len(b) PROVE Effects(mod, t, ss[k]) = Effect(mod, t, b[k])
  <2>1. CASE IsCallOf(b[k], f)
    <3>1. Effect(mod, t, b[k]) = t[f]
      BY <2>1 DEF Effect, IsCallOf
    <3> QED
      BY <1>1, <1>6, <2>1, <3>1
  <2>2. CASE ~ IsCallOf(b[k], f)
    <3>1. ss[k] = <<b[k]>>
      BY <1>6, <2>2
    <3> QED
      BY <1>3, <3>1, EffectsOne
  <2> QED
    BY <2>1, <2>2
<1>8. Effects(mod, t, FlattenSeq(ss)) = Effects(mod, t, b)
  <2>1. \A k \in 1 .. Len(b) : Effects(mod, t, ss[k]) = Effect(mod, t, b[k])
    BY <1>7
  <2>2. PICK m : m = mod
    OBVIOUS
  <2>3. Does(m, t, I, S) /\ \A k \in 1 .. Len(b) : Effects(m, t, ss[k]) = Effect(m, t, b[k])
    BY <2>1, <2>2
  <2>4. Effects(m, t, FlattenSeq(ss)) = Effects(m, t, b)
    BY <1>5, <2>3, PiecesDo
  <2> QED
    BY <2>2, <2>4
<1> QED
  BY <1>2, <1>8

\* The functions of a module but the initialisation function.
Own(m) == ToSet(m.funcs) \ {InitGlobals}

\* Every body has a terminator, a function of one block has a body, and the
\* initialisation function is not called.
CallsReadable(m) ==
  \A h \in Own(m) :
    /\ h \in input.single => m.body[h] # <<>>
    /\ m.body[h] # <<>> => \E i \in ToSet(m.body[h]) : i.op # "call"
    /\ \A i \in ToSet(m.body[h]) : i.op = "call" => i.f # InitGlobals

\* A table that is right gives every instruction a list.
LEMMA TableDoes ==
  ASSUME NEW m, IsModule(m), CallsReadable(m), NEW t, Accounts(m, t)
  PROVE  \E I, S : Does(m, t, I, S) /\ \A h \in Own(m) : m.body[h] \in Seq(I)
<1> DEFINE I == UNION {ToSet(m.body[h]) : h \in Own(m)}
           S == I \cup UNION {ToSet(t[h]) : h \in Own(m)}
<1>1. \A h \in Own(m) : IsSequence(t[h]) /\ IsSequence(m.body[h])
  BY DEF Accounts, IsModule, Own
<1>2. ASSUME NEW h \in Own(m) PROVE m.body[h] \in Seq(I) /\ t[h] \in Seq(S)
  <2>1. m.body[h] \in Seq(ToSet(m.body[h])) /\ t[h] \in Seq(ToSet(t[h]))
    BY <1>1 DEF IsSequence
  <2>2. ToSet(m.body[h]) \subseteq I /\ ToSet(t[h]) \subseteq S
    OBVIOUS
  <2> QED
    BY <2>1, <2>2, SeqMonotonic
<1>3. ASSUME NEW i \in I PROVE Effect(m, t, i) \in Seq(S)
  <2>1. PICK h \in Own(m) : i \in ToSet(m.body[h])
    OBVIOUS
  <2>2. i \in S /\ (i.op = "call" => i.f # InitGlobals)
    BY <2>1 DEF CallsReadable
  <2>3. CASE i.op = "ret"
    <3>1. Effect(m, t, i) = <<>>
      BY <2>3 DEF Effect
    <3> QED
      BY <3>1
  <2>4. CASE i.op # "ret" /\ i.op = "call" /\ Expandable(m, i.f)
    <3>1. Effect(m, t, i) = t[i.f]
      BY <2>4 DEF Effect
    <3>2. i.f \in Own(m)
      BY <2>2, <2>4 DEF Expandable, Own
    <3> QED
      BY <1>2, <3>1, <3>2
  <2>5. CASE i.op # "ret" /\ ~ (i.op = "call" /\ Expandable(m, i.f))
    <3>1. Effect(m, t, i) = <<i>>
      BY <2>5 DEF Effect
    <3> HIDE DEF S
    <3> QED
      BY <2>2, <3>1
  <2> QED
    BY <2>3, <2>4, <2>5
<1> HIDE DEF I, S
<1>4. Does(m, t, I, S)
  BY <1>3 DEF Does
<1> QED
  BY <1>2, <1>4

\* Calls that may be read as bodies in both modules do the same in both.
LEMMA SameEffects ==
  ASSUME NEW m, NEW n, NEW t, NEW b,
         \A i \in ToSet(b) : i.op = "call" => (Expandable(n, i.f) <=> Expandable(m, i.f))
  PROVE  Effects(n, t, b) = Effects(m, t, b)
<1>1. ASSUME NEW k \in DOMAIN b PROVE Effect(n, t, b[k]) = Effect(m, t, b[k])
  <2>1. b[k] \in ToSet(b)
    BY DEF ToSet
  <2> QED
    BY <2>1 DEF Effect
<1> DEFINE en == [k \in DOMAIN b |-> Effect(n, t, b[k])]
           em == [k \in DOMAIN b |-> Effect(m, t, b[k])]
<1>2. en = em
  BY <1>1
<1>3. Effects(n, t, b) = FlattenSeq(en) /\ Effects(m, t, b) = FlattenSeq(em)
  BY DEF Effects
<1> HIDE DEF en, em
<1> QED
  BY <1>2, <1>3

\* Functions with the same bodies do the same, as long as they call no
\* function that comes or goes.
LEMMA CallsMove ==
  ASSUME NEW m, CallsReadable(m), NEW n,
         \A h \in Own(n) : h \in Own(m) /\ n.body[h] = m.body[h],
         \A h \in Own(n) : \A i \in ToSet(m.body[h]) :
           i.op = "call" => (Expandable(n, i.f) <=> Expandable(m, i.f))
  PROVE  CallsReadable(n) /\ \A t : Accounts(m, t) => Accounts(n, t)
<1>1. CallsReadable(n)
  BY DEF CallsReadable
<1>2. ASSUME NEW t, Accounts(m, t) PROVE Accounts(n, t)
  <2>1. ASSUME NEW h \in Own(n) PROVE IsSequence(t[h]) /\ t[h] = Effects(n, t, n.body[h])
    <3>1. h \in Own(m) /\ n.body[h] = m.body[h]
      OBVIOUS
    <3>2. IsSequence(t[h]) /\ t[h] = Effects(m, t, m.body[h])
      BY <1>2, <3>1 DEF Accounts, Own
    <3>3. Effects(n, t, m.body[h]) = Effects(m, t, m.body[h])
      BY SameEffects
    <3> QED
      BY <3>1, <3>2, <3>3
  <2> QED
    BY <2>1 DEF Accounts, Own
<1> QED
  BY <1>1, <1>2

\* What InlinedEverywhere makes of a body.
LEMMA InlinedBody ==
  ASSUME IsModule(mod), NEW f, NEW h \in Functions
  PROVE  InlinedEverywhere(f).body[h] \in {mod.body[h], Spliced(mod.body[h], f)}
<1> DEFINE new == [g \in DOMAIN mod.body |->
                     IF g \in Functions /\ <<f, g>> \notin input.refused
                     THEN Spliced(mod.body[g], f) ELSE mod.body[g]]
<1>1. /\ mod = [globals |-> mod.globals, funcs |-> mod.funcs, init |-> mod.init,
                heap |-> mod.heap, body |-> mod.body, asm |-> mod.asm]
      /\ h \in DOMAIN mod.body
  BY DEF IsModule, Functions
<1>2. InlinedEverywhere(f) = [mod EXCEPT !.body = new]
  BY DEF InlinedEverywhere
<1>3. new[h] \in {mod.body[h], Spliced(mod.body[h], f)}
  BY <1>1
<1> HIDE DEF new
<1>4. [mod EXCEPT !.body = new].body = new
  BY <1>1
<1> QED
  BY <1>2, <1>3, <1>4

\* Inlining a forwarding function leaves what every function does.
LEMMA InlinedCalls ==
  ASSUME IsModule(mod), CallsReadable(mod), NEW f \in Own(mod), f \in input.single,
         ~ isDiscoverTestingFunc(f)
  PROVE  LET m == InlinedEverywhere(f)
         IN  CallsReadable(m) /\ \A t : Accounts(mod, t) => Accounts(m, t)
<1> DEFINE m == InlinedEverywhere(f)
<1>1. f \in Functions /\ Own(mod) \subseteq Functions
  BY DEF Own, Functions
<1>2. IsModule(m) /\ m.funcs = mod.funcs
  BY <1>1, InlinedFacts
<1>3. Own(m) = Own(mod)
  BY <1>2 DEF Own
<1>4. \A h \in Own(mod) : m.body[h] \in {mod.body[h], Spliced(mod.body[h], f)}
  BY <1>1, InlinedBody
<1> HIDE DEF m
<1>5. \A h \in Own(mod) : IsSequence(mod.body[h]) /\ IsSequence(m.body[h])
  BY <1>2 DEF IsModule, Own
<1>6. ASSUME NEW h \in Own(mod)
      PROVE  /\ mod.body[h] = <<>> <=> m.body[h] = <<>>
             /\ \A i \in ToSet(m.body[h]) : i \in ToSet(mod.body[h]) \/ i \in ToSet(mod.body[f])
             /\ mod.body[h] # <<>> => \E i \in ToSet(m.body[h]) : i.op # "call"
  <2>1. CASE m.body[h] = mod.body[h]
    BY <2>1 DEF CallsReadable
  <2>2. CASE m.body[h] = Spliced(mod.body[h], f)
    <3> DEFINE b == mod.body[h]
    <3>1. /\ b = <<>> => Spliced(b, f) = <<>>
          /\ \A i \in ToSet(b) : ~ IsCallOf(i, f) => i \in ToSet(Spliced(b, f))
          /\ ToSet(Spliced(b, f)) \subseteq ToSet(b) \cup ToSet(mod.body[f])
      BY <1>5, SplicedKeeps, SplicedFacts
    <3>2. ASSUME b # <<>> PROVE \E i \in ToSet(Spliced(b, f)) : i.op # "call"
      <4>1. PICK i \in ToSet(b) : i.op # "call"
        BY <3>2 DEF CallsReadable
      <4> QED
        BY <3>1, <4>1 DEF IsCallOf
    <3>3. ToSet(<<>>) = {}
      BY DEF ToSet
    <3> HIDE DEF b
    <3> QED
      BY <2>2, <3>1, <3>2, <3>3 DEF b
  <2> QED
    BY <1>4, <2>1, <2>2
<1>7. CallsReadable(m)
  BY <1>3, <1>6 DEF CallsReadable
<1>8. \A g : g # InitGlobals => (Expandable(m, g) <=> Expandable(mod, g))
  BY <1>2, <1>6 DEF Expandable, Own
<1>9. Expandable(mod, f)
  BY <1>1 DEF Expandable, CallsReadable, Functions
<1>10. ASSUME NEW t, Accounts(mod, t) PROVE Accounts(m, t)
  <2>1. PICK I, S : Does(mod, t, I, S) /\ \A h \in Own(mod) : mod.body[h] \in Seq(I)
    BY <1>10, TableDoes
  <2>2. ASSUME NEW h \in Own(mod) PROVE IsSequence(t[h]) /\ t[h] = Effects(mod, t, mod.body[h])
    BY <1>10 DEF Accounts, Own
  <2>3. ASSUME NEW h \in Own(mod) PROVE t[h] = Effects(m, t, m.body[h])
    <3>1. Effects(mod, t, Spliced(mod.body[h], f)) = Effects(mod, t, mod.body[h])
      BY <1>9, <2>1, <2>2, SplicedDoes
    <3>2. Effects(mod, t, m.body[h]) = t[h]
      BY <1>4, <2>2, <3>1
    <3>3. \A i \in ToSet(m.body[h]) : i.op = "call" => (Expandable(m, i.f) <=> Expandable(mod, i.f))
      BY <1>3, <1>7, <1>8 DEF CallsReadable
    <3>4. Effects(m, t, m.body[h]) = Effects(mod, t, m.body[h])
      BY <3>3, SameEffects
    <3> QED
      BY <3>2, <3>4
  <2> QED
    BY <1>3, <2>2, <2>3 DEF Accounts, Own
<1> QED
  BY <1>7, <1>10 DEF m

\* Erasing functions that nothing refers to leaves what the others do.
LEMMA ErasedCalls ==
  ASSUME NEW m, IsModule(m), CallsReadable(m), NEW F, \A x \in F : ~ UsedBy(m, x)
  PROVE  LET n == Erased(m, F)
         IN  CallsReadable(n) /\ \A t : Accounts(m, t) => Accounts(n, t)
<1> DEFINE n == Erased(m, F)
<1>1. ToSet(n.funcs) = ToSet(m.funcs) \ F /\ n.body = m.body
  BY ErasedFacts
<1> HIDE DEF n
<1>2. \A h \in Own(n) : h \in Own(m) /\ n.body[h] = m.body[h]
  BY <1>1 DEF Own
<1>3. ASSUME NEW h \in Own(n), NEW i \in ToSet(m.body[h])
      PROVE  Expandable(n, i.f) <=> Expandable(m, i.f)
  <2>1. UsedBy(m, i.f)
    BY <1>2 DEF UsedBy, Own
  <2>2. i.f \notin F
    BY <2>1
  <2> QED
    BY <1>1, <2>2 DEF Expandable
<1>4. CallsReadable(n) /\ \A t : Accounts(m, t) => Accounts(n, t)
  BY <1>2, <1>3, CallsMove
<1> QED
  BY <1>4 DEF n

\* What a step may do to the module: nothing that changes what functions do.
Same(m, n) == CallsReadable(n) /\ \A t : Accounts(m, t) => Accounts(n, t)

\* A step that changes no function but the initialisation function.
LEMMA InitOnly ==
  ASSUME NEW m, CallsReadable(m), NEW n, Own(n) = Own(m),
         \A h \in Own(m) : n.body[h] = m.body[h]
  PROVE  Same(m, n)
<1>1. ASSUME NEW h \in Own(n), NEW i \in ToSet(m.body[h]), i.op = "call"
      PROVE  Expandable(n, i.f) <=> Expandable(m, i.f)
  <2>1. i.f # InitGlobals
    BY <1>1 DEF CallsReadable
  <2> QED
    BY <2>1 DEF Expandable, Own
<1>2. \A h \in Own(n) : h \in Own(m) /\ n.body[h] = m.body[h]
  OBVIOUS
<1>3. CallsReadable(n) /\ \A t : Accounts(m, t) => Accounts(n, t)
  BY <1>1, <1>2, CallsMove
<1> QED
  BY <1>3 DEF Same

\* New code for the initialisation function.
LEMMA InitBody ==
  ASSUME NEW m, IsModule(m), NEW b
  PROVE  LET n == [m EXCEPT !.body[InitGlobals] = b]
         IN  /\ n.funcs = m.funcs /\ \A h \in Own(m) : n.body[h] = m.body[h]
             /\ n = [globals |-> n.globals, funcs |-> n.funcs, init |-> n.init,
                     heap |-> n.heap, body |-> n.body, asm |-> n.asm]
<1> DEFINE B == [m.body EXCEPT ![InitGlobals] = b]
           n == [m EXCEPT !.body = B]
<1>1. /\ m = [globals |-> m.globals, funcs |-> m.funcs, init |-> m.init,
              heap |-> m.heap, body |-> m.body, asm |-> m.asm]
      /\ m.body = [h \in DOMAIN m.body |-> m.body[h]]
      /\ ToSet(m.funcs) \subseteq DOMAIN m.body
  BY DEF IsModule
<1>2. \A h \in Own(m) : B[h] = m.body[h]
  BY <1>1 DEF Own
<1> HIDE DEF B
<1>3. /\ n = [globals |-> n.globals, funcs |-> n.funcs, init |-> n.init,
              heap |-> n.heap, body |-> n.body, asm |-> n.asm]
      /\ n.funcs = m.funcs /\ n.body = B
  BY <1>1
<1> HIDE DEF n
<1>4. n.funcs = m.funcs /\ \A h \in Own(m) : n.body[h] = m.body[h]
  BY <1>2, <1>3
<1> QED
  BY <1>3, <1>4 DEF n, B

\* InitGlobal only writes the initialisation function,
LEMMA VisitGlobalCalls ==
  ASSUME IsModule(mod), CallsReadable(mod), VisitGlobal
  PROVE  Same(mod, mod')
<1>0. mod = [globals |-> mod.globals, funcs |-> mod.funcs, init |-> mod.init,
             heap |-> mod.heap, body |-> mod.body, asm |-> mod.asm]
  BY DEF IsModule
<1>1. CASE mod' = mod
  BY <1>1, InitOnly
<1>2. CASE \E b : mod' = [mod EXCEPT !.body[InitGlobals] = b]
  <2>1. PICK b : mod' = [mod EXCEPT !.body[InitGlobals] = b]
    BY <1>2
  <2> DEFINE n == [mod EXCEPT !.body[InitGlobals] = b]
  <2>2. /\ n.funcs = mod.funcs /\ \A h \in Own(mod) : n.body[h] = mod.body[h]
        /\ n = [globals |-> n.globals, funcs |-> n.funcs, init |-> n.init,
                heap |-> n.heap, body |-> n.body, asm |-> n.asm]
    BY InitBody
  <2> HIDE DEF n
  <2>3. Own(n) = Own(mod)
    BY <2>2 DEF Own
  <2>4. Same(mod, n)
    BY <2>2, <2>3, InitOnly
  <2> QED
    BY <2>1, <2>4 DEF n
<1>3. CASE \E g, c : mod' = [Emit(mod, c) EXCEPT !.init[g] = Null]
  <2>1. PICK g, c : mod' = [Emit(mod, c) EXCEPT !.init[g] = Null]
    BY <1>3
  <2> DEFINE e == Emit(mod, c)
             I == [e.init EXCEPT ![g] = Null]
  <2>2. /\ e.funcs = mod.funcs /\ \A h \in Own(mod) : e.body[h] = mod.body[h]
        /\ e = [globals |-> e.globals, funcs |-> e.funcs, init |-> e.init,
                heap |-> e.heap, body |-> e.body, asm |-> e.asm]
    BY InitBody DEF Emit
  <2>3. mod' = [e EXCEPT !.init = I]
    BY <2>1
  <2> HIDE DEF e, I
  <2>4. mod'.funcs = e.funcs /\ mod'.body = e.body
    BY <2>2, <2>3
  <2> QED
    BY <2>2, <2>4, InitOnly DEF Own
<1>4. mod' = mod \/ (\E b : mod' = [mod EXCEPT !.body[InitGlobals] = b])
        \/ (\E g, c : mod' = [Emit(mod, c) EXCEPT !.init[g] = Null])
  BY DEF VisitGlobal, InvokeGlobalInitFunctions, PointerInit
<1> QED
  BY <1>1, <1>2, <1>3, <1>4

\* in its walk through the initialisers as well,
LEMMA VisitFieldCalls ==
  ASSUME IsModule(mod), CallsReadable(mod), VisitField
  PROVE  Same(mod, mod')
<1>1. CASE mod' = mod
  BY <1>1, InitOnly
<1>2. CASE \E fr, c : mod' = FieldMoved(fr, c)
  <2>1. PICK fr, c : mod' = FieldMoved(fr, c)
    BY <1>2
  <2> DEFINE cc == fr.c
             H == [mod.heap EXCEPT ![cc][fr.next] = IF NulledField(c) THEN Null ELSE @]
             n == [mod EXCEPT !.heap = H]
  <2>2. n = [mod EXCEPT !.heap[fr.c][fr.next] = IF NulledField(c) THEN Null ELSE @]
    OBVIOUS
  <2> HIDE DEF H
  <2>3. \E i : mod' = n \/ mod' = [n EXCEPT !.body[InitGlobals] = i]
    BY <2>1, <2>2 DEF FieldMoved, Emit
  <2>4. /\ mod = [globals |-> mod.globals, funcs |-> mod.funcs, init |-> mod.init,
                  heap |-> mod.heap, body |-> mod.body, asm |-> mod.asm]
        /\ mod.body = [h \in DOMAIN mod.body |-> mod.body[h]]
        /\ Own(mod) \subseteq DOMAIN mod.body
    BY DEF IsModule, Own
  <2>5. /\ n = [globals |-> n.globals, funcs |-> n.funcs, init |-> n.init,
                heap |-> n.heap, body |-> n.body, asm |-> n.asm]
        /\ n.funcs = mod.funcs /\ n.body = mod.body
    BY <2>4
  <2> HIDE DEF n
  <2>6. CASE mod' = n
    BY <2>5, <2>6, InitOnly DEF Own
  <2>7. ASSUME NEW i, mod' = [n EXCEPT !.body[InitGlobals] = i] PROVE Same(mod, mod')
    <3> DEFINE B == [n.body EXCEPT ![InitGlobals] = i]
    <3>1. \A h \in Own(mod) : B[h] = mod.body[h]
      BY <2>4, <2>5 DEF Own
    <3>2. mod' = [n EXCEPT !.body = B]
      BY <2>7
    <3> HIDE DEF B
    <3>3. mod'.funcs = mod.funcs /\ mod'.body = B
      BY <2>5, <3>2
    <3> QED
      BY <3>1, <3>3, InitOnly DEF Own
  <2> QED
    BY <2>3, <2>6, <2>7
<1> QED
  BY <1>1, <1>2 DEF VisitField

\* and then lists it.
LEMMA FinishInitCalls ==
  ASSUME IsModule(mod), CallsReadable(mod), FinishInit
  PROVE  Same(mod, mod')
<1>1. CASE mod' = mod
  BY <1>1, InitOnly
<1>2. CASE mod' # mod
  <2> DEFINE b == Append(mod.body[InitGlobals], Instr("ret", None, None, <<>>))
             n == [mod EXCEPT !.body[InitGlobals] = b]
             fs == <<InitGlobals>> \o mod.funcs
  <2>1. mod' = [n EXCEPT !.funcs = fs]
    BY <1>2 DEF FinishInit
  <2>2. /\ n.funcs = mod.funcs /\ \A h \in Own(mod) : n.body[h] = mod.body[h]
        /\ n = [globals |-> n.globals, funcs |-> n.funcs, init |-> n.init,
                heap |-> n.heap, body |-> n.body, asm |-> n.asm]
    BY InitBody
  <2> HIDE DEF n
  <2>3. ToSet(fs) = ToSet(mod.funcs) \cup {InitGlobals}
    <3> DEFINE T == ToSet(mod.funcs) \cup {InitGlobals}
               a == <<InitGlobals>>
    <3>1. a \in Seq(T)
      OBVIOUS
    <3>2. mod.funcs \in Seq(T)
      <4>1. mod.funcs \in Seq(ToSet(mod.funcs)) /\ ToSet(mod.funcs) \subseteq T
        BY DEF IsModule, IsSequence
      <4> QED
        BY <4>1, SeqMonotonic
    <3>3. ToSet(a) = {InitGlobals}
      BY OneFirst
    <3> HIDE DEF T, a
    <3>4. ToSet(a \o mod.funcs) = ToSet(a) \union ToSet(mod.funcs)
      BY <3>1, <3>2, ConcatElements
    <3> QED
      BY <3>3, <3>4 DEF a
  <2> HIDE DEF fs
  <2>4. mod'.funcs = fs /\ mod'.body = n.body
    BY <2>1, <2>2
  <2>5. Own(mod') = Own(mod)
    BY <2>3, <2>4 DEF Own
  <2> QED
    BY <2>2, <2>4, <2>5, InitOnly
<1> QED
  BY <1>1, <1>2

\* What the other passes erase is not called, and what they inline is.
LEMMA OtherPassesCalls ==
  ASSUME IsModule(mod), CallsReadable(mod), input.linkage[InitGlobals] = "external",
         ElimUnusedFunction \/ InlineSimpleFunction \/ ElimUnusedGlobal \/ ElimInlineAsm
  PROVE  Same(mod, mod')
<1>0. mod = [globals |-> mod.globals, funcs |-> mod.funcs, init |-> mod.init,
             heap |-> mod.heap, body |-> mod.body, asm |-> mod.asm]
  BY DEF IsModule
<1>1. CASE mod' = mod
  BY <1>1, InitOnly
<1>2. CASE ElimUnusedFunction /\ mod' # mod
  <2> DEFINE F == UnusedFunctions
  <2>1. mod' = Erased(mod, F)
    BY <1>2 DEF ElimUnusedFunction
  <2>2. \A x \in F : ~ UsedBy(mod, x)
    BY DEF UnusedFunctions, Used
  <2> HIDE DEF F
  <2> QED
    BY <2>1, <2>2, ErasedCalls DEF Same
<1>3. CASE ElimUnusedGlobal
  <2>1. \E v : mod' = [mod EXCEPT !.globals = v]
    BY <1>3 DEF ElimUnusedGlobal
  <2>2. mod'.funcs = mod.funcs /\ mod'.body = mod.body
    BY <1>0, <2>1
  <2> QED
    BY <2>2, InitOnly DEF Own
<1>4. CASE ElimInlineAsm /\ mod' # mod
  <2>1. \E v : mod' = [mod EXCEPT !.asm = v]
    BY <1>4 DEF ElimInlineAsm
  <2>2. mod'.funcs = mod.funcs /\ mod'.body = mod.body
    BY <1>0, <2>1
  <2> QED
    BY <2>2, InitOnly DEF Own
<1>5. CASE InlineSimpleFunction /\ mod' # mod
  <2>1. PICK k \in DOMAIN mod.funcs :
          /\ Candidate(mod.funcs[k])
          /\ \/ /\ Erasable(InlinedEverywhere(mod.funcs[k]), mod.funcs[k])
                /\ mod' = Erased(InlinedEverywhere(mod.funcs[k]), {mod.funcs[k]})
             \/ mod' = InlinedEverywhere(mod.funcs[k])
    BY <1>5 DEF InlineSimpleFunction
  <2> DEFINE f == mod.funcs[k]
             m == InlinedEverywhere(f)
  <2>2. f \in Functions /\ Candidate(f) /\ ((Erasable(m, f) /\ mod' = Erased(m, {f})) \/ mod' = m)
    BY <2>1 DEF Functions, ToSet
  <2> HIDE DEF f
  <2>3. f \in Own(mod) /\ f \in input.single /\ ~ isDiscoverTestingFunc(f)
    <3>1. "external" \notin {"linkonce", "linkonce_odr", "internal"}
      OBVIOUS
    <3> QED
      BY <2>2, <3>1 DEF Candidate, isCallTransferFunc, isGEPTransferFunc, Own, Functions
  <2>4. CallsReadable(m) /\ \A t : Accounts(mod, t) => Accounts(m, t)
    BY <2>3, InlinedCalls
  <2>5. IsModule(m)
    BY <2>2, InlinedFacts
  <2>6. Erasable(m, f) => ~ UsedBy(m, f)
    BY DEF Erasable
  <2> HIDE DEF m
  <2>7. Erasable(m, f) =>
          CallsReadable(Erased(m, {f})) /\ \A t : Accounts(m, t) => Accounts(Erased(m, {f}), t)
    BY <2>4, <2>5, <2>6, ErasedCalls
  <2> QED
    BY <2>2, <2>4, <2>7 DEF Same
<1> QED
  BY <1>1, <1>2, <1>3, <1>4, <1>5

\* What the functions do is as it was read.  Inlining needs bodies that do not
\* vanish and no call of the initialisation function, itself no candidate.
CallsInv == CallsReadable(mod) /\ input.linkage[InitGlobals] = "external" /\ CallsKept

\* So it is at first,
LEMMA CallsInit == Init => CallsInv
<1> SUFFICES ASSUME Init PROVE CallsInv
  OBVIOUS
<1>1. PICK p \in Inputs : input = p.input /\ mod = p.input.m
  BY DEF Init
<1>2. /\ input.linkage[InitGlobals] = "external"
      /\ \A h \in ToSet(mod.funcs) :
           /\ h \in input.single => mod.body[h] # <<>>
           /\ mod.body[h] # <<>> => \E i \in ToSet(mod.body[h]) : i.op # "call"
           /\ \A i \in ToSet(mod.body[h]) : i.op = "call" => i.f # InitGlobals
  BY <1>1, InputAssumption
<1>3. CallsReadable(mod)
  BY <1>2 DEF CallsReadable, Own
<1>4. CallsKept
  BY <1>1 DEF CallsKept
<1> QED
  BY <1>2, <1>3, <1>4 DEF CallsInv

\* A step that keeps what functions do keeps it as it was read.
LEMMA CallsFollow ==
  ASSUME CallsInv, Same(mod, mod'), UNCHANGED input
  PROVE  CallsInv'
<1>1. CallsReadable(mod)'
  BY DEF Same, CallsReadable
<1>2. PICK t : t = Expanded(input.m)
  OBVIOUS
<1>3. Expanded(input.m)' = t
  BY <1>2 DEF Expanded, Effects, Effect, Expandable, isDiscoverTestingFunc
<1>4. Accounts(input.m, t) => Accounts(mod, t)
  BY <1>2 DEF CallsInv, CallsKept
<1>5. Accounts(input.m, t) => Accounts(mod', t)
  BY <1>4 DEF Same
<1>6. CallsKept'
  BY <1>3, <1>5 DEF CallsKept
<1> QED
  BY <1>1, <1>6 DEF CallsInv

\* and every step of the program is one of these.
LEMMA CallsStep == ModuleInv /\ CallsInv /\ [Next]_vars => CallsInv'
<1> SUFFICES ASSUME ModuleInv, CallsInv, [Next]_vars PROVE CallsInv'
  OBVIOUS
<1>1. IsModule(mod) /\ CallsReadable(mod) /\ input.linkage[InitGlobals] = "external"
  BY DEF ModuleInv, CallsInv
<1>2. CASE UNCHANGED <<input, mod>>
  <2>1. Same(mod, mod')
    BY <1>1, <1>2, InitOnly
  <2> QED
    BY <1>2, <2>1, CallsFollow
<1>3. CASE RunModulePass
  <2>1. Same(mod, mod')
    BY <1>1, <1>3, VisitGlobalCalls, VisitFieldCalls, FinishInitCalls, OtherPassesCalls
       DEF RunModulePass, ModuleStep
  <2>2. UNCHANGED input
    BY <1>3 DEF RunModulePass, ModuleStep, VisitGlobal, VisitField, FinishInit, ElimUnusedFunction,
                InlineSimpleFunction, ElimUnusedGlobal, ElimInlineAsm
  <2> QED
    BY <2>1, <2>2, CallsFollow
<1> QED
  BY <1>2, <1>3 DEF Next, ReadInput, StartPass, CheckOrPrint, RunFunctionPass, Crash, WriteOutput, Stop,
                    vars, mvars

(***************************************************************************)
(* In every module and under every command line the functions that are     *)
(* left do what they did when the module was read.                         *)
(***************************************************************************)
THEOREM CallsKeptCorrect == Spec => []CallsKept
<1>1. Init => OrderInv /\ ModuleInv /\ CallsInv
  BY OrderInit, ModuleInit, CallsInit
<1>2. OrderInv /\ ModuleInv /\ CallsInv /\ [Next]_vars => (OrderInv /\ ModuleInv /\ CallsInv)'
  BY OrderStep, ModuleInvStep, CallsStep
<1>3. CallsInv => CallsKept
  BY DEF CallsInv
<1> QED
  BY <1>1, <1>2, <1>3, PTL DEF Spec

------------------------------------------------------------------------------
(* The crashes of the function passes *)

\* CombineGEP looks for chains only from what it visited, which is nothing.
LEMMA NothingCombined ==
  ASSUME NEW f, IsSequence(Layout(f))
  PROVE  findCombinableGEPList(f) = <<>>
<1> DEFINE L == Layout(f)
           S == DOMAIN L
           base == [visited |-> {}, lists |-> <<>>]
           step(acc, i) ==
             IF Op(f, i) = "gep" /\ i \in acc.visited
             THEN LET l == Reverse(findCombinableGEPs(f)[i])
                  IN  [visited |-> acc.visited \cup ToSet(l), lists |-> Append(acc.lists, l)]
             ELSE acc
           Is(h) == h = [s \in SUBSET S |->
                          IF s = {} THEN base ELSE step(h[s \ {Max(s)}], L[Max(s)])]
           iter == CHOOSE h : Is(h)
<1>1. findCombinableGEPList(f) = iter[S].lists
  BY DEF findCombinableGEPList, FoldLeft, MapThenFoldSet
<1>2. \A i : step(base, i) = base
  OBVIOUS
<1>3. Len(L) \in Nat /\ S = 1 .. Len(L)
  BY SequenceFacts
<1> HIDE DEF step, base, L
<1>4. Is(iter)
  <2> DEFINE h == [s \in SUBSET S |-> base]
  <2>1. ASSUME NEW s \in SUBSET S
        PROVE  h[s] = IF s = {} THEN base ELSE step(h[s \ {Max(s)}], L[Max(s)])
    <3>1. s \ {Max(s)} \in SUBSET S
      OBVIOUS
    <3>2. h[s] = base /\ h[s \ {Max(s)}] = base
      BY <3>1
    <3> HIDE DEF h
    <3> QED
      BY <1>2, <3>2
  <2>2. Is(h)
    BY <2>1
  <2> HIDE DEF h
  <2> QED
    BY <2>2
<1> HIDE DEF iter
<1> DEFINE P == {k \in Nat : \A s \in SUBSET S : s \subseteq 1 .. k => iter[s] = base}
<1>5. 0 \in P
  <2>1. 1 .. 0 = {}
    OBVIOUS
  <2> QED
    BY <1>4, <2>1
<1>6. ASSUME NEW k \in Nat, k \in P PROVE k + 1 \in P
  <2>1. ASSUME NEW s \in SUBSET S, s \subseteq 1 .. k + 1 PROVE iter[s] = base
    <3>1. CASE k + 1 \notin s
      <4>1. s \subseteq 1 .. k
        BY <2>1, <3>1
      <4> QED
        BY <1>6, <4>1
    <3>2. CASE k + 1 \in s
      <4>1. Max(s) = k + 1
        <5>1. \A y \in s : k + 1 >= y /\ y \in Nat
          BY <2>1
        <5> QED
          BY <3>2, <5>1 DEF Max
      <4>2. s \ {k + 1} \in SUBSET S /\ s \ {k + 1} \subseteq 1 .. k
        BY <2>1
      <4>3. iter[s \ {k + 1}] = base
        BY <1>6, <4>2
      <4>4. iter[s] = step(iter[s \ {Max(s)}], L[Max(s)])
        BY <1>4, <3>2
      <4> QED
        BY <1>2, <4>1, <4>3, <4>4
    <3> QED
      BY <3>1, <3>2
  <2> QED
    BY <2>1
<1> HIDE DEF P, Is
<1>7. Nat \subseteq P
  BY <1>5, <1>6, SetInduction
<1>8. iter[S] = base
  BY <1>3, <1>7 DEF P
<1> QED
  BY <1>1, <1>8 DEF base

\* The layout lists the instructions of the blocks.
LEMMA LayoutFacts ==
  ASSUME NEW f, IsSequence(f.blocks), \A b \in DOMAIN f.blocks : IsSequence(f.blocks[b])
  PROVE  /\ IsSequence(Layout(f))
         /\ \A i : i \in ToSet(Layout(f)) <=> \E b \in DOMAIN f.blocks : i \in ToSet(f.blocks[b])
<1> DEFINE ss == f.blocks
<1>1. IsSequence(ss) /\ \A b \in DOMAIN ss : IsSequence(ss[b])
  OBVIOUS
<1> HIDE DEF ss
<1>2. IsSequence(FlattenSeq(ss)) /\ ToSet(FlattenSeq(ss)) = Elements(ss)
  BY <1>1, FlattenFacts
<1>3. \A i : i \in Elements(ss) <=> \E b \in DOMAIN ss : i \in ToSet(ss[b])
  BY DEF Elements
<1> QED
  BY <1>2, <1>3 DEF Layout, ss

\* Reverse adds no element.
LEMMA ReverseElements ==
  ASSUME NEW s, IsSequence(s)
  PROVE  IsSequence(Reverse(s)) /\ ToSet(Reverse(s)) \subseteq ToSet(s)
<1>1. Len(s) \in Nat /\ \A k \in 1 .. Len(s) : s[k] \in ToSet(s)
  BY SequenceFacts
<1>2. \A k \in 1 .. Len(s) : (Len(s) - k) + 1 \in 1 .. Len(s)
  BY <1>1
<1>3. \A k \in 1 .. Len(s) : s[(Len(s) - k) + 1] \in ToSet(s)
  BY <1>1, <1>2
<1>4. [k \in 1 .. Len(s) |-> s[(Len(s) - k) + 1]] \in Seq(ToSet(s))
  BY <1>1, <1>3, IsASeq
<1> QED
  BY <1>4, SeqIsSequence DEF Reverse

\* A user is an instruction of the module, and the value one of its operands.
LEMMA UsersFacts ==
  ASSUME NEW f, IsSequence(Layout(f)), IsSequence(f.foreign),
         \A i \in ToSet(Layout(f)) \cup ToSet(f.foreign) : IsSequence(f.ins[i].args),
         NEW v
  PROVE  /\ IsSequence(Users(f, v))
         /\ \A i \in ToSet(Users(f, v)) : /\ i \in ToSet(Layout(f)) \cup ToSet(f.foreign)
                                          /\ v \in ToSet(f.ins[i].args)
<1> DEFINE L == Layout(f)
           A == L \o f.foreign
           U == ToSet(L) \cup ToSet(f.foreign)
           T(i) == {a \in DOMAIN f.ins[i].args : f.ins[i].args[a] = v}
           part(i) == [n \in 1 .. Cardinality(T(i)) |-> i]
           ss == [k \in DOMAIN A |-> part(A[k])]
<1>1. A \in Seq(U) /\ ToSet(A) = U
  <2> DEFINE F == f.foreign
  <2>1. L \in Seq(ToSet(L)) /\ F \in Seq(ToSet(F)) /\ ToSet(L) \subseteq U /\ ToSet(F) \subseteq U
    BY DEF IsSequence
  <2> HIDE DEF L, F
  <2>2. L \in Seq(U) /\ F \in Seq(U)
    <3> HIDE DEF U
    <3> QED
      BY <2>1, SeqMonotonic
  <2>3. L \o F \in Seq(U) /\ ToSet(L \o F) = ToSet(L) \union ToSet(F)
    <3> HIDE DEF U
    <3> QED
      BY <2>2, ConcatElements
  <2> QED
    BY <2>3 DEF F
<1>2. ASSUME NEW i \in U
      PROVE  part(i) \in Seq({i}) /\ (part(i) # <<>> => v \in ToSet(f.ins[i].args))
  <2> DEFINE s == f.ins[i].args
  <2>1. Len(s) \in Nat /\ DOMAIN s = 1 .. Len(s) /\ \A a \in 1 .. Len(s) : s[a] \in ToSet(s)
    <3>1. IsSequence(s)
      BY <1>2
    <3> HIDE DEF s
    <3> QED
      BY <3>1, SequenceFacts
  <2>2. IsFiniteSet(T(i)) /\ T(i) \subseteq 1 .. Len(s)
    <3>1. IsFiniteSet(1 .. Len(s)) /\ T(i) \in SUBSET (1 .. Len(s))
      BY <2>1, FS_Interval
    <3> QED
      BY <3>1, FS_Subset
  <2>3. Cardinality(T(i)) \in Nat /\ (Cardinality(T(i)) = 0 <=> T(i) = {})
    BY <2>2, FS_CardinalityType, FS_EmptySet
  <2>4. part(i) \in Seq({i})
    <3> DEFINE c == Cardinality(T(i))
    <3>1. c \in Nat
      BY <2>3
    <3> HIDE DEF c
    <3>2. [n \in 1 .. c |-> i] \in Seq({i})
      BY <3>1, IsASeq
    <3> QED
      BY <3>2 DEF c
  <2>5. ASSUME part(i) # <<>> PROVE v \in ToSet(f.ins[i].args)
    <3>1. Cardinality(T(i)) # 0
      <4>1. DOMAIN part(i) = 1 .. Cardinality(T(i))
        OBVIOUS
      <4> HIDE DEF part, T
      <4>2. Len(part(i)) \in Nat \ {0} /\ DOMAIN part(i) = 1 .. Len(part(i))
        BY <2>4, <2>5, EmptySeq, LenProperties
      <4>3. 1 \in DOMAIN part(i)
        BY <4>2
      <4>4. 1 \in 1 .. Cardinality(T(i))
        BY <4>1, <4>3
      <4> QED
        BY <2>3, <4>4
    <3>2. PICK a \in T(i) : TRUE
      BY <2>3, <3>1
    <3>3. a \in 1 .. Len(s) /\ s[a] = v
      BY <2>2, <3>2
    <3> QED
      BY <2>1, <3>3
  <2> QED
    BY <2>4, <2>5
<1>3. IsSequence(ss) /\ \A k \in DOMAIN ss : IsSequence(ss[k])
  <2>1. Len(A) \in Nat /\ DOMAIN A = 1 .. Len(A) /\ \A k \in 1 .. Len(A) : A[k] \in U
    <3> HIDE DEF A, U
    <3> QED
      BY <1>1, LenProperties, ElementOfSeq
  <2>2. \A k \in 1 .. Len(A) : part(A[k]) \in Seq({A[k]})
    BY <1>2, <2>1
  <2> HIDE DEF A, U, part
  <2>3. \A k \in 1 .. Len(A) : IsSequence(part(A[k]))
    BY <2>2, SeqIsSequence
  <2> DEFINE S == {part(A[k]) : k \in 1 .. Len(A)}
  <2>4. [k \in 1 .. Len(A) |-> part(A[k])] \in Seq(S)
    <3>1. \A k \in 1 .. Len(A) : part(A[k]) \in S
      OBVIOUS
    <3> HIDE DEF S
    <3> QED
      BY <2>1, <3>1, IsASeq
  <2>5. ss = [k \in 1 .. Len(A) |-> part(A[k])]
    BY <2>1
  <2>6. IsSequence(ss)
    <3> HIDE DEF S
    <3> QED
      BY <2>4, <2>5, SeqIsSequence
  <2> QED
    BY <2>1, <2>3, <2>6
<1>4. IsSequence(FlattenSeq(ss)) /\ ToSet(FlattenSeq(ss)) = Elements(ss)
  <2> HIDE DEF ss
  <2> QED
    BY <1>3, FlattenFacts
<1>5. ASSUME NEW i \in Elements(ss) PROVE i \in U /\ v \in ToSet(f.ins[i].args)
  <2>1. PICK k \in DOMAIN A : i \in ToSet(part(A[k]))
    <3>1. DOMAIN ss = DOMAIN A /\ \A k \in DOMAIN A : ss[k] = part(A[k])
      OBVIOUS
    <3> HIDE DEF ss, part, A
    <3> QED
      BY <1>5, <3>1 DEF Elements
  <2>2. A[k] \in U
    <3> HIDE DEF A, U
    <3> QED
      BY <1>1, SequenceFacts DEF ToSet
  <2>3. part(A[k]) \in Seq({A[k]}) /\ (part(A[k]) # <<>> => v \in ToSet(f.ins[A[k]].args))
    BY <1>2, <2>2
  <2> HIDE DEF part, U, A
  <2>4. ToSet(part(A[k])) \subseteq {A[k]} /\ IsSequence(part(A[k]))
    BY <2>3, SeqIsSequence
  <2>5. i = A[k]
    BY <2>1, <2>4
  <2>6. part(A[k]) # <<>>
    BY <2>1 DEF ToSet
  <2> QED
    BY <2>2, <2>3, <2>5, <2>6
<1>6. Users(f, v) = Reverse(FlattenSeq(ss))
  BY DEF Users
<1> HIDE DEF ss, U
<1>7. IsSequence(Reverse(FlattenSeq(ss))) /\ ToSet(Reverse(FlattenSeq(ss))) \subseteq Elements(ss)
  BY <1>4, ReverseElements
<1> QED
  BY <1>5, <1>6, <1>7 DEF U

\* A function whose passes find what they look for: no block is empty, and
\* each instruction in place has a record.
FnShape(f) ==
  /\ f = [blocks |-> f.blocks, ins |-> f.ins, foreign |-> f.foreign]
  /\ IsSequence(f.blocks)
  /\ \A b \in DOMAIN f.blocks : IsSequence(f.blocks[b]) /\ f.blocks[b] # <<>>
  /\ \A i \in ToSet(Layout(f)) : i \in DOMAIN f.ins /\ InstrOf(f, f.ins[i])

\* What is read has this shape.
LEMMA ReadShape ==
  ASSUME NEW f, IsFunction(f)
  PROVE  FnShape(f)
BY DEF IsFunction, FnShape

\* What is left of a block once the instructions gone are erased.
Kept(s, gone) == FlattenSeq(Picks(s, ToSet(s) \ gone))

\* A block that keeps its last instruction is not empty.
LEMMA KeptFacts ==
  ASSUME NEW s, IsSequence(s), s # <<>>, NEW gone, Last(s) \notin gone
  PROVE  IsSequence(Kept(s, gone)) /\ Kept(s, gone) # <<>> /\ ToSet(Kept(s, gone)) \subseteq ToSet(s)
<1> DEFINE P == ToSet(s) \ gone
           t == FlattenSeq(Picks(s, P))
<1>1. Last(s) \in ToSet(s)
  BY FrontLast
<1>2. IsSequence(t) /\ ToSet(t) = ToSet(s) \intersect P
  <2> HIDE DEF P
  <2> QED
    BY PicksFacts
<1>3. Last(s) \in ToSet(t)
  BY <1>1, <1>2
<1> HIDE DEF t
<1>4. t # <<>>
  BY <1>3 DEF ToSet
<1> QED
  BY <1>2, <1>4 DEF t, Kept

\* Erasing instructions, the last of each block excepted.
LEMMA EraseKeeps ==
  ASSUME NEW f, FnShape(f), NEW gone, \A b \in DOMAIN f.blocks : Last(f.blocks[b]) \notin gone
  PROVE  FnShape(Erase(f, gone))
<1> DEFINE g == Erase(f, gone)
           kept == [b \in DOMAIN f.blocks |-> Kept(f.blocks[b], gone)]
           others == Select(f.foreign, LAMBDA x : x \notin gone)
<1>1. f = [blocks |-> f.blocks, ins |-> f.ins, foreign |-> f.foreign]
  BY DEF FnShape
<1>2. g = [f EXCEPT !.blocks = kept, !.foreign = others]
  <2> DEFINE sel(s) == [k \in DOMAIN s |-> IF s[k] \notin gone THEN <<s[k]>> ELSE <<>>]
             old == [b \in DOMAIN f.blocks |-> FlattenSeq(sel(f.blocks[b]))]
  <2>1. g = [f EXCEPT !.blocks = old, !.foreign = others]
    BY DEF Erase, Select
  <2>2. \A s : Picks(s, ToSet(s) \ gone) = sel(s)
    BY DEF Picks, ToSet
  <2> HIDE DEF sel, g, others
  <2>3. old = kept
    BY <2>2 DEF Kept
  <2> QED
    BY <2>1, <2>3
<1>3. \A b \in DOMAIN f.blocks :
        IsSequence(kept[b]) /\ kept[b] # <<>> /\ ToSet(kept[b]) \subseteq ToSet(f.blocks[b])
  <2>1. ASSUME NEW b \in DOMAIN f.blocks
        PROVE  IsSequence(kept[b]) /\ kept[b] # <<>> /\ ToSet(kept[b]) \subseteq ToSet(f.blocks[b])
    <3> DEFINE s == f.blocks[b]
    <3>1. IsSequence(s) /\ s # <<>> /\ Last(s) \notin gone
      BY DEF FnShape
    <3>2. kept[b] = Kept(s, gone)
      OBVIOUS
    <3> HIDE DEF s, kept
    <3>3. IsSequence(Kept(s, gone)) /\ Kept(s, gone) # <<>> /\ ToSet(Kept(s, gone)) \subseteq ToSet(s)
      BY <3>1, KeptFacts
    <3> QED
      BY <3>2, <3>3 DEF s
  <2> QED
    BY <2>1
<1>4. DOMAIN kept = DOMAIN f.blocks
  OBVIOUS
<1> HIDE DEF g, others
<1>5. IsSequence(kept)
  <2>1. Len(f.blocks) \in Nat /\ DOMAIN f.blocks = 1 .. Len(f.blocks)
    BY SequenceFacts DEF FnShape
  <2> DEFINE n == Len(f.blocks)
             e(b) == Kept(f.blocks[b], gone)
             S == {e(b) : b \in 1 .. n}
  <2>2. kept = [b \in 1 .. n |-> e(b)] /\ \A b \in 1 .. n : e(b) \in S
    BY <2>1
  <2> HIDE DEF kept, S, e
  <2>3. kept \in Seq(S)
    BY <2>1, <2>2, IsASeq
  <2> QED
    BY <2>3, SeqIsSequence
<1> HIDE DEF kept
<1>6. /\ g = [blocks |-> g.blocks, ins |-> g.ins, foreign |-> g.foreign]
      /\ g.blocks = kept /\ g.ins = f.ins
  BY <1>1, <1>2
<1>7. ToSet(Layout(g)) \subseteq ToSet(Layout(f))
  <2>1. \A i : i \in ToSet(Layout(f)) <=> \E b \in DOMAIN f.blocks : i \in ToSet(f.blocks[b])
    BY LayoutFacts DEF FnShape
  <2>2. \A i : i \in ToSet(Layout(g)) <=> \E b \in DOMAIN g.blocks : i \in ToSet(g.blocks[b])
    BY <1>3, <1>4, <1>5, <1>6, LayoutFacts
  <2> QED
    BY <1>3, <1>4, <1>6, <2>1, <2>2
<1> QED
  BY <1>3, <1>4, <1>5, <1>6, <1>7 DEF FnShape, InstrOf, g

\* New operands in the old places.
LEMMA ArgsReplaced ==
  ASSUME NEW s, IsSequence(s), NEW by
  PROVE  LET t == [a \in DOMAIN s |-> IF s[a] \in DOMAIN by THEN by[s[a]] ELSE s[a]]
         IN  IsSequence(t) /\ DOMAIN t = DOMAIN s
<1> DEFINE n == Len(s)
           e(a) == IF s[a] \in DOMAIN by THEN by[s[a]] ELSE s[a]
           S == {e(a) : a \in 1 .. n}
<1>1. n \in Nat /\ DOMAIN s = 1 .. n
  BY SequenceFacts
<1>2. \A a \in 1 .. n : e(a) \in S
  OBVIOUS
<1> HIDE DEF S, e, n
<1>3. [a \in 1 .. n |-> e(a)] \in Seq(S)
  BY <1>1, <1>2, IsASeq
<1>4. IsSequence([a \in 1 .. n |-> e(a)])
  BY <1>3, SeqIsSequence
<1> QED
  BY <1>1, <1>4 DEF e

\* Replacing operands, whatever replaces them.
LEMMA ReplaceKeeps ==
  ASSUME NEW f, FnShape(f), NEW by
  PROVE  FnShape(replaceOperand(f, by)) /\ replaceOperand(f, by).blocks = f.blocks
<1> DEFINE g == replaceOperand(f, by)
           L == ToSet(Layout(f))
           t(i) == [a \in DOMAIN f.ins[i].args |->
                      IF f.ins[i].args[a] \in DOMAIN by THEN by[f.ins[i].args[a]] ELSE f.ins[i].args[a]]
           new == [i \in DOMAIN f.ins |-> IF i \in L THEN [f.ins[i] EXCEPT !.args = t(i)] ELSE f.ins[i]]
<1>1. f = [blocks |-> f.blocks, ins |-> f.ins, foreign |-> f.foreign]
  BY DEF FnShape
<1>2. g = [f EXCEPT !.ins = new]
  BY Zenon DEF replaceOperand
<1>3. \A i \in L : i \in DOMAIN new /\ new[i] = [f.ins[i] EXCEPT !.args = t(i)]
  BY DEF FnShape
<1> HIDE DEF new, g
<1>4. /\ g = [blocks |-> g.blocks, ins |-> g.ins, foreign |-> g.foreign]
      /\ g.blocks = f.blocks /\ g.ins = new
  BY <1>1, <1>2
<1>5. ASSUME NEW i \in L PROVE InstrOf(g, new[i])
  <2> DEFINE r == f.ins[i]
             q == new[i]
  <2>1. /\ r = [op |-> r.op, args |-> r.args, from |-> r.from, ty |-> r.ty] /\ IsSequence(r.args)
        /\ r.op = "phi" => \A a \in DOMAIN r.args : r.from[a] \in DOMAIN f.blocks
    BY DEF FnShape, InstrOf
  <2>2. IsSequence(t(i)) /\ DOMAIN t(i) = DOMAIN r.args
    BY <2>1, ArgsReplaced
  <2>3. q = [r EXCEPT !.args = t(i)]
    BY <1>3
  <2> HIDE DEF t, r, q
  <2>4. /\ q = [op |-> q.op, args |-> q.args, from |-> q.from, ty |-> q.ty]
        /\ q.op = r.op /\ q.args = t(i) /\ q.from = r.from
    BY <2>1, <2>3
  <2>5. InstrOf(g, q)
    BY <1>4, <2>1, <2>2, <2>4 DEF InstrOf
  <2> QED
    BY <2>5 DEF q
<1>6. Layout(g) = Layout(f)
  BY <1>4 DEF Layout
<1> HIDE DEF t
<1> QED
  BY <1>3, <1>4, <1>5, <1>6 DEF FnShape, g

\* The candidate that findAllocaStoreArg makes of a slot.
SlotCandidate(f, u) ==
  LET us == Users(f, u)
  IN  [alloc |-> u,
       store |-> IF Op(f, Last(us)) = "store" THEN Last(us) ELSE NoInstr,
       loads |-> {i \in ToSet(us) : Op(f, i) = "load"}]

\* Each candidate reported is that of a stack slot for an argument.
LEMMA CandidateFacts ==
  ASSUME NEW f, IsFunction(f), NEW k \in DOMAIN findAllocaStoreArg(f)
  PROVE  \E u \in ToSet(Layout(f)) : /\ Op(f, u) = "alloca" /\ IsArgumentSlot(f, u)
                                     /\ findAllocaStoreArg(f)[k] = SlotCandidate(f, u)
<1> DEFINE L == Layout(f)
           Is(u) == Op(f, u) = "alloca" /\ IsArgumentSlot(f, u)
           part(u) == IF Op(f, u) # "alloca" \/ ~ IsArgumentSlot(f, u) THEN <<>>
                      ELSE <<SlotCandidate(f, u)>>
           ss == [n \in DOMAIN L |-> part(L[n])]
           list == FlattenSeq(ss)
<1>1. findAllocaStoreArg(f) = list
  BY DEF findAllocaStoreArg, SlotCandidate
<1>2. IsSequence(L)
  BY LayoutFacts DEF IsFunction
<1>3. \A u : IsSequence(part(u)) /\ ToSet(part(u)) = IF Is(u) THEN {SlotCandidate(f, u)} ELSE {}
  <2>1. ASSUME NEW c PROVE IsSequence(<<c>>) /\ ToSet(<<c>>) = {c} /\ IsSequence(<<>>) /\ ToSet(<<>>) = {}
    <3>1. <<c>> \in Seq({c}) /\ <<>> \in Seq({c})
      BY EmptySeq
    <3>2. ToSet(<<c>>) = {c} /\ ToSet(<<>>) = {}
      BY DEF ToSet
    <3> QED
      BY <3>1, <3>2, SeqIsSequence
  <2> QED
    BY <2>1
<1> HIDE DEF L, part
<1>4. Len(L) \in Nat /\ DOMAIN L = 1 .. Len(L) /\ \A n \in 1 .. Len(L) : L[n] \in ToSet(L)
  BY <1>2, SequenceFacts
<1>5. IsSequence(ss) /\ \A n \in DOMAIN ss : IsSequence(ss[n])
  <2> DEFINE S == {part(L[n]) : n \in 1 .. Len(L)}
  <2>1. \A n \in 1 .. Len(L) : part(L[n]) \in S
    OBVIOUS
  <2> HIDE DEF S
  <2>2. [n \in 1 .. Len(L) |-> part(L[n])] \in Seq(S)
    BY <1>4, <2>1, IsASeq
  <2>3. IsSequence(ss)
    BY <1>4, <2>2, SeqIsSequence
  <2> QED
    BY <1>3, <2>3
<1>6. IsSequence(list) /\ ToSet(list) = Elements(ss)
  <2> HIDE DEF ss
  <2> QED
    BY <1>5, FlattenFacts
<1>7. \A c \in Elements(ss) : \E u \in ToSet(L) : Is(u) /\ c = SlotCandidate(f, u)
  <2>1. ASSUME NEW c \in Elements(ss) PROVE \E u \in ToSet(L) : Is(u) /\ c = SlotCandidate(f, u)
    <3>1. PICK n \in DOMAIN L : c \in ToSet(part(L[n]))
      <4>1. DOMAIN ss = DOMAIN L /\ \A n \in DOMAIN L : ss[n] = part(L[n])
        OBVIOUS
      <4> HIDE DEF ss
      <4> QED
        BY <2>1, <4>1 DEF Elements
    <3> HIDE DEF Is
    <3>2. Is(L[n]) /\ c = SlotCandidate(f, L[n])
      BY <1>3, <3>1
    <3> QED
      BY <1>4, <3>2
  <2> QED
    BY <2>1
<1>8. list[k] \in ToSet(list)
  <2>1. k \in DOMAIN list
    BY <1>1
  <2> HIDE DEF list
  <2> QED
    BY <1>6, <2>1 DEF ToSet
<1> HIDE DEF list
<1> QED
  BY <1>1, <1>6, <1>7, <1>8 DEF L

\* The users of a slot are instructions of the function that load or store.
LEMMA SlotUsers ==
  ASSUME NEW f, IsFunction(f), NEW u \in ToSet(Layout(f)), IsArgumentSlot(f, u)
  PROVE  /\ ToSet(Users(f, u)) \subseteq ToSet(Layout(f))
         /\ Last(Users(f, u)) \in ToSet(Users(f, u))
         /\ Op(f, Last(Users(f, u))) \in {"load", "store"}
<1> DEFINE us == Users(f, u)
           stores == {k \in DOMAIN us : Op(f, us[k]) = "store"}
<1>1. IsSequence(Layout(f)) /\ IsSequence(f.foreign)
  BY LayoutFacts DEF IsFunction
<1>2. \A i \in ToSet(Layout(f)) \cup ToSet(f.foreign) : IsSequence(f.ins[i].args)
  BY DEF IsFunction, InstrOf
<1>3. /\ IsSequence(us)
      /\ \A i \in ToSet(us) : i \in ToSet(Layout(f)) \cup ToSet(f.foreign) /\ u \in ToSet(f.ins[i].args)
  BY <1>1, <1>2, UsersFacts
<1>4. \A i \in ToSet(f.foreign) : u \notin ToSet(f.ins[i].args)
  BY DEF IsFunction
<1>5. (\A k \in DOMAIN us \ stores : Op(f, us[k]) = "load") /\ stores # DOMAIN us
  BY DEF IsArgumentSlot
<1> HIDE DEF us
<1>6. us # <<>>
  <2>1. PICK k \in DOMAIN us : k \notin stores
    BY <1>5
  <2>2. DOMAIN <<>> = {}
    OBVIOUS
  <2> QED
    BY <2>1, <2>2
<1>7. Len(us) \in Nat \ {0} /\ DOMAIN us = 1 .. Len(us) /\ \A k \in 1 .. Len(us) : us[k] \in ToSet(us)
  BY <1>3, <1>6, SequenceFacts, EmptySeq
<1>8. Last(us) = us[Len(us)] /\ Len(us) \in 1 .. Len(us)
  BY <1>7 DEF Last
<1>9. Op(f, Last(us)) \in {"load", "store"}
  BY <1>5, <1>7, <1>8
<1> QED
  BY <1>3, <1>4, <1>7, <1>8, <1>9 DEF us

\* A candidate without a store is a slot whose last user is a load.
LEMMA StorelessCandidate ==
  ASSUME NEW f, IsFunction(f), NEW k \in DOMAIN findAllocaStoreArg(f),
         findAllocaStoreArg(f)[k].store = NoInstr
  PROVE  \E u, i \in ToSet(Layout(f)) :
           Op(f, u) = "alloca" /\ Op(f, i) = "load" /\ i = Last(Users(f, u))
<1>1. PICK u \in ToSet(Layout(f)) : /\ Op(f, u) = "alloca" /\ IsArgumentSlot(f, u)
                                    /\ findAllocaStoreArg(f)[k] = SlotCandidate(f, u)
  BY CandidateFacts
<1> DEFINE i == Last(Users(f, u))
<1>2. i \in ToSet(Layout(f)) /\ Op(f, i) \in {"load", "store"}
  BY <1>1, SlotUsers
<1>3. SlotCandidate(f, u).store = IF Op(f, i) = "store" THEN i ELSE NoInstr
  BY DEF SlotCandidate
<1>4. NoInstr \notin ToSet(Layout(f))
  BY DEF IsFunction
<1> HIDE DEF i
<1>5. Op(f, i) # "store"
  BY <1>1, <1>2, <1>3, <1>4
<1> QED
  BY <1>1, <1>2, <1>5 DEF i

\* Without such a candidate only slots, stores and loads are erased.
LEMMA CandidatesRemoved ==
  ASSUME NEW f, IsFunction(f), NEW list, list = findAllocaStoreArg(f),
         \A k \in DOMAIN list : list[k].store # NoInstr
  PROVE  FnShape(removeAllocaStoreArg(f, list))
<1> DEFINE loads == UNION {list[k].loads : k \in DOMAIN list}
           slot(l) == CHOOSE k \in DOMAIN list : l \in list[k].loads
           by == [l \in loads |-> f.ins[list[slot(l)].store].args[1]]
           gone == loads \cup UNION {{list[k].store, list[k].alloc} : k \in DOMAIN list}
           g == replaceOperand(f, by)
<1>1. removeAllocaStoreArg(f, list) = Erase(g, gone)
  BY DEF removeAllocaStoreArg
<1>2. FnShape(g) /\ g.blocks = f.blocks
  <2> HIDE DEF by
  <2> QED
    BY ReadShape, ReplaceKeeps
<1>3. ASSUME NEW k \in DOMAIN list
      PROVE  \A i \in list[k].loads \cup {list[k].store, list[k].alloc} :
               Op(f, i) \in {"alloca", "load", "store"}
  <2>1. PICK u \in ToSet(Layout(f)) : /\ Op(f, u) = "alloca" /\ IsArgumentSlot(f, u)
                                      /\ list[k] = SlotCandidate(f, u)
    BY <1>3, CandidateFacts
  <2>2. /\ list[k].alloc = u /\ \A i \in list[k].loads : Op(f, i) = "load"
        /\ list[k].store # NoInstr => Op(f, list[k].store) = "store"
    BY <2>1 DEF SlotCandidate
  <2> QED
    BY <1>3, <2>1, <2>2
<1>4. \A i \in gone : Op(f, i) \in {"alloca", "load", "store"}
  BY <1>3
<1>5. \A b \in DOMAIN f.blocks : Last(f.blocks[b]) \notin gone
  <2> HIDE DEF gone
  <2> QED
    BY <1>4 DEF IsFunction, Terminators
<1> HIDE DEF g, gone
<1>6. FnShape(Erase(g, gone))
  BY <1>2, <1>5, EraseKeeps
<1> QED
  BY <1>1, <1>6

\* An operand put in another's place.
LEMMA OperandSet ==
  ASSUME NEW f, FnShape(f), NEW i, NEW a, NEW x
  PROVE  FnShape([f EXCEPT !.ins[i].args[a] = x])
<1> DEFINE r == f.ins[i]
           s == r.args
           q == [r EXCEPT !.args = [s EXCEPT ![a] = x]]
           new == [f.ins EXCEPT ![i] = q]
           g == [f EXCEPT !.ins[i].args[a] = x]
<1>1. f = [blocks |-> f.blocks, ins |-> f.ins, foreign |-> f.foreign]
  BY DEF FnShape
<1>2. g = [f EXCEPT !.ins = new]
  OBVIOUS
<1> HIDE DEF new, g
<1>3. /\ g = [blocks |-> g.blocks, ins |-> g.ins, foreign |-> g.foreign]
      /\ g.blocks = f.blocks /\ g.ins = new
  BY <1>1, <1>2
<1>4. ASSUME NEW j \in ToSet(Layout(f)) PROVE j \in DOMAIN new /\ InstrOf(g, new[j])
  <2>1. j \in DOMAIN f.ins /\ InstrOf(f, f.ins[j])
    BY DEF FnShape
  <2>2. j \in DOMAIN new /\ new[j] = IF j = i THEN q ELSE f.ins[j]
    BY <2>1 DEF new
  <2>3. CASE j # i
    BY <1>3, <2>1, <2>2, <2>3 DEF InstrOf
  <2>4. CASE j = i
    <3>1. /\ r = [op |-> r.op, args |-> s, from |-> r.from, ty |-> r.ty] /\ IsSequence(s)
          /\ r.op = "phi" => \A c \in DOMAIN s : r.from[c] \in DOMAIN f.blocks
      BY <2>1, <2>4 DEF InstrOf
    <3> HIDE DEF s, r
    <3> DEFINE t == [s EXCEPT ![a] = x]
    <3>2. IsSequence(t) /\ DOMAIN t = DOMAIN s
      <4>1. Len(s) \in Nat /\ DOMAIN s = 1 .. Len(s) /\ s = [k \in DOMAIN s |-> s[k]]
        BY <3>1, SequenceFacts, LenProperties DEF IsSequence
      <4>2. CASE a \in 1 .. Len(s)
        BY <3>1, <4>1, <4>2, FieldChanged
      <4>3. CASE a \notin 1 .. Len(s)
        <5>1. t = s
          BY <4>1, <4>3
        <5> QED
          BY <3>1, <5>1
      <4> QED
        BY <4>2, <4>3
    <3>3. q = [op |-> r.op, args |-> t, from |-> r.from, ty |-> r.ty]
      BY <3>1
    <3> HIDE DEF q, t
    <3>4. q.op = r.op /\ q.args = t /\ q.from = r.from /\ q.ty = r.ty
      BY <3>3
    <3>5. InstrOf(g, q)
      BY <1>3, <3>1, <3>2, <3>3, <3>4 DEF InstrOf
    <3> QED
      BY <2>2, <2>4, <3>5
  <2> QED
    BY <2>3, <2>4
<1>5. Layout(g) = Layout(f)
  BY <1>3 DEF Layout
<1> QED
  BY <1>3, <1>4, <1>5 DEF FnShape, g

\* One more element in a block.
LEMMA InsertFacts ==
  ASSUME NEW s, IsSequence(s), NEW k \in 1 .. Len(s), NEW e
  PROVE  LET t == InsertAt(s, k, e)
         IN  IsSequence(t) /\ t # <<>> /\ ToSet(t) \subseteq ToSet(s) \cup {e}
<1> DEFINE T == ToSet(s) \cup {e}
           a == SubSeq(s, 1, k - 1)
           b == SubSeq(s, k, Len(s))
           t == (a \o <<e>>) \o b
<1>1. Len(s) \in Nat /\ \A j \in 1 .. Len(s) : s[j] \in T
  BY SequenceFacts
<1>2. <<e>> \in Seq(T) /\ Len(<<e>>) = 1
  OBVIOUS
<1> HIDE DEF T
<1>3. a \in Seq(T)
  <2>1. k - 1 \in Int /\ \A j \in 1 .. k - 1 : s[j] \in T
    BY <1>1
  <2> QED
    BY <2>1, SubSeqProperties
<1>4. b \in Seq(T)
  <2>1. k \in Int /\ Len(s) \in Int /\ \A j \in k .. Len(s) : s[j] \in T
    BY <1>1
  <2> QED
    BY <2>1, SubSeqProperties
<1> HIDE DEF a, b
<1>5. a \o <<e>> \in Seq(T) /\ Len(a \o <<e>>) = Len(a) + 1
  BY <1>2, <1>3, ConcatProperties
<1>6. t \in Seq(T) /\ Len(t) = Len(a \o <<e>>) + Len(b)
  <2> DEFINE c == a \o <<e>>
  <2>1. c \in Seq(T)
    BY <1>5
  <2> HIDE DEF c
  <2>2. c \o b \in Seq(T) /\ Len(c \o b) = Len(c) + Len(b)
    BY <1>4, <2>1, ConcatProperties
  <2> QED
    BY <2>2 DEF c
<1>7. Len(a) \in Nat /\ Len(b) \in Nat
  BY <1>3, <1>4, LenProperties
<1>8. InsertAt(s, k, e) = t
  BY DEF InsertAt, a, b
<1> HIDE DEF t
<1>9. Len(t) # 0 /\ Len(<<>>) = 0
  BY <1>5, <1>6, <1>7, EmptySeq
<1>10. IsSequence(t) /\ ToSet(t) \subseteq T
  BY <1>6, SeqIsSequence
<1> QED
  BY <1>8, <1>9, <1>10 DEF T

\* An instruction inserted before another one.
LEMMA InsertBeforeKeeps ==
  ASSUME NEW f, FnShape(f), NEW anchor \in ToSet(Layout(f)), NEW x, NEW r, InstrOf(f, r)
  PROVE  FnShape(InsertBefore(f, anchor, x, r))
<1> DEFINE b == BlockOf(f, anchor)
           s == f.blocks[b]
           k == IndexIn(s, anchor)
           t == InsertAt(s, k, x)
           new == [f.blocks EXCEPT ![b] = t]
           ins == [j \in DOMAIN f.ins \cup {x} |-> IF j = x THEN r ELSE f.ins[j]]
           g == InsertBefore(f, anchor, x, r)
<1>1. /\ f = [blocks |-> f.blocks, ins |-> f.ins, foreign |-> f.foreign]
      /\ IsSequence(f.blocks) /\ \A c \in DOMAIN f.blocks : IsSequence(f.blocks[c]) /\ f.blocks[c] # <<>>
  BY DEF FnShape
<1>2. b \in DOMAIN f.blocks /\ Contains(s, anchor)
  <2>1. PICK c \in DOMAIN f.blocks : anchor \in ToSet(f.blocks[c])
    BY <1>1, LayoutFacts
  <2>2. Contains(f.blocks[c], anchor)
    <3>1. IsSequence(f.blocks[c])
      BY <1>1
    <3> QED
      BY <2>1, <3>1, SequenceFacts DEF Contains
  <2> QED
    BY <2>2 DEF BlockOf
<1>3. k \in 1 .. Len(s)
  <2>1. IsSequence(s)
    BY <1>1, <1>2
  <2> HIDE DEF s
  <2>2. DOMAIN s = 1 .. Len(s)
    BY <2>1, SequenceFacts
  <2> QED
    BY <1>2, <2>2 DEF Contains, IndexIn
<1>4. g = [f EXCEPT !.blocks = new, !.ins = ins]
  BY DEF InsertBefore
<1>5. IsSequence(t) /\ t # <<>> /\ ToSet(t) \subseteq ToSet(s) \cup {x}
  <2>1. IsSequence(s)
    BY <1>1, <1>2
  <2> HIDE DEF s, k
  <2> QED
    BY <1>3, <2>1, InsertFacts
<1>6. DOMAIN ins = DOMAIN f.ins \cup {x} /\ \A j \in DOMAIN ins : ins[j] = IF j = x THEN r ELSE f.ins[j]
  OBVIOUS
<1> HIDE DEF g, ins, t, k, b
<1>7. DOMAIN new = DOMAIN f.blocks /\ \A c \in DOMAIN new : new[c] = IF c = b THEN t ELSE f.blocks[c]
  OBVIOUS
<1>8. IsSequence(new)
  <2>1. b \in 1 .. Len(f.blocks)
    BY <1>1, <1>2, SequenceFacts
  <2> QED
    BY <1>1, <2>1, FieldChanged
<1> HIDE DEF new
<1>9. /\ g = [blocks |-> g.blocks, ins |-> g.ins, foreign |-> g.foreign]
      /\ g.blocks = new /\ g.ins = ins
  BY <1>1, <1>4
<1>10. \A c \in DOMAIN new : IsSequence(new[c]) /\ new[c] # <<>>
  BY <1>1, <1>5, <1>7
<1>11. ToSet(Layout(g)) \subseteq ToSet(Layout(f)) \cup {x}
  <2>1. \A i : i \in ToSet(Layout(f)) <=> \E c \in DOMAIN f.blocks : i \in ToSet(f.blocks[c])
    BY <1>1, LayoutFacts
  <2>2. \A i : i \in ToSet(Layout(g)) <=> \E c \in DOMAIN g.blocks : i \in ToSet(g.blocks[c])
    BY <1>8, <1>9, <1>10, LayoutFacts
  <2> QED
    BY <1>2, <1>5, <1>7, <1>9, <2>1, <2>2
<1>12. ASSUME NEW j \in ToSet(Layout(g)) PROVE j \in DOMAIN ins /\ InstrOf(g, ins[j])
  <2>1. j # x => j \in DOMAIN f.ins /\ InstrOf(f, f.ins[j])
    BY <1>11, <1>12 DEF FnShape
  <2>2. j \in DOMAIN ins /\ (ins[j] = IF j = x THEN r ELSE f.ins[j])
    BY <1>6, <2>1
  <2>3. InstrOf(f, ins[j])
    BY <2>1, <2>2
  <2> QED
    BY <1>7, <1>9, <2>2, <2>3 DEF InstrOf
<1> QED
  BY <1>8, <1>9, <1>10, <1>12 DEF FnShape, g

\* The operands of an instruction, and those of them that are expressions.
Operands(f, i) == [a \in DOMAIN f.ins[i].args |-> <<i, a>>]
Expressions(f, i) == {p \in ToSet(Operands(f, i)) : IsExpr(f.ins[p[1]].args[p[2]])}

\* The operands are pairs of the instruction and a position.
LEMMA OperandFacts ==
  ASSUME NEW f, NEW i, IsSequence(f.ins[i].args)
  PROVE  /\ IsSequence(Operands(f, i))
         /\ \A p \in ToSet(Operands(f, i)) : p[1] = i /\ p[2] \in DOMAIN f.ins[i].args
<1> DEFINE s == f.ins[i].args
           n == Len(s)
           e(a) == <<i, a>>
           S == {e(a) : a \in 1 .. n}
<1>1. n \in Nat /\ DOMAIN s = 1 .. n
  <2> HIDE DEF s
  <2> QED
    BY SequenceFacts
<1>2. Operands(f, i) = [a \in 1 .. n |-> e(a)]
  BY <1>1 DEF Operands
<1>3. \A a \in 1 .. n : e(a) \in S
  OBVIOUS
<1>4. \A p \in S : p[1] = i /\ p[2] \in DOMAIN s
  BY <1>1
<1> HIDE DEF S, e, n, s
<1>5. [a \in 1 .. n |-> e(a)] \in Seq(S)
  BY <1>1, <1>3, IsASeq
<1>6. IsSequence(Operands(f, i)) /\ ToSet(Operands(f, i)) \subseteq S
  BY <1>2, <1>5, SeqIsSequence
<1> QED
  BY <1>4, <1>6 DEF s

\* What UninlineInstruction finds is an expression operand of an instruction in place.
LEMMA FirstExprOperand ==
  ASSUME NEW f, FnShape(f), ExprOperands(f) # <<>>, NEW p, p = Head(ExprOperands(f))
  PROVE  /\ p[1] \in ToSet(Layout(f)) /\ p[2] \in DOMAIN f.ins[p[1]].args
         /\ IsExpr(f.ins[p[1]].args[p[2]])
<1> DEFINE L == Layout(f)
           part(i) == FlattenSeq(Picks(Operands(f, i), Expressions(f, i)))
           ss == [k \in DOMAIN L |-> part(L[k])]
           list == FlattenSeq(ss)
<1>1. ExprOperands(f) = list
  <2> DEFINE test(i, q) == IF IsExpr(f.ins[q[1]].args[q[2]]) THEN <<q>> ELSE <<>>
             sel(i) == [k \in DOMAIN Operands(f, i) |-> test(i, Operands(f, i)[k])]
             old == [k \in DOMAIN L |-> FlattenSeq(sel(L[k]))]
  <2>1. ExprOperands(f) = FlattenSeq(old)
    BY DEF ExprOperands, Select, Operands
  <2>2. ASSUME NEW i PROVE sel(i) = Picks(Operands(f, i), Expressions(f, i))
    BY DEF Picks, Expressions, ToSet
  <2> HIDE DEF sel, L
  <2>3. old = ss
    BY <2>2
  <2> HIDE DEF old, ss
  <2> QED
    BY <2>1, <2>3
<1>2. IsSequence(L)
  BY LayoutFacts DEF FnShape
<1>3. Len(L) \in Nat /\ DOMAIN L = 1 .. Len(L) /\ \A k \in 1 .. Len(L) : L[k] \in ToSet(L)
  <2> HIDE DEF L
  <2> QED
    BY <1>2, SequenceFacts
<1>4. ASSUME NEW i \in ToSet(L)
      PROVE  /\ IsSequence(part(i))
             /\ \A q \in ToSet(part(i)) : q[1] = i /\ q[2] \in DOMAIN f.ins[i].args /\ IsExpr(f.ins[q[1]].args[q[2]])
  <2>1. IsSequence(f.ins[i].args)
    BY DEF FnShape, InstrOf
  <2>2. /\ IsSequence(Operands(f, i))
        /\ \A q \in ToSet(Operands(f, i)) : q[1] = i /\ q[2] \in DOMAIN f.ins[i].args
    BY <2>1, OperandFacts
  <2>3. IsSequence(part(i)) /\ ToSet(part(i)) = ToSet(Operands(f, i)) \intersect Expressions(f, i)
    BY <2>2, PicksFacts
  <2> HIDE DEF part
  <2> QED
    BY <2>2, <2>3 DEF Expressions
<1> HIDE DEF part
<1>5. IsSequence(ss) /\ \A k \in DOMAIN ss : IsSequence(ss[k])
  <2> DEFINE S == {part(L[k]) : k \in 1 .. Len(L)}
  <2>1. \A k \in 1 .. Len(L) : part(L[k]) \in S
    OBVIOUS
  <2>2. DOMAIN ss = DOMAIN L /\ \A k \in DOMAIN L : ss[k] = part(L[k])
    OBVIOUS
  <2>3. ss = [k \in 1 .. Len(L) |-> part(L[k])]
    BY <1>3
  <2> HIDE DEF S, ss, L
  <2>4. [k \in 1 .. Len(L) |-> part(L[k])] \in Seq(S)
    BY <1>3, <2>1, IsASeq
  <2>5. IsSequence(ss)
    BY <2>3, <2>4, SeqIsSequence
  <2> QED
    BY <1>3, <1>4, <2>2, <2>5
<1>6. IsSequence(list) /\ ToSet(list) = Elements(ss)
  <2> HIDE DEF ss
  <2> QED
    BY <1>5, FlattenFacts
<1>7. p \in ToSet(list)
  <2> HIDE DEF list
  <2>1. Len(list) \in Nat /\ Len(list) # 0 /\ \A k \in 1 .. Len(list) : list[k] \in ToSet(list)
    BY <1>1, <1>6, SequenceFacts, EmptySeq DEF IsSequence
  <2>2. Head(list) = list[1] /\ 1 \in 1 .. Len(list)
    BY <1>6, <2>1 DEF IsSequence
  <2> QED
    BY <1>1, <2>1, <2>2
<1>8. PICK k \in DOMAIN L : p \in ToSet(part(L[k]))
  <2>1. DOMAIN ss = DOMAIN L /\ \A k \in DOMAIN L : ss[k] = part(L[k])
    OBVIOUS
  <2> HIDE DEF ss, list
  <2> QED
    BY <1>6, <1>7, <2>1 DEF Elements
<1>9. L[k] \in ToSet(L)
  BY <1>3, <1>8
<1> HIDE DEF L
<1>10. p[1] = L[k] /\ p[2] \in DOMAIN f.ins[L[k]].args /\ IsExpr(f.ins[p[1]].args[p[2]])
  BY <1>4, <1>8, <1>9
<1> QED
  BY <1>9, <1>10 DEF L

\* The new instruction has a place: its user, or the last instruction of the
\* block a phi node takes the value from.
LEMMA PlaceFacts ==
  ASSUME NEW f, FnShape(f), NEW i \in ToSet(Layout(f)), NEW a \in DOMAIN f.ins[i].args
  PROVE  Place(f, i, a) \in ToSet(Layout(f))
<1>1. CASE Op(f, i) = "phi"
  <2> DEFINE b == f.ins[i].from[a]
  <2>1. b \in DOMAIN f.blocks
    BY <1>1 DEF FnShape, InstrOf, Op
  <2>2. IsSequence(f.blocks[b]) /\ f.blocks[b] # <<>>
    BY <2>1 DEF FnShape
  <2>3. Last(f.blocks[b]) \in ToSet(f.blocks[b])
    BY <2>2, FrontLast
  <2>4. Place(f, i, a) = Last(f.blocks[b])
    BY <1>1 DEF Place
  <2>5. \A j : j \in ToSet(Layout(f)) <=> \E c \in DOMAIN f.blocks : j \in ToSet(f.blocks[c])
    BY LayoutFacts DEF FnShape
  <2> HIDE DEF b
  <2> QED
    BY <2>1, <2>3, <2>4, <2>5
<1>2. CASE Op(f, i) # "phi"
  BY <1>2 DEF Place
<1> QED
  BY <1>1, <1>2

\* Uninlining one expression operand, whatever the expression.
LEMMA UninlineKeeps ==
  ASSUME NEW f, FnShape(f), NEW i \in ToSet(Layout(f)), NEW a \in DOMAIN f.ins[i].args,
         InstrOf(f, origin.expr[f.ins[i].args[a]])
  PROVE  FnShape(uninlineConstantExpr(f, i, a))
<1> DEFINE x == FreshName(f)
           r == origin.expr[f.ins[i].args[a]]
           p == Place(f, i, a)
           g == InsertBefore(f, p, x, r)
<1>1. uninlineConstantExpr(f, i, a) = [g EXCEPT !.ins[i].args[a] = x]
  BY DEF uninlineConstantExpr
<1>2. p \in ToSet(Layout(f))
  BY PlaceFacts
<1> HIDE DEF x, p
<1>3. FnShape(g)
  <2> HIDE DEF r
  <2> QED
    BY <1>2, InsertBeforeKeeps DEF r
<1> HIDE DEF g
<1> DEFINE h == [g EXCEPT !.ins[i].args[a] = x]
<1>4. FnShape(h)
  BY ONLY <1>3, OperandSet
<1> QED
  BY <1>1, <1>4

\* ElimIdenticalInstrs is only queued by the tool that runs a single pass.
LEMMA QueuedAlone == "ElimIdenticalInstrs" \in ToSet(Queued) => Len(Queued) = 1
<1> DEFINE ei == "ElimIdenticalInstrs"
           A == FlattenSeq([k \in DOMAIN ModulePassNames |-> addModulePass(ModulePassNames[k])])
           B == FlattenSeq([k \in DOMAIN FunctionPassNames |-> addFunctionPass(FunctionPassNames[k])])
           M == ModulePassSet \cup Wrapping
           F == ToSet(FunctionPassNames) \cup Wrapping
<1>1. ei \notin M /\ ei \notin F /\ ei \notin {"PrintIR"} \cup Wrapping /\ ei \notin {"verify"} \cup Wrapping
  BY PassSets DEF Wrapping
<1>2. A \in Seq(M) /\ B \in Seq(F)
  BY ModulePassesQueued, FunctionPassesQueued
<1>3. addModulePass("PrintIR") \in Seq({"PrintIR"} \cup Wrapping) /\ Added("verify") \in Seq({"verify"} \cup Wrapping)
  <2>1. {} \intersect Wrapping = {}
    OBVIOUS
  <2> QED
    BY <2>1, ModulePassQueued, AddedFacts
<1>4. Queued \in {<<opts.only>>, addModulePass("PrintIR"), Added("verify"), A \o B}
  BY DEF Queued
<1> HIDE DEF A, B, M, F, ei
<1>5. ei \notin ToSet(A \o B)
  <2>1. A \in Seq(M \cup F) /\ B \in Seq(M \cup F)
    BY <1>2, SeqMonotonic
  <2>2. A \o B \in Seq(M \cup F)
    BY <2>1, ConcatProperties
  <2> DEFINE s == A \o B
  <2>3. s \in Seq(M \cup F)
    BY <2>2
  <2> HIDE DEF s
  <2>4. ToSet(s) \subseteq M \cup F
    BY <2>3, SeqIsSequence
  <2>5. ei \notin ToSet(s)
    BY <1>1, <2>4
  <2> QED
    BY <2>5 DEF s
<1>6. ei \notin ToSet(addModulePass("PrintIR")) /\ ei \notin ToSet(Added("verify"))
  BY <1>1, <1>3, SeqIsSequence
<1>7. Len(<<opts.only>>) = 1
  OBVIOUS
<1> QED
  BY <1>4, <1>5, <1>6, <1>7 DEF ei

(***************************************************************************)
(* A crash has its reason, and a function is fit for the passes that look  *)
(* into it, unless ElimIdenticalInstrs runs or has run: it runs alone, so  *)
(* that nothing is left to run by then.                                    *)
(***************************************************************************)
ElimIdenticalAlone ==
  /\ "ElimIdenticalInstrs" \in ToSet(queue) => Len(queue) = 1
  /\ fpass = "ElimIdenticalInstrs" => queue = <<>> /\ status # "start"

FitForPasses ==
  FnShape(fn) \/ (queue = <<>> /\ status # "start" /\ fpass \in {"idle", "ElimIdenticalInstrs"})

CrashInv == CrashExplained /\ ElimIdenticalAlone /\ FitForPasses

\* A function as read is fit for the passes,
LEMMA CrashInit == Init => CrashInv
<1> SUFFICES ASSUME Init PROVE CrashInv
  OBVIOUS
<1>1. /\ queue = <<>> /\ fpass = "idle"
      /\ \E p \in Inputs : fn = p.origin.fn
  BY DEF Init
<1>2. FnShape(fn)
  BY <1>1, InputAssumption, ReadShape
<1>3. ToSet(<<>>) = {}
  BY DEF ToSet
<1> QED
  BY <1>1, <1>2, <1>3 DEF CrashInv, CrashExplained, ElimIdenticalAlone, FitForPasses

\* ElimAllocaStoreArg crashes for the reason stated, or leaves a function fit.
LEMMA ElimAllocaStep ==
  ASSUME OrderInv, ElimAllocaStoreArg
  PROVE  /\ fpass' = "crash" => CrashExplained'
         /\ fpass' \in {"crash", "idle"} /\ FnShape(fn')
<1> DEFINE list == findAllocaStoreArg(fn)
<1>1. fn = origin.fn /\ UNCHANGED origin
  BY DEF OrderInv, FunctionFresh, ElimAllocaStoreArg
<1>2. IsFunction(fn)
  BY <1>1, InputAssumption DEF OrderInv, InputKept
<1>3. \/ /\ \E k \in DOMAIN list : list[k].store = NoInstr
         /\ fpass' = "crash" /\ fn' = fn
      \/ /\ \A k \in DOMAIN list : list[k].store # NoInstr
         /\ fn' = removeAllocaStoreArg(fn, list) /\ fpass' = "idle"
  BY DEF ElimAllocaStoreArg
<1>4. CASE fpass' = "crash"
  <2>1. PICK k \in DOMAIN list : list[k].store = NoInstr
    BY <1>3, <1>4
  <2>2. \E u, i \in ToSet(Layout(fn)) :
          Op(fn, u) = "alloca" /\ Op(fn, i) = "load" /\ i = Last(Users(fn, u))
    BY <1>2, <2>1, StorelessCandidate
  <2>3. fn' = fn
    BY <1>3, <1>4
  <2>4. CrashExplained'
    <3>1. \E u, i \in ToSet(Layout(origin.fn)) :
            Op(origin.fn, u) = "alloca" /\ Op(origin.fn, i) = "load" /\ i = Last(Users(origin.fn, u))
      BY <1>1, <2>2
    <3> QED
      BY <1>1, <3>1 DEF CrashExplained
  <2> QED
    BY <1>2, <1>4, <2>3, <2>4, ReadShape
<1>5. CASE fpass' # "crash"
  <2> HIDE DEF list
  <2>1. fpass' = "idle" /\ fn' = removeAllocaStoreArg(fn, list) /\ \A k \in DOMAIN list : list[k].store # NoInstr
    BY <1>3, <1>5
  <2>2. FnShape(removeAllocaStoreArg(fn, list))
    BY <1>2, <2>1, CandidatesRemoved DEF list
  <2> QED
    BY <2>1, <2>2
<1> QED
  BY <1>4, <1>5

\* UninlineInstruction never crashes and leaves a function fit.
LEMMA UninlineStep ==
  ASSUME OrderInv, FnShape(fn), UninlineInstruction
  PROVE  fpass' \in {"idle", "UninlineInstruction"} /\ FnShape(fn')
<1>1. CASE ExprOperands(fn) = <<>>
  BY <1>1 DEF UninlineInstruction
<1>2. CASE ExprOperands(fn) # <<>>
  <2> DEFINE p == Head(ExprOperands(fn))
             e == fn.ins[p[1]].args[p[2]]
  <2>1. fn' = uninlineConstantExpr(fn, p[1], p[2]) /\ fpass' = "UninlineInstruction"
    BY <1>2 DEF UninlineInstruction
  <2>2. p[1] \in ToSet(Layout(fn)) /\ p[2] \in DOMAIN fn.ins[p[1]].args /\ IsExpr(e)
    BY <1>2, FirstExprOperand
  <2>3. InstrOf(origin.fn, origin.expr[e]) /\ origin.expr[e].op # "phi"
    BY <2>2, InputAssumption DEF OrderInv, InputKept, IsExpr
  <2>4. InstrOf(fn, origin.expr[e])
    BY <2>3 DEF InstrOf
  <2> HIDE DEF p
  <2>5. FnShape(uninlineConstantExpr(fn, p[1], p[2]))
    BY <2>2, <2>4, UninlineKeeps
  <2> QED
    BY <2>1, <2>5
<1> QED
  BY <1>1, <1>2

\* With no chain nothing is combined.
LEMMA NoneCombined ==
  ASSUME NEW f
  PROVE  combineGEPInstructions(f, <<>>) = f
<1> DEFINE S == DOMAIN <<>>
           step(g, l) ==
             LET idxs == FlattenSeq([k \in DOMAIN l |->
                           SubSeq(g.ins[l[k]].args, IF k = 1 THEN 2 ELSE 3, Len(g.ins[l[k]].args))])
                 x == FreshName(g)
                 h == InsertBefore(g, Last(l), x,
                        [g.ins[Head(l)] EXCEPT !.args = <<g.ins[Head(l)].args[1]>> \o idxs])
             IN  Erase(replaceOperand(h, Last(l) :> x), ToSet(l))
           Is(h) == h = [s \in SUBSET S |->
                          IF s = {} THEN f ELSE step(h[s \ {Max(s)}], <<>>[Max(s)])]
           iter == CHOOSE h : Is(h)
<1>1. combineGEPInstructions(f, <<>>) = iter[S]
  BY DEF combineGEPInstructions, FoldLeft, MapThenFoldSet
<1>2. S = {}
  OBVIOUS
<1> HIDE DEF step, S
<1>3. Is(iter)
  <2> DEFINE h == [s \in SUBSET S |-> f]
  <2>1. ASSUME NEW s \in SUBSET S
        PROVE  h[s] = IF s = {} THEN f ELSE step(h[s \ {Max(s)}], <<>>[Max(s)])
    BY <1>2
  <2>2. Is(h)
    BY <2>1
  <2> HIDE DEF h
  <2> QED
    BY <2>2
<1> HIDE DEF iter
<1>4. iter[{}] = f
  BY <1>3
<1> QED
  BY <1>1, <1>2, <1>4

\* Nothing is combined, so CombineGEP neither crashes nor changes anything.
LEMMA CombineStep ==
  ASSUME FnShape(fn), CombineGEP
  PROVE  fpass' = "idle" /\ fn' = fn
<1>1. IsSequence(Layout(fn))
  BY LayoutFacts DEF FnShape
<1>2. findCombinableGEPList(fn) = <<>>
  BY <1>1, NothingCombined
<1>3. DOMAIN <<>> = {}
  OBVIOUS
<1>4. combineGEPInstructions(fn, <<>>) = fn
  BY NoneCombined
<1> QED
  BY <1>2, <1>3, <1>4 DEF CombineGEP

\* and every step keeps it so, or has the reason stated.
LEMMA CrashStep == OrderInv /\ CrashInv /\ [Next]_vars => CrashInv'
<1> SUFFICES ASSUME OrderInv, CrashInv, [Next]_vars PROVE CrashInv'
  OBVIOUS
<1> USE DEF CrashInv
<1>1. CASE ReadInput
  <2>1. UNCHANGED <<origin, fn, fpass>> /\ status = "start" /\ status' # "start"
    BY <1>1 DEF ReadInput, fvars
  <2>2. FnShape(fn) /\ fpass # "ElimIdenticalInstrs"
    BY <2>1 DEF FitForPasses, ElimIdenticalAlone
  <2>3. queue' = Queued \/ queue' = queue
    BY <1>1 DEF ReadInput
  <2>4. "ElimIdenticalInstrs" \in ToSet(queue') => Len(queue') = 1
    BY <2>3, QueuedAlone DEF ElimIdenticalAlone
  <2> QED
    BY <2>1, <2>2, <2>4 DEF CrashExplained, ElimIdenticalAlone, FitForPasses
<1>2. CASE StartPass
  <2>1. /\ queue # <<>> /\ queue' = Tail(queue) /\ fpass = "idle" /\ UNCHANGED <<origin, fn, status>>
        /\ status = "run" /\ (fpass' = fpass \/ (fpass' = Head(queue) /\ Head(queue) \in FunctionPassSet))
    BY <1>2, PassSets DEF StartPass, Ready, ModulePassSet
  <2>2. FnShape(fn)
    BY <2>1 DEF FitForPasses
  <2>3. IsSequence(queue)
    BY DEF OrderInv, QueueInv
  <2>4. Head(queue) \in ToSet(queue) /\ ToSet(queue') \subseteq ToSet(queue)
    BY <2>1, FirstTail DEF OrderInv, QueueInv
  <2>5. ASSUME "ElimIdenticalInstrs" \in ToSet(queue) PROVE queue' = <<>>
    <3>1. Len(queue) = 1
      BY <2>5 DEF ElimIdenticalAlone
    <3> QED
      BY <2>1, <2>3, <3>1 DEF IsSequence
  <2>6. ToSet(<<>>) = {}
    BY DEF ToSet
  <2>7. ElimIdenticalAlone'
    BY <2>1, <2>4, <2>5, <2>6 DEF ElimIdenticalAlone
  <2>8. fpass' # "crash"
    BY <2>1, PassSets
  <2> QED
    BY <2>1, <2>2, <2>7, <2>8 DEF CrashExplained, FitForPasses
<1>3. CASE CheckOrPrint
  <2>1. /\ queue # <<>> /\ queue' = Tail(queue) /\ fpass = "idle" /\ UNCHANGED <<origin, fn, fpass>>
        /\ Head(queue) # "ElimIdenticalInstrs"
    BY <1>3 DEF CheckOrPrint, Ready, fvars, AllPasses
  <2>2. FnShape(fn)
    BY <2>1 DEF FitForPasses
  <2>3. IsSequence(queue) /\ Head(queue) \in ToSet(queue) /\ ToSet(queue') \subseteq ToSet(queue)
    BY <2>1, FirstTail DEF OrderInv, QueueInv
  <2>4. "ElimIdenticalInstrs" \notin ToSet(queue')
    <3>1. ASSUME "ElimIdenticalInstrs" \in ToSet(queue) PROVE queue' = <<>>
      <4>1. Len(queue) = 1
        BY <3>1 DEF ElimIdenticalAlone
      <4> QED
        BY <2>1, <2>3, <4>1 DEF IsSequence
    <3>2. ToSet(<<>>) = {}
      BY DEF ToSet
    <3> QED
      BY <2>3, <3>1, <3>2
  <2> QED
    BY <2>1, <2>2, <2>4 DEF CrashExplained, ElimIdenticalAlone, FitForPasses
<1>4. CASE RunFunctionPass
  <2>1. status = "run" /\ UNCHANGED <<queue, status>> /\ FunctionStep
    BY <1>4 DEF RunFunctionPass
  <2>2. CASE ElimAllocaStoreArg
    BY <2>1, <2>2, ElimAllocaStep DEF CrashExplained, ElimIdenticalAlone, FitForPasses
  <2>3. CASE UninlineInstruction
    <3>1. FnShape(fn)
      BY <2>3 DEF UninlineInstruction, FitForPasses
    <3> QED
      BY <2>1, <2>3, <3>1, UninlineStep DEF CrashExplained, ElimIdenticalAlone, FitForPasses
  <2>4. CASE CombineGEP
    <3>1. FnShape(fn)
      BY <2>4 DEF CombineGEP, FitForPasses
    <3> QED
      BY <2>1, <2>4, <3>1, CombineStep DEF CrashExplained, ElimIdenticalAlone, FitForPasses
  <2>5. CASE ElimIdenticalInstrs
    <3>1. fpass = "ElimIdenticalInstrs" /\ fpass' \in {"ElimIdenticalInstrs", "idle"}
      BY <2>5 DEF ElimIdenticalInstrs
    <3>2. queue = <<>>
      BY <3>1 DEF ElimIdenticalAlone
    <3> QED
      BY <2>1, <3>1, <3>2 DEF CrashExplained, ElimIdenticalAlone, FitForPasses
  <2> QED
    BY <2>1, <2>2, <2>3, <2>4, <2>5 DEF FunctionStep
<1>5. CASE RunModulePass \/ Crash \/ WriteOutput \/ UNCHANGED vars
  <2>1. UNCHANGED <<fvars, queue>> /\ (status' = status \/ status' # "start")
    BY <1>5 DEF RunModulePass, Crash, WriteOutput, vars
  <2> QED
    BY <2>1 DEF fvars, CrashExplained, ElimIdenticalAlone, FitForPasses
<1> QED
  BY <1>1, <1>2, <1>3, <1>4, <1>5 DEF Next, Stop

(***************************************************************************)
(* Whatever the function, the expressions and the command line, a function *)
(* pass crashes only on a slot of an argument whose last use listed is a   *)
(* load, that is, one read in layout order before it is written.           *)
(***************************************************************************)
THEOREM CrashExplainedCorrect == Spec => []CrashExplained
<1>1. Init => OrderInv /\ CrashInv
  BY OrderInit, CrashInit
<1>2. OrderInv /\ CrashInv /\ [Next]_vars => (OrderInv /\ CrashInv)'
  BY OrderStep, CrashStep
<1>3. OrderInv /\ CrashInv => CrashExplained
  BY DEF CrashInv
<1> QED
  BY <1>1, <1>2, <1>3, PTL DEF Spec
==============================================================================
