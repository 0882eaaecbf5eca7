---------------------------- MODULE SequenceFacts ----------------------------
(***************************************************************************)
(* What head, tail, append and concatenation do to what a sequence holds,  *)
(* to what it holds once, and to how often it holds it: the steps of every *)
(* queue in this project.                                                  *)
(***************************************************************************)
EXTENDS Lists, SequenceTheorems, FiniteSetTheorems, TLAPS

\* x is nowhere twice in s.
Unique(s, x) == \A i, k \in DOMAIN s : s[i] = x /\ s[k] = x => i = k

Count(s, x) == Cardinality({i \in DOMAIN s : s[i] = x})

-----------------------------------------------------------------------------
(* What it holds.                                                          *)

\* What a sequence holds, and what is left of it without its head.
LEMMA HeadAndRest ==
  ASSUME NEW S, NEW q \in Seq(S), q # <<>>
  PROVE  /\ Head(q) \in Range(q) /\ Head(q) \in S
         /\ Tail(q) \in Seq(S)
         /\ Range(q) = {Head(q)} \cup Range(Tail(q))
<1>1. /\ Len(q) \in Nat \ {0} /\ DOMAIN q = 1 .. Len(q)
      /\ Head(q) = q[1] /\ Tail(q) \in Seq(S) /\ Len(Tail(q)) = Len(q) - 1
      /\ \A i \in 1 .. Len(Tail(q)) : Tail(q)[i] = q[i + 1]
  BY EmptySeq, LenProperties, HeadTailProperties
<1>2. DOMAIN Tail(q) = 1 .. Len(q) - 1
  BY <1>1, LenProperties
<1>3. Head(q) \in S
  BY <1>1, ElementOfSeq
<1>4. ASSUME NEW x \in Range(q), x # Head(q) PROVE x \in Range(Tail(q))
  <2>1. PICK i \in 1 .. Len(q) : q[i] = x
    BY <1>1 DEF Range
  <2>2. i - 1 \in 1 .. Len(q) - 1 /\ Tail(q)[i - 1] = x
    BY <1>1, <1>4, <2>1
  <2> QED
    BY <1>2, <2>2 DEF Range
<1>5. Range(Tail(q)) \subseteq Range(q)
  BY <1>1, <1>2 DEF Range
<1> QED
  BY <1>1, <1>3, <1>4, <1>5 DEF Range

\* A sequence holds elements of its set.
LEMMA RangeInSet ==
  ASSUME NEW S, NEW s \in Seq(S)
  PROVE  Range(s) \subseteq S
  BY ElementOfSeq, LenProperties DEF Range

\* Joining two sequences joins what they hold.
LEMMA RangeOfConcat ==
  ASSUME NEW S, NEW s \in Seq(S), NEW t \in Seq(S)
  PROVE  s \o t \in Seq(S) /\ Range(s \o t) = Range(s) \cup Range(t)
  BY ConcatProperties, RangeConcatenation

\* Appending adds one thing.
LEMMA RangeOfAppend ==
  ASSUME NEW S, NEW s \in Seq(S), NEW x \in S
  PROVE  Append(s, x) \in Seq(S) /\ Range(Append(s, x)) = Range(s) \cup {x}
<1>1. /\ Append(s, x) \in Seq(S)
      /\ DOMAIN Append(s, x) = 1 .. Len(s) + 1
      /\ Append(s, x)[Len(s) + 1] = x
      /\ \A i \in 1 .. Len(s) : Append(s, x)[i] = s[i]
      /\ Len(s) \in Nat /\ DOMAIN s = 1 .. Len(s)
  BY AppendProperties, LenProperties
<1> QED
  BY <1>1 DEF Range

\* What a sequence holds determines what it is a sequence of.
LEMMA AllIn ==
  ASSUME NEW S, NEW s \in Seq(S), NEW T, \A i \in DOMAIN s : s[i] \in T
  PROVE  s \in Seq(T)
<1>1. Len(s) \in Nat /\ s \in [1 .. Len(s) -> S] /\ DOMAIN s = 1 .. Len(s)
  BY LenProperties
<1>2. s \in [1 .. Len(s) -> T]
  BY <1>1
<1>3. s \in UNION {[1 .. n -> T] : n \in Nat}
  BY <1>1, <1>2, Zenon
<1>4. UNION {[1 .. n -> T] : n \in Nat} = Seq(T)
  BY SeqDef, Zenon
<1> QED
  BY <1>3, <1>4, Zenon

LEMMA OneSeq == \A S : \A x \in S : <<x>> \in Seq(S)
  OBVIOUS

\* A sequence of one thing.
LEMMA OneElement ==
  ASSUME NEW S, NEW s \in Seq(S), Len(s) = 1
  PROVE  s = <<s[1]>>
<1>1. s[1] \in S
  BY ElementOfSeq, SMTT(30)
<1>2. <<s[1]>> \in Seq(S) /\ Len(<<s[1]>>) = 1 /\ <<s[1]>>[1] = s[1]
  BY <1>1
<1> QED
  BY <1>2, SeqEqual

\* A sequence that has one more thing than another.
LEMMA IsAppend ==
  ASSUME NEW S, NEW s \in Seq(S), NEW t \in Seq(S), NEW x \in S,
         Len(t) = Len(s) + 1, t[Len(s) + 1] = x, \A i \in 1 .. Len(s) : t[i] = s[i]
  PROVE  Append(s, x) = t
<1>1. /\ Append(s, x) \in Seq(S) /\ Len(Append(s, x)) = Len(s) + 1
      /\ \A i \in 1 .. Len(s) : Append(s, x)[i] = s[i]
      /\ Append(s, x)[Len(s) + 1] = x /\ Len(s) \in Nat
  BY AppendProperties, LenProperties
<1>2. \A i \in 1 .. Len(s) + 1 : Append(s, x)[i] = t[i]
  BY <1>1
<1> QED
  BY <1>1, <1>2, SeqEqual

-----------------------------------------------------------------------------
(* What it holds once.                                                     *)

\* What is once in a sequence is once in its tail, unless it was the head.
LEMMA UniqueTail ==
  ASSUME NEW S, NEW q \in Seq(S), q # <<>>, NEW x, Unique(q, x)
  PROVE  /\ Unique(Tail(q), x)
         /\ x = Head(q) => x \notin Range(Tail(q))
<1>1. /\ Len(q) \in Nat \ {0} /\ DOMAIN q = 1 .. Len(q)
      /\ Head(q) = q[1] /\ Tail(q) \in Seq(S) /\ Len(Tail(q)) = Len(q) - 1
      /\ \A i \in 1 .. Len(Tail(q)) : Tail(q)[i] = q[i + 1]
  BY EmptySeq, LenProperties, HeadTailProperties
<1>2. DOMAIN Tail(q) = 1 .. Len(q) - 1
  BY <1>1, LenProperties
<1>3. \A i \in DOMAIN Tail(q) : Tail(q)[i] = q[i + 1] /\ i + 1 \in DOMAIN q /\ i + 1 # 1
  BY <1>1, <1>2
<1>4. ASSUME NEW i \in DOMAIN Tail(q), NEW k \in DOMAIN Tail(q), Tail(q)[i] = x, Tail(q)[k] = x
      PROVE  i = k
  <2>1. i + 1 = k + 1
    BY <1>3, <1>4 DEF Unique
  <2> QED
    BY <1>1, <1>2, <2>1
<1>5. ASSUME x = Head(q), NEW i \in DOMAIN Tail(q), Tail(q)[i] = x PROVE FALSE
  BY <1>1, <1>3, <1>5 DEF Unique
<1> QED
  BY <1>4, <1>5 DEF Unique, Range

\* What is not there yet can be appended.
LEMMA UniqueAppend ==
  ASSUME NEW S, NEW s \in Seq(S), NEW y \in S, NEW x, Unique(s, x), x = y => x \notin Range(s)
  PROVE  Unique(Append(s, y), x)
<1>1. /\ DOMAIN Append(s, y) = 1 .. Len(s) + 1
      /\ Append(s, y)[Len(s) + 1] = y
      /\ \A i \in 1 .. Len(s) : Append(s, y)[i] = s[i]
      /\ Len(s) \in Nat /\ DOMAIN s = 1 .. Len(s)
  BY AppendProperties, LenProperties
<1> QED
  BY <1>1 DEF Unique, Range

\* What is in one of two sequences only is in both together once.
LEMMA UniqueConcat ==
  ASSUME NEW S, NEW s \in Seq(S), NEW t \in Seq(S), NEW x, Unique(s, x), Unique(t, x),
         x \notin Range(s) \/ x \notin Range(t)
  PROVE  Unique(s \o t, x)
<1>1. /\ Len(s) \in Nat /\ Len(t) \in Nat /\ DOMAIN s = 1 .. Len(s) /\ DOMAIN t = 1 .. Len(t)
      /\ DOMAIN (s \o t) = 1 .. Len(s) + Len(t)
  BY LenProperties, ConcatProperties
<1>2. \A i \in 1 .. Len(s) + Len(t) :
         \/ i \in DOMAIN s /\ (s \o t)[i] = s[i]
         \/ i - Len(s) \in DOMAIN t /\ (s \o t)[i] = t[i - Len(s)]
  BY <1>1, ConcatProperties
<1> SUFFICES ASSUME NEW i \in 1 .. Len(s) + Len(t), NEW k \in 1 .. Len(s) + Len(t),
                    (s \o t)[i] = x, (s \o t)[k] = x
             PROVE  i = k
  BY <1>1 DEF Unique
<1>3. CASE x \notin Range(s)
  <2>1. i - Len(s) \in DOMAIN t /\ t[i - Len(s)] = x /\ k - Len(s) \in DOMAIN t
           /\ t[k - Len(s)] = x
    BY <1>2, <1>3 DEF Range
  <2>2. i - Len(s) = k - Len(s)
    BY <2>1 DEF Unique
  <2> QED
    BY <1>1, <2>2
<1>4. CASE x \notin Range(t)
  BY <1>2, <1>4 DEF Range, Unique
<1> QED
  BY <1>3, <1>4

-----------------------------------------------------------------------------
(* How often it holds it.                                                  *)

\* The places of a thing in a sequence are finitely many.
LEMMA CountType ==
  ASSUME NEW S, NEW s \in Seq(S), NEW x
  PROVE  IsFiniteSet({i \in DOMAIN s : s[i] = x}) /\ Count(s, x) \in Nat
<1>1. Len(s) \in Nat /\ DOMAIN s = 1 .. Len(s)
  BY LenProperties
<1>2. IsFiniteSet(DOMAIN s)
  BY <1>1, FS_Interval
<1>3. {i \in DOMAIN s : s[i] = x} \in SUBSET DOMAIN s
  OBVIOUS
<1>4. IsFiniteSet({i \in DOMAIN s : s[i] = x})
  BY <1>2, <1>3, FS_Subset
<1> QED
  BY <1>4, FS_CardinalityType DEF Count

\* Nothing is in the empty sequence.
LEMMA CountEmpty ==
  ASSUME NEW x
  PROVE  Count(<<>>, x) = 0
<1>1. {i \in DOMAIN <<>> : <<>>[i] = x} = {}
  BY EmptySeq
<1> QED
  BY <1>1, FS_EmptySet DEF Count

\* The head is counted once.
LEMMA CountTail ==
  ASSUME NEW S, NEW q \in Seq(S), q # <<>>, NEW x
  PROVE  Count(Tail(q), x) + (IF Head(q) = x THEN 1 ELSE 0) <= Count(q, x)
<1>1. /\ Len(q) \in Nat \ {0} /\ DOMAIN q = 1 .. Len(q)
      /\ Head(q) = q[1] /\ Tail(q) \in Seq(S) /\ Len(Tail(q)) = Len(q) - 1
      /\ \A i \in 1 .. Len(Tail(q)) : Tail(q)[i] = q[i + 1]
  BY EmptySeq, LenProperties, HeadTailProperties
<1>2. DOMAIN Tail(q) = 1 .. Len(q) - 1
  BY <1>1, LenProperties
<1> DEFINE A == {i \in DOMAIN Tail(q) : Tail(q)[i] = x}
           B == {i \in DOMAIN q : q[i] = x}
           f == [i \in A |-> i + 1]
<1>3. IsFiniteSet(B) /\ Count(q, x) = Cardinality(B) /\ Count(q, x) \in Nat
      /\ Count(Tail(q), x) = Cardinality(A)
  BY <1>1, CountType DEF Count
<1>4. f \in Injection(A, B \ {1})
  <2>1. ASSUME NEW i \in A PROVE f[i] = i + 1 /\ i + 1 \in B \ {1} /\ i \in Int
    BY <1>1, <1>2
  <2>2. f \in [A -> B \ {1}]
    BY <2>1
  <2>3. \A i, k \in A : f[i] = f[k] => i = k
    BY <2>1
  <2> QED
    BY <2>2, <2>3 DEF Injection, IsInjective
<1>5. 1 \in B <=> Head(q) = x
  BY <1>1
<1> HIDE DEF A, B, f
<1>6. /\ IsFiniteSet(B \ {1})
      /\ Cardinality(B \ {1}) = IF 1 \in B THEN Cardinality(B) - 1 ELSE Cardinality(B)
  BY <1>3, FS_RemoveElement
<1>7. Cardinality(A) <= Cardinality(B \ {1}) /\ Cardinality(A) \in Nat
  BY <1>4, <1>6, FS_Injection, FS_CardinalityType
<1> QED
  BY <1>3, <1>5, <1>6, <1>7

\* Appending adds one to the count of one thing.
LEMMA CountAppend ==
  ASSUME NEW S, NEW s \in Seq(S), NEW y \in S, NEW x
  PROVE  Count(Append(s, y), x) = Count(s, x) + (IF y = x THEN 1 ELSE 0)
<1>1. /\ DOMAIN Append(s, y) = 1 .. Len(s) + 1
      /\ Append(s, y)[Len(s) + 1] = y
      /\ \A i \in 1 .. Len(s) : Append(s, y)[i] = s[i]
      /\ Len(s) \in Nat /\ DOMAIN s = 1 .. Len(s)
  BY AppendProperties, LenProperties
<1> DEFINE A == {i \in DOMAIN s : s[i] = x}
           B == {i \in DOMAIN Append(s, y) : Append(s, y)[i] = x}
<1>2. IsFiniteSet(A) /\ Count(s, x) = Cardinality(A) /\ Count(s, x) \in Nat
  BY CountType DEF Count
<1>3. B = IF y = x THEN A \cup {Len(s) + 1} ELSE A
  BY <1>1
<1>4. Len(s) + 1 \notin A
  BY <1>1
<1>5. Count(Append(s, y), x) = Cardinality(B)
  BY DEF Count
<1> HIDE DEF A, B
<1>6. Cardinality(A \cup {Len(s) + 1}) = Cardinality(A) + 1
  BY <1>2, <1>4, FS_AddElement
<1> QED
  BY <1>2, <1>3, <1>5, <1>6

\* Two sequences hold no more together than each on its own.
LEMMA CountConcat ==
  ASSUME NEW S, NEW s \in Seq(S), NEW t \in Seq(S), NEW x
  PROVE  Count(s \o t, x) <= Count(s, x) + Count(t, x)
<1>1. /\ Len(s) \in Nat /\ Len(t) \in Nat /\ DOMAIN s = 1 .. Len(s) /\ DOMAIN t = 1 .. Len(t)
      /\ DOMAIN (s \o t) = 1 .. Len(s) + Len(t)
  BY LenProperties, ConcatProperties
<1>2. \A i \in 1 .. Len(s) + Len(t) :
         \/ i \in DOMAIN s /\ (s \o t)[i] = s[i]
         \/ i - Len(s) \in DOMAIN t /\ (s \o t)[i] = t[i - Len(s)]
  BY <1>1, ConcatProperties
<1> DEFINE A == {i \in DOMAIN s : s[i] = x}
           B == {i \in DOMAIN t : t[i] = x}
           C == {i \in DOMAIN (s \o t) : (s \o t)[i] = x}
           f == [i \in C \ A |-> i - Len(s)]
<1>3. /\ IsFiniteSet(A) /\ IsFiniteSet(B)
      /\ Count(s, x) = Cardinality(A) /\ Count(t, x) = Cardinality(B)
      /\ Count(s \o t, x) = Cardinality(C)
      /\ Cardinality(A) \in Nat /\ Cardinality(B) \in Nat
  BY CountType DEF Count
<1>4. f \in Injection(C \ A, B)
  <2>1. ASSUME NEW i \in C \ A PROVE f[i] = i - Len(s) /\ i - Len(s) \in B /\ i \in Int
    BY <1>1, <1>2
  <2>2. f \in [C \ A -> B]
    BY <2>1
  <2>3. \A i, k \in C \ A : f[i] = f[k] => i = k
    BY <1>1, <2>1
  <2> QED
    BY <2>2, <2>3 DEF Injection, IsInjective
<1> HIDE DEF A, B, C, f
<1>5. IsFiniteSet(C \ A) /\ Cardinality(C \ A) <= Cardinality(B) /\ Cardinality(C \ A) \in Nat
  BY <1>3, <1>4, FS_Injection, FS_CardinalityType
<1>6. /\ IsFiniteSet(A \cup (C \ A)) /\ Cardinality(A \cap (C \ A)) = 0
      /\ Cardinality(A \cup (C \ A))
            = Cardinality(A) + Cardinality(C \ A) - Cardinality(A \cap (C \ A))
  <2>1. A \cap (C \ A) = {}
    OBVIOUS
  <2> QED
    BY <1>3, <1>5, <2>1, FS_Union, FS_EmptySet
<1>7. Cardinality(C) <= Cardinality(A \cup (C \ A)) /\ Cardinality(C) \in Nat
  <2>1. C \in SUBSET (A \cup (C \ A))
    OBVIOUS
  <2> QED
    BY <1>6, <2>1, FS_Subset, FS_CardinalityType
<1> QED
  BY <1>3, <1>5, <1>6, <1>7

-----------------------------------------------------------------------------
(* What is kept of a sequence; p is the sequence, what to keep, and a set  *)
(* that its elements are from.                                             *)

KeptDomain(p) == 0 .. Len(p[1])
KeptRank(p, i) == i
KeptGood(p, i, k) == k \in Seq(p[3])
KeptBody(p, kept, i) ==
    IF i = 0 THEN <<>>
    ELSE IF p[1][i] \in p[2] THEN Append(kept[i - 1], p[1][i]) ELSE kept[i - 1]

Kept == INSTANCE Recursion
    WITH D <- KeptDomain, Rank <- KeptRank, Good <- KeptGood, Body <- KeptBody

\* P is the set of numbers for which something is to be shown.
LEMMA Induction ==
  ASSUME NEW P, 0 \in P, \A i \in Nat : i \in P => i + 1 \in P
  PROVE  Nat \subseteq P
BY Kept!Induction, Zenon

LEMMA KeepDef ==
  ASSUME NEW E, NEW s \in Seq(E), NEW S
  PROVE  \E k : /\ Keep(s, S) = k[Len(s)] /\ k[0] = <<>>
                /\ \A i \in 0 .. Len(s) : k[i] \in Seq(E)
                /\ \A i \in 1 .. Len(s) :
                      k[i] = IF s[i] \in S THEN Append(k[i - 1], s[i]) ELSE k[i - 1]
<1> DEFINE p == <<s, S, E>>
           n == Len(s)
           kept == CHOOSE k : k = [i \in 0 .. n |-> KeptBody(p, k, i)]
<1>1. n \in Nat /\ <<>> \in Seq(E) /\ \A i \in 1 .. n : s[i] \in E
  OBVIOUS
<1>2. KeptDomain(p) = 0 .. n /\ \A i : KeptRank(p, i) = i
  BY DEF KeptDomain, KeptRank
<1>3. \A k, i : KeptBody(p, k, i) =
          IF i = 0 THEN <<>>
          ELSE IF s[i] \in S THEN Append(k[i - 1], s[i]) ELSE k[i - 1]
  BY DEF KeptBody
<1>4. \A i, k : KeptGood(p, i, k) <=> k \in Seq(E)
  BY DEF KeptGood
<1>5. Kept!WellFounded(p)
  <2> HIDE DEF p, n
  <2> SUFFICES ASSUME NEW g, NEW h, NEW i \in 0 .. n,
                      \A j \in 0 .. n : j < i => g[j] = h[j] /\ g[j] \in Seq(E)
               PROVE  KeptBody(p, g, i) = KeptBody(p, h, i) /\ KeptBody(p, g, i) \in Seq(E)
    BY <1>1, <1>2, <1>4 DEF Kept!WellFounded
  <2>1. CASE i = 0
    BY <1>1, <1>3, <2>1
  <2>2. CASE i # 0
    <3>1. i - 1 \in 0 .. n /\ i - 1 < i /\ i \in 1 .. n
      BY <1>1, <2>2
    <3>2. g[i - 1] = h[i - 1] /\ g[i - 1] \in Seq(E)
      BY <3>1
    <3>3. s[i] \in E
      BY <1>1, <3>1
    <3>4. /\ KeptBody(p, g, i) = IF s[i] \in S THEN Append(g[i - 1], s[i]) ELSE g[i - 1]
          /\ KeptBody(p, h, i) = IF s[i] \in S THEN Append(h[i - 1], s[i]) ELSE h[i - 1]
      BY <1>3, <2>2, Zenon
    <3>5. Append(g[i - 1], s[i]) \in Seq(E)
      BY <3>2, <3>3
    <3> QED
      BY <3>2, <3>4, <3>5
  <2> QED
    BY <2>1, <2>2
<1> HIDE DEF p, n
<1>6. kept = [i \in 0 .. n |-> KeptBody(p, kept, i)] /\ Kept!Satisfies(p, kept)
  <2>1. \E k : k = [i \in 0 .. n |-> KeptBody(p, k, i)]
    BY <1>2, <1>5, Kept!Exists, Zenon DEF Kept!Satisfies
  <2>2. kept = [i \in 0 .. n |-> KeptBody(p, kept, i)]
    BY <2>1, Zenon
  <2> HIDE DEF kept
  <2> QED
    BY <1>2, <2>2, Zenon DEF Kept!Satisfies
<1>7. Keep(s, S) = kept[n]
  BY Zenon DEF Keep, KeptBody, p, n
<1> HIDE DEF kept
<1>8. \A i \in 0 .. n : kept[i] \in Seq(E)
  BY <1>2, <1>4, <1>5, <1>6, Kept!GoodValues, Zenon
<1>9. \A i \in 0 .. n : kept[i] = KeptBody(p, kept, i)
  BY <1>6, Zenon
<1>10. kept[0] = <<>>
  <2>1. 0 \in 0 .. n
    BY <1>1
  <2> QED
    BY <1>3, <1>9, <2>1
<1>11. ASSUME NEW i \in 1 .. n
       PROVE  kept[i] = IF s[i] \in S THEN Append(kept[i - 1], s[i]) ELSE kept[i - 1]
  <2>1. i \in 0 .. n /\ i # 0
    BY <1>1
  <2> HIDE DEF p, n
  <2> QED
    BY <1>3, <1>9, <2>1
<1> QED
  BY <1>7, <1>8, <1>10, <1>11 DEF n

\* What was kept was there.
LEMMA KeepHolds ==
  ASSUME NEW E, NEW s \in Seq(E), NEW S
  PROVE  Keep(s, S) \in Seq(E)
<1>1. Len(s) \in Nat
  OBVIOUS
<1> QED
  BY <1>1, KeepDef

\* Induction along a sequence: P is the set of those for which something is to be
\* shown.
LEMMA AlongSequence ==
  ASSUME NEW E, NEW P, <<>> \in P,
         \A s \in Seq(E), x \in E : s \in P => Append(s, x) \in P
  PROVE  Seq(E) \subseteq P
<1> DEFINE Q == {n \in Nat : \A s \in Seq(E) : Len(s) = n => s \in P}
<1>1. 0 \in Q
  BY EmptySeq
<1>2. ASSUME NEW n \in Nat, n \in Q PROVE n + 1 \in Q
  <2> SUFFICES ASSUME NEW s \in Seq(E), Len(s) = n + 1 PROVE s \in P
    OBVIOUS
  <2>1. s # <<>>
    BY EmptySeq
  <2>2. PICK t \in Seq(E), x \in E : s = Append(t, x)
    BY <2>1, SequenceEmptyOrAppend
  <2>3. Len(s) = Len(t) + 1 /\ Len(t) \in Nat
    BY <2>2, AppendProperties, LenProperties
  <2>4. t \in P
    BY <1>2, <2>3
  <2> QED
    BY <2>2, <2>4
<1>3. Nat \subseteq Q
  <2> HIDE DEF Q
  <2> QED
    BY <1>1, <1>2, Induction
<1> QED
  BY <1>3, LenProperties

\* One more thing is kept or not.
LEMMA KeepAppend ==
  ASSUME NEW E, NEW s \in Seq(E), NEW x \in E, NEW S
  PROVE  Keep(Append(s, x), S) = IF x \in S THEN Append(Keep(s, S), x) ELSE Keep(s, S)
<1> DEFINE t == Append(s, x)
           n == Len(s)
<1>1. /\ t \in Seq(E) /\ Len(t) = n + 1 /\ n \in Nat
      /\ t[n + 1] = x /\ \A i \in 1 .. n : t[i] = s[i]
  BY AppendProperties, LenProperties
<1>2. PICK k : /\ Keep(s, S) = k[n] /\ k[0] = <<>>
               /\ \A i \in 1 .. n : k[i] = IF s[i] \in S THEN Append(k[i - 1], s[i]) ELSE k[i - 1]
  BY KeepDef
<1>3. PICK m : /\ Keep(t, S) = m[n + 1] /\ m[0] = <<>>
               /\ \A i \in 1 .. n + 1 :
                     m[i] = IF t[i] \in S THEN Append(m[i - 1], t[i]) ELSE m[i - 1]
  <2> HIDE DEF t
  <2> QED
    BY <1>1, KeepDef
<1> HIDE DEF t, n
<1> DEFINE P == {i \in Nat : i <= n => m[i] = k[i]}
<1>4. 0 \in P
  BY <1>2, <1>3
<1>5. ASSUME NEW i \in Nat, i \in P PROVE i + 1 \in P
  <2> SUFFICES ASSUME i + 1 <= n PROVE m[i + 1] = k[i + 1]
    OBVIOUS
  <2>1. i + 1 \in 1 .. n /\ i + 1 \in 1 .. n + 1 /\ (i + 1) - 1 = i
    BY <1>1
  <2>2. m[i] = k[i]
    BY <1>5, <2>1, <1>1
  <2> QED
    BY <1>1, <1>2, <1>3, <2>1, <2>2
<1>6. m[n] = k[n]
  <2>1. Nat \subseteq P
    <3> HIDE DEF P
    <3> QED
      BY <1>4, <1>5, Induction
  <2> QED
    BY <1>1, <2>1
<1>7. n + 1 \in 1 .. n + 1 /\ (n + 1) - 1 = n
  BY <1>1
<1>8. m[n + 1] = IF x \in S THEN Append(m[n], x) ELSE m[n]
  BY <1>1, <1>3, <1>7
<1> QED
  BY <1>2, <1>3, <1>6, <1>8 DEF t, n

\* Nothing is kept of nothing.
LEMMA KeepNone ==
  ASSUME NEW E, NEW s \in Seq(E), NEW S
  PROVE  Len(s) = 0 => Keep(s, S) = <<>>
<1>1. PICK k : Keep(s, S) = k[Len(s)] /\ k[0] = <<>>
  BY KeepDef
<1> QED
  BY <1>1

LEMMA KeepEmpty == ASSUME NEW S PROVE Keep(<<>>, S) = <<>>
<1>1. \A s \in Seq({}) : Len(s) = 0 => Keep(s, S) = <<>>
  BY KeepNone
<1> QED
  BY <1>1, EmptySeq

\* What is kept of two sequences is kept of each.
LEMMA KeepConcat ==
  ASSUME NEW E, NEW s \in Seq(E), NEW t \in Seq(E), NEW S
  PROVE  Keep(s \o t, S) = Keep(s, S) \o Keep(t, S)
<1> DEFINE P == {u \in Seq(E) : Keep(s \o u, S) = Keep(s, S) \o Keep(u, S)}
<1>1. <<>> \in P
  <2>1. s \o <<>> = s /\ Keep(s, S) \o <<>> = Keep(s, S) /\ <<>> \in Seq(E)
    BY KeepHolds, ConcatEmptySeq, EmptySeq
  <2> QED
    BY <2>1, KeepEmpty
<1>2. ASSUME NEW u \in Seq(E), NEW x \in E, u \in P PROVE Append(u, x) \in P
  <2>1. s \o Append(u, x) = Append(s \o u, x) /\ s \o u \in Seq(E) /\ Append(u, x) \in Seq(E)
    BY ConcatProperties
  <2>2. Keep(Append(s \o u, x), S) = IF x \in S THEN Append(Keep(s \o u, S), x)
                                     ELSE Keep(s \o u, S)
    BY <2>1, KeepAppend
  <2>3. Keep(Append(u, x), S) = IF x \in S THEN Append(Keep(u, S), x) ELSE Keep(u, S)
    BY KeepAppend
  <2>4. Keep(s, S) \in Seq(E) /\ Keep(u, S) \in Seq(E)
    BY KeepHolds
  <2>5. Keep(s, S) \o Append(Keep(u, S), x) = Append(Keep(s, S) \o Keep(u, S), x)
    BY <2>4
  <2> QED
    BY <1>2, <2>1, <2>2, <2>3, <2>5
<1>3. Seq(E) \subseteq P
  <2> HIDE DEF P
  <2> QED
    BY <1>1, <1>2, AlongSequence
<1> QED
  BY <1>3

\* It is what was to be kept, no more than there was, and nothing only if
\* nothing was there.
LEMMA KeepWhat ==
  ASSUME NEW E, NEW s \in Seq(E), NEW S
  PROVE  /\ Keep(s, S) \in Seq(S) /\ Len(Keep(s, S)) \in 0 .. Len(s)
         /\ Keep(s, S) # <<>> <=> \E i \in DOMAIN s : s[i] \in S
<1> DEFINE P == {u \in Seq(E) : /\ Keep(u, S) \in Seq(S) /\ Len(Keep(u, S)) \in 0 .. Len(u)
                                /\ Keep(u, S) # <<>> <=> \E i \in DOMAIN u : u[i] \in S}
<1>1. <<>> \in P
  <2>1. Keep(<<>>, S) = <<>>
    BY KeepEmpty
  <2>2. /\ <<>> \in Seq(S) /\ <<>> \in Seq(E) /\ Len(<<>>) \in 0 .. Len(<<>>)
        /\ ~ \E i \in DOMAIN <<>> : <<>>[i] \in S
    BY EmptySeq
  <2> QED
    BY <2>1, <2>2, Zenon
<1>2. ASSUME NEW u \in Seq(E), NEW x \in E, u \in P PROVE Append(u, x) \in P
  <2> DEFINE t == Append(u, x)
             k == Keep(u, S)
  <2>1. /\ t \in Seq(E) /\ Len(t) = Len(u) + 1 /\ Len(u) \in Nat
        /\ DOMAIN t = 1 .. Len(u) + 1 /\ DOMAIN u = 1 .. Len(u)
        /\ t[Len(u) + 1] = x /\ \A i \in 1 .. Len(u) : t[i] = u[i]
    BY AppendProperties, LenProperties
  <2>2. k \in Seq(S) /\ Len(k) \in 0 .. Len(u)
        /\ (k # <<>> <=> \E i \in DOMAIN u : u[i] \in S)
    BY <1>2
  <2>3. Keep(t, S) = IF x \in S THEN Append(k, x) ELSE k
    BY KeepAppend
  <2> HIDE DEF t, k
  <2>4. CASE x \in S
    <3>1. /\ Keep(t, S) \in Seq(S) /\ Len(Keep(t, S)) = Len(k) + 1 /\ Keep(t, S) # <<>>
      BY <2>2, <2>3, <2>4, AppendProperties
    <3>2. \E i \in DOMAIN t : t[i] \in S
      <4>1. Len(u) + 1 \in DOMAIN t /\ t[Len(u) + 1] \in S
        BY <2>1, <2>4
      <4> QED
        BY <4>1
    <3>3. Len(Keep(t, S)) \in 0 .. Len(t)
      BY <2>1, <2>2, <3>1
    <3> QED
      BY <2>1, <3>1, <3>2, <3>3 DEF t
  <2>5. CASE x \notin S
    <3>1. Keep(t, S) = k
      BY <2>3, <2>5
    <3>2. (\E i \in DOMAIN t : t[i] \in S) <=> \E i \in DOMAIN u : u[i] \in S
      BY <2>1, <2>5
    <3>3. Len(k) \in 0 .. Len(t)
      BY <2>1, <2>2
    <3> QED
      BY <2>1, <2>2, <3>1, <3>2, <3>3 DEF t
  <2> QED
    BY <2>4, <2>5
<1>3. Seq(E) \subseteq P
  <2> HIDE DEF P
  <2> QED
    BY <1>1, <1>2, AlongSequence
<1> QED
  BY <1>3

\* Two sets with the same elements of s.
LEMMA KeepSame ==
  ASSUME NEW E, NEW s \in Seq(E), NEW S, NEW T, \A x \in E : x \in S <=> x \in T
  PROVE  Keep(s, S) = Keep(s, T)
<1> DEFINE P == {u \in Seq(E) : Keep(u, S) = Keep(u, T)}
<1>1. <<>> \in P
  BY KeepEmpty, EmptySeq
<1>2. ASSUME NEW u \in Seq(E), NEW x \in E, u \in P PROVE Append(u, x) \in P
  <2>1. /\ Keep(Append(u, x), S) = IF x \in S THEN Append(Keep(u, S), x) ELSE Keep(u, S)
        /\ Keep(Append(u, x), T) = IF x \in T THEN Append(Keep(u, T), x) ELSE Keep(u, T)
    BY KeepAppend
  <2>2. Append(u, x) \in Seq(E)
    BY AppendProperties
  <2>3. Keep(Append(u, x), S) = Keep(Append(u, x), T)
    BY <1>2, <2>1
  <2> QED
    BY <2>2, <2>3
<1>3. Seq(E) \subseteq P
  <2> HIDE DEF P
  <2> QED
    BY <1>1, <1>2, AlongSequence
<1> QED
  BY <1>3

\* All or nothing is kept.
LEMMA KeepAll ==
  ASSUME NEW E, NEW s \in Seq(E), NEW S
  PROVE  /\ E \subseteq S => Keep(s, S) = s
         /\ E \cap S = {} => Keep(s, S) = <<>>
<1> DEFINE P == {u \in Seq(E) : /\ E \subseteq S => Keep(u, S) = u
                                /\ E \cap S = {} => Keep(u, S) = <<>>}
<1>1. <<>> \in P
  BY KeepEmpty, EmptySeq
<1>2. ASSUME NEW u \in Seq(E), NEW x \in E, u \in P PROVE Append(u, x) \in P
  <2>1. Keep(Append(u, x), S) = IF x \in S THEN Append(Keep(u, S), x) ELSE Keep(u, S)
    BY KeepAppend
  <2>2. Append(u, x) \in Seq(E)
    BY AppendProperties
  <2>3. E \subseteq S => Keep(Append(u, x), S) = Append(u, x)
    BY <1>2, <2>1
  <2>4. E \cap S = {} => Keep(Append(u, x), S) = <<>>
    BY <1>2, <2>1
  <2> QED
    BY <2>2, <2>3, <2>4, Zenon
<1>3. Seq(E) \subseteq P
  <2> HIDE DEF P
  <2> QED
    BY <1>1, <1>2, AlongSequence
<1> QED
  BY <1>3

=============================================================================
