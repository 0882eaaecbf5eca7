---------------------------- MODULE SgfTreeProofs ---------------------------
(***************************************************************************)
(* Lemmas about the operators of SgfReader: the functions on syntax trees  *)
(* and move trees, and the grammar that reads a file.  Each of them is a   *)
(* recursive function; Recursion gives what its definition says, and an    *)
(* induction over the trees, the lines or the places of the file the rest. *)
(***************************************************************************)
EXTENDS SgfReader, SequenceFacts

-----------------------------------------------------------------------------
(* What is made of each element of a sequence, one after the other.        *)

JoinDomain(ss) == 1 .. Len(ss)
JoinRank(ss, i) == i
NoClaim(p, x, v) == TRUE
JoinBody(ss, flatten, i) == IF i = 1 THEN ss[i] ELSE flatten[i - 1] \o ss[i]

Join == INSTANCE Recursion
    WITH D <- JoinDomain, Rank <- JoinRank, Good <- NoClaim, Body <- JoinBody

\* FlattenSeq joins one sequence after the other.
LEMMA FlattenDef ==
  ASSUME NEW ss, Len(ss) \in Nat \ {0}
  PROVE  \E f : /\ FlattenSeq(ss) = f[Len(ss)] /\ f[1] = ss[1]
                /\ \A i \in 2 .. Len(ss) : f[i] = f[i - 1] \o ss[i]
<1> DEFINE n == Len(ss)
           flat == CHOOSE f : f = [i \in 1 .. n |-> JoinBody(ss, f, i)]
<1>1. Join!WellFounded(ss)
  <2> SUFFICES ASSUME NEW g, NEW h, NEW i \in 1 .. n, \A k \in 1 .. n : k < i => g[k] = h[k]
               PROVE  JoinBody(ss, g, i) = JoinBody(ss, h, i)
    BY DEF Join!WellFounded, JoinDomain, JoinRank, NoClaim
  <2>1. CASE i = 1
    BY <2>1 DEF JoinBody
  <2>2. CASE i # 1
    <3>1. i - 1 \in 1 .. n /\ i - 1 < i
      BY <2>2
    <3>2. g[i - 1] = h[i - 1]
      BY <3>1
    <3> QED
      BY <2>2, <3>2 DEF JoinBody
  <2> QED
    BY <2>1, <2>2
<1>2. flat = [i \in 1 .. n |-> JoinBody(ss, flat, i)]
  <2>1. \E f : f = [i \in 1 .. n |-> JoinBody(ss, f, i)]
    BY <1>1, Join!Exists, Zenon DEF Join!Satisfies, JoinDomain
  <2> QED
    BY <2>1, Zenon
<1>3. FlattenSeq(ss) = flat[n]
  <2>1. n # 0
    OBVIOUS
  <2> QED
    BY <2>1, Zenon DEF FlattenSeq, JoinBody
<1> HIDE DEF flat, n
<1>4. \A i \in 1 .. n : flat[i] = JoinBody(ss, flat, i)
  BY <1>2, Zenon
<1>5. flat[1] = ss[1] /\ \A i \in 2 .. n : flat[i] = flat[i - 1] \o ss[i]
  <2>1. 1 \in 1 .. n /\ \A i \in 2 .. n : i \in 1 .. n /\ i # 1
    BY DEF n
  <2> QED
    BY <1>4, <2>1 DEF JoinBody
<1> QED
  BY <1>3, <1>5 DEF n

\* Joining nothing.
LEMMA FlattenEmpty == FlattenSeq(<<>>) = <<>>
  BY EmptySeq DEF FlattenSeq

\* Joining one sequence more.
LEMMA FlattenAppend ==
  ASSUME NEW E, NEW ss \in Seq(Seq(E)), NEW s \in Seq(E)
  PROVE  FlattenSeq(Append(ss, s)) = FlattenSeq(ss) \o s
<1> DEFINE t == Append(ss, s)
           n == Len(ss)
<1>1. /\ t \in Seq(Seq(E)) /\ Len(t) = n + 1 /\ n \in Nat /\ t # <<>>
      /\ t[n + 1] = s /\ \A i \in 1 .. n : t[i] = ss[i]
  BY AppendProperties, LenProperties
<1> HIDE DEF t
<1>0. Len(t) \in Nat \ {0}
  BY <1>1
<1>2. PICK m : /\ FlattenSeq(t) = m[Len(t)] /\ m[1] = t[1]
               /\ \A i \in 2 .. Len(t) : m[i] = m[i - 1] \o t[i]
  BY <1>0, FlattenDef, Zenon
<1>3. CASE ss = <<>>
  <2>1. n = 0 /\ FlattenSeq(ss) = <<>>
    BY <1>3, FlattenEmpty, EmptySeq
  <2>2. FlattenSeq(t) = s
    BY <1>1, <1>2, <2>1
  <2> QED
    BY <2>1, <2>2, ConcatEmptySeq DEF t
<1>4. CASE ss # <<>>
  <2>1. n \in Nat \ {0}
    BY <1>4, EmptySeq
  <2>2. PICK k : /\ FlattenSeq(ss) = k[n] /\ k[1] = ss[1]
                 /\ \A i \in 2 .. n : k[i] = k[i - 1] \o ss[i]
    BY <2>1, FlattenDef
  <2> HIDE DEF n
  <2> DEFINE P == {i \in Nat : i \in 1 .. n => m[i] = k[i]}
  <2>3. ASSUME NEW i \in Nat, i \in P PROVE i + 1 \in P
    <3> SUFFICES ASSUME i + 1 \in 1 .. n PROVE m[i + 1] = k[i + 1]
      OBVIOUS
    <3>1. CASE i = 0
      BY <1>1, <1>2, <2>1, <2>2, <3>1
    <3>2. CASE i # 0
      <4>1. i \in 1 .. n /\ i + 1 \in 2 .. n /\ i + 1 \in 2 .. n + 1 /\ (i + 1) - 1 = i
        BY <2>1, <3>2
      <4>2. m[i] = k[i]
        BY <2>3, <4>1
      <4> QED
        BY <1>1, <1>2, <2>2, <4>1, <4>2, ZenonT(60)
    <3> QED
      BY <3>1, <3>2
  <2>4. Nat \subseteq P
    <3>1. 0 \in P
      OBVIOUS
    <3> HIDE DEF P
    <3> QED
      BY <3>1, <2>3, Induction
  <2>5. m[n] = k[n]
    BY <2>1, <2>4
  <2>6. n + 1 \in 2 .. n + 1 /\ (n + 1) - 1 = n
    BY <2>1
  <2>7. FlattenSeq(t) = m[n + 1] /\ m[n + 1] = m[n] \o s
    BY <1>1, <1>2, <2>6
  <2> QED
    BY <2>2, <2>5, <2>7 DEF t
<1> QED
  BY <1>3, <1>4

\* The sequences that g makes of the elements of s, joined.
Each(s, g) == [i \in DOMAIN s |-> g[s[i]]]
Flat(s, g) == FlattenSeq(Each(s, g))

\* g makes sequences of things in B of the things in A.
Makes(g, A, B) == \A x \in A : g[x] \in B

\* What is made of each element has a type, and the length of the sequence.
LEMMA EachOf ==
  ASSUME NEW A, NEW B, NEW g, Makes(g, A, B), NEW s \in Seq(A)
  PROVE  /\ Each(s, g) \in Seq(B) /\ Len(Each(s, g)) = Len(s)
         /\ \A i \in 1 .. Len(s) : Each(s, g)[i] = g[s[i]] /\ s[i] \in A
<1>1. Len(s) \in Nat /\ DOMAIN s = 1 .. Len(s) /\ \A i \in 1 .. Len(s) : s[i] \in A
  BY LenProperties, ElementOfSeq
<1>2. \A i \in 1 .. Len(s) : g[s[i]] \in B
  BY <1>1 DEF Makes
<1> QED
  BY <1>1, <1>2 DEF Each

\* Of nothing, nothing.
LEMMA EachEmpty == ASSUME NEW g PROVE Each(<<>>, g) = <<>>
<1>1. Makes(g, {}, {})
  BY DEF Makes
<1>2. ASSUME NEW s \in Seq({}) PROVE Each(s, g) \in Seq({}) /\ Len(Each(s, g)) = Len(s)
  BY <1>1, EachOf
<1> QED
  BY <1>2, EmptySeq

\* An element more.
LEMMA EachAppend ==
  ASSUME NEW A, NEW B, NEW g, Makes(g, A, B), NEW s \in Seq(A), NEW x \in A
  PROVE  Each(Append(s, x), g) = Append(Each(s, g), g[x])
<1> DEFINE t == Append(s, x)
<1>1. /\ t \in Seq(A) /\ Len(t) = Len(s) + 1 /\ Len(s) \in Nat
      /\ t[Len(s) + 1] = x /\ \A i \in 1 .. Len(s) : t[i] = s[i]
  BY AppendProperties, LenProperties
<1> HIDE DEF t
<1>2. /\ Each(t, g) \in Seq(B) /\ Len(Each(t, g)) = Len(t)
      /\ \A i \in 1 .. Len(t) : Each(t, g)[i] = g[t[i]]
  BY <1>1, EachOf
<1>3. /\ Each(s, g) \in Seq(B) /\ Len(Each(s, g)) = Len(s)
      /\ \A i \in 1 .. Len(s) : Each(s, g)[i] = g[s[i]]
  BY EachOf
<1>4. g[x] \in B /\ Len(s) + 1 \in 1 .. Len(t)
  BY <1>1 DEF Makes
<1>5. Append(Each(s, g), g[x]) = Each(t, g)
  <2>1. \A i \in 1 .. Len(s) : Each(t, g)[i] = Each(s, g)[i]
    BY <1>1, <1>2, <1>3
  <2>2. Each(t, g)[Len(Each(s, g)) + 1] = g[x]
    BY <1>1, <1>2, <1>3, <1>4
  <2> QED
    BY <1>1, <1>2, <1>3, <1>4, <2>1, <2>2, IsAppend
<1> QED
  BY <1>5 DEF t

\* The same with what is made joined.
LEMMA FlatEmpty == ASSUME NEW g PROVE Flat(<<>>, g) = <<>>
  BY EachEmpty, FlattenEmpty DEF Flat

\* One element more.
LEMMA FlatAppend ==
  ASSUME NEW A, NEW E, NEW g, Makes(g, A, Seq(E)), NEW s \in Seq(A), NEW x \in A
  PROVE  Flat(Append(s, x), g) = Flat(s, g) \o g[x]
<1>1. Each(s, g) \in Seq(Seq(E)) /\ g[x] \in Seq(E)
  BY EachOf DEF Makes
<1>2. Each(Append(s, x), g) = Append(Each(s, g), g[x])
  BY EachAppend
<1> QED
  BY <1>1, <1>2, FlattenAppend DEF Flat

\* What is joined has a type.
LEMMA FlatType ==
  ASSUME NEW A, NEW E, NEW g, Makes(g, A, Seq(E)), NEW s \in Seq(A)
  PROVE  Flat(s, g) \in Seq(E)
<1> DEFINE P == {u \in Seq(A) : Flat(u, g) \in Seq(E)}
<1>1. <<>> \in P
  BY FlatEmpty, EmptySeq
<1>2. ASSUME NEW u \in Seq(A), NEW x \in A, u \in P PROVE Append(u, x) \in P
  <2>1. Flat(Append(u, x), g) = Flat(u, g) \o g[x]
    BY FlatAppend
  <2>2. g[x] \in Seq(E) /\ Append(u, x) \in Seq(A)
    BY AppendProperties DEF Makes
  <2> QED
    BY <1>2, <2>1, <2>2, ConcatProperties
<1>3. Seq(A) \subseteq P
  <2> HIDE DEF P
  <2> QED
    BY <1>1, <1>2, AlongSequence
<1> QED
  BY <1>3

\* Two sequences.
LEMMA FlatConcat ==
  ASSUME NEW A, NEW E, NEW g, Makes(g, A, Seq(E)), NEW s \in Seq(A), NEW t \in Seq(A)
  PROVE  Flat(s \o t, g) = Flat(s, g) \o Flat(t, g)
<1> DEFINE P == {u \in Seq(A) : Flat(s \o u, g) = Flat(s, g) \o Flat(u, g)}
<1>0. Flat(s, g) \in Seq(E)
  BY FlatType
<1>1. <<>> \in P
  <2>1. s \o <<>> = s /\ Flat(s, g) \o <<>> = Flat(s, g) /\ <<>> \in Seq(A)
    BY <1>0, ConcatEmptySeq, EmptySeq
  <2> QED
    BY <2>1, FlatEmpty
<1>2. ASSUME NEW u \in Seq(A), NEW x \in A, u \in P PROVE Append(u, x) \in P
  <2>1. s \o Append(u, x) = Append(s \o u, x) /\ Append(u, x) \in Seq(A)
    BY ConcatProperties
  <2>2. Flat(Append(s \o u, x), g) = Flat(s \o u, g) \o g[x]
    <3>1. s \o u \in Seq(A)
      BY ConcatProperties
    <3>2. \A v \in Seq(A) : Flat(Append(v, x), g) = Flat(v, g) \o g[x]
      BY FlatAppend
    <3> QED
      BY <3>1, <3>2, Zenon
  <2>3. Flat(Append(u, x), g) = Flat(u, g) \o g[x]
    BY FlatAppend
  <2>4. g[x] \in Seq(E) /\ Flat(u, g) \in Seq(E)
    BY FlatType DEF Makes
  <2>5. (Flat(s, g) \o Flat(u, g)) \o g[x] = Flat(s, g) \o (Flat(u, g) \o g[x])
    <3> DEFINE a == Flat(s, g)
               b == Flat(u, g)
               c == g[x]
    <3>1. a \in Seq(E) /\ b \in Seq(E) /\ c \in Seq(E)
      BY <1>0, <2>4
    <3> HIDE DEF a, b, c
    <3>2. (a \o b) \o c = a \o (b \o c)
      BY <3>1, ConcatAssociative, SMTT(30)
    <3> QED
      BY <3>2 DEF a, b, c
  <2>6. Flat(s \o u, g) = Flat(s, g) \o Flat(u, g)
    BY <1>2
  <2> QED
    BY <2>1, <2>2, <2>3, <2>5, <2>6
<1>3. Seq(A) \subseteq P
  <2> HIDE DEF P
  <2> QED
    BY <1>1, <1>2, AlongSequence
<1> QED
  BY <1>3

\* Of one element.
LEMMA FlatOne ==
  ASSUME NEW A, NEW E, NEW g, Makes(g, A, Seq(E)), NEW x \in A
  PROVE  Flat(<<x>>, g) = g[x]
<1>1. <<>> \in Seq(A) /\ Append(<<>>, x) = <<x>> /\ g[x] \in Seq(E)
  BY EmptySeq DEF Makes
<1>2. Flat(Append(<<>>, x), g) = Flat(<<>>, g) \o g[x]
  BY <1>1, FlatAppend, ZenonT(60)
<1> QED
  BY <1>1, <1>2, FlatEmpty, ConcatEmptySeq

\* Two functions that agree on what is in the sequence.
LEMMA EachSame ==
  ASSUME NEW A, NEW B, NEW g, NEW h, Makes(g, A, B), NEW s \in Seq(A),
         \A x \in A : g[x] = h[x]
  PROVE  Each(s, g) = Each(s, h)
<1>1. DOMAIN s = 1 .. Len(s) /\ \A i \in 1 .. Len(s) : s[i] \in A
  BY LenProperties, ElementOfSeq
<1> QED
  BY <1>1 DEF Each

\* What is kept of all is kept of each.
LEMMA KeepFlat ==
  ASSUME NEW A, NEW E, NEW g, Makes(g, A, Seq(E)), NEW s \in Seq(A), NEW S,
         NEW h, \A x \in A : h[x] = Keep(g[x], S)
  PROVE  Keep(Flat(s, g), S) = Flat(s, h)
<1> DEFINE P == {u \in Seq(A) : Keep(Flat(u, g), S) = Flat(u, h)}
<1>0. Makes(h, A, Seq(E))
  BY KeepHolds DEF Makes
<1>1. <<>> \in P
  BY FlatEmpty, KeepEmpty, EmptySeq
<1>2. ASSUME NEW u \in Seq(A), NEW x \in A, u \in P PROVE Append(u, x) \in P
  <2>1. /\ Flat(Append(u, x), g) = Flat(u, g) \o g[x]
        /\ Flat(Append(u, x), h) = Flat(u, h) \o h[x]
    BY <1>0, FlatAppend, SMTT(30)
  <2>2. Flat(u, g) \in Seq(E) /\ g[x] \in Seq(E) /\ Append(u, x) \in Seq(A)
    BY FlatType, AppendProperties DEF Makes
  <2>3. Keep(Flat(u, g) \o g[x], S) = Keep(Flat(u, g), S) \o Keep(g[x], S)
    BY <2>2, KeepConcat
  <2> QED
    BY <1>2, <2>1, <2>2, <2>3
<1>3. Seq(A) \subseteq P
  <2> HIDE DEF P
  <2> QED
    BY <1>1, <1>2, AlongSequence
<1> QED
  BY <1>3

-----------------------------------------------------------------------------
(* The sets of trees.  Functions without a parameter have 0 for one.       *)

Numbered(p) == Nat
Itself(p, d) == d

Lines(d) == {nodes \in Seq(Nodes) : Len(nodes) \in 1 .. d}

TreesBody(p, to, d) ==
    IF d = 0 THEN {} ELSE [sequence_ : Lines(d), sub_trees : Seq(to[d - 1])]

Growth == INSTANCE Recursion
    WITH D <- Numbered, Rank <- Itself, Good <- NoClaim, Body <- TreesBody

MovesBody(p, to, d) ==
    IF d = 0 THEN {} ELSE [move : Moves \cup {NoMove}, next_moves : Seq(to[d - 1])]

MoveGrowth == INSTANCE Recursion
    WITH D <- Numbered, Rank <- Itself, Good <- NoClaim, Body <- MovesBody

\* The sets of syntax trees are the levels of their definition.
LEMMA TreesDef ==
  /\ TreesTo[0] = {}
  /\ \A d \in Nat : TreesTo[d + 1] = [sequence_ : Lines(d + 1), sub_trees : Seq(TreesTo[d])]
<1>1. Growth!WellFounded(0)
  <2> SUFFICES ASSUME NEW g, NEW h, NEW d \in Nat, \A k \in Nat : k < d => g[k] = h[k]
               PROVE  TreesBody(0, g, d) = TreesBody(0, h, d)
    BY DEF Growth!WellFounded, Numbered, Itself, NoClaim
  <2>1. CASE d = 0
    BY <2>1 DEF TreesBody
  <2>2. CASE d # 0
    <3>1. d - 1 \in Nat /\ d - 1 < d
      BY <2>2
    <3>2. g[d - 1] = h[d - 1]
      BY <3>1
    <3> QED
      BY <2>2, <3>2 DEF TreesBody
  <2> QED
    BY <2>1, <2>2
<1>2. TreesTo = [d \in Nat |-> TreesBody(0, TreesTo, d)]
  <2>1. \E f : f = [d \in Nat |-> TreesBody(0, f, d)]
    BY <1>1, Growth!Exists, Zenon DEF Growth!Satisfies, Numbered
  <2>2. TreesTo = CHOOSE f : f = [d \in Nat |-> TreesBody(0, f, d)]
    BY Zenon DEF TreesTo, TreesBody, Lines
  <2> QED
    BY <2>1, <2>2, Zenon
<1>3. \A d \in Nat : TreesTo[d] = TreesBody(0, TreesTo, d)
  BY <1>2, Zenon
<1>4. TreesTo[0] = {}
  BY <1>3 DEF TreesBody
<1>5. ASSUME NEW d \in Nat
      PROVE  TreesTo[d + 1] = [sequence_ : Lines(d + 1), sub_trees : Seq(TreesTo[d])]
  <2>1. d + 1 \in Nat /\ d + 1 # 0 /\ (d + 1) - 1 = d
    OBVIOUS
  <2>2. TreesTo[d + 1] = TreesBody(0, TreesTo, d + 1)
    BY <1>3, <2>1
  <2> QED
    BY <2>1, <2>2 DEF TreesBody
<1> QED
  BY <1>4, <1>5

\* So are the sets of move trees.
LEMMA MoveTreesDef ==
  /\ MoveTreesTo[0] = {}
  /\ \A d \in Nat :
        MoveTreesTo[d + 1] = [move : Moves \cup {NoMove}, next_moves : Seq(MoveTreesTo[d])]
<1>1. MoveGrowth!WellFounded(0)
  <2> SUFFICES ASSUME NEW g, NEW h, NEW d \in Nat, \A k \in Nat : k < d => g[k] = h[k]
               PROVE  MovesBody(0, g, d) = MovesBody(0, h, d)
    BY DEF MoveGrowth!WellFounded, Numbered, Itself, NoClaim
  <2>1. CASE d = 0
    BY <2>1 DEF MovesBody
  <2>2. CASE d # 0
    <3>1. d - 1 \in Nat /\ d - 1 < d
      BY <2>2
    <3>2. g[d - 1] = h[d - 1]
      BY <3>1
    <3> QED
      BY <2>2, <3>2 DEF MovesBody
  <2> QED
    BY <2>1, <2>2
<1>2. MoveTreesTo = [d \in Nat |-> MovesBody(0, MoveTreesTo, d)]
  <2>1. \E f : f = [d \in Nat |-> MovesBody(0, f, d)]
    BY <1>1, MoveGrowth!Exists, Zenon DEF MoveGrowth!Satisfies, Numbered
  <2>2. MoveTreesTo = CHOOSE f : f = [d \in Nat |-> MovesBody(0, f, d)]
    BY Zenon DEF MoveTreesTo, MovesBody
  <2> QED
    BY <2>1, <2>2, Zenon
<1>3. \A d \in Nat : MoveTreesTo[d] = MovesBody(0, MoveTreesTo, d)
  BY <1>2, Zenon
<1>4. MoveTreesTo[0] = {}
  BY <1>3 DEF MovesBody
<1>5. ASSUME NEW d \in Nat
      PROVE  MoveTreesTo[d + 1] = [move : Moves \cup {NoMove}, next_moves : Seq(MoveTreesTo[d])]
  <2>1. d + 1 \in Nat /\ d + 1 # 0 /\ (d + 1) - 1 = d
    OBVIOUS
  <2>2. MoveTreesTo[d + 1] = MovesBody(0, MoveTreesTo, d + 1)
    BY <1>3, <2>1
  <2> QED
    BY <2>1, <2>2 DEF MovesBody
<1> QED
  BY <1>4, <1>5

\* A tree, by its parts.
LEMMA TreeParts ==
  ASSUME NEW d \in Nat
  PROVE  /\ \A t \in TreesTo[d + 1] :
               /\ t = [sequence_ |-> t.sequence_, sub_trees |-> t.sub_trees]
               /\ t.sequence_ \in Seq(Nodes) /\ t.sequence_ # <<>>
               /\ Len(t.sequence_) \in 1 .. d + 1
               /\ t.sub_trees \in Seq(TreesTo[d])
         /\ \A nodes \in Seq(Nodes), subs \in Seq(TreesTo[d]) :
               Len(nodes) \in 1 .. d + 1
                  => [sequence_ |-> nodes, sub_trees |-> subs] \in TreesTo[d + 1]
<1>1. TreesTo[d + 1] = [sequence_ : Lines(d + 1), sub_trees : Seq(TreesTo[d])]
  BY TreesDef
<1>2. Len(<<>>) = 0
  BY EmptySeq
<1> QED
  BY <1>1, <1>2 DEF Lines

\* The same for move trees.
LEMMA MoveTreeParts ==
  ASSUME NEW d \in Nat
  PROVE  /\ \A m \in MoveTreesTo[d + 1] :
               /\ m = [move |-> m.move, next_moves |-> m.next_moves]
               /\ m.move \in Moves \cup {NoMove}
               /\ m.next_moves \in Seq(MoveTreesTo[d])
         /\ \A move \in Moves \cup {NoMove}, next \in Seq(MoveTreesTo[d]) :
               [move |-> move, next_moves |-> next] \in MoveTreesTo[d + 1]
<1>1. MoveTreesTo[d + 1] = [move : Moves \cup {NoMove}, next_moves : Seq(MoveTreesTo[d])]
  BY MoveTreesDef
<1> QED
  BY <1>1

\* A tree may be smaller than its bound.
LEMMA TreesGrow ==
  ASSUME NEW m \in Nat, NEW n \in Nat, m <= n
  PROVE  TreesTo[m] \subseteq TreesTo[n]
<1> DEFINE P == {k \in Nat : TreesTo[k] \subseteq TreesTo[k + 1]}
           Q == {k \in Nat : m <= k => TreesTo[m] \subseteq TreesTo[k]}
<1>1. 0 \in P
  BY TreesDef
<1>2. ASSUME NEW k \in Nat, k \in P PROVE k + 1 \in P
  <2> SUFFICES ASSUME NEW t \in TreesTo[k + 1] PROVE t \in TreesTo[(k + 1) + 1]
    OBVIOUS
  <2>1. /\ t = [sequence_ |-> t.sequence_, sub_trees |-> t.sub_trees]
        /\ t.sequence_ \in Seq(Nodes) /\ Len(t.sequence_) \in 1 .. k + 1
        /\ t.sub_trees \in Seq(TreesTo[k])
    BY TreeParts
  <2>2. t.sub_trees \in Seq(TreesTo[k + 1])
    BY <1>2, <2>1, SeqMonotonic
  <2>3. k + 1 \in Nat /\ Len(t.sequence_) \in 1 .. (k + 1) + 1
    BY <2>1
  <2>4. [sequence_ |-> t.sequence_, sub_trees |-> t.sub_trees] \in TreesTo[(k + 1) + 1]
    BY <2>1, <2>2, <2>3, TreeParts
  <2> QED
    BY <2>1, <2>4
<1>3. Nat \subseteq P
  <2> HIDE DEF P
  <2> QED
    BY <1>1, <1>2, Induction
<1>4. ASSUME NEW k \in Nat, k \in Q PROVE k + 1 \in Q
  <2>1. TreesTo[k] \subseteq TreesTo[k + 1]
    BY <1>3
  <2>2. CASE m <= k
    BY <1>4, <2>1, <2>2
  <2>3. CASE ~(m <= k)
    <3>1. m <= k + 1 => m = k + 1
      BY <2>3
    <3> QED
      BY <3>1
  <2> QED
    BY <2>2, <2>3
<1>5. 0 \in Q
  <2>1. m <= 0 => m = 0
    OBVIOUS
  <2> QED
    BY <2>1
<1>6. Nat \subseteq Q
  <2> HIDE DEF Q
  <2> QED
    BY <1>4, <1>5, Induction
<1> QED
  BY <1>6

\* A move tree of some depth is one of any greater depth.
LEMMA MoveTreesGrow ==
  ASSUME NEW m \in Nat, NEW n \in Nat, m <= n
  PROVE  MoveTreesTo[m] \subseteq MoveTreesTo[n]
<1> DEFINE P == {k \in Nat : MoveTreesTo[k] \subseteq MoveTreesTo[k + 1]}
           Q == {k \in Nat : m <= k => MoveTreesTo[m] \subseteq MoveTreesTo[k]}
<1>1. 0 \in P
  BY MoveTreesDef
<1>2. ASSUME NEW k \in Nat, k \in P PROVE k + 1 \in P
  <2> SUFFICES ASSUME NEW t \in MoveTreesTo[k + 1] PROVE t \in MoveTreesTo[(k + 1) + 1]
    OBVIOUS
  <2>1. /\ t = [move |-> t.move, next_moves |-> t.next_moves]
        /\ t.move \in Moves \cup {NoMove}
        /\ t.next_moves \in Seq(MoveTreesTo[k])
    BY MoveTreeParts
  <2>2. t.next_moves \in Seq(MoveTreesTo[k + 1])
    BY <1>2, <2>1, SeqMonotonic
  <2>3. k + 1 \in Nat
    OBVIOUS
  <2>4. [move |-> t.move, next_moves |-> t.next_moves] \in MoveTreesTo[(k + 1) + 1]
    BY <2>1, <2>2, <2>3, MoveTreeParts
  <2> QED
    BY <2>1, <2>4
<1>3. Nat \subseteq P
  <2> HIDE DEF P
  <2> QED
    BY <1>1, <1>2, Induction
<1>4. ASSUME NEW k \in Nat, k \in Q PROVE k + 1 \in Q
  <2>1. MoveTreesTo[k] \subseteq MoveTreesTo[k + 1]
    BY <1>3
  <2>2. CASE m <= k
    BY <1>4, <2>1, <2>2
  <2>3. CASE ~(m <= k)
    <3>1. m <= k + 1 => m = k + 1
      BY <2>3
    <3> QED
      BY <3>1
  <2> QED
    BY <2>2, <2>3
<1>5. 0 \in Q
  <2>1. m <= 0 => m = 0
    OBVIOUS
  <2> QED
    BY <2>1
<1>6. Nat \subseteq Q
  <2> HIDE DEF Q
  <2> QED
    BY <1>4, <1>5, Induction
<1> QED
  BY <1>6

-----------------------------------------------------------------------------
(* Recursion over trees: a tree's rank is the least bound on its lines.    *)

LeastOf(T) == IF T = {} THEN 0 ELSE CHOOSE d \in T : \A e \in T : d <= e

TreeDomain(p) == SyntaxTrees
TreeRank(p, t) == LeastOf({d \in Nat : t \in TreesTo[d]})
MoveTreeDomain(p) == MoveTrees
MoveTreeRank(p, m) == LeastOf({d \in Nat : m \in MoveTreesTo[d]})

\* The least number of a set of numbers.
LEMMA LeastIs ==
  ASSUME NEW T \in SUBSET Nat
  PROVE  /\ LeastOf(T) \in Nat /\ \A d \in T : LeastOf(T) <= d
         /\ T # {} => LeastOf(T) \in T
<1>1. CASE T = {}
  BY <1>1 DEF LeastOf
<1>2. CASE T # {}
  <2>1. \E d \in T : \A e \in T : d <= e
    BY <1>2, Kept!Least
  <2>2. LeastOf(T) = CHOOSE d \in T : \A e \in T : d <= e
    BY <1>2 DEF LeastOf
  <2> QED
    BY <2>1, <2>2
<1> QED
  BY <1>1, <1>2

\* What a syntax tree is made of.
LEMMA SubTrees ==
  ASSUME NEW t \in SyntaxTrees
  PROVE  /\ TreeRank(0, t) \in Nat
         /\ t = [sequence_ |-> t.sequence_, sub_trees |-> t.sub_trees]
         /\ t.sequence_ \in Seq(Nodes)
         /\ t.sub_trees \in Seq(SyntaxTrees)
         /\ \A i \in DOMAIN t.sub_trees :
               /\ t.sub_trees[i] \in SyntaxTrees
               /\ TreeRank(0, t.sub_trees[i]) < TreeRank(0, t)
<1> DEFINE T(u) == {d \in Nat : u \in TreesTo[d]}
<1>0. MaxNodes \in Nat
  BY SgfAssumption
<1>1. \A u : TreeRank(0, u) \in Nat
  BY LeastIs DEF TreeRank
<1>2. CASE t = Empty
  <2>1. <<>> \in Seq(Nodes) /\ <<>> \in Seq(SyntaxTrees) /\ DOMAIN <<>> = {}
    BY EmptySeq
  <2> QED
    BY <1>1, <1>2, <2>1 DEF Empty
<1>3. CASE t \in TreesTo[MaxNodes]
  <2>1. TreeRank(0, t) \in T(t) /\ TreeRank(0, t) <= MaxNodes
    BY <1>0, <1>3, LeastIs DEF TreeRank
  <2>2. TreeRank(0, t) # 0
    BY <2>1, TreesDef
  <2> DEFINE d == TreeRank(0, t) - 1
  <2>3. d \in Nat /\ TreeRank(0, t) = d + 1 /\ d < TreeRank(0, t) /\ d <= MaxNodes
    BY <1>0, <1>1, <2>1, <2>2
  <2> HIDE DEF d
  <2>4. t \in TreesTo[d + 1]
    BY <2>1, <2>3
  <2>5. /\ t = [sequence_ |-> t.sequence_, sub_trees |-> t.sub_trees]
        /\ t.sequence_ \in Seq(Nodes) /\ t.sub_trees \in Seq(TreesTo[d])
    BY <2>3, <2>4, TreeParts
  <2>6. TreesTo[d] \subseteq SyntaxTrees
    BY <1>0, <2>3, TreesGrow DEF SyntaxTrees
  <2>7. t.sub_trees \in Seq(SyntaxTrees)
    BY <2>5, <2>6, SeqMonotonic
  <2>8. ASSUME NEW i \in DOMAIN t.sub_trees
        PROVE  t.sub_trees[i] \in SyntaxTrees /\ TreeRank(0, t.sub_trees[i]) < TreeRank(0, t)
    <3>1. t.sub_trees[i] \in TreesTo[d]
      BY <2>5, ElementOfSeq, LenProperties
    <3>2. TreeRank(0, t.sub_trees[i]) <= d
      BY <2>3, <3>1, LeastIs DEF TreeRank
    <3> QED
      BY <1>1, <2>3, <2>6, <3>1, <3>2
  <2> QED
    BY <1>1, <2>5, <2>7, <2>8
<1> QED
  BY <1>2, <1>3 DEF SyntaxTrees

\* What a move tree is made of.
LEMMA NextMoves ==
  ASSUME NEW m \in MoveTrees
  PROVE  /\ MoveTreeRank(0, m) \in Nat
         /\ m = [move |-> m.move, next_moves |-> m.next_moves]
         /\ m.move \in Moves \cup {NoMove}
         /\ m.next_moves \in Seq(MoveTrees)
         /\ \A i \in DOMAIN m.next_moves :
               /\ m.next_moves[i] \in MoveTrees
               /\ MoveTreeRank(0, m.next_moves[i]) < MoveTreeRank(0, m)
<1> DEFINE T(u) == {d \in Nat : u \in MoveTreesTo[d]}
<1>0. MaxNodes \in Nat
  BY SgfAssumption
<1>1. \A u : MoveTreeRank(0, u) \in Nat
  BY LeastIs DEF MoveTreeRank
<1>2. m \in MoveTreesTo[MaxNodes]
  BY DEF MoveTrees
<1>3. MoveTreeRank(0, m) \in T(m) /\ MoveTreeRank(0, m) <= MaxNodes
  BY <1>0, <1>2, LeastIs DEF MoveTreeRank
<1>4. MoveTreeRank(0, m) # 0
  BY <1>3, MoveTreesDef
<1> DEFINE d == MoveTreeRank(0, m) - 1
<1>5. d \in Nat /\ MoveTreeRank(0, m) = d + 1 /\ d < MoveTreeRank(0, m) /\ d <= MaxNodes
  BY <1>0, <1>1, <1>3, <1>4
<1> HIDE DEF d
<1>6. m \in MoveTreesTo[d + 1]
  BY <1>3, <1>5
<1>7. /\ m = [move |-> m.move, next_moves |-> m.next_moves]
      /\ m.move \in Moves \cup {NoMove} /\ m.next_moves \in Seq(MoveTreesTo[d])
  BY <1>5, <1>6, MoveTreeParts
<1>8. MoveTreesTo[d] \subseteq MoveTrees
  BY <1>0, <1>5, MoveTreesGrow DEF MoveTrees
<1>9. m.next_moves \in Seq(MoveTrees)
  BY <1>7, <1>8, SeqMonotonic
<1>10. ASSUME NEW i \in DOMAIN m.next_moves
       PROVE  /\ m.next_moves[i] \in MoveTrees
              /\ MoveTreeRank(0, m.next_moves[i]) < MoveTreeRank(0, m)
  <2>1. m.next_moves[i] \in MoveTreesTo[d]
    BY <1>7, ElementOfSeq, LenProperties
  <2>2. MoveTreeRank(0, m.next_moves[i]) <= d
    BY <1>5, <2>1, LeastIs DEF MoveTreeRank
  <2> QED
    BY <1>1, <1>5, <1>8, <2>1, <2>2
<1> QED
  BY <1>1, <1>7, <1>9, <1>10

\* P is the set of trees for which something is to be shown.
LEMMA TreeInduction ==
  ASSUME NEW P, \A t \in SyntaxTrees : t.sub_trees \in Seq(P) => t \in P
  PROVE  SyntaxTrees \subseteq P
<1> DEFINE Q == {n \in Nat : \A t \in SyntaxTrees : TreeRank(0, t) < n => t \in P}
<1>1. 0 \in Q
  BY SubTrees
<1>2. ASSUME NEW n \in Nat, n \in Q PROVE n + 1 \in Q
  <2> SUFFICES ASSUME NEW t \in SyntaxTrees, TreeRank(0, t) < n + 1 PROVE t \in P
    OBVIOUS
  <2>1. t.sub_trees \in Seq(SyntaxTrees) /\ TreeRank(0, t) \in Nat
    BY SubTrees
  <2>2. ASSUME NEW i \in DOMAIN t.sub_trees PROVE t.sub_trees[i] \in P
    <3>1. t.sub_trees[i] \in SyntaxTrees /\ TreeRank(0, t.sub_trees[i]) < TreeRank(0, t)
      BY SubTrees
    <3>2. TreeRank(0, t.sub_trees[i]) < n
      BY <2>1, <3>1, SubTrees
    <3> QED
      BY <1>2, <3>1, <3>2
  <2>3. t.sub_trees \in Seq(P)
    BY <2>1, <2>2, AllIn
  <2> QED
    BY <2>3
<1>3. Nat \subseteq Q
  <2> HIDE DEF Q
  <2> QED
    BY <1>1, <1>2, Induction
<1>4. ASSUME NEW t \in SyntaxTrees PROVE t \in P
  <2>1. TreeRank(0, t) + 1 \in Q /\ TreeRank(0, t) < TreeRank(0, t) + 1
    BY <1>3, SubTrees
  <2> QED
    BY <2>1
<1> QED
  BY <1>4

\* The same for move trees, by the moves that follow.
LEMMA MoveTreeInduction ==
  ASSUME NEW P, \A m \in MoveTrees : m.next_moves \in Seq(P) => m \in P
  PROVE  MoveTrees \subseteq P
<1> DEFINE Q == {n \in Nat : \A m \in MoveTrees : MoveTreeRank(0, m) < n => m \in P}
<1>1. 0 \in Q
  BY NextMoves
<1>2. ASSUME NEW n \in Nat, n \in Q PROVE n + 1 \in Q
  <2> SUFFICES ASSUME NEW m \in MoveTrees, MoveTreeRank(0, m) < n + 1 PROVE m \in P
    OBVIOUS
  <2>1. m.next_moves \in Seq(MoveTrees) /\ MoveTreeRank(0, m) \in Nat
    BY NextMoves
  <2>2. ASSUME NEW i \in DOMAIN m.next_moves PROVE m.next_moves[i] \in P
    <3>1. m.next_moves[i] \in MoveTrees /\ MoveTreeRank(0, m.next_moves[i]) < MoveTreeRank(0, m)
      BY NextMoves
    <3>2. MoveTreeRank(0, m.next_moves[i]) < n
      BY <2>1, <3>1, NextMoves
    <3> QED
      BY <1>2, <3>1, <3>2
  <2>3. m.next_moves \in Seq(P)
    BY <2>1, <2>2, AllIn
  <2> QED
    BY <2>3
<1>3. Nat \subseteq Q
  <2> HIDE DEF Q
  <2> QED
    BY <1>1, <1>2, Induction
<1>4. ASSUME NEW m \in MoveTrees PROVE m \in P
  <2>1. MoveTreeRank(0, m) + 1 \in Q /\ MoveTreeRank(0, m) < MoveTreeRank(0, m) + 1
    BY <1>3, NextMoves
  <2> QED
    BY <2>1
<1> QED
  BY <1>4

-----------------------------------------------------------------------------
(* The functions on trees do what their definitions say.                   *)

\* Functions that agree on smaller trees agree on the variations.
LEMMA AgreeBelow ==
  ASSUME NEW g, NEW h, NEW x \in SyntaxTrees,
         \A y \in SyntaxTrees : TreeRank(0, y) < TreeRank(0, x) => g[y] = h[y]
  PROVE  /\ Each(x.sub_trees, g) = Each(x.sub_trees, h)
         /\ \A y \in Range(x.sub_trees) : g[y] = h[y]
<1>1. \A i \in DOMAIN x.sub_trees : g[x.sub_trees[i]] = h[x.sub_trees[i]]
  BY SubTrees
<1> QED
  BY <1>1 DEF Each, Range

\* The same for move trees.
LEMMA MovesAgreeBelow ==
  ASSUME NEW g, NEW h, NEW x \in MoveTrees,
         \A y \in MoveTrees : MoveTreeRank(0, y) < MoveTreeRank(0, x) => g[y] = h[y]
  PROVE  /\ Each(x.next_moves, g) = Each(x.next_moves, h)
         /\ \A y \in Range(x.next_moves) : g[y] = h[y]
<1>1. \A i \in DOMAIN x.next_moves : g[x.next_moves[i]] = h[x.next_moves[i]]
  BY NextMoves
<1> QED
  BY <1>1 DEF Each, Range

PrintBody(p, printed, x) ==
    PrintSequence(x.sequence_)
        \o FlattenSeq([i \in DOMAIN x.sub_trees |-> printed[x.sub_trees[i]]])

Printing == INSTANCE Recursion
    WITH D <- TreeDomain, Rank <- TreeRank, Good <- NoClaim, Body <- PrintBody

PrintF == [x \in SyntaxTrees |-> PrintGameTree(x)]

\* A tree is printed with its variations.
LEMMA PrintDef ==
  \A t \in SyntaxTrees : PrintGameTree(t) = PrintSequence(t.sequence_) \o Flat(t.sub_trees, PrintF)
<1> DEFINE printed == CHOOSE f : f = [x \in SyntaxTrees |-> PrintBody(0, f, x)]
<1>1. Printing!WellFounded(0)
  <2> SUFFICES ASSUME NEW g, NEW h, NEW x \in SyntaxTrees,
                      \A y \in SyntaxTrees : TreeRank(0, y) < TreeRank(0, x) => g[y] = h[y]
               PROVE  PrintBody(0, g, x) = PrintBody(0, h, x)
    BY SubTrees DEF Printing!WellFounded, TreeDomain, NoClaim
  <2>1. Each(x.sub_trees, g) = Each(x.sub_trees, h)
    BY AgreeBelow
  <2> QED
    BY <2>1 DEF PrintBody, Each
<1>2. printed = [x \in SyntaxTrees |-> PrintBody(0, printed, x)]
  <2>1. \E f : f = [x \in SyntaxTrees |-> PrintBody(0, f, x)]
    BY <1>1, Printing!Exists, Zenon DEF Printing!Satisfies, TreeDomain
  <2> QED
    BY <2>1, Zenon
<1>3. \A x : PrintGameTree(x) = printed[x]
  BY Zenon DEF PrintGameTree, PrintBody
<1> HIDE DEF printed
<1>4. PrintF = printed
  BY <1>2, <1>3, Zenon DEF PrintF
<1>5. ASSUME NEW t \in SyntaxTrees PROVE PrintGameTree(t) = PrintBody(0, PrintF, t)
  BY <1>2, <1>3, <1>4, Zenon
<1> QED
  BY <1>5 DEF PrintBody, Each, Flat

WrittenBody(p, written, x) ==
    <<Open>> \o PrintSequence(x.sequence_)
        \o FlattenSeq([i \in DOMAIN x.sub_trees |-> written[x.sub_trees[i]]])
        \o <<Close>>

Writing == INSTANCE Recursion
    WITH D <- TreeDomain, Rank <- TreeRank, Good <- NoClaim, Body <- WrittenBody

WrittenF == [x \in SyntaxTrees |-> Written(x)]

\* It is written in parentheses.
LEMMA WrittenDef ==
  \A t \in SyntaxTrees : Written(t) = <<Open>> \o PrintSequence(t.sequence_) \o Flat(t.sub_trees, WrittenF) \o <<Close>>
<1> DEFINE written == CHOOSE f : f = [x \in SyntaxTrees |-> WrittenBody(0, f, x)]
<1>1. Writing!WellFounded(0)
  <2> SUFFICES ASSUME NEW g, NEW h, NEW x \in SyntaxTrees,
                      \A y \in SyntaxTrees : TreeRank(0, y) < TreeRank(0, x) => g[y] = h[y]
               PROVE  WrittenBody(0, g, x) = WrittenBody(0, h, x)
    BY SubTrees DEF Writing!WellFounded, TreeDomain, NoClaim
  <2>1. Each(x.sub_trees, g) = Each(x.sub_trees, h)
    BY AgreeBelow
  <2> QED
    BY <2>1 DEF WrittenBody, Each
<1>2. written = [x \in SyntaxTrees |-> WrittenBody(0, written, x)]
  <2>1. \E f : f = [x \in SyntaxTrees |-> WrittenBody(0, f, x)]
    BY <1>1, Writing!Exists, Zenon DEF Writing!Satisfies, TreeDomain
  <2> QED
    BY <2>1, Zenon
<1>3. \A x : Written(x) = written[x]
  BY Zenon DEF Written, WrittenBody
<1> HIDE DEF written
<1>4. WrittenF = written
  BY <1>2, <1>3, Zenon DEF WrittenF
<1>5. ASSUME NEW t \in SyntaxTrees PROVE Written(t) = WrittenBody(0, WrittenF, t)
  BY <1>2, <1>3, <1>4, Zenon
<1> QED
  BY <1>5 DEF WrittenBody, Each, Flat

ParseBody(p, parsed, x) ==
    [parse_sequence(x.sequence_) EXCEPT
        !.next_moves = @ \o [i \in DOMAIN x.sub_trees |-> parsed[x.sub_trees[i]]]]

Parsing == INSTANCE Recursion
    WITH D <- TreeDomain, Rank <- TreeRank, Good <- NoClaim, Body <- ParseBody

ParseF == [x \in SyntaxTrees |-> parse_game_tree(x)]

\* Its moves begin with those of its sequence.
LEMMA ParseDef ==
  \A t \in SyntaxTrees : parse_game_tree(t) = 
      [parse_sequence(t.sequence_) EXCEPT !.next_moves = @ \o Each(t.sub_trees, ParseF)]
<1> DEFINE parsed == CHOOSE f : f = [x \in SyntaxTrees |-> ParseBody(0, f, x)]
<1>1. Parsing!WellFounded(0)
  <2> SUFFICES ASSUME NEW g, NEW h, NEW x \in SyntaxTrees,
                      \A y \in SyntaxTrees : TreeRank(0, y) < TreeRank(0, x) => g[y] = h[y]
               PROVE  ParseBody(0, g, x) = ParseBody(0, h, x)
    BY SubTrees DEF Parsing!WellFounded, TreeDomain, NoClaim
  <2>1. Each(x.sub_trees, g) = Each(x.sub_trees, h)
    BY AgreeBelow
  <2> QED
    BY <2>1 DEF ParseBody, Each
<1>2. parsed = [x \in SyntaxTrees |-> ParseBody(0, parsed, x)]
  <2>1. \E f : f = [x \in SyntaxTrees |-> ParseBody(0, f, x)]
    BY <1>1, Parsing!Exists, Zenon DEF Parsing!Satisfies, TreeDomain
  <2> QED
    BY <2>1, Zenon
<1>3. \A x : parse_game_tree(x) = parsed[x]
  BY Zenon DEF parse_game_tree, ParseBody
<1> HIDE DEF parsed
<1>4. ParseF = parsed
  BY <1>2, <1>3, Zenon DEF ParseF
<1>5. ASSUME NEW t \in SyntaxTrees PROVE parse_game_tree(t) = ParseBody(0, ParseF, t)
  BY <1>2, <1>3, <1>4, Zenon
<1> QED
  BY <1>5 DEF ParseBody, Each, Flat

LinesBody(p, lines, x) ==
    LET played == PlayedIn(PrintSequence(x.sequence_))
    IN  IF x.sub_trees = <<>> THEN {played}
        ELSE {played \o line : line \in UNION {lines[y] : y \in Range(x.sub_trees)}}

Playing == INSTANCE Recursion
    WITH D <- TreeDomain, Rank <- TreeRank, Good <- NoClaim, Body <- LinesBody

LinesF == [x \in SyntaxTrees |-> LinesOf(x)]

\* The lines of play of a tree.
LEMMA LinesDef ==
  \A t \in SyntaxTrees : LinesOf(t) = 
      LET played == PlayedIn(PrintSequence(t.sequence_))
      IN  IF t.sub_trees = <<>> THEN {played}
          ELSE {played \o line : line \in UNION {LinesF[y] : y \in Range(t.sub_trees)}}
<1> DEFINE lines == CHOOSE f : f = [x \in SyntaxTrees |-> LinesBody(0, f, x)]
<1>1. Playing!WellFounded(0)
  <2> SUFFICES ASSUME NEW g, NEW h, NEW x \in SyntaxTrees,
                      \A y \in SyntaxTrees : TreeRank(0, y) < TreeRank(0, x) => g[y] = h[y]
               PROVE  LinesBody(0, g, x) = LinesBody(0, h, x)
    BY SubTrees DEF Playing!WellFounded, TreeDomain, NoClaim
  <2>1. \A y \in Range(x.sub_trees) : g[y] = h[y]
    BY AgreeBelow
  <2>2. {g[y] : y \in Range(x.sub_trees)} = {h[y] : y \in Range(x.sub_trees)}
    BY <2>1
  <2> QED
    BY <2>2, Zenon DEF LinesBody
<1>2. lines = [x \in SyntaxTrees |-> LinesBody(0, lines, x)]
  <2>1. \E f : f = [x \in SyntaxTrees |-> LinesBody(0, f, x)]
    BY <1>1, Playing!Exists, Zenon DEF Playing!Satisfies, TreeDomain
  <2> QED
    BY <2>1, Zenon
<1>3. \A x : LinesOf(x) = lines[x]
  BY Zenon DEF LinesOf, LinesBody
<1> HIDE DEF lines
<1>4. LinesF = lines
  BY <1>2, <1>3, Zenon DEF LinesF
<1>5. ASSUME NEW t \in SyntaxTrees PROVE LinesOf(t) = LinesBody(0, LinesF, t)
  BY <1>2, <1>3, <1>4, Zenon
<1> QED
  BY <1>5 DEF LinesBody, Each, Flat

EarlyBody(p, early, x) ==
    /\ x.sub_trees # <<>> => Len(PlayedIn(PrintSequence(x.sequence_))) <= 1
    /\ \A y \in Range(x.sub_trees) : early[y]

Branching == INSTANCE Recursion
    WITH D <- TreeDomain, Rank <- TreeRank, Good <- NoClaim, Body <- EarlyBody

EarlyF == [x \in SyntaxTrees |-> BranchesEarly(x)]

\* Where a tree branches.
LEMMA EarlyDef ==
  \A t \in SyntaxTrees : BranchesEarly(t) = 
      (/\ t.sub_trees # <<>> => Len(PlayedIn(PrintSequence(t.sequence_))) <= 1
       /\ \A y \in Range(t.sub_trees) : EarlyF[y])
<1> DEFINE early == CHOOSE f : f = [x \in SyntaxTrees |-> EarlyBody(0, f, x)]
<1>1. Branching!WellFounded(0)
  <2> SUFFICES ASSUME NEW g, NEW h, NEW x \in SyntaxTrees,
                      \A y \in SyntaxTrees : TreeRank(0, y) < TreeRank(0, x) => g[y] = h[y]
               PROVE  EarlyBody(0, g, x) = EarlyBody(0, h, x)
    BY SubTrees DEF Branching!WellFounded, TreeDomain, NoClaim
  <2>1. \A y \in Range(x.sub_trees) : g[y] = h[y]
    BY AgreeBelow
  <2>2. (\A y \in Range(x.sub_trees) : g[y]) = (\A y \in Range(x.sub_trees) : h[y])
    BY <2>1, Zenon
  <2> QED
    BY <2>2, Zenon DEF EarlyBody
<1>2. early = [x \in SyntaxTrees |-> EarlyBody(0, early, x)]
  <2>1. \E f : f = [x \in SyntaxTrees |-> EarlyBody(0, f, x)]
    BY <1>1, Branching!Exists, Zenon DEF Branching!Satisfies, TreeDomain
  <2> QED
    BY <2>1, Zenon
<1>3. \A x : BranchesEarly(x) = early[x]
  BY Zenon DEF BranchesEarly, EarlyBody
<1> HIDE DEF early
<1>4. EarlyF = early
  BY <1>2, <1>3, Zenon DEF EarlyF
<1>5. ASSUME NEW t \in SyntaxTrees PROVE BranchesEarly(t) = EarlyBody(0, EarlyF, t)
  BY <1>2, <1>3, <1>4, Zenon
<1> QED
  BY <1>5 DEF EarlyBody, Each, Flat

FoundBody(p, found, x) ==
    (IF x.move = NoMove THEN <<>> ELSE <<x.move>>)
        \o FlattenSeq([i \in DOMAIN x.next_moves |-> found[x.next_moves[i]]])

Finding == INSTANCE Recursion
    WITH D <- MoveTreeDomain, Rank <- MoveTreeRank, Good <- NoClaim, Body <- FoundBody

FoundF == [x \in MoveTrees |-> MovesIn(x)]

\* The moves of a move tree.
LEMMA FoundDef ==
  \A m \in MoveTrees : MovesIn(m) = 
      (IF m.move = NoMove THEN <<>> ELSE <<m.move>>) \o Flat(m.next_moves, FoundF)
<1> DEFINE found == CHOOSE f : f = [x \in MoveTrees |-> FoundBody(0, f, x)]
<1>1. Finding!WellFounded(0)
  <2> SUFFICES ASSUME NEW g, NEW h, NEW x \in MoveTrees,
                      \A y \in MoveTrees : MoveTreeRank(0, y) < MoveTreeRank(0, x) => g[y] = h[y]
               PROVE  FoundBody(0, g, x) = FoundBody(0, h, x)
    BY NextMoves DEF Finding!WellFounded, MoveTreeDomain, NoClaim
  <2>1. Each(x.next_moves, g) = Each(x.next_moves, h)
    BY MovesAgreeBelow
  <2> QED
    BY <2>1 DEF FoundBody, Each
<1>2. found = [x \in MoveTrees |-> FoundBody(0, found, x)]
  <2>1. \E f : f = [x \in MoveTrees |-> FoundBody(0, f, x)]
    BY <1>1, Finding!Exists, Zenon DEF Finding!Satisfies, MoveTreeDomain
  <2> QED
    BY <2>1, Zenon
<1>3. \A x : MovesIn(x) = found[x]
  BY Zenon DEF MovesIn, FoundBody
<1> HIDE DEF found
<1>4. FoundF = found
  BY <1>2, <1>3, Zenon DEF FoundF
<1>5. ASSUME NEW m \in MoveTrees PROVE MovesIn(m) = FoundBody(0, FoundF, m)
  BY <1>2, <1>3, <1>4, Zenon
<1> QED
  BY <1>5 DEF FoundBody, Each, Flat

ThroughBody(p, lines, x) ==
    LET played == IF x.move = NoMove THEN <<>> ELSE <<x.move>>
    IN  IF x.next_moves = <<>> THEN {played}
        ELSE {played \o line : line \in UNION {lines[y] : y \in Range(x.next_moves)}}

Following == INSTANCE Recursion
    WITH D <- MoveTreeDomain, Rank <- MoveTreeRank, Good <- NoClaim, Body <- ThroughBody

ThroughF == [x \in MoveTrees |-> LinesIn(x)]

\* The lines of play of a move tree.
LEMMA ThroughDef ==
  \A m \in MoveTrees : LinesIn(m) = 
      LET played == IF m.move = NoMove THEN <<>> ELSE <<m.move>>
      IN  IF m.next_moves = <<>> THEN {played}
          ELSE {played \o line : line \in UNION {ThroughF[y] : y \in Range(m.next_moves)}}
<1> DEFINE lines == CHOOSE f : f = [x \in MoveTrees |-> ThroughBody(0, f, x)]
<1>1. Following!WellFounded(0)
  <2> SUFFICES ASSUME NEW g, NEW h, NEW x \in MoveTrees,
                      \A y \in MoveTrees : MoveTreeRank(0, y) < MoveTreeRank(0, x) => g[y] = h[y]
               PROVE  ThroughBody(0, g, x) = ThroughBody(0, h, x)
    BY NextMoves DEF Following!WellFounded, MoveTreeDomain, NoClaim
  <2>1. \A y \in Range(x.next_moves) : g[y] = h[y]
    BY MovesAgreeBelow
  <2>2. {g[y] : y \in Range(x.next_moves)} = {h[y] : y \in Range(x.next_moves)}
    BY <2>1
  <2> QED
    BY <2>2, Zenon DEF ThroughBody
<1>2. lines = [x \in MoveTrees |-> ThroughBody(0, lines, x)]
  <2>1. \E f : f = [x \in MoveTrees |-> ThroughBody(0, f, x)]
    BY <1>1, Following!Exists, Zenon DEF Following!Satisfies, MoveTreeDomain
  <2> QED
    BY <2>1, Zenon
<1>3. \A x : LinesIn(x) = lines[x]
  BY Zenon DEF LinesIn, ThroughBody
<1> HIDE DEF lines
<1>4. ThroughF = lines
  BY <1>2, <1>3, Zenon DEF ThroughF
<1>5. ASSUME NEW m \in MoveTrees PROVE LinesIn(m) = ThroughBody(0, ThroughF, m)
  BY <1>2, <1>3, <1>4, Zenon
<1> QED
  BY <1>5 DEF ThroughBody, Each, Flat

-----------------------------------------------------------------------------
(* What is printed.                                                        *)

NodeText == [node \in Nodes |-> <<Semicolon>> \o node]

\* What the tokens are, and that they differ.
LEMMA TokenTypes ==
  /\ <<Open>> \in Seq(Tokens) /\ <<Close>> \in Seq(Tokens) /\ <<Semicolon>> \in Seq(Tokens)
  /\ \A node \in Nodes : node \in Seq(Properties) /\ node \in Seq(Tokens) /\ node # <<>>
  /\ Makes(NodeText, Nodes, Seq(Tokens))
  /\ Open # Close /\ Open # Semicolon /\ Close # Semicolon
  /\ Junk # Open /\ Junk # Close /\ Junk # Semicolon
  /\ Properties \cap {Open, Close, Semicolon, Junk, NoMove} = {}
<1>1. Open \in Tokens /\ Close \in Tokens /\ Semicolon \in Tokens
  BY DEF Tokens
<1>2. ASSUME NEW node \in Nodes
      PROVE  node \in Seq(Properties) /\ node \in Seq(Tokens) /\ node # <<>>
  <2>1. node \in Seq(Properties) /\ Properties \subseteq Tokens
    BY DEF Nodes, Tokens
  <2>2. node \in Seq(Tokens)
    BY <2>1, SeqMonotonic
  <2> QED
    BY <2>1, <2>2 DEF Nodes
<1>3. <<Semicolon>> \in Seq(Tokens) /\ <<Open>> \in Seq(Tokens) /\ <<Close>> \in Seq(Tokens)
  BY <1>1
<1>4. Makes(NodeText, Nodes, Seq(Tokens))
  <2> SUFFICES ASSUME NEW node \in Nodes PROVE <<Semicolon>> \o node \in Seq(Tokens)
    BY DEF Makes, NodeText
  <2> QED
    BY <1>2, <1>3, ConcatProperties
<1>5. /\ Open # Close /\ Open # Semicolon /\ Close # Semicolon
      /\ Junk # Open /\ Junk # Close /\ Junk # Semicolon
  BY DEF Open, Close, Semicolon, Junk
<1> QED
  BY <1>2, <1>3, <1>4, <1>5, SgfAssumption

\* PrintSequence joins the text of the nodes.
LEMMA PrintSequenceIs ==
  ASSUME NEW nodes \in Seq(Nodes)
  PROVE  /\ PrintSequence(nodes) = Flat(nodes, NodeText)
         /\ PrintSequence(nodes) \in Seq(Tokens)
<1>1. \A i \in DOMAIN nodes : NodeText[nodes[i]] = <<Semicolon>> \o nodes[i]
  BY ElementOfSeq, LenProperties DEF NodeText
<1>2. Each(nodes, NodeText) = [i \in DOMAIN nodes |-> <<Semicolon>> \o nodes[i]]
  BY <1>1, Zenon DEF Each
<1>3. Flat(nodes, NodeText) \in Seq(Tokens)
  BY TokenTypes, FlatType
<1> QED
  BY <1>2, <1>3 DEF PrintSequence, Flat

\* A printed tree is a sequence of tokens.
LEMMA PrintType == \A t \in SyntaxTrees : PrintGameTree(t) \in Seq(Tokens)
<1> DEFINE P == {t \in SyntaxTrees : PrintGameTree(t) \in Seq(Tokens)}
<1>1. ASSUME NEW t \in SyntaxTrees, t.sub_trees \in Seq(P) PROVE t \in P
  <2>1. Makes(PrintF, P, Seq(Tokens))
    BY DEF Makes, PrintF
  <2> HIDE DEF P
  <2>2. Flat(t.sub_trees, PrintF) \in Seq(Tokens)
    BY <1>1, <2>1, FlatType
  <2>3. PrintSequence(t.sequence_) \in Seq(Tokens)
    BY SubTrees, PrintSequenceIs
  <2>4. PrintGameTree(t) = PrintSequence(t.sequence_) \o Flat(t.sub_trees, PrintF)
    BY PrintDef
  <2>5. PrintGameTree(t) \in Seq(Tokens)
    BY <2>2, <2>3, <2>4, ConcatProperties
  <2> QED
    BY <2>5 DEF P
<1>2. SyntaxTrees \subseteq P
  <2> HIDE DEF P
  <2> QED
    BY <1>1, TreeInduction
<1> QED
  BY <1>2

\* The same of the function.
LEMMA PrintMakes == Makes(PrintF, SyntaxTrees, Seq(Tokens))
  BY PrintType DEF Makes, PrintF

\* So is a written tree.
LEMMA WrittenType == \A t \in SyntaxTrees : Written(t) \in Seq(Tokens)
<1> DEFINE P == {t \in SyntaxTrees : Written(t) \in Seq(Tokens)}
<1>1. ASSUME NEW t \in SyntaxTrees, t.sub_trees \in Seq(P) PROVE t \in P
  <2>1. Makes(WrittenF, P, Seq(Tokens))
    BY DEF Makes, WrittenF
  <2> HIDE DEF P
  <2> DEFINE s == PrintSequence(t.sequence_)
             v == Flat(t.sub_trees, WrittenF)
  <2>2. v \in Seq(Tokens)
    BY <1>1, <2>1, FlatType
  <2>3. s \in Seq(Tokens)
    BY SubTrees, PrintSequenceIs
  <2>4. Written(t) = <<Open>> \o s \o v \o <<Close>>
    BY WrittenDef
  <2> HIDE DEF s, v
  <2>5. <<Open>> \o s \in Seq(Tokens)
    BY <2>3, TokenTypes, ConcatProperties
  <2>6. <<Open>> \o s \o v \in Seq(Tokens)
    BY <2>2, <2>5, ConcatProperties
  <2>7. Written(t) \in Seq(Tokens)
    BY <2>4, <2>6, TokenTypes, ConcatProperties
  <2> QED
    BY <2>7 DEF P
<1>2. SyntaxTrees \subseteq P
  <2> HIDE DEF P
  <2> QED
    BY <1>1, TreeInduction
<1> QED
  BY <1>2

\* The moves of a move tree are a sequence of moves.
LEMMA FoundType == \A m \in MoveTrees : MovesIn(m) \in Seq(Moves)
<1> DEFINE P == {m \in MoveTrees : MovesIn(m) \in Seq(Moves)}
<1>1. ASSUME NEW m \in MoveTrees, m.next_moves \in Seq(P) PROVE m \in P
  <2>1. Makes(FoundF, P, Seq(Moves))
    BY DEF Makes, FoundF
  <2> HIDE DEF P
  <2> DEFINE s == IF m.move = NoMove THEN <<>> ELSE <<m.move>>
             v == Flat(m.next_moves, FoundF)
  <2>2. v \in Seq(Moves)
    BY <1>1, <2>1, FlatType
  <2>3. s \in Seq(Moves)
    BY NextMoves, EmptySeq
  <2>4. MovesIn(m) = s \o v
    BY FoundDef
  <2> HIDE DEF s, v
  <2>5. MovesIn(m) \in Seq(Moves)
    BY <2>2, <2>3, <2>4, ConcatProperties
  <2> QED
    BY <2>5 DEF P
<1>2. MoveTrees \subseteq P
  <2> HIDE DEF P
  <2> QED
    BY <1>1, MoveTreeInduction
<1> QED
  BY <1>2

\* The same of the function.
LEMMA FoundMakes == Makes(FoundF, MoveTrees, Seq(Moves))
  BY FoundType DEF Makes, FoundF

-----------------------------------------------------------------------------
(* A move is put at the end of a line.                                     *)

AppendBody(move, with, h) ==
    IF h.next_moves = <<>> THEN [h EXCEPT !.next_moves = <<Single(move)>>]
    ELSE [h EXCEPT !.next_moves[1] = with[@]]

Appending == INSTANCE Recursion
    WITH D <- MoveTreeDomain, Rank <- MoveTreeRank, Good <- NoClaim, Body <- AppendBody

\* The first variation is followed to its end.
LEMMA AppendDef ==
  ASSUME NEW move, NEW h \in MoveTrees
  PROVE  append_move_to_end(h, move) =
           IF h.next_moves = <<>> THEN [h EXCEPT !.next_moves = <<Single(move)>>]
           ELSE [h EXCEPT !.next_moves[1] = append_move_to_end(h.next_moves[1], move)]
<1> DEFINE with == CHOOSE f : f = [x \in MoveTrees |-> AppendBody(move, f, x)]
<1>0. \A x : MoveTreeRank(move, x) = MoveTreeRank(0, x)
  BY DEF MoveTreeRank
<1>1. Appending!WellFounded(move)
  <2> SUFFICES ASSUME NEW g, NEW f, NEW x \in MoveTrees,
                      \A y \in MoveTrees : MoveTreeRank(0, y) < MoveTreeRank(0, x) => g[y] = f[y]
               PROVE  AppendBody(move, g, x) = AppendBody(move, f, x)
    BY <1>0, NextMoves DEF Appending!WellFounded, MoveTreeDomain, NoClaim
  <2>1. CASE x.next_moves = <<>>
    BY <2>1 DEF AppendBody
  <2>2. CASE x.next_moves # <<>>
    <3>1. x.next_moves \in Seq(MoveTrees)
      BY NextMoves
    <3>2. 1 \in DOMAIN x.next_moves
      BY <2>2, <3>1, EmptySeq, LenProperties
    <3>3. g[x.next_moves[1]] = f[x.next_moves[1]]
      BY <3>2, NextMoves
    <3> QED
      BY <2>2, <3>3 DEF AppendBody
  <2> QED
    BY <2>1, <2>2
<1>2. with = [x \in MoveTrees |-> AppendBody(move, with, x)]
  <2>1. \E f : f = [x \in MoveTrees |-> AppendBody(move, f, x)]
    BY <1>1, Appending!Exists, Zenon DEF Appending!Satisfies, MoveTreeDomain
  <2> QED
    BY <2>1, Zenon
<1>3. \A x : append_move_to_end(x, move) = with[x]
  BY Zenon DEF append_move_to_end, AppendBody
<1> HIDE DEF with
<1>4. append_move_to_end(h, move) = AppendBody(move, with, h)
  BY <1>2, <1>3, Zenon
<1> QED
  BY <1>3, <1>4 DEF AppendBody

\* The move trees c[i] are the rest of the line l from its i-th move on.
Chain(c, l) ==
    \A i \in 1 .. Len(l) :
        c[i] = [move |-> l[i], next_moves |-> IF i = Len(l) THEN <<>> ELSE <<c[i + 1]>>]

\* No move is NoMove.
LEMMA NoMoveIsNone == ASSUME NEW x \in Moves PROVE x # NoMove
  BY SgfAssumption DEF Moves

\* One line of play goes through them.
LEMMA ChainIs ==
  ASSUME NEW l \in Seq(Moves), NEW c, Chain(c, l), Len(l) <= MaxNodes, NEW i \in 1 .. Len(l)
  PROVE  /\ c[i] \in MoveTreesTo[Len(l) + 1 - i] /\ c[i] \in MoveTrees
         /\ MovesIn(c[i]) = SubSeq(l, i, Len(l))
         /\ LinesIn(c[i]) = {SubSeq(l, i, Len(l))}
<1> DEFINE n == Len(l)
           Done(k) == /\ c[k] \in MoveTreesTo[n + 1 - k] /\ c[k] \in MoveTrees
                      /\ MovesIn(c[k]) = SubSeq(l, k, n)
                      /\ LinesIn(c[k]) = {SubSeq(l, k, n)}
           P == {k \in Nat : k < n => Done(n - k)}
<1>1. n \in Nat /\ MaxNodes \in Nat /\ n <= MaxNodes
  BY SgfAssumption, LenProperties
<1>2. ASSUME NEW k \in 1 .. n, k < n => Done(k + 1)
      PROVE  Done(k)
  <2> DEFINE next == IF k = n THEN <<>> ELSE <<c[k + 1]>>
             d == n - k
  <2>1. c[k] = [move |-> l[k], next_moves |-> next]
    BY DEF Chain
  <2>2. l[k] \in Moves /\ l[k] # NoMove
    BY NoMoveIsNone, ElementOfSeq
  <2>3. d \in Nat /\ n + 1 - k = d + 1 /\ d + 1 <= MaxNodes /\ (k < n => d = n + 1 - (k + 1))
    BY <1>1
  <2>4. k = n \/ k < n
    BY <1>1
  <2>5. next \in Seq(MoveTreesTo[d])
    <3>1. CASE k = n
      BY <3>1, EmptySeq
    <3>2. CASE k < n
      <4>1. c[k + 1] \in MoveTreesTo[d]
        BY <1>2, <2>3, <3>2
      <4>2. next = <<c[k + 1]>>
        BY <1>1, <3>2
      <4>3. <<c[k + 1]>> \in Seq(MoveTreesTo[d])
        BY <4>1, OneSeq, Zenon
      <4> QED
        BY <4>2, <4>3
    <3> QED
      BY <2>4, <3>1, <3>2
  <2> HIDE DEF d, next
  <2>6. c[k] \in MoveTreesTo[d + 1]
    BY <2>1, <2>2, <2>3, <2>5, MoveTreeParts
  <2>7. c[k] \in MoveTrees
    BY <1>1, <2>3, <2>6, MoveTreesGrow DEF MoveTrees
  <2>8. c[k].move = l[k] /\ c[k].next_moves = next
    BY <2>1
  <2>9. SubSeq(l, k, n) = <<l[k]>> \o SubSeq(l, k + 1, n)
    BY <1>1, SubSeqRecursiveFirst
  <2>10. MovesIn(c[k]) = <<l[k]>> \o Flat(next, FoundF)
    BY <2>2, <2>7, <2>8, FoundDef
  <2>11. LinesIn(c[k]) = IF next = <<>> THEN {<<l[k]>>}
                         ELSE {<<l[k]>> \o line : line \in UNION {ThroughF[y] : y \in Range(next)}}
    BY <2>2, <2>7, <2>8, ThroughDef
  <2>12. <<l[k]>> \in Seq(Moves) /\ <<l[k]>> \o <<>> = <<l[k]>>
    BY <2>2, ConcatEmptySeq
  <2>13. CASE k = n
    <3>1. next = <<>>
      BY <2>13 DEF next
    <3>2. SubSeq(l, k + 1, n) = <<>>
      BY <1>1, <2>13, SubSeqEmpty
    <3>3. SubSeq(l, k, n) = <<l[k]>>
      BY <2>9, <2>12, <3>2
    <3>4. MovesIn(c[k]) = <<l[k]>>
      BY <2>10, <2>12, <3>1, FlatEmpty
    <3>5. LinesIn(c[k]) = {<<l[k]>>}
      BY <2>11, <3>1
    <3> QED
      BY <2>3, <2>6, <2>7, <3>3, <3>4, <3>5
  <2>14. CASE k < n
    <3> DEFINE x == c[k + 1]
               r == SubSeq(l, k + 1, n)
    <3>1. x \in MoveTrees /\ MovesIn(x) = r /\ LinesIn(x) = {r}
      BY <1>2, <2>14
    <3>2. next = <<x>>
      BY <2>14 DEF next
    <3> HIDE DEF x, r
    <3>3. next # <<>> /\ Range(next) = {x}
      BY <3>1, <3>2 DEF Range
    <3>4. FoundF[x] = r /\ ThroughF[x] = {r}
      BY <3>1 DEF FoundF, ThroughF
    <3>5. Flat(next, FoundF) = r
      BY <3>1, <3>2, <3>4, FoundMakes, FlatOne
    <3>6. UNION {ThroughF[y] : y \in Range(next)} = {r}
      BY <3>3, <3>4
    <3>7. LinesIn(c[k]) = {<<l[k]>> \o r}
      BY <2>11, <3>3, <3>6
    <3>8. MovesIn(c[k]) = <<l[k]>> \o r
      BY <2>10, <3>5
    <3>9. SubSeq(l, k, n) = <<l[k]>> \o r
      BY <2>9 DEF r
    <3> QED
      BY <2>3, <2>6, <2>7, <3>7, <3>8, <3>9
  <2> QED
    BY <2>4, <2>13, <2>14
<1>3. 0 \in P
  <2> SUFFICES ASSUME 0 < n PROVE Done(n - 0)
    OBVIOUS
  <2>1. n - 0 = n /\ n \in 1 .. n /\ ~(n < n)
    BY <1>1
  <2> HIDE DEF Done, n
  <2> QED
    BY <1>2, <2>1
<1>4. ASSUME NEW k \in Nat, k \in P PROVE k + 1 \in P
  <2> SUFFICES ASSUME k + 1 < n PROVE Done(n - (k + 1))
    OBVIOUS
  <2>1. n - (k + 1) \in 1 .. n /\ (n - (k + 1)) + 1 = n - k /\ k < n
    BY <1>1
  <2>2. Done(n - k)
    BY <1>4, <2>1
  <2> HIDE DEF Done, n
  <2> QED
    BY <1>2, <2>1, <2>2
<1>5. Nat \subseteq P
  <2> HIDE DEF P
  <2> QED
    BY <1>3, <1>4, Induction
<1>6. Done(i)
  <2>1. n - i \in P /\ n - i < n /\ n - (n - i) = i
    BY <1>1, <1>5
  <2> HIDE DEF Done, n
  <2> QED
    BY <2>1
<1> QED
  BY <1>6

\* A move more.
LEMMA ChainAppend ==
  ASSUME NEW l \in Seq(Moves), NEW c, Chain(c, l), l # <<>>, Len(l) <= MaxNodes, NEW x \in Moves
  PROVE  \E d : Chain(d, Append(l, x)) /\ d[1] = append_move_to_end(c[1], x)
<1> DEFINE n == Len(l)
           m == Append(l, x)
           d == [i \in 1 .. n + 1 |-> IF i <= n THEN append_move_to_end(c[i], x) ELSE Single(x)]
<1>1. /\ n \in Nat \ {0} /\ Len(m) = n + 1 /\ m[n + 1] = x /\ \A i \in 1 .. n : m[i] = l[i]
  BY EmptySeq, AppendProperties
<1> HIDE DEF m
<1>2. ASSUME NEW i \in 1 .. n + 1
      PROVE  d[i] = [move |-> m[i], next_moves |-> IF i = n + 1 THEN <<>> ELSE <<d[i + 1]>>]
  <2>1. CASE i = n + 1
    BY <1>1, <2>1 DEF Single
  <2>2. CASE i = n
    <3>1. c[i] \in MoveTrees /\ c[i] = [move |-> l[i], next_moves |-> <<>>]
      BY <1>1, <2>2, ChainIs DEF Chain
    <3>2. append_move_to_end(c[i], x) = [move |-> l[i], next_moves |-> <<Single(x)>>]
      BY <3>1, AppendDef
    <3>3. d[i] = append_move_to_end(c[i], x) /\ d[i + 1] = Single(x) /\ m[i] = l[i] /\ i # n + 1
      BY <1>1, <2>2
    <3> HIDE DEF d
    <3> QED
      BY <3>2, <3>3
  <2>3. CASE i < n
    <3>0. i \in 1 .. n /\ i # n
      BY <1>1, <2>3
    <3>1. c[i] \in MoveTrees /\ c[i] = [move |-> l[i], next_moves |-> <<c[i + 1]>>]
      <4>1. c[i] \in MoveTrees
        BY <3>0, ChainIs
      <4> QED
        BY <3>0, <4>1 DEF Chain
    <3>2. <<c[i + 1]>> # <<>> /\ <<c[i + 1]>>[1] = c[i + 1]
          /\ \A y : [<<c[i + 1]>> EXCEPT ![1] = y] = <<y>>
      OBVIOUS
    <3>3. append_move_to_end(c[i], x) =
             [c[i] EXCEPT !.next_moves[1] = append_move_to_end(c[i].next_moves[1], x)]
      BY <3>1, <3>2, AppendDef
    <3>4. append_move_to_end(c[i], x) =
             [move |-> l[i], next_moves |-> <<append_move_to_end(c[i + 1], x)>>]
      BY <3>1, <3>2, <3>3
    <3>5. /\ d[i] = append_move_to_end(c[i], x) /\ d[i + 1] = append_move_to_end(c[i + 1], x)
          /\ m[i] = l[i] /\ i # n + 1
      BY <1>1, <2>3
    <3> HIDE DEF d
    <3> QED
      BY <3>4, <3>5
  <2> QED
    BY <1>1, <2>1, <2>2, <2>3
<1>3. d[1] = append_move_to_end(c[1], x)
  BY <1>1
<1> HIDE DEF d, n
<1>4. Chain(d, m)
  BY <1>1, <1>2 DEF Chain
<1> QED
  BY <1>3, <1>4 DEF m

-----------------------------------------------------------------------------
(* The move tree of a sequence, and of a syntax tree.                      *)

\* The nodes with one move or none.
SmallNodes == {node \in Nodes : Len(Keep(node, Moves)) <= 1}

NodeMove == [node \in Nodes |-> parse_node(node)]
NodePlayed == [node \in Nodes |-> PlayedIn(NodeText[node])]

\* The move of a node is the first that is kept of it, if any is.
LEMMA PlayedInNode ==
  ASSUME NEW node \in Nodes
  PROVE  /\ NodePlayed[node] = Keep(node, Moves) /\ Keep(node, Moves) \in Seq(Moves)
         /\ HasMove(node) <=> Keep(node, Moves) # <<>>
         /\ HasMove(node) => NodeMove[node] = Keep(node, Moves)[1] /\ NodeMove[node] \in Moves
<1>1. node \in Seq(Properties) /\ node \in Seq(Tokens) /\ <<Semicolon>> \in Seq(Tokens)
  BY TokenTypes
<1>2. Keep(node, Moves) \in Seq(Moves)
      /\ (Keep(node, Moves) # <<>> <=> \E i \in DOMAIN node : node[i] \in Moves)
  BY <1>1, KeepWhat
<1>3. HasMove(node) <=> \E i \in DOMAIN node : node[i] \in Moves
  <2>1. \A i \in DOMAIN node : node[i] \in Properties
    BY <1>1, ElementOfSeq, LenProperties
  <2> QED
    BY <2>1 DEF HasMove, Moves
<1>4. Keep(<<Semicolon>>, Moves) = <<>>
  <2>1. <<Semicolon>> \in Seq({Semicolon}) /\ {Semicolon} \cap Moves = {}
    BY OneSeq, TokenTypes DEF Moves
  <2>2. \A s \in Seq({Semicolon}) : {Semicolon} \cap Moves = {} => Keep(s, Moves) = <<>>
    BY KeepAll
  <2> QED
    BY <2>1, <2>2, Zenon
<1>5. PlayedIn(<<Semicolon>> \o node) = Keep(node, Moves)
  <2>0. \A s \in Seq(Tokens) : Keep(s \o node, Moves) = Keep(s, Moves) \o Keep(node, Moves)
    BY <1>1, KeepConcat
  <2>1. Keep(<<Semicolon>> \o node, Moves) = Keep(<<Semicolon>>, Moves) \o Keep(node, Moves)
    BY <1>1, <2>0, Zenon
  <2> QED
    BY <1>2, <1>4, <2>1, ConcatEmptySeq DEF PlayedIn
<1>6. NodePlayed[node] = Keep(node, Moves)
  BY <1>5 DEF NodePlayed, NodeText
<1>7. NodeMove[node] = Keep(node, Moves)[1]
  BY DEF NodeMove, parse_node
<1>8. Keep(node, Moves) # <<>> => Keep(node, Moves)[1] \in Moves
  BY <1>2, EmptySeq, ElementOfSeq
<1> QED
  BY <1>2, <1>3, <1>6, <1>7, <1>8

\* The moves of the nodes that have one.
LEMMA MoveListIs ==
  ASSUME NEW nodes \in Seq(Nodes)
  PROVE  /\ MoveList(nodes) \in Seq(Moves) /\ Len(MoveList(nodes)) \in 0 .. Len(nodes)
         /\ MoveList(nodes) = Each(Keep(nodes, {node \in Nodes : HasMove(node)}), NodeMove)
<1> DEFINE H == {node \in Nodes : HasMove(node)}
           K == {node \in Range(nodes) : HasMove(node)}
           played == Keep(nodes, K)
<1>1. nodes \in Seq(Range(nodes)) /\ Range(nodes) \subseteq Nodes
  BY SeqOfRange, RangeOfSeq
<1>2. Keep(nodes, K) = Keep(nodes, H)
  <2>1. \A x \in Range(nodes) : x \in K <=> x \in H
    BY <1>1
  <2> HIDE DEF H, K
  <2> QED
    BY <1>1, <2>1, KeepSame
<1>3. played \in Seq(H) /\ Len(played) \in 0 .. Len(nodes)
  <2> HIDE DEF H, K
  <2> QED
    BY <1>2, KeepWhat
<1>4. Makes(NodeMove, H, Moves)
  BY PlayedInNode DEF Makes
<1> HIDE DEF played
<1>5. Each(played, NodeMove) \in Seq(Moves) /\ Len(Each(played, NodeMove)) = Len(played)
  <2> HIDE DEF H
  <2> QED
    BY <1>3, <1>4, EachOf
<1>6. \A i \in DOMAIN played : NodeMove[played[i]] = parse_node(played[i])
  <2>1. \A i \in DOMAIN played : played[i] \in H
    <3> HIDE DEF H
    <3> QED
      BY <1>3, ElementOfSeq, LenProperties
  <2> QED
    BY <2>1 DEF NodeMove
<1>7. MoveList(nodes) = Each(played, NodeMove)
  BY <1>6, Zenon DEF MoveList, Each, played
<1> QED
  BY <1>2, <1>3, <1>5, <1>7 DEF played

\* If no node has two of them they are all the moves there are.
LEMMA MoveListSmall ==
  ASSUME NEW nodes \in Seq(SmallNodes)
  PROVE  MoveList(nodes) = PlayedIn(PrintSequence(nodes))
<1> DEFINE H == {node \in Nodes : HasMove(node)}
           P == {s \in Seq(SmallNodes) : Each(Keep(s, H), NodeMove) = Flat(s, NodePlayed)}
<1>0. SmallNodes \subseteq Nodes /\ nodes \in Seq(Nodes)
  BY SeqMonotonic DEF SmallNodes
<1>a. Makes(NodePlayed, SmallNodes, Seq(Moves)) /\ Makes(NodeMove, H, Moves)
  BY <1>0, PlayedInNode DEF Makes
<1>1. <<>> \in P
  BY KeepEmpty, EachEmpty, FlatEmpty, EmptySeq
<1>2. ASSUME NEW s \in Seq(SmallNodes), NEW x \in SmallNodes, s \in P PROVE Append(s, x) \in P
  <2>1. Keep(Append(s, x), H) = IF x \in H THEN Append(Keep(s, H), x) ELSE Keep(s, H)
    BY KeepAppend
  <2>2. Flat(Append(s, x), NodePlayed) = Flat(s, NodePlayed) \o NodePlayed[x]
    BY <1>a, FlatAppend
  <2>3. Flat(s, NodePlayed) \in Seq(Moves)
    BY <1>a, FlatType
  <2>4. Each(Keep(s, H), NodeMove) = Flat(s, NodePlayed) /\ Append(s, x) \in Seq(SmallNodes)
    BY <1>2, AppendProperties
  <2>5. /\ x \in Nodes /\ Len(Keep(x, Moves)) <= 1 /\ Keep(x, Moves) \in Seq(Moves)
        /\ NodePlayed[x] = Keep(x, Moves) /\ (x \in H <=> Keep(x, Moves) # <<>>)
        /\ x \in H => NodeMove[x] = Keep(x, Moves)[1] /\ NodeMove[x] \in Moves
    BY PlayedInNode DEF SmallNodes
  <2>6. Keep(s, H) \in Seq(H)
    BY KeepWhat
  <2> HIDE DEF H
  <2>7. CASE x \in H
    <3>1. Each(Append(Keep(s, H), x), NodeMove) = Append(Each(Keep(s, H), NodeMove), NodeMove[x])
      BY <1>a, <2>6, <2>7, EachAppend
    <3>2. Len(Keep(x, Moves)) = 1
      <4>1. Len(Keep(x, Moves)) \in Nat \ {0}
        BY <2>5, <2>7, EmptySeq
      <4>2. Len(Keep(x, Moves)) <= 1
        BY <2>5
      <4>3. \A k \in Nat \ {0} : k <= 1 => k = 1
        OBVIOUS
      <4> QED
        BY <4>1, <4>2, <4>3, Zenon
    <3>3. NodePlayed[x] = <<NodeMove[x]>>
      BY <2>5, <2>7, <3>2, OneElement
    <3>4. Append(Flat(s, NodePlayed), NodeMove[x]) = Flat(s, NodePlayed) \o <<NodeMove[x]>>
      BY <2>3, <2>5, <2>7, AppendIsConcat
    <3> QED
      BY <2>1, <2>2, <2>4, <2>7, <3>1, <3>3, <3>4
  <2>8. CASE x \notin H
    <3>1. NodePlayed[x] = <<>>
      BY <2>5, <2>8
    <3>2. Flat(s, NodePlayed) \o <<>> = Flat(s, NodePlayed)
      BY <2>3, ConcatEmptySeq
    <3> QED
      BY <2>1, <2>2, <2>4, <2>8, <3>1, <3>2
  <2> QED
    BY <2>7, <2>8
<1>3. Seq(SmallNodes) \subseteq P
  <2> HIDE DEF P
  <2> QED
    BY <1>1, <1>2, AlongSequence
<1>4. PlayedIn(PrintSequence(nodes)) = Flat(nodes, NodePlayed)
  <2>1. \A node \in Nodes : NodePlayed[node] = Keep(NodeText[node], Moves)
    BY DEF NodePlayed, PlayedIn
  <2>2. Keep(Flat(nodes, NodeText), Moves) = Flat(nodes, NodePlayed)
    BY <1>0, <2>1, TokenTypes, KeepFlat
  <2> QED
    BY <1>0, <2>2, PrintSequenceIs DEF PlayedIn
<1> QED
  BY <1>0, <1>3, <1>4, MoveListIs

LineDomain(list) == 1 .. Len(list)
LineBody(list, line, i) ==
    IF i = 1 THEN Single(list[1]) ELSE append_move_to_end(line[i - 1], list[i])

Lining == INSTANCE Recursion
    WITH D <- LineDomain, Rank <- JoinRank, Good <- NoClaim, Body <- LineBody

\* The moves of a sequence become a line.
LEMMA ParsedLine ==
  ASSUME NEW nodes \in Seq(Nodes), MoveList(nodes) # <<>>, Len(nodes) <= MaxNodes
  PROVE  \E c : Chain(c, MoveList(nodes)) /\ c[1] = parse_sequence(nodes)
<1> DEFINE list == MoveList(nodes)
           n == Len(list)
           line == CHOOSE f : f = [i \in 1 .. n |-> LineBody(list, f, i)]
<1>1. list \in Seq(Moves) /\ n \in Nat \ {0} /\ n <= MaxNodes /\ \A i \in 1 .. n : list[i] \in Moves
  <2>1. list \in Seq(Moves) /\ n \in 0 .. Len(nodes) /\ Len(nodes) \in Nat /\ MaxNodes \in Nat
    BY MoveListIs, LenProperties, SgfAssumption
  <2> HIDE DEF list
  <2>2. n # 0
    BY <2>1, EmptySeq DEF list
  <2> QED
    BY <2>1, <2>2, ElementOfSeq
<1>2. parse_sequence(nodes) = line[n]
  BY Zenon DEF parse_sequence, LineBody
<1> HIDE DEF list
<1>3. Lining!WellFounded(list)
  <2> SUFFICES ASSUME NEW g, NEW h, NEW i \in 1 .. n, \A k \in 1 .. n : k < i => g[k] = h[k]
               PROVE  LineBody(list, g, i) = LineBody(list, h, i)
    BY <1>1 DEF Lining!WellFounded, LineDomain, JoinRank, NoClaim
  <2>1. CASE i = 1
    BY <2>1 DEF LineBody
  <2>2. CASE i # 1
    <3>1. i - 1 \in 1 .. n /\ i - 1 < i
      BY <1>1, <2>2
    <3>2. g[i - 1] = h[i - 1]
      BY <3>1
    <3> QED
      BY <2>2, <3>2 DEF LineBody
  <2> QED
    BY <2>1, <2>2
<1>4. line = [i \in 1 .. n |-> LineBody(list, line, i)]
  <2>1. \E f : f = [i \in 1 .. n |-> LineBody(list, f, i)]
    BY <1>3, Lining!Exists, Zenon DEF Lining!Satisfies, LineDomain
  <2> QED
    BY <2>1, Zenon
<1> HIDE DEF line
<1>5. \A i \in 1 .. n : line[i] = LineBody(list, line, i)
  BY <1>4, Zenon
<1> HIDE DEF n
<1> DEFINE P == {i \in Nat : i \in 1 .. n => \E c : Chain(c, SubSeq(list, 1, i)) /\ c[1] = line[i]}
<1>6. 0 \in P
  OBVIOUS
<1>7. ASSUME NEW i \in Nat, i \in P PROVE i + 1 \in P
  <2> SUFFICES ASSUME i + 1 \in 1 .. n
               PROVE  \E c : Chain(c, SubSeq(list, 1, i + 1)) /\ c[1] = line[i + 1]
    OBVIOUS
  <2>1. SubSeq(list, 1, i) \in Seq(Moves) /\ Len(SubSeq(list, 1, i)) = i
    <3>1. \A k \in 1 .. i : list[k] \in Moves
      BY <1>1 DEF n
    <3> QED
      BY <3>1, SubSeqProperties
  <2>2. list[i + 1] \in Moves
    BY <1>1
  <2>3. SubSeq(list, 1, i + 1) = Append(SubSeq(list, 1, i), list[i + 1])
    <3>1. i + 1 \in 1 .. Len(list) /\ 1 \in 1 .. Len(list) /\ i + 1 \in 1 .. Len(list) /\ (i + 1) - 1 = i
      BY <1>1 DEF n
    <3>2. SubSeq(list, 1, i + 1) = SubSeq(list, 1, (i + 1) - 1) \o <<list[i + 1]>>
      BY <1>1, <3>1, SubSeqRecursiveSecond
    <3> QED
      BY <2>1, <2>2, <3>1, <3>2, AppendIsConcat
  <2>4. CASE i = 0
    <3> DEFINE c == [k \in 1 .. 1 |-> Single(list[1])]
    <3>1. line[i + 1] = Single(list[1])
      BY <1>5, <2>4 DEF LineBody
    <3>2. SubSeq(list, 1, i) = <<>>
      BY <2>1, <2>4, EmptySeq
    <3>3. SubSeq(list, 1, i + 1) = <<list[1]>>
      <4>1. list[i + 1] = list[1]
        BY <2>4
      <4>2. Append(<<>>, list[1]) = <<list[1]>>
        OBVIOUS
      <4> QED
        BY <2>3, <3>2, <4>1, <4>2, Zenon
    <3>4. Chain(c, <<list[1]>>)
      BY DEF Chain, Single
    <3>5. c[1] = Single(list[1])
      OBVIOUS
    <3> HIDE DEF c
    <3> QED
      BY <3>1, <3>3, <3>4, <3>5
  <2>5. CASE i # 0
    <3>1. i \in 1 .. n
      BY <1>1, <2>5
    <3>2. PICK c : Chain(c, SubSeq(list, 1, i)) /\ c[1] = line[i]
      BY <1>7, <3>1
    <3>3. line[i + 1] = append_move_to_end(line[i], list[i + 1])
      <4>1. i + 1 # 1 /\ (i + 1) - 1 = i
        BY <2>5
      <4> QED
        BY <1>5, <4>1 DEF LineBody
    <3>4. SubSeq(list, 1, i) # <<>> /\ Len(SubSeq(list, 1, i)) <= MaxNodes
      <4>1. i <= MaxNodes /\ i # 0
        BY <1>1, <2>5, <3>1, SgfAssumption
      <4>2. SubSeq(list, 1, i) = <<>> => Len(SubSeq(list, 1, i)) = 0
        BY EmptySeq
      <4> QED
        BY <2>1, <4>1, <4>2
    <3>5. PICK d : Chain(d, Append(SubSeq(list, 1, i), list[i + 1]))
                   /\ d[1] = append_move_to_end(c[1], list[i + 1])
      BY <2>1, <2>2, <3>2, <3>4, ChainAppend
    <3> QED
      BY <2>3, <3>2, <3>3, <3>5
  <2> QED
    BY <2>4, <2>5
<1>8. Nat \subseteq P
  <2> HIDE DEF P
  <2> QED
    BY <1>6, <1>7, Induction
<1>9. PICK c : Chain(c, SubSeq(list, 1, n)) /\ c[1] = line[n]
  <2>1. n \in P /\ n \in 1 .. n
    BY <1>1, <1>8
  <2> QED
    BY <2>1
<1>10. SubSeq(list, 1, n) = list
  BY <1>1, SubSeqFull DEF n
<1> QED
  BY <1>2, <1>9, <1>10 DEF list

\* What the move tree of a sequence is.
LEMMA ParsedSequence ==
  ASSUME NEW nodes \in Seq(Nodes), NEW d \in Nat, Len(nodes) \in 0 .. d + 1, d + 1 <= MaxNodes
  PROVE  LET m == parse_sequence(nodes)
             list == MoveList(nodes)
         IN  /\ m \in MoveTreesTo[d + 1] /\ m \in MoveTrees
             /\ m = [move |-> m.move, next_moves |-> m.next_moves]
             /\ m.next_moves \in Seq(MoveTreesTo[d])
             /\ MovesIn(m) = list /\ LinesIn(m) = {list}
             /\ Len(list) <= 1 => m = Single(IF list = <<>> THEN NoMove ELSE list[1])
             /\ list = <<>> <=> m.move = NoMove
<1> DEFINE m == parse_sequence(nodes)
           list == MoveList(nodes)
           n == Len(list)
<1>1. list \in Seq(Moves) /\ n \in 0 .. Len(nodes) /\ n \in Nat /\ MaxNodes \in Nat
  BY MoveListIs, LenProperties, SgfAssumption
<1>2. MoveTreesTo[d + 1] \subseteq MoveTrees
  BY <1>1, MoveTreesGrow DEF MoveTrees
<1>3. /\ m \in MoveTreesTo[d + 1]
      /\ MovesIn(m) = list /\ LinesIn(m) = {list}
      /\ n <= 1 => m = Single(IF list = <<>> THEN NoMove ELSE list[1])
      /\ list = <<>> <=> m.move = NoMove
  <2>1. CASE list = <<>>
    <3>1. m = Single(NoMove)
      BY <2>1, Zenon DEF parse_sequence
    <3>2. m \in MoveTreesTo[d + 1]
      <4>1. <<>> \in Seq(MoveTreesTo[d])
        BY EmptySeq
      <4>2. [move |-> NoMove, next_moves |-> <<>>] \in MoveTreesTo[d + 1]
        BY <4>1, MoveTreeParts
      <4> QED
        BY <3>1, <4>2, Zenon DEF Single
    <3>3. m.move = NoMove /\ m.next_moves = <<>>
      BY <3>1 DEF Single
    <3> HIDE DEF m
    <3>4. MovesIn(m) = <<>> \o Flat(<<>>, FoundF)
      BY <1>2, <3>2, <3>3, FoundDef
    <3>5. MovesIn(m) = <<>>
      BY <3>4, FlatEmpty, ConcatEmptySeq, EmptySeq
    <3>6. LinesIn(m) = {<<>>}
      BY <1>2, <3>2, <3>3, ThroughDef
    <3> HIDE DEF list
    <3> QED
      BY <2>1, <3>1, <3>2, <3>3, <3>5, <3>6
  <2>2. CASE list # <<>>
    <3>1. n \in Nat \ {0} /\ n <= MaxNodes /\ Len(nodes) <= MaxNodes /\ n <= d + 1 /\ 1 \in 1 .. n
      <4>1. n # 0
        BY <1>1, <2>2, EmptySeq
      <4> HIDE DEF n
      <4> QED
        BY <1>1, <4>1
    <3>2. PICK c : Chain(c, list) /\ c[1] = m
      BY <2>2, <3>1, ParsedLine
    <3> HIDE DEF m, list
    <3>3. /\ c[1] \in MoveTreesTo[n + 1 - 1] /\ c[1] \in MoveTrees
          /\ MovesIn(c[1]) = SubSeq(list, 1, n) /\ LinesIn(c[1]) = {SubSeq(list, 1, n)}
      BY <1>1, <3>1, <3>2, ChainIs
    <3>4. SubSeq(list, 1, n) = list
      BY <1>1, SubSeqFull
    <3>5. c[1] \in MoveTreesTo[d + 1]
      <4>1. n + 1 - 1 \in Nat /\ n + 1 - 1 <= d + 1
        BY <3>1
      <4> HIDE DEF n
      <4> QED
        BY <3>3, <4>1, MoveTreesGrow
    <3>6. c[1].move = list[1] /\ list[1] \in Moves /\ list[1] # NoMove
      <4>1. list[1] \in Moves
        BY <1>1, <3>1, ElementOfSeq
      <4>2. c[1] = [move |-> list[1], next_moves |-> IF 1 = n THEN <<>> ELSE <<c[1 + 1]>>]
        BY <3>1, <3>2, Zenon DEF Chain
      <4> QED
        BY <4>1, <4>2, NoMoveIsNone
    <3>7. n <= 1 => c[1] = Single(list[1])
      <4> SUFFICES ASSUME n <= 1 PROVE c[1] = Single(list[1])
        OBVIOUS
      <4>1. n = 1
        <5>1. \A k \in Nat \ {0} : k <= 1 => k = 1
          OBVIOUS
        <5> QED
          BY <3>1, <5>1, Zenon
      <4>2. c[1] = [move |-> list[1], next_moves |-> IF 1 = n THEN <<>> ELSE <<c[1 + 1]>>]
        BY <3>1, <3>2, Zenon DEF Chain
      <4> QED
        BY <4>1, <4>2 DEF Single
    <3> HIDE DEF n
    <3> QED
      BY <2>2, <3>2, <3>3, <3>4, <3>5, <3>6, <3>7
  <2> QED
    BY <2>1, <2>2
<1> HIDE DEF m, list
<1>4. m = [move |-> m.move, next_moves |-> m.next_moves] /\ m.next_moves \in Seq(MoveTreesTo[d])
  BY <1>3, MoveTreeParts
<1> QED
  BY <1>2, <1>3, <1>4 DEF m, list

\* The move tree of a syntax tree is no deeper than that.
LEMMA ParseType ==
  ASSUME NEW n \in Nat, n <= MaxNodes
  PROVE  \A t \in TreesTo[n] : parse_game_tree(t) \in MoveTreesTo[n]
<1> DEFINE P == {d \in Nat : d <= MaxNodes =>
                    \A t \in TreesTo[d] : parse_game_tree(t) \in MoveTreesTo[d]}
<1>1. 0 \in P
  BY TreesDef
<1>2. ASSUME NEW d \in Nat, d \in P PROVE d + 1 \in P
  <2> SUFFICES ASSUME d + 1 <= MaxNodes, NEW t \in TreesTo[d + 1]
               PROVE  parse_game_tree(t) \in MoveTreesTo[d + 1]
    OBVIOUS
  <2>1. /\ t.sequence_ \in Seq(Nodes) /\ Len(t.sequence_) \in 0 .. d + 1
        /\ t.sub_trees \in Seq(TreesTo[d])
    BY TreeParts
  <2>2. MaxNodes \in Nat /\ d <= MaxNodes /\ d + 1 \in Nat
    BY SgfAssumption
  <2>3. t \in SyntaxTrees /\ TreesTo[d] \subseteq SyntaxTrees
    BY <2>2, TreesGrow DEF SyntaxTrees
  <2> DEFINE m == parse_sequence(t.sequence_)
             v == Each(t.sub_trees, ParseF)
  <2>4. m = [move |-> m.move, next_moves |-> m.next_moves]
        /\ m.move \in Moves \cup {NoMove} /\ m.next_moves \in Seq(MoveTreesTo[d])
    <3>1. m \in MoveTreesTo[d + 1]
      BY <2>1, ParsedSequence
    <3> HIDE DEF m
    <3> QED
      BY <3>1, MoveTreeParts
  <2>5. Makes(ParseF, TreesTo[d], MoveTreesTo[d])
    BY <1>2, <2>2, <2>3 DEF Makes, ParseF
  <2>6. v \in Seq(MoveTreesTo[d])
    BY <2>1, <2>5, EachOf
  <2>7. parse_game_tree(t) = [m EXCEPT !.next_moves = @ \o v]
    BY <2>3, ParseDef
  <2> HIDE DEF m, v
  <2>8. m.next_moves \o v \in Seq(MoveTreesTo[d])
    BY <2>4, <2>6, ConcatProperties
  <2>9. parse_game_tree(t) = [move |-> m.move, next_moves |-> m.next_moves \o v]
    BY <2>4, <2>7
  <2> QED
    BY <2>4, <2>8, <2>9, MoveTreeParts, ZenonT(60)
<1>3. Nat \subseteq P
  <2> HIDE DEF P
  <2> QED
    BY <1>1, <1>2, Induction
<1> QED
  BY <1>3

\* The move tree of a syntax tree, by those of its variations.
LEMMA ParsedTree ==
  ASSUME MaxNodes >= 1, NEW t \in SyntaxTrees
  PROVE  LET m == parse_sequence(t.sequence_)
             next == m.next_moves \o Each(t.sub_trees, ParseF)
         IN  /\ parse_game_tree(t) \in MoveTrees
             /\ parse_game_tree(t).move = m.move /\ parse_game_tree(t).next_moves = next
             /\ m \in MoveTrees /\ m.next_moves \in Seq(MoveTrees)
             /\ MovesIn(m) = MoveList(t.sequence_) /\ LinesIn(m) = {MoveList(t.sequence_)}
             /\ Len(MoveList(t.sequence_)) <= 1 => m.next_moves = <<>>
             /\ MoveList(t.sequence_) \in Seq(Moves)
<1> DEFINE m == parse_sequence(t.sequence_)
<1>1. PICK d \in Nat : d + 1 = MaxNodes
  <2>1. MaxNodes - 1 \in Nat /\ (MaxNodes - 1) + 1 = MaxNodes
    BY SgfAssumption
  <2> QED
    BY <2>1
<1>2. t.sequence_ \in Seq(Nodes) /\ Len(t.sequence_) \in 0 .. d + 1
  <2>1. CASE t = Empty
    BY <2>1, EmptySeq DEF Empty
  <2>2. CASE t \in TreesTo[MaxNodes]
    BY <1>1, <2>2, TreeParts
  <2> QED
    BY <2>1, <2>2 DEF SyntaxTrees
<1>3. /\ m \in MoveTreesTo[d + 1] /\ m \in MoveTrees
      /\ m = [move |-> m.move, next_moves |-> m.next_moves]
      /\ MovesIn(m) = MoveList(t.sequence_) /\ LinesIn(m) = {MoveList(t.sequence_)}
      /\ Len(MoveList(t.sequence_)) <= 1 => m.next_moves = <<>>
  <2>1. d + 1 <= MaxNodes
    BY <1>1
  <2> QED
    BY <1>2, <2>1, ParsedSequence DEF Single
<1>4. parse_game_tree(t) = [m EXCEPT !.next_moves = @ \o Each(t.sub_trees, ParseF)]
  BY ParseDef
<1> HIDE DEF m
<1>5. /\ parse_game_tree(t).move = m.move
      /\ parse_game_tree(t).next_moves = m.next_moves \o Each(t.sub_trees, ParseF)
      /\ parse_game_tree(t) = [move |-> m.move, next_moves |-> m.next_moves \o Each(t.sub_trees, ParseF)]
  BY <1>3, <1>4
<1>6. m.next_moves \in Seq(MoveTrees)
  BY <1>3, NextMoves
<1>7. parse_game_tree(t) \in MoveTrees
  <2>1. CASE t = Empty
    <3>1. Each(t.sub_trees, ParseF) = <<>>
      BY <2>1, EachEmpty DEF Empty
    <3>2. m.next_moves \o <<>> = m.next_moves
      BY <1>6, ConcatEmptySeq
    <3> QED
      BY <1>3, <1>5, <3>1, <3>2
  <2>2. CASE t \in TreesTo[MaxNodes]
    BY <2>2, ParseType, SgfAssumption DEF MoveTrees
  <2> QED
    BY <2>1, <2>2 DEF SyntaxTrees
<1>8. MoveList(t.sequence_) \in Seq(Moves)
  BY <1>2, MoveListIs
<1> QED
  BY <1>3, <1>5, <1>6, <1>7, <1>8 DEF m

-----------------------------------------------------------------------------
(* The moves and the lines of the move tree.                               *)

\* What h makes of what g made.
LEMMA EachEach ==
  ASSUME NEW A, NEW B, NEW g, NEW h, NEW k, Makes(g, A, B), NEW s \in Seq(A),
         \A x \in A : k[x] = h[g[x]]
  PROVE  Each(Each(s, g), h) = Each(s, k)
<1>1. DOMAIN s = 1 .. Len(s) /\ \A i \in DOMAIN s : s[i] \in A
  BY LenProperties, ElementOfSeq
<1>2. Each(s, g) = [i \in DOMAIN s |-> g[s[i]]]
  BY DEF Each
<1>3. DOMAIN Each(s, g) = DOMAIN s /\ \A i \in DOMAIN s : h[Each(s, g)[i]] = k[s[i]]
  BY <1>1, <1>2
<1>4. Each(Each(s, g), h) = [i \in DOMAIN Each(s, g) |-> h[Each(s, g)[i]]]
  BY DEF Each
<1>5. Each(s, k) = [i \in DOMAIN s |-> k[s[i]]]
  BY DEF Each
<1> HIDE DEF Each
<1> QED
  BY <1>3, <1>4, <1>5

\* The trees whose moves are all in the move tree, and those whose lines of play are.
WithMoves == {t \in SyntaxTrees : MovesIn(parse_game_tree(t)) = PlayedIn(PrintGameTree(t))}
WithLines == {t \in SyntaxTrees : BranchesEarly(t) => LinesIn(parse_game_tree(t)) = LinesOf(t)}

\* A tree is among them if its variations are and no node has two moves.
LEMMA MovesFound ==
  ASSUME MaxNodes >= 1, NEW t \in SyntaxTrees,
         t.sequence_ \in Seq(SmallNodes), t.sub_trees \in Seq(WithMoves)
  PROVE  t \in WithMoves
<1> DEFINE subs == t.sub_trees
           m == parse_sequence(t.sequence_)
           p == parse_game_tree(t)
           v == Each(subs, ParseF)
           h == IF m.move = NoMove THEN <<>> ELSE <<m.move>>
           list == MoveList(t.sequence_)
           played == [x \in SyntaxTrees |-> Keep(PrintF[x], Moves)]
<1>1. /\ p \in MoveTrees /\ p.move = m.move /\ p.next_moves = m.next_moves \o v
      /\ m \in MoveTrees /\ m.next_moves \in Seq(MoveTrees) /\ MovesIn(m) = list
      /\ list \in Seq(Moves)
  BY ParsedTree
<1>2. WithMoves \subseteq SyntaxTrees /\ subs \in Seq(WithMoves) /\ subs \in Seq(SyntaxTrees)
  BY SubTrees DEF WithMoves
<1>3. \A x \in SyntaxTrees : ParseF[x] = parse_game_tree(x) /\ ParseF[x] \in MoveTrees
                             /\ FoundF[ParseF[x]] = MovesIn(ParseF[x])
  BY ParsedTree DEF ParseF, FoundF
<1>4. Makes(ParseF, WithMoves, MoveTrees)
  BY <1>2, <1>3 DEF Makes
<1>5. v \in Seq(MoveTrees)
  BY <1>2, <1>4, EachOf
<1>6. Flat(v, FoundF) = Flat(subs, played)
  <2>1. \A x \in WithMoves : played[x] = FoundF[ParseF[x]]
    <3> SUFFICES ASSUME NEW x \in WithMoves PROVE played[x] = FoundF[ParseF[x]]
      OBVIOUS
    <3>1. x \in SyntaxTrees /\ MovesIn(parse_game_tree(x)) = PlayedIn(PrintGameTree(x))
      BY DEF WithMoves
    <3>2. played[x] = PlayedIn(PrintGameTree(x))
      BY <3>1 DEF PlayedIn, PrintF
    <3> HIDE DEF played
    <3> QED
      BY <1>3, <3>1, <3>2
  <2> HIDE DEF played, subs
  <2>2. Each(Each(subs, ParseF), FoundF) = Each(subs, played)
    BY <1>2, <1>4, <2>1, EachEach
  <2> QED
    BY <2>2 DEF Flat
<1>7. MovesIn(p) = h \o Flat(m.next_moves \o v, FoundF)
  <2> HIDE DEF p, m, v
  <2> QED
    BY <1>1, FoundDef DEF h
<1>8. MovesIn(m) = h \o Flat(m.next_moves, FoundF)
  <2> HIDE DEF m
  <2> QED
    BY <1>1, FoundDef DEF h
<1>9. h \in Seq(Moves)
  <2> HIDE DEF m
  <2> QED
    BY <1>1, NextMoves, EmptySeq
<1>10. Flat(m.next_moves \o v, FoundF) = Flat(m.next_moves, FoundF) \o Flat(v, FoundF)
  <2> HIDE DEF m, v
  <2> QED
    BY <1>1, <1>5, FoundMakes, FlatConcat, SMTT(30)
<1>11. Flat(m.next_moves, FoundF) \in Seq(Moves) /\ Flat(v, FoundF) \in Seq(Moves)
  <2> HIDE DEF m, v
  <2> QED
    BY <1>1, <1>5, FoundMakes, FlatType
<1>12. MovesIn(p) = list \o Flat(subs, played)
  <2> DEFINE a == Flat(m.next_moves, FoundF)
             b == Flat(v, FoundF)
  <2>1. MovesIn(p) = h \o (a \o b) /\ list = h \o a /\ b = Flat(subs, played)
    BY <1>1, <1>6, <1>7, <1>8, <1>10
  <2>2. h \in Seq(Moves) /\ a \in Seq(Moves) /\ b \in Seq(Moves)
    BY <1>9, <1>11
  <2> HIDE DEF a, b, h, list, p
  <2>3. (h \o a) \o b = h \o (a \o b)
    BY <2>2, ConcatAssociative, SMTT(30)
  <2> QED
    BY <2>1, <2>3, Zenon
<1>13. PlayedIn(PrintGameTree(t)) = list \o Flat(subs, played)
  <2>1. list = PlayedIn(PrintSequence(t.sequence_))
    BY MoveListSmall
  <2>2. PrintGameTree(t) = PrintSequence(t.sequence_) \o Flat(subs, PrintF)
    BY PrintDef
  <2>3. PrintSequence(t.sequence_) \in Seq(Tokens) /\ Flat(subs, PrintF) \in Seq(Tokens)
    BY <1>2, SubTrees, PrintSequenceIs, PrintMakes, FlatType
  <2>4. Keep(Flat(subs, PrintF), Moves) = Flat(subs, played)
    <3>1. \A x \in SyntaxTrees : played[x] = Keep(PrintF[x], Moves)
      OBVIOUS
    <3> HIDE DEF played, subs
    <3> QED
      BY <1>2, <3>1, PrintMakes, KeepFlat
  <2>5. \A a, b \in Seq(Tokens) : Keep(a \o b, Moves) = Keep(a, Moves) \o Keep(b, Moves)
    BY KeepConcat
  <2>6. Keep(PrintSequence(t.sequence_) \o Flat(subs, PrintF), Moves)
          = Keep(PrintSequence(t.sequence_), Moves) \o Keep(Flat(subs, PrintF), Moves)
    BY <2>3, <2>5, Zenon
  <2> HIDE DEF played, subs, list
  <2> QED
    BY <2>1, <2>2, <2>4, <2>6, Zenon DEF PlayedIn
<1> QED
  BY <1>12, <1>13 DEF WithMoves

\* The lines of a tree are found in its move tree, if they are in its
\* variations and no sequence goes on before it branches.
LEMMA LinesFound ==
  ASSUME MaxNodes >= 1, NEW t \in SyntaxTrees,
         t.sequence_ \in Seq(SmallNodes), t.sub_trees \in Seq(WithLines)
  PROVE  t \in WithLines
<1> DEFINE subs == t.sub_trees
           m == parse_sequence(t.sequence_)
           p == parse_game_tree(t)
           v == Each(subs, ParseF)
           list == MoveList(t.sequence_)
<1> SUFFICES ASSUME BranchesEarly(t) PROVE LinesIn(p) = LinesOf(t)
  BY DEF WithLines
<1>1. /\ p \in MoveTrees /\ p.move = m.move /\ p.next_moves = m.next_moves \o v
      /\ m \in MoveTrees /\ m.next_moves \in Seq(MoveTrees)
      /\ MovesIn(m) = list /\ LinesIn(m) = {list}
      /\ Len(list) <= 1 => m.next_moves = <<>>
      /\ list \in Seq(Moves)
  BY ParsedTree
<1>2. list = PlayedIn(PrintSequence(t.sequence_))
  BY MoveListSmall
<1>3. subs \in Seq(WithLines) /\ subs \in Seq(SyntaxTrees) /\ DOMAIN subs = 1 .. Len(subs)
  BY SubTrees, LenProperties
<1>4. /\ subs # <<>> => Len(list) <= 1
      /\ \A y \in Range(subs) : EarlyF[y]
  BY <1>2, EarlyDef
<1>5. LinesOf(t) = IF subs = <<>> THEN {list}
                   ELSE {list \o line : line \in UNION {LinesF[y] : y \in Range(subs)}}
  BY <1>2, LinesDef
<1>6. CASE subs = <<>>
  <2>1. v = <<>>
    BY <1>6, EachEmpty
  <2>2. m.next_moves \o <<>> = m.next_moves
    BY <1>1, ConcatEmptySeq
  <2>3. p = m
    <3>1. p = [move |-> p.move, next_moves |-> p.next_moves]
          /\ m = [move |-> m.move, next_moves |-> m.next_moves]
      BY <1>1, NextMoves
    <3> HIDE DEF p, m, v
    <3> QED
      BY <1>1, <2>1, <2>2, <3>1, Zenon
  <2> QED
    BY <1>1, <1>5, <1>6, <2>3
<1>7. CASE subs # <<>>
  <2>1. m.next_moves = <<>>
    BY <1>1, <1>4, <1>7
  <2>2. Makes(ParseF, SyntaxTrees, MoveTrees)
    BY ParsedTree DEF Makes, ParseF
  <2>3. v \in Seq(MoveTrees) /\ Len(v) = Len(subs) /\ \A i \in 1 .. Len(subs) : v[i] = ParseF[subs[i]]
    BY <1>3, <2>2, EachOf
  <2>4. p.next_moves = v
    <3> HIDE DEF v, m, p
    <3>1. <<>> \o v = v
      BY <2>3, ConcatEmptySeq
    <3> QED
      BY <1>1, <2>1, <3>1
  <2>5. v # <<>>
    <3>1. Len(subs) \in Nat \ {0}
      BY <1>3, <1>7, EmptySeq
    <3> HIDE DEF v
    <3> QED
      BY <2>3, <3>1, EmptySeq
  <2>6. (IF p.move = NoMove THEN <<>> ELSE <<p.move>>) = list
    <3> DEFINE h == IF m.move = NoMove THEN <<>> ELSE <<m.move>>
    <3> HIDE DEF m
    <3>1. MovesIn(m) = h \o Flat(<<>>, FoundF)
      BY <1>1, <2>1, FoundDef
    <3>2. h \in Seq(Moves)
      BY <1>1, NextMoves, EmptySeq
    <3> HIDE DEF h, list, p
    <3>3. h \o Flat(<<>>, FoundF) = h
      BY <3>2, FlatEmpty, ConcatEmptySeq
    <3> QED
      BY <1>1, <3>1, <3>3 DEF h
  <2>7. LinesIn(p) = {list \o line : line \in UNION {ThroughF[y] : y \in Range(v)}}
    <3>1. LinesIn(p) = LET l == IF p.move = NoMove THEN <<>> ELSE <<p.move>>
                       IN  IF p.next_moves = <<>> THEN {l}
                           ELSE {l \o line : line \in UNION {ThroughF[y] : y \in Range(p.next_moves)}}
      <4> HIDE DEF p
      <4> QED
        BY <1>1, ThroughDef, Zenon
    <3> HIDE DEF p, v, list
    <3> QED
      BY <2>4, <2>5, <2>6, <3>1, Zenon
  <2>8. \A i \in 1 .. Len(subs) : ThroughF[v[i]] = LinesF[subs[i]]
    <3> SUFFICES ASSUME NEW i \in 1 .. Len(subs) PROVE ThroughF[v[i]] = LinesF[subs[i]]
      OBVIOUS
    <3> DEFINE x == subs[i]
    <3>1. x \in WithLines /\ x \in Range(subs)
      BY <1>3, ElementOfSeq DEF Range
    <3>2. x \in SyntaxTrees
      BY <3>1 DEF WithLines
    <3>3. BranchesEarly(x)
      <4>1. EarlyF[x]
        BY <1>4, <3>1
      <4>2. EarlyF[x] = BranchesEarly(x)
        BY <3>2, Zenon DEF EarlyF
      <4> QED
        BY <4>1, <4>2, Zenon
    <3>4. LinesIn(parse_game_tree(x)) = LinesOf(x)
      BY <3>1, <3>3 DEF WithLines
    <3>5. ParseF[x] = parse_game_tree(x) /\ parse_game_tree(x) \in MoveTrees
      BY <3>2, ParsedTree DEF ParseF
    <3>6. ThroughF[ParseF[x]] = LinesOf(x)
      BY <3>4, <3>5 DEF ThroughF
    <3>7. LinesF[x] = LinesOf(x)
      BY <3>2 DEF LinesF
    <3> HIDE DEF x
    <3> QED
      BY <2>3, <3>6, <3>7 DEF x
  <2>9. {ThroughF[y] : y \in Range(v)} = {LinesF[y] : y \in Range(subs)}
    <3>1. DOMAIN v = 1 .. Len(subs)
      <4> HIDE DEF v
      <4> QED
        BY <2>3, LenProperties
    <3> HIDE DEF v, subs
    <3> QED
      BY <1>3, <2>8, <3>1 DEF Range
  <2> QED
    BY <1>5, <1>7, <2>7, <2>9
<1> QED
  BY <1>6, <1>7

-----------------------------------------------------------------------------
(* The reader goes over a file.                                            *)

\* Two things are kept of a sequence that holds two.
LEMMA KeepTwo ==
  ASSUME NEW E, NEW s \in Seq(E), NEW S, ~(Len(Keep(s, S)) <= 1)
  PROVE  \E i, k \in DOMAIN s : i < k /\ s[i] \in S /\ s[k] \in S
<1> DEFINE P == {u \in Seq(E) : ~(Len(Keep(u, S)) <= 1)
                    => \E i, k \in DOMAIN u : i < k /\ u[i] \in S /\ u[k] \in S}
<1>1. <<>> \in P
  <2>1. Len(Keep(<<>>, S)) <= 1
    BY KeepEmpty, EmptySeq
  <2> QED
    BY <2>1, EmptySeq
<1>2. ASSUME NEW u \in Seq(E), NEW x \in E, u \in P PROVE Append(u, x) \in P
  <2> DEFINE t == Append(u, x)
  <2>1. /\ t \in Seq(E) /\ Len(u) \in Nat /\ DOMAIN t = 1 .. Len(u) + 1 /\ DOMAIN u = 1 .. Len(u)
        /\ t[Len(u) + 1] = x /\ \A i \in 1 .. Len(u) : t[i] = u[i]
    BY AppendProperties, LenProperties
  <2>2. Keep(t, S) = IF x \in S THEN Append(Keep(u, S), x) ELSE Keep(u, S)
    BY KeepAppend
  <2>3. Keep(u, S) \in Seq(S) /\ (Keep(u, S) # <<>> => \E i \in DOMAIN u : u[i] \in S)
    BY KeepWhat
  <2> HIDE DEF t
  <2> SUFFICES ASSUME ~(Len(Keep(t, S)) <= 1)
               PROVE  \E i, k \in DOMAIN t : i < k /\ t[i] \in S /\ t[k] \in S
    BY <2>1 DEF t
  <2>4. CASE x \in S
    <3>1. Len(Keep(t, S)) = Len(Keep(u, S)) + 1
      BY <2>2, <2>3, <2>4, AppendProperties
    <3>2. Keep(u, S) # <<>>
      BY <3>1, EmptySeq
    <3>3. PICK i \in DOMAIN u : u[i] \in S
      BY <2>3, <3>2
    <3>4. i \in DOMAIN t /\ Len(u) + 1 \in DOMAIN t /\ i < Len(u) + 1 /\ t[i] \in S
      BY <2>1, <3>3
    <3> QED
      BY <2>1, <2>4, <3>4, Zenon
  <2>5. CASE x \notin S
    <3>1. PICK i \in DOMAIN u, k \in DOMAIN u : i < k /\ u[i] \in S /\ u[k] \in S
      BY <1>2, <2>2, <2>5
    <3>2. i \in DOMAIN t /\ k \in DOMAIN t /\ t[i] = u[i] /\ t[k] = u[k]
      BY <2>1
    <3> QED
      BY <3>1, <3>2
  <2> QED
    BY <2>4, <2>5
<1>3. Seq(E) \subseteq P
  <2> HIDE DEF P
  <2> QED
    BY <1>1, <1>2, AlongSequence
<1> QED
  BY <1>3

\* A part of a file, in two.
LEMMA Split ==
  ASSUME NEW E, NEW s \in Seq(E), NEW i \in 1 .. Len(s) + 1, NEW j \in i .. Len(s) + 1,
         NEW k \in j .. Len(s) + 1
  PROVE  /\ SubSeq(s, i, j - 1) \in Seq(E)
         /\ SubSeq(s, i, k - 1) = SubSeq(s, i, j - 1) \o SubSeq(s, j, k - 1)
         /\ \A S : Keep(SubSeq(s, i, k - 1), S)
                      = Keep(SubSeq(s, i, j - 1), S) \o Keep(SubSeq(s, j, k - 1), S)
<1>1. Len(s) \in Nat /\ \A n \in 1 .. Len(s) : s[n] \in E
  BY LenProperties, ElementOfSeq
<1>2. SubSeq(s, i, j - 1) \in Seq(E) /\ SubSeq(s, j, k - 1) \in Seq(E)
  <2>1. /\ i \in Int /\ j \in Int /\ j - 1 \in Int /\ k - 1 \in Int
        /\ \A n \in i .. j - 1 : s[n] \in E
        /\ \A n \in j .. k - 1 : s[n] \in E
    BY <1>1
  <2> QED
    BY <2>1, SubSeqProperties
<1>3. SubSeq(s, i, k - 1) = SubSeq(s, i, j - 1) \o SubSeq(s, j, k - 1)
  <2> DEFINE m == j - 1
             n == k - 1
  <2>1. m \in i - 1 .. Len(s) /\ n \in m .. Len(s) /\ j = m + 1
    BY <1>1
  <2> HIDE DEF m, n
  <2>2. SubSeq(s, i, m) \o SubSeq(s, m + 1, n) = SubSeq(s, i, n)
    BY <2>1, ConcatAdjacentSubSeq
  <2> QED
    BY <2>1, <2>2 DEF m, n
<1>4. ASSUME NEW S
      PROVE Keep(SubSeq(s, i, k - 1), S)
                = Keep(SubSeq(s, i, j - 1), S) \o Keep(SubSeq(s, j, k - 1), S)
  <2> DEFINE a == SubSeq(s, i, j - 1)
             b == SubSeq(s, j, k - 1)
  <2>1. a \in Seq(E) /\ b \in Seq(E)
    BY <1>2
  <2> HIDE DEF a, b
  <2>2. Keep(a \o b, S) = Keep(a, S) \o Keep(b, S)
    BY <2>1, KeepConcat, SMTT(30)
  <2> QED
    BY <1>3, <2>2, Zenon DEF a, b
<1> QED
  BY <1>2, <1>3, <1>4

\* A node ends where its properties do.
LEMMA NodeEndIs ==
  ASSUME NEW s \in Seq(Tokens), NEW i, NodeAt(s, i)
  PROVE  /\ i \in 1 .. Len(s) - 1 /\ s[i] = Semicolon /\ NodeEnd(s, i) \in i + 2 .. Len(s) + 1
         /\ \A j \in i + 1 .. NodeEnd(s, i) - 1 : s[j] \in Properties
         /\ ~PropertyAt(s, NodeEnd(s, i))
         /\ SubSeq(s, i + 1, NodeEnd(s, i) - 1) \in Nodes
<1>1. /\ Len(s) \in Nat /\ DOMAIN s = 1 .. Len(s) /\ i \in 1 .. Len(s) /\ i + 1 \in 1 .. Len(s)
      /\ s[i] = Semicolon
  BY LenProperties DEF NodeAt, IsAt, PropertyAt
<1> DEFINE T == {j \in i + 1 .. Len(s) + 1 : ~PropertyAt(s, j)}
           e == NodeEnd(s, i)
<1>2. Len(s) + 1 \in T /\ T \in SUBSET Nat
  BY <1>1 DEF PropertyAt
<1>3. \E j \in T : \A k \in T : j <= k
  BY <1>2, Kept!Least
<1>4. e = CHOOSE j \in T : \A k \in T : j <= k
  BY DEF NodeEnd, PropertiesEnd, Min
<1>5. e \in T /\ \A k \in T : e <= k
  <2> HIDE DEF T, e
  <2> QED
    BY <1>3, <1>4
<1>6. e # i + 1
  BY <1>5 DEF NodeAt
<1>7. e \in i + 2 .. Len(s) + 1 /\ ~PropertyAt(s, e)
  BY <1>1, <1>5, <1>6
<1>8. ASSUME NEW j \in i + 1 .. e - 1 PROVE s[j] \in Properties
  <2>1. j \in i + 1 .. Len(s) + 1 /\ ~(e <= j)
    BY <1>1, <1>7
  <2>2. j \notin T
    BY <1>5, <2>1
  <2> QED
    BY <2>1, <2>2 DEF PropertyAt
<1>9. SubSeq(s, i + 1, e - 1) \in Nodes
  <2>1. /\ i + 1 \in Int /\ e - 1 \in Int /\ i + 1 <= e - 1 /\ (e - 1) - (i + 1) + 1 >= 1
        /\ (e - 1) - (i + 1) + 1 \in Int
    BY <1>1, <1>7
  <2> HIDE DEF e
  <2>2. /\ SubSeq(s, i + 1, e - 1) \in Seq(Properties)
        /\ Len(SubSeq(s, i + 1, e - 1)) = (e - 1) - (i + 1) + 1
    BY <1>8, <2>1, SubSeqProperties
  <2>3. SubSeq(s, i + 1, e - 1) # <<>>
    <3>1. Len(SubSeq(s, i + 1, e - 1)) # 0
      BY <2>1, <2>2
    <3> QED
      BY <3>1, EmptySeq, Zenon
  <2> QED
    BY <2>2, <2>3 DEF Nodes
<1> QED
  BY <1>1, <1>7, <1>8, <1>9

-----------------------------------------------------------------------------
(* Sequences, read from a place.                                           *)

PlaceDomain(s) == 1 .. Len(s) + 1
PlaceRank(s, i) == Len(s) + 1 - i

\* What is known of a sequence that was read from i on.
SequenceGood(s, i, v) ==
    /\ v.end \in i .. Len(s) + 1
    /\ v.nodes \in Seq(Nodes) /\ PrintSequence(v.nodes) = SubSeq(s, i, v.end - 1)
    /\ v.nodes = <<>> <=> ~NodeAt(s, i)
    /\ OneMoveANode(s) => v.nodes \in Seq(SmallNodes)

SequenceBody(s, from, i) ==
    IF NodeAt(s, i)
    THEN LET next == NodeEnd(s, i)
             more == from[next]
         IN  [end |-> more.end, nodes |-> <<SubSeq(s, i + 1, next - 1)>> \o more.nodes]
    ELSE [end |-> i, nodes |-> <<>>]

Sequencing == INSTANCE Recursion
    WITH D <- PlaceDomain, Rank <- PlaceRank, Good <- SequenceGood, Body <- SequenceBody

\* A node without two moves.
LEMMA SmallNode ==
  ASSUME NEW s \in Seq(Tokens), OneMoveANode(s), NEW i, NodeAt(s, i)
  PROVE  SubSeq(s, i + 1, NodeEnd(s, i) - 1) \in SmallNodes
<1> DEFINE e == NodeEnd(s, i)
           node == SubSeq(s, i + 1, e - 1)
<1>1. /\ i \in 1 .. Len(s) - 1 /\ e \in i + 2 .. Len(s) + 1 /\ Len(s) \in Nat
      /\ \A j \in i + 1 .. e - 1 : s[j] \in Properties
      /\ node \in Nodes /\ DOMAIN s = 1 .. Len(s)
  BY NodeEndIs, LenProperties
<1>2. node \in Seq(Properties)
  BY <1>1 DEF Nodes
<1>3. Len(node) = e - 1 - i /\ \A j \in 1 .. Len(node) : node[j] = s[i + j]
  <2>1. /\ i + 1 \in Int /\ e - 1 \in Int /\ i + 1 <= e - 1
        /\ (e - 1) - (i + 1) + 1 = e - 1 - i
    BY <1>1
  <2>2. \A j \in 1 .. e - 1 - i : (i + 1) + j - 1 = i + j
    BY <1>1
  <2> HIDE DEF e
  <2>3. /\ Len(node) = (e - 1) - (i + 1) + 1
        /\ \A j \in 1 .. (e - 1) - (i + 1) + 1 : node[j] = s[(i + 1) + j - 1]
    BY <1>1, <2>1, SubSeqProperties, SMTT(30)
  <2> QED
    BY <2>1, <2>2, <2>3
<1>4. DOMAIN node = 1 .. Len(node)
  BY <1>2, LenProperties
<1> HIDE DEF node, e
<1>5. ASSUME ~(Len(Keep(node, Moves)) <= 1) PROVE FALSE
  <2>1. PICK j, k \in DOMAIN node : j < k /\ node[j] \in Moves /\ node[k] \in Moves
    BY <1>2, <1>5, KeepTwo
  <2>2. /\ i + j \in DOMAIN s /\ i + k \in DOMAIN s /\ i + j < i + k
        /\ s[i + j] \in Moves /\ s[i + k] \in Moves
        /\ i + 1 <= i + j /\ i + k <= e - 1 /\ i + j \in Nat /\ i + k \in Nat
    BY <1>1, <1>3, <1>4, <2>1, SMTT(30)
  <2>3. PICK n \in i + j .. i + k : s[n] = Semicolon
    BY <2>2 DEF OneMoveANode
  <2>4. n \in i + 1 .. e - 1
    BY <1>1, <2>2
  <2>5. Semicolon \in Properties
    BY <1>1, <2>3, <2>4
  <2> QED
    BY <2>5, TokenTypes
<1> QED
  BY <1>1, <1>5 DEF SmallNodes, node, e

\* A sequence that goes on with one more node before it.
LEMMA SequenceStep ==
  ASSUME NEW s \in Seq(Tokens), NEW i, NodeAt(s, i), NEW more,
         SequenceGood(s, NodeEnd(s, i), more)
  PROVE  SequenceGood(s, i, [end |-> more.end,
                             nodes |-> <<SubSeq(s, i + 1, NodeEnd(s, i) - 1)>> \o more.nodes])
<1> DEFINE e == NodeEnd(s, i)
           node == SubSeq(s, i + 1, e - 1)
           v == [end |-> more.end, nodes |-> <<node>> \o more.nodes]
<1>1. /\ i \in 1 .. Len(s) - 1 /\ e \in i + 2 .. Len(s) + 1 /\ Len(s) \in Nat
      /\ node \in Nodes /\ s[i] = Semicolon
  BY NodeEndIs, LenProperties
<1> HIDE DEF node, e
<1>2. /\ more.end \in e .. Len(s) + 1 /\ more.nodes \in Seq(Nodes)
      /\ PrintSequence(more.nodes) = SubSeq(s, e, more.end - 1)
      /\ OneMoveANode(s) => more.nodes \in Seq(SmallNodes)
  BY DEF SequenceGood, e
<1>3. v.end = more.end /\ v.nodes = <<node>> \o more.nodes /\ v.end \in i .. Len(s) + 1
  BY <1>1, <1>2
<1>4. <<node>> \in Seq(Nodes) /\ <<node>> \o more.nodes \in Seq(Nodes) /\ Len(<<node>>) = 1
  BY <1>1, <1>2, OneSeq, ConcatProperties
<1>5. <<node>> \o more.nodes # <<>>
  <2>1. Len(<<node>> \o more.nodes) = 1 + Len(more.nodes) /\ Len(more.nodes) \in Nat
    BY <1>2, <1>4, ConcatProperties, LenProperties
  <2>2. Len(<<node>> \o more.nodes) # 0
    BY <2>1
  <2> QED
    BY <2>2, EmptySeq, Zenon
<1>6. PrintSequence(v.nodes) = SubSeq(s, i, v.end - 1)
  <2>1. /\ PrintSequence(v.nodes) = Flat(v.nodes, NodeText)
        /\ PrintSequence(more.nodes) = Flat(more.nodes, NodeText)
    BY <1>2, <1>3, <1>4, PrintSequenceIs
  <2>2. Flat(<<node>>, NodeText) = NodeText[node]
    BY <1>1, TokenTypes, FlatOne
  <2>3. Flat(<<node>> \o more.nodes, NodeText)
            = Flat(<<node>>, NodeText) \o Flat(more.nodes, NodeText)
    <3>1. \A a, b \in Seq(Nodes) : Flat(a \o b, NodeText) = Flat(a, NodeText) \o Flat(b, NodeText)
      BY TokenTypes, FlatConcat
    <3> QED
      BY <1>2, <1>4, <3>1, Zenon
  <2>4. NodeText[node] = <<Semicolon>> \o node
    BY <1>1 DEF NodeText
  <2>5. SubSeq(s, i, e - 1) = <<Semicolon>> \o node
    <3>1. i \in 1 .. Len(s) /\ e - 1 \in i .. Len(s)
      BY <1>1
    <3>2. SubSeq(s, i, e - 1) = <<s[i]>> \o SubSeq(s, i + 1, e - 1)
      BY <3>1, SubSeqRecursiveFirst
    <3> QED
      BY <1>1, <3>2 DEF node
  <2>6. SubSeq(s, i, v.end - 1) = SubSeq(s, i, e - 1) \o SubSeq(s, e, v.end - 1)
    <3>1. /\ i \in 1 .. Len(s) + 1 /\ e \in i .. Len(s) + 1 /\ v.end \in e .. Len(s) + 1
      BY <1>1, <1>2, <1>3
    <3> HIDE DEF v
    <3> QED
      BY <3>1, Split
  <2> HIDE DEF v
  <2> QED
    BY <1>2, <1>3, <2>1, <2>2, <2>3, <2>4, <2>5, <2>6, Zenon
<1>7. ASSUME OneMoveANode(s) PROVE v.nodes \in Seq(SmallNodes)
  <2>1. node \in SmallNodes
    BY <1>7, SmallNode DEF node, e
  <2>2. <<node>> \in Seq(SmallNodes) /\ more.nodes \in Seq(SmallNodes)
    BY <1>2, <1>7, <2>1, OneSeq
  <2>3. \A a, b \in Seq(SmallNodes) : a \o b \in Seq(SmallNodes)
    BY ConcatProperties
  <2> HIDE DEF v
  <2> QED
    BY <1>3, <2>2, <2>3, Zenon
<1>8. v.nodes \in Seq(Nodes) /\ (v.nodes = <<>> <=> ~NodeAt(s, i))
  BY <1>3, <1>4, <1>5
<1> HIDE DEF v
<1>9. SequenceGood(s, i, v)
  BY <1>3, <1>6, <1>7, <1>8, Zenon DEF SequenceGood
<1> QED
  BY <1>9 DEF v, node, e

\* A sequence is read from its nodes.
LEMMA SequenceDef ==
  ASSUME NEW s \in Seq(Tokens)
  PROVE  \A i \in 1 .. Len(s) + 1 :
            /\ SequenceGood(s, i, SequenceFrom(s)[i])
            /\ SequenceFrom(s)[i] = SequenceBody(s, SequenceFrom(s), i)
<1> DEFINE from == CHOOSE f : f = [i \in 1 .. Len(s) + 1 |-> SequenceBody(s, f, i)]
<1>0. Len(s) \in Nat
  BY LenProperties
<1>1. Sequencing!WellFounded(s)
  <2>1. \A i \in 1 .. Len(s) + 1 : Len(s) + 1 - i \in Nat
    BY <1>0
  <2> SUFFICES ASSUME NEW g, NEW h, NEW i \in 1 .. Len(s) + 1,
                      \A k \in 1 .. Len(s) + 1 : Len(s) + 1 - k < Len(s) + 1 - i
                          => g[k] = h[k] /\ SequenceGood(s, k, g[k])
               PROVE  /\ SequenceBody(s, g, i) = SequenceBody(s, h, i)
                      /\ SequenceGood(s, i, SequenceBody(s, g, i))
    BY <2>1, Zenon DEF Sequencing!WellFounded, PlaceDomain, PlaceRank
  <2>2. CASE NodeAt(s, i)
    <3> DEFINE e == NodeEnd(s, i)
    <3>1. e \in i + 2 .. Len(s) + 1
      BY <2>2, NodeEndIs
    <3>2. e \in 1 .. Len(s) + 1 /\ Len(s) + 1 - e < Len(s) + 1 - i
      BY <1>0, <3>1
    <3> HIDE DEF e
    <3>3. g[e] = h[e] /\ SequenceGood(s, e, g[e])
      BY <3>2
    <3>4. \A f : SequenceBody(s, f, i) =
              [end |-> f[e].end, nodes |-> <<SubSeq(s, i + 1, e - 1)>> \o f[e].nodes]
      BY <2>2, Zenon DEF SequenceBody, e
    <3>5. SequenceGood(s, i, [end |-> g[e].end,
                              nodes |-> <<SubSeq(s, i + 1, e - 1)>> \o g[e].nodes])
      BY <2>2, <3>3, SequenceStep DEF e
    <3> QED
      BY <3>3, <3>4, <3>5, Zenon
  <2>3. CASE ~NodeAt(s, i)
    <3> DEFINE v == [end |-> i, nodes |-> <<>>]
    <3>1. \A f : SequenceBody(s, f, i) = v
      BY <2>3, Zenon DEF SequenceBody
    <3>2. v.end = i /\ v.nodes = <<>> /\ i \in i .. Len(s) + 1
      BY <1>0
    <3>3. PrintSequence(<<>>) = <<>> /\ <<>> \in Seq(Nodes) /\ <<>> \in Seq(SmallNodes)
      BY EmptySeq, PrintSequenceIs, FlatEmpty
    <3>4. SubSeq(s, i, i - 1) = <<>>
      BY <1>0, SubSeqEmpty
    <3> HIDE DEF v
    <3>5. SequenceGood(s, i, v)
      BY <2>3, <3>2, <3>3, <3>4, Zenon DEF SequenceGood
    <3> QED
      BY <3>1, <3>5, Zenon
  <2> QED
    BY <2>2, <2>3
<1>2. from = [i \in 1 .. Len(s) + 1 |-> SequenceBody(s, from, i)]
  <2>1. \E f : f = [i \in 1 .. Len(s) + 1 |-> SequenceBody(s, f, i)]
    BY <1>1, Sequencing!Exists, Zenon DEF Sequencing!Satisfies, PlaceDomain
  <2> QED
    BY <2>1, Zenon
<1>3. SequenceFrom(s) = from
  BY Zenon DEF SequenceFrom, SequenceBody
<1> HIDE DEF from
<1>4. Sequencing!Satisfies(s, from)
  BY <1>2, Zenon DEF Sequencing!Satisfies, PlaceDomain
<1>5. \A i \in 1 .. Len(s) + 1 : SequenceGood(s, i, from[i])
  BY <1>1, <1>4, Sequencing!GoodValues, Zenon DEF PlaceDomain
<1>6. \A i \in 1 .. Len(s) + 1 : from[i] = SequenceBody(s, from, i)
  BY <1>2, Zenon
<1> QED
  BY <1>3, <1>5, <1>6, Zenon

-----------------------------------------------------------------------------
(* Trees and variations, read from a place.                                *)

\* The nodes that begin at i or after it.
NodesFrom(s, i) == NodesIn(SubSeq(s, i, Len(s)))

\* A file that the reader can be asked to read.
Readable(s) ==
    /\ MaxNodes >= 1
    /\ s \in Seq(Tokens) /\ NodesIn(s) <= MaxNodes /\ OneMoveANode(s)

\* How many nodes a file has is a number.
LEMMA NodesInType == ASSUME NEW E, NEW s \in Seq(E) PROVE NodesIn(s) \in Nat
<1>1. Keep(s, {Semicolon}) \in Seq(E)
  BY KeepHolds
<1> QED
  BY <1>1, LenProperties DEF NodesIn

\* The nodes of a file are those up to a place and those after it.
LEMMA NodesLeft ==
  ASSUME NEW s \in Seq(Tokens), NEW i \in 1 .. Len(s) + 1, NEW j \in i .. Len(s) + 1
  PROVE  /\ NodesFrom(s, i) \in Nat /\ NodesFrom(s, j) \in Nat
         /\ NodesIn(SubSeq(s, i, j - 1)) \in Nat
         /\ NodesFrom(s, i) = NodesIn(SubSeq(s, i, j - 1)) + NodesFrom(s, j)
         /\ NodesFrom(s, 1) = NodesIn(s)
<1> DEFINE n == Len(s) + 1
           S == {Semicolon}
           a == SubSeq(s, i, j - 1)
           b == SubSeq(s, j, n - 1)
<1>1. Len(s) \in Nat /\ n - 1 = Len(s) /\ n \in j .. Len(s) + 1 /\ j \in 1 .. Len(s) + 1
  BY LenProperties
<1> HIDE DEF n
<1>2. /\ a \in Seq(Tokens)
      /\ Keep(SubSeq(s, i, n - 1), S) = Keep(a, S) \o Keep(b, S)
  BY <1>1, Split, ZenonT(60)
<1>3. b \in Seq(Tokens)
  BY <1>1, Split
<1> HIDE DEF a, b
<1>4. Keep(a, S) \in Seq(Tokens) /\ Keep(b, S) \in Seq(Tokens)
  BY <1>2, <1>3, KeepHolds
<1>5. Len(Keep(a, S) \o Keep(b, S)) = Len(Keep(a, S)) + Len(Keep(b, S))
  BY <1>4, ConcatProperties
<1>6. NodesFrom(s, i) = NodesIn(a) + NodesFrom(s, j)
  BY <1>1, <1>2, <1>5, Zenon DEF NodesFrom, NodesIn, b
<1>7. NodesIn(a) \in Nat /\ NodesFrom(s, j) \in Nat
  BY <1>1, <1>2, <1>3, NodesInType DEF NodesFrom, b
<1>8. NodesFrom(s, 1) = NodesIn(s)
  BY SubSeqFull, Zenon DEF NodesFrom
<1> QED
  BY <1>6, <1>7, <1>8 DEF a

Plain == Tokens \ {Open, Close}

\* There are no parentheses in a sequence, and a semicolon for each node.
LEMMA PrintPlain ==
  ASSUME NEW nodes \in Seq(Nodes)
  PROVE  /\ Content(PrintSequence(nodes)) = PrintSequence(nodes)
         /\ NodesIn(PrintSequence(nodes)) = Len(nodes)
<1>1. /\ Makes(NodeText, Nodes, Seq(Plain)) /\ Makes(NodeText, Nodes, Seq(Tokens))
      /\ \A node \in Nodes : NodesIn(NodeText[node]) = 1
  <2> SUFFICES ASSUME NEW node \in Nodes
               PROVE  NodeText[node] \in Seq(Plain) /\ NodesIn(NodeText[node]) = 1
    BY TokenTypes DEF Makes
  <2>1. Semicolon \in Plain /\ Properties \subseteq Plain /\ Properties \cap {Semicolon} = {}
    BY TokenTypes DEF Plain, Tokens
  <2>2. node \in Seq(Properties)
    BY TokenTypes
  <2>3. <<Semicolon>> \in Seq(Plain) /\ node \in Seq(Plain) /\ <<Semicolon>> \in Seq({Semicolon})
    BY <2>1, <2>2, OneSeq, SeqMonotonic
  <2>4. NodeText[node] = <<Semicolon>> \o node
    BY DEF NodeText
  <2>5. Keep(<<Semicolon>>, {Semicolon}) = <<Semicolon>> /\ Keep(node, {Semicolon}) = <<>>
    BY <2>1, <2>2, <2>3, KeepAll
  <2>6. Keep(<<Semicolon>> \o node, {Semicolon}) = <<Semicolon>> \o <<>>
    <3>1. \A a, b \in Seq(Plain) :
             Keep(a \o b, {Semicolon}) = Keep(a, {Semicolon}) \o Keep(b, {Semicolon})
      BY KeepConcat
    <3> QED
      BY <2>3, <2>5, <3>1, Zenon
  <2>7. Len(<<Semicolon>> \o <<>>) = 1
    BY <2>3, ConcatEmptySeq
  <2>8. <<Semicolon>> \o node \in Seq(Plain)
    BY <2>3, ConcatProperties
  <2> QED
    BY <2>4, <2>6, <2>7, <2>8, Zenon DEF NodesIn
<1>2. PrintSequence(nodes) \in Seq(Plain)
  BY <1>1, FlatType, PrintSequenceIs
<1>3. Content(PrintSequence(nodes)) = PrintSequence(nodes)
  BY <1>2, KeepAll DEF Content, Plain
<1> DEFINE P == {u \in Seq(Nodes) : NodesIn(Flat(u, NodeText)) = Len(u)}
<1>4. <<>> \in P
  BY FlatEmpty, KeepEmpty, EmptySeq DEF NodesIn
<1>5. ASSUME NEW u \in Seq(Nodes), NEW x \in Nodes, u \in P PROVE Append(u, x) \in P
  <2> DEFINE a == Flat(u, NodeText)
             b == NodeText[x]
             S == {Semicolon}
  <2>1. Flat(Append(u, x), NodeText) = a \o b /\ a \in Seq(Tokens) /\ b \in Seq(Tokens)
    BY <1>1, FlatAppend, FlatType, SMTT(30) DEF Makes
  <2>2. Len(Append(u, x)) = Len(u) + 1 /\ Append(u, x) \in Seq(Nodes)
    BY AppendProperties
  <2>3. Len(Keep(a, S)) = Len(u) /\ Len(Keep(b, S)) = 1
    BY <1>1, <1>5 DEF NodesIn
  <2> HIDE DEF a, b
  <2>4. Keep(a, S) \in Seq(Tokens) /\ Keep(b, S) \in Seq(Tokens)
    BY <2>1, KeepHolds
  <2>5. Keep(a \o b, S) = Keep(a, S) \o Keep(b, S)
    BY <2>1, KeepConcat, SMTT(30)
  <2>6. Len(Keep(a, S) \o Keep(b, S)) = Len(Keep(a, S)) + Len(Keep(b, S))
    BY <2>4, ConcatProperties
  <2>7. NodesIn(Flat(Append(u, x), NodeText)) = Len(Append(u, x))
    BY <2>1, <2>2, <2>3, <2>5, <2>6, Zenon DEF NodesIn
  <2> QED
    BY <2>2, <2>7
<1>6. Seq(Nodes) \subseteq P
  <2> HIDE DEF P
  <2> QED
    BY <1>4, <1>5, AlongSequence
<1>7. NodesIn(Flat(nodes, NodeText)) = Len(nodes)
  BY <1>6
<1> QED
  BY <1>3, <1>7, PrintSequenceIs

\* A parenthesis has no content.
LEMMA ParenthesisContent ==
  ASSUME NEW s \in Seq(Tokens), NEW i \in 1 .. Len(s), s[i] \in {Open, Close}
  PROVE  Content(SubSeq(s, i, i)) = <<>>
<1>1. SubSeq(s, i, i) \in Seq({Open, Close})
  <2>1. i \in Int /\ \A n \in i .. i : s[n] \in {Open, Close}
    BY LenProperties
  <2> QED
    BY <2>1, SubSeqProperties
<1>2. {Open, Close} \cap (Tokens \ {Open, Close}) = {}
  OBVIOUS
<1>3. Keep(SubSeq(s, i, i), Tokens \ {Open, Close}) = <<>>
  BY <1>1, <1>2, KeepAll, Zenon
<1> QED
  BY <1>3 DEF Content

\* The content of a part of a file, in two.
LEMMA ContentSplit ==
  ASSUME NEW s \in Seq(Tokens)
  PROVE  \A i \in 1 .. Len(s) + 1 : \A j \in i .. Len(s) + 1 : \A k \in j .. Len(s) + 1 :
            /\ SubSeq(s, i, j - 1) \in Seq(Tokens)
            /\ Content(SubSeq(s, i, k - 1))
                  = Content(SubSeq(s, i, j - 1)) \o Content(SubSeq(s, j, k - 1))
<1>1. \A i \in 1 .. Len(s) + 1 : \A j \in i .. Len(s) + 1 : \A k \in j .. Len(s) + 1 :
         /\ SubSeq(s, i, j - 1) \in Seq(Tokens)
         /\ \A S : Keep(SubSeq(s, i, k - 1), S)
                     = Keep(SubSeq(s, i, j - 1), S) \o Keep(SubSeq(s, j, k - 1), S)
  BY Split
<1> QED
  BY <1>1, Zenon DEF Content

\* What is known of the variations that were read from i on, and of a tree there.
TreesGood(s, i, v) ==
    /\ v.end \in i .. Len(s) + 1
    /\ v.trees \in Seq(TreesTo[NodesFrom(s, i)])
    /\ v.trees \in Seq(WithMoves) /\ v.trees \in Seq(WithLines)
    /\ Flat(v.trees, PrintF) = Content(SubSeq(s, i, v.end - 1))

TreeGood(s, i, end, t) ==
    /\ end \in i + 1 .. Len(s) + 1
    /\ t \in TreesTo[NodesFrom(s, i)] /\ t \in WithMoves /\ t \in WithLines
    /\ PrintGameTree(t) = Content(SubSeq(s, i, end - 1))

\* A tree begins at i and is read up to a place, or not.
TreeBegins(s, i) == IsAt(Open, s, i) /\ NodeAt(s, i + 1)
MainEnd(s, i) == SequenceFrom(s)[i + 1].end

\* A tree is as good as its variations.
LEMMA TreeAt ==
  ASSUME NEW s, Readable(s), NEW i \in 1 .. Len(s) + 1, TreeBegins(s, i), NEW subs,
         TreesGood(s, MainEnd(s, i), subs)
  PROVE  TreeGood(s, i, subs.end,
                  [sequence_ |-> SequenceFrom(s)[i + 1].nodes, sub_trees |-> subs.trees])
<1> DEFINE n == Len(s) + 1
           main == SequenceFrom(s)[i + 1]
           t == [sequence_ |-> main.nodes, sub_trees |-> subs.trees]
           k == NodesFrom(s, i)
           m == NodesFrom(s, main.end)
<1>1. /\ s \in Seq(Tokens) /\ Len(s) \in Nat /\ MaxNodes \in Nat /\ i \in 1 .. Len(s)
      /\ s[i] = Open /\ i + 1 \in 1 .. Len(s) + 1
  BY SgfAssumption, LenProperties DEF TreeBegins, IsAt, Readable
<1>2. SequenceGood(s, i + 1, main) /\ NodeAt(s, i + 1)
  BY <1>1, SequenceDef DEF TreeBegins
<1> HIDE DEF main
<1>3. /\ main.end \in i + 1 .. Len(s) + 1 /\ main.nodes \in Seq(Nodes) /\ main.nodes # <<>>
      /\ PrintSequence(main.nodes) = SubSeq(s, i + 1, main.end - 1)
      /\ main.nodes \in Seq(SmallNodes)
  BY <1>2, Zenon DEF SequenceGood, Readable
<1>4. TreesGood(s, main.end, subs)
  BY DEF MainEnd, main
<1>5. /\ subs.end \in main.end .. Len(s) + 1
      /\ subs.trees \in Seq(TreesTo[m])
      /\ subs.trees \in Seq(WithMoves) /\ subs.trees \in Seq(WithLines)
      /\ Flat(subs.trees, PrintF) = Content(SubSeq(s, main.end, subs.end - 1))
  BY <1>4 DEF TreesGood
<1>6. /\ subs.end \in i + 1 .. Len(s) + 1 /\ main.end \in 1 .. Len(s) + 1
      /\ subs.end \in 1 .. Len(s) + 1
  BY <1>1, <1>3, <1>5
<1>7. /\ k \in Nat /\ m \in Nat /\ k <= MaxNodes /\ m + Len(main.nodes) <= k
      /\ Len(main.nodes) \in Nat \ {0}
  <2>1. /\ NodesFrom(s, 1) \in Nat /\ NodesFrom(s, 1) = NodesIn(s) /\ NodesIn(s) <= MaxNodes
        /\ NodesIn(SubSeq(s, 1, i - 1)) \in Nat
        /\ NodesFrom(s, 1) = NodesIn(SubSeq(s, 1, i - 1)) + k /\ k \in Nat
    <3>1. 1 \in 1 .. Len(s) + 1 /\ i \in 1 .. Len(s) + 1
      BY <1>1
    <3> QED
      BY <1>1, <3>1, NodesLeft DEF Readable
  <2>2. /\ NodesIn(SubSeq(s, i, (i + 1) - 1)) \in Nat
        /\ k = NodesIn(SubSeq(s, i, (i + 1) - 1)) + NodesFrom(s, i + 1)
        /\ NodesFrom(s, i + 1) \in Nat
    <3>1. i + 1 \in i .. Len(s) + 1
      BY <1>1
    <3> QED
      BY <1>1, <3>1, NodesLeft
  <2>3. /\ NodesFrom(s, i + 1) = NodesIn(SubSeq(s, i + 1, main.end - 1)) + m
        /\ m \in Nat
    BY <1>1, <1>3, NodesLeft
  <2>4. NodesIn(SubSeq(s, i + 1, main.end - 1)) = Len(main.nodes)
    BY <1>3, PrintPlain
  <2>5. Len(main.nodes) \in Nat \ {0}
    BY <1>3, EmptySeq, LenProperties
  <2> HIDE DEF k, m
  <2>6. k <= MaxNodes
    BY <1>1, <2>1
  <2>7. m + Len(main.nodes) <= k
    BY <2>2, <2>3, <2>4, <2>5
  <2> QED
    BY <2>1, <2>3, <2>5, <2>6, <2>7
<1>8. t \in TreesTo[k]
  <2> DEFINE d == k - 1
  <2>1. d \in Nat /\ k = d + 1 /\ m <= d /\ Len(main.nodes) \in 1 .. d + 1
    BY <1>7
  <2> HIDE DEF d, k, m
  <2>2. TreesTo[m] \subseteq TreesTo[d]
    BY <1>7, <2>1, TreesGrow
  <2>3. subs.trees \in Seq(TreesTo[d])
    BY <1>5, <2>2, SeqMonotonic
  <2>4. t \in TreesTo[d + 1]
    BY <1>3, <2>1, <2>3, TreeParts
  <2> QED
    BY <2>1, <2>4
<1>9. t \in SyntaxTrees
  BY <1>1, <1>7, <1>8, TreesGrow DEF SyntaxTrees
<1>10. t.sequence_ = main.nodes /\ t.sub_trees = subs.trees
  OBVIOUS
<1> HIDE DEF t, k, m
<1>11. t \in WithMoves /\ t \in WithLines
  BY <1>3, <1>5, <1>9, <1>10, MovesFound, LinesFound DEF Readable
<1>12. PrintGameTree(t) = Content(SubSeq(s, i, subs.end - 1))
  <2> DEFINE a == SubSeq(s, i + 1, main.end - 1)
             b == SubSeq(s, main.end, subs.end - 1)
  <2>1. PrintGameTree(t) = a \o Content(b)
    BY <1>3, <1>5, <1>9, <1>10, PrintDef
  <2>2. Content(a) = a
    BY <1>3, PrintPlain
  <2>3. Content(SubSeq(s, i + 1, subs.end - 1)) = Content(a) \o Content(b)
    <3>1. i + 1 \in 1 .. Len(s) + 1 /\ subs.end \in main.end .. Len(s) + 1
      BY <1>1, <1>5
    <3> QED
      BY <1>1, <1>3, <3>1, ContentSplit, Zenon
  <2>4. /\ SubSeq(s, i, (i + 1) - 1) = SubSeq(s, i, i) /\ i + 1 \in i .. Len(s) + 1
    BY <1>1
  <2>5. Content(SubSeq(s, i, subs.end - 1))
           = Content(SubSeq(s, i, (i + 1) - 1)) \o Content(SubSeq(s, i + 1, subs.end - 1))
    <3>1. i \in 1 .. Len(s) + 1
      BY <1>1
    <3> QED
      BY <1>1, <1>6, <2>4, <3>1, ContentSplit, Zenon
  <2>6. Content(SubSeq(s, i, i)) = <<>>
    BY <1>1, ParenthesisContent
  <2>7. a \in Seq(Tokens) /\ b \in Seq(Tokens)
    <3>1. Len(s) + 1 \in subs.end .. Len(s) + 1 /\ Len(s) + 1 \in main.end .. Len(s) + 1
      BY <1>1, <1>6
    <3> QED
      BY <1>1, <1>3, <1>5, <1>6, <3>1, ContentSplit, Zenon
  <2> HIDE DEF a, b
  <2>8. a \o Content(b) \in Seq(Tokens)
    BY <2>7, KeepHolds, ConcatProperties DEF Content
  <2>9. <<>> \o (a \o Content(b)) = a \o Content(b)
    BY <2>8, ConcatEmptySeq
  <2> QED
    BY <2>1, <2>2, <2>3, <2>4, <2>5, <2>6, <2>9, Zenon
<1> QED
  BY <1>6, <1>8, <1>11, <1>12 DEF TreeGood, t, k, main

VariationsBody(s, from, i) ==
    LET first == GameTreeAt(s, i, from)
        more == from[first.end]
    IN  IF first.ok
        THEN [end |-> more.end, trees |-> WithVariation(first.tree, more.trees)]
        ELSE [end |-> i, trees |-> <<>>]

Varying == INSTANCE Recursion
    WITH D <- PlaceDomain, Rank <- PlaceRank, Good <- TreesGood, Body <- VariationsBody

\* The tree at i, with the variations that were found after its sequence.
TreeOf(s, i, subs) == [sequence_ |-> SequenceFrom(s)[i + 1].nodes, sub_trees |-> subs.trees]

\* A tree is read if it begins there.
LEMMA GameTreeIs ==
  ASSUME NEW s \in Seq(Tokens), NEW i \in 1 .. Len(s) + 1, NEW f
  PROVE  GameTreeAt(s, i, f) =
           IF TreeBegins(s, i)
           THEN [ok |-> IsAt(Close, s, f[MainEnd(s, i)].end), end |-> f[MainEnd(s, i)].end + 1,
                 tree |-> TreeOf(s, i, f[MainEnd(s, i)])]
           ELSE [ok |-> FALSE, end |-> i, tree |-> Empty]
<1>1. IsAt(Open, s, i) => (SequenceFrom(s)[i + 1].nodes = <<>> <=> ~NodeAt(s, i + 1))
  <2> SUFFICES ASSUME IsAt(Open, s, i)
               PROVE  SequenceFrom(s)[i + 1].nodes = <<>> <=> ~NodeAt(s, i + 1)
    OBVIOUS
  <2>1. i + 1 \in 1 .. Len(s) + 1
    BY LenProperties DEF IsAt
  <2>2. SequenceGood(s, i + 1, SequenceFrom(s)[i + 1])
    BY <2>1, SequenceDef
  <2> QED
    BY <2>2, Zenon DEF SequenceGood
<1>2. (~IsAt(Open, s, i) \/ SequenceFrom(s)[i + 1].nodes = <<>>) <=> ~TreeBegins(s, i)
  BY <1>1, Zenon DEF TreeBegins
<1>3. CASE TreeBegins(s, i)
  BY <1>2, <1>3, Zenon DEF GameTreeAt, TreeOf, MainEnd
<1>4. CASE ~TreeBegins(s, i)
  BY <1>2, <1>4, Zenon DEF GameTreeAt
<1> QED
  BY <1>3, <1>4, Zenon

\* Where the sequence of a tree ends.
LEMMA MainEndIs ==
  ASSUME NEW s \in Seq(Tokens), NEW i, TreeBegins(s, i)
  PROVE  /\ i \in 1 .. Len(s) - 2 /\ i + 1 \in 1 .. Len(s) + 1 /\ s[i] = Open
         /\ MainEnd(s, i) \in i + 2 .. Len(s) + 1 /\ MainEnd(s, i) \in 1 .. Len(s) + 1
<1>1. /\ Len(s) \in Nat /\ DOMAIN s = 1 .. Len(s) /\ i \in 1 .. Len(s) /\ s[i] = Open
      /\ NodeAt(s, i + 1)
  BY LenProperties DEF TreeBegins, IsAt
<1>2. i + 1 \in 1 .. Len(s) - 1 /\ NodeEnd(s, i + 1) \in (i + 1) + 2 .. Len(s) + 1
  BY <1>1, NodeEndIs
<1>3. i + 1 \in 1 .. Len(s) + 1 /\ NodeEnd(s, i + 1) \in 1 .. Len(s) + 1
  BY <1>1, <1>2
<1>4. /\ SequenceFrom(s)[i + 1] = SequenceBody(s, SequenceFrom(s), i + 1)
      /\ SequenceGood(s, NodeEnd(s, i + 1), SequenceFrom(s)[NodeEnd(s, i + 1)])
  BY <1>3, SequenceDef
<1>5. MainEnd(s, i) = SequenceFrom(s)[NodeEnd(s, i + 1)].end
  <2>1. SequenceBody(s, SequenceFrom(s), i + 1) =
          [end |-> SequenceFrom(s)[NodeEnd(s, i + 1)].end,
           nodes |-> <<SubSeq(s, (i + 1) + 1, NodeEnd(s, i + 1) - 1)>>
                        \o SequenceFrom(s)[NodeEnd(s, i + 1)].nodes]
    BY <1>1, Zenon DEF SequenceBody
  <2> DEFINE M == SequenceFrom(s)[i + 1]
             a == SequenceFrom(s)[NodeEnd(s, i + 1)].end
             b == <<SubSeq(s, (i + 1) + 1, NodeEnd(s, i + 1) - 1)>>
                     \o SequenceFrom(s)[NodeEnd(s, i + 1)].nodes
  <2>2. M = [end |-> a, nodes |-> b]
    BY <1>4, <2>1, Zenon
  <2>3. M.end = a
    <3> HIDE DEF M, a, b
    <3> QED
      BY <2>2
  <2> QED
    BY <2>3, Zenon DEF MainEnd
<1>6. MainEnd(s, i) \in NodeEnd(s, i + 1) .. Len(s) + 1
  BY <1>4, <1>5, Zenon DEF SequenceGood
<1> DEFINE a == MainEnd(s, i)
           b == NodeEnd(s, i + 1)
<1> HIDE DEF a, b
<1>7. i \in 1 .. Len(s) - 2 /\ a \in i + 2 .. Len(s) + 1 /\ a \in 1 .. Len(s) + 1
  <2>1. b \in (i + 1) + 2 .. Len(s) + 1 /\ a \in b .. Len(s) + 1
    BY <1>2, <1>6 DEF a, b
  <2> QED
    BY <1>1, <1>2, <2>1
<1> QED
  BY <1>1, <1>3, <1>7 DEF a

\* Variations are as good with one more before them.
LEMMA TreesStep ==
  ASSUME NEW s, Readable(s), NEW i \in 1 .. Len(s) + 1, TreeBegins(s, i), NEW subs,
         TreesGood(s, MainEnd(s, i), subs), IsAt(Close, s, subs.end), NEW more,
         TreesGood(s, subs.end + 1, more)
  PROVE  TreesGood(s, i, [end |-> more.end, trees |-> WithVariation(TreeOf(s, i, subs), more.trees)])
<1> DEFINE t == TreeOf(s, i, subs)
           v == [end |-> more.end, trees |-> <<t>> \o more.trees]
           c == subs.end
           A == TreesTo[NodesFrom(s, i)]
<1>1. s \in Seq(Tokens) /\ Len(s) \in Nat /\ DOMAIN s = 1 .. Len(s)
  BY LenProperties DEF Readable
<1>2. TreeGood(s, i, c, t)
  BY TreeAt, Zenon DEF TreeOf
<1> HIDE DEF t, c
<1>3. /\ c \in i + 1 .. Len(s) + 1 /\ t \in A /\ t \in WithMoves /\ t \in WithLines
      /\ PrintGameTree(t) = Content(SubSeq(s, i, c - 1))
  BY <1>2, Zenon DEF TreeGood
<1>4. c \in 1 .. Len(s) /\ s[c] = Close /\ c + 1 \in c .. Len(s) + 1 /\ c + 1 \in i .. Len(s) + 1
      /\ c \in i .. Len(s) + 1 /\ c \in 1 .. Len(s) + 1 /\ c + 1 \in 1 .. Len(s) + 1
      /\ (c + 1) - 1 = c
  BY <1>1, <1>3 DEF IsAt, c
<1>5. /\ more.end \in c + 1 .. Len(s) + 1 /\ more.trees \in Seq(TreesTo[NodesFrom(s, c + 1)])
      /\ more.trees \in Seq(WithMoves) /\ more.trees \in Seq(WithLines)
      /\ Flat(more.trees, PrintF) = Content(SubSeq(s, c + 1, more.end - 1))
  BY Zenon DEF TreesGood, c
<1>6. more.end \in i .. Len(s) + 1 /\ more.end \in c .. Len(s) + 1
  BY <1>1, <1>4, <1>5
<1>7. more.trees \in Seq(A)
  <2>1. /\ NodesFrom(s, i) \in Nat /\ NodesFrom(s, c + 1) \in Nat
        /\ NodesIn(SubSeq(s, i, (c + 1) - 1)) \in Nat
        /\ NodesFrom(s, i) = NodesIn(SubSeq(s, i, (c + 1) - 1)) + NodesFrom(s, c + 1)
    BY <1>1, <1>4, NodesLeft
  <2>2. NodesFrom(s, c + 1) <= NodesFrom(s, i)
    BY <2>1
  <2>3. TreesTo[NodesFrom(s, c + 1)] \subseteq A
    BY <2>1, <2>2, TreesGrow
  <2> QED
    BY <1>5, <2>3, SeqMonotonic
<1>8. \A S : t \in S /\ more.trees \in Seq(S) => <<t>> \o more.trees \in Seq(S)
  <2>1. \A S : \A a, b \in Seq(S) : a \o b \in Seq(S)
    BY ConcatProperties
  <2> QED
    BY <2>1, OneSeq, Zenon
<1>9. Flat(<<t>> \o more.trees, PrintF) = Content(SubSeq(s, i, more.end - 1))
  <2> DEFINE W == WithMoves
  <2>0. Makes(PrintF, W, Seq(Tokens)) /\ t \in W /\ more.trees \in Seq(W) /\ <<t>> \in Seq(W)
        /\ PrintF[t] = PrintGameTree(t)
    BY <1>3, <1>5, PrintMakes, OneSeq DEF Makes, WithMoves, PrintF
  <2> HIDE DEF W
  <2>1. \A a, b \in Seq(W) : Flat(a \o b, PrintF) = Flat(a, PrintF) \o Flat(b, PrintF)
    BY <2>0, FlatConcat
  <2>2. Flat(<<t>>, PrintF) = PrintF[t]
    BY <2>0, FlatOne
  <2>3. Content(SubSeq(s, i, more.end - 1))
           = Content(SubSeq(s, i, (c + 1) - 1)) \o Content(SubSeq(s, c + 1, more.end - 1))
    BY <1>1, <1>4, <1>5, ContentSplit, Zenon
  <2>4. Content(SubSeq(s, i, (c + 1) - 1)) = Content(SubSeq(s, i, c - 1)) \o Content(SubSeq(s, c, (c + 1) - 1))
    BY <1>1, <1>4, ContentSplit, Zenon
  <2>5. Content(SubSeq(s, c, (c + 1) - 1)) = <<>>
    BY <1>1, <1>4, ParenthesisContent
  <2>6. Content(SubSeq(s, i, c - 1)) \o <<>> = Content(SubSeq(s, i, c - 1))
    <3>1. Content(SubSeq(s, i, c - 1)) \in Seq(Tokens)
      BY <2>0, <1>3 DEF Makes
    <3> QED
      BY <3>1, ConcatEmptySeq
  <2> QED
    BY <1>3, <1>5, <2>0, <2>1, <2>2, <2>3, <2>4, <2>5, <2>6, Zenon
<1>10. v.end = more.end /\ v.trees = <<t>> \o more.trees
  OBVIOUS
<1>11. /\ v.trees \in Seq(A) /\ v.trees \in Seq(WithMoves) /\ v.trees \in Seq(WithLines)
  BY <1>3, <1>5, <1>7, <1>8, <1>10, Zenon
<1> HIDE DEF v
<1>12. TreesGood(s, i, v)
  BY <1>6, <1>9, <1>10, <1>11, Zenon DEF TreesGood
<1> QED
  BY <1>12, Zenon DEF v, t, WithVariation

Closed(s, i, f) == TreeBegins(s, i) /\ IsAt(Close, s, f[MainEnd(s, i)].end)

\* Variations are read as long as they are closed.
VariationsIs(s, f, i) ==
    IF Closed(s, i, f)
    THEN [end |-> f[f[MainEnd(s, i)].end + 1].end,
          trees |-> WithVariation(TreeOf(s, i, f[MainEnd(s, i)]),
                                  f[f[MainEnd(s, i)].end + 1].trees)]
    ELSE [end |-> i, trees |-> <<>>]

\* The grammar's rule, in one formula.
LEMMA VariationsBodyIs ==
  ASSUME NEW s \in Seq(Tokens), NEW i \in 1 .. Len(s) + 1, NEW f
  PROVE  VariationsBody(s, f, i) = VariationsIs(s, f, i)
<1> DEFINE e == f[MainEnd(s, i)].end
           t == TreeOf(s, i, f[MainEnd(s, i)])
           r == GameTreeAt(s, i, f)
<1>1. r = IF TreeBegins(s, i) THEN [ok |-> IsAt(Close, s, e), end |-> e + 1, tree |-> t]
          ELSE [ok |-> FALSE, end |-> i, tree |-> Empty]
  BY GameTreeIs, Zenon
<1>2. VariationsBody(s, f, i) =
        IF r.ok THEN [end |-> f[r.end].end, trees |-> WithVariation(r.tree, f[r.end].trees)]
        ELSE [end |-> i, trees |-> <<>>]
  BY Zenon DEF VariationsBody
<1> HIDE DEF r
<1>3. CASE TreeBegins(s, i)
  <2>1. r.ok = IsAt(Close, s, e) /\ r.end = e + 1 /\ r.tree = t
    <3> HIDE DEF e, t
    <3> QED
      BY <1>1, <1>3
  <2>2. Closed(s, i, f) <=> r.ok
    BY <1>3, <2>1, Zenon DEF Closed
  <2> QED
    BY <1>2, <2>1, <2>2, Zenon DEF VariationsIs
<1>4. CASE ~TreeBegins(s, i)
  <2>1. r.ok = FALSE
    BY <1>1, <1>4
  <2> QED
    BY <1>2, <1>4, <2>1, Zenon DEF VariationsIs, Closed
<1> QED
  BY <1>3, <1>4

\* What SubTreesFrom finds at each place, and that it has a type.
LEMMA VariationsDef ==
  ASSUME NEW s, Readable(s)
  PROVE  \A i \in 1 .. Len(s) + 1 :
            /\ TreesGood(s, i, SubTreesFrom(s)[i])
            /\ SubTreesFrom(s)[i] = VariationsIs(s, SubTreesFrom(s), i)
<1> DEFINE from == CHOOSE f : f = [i \in 1 .. Len(s) + 1 |-> VariationsBody(s, f, i)]
<1>0. s \in Seq(Tokens) /\ Len(s) \in Nat /\ DOMAIN s = 1 .. Len(s)
  BY LenProperties DEF Readable
<1>1. Varying!WellFounded(s)
  <2>1. \A i \in 1 .. Len(s) + 1 : Len(s) + 1 - i \in Nat
    BY <1>0
  <2> SUFFICES ASSUME NEW g, NEW h, NEW i \in 1 .. Len(s) + 1,
                      \A k \in 1 .. Len(s) + 1 : Len(s) + 1 - k < Len(s) + 1 - i
                          => g[k] = h[k] /\ TreesGood(s, k, g[k])
               PROVE  /\ VariationsBody(s, g, i) = VariationsBody(s, h, i)
                      /\ TreesGood(s, i, VariationsBody(s, g, i))
    BY <2>1, Zenon DEF Varying!WellFounded, PlaceDomain, PlaceRank
  <2>2. \A k \in i + 1 .. Len(s) + 1 : g[k] = h[k] /\ TreesGood(s, k, g[k])
    <3>1. \A k \in i + 1 .. Len(s) + 1 :
             k \in 1 .. Len(s) + 1 /\ Len(s) + 1 - k < Len(s) + 1 - i
      BY <1>0
    <3> QED
      BY <3>1, Zenon
  <2>3. /\ VariationsBody(s, g, i) = VariationsIs(s, g, i)
        /\ VariationsBody(s, h, i) = VariationsIs(s, h, i)
    BY <1>0, VariationsBodyIs
  <2>4. TreeBegins(s, i) =>
           /\ g[MainEnd(s, i)] = h[MainEnd(s, i)]
           /\ TreesGood(s, MainEnd(s, i), g[MainEnd(s, i)])
    <3> SUFFICES ASSUME TreeBegins(s, i) PROVE MainEnd(s, i) \in i + 1 .. Len(s) + 1
      BY <2>2, Zenon
    <3>1. MainEnd(s, i) \in i + 2 .. Len(s) + 1
      BY <1>0, MainEndIs
    <3> QED
      BY <1>0, <3>1
  <2>5. CASE Closed(s, i, g)
    <3> DEFINE m == MainEnd(s, i)
               c == g[m].end
    <3>1. TreeBegins(s, i) /\ IsAt(Close, s, c) /\ g[m] = h[m] /\ TreesGood(s, m, g[m])
      BY <2>4, <2>5, Zenon DEF Closed
    <3>2. c \in m .. Len(s) + 1 /\ m \in i + 2 .. Len(s) + 1 /\ c \in 1 .. Len(s)
      BY <1>0, <3>1, MainEndIs DEF TreesGood, IsAt
    <3> HIDE DEF m
    <3>3. c + 1 \in i + 1 .. Len(s) + 1
      BY <1>0, <3>2
    <3> HIDE DEF c
    <3>4. g[c + 1] = h[c + 1] /\ TreesGood(s, c + 1, g[c + 1])
      BY <2>2, <3>3
    <3>5. VariationsIs(s, g, i) = [end |-> g[c + 1].end,
                                   trees |-> WithVariation(TreeOf(s, i, g[m]), g[c + 1].trees)]
      BY <2>5, Zenon DEF VariationsIs, m, c
    <3>6. Closed(s, i, h)
      BY <3>1, Zenon DEF Closed, m, c
    <3>7. VariationsIs(s, h, i) = [end |-> h[c + 1].end,
                                   trees |-> WithVariation(TreeOf(s, i, h[m]), h[c + 1].trees)]
      BY <3>1, <3>6, Zenon DEF VariationsIs, m, c
    <3>8. TreesGood(s, i, [end |-> g[c + 1].end,
                           trees |-> WithVariation(TreeOf(s, i, g[m]), g[c + 1].trees)])
      BY <3>1, <3>4, TreesStep, Zenon DEF m, c
    <3> QED
      BY <2>3, <3>1, <3>4, <3>5, <3>7, <3>8, Zenon
  <2>6. CASE ~Closed(s, i, g)
    <3> DEFINE v == [end |-> i, trees |-> <<>>]
    <3>1. ~Closed(s, i, h)
      BY <2>4, <2>6, Zenon DEF Closed
    <3>2. VariationsIs(s, g, i) = v /\ VariationsIs(s, h, i) = v
      BY <2>6, <3>1, Zenon DEF VariationsIs
    <3>3. v.end = i /\ v.trees = <<>> /\ i \in i .. Len(s) + 1
      BY <1>0
    <3>4. \A S : <<>> \in Seq(S)
      BY EmptySeq
    <3>5. SubSeq(s, i, i - 1) = <<>> /\ Flat(<<>>, PrintF) = <<>> /\ Content(<<>>) = <<>>
      BY <1>0, SubSeqEmpty, FlatEmpty, KeepEmpty DEF Content
    <3> HIDE DEF v
    <3>6. TreesGood(s, i, v)
      BY <3>3, <3>4, <3>5, Zenon DEF TreesGood
    <3> QED
      BY <2>3, <3>2, <3>6, Zenon
  <2> QED
    BY <2>5, <2>6
<1>2. from = [i \in 1 .. Len(s) + 1 |-> VariationsBody(s, from, i)]
  <2>1. \E f : f = [i \in 1 .. Len(s) + 1 |-> VariationsBody(s, f, i)]
    BY <1>1, Varying!Exists, Zenon DEF Varying!Satisfies, PlaceDomain
  <2> QED
    BY <2>1, Zenon
<1>3. SubTreesFrom(s) = from
  BY Zenon DEF SubTreesFrom, VariationsBody
<1> HIDE DEF from
<1>4. Varying!Satisfies(s, from)
  BY <1>2, Zenon DEF Varying!Satisfies, PlaceDomain
<1>5. \A i \in 1 .. Len(s) + 1 : TreesGood(s, i, from[i])
  BY <1>1, <1>4, Varying!GoodValues, Zenon DEF PlaceDomain
<1>6. \A i \in 1 .. Len(s) + 1 : from[i] = VariationsIs(s, from, i)
  <2>1. \A i \in 1 .. Len(s) + 1 : from[i] = VariationsBody(s, from, i)
    BY <1>2, Zenon
  <2>2. \A i \in 1 .. Len(s) + 1 : VariationsBody(s, from, i) = VariationsIs(s, from, i)
    BY <1>0, VariationsBodyIs
  <2> QED
    BY <2>1, <2>2, Zenon
<1> QED
  BY <1>3, <1>5, <1>6, Zenon

\* Induction from the end of a sequence of n things: P is the set of the places for
\* which something is to be shown.
LEMMA Backwards ==
  ASSUME NEW n \in Nat, NEW P,
         \A i \in 1 .. n + 1 : (\A j \in i + 1 .. n + 1 : j \in P) => i \in P
  PROVE  \A i \in 1 .. n + 1 : i \in P
<1> DEFINE Q == {k \in Nat : \A i \in 1 .. n + 1 : n + 1 - i < k => i \in P}
<1>1. 0 \in Q
  OBVIOUS
<1>2. ASSUME NEW k \in Nat, k \in Q PROVE k + 1 \in Q
  <2> SUFFICES ASSUME NEW i \in 1 .. n + 1, n + 1 - i < k + 1 PROVE i \in P
    OBVIOUS
  <2>1. \A j \in i + 1 .. n + 1 : j \in 1 .. n + 1 /\ n + 1 - j < k
    OBVIOUS
  <2>2. \A j \in i + 1 .. n + 1 : j \in P
    BY <1>2, <2>1
  <2> QED
    BY <2>2
<1>3. Nat \subseteq Q
  <2> HIDE DEF Q
  <2> QED
    BY <1>1, <1>2, Induction
<1>4. n + 1 \in Q
  BY <1>3
<1> QED
  BY <1>4

\* The first tree of a file.
ReadEnd(s) == IF TreeBegins(s, 1) THEN SubTreesFrom(s)[MainEnd(s, 1)].end ELSE 1

\* What was read is a tree of what the file begins with, and all of its moves and
\* lines are in its move tree.
LEMMA ReadIs ==
  ASSUME NEW s, Readable(s)
  PROVE  /\ parse_sgf(s) = IF TreeBegins(s, 1)
                           THEN TreeOf(s, 1, SubTreesFrom(s)[MainEnd(s, 1)]) ELSE Empty
         /\ ReadEnd(s) \in 1 .. Len(s) + 1
         /\ parse_sgf(s) \in SyntaxTrees
         /\ parse_sgf(s) \in WithMoves /\ parse_sgf(s) \in WithLines
         /\ PrintGameTree(parse_sgf(s)) = Content(SubSeq(s, 1, ReadEnd(s) - 1))
<1> DEFINE V == SubTreesFrom(s)
           m == MainEnd(s, 1)
<1>1. s \in Seq(Tokens) /\ Len(s) \in Nat /\ 1 \in 1 .. Len(s) + 1 /\ MaxNodes >= 1 /\ MaxNodes \in Nat
  BY SgfAssumption, LenProperties DEF Readable
<1>2. GameTreeAt(s, 1, V) = IF TreeBegins(s, 1)
         THEN [ok |-> IsAt(Close, s, V[m].end), end |-> V[m].end + 1, tree |-> TreeOf(s, 1, V[m])]
         ELSE [ok |-> FALSE, end |-> 1, tree |-> Empty]
  BY <1>1, GameTreeIs, Zenon
<1>3. parse_sgf(s) = IF TreeBegins(s, 1) THEN TreeOf(s, 1, V[m]) ELSE Empty
  <2>1. parse_sgf(s) = GameTreeAt(s, 1, V).tree
    BY DEF parse_sgf
  <2> HIDE DEF V, m
  <2> DEFINE e == V[m].end
             t == TreeOf(s, 1, V[m])
             c == IsAt(Close, s, e)
             r == GameTreeAt(s, 1, V)
  <2>2. r = IF TreeBegins(s, 1) THEN [ok |-> c, end |-> e + 1, tree |-> t]
            ELSE [ok |-> FALSE, end |-> 1, tree |-> Empty]
    BY <1>2
  <2> HIDE DEF e, t, c, r
  <2>3. r.tree = IF TreeBegins(s, 1) THEN t ELSE Empty
    BY <2>2
  <2> QED
    BY <2>1, <2>3 DEF t, r
<1>4. CASE TreeBegins(s, 1)
  <2>1. m \in 1 .. Len(s) + 1
    BY <1>1, <1>4, MainEndIs
  <2>2. TreesGood(s, m, V[m])
    BY <2>1, VariationsDef
  <2>3. TreeGood(s, 1, V[m].end, TreeOf(s, 1, V[m]))
    BY <1>1, <1>4, <2>2, TreeAt, Zenon DEF TreeOf
  <2>4. parse_sgf(s) = TreeOf(s, 1, V[m]) /\ ReadEnd(s) = V[m].end
    BY <1>3, <1>4, Zenon DEF ReadEnd
  <2>5. ReadEnd(s) \in 1 + 1 .. Len(s) + 1 /\ parse_sgf(s) \in WithMoves /\ parse_sgf(s) \in WithLines
        /\ PrintGameTree(parse_sgf(s)) = Content(SubSeq(s, 1, ReadEnd(s) - 1))
    BY <2>3, <2>4, Zenon DEF TreeGood
  <2>6. ReadEnd(s) \in 1 .. Len(s) + 1
    BY <1>1, <2>5
  <2>7. parse_sgf(s) \in SyntaxTrees
    BY <2>5 DEF WithMoves
  <2> QED
    BY <1>3, <2>5, <2>6, <2>7
<1>5. CASE ~TreeBegins(s, 1)
  <2>1. parse_sgf(s) = Empty /\ ReadEnd(s) = 1
    BY <1>3, <1>5 DEF ReadEnd
  <2>2. Empty \in SyntaxTrees /\ Empty.sequence_ = <<>> /\ Empty.sub_trees = <<>>
    BY DEF SyntaxTrees, Empty
  <2>3. \A S : <<>> \in Seq(S)
    BY EmptySeq
  <2>4. Empty \in WithMoves /\ Empty \in WithLines
    BY <1>1, <2>2, <2>3, MovesFound, LinesFound
  <2>5. PrintGameTree(Empty) = <<>>
    <3>1. PrintGameTree(Empty) = PrintSequence(<<>>) \o Flat(<<>>, PrintF)
      BY <2>2, PrintDef
    <3>2. PrintSequence(<<>>) = Flat(<<>>, NodeText)
      BY <2>3, PrintSequenceIs
    <3> QED
      BY <3>1, <3>2, FlatEmpty, ConcatEmptySeq, EmptySeq
  <2>6. SubSeq(s, 1, 1 - 1) = <<>> /\ Content(<<>>) = <<>>
    BY SubSeqEmpty, KeepEmpty DEF Content
  <2> QED
    BY <1>1, <1>3, <2>1, <2>2, <2>4, <2>5, <2>6
<1> QED
  BY <1>4, <1>5

-----------------------------------------------------------------------------
(* A file that begins with another one.                                    *)

Begins(u, s) == Len(u) <= Len(s) /\ \A i \in 1 .. Len(u) : s[i] = u[i]

\* What a file that can be read begins with can be read.
LEMMA PrefixReadable ==
  ASSUME NEW s, Readable(s), NEW n \in 0 .. Len(s)
  PROVE  /\ Readable(SubSeq(s, 1, n)) /\ Len(SubSeq(s, 1, n)) = n
         /\ Begins(SubSeq(s, 1, n), s)
<1> DEFINE u == SubSeq(s, 1, n)
<1>1. /\ s \in Seq(Tokens) /\ Len(s) \in Nat /\ n \in Nat /\ MaxNodes >= 1 /\ MaxNodes \in Nat
      /\ DOMAIN s = 1 .. Len(s) /\ NodesIn(s) <= MaxNodes /\ OneMoveANode(s)
  BY SgfAssumption, LenProperties DEF Readable
<1>2. u \in Seq(Tokens) /\ Len(u) = n /\ \A i \in 1 .. n : u[i] = s[i]
  <2>1. \A i \in 1 .. n : s[i] \in Tokens
    BY <1>1, ElementOfSeq
  <2>2. 1 \in Int /\ n \in Int /\ (1 <= n \/ n = 0) /\ n - 1 + 1 = n
    BY <1>1
  <2>3. /\ u \in Seq(Tokens) /\ Len(u) = IF 1 <= n THEN n - 1 + 1 ELSE 0
        /\ \A i \in 1 .. n - 1 + 1 : u[i] = s[1 + i - 1]
    BY <2>1, <2>2, SubSeqProperties
  <2>4. \A i \in 1 .. n : 1 + i - 1 = i
    OBVIOUS
  <2> HIDE DEF u
  <2>5. Len(u) = n
    BY <1>1, <2>2, <2>3
  <2> QED
    BY <2>2, <2>3, <2>4, <2>5
<1>3. NodesIn(u) <= MaxNodes
  <2>1. n + 1 \in 1 .. Len(s) + 1 /\ 1 \in 1 .. Len(s) + 1 /\ (n + 1) - 1 = n
    BY <1>1
  <2>2. /\ NodesIn(SubSeq(s, 1, (n + 1) - 1)) \in Nat /\ NodesFrom(s, n + 1) \in Nat
        /\ NodesIn(s) = NodesIn(SubSeq(s, 1, (n + 1) - 1)) + NodesFrom(s, n + 1)
    BY <1>1, <2>1, NodesLeft
  <2> HIDE DEF u
  <2>3. NodesIn(u) \in Nat /\ NodesIn(s) = NodesIn(u) + NodesFrom(s, n + 1)
    BY <2>1, <2>2 DEF u
  <2> QED
    BY <1>1, <2>2, <2>3
<1> HIDE DEF u
<1>4. DOMAIN u = 1 .. n
  BY <1>2, LenProperties
<1>5. OneMoveANode(u)
  <2> SUFFICES ASSUME NEW i \in 1 .. n, NEW k \in 1 .. n, i < k, u[i] \in Moves, u[k] \in Moves
               PROVE  \E j \in i .. k : u[j] = Semicolon
    BY <1>4 DEF OneMoveANode
  <2>1. i \in DOMAIN s /\ k \in DOMAIN s /\ s[i] \in Moves /\ s[k] \in Moves
    BY <1>1, <1>2
  <2>2. PICK j \in i .. k : s[j] = Semicolon
    BY <1>1, <2>1 DEF OneMoveANode
  <2>3. u[j] = s[j]
    BY <1>1, <1>2, <2>2
  <2> QED
    BY <2>2, <2>3
<1>6. Begins(u, s)
  BY <1>1, <1>2 DEF Begins
<1> QED
  BY <1>1, <1>2, <1>3, <1>5, <1>6 DEF Readable, u

\* A concatenation begins with its first part.
LEMMA PrefixOfConcat ==
  ASSUME NEW E, NEW a \in Seq(E), NEW b \in Seq(E)
  PROVE  IsPrefix(a, a \o b)
<1>1. /\ Len(a) \in Nat /\ Len(b) \in Nat /\ a \o b \in Seq(E)
      /\ Len(a \o b) = Len(a) + Len(b)
      /\ \A i \in 1 .. Len(a) : (a \o b)[i] = a[i]
  BY LenProperties, ConcatProperties
<1> DEFINE c == a \o b
<1>2. /\ c \in Seq(E) /\ Len(a) <= Len(c) /\ \A i \in 1 .. Len(a) : c[i] = a[i] /\ c[i] \in E
  BY <1>1, ElementOfSeq
<1> HIDE DEF c
<1>3. /\ SubSeq(a, 1, Len(a)) = a
      /\ SubSeq(c, 1, Len(a)) \in Seq(E)
      /\ Len(SubSeq(c, 1, Len(a))) = Len(a)
      /\ \A i \in 1 .. Len(a) : SubSeq(c, 1, Len(a))[i] = a[i]
  <2>1. /\ SubSeq(c, 1, Len(a)) \in Seq(E)
        /\ Len(SubSeq(c, 1, Len(a))) = IF 1 <= Len(a) THEN Len(a) - 1 + 1 ELSE 0
        /\ \A i \in 1 .. Len(a) - 1 + 1 : SubSeq(c, 1, Len(a))[i] = c[1 + i - 1]
    BY <1>1, <1>2, SubSeqProperties
  <2>2. Len(a) - 1 + 1 = Len(a) /\ \A i \in 1 .. Len(a) : 1 + i - 1 = i
    BY <1>1
  <2>3. (IF 1 <= Len(a) THEN Len(a) - 1 + 1 ELSE 0) = Len(a)
    BY <1>1
  <2> QED
    BY <1>2, <2>1, <2>2, <2>3, SubSeqFull
<1>4. SubSeq(c, 1, Len(a)) = a
  BY <1>3, SeqEqual
<1> QED
  BY <1>2, <1>3, <1>4 DEF IsPrefix, c

\* The beginning of a file is printed as the beginning of what it contains.
LEMMA PrefixContent ==
  ASSUME NEW s \in Seq(Tokens), NEW j \in 1 .. Len(s) + 1, NEW i \in 1 .. j
  PROVE  IsPrefix(Content(SubSeq(s, 1, i - 1)), Content(SubSeq(s, 1, j - 1)))
<1> DEFINE a == SubSeq(s, 1, i - 1)
           b == SubSeq(s, i, j - 1)
<1>0. 1 \in 1 .. Len(s) + 1 /\ i \in 1 .. Len(s) + 1 /\ j \in i .. Len(s) + 1
      /\ Len(s) + 1 \in j .. Len(s) + 1
  BY LenProperties
<1>1. /\ a \in Seq(Tokens) /\ b \in Seq(Tokens)
      /\ Content(SubSeq(s, 1, j - 1)) = Content(a) \o Content(b)
  BY <1>0, ContentSplit, Zenon
<1> HIDE DEF a, b
<1>2. Content(a) \in Seq(Tokens) /\ Content(b) \in Seq(Tokens)
  BY <1>1, KeepHolds DEF Content
<1>3. IsPrefix(Content(a), Content(a) \o Content(b))
  BY <1>2, PrefixOfConcat
<1> QED
  BY <1>1, <1>3, Zenon DEF a
=============================================================================
