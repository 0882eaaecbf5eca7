--------------------------- MODULE SgfReaderProofs --------------------------
(***************************************************************************)
(* Proofs about SgfReader, for every set of properties and of trees, and   *)
(* files of any length: nothing is invented, no move is lost, lines of play*)
(* stay what they were, and a file that arrived whole is read as it was    *)
(* written.                                                                *)
(***************************************************************************)
EXTENDS SgfTreeProofs

-----------------------------------------------------------------------------
(* The invariant.                                                          *)

\* What arrives can be read, and no more than one token of it is a flaw.
FileInv ==
    /\ tree \in Trees /\ flawed \in BOOLEAN /\ file \in Seq(Tokens) /\ rest \in Seq(Tokens)
    /\ NodesIn(file \o rest) + (IF flawed THEN 0 ELSE 1) <= MaxNodes
    /\ OneMoveANode(file \o rest)
    /\ ~flawed => file \o rest = Written(tree)

\* What was read is from a file that this one begins with.
ReadInv ==
    /\ \E n \in 0 .. Len(file) : ast = parse_sgf(SubSeq(file, 1, n))
    /\ moves = parse_game_tree(ast) /\ header = Header(ast)

\* A tree that is written is a file that can be read, with room for a flaw.
LEMMA WrittenIs ==
  ASSUME NEW t \in Trees
  PROVE  /\ MaxNodes \in Nat /\ MaxNodes >= 1 /\ t \in SyntaxTrees
         /\ Written(t) \in Seq(Tokens) /\ OneMoveANode(Written(t))
         /\ NodesIn(Written(t)) \in Nat /\ NodesIn(Written(t)) < MaxNodes
<1>1. MaxNodes \in Nat /\ t \in TreesTo[MaxNodes]
  BY SgfAssumption
<1>2. MaxNodes # 0
  BY <1>1, TreesDef
<1>3. t \in SyntaxTrees
  BY <1>1 DEF SyntaxTrees
<1>4. Written(t) \in Seq(Tokens)
  BY <1>3, WrittenType
<1> QED
  BY <1>1, <1>2, <1>3, <1>4, SgfAssumption, NodesInType

\* One token more that is no move: at most one node more, and none with more moves.
LEMMA Insert ==
  ASSUME NEW a \in Seq(Tokens), NEW b \in Seq(Tokens), NEW x \in Tokens, x \notin Moves
  PROVE  /\ NodesIn(Append(a, x) \o b) <= NodesIn(a \o b) + 1
         /\ OneMoveANode(a \o b) => OneMoveANode(Append(a, x) \o b)
<1> DEFINE c == Append(a, x)
           s == a \o b
           u == c \o b
           n == Len(a)
           S == {Semicolon}
<1>1. /\ c \in Seq(Tokens) /\ Len(c) = n + 1 /\ n \in Nat /\ Len(b) \in Nat
      /\ c[n + 1] = x /\ \A i \in 1 .. n : c[i] = a[i]
  BY AppendProperties, LenProperties
<1>2. /\ s \in Seq(Tokens) /\ Len(s) = n + Len(b) /\ DOMAIN s = 1 .. n + Len(b)
      /\ \A i \in 1 .. n : s[i] = a[i]
      /\ \A i \in n + 1 .. n + Len(b) : s[i] = b[i - n]
  <2>1. /\ s \in Seq(Tokens) /\ Len(s) = n + Len(b)
        /\ \A i \in 1 .. Len(s) : s[i] = IF i <= n THEN a[i] ELSE b[i - n]
    BY ConcatProperties
  <2> HIDE DEF s
  <2> QED
    BY <1>1, <2>1, LenProperties
<1> HIDE DEF c
<1>3. /\ u \in Seq(Tokens) /\ DOMAIN u = 1 .. n + 1 + Len(b)
      /\ \A i \in 1 .. n + 1 : u[i] = c[i]
      /\ \A i \in n + 2 .. n + 1 + Len(b) : u[i] = b[i - (n + 1)]
  <2>1. /\ u \in Seq(Tokens) /\ Len(u) = Len(c) + Len(b)
        /\ \A i \in 1 .. Len(u) : u[i] = IF i <= Len(c) THEN c[i] ELSE b[i - Len(c)]
    <3>1. \A v \in Seq(Tokens) :
             /\ v \o b \in Seq(Tokens) /\ Len(v \o b) = Len(v) + Len(b)
             /\ \A i \in 1 .. Len(v \o b) :
                   (v \o b)[i] = IF i <= Len(v) THEN v[i] ELSE b[i - Len(v)]
      BY ConcatProperties
    <3> QED
      BY <1>1, <3>1, Zenon
  <2> HIDE DEF u, n
  <2>2. DOMAIN u = 1 .. Len(u) /\ Len(u) = n + 1 + Len(b) /\ n + 1 + Len(b) \in Nat
    BY <1>1, <2>1, LenProperties
  <2>3. \A i \in 1 .. Len(u) : u[i] = IF i <= n + 1 THEN c[i] ELSE b[i - (n + 1)]
    BY <1>1, <2>1, Zenon
  <2> QED
    BY <1>1, <2>1, <2>2, <2>3
<1>4. NodesIn(u) <= NodesIn(s) + 1
  <2>1. Keep(u, S) = Keep(c, S) \o Keep(b, S) /\ Keep(s, S) = Keep(a, S) \o Keep(b, S)
    <3>1. \A v \in Seq(Tokens) : Keep(v \o b, S) = Keep(v, S) \o Keep(b, S)
      BY KeepConcat, SMTT(30)
    <3> QED
      BY <1>1, <3>1, Zenon
  <2>2. Keep(c, S) = IF x \in S THEN Append(Keep(a, S), x) ELSE Keep(a, S)
    BY KeepAppend DEF c
  <2>3. /\ Keep(a, S) \in Seq(Tokens) /\ Keep(b, S) \in Seq(Tokens) /\ Keep(c, S) \in Seq(Tokens)
    BY <1>1, KeepHolds
  <2> HIDE DEF S, s, u
  <2>4. Len(Keep(c, S)) <= Len(Keep(a, S)) + 1
    <3>1. Len(Append(Keep(a, S), x)) = Len(Keep(a, S)) + 1 /\ Len(Keep(a, S)) \in Nat
      BY <2>3, AppendProperties, LenProperties
    <3> QED
      BY <2>2, <3>1
  <2>5. /\ Len(Keep(u, S)) = Len(Keep(c, S)) + Len(Keep(b, S))
        /\ Len(Keep(s, S)) = Len(Keep(a, S)) + Len(Keep(b, S))
        /\ Len(Keep(a, S)) \in Nat /\ Len(Keep(b, S)) \in Nat /\ Len(Keep(c, S)) \in Nat
    BY <2>1, <2>3, ConcatProperties, LenProperties
  <2>6. Len(Keep(u, S)) <= Len(Keep(s, S)) + 1
    BY <2>4, <2>5
  <2> QED
    BY <2>6 DEF NodesIn, S
<1> DEFINE old(i) == IF i <= n THEN i ELSE i - 1
<1>5. \A i \in 1 .. n + 1 + Len(b) : i # n + 1 => old(i) \in DOMAIN s /\ s[old(i)] = u[i]
  <2> SUFFICES ASSUME NEW i \in 1 .. n + 1 + Len(b), i # n + 1
               PROVE  old(i) \in DOMAIN s /\ s[old(i)] = u[i]
    OBVIOUS
  <2> HIDE DEF s, u
  <2>1. CASE i <= n
    <3>1. i \in 1 .. n /\ i \in 1 .. n + 1
      BY <1>1, <2>1
    <3> QED
      BY <1>1, <1>2, <1>3, <3>1, <2>1
  <2>2. CASE ~(i <= n)
    <3>1. i \in n + 2 .. n + 1 + Len(b) /\ i - 1 \in n + 1 .. n + Len(b)
          /\ (i - 1) - n = i - (n + 1) /\ i - 1 \in 1 .. n + Len(b) /\ old(i) = i - 1
      BY <1>1, <2>2
    <3>2. s[i - 1] = b[(i - 1) - n] /\ u[i] = b[i - (n + 1)]
      BY <1>2, <1>3, <3>1, Zenon
    <3> HIDE DEF old
    <3> QED
      BY <1>2, <3>1, <3>2
  <2> QED
    BY <2>1, <2>2
<1>6. \A j \in 1 .. n + Len(b) : \E m \in 1 .. n + 1 + Len(b) : m # n + 1 /\ old(m) = j
  <2> SUFFICES ASSUME NEW j \in 1 .. n + Len(b)
               PROVE  \E m \in 1 .. n + 1 + Len(b) : m # n + 1 /\ old(m) = j
    OBVIOUS
  <2>1. CASE j <= n
    BY <1>1, <2>1
  <2>2. CASE ~(j <= n)
    <3>1. j + 1 \in 1 .. n + 1 + Len(b) /\ j + 1 # n + 1 /\ old(j + 1) = j
      BY <1>1, <2>2
    <3> QED
      BY <3>1, Zenon
  <2> QED
    BY <2>1, <2>2
<1>7. ASSUME OneMoveANode(s) PROVE OneMoveANode(u)
  <2> HIDE DEF s, u
  <2> SUFFICES ASSUME NEW i \in 1 .. n + 1 + Len(b), NEW k \in 1 .. n + 1 + Len(b),
                      i < k, u[i] \in Moves, u[k] \in Moves
               PROVE  \E j \in i .. k : u[j] = Semicolon
    BY <1>3 DEF OneMoveANode
  <2>1. i # n + 1 /\ k # n + 1
    <3>1. n + 1 \in 1 .. n + 1
      BY <1>1
    <3>2. u[n + 1] = x
      BY <1>1, <1>3, <3>1
    <3> QED
      BY <3>2
  <2>2. /\ old(i) \in DOMAIN s /\ old(k) \in DOMAIN s
        /\ s[old(i)] \in Moves /\ s[old(k)] \in Moves
    BY <1>5, <2>1
  <2>3. old(i) < old(k)
    BY <1>1, <2>1
  <2>4. PICK j \in old(i) .. old(k) : s[j] = Semicolon
    <3> HIDE DEF old
    <3> QED
      BY <1>7, <2>2, <2>3 DEF OneMoveANode
  <2>5. old(i) \in 1 .. n + Len(b) /\ old(k) \in 1 .. n + Len(b)
    BY <1>2, <2>2
  <2>6. j \in 1 .. n + Len(b)
    <3> HIDE DEF old
    <3> QED
      BY <1>1, <2>4, <2>5
  <2>7. PICK m \in 1 .. n + 1 + Len(b) : m # n + 1 /\ old(m) = j
    BY <1>6, <2>6
  <2>8. u[m] = Semicolon
    <3> HIDE DEF old
    <3> QED
      BY <1>5, <2>4, <2>7
  <2>9. m \in i .. k
    BY <1>1, <2>1, <2>4, <2>7
  <2> QED
    BY <2>8, <2>9
<1> QED
  BY <1>4, <1>7 DEF c

\* What has arrived so far can be read as it was.
LEMMA ReadsOn ==
  ASSUME NEW a \in Seq(Tokens), NEW x \in Tokens, NEW n \in 0 .. Len(a)
  PROVE  n \in 0 .. Len(Append(a, x)) /\ SubSeq(Append(a, x), 1, n) = SubSeq(a, 1, n)
<1> DEFINE b == Append(a, x)
<1>2. /\ b \in Seq(Tokens) /\ Len(b) = Len(a) + 1 /\ Len(a) \in Nat
      /\ \A i \in 1 .. Len(a) : b[i] = a[i]
  BY AppendProperties, LenProperties
<1> HIDE DEF b
<1>3. n \in 0 .. Len(b) /\ n \in Nat /\ \A i \in 1 .. n : b[i] = a[i]
  BY <1>2
<1>4. SubSeq(b, 1, n) = SubSeq(a, 1, n)
  <2>1. CASE n = 0
    <3>1. SubSeq(b, 1, 0) = <<>> /\ SubSeq(a, 1, 0) = <<>>
      BY SubSeqEmpty
    <3> QED
      BY <2>1, <3>1
  <2>2. CASE n # 0
    <3>1. n \in 1 .. Len(a) /\ 1 \in 1 .. Len(a)
      BY <1>2, <1>3, <2>2
    <3>2. b = a \o <<x>> /\ <<x>> \in Seq(Tokens)
      BY AppendIsConcat, OneSeq DEF b
    <3>3. \A v \in Seq(Tokens) : SubSeq(a \o v, 1, n) = SubSeq(a, 1, n)
      BY <3>1, SubSeqOfConcat1
    <3> QED
      BY <3>2, <3>3, Zenon
  <2> QED
    BY <2>1, <2>2
<1> QED
  BY <1>3, <1>4 DEF b

SgfInv == FileInv /\ ReadInv

\* Nothing is read of an empty file.
LEMMA NothingRead ==
  ASSUME MaxNodes >= 1
  PROVE  /\ parse_sgf(<<>>) = Empty /\ parse_game_tree(Empty) = Single(NoMove)
         /\ Header(Empty) = Unread
<1>1. Readable(<<>>)
  <2>1. <<>> \in Seq(Tokens) /\ Len(<<>>) = 0 /\ DOMAIN <<>> = {}
    BY EmptySeq
  <2>2. NodesIn(<<>>) = 0
    BY <2>1, KeepEmpty DEF NodesIn
  <2>3. NodesIn(<<>>) <= MaxNodes
    BY <2>2, SgfAssumption
  <2>4. OneMoveANode(<<>>)
    BY <2>1 DEF OneMoveANode
  <2> QED
    BY <2>1, <2>3, <2>4 DEF Readable
<1>2. parse_sgf(<<>>) = Empty
  <2>1. ~TreeBegins(<<>>, 1)
    BY EmptySeq DEF TreeBegins, IsAt
  <2> QED
    BY <1>1, <2>1, ReadIs
<1>3. parse_game_tree(Empty) = Single(NoMove)
  <2>1. Empty \in SyntaxTrees /\ Empty.sequence_ = <<>> /\ Empty.sub_trees = <<>>
    BY DEF SyntaxTrees, Empty
  <2>2. <<>> \in Seq(Nodes) /\ Len(<<>>) = 0
    BY EmptySeq
  <2>3. MoveList(<<>>) \in Seq(Moves) /\ Len(MoveList(<<>>)) \in 0 .. Len(<<>>)
    BY <2>2, MoveListIs
  <2>4. MoveList(<<>>) = <<>>
    BY <2>2, <2>3, EmptySeq
  <2>5. parse_sequence(<<>>) = Single(NoMove)
    BY <2>4, Zenon DEF parse_sequence
  <2>6. parse_game_tree(Empty) = [Single(NoMove) EXCEPT !.next_moves = @ \o <<>>]
    BY <2>1, <2>5, ParseDef, EachEmpty, Zenon
  <2>7. Single(NoMove).next_moves \o <<>> = Single(NoMove).next_moves
    BY ConcatEmptySeq, EmptySeq DEF Single
  <2> QED
    BY <2>6, <2>7 DEF Single
<1>4. Header(Empty) = Unread
  <2>1. Empty.sequence_ = <<>>
    BY DEF Empty
  <2> QED
    BY <2>1, Zenon DEF Header
<1> QED
  BY <1>2, <1>3, <1>4

\* It holds before anything has arrived.
LEMMA SgfInit == Init => SgfInv
<1> SUFFICES ASSUME Init PROVE SgfInv
  OBVIOUS
<1>1. tree \in Trees /\ file = <<>> /\ rest = Written(tree) /\ flawed = FALSE
      /\ ast = Empty /\ moves = Single(NoMove) /\ header = Unread
  BY DEF Init
<1>2. /\ MaxNodes \in Nat /\ MaxNodes >= 1 /\ rest \in Seq(Tokens) /\ OneMoveANode(rest)
      /\ NodesIn(rest) \in Nat /\ NodesIn(rest) < MaxNodes
  BY <1>1, WrittenIs
<1>3. file \o rest = rest /\ file \in Seq(Tokens)
  BY <1>1, <1>2, ConcatEmptySeq, EmptySeq
<1>4. FileInv
  <2>1. NodesIn(rest) + 1 <= MaxNodes
    BY <1>2
  <2> QED
    BY <1>1, <1>2, <1>3, <2>1 DEF FileInv
<1>5. ReadInv
  <2>1. 0 \in 0 .. Len(file) /\ SubSeq(file, 1, 0) = <<>>
    BY <1>3, SubSeqEmpty, LenProperties
  <2>2. ast = parse_sgf(SubSeq(file, 1, 0))
    BY <1>1, <1>2, <2>1, NothingRead
  <2>3. moves = parse_game_tree(ast) /\ header = Header(ast)
    BY <1>1, <1>2, NothingRead
  <2> QED
    BY <2>1, <2>2, <2>3, Zenon DEF ReadInv
<1> QED
  BY <1>4, <1>5 DEF SgfInv

\* Every step keeps it.
LEMMA SgfNext == SgfInv /\ [Next]_vars => SgfInv'
<1> SUFFICES ASSUME SgfInv, [Next]_vars PROVE SgfInv'
  OBVIOUS
<1>1. FileInv /\ ReadInv
  BY DEF SgfInv
<1>2. CASE Arrive
  <2>1. /\ file' = Append(file, Head(rest)) /\ rest' = Tail(rest) /\ rest # <<>>
        /\ tree' = tree /\ flawed' = flawed /\ ast' = ast /\ moves' = moves /\ header' = header
    BY <1>2 DEF Arrive
  <2>2. file \in Seq(Tokens) /\ rest \in Seq(Tokens)
    BY <1>1 DEF FileInv
  <2>3. /\ Head(rest) \in Tokens /\ Tail(rest) \in Seq(Tokens)
        /\ Append(file, Head(rest)) \in Seq(Tokens)
    BY <2>1, <2>2, HeadTailProperties, AppendProperties
  <2>4. Append(file, Head(rest)) \o Tail(rest) = file \o rest
    <3> DEFINE x == Head(rest)
               r == Tail(rest)
    <3>1. rest = <<x>> \o r
      BY <2>1, <2>2, ConcatSimplifications
    <3>2. Append(file, x) = file \o <<x>>
      BY <2>2, <2>3, AppendIsConcat
    <3>3. x \in Tokens /\ r \in Seq(Tokens) /\ <<x>> \in Seq(Tokens)
      BY <2>3, OneSeq
    <3> HIDE DEF x, r
    <3>4. \A u \in Seq(Tokens) : (file \o u) \o r = file \o (u \o r)
      BY <2>2, <3>3, ConcatAssociative, SMTT(30)
    <3> QED
      BY <3>1, <3>2, <3>3, <3>4, Zenon DEF x, r
  <2>5. FileInv'
    BY <1>1, <2>1, <2>2, <2>3, <2>4, Zenon DEF FileInv
  <2>6. \E n \in 0 .. Len(file') : ast = parse_sgf(SubSeq(file', 1, n))
    <3>1. PICK n \in 0 .. Len(file) : ast = parse_sgf(SubSeq(file, 1, n))
      BY <1>1 DEF ReadInv
    <3>2. /\ n \in 0 .. Len(Append(file, Head(rest)))
          /\ SubSeq(Append(file, Head(rest)), 1, n) = SubSeq(file, 1, n)
      BY <2>2, <2>3, ReadsOn
    <3> QED
      BY <2>1, <3>1, <3>2, Zenon
  <2>7. ReadInv'
    BY <1>1, <2>1, <2>6, Zenon DEF ReadInv
  <2> QED
    BY <2>5, <2>7 DEF SgfInv
<1>3. CASE \E token \in {Junk, Semicolon} : Flaw(token)
  <2>1. PICK token \in {Junk, Semicolon} : Flaw(token)
    BY <1>3
  <2>2. /\ file' = Append(file, token) /\ rest' = rest /\ ~flawed /\ flawed' = TRUE
        /\ tree' = tree /\ ast' = ast /\ moves' = moves /\ header' = header
    BY <2>1 DEF Flaw
  <2>3. token \in Tokens /\ token \notin Moves
    BY TokenTypes DEF Tokens, Moves
  <2>4. file \in Seq(Tokens) /\ rest \in Seq(Tokens) /\ Append(file, token) \in Seq(Tokens)
    BY <1>1, <2>3, AppendProperties DEF FileInv
  <2>5. /\ NodesIn(Append(file, token) \o rest) <= NodesIn(file \o rest) + 1
        /\ OneMoveANode(Append(file, token) \o rest)
    BY <1>1, <2>3, <2>4, Insert DEF FileInv
  <2>6. NodesIn(Append(file, token) \o rest) <= MaxNodes
    <3>1. file \o rest \in Seq(Tokens) /\ Append(file, token) \o rest \in Seq(Tokens)
      BY <2>4, ConcatProperties
    <3> DEFINE a == file \o rest
               b == Append(file, token) \o rest
    <3>2. NodesIn(a) + 1 <= MaxNodes /\ NodesIn(b) <= NodesIn(a) + 1 /\ MaxNodes \in Nat
      BY <1>1, <2>2, <2>5, SgfAssumption DEF FileInv
    <3>3. NodesIn(a) \in Nat /\ NodesIn(b) \in Nat
      BY <3>1, NodesInType
    <3> HIDE DEF a, b
    <3>4. NodesIn(b) <= MaxNodes
      BY <3>2, <3>3
    <3> QED
      BY <3>4 DEF b
  <2>7. NodesIn(Append(file, token) \o rest) + 0 <= MaxNodes
    <3>1. Append(file, token) \o rest \in Seq(Tokens)
      BY <2>4, ConcatProperties
    <3>2. NodesIn(Append(file, token) \o rest) \in Nat
      BY <3>1, NodesInType
    <3> HIDE DEF NodesIn
    <3> QED
      BY <2>6, <3>2
  <2>8. FileInv'
    BY <1>1, <2>2, <2>4, <2>5, <2>7, Zenon DEF FileInv
  <2>9. \E n \in 0 .. Len(file') : ast = parse_sgf(SubSeq(file', 1, n))
    <3>1. PICK n \in 0 .. Len(file) : ast = parse_sgf(SubSeq(file, 1, n))
      BY <1>1 DEF ReadInv
    <3>2. /\ n \in 0 .. Len(Append(file, token))
          /\ SubSeq(Append(file, token), 1, n) = SubSeq(file, 1, n)
      BY <2>3, <2>4, ReadsOn
    <3> QED
      BY <2>2, <3>1, <3>2, Zenon
  <2>10. ReadInv'
    BY <1>1, <2>2, <2>9, Zenon DEF ReadInv
  <2> QED
    BY <2>8, <2>10 DEF SgfInv
<1>4. CASE ReadSgf
  <2>1. /\ ast' = parse_sgf(file) /\ moves' = parse_game_tree(ast') /\ header' = Header(ast')
        /\ tree' = tree /\ file' = file /\ rest' = rest /\ flawed' = flawed
    BY <1>4 DEF ReadSgf
  <2>2. FileInv'
    BY <1>1, <2>1 DEF FileInv
  <2>3. Len(file) \in 0 .. Len(file) /\ SubSeq(file, 1, Len(file)) = file
    BY <1>1, SubSeqFull, LenProperties DEF FileInv
  <2>4. \E n \in 0 .. Len(file) : parse_sgf(file) = parse_sgf(SubSeq(file, 1, n))
    BY <2>3, Zenon
  <2>5. ReadInv'
    BY <2>1, <2>4, Zenon DEF ReadInv
  <2> QED
    BY <2>2, <2>5 DEF SgfInv
<1>5. CASE UNCHANGED vars
  BY <1>1, <1>5 DEF vars, SgfInv, FileInv, ReadInv
<1> QED
  BY <1>2, <1>3, <1>4, <1>5 DEF Next

\* The inductive invariant: whatever arrives, is flawed or is read, the file
\* stays one that the grammar can go over, and what the reader holds is what its
\* constructor made of a file that this one begins with.
THEOREM SgfInvariance == Spec => []SgfInv
  BY SgfInit, SgfNext, PTL DEF Spec

\* The file can be read, and the part of it that was.
LEMMA InvReadable ==
  ASSUME SgfInv
  PROVE  /\ Readable(file)
         /\ \E n \in 0 .. Len(file) :
               /\ ast = parse_sgf(SubSeq(file, 1, n)) /\ Readable(SubSeq(file, 1, n))
               /\ Len(SubSeq(file, 1, n)) = n /\ Begins(SubSeq(file, 1, n), file)
<1> DEFINE s == file \o rest
           n == Len(file)
<1>1. /\ tree \in Trees /\ file \in Seq(Tokens) /\ rest \in Seq(Tokens) /\ OneMoveANode(s)
      /\ NodesIn(s) + (IF flawed THEN 0 ELSE 1) <= MaxNodes
  BY DEF SgfInv, FileInv
<1>2. /\ s \in Seq(Tokens) /\ n \in 0 .. Len(s) /\ \A i \in 1 .. n : s[i] = file[i]
      /\ n \in Nat /\ Len(s) = n + Len(rest)
  BY <1>1, ConcatProperties, LenProperties
<1> HIDE DEF s
<1>3. Readable(s)
  <2>1. MaxNodes \in Nat /\ MaxNodes >= 1
    BY <1>1, WrittenIs
  <2>2. NodesIn(s) \in Nat
    BY <1>2, NodesInType
  <2>3. NodesIn(s) <= MaxNodes
    BY <1>1, <2>1, <2>2
  <2> QED
    BY <1>1, <1>2, <2>1, <2>3 DEF Readable
<1>4. SubSeq(s, 1, n) = file
  <2>1. /\ Readable(SubSeq(s, 1, n)) /\ Len(SubSeq(s, 1, n)) = n
        /\ Begins(SubSeq(s, 1, n), s)
    BY <1>2, <1>3, PrefixReadable
  <2>2. SubSeq(s, 1, n) \in Seq(Tokens)
    BY <2>1 DEF Readable
  <2> DEFINE u == SubSeq(s, 1, n)
  <2>3. \A i \in 1 .. n : u[i] = file[i]
    BY <1>2, <2>1 DEF Begins
  <2> HIDE DEF u
  <2> QED
    BY <1>1, <2>1, <2>2, <2>3, SeqEqual DEF u
<1>5. Readable(file)
  BY <1>2, <1>3, <1>4, PrefixReadable
<1>6. PICK k \in 0 .. Len(file) : ast = parse_sgf(SubSeq(file, 1, k))
  BY DEF SgfInv, ReadInv
<1> QED
  BY <1>5, <1>6, PrefixReadable

-----------------------------------------------------------------------------
(* What the reader makes of a file.                                        *)

\* What was read is a tree.
LEMMA InvRead ==
  ASSUME SgfInv
  PROVE  /\ ast \in SyntaxTrees /\ ast \in WithMoves /\ ast \in WithLines
         /\ moves = parse_game_tree(ast) /\ moves \in MoveTrees
<1>1. ast \in SyntaxTrees /\ ast \in WithMoves /\ ast \in WithLines
  BY InvReadable, ReadIs
<1>2. moves = parse_game_tree(ast)
  BY DEF SgfInv, ReadInv
<1>3. MaxNodes >= 1
  BY InvReadable DEF Readable
<1>4. parse_game_tree(ast) \in MoveTrees
  BY <1>1, <1>3, ParsedTree
<1> QED
  BY <1>1, <1>2, <1>4

\* MovesKept: every move that the grammar read is in the move tree once and in the
\* order of the file, whatever nodes without a move stand between them and
\* however deep the variations are (parse_sequence, parse_game_tree and
\* append_move of move.cpp lose and repeat none).
THEOREM NoMoveLost == Spec => []MovesKept
<1>1. ASSUME SgfInv PROVE MovesKept
  BY <1>1, InvRead DEF MovesKept, WithMoves
<1> QED
  BY <1>1, SgfInvariance, PTL

\* LinesKept: the lines of play of the move tree are those of the file, if no
\* sequence goes on for more than one move before it branches (move.cpp hangs
\* variations on the head of their sequence).
THEOREM LinesAsWritten == Spec => []LinesKept
<1>1. ASSUME SgfInv PROVE LinesKept
  BY <1>1, InvRead DEF LinesKept, WithLines
<1> QED
  BY <1>1, SgfInvariance, PTL

-----------------------------------------------------------------------------
(* A file that grows.                                                      *)

SequenceEnd(s, i) == SequenceFrom(s)[i].end
VariationsEnd(s, i) == SubTreesFrom(s)[i].end

\* Where a sequence ends.
LEMMA SequenceEnds ==
  ASSUME NEW s \in Seq(Tokens), NEW i \in 1 .. Len(s) + 1
  PROVE  /\ SequenceEnd(s, i) \in i .. Len(s) + 1
         /\ NodeAt(s, i) => /\ NodeEnd(s, i) \in i + 2 .. Len(s) + 1
                            /\ NodeEnd(s, i) \in 1 .. Len(s) + 1
                            /\ SequenceEnd(s, i) = SequenceEnd(s, NodeEnd(s, i))
         /\ ~NodeAt(s, i) => SequenceEnd(s, i) = i
<1> DEFINE M == SequenceFrom(s)[i]
<1>1. SequenceGood(s, i, M) /\ M = SequenceBody(s, SequenceFrom(s), i) /\ Len(s) \in Nat
  BY SequenceDef, LenProperties
<1>2. SequenceEnd(s, i) = M.end
  BY DEF SequenceEnd
<1> HIDE DEF M
<1>3. M.end \in i .. Len(s) + 1
  BY <1>1, Zenon DEF SequenceGood
<1>4. CASE NodeAt(s, i)
  <2> DEFINE e == NodeEnd(s, i)
             a == SequenceFrom(s)[e].end
             b == <<SubSeq(s, i + 1, e - 1)>> \o SequenceFrom(s)[e].nodes
  <2>1. e \in i + 2 .. Len(s) + 1
    BY <1>4, NodeEndIs
  <2>2. M = [end |-> a, nodes |-> b]
    BY <1>1, <1>4, Zenon DEF SequenceBody
  <2>3. M.end = a
    <3> HIDE DEF a, b
    <3> QED
      BY <2>2
  <2>4. e \in 1 .. Len(s) + 1
    <3> HIDE DEF e
    <3> QED
      BY <1>1, <2>1
  <2> QED
    BY <1>2, <1>3, <1>4, <2>1, <2>3, <2>4, Zenon DEF SequenceEnd
<1>5. CASE ~NodeAt(s, i)
  <2>1. M = [end |-> i, nodes |-> <<>>]
    BY <1>1, <1>5, Zenon DEF SequenceBody
  <2> QED
    BY <1>2, <1>3, <1>5, <2>1
<1> QED
  BY <1>4, <1>5

\* A node can only become longer if the file ends in it.
LEMMA NodeGrows ==
  ASSUME NEW u \in Seq(Tokens), NEW s \in Seq(Tokens), Begins(u, s), NEW i, NodeAt(u, i)
  PROVE  /\ NodeAt(s, i) /\ NodeEnd(u, i) <= NodeEnd(s, i)
         /\ NodeEnd(u, i) <= Len(u) => NodeEnd(s, i) = NodeEnd(u, i)
<1> DEFINE e == NodeEnd(u, i)
           f == NodeEnd(s, i)
<1>1. /\ Len(u) \in Nat /\ Len(s) \in Nat /\ DOMAIN u = 1 .. Len(u) /\ DOMAIN s = 1 .. Len(s)
      /\ Len(u) <= Len(s) /\ \A k \in 1 .. Len(u) : s[k] = u[k]
  BY LenProperties DEF Begins
<1>2. /\ i \in 1 .. Len(u) - 1 /\ e \in i + 2 .. Len(u) + 1
      /\ \A j \in i + 1 .. e - 1 : u[j] \in Properties
      /\ ~PropertyAt(u, e)
  BY NodeEndIs
<1>3. NodeAt(s, i)
  BY <1>1 DEF NodeAt, IsAt, PropertyAt
<1>4. /\ f \in i + 2 .. Len(s) + 1
      /\ \A j \in i + 1 .. f - 1 : s[j] \in Properties
      /\ ~PropertyAt(s, f)
  BY <1>3, NodeEndIs
<1> HIDE DEF e, f
<1>5. ASSUME f < e PROVE FALSE
  <2>1. f \in i + 1 .. e - 1 /\ f \in 1 .. Len(u) /\ f \in 1 .. Len(s)
    BY <1>1, <1>2, <1>4, <1>5
  <2> QED
    BY <1>1, <1>2, <1>4, <2>1 DEF PropertyAt
<1>6. ASSUME e < f, e <= Len(u) PROVE FALSE
  <2>1. e \in i + 1 .. f - 1 /\ e \in 1 .. Len(u)
    BY <1>1, <1>2, <1>4, <1>6
  <2> QED
    BY <1>1, <1>2, <1>4, <2>1 DEF PropertyAt
<1>7. e <= f /\ (e <= Len(u) => f = e)
  BY <1>1, <1>2, <1>4, <1>5, <1>6
<1> QED
  BY <1>3, <1>7 DEF e, f

\* So can a sequence, or if the file ends with a semicolon after it.
SequenceStays(u, s, i) ==
    /\ SequenceEnd(u, i) <= SequenceEnd(s, i)
    /\ \/ SequenceEnd(s, i) = SequenceEnd(u, i)
       \/ SequenceEnd(u, i) = Len(u) + 1
       \/ SequenceEnd(u, i) = Len(u) /\ u[Len(u)] = Semicolon

\* Where a file goes on, a sequence is read to where it was or further.
LEMMA SequenceGrows ==
  ASSUME NEW u \in Seq(Tokens), NEW s \in Seq(Tokens), Begins(u, s)
  PROVE  \A i \in 1 .. Len(u) + 1 : SequenceStays(u, s, i)
<1> DEFINE P == {i \in 1 .. Len(u) + 1 : SequenceStays(u, s, i)}
<1>0. /\ Len(u) \in Nat /\ Len(s) \in Nat /\ DOMAIN u = 1 .. Len(u) /\ DOMAIN s = 1 .. Len(s)
      /\ Len(u) <= Len(s) /\ \A k \in 1 .. Len(u) : s[k] = u[k]
      /\ \A k \in 1 .. Len(u) + 1 : k \in 1 .. Len(s) + 1
  BY LenProperties DEF Begins
<1>1. ASSUME NEW i \in 1 .. Len(u) + 1, \A j \in i + 1 .. Len(u) + 1 : j \in P
      PROVE  i \in P
  <2> SUFFICES SequenceStays(u, s, i)
    OBVIOUS
  <2> DEFINE e == SequenceEnd(u, i)
             f == SequenceEnd(s, i)
  <2>1. i \in 1 .. Len(s) + 1
    BY <1>0
  <2>2. e \in i .. Len(u) + 1 /\ f \in i .. Len(s) + 1
    BY <2>1, SequenceEnds
  <2>3. CASE NodeAt(u, i)
    <3> DEFINE a == NodeEnd(u, i)
               b == NodeEnd(s, i)
    <3>1. NodeAt(s, i) /\ a <= b /\ (a <= Len(u) => b = a)
      BY <2>3, NodeGrows
    <3>2. /\ a \in i + 2 .. Len(u) + 1 /\ e = SequenceEnd(u, a)
          /\ b \in i + 2 .. Len(s) + 1 /\ b \in 1 .. Len(s) + 1 /\ f = SequenceEnd(s, b)
          /\ a \in 1 .. Len(u) + 1
      BY <2>1, <2>3, <3>1, SequenceEnds
    <3>3. SequenceEnd(u, a) \in a .. Len(u) + 1 /\ SequenceEnd(s, b) \in b .. Len(s) + 1
      BY <3>2, SequenceEnds
    <3> HIDE DEF a, b
    <3>4. CASE a <= Len(u)
      <4>1. a \in i + 1 .. Len(u) + 1
        BY <1>0, <3>2
      <4>2. SequenceStays(u, s, a)
        BY <1>1, <4>1
      <4>3. b = a
        BY <3>1, <3>4
      <4> QED
        BY <3>2, <4>2, <4>3, Zenon DEF SequenceStays
    <3>5. CASE ~(a <= Len(u))
      <4>1. e = Len(u) + 1 /\ e <= f
        BY <1>0, <3>1, <3>2, <3>3, <3>5
      <4> QED
        BY <4>1, Zenon DEF SequenceStays
    <3> QED
      BY <3>4, <3>5
  <2>4. CASE ~NodeAt(u, i) /\ ~NodeAt(s, i)
    <3>1. e = i /\ f = i
      BY <2>1, <2>4, SequenceEnds
    <3>2. i <= i
      BY <1>0
    <3> QED
      BY <3>1, <3>2, Zenon DEF SequenceStays
  <2>5. CASE ~NodeAt(u, i) /\ NodeAt(s, i)
    <3>1. e = i
      BY <2>5, SequenceEnds
    <3>2. e <= f
      <4> HIDE DEF e, f
      <4> QED
        BY <1>0, <2>2, <3>1
    <3>3. i = Len(u) + 1 \/ (i = Len(u) /\ u[Len(u)] = Semicolon)
      BY <1>0, <2>5 DEF NodeAt, IsAt, PropertyAt
    <3> QED
      BY <3>1, <3>2, <3>3, Zenon DEF SequenceStays
  <2> QED
    BY <2>3, <2>4, <2>5
<1>2. \A i \in 1 .. Len(u) + 1 : i \in P
  <2> HIDE DEF P
  <2> QED
    BY <1>0, <1>1, Backwards
<1> QED
  BY <1>2

ClosedAt(s, i) == Closed(s, i, SubTreesFrom(s))

\* Where variations end.
LEMMA VariationsEnds ==
  ASSUME NEW s, Readable(s), NEW i \in 1 .. Len(s) + 1
  PROVE  LET m == MainEnd(s, i)
             c == VariationsEnd(s, m)
         IN  /\ VariationsEnd(s, i) \in i .. Len(s) + 1
             /\ ClosedAt(s, i) =>
                   /\ TreeBegins(s, i) /\ m \in i + 2 .. Len(s) + 1 /\ m \in 1 .. Len(s) + 1
                   /\ c \in m .. Len(s) /\ s[c] = Close /\ c + 1 \in 1 .. Len(s) + 1
                   /\ VariationsEnd(s, i) = VariationsEnd(s, c + 1)
             /\ ~ClosedAt(s, i) => VariationsEnd(s, i) = i
<1> DEFINE V == SubTreesFrom(s)
           m == MainEnd(s, i)
           c == VariationsEnd(s, m)
<1>1. s \in Seq(Tokens) /\ Len(s) \in Nat /\ DOMAIN s = 1 .. Len(s)
  BY LenProperties DEF Readable
<1>2. TreesGood(s, i, V[i]) /\ V[i] = VariationsIs(s, V, i)
  BY VariationsDef
<1>3. V[i].end \in i .. Len(s) + 1
  BY <1>2, Zenon DEF TreesGood
<1>4. ASSUME ClosedAt(s, i)
      PROVE  /\ TreeBegins(s, i) /\ m \in i + 2 .. Len(s) + 1 /\ m \in 1 .. Len(s) + 1
             /\ c \in m .. Len(s) /\ s[c] = Close /\ c + 1 \in 1 .. Len(s) + 1
             /\ VariationsEnd(s, i) = VariationsEnd(s, c + 1)
  <2>1. TreeBegins(s, i) /\ IsAt(Close, s, V[m].end)
    BY <1>4, Zenon DEF ClosedAt, Closed
  <2>2. c = V[m].end
    BY DEF VariationsEnd
  <2>3. m \in i + 2 .. Len(s) + 1 /\ m \in 1 .. Len(s) + 1
    BY <1>1, <2>1, MainEndIs
  <2>4. TreesGood(s, m, V[m])
    BY <2>3, VariationsDef
  <2>5. c \in m .. Len(s) + 1 /\ c \in 1 .. Len(s) /\ s[c] = Close
    BY <1>1, <2>1, <2>2, <2>4, Zenon DEF TreesGood, IsAt
  <2>6. V[i].end = V[c + 1].end
    <3> DEFINE a == V[c + 1].end
               b == WithVariation(TreeOf(s, i, V[m]), V[c + 1].trees)
               v == V[i]
    <3>1. v = [end |-> a, trees |-> b]
      BY <1>2, <1>4, <2>2, Zenon DEF VariationsIs, ClosedAt
    <3> HIDE DEF a, b, v
    <3>2. v.end = a
      BY <3>1
    <3> QED
      BY <3>2 DEF a, v
  <2>7. VariationsEnd(s, i) = V[i].end /\ VariationsEnd(s, c + 1) = V[c + 1].end
    BY DEF VariationsEnd
  <2> HIDE DEF c, m, V
  <2>8. c \in m .. Len(s) /\ c + 1 \in 1 .. Len(s) + 1
    BY <1>1, <2>3, <2>5
  <2> QED
    BY <2>1, <2>3, <2>5, <2>6, <2>7, <2>8
<1>5. ASSUME ~ClosedAt(s, i) PROVE VariationsEnd(s, i) = i
  <2>1. V[i] = [end |-> i, trees |-> <<>>]
    BY <1>2, <1>5, Zenon DEF VariationsIs, ClosedAt
  <2> QED
    BY <2>1 DEF VariationsEnd
<1>6. VariationsEnd(s, i) \in i .. Len(s) + 1
  BY <1>3 DEF VariationsEnd
<1> QED
  BY <1>4, <1>5, <1>6, Zenon

\* Variations end where they did, or further on if the file ended in them.
VariationsStay(u, s, i) ==
    /\ VariationsEnd(u, i) <= VariationsEnd(s, i)
    /\ VariationsEnd(u, i) <= Len(u) /\ u[VariationsEnd(u, i)] # Open
          => VariationsEnd(s, i) = VariationsEnd(u, i)

\* A tree still begins there, and its sequence is over if there is more after it.
LEMMA TreeStays ==
  ASSUME NEW u \in Seq(Tokens), NEW s \in Seq(Tokens), Begins(u, s), NEW i, TreeBegins(u, i)
  PROVE  /\ TreeBegins(s, i) /\ MainEnd(u, i) <= MainEnd(s, i)
         /\ MainEnd(u, i) <= Len(u) /\ u[MainEnd(u, i)] # Semicolon
               => MainEnd(s, i) = MainEnd(u, i)
<1>1. /\ Len(u) \in Nat /\ Len(s) \in Nat /\ DOMAIN u = 1 .. Len(u) /\ DOMAIN s = 1 .. Len(s)
      /\ Len(u) <= Len(s) /\ \A k \in 1 .. Len(u) : s[k] = u[k]
  BY LenProperties DEF Begins
<1>2. /\ i + 1 \in 1 .. Len(u) + 1
      /\ MainEnd(u, i) \in i + 2 .. Len(u) + 1
  BY MainEndIs
<1>3. TreeBegins(s, i)
  <2>1. NodeAt(s, i + 1)
    BY NodeGrows DEF TreeBegins
  <2>2. IsAt(Open, s, i)
    BY <1>1 DEF TreeBegins, IsAt
  <2> QED
    BY <2>1, <2>2 DEF TreeBegins
<1>4. SequenceStays(u, s, i + 1)
  BY <1>2, SequenceGrows
<1>5. MainEnd(u, i) = SequenceEnd(u, i + 1) /\ MainEnd(s, i) = SequenceEnd(s, i + 1)
  BY DEF MainEnd, SequenceEnd
<1> DEFINE e == MainEnd(u, i)
           f == MainEnd(s, i)
<1>6. /\ e <= f
      /\ f = e \/ e = Len(u) + 1 \/ (e = Len(u) /\ u[Len(u)] = Semicolon)
  BY <1>4, <1>5, Zenon DEF SequenceStays
<1> HIDE DEF e, f
<1>7. e <= Len(u) /\ u[e] # Semicolon => f = e
  BY <1>1, <1>6
<1> QED
  BY <1>3, <1>6, <1>7 DEF e, f

\* So are variations.
LEMMA VariationsGrow ==
  ASSUME NEW u, NEW s, Readable(u), Readable(s), Begins(u, s)
  PROVE  \A i \in 1 .. Len(u) + 1 : VariationsStay(u, s, i)
<1> DEFINE P == {i \in 1 .. Len(u) + 1 : VariationsStay(u, s, i)}
<1>0. /\ Len(u) \in Nat /\ Len(s) \in Nat /\ DOMAIN u = 1 .. Len(u) /\ DOMAIN s = 1 .. Len(s)
      /\ Len(u) <= Len(s) /\ \A k \in 1 .. Len(u) : s[k] = u[k]
      /\ \A k \in 1 .. Len(u) + 1 : k \in 1 .. Len(s) + 1
      /\ u \in Seq(Tokens) /\ s \in Seq(Tokens)
  BY LenProperties DEF Begins, Readable
<1>1. ASSUME NEW i \in 1 .. Len(u) + 1, \A j \in i + 1 .. Len(u) + 1 : j \in P
      PROVE  i \in P
  <2> SUFFICES VariationsStay(u, s, i)
    OBVIOUS
  <2>0. i \in 1 .. Len(s) + 1
    BY <1>0
  <2>1. VariationsEnd(u, i) \in i .. Len(u) + 1 /\ VariationsEnd(s, i) \in i .. Len(s) + 1
    BY <2>0, VariationsEnds
  <2>2. CASE ClosedAt(u, i)
    <3> DEFINE m == MainEnd(u, i)
               c == VariationsEnd(u, m)
    <3>1. /\ TreeBegins(u, i) /\ m \in i + 2 .. Len(u) + 1
          /\ c \in m .. Len(u) /\ u[c] = Close
          /\ VariationsEnd(u, i) = VariationsEnd(u, c + 1)
      BY <2>2, VariationsEnds
    <3> HIDE DEF c
    <3>2. m \in i + 1 .. Len(u) + 1 /\ c + 1 \in i + 1 .. Len(u) + 1 /\ m <= Len(u)
          /\ c \in 1 .. Len(u) /\ m \in 1 .. Len(u) + 1 /\ c <= Len(u) /\ c \in 1 .. Len(s)
      <4> HIDE DEF m
      <4> QED
        BY <1>0, <3>1
    <3>3. VariationsStay(u, s, m) /\ VariationsStay(u, s, c + 1)
      BY <1>1, <3>2
    <3>4. u[m] # Semicolon
      <4> SUFFICES ASSUME u[m] = Semicolon PROVE FALSE
        OBVIOUS
      <4>1. u[m] # Open
        BY TokenTypes
      <4>2. ~ClosedAt(u, m)
        BY <4>1 DEF ClosedAt, Closed, TreeBegins, IsAt
      <4>3. c = m
        BY <3>2, <4>2, VariationsEnds DEF c
      <4> QED
        BY <3>1, <4>3, TokenTypes
    <3>5. TreeBegins(s, i) /\ MainEnd(s, i) = m
      BY <1>0, <3>1, <3>2, <3>4, TreeStays
    <3>6. VariationsEnd(s, m) = c
      <4>1. c <= Len(u) /\ u[c] # Open
        BY <3>1, <3>2, TokenTypes
      <4> QED
        BY <3>3, <4>1, Zenon DEF VariationsStay, c
    <3>7. s[c] = Close
      BY <1>0, <3>1, <3>2
    <3>8. ClosedAt(s, i)
      <4>1. SubTreesFrom(s)[MainEnd(s, i)].end = c
        BY <3>5, <3>6 DEF VariationsEnd
      <4>2. IsAt(Close, s, c)
        BY <1>0, <3>2, <3>7 DEF IsAt
      <4> QED
        BY <3>5, <4>1, <4>2, Zenon DEF ClosedAt, Closed
    <3>9. VariationsEnd(s, i) = VariationsEnd(s, c + 1)
      BY <2>0, <3>5, <3>6, <3>8, VariationsEnds
    <3> QED
      BY <3>1, <3>3, <3>9, Zenon DEF VariationsStay
  <2>3. CASE ~ClosedAt(u, i)
    <3>1. VariationsEnd(u, i) = i
      BY <2>3, VariationsEnds
    <3>2. VariationsEnd(u, i) <= VariationsEnd(s, i)
      <4> DEFINE e == VariationsEnd(s, i)
      <4> HIDE DEF e
      <4>1. i <= e
        BY <1>0, <2>1 DEF e
      <4> QED
        BY <3>1, <4>1 DEF e
    <3>3. ASSUME i <= Len(u), u[i] # Open PROVE VariationsEnd(s, i) = i
      <4>1. s[i] # Open
        BY <1>0, <3>3
      <4>2. ~ClosedAt(s, i)
        BY <4>1 DEF ClosedAt, Closed, TreeBegins, IsAt
      <4> QED
        BY <2>0, <4>2, VariationsEnds
    <3> QED
      BY <3>1, <3>2, <3>3, Zenon DEF VariationsStay
  <2> QED
    BY <2>2, <2>3
<1>2. \A i \in 1 .. Len(u) + 1 : i \in P
  <2> HIDE DEF P
  <2> QED
    BY <1>0, <1>1, Backwards
<1> QED
  BY <1>2

\* No less is read of a file that grew.
LEMMA ReadGrows ==
  ASSUME NEW u, NEW s, Readable(u), Readable(s), Begins(u, s)
  PROVE  ReadEnd(u) <= ReadEnd(s)
<1>0. /\ Len(u) \in Nat /\ Len(s) \in Nat /\ DOMAIN u = 1 .. Len(u)
      /\ Len(u) <= Len(s) /\ u \in Seq(Tokens) /\ s \in Seq(Tokens) /\ 1 \in 1 .. Len(s) + 1
  BY LenProperties DEF Begins, Readable
<1>1. ReadEnd(s) \in 1 .. Len(s) + 1
  BY ReadIs
<1>2. CASE ~TreeBegins(u, 1)
  <2>1. ReadEnd(u) = 1
    BY <1>2 DEF ReadEnd
  <2>2. 1 <= ReadEnd(s)
    <3> HIDE DEF ReadEnd
    <3> QED
      BY <1>0, <1>1
  <2> QED
    BY <2>1, <2>2
<1>3. CASE TreeBegins(u, 1)
  <2> DEFINE m == MainEnd(u, 1)
             k == MainEnd(s, 1)
  <2>1. TreeBegins(s, 1) /\ m <= k /\ (m <= Len(u) /\ u[m] # Semicolon => k = m)
    BY <1>0, <1>3, TreeStays
  <2>2. m \in 1 .. Len(u) + 1 /\ k \in 1 .. Len(s) + 1
    BY <1>0, <1>3, <2>1, MainEndIs
  <2>3. ReadEnd(u) = VariationsEnd(u, m) /\ ReadEnd(s) = VariationsEnd(s, k)
    BY <1>3, <2>1 DEF ReadEnd, VariationsEnd
  <2>4. VariationsEnd(u, m) \in m .. Len(u) + 1 /\ VariationsEnd(s, k) \in k .. Len(s) + 1
    BY <2>2, VariationsEnds
  <2>5. CASE k = m
    <3>1. VariationsStay(u, s, m)
      BY <2>2, VariationsGrow
    <3> QED
      BY <2>3, <2>5, <3>1, Zenon DEF VariationsStay
  <2>6. CASE k # m
    <3>1. VariationsEnd(u, m) = m
      <4>1. CASE m <= Len(u)
        <5>1. u[m] = Semicolon
          BY <2>1, <2>6, <4>1
        <5>2. u[m] # Open
          BY <5>1, TokenTypes
        <5>3. ~ClosedAt(u, m)
          BY <5>2 DEF ClosedAt, Closed, TreeBegins, IsAt
        <5> QED
          BY <2>2, <5>3, VariationsEnds
      <4>2. CASE ~(m <= Len(u))
        <5> DEFINE e == VariationsEnd(u, m)
        <5> HIDE DEF e, m
        <5>1. e = m
          BY <1>0, <2>2, <2>4, <4>2 DEF e
        <5> QED
          BY <5>1 DEF e
      <4> QED
        BY <4>1, <4>2
    <3> DEFINE f == VariationsEnd(s, k)
    <3>2. f \in k .. Len(s) + 1
      BY <2>4
    <3> HIDE DEF m, k, f
    <3>3. m <= f
      BY <1>0, <2>1, <2>2, <3>2
    <3> QED
      BY <2>3, <3>1, <3>3 DEF f
  <2> QED
    BY <2>5, <2>6
<1> QED
  BY <1>2, <1>3

\* What was read is what the file begins with, up to a place that reading it again
\* does not come short of.
LEMMA InvPrinted ==
  ASSUME SgfInv
  PROVE  /\ file \in Seq(Tokens) /\ Len(file) \in Nat /\ ReadEnd(file) \in 1 .. Len(file) + 1
         /\ \E e \in 1 .. ReadEnd(file) : PrintGameTree(ast) = Content(SubSeq(file, 1, e - 1))
<1>1. PICK n \in 0 .. Len(file) :
         /\ ast = parse_sgf(SubSeq(file, 1, n)) /\ Readable(SubSeq(file, 1, n))
         /\ Len(SubSeq(file, 1, n)) = n /\ Begins(SubSeq(file, 1, n), file)
  BY InvReadable
<1> DEFINE u == SubSeq(file, 1, n)
           e == ReadEnd(u)
<1>2. Readable(file) /\ file \in Seq(Tokens) /\ Len(file) \in Nat
  BY InvReadable, LenProperties DEF Readable
<1>3. e \in 1 .. n + 1 /\ PrintGameTree(ast) = Content(SubSeq(u, 1, e - 1))
  <2> HIDE DEF u
  <2> QED
    BY <1>1, ReadIs DEF u
<1>4. SubSeq(u, 1, e - 1) = SubSeq(file, 1, e - 1)
  <2> HIDE DEF e
  <2>1. CASE e = 1
    <3>1. SubSeq(u, 1, 1 - 1) = <<>> /\ SubSeq(file, 1, 1 - 1) = <<>>
      BY SubSeqEmpty
    <3> QED
      BY <2>1, <3>1
  <2>2. CASE e # 1
    <3>1. /\ 1 \in 1 .. Len(file) /\ n \in 1 .. Len(file) /\ u \in Seq(Tokens)
          /\ 1 \in 1 .. n - 1 + 1 /\ e - 1 \in 1 .. n - 1 + 1
          /\ 1 + 1 - 1 = 1 /\ 1 + (e - 1) - 1 = e - 1
      BY <1>1, <1>2, <1>3, <2>2 DEF Readable
    <3>2. SubSeq(SubSeq(file, 1, n), 1, e - 1) = SubSeq(file, 1 + 1 - 1, 1 + (e - 1) - 1)
      BY <1>2, <3>1, SubSeqOfSubSeq
    <3> QED
      BY <3>1, <3>2
  <2> QED
    BY <2>1, <2>2
<1>5. ReadEnd(file) \in 1 .. Len(file) + 1
  BY <1>2, ReadIs
<1>6. ReadEnd(u) <= ReadEnd(file)
  BY <1>1, <1>2, ReadGrows
<1> DEFINE f == ReadEnd(file)
<1>7. e <= f /\ f \in 1 .. Len(file) + 1
  BY <1>5, <1>6
<1> HIDE DEF e, f
<1>8. e \in 1 .. f
  BY <1>2, <1>3, <1>7
<1> QED
  BY <1>2, <1>3, <1>4, <1>5, <1>8, Zenon DEF f

\* ReadsPrefix: whatever is cut off or wrong in a file, the reader, which never
\* looks at whether the parse failed, invents, repeats and reorders nothing.
THEOREM NothingInvented == Spec => []ReadsPrefix
<1>1. ASSUME SgfInv PROVE ReadsPrefix
  <2> DEFINE n == Len(file) + 1
             f == ReadEnd(file)
  <2>1. file \in Seq(Tokens) /\ Len(file) \in Nat /\ f \in 1 .. n
    BY <1>1, InvPrinted
  <2>2. PICK e \in 1 .. f : PrintGameTree(ast) = Content(SubSeq(file, 1, e - 1))
    BY <1>1, InvPrinted
  <2> HIDE DEF f
  <2>3. e \in 1 .. n /\ n \in 1 .. Len(file) + 1 /\ n - 1 = Len(file)
    BY <2>1
  <2> HIDE DEF n
  <2>4. IsPrefix(Content(SubSeq(file, 1, e - 1)), Content(SubSeq(file, 1, n - 1)))
    BY <2>1, <2>3, PrefixContent
  <2>5. SubSeq(file, 1, n - 1) = file
    BY <2>1, <2>3, SubSeqFull
  <2> QED
    BY <2>2, <2>4, <2>5, Zenon DEF ReadsPrefix
<1> QED
  BY <1>1, SgfInvariance, PTL

\* ReadsMore: a file that grew while the downloader wrote it is never read as less
\* than before, although the grammar drops a variation that is not closed.
THEOREM NeverLess == Spec => ReadsMore
<1>1. ASSUME SgfInv, [Next]_vars PROVE IsPrefix(PrintGameTree(ast), PrintGameTree(ast'))
  <2>1. CASE ReadSgf
    <3>1. ast' = parse_sgf(file)
      BY <2>1 DEF ReadSgf
    <3> DEFINE f == ReadEnd(file)
    <3>2. PrintGameTree(ast') = Content(SubSeq(file, 1, f - 1))
      BY <1>1, <3>1, InvReadable, ReadIs
    <3>3. file \in Seq(Tokens) /\ f \in 1 .. Len(file) + 1
      BY <1>1, InvPrinted
    <3>4. PICK e \in 1 .. f : PrintGameTree(ast) = Content(SubSeq(file, 1, e - 1))
      BY <1>1, InvPrinted
    <3> HIDE DEF f
    <3>5. IsPrefix(Content(SubSeq(file, 1, e - 1)), Content(SubSeq(file, 1, f - 1)))
      BY <3>3, PrefixContent
    <3> QED
      BY <3>2, <3>4, <3>5, Zenon
  <2>2. CASE ast' = ast
    <3>1. PrintGameTree(ast) \in Seq(Tokens)
      BY <1>1, InvRead, PrintType
    <3> DEFINE p == PrintGameTree(ast)
    <3>2. Len(p) \in Nat
      BY <3>1, LenProperties
    <3> HIDE DEF p
    <3>3. IsPrefix(p, p)
      BY <3>2 DEF IsPrefix
    <3> QED
      BY <2>2, <3>3 DEF p
  <2> QED
    BY <1>1, <2>1, <2>2 DEF Next, Arrive, Flaw, vars
<1>2. SgfInv /\ [Next]_vars => [IsPrefix(PrintGameTree(ast), PrintGameTree(ast'))]_vars
  BY <1>1
<1> QED
  BY <1>2, SgfInvariance, PTL DEF Spec, ReadsMore

-----------------------------------------------------------------------------
(* The header.                                                             *)

Names == {"PW", "PB", "DT", "SZ", "KM", "HA", "black_won", "white_won", "margin"}
IsFields(f) == f = [x \in Names |-> f[x]]

\* A property changes what it is about.
LEMMA ReadPropertyIs ==
  ASSUME NEW f, IsFields(f), NEW p
  PROVE  LET g == ReadProperty(f, p)
         IN  /\ IsFields(g)
             /\ p[1] = "RE" => /\ g.black_won = Won("B", p[2]) /\ g.white_won = Won("W", p[2])
                               /\ g.margin = Margin(p[2], f.margin)
             /\ p[1] # "RE" => /\ g.black_won = f.black_won /\ g.white_won = f.white_won
                               /\ g.margin = f.margin
<1> DEFINE g == ReadProperty(f, p)
           id == p[1]
           words == p[2]
<1>0. \A v : \A x \in Names :
        LET e == [f EXCEPT ![x] = v]
        IN  IsFields(e) /\ e[x] = v /\ \A y \in Names : y # x => e[y] = f[y]
  BY DEF IsFields
<1>6. ASSUME NEW x \in Names \ {"black_won", "white_won", "margin"}, NEW v
      PROVE  LET e == [f EXCEPT ![x] = v]
             IN  /\ IsFields(e) /\ e.black_won = f.black_won /\ e.white_won = f.white_won
                 /\ e.margin = f.margin
  <2> DEFINE e == [f EXCEPT ![x] = v]
  <2>1. IsFields(e) /\ \A y \in Names : y # x => e[y] = f[y]
    BY <1>0
  <2>2. {"black_won", "white_won", "margin"} \subseteq Names
    BY DEF Names
  <2> HIDE DEF e
  <2>3. e.black_won = f.black_won /\ e.white_won = f.white_won /\ e.margin = f.margin
    BY <2>1, <2>2
  <2> QED
    BY <2>1, <2>3 DEF e
<1>1. CASE id = "RE"
  <2>1. g = Result(f, words)
    BY <1>1 DEF ReadProperty
  <2> DEFINE b == Won("B", words)
             w == Won("W", words)
             m == Margin(words, f.margin)
             r == [f EXCEPT !.black_won = b, !.white_won = w, !.margin = Margin(words, @)]
  <2>2. Result(f, words) = r
    BY DEF Result
  <2>3. r = [[[f EXCEPT !.black_won = b] EXCEPT !.white_won = w] EXCEPT !.margin = m]
    BY DEF IsFields, Names
  <2> HIDE DEF b, w, m
  <2>4. IsFields(r) /\ r.black_won = b /\ r.white_won = w /\ r.margin = m
    BY <2>3 DEF IsFields, Names
  <2> QED
    BY <1>1, <2>1, <2>2, <2>4 DEF b, w, m
<1>2. CASE id \in {"PW", "PB"}
  <2>1. g = [f EXCEPT ![id] = words] /\ id # "RE"
    BY <1>2 DEF ReadProperty
  <2>2. id \in Names \ {"black_won", "white_won", "margin"}
    BY <1>2 DEF Names
  <2> HIDE DEF id, words
  <2>3. IsFields(g) /\ g.black_won = f.black_won /\ g.white_won = f.white_won
           /\ g.margin = f.margin
    <3> HIDE DEF g
    <3>1. \A v : LET e == [f EXCEPT ![id] = v]
                 IN  /\ IsFields(e) /\ e.black_won = f.black_won
                     /\ e.white_won = f.white_won /\ e.margin = f.margin
      BY <1>6, <2>2, Zenon
    <3> QED
      BY <2>1, <3>1, Zenon
  <2> QED
    BY <2>1, <2>3, Zenon DEF id, words
<1>3. CASE id = "DT"
  <2>1. g = [f EXCEPT !.DT = "read"] /\ id # "RE"
    BY <1>3 DEF ReadProperty
  <2>2. "DT" \in Names \ {"black_won", "white_won", "margin"}
    BY DEF Names
  <2> HIDE DEF id, words
  <2>3. IsFields(g) /\ g.black_won = f.black_won /\ g.white_won = f.white_won
           /\ g.margin = f.margin
    <3> HIDE DEF g
    <3>1. LET e == [f EXCEPT !["DT"] = "read"]
          IN  /\ IsFields(e) /\ e.black_won = f.black_won
              /\ e.white_won = f.white_won /\ e.margin = f.margin
      BY <1>6, <2>2, Zenon
    <3> QED
      BY <2>1, <3>1, Zenon
  <2> QED
    BY <2>1, <2>3, Zenon DEF id, words
<1>4. CASE id \in {"SZ", "KM", "HA"}
  <2>1. g = [f EXCEPT ![id] = Number(words)] /\ id # "RE"
    BY <1>4 DEF ReadProperty
  <2>2. id \in Names \ {"black_won", "white_won", "margin"}
    BY <1>4 DEF Names
  <2> HIDE DEF id, words
  <2>3. IsFields(g) /\ g.black_won = f.black_won /\ g.white_won = f.white_won
           /\ g.margin = f.margin
    <3> HIDE DEF g
    <3>1. \A v : LET e == [f EXCEPT ![id] = v]
                 IN  /\ IsFields(e) /\ e.black_won = f.black_won
                     /\ e.white_won = f.white_won /\ e.margin = f.margin
      BY <1>6, <2>2, Zenon
    <3> QED
      BY <2>1, <3>1, Zenon
  <2> QED
    BY <2>1, <2>3, Zenon DEF id, words
<1>5. CASE id \notin {"RE", "PW", "PB", "DT", "SZ", "KM", "HA"}
  <2>1. g = f
    BY <1>5 DEF ReadProperty
  <2> QED
    BY <1>5, <2>1
<1> QED
  BY <1>1, <1>2, <1>3, <1>4, <1>5

\* The texts of the flags and of the margin.
LEMMA FlagsAre ==
  /\ \A color, words : Won(color, words) \in {"yes", "no"}
  /\ \A words, before :
        Margin(words, before) \in Numbers \cup {"-1", "0", before}
<1>1. \A words : Number(words) \in Numbers \cup {"0"}
  BY DEF Number
<1>2. ASSUME NEW words, NEW before PROVE Margin(words, before) \in Numbers \cup {"-1", "0", before}
  BY <1>1 DEF Margin
<1> QED
  BY <1>2 DEF Won

HeaderDomain(first) == 0 .. Len(first)
HeaderBody(first, read, i) == IF i = 0 THEN Unread ELSE ReadProperty(read[i - 1], first[i])

Heading == INSTANCE Recursion
    WITH D <- HeaderDomain, Rank <- KeptRank, Good <- NoClaim, Body <- HeaderBody

ResultsOf(first) == Keep(first, {p \in Properties : p[1] = "RE"})

\* The fields after some properties, and the results among those.
FieldsGood(f, results) ==
    /\ IsFields(f) /\ f.margin \in Numbers \cup {"?", "-1", "0"}
    /\ results \in Seq(Properties)
    /\ results = <<>> => f.black_won = "?" /\ f.white_won = "?"
    /\ results # <<>> => /\ f.black_won = Won("B", Last(results)[2])
                         /\ f.white_won = Won("W", Last(results)[2])

\* The fields of a header come from the results among the properties of the
\* first node.
LEMMA HeaderIs ==
  ASSUME NEW t \in SyntaxTrees
  PROVE  FieldsGood(Header(t), IF t.sequence_ = <<>> THEN <<>> ELSE ResultsOf(t.sequence_[1]))
<1>0. FieldsGood(Unread, <<>>)
  <2>1. IsFields(Unread) /\ Unread.margin = "?" /\ Unread.black_won = "?" /\ Unread.white_won = "?"
    BY DEF Unread, IsFields, Names
  <2> QED
    BY <2>1, EmptySeq DEF FieldsGood
<1>1. CASE t.sequence_ = <<>>
  <2>1. Header(t) = Unread
    BY <1>1, Zenon DEF Header
  <2> QED
    BY <1>0, <1>1, <2>1
<1>2. CASE t.sequence_ # <<>>
  <2> DEFINE first == t.sequence_[1]
             n == Len(first)
             S == {p \in Properties : p[1] = "RE"}
             read == CHOOSE f : f = [i \in 0 .. n |-> HeaderBody(first, f, i)]
  <2>1. first \in Seq(Properties) /\ n \in Nat
    <3>1. t.sequence_ \in Seq(Nodes)
      BY SubTrees
    <3>2. first \in Nodes
      <4>1. Len(t.sequence_) \in Nat \ {0}
        BY <1>2, <3>1, EmptySeq, LenProperties
      <4>2. 1 \in 1 .. Len(t.sequence_)
        BY <4>1
      <4> QED
        BY <3>1, <4>2, ElementOfSeq
    <3>3. first \in Seq(Properties)
      BY <3>2 DEF Nodes
    <3> QED
      BY <3>3, LenProperties
  <2>2. Header(t) = read[n]
    BY <1>2, Zenon DEF Header, HeaderBody
  <2> HIDE DEF first
  <2>3. Heading!WellFounded(first)
    <3> SUFFICES ASSUME NEW g, NEW h, NEW i \in 0 .. n, \A k \in 0 .. n : k < i => g[k] = h[k]
                 PROVE  HeaderBody(first, g, i) = HeaderBody(first, h, i)
      BY <2>1 DEF Heading!WellFounded, HeaderDomain, KeptRank, NoClaim
    <3>1. CASE i = 0
      BY <3>1 DEF HeaderBody
    <3>2. CASE i # 0
      <4>1. i - 1 \in 0 .. n /\ i - 1 < i
        BY <2>1, <3>2
      <4>2. g[i - 1] = h[i - 1]
        BY <4>1
      <4> QED
        BY <3>2, <4>2 DEF HeaderBody
    <3> QED
      BY <3>1, <3>2
  <2>4. read = [i \in 0 .. n |-> HeaderBody(first, read, i)]
    <3>1. \E f : f = [i \in 0 .. n |-> HeaderBody(first, f, i)]
      BY <2>3, Heading!Exists, Zenon DEF Heading!Satisfies, HeaderDomain
    <3> QED
      BY <3>1, Zenon
  <2> HIDE DEF read, n
  <2>5. \A i \in 0 .. n : read[i] = HeaderBody(first, read, i)
    BY <2>4, Zenon
  <2>6. PICK k : /\ ResultsOf(first) = k[n] /\ k[0] = <<>>
                 /\ \A i \in 1 .. n :
                       k[i] = IF first[i] \in S THEN Append(k[i - 1], first[i]) ELSE k[i - 1]
    <3> HIDE DEF S
    <3>1. \A T : \A s \in Seq(Properties) : \E k :
             /\ Keep(s, T) = k[Len(s)] /\ k[0] = <<>>
             /\ \A i \in 1 .. Len(s) :
                   k[i] = IF s[i] \in T THEN Append(k[i - 1], s[i]) ELSE k[i - 1]
      BY KeepDef
    <3>2. ResultsOf(first) = Keep(first, S) /\ n = Len(first)
      BY Zenon DEF ResultsOf, S, n
    <3>3. first \in Seq(Properties)
      BY <2>1
    <3>4. \E k :
             /\ Keep(first, S) = k[Len(first)] /\ k[0] = <<>>
             /\ \A i \in 1 .. Len(first) :
                   k[i] = IF first[i] \in S THEN Append(k[i - 1], first[i]) ELSE k[i - 1]
      BY <3>1, <3>3
    <3> QED
      BY <3>2, <3>4, Zenon
  <2> DEFINE P == {i \in Nat : i <= n => FieldsGood(read[i], k[i])}
  <2>7. 0 \in P
    <3>1. read[0] = Unread
      BY <2>1, <2>5 DEF HeaderBody
    <3> QED
      BY <1>0, <2>6, <3>1
  <2>8. ASSUME NEW j \in Nat, j \in P PROVE j + 1 \in P
    <3> SUFFICES ASSUME j + 1 <= n PROVE FieldsGood(read[j + 1], k[j + 1])
      OBVIOUS
    <3>1. j + 1 \in 1 .. n /\ j + 1 \in 0 .. n /\ j + 1 # 0 /\ (j + 1) - 1 = j /\ j <= n
      BY <2>1
    <3> DEFINE f == read[j]
               g == read[j + 1]
               p == first[j + 1]
               a == k[j]
               b == k[j + 1]
    <3>2. g = ReadProperty(f, p)
      BY <2>5, <3>1 DEF HeaderBody
    <3>3. b = IF p \in S THEN Append(a, p) ELSE a
      BY <2>6, <3>1
    <3>4. p \in Properties
      BY <2>1, <3>1, ElementOfSeq DEF n
    <3>5. FieldsGood(f, a)
      BY <2>8, <3>1
    <3> HIDE DEF f, g, p, a, b, P
    <3>6. IsFields(f) /\ f.margin \in Numbers \cup {"?", "-1", "0"} /\ a \in Seq(Properties)
      BY <3>5, Zenon DEF FieldsGood
    <3>7. CASE p[1] = "RE"
      <4>1. /\ IsFields(g) /\ g.black_won = Won("B", p[2]) /\ g.white_won = Won("W", p[2])
            /\ g.margin = Margin(p[2], f.margin)
        BY <3>2, <3>6, <3>7, ReadPropertyIs
      <4>2. b = Append(a, p)
        BY <3>3, <3>4, <3>7
      <4>3. b \in Seq(Properties) /\ b # <<>> /\ Last(b) = p
        <5>1. /\ Append(a, p) \in Seq(Properties) /\ Append(a, p) # <<>>
              /\ Len(Append(a, p)) = Len(a) + 1 /\ Append(a, p)[Len(a) + 1] = p
          BY <3>4, <3>6, AppendProperties
        <5> QED
          BY <4>2, <5>1, Zenon DEF Last
      <4>4. g.margin \in Numbers \cup {"?", "-1", "0"}
        BY <3>6, <4>1, FlagsAre
      <4> QED
        BY <4>1, <4>3, <4>4, Zenon DEF FieldsGood, g, b
    <3>8. CASE p[1] # "RE"
      <4>1. /\ IsFields(g) /\ g.black_won = f.black_won /\ g.white_won = f.white_won
            /\ g.margin = f.margin
        BY <3>2, <3>6, <3>8, ReadPropertyIs
      <4>2. b = a
        BY <3>3, <3>8
      <4> QED
        BY <3>5, <4>1, <4>2, Zenon DEF FieldsGood, g, b
    <3> QED
      BY <3>7, <3>8
  <2>9. FieldsGood(read[n], k[n])
    <3>1. Nat \subseteq P
      <4> HIDE DEF P
      <4> QED
        BY <2>7, <2>8, Induction
    <3> QED
      BY <2>1, <3>1
  <2> QED
    BY <1>2, <2>2, <2>6, <2>9 DEF first
<1> QED
  BY <1>1, <1>2

\* Type correctness: the tree and the move tree of the last reading are finite
\* trees of nodes and moves, and every field of the header has a value that the
\* constructor of Sgf can give it, or was never set.
THEOREM TypeCorrect == Spec => []TypeOK
<1>1. ASSUME SgfInv PROVE TypeOK
  <2>1. header = Header(ast) /\ ast \in SyntaxTrees /\ moves \in MoveTrees
    BY <1>1, InvRead DEF SgfInv, ReadInv
  <2>2. PICK results : FieldsGood(header, results)
    BY <2>1, HeaderIs
  <2>3. {header.black_won, header.white_won} \subseteq {"yes", "no", "?"}
    BY <2>2, FlagsAre DEF FieldsGood
  <2>4. header.margin \in Numbers \cup {"?", "-1", "0"}
    BY <2>2, Zenon DEF FieldsGood
  <2> QED
    BY <1>1, <2>1, <2>3, <2>4 DEF TypeOK, SgfInv, FileInv
<1> QED
  BY <1>1, SgfInvariance, PTL

\* WinnerKnown: the winner's flags of the table are what the last result among the
\* properties of the first node says, and were never set if there is none (the
\* constructor of Sgf sets both or neither).
THEOREM LastResultWins == Spec => []WinnerKnown
<1>1. ASSUME SgfInv PROVE WinnerKnown
  <2> DEFINE results == IF ast.sequence_ = <<>> THEN <<>> ELSE ResultsOf(ast.sequence_[1])
  <2>1. header = Header(ast) /\ ast \in SyntaxTrees
    BY <1>1, InvRead DEF SgfInv, ReadInv
  <2>2. FieldsGood(header, results)
    BY <2>1, HeaderIs
  <2>3. results = IF ast.sequence_ = <<>> THEN <<>>
                  ELSE Keep(ast.sequence_[1], {p \in Properties : p[1] = "RE"})
    BY Zenon DEF ResultsOf
  <2> HIDE DEF results
  <2>4. CASE results = <<>>
    <3>1. header.black_won = "?" /\ header.white_won = "?"
      BY <2>2, <2>4 DEF FieldsGood
    <3> QED
      BY <2>3, <2>4, <3>1, Zenon DEF WinnerKnown
  <2>5. CASE results # <<>>
    <3>1. /\ header.black_won = Won("B", Last(results)[2])
          /\ header.white_won = Won("W", Last(results)[2])
      BY <2>2, <2>5 DEF FieldsGood
    <3>2. /\ Won("B", Last(results)[2]) \in {"yes", "no"}
          /\ Won("W", Last(results)[2]) \in {"yes", "no"}
      BY FlagsAre
    <3>3. {header.black_won, header.white_won} \subseteq {"yes", "no"}
      BY <3>1, <3>2
    <3> QED
      BY <2>3, <2>5, <3>1, <3>3, Zenon DEF WinnerKnown
  <2> QED
    BY <2>4, <2>5
<1> QED
  BY <1>1, SgfInvariance, PTL

-----------------------------------------------------------------------------
(* A tree that was written is read as it was.                              *)

\* w stands at i in s.
At(s, i, w) == i + Len(w) <= Len(s) + 1 /\ \A k \in 1 .. Len(w) : s[i + k - 1] = w[k]

\* Two sequences of tokens, one after the other.
LEMMA AtTwo ==
  ASSUME NEW s \in Seq(Tokens), NEW i \in 1 .. Len(s) + 1,
         NEW a \in Seq(Tokens), NEW b \in Seq(Tokens), At(s, i, a \o b)
  PROVE  /\ At(s, i, a) /\ At(s, i + Len(a), b)
         /\ i + Len(a) \in 1 .. Len(s) + 1
         /\ i + Len(a \o b) = (i + Len(a)) + Len(b)
<1> DEFINE c == a \o b
<1>1. /\ Len(s) \in Nat /\ Len(a) \in Nat /\ Len(b) \in Nat /\ Len(c) = Len(a) + Len(b)
      /\ \A k \in 1 .. Len(a) + Len(b) : c[k] = IF k <= Len(a) THEN a[k] ELSE b[k - Len(a)]
  BY LenProperties, ConcatProperties
<1>2. /\ i + Len(c) <= Len(s) + 1
      /\ \A k \in 1 .. Len(c) : s[i + k - 1] = c[k]
  BY DEF At
<1> HIDE DEF c
<1>3. i + Len(a) \in 1 .. Len(s) + 1 /\ i + Len(c) = (i + Len(a)) + Len(b)
  BY <1>1, <1>2
<1>4. At(s, i, a)
  <2>1. ASSUME NEW k \in 1 .. Len(a) PROVE s[i + k - 1] = a[k]
    <3>1. k \in 1 .. Len(a) + Len(b) /\ k \in 1 .. Len(c)
      BY <1>1
    <3> QED
      BY <1>1, <1>2, <3>1
  <2> QED
    BY <1>1, <1>3, <2>1 DEF At
<1>5. At(s, i + Len(a), b)
  <2>1. ASSUME NEW k \in 1 .. Len(b) PROVE s[(i + Len(a)) + k - 1] = b[k]
    <3> DEFINE m == k + Len(a)
    <3>1. /\ m \in 1 .. Len(a) + Len(b) /\ m \in 1 .. Len(c) /\ ~(m <= Len(a))
          /\ m - Len(a) = k /\ i + m - 1 = (i + Len(a)) + k - 1
      BY <1>1
    <3> HIDE DEF m
    <3>2. s[i + m - 1] = c[m] /\ c[m] = b[m - Len(a)]
      BY <1>1, <1>2, <3>1
    <3> QED
      BY <3>1, <3>2
  <2>2. (i + Len(a)) + Len(b) <= Len(s) + 1
    BY <1>1, <1>2
  <2> QED
    BY <2>1, <2>2 DEF At
<1> QED
  BY <1>3, <1>4, <1>5 DEF c

\* One token.
LEMMA AtOne ==
  ASSUME NEW s \in Seq(Tokens), NEW i \in 1 .. Len(s) + 1, NEW x \in Tokens, At(s, i, <<x>>)
  PROVE  /\ i \in 1 .. Len(s) /\ IsAt(x, s, i) /\ Len(<<x>>) = 1
<1>1. Len(<<x>>) = 1 /\ <<x>>[1] = x /\ DOMAIN s = 1 .. Len(s) /\ Len(s) \in Nat
  BY LenProperties
<1>2. i + 1 <= Len(s) + 1 /\ \A k \in 1 .. 1 : s[i + k - 1] = <<x>>[k]
  BY <1>1, Zenon DEF At
<1>3. 1 \in 1 .. 1 /\ i + 1 - 1 = i
  OBVIOUS
<1>4. s[i] = x
  BY <1>1, <1>2, <1>3
<1> QED
  BY <1>1, <1>2, <1>4 DEF IsAt

\* A node is read as it was written, if no property follows.
LEMMA NodeIsRead ==
  ASSUME NEW s \in Seq(Tokens), NEW i \in 1 .. Len(s) + 1, NEW node \in Nodes,
         At(s, i, NodeText[node]), ~PropertyAt(s, i + Len(NodeText[node]))
  PROVE  /\ NodeAt(s, i) /\ NodeEnd(s, i) = i + Len(NodeText[node])
         /\ SubSeq(s, i + 1, NodeEnd(s, i) - 1) = node
<1> DEFINE j == i + Len(NodeText[node])
           n == Len(node)
<1>1. /\ node \in Seq(Properties) /\ node \in Seq(Tokens) /\ n \in Nat \ {0}
      /\ DOMAIN s = 1 .. Len(s) /\ Len(s) \in Nat /\ Semicolon \in Tokens
      /\ <<Semicolon>> \in Seq(Tokens) /\ Len(<<Semicolon>>) = 1
  BY TokenTypes, LenProperties, EmptySeq DEF Tokens
<1>2. NodeText[node] = <<Semicolon>> \o node
  BY DEF NodeText
<1>3. /\ At(s, i, <<Semicolon>>) /\ At(s, i + 1, node) /\ j = (i + 1) + n
  <2>1. At(s, i, <<Semicolon>> \o node)
    BY <1>2, Zenon
  <2>2. /\ At(s, i, <<Semicolon>>) /\ At(s, i + Len(<<Semicolon>>), node)
        /\ i + Len(<<Semicolon>> \o node) = (i + Len(<<Semicolon>>)) + Len(node)
    <3>1. \A a \in Seq(Tokens) : At(s, i, a \o node) =>
             /\ At(s, i, a) /\ At(s, i + Len(a), node)
             /\ i + Len(a \o node) = (i + Len(a)) + Len(node)
      BY <1>1, AtTwo
    <3> QED
      BY <1>1, <2>1, <3>1, Zenon
  <2> QED
    BY <1>1, <1>2, <2>2, Zenon
<1>4. i \in 1 .. Len(s) /\ s[i] = Semicolon
  BY <1>1, <1>3, AtOne DEF IsAt
<1> HIDE DEF j, n
<1>5. j <= Len(s) + 1 /\ \A k \in 1 .. n : s[(i + 1) + k - 1] = node[k] /\ node[k] \in Properties
  BY <1>1, <1>3, ElementOfSeq DEF At, n
<1>6. \A k \in i + 1 .. j - 1 : s[k] = node[k - i] /\ PropertyAt(s, k)
  <2> SUFFICES ASSUME NEW k \in i + 1 .. j - 1 PROVE s[k] = node[k - i] /\ PropertyAt(s, k)
    OBVIOUS
  <2>1. k - i \in 1 .. n /\ (i + 1) + (k - i) - 1 = k /\ k \in 1 .. Len(s)
    BY <1>1, <1>3, <1>5
  <2> QED
    BY <1>1, <1>5, <2>1 DEF PropertyAt
<1>7. NodeAt(s, i)
  <2>1. i + 1 \in i + 1 .. j - 1
    BY <1>1, <1>3
  <2> QED
    BY <1>1, <1>4, <1>6, <2>1 DEF NodeAt, IsAt
<1> DEFINE e == NodeEnd(s, i)
<1>8. /\ e \in i + 2 .. Len(s) + 1 /\ \A k \in i + 1 .. e - 1 : s[k] \in Properties
      /\ ~PropertyAt(s, e)
  BY <1>7, NodeEndIs
<1> HIDE DEF e
<1>9. e = j
  <2>1. ASSUME e < j PROVE FALSE
    <3>1. e \in i + 1 .. j - 1
      BY <1>1, <1>3, <1>8, <2>1
    <3> QED
      BY <1>6, <1>8, <3>1
  <2>2. ASSUME j < e PROVE FALSE
    <3>1. j \in i + 1 .. e - 1 /\ j \in 1 .. Len(s)
      BY <1>1, <1>3, <1>8, <2>2, SMTT(30)
    <3>2. PropertyAt(s, j)
      BY <1>1, <1>8, <3>1 DEF PropertyAt
    <3> QED
      BY <3>2 DEF j
  <2> QED
    BY <1>1, <1>3, <1>8, <2>1, <2>2
<1>10. SubSeq(s, i + 1, j - 1) = node
  <2> DEFINE v == SubSeq(s, i + 1, j - 1)
  <2>1. /\ i + 1 \in Int /\ j - 1 \in Int /\ i + 1 <= j - 1 /\ (j - 1) - (i + 1) + 1 = n
        /\ \A k \in i + 1 .. j - 1 : s[k] \in Properties
    BY <1>1, <1>3, <1>6 DEF PropertyAt
  <2>2. /\ v \in Seq(Properties) /\ Len(v) = n
        /\ \A k \in 1 .. n : v[k] = s[(i + 1) + k - 1]
    <3>1. /\ v \in Seq(Properties)
          /\ Len(v) = IF i + 1 <= j - 1 THEN (j - 1) - (i + 1) + 1 ELSE 0
          /\ \A k \in 1 .. (j - 1) - (i + 1) + 1 : v[k] = s[(i + 1) + k - 1]
      BY <2>1, SubSeqProperties
    <3> HIDE DEF v
    <3> QED
      BY <2>1, <3>1
  <2> HIDE DEF v
  <2>3. \A k \in 1 .. n : v[k] = node[k]
    BY <1>5, <2>2
  <2> QED
    BY <1>1, <2>2, <2>3, SeqEqual DEF v, n
<1> QED
  BY <1>7, <1>9, <1>10, Zenon DEF e, j

\* A thing between two sequences goes to either.
LEMMA JoinNext ==
  ASSUME NEW E, NEW u \in Seq(E), NEW x \in E, NEW v \in Seq(E)
  PROVE  u \o (<<x>> \o v) = Append(u, x) \o v
<1> DEFINE one == <<x>>
<1>1. Append(u, x) = u \o one /\ one \in Seq(E)
  BY AppendIsConcat, OneSeq
<1> HIDE DEF one
<1>2. (u \o one) \o v = u \o (one \o v)
  BY <1>1, ConcatAssociative, SMTT(30)
<1> QED
  BY <1>1, <1>2, Zenon DEF one

\* What is read at i if it is read at j after some nodes.
Longer(s, i, nodes, j) ==
    SequenceFrom(s)[i] = [end |-> SequenceFrom(s)[j].end,
                          nodes |-> nodes \o SequenceFrom(s)[j].nodes]

\* A sequence is read as it was written, if no property follows.
LEMMA SequenceIsRead ==
  ASSUME NEW s \in Seq(Tokens), NEW nodes \in Seq(Nodes), NEW i \in 1 .. Len(s) + 1,
         At(s, i, PrintSequence(nodes)), ~PropertyAt(s, i + Len(PrintSequence(nodes)))
  PROVE  Longer(s, i, nodes, i + Len(PrintSequence(nodes)))
<1> DEFINE F == SequenceFrom(s)
           Read(u) == \A j \in 1 .. Len(s) + 1 :
                         j = i + Len(Flat(u, NodeText)) /\ At(s, i, Flat(u, NodeText))
                            /\ ~PropertyAt(s, j) => Longer(s, i, u, j)
           P == {u \in Seq(Nodes) : Read(u)}
<1>0. /\ Len(s) \in Nat
      /\ \A k \in 1 .. Len(s) + 1 : F[k].nodes \in Seq(Nodes)
      /\ \A k \in 1 .. Len(s) + 1 : F[k] = SequenceBody(s, F, k)
  BY SequenceDef, LenProperties, Zenon DEF SequenceGood
<1>1. <<>> \in P
  <2>1. Len(Flat(<<>>, NodeText)) = 0
    BY FlatEmpty, EmptySeq
  <2>2. i + 0 = i
    OBVIOUS
  <2>3. F[i] = [end |-> F[i].end, nodes |-> F[i].nodes]
    <3>1. F[i] = SequenceBody(s, F, i)
      BY <1>0
    <3> DEFINE v == F[i]
               a == F[NodeEnd(s, i)].end
               b == <<SubSeq(s, i + 1, NodeEnd(s, i) - 1)>> \o F[NodeEnd(s, i)].nodes
    <3>2. v = IF NodeAt(s, i) THEN [end |-> a, nodes |-> b] ELSE [end |-> i, nodes |-> <<>>]
      BY <3>1, Zenon DEF SequenceBody
    <3> HIDE DEF v, a, b
    <3>3. v = [end |-> v.end, nodes |-> v.nodes]
      BY <3>2
    <3> QED
      BY <3>3, Zenon DEF v
  <2>4. <<>> \o F[i].nodes = F[i].nodes
    <3>1. F[i].nodes \in Seq(Nodes)
      BY <1>0
    <3> HIDE DEF F
    <3> QED
      BY <3>1, ConcatEmptySeq
  <2>5. Longer(s, i, <<>>, i)
    BY <2>3, <2>4, Zenon DEF Longer
  <2>6. Read(<<>>)
    BY <2>1, <2>2, <2>5, Zenon
  <2> QED
    BY <2>6, EmptySeq
<1>2. ASSUME NEW u \in Seq(Nodes), NEW x \in Nodes, u \in P PROVE Append(u, x) \in P
  <2> DEFINE a == Flat(u, NodeText)
             b == NodeText[x]
             k == i + Len(a)
  <2>1. /\ Flat(Append(u, x), NodeText) = a \o b /\ a \in Seq(Tokens) /\ b \in Seq(Tokens)
        /\ Append(u, x) \in Seq(Nodes)
    <3>1. Makes(NodeText, Nodes, Seq(Tokens))
      BY TokenTypes
    <3>2. Flat(Append(u, x), NodeText) = a \o b /\ a \in Seq(Tokens)
      BY <3>1, FlatAppend, FlatType
    <3>3. b \in Seq(Tokens) /\ Append(u, x) \in Seq(Nodes)
      BY <3>1, AppendProperties DEF Makes
    <3> QED
      BY <3>2, <3>3
  <2>2. ASSUME NEW j \in 1 .. Len(s) + 1, j = i + Len(a \o b), At(s, i, a \o b), ~PropertyAt(s, j)
        PROVE  Longer(s, i, Append(u, x), j)
    <3>1. /\ At(s, i, a) /\ At(s, k, b) /\ k \in 1 .. Len(s) + 1 /\ j = k + Len(b)
      <4> HIDE DEF a, b
      <4> QED
        BY <2>1, <2>2, AtTwo
    <3>2. NodeAt(s, k) /\ NodeEnd(s, k) = j /\ SubSeq(s, k + 1, NodeEnd(s, k) - 1) = x
      <4> HIDE DEF k
      <4> QED
        BY <2>2, <3>1, NodeIsRead
    <3>3. ~PropertyAt(s, k)
      <4> HIDE DEF k
      <4>1. s[k] = Semicolon
        BY <3>2, NodeEndIs
      <4> QED
        BY <4>1, TokenTypes DEF PropertyAt
    <3>4. Longer(s, i, u, k)
      <4>1. Read(u)
        BY <1>2
      <4> QED
        BY <3>1, <3>3, <4>1, Zenon
    <3> HIDE DEF k
    <3> DEFINE e == F[j].end
               N == F[j].nodes
               M == F[k]
    <3>5. M = [end |-> e, nodes |-> <<x>> \o N]
      <4>1. M = SequenceBody(s, F, k)
        BY <1>0, <3>1
      <4> QED
        BY <3>2, <4>1, Zenon DEF SequenceBody
    <3>6. N \in Seq(Nodes)
      BY <1>0, <2>2
    <3> HIDE DEF e, N
    <3>7. M.end = e /\ M.nodes = <<x>> \o N
      <4> HIDE DEF M
      <4> QED
        BY <3>5
    <3>8. u \o (<<x>> \o N) = Append(u, x) \o N
      <4>1. \A v \in Seq(Nodes) : u \o (<<x>> \o v) = Append(u, x) \o v
        <5>1. u \in Seq(Nodes) /\ x \in Nodes
          OBVIOUS
        <5> HIDE DEF F, P, Read, a, b, k, M
        <5> QED
          BY <5>1, JoinNext, SMTT(30)
      <4> QED
        BY <3>6, <4>1
    <3>9. F[i] = [end |-> M.end, nodes |-> u \o M.nodes]
      BY <3>4, Zenon DEF Longer
    <3>10. F[i] = [end |-> e, nodes |-> Append(u, x) \o N]
      <4> HIDE DEF M, F
      <4> QED
        BY <3>7, <3>8, <3>9, Zenon
    <3> QED
      BY <3>10, Zenon DEF Longer, e, N
  <2>3. Read(Append(u, x))
    <3> HIDE DEF a, b
    <3> QED
      BY <2>1, <2>2, Zenon
  <2> QED
    BY <2>1, <2>3
<1>3. Seq(Nodes) \subseteq P
  <2> HIDE DEF P
  <2> QED
    BY <1>1, <1>2, AlongSequence
<1>4. Read(nodes)
  BY <1>3
<1> DEFINE w == PrintSequence(nodes)
<1>5. w = Flat(nodes, NodeText) /\ w \in Seq(Tokens)
  BY PrintSequenceIs
<1>6. At(s, i, w) /\ ~PropertyAt(s, i + Len(w))
  OBVIOUS
<1> HIDE DEF w
<1>7. i + Len(w) \in 1 .. Len(s) + 1
  BY <1>0, <1>5, <1>6, LenProperties DEF At
<1>8. Longer(s, i, nodes, i + Len(w))
  BY <1>4, <1>5, <1>6, <1>7, Zenon
<1> QED
  BY <1>8 DEF w

\* Variations begin and end with a parenthesis, and so does a tree.
LEMMA WrittenBegins ==
  ASSUME NEW t \in SyntaxTrees
  PROVE  /\ Written(t) \in Seq(Tokens) /\ Written(t) # <<>> /\ Written(t)[1] = Open
<1> DEFINE a == PrintSequence(t.sequence_)
           b == Flat(t.sub_trees, WrittenF)
           w == <<Open>> \o a \o b \o <<Close>>
<1>1. Written(t) = w /\ Written(t) \in Seq(Tokens)
  BY WrittenDef, WrittenType
<1>2. a \in Seq(Tokens) /\ b \in Seq(Tokens) /\ <<Open>> \in Seq(Tokens)
      /\ <<Close>> \in Seq(Tokens) /\ Len(<<Open>>) = 1 /\ <<Open>>[1] = Open
  <2>1. Makes(WrittenF, SyntaxTrees, Seq(Tokens))
    BY WrittenType DEF Makes, WrittenF
  <2> QED
    BY <2>1, SubTrees, PrintSequenceIs, FlatType, TokenTypes
<1>3. \A u, v \in Seq(Tokens) : Len(u) >= 1 /\ u[1] = Open =>
         u \o v \in Seq(Tokens) /\ Len(u \o v) >= 1 /\ (u \o v)[1] = Open
  <2> SUFFICES ASSUME NEW u \in Seq(Tokens), NEW v \in Seq(Tokens), Len(u) >= 1, u[1] = Open
               PROVE  u \o v \in Seq(Tokens) /\ Len(u \o v) >= 1 /\ (u \o v)[1] = Open
    OBVIOUS
  <2>1. /\ u \o v \in Seq(Tokens) /\ Len(u \o v) = Len(u) + Len(v)
        /\ Len(u) \in Nat /\ Len(v) \in Nat
        /\ \A k \in 1 .. Len(u) : (u \o v)[k] = u[k]
    BY ConcatProperties, LenProperties
  <2>2. 1 \in 1 .. Len(u)
    BY <2>1
  <2> QED
    BY <2>1, <2>2
<1> HIDE DEF a, b
<1>4. Len(<<Open>>) >= 1
  BY <1>2
<1>5. Len(w) >= 1 /\ w[1] = Open /\ w \in Seq(Tokens)
  BY <1>2, <1>3, <1>4, Zenon
<1> HIDE DEF w
<1>6. w # <<>>
  BY <1>5, EmptySeq
<1> QED
  BY <1>1, <1>5, <1>6

\* The trees that are written.
Rooted == {t \in SyntaxTrees : t.sequence_ # <<>>}

\* A variation has a sequence.
LEMMA RootedSubTrees ==
  ASSUME NEW t \in SyntaxTrees
  PROVE  /\ t.sub_trees \in Seq(Rooted)
         /\ t \in TreesTo[MaxNodes] => t.sequence_ # <<>>
<1>0. MaxNodes \in Nat
  BY SgfAssumption
<1>1. ASSUME NEW n \in Nat, n <= MaxNodes PROVE TreesTo[n] \subseteq Rooted
  <2> SUFFICES ASSUME NEW u \in TreesTo[n] PROVE u \in Rooted
    OBVIOUS
  <2>1. u \in SyntaxTrees
    BY <1>0, <1>1, TreesGrow DEF SyntaxTrees
  <2>2. n # 0
    BY TreesDef
  <2> DEFINE d == n - 1
  <2>3. d \in Nat /\ n = d + 1
    BY <2>2
  <2> HIDE DEF d
  <2>4. u.sequence_ # <<>>
    BY <2>3, TreeParts
  <2> QED
    BY <2>1, <2>4 DEF Rooted
<1>2. CASE t = Empty
  BY <1>0, <1>1, <1>2, EmptySeq DEF Empty, Rooted
<1>3. CASE t \in TreesTo[MaxNodes]
  <2>1. MaxNodes # 0
    BY <1>3, TreesDef
  <2> DEFINE d == MaxNodes - 1
  <2>2. d \in Nat /\ MaxNodes = d + 1 /\ d <= MaxNodes
    BY <1>0, <2>1
  <2> HIDE DEF d
  <2>3. t.sub_trees \in Seq(TreesTo[d]) /\ t.sequence_ # <<>>
    BY <1>3, <2>2, TreeParts
  <2>4. TreesTo[d] \subseteq Rooted
    BY <1>1, <2>2
  <2>5. t.sub_trees \in Seq(Rooted)
    BY <2>3, <2>4, SeqMonotonic
  <2> QED
    BY <2>3, <2>5
<1> QED
  BY <1>2, <1>3 DEF SyntaxTrees

\* What is written of variations is nothing, or begins with a parenthesis.
LEMMA VariationsBegin ==
  ASSUME NEW ts \in Seq(SyntaxTrees)
  PROVE  /\ Makes(WrittenF, SyntaxTrees, Seq(Tokens))
         /\ Flat(ts, WrittenF) \in Seq(Tokens)
         /\ Flat(ts, WrittenF) = <<>> \/ Flat(ts, WrittenF)[1] = Open
<1>1. Makes(WrittenF, SyntaxTrees, Seq(Tokens))
  BY WrittenType DEF Makes, WrittenF
<1> DEFINE P == {u \in Seq(SyntaxTrees) :
                    Flat(u, WrittenF) = <<>> \/ Flat(u, WrittenF)[1] = Open}
<1>2. <<>> \in P
  BY FlatEmpty, EmptySeq
<1>3. ASSUME NEW u \in Seq(SyntaxTrees), NEW x \in SyntaxTrees, u \in P PROVE Append(u, x) \in P
  <2> DEFINE a == Flat(u, WrittenF)
             b == Written(x)
  <2>1. Flat(Append(u, x), WrittenF) = a \o b
    <3>1. Flat(Append(u, x), WrittenF) = a \o WrittenF[x]
      BY <1>1, FlatAppend
    <3> QED
      BY <3>1 DEF WrittenF
  <2>2. /\ a \in Seq(Tokens) /\ b \in Seq(Tokens) /\ b # <<>> /\ b[1] = Open
        /\ Append(u, x) \in Seq(SyntaxTrees)
    BY <1>1, FlatType, WrittenBegins, AppendProperties
  <2>3. a = <<>> \/ a[1] = Open
    BY <1>3
  <2> HIDE DEF a, b
  <2>4. (a \o b)[1] = Open
    <3>1. CASE a = <<>>
      <4>1. a \o b = b
        BY <2>2, <3>1, ConcatEmptySeq
      <4> QED
        BY <2>2, <4>1
    <3>2. CASE a # <<>>
      <4>1. \A k \in 1 .. Len(a) : (a \o b)[k] = a[k]
        BY <2>2, ConcatProperties
      <4>2. 1 \in 1 .. Len(a)
        BY <2>2, <3>2, EmptySeq, LenProperties
      <4> QED
        BY <2>3, <3>2, <4>1, <4>2
    <3> QED
      BY <3>1, <3>2
  <2> QED
    BY <2>1, <2>2, <2>4
<1>4. Seq(SyntaxTrees) \subseteq P
  <2> HIDE DEF P
  <2> QED
    BY <1>2, <1>3, AlongSequence
<1> QED
  BY <1>1, <1>4, FlatType

\* The tree t is read at i, up to its last parenthesis.
IsRead(s, i, t) ==
    LET subs == SubTreesFrom(s)[MainEnd(s, i)]
    IN  /\ TreeBegins(s, i) /\ TreeOf(s, i, subs) = t
        /\ IsAt(Close, s, subs.end) /\ subs.end + 1 = i + Len(Written(t))

\* What is read at i if it is read at j after some variations.
MoreTrees(s, i, ts, j) ==
    SubTreesFrom(s)[i] = [end |-> SubTreesFrom(s)[j].end,
                          trees |-> ts \o SubTreesFrom(s)[j].trees]

\* Variations are read as they were written if each of them is.
LEMMA VariationsAreRead ==
  ASSUME NEW s, Readable(s), NEW G \in SUBSET SyntaxTrees,
         \A t \in G, i \in 1 .. Len(s) + 1 : At(s, i, Written(t)) => IsRead(s, i, t),
         NEW ts \in Seq(G), NEW i \in 1 .. Len(s) + 1, At(s, i, Flat(ts, WrittenF))
  PROVE  MoreTrees(s, i, ts, i + Len(Flat(ts, WrittenF)))
<1> DEFINE V == SubTreesFrom(s)
           W(u) == Flat(u, WrittenF)
           P == {u \in Seq(G) : At(s, i, W(u)) => MoreTrees(s, i, u, i + Len(W(u)))}
<1>0. /\ Len(s) \in Nat /\ s \in Seq(Tokens)
      /\ \A k \in 1 .. Len(s) + 1 : V[k].trees \in Seq(WithMoves)
      /\ \A k \in 1 .. Len(s) + 1 : V[k] = VariationsIs(s, V, k)
  BY VariationsDef, LenProperties, Zenon DEF TreesGood, Readable
<1>1. <<>> \in P
  <2>1. Len(W(<<>>)) = 0 /\ i + 0 = i
    BY FlatEmpty, EmptySeq
  <2>2. V[i] = [end |-> V[i].end, trees |-> V[i].trees]
    <3> DEFINE v == V[i]
               a == V[V[MainEnd(s, i)].end + 1].end
               b == WithVariation(TreeOf(s, i, V[MainEnd(s, i)]), V[V[MainEnd(s, i)].end + 1].trees)
    <3>1. v = IF Closed(s, i, V) THEN [end |-> a, trees |-> b] ELSE [end |-> i, trees |-> <<>>]
      BY <1>0, Zenon DEF VariationsIs
    <3> HIDE DEF v, a, b
    <3>2. v = [end |-> v.end, trees |-> v.trees]
      BY <3>1
    <3> QED
      BY <3>2, Zenon DEF v
  <2>3. <<>> \o V[i].trees = V[i].trees
    <3>1. V[i].trees \in Seq(WithMoves)
      BY <1>0
    <3> HIDE DEF V
    <3> QED
      BY <3>1, ConcatEmptySeq
  <2>4. MoreTrees(s, i, <<>>, i)
    BY <2>2, <2>3, Zenon DEF MoreTrees
  <2>5. MoreTrees(s, i, <<>>, i + Len(W(<<>>)))
    BY <2>1, <2>4, Zenon
  <2> QED
    BY <2>5, EmptySeq
<1>2. ASSUME NEW u \in Seq(G), NEW x \in G, u \in P PROVE Append(u, x) \in P
  <2> DEFINE a == W(u)
             b == Written(x)
             k == i + Len(a)
             j == k + Len(b)
  <2>1. /\ W(Append(u, x)) = a \o b /\ a \in Seq(Tokens) /\ b \in Seq(Tokens)
        /\ Append(u, x) \in Seq(G)
    <3>1. Makes(WrittenF, G, Seq(Tokens)) /\ WrittenF[x] = b /\ b \in Seq(Tokens)
      BY WrittenType DEF Makes, WrittenF
    <3>2. \A v \in Seq(G), y \in G :
             Flat(Append(v, y), WrittenF) = Flat(v, WrittenF) \o WrittenF[y]
      <4> HIDE DEF P, W, V, a, b, k, j
      <4> QED
        BY <3>1, FlatAppend
    <3>3. Flat(u, WrittenF) \in Seq(Tokens) /\ Append(u, x) \in Seq(G)
      BY <3>1, FlatType, AppendProperties
    <3> QED
      BY <3>1, <3>2, <3>3, Zenon
  <2>2. ASSUME At(s, i, a \o b) PROVE MoreTrees(s, i, Append(u, x), i + Len(a \o b))
    <3>1. /\ At(s, i, a) /\ At(s, k, b) /\ k \in 1 .. Len(s) + 1 /\ i + Len(a \o b) = j
      <4> HIDE DEF a, b
      <4> QED
        BY <1>0, <2>1, <2>2, AtTwo
    <3>2. IsRead(s, k, x)
      <4> HIDE DEF k
      <4> QED
        BY <3>1, Zenon
    <3>3. MoreTrees(s, i, u, k)
      BY <1>2, <3>1, Zenon
    <3> HIDE DEF k
    <3> DEFINE m == MainEnd(s, k)
    <3>4. Closed(s, k, V) /\ TreeOf(s, k, V[m]) = x /\ V[m].end + 1 = j
      BY <3>2, Zenon DEF IsRead, Closed
    <3> HIDE DEF j
    <3>5. j \in 1 .. Len(s) + 1
      <4>1. IsAt(Close, s, V[m].end)
        BY <3>4, Zenon DEF Closed
      <4> HIDE DEF V
      <4> QED
        BY <1>0, <3>4, <4>1, LenProperties DEF IsAt
    <3> DEFINE e == V[j].end
               T == V[j].trees
               M == V[k]
    <3>6. M = [end |-> e, trees |-> <<x>> \o T]
      BY <1>0, <3>1, <3>4, Zenon DEF VariationsIs, WithVariation
    <3>7. T \in Seq(WithMoves)
      BY <1>0, <3>5
    <3> HIDE DEF e, T
    <3>8. M.end = e /\ M.trees = <<x>> \o T
      <4> HIDE DEF M
      <4> QED
        BY <3>6
    <3>9. u \o (<<x>> \o T) = Append(u, x) \o T
      <4>1. u \in Seq(SyntaxTrees) /\ x \in SyntaxTrees /\ WithMoves \subseteq SyntaxTrees
        BY SeqMonotonic DEF WithMoves
      <4>2. T \in Seq(SyntaxTrees)
        BY <3>7, <4>1, SeqMonotonic
      <4>3. \A v \in Seq(SyntaxTrees) : u \o (<<x>> \o v) = Append(u, x) \o v
        <5> HIDE DEF V, W, P, a, b, M
        <5> QED
          BY <4>1, JoinNext, SMTT(30)
      <4> QED
        BY <4>2, <4>3
    <3>10. V[i] = [end |-> M.end, trees |-> u \o M.trees]
      BY <3>3, Zenon DEF MoreTrees
    <3>11. V[i] = [end |-> e, trees |-> Append(u, x) \o T]
      <4> HIDE DEF M, V
      <4> QED
        BY <3>8, <3>9, <3>10, Zenon
    <3>12. MoreTrees(s, i, Append(u, x), j)
      BY <3>11, Zenon DEF MoreTrees, e, T
    <3> QED
      BY <3>1, <3>12, Zenon DEF j
  <2> HIDE DEF a, b
  <2>3. At(s, i, W(Append(u, x))) => MoreTrees(s, i, Append(u, x), i + Len(W(Append(u, x))))
    BY <2>1, <2>2, Zenon
  <2> QED
    BY <2>1, <2>3
<1>3. Seq(G) \subseteq P
  <2> HIDE DEF P
  <2> QED
    BY <1>1, <1>2, AlongSequence
<1> QED
  BY <1>3

\* A tree is read as it was written.
LEMMA TreeIsRead ==
  ASSUME NEW s, Readable(s), NEW tt \in Rooted, NEW ii \in 1 .. Len(s) + 1,
         At(s, ii, Written(tt))
  PROVE  IsRead(s, ii, tt)
<1> DEFINE V == SubTreesFrom(s)
           F == SequenceFrom(s)
           P == {t \in SyntaxTrees : t.sequence_ # <<>> =>
                    \A i \in 1 .. Len(s) + 1 : At(s, i, Written(t)) => IsRead(s, i, t)}
<1>0. Len(s) \in Nat /\ s \in Seq(Tokens) /\ DOMAIN s = 1 .. Len(s)
  BY LenProperties DEF Readable
<1>1. ASSUME NEW t \in SyntaxTrees, t.sub_trees \in Seq(P) PROVE t \in P
  <2> SUFFICES ASSUME t.sequence_ # <<>>, NEW i \in 1 .. Len(s) + 1, At(s, i, Written(t))
               PROVE  IsRead(s, i, t)
    OBVIOUS
  <2> DEFINE G == P \cap Rooted
             a == PrintSequence(t.sequence_)
             b == Flat(t.sub_trees, WrittenF)
             o == <<Open>>
             z == <<Close>>
             m == (i + 1) + Len(a)
             c == m + Len(b)
  <2>1. t.sub_trees \in Seq(G)
    <3>1. t.sub_trees \in Seq(Rooted)
      BY RootedSubTrees
    <3> HIDE DEF P
    <3>2. \A k \in DOMAIN t.sub_trees : t.sub_trees[k] \in G
      BY <1>1, <3>1, ElementOfSeq, LenProperties
    <3> QED
      BY <3>1, <3>2, AllIn
  <2>2. /\ a \in Seq(Tokens) /\ t.sequence_ \in Seq(Nodes) /\ t.sub_trees \in Seq(SyntaxTrees)
        /\ t = [sequence_ |-> t.sequence_, sub_trees |-> t.sub_trees]
    BY SubTrees, PrintSequenceIs
  <2>3. b \in Seq(Tokens) /\ (b = <<>> \/ b[1] = Open)
    BY <2>2, VariationsBegin
  <2>4. /\ o \in Seq(Tokens) /\ z \in Seq(Tokens) /\ Len(o) = 1 /\ Len(z) = 1
        /\ Open \in Tokens /\ Close \in Tokens /\ Written(t) = o \o a \o b \o z
    BY TokenTypes, WrittenDef DEF Tokens
  <2>5. /\ At(s, i, o) /\ At(s, i + 1, a) /\ At(s, m, b) /\ At(s, c, z)
        /\ i + 1 \in 1 .. Len(s) + 1 /\ m \in 1 .. Len(s) + 1 /\ c \in 1 .. Len(s) + 1
        /\ i + Len(Written(t)) = c + 1
    <3> HIDE DEF o, z, a, b
    <3> DEFINE u == o \o a
               v == u \o b
    <3>1. u \in Seq(Tokens)
      BY <2>2, <2>4, ConcatProperties
    <3> HIDE DEF u
    <3>2. v \in Seq(Tokens)
      BY <2>3, <3>1, ConcatProperties
    <3> HIDE DEF v
    <3>3. Written(t) = v \o z /\ At(s, i, v \o z)
      BY <2>4, Zenon DEF u, v
    <3>4. /\ At(s, i, v) /\ At(s, i + Len(v), z) /\ i + Len(v) \in 1 .. Len(s) + 1
          /\ i + Len(v \o z) = (i + Len(v)) + Len(z)
      BY <1>0, <2>4, <3>2, <3>3, AtTwo, ZenonT(60)
    <3>5. /\ At(s, i, u) /\ At(s, i + Len(u), b) /\ i + Len(u) \in 1 .. Len(s) + 1
          /\ i + Len(v) = (i + Len(u)) + Len(b)
      <4>1. At(s, i, u \o b)
        BY <3>4 DEF v
      <4>2. /\ At(s, i, u) /\ At(s, i + Len(u), b) /\ i + Len(u) \in 1 .. Len(s) + 1
            /\ i + Len(u \o b) = (i + Len(u)) + Len(b)
        BY <1>0, <2>3, <3>1, <4>1, AtTwo
      <4> QED
        BY <4>2, Zenon DEF v
    <3>6. /\ At(s, i, o) /\ At(s, i + Len(o), a) /\ i + Len(o) \in 1 .. Len(s) + 1
          /\ i + Len(u) = (i + Len(o)) + Len(a)
      <4>1. At(s, i, o \o a)
        BY <3>5 DEF u
      <4>2. /\ At(s, i, o) /\ At(s, i + Len(o), a) /\ i + Len(o) \in 1 .. Len(s) + 1
            /\ i + Len(o \o a) = (i + Len(o)) + Len(a)
        BY <1>0, <2>2, <2>4, <4>1, AtTwo, ZenonT(60)
      <4> QED
        BY <4>2, Zenon DEF u
    <3>7. i + Len(u) = m /\ i + Len(v) = c
      BY <2>4, <3>5, <3>6, Zenon
    <3> HIDE DEF m, c
    <3> QED
      BY <2>4, <3>3, <3>4, <3>5, <3>6, <3>7, Zenon
  <2>6. IsAt(Open, s, i) /\ IsAt(Close, s, c) /\ c \in 1 .. Len(s)
    <3> HIDE DEF c
    <3> QED
      BY <1>0, <2>4, <2>5, AtOne
  <2>7. IsAt(Open, s, m) \/ IsAt(Close, s, m)
    <3> HIDE DEF m, a
    <3>1. CASE b = <<>>
      <4>1. m = c
        BY <2>5, <3>1, EmptySeq
      <4> QED
        BY <2>6, <4>1
    <3>2. CASE b # <<>>
      <4> HIDE DEF b
      <4>1. 1 \in 1 .. Len(b) /\ Len(b) \in Nat
        BY <2>3, <3>2, EmptySeq, LenProperties
      <4>2. s[m + 1 - 1] = b[1] /\ m + Len(b) <= Len(s) + 1
        BY <2>5, <4>1 DEF At
      <4>3. m + 1 - 1 = m /\ m \in 1 .. Len(s)
        BY <1>0, <2>5, <4>1, <4>2
      <4> QED
        BY <1>0, <2>3, <3>2, <4>2, <4>3 DEF IsAt
    <3> QED
      BY <3>1, <3>2
  <2>8. ~PropertyAt(s, m) /\ ~NodeAt(s, m) /\ ~TreeBegins(s, c)
    <3> HIDE DEF m, c
    <3> QED
      BY <2>6, <2>7, TokenTypes DEF PropertyAt, NodeAt, TreeBegins, IsAt
  <2>9. F[i + 1].end = m /\ F[i + 1].nodes = t.sequence_
    <3>1. Longer(s, i + 1, t.sequence_, m)
      <4> DEFINE x == i + 1
      <4>1. x \in 1 .. Len(s) + 1 /\ At(s, x, a) /\ ~PropertyAt(s, x + Len(a))
        BY <2>5, <2>8
      <4> HIDE DEF x
      <4>2. Longer(s, x, t.sequence_, x + Len(a))
        BY <1>0, <2>2, <4>1, SequenceIsRead
      <4> QED
        BY <4>2 DEF x
    <3> HIDE DEF m, a
    <3> DEFINE M == F[m]
    <3>2. M = [end |-> m, nodes |-> <<>>]
      BY <1>0, <2>5, <2>8, SequenceDef, Zenon DEF SequenceBody
    <3> HIDE DEF M
    <3>3. M.end = m /\ M.nodes = <<>>
      BY <3>2
    <3>4. t.sequence_ \o <<>> = t.sequence_
      BY <2>2, ConcatEmptySeq
    <3>5. F[i + 1] = [end |-> m, nodes |-> t.sequence_]
      BY <3>1, <3>3, <3>4, Zenon DEF Longer, M
    <3> QED
      BY <3>5
  <2>10. MainEnd(s, i) = m
    BY <2>9 DEF MainEnd
  <2>11. TreeBegins(s, i)
    <3>1. SequenceGood(s, i + 1, F[i + 1])
      <4> DEFINE x == i + 1
      <4>1. x \in 1 .. Len(s) + 1
        BY <2>5
      <4> HIDE DEF x, F
      <4>2. SequenceGood(s, x, F[x])
        BY <1>0, <4>1, SequenceDef DEF F
      <4> QED
        BY <4>2 DEF x
    <3>2. NodeAt(s, i + 1)
      BY <2>9, <3>1, Zenon DEF SequenceGood
    <3> QED
      BY <2>6, <3>2 DEF TreeBegins
  <2>12. V[m].end = c /\ V[m].trees = t.sub_trees
    <3> HIDE DEF m, a
    <3>1. MoreTrees(s, m, t.sub_trees, c)
      <4>1. \A x \in G, k \in 1 .. Len(s) + 1 : At(s, k, Written(x)) => IsRead(s, k, x)
        BY DEF Rooted
      <4>2. G \in SUBSET SyntaxTrees
        BY DEF Rooted
      <4> HIDE DEF G, P
      <4> QED
        BY <2>1, <2>5, <4>1, <4>2, VariationsAreRead
    <3> HIDE DEF c, b
    <3> DEFINE M == V[c]
    <3>2. M = [end |-> c, trees |-> <<>>]
      <4>1. M = VariationsIs(s, V, c)
        BY <2>5, VariationsDef
      <4>2. ~Closed(s, c, V)
        BY <2>8, Zenon DEF Closed
      <4> QED
        BY <4>1, <4>2, Zenon DEF VariationsIs
    <3> HIDE DEF M
    <3>3. M.end = c /\ M.trees = <<>>
      BY <3>2
    <3>4. t.sub_trees \o <<>> = t.sub_trees
      BY <2>2, ConcatEmptySeq
    <3>5. V[m] = [end |-> c, trees |-> t.sub_trees]
      BY <3>1, <3>3, <3>4, Zenon DEF MoreTrees, M
    <3> QED
      BY <3>5
  <2>13. TreeOf(s, i, V[m]) = t
    BY <2>2, <2>9, <2>12, Zenon DEF TreeOf
  <2> HIDE DEF m, c, P
  <2> QED
    BY <2>5, <2>6, <2>10, <2>11, <2>12, <2>13, Zenon DEF IsRead
<1>2. SyntaxTrees \subseteq P
  <2> HIDE DEF P
  <2> QED
    BY <1>1, TreeInduction
<1> QED
  BY <1>2 DEF Rooted

\* A reading of the whole file finds the tree that was written, variations nested
\* as they were: the property ReadsAll, of the table that is updated after the
\* downloader is done.
THEOREM WholeFileRead == Spec => ReadsAll
<1>1. ASSUME SgfInv, ReadSgf, rest = <<>>, ~flawed PROVE ast' = tree
  <2>1. Readable(file) /\ file \in Seq(Tokens)
    BY <1>1, InvReadable DEF Readable
  <2>2. tree \in Trees /\ file \o rest = Written(tree)
    BY <1>1 DEF SgfInv, FileInv
  <2>3. file = Written(tree)
    BY <1>1, <2>1, <2>2, ConcatEmptySeq
  <2>4. tree \in Rooted
    <3>1. tree \in TreesTo[MaxNodes] /\ tree \in SyntaxTrees
      BY <2>2, SgfAssumption DEF SyntaxTrees
    <3> QED
      BY <3>1, RootedSubTrees DEF Rooted
  <2>5. 1 \in 1 .. Len(file) + 1 /\ At(file, 1, file)
    <3>1. Len(file) \in Nat
      BY <2>1, LenProperties
    <3>2. \A k \in 1 .. Len(file) : 1 + k - 1 = k
      OBVIOUS
    <3> QED
      BY <3>1, <3>2 DEF At
  <2>6. IsRead(file, 1, tree)
    BY <2>1, <2>3, <2>4, <2>5, TreeIsRead
  <2>7. parse_sgf(file) = tree
    BY <2>1, <2>6, ReadIs, Zenon DEF IsRead
  <2> QED
    BY <1>1, <2>7 DEF ReadSgf
<1>2. SgfInv /\ [Next]_vars => [ReadSgf /\ rest = <<>> /\ ~flawed => ast' = tree]_vars
  BY <1>1
<1> QED
  BY <1>2, SgfInvariance, PTL DEF Spec, ReadsAll
=============================================================================
