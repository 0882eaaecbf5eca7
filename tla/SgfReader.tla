------------------------------ MODULE SgfReader ------------------------------
(***************************************************************************)
(* The sgf reader of rsgf_viewer, with which the window's table reads each *)
(* game: the grammar of sgf_parser.cpp, the move tree and the header that  *)
(* the constructor of Sgf builds from it.  A file is a sequence of tokens; *)
(* it may be cut anywhere (the downloader stores what it received and is   *)
(* still writing when the table is filled) and may hold a token that the   *)
(* grammar has no rule for, or a node without properties.  That the parse  *)
(* failed is not looked at: the reader goes on with what it has.           *)
(***************************************************************************)
EXTENDS Naturals, Sequences, SequencesExt, FiniteSetsExt, Lists

CONSTANTS
    Properties, \* the properties that nodes have
    Trees,      \* the game trees that are written to files
    MaxNodes,   \* bound on the nodes in a file
    Numbers     \* the words that atof and atoi read as a number

\* A token is a parenthesis, a semicolon, a property <<identifier, value>> or
\* Junk; a value is a sequence of words.
Open == <<"(">>
Close == <<")">>
Semicolon == <<";">>
Junk == <<"junk">>
Tokens == {Open, Close, Semicolon, Junk} \cup Properties

VARIABLES
    tree,       \* what was written
    file,       \* the part of it that has arrived, with a flaw or not
    rest,       \* the tokens that are still to come
    flawed,     \* is there a token in the file that was never written?
    ast,        \* the syntax tree of the last reading
    moves,      \* its move tree
    header      \* the fields of Sgf, "?" where it left them as they were

vars == <<tree, file, rest, flawed, ast, moves, header>>

-----------------------------------------------------------------------------
(* Syntax trees (Sgf.h), by the nodes on their longest line.               *)

Nodes == Seq(Properties) \ {<<>>}

TreesTo[d \in Nat] ==
    IF d = 0 THEN {}
    ELSE [sequence_ : {nodes \in Seq(Nodes) : Len(nodes) \in 1 .. d},
          sub_trees : Seq(TreesTo[d - 1])]

Empty == [sequence_ |-> <<>>, sub_trees |-> <<>>]

SyntaxTrees == TreesTo[MaxNodes] \cup {Empty}

-----------------------------------------------------------------------------
(* The grammar.  Each rule is tried at a place i of the file s.            *)

IsAt(token, s, i) == i \in DOMAIN s /\ s[i] = token
PropertyAt(s, i) == i \in DOMAIN s /\ s[i] \in Properties

\* The first place from i on that is no property.
PropertiesEnd(s, i) == Min({j \in i .. Len(s) + 1 : ~PropertyAt(s, j)})

\* node = ';' >> +property
NodeAt(s, i) == IsAt(Semicolon, s, i) /\ PropertyAt(s, i + 1)

\* Mutant: a node has one property.
OneProperty(s, i) == i + 2
NodeEnd(s, i) == PropertiesEnd(s, i + 1)

\* sequence = +node, from each place on
SequenceFrom(s) ==
    LET from[i \in 1 .. Len(s) + 1] ==
            IF NodeAt(s, i)
            THEN LET next == NodeEnd(s, i)
                     more == from[next]
                 IN  [end |-> more.end, nodes |-> <<SubSeq(s, i + 1, next - 1)>> \o more.nodes]
            ELSE [end |-> i, nodes |-> <<>>]
    IN  from

\* game_tree = '(' >> sequence >> *game_tree >> ')', with what *game_tree finds
\* from each place on.  A variation that fails is dropped; the tree itself
\* keeps what it has, for nobody asks whether the parse of the whole file failed.
GameTreeAt(s, i, variations) ==
    LET main == SequenceFrom(s)[i + 1]
        subs == variations[main.end]
    IN  IF ~IsAt(Open, s, i) \/ main.nodes = <<>>
        THEN [ok |-> FALSE, end |-> i, tree |-> Empty]
        ELSE [ok |-> IsAt(Close, s, subs.end), end |-> subs.end + 1,
              tree |-> [sequence_ |-> main.nodes, sub_trees |-> subs.trees]]

\* Mutants: each variation is put before those that were there, or replaces them.
WithVariationFirst(t, trees) == Append(trees, t)
OnlyVariation(t, trees) == IF trees = <<>> THEN <<t>> ELSE trees
WithVariation(t, trees) == <<t>> \o trees

SubTreesFrom(s) ==
    LET from[i \in 1 .. Len(s) + 1] ==
            LET first == GameTreeAt(s, i, from)
                more == from[first.end]
            IN  IF first.ok
                THEN [end |-> more.end, trees |-> WithVariation(first.tree, more.trees)]
                ELSE [end |-> i, trees |-> <<>>]
    IN  from

parse_sgf(s) == GameTreeAt(s, 1, SubTreesFrom(s)).tree

-----------------------------------------------------------------------------
(* The move tree.                                                          *)

IsMove(property) == property[1] \in {"B", "W"}
Moves == {p \in Properties : IsMove(p)}

\* A node's move is its first property that is one.
parse_node(node) == Keep(node, Moves)[1]

\* Mutant: only Black's moves are found.
HasBlackMove(node) == \E i \in DOMAIN node : node[i][1] = "B"
HasMove(node) == \E i \in DOMAIN node : IsMove(node[i])

Single(move) == [move |-> move, next_moves |-> <<>>]
NoMove == <<"none", <<>>>>

MoveTreesTo[d \in Nat] ==
    IF d = 0 THEN {}
    ELSE [move : Moves \cup {NoMove}, next_moves : Seq(MoveTreesTo[d - 1])]

MoveTrees == MoveTreesTo[MaxNodes]

\* Mutant: the move becomes a variation of the head.
AppendToHead(head, move) == [head EXCEPT !.next_moves = Append(@, Single(move))]

append_move_to_end(head, move) ==
    LET with[h \in MoveTrees] ==
            IF h.next_moves = <<>> THEN [h EXCEPT !.next_moves = <<Single(move)>>]
            ELSE [h EXCEPT !.next_moves[1] = with[@]]
    IN  with[head]

MoveList(nodes) == LET played == Keep(nodes, {node \in Range(nodes) : HasMove(node)})
                   IN  [i \in DOMAIN played |-> parse_node(played[i])]

\* Without a move the tree gets a placeholder for a head.
parse_sequence(nodes) ==
    LET list == MoveList(nodes)
        line[i \in 1 .. Len(list)] ==
            IF i = 1 THEN Single(list[1]) ELSE append_move_to_end(line[i - 1], list[i])
    IN  IF list = <<>> THEN Single(NoMove) ELSE line[Len(list)]

\* Variations hang on the head, wherever the sequence ends.
parse_game_tree(t) ==
    LET parsed[x \in SyntaxTrees] ==
            [parse_sequence(x.sequence_) EXCEPT
                !.next_moves = @ \o [i \in DOMAIN x.sub_trees |-> parsed[x.sub_trees[i]]]]
    IN  parsed[t]

-----------------------------------------------------------------------------
(* The header: the properties of the first node, one after the other.      *)

Unread == [PW |-> <<>>, PB |-> <<>>, DT |-> "?", SZ |-> "?", KM |-> "?", HA |-> "?",
           black_won |-> "?", white_won |-> "?", margin |-> "?"]

\* Mutant: the text after the plus is kept.
NumberAsIs(words) == IF words = <<>> THEN "0" ELSE Head(words)

\* atoi and atof
Number(words) == IF words # <<>> /\ Head(words) \in Numbers THEN Head(words) ELSE "0"

AfterPlus(words) == SubSeq(words, Min({i \in DOMAIN words : words[i] = "+"}) + 1, Len(words))

Margin(words, before) ==
    CASE "R" \in Range(words) -> "-1"
      [] "R" \notin Range(words) /\ "+" \in Range(words) -> Number(AfterPlus(words))
      [] OTHER -> before

Won(color, words) == IF IsPrefix(<<color>>, words) THEN "yes" ELSE "no"

\* Mutant: only the winner's flag is set.
WinnerOnly(fields, words) ==
    [fields EXCEPT !.black_won = IF Won("B", words) = "yes" THEN "yes" ELSE @,
                   !.white_won = IF Won("W", words) = "yes" THEN "yes" ELSE @,
                   !.margin = Margin(words, @)]

\* Both flags are set anew, the margin only if there is one.
Result(fields, words) ==
    [fields EXCEPT !.black_won = Won("B", words),
                   !.white_won = Won("W", words),
                   !.margin = Margin(words, @)]

ReadProperty(fields, property) ==
    LET id == property[1]  words == property[2] IN
    CASE id = "RE" -> Result(fields, words)
      [] id \in {"PW", "PB"} -> [fields EXCEPT ![id] = words]
      [] id = "DT" -> [fields EXCEPT !.DT = "read"]
      [] id \in {"SZ", "KM", "HA"} -> [fields EXCEPT ![id] = Number(words)]
      [] OTHER -> fields

Header(t) ==
    LET first == t.sequence_[1]
        read[i \in 0 .. Len(first)] ==
            IF i = 0 THEN Unread ELSE ReadProperty(read[i - 1], first[i])
    IN  IF t.sequence_ = <<>> THEN Unread ELSE read[Len(first)]

-----------------------------------------------------------------------------
(* What print_game_tree writes: the nodes in order, no parentheses.        *)

PrintSequence(nodes) == FlattenSeq([i \in DOMAIN nodes |-> <<Semicolon>> \o nodes[i]])

PrintGameTree(t) ==
    LET printed[x \in SyntaxTrees] ==
            PrintSequence(x.sequence_)
                \o FlattenSeq([i \in DOMAIN x.sub_trees |-> printed[x.sub_trees[i]]])
    IN  printed[t]

\* The file of a tree, with its parentheses.
Written(t) ==
    LET written[x \in SyntaxTrees] ==
            <<Open>> \o PrintSequence(x.sequence_)
                \o FlattenSeq([i \in DOMAIN x.sub_trees |-> written[x.sub_trees[i]]])
                \o <<Close>>
    IN  written[t]

\* Between two moves a node begins.
OneMoveANode(s) ==
    \A i, k \in DOMAIN s : i < k /\ s[i] \in Moves /\ s[k] \in Moves
        => \E j \in i .. k : s[j] = Semicolon

\* Each of them begins with a semicolon.
NodesIn(s) == Len(Keep(s, {Semicolon}))

\* An identifier is a word in capitals, and no node holds two moves.
ASSUME SgfAssumption ==
    /\ MaxNodes \in Nat
    /\ Trees \subseteq TreesTo[MaxNodes]
    /\ Properties \cap {Open, Close, Semicolon, Junk, NoMove} = {}
    /\ \A t \in Trees :
          /\ OneMoveANode(Written(t))
          /\ NodesIn(Written(t)) < MaxNodes

-----------------------------------------------------------------------------
Init == /\ tree \in Trees
        /\ file = <<>> /\ rest = Written(tree) /\ flawed = FALSE
        /\ ast = Empty /\ moves = Single(NoMove) /\ header = Unread

\* More of the file arrives.
Arrive ==
    /\ rest # <<>>
    /\ file' = Append(file, Head(rest))
    /\ rest' = Tail(rest)
    /\ UNCHANGED <<tree, flawed, ast, moves, header>>

\* Something else does: the page of a failed request, a semicolon with no
\* properties, a lower-case identifier.
Flaw(token) ==
    /\ ~flawed
    /\ file' = Append(file, token)
    /\ flawed' = TRUE
    /\ UNCHANGED <<tree, rest, ast, moves, header>>

\* The table makes an Sgf of the file, when the window opens or is updated.
ReadSgf ==
    /\ ast' = parse_sgf(file)
    /\ moves' = parse_game_tree(ast')
    /\ header' = Header(ast')
    /\ UNCHANGED <<tree, file, rest, flawed>>

Next == Arrive \/ ReadSgf \/ \E token \in {Junk, Semicolon} : Flaw(token)

Spec == Init /\ [][Next]_vars

-----------------------------------------------------------------------------
TypeOK ==
    /\ tree \in Trees /\ flawed \in BOOLEAN /\ file \in Seq(Tokens) /\ rest \in Seq(Tokens)
    /\ ast \in SyntaxTrees /\ moves \in MoveTrees
    /\ {header.black_won, header.white_won} \subseteq {"yes", "no", "?"}
    /\ header.margin \in Numbers \cup {"?", "-1", "0"}

Content(s) == Keep(s, Tokens \ {Open, Close})

\* Whatever is cut off or wrong in the file, the reader invents, repeats and
\* reorders nothing: printed, the syntax tree is the beginning of the file.
\* A dropped variation is never followed by one that was kept.
ReadsPrefix == IsPrefix(PrintGameTree(ast), Content(file))

\* A reading of the whole file finds the tree that was written, variations
\* nested as they were.
ReadsAll == [][ReadSgf /\ rest = <<>> /\ ~flawed => ast' = tree]_vars

\* A file that grew is never read as less than before, although a variation
\* that is not closed is dropped as a whole.
ReadsMore == [][IsPrefix(PrintGameTree(ast), PrintGameTree(ast'))]_vars

MovesIn(m) ==
    LET found[x \in MoveTrees] ==
            (IF x.move = NoMove THEN <<>> ELSE <<x.move>>)
                \o FlattenSeq([i \in DOMAIN x.next_moves |-> found[x.next_moves[i]]])
    IN  found[m]

PlayedIn(s) == Keep(s, Moves)

\* Every move that was read is in the move tree once, in the order of the file,
\* in whatever depth and between whatever nodes without a move it stands.
MovesKept == MovesIn(moves) = PlayedIn(PrintGameTree(ast))

\* The lines of play from the first move to a last one, in the syntax tree and
\* in the move tree.
LinesOf(t) ==
    LET lines[x \in SyntaxTrees] ==
            LET played == PlayedIn(PrintSequence(x.sequence_))
            IN  IF x.sub_trees = <<>> THEN {played}
                ELSE {played \o line : line \in UNION {lines[y] : y \in Range(x.sub_trees)}}
    IN  lines[t]

LinesIn(m) ==
    LET lines[x \in MoveTrees] ==
            LET played == IF x.move = NoMove THEN <<>> ELSE <<x.move>>
            IN  IF x.next_moves = <<>> THEN {played}
                ELSE {played \o line : line \in UNION {lines[y] : y \in Range(x.next_moves)}}
    IN  lines[m]

BranchesEarly(t) ==
    LET early[x \in SyntaxTrees] ==
            /\ x.sub_trees # <<>> => Len(PlayedIn(PrintSequence(x.sequence_))) <= 1
            /\ \A y \in Range(x.sub_trees) : early[y]
    IN  early[t]

\* The lines of play of the move tree are those of the file, as long as no
\* sequence goes on for more than one move before it branches: variations hang
\* on the head of their sequence (move.cpp:111-114), not on its end.
LinesKept == BranchesEarly(ast) => LinesIn(moves) = LinesOf(ast)

\* The table's bold type (sgf_table_model.cpp:54-57): with a result in the first
\* node both flags were set, by the last one of them; without one neither was,
\* and the table reads what the memory held.
WinnerKnown ==
    LET results == IF ast.sequence_ = <<>> THEN <<>>
                   ELSE Keep(ast.sequence_[1], {p \in Properties : p[1] = "RE"})
    IN  IF results = <<>> THEN header.black_won = "?" /\ header.white_won = "?"
        ELSE /\ {header.black_won, header.white_won} \subseteq {"yes", "no"}
             /\ header.black_won = "yes" <=> Won("B", Last(results)[2]) = "yes"
             /\ header.white_won = "yes" <=> Won("W", Last(results)[2]) = "yes"
=============================================================================
