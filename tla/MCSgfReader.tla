---------------------------- MODULE MCSgfReader ----------------------------
(* Small sgf trees for TLC.                                                *)
EXTENDS SgfReader

Property(id, words) == <<id, words>>
Black == <<Property("B", <<"aa">>)>>
\* A commented pass.
Pass == <<Property("C", <<"text">>), Property("W", <<>>)>>
Comment == <<Property("C", <<"text">>)>>

Players == <<Property("PB", <<"x">>), Property("PW", <<"y">>)>>
Results == {<<"B", "+", "R">>, <<"W", "+", "2.5">>, <<"B", "+", "T">>, <<"0">>}

\* First nodes: a result, a second one after it, none; one with a move in it.
FirstNodes ==
    {Append(Players, Property("RE", r)) : r \in Results}
        \cup {<<Property("RE", <<"B", "+", "R">>), Property("RE", <<"W", "+">>)>>,
              <<Property("SZ", <<"19">>), Property("DT", <<"day">>)>> \o Black}

Tree(sequence, subs) == [sequence_ |-> sequence, sub_trees |-> subs]
Leaf(sequence) == Tree(sequence, <<>>)

Variations ==
    {<<>>, <<Leaf(<<Comment>>)>>, <<Leaf(<<Black, Pass>>), Leaf(<<Pass>>)>>,
     <<Tree(<<Pass>>, <<Leaf(<<Black>>), Leaf(<<Comment, Black>>)>>), Leaf(<<Black>>)>>}

SmallTrees ==
    {Tree(<<first>> \o more, subs) :
        first \in FirstNodes, more \in {<<>>, <<Black, Pass, Black>>}, subs \in Variations}

SmallProperties ==
    {Property("B", <<"aa">>), Property("C", <<"text">>), Property("W", <<>>),
     Property("PB", <<"x">>), Property("PW", <<"y">>), Property("SZ", <<"19">>),
     Property("DT", <<"day">>), Property("RE", <<"W", "+">>)}
        \cup {Property("RE", r) : r \in Results}

SmallNumbers == {"19", "2.5"}
=============================================================================
