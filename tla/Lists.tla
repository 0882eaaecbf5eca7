-------------------------------- MODULE Lists --------------------------------
(***************************************************************************)
(* The loops over a container that several programs share.  They are       *)
(* recursive functions and not recursive operators, which the provers do   *)
(* not know.                                                               *)
(***************************************************************************)
EXTENDS Naturals, Sequences

\* What std::remove_if and the loops that push_back some elements leave of s:
\* those in S, in their order.
Keep(s, S) ==
    LET kept[i \in 0 .. Len(s)] ==
            IF i = 0 THEN <<>>
            ELSE IF s[i] \in S THEN Append(kept[i - 1], s[i]) ELSE kept[i - 1]
    IN  kept[Len(s)]
=============================================================================
