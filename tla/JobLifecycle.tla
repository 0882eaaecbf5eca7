---------------------------- MODULE JobLifecycle ----------------------------
(***************************************************************************)
(* What autogrp promises about one (game, bot) job while nobody deletes    *)
(* the game's sgf: it is created once, when its game is downloaded, it is  *)
(* handed to one worker at most, and it ends either with a result or,      *)
(* because of a fault, without one; nothing brings it back.                *)
(***************************************************************************)
CONSTANT Jobs

VARIABLE status

Statuses == {"new", "pending", "running", "done", "lost"}

Init == status = [j \in Jobs |-> "new"]

Become(S, s) == status' = [j \in Jobs |-> IF j \in S THEN s ELSE status[j]]

In(s) == {j \in Jobs : status[j] = s}

\* A game is downloaded: its jobs, one per bot, come into being.
Create(S) == S # {} /\ S \subseteq In("new") /\ Become(S, "pending")

Take(j) == status[j] = "pending" /\ Become({j}, "running")

Finish(j) == status[j] = "running" /\ Become({j}, "done")

\* A fault may hit many jobs at once.
Lose(S) == S # {} /\ S \subseteq In("pending") \cup In("running") /\ Become(S, "lost")

Next == \/ \E S \in SUBSET Jobs : Create(S) \/ Lose(S)
        \/ \E j \in Jobs : Take(j) \/ Finish(j)

Spec == Init /\ [][Next]_status
=============================================================================
