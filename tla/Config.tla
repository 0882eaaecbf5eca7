------------------------------- MODULE Config -------------------------------
(***************************************************************************)
(* What the programs make of config.ini and client_config.ini (config.cpp) *)
(* and of the bots named there.  An ini file is a record of the keys it    *)
(* has; bots_to_use is a sequence of names.  The values of the enumeration *)
(* BOT are written by the names the program prints for them.               *)
(***************************************************************************)
EXTENDS Naturals, Sequences

BOT == {"leela", "leela_zero"}

Get(ini, key, default) == IF key \in DOMAIN ini THEN ini[key] ELSE default

\* The status with which autogrp exits before anything runs, 0 if it goes on.
\* It needs both files, with or without a local worker.
ConfigExit(ini) == IF Get(ini, "games_dir", "") = "" THEN 1 ELSE 0
ClientConfigExit(ini) == IF Get(ini, "temp_sgf_path", "") = "" THEN 2
                         ELSE IF Get(ini, "python_path", "") = "" THEN 3 ELSE 0
AutogrpExit(ini, client) ==
    IF ConfigExit(ini) # 0 THEN ConfigExit(ini) ELSE ClientConfigExit(client)

\* Whether the downloader has a player to ask for; it is not looked at before
\* the first run.
HasId(ini) == Get(ini, "ogs_id", "") # ""

\* The worker w in autogrp's process, unless it is switched off.
LocalWorkers(ini, w) == IF Get(ini, "run_local_worker", TRUE) THEN {w} ELSE {}

PathKey == [leela |-> "leela_path", leela_zero |-> "leela_zero_path"]
PathsIn(client) == {b \in BOT : Get(client, PathKey[b], "") # ""}

\* A name that is not known is not refused: it means leela.
BotFromString(name) == IF name = "leela_zero" THEN "leela_zero" ELSE "leela"

\* The columns of the window's table: one for each name.
Columns(ini) == LET names == Get(ini, "bots_to_use", <<"leela">>)
                IN  [i \in DOMAIN names |-> BotFromString(names[i])]

\* std::unique drops a bot only when it repeats the one before it.
DropRepeats(bots) ==
    LET kept[i \in 0 .. Len(bots)] ==
            IF i = 0 THEN <<>>
            ELSE IF i > 1 /\ bots[i] = bots[i - 1] THEN kept[i - 1]
            ELSE Append(kept[i - 1], bots[i])
    IN  kept[Len(bots)]

\* Mutant: repetitions are kept.
BotsWithRepeats(ini) == Columns(ini)

BotsToUse(ini) == DropRepeats(Columns(ini))
=============================================================================
