----------------------------- MODULE MCAutoGrp -----------------------------
(* Instances of AutoGrp for TLC.                                           *)
EXTENDS AutoGrp, Config, TLC

CONSTANTS g1, g2, w1, w2

\* Two games on two pages, so that a run of the downloader is interleaved with
\* everything else between its pages, and on one page.
TwoPages == <<<<g1>>, <<g2>>>>
OneGame == <<<<g1>>>>

Ini(names) == [ogs_id |-> "000000", games_dir |-> "dir", bots_to_use |-> names]
BothBots == BotsToUse(Ini(<<"leela", "leela_zero">>))
NewIni == [games_dir |-> "dir"]
OneBot == BotsToUse(NewIni)

\* Only the first repetition is dropped, and "ray" means leela as well.
RepeatedBots == BotsToUse(Ini(<<"leela", "leela", "leela_zero", "ray">>))

ClientIni == [temp_sgf_path |-> "temp", python_path |-> "python", leela_path |-> "script"]
ZeroClientIni == [leela_zero_path |-> "script"] @@ ClientIni

\* autogrp gets past its configuration, with an ogs_id and without.
ASSUME Starts == \A ini \in {Ini(<<"leela">>), NewIni} : AutogrpExit(ini, ClientIni) = 0

\* The user has set ogs_id, or sets or clears it between starts of the server.
IdSet == {HasId(Ini(<<"leela">>))}
IdLater == {HasId(NewIni), HasId(Ini(<<"leela">>))}

\* The first worker runs in the server's process.
LocalWorker == LocalWorkers(Ini(<<"leela">>), w1)

AllPaths == [w \in Workers |-> PathsIn(ZeroClientIni)]
NoZeroPath == [w \in Workers |-> PathsIn(ClientIni)]
=============================================================================
