---------------------------- MODULE MCWorkQueue ----------------------------
(* An instance of WorkQueue for TLC.                                       *)
EXTENDS WorkQueue

CONSTANTS j1, j2

\* main.cpp:44 adds games x bots, also when there is no new game;
\* queue_view.cpp:14 adds one job.
MCBatches == {<<>>, <<j1>>, <<j1, j2>>}
=============================================================================
