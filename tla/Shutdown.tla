------------------------------ MODULE Shutdown ------------------------------
(***************************************************************************)
(* How the programs stop.  autogrp (src/src/main.cpp) has the main thread, *)
(* a thread that runs the io_service with the hourly timer and the signal  *)
(* handler, and the server's pool thread, whose restinio::run waits for    *)
(* SIGINT itself; its main thread is either the local worker or waits for  *)
(* the server.  client (src/src/client_main.cpp) has the worker loop and   *)
(* the signal handler only; its server is another process.                 *)
(***************************************************************************)
EXTENDS Sequences

CONSTANTS
    Programs,   \* "local": autogrp with run_local_worker; "server": autogrp
                \* without; "client"
    Signals     \* the signals that are sent, a subset of {"SIGINT", "SIGTERM"}

ASSUME ProgramAssumption ==
    /\ Programs \subseteq {"local", "server", "client"}
    /\ Signals \subseteq {"SIGINT", "SIGTERM"}

VARIABLES
    program,      \* the program that runs, with its configuration
    id,           \* does config.ini have an ogs_id?  It is read once
    keep_running,
    main,         \* where the main thread is
    job,          \* what became of its current job
    io,           \* the thread in io_service::run: "idle", "downloading", "returned"
    ready,        \* the io_service's queue of handlers that can run
    armed,        \* is the timer waiting?
    waiting,      \* is the signal handler waiting?  It waits once
    pool,         \* the server: "starting", "running", "stopping", "stopped"
    interrupted   \* history: has a SIGINT been sent?

ioVars == <<io, ready, armed, waiting>>
vars == <<program, id, keep_running, main, job, ioVars, pool, interrupted>>

Init == /\ program \in Programs
        /\ id \in BOOLEAN
        /\ keep_running = TRUE
        /\ main = IF program = "server" THEN "join_server" ELSE "loop"
        /\ job = "none"
        /\ io = "idle"
        /\ ready = <<>>
        /\ armed = (program # "client")
        /\ waiting = TRUE
        /\ pool = IF program = "client" THEN "running" ELSE "starting"
        /\ interrupted = FALSE

-----------------------------------------------------------------------------
(* Signals.  asio hands a signal to every set that waits for it: main's    *)
(* set has both signals but waits once; restinio's has SIGINT only, and    *)
(* exists once the server runs.                                            *)

Signal(s) ==
    /\ main # "exited"
    /\ waiting' = FALSE
    /\ ready' = IF waiting THEN Append(ready, "ctrl_handler") ELSE ready
    /\ pool' = IF s = "SIGINT" /\ pool = "running" /\ program # "client"
               THEN "stopping" ELSE pool
    /\ interrupted' = (interrupted \/ s = "SIGINT")
    /\ UNCHANGED <<program, id, keep_running, main, job, io, armed>>

-----------------------------------------------------------------------------
(* The io_service's thread: one handler at a time, first come first served.*)

TimerExpires ==
    /\ armed
    /\ armed' = FALSE
    /\ ready' = Append(ready, "run_downloader")
    /\ UNCHANGED <<program, id, keep_running, main, job, io, waiting, pool, interrupted>>

Handle(h) == /\ io = "idle" /\ ready # <<>> /\ Head(ready) = h
             /\ ready' = Tail(ready)
             /\ UNCHANGED <<program, id, main, job, armed, waiting, pool, interrupted>>

\* Mutant: the signal handler waits for the next signal.
CtrlHandlerAgain ==
    /\ io = "idle" /\ ready # <<>> /\ Head(ready) = "ctrl_handler"
    /\ ready' = Tail(ready)
    /\ keep_running' = FALSE
    /\ waiting' = TRUE
    /\ UNCHANGED <<program, id, main, job, io, armed, pool, interrupted>>

CtrlHandler == Handle("ctrl_handler") /\ keep_running' = FALSE /\ UNCHANGED io

\* Mutant: run_downloader does not look at keep_running.
RunDownloaderAnyway ==
    Handle("run_downloader") /\ io' = "downloading" /\ UNCHANGED keep_running

\* run_downloader ignores its error code: a cancelled wait runs it as well.
RunDownloader == /\ Handle("run_downloader")
                 /\ keep_running => id
                 /\ io' = IF keep_running THEN "downloading" ELSE "idle"
                 /\ UNCHANGED keep_running

\* Without an ogs_id download_missing_games ends the process with all its
\* threads.
RunWithoutId ==
    /\ io = "idle" /\ ready # <<>> /\ Head(ready) = "run_downloader"
    /\ keep_running /\ ~id
    /\ main' = "exited"
    /\ io' = "returned" /\ ready' = <<>> /\ armed' = FALSE /\ waiting' = FALSE
    /\ pool' = "stopped"
    /\ UNCHANGED <<program, id, keep_running, job, interrupted>>

Rearm ==
    /\ io = "downloading"
    /\ io' = "idle"
    /\ armed' = TRUE
    /\ UNCHANGED <<program, id, keep_running, main, job, ready, waiting, pool, interrupted>>

IoReturns ==
    /\ io = "idle" /\ ready = <<>> /\ ~armed /\ ~waiting
    /\ io' = "returned"
    /\ UNCHANGED <<program, id, keep_running, main, job, ready, armed, waiting, pool,
                   interrupted>>

-----------------------------------------------------------------------------
(* The server.                                                             *)

PoolStarts ==
    /\ pool = "starting"
    /\ pool' = "running"
    /\ UNCHANGED <<program, id, keep_running, main, job, ioVars, interrupted>>

PoolStops ==
    /\ pool = "stopping"
    /\ pool' = "stopped"
    /\ UNCHANGED <<program, id, keep_running, main, job, ioVars, interrupted>>

Answers == pool \in {"running", "stopping"}

-----------------------------------------------------------------------------
(* The main thread.                                                        *)

Main(from, to) ==
    /\ main = from
    /\ main' = to
    /\ UNCHANGED <<program, id, keep_running, io, waiting, pool, interrupted>>

Continue == keep_running /\ Main("loop", "get") /\ UNCHANGED <<job, ready, armed>>

\* Mutant: client has the timer of autogrp, too.
LeaveByCancel == ~keep_running /\ Main("loop", "cancel") /\ UNCHANGED <<job, ready, armed>>

Leave ==
    /\ ~keep_running
    /\ Main("loop", IF program = "client" THEN "join_timer" ELSE "cancel")
    /\ UNCHANGED <<job, ready, armed>>

\* The server popped a job, and its answer is on the way.
GetJob == Answers /\ Main("get", "reply") /\ job' = "sent" /\ UNCHANGED <<ready, armed>>

GetNothing == Main("get", "sleep") /\ UNCHANGED <<job, ready, armed>>

Receive == Main("reply", "work") /\ job' = "held" /\ UNCHANGED <<ready, armed>>

\* io_context::stop abandons what the server has still to write.
ReplyAbandoned ==
    pool = "stopped" /\ Main("reply", "sleep") /\ job' = "dropped" /\ UNCHANGED <<ready, armed>>

WakeUp == Main("sleep", "loop") /\ UNCHANGED <<job, ready, armed>>

\* Mutant: a worker that was told to stop drops the job it has.
DoJobUnlessStopped ==
    \/ keep_running /\ Main("work", "submit") /\ UNCHANGED <<job, ready, armed>>
    \/ ~keep_running /\ Main("work", "loop") /\ job' = "lost" /\ UNCHANGED <<ready, armed>>

DoJob == Main("work", "submit") /\ UNCHANGED <<job, ready, armed>>

SubmitJob ==
    /\ Main("submit", "loop")
    /\ job' = IF Answers THEN "stored" ELSE "lost"
    /\ UNCHANGED <<ready, armed>>

JoinServer ==
    pool = "stopped" /\ Main("join_server", "cancel") /\ UNCHANGED <<job, ready, armed>>

\* Mutant: the timer's wait is not cancelled.
JoinWithoutCancel == Main("cancel", "join_timer") /\ UNCHANGED <<job, ready, armed>>

Cancel ==
    /\ Main("cancel", "join_timer")
    /\ armed' = FALSE
    /\ ready' = IF armed THEN Append(ready, "run_downloader") ELSE ready
    /\ UNCHANGED job

JoinTimer == io = "returned" /\ Main("join_timer", "exited") /\ UNCHANGED <<job, ready, armed>>

MainThread ==
    \/ Continue \/ Leave \/ GetJob \/ GetNothing \/ Receive \/ ReplyAbandoned
    \/ WakeUp \/ DoJob \/ SubmitJob \/ JoinServer \/ Cancel \/ JoinTimer

Exited == main = "exited" /\ UNCHANGED vars

IoThread == CtrlHandler \/ RunDownloader \/ RunWithoutId \/ Rearm \/ IoReturns

Next == \/ MainThread \/ IoThread \/ TimerExpires \/ PoolStarts \/ PoolStops
        \/ \E s \in Signals : Signal(s)
        \/ Exited

\* Threads run and time passes: analyses and downloads end, the hour ends.
Spec == Init /\ [][Next]_vars
FairSpec == Spec /\ WF_vars(MainThread) /\ WF_vars(IoThread) /\ WF_vars(TimerExpires)
                 /\ WF_vars(PoolStarts) /\ WF_vars(PoolStops)

-----------------------------------------------------------------------------
TypeOK ==
    /\ program \in Programs /\ id \in BOOLEAN
    /\ keep_running \in BOOLEAN /\ interrupted \in BOOLEAN
    /\ main \in {"join_timer", "exited"}
         \cup (IF program = "server" THEN {"join_server"}
               ELSE {"loop", "get", "reply", "sleep", "work", "submit"})
         \cup (IF program = "client" THEN {} ELSE {"cancel"})
    /\ job \in {"none", "sent", "dropped", "held", "stored", "lost"}
    /\ io \in {"idle", "downloading", "returned"}
    /\ ready \in Seq({"ctrl_handler", "run_downloader"})
    /\ armed \in BOOLEAN /\ waiting \in BOOLEAN
    /\ pool \in {"starting", "running", "stopping", "stopped"}

\* Stopping a worker never costs it its current job (it is stored before main
\* goes on), except where SIGINT stops the server under the local worker.
StopKeepsJob == job \in {"dropped", "lost"} => program = "local" /\ interrupted

\* A worker that stops never joins the timer's thread with an hour of the
\* timer before it: the cancelled wait is the last one.
WorkerStopIsPrompt == program # "server" /\ main = "join_timer" => ~armed

\* Once the stop was handled no download is running and none starts, because
\* one thread runs both handlers.
NoDownloadAfterStop == ~keep_running => io # "downloading"

\* A worker that was told to stop exits.
WorkerStops == program # "server" /\ ~waiting ~> main = "exited"

\* A server that saw SIGINT exits, if only when the timer expires again.
ServerStops == program = "server" /\ pool = "stopping" ~> main = "exited"

\* "Stopping. Please wait up to one second or until the current job is
\* finished.": who sends SIGINT or SIGTERM sees the program exit.
Stops == ~waiting ~> main = "exited"

\* ... and the result of the current job is stored.
CurrentJobFinishes == job # "lost"

\* ... and nobody waits for the hourly timer.
StopIsPrompt == main = "join_timer" => ~armed
=============================================================================
