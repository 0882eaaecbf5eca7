------------------------------ MODULE AutoGrp ------------------------------
(***************************************************************************)
(* The pipeline of the autogrp executable and its workers: the timer       *)
(* thread downloads finished games from online-go.com and queues one job   *)
(* per game and bot, the server hands jobs to workers over HTTP, workers   *)
(* analyse them and post the results back.  The sgf and rsgf files survive *)
(* the processes; the queue, the downloader's list of new files and what   *)
(* is in flight do not.  The queue is the FIFO that WorkQueue implements.  *)
(*                                                                         *)
(* Faults names the faults that may happen in an instance and MaxFaults    *)
(* bounds how many do.                                                     *)
(***************************************************************************)
EXTENDS Naturals, Sequences, FiniteSets, Functions

CONSTANTS
    Pages,      \* the pages of the player's game list, each a sequence of games
    Bots,       \* the enumeration BOT
    BotList,    \* run_downloader's bots_to_use: what Config makes of config.ini
    Workers,    \* the worker processes
    Local,      \* those that run in the server's own process (main.cpp:63-76)
    Paths,      \* per worker: the bots whose analysis script is configured
    Ids,        \* what a server may find when it reads config.ini: is ogs_id set?
    Faults, MaxFaults,
    MaxDeletes  \* bound on the sgf files the user deletes

FaultKinds == {"crash", "worker_crash", "page", "sgf", "reply", "body", "post", "answer",
               "analysis"}

Games == UNION {Range(Pages[i]) : i \in DOMAIN Pages}
Jobs == [game : Games, bot : Bots]

ASSUME PipelineAssumption ==
    /\ Pages \in Seq(Seq(Games))
    /\ \A i \in DOMAIN Pages : IsInjective(Pages[i])
    /\ BotList \in Seq(Bots)
    /\ Local \subseteq Workers
    /\ Paths \in [Workers -> SUBSET Bots]
    /\ Ids \in SUBSET BOOLEAN \ {{}}
    /\ Faults \subseteq FaultKinds
    /\ MaxFaults \in Nat /\ MaxDeletes \in Nat

\* The pages list the oldest games first (start_page), so that a game keeps its
\* page while others are added.
ASSUME ListAssumption ==
    \A i, k \in DOMAIN Pages : Range(Pages[i]) \cap Range(Pages[k]) # {} => i = k

VARIABLES
    ended,      \* the games that online-go.com lists as finished
    sgf,        \* per game, the file in games_dir: "none", "good" or "bad"
    rsgf,       \* per job, the result in games_dir: "none", "partial" or "whole"
    up,         \* is the server process running?
    id,         \* has its config an ogs_id?
    queue,      \* work_queue
    dl,         \* the downloader's state while it runs
    wpc,        \* where each worker is in its loop
    wjob,       \* its JobInfo
    body,       \* the sgf it received: "good" or "bad"
    temp,       \* the jobs whose rsgf lies in its temp_sgf_path
    lost,       \* history: the jobs a fault took from the server or a worker
    faults,     \* history: the faults so far
    deletes,    \* history: per game, how often the user deleted its sgf
    served      \* history: per job, how often it was handed out

server == <<queue, dl>>
worker == <<wpc, wjob, body, temp>>
history == <<lost, faults, deletes, served>>
vars == <<ended, sgf, rsgf, up, id, server, worker, history>>

NoJob == [game |-> "none", bot |-> "none"]
\* Mutant: start_page is taken to count from 0.
WaitingBefore ==
    [pc |-> "waiting", known |-> {}, page |-> 0 - 1, todo |-> {}, open |-> {}, new |-> <<>>]

Waiting ==
    [pc |-> "waiting", known |-> {}, page |-> 0, todo |-> {}, open |-> {}, new |-> <<>>]

JobsOf(g) == [game : {g}, bot : Range(BotList)]

\* Mutant: the loop over the games stops one short.
JobsForAllButLast(games) ==
    LET n == Len(BotList)
    IN  [k \in 1 .. (Len(games) - 1) * n |->
            [game |-> games[((k - 1) \div n) + 1], bot |-> BotList[((k - 1) % n) + 1]]]

\* The nested loops of run_downloader: games x bots, a game's bots together.
JobsFor(games) ==
    LET n == Len(BotList)
    IN  [k \in 1 .. Len(games) * n |->
            [game |-> games[((k - 1) \div n) + 1], bot |-> BotList[((k - 1) % n) + 1]]]

Init == /\ ended = {}
        /\ sgf = [g \in Games |-> "none"]
        /\ rsgf = [j \in Jobs |-> "none"]
        /\ up = TRUE
        /\ id \in Ids
        /\ queue = <<>>
        /\ dl = Waiting
        /\ wpc = [w \in Workers |-> "idle"]
        /\ wjob = [w \in Workers |-> NoJob]
        /\ body = [w \in Workers |-> "good"]
        /\ temp = [w \in Workers |-> {}]
        /\ lost = {} /\ faults = 0
        /\ deletes = [g \in Games |-> 0]
        /\ served = [j \in Jobs |-> 0]

-----------------------------------------------------------------------------
(* Faults and the end of processes.                                        *)

\* A fault of one of the kinds K happens in this step.
Fault(K) == /\ K \cap Faults # {} /\ faults < MaxFaults
            /\ faults' = faults + 1

\* Of the jobs S that nobody works on any more, those without a result.
Lose(S) == lost' = lost \cup {j \in S : rsgf[j] # "whole"}

\* The jobs a worker holds: asked for, and neither stored nor given up.
Holding(w) == IF wpc[w] \in {"reply", "work", "result", "saving", "resend"}
              THEN {wjob[w]} ELSE {}

\* The handler runs on one pool thread, so one result is stored at a time.
Saving == \E w \in Workers : wpc[w] = "saving"

\* The server's process is gone, with the queue, the downloader's new files and
\* the one it was writing, its local workers and the requests it was answering.
\* A result it was storing is lost, unless curl sends it again.
ServerStops ==
    \E again \in SUBSET {w \in Workers \ Local : wpc[w] = "saving"} :
    LET hit == {w \in Workers : w \in Local \/ wpc[w] \in {"reply", "saving"}} \ again IN
    /\ up' = FALSE
    /\ queue' = <<>>
    /\ dl' = Waiting
    /\ wpc' = [w \in Workers |-> IF w \in Local THEN "dead"
                                 ELSE IF w \in hit THEN "idle"
                                 ELSE IF w \in again THEN "resend" ELSE wpc[w]]
    /\ Lose(Range(queue) \cup (UNION {JobsOf(g) : g \in dl.open \cup Range(dl.new)})
              \cup (UNION {Holding(w) : w \in hit}))
    /\ UNCHANGED <<ended, sgf, rsgf, id, wjob, body, temp, deletes, served>>

Crash == up /\ Fault({"crash"}) /\ ServerStops

\* The new process reads config.ini, which the user may have changed.
Restart ==
    /\ ~up
    /\ up' = TRUE
    /\ id' \in Ids
    /\ wpc' = [w \in Workers |-> IF w \in Local THEN "idle" ELSE wpc[w]]
    /\ UNCHANGED <<ended, sgf, rsgf, server, wjob, body, temp, history>>

\* A remote worker's process is gone; its temporary files stay.
WorkerStops(w) ==
    /\ wpc' = [wpc EXCEPT ![w] = "dead"]
    /\ Lose(Holding(w))
    /\ UNCHANGED <<ended, sgf, rsgf, up, id, server, wjob, body, temp, deletes, served>>

\* An exception that nobody catches ends w's process.
Dies(w) == IF w \in Local THEN ServerStops ELSE WorkerStops(w)

\* Not while the server stores its result: the server has the whole request.
WorkerCrash(w) ==
    /\ w \notin Local /\ wpc[w] \notin {"dead", "saving"}
    /\ Fault({"worker_crash"})
    /\ WorkerStops(w)

WorkerRestart(w) ==
    /\ w \notin Local /\ wpc[w] = "dead"
    /\ wpc' = [wpc EXCEPT ![w] = "idle"]
    /\ UNCHANGED <<ended, sgf, rsgf, up, id, server, wjob, body, temp, history>>

-----------------------------------------------------------------------------
(* online-go.com and the user.                                             *)

GameEnds(g) ==
    /\ g \notin ended
    /\ ended' = ended \cup {g}
    /\ UNCHANGED <<sgf, rsgf, up, id, server, worker, history>>

\* README.md:26: delete the sgf to have the game analysed again.
UserDeletes(g) ==
    /\ sgf[g] # "none" /\ deletes[g] < MaxDeletes
    /\ sgf' = [sgf EXCEPT ![g] = "none"]
    /\ deletes' = [deletes EXCEPT ![g] = @ + 1]
    /\ UNCHANGED <<ended, rsgf, up, id, server, worker, lost, faults, served>>

-----------------------------------------------------------------------------
(* The timer thread: run_downloader and download_missing_games.            *)

\* Mutant: the files that are already there are not looked at.
StartRunBlind ==
    /\ up /\ id /\ dl.pc = "waiting"
    /\ dl' = [Waiting EXCEPT !.pc = "pages"]
    /\ UNCHANGED <<ended, sgf, rsgf, up, id, queue, worker, history>>

StartRun ==
    /\ up /\ id /\ dl.pc = "waiting"
    /\ dl' = [Waiting EXCEPT !.pc = "pages", !.known = {g \in Games : sgf[g] # "none"}]
    /\ UNCHANGED <<ended, sgf, rsgf, up, id, queue, worker, history>>

\* Without an ogs_id the timer's thread ends the process at its first run.
RunWithoutId ==
    /\ up /\ ~id /\ dl.pc = "waiting"
    /\ ServerStops
    /\ UNCHANGED faults

\* Mutant: a page without new games ends the run.
FetchPageUntilOld ==
    /\ up /\ dl.pc = "pages" /\ dl.todo = {} /\ dl.page < Len(Pages)
    /\ LET fresh == (Range(Pages[dl.page + 1]) \cap ended) \ dl.known
       IN  dl' = [dl EXCEPT !.page = IF fresh = {} THEN Len(Pages) ELSE @ + 1,
                            !.todo = fresh]
    /\ UNCHANGED <<ended, sgf, rsgf, up, id, queue, worker, history>>

FetchPage ==
    /\ up /\ dl.pc = "pages" /\ dl.todo = {} /\ dl.page < Len(Pages)
    /\ dl' = [dl EXCEPT !.page = @ + 1,
                        !.todo = (Range(Pages[dl.page + 1]) \cap ended) \ dl.known]
    /\ UNCHANGED <<ended, sgf, rsgf, up, id, queue, worker, history>>

\* A page that did not arrive has no member "next": the assertion aborts.
PageFails ==
    /\ up /\ dl.pc = "pages" /\ dl.todo = {} /\ dl.page < Len(Pages)
    /\ Fault({"page"})
    /\ ServerStops

\* The request for game number i of the page, the first one left, is over, and
\* its file is opened: there is an sgf from now on.
OpenSgf(i) ==
    LET g == Pages[dl.page][i] IN
    /\ up /\ dl.open = {} /\ g \in dl.todo
    /\ \A k \in 1 .. i - 1 : Pages[dl.page][k] \notin dl.todo
    /\ sgf' = [sgf EXCEPT ![g] = "bad"]
    /\ dl' = [dl EXCEPT !.open = {g}]
    /\ UNCHANGED <<ended, rsgf, up, id, queue, worker, history>>

\* Whatever the request returned is written.  The user may have deleted the
\* file in between.
Store(g, content) ==
    /\ up /\ g \in dl.open
    /\ sgf' = [sgf EXCEPT ![g] = IF @ = "none" THEN "none" ELSE content]
    /\ dl' = [dl EXCEPT !.todo = @ \ {g}, !.open = {}, !.new = Append(@, g)]
    /\ UNCHANGED <<ended, rsgf, up, id, queue, worker, lost, deletes, served>>

Download(g) == Store(g, "good") /\ UNCHANGED faults

DownloadFails(g) == Store(g, "bad") /\ Fault({"sgf"})

\* Mutant: the new jobs replace the queue.
QueueJobsOnly ==
    /\ up /\ dl.pc = "pages" /\ dl.todo = {} /\ dl.page = Len(Pages)
    /\ queue' = JobsFor(dl.new)
    /\ dl' = Waiting
    /\ UNCHANGED <<ended, sgf, rsgf, up, id, worker, history>>

QueueJobs ==
    /\ up /\ dl.pc = "pages" /\ dl.todo = {} /\ dl.page = Len(Pages)
    /\ queue' = queue \o JobsFor(dl.new)
    /\ dl' = Waiting
    /\ UNCHANGED <<ended, sgf, rsgf, up, id, worker, history>>

-----------------------------------------------------------------------------
(* GET /job: the server pops before it opens the file, and sendfile throws *)
(* when there is none.                                                     *)

\* Mutant: the job stays in the queue until its result arrives.
ServeAndKeep(w) ==
    /\ up /\ ~Saving /\ wpc[w] = "idle" /\ queue # <<>>
    /\ sgf[Head(queue).game] # "none"
    /\ wpc' = [wpc EXCEPT ![w] = "reply"]
    /\ wjob' = [wjob EXCEPT ![w] = Head(queue)]
    /\ body' = [body EXCEPT ![w] = sgf[Head(queue).game]]
    /\ served' = [served EXCEPT ![Head(queue)] = @ + 1]
    /\ UNCHANGED <<ended, sgf, rsgf, up, id, server, temp, lost, faults, deletes>>

Serve(w) ==
    /\ up /\ ~Saving /\ wpc[w] = "idle" /\ queue # <<>>
    /\ sgf[Head(queue).game] # "none"
    /\ queue' = Tail(queue)
    /\ wpc' = [wpc EXCEPT ![w] = "reply"]
    /\ wjob' = [wjob EXCEPT ![w] = Head(queue)]
    /\ body' = [body EXCEPT ![w] = sgf[Head(queue).game]]
    /\ served' = [served EXCEPT ![Head(queue)] = @ + 1]
    /\ UNCHANGED <<ended, sgf, rsgf, up, id, dl, temp, lost, faults, deletes>>

ServeMissing(w) ==
    /\ up /\ ~Saving /\ wpc[w] = "idle" /\ queue # <<>>
    /\ sgf[Head(queue).game] = "none"
    /\ queue' = Tail(queue)
    /\ Lose({Head(queue)})
    /\ UNCHANGED <<ended, sgf, rsgf, up, id, dl, worker, faults, deletes, served>>

Receive(w) ==
    /\ wpc[w] = "reply"
    /\ wpc' = [wpc EXCEPT ![w] = "work"]
    /\ UNCHANGED <<ended, sgf, rsgf, up, id, server, wjob, body, temp, history>>

\* The connection breaks before the headers: no job for the client.
ReplyLost(w) ==
    /\ wpc[w] = "reply" /\ Fault({"reply"})
    /\ wpc' = [wpc EXCEPT ![w] = "idle"]
    /\ Lose(Holding(w))
    /\ UNCHANGED <<ended, sgf, rsgf, up, id, server, wjob, body, temp, deletes, served>>

\* It breaks in the body: curl's result is ignored and the rest is kept.
ReplyTruncated(w) ==
    /\ wpc[w] = "reply" /\ Fault({"body"})
    /\ wpc' = [wpc EXCEPT ![w] = "work"]
    /\ body' = [body EXCEPT ![w] = "bad"]
    /\ UNCHANGED <<ended, sgf, rsgf, up, id, server, wjob, temp, lost, deletes, served>>

-----------------------------------------------------------------------------
(* do_job: the analysis script leaves an rsgf beside the sgf, if it is     *)
(* configured and can read the sgf.                                        *)

Analyse(w) ==
    /\ wpc[w] = "work"
    /\ temp' = IF body[w] = "good" /\ wjob[w].bot \in Paths[w]
               THEN [temp EXCEPT ![w] = @ \cup {wjob[w]}] ELSE temp
    /\ wpc' = [wpc EXCEPT ![w] = "result"]
    /\ UNCHANGED <<ended, sgf, rsgf, up, id, server, wjob, body, history>>

AnalysisFails(w) ==
    /\ wpc[w] = "work" /\ Fault({"analysis"})
    /\ wpc' = [wpc EXCEPT ![w] = "result"]
    /\ UNCHANGED <<ended, sgf, rsgf, up, id, server, wjob, body, temp, lost, deletes, served>>

\* The child process cannot be started.
AnalysisThrows(w) == wpc[w] = "work" /\ Fault({"analysis"}) /\ Dies(w)

-----------------------------------------------------------------------------
(* submit_job and POST /submit_job.                                        *)

\* load_file_into_string reserves tellg() = -1 bytes for a file that is not
\* there and throws; nobody catches it.
SubmitNothing(w) ==
    /\ wpc[w] = "result" /\ wjob[w] \notin temp[w]
    /\ Dies(w)
    /\ UNCHANGED faults

\* The client posts the result, for the first time or again.
Posting(w) == wpc[w] = "resend" \/ (wpc[w] = "result" /\ wjob[w] \in temp[w])

\* The handler opens, and so truncates, the result file.
Submit(w) ==
    /\ Posting(w) /\ up /\ ~Saving
    /\ wpc' = [wpc EXCEPT ![w] = "saving"]
    /\ rsgf' = [rsgf EXCEPT ![wjob[w]] = "partial"]
    /\ UNCHANGED <<ended, sgf, up, id, server, wjob, body, temp, history>>

Saved(w) ==
    /\ wpc[w] = "saving"
    /\ wpc' = [wpc EXCEPT ![w] = "idle"]
    /\ rsgf' = [rsgf EXCEPT ![wjob[w]] = "whole"]
    /\ UNCHANGED <<ended, sgf, up, id, server, wjob, body, temp, history>>

\* The result is stored, but no byte of the answer arrives: on a connection
\* that served GET /job before, curl posts it again.
AnswerLost(w) ==
    /\ wpc[w] = "saving" /\ w \notin Local /\ Fault({"answer"})
    /\ wpc' = [wpc EXCEPT ![w] = "resend"]
    /\ rsgf' = [rsgf EXCEPT ![wjob[w]] = "whole"]
    /\ UNCHANGED <<ended, sgf, up, id, server, wjob, body, temp, lost, deletes, served>>

\* The server does not answer, and the client ignores that it did not.
GiveUp(w) ==
    /\ Posting(w)
    /\ wpc' = [wpc EXCEPT ![w] = "idle"]
    /\ Lose(Holding(w))
    /\ UNCHANGED <<ended, sgf, rsgf, up, id, server, wjob, body, temp, deletes, served>>

SubmitRefused(w) == ~up /\ GiveUp(w) /\ UNCHANGED faults

SubmitLost(w) == up /\ GiveUp(w) /\ Fault({"post"})

-----------------------------------------------------------------------------
Downloader ==
    \/ StartRun \/ RunWithoutId \/ FetchPage \/ QueueJobs
    \/ dl.todo # {} /\ \E i \in DOMAIN Pages[dl.page] : OpenSgf(i)
    \/ \E g \in Games : Download(g)

WorkerLoop(w) ==
    \/ Serve(w) \/ ServeMissing(w) \/ Receive(w) \/ Analyse(w)
    \/ SubmitNothing(w) \/ Submit(w) \/ Saved(w) \/ SubmitRefused(w)

FaultyStep ==
    \/ Crash \/ PageFails
    \/ \E g \in Games : DownloadFails(g)
    \/ \E w \in Workers : \/ WorkerCrash(w) \/ ReplyLost(w) \/ ReplyTruncated(w)
                          \/ AnalysisFails(w) \/ AnalysisThrows(w)
                          \/ SubmitLost(w) \/ AnswerLost(w)

Next ==
    \/ Downloader \/ Restart \/ FaultyStep
    \/ \E w \in Workers : WorkerLoop(w) \/ WorkerRestart(w)
    \/ \E g \in Games : GameEnds(g) \/ UserDeletes(g)

Spec == Init /\ [][Next]_vars

\* The timer fires every hour, the pool thread answers and every worker runs
\* its loop; processes that stopped are started again.  Nothing obliges games
\* to end, users to delete files or faults to happen.
FairSpec ==
    /\ Spec
    /\ WF_vars(Downloader) /\ WF_vars(Restart)
    /\ \A w \in Workers : WF_vars(WorkerLoop(w)) /\ WF_vars(WorkerRestart(w))

-----------------------------------------------------------------------------
Downloads == [pc : {"waiting", "pages"}, known : SUBSET Games, page : 0 .. Len(Pages),
              todo : SUBSET Games, open : SUBSET Games, new : Seq(Games)]

TypeOK ==
    /\ ended \in SUBSET Games
    /\ sgf \in [Games -> {"none", "good", "bad"}]
    /\ rsgf \in [Jobs -> {"none", "partial", "whole"}]
    /\ up \in BOOLEAN /\ id \in Ids
    /\ queue \in Seq(Jobs)
    /\ dl \in Downloads
    /\ wpc \in [Workers -> {"idle", "reply", "work", "result", "saving", "resend", "dead"}]
    /\ wjob \in [Workers -> Jobs \cup {NoJob}]
    /\ body \in [Workers -> {"good", "bad"}]
    /\ temp \in [Workers -> SUBSET Jobs]
    /\ lost \in SUBSET Jobs /\ faults \in 0 .. MaxFaults
    /\ deletes \in [Games -> 0 .. MaxDeletes] /\ served \in [Jobs -> Nat]

AllJobs == UNION {JobsOf(g) : g \in Games}

\* Every job of a game whose sgf is on disk, and which the next download run
\* will therefore skip, is somewhere: about to be queued (from the moment its
\* file is opened), queued, at a worker,
\* stored whole, or taken by a fault.  No step of the pipeline itself drops one.
Accounted ==
    \A j \in AllJobs : sgf[j.game] # "none" =>
        \/ j.game \in dl.open \cup Range(dl.new)
        \/ j \in Range(queue)
        \/ \E w \in Workers : j \in Holding(w)
        \/ rsgf[j] = "whole"
        \/ j \in lost

\* How often config.ini names a bot, a repetition right after it not counted.
Named(b) == Cardinality({i \in DOMAIN BotList :
                           BotList[i] = b /\ (i = 1 \/ BotList[i - 1] # b)})

\* From the first run of the downloader on, a job is handed to a worker at most
\* once for each time its bot is named and its game's sgf was missing, which it
\* is at first and after each deletion: however runs, crashes, restarts and lost
\* replies and results follow each other, none of them repeats work.
AtMostOnce == \A j \in AllJobs : served[j] <= Named(j.bot) * (1 + deletes[j.game])

\* A stored result stays: the file is truncated again only for a game whose
\* sgf the user deleted, or by the worker that stored it and got no answer,
\* whatever else is lost, retried or restarted.
KeepResults ==
    [][\A j \in AllJobs :
          rsgf[j] = "whole" /\ deletes[j.game] = 0 =>
              \/ rsgf'[j] = "whole"
              \/ \E w \in Workers : wpc[w] = "resend" /\ wjob[w] = j]_vars

\* Until a fault happens or the user deletes an sgf, no process ends: no sgf is
\* served before it is written, and submit_job finds the file that do_job left.
\* do_job means to keep this where a bot's path is missing, too: it reports the
\* bot and returns.  It holds where config.ini has an ogs_id and every worker a
\* path for every bot.
NoFaultNoDeath ==
    faults = 0 /\ (\A g \in Games : deletes[g] = 0) => up /\ \A w \in Workers : wpc[w] # "dead"

StatusOf(j) ==
    IF j \in lost THEN "lost"
    ELSE IF \E w \in Workers : j \in Holding(w) THEN "running"
    ELSE IF rsgf[j] = "whole" THEN "done"
    ELSE IF \/ j \in Range(queue)
            \/ j.game \in dl.open \cup Range(dl.new) /\ j.bot \in Range(BotList)
         THEN "pending"
    ELSE "new"

Lifecycle == INSTANCE JobLifecycle WITH status <- [j \in Jobs |-> StatusOf(j)]

\* Through every interleaving of downloads, workers and faults a job lives the
\* life of JobLifecycle: created once with its game, taken by one worker, then
\* done or lost and never back.
ImplementsLifecycle == Lifecycle!Spec

\* Every bot on the list analyses every game that ends.
Analysed == \A j \in AllJobs : (j.game \in ended) ~> (rsgf[j] = "whole")

\* Nothing but a fault keeps a finished game from being analysed.
AnalysedUnlessFault ==
    \A j \in AllJobs : (j.game \in ended) ~> (rsgf[j] = "whole" \/ faults > 0)

\* Even with faults, no job of a finished game is stuck: it gets its result or
\* the fault that took it is over.  A dead worker or a restarted server holds
\* up nobody else's job.
Settled == \A j \in AllJobs : (j.game \in ended) ~> (rsgf[j] = "whole" \/ j \in lost)
=============================================================================
