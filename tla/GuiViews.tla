------------------------------ MODULE GuiViews ------------------------------
(***************************************************************************)
(* autogrp_gui (src/gui): what the main window shows while the server's    *)
(* pool thread serves jobs and a worker thread downloads games.  Signals   *)
(* that cross threads are events in the GUI thread's queue, one for every  *)
(* connected slot; the table's clicks and the events are handled by the    *)
(* GUI thread, one at a time, until the window is closed.                  *)
(*                                                                         *)
(* A path is a sequence: a file's name, dots, and the suffixes character   *)
(* by character.                                                           *)
(***************************************************************************)
EXTENDS Naturals, Sequences, SequencesExt, FiniteSetsExt, Lists

CONSTANTS
    Files,      \* the files whose name holds ".sgf", by what comes before it
    Bots,
    OldFiles,   \* those that are on disk when the window opens
    Backups,    \* those whose name goes on after ".sgf", as an editor's "1.sgf~"
    MaxClicks   \* bound on the jobs the user asks for

Jobs == [file : Files, bot : Bots]

ASSUME GuiAssumption == /\ OldFiles \subseteq Files /\ IsFiniteSet(OldFiles)
                        /\ Backups \subseteq OldFiles
                        /\ IsFiniteSet(Bots) /\ MaxClicks \in Nat

VARIABLES
    queue,      \* work_queue
    pool,       \* the pool thread: "idle", "popped" a job, "storing" a result
    current,    \* its job
    out,        \* per job, how many workers have it, from an earlier window too
    results,    \* the paths of the rsgf files in games_dir
    events,     \* the GUI thread's events
    gui,        \* the GUI thread: "idle", "added" a job, "released" the
                \* downloader's button, or in main_window's destructor
                \* ("closing"); the process has ended ("closed")
    queueView,  \* the files QueueView shows
    progress,   \* ProgressView's jobs_in_progress
    button,     \* is the downloader's button enabled?
    requests,   \* calls of run_downloader waiting for or running in worker_thread
    running,    \* is one of them running?
    missing,    \* the games it is going to download
    disk,       \* the Files in games_dir
    table,      \* those SgfTableModel shows
    id,         \* does config.ini have an ogs_id?  It is read once
    clicks,     \* the analyses asked for so far, in an earlier window too
    dropped     \* history: was a job popped without a signal since queueView's
                \* last update?

serverVars == <<pool, current, out, results>>
viewVars == <<queueView, progress>>
downloadVars == <<button, requests, running, missing, disk, table>>
vars == <<queue, serverVars, events, gui, viewVars, downloadVars, id, clicks, dropped>>

NoJob == [file |-> "none", bot |-> "none"]
Event(signal, path, bot) == [signal |-> signal, path |-> path, bot |-> bot]
Notice(signal) == Event(signal, <<>>, "none")

SgfPath(file) ==
    <<file, ".", "s", "g", "f">> \o (IF file \in Backups THEN <<"~">> ELSE <<>>)

\* The path without its last four characters, which are taken for ".sgf".
WithoutSuffix(path) == SubSeq(path, 1, Len(path) - 4)

\* Where the server stores a result: it tells the worker, who sends it back.
SaveLocation(j) == WithoutSuffix(SgfPath(j.file)) \o <<"_", j.bot, ".", "r", "s", "g", "f">>

\* Where the table looks for it: around the last dot.
AnalyzedPath(j) ==
    LET path == SgfPath(j.file)
        dot == Max({i \in DOMAIN path : path[i] = "."})
    IN  SubSeq(path, 1, dot - 1) \o <<"_", j.bot, ".", "r">> \o SubSeq(path, dot + 1, Len(path))

QueueFiles == [i \in DOMAIN queue |-> queue[i].file]

Init == /\ queue = <<>>
        /\ pool = "idle" /\ current = NoJob
        /\ out \in [Jobs -> 0 .. 1] /\ results = {}
        /\ \A j \in Jobs : j.file \notin OldFiles => out[j] = 0
        /\ events = <<>> /\ gui = "idle"
        /\ queueView = <<>> /\ progress = <<>>
        /\ button = TRUE /\ requests = 0 /\ running = FALSE /\ missing = {}
        /\ disk = OldFiles /\ table = OldFiles
        /\ id \in BOOLEAN
        /\ clicks = Cardinality({j \in Jobs : out[j] = 1}) /\ clicks <= MaxClicks
        /\ dropped = FALSE

-----------------------------------------------------------------------------
(* The user, on the GUI thread.                                            *)

\* AnalyzeSgfDelegate::editorEvent asks for an analysis where there is no
\* rsgf yet, and QueueView::submit_job queues it.
Click(j) ==
    /\ gui = "idle" /\ clicks < MaxClicks
    /\ j.file \in table /\ AnalyzedPath(j) \notin results
    /\ queue' = Append(queue, j)
    /\ gui' = "added"
    /\ clicks' = clicks + 1
    /\ UNCHANGED <<serverVars, events, viewVars, downloadVars, id, dropped>>

\* The rest of submit_job: job_requested calls update_queue_view directly.
JobRequested ==
    /\ gui = "added"
    /\ queueView' = QueueFiles
    /\ dropped' = FALSE
    /\ gui' = "idle"
    /\ UNCHANGED <<queue, serverVars, events, progress, downloadVars, id, clicks>>

\* Mutant: the button stays enabled.
ClickDownloadAgain ==
    /\ gui = "idle" /\ button
    /\ requests < 2
    /\ gui' = "released"
    /\ UNCHANGED <<queue, serverVars, events, viewVars, downloadVars, id, clicks, dropped>>

\* The button's first slot, connected in setupUi, disables it.
ClickDownload ==
    /\ gui = "idle" /\ button
    /\ button' = FALSE
    /\ gui' = "released"
    /\ UNCHANGED <<queue, serverVars, events, viewVars, requests, running, missing, disk, table,
                   id, clicks, dropped>>

\* The second, the downloader's, is an event for worker_thread.
RequestDownload ==
    /\ gui = "released"
    /\ requests' = requests + 1
    /\ gui' = "idle"
    /\ UNCHANGED <<queue, serverVars, events, viewVars, button, running, missing, disk, table,
                   id, clicks, dropped>>

\* Nothing watches the directory.
DeleteSgf(f) ==
    /\ f \in disk
    /\ disk' = disk \ {f}
    /\ UNCHANGED <<queue, serverVars, events, gui, viewVars, button, requests, running, missing,
                   table, id, clicks, dropped>>

\* qapp.exec() has returned: main_window's destructor waits for worker_thread.
CloseWindow ==
    /\ gui = "idle"
    /\ gui' = "closing"
    /\ UNCHANGED <<queue, serverVars, events, viewVars, downloadVars, id, clicks, dropped>>

-----------------------------------------------------------------------------
(* The pool thread: the request handler with WorkServerWrapper's hooks.  It *)
(* goes on while the window closes.                                        *)

\* 204: there is no job.
ServeNothing == pool = "idle" /\ queue = <<>> /\ UNCHANGED vars

Pop ==
    /\ pool = "idle" /\ queue # <<>>
    /\ current' = Head(queue)
    /\ queue' = Tail(queue)
    /\ pool' = "popped"
    /\ UNCHANGED <<out, results, events, gui, viewVars, downloadVars, id, clicks, dropped>>

\* Mutant: the queue's view is not connected to job_served.
JobServedQuietly ==
    /\ pool = "popped" /\ current.file \in disk
    /\ pool' = "idle"
    /\ out' = [out EXCEPT ![current] = @ + 1]
    /\ events' = Append(events, Event("job_served", SgfPath(current.file), current.bot))
    /\ UNCHANGED <<queue, current, results, gui, viewVars, downloadVars, id, clicks, dropped>>

\* The handler opens the sgf, then calls the hook.
JobServed ==
    /\ pool = "popped" /\ current.file \in disk
    /\ pool' = "idle"
    /\ out' = [out EXCEPT ![current] = @ + 1]
    /\ events' = events \o <<Notice("update_queue_view"),
                             Event("job_served", SgfPath(current.file), current.bot)>>
    /\ UNCHANGED <<queue, current, results, gui, viewVars, downloadVars, id, clicks, dropped>>

\* There is none: sendfile throws, and the hook is not called.
ServeMissing ==
    /\ pool = "popped" /\ current.file \notin disk
    /\ pool' = "idle"
    /\ dropped' = TRUE
    /\ UNCHANGED <<queue, current, out, results, events, gui, viewVars, downloadVars, id, clicks>>

\* Mutant: a result is taken from a worker that was never given the job.
JobSubmittedUnasked(j) ==
    /\ pool = "idle"
    /\ pool' = "storing"
    /\ current' = j
    /\ out' = [out EXCEPT ![j] = @ - 1]
    /\ events' = Append(events, Event("job_submitted", SaveLocation(j), j.bot))
    /\ UNCHANGED <<queue, results, gui, viewVars, downloadVars, id, clicks, dropped>>

\* The hook is called with the path of the result, before it is written.
JobSubmitted(j) ==
    /\ pool = "idle" /\ out[j] > 0
    /\ pool' = "storing"
    /\ current' = j
    /\ out' = [out EXCEPT ![j] = @ - 1]
    /\ events' = Append(events, Event("job_submitted", SaveLocation(j), j.bot))
    /\ UNCHANGED <<queue, results, gui, viewVars, downloadVars, id, clicks, dropped>>

ResultStored ==
    /\ pool = "storing"
    /\ pool' = "idle"
    /\ results' = results \cup {SaveLocation(current)}
    /\ UNCHANGED <<queue, current, out, events, gui, viewVars, downloadVars, id, clicks, dropped>>

-----------------------------------------------------------------------------
(* worker_thread: Downloader::run_downloader.                              *)

\* The directory is listed, then the pages say which games have ended.
StartDownload ==
    /\ requests > 0 /\ ~running /\ id
    /\ running' = TRUE
    /\ missing' \in SUBSET (Files \ (disk \cup Backups))
    /\ UNCHANGED <<queue, serverVars, events, gui, viewVars, button, requests, disk, table,
                   id, clicks, dropped>>

\* Without an ogs_id the process ends.
RunWithoutId ==
    /\ requests > 0 /\ ~running /\ ~id
    /\ gui' = "closed"
    /\ UNCHANGED <<queue, serverVars, events, viewVars, downloadVars, id, clicks, dropped>>

DownloadGame(f) ==
    /\ f \in missing
    /\ missing' = missing \ {f}
    /\ disk' = disk \cup {f}
    /\ UNCHANGED <<queue, serverVars, events, gui, viewVars, button, requests, running, table,
                   id, clicks, dropped>>

\* A page that did not arrive fails an assertion: the window's process is gone.
PageFails ==
    /\ running
    /\ gui' = "closed"
    /\ UNCHANGED <<queue, serverVars, events, viewVars, downloadVars, id, clicks, dropped>>

\* The download is over and the slots in told will hear of it.
Finish(told) ==
    /\ running /\ missing = {}
    /\ running' = FALSE
    /\ requests' = requests - 1
    /\ events' = events \o told
    /\ UNCHANGED <<queue, serverVars, gui, viewVars, button, missing, disk, table, id, clicks,
                   dropped>>

\* Mutant: the table is not connected to downloader_finished.
FinishDownloadQuietly == Finish(<<Notice("downloader_finished")>>)

\* Mutant: the window is not.
FinishDownloadForTable == Finish(<<Notice("update_table")>>)

\* Mutant: worker_thread waits for the slots to run.
FinishDownloadBlocking ==
    /\ gui = "idle"
    /\ Finish(<<Notice("downloader_finished"), Notice("update_table")>>)

FinishDownload == Finish(<<Notice("downloader_finished"), Notice("update_table")>>)

\* wait() returns when no download runs, and main with it; one that was asked
\* for and has not begun is dropped.
Closed ==
    /\ gui = "closing" /\ ~running
    /\ gui' = "closed"
    /\ UNCHANGED <<queue, serverVars, events, viewVars, downloadVars, id, clicks, dropped>>

-----------------------------------------------------------------------------
(* The GUI thread's slots.                                                 *)

Slot(signal) == /\ gui = "idle" /\ events # <<>>
                /\ Head(events).signal = signal
                /\ events' = Tail(events)
                /\ UNCHANGED <<queue, serverVars, gui, requests, running, missing, disk,
                               id, clicks>>

UpdateQueueView == /\ Slot("update_queue_view")
                   /\ queueView' = QueueFiles
                   /\ dropped' = FALSE
                   /\ UNCHANGED <<progress, button, table>>

AddInProgress ==
    /\ Slot("job_served")
    /\ progress' = Append(progress, [path |-> Head(events).path, bot |-> Head(events).bot])
    /\ UNCHANGED <<queueView, button, table, dropped>>

RemoveInProgress ==
    /\ Slot("job_submitted")
    /\ progress' = Keep(progress, Range(progress) \
                         {[path |-> Head(events).path, bot |-> Head(events).bot]})
    /\ UNCHANGED <<queueView, button, table, dropped>>

DownloaderFinished == /\ Slot("downloader_finished")
                      /\ button' = TRUE
                      /\ UNCHANGED <<queueView, progress, table, dropped>>

UpdateTable == /\ Slot("update_table")
               /\ table' = table \cup disk
               /\ UNCHANGED <<queueView, progress, button, dropped>>

User == \/ \E j \in Jobs : Click(j)
        \/ \E f \in Files : DeleteSgf(f)
        \/ JobRequested \/ ClickDownload \/ RequestDownload \/ CloseWindow

PoolThread == \/ Pop \/ JobServed \/ ServeMissing \/ ServeNothing \/ ResultStored
              \/ \E j \in Jobs : JobSubmitted(j)

WorkerThread == \/ StartDownload \/ RunWithoutId \/ FinishDownload
                \/ \E f \in Files : DownloadGame(f)

Slots == \/ UpdateQueueView \/ AddInProgress \/ RemoveInProgress \/ DownloaderFinished
         \/ UpdateTable

Exited == gui = "closed" /\ UNCHANGED vars

Next == \/ gui # "closed" /\ (User \/ PoolThread \/ WorkerThread \/ PageFails \/ Slots \/ Closed)
        \/ Exited

Spec == Init /\ [][Next]_vars

\* The threads run: downloads end, the GUI thread finishes what it began and
\* handles its events.  Nobody need click, close the window or ask for a job.
FairSpec == /\ Spec
            /\ WF_vars(gui # "closed" /\ WorkerThread)
            /\ WF_vars(JobRequested) /\ WF_vars(RequestDownload)
            /\ WF_vars(Slots) /\ WF_vars(Closed)

-----------------------------------------------------------------------------
Paths == {<<>>} \cup {SgfPath(f) : f \in Files} \cup {SaveLocation(j) : j \in Jobs}
Signals == {"update_queue_view", "job_served", "job_submitted", "downloader_finished",
            "update_table"}

TypeOK ==
    /\ queue \in Seq(Jobs)
    /\ pool \in {"idle", "popped", "storing"} /\ current \in Jobs \cup {NoJob}
    /\ out \in [Jobs -> Nat] /\ results \in SUBSET Paths
    /\ events \in Seq([signal : Signals, path : Paths, bot : Bots \cup {"none"}])
    /\ gui \in {"idle", "added", "released", "closing", "closed"} /\ id \in BOOLEAN
    /\ queueView \in Seq(Files) /\ progress \in Seq([path : Paths, bot : Bots])
    /\ button \in BOOLEAN /\ requests \in Nat /\ running \in BOOLEAN /\ missing \in SUBSET Files
    /\ disk \in SUBSET Files /\ table \in SUBSET Files
    /\ clicks \in 0 .. MaxClicks /\ dropped \in BOOLEAN

Pending(signal) == \E i \in DOMAIN events : events[i].signal = signal

\* The queue's view never stays behind: when the GUI thread has handled what
\* it was told, it shows the queue as it is, although jobs are popped between
\* submit_job's two steps and between a pop and its signal.  Only a job whose
\* sgf was gone leaves it behind, until the next update.
QueueViewSettles ==
    gui \in {"idle", "released"} /\ pool # "popped" /\ ~Pending("update_queue_view")
        => queueView = QueueFiles \/ dropped

\* Two downloads, which would each take the other's files for missing, never
\* overlap or queue up, and the button comes back after each: it is disabled
\* before the download is asked for.
OneDownload ==
    /\ requests + Cardinality({i \in DOMAIN events :
                                 events[i].signal = "downloader_finished"}) <= 1
    /\ button <=> /\ requests = 0 /\ ~Pending("downloader_finished")
                  /\ gui # "released"

\* With the button enabled and the table told, the table shows every game
\* that is on disk.
TableSettles == button /\ ~Pending("update_table") => disk \subseteq table

\* The button comes back after every download, unless the window is closed.
ButtonReturns == ~button ~> (button \/ gui \in {"closing", "closed"})

\* A window that is closed ends its process, whatever its threads are doing:
\* the GUI thread, which waits, owes the others nothing.
Closes == gui = "closing" ~> gui = "closed"

\* "Jobs In Progress" (mainwindow.ui): when the GUI thread has handled its
\* events, no job that was submitted is still in the list.
ProgressSettles ==
    pool = "idle" /\ events = <<>> =>
        \A i \in DOMAIN progress : \E b \in Bots :
            progress[i].bot = b /\ out[[file |-> progress[i].path[1], bot |-> b]] > 0
=============================================================================
