# A verification development for autogrp

autogrp downloads finished go games from online-go.com, hands them to workers
that analyse them with a bot, and collects the results.  This directory holds
TLA+ models of its queue, its job pipeline, its configuration, its GUI, its sgf
reader and its shutdown, the TLC configurations that check them, and proofs
about all of them.

Paths are relative to the repository; `src/` below is its `src` directory.

## 1. The system

| component | state | operations | who calls it |
|---|---|---|---|
| work queue (`src/work_queue.cpp`) | a vector of (sgf path, bot), a mutex | `add_to_queue`, `get_job`, `queue_copy` | timer thread, GUI thread; pool thread; GUI thread |
| downloader (`src/downloader.cpp`, `run_downloader` in `src/main.cpp`) | sgf files on disk; the list of known files and of new files while it runs | `download_missing_games`, then one batch into the queue, then the timer again | the io_service's thread every hour; the GUI's worker thread |
| work server (`src/work_server.cpp`) | none of its own: queue, sgf and rsgf files | `GET /job`, `POST /submit_job` | restinio's pool, one thread |
| work client (`src/work_client.cpp`) | the current `JobInfo`, files in `temp_sgf_path` | `get_job`, `do_job`, `submit_job` | the main thread of `client`, or of `autogrp` with a local worker |
| programs (`src/main.cpp`, `src/client_main.cpp`) | `keep_running`, the timer, the signal set, three threads | start, signal handler, loop, cancel and join | the system |
| GUI (`gui/`) | queue view, progress view, table, button | slots, hooks of the server, closing | Qt's event loop, pool thread, worker thread |
| sgf reader (`rsgf_viewer/`) | a syntax tree, a move tree, a header per file | parser, `parse_game_tree`, `Sgf`, printer | the GUI's table |
| configuration, log utilities | none after the start | read keys; `load_file_into_string` | everyone |

Only the sgf and rsgf files survive a process.  Whether a game was handled is
not recorded anywhere: **a game whose sgf exists is taken for handled**.  The
queue, the list of new files, what a worker holds and the requests under way
are memory.  Most of what can go wrong follows from that.

What is hard, and where:

- threads share the vector, and two functions look at it before they lock;
- a job is popped before its sgf is opened, the sgf is created before it is
  written and written before its jobs are queued, a result is truncated before it
  is written, and processes may end between any two of these steps;
- no result of a curl call is looked at, so lost replies, lost submissions and
  failed downloads go on as if nothing had happened; and curl itself may post a
  result twice;
- nor is the result of a parse: a file that is cut, or still being written, is
  read as far as it goes;
- three threads have to agree on when to stop, and the timer's thread and
  restinio each have their own idea of a signal;
- the GUI's views are redrawn by events that other threads send after the fact.

`PROJECT.json` lists each hazard at its line with the properties about it.

What makes each component correct: the queue is a FIFO that loses and repeats
nothing; every job of a downloaded game is somewhere until it is done or a
fault took it, and is worked on once; results are never damaged; the programs
stop when told to, promptly, and without losing the current job; the views show
what is there once the events are handled; the reader finds what the file says
and nothing else.

## 2. Plan

1. **WorkQueue** with its abstract **JobQueue**, and the proofs *(done)*.
2. **AutoGrp**, the pipeline, with faults, its abstract **JobLifecycle**, and
   the proofs *(done)*.  For them the games left on a page are a set that is
   taken in the order of the page, and the list of bots is a constant, which
   `MCAutoGrp` takes from `Config`.
3. **Shutdown**, the programs' threads, and the proofs *(done)*.
4. **GuiViews**, the window, with the names of results and its closing, and the
   proofs *(done)*.
5. **Config**, the two ini files and the list of bots *(done)*.
6. **SgfReader**, grammar, move tree and header, and the proofs *(done)*.
7. **SequenceFacts** and **Recursion**, what the proofs need of sequences and of
   recursive functions *(done)*; **Lists**, the loop that several modules share.

Composition: AutoGrp and GuiViews take the queue as a sequence, which is what
WorkQueue is shown (and proved) to implement.  Shutdown keeps of the pipeline
only whether a job is current and what becomes of it.  SgfReader reads the files
that AutoGrp's downloader leaves behind, the bad ones too.

## 3. The modules

### JobQueue, WorkQueue, WorkQueueProofs, MCWorkQueue

`JobQueue` is what the callers of `work_queue.h` may count on: `Add` appends a
batch, `Ask`/`Serve`/`Refuse` are a call of `get_job` with its answer, and
`Refuse` ("no job") is allowed only if the queue was empty when the call began.

`WorkQueue` is `work_queue.cpp` step by step.  `start` and `finish` are the
vector's begin and end words, a word being a memory block and an offset;
`items` are the elements.  `lock` is the mutex, `pc` says where each thread is.

| code | actions |
|---|---|
| `add_to_queue` (9-33) | `AddCall`, `Lock`, `Reallocate` with `StoreStart` and `StoreFinish` if the vector grows, `Insert`, `Unlock` |
| `get_job` (44-53) | `GetCall`, `ReadStart` and `ReadFinish` (the unlocked `empty()`), `GetNothing` or `GetSomething`, `Lock`, `Pop`, `Unlock` |
| `queue_copy` (35-42) | `CopyCall`, `ReadStart` and `ReadFinish` (the unlocked `size()`), `Reserve`, `Lock`, `Copy`, `Unlock` |

The unlocked looks are data races.  The model gives them the outcomes a build
can produce: aligned words are read and stored whole, one at a time and in
either order; a reallocation may take a block that was freed before; when the
vector grows is the library's choice, except that an empty one without a block
must.  `reserve` followed by `insert` and a merged store of the new length are
both allowed.

Named assumptions: `PoolAssumption`, one thread at most calls `get_job` and it
does nothing else (`work_server.cpp:17`, `pool_size = 1`); `ViewerAssumption`,
where the queue is copied, the copying thread is the only one that adds (the GUI
thread, `queue_view.cpp`); `DataAssumption`, the batches are sequences of jobs
and the model values differ from each other.

### JobLifecycle, AutoGrp, Config, MCAutoGrp, AutoGrpProofs

One server, its timer thread, and any number of workers, some of them in the
server's process.

| state | in the code |
|---|---|
| `sgf`, `rsgf` | the files in `games_dir`; `"bad"` is an sgf that is no sgf, `"partial"` an rsgf opened and not yet written |
| `queue` | `work_queue` |
| `dl` | `run_downloader`: the snapshot of the directory (`known`), the page, the games left on it, the file it writes (`open`), `new_files` |
| `wpc`, `wjob`, `body`, `temp` | a worker's loop, its `JobInfo`, the sgf it received, the results in `temp_sgf_path` |
| `up`, `id` | does the server's process run, and did it find an `ogs_id`? |
| `ended` | what online-go.com lists as finished |
| `lost`, `faults`, `deletes`, `served` | history, for the properties; `served` counts how often each job was handed to a worker |

Actions follow the code: `StartRun`, `RunWithoutId` (no `ogs_id`, which is the
default: the first run ends the process, `downloader.cpp:33`), `FetchPage`,
`OpenSgf`, `Download`, `QueueJobs` (timer thread); `Serve`, `ServeMissing`, `Submit`, `Saved` (the
request handler); `Receive`, `Analyse`, `SubmitNothing`, `SubmitRefused` (the
worker).  Faults: `Crash`, `WorkerCrash`, `PageFails` (the assertion of
`downloader.cpp:61`), `DownloadFails`, `ReplyLost`, `ReplyTruncated`,
`AnalysisFails`, `AnalysisThrows`, `SubmitLost`, `AnswerLost`.  The handler runs
on one thread, so `Serve` and `Submit` wait while a result is written
(`Saving`).  `JobsFor` is the nested loops of `main.cpp:39-43`.

`AnswerLost` is libcurl's: `work_client` keeps one handle and with it one
connection; if that breaks before a byte of the answer has come, curl connects
anew and posts again, and does so too when the server's process ended while it
stored the result.  The worker is then in `"resend"`: its result may lie in
`games_dir` whole, and is truncated again by the second POST.

`Ids` says whether `config.ini` has an `ogs_id` when a process reads it: always
(`{TRUE}`), never, or at some starts and not at others.

Named assumptions: `PipelineAssumption`, the types of the constants, and that a
page lists no game twice; `ListAssumption`, no two pages share a game: pages list
the oldest games first (`config.ini.example`, `start_page`), so that a game that
is added while a run goes from page to page moves no other.

`Config` is `config.cpp` and the conversions of bots: the defaults, the keys a
program exits without, the `ogs_id` that the downloader exits without,
`run_local_worker`, the bots whose path is set,
`bot_from_string` (every unknown name is leela), one column of the table per name,
and `std::unique` (`main.cpp:34`), a recursive function along the list.
`MCAutoGrp` takes the list of bots, the `ogs_id`, the local worker and the paths
from ini files through it.

`JobLifecycle` is the abstract life of one job: new, pending, running, then done
or lost, and never back.

### Shutdown, ShutdownProofs

`main` is the main thread, `io` the thread in `io_service::run` with its queue
`ready` of handlers, `armed` the timer, `waiting` the signal set (it waits
once), `pool` the server, `job` what becomes of the current job.  One
specification covers `autogrp` with a local worker (`"local"`), without
(`"server"`) and `client`; `program` is chosen in `Init`, and whether there is
an `ogs_id` (`RunWithoutId`: without one the timer's handler ends the process).
A signal goes to main's signal set and, if it is SIGINT, to restinio's
(`include/restinio/http_server_run.hpp:247`). `Cancel` makes a waiting timer's
handler ready, which runs `run_downloader` as well, since that ignores its error
code.

### GuiViews, GuiViewsProofs

Every signal that crosses threads is an event in `events`, one per connected
slot and in the order of the connections.  `Click` and `JobRequested` are the
two halves of `QueueView::submit_job`; `ClickDownload` and `RequestDownload` the
two slots of the downloader's button, the one that disables it, which `setupUi`
connects first, and the downloader's, which is queued for the worker thread;
`Pop`, `JobServed`, `ServeMissing`, `ServeNothing`, `JobSubmitted`,
`ResultStored` the pool thread; `StartDownload`, `RunWithoutId`, `DownloadGame`,
`PageFails`, `FinishDownload` the worker thread; `UpdateQueueView`,
`AddInProgress`, `RemoveInProgress`, `DownloaderFinished`, `UpdateTable` the
slots.  `CloseWindow` is `qapp.exec()` returning, `Closed` the end of
`main_window`'s destructor, which waits for a running download; from then on
there is no process.  Workers may hold jobs of an earlier window.

A path is a sequence: what comes before ".sgf", then the rest character by
character.  The table and the downloader take every name that holds ".sgf"
(`sgf_table_model.cpp:17`, `downloader.cpp:37`), so that some files, `Backups`,
have a name that goes on after it, like an editor's `1.sgf~`; no download makes
one.  `SaveLocation` is the server's name for a result (four characters off the
end), `AnalyzedPath` the table's (around the last dot); `Click` tests the second
against the files the first one made.  For a file of `Backups` the two differ, and
the table offers its analysis again, however often it was stored.
`Keep`, of `Lists`, is what `std::remove_if` leaves of the jobs in progress.

Named assumption: `GuiAssumption`, backups are on disk from the start, the files
on disk when the window opens and the bots are finitely many, so that the jobs
that workers of an earlier window still have can be counted; and `MaxClicks` is
a number.

### SgfReader, MCSgfReader, SgfTreeProofs, SgfReaderProofs

A file is a sequence of tokens and arrives token by token (`Arrive`), with one
token among them that was never written (`Flaw`); `ReadSgf` is the constructor
of `Sgf` at any moment: `parse_sgf`, `parse_game_tree`, the header.

| code | operators |
|---|---|
| grammar (`sgf_parser.cpp:53-62`) | `PropertyAt`, `NodeAt`, `SequenceFrom`, `GameTreeAt`, `SubTreesFrom`, each a rule tried at a place |
| move tree (`move.cpp:66-116`) | `parse_node`, `append_move_to_end`, `MoveList`, `parse_sequence`, `parse_game_tree` |
| header (`move.cpp:26-62`) | `ReadProperty`, `Result`, `Margin`, `Number` |
| printer (`Sgf.cpp`) | `PrintSequence`, `PrintGameTree` |

Spirit's rules are tried in order and as far as they go: a rule that fails
consumes nothing, a variation that fails is dropped, but the tree of the whole
file is filled in as its parts are found, and stays so when the end is missing.
A property stands for its identifier and first value: the others are read and
not used.  `compose` never succeeds, for `value_type` takes a colon too and is
tried first.  A field that nobody sets is `"?"`.

The functions of the code that call themselves are recursive functions here and
not recursive operators, so that they can be proved about.  Along a file they
are functions of the place; on trees their domain is a set of trees,
`SyntaxTrees` and `MoveTrees`: `TreesTo[d]` holds the trees with at most `d`
nodes on every line, and `MaxNodes` bounds the nodes of a file.

Named assumption: `SgfAssumption`, the trees are trees of nodes and fit into
`MaxNodes` with room for a flaw, a property is not one of the grammar's signs,
and no node of a written file holds two moves.  The last is a rule of the sgf
format that `parse_node` relies on: it takes the first move of a node
(`move.cpp:66-75`) and would lose another.  It is asked of what was *written*; a
flaw adds a node, never a property.

## 4. The runs

| run | what it shows | instance |
|---|---|---|
| WorkQueue | `SafePop`, `CopyFits`, `ImplementsQueue` under every interleaving | one thread that adds and copies, one pool thread, two blocks, batches of 0, 1 and 2 |
| AutoGrp_faults | `Accounted`, `NoFaultNoDeath`, `KeepResults`, `ImplementsLifecycle`; `Settled`, `AnalysedUnlessFault` under fairness | two games on two pages, one bot, a local and a remote worker, an `ogs_id`, any three faults |
| AutoGrp_deletes | `AtMostOnce`, `Accounted` | one game, bots `leela leela leela_zero ray`, an `ogs_id` at some starts only, any two faults, one deletion of the sgf |
| Shutdown_pass | `StopKeepsJob`, `WorkerStopIsPrompt`, `NoDownloadAfterStop`, `WorkerStops`, `ServerStops` | the three programs, with an `ogs_id` and without, both signals, no bound |
| GuiViews_pass | `QueueViewSettles`, `OneDownload`, `TableSettles`; `ButtonReturns`, `Closes` under fairness | an old file whose name goes on after ".sgf" and a game to be downloaded, one bot, with an `ogs_id` and without, two analyses |
| SgfReader | `ReadsPrefix`, `ReadsAll`, `ReadsMore`, `MovesKept`, `LinesKept`, `WinnerKnown` | 48 trees of depth up to three, cut at every token, one flaw at most |
| AutoGrp_badsgf, AutoGrp_nopath, Shutdown_sigterm, Shutdown_lastjob, Shutdown_hour, GuiViews_progress | a promise the code does not keep, see section 6 | the smallest instance that shows it |

Bounds, and why they are enough:

- `MaxQueue` (1): no `add_to_queue` begins on a longer queue, so up to three
  jobs wait.  A pop from one, two and three jobs, the last pop and an append to
  an empty and a non-empty queue all occur.  Two `Blocks` are the least with
  which a block is used again.  The proofs need neither bound.
- `MaxFaults` (3): a fault, another while the system recovers, and a third.  The
  pass over two pages puts every fault before, between and after them.
- `MaxDeletes` (1): a game deleted while it is written, queued, analysed or
  stored, and taken again, so that two copies of each of its jobs are about.  Two
  games add nothing there: jobs of different games meet only in the queue.
- `MaxClicks` (2): a job popped, stored or left by an earlier window, and
  another one being clicked.
- `Trees`: first nodes with a result, two results, none, and with a move; main
  lines of none and three moves; no variation, one without a move, two, and two
  of which one branches again.  Every rule succeeds and fails at every place.
- `MaxNodes` (12): the largest of these trees has nine nodes, and a flaw adds one.
  The proofs hold for every bound.

Deadlock is checked in every run: faults are optional steps, so that the
pipeline rests only where the timer can still fire, and a program that exited
stutters by `Exited`.

## 5. Fairness

- `AutoGrp`: weak fairness of `Downloader` (the timer fires every hour, requests
  end), of each `WorkerLoop` (the loop polls every second, the pool thread is
  never blocked, analyses end), and of `Restart` and `WorkerRestart`, an
  assumption about the people who run the programs: a program that stopped is
  started again.  Games need not end and faults need not happen.  `Settled` and
  `AnalysedUnlessFault` are checked where `config.ini` has an `ogs_id`: without one
  a server that is started again ends again.
- `Shutdown`: weak fairness of the threads and of the timer.  An analysis or a
  download ends; nothing obliges anyone to send a signal.
- `GuiViews`: weak fairness of the worker thread (requests end), of the GUI
  thread's slots and of what it has begun.  Nobody need click, close the window or
  come for a job, and no page need fail.
- `WorkQueue` and `SgfReader` have only safety properties.

Weak fairness is enough everywhere: the handlers run first come first served on
one thread, and a worker that could be served stays so until it is.  A `Settled`
job is taken by some worker, since the queue is served from its head and workers
that died are restarted.

## 6. What the code does not keep

| run | code | promise |
|---|---|---|
| AutoGrp_badsgf | a failed sgf request is stored as the sgf (`downloader.cpp:86-94`) and never repeated | every game is analysed with every bot (`config.ini.example:19-20`) |
| AutoGrp_nopath | after "path not set" `submit_job` throws on the missing file (`logutils.cpp:27`) and ends the process | `do_job` reports and returns (`work_client.cpp:108-111`) |
| Shutdown_sigterm | without a local worker SIGTERM stops nothing (`main.cpp:78`) | "Stopping. Please wait ..." (`main.cpp:17-18`) |
| Shutdown_lastjob | SIGINT stops the server under the local worker, the result is lost (`main.cpp:75`) | "... until the current job is finished" |
| Shutdown_hour | the timer is re-armed after it was cancelled (`main.cpp:45`, `81`) | "... wait up to one second" |
| GuiViews_progress | served and submitted jobs carry different paths (`work_server.cpp:39`, `55-60`) | "Jobs In Progress" (`gui/mainwindow.ui:50-51`) |

Met on the way and not shown by a run:

- `config.ini.example` documents `run_local_work`, the code reads
  `run_local_worker` (`config.cpp:15`, `README.md`).
- A name in `bots_to_use` that is neither leela nor leela_zero is not refused
  (`config.ini.example`: "Currently only leela and leela_zero are accepted") but
  means leela, and may queue leela's jobs twice (`RepeatedBots` in `MCAutoGrp`).
- The table's button "Show" emits `open_rsgf` (`analyze_sgf_delegate.cpp:62`), to
  which nothing is connected.
- Variations hang on the first move of their sequence (`move.cpp:111-114`);
  `LinesKept` holds only for files that branch after one move at most.
- A node without properties, which sgf allows, ends the parse (`sgf_parser.cpp:60`).

## 7. What is proved

`WorkQueueProofs`, for every number of adding threads, every set of blocks and
batches and every bound, from the three assumptions of `WorkQueue`:

- `TypeCorrect`: `Spec => []TypeOK`.
- `PopIsSafe`: `Spec => []SafePop`, the unlocked test of `get_job` is safe.
- `CopyIsReserved`: `Spec => []CopyFits`.
- `QueueRefined`: `Spec => ImplementsQueue`, the vector implements the FIFO.

`SafePop` is not inductive: what makes a pop safe is what the thread saw before
it locked.  The inductive invariant `IInv` adds

- `MutexInv`: the mutex is held by exactly the thread in a locked section;
- `RoleInv`: which thread can be where;
- `VecInv`: outside a reallocation the words delimit the elements, inside one
  the end word still lies beyond them;
- `PopInv`: a look at an empty vector that nobody grows has seen the current
  words, so a thread that passed the test either finds a job, or someone is
  inserting one and holds the mutex until it is there.  This is where the single
  popper is needed;
- `LookInv`: a look begun on a non-empty queue never reads an end at offset 0,
  so "no job" is answered only to those who asked an empty queue;
- `CopyInv`: while the only adder copies, the block stays and the end only
  moves back.

Each was checked by TLC before it was proved.  The proofs have one step per
action; `QueueStep` maps `Insert` to `Add`, `GetCall` to `Ask`, `Pop` to `Serve`,
`GetNothing` to `Refuse` and every other step to a stutter.

`ShutdownProofs`, for every choice of programs and signals and any number of
signals at any moment, from `ProgramAssumption`:

- `TypeCorrect`: `Spec => []TypeOK`.
- `NoDownload`: `Spec => []NoDownloadAfterStop`.
- `WorkerNeverWaitsForTimer`: `Spec => []WorkerStopIsPrompt`.
- `JobSurvivesStop`: `Spec => []StopKeepsJob`.

The invariant adds `ClientInv` (a client has no timer), `LoopInv` (the local
worker leaves its loop only after the stop was handled, so that with
`NoDownloadAfterStop` nothing re-arms the timer behind `cancel`; autogrp without
a worker has no such test, which is what Shutdown_hour shows) and `ServerInv`
(only SIGINT stops a server, and who holds a job got it from a running one).

### The pipeline

`AutoGrpProofs` holds for any pages and bots, any number of workers, local or
not, any faults and any bound on them, from the two assumptions of `AutoGrp`;
hypotheses beyond them are part of the theorem.

| theorem | states | hypotheses |
|---|---|---|
| `TypeCorrect` | `[]TypeOK` | |
| `NoJobDropped` | `[]Accounted` | |
| `ResultsStay` | `KeepResults` | `IsInjective(BotList)` |
| `NobodyDies` | `[]NoFaultNoDeath` | `Ids = {TRUE}`, `\A w \in Workers : Range(BotList) \subseteq Paths[w]` |
| `JobsLive` | `ImplementsLifecycle` | `IsInjective(BotList)`, `MaxDeletes = 0` |
| `HandedOutOnce` | `[]AtMostOnce` | `NoRepeats` |
| `ConfiguredOnce` | `[]AtMostOnce` | `BotList = BotsToUse(ini)` for a list `ini` of any names |

`IsInjective(BotList)`: each bot is named once.  Where `config.ini` names one
twice, two workers get the same job and the second one truncates the result of
the first; `std::unique` (`main.cpp:34`) drops only repetitions that follow each
other, which is `NoRepeats`, all that the count needs.  That the list which main
makes of any `config.ini` has none is `ListOfBots`, by induction along the list,
and with it `ConfiguredOnce` follows from `HandedOutOnce`.  `MaxDeletes = 0`: a
game whose sgf the user deletes is downloaded and analysed again, so that a done
job is pending once more, and a job still queued from the first time can be
served from the file while it is written anew.

- `Ind` is `TypeOK` with `DlInv` (between runs the downloader holds nothing; it
  writes one file, one that is still on its list), `JobInv` (only jobs that are
  asked for are queued or handed out) and `DownInv` (without the server's process
  there is no queue and no local worker).  `Accounted` is inductive with it: a job
  that leaves a place is in the next one or in `lost`.
- `SnapshotInv` is what makes one run after the other safe: files that a run did
  not see in the directory come from the pages it has read, and what it still has
  to fetch has no file.  This is where `ListAssumption` is needed.
- `OnceInv` says of each job of a game that was never deleted that it is coming,
  queued, at one worker or stored, and untouched before; of a worker whose result
  is stored that it is about to post it again.  `ResendInv`: that worker is not
  local, for it outlived the server.
- `Calm` is what a run without faults keeps: a queued job's sgf was written
  before it was queued and, by `SnapshotInv`, is not opened again, so that every
  worker gets a whole one, and its analysis leaves the file that `submit_job`
  reads.  Without a path for the bot there is no such file: the hypothesis on
  `Paths` is what AutoGrp_nopath lacks.  `NoFaultNoDeath` claims nothing once the
  user has deleted an sgf: a job that was queued before can then be served from the
  file while the next run writes it, as for a fault.
- `Life` adds `UnaskedInv` (a bot that is not named gets no jobs).  The steps map
  to `Create` (`OpenSgf`, once per game), `Take` (`Serve`), `Finish` (`Saved`),
  `Lose` (the faults) or a stutter.
- `CreditInv` counts: how often a job was handed out since the first run
  (`served`), together with how often it is queued, or will be for a file that is
  new or open, never exceeds the times its bot is named for the file that is there
  and for each one that was deleted.  `AtMostOnce` alone is not inductive: it does
  not say that a game is opened only when its file is missing.  Jobs that were
  stored or lost count as well, so that work that was done is not done again
  either.

### The GUI

`GuiViewsProofs`, for any files, bots and number of clicks, from `GuiAssumption`:

- `TypeCorrect`: `Spec => []TypeOK`.
- `DownloadsAlone`: `Spec => []OneDownload`.
- `TableShowsAll`: `Spec => []TableSettles`.
- `ViewShowsQueue`: `Spec => []QueueViewSettles`.

`Types` says what the queues hold.  `DownloadInv` adds to `OneDownload` that
files are missing only while a download runs, a download runs only while one
was asked for, and none was asked for yet between the button's two slots; `TableInv`, that between downloads the table has the files or will
be told.  `QueueViewSettles` is inductive with `Types`: `JobServed` adds the event
in the step that ends `"added"`.
For `TypeCorrect`, `StateTypes`, `FileTypes` and `ViewTypes` are inductive with
`Types`: a worker that submits a job has it, so that what is owed of a job never
falls below none, and what the GUI thread is told of a served job has a bot, so
that what it lists has one.

### The sgf reader

`SgfReaderProofs`, for any properties, any set of trees and any bound on the
nodes of a file, from `SgfAssumption`:

| theorem | states | in words |
|---|---|---|
| `TypeCorrect` | `[]TypeOK` | the reader's trees are finite trees, each field has a value it can have |
| `NothingInvented` | `[]ReadsPrefix` | what is read is the beginning of the file |
| `NoMoveLost` | `[]MovesKept` | the move tree has the moves that were read, in order |
| `LinesAsWritten` | `[]LinesKept` | and, where sequences branch after one move at most, their lines of play |
| `LastResultWins` | `[]WinnerKnown` | the winner's flags are those of the last result of the first node |
| `NeverLess` | `ReadsMore` | a file that grew is never read as less |
| `WholeFileRead` | `ReadsAll` | a whole file is read as the tree that was written |

The invariant `SgfInv` is small.  `FileInv`: what arrived and what is still to
come are a file with at most `MaxNodes` nodes, none of which has two moves, and
the one that was written if there is no flaw.  `ReadInv`: the syntax tree is
`parse_sgf` of something that this file begins with, and move tree and header
are what the constructor of `Sgf` makes of it.  `ReadsPrefix` and the others are
not inductive, and follow from it by what `SgfTreeProofs` shows of the
functions, for all of their arguments:

- `SequenceDef`, `VariationsDef`: at every place of a file the grammar's
  functions have a value, it is a sequence of nodes or of trees, it ends where
  the rule stopped, and printed it is what stands up to there (`ReadIs`).  The
  induction is from the end of the file backwards.
- `MovesFound`, `LinesFound`: `parse_game_tree` keeps the moves of a tree if it
  keeps those of its variations, by induction over the tree.  That a move tree
  of a sequence is one line, `MoveListSmall`, needs that nodes hold one move.
- `SequenceGrows`, `VariationsGrow`: where a file goes on, a rule that was
  finished before its end finds the same, and any other goes as far or further.
  `ReadGrows` is `NeverLess` for two files.
- `SequenceIsRead`, `VariationsAreRead`, `TreeIsRead`: where a written tree
  stands in a file it is found, by induction over the tree.
- `HeaderIs`: the flags and the margin after some properties are those of the
  last result among them.

### Sequences and recursion

`SequenceFacts` holds what all of these need of sequences: what head, tail,
append and concatenation do to what a sequence holds, holds once, how often, and
to what is kept of it.

A definition `f[x \in D] == Body(f, x)` says that f is *some* function that
satisfies the equation, if there is one.  `Recursion` shows that there is one
(`Exists`), and that its values are what is claimed of them (`GoodValues`), when
the arguments have ranks in `Nat` and the body at x depends on lower ones only.
Domain, rank, body and claim are constants of that module with parameters; each
function of the model is an instance of it (`Join`, `Growth`, `Printing`,
`Sequencing`, `Varying`, `Lining`, ...), so that no fact about operators with
parameters is needed.  `Induction` and, on it, `AlongSequence`,
`TreeInduction`, `MoveTreeInduction` and `Backwards` are stated for sets instead
of predicates.

Every inductive invariant was checked by TLC on the runs' instances as well.

Every invariant and every action property that a passing run checks is proved.
Only model-checked: the liveness of AutoGrp, GuiViews and Shutdown, which the
prover does not do.

## 8. Not modelled

- `calc_debug.cpp`, an example of Spirit that no target builds.
- Vendored libraries (`include/`, `lib/`: fmt, rapidjson, restinio, http-parser,
  inih), by far the most lines of the repository: they are taken to do what the
  code here asks of them, except for what restinio does with signals.
- Files whose name goes on by several characters after ".sgf", or holds ".sgf"
  twice: there the worker, too, makes up a name of its own (`work_client.cpp:31`,
  `85`), and two files may share a result.
- Painting, column widths and headers of the GUI; rows and columns of points,
  dates and the spelling of properties in the sgf reader.
- The objects of the window that are destroyed while the server's detached
  thread runs, and restinio's SIGINT handler in the GUI, which stops the server
  and leaves the window.
- Exceptions between `lock()` and `unlock()`, the teardown of static objects
  after `main`, the plain `bool keep_running` shared by threads, and the timer's
  own thread safety: `PROJECT.json` notes them as hazards.
- Requests that no worker of this code sends; the server rejects them and
  changes nothing.
