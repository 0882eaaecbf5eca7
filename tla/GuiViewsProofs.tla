--------------------------- MODULE GuiViewsProofs ---------------------------
(***************************************************************************)
(* Proofs about GuiViews, for every set of files, bots and files that are  *)
(* there from the start, and any number of analyses asked for.             *)
(***************************************************************************)
EXTENDS GuiViews, SequenceFacts

Events == [signal : Signals, path : Paths, bot : Bots \cup {"none"}]

\* The queues hold what belongs there, and the pool thread has a job unless it
\* is idle.
Types ==
    /\ queue \in Seq(Jobs) /\ events \in Seq(Events)
    /\ pool # "idle" => current \in Jobs

SignalsOf(es) == [i \in DOMAIN es |-> es[i].signal]

\* Of downloads that are about to be asked for, asked for, running or just over
\* there is one.
DownloadInv ==
    /\ requests \in {0, 1} /\ running \in BOOLEAN /\ button \in BOOLEAN
    /\ running => requests = 1
    /\ missing # {} => running
    /\ requests = 1 => ~Pending("downloader_finished")
    /\ Unique(SignalsOf(events), "downloader_finished")
    /\ gui = "released" => requests = 0 /\ ~Pending("downloader_finished")
    /\ button <=> requests = 0 /\ ~Pending("downloader_finished") /\ gui # "released"

\* Between downloads the table has the files or will be told.
TableInv == requests = 0 => disk \subseteq table \/ Pending("update_table")

\* Results have the names that the server makes up.
ResultInv == results \subseteq {SaveLocation(j) : j \in Jobs}

-----------------------------------------------------------------------------
(* Events.                                                                 *)

\* An event of each kind is an event.
LEMMA EventsType ==
  /\ \A s \in Signals : Notice(s) \in Events
  /\ \A j \in Jobs, s \in Signals : /\ Event(s, SgfPath(j.file), j.bot) \in Events
                                    /\ Event(s, SaveLocation(j), j.bot) \in Events
  BY DEF Events, Notice, Event, Paths, Jobs

\* Handling the first event or adding some does the same to their signals.
LEMMA SignalsFollow ==
  ASSUME NEW es \in Seq(Events), NEW more \in Seq(Events)
  PROVE  /\ SignalsOf(es) \in Seq(Signals)
         /\ SignalsOf(es \o more) = SignalsOf(es) \o SignalsOf(more)
         /\ es # <<>> => /\ SignalsOf(es) # <<>>
                         /\ Head(SignalsOf(es)) = Head(es).signal
                         /\ SignalsOf(Tail(es)) = Tail(SignalsOf(es))
<1>1. ASSUME NEW s \in Seq(Events)
      PROVE  /\ SignalsOf(s) \in Seq(Signals) /\ Len(SignalsOf(s)) = Len(s)
             /\ Len(s) \in Nat /\ DOMAIN s = 1 .. Len(s)
             /\ \A i \in 1 .. Len(s) : SignalsOf(s)[i] = s[i].signal
  <2>1. Len(s) \in Nat /\ DOMAIN s = 1 .. Len(s)
    BY LenProperties
  <2>2. \A i \in 1 .. Len(s) : s[i] \in Events
    BY ElementOfSeq
  <2>3. SignalsOf(s) \in [1 .. Len(s) -> Signals]
    BY <2>1, <2>2 DEF SignalsOf, Events
  <2>4. SignalsOf(s) \in Seq(Signals)
    BY <2>1, <2>3, SMTT(30)
  <2>5. Len(SignalsOf(s)) = Len(s)
    BY <2>1, <2>3, <2>4, LenProperties
  <2> QED
    BY <2>1, <2>4, <2>5 DEF SignalsOf
<1>2. SignalsOf(es \o more) = SignalsOf(es) \o SignalsOf(more)
  <2> DEFINE a == SignalsOf(es)
             b == SignalsOf(more)
             c == SignalsOf(es \o more)
             m == Len(es)
             n == Len(more)
  <2>1. /\ es \o more \in Seq(Events) /\ Len(es \o more) = m + n
        /\ \A i \in 1 .. m + n : (es \o more)[i] = IF i <= m THEN es[i] ELSE more[i - m]
    BY ConcatProperties
  <2>2. /\ a \in Seq(Signals) /\ Len(a) = m /\ m \in Nat
        /\ \A i \in 1 .. m : a[i] = es[i].signal
    BY <1>1
  <2>3. /\ b \in Seq(Signals) /\ Len(b) = n /\ n \in Nat
        /\ \A i \in 1 .. n : b[i] = more[i].signal
    BY <1>1
  <2>4. /\ c \in Seq(Signals) /\ Len(c) = m + n
        /\ \A i \in 1 .. m + n : c[i] = (es \o more)[i].signal
    BY <1>1, <2>1
  <2> HIDE DEF a, b, c, m, n
  <2>5. /\ a \o b \in Seq(Signals) /\ Len(a \o b) = m + n
        /\ \A i \in 1 .. m + n : (a \o b)[i] = IF i <= m THEN a[i] ELSE b[i - m]
    BY <2>2, <2>3, ConcatProperties
  <2>6. ASSUME NEW i \in 1 .. m + n PROVE c[i] = (a \o b)[i]
    <3>1. CASE i <= m
      <4>1. i \in 1 .. m
        BY <2>2, <2>3, <3>1
      <4> QED
        BY <2>1, <2>2, <2>4, <2>5, <3>1, <4>1
    <3>2. CASE ~(i <= m)
      <4>1. i - m \in 1 .. n
        BY <2>2, <2>3, <3>2
      <4> QED
        BY <2>1, <2>3, <2>4, <2>5, <3>2, <4>1
    <3> QED
      BY <3>1, <3>2
  <2>7. c = a \o b
    BY <2>4, <2>5, <2>6, SeqEqual
  <2> QED
    BY <2>7 DEF a, b, c
<1>3. ASSUME es # <<>>
      PROVE  /\ SignalsOf(es) # <<>>
             /\ Head(SignalsOf(es)) = Head(es).signal
             /\ SignalsOf(Tail(es)) = Tail(SignalsOf(es))
  <2> DEFINE a == SignalsOf(es)
             c == SignalsOf(Tail(es))
             n == Len(es)
  <2>1. n \in Nat \ {0}
    BY <1>1, <1>3, EmptySeq
  <2>2. /\ Tail(es) \in Seq(Events) /\ Len(Tail(es)) = n - 1
        /\ \A i \in 1 .. n - 1 : Tail(es)[i] = es[i + 1]
        /\ Head(es) = es[1]
    BY <1>3, HeadTailProperties
  <2>3. a \in Seq(Signals) /\ Len(a) = n /\ \A i \in 1 .. n : a[i] = es[i].signal
    BY <1>1, SMTT(30)
  <2>4. /\ c \in Seq(Signals) /\ Len(c) = n - 1
        /\ \A i \in 1 .. n - 1 : c[i] = Tail(es)[i].signal
    BY <1>1, <2>2, Zenon
  <2> HIDE DEF a, c, n
  <2>5. a # <<>>
    BY <2>1, <2>3, EmptySeq
  <2>6. /\ Tail(a) \in Seq(Signals) /\ Len(Tail(a)) = n - 1
        /\ \A i \in 1 .. n - 1 : Tail(a)[i] = a[i + 1]
        /\ Head(a) = a[1]
    BY <2>3, <2>5, HeadTailProperties
  <2>7. \A i \in 1 .. n - 1 : c[i] = Tail(a)[i]
    BY <2>1, <2>2, <2>3, <2>4, <2>6
  <2>8. c = Tail(a) /\ Head(a) = Head(es).signal
    BY <2>1, <2>2, <2>3, <2>4, <2>6, <2>7, SeqEqual
  <2> QED
    BY <2>5, <2>8 DEF a, c
<1> QED
  BY <1>1, <1>2, <1>3

\* A signal is pending if it is among those of the events.
LEMMA PendingIs == \A s : Pending(s) <=> s \in Range(SignalsOf(events))
  BY DEF Pending, Range, SignalsOf

\* What is pending when a slot has run.
LEMMA AfterSlot ==
  ASSUME Types, NEW signal, Slot(signal)
  PROVE  /\ events' \in Seq(Events)
         /\ \A s : Pending(s) <=> s = signal \/ Pending(s)'
         /\ \A s : Unique(SignalsOf(events), s) =>
               /\ Unique(SignalsOf(events'), s)
               /\ s = signal => ~Pending(s)'
<1>1. /\ events \in Seq(Events) /\ events # <<>> /\ events' = Tail(events)
      /\ Head(events).signal = signal
  BY DEF Types, Slot
<1>2. /\ SignalsOf(events) \in Seq(Signals) /\ SignalsOf(events) # <<>>
      /\ Head(SignalsOf(events)) = signal
      /\ SignalsOf(events') = Tail(SignalsOf(events))
  BY <1>1, SignalsFollow
<1>3. PendingIs'
  BY PendingIs, PTL
<1>4. Range(SignalsOf(events)) = {signal} \cup Range(SignalsOf(events'))
  BY <1>2, HeadAndRest
<1>5. events' \in Seq(Events)
  BY <1>1, HeadAndRest
<1>6. \A s : Unique(SignalsOf(events), s) =>
         /\ Unique(SignalsOf(events'), s)
         /\ s = signal => s \notin Range(SignalsOf(events'))
  BY <1>2, UniqueTail
<1> QED
  BY <1>3, <1>4, <1>5, <1>6, PendingIs

\* What is pending when events were added.
LEMMA AfterEmit ==
  ASSUME Types, NEW told \in Seq(Events), events' = events \o told
  PROVE  /\ events' \in Seq(Events)
         /\ \A s : Pending(s)' <=> Pending(s) \/ s \in Range(SignalsOf(told))
         /\ \A s : /\ Unique(SignalsOf(events), s) /\ Unique(SignalsOf(told), s)
                   /\ ~Pending(s) \/ s \notin Range(SignalsOf(told))
                   => Unique(SignalsOf(events'), s)
<1>1. events \in Seq(Events)
  BY DEF Types
<1>2. /\ SignalsOf(events) \in Seq(Signals) /\ SignalsOf(told) \in Seq(Signals)
      /\ SignalsOf(events') = SignalsOf(events) \o SignalsOf(told)
  BY <1>1, SignalsFollow
<1>3. PendingIs'
  BY PendingIs, PTL
<1>4. Range(SignalsOf(events')) = Range(SignalsOf(events)) \cup Range(SignalsOf(told))
  BY <1>2, RangeOfConcat
<1>5. events' \in Seq(Events)
  BY <1>1, RangeOfConcat
<1>6. \A s : /\ Unique(SignalsOf(events), s) /\ Unique(SignalsOf(told), s)
             /\ s \notin Range(SignalsOf(events)) \/ s \notin Range(SignalsOf(told))
             => Unique(SignalsOf(events'), s)
  BY <1>2, UniqueConcat
<1> QED
  BY <1>3, <1>4, <1>5, <1>6, PendingIs

-----------------------------------------------------------------------------
(* What each step tells the slots.                                         *)

\* The events that the pool thread and the worker thread add are for these slots.
LEMMA Told ==
  /\ \A e \in Events, n \in Events :
        <<n, e>> \in Seq(Events) /\ SignalsOf(<<n, e>>) = <<n.signal, e.signal>>
  /\ \A e \in Events : <<e>> \in Seq(Events) /\ SignalsOf(<<e>>) = <<e.signal>>
  BY DEF SignalsOf

\* A job that is served is told to the queue's view and to the list of jobs in
\* progress.
LEMMA ServedTells ==
  ASSUME Types, JobServed
  PROVE  /\ events' \in Seq(Events) /\ Pending("update_queue_view")'
         /\ \A s \in {"update_table", "downloader_finished"} :
               /\ Pending(s)' <=> Pending(s)
               /\ Unique(SignalsOf(events), s) => Unique(SignalsOf(events'), s)
<1> DEFINE n == Notice("update_queue_view")
           e == Event("job_served", SgfPath(current.file), current.bot)
<1>1. PICK told : told = <<n, e>>
  OBVIOUS
<1>2. n \in Events /\ e \in Events /\ n.signal = "update_queue_view" /\ e.signal = "job_served"
  <2>1. current \in Jobs
    BY DEF Types, JobServed
  <2> QED
    BY <2>1, EventsType DEF Signals, Notice, Event
<1>3. events' = events \o told
  BY <1>1 DEF JobServed
<1> HIDE DEF n, e
<1>4. told \in Seq(Events) /\ SignalsOf(told) = <<"update_queue_view", "job_served">>
  BY <1>1, <1>2, Told
<1>5. /\ Range(SignalsOf(told)) = {"update_queue_view", "job_served"}
      /\ \A s : Unique(SignalsOf(told), s)
  <2>1. /\ Range(<<"update_queue_view", "job_served">>) = {"update_queue_view", "job_served"}
        /\ \A s : Unique(<<"update_queue_view", "job_served">>, s)
    BY DEF Range, Unique
  <2> QED
    BY <1>4, <2>1
<1>6. /\ events' \in Seq(Events)
      /\ \A s : Pending(s)' <=> Pending(s) \/ s \in Range(SignalsOf(told))
      /\ \A s : /\ Unique(SignalsOf(events), s) /\ Unique(SignalsOf(told), s)
                /\ ~Pending(s) \/ s \notin Range(SignalsOf(told))
                => Unique(SignalsOf(events'), s)
  BY <1>3, <1>4, AfterEmit
<1> QED
  BY <1>5, <1>6

\* A result is told to the list of jobs in progress only.
LEMMA SubmittedTells ==
  ASSUME Types, NEW j \in Jobs, JobSubmitted(j)
  PROVE  /\ events' \in Seq(Events)
         /\ \A s \in {"update_queue_view", "update_table", "downloader_finished"} :
               /\ Pending(s)' <=> Pending(s)
               /\ Unique(SignalsOf(events), s) => Unique(SignalsOf(events'), s)
<1> DEFINE e == Event("job_submitted", SaveLocation(j), j.bot)
<1>1. PICK told : told = <<e>>
  OBVIOUS
<1>2. e \in Events /\ e.signal = "job_submitted"
  BY EventsType DEF Signals, Event
<1>3. events' = Append(events, e)
  BY DEF JobSubmitted
<1> HIDE DEF e
<1>4. told \in Seq(Events) /\ SignalsOf(told) = <<"job_submitted">>
  BY <1>1, <1>2, Told
<1>5. events' = events \o told
  <2>1. events \in Seq(Events)
    BY DEF Types
  <2> QED
    BY <1>1, <1>2, <1>3, <2>1, AppendIsConcat
<1>6. /\ Range(SignalsOf(told)) = {"job_submitted"}
      /\ \A s : Unique(SignalsOf(told), s)
  <2>1. Range(<<"job_submitted">>) = {"job_submitted"} /\ \A s : Unique(<<"job_submitted">>, s)
    BY DEF Range, Unique
  <2> QED
    BY <1>4, <2>1
<1>7. /\ events' \in Seq(Events)
      /\ \A s : Pending(s)' <=> Pending(s) \/ s \in Range(SignalsOf(told))
      /\ \A s : /\ Unique(SignalsOf(events), s) /\ Unique(SignalsOf(told), s)
                /\ ~Pending(s) \/ s \notin Range(SignalsOf(told))
                => Unique(SignalsOf(events'), s)
  BY <1>4, <1>5, AfterEmit
<1> QED
  BY <1>6, <1>7

\* A download that ends is told to the window and to the table.
LEMMA FinishedTells ==
  ASSUME Types, FinishDownload
  PROVE  /\ events' \in Seq(Events)
         /\ Pending("downloader_finished")' /\ Pending("update_table")'
         /\ Pending("update_queue_view")' <=> Pending("update_queue_view")
         /\ \A s : Unique(SignalsOf(events), s) /\ ~Pending(s) => Unique(SignalsOf(events'), s)
<1> DEFINE n == Notice("downloader_finished")
           e == Notice("update_table")
<1>1. PICK told : told = <<n, e>>
  OBVIOUS
<1>2. n \in Events /\ e \in Events /\ n.signal = "downloader_finished" /\ e.signal = "update_table"
  BY EventsType DEF Signals, Notice, Event
<1>3. events' = events \o told
  BY <1>1 DEF FinishDownload, Finish
<1> HIDE DEF n, e
<1>4. told \in Seq(Events) /\ SignalsOf(told) = <<"downloader_finished", "update_table">>
  BY <1>1, <1>2, Told
<1>5. /\ Range(SignalsOf(told)) = {"downloader_finished", "update_table"}
      /\ \A s : Unique(SignalsOf(told), s)
  <2>1. /\ Range(<<"downloader_finished", "update_table">>)
              = {"downloader_finished", "update_table"}
        /\ \A s : Unique(<<"downloader_finished", "update_table">>, s)
    BY DEF Range, Unique
  <2> QED
    BY <1>4, <2>1
<1>6. /\ events' \in Seq(Events)
      /\ \A s : Pending(s)' <=> Pending(s) \/ s \in Range(SignalsOf(told))
      /\ \A s : /\ Unique(SignalsOf(events), s) /\ Unique(SignalsOf(told), s)
                /\ ~Pending(s) \/ s \notin Range(SignalsOf(told))
                => Unique(SignalsOf(events'), s)
  BY <1>3, <1>4, AfterEmit
<1> QED
  BY <1>5, <1>6

-----------------------------------------------------------------------------
(* Every step.                                                             *)

\* The steps that tell the slots nothing and handle no event.
Silent ==
    \/ \E j \in Jobs : Click(j)
    \/ \E f \in Files : DeleteSgf(f) \/ DownloadGame(f)
    \/ JobRequested \/ ClickDownload \/ RequestDownload \/ CloseWindow \/ Pop
    \/ ServeMissing \/ ResultStored \/ StartDownload \/ RunWithoutId \/ PageFails
    \/ Closed \/ UNCHANGED vars

\* What a step is.
LEMMA StepCases ==
  ASSUME [Next]_vars
  PROVE  \/ Silent \/ JobServed \/ FinishDownload
         \/ \E j \in Jobs : JobSubmitted(j)
         \/ Slots
  BY DEF Next, User, PoolThread, WorkerThread, Silent, ServeNothing, Exited

\* They leave the events alone.
LEMMA SilentTells == Silent => UNCHANGED events /\ \A s : Pending(s)' <=> Pending(s)
<1>1. Silent => UNCHANGED events
  BY DEF Silent, Click, DeleteSgf, DownloadGame, JobRequested, ClickDownload,
     RequestDownload, CloseWindow, Pop, ServeMissing, ResultStored, StartDownload,
     RunWithoutId, PageFails, Closed, vars
<1> QED
  BY <1>1 DEF Pending

\* A slot is one of five.
LEMMA SlotCases ==
  ASSUME Slots
  PROVE  \E signal \in Signals : Slot(signal)
  BY DEF Slots, UpdateQueueView, AddInProgress, RemoveInProgress, DownloaderFinished,
     UpdateTable, Signals

-----------------------------------------------------------------------------
(* Every step, as the downloader and the table see it.                     *)

\* Nothing changes for them, and what is pending for them stays.
Unaffected ==
    /\ UNCHANGED downloadVars
    /\ gui' = "released" <=> gui = "released"
    /\ \A s \in {"update_table", "downloader_finished"} :
          /\ Pending(s)' <=> Pending(s)
          /\ Unique(SignalsOf(events), s) => Unique(SignalsOf(events'), s)

\* The steps of the others leave them unaffected.
LEMMA DownloadCases ==
  ASSUME Types, [Next]_vars
  PROVE  \/ Unaffected \/ ClickDownload \/ RequestDownload
         \/ StartDownload \/ RunWithoutId \/ PageFails \/ FinishDownload
         \/ \E f \in Files : DeleteSgf(f) \/ DownloadGame(f)
         \/ DownloaderFinished \/ UpdateTable
<1> DEFINE Same == /\ UNCHANGED <<downloadVars, events>>
                   /\ gui' = "released" <=> gui = "released"
<1>1. ASSUME NEW j \in Jobs, Click(j) PROVE Same
  BY <1>1 DEF Click
<1>2. JobRequested \/ CloseWindow \/ Pop \/ ServeMissing \/ ResultStored \/ Closed
         \/ UNCHANGED vars
      => Same
  BY DEF JobRequested, CloseWindow, Pop, ServeMissing, ResultStored, Closed, vars
<1>3. Same => Unaffected
  <2>1. UNCHANGED events => \A s : Pending(s)' <=> Pending(s)
    BY DEF Pending
  <2> QED
    BY <2>1 DEF Unaffected
<1>4. JobServed => Unaffected
  <2>1. JobServed => UNCHANGED <<downloadVars, gui>>
    BY DEF JobServed
  <2> QED
    BY <2>1, ServedTells DEF Unaffected
<1>5. ASSUME NEW j \in Jobs, JobSubmitted(j) PROVE Unaffected
  <2>1. UNCHANGED <<downloadVars, gui>>
    BY <1>5 DEF JobSubmitted
  <2> QED
    BY <1>5, <2>1, SubmittedTells DEF Unaffected
<1>6. UpdateQueueView \/ AddInProgress \/ RemoveInProgress => Unaffected
  <2> SUFFICES ASSUME UpdateQueueView \/ AddInProgress \/ RemoveInProgress PROVE Unaffected
    OBVIOUS
  <2>1. PICK signal \in {"update_queue_view", "job_served", "job_submitted"} : Slot(signal)
    BY DEF UpdateQueueView, AddInProgress, RemoveInProgress
  <2>2. UNCHANGED <<downloadVars, gui>>
    <3>1. UNCHANGED <<requests, running, missing, disk, gui>>
      BY <2>1 DEF Slot
    <3>2. UNCHANGED <<button, table>>
      BY DEF UpdateQueueView, AddInProgress, RemoveInProgress
    <3> QED
      BY <3>1, <3>2 DEF downloadVars
  <2>3. /\ \A s : Pending(s) <=> s = signal \/ Pending(s)'
        /\ \A s : Unique(SignalsOf(events), s) => Unique(SignalsOf(events'), s)
    BY <2>1, AfterSlot
  <2> QED
    BY <2>1, <2>2, <2>3 DEF Unaffected
<1> QED
  BY <1>1, <1>2, <1>3, <1>4, <1>5, <1>6, StepCases DEF Silent, Slots

-----------------------------------------------------------------------------
(* Types.                                                                  *)

\* The types are right from the start.
LEMMA TypesInit == Init => Types
<1>1. <<>> \in Seq(Jobs) /\ <<>> \in Seq(Events)
  OBVIOUS
<1>2. Init => queue = <<>> /\ events = <<>> /\ pool = "idle"
  BY DEF Init
<1>3. Init => queue \in Seq(Jobs) /\ events \in Seq(Events)
  BY <1>1, <1>2
<1> QED
  BY <1>2, <1>3 DEF Types

\* And no step leaves them.
LEMMA TypesStep == Types /\ [Next]_vars => Types'
<1> SUFFICES ASSUME Types, [Next]_vars PROVE Types'
  OBVIOUS
<1>1. events' \in Seq(Events)
  BY StepCases, SilentTells, ServedTells, FinishedTells, SubmittedTells, SlotCases, AfterSlot
     DEF Types
<1>2. queue' \in Seq(Jobs) /\ (pool' # "idle" => current' \in Jobs)
  <2>1. ASSUME NEW j \in Jobs, Click(j) PROVE queue' \in Seq(Jobs) /\ UNCHANGED <<pool, current>>
    BY <2>1, RangeOfAppend DEF Click, serverVars, Types
  <2>2. CASE Pop
    BY <2>2, HeadAndRest DEF Pop, Types
  <2>3. ASSUME NEW j \in Jobs, JobSubmitted(j) PROVE UNCHANGED queue /\ current' \in Jobs
    BY <2>3 DEF JobSubmitted
  <2>4. CASE JobServed \/ ServeMissing \/ ResultStored
    BY <2>4 DEF JobServed, ServeMissing, ResultStored, Types
  <2>5. Slots \/ FinishDownload => UNCHANGED <<queue, pool, current>>
    BY SlotCases DEF Slot, FinishDownload, Finish, serverVars
  <2>6. ASSUME NEW f \in Files, DeleteSgf(f) \/ DownloadGame(f)
        PROVE  UNCHANGED <<queue, pool, current>>
    BY <2>6 DEF DeleteSgf, DownloadGame, serverVars
  <2>7. JobRequested \/ ClickDownload \/ RequestDownload \/ CloseWindow \/ StartDownload
           \/ RunWithoutId \/ PageFails \/ Closed \/ UNCHANGED vars
        => UNCHANGED <<queue, pool, current>>
    BY DEF JobRequested, ClickDownload, RequestDownload, CloseWindow, StartDownload,
       RunWithoutId, PageFails, Closed, vars, serverVars
  <2> QED
    BY <2>1, <2>2, <2>3, <2>4, <2>5, <2>6, <2>7, StepCases DEF Silent, Types
<1> QED
  BY <1>1, <1>2 DEF Types

-----------------------------------------------------------------------------
(* The downloader.                                                         *)

\* No download has been asked for when the window opens.
LEMMA DownloadInit == Init => DownloadInv /\ TableInv
<1> SUFFICES ASSUME Init PROVE DownloadInv /\ TableInv
  OBVIOUS
<1>1. /\ requests = 0 /\ running = FALSE /\ button = TRUE /\ missing = {} /\ events = <<>>
      /\ disk = table /\ gui = "idle"
  BY DEF Init
<1>2. \A s : ~Pending(s) /\ Unique(SignalsOf(events), s)
  BY <1>1, EmptySeq DEF Pending, Unique, SignalsOf
<1>3. running \in BOOLEAN /\ button \in BOOLEAN /\ ~running /\ button
  BY <1>1
<1> QED
  BY <1>1, <1>2, <1>3 DEF DownloadInv, TableInv

\* A click asks for one download, which ends with one signal, which enables the
\* button again.
LEMMA DownloadStep == Types /\ DownloadInv /\ [Next]_vars => DownloadInv'
<1> SUFFICES ASSUME Types, DownloadInv, [Next]_vars PROVE DownloadInv'
  OBVIOUS
<1> DEFINE df == "downloader_finished"
<1>1. CASE Unaffected
  <2>1. /\ UNCHANGED <<requests, running, button, missing>>
        /\ gui' = "released" <=> gui = "released"
        /\ Pending(df)' <=> Pending(df)
        /\ Unique(SignalsOf(events), df) => Unique(SignalsOf(events'), df)
    BY <1>1 DEF Unaffected, downloadVars
  <2> QED
    BY <2>1 DEF DownloadInv
<1>2. ASSUME UNCHANGED events, NEW s
      PROVE  /\ Pending(s)' <=> Pending(s)
             /\ Unique(SignalsOf(events'), s) <=> Unique(SignalsOf(events), s)
  BY <1>2 DEF Pending
<1>3. CASE ClickDownload
  <2>1. /\ button /\ button' = FALSE /\ gui' = "released"
        /\ UNCHANGED <<requests, running, missing, events>>
    BY <1>3 DEF ClickDownload
  <2>2. requests = 0 /\ ~Pending(df)
    BY <2>1 DEF DownloadInv
  <2>3. ~button' /\ button' \in BOOLEAN
    BY <2>1
  <2>4. ~Pending(df)' /\ Unique(SignalsOf(events'), df)
    BY <1>2, <2>1, <2>2 DEF DownloadInv
  <2> QED
    BY <2>1, <2>2, <2>3, <2>4 DEF DownloadInv
<1>9. CASE RequestDownload
  <2>1. /\ gui = "released" /\ gui' = "idle" /\ requests' = requests + 1
        /\ UNCHANGED <<button, running, missing, events>>
    BY <1>9 DEF RequestDownload
  <2>2. requests = 0 /\ requests' = 1 /\ ~Pending(df) /\ ~button /\ ~running
    BY <2>1 DEF DownloadInv
  <2>3. ~Pending(df)' /\ Unique(SignalsOf(events'), df)
    BY <1>2, <2>1, <2>2 DEF DownloadInv
  <2> QED
    BY <2>1, <2>2, <2>3 DEF DownloadInv
\* A process that ends has a download asked for, so that the click that did it is
\* over.
<1>10. CASE RunWithoutId \/ PageFails
  <2>1. /\ requests > 0 \/ running
        /\ gui' = "closed" /\ UNCHANGED <<button, requests, running, missing, events>>
    BY <1>10 DEF RunWithoutId, PageFails, downloadVars
  <2>2. requests = 1 /\ gui # "released"
    BY <2>1 DEF DownloadInv
  <2> QED
    BY <1>2, <2>1, <2>2 DEF DownloadInv
<1>4. CASE StartDownload
  <2>1. requests > 0 /\ running' = TRUE /\ UNCHANGED <<button, requests, events, gui>>
    BY <1>4 DEF StartDownload
  <2>2. requests = 1
    BY <2>1 DEF DownloadInv
  <2> QED
    BY <1>2, <2>1, <2>2 DEF DownloadInv
<1>5. CASE FinishDownload
  <2>1. running /\ missing = {} /\ running' = FALSE /\ requests' = requests - 1
        /\ UNCHANGED <<button, missing, gui>>
    BY <1>5 DEF FinishDownload, Finish
  <2>2. requests = 1 /\ requests' = 0 /\ ~Pending(df) /\ ~button /\ gui # "released"
    BY <2>1 DEF DownloadInv
  <2>3. Pending(df)' /\ Unique(SignalsOf(events'), df)
    BY <1>5, <2>2, FinishedTells DEF DownloadInv
  <2> QED
    BY <2>1, <2>2, <2>3 DEF DownloadInv
<1>6. ASSUME NEW f \in Files, DeleteSgf(f) \/ DownloadGame(f) PROVE DownloadInv'
  <2>1. UNCHANGED <<button, requests, running, events, gui>>
    BY <1>6 DEF DeleteSgf, DownloadGame
  <2>2. missing' # {} => running
    BY <1>6 DEF DeleteSgf, DownloadGame, DownloadInv
  <2> QED
    BY <1>2, <2>1, <2>2 DEF DownloadInv
<1>7. CASE DownloaderFinished
  <2>1. Slot(df) /\ button' = TRUE
    BY <1>7 DEF DownloaderFinished
  <2>2. UNCHANGED <<requests, running, missing, gui>> /\ gui = "idle"
    BY <2>1 DEF Slot
  <2>3. Unique(SignalsOf(events), df)
           => Pending(df) /\ ~Pending(df)' /\ Unique(SignalsOf(events'), df)
    BY <2>1, AfterSlot
  <2> QED
    BY <2>1, <2>2, <2>3 DEF DownloadInv
<1>8. CASE UpdateTable
  <2>1. Slot("update_table") /\ UNCHANGED button
    BY <1>8 DEF UpdateTable
  <2>2. UNCHANGED <<requests, running, missing, gui>>
    BY <2>1 DEF Slot
  <2>3. /\ Pending(df)' <=> Pending(df)
        /\ Unique(SignalsOf(events), df) => Unique(SignalsOf(events'), df)
    BY <2>1, AfterSlot
  <2> QED
    BY <2>1, <2>2, <2>3 DEF DownloadInv
<1> QED
  BY <1>1, <1>3, <1>4, <1>5, <1>6, <1>7, <1>8, <1>9, <1>10, DownloadCases

\* The table is told after every download, and only a download adds files.
LEMMA TableStep == Types /\ DownloadInv /\ TableInv /\ [Next]_vars => TableInv'
<1> SUFFICES ASSUME Types, DownloadInv, TableInv, [Next]_vars PROVE TableInv'
  OBVIOUS
<1> DEFINE ut == "update_table"
<1>1. CASE Unaffected
  BY <1>1 DEF Unaffected, downloadVars, TableInv
<1>2. UNCHANGED events => (Pending(ut)' <=> Pending(ut))
  BY DEF Pending
<1>3. CASE ClickDownload \/ RunWithoutId \/ PageFails
  BY <1>2, <1>3 DEF ClickDownload, RunWithoutId, PageFails, downloadVars, TableInv
<1>10. CASE RequestDownload
  <2>1. requests' = requests + 1
    BY <1>10 DEF RequestDownload
  <2> QED
    BY <2>1 DEF DownloadInv, TableInv
<1>4. CASE StartDownload
  BY <1>4 DEF StartDownload, TableInv
<1>5. CASE FinishDownload
  BY <1>5, FinishedTells DEF TableInv
<1>6. ASSUME NEW f \in Files, DeleteSgf(f) PROVE TableInv'
  BY <1>2, <1>6 DEF DeleteSgf, TableInv
<1>7. ASSUME NEW f \in Files, DownloadGame(f) PROVE TableInv'
  <2>1. f \in missing /\ UNCHANGED requests
    BY <1>7 DEF DownloadGame
  <2>2. requests = 1
    BY <2>1 DEF DownloadInv
  <2> QED
    BY <2>1, <2>2 DEF TableInv
<1>8. CASE DownloaderFinished
  <2>1. Slot("downloader_finished") /\ UNCHANGED table
    BY <1>8 DEF DownloaderFinished
  <2>2. UNCHANGED <<requests, disk>>
    BY <2>1 DEF Slot
  <2>3. Pending(ut)' <=> Pending(ut)
    BY <2>1, AfterSlot
  <2> QED
    BY <2>1, <2>2, <2>3 DEF TableInv
<1>9. CASE UpdateTable
  <2>1. UNCHANGED disk /\ disk \subseteq table'
    BY <1>9 DEF UpdateTable, Slot
  <2> QED
    BY <2>1 DEF TableInv
<1> QED
  BY <1>1, <1>3, <1>4, <1>5, <1>6, <1>7, <1>8, <1>9, <1>10, DownloadCases

\* The invariant of the downloader, the button and the table.
LEMMA Downloads == Spec => [](Types /\ DownloadInv /\ TableInv)
<1>1. Init => Types /\ DownloadInv /\ TableInv
  BY TypesInit, DownloadInit
<1>2. Types /\ DownloadInv /\ TableInv /\ [Next]_vars => (Types /\ DownloadInv /\ TableInv)'
  BY TypesStep, DownloadStep, TableStep
<1> QED
  BY <1>1, <1>2, PTL DEF Spec

\* Two downloads never overlap or queue up, and the button is disabled from the
\* click to the signal (mainwindow.cpp).
THEOREM DownloadsAlone == Spec => []OneDownload
<1>1. Types /\ DownloadInv => OneDownload
  <2> SUFFICES ASSUME Types, DownloadInv PROVE OneDownload
    OBVIOUS
  <2> DEFINE df == "downloader_finished"
             At == {i \in DOMAIN events : events[i].signal = df}
  <2>1. \A i, k \in At : i = k
    BY DEF DownloadInv, Unique, SignalsOf
  <2>2. At = {} <=> ~Pending(df)
    BY DEF Pending
  <2>3. At = {} \/ \E i : At = {i}
    BY <2>1
  <2> HIDE DEF At
  <2>4. Cardinality(At) \in {0, 1} /\ (Cardinality(At) = 1 => Pending(df))
    BY <2>2, <2>3, FS_EmptySet, FS_Singleton
  <2>5. requests + Cardinality(At) <= 1
    BY <2>4 DEF DownloadInv
  <2> QED
    BY <2>5 DEF At, OneDownload, DownloadInv
<1> QED
  BY <1>1, Downloads, PTL

\* With the button enabled and the table told, the table shows every game on
\* disk (sgf_table_model.cpp).
THEOREM TableShowsAll == Spec => []TableSettles
<1>1. DownloadInv /\ TableInv => TableSettles
  BY DEF DownloadInv, TableInv, TableSettles
<1> QED
  BY <1>1, Downloads, PTL

-----------------------------------------------------------------------------
(* The queue's view.                                                       *)

\* An update is pending, or will be, whenever the view is behind.
LEMMA ViewStep == Types /\ QueueViewSettles /\ [Next]_vars => QueueViewSettles'
<1> SUFFICES ASSUME Types, QueueViewSettles, [Next]_vars PROVE QueueViewSettles'
  OBVIOUS
<1> DEFINE uq == "update_queue_view"
<1>1. UNCHANGED events => (Pending(uq)' <=> Pending(uq))
  BY DEF Pending
<1>2. UNCHANGED queue => QueueFiles' = QueueFiles
  BY DEF QueueFiles
<1>3. ASSUME Pending(uq)' <=> Pending(uq), UNCHANGED <<queue, queueView, dropped>>,
             gui' \in {"idle", "released"} => gui \in {"idle", "released"},
             pool = "popped" => pool' = "popped"
      PROVE  QueueViewSettles'
  BY <1>2, <1>3 DEF QueueViewSettles
<1>4. ASSUME NEW j \in Jobs, Click(j) PROVE QueueViewSettles'
  BY <1>4 DEF Click, QueueViewSettles
<1>5. CASE JobRequested
  BY <1>2, <1>5 DEF JobRequested, QueueViewSettles
<1>6. CASE Pop
  BY <1>6 DEF Pop, QueueViewSettles
<1>7. CASE JobServed
  BY <1>7, ServedTells DEF QueueViewSettles
<1>8. CASE ServeMissing
  BY <1>8 DEF ServeMissing, QueueViewSettles
<1>9. ASSUME NEW j \in Jobs, JobSubmitted(j) PROVE QueueViewSettles'
  <2>1. Pending(uq)' <=> Pending(uq)
    BY <1>9, SubmittedTells
  <2> QED
    BY <1>3, <1>9, <2>1 DEF JobSubmitted, viewVars
<1>10. CASE ResultStored \/ ClickDownload \/ RequestDownload \/ StartDownload
  BY <1>1, <1>3, <1>10
     DEF ResultStored, ClickDownload, RequestDownload, StartDownload, viewVars, serverVars
<1>11. CASE CloseWindow \/ RunWithoutId \/ PageFails \/ Closed
  BY <1>11 DEF CloseWindow, RunWithoutId, PageFails, Closed, QueueViewSettles
<1>12. ASSUME NEW f \in Files, DeleteSgf(f) \/ DownloadGame(f) PROVE QueueViewSettles'
  BY <1>1, <1>3, <1>12 DEF DeleteSgf, DownloadGame, viewVars, serverVars
<1>13. CASE UNCHANGED vars
  BY <1>1, <1>3, <1>13 DEF vars, viewVars, serverVars
<1>14. CASE FinishDownload
  <2>1. Pending(uq)' <=> Pending(uq)
    BY <1>14, FinishedTells
  <2> QED
    BY <1>3, <1>14, <2>1 DEF FinishDownload, Finish, viewVars, serverVars
<1>15. CASE UpdateQueueView
  BY <1>2, <1>15 DEF UpdateQueueView, Slot, QueueViewSettles
<1>16. ASSUME NEW signal \in {"job_served", "job_submitted", "downloader_finished", "update_table"},
              Slot(signal), UNCHANGED <<queueView, dropped>>
       PROVE  QueueViewSettles'
  <2>1. Pending(uq)' <=> Pending(uq)
    BY <1>16, AfterSlot
  <2> QED
    BY <1>3, <1>16, <2>1 DEF Slot, serverVars
<1>17. CASE AddInProgress \/ RemoveInProgress \/ DownloaderFinished \/ UpdateTable
  BY <1>16, <1>17 DEF AddInProgress, RemoveInProgress, DownloaderFinished, UpdateTable
<1> QED
  BY <1>4, <1>5, <1>6, <1>7, <1>8, <1>9, <1>10, <1>11, <1>12, <1>13, <1>14, <1>15, <1>17,
     StepCases DEF Silent, Slots

\* When the GUI thread has handled what it was told, its view shows the queue,
\* whatever the pool thread did between submit_job's two steps
\* (queue_view.cpp, work_server_wrapper.cpp).
THEOREM ViewShowsQueue == Spec => []QueueViewSettles
<1>1. Init => Types /\ QueueViewSettles
  <2>1. Init => QueueViewSettles
    BY EmptySeq DEF Init, QueueViewSettles, QueueFiles
  <2> QED
    BY <2>1, TypesInit
<1>2. Types /\ QueueViewSettles /\ [Next]_vars => (Types /\ QueueViewSettles)'
  BY TypesStep, ViewStep
<1> QED
  BY <1>1, <1>2, PTL DEF Spec

-----------------------------------------------------------------------------
(* The names of the results.                                               *)

\* The server makes up the names of the results.
LEMMA ResultsNamed == Spec => [](Types /\ ResultInv)
<1>1. Init => Types /\ ResultInv
  <2>1. Init => ResultInv
    BY DEF Init, ResultInv
  <2> QED
    BY <2>1, TypesInit
<1>2. Types /\ ResultInv /\ [Next]_vars => (Types /\ ResultInv)'
  <2> SUFFICES ASSUME Types, ResultInv, [Next]_vars PROVE ResultInv'
    BY TypesStep
  <2>1. CASE ResultStored
    BY <2>1 DEF ResultStored, Types, ResultInv
  <2>2. UNCHANGED results => ResultInv'
    BY DEF ResultInv
  <2>3. Slots \/ FinishDownload => UNCHANGED results
    BY SlotCases DEF Slot, FinishDownload, Finish, serverVars
  <2>4. ASSUME NEW j \in Jobs, Click(j) \/ JobSubmitted(j) PROVE UNCHANGED results
    BY <2>4 DEF Click, JobSubmitted, serverVars
  <2>5. ASSUME NEW f \in Files, DeleteSgf(f) \/ DownloadGame(f) PROVE UNCHANGED results
    BY <2>5 DEF DeleteSgf, DownloadGame, serverVars
  <2>6. JobRequested \/ ClickDownload \/ RequestDownload \/ CloseWindow \/ Pop \/ JobServed
           \/ ServeMissing \/ StartDownload \/ RunWithoutId \/ PageFails \/ Closed
           \/ UNCHANGED vars
        => UNCHANGED results
    BY DEF JobRequested, ClickDownload, RequestDownload, CloseWindow, Pop, JobServed,
       ServeMissing, StartDownload, RunWithoutId, PageFails, Closed, vars, serverVars
  <2> QED
    BY <2>1, <2>2, <2>3, <2>4, <2>5, <2>6, StepCases DEF Silent
<1> QED
  BY <1>1, <1>2, PTL DEF Spec

-----------------------------------------------------------------------------
(* The types of the rest.                                                  *)

\* What the threads keep and how far the window is.
StateTypes ==
    /\ pool \in {"idle", "popped", "storing"} /\ current \in Jobs \cup {NoJob}
    /\ out \in [Jobs -> Nat]
    /\ gui \in {"idle", "added", "released", "closing", "closed"} /\ id \in BOOLEAN
    /\ clicks \in 0 .. MaxClicks /\ dropped \in BOOLEAN

\* The files that are known are games.
FileTypes == missing \in SUBSET Files /\ disk \in SUBSET Files /\ table \in SUBSET Files

\* What the views show; a job that was served, and is not in progress yet, has
\* a bot.
ViewTypes ==
    /\ queueView \in Seq(Files) /\ progress \in Seq([path : Paths, bot : Bots])
    /\ \A e \in Range(events) : e.signal = "job_served" => e.bot \in Bots

\* The view shows files.
LEMMA FilesOfQueue == queue \in Seq(Jobs) => QueueFiles \in Seq(Files)
<1> SUFFICES ASSUME queue \in Seq(Jobs) PROVE QueueFiles \in Seq(Files)
  OBVIOUS
<1>1. Len(queue) \in Nat /\ DOMAIN queue = 1 .. Len(queue)
  BY LenProperties
<1>2. \A i \in 1 .. Len(queue) : queue[i] \in Jobs
  BY ElementOfSeq
<1>3. QueueFiles \in [1 .. Len(queue) -> Files]
  BY <1>1, <1>2 DEF QueueFiles, Jobs
<1> QED
  BY <1>1, <1>3, SMTT(30)

\* Only the files of an earlier window can be out with a worker, and they are
\* finitely many.
LEMMA StateInit == Init => StateTypes /\ FileTypes /\ ViewTypes
<1> SUFFICES ASSUME Init PROVE StateTypes /\ FileTypes /\ ViewTypes
  OBVIOUS
<1> DEFINE Out == {j \in Jobs : out[j] = 1}
           old == OldFiles \X Bots
           job == [p \in old |-> [file |-> p[1], bot |-> p[2]]]
<1>1. /\ out \in [Jobs -> 0 .. 1] /\ \A j \in Jobs : j.file \notin OldFiles => out[j] = 0
      /\ clicks = Cardinality(Out) /\ clicks <= MaxClicks
      /\ pool = "idle" /\ current = NoJob /\ gui = "idle" /\ id \in BOOLEAN /\ dropped = FALSE
  BY DEF Init
<1>2. IsFiniteSet(Out)
  <2>1. IsFiniteSet(old)
    BY GuiAssumption, FS_Product
  <2>2. ASSUME NEW j \in Out PROVE \E p \in old : j = job[p]
    <3>1. j \in [file : Files, bot : Bots] /\ j.file \in OldFiles
      BY <1>1, <2>2 DEF Jobs
    <3>2. <<j.file, j.bot>> \in old /\ j = [file |-> j.file, bot |-> j.bot]
      BY <3>1
    <3> QED
      BY <3>2
  <2> DEFINE all == {job[p] : p \in old}
  <2>3. Out \in SUBSET all
    BY <2>2
  <2> HIDE DEF old
  <2>4. job \in Surjection(old, all)
    BY DEF Surjection
  <2> HIDE DEF job, Out, all
  <2> QED
    BY <2>1, <2>3, <2>4, FS_Surjection, FS_Subset
<1>3. Cardinality(Out) \in Nat
  BY <1>2, FS_CardinalityType
<1> HIDE DEF Out
<1>4. StateTypes
  <2>1. out \in [Jobs -> Nat]
    BY <1>1
  <2>2. clicks \in 0 .. MaxClicks
    BY <1>1, <1>3, GuiAssumption
  <2> QED
    BY <1>1, <2>1, <2>2 DEF StateTypes
<1>5. FileTypes
  BY GuiAssumption DEF Init, FileTypes
<1>6. ViewTypes
  <2>1. queueView = <<>> /\ progress = <<>> /\ events = <<>>
    BY DEF Init
  <2>2. Range(events) = {}
    BY <2>1 DEF Range
  <2>3. queueView \in Seq(Files) /\ progress \in Seq([path : Paths, bot : Bots])
    BY <2>1
  <2> QED
    BY <2>2, <2>3 DEF ViewTypes
<1> QED
  BY <1>4, <1>5, <1>6

\* A worker has a job that was served, and sends it back once.
LEMMA StateStep == Types /\ StateTypes /\ [Next]_vars => StateTypes'
<1> SUFFICES ASSUME Types, StateTypes, [Next]_vars PROVE StateTypes'
  OBVIOUS
<1>1. ASSUME NEW j \in Jobs, Click(j) PROVE StateTypes'
  BY <1>1, GuiAssumption DEF Click, StateTypes, serverVars
<1>2. CASE JobRequested \/ CloseWindow \/ RunWithoutId \/ PageFails \/ Closed
  BY <1>2 DEF JobRequested, CloseWindow, RunWithoutId, PageFails, Closed, StateTypes, serverVars
<1>3. CASE Pop
  <2>1. Head(queue) \in Jobs
    BY <1>3, HeadAndRest DEF Pop, Types
  <2> QED
    BY <1>3, <2>1 DEF Pop, StateTypes
<1>4. CASE JobServed
  <2>1. current \in Jobs /\ out' = [out EXCEPT ![current] = @ + 1] /\ pool' = "idle"
    BY <1>4 DEF JobServed, Types
  <2>2. out' \in [Jobs -> Nat]
    BY <2>1 DEF StateTypes
  <2> QED
    BY <1>4, <2>1, <2>2 DEF JobServed, StateTypes
<1>5. ASSUME NEW j \in Jobs, JobSubmitted(j) PROVE StateTypes'
  <2>1. out[j] > 0 /\ out' = [out EXCEPT ![j] = @ - 1] /\ pool' = "storing" /\ current' = j
    BY <1>5 DEF JobSubmitted
  <2>2. out' \in [Jobs -> Nat]
    BY <2>1 DEF StateTypes
  <2> QED
    BY <1>5, <2>1, <2>2 DEF JobSubmitted, StateTypes
<1>6. CASE ServeMissing \/ ResultStored
  BY <1>6 DEF ServeMissing, ResultStored, StateTypes
<1>7. CASE ClickDownload \/ RequestDownload \/ StartDownload
  BY <1>7 DEF ClickDownload, RequestDownload, StartDownload, StateTypes, serverVars
<1>8. CASE FinishDownload
  BY <1>8 DEF FinishDownload, Finish, StateTypes, serverVars
<1>9. ASSUME NEW f \in Files, DeleteSgf(f) \/ DownloadGame(f) PROVE StateTypes'
  BY <1>9 DEF DeleteSgf, DownloadGame, StateTypes, serverVars
<1>10. CASE Slots
  <2>1. UNCHANGED <<pool, current, out, gui, id, clicks>>
    BY <1>10, SlotCases DEF Slot, serverVars
  <2>2. dropped' \in BOOLEAN
    BY <1>10 DEF Slots, UpdateQueueView, AddInProgress, RemoveInProgress, DownloaderFinished,
       UpdateTable, StateTypes
  <2> QED
    BY <2>1, <2>2 DEF StateTypes
<1>11. CASE UNCHANGED vars
  BY <1>11 DEF vars, StateTypes, serverVars
<1> QED
  BY <1>1, <1>2, <1>3, <1>4, <1>5, <1>6, <1>7, <1>8, <1>9, <1>10, <1>11, StepCases DEF Silent

\* Downloads bring games, and the table lists what is on disk.
LEMMA FileStep == Types /\ FileTypes /\ [Next]_vars => FileTypes'
<1> SUFFICES ASSUME Types, FileTypes, [Next]_vars PROVE FileTypes'
  OBVIOUS
<1>1. CASE Unaffected
  BY <1>1 DEF Unaffected, downloadVars, FileTypes
<1>2. CASE ClickDownload \/ RequestDownload \/ RunWithoutId \/ PageFails
  BY <1>2 DEF ClickDownload, RequestDownload, RunWithoutId, PageFails, downloadVars, FileTypes
<1>3. CASE StartDownload
  BY <1>3 DEF StartDownload, FileTypes
<1>4. CASE FinishDownload
  BY <1>4 DEF FinishDownload, Finish, FileTypes
<1>5. ASSUME NEW f \in Files, DeleteSgf(f) \/ DownloadGame(f) PROVE FileTypes'
  BY <1>5 DEF DeleteSgf, DownloadGame, FileTypes
<1>6. CASE DownloaderFinished \/ UpdateTable
  BY <1>6 DEF DownloaderFinished, UpdateTable, Slot, FileTypes
<1> QED
  BY <1>1, <1>2, <1>3, <1>4, <1>5, <1>6, DownloadCases

\* The events of the pool thread name the bot of its job.
LEMMA ServedBots ==
  ASSUME Types, ViewTypes, [Next]_vars
  PROVE  \A e \in Range(events') : e.signal = "job_served" => e.bot \in Bots
<1> DEFINE Good(es) == \A x \in Range(es) : x.signal = "job_served" => x.bot \in Bots
<1>1. Good(events) /\ events \in Seq(Events)
  BY DEF ViewTypes, Types
<1>2. ASSUME NEW told \in Seq(Events), Good(told), events' = events \o told PROVE Good(events')
  <2>1. Range(events') = Range(events) \cup Range(told)
    BY <1>1, <1>2, RangeOfConcat
  <2> QED
    BY <1>1, <1>2, <2>1
<1>3. ASSUME Silent PROVE Good(events')
  BY <1>1, <1>3, SilentTells
<1>4. ASSUME JobServed PROVE Good(events')
  <2> DEFINE n == Notice("update_queue_view")
             e == Event("job_served", SgfPath(current.file), current.bot)
  <2>1. n \in Events /\ e \in Events /\ n.signal # "job_served" /\ e.bot \in Bots
    <3>1. current \in Jobs
      BY <1>4 DEF Types, JobServed
    <3> QED
      BY <3>1, EventsType DEF Signals, Notice, Event, Jobs
  <2>2. events' = events \o <<n, e>>
    BY <1>4 DEF JobServed
  <2> HIDE DEF n, e
  <2>3. <<n, e>> \in Seq(Events) /\ Range(<<n, e>>) = {n, e}
    BY <2>1 DEF Range
  <2>4. Good(<<n, e>>)
    BY <2>1, <2>3
  <2> HIDE DEF Good
  <2> QED
    BY <1>2, <2>2, <2>3, <2>4
<1>5. ASSUME NEW j \in Jobs, JobSubmitted(j) PROVE Good(events')
  <2> DEFINE e == Event("job_submitted", SaveLocation(j), j.bot)
  <2>1. e \in Events /\ e.signal = "job_submitted"
    BY EventsType DEF Signals, Event
  <2>2. events' = Append(events, e)
    BY <1>5 DEF JobSubmitted
  <2> HIDE DEF e
  <2>3. Range(events') = Range(events) \cup {e}
    BY <1>1, <2>1, <2>2, RangeOfAppend
  <2> QED
    BY <1>1, <2>1, <2>3
<1>6. ASSUME FinishDownload PROVE Good(events')
  <2> DEFINE n == Notice("downloader_finished")
             e == Notice("update_table")
  <2>1. n \in Events /\ e \in Events /\ n.signal # "job_served" /\ e.signal # "job_served"
    BY EventsType DEF Signals, Notice, Event
  <2>2. events' = events \o <<n, e>>
    BY <1>6 DEF FinishDownload, Finish
  <2> HIDE DEF n, e
  <2>3. <<n, e>> \in Seq(Events) /\ Range(<<n, e>>) = {n, e}
    BY <2>1 DEF Range
  <2>4. Good(<<n, e>>)
    BY <2>1, <2>3
  <2> HIDE DEF Good
  <2> QED
    BY <1>2, <2>2, <2>3, <2>4
<1>7. ASSUME Slots PROVE Good(events')
  <2>1. events # <<>> /\ events' = Tail(events)
    BY <1>7, SlotCases DEF Slot
  <2>2. Range(events') \subseteq Range(events)
    BY <1>1, <2>1, HeadAndRest
  <2> QED
    BY <1>1, <2>2
<1> HIDE DEF Good
<1>8. Good(events')
  BY <1>3, <1>4, <1>5, <1>6, <1>7, StepCases
<1> QED
  BY <1>8 DEF Good

\* A job is in progress once it was served, until it is submitted.
LEMMA ViewTypesStep == Types /\ ViewTypes /\ [Next]_vars => ViewTypes'
<1> SUFFICES ASSUME Types, ViewTypes, [Next]_vars PROVE ViewTypes'
  OBVIOUS
<1> DEFINE Entries == [path : Paths, bot : Bots]
<1>1. QueueFiles \in Seq(Files)
  BY FilesOfQueue DEF Types
<1>2. queueView' \in Seq(Files)
  <2>1. CASE JobRequested \/ UpdateQueueView
    BY <1>1, <2>1 DEF JobRequested, UpdateQueueView
  <2>2. ASSUME NEW j \in Jobs, Click(j) \/ JobSubmitted(j) PROVE UNCHANGED queueView
    BY <2>2 DEF Click, JobSubmitted, viewVars
  <2>3. ASSUME NEW f \in Files, DeleteSgf(f) \/ DownloadGame(f) PROVE UNCHANGED queueView
    BY <2>3 DEF DeleteSgf, DownloadGame, viewVars
  <2>4. ClickDownload \/ RequestDownload \/ CloseWindow \/ Pop \/ ServeMissing
           \/ ResultStored \/ StartDownload \/ RunWithoutId \/ PageFails \/ Closed
           \/ JobServed \/ FinishDownload \/ UNCHANGED vars
        => UNCHANGED queueView
    BY DEF ClickDownload, RequestDownload, CloseWindow, Pop, ServeMissing, ResultStored,
       StartDownload, RunWithoutId, PageFails, Closed, JobServed, FinishDownload, Finish,
       vars, viewVars
  <2>5. AddInProgress \/ RemoveInProgress \/ DownloaderFinished \/ UpdateTable
        => UNCHANGED queueView
    BY DEF AddInProgress, RemoveInProgress, DownloaderFinished, UpdateTable
  <2> QED
    BY <2>1, <2>2, <2>3, <2>4, <2>5, StepCases DEF Silent, Slots, ViewTypes
<1>3. progress' \in Seq(Entries)
  <2>1. progress \in Seq(Entries)
    BY DEF ViewTypes
  <2>2. CASE AddInProgress
    <3> DEFINE e == Head(events)
    <3>1. events \in Seq(Events) /\ events # <<>> /\ e.signal = "job_served"
      BY <2>2 DEF AddInProgress, Slot, Types
    <3>2. e \in Events /\ e \in Range(events)
      BY <3>1, HeadAndRest
    <3>3. e.path \in Paths /\ e.bot \in Bots
      BY <3>1, <3>2 DEF Events, ViewTypes
    <3>4. progress' = Append(progress, [path |-> e.path, bot |-> e.bot])
      BY <2>2 DEF AddInProgress
    <3> QED
      BY <2>1, <3>3, <3>4, RangeOfAppend
  <2>3. CASE RemoveInProgress
    <3>1. PICK S : progress' = Keep(progress, S)
      BY <2>3 DEF RemoveInProgress
    <3> QED
      BY <2>1, <3>1, KeepHolds
  <2>4. ASSUME NEW j \in Jobs, Click(j) \/ JobSubmitted(j) PROVE UNCHANGED progress
    BY <2>4 DEF Click, JobSubmitted, viewVars
  <2>5. ASSUME NEW f \in Files, DeleteSgf(f) \/ DownloadGame(f) PROVE UNCHANGED progress
    BY <2>5 DEF DeleteSgf, DownloadGame, viewVars
  <2>6. JobRequested \/ ClickDownload \/ RequestDownload \/ CloseWindow \/ Pop
           \/ ServeMissing \/ ResultStored \/ StartDownload \/ RunWithoutId \/ PageFails
           \/ Closed \/ JobServed \/ FinishDownload \/ UNCHANGED vars
        => UNCHANGED progress
    BY DEF JobRequested, ClickDownload, RequestDownload, CloseWindow, Pop, ServeMissing,
       ResultStored, StartDownload, RunWithoutId, PageFails, Closed, JobServed,
       FinishDownload, Finish, vars, viewVars
  <2>7. UpdateQueueView \/ DownloaderFinished \/ UpdateTable => UNCHANGED progress
    BY DEF UpdateQueueView, DownloaderFinished, UpdateTable
  <2> QED
    BY <2>1, <2>2, <2>3, <2>4, <2>5, <2>6, <2>7, StepCases DEF Silent, Slots
<1> QED
  BY <1>2, <1>3, ServedBots DEF ViewTypes

\* The window's and the server's data keep their types: a worker is never owed
\* a job less than none, only jobs with a bot are listed as in progress, and
\* the pool thread always has the job it works on (progress_view.cpp,
\* work_server.cpp).
THEOREM TypeCorrect == Spec => []TypeOK
<1>1. Init => StateTypes /\ FileTypes /\ ViewTypes
  BY StateInit
<1>2. /\ Types /\ StateTypes /\ FileTypes /\ ViewTypes /\ [Next]_vars
      => (StateTypes /\ FileTypes /\ ViewTypes)'
  BY StateStep, FileStep, ViewTypesStep
<1>3. ResultInv => results \in SUBSET Paths
  BY DEF ResultInv, Paths
<1>4. /\ Types /\ DownloadInv /\ ResultInv /\ StateTypes /\ FileTypes /\ ViewTypes
      => TypeOK
  BY <1>3 DEF Types, DownloadInv, StateTypes, FileTypes, ViewTypes, TypeOK, Events
<1> QED
  BY <1>1, <1>2, <1>4, Downloads, ResultsNamed, PTL DEF Spec

=============================================================================
