---------------------------- MODULE AutoGrpProofs ---------------------------
(***************************************************************************)
(* Proofs about AutoGrp, for every list of games, every list of bots, any  *)
(* number of workers and any number of faults of every kind.  First what   *)
(* holds of every list of bots: types, and that no job is dropped.  Then,  *)
(* where config.ini names each bot once, that a job is in one place at a   *)
(* time, that a stored result stays, and that AutoGrp implements           *)
(* JobLifecycle.  Last, what counts: however often a bot is named and an sgf*)
(* is deleted, no job is handed out more often than the list and the       *)
(* deletions account for; and what the configuration makes of a list.      *)
(***************************************************************************)
EXTENDS AutoGrp, Config, SequenceFacts

AtWork == {"reply", "work", "result", "saving", "resend"}

\* The downloader keeps nothing between two runs, and writes one file at a
\* time, one it still has to fetch.
DlInv ==
    /\ dl.pc = "waiting" => dl = Waiting
    /\ dl.open \subseteq dl.todo
    /\ \A g, h \in dl.open : g = h

\* Only jobs that config.ini asks for are queued and handed out.
JobInv ==
    /\ Range(queue) \subseteq AllJobs
    /\ \A w \in Workers : wpc[w] \in AtWork => wjob[w] \in AllJobs

\* Without the server's process there is neither queue nor local worker.
DownInv ==
    ~up => /\ queue = <<>> /\ dl.pc = "waiting"
           /\ \A w \in Local : wpc[w] = "dead"

-----------------------------------------------------------------------------
(* Lemmas about the operators of the model.                                *)

\* The k-th of m * n things, counted row by row, lies in one of the m rows
\* and in one of the n columns.
LEMMA RowAndColumn ==
  ASSUME NEW n \in Nat \ {0}, NEW m \in Nat, NEW k \in 1 .. m * n
  PROVE  ((k - 1) \div n) + 1 \in 1 .. m /\ ((k - 1) % n) + 1 \in 1 .. n
<1> DEFINE q == (k - 1) \div n
           r == (k - 1) % n
<1>1. q \in Int /\ r \in 0 .. n - 1 /\ k - 1 = q * n + r
  OBVIOUS
<1> HIDE DEF q, r
<1>2. m * n \in Nat /\ k \in Int
  OBVIOUS
<1>3. q >= 0
  <2> SUFFICES ASSUME q <= -1 PROVE FALSE
    BY <1>1
  <2>1. q * n <= (-1) * n
    BY <1>1
  <2> QED
    BY <1>1, <1>2, <2>1
<1>4. q < m
  <2> SUFFICES ASSUME q >= m PROVE FALSE
    BY <1>1
  <2>1. q * n >= m * n
    BY <1>1
  <2> QED
    BY <1>1, <1>2, <2>1
<1> QED
  BY <1>1, <1>3, <1>4 DEF q, r

\* The thing in column b of row a has a number, and is found by it.
LEMMA NumberOf ==
  ASSUME NEW n \in Nat \ {0}, NEW m \in Nat, NEW a \in 1 .. m, NEW b \in 1 .. n
  PROVE  /\ (a - 1) * n + b \in 1 .. m * n
         /\ (((a - 1) * n + b - 1) \div n) + 1 = a
         /\ (((a - 1) * n + b - 1) % n) + 1 = b
<1> DEFINE k == (a - 1) * n + b
<1>1. k \in 1 .. m * n
  OBVIOUS
<1>2. (k - 1) \div n = a - 1
  OBVIOUS
<1>3. (k - 1) % n = b - 1
  OBVIOUS
<1> QED
  BY <1>1, <1>2, <1>3

\* The jobs of some games are a sequence of jobs, one per game and bot.
LEMMA JobsForType ==
  ASSUME NEW games \in Seq(Games)
  PROVE  /\ JobsFor(games) \in Seq(AllJobs)
         /\ Range(JobsFor(games)) = UNION {JobsOf(g) : g \in Range(games)}
<1> DEFINE n == Len(BotList)
           m == Len(games)
<1>1. n \in Nat /\ m \in Nat /\ m * n \in Nat
  BY PipelineAssumption, LenProperties
<1>2. \A i \in 1 .. m : games[i] \in Games
  BY ElementOfSeq
<1>3. DOMAIN games = 1 .. m /\ DOMAIN BotList = 1 .. n
  BY PipelineAssumption, LenProperties
<1>4. ASSUME NEW k \in 1 .. m * n
      PROVE  /\ n > 0
             /\ ((k - 1) \div n) + 1 \in 1 .. m
             /\ ((k - 1) % n) + 1 \in 1 .. n
  <2>1. n # 0
    BY <1>1
  <2> QED
    BY <1>1, <2>1, RowAndColumn
<1>5. ASSUME NEW k \in 1 .. m * n
      PROVE  /\ JobsFor(games)[k].game = games[((k - 1) \div n) + 1]
             /\ JobsFor(games)[k] \in JobsOf(games[((k - 1) \div n) + 1])
             /\ games[((k - 1) \div n) + 1] \in Range(games) \cap Games
  BY <1>2, <1>3, <1>4 DEF JobsFor, JobsOf, Range
<1>6. JobsFor(games) \in [1 .. m * n -> AllJobs]
  BY <1>5 DEF AllJobs, JobsFor
<1>7. JobsFor(games) \in Seq(AllJobs)
  BY <1>1, <1>6 
<1>8. ASSUME NEW g \in Range(games), NEW j \in JobsOf(g)
      PROVE  j \in Range(JobsFor(games))
  <2>1. PICK a \in 1 .. m : games[a] = g
    BY <1>3 DEF Range
  <2>2. PICK b \in 1 .. n : BotList[b] = j.bot /\ j.game = g
    BY <1>3 DEF Range, JobsOf
  <2> DEFINE k == (a - 1) * n + b
  <2>3. n \in Nat \ {0}
    BY <1>1
  <2>4. k \in 1 .. m * n /\ ((k - 1) \div n) + 1 = a /\ ((k - 1) % n) + 1 = b
    <3> HIDE DEF n, m
    <3> QED
      BY <1>1, <2>3, NumberOf
  <2>5. JobsFor(games)[k] = [game |-> g, bot |-> j.bot]
    BY <2>1, <2>2, <2>4 DEF JobsFor
  <2>6. j = [game |-> g, bot |-> j.bot]
    BY <2>2 DEF JobsOf
  <2> QED
    BY <2>4, <2>5, <2>6 DEF JobsFor, Range
<1>9. DOMAIN JobsFor(games) = 1 .. m * n
  BY DEF JobsFor
<1>10. ASSUME NEW j \in Range(JobsFor(games))
       PROVE  \E g \in Range(games) : j \in JobsOf(g)
  BY <1>5, <1>9 DEF Range
<1> QED
  BY <1>7, <1>8, <1>10

\* Each bot on the list is a bot, so that every job asked for is a job.
LEMMA AllJobsAreJobs == AllJobs \subseteq Jobs /\ \A g \in Games : JobsOf(g) \subseteq AllJobs
<1>1. Range(BotList) \subseteq Bots
  BY PipelineAssumption, ElementOfSeq, LenProperties DEF Range
<1> QED
  BY <1>1 DEF AllJobs, JobsOf, Jobs

\* A worker holds its own job while it is at work, and nothing otherwise.
LEMMA HoldingOf ==
  ASSUME NEW w \in Workers
  PROVE  Holding(w) = IF wpc[w] \in AtWork THEN {wjob[w]} ELSE {}
  BY DEF Holding, AtWork

-----------------------------------------------------------------------------
(* Every step is one of these, whatever brought it about.                  *)

StepKind ==
    \/ ServerStops
    \/ \E w \in Workers : WorkerStops(w)
    \/ Restart \/ StartRun \/ FetchPage \/ QueueJobs
    \/ dl.todo # {} /\ \E i \in DOMAIN Pages[dl.page] : OpenSgf(i)
    \/ \E g \in Games : Store(g, "good") \/ Store(g, "bad")
    \/ \E w \in Workers : \/ Serve(w) \/ ServeMissing(w) \/ Receive(w) \/ ReplyLost(w)
                          \/ ReplyTruncated(w) \/ Analyse(w) \/ AnalysisFails(w)
                          \/ Submit(w) \/ Saved(w) \/ AnswerLost(w) \/ GiveUp(w)
                          \/ WorkerRestart(w)
    \/ \E g \in Games : GameEnds(g) \/ UserDeletes(g)
    \/ UNCHANGED vars

\* An exception, an assertion and a crash end a process alike.
LEMMA StepCases == [Next]_vars => StepKind
<1> SUFFICES ASSUME [Next]_vars PROVE StepKind
  OBVIOUS
<1> USE DEF StepKind
<1>1. CASE Downloader
  BY <1>1 DEF Downloader, RunWithoutId, Download
<1>2. CASE FaultyStep
  <2> USE <1>2 DEF FaultyStep
  <2>1. CASE Crash \/ PageFails
    BY <2>1 DEF Crash, PageFails
  <2>2. CASE \E g \in Games : DownloadFails(g)
    BY <2>2 DEF DownloadFails
  <2>3. ASSUME NEW w \in Workers,
               WorkerCrash(w) \/ AnalysisThrows(w) \/ SubmitLost(w)
        PROVE  StepKind
    BY <2>3 DEF WorkerCrash, AnalysisThrows, SubmitLost, Dies
  <2> QED
    BY <2>1, <2>2, <2>3
<1>3. ASSUME NEW w \in Workers, WorkerLoop(w) \/ WorkerRestart(w) PROVE StepKind
  BY <1>3 DEF WorkerLoop, SubmitNothing, SubmitRefused, Dies
<1> QED
  BY <1>1, <1>2, <1>3 DEF Next

-----------------------------------------------------------------------------
(* Types.                                                                  *)

\* TypeOK needs them: a job that is lost was a job.
Ind == TypeOK /\ DlInv /\ JobInv /\ DownInv

\* The programs start with their types, and with nothing under way.
LEMMA IndInit == Init => Ind
<1> SUFFICES ASSUME Init PROVE Ind
  OBVIOUS
<1>1. <<>> \in Seq(Jobs) /\ <<>> \in Seq(Games) /\ Len(Pages) \in Nat /\ Range(<<>>) = {}
  BY PipelineAssumption, EmptySeq, LenProperties DEF Range
<1> QED
  BY <1>1, PipelineAssumption
  DEF Init, Ind, TypeOK, DlInv, JobInv, DownInv, Waiting, Downloads, AtWork

\* The number of faults stays within its bound.
LEMMA FaultsBounded == faults \in 0 .. MaxFaults /\ [Next]_vars => faults' \in 0 .. MaxFaults
<1> SUFFICES ASSUME faults \in 0 .. MaxFaults, [Next]_vars PROVE faults' \in 0 .. MaxFaults
  OBVIOUS
<1>1. ASSUME NEW K, Fault(K) PROVE faults' \in 0 .. MaxFaults
  BY <1>1, PipelineAssumption DEF Fault
<1>2. CASE UNCHANGED vars
  BY <1>2 DEF vars, history
<1>3. CASE Downloader \/ Restart
  BY <1>3 DEF Downloader, Restart, StartRun, RunWithoutId, FetchPage, QueueJobs, OpenSgf, Download,
     history
<1>4. CASE FaultyStep
  BY <1>1, <1>4 DEF FaultyStep, Crash, PageFails, DownloadFails, WorkerCrash, ReplyLost,
     ReplyTruncated, AnalysisFails, AnalysisThrows, SubmitLost, AnswerLost
<1>5. ASSUME NEW w \in Workers, WorkerLoop(w) \/ WorkerRestart(w)
      PROVE  faults' = faults
  BY <1>5 DEF WorkerLoop, WorkerRestart, Serve, ServeMissing, Receive, Analyse, SubmitNothing,
     Submit, Saved, SubmitRefused, history
<1>6. ASSUME NEW g \in Games, GameEnds(g) \/ UserDeletes(g) PROVE faults' = faults
  BY <1>6 DEF GameEnds, UserDeletes, history
<1> QED
  BY <1>2, <1>3, <1>4, <1>5, <1>6 DEF Next

\* What is lost was a job.
LEMMA LoseType ==
  ASSUME lost \in SUBSET Jobs, NEW S \in SUBSET Jobs, Lose(S)
  PROVE  lost' \in SUBSET Jobs
  BY DEF Lose

\* A worker at work holds a job that was asked for.
LEMMA HoldingType ==
  ASSUME JobInv, NEW w \in Workers
  PROVE  Holding(w) \subseteq AllJobs /\ Holding(w) \subseteq Jobs
  BY HoldingOf, AllJobsAreJobs DEF JobInv

\* The steps of workers and users that leave the server's memory alone, and
\* where they take a worker: one that was at no work gets none.
LEMMA WorkerSteps ==
  ASSUME TypeOK, NEW w \in Workers,
         \/ WorkerStops(w) \/ Receive(w) \/ ReplyLost(w) \/ ReplyTruncated(w) \/ Analyse(w)
         \/ AnalysisFails(w) \/ Submit(w) \/ Saved(w) \/ AnswerLost(w) \/ GiveUp(w)
         \/ WorkerRestart(w)
  PROVE  /\ UNCHANGED <<up, queue, dl, wjob>>
         /\ \E s \in AtWork \cup {"idle", "dead"} :
               /\ wpc' = [wpc EXCEPT ![w] = s]
               /\ s \in AtWork => wpc[w] \in AtWork
               /\ wpc[w] = "dead" => s = "dead" \/ w \notin Local
<1> USE DEF TypeOK, AtWork, server, worker, history
<1>1. CASE WorkerStops(w) \/ Receive(w) \/ ReplyLost(w) \/ ReplyTruncated(w)
  BY <1>1 DEF WorkerStops, Receive, ReplyLost, ReplyTruncated
<1>2. CASE Analyse(w) \/ AnalysisFails(w) \/ Submit(w) \/ Saved(w)
  BY <1>2 DEF Analyse, AnalysisFails, Submit, Posting, Saved
<1>3. CASE AnswerLost(w) \/ GiveUp(w) \/ WorkerRestart(w)
  BY <1>3 DEF AnswerLost, GiveUp, Posting, WorkerRestart
<1> QED
  BY <1>1, <1>2, <1>3

\* The downloader's list of new files is empty between its runs.
LEMMA DlStep == TypeOK /\ DlInv /\ StepKind => DlInv'
<1> SUFFICES ASSUME TypeOK, DlInv, StepKind PROVE DlInv'
  OBVIOUS
<1>1. CASE UNCHANGED dl
  BY <1>1 DEF DlInv, Waiting
<1>2. CASE ServerStops \/ QueueJobs
  <2>1. dl' = Waiting
    BY <1>2 DEF ServerStops, QueueJobs
  <2> QED
    BY <2>1 DEF DlInv, Waiting
<1>3. CASE StartRun
  BY <1>3 DEF StartRun, DlInv, Waiting
<1>4. CASE FetchPage
  BY <1>4 DEF FetchPage, DlInv, Waiting, TypeOK, Downloads
<1>5. ASSUME NEW i \in DOMAIN Pages[dl.page], OpenSgf(i) PROVE DlInv'
  BY <1>5 DEF OpenSgf, DlInv, Waiting, TypeOK, Downloads
<1>6. ASSUME NEW g \in Games, Store(g, "good") \/ Store(g, "bad") PROVE DlInv'
  <2>1. dl.pc # "waiting"
    BY <1>6 DEF Store, DlInv, Waiting
  <2>2. dl'.pc = dl.pc /\ dl'.open = {}
    BY <1>6 DEF Store, TypeOK, Downloads
  <2> QED
    BY <2>1, <2>2 DEF DlInv
<1>7. ASSUME NEW w \in Workers, Serve(w) \/ ServeMissing(w) PROVE UNCHANGED dl
  BY <1>7 DEF Serve, ServeMissing
<1>8. ASSUME NEW g \in Games, GameEnds(g) \/ UserDeletes(g) PROVE UNCHANGED dl
  BY <1>8 DEF GameEnds, UserDeletes, server
<1>9. CASE Restart \/ UNCHANGED vars
  BY <1>1, <1>9 DEF Restart, vars, server
<1> QED
  BY <1>1, <1>2, <1>3, <1>4, <1>5, <1>6, <1>7, <1>8, <1>9, WorkerSteps DEF StepKind

\* Which workers the end of the server's process hits, and which jobs are lost
\* with it: those the server knew of and those of the workers it hits.
Hit(again) == {w \in Workers : w \in Local \/ wpc[w] \in {"reply", "saving"}} \ again
Forgotten(again) ==
    Range(queue) \cup (UNION {JobsOf(g) : g \in dl.open \cup Range(dl.new)})
        \cup (UNION {Holding(w) : w \in Hit(again)})

\* The server's process ends with its local workers; a worker that was being
\* answered dies or posts its result again.
LEMMA ServerEnd ==
  ASSUME TypeOK, ServerStops
  PROVE  \E again \in SUBSET {w \in Workers \ Local : wpc[w] = "saving"} :
            /\ Lose(Forgotten(again))
            /\ \A w \in Workers :
                  wpc'[w] = IF w \in Local THEN "dead"
                            ELSE IF w \in Hit(again) THEN "idle"
                            ELSE IF w \in again THEN "resend" ELSE wpc[w]
            /\ wpc' \in [Workers -> AtWork \cup {"idle", "dead"}]
            /\ UNCHANGED <<ended, sgf, rsgf, id, wjob, body, temp, deletes, served>>
            /\ up' = FALSE /\ queue' = <<>> /\ dl' = Waiting
<1>1. PICK again \in SUBSET {w \in Workers \ Local : wpc[w] = "saving"} :
         /\ Lose(Forgotten(again))
         /\ wpc' = [w \in Workers |->
                      IF w \in Local THEN "dead"
                      ELSE IF w \in Hit(again) THEN "idle"
                      ELSE IF w \in again THEN "resend" ELSE wpc[w]]
         /\ UNCHANGED <<ended, sgf, rsgf, id, wjob, body, temp, deletes, served>>
         /\ up' = FALSE /\ queue' = <<>> /\ dl' = Waiting
  BY DEF ServerStops, Hit, Forgotten
<1>2. wpc' \in [Workers -> AtWork \cup {"idle", "dead"}]
  BY <1>1 DEF TypeOK, AtWork
<1> QED
  BY <1>1, <1>2

\* What the server forgets were jobs that config.ini asked for.
LEMMA ForgottenType ==
  ASSUME TypeOK, JobInv, NEW again
  PROVE  Forgotten(again) \subseteq AllJobs /\ Forgotten(again) \in SUBSET Jobs
<1>1. Range(dl.new) \subseteq Games /\ dl.open \subseteq Games
  BY RangeInSet DEF TypeOK, Downloads
<1>2. \A g \in dl.open \cup Range(dl.new) : JobsOf(g) \subseteq AllJobs
  BY <1>1, AllJobsAreJobs
<1>3. \A w \in Hit(again) : Holding(w) \subseteq AllJobs
  BY HoldingType DEF Hit
<1>4. Range(queue) \subseteq AllJobs
  BY DEF JobInv
<1> QED
  BY <1>2, <1>3, <1>4, AllJobsAreJobs DEF Forgotten

\* Queued jobs come from the list of bots, and workers get theirs from the queue.
LEMMA JobStep == TypeOK /\ JobInv /\ StepKind => JobInv'
<1> SUFFICES ASSUME TypeOK, JobInv, StepKind PROVE JobInv'
  OBVIOUS
<1>1. CASE UNCHANGED <<queue, wpc, wjob>>
  BY <1>1 DEF JobInv
<1>2. CASE ServerStops
  <2>1. Range(<<>>) = {}
    BY EmptySeq DEF Range
  <2> QED
    BY <1>2, <2>1, ServerEnd DEF JobInv, AtWork
<1>3. ASSUME NEW w \in Workers, NEW s \in AtWork \cup {"idle", "dead"},
             UNCHANGED <<queue, wjob>>, wpc' = [wpc EXCEPT ![w] = s],
             s \in AtWork => wpc[w] \in AtWork
      PROVE  JobInv'
  BY <1>3 DEF JobInv, TypeOK
<1>4. CASE Restart
  BY <1>4 DEF Restart, JobInv, TypeOK, AtWork, server
<1>5. CASE QueueJobs
  <2>1. dl.new \in Seq(Games)
    BY DEF TypeOK, Downloads
  <2>2. JobsFor(dl.new) \in Seq(Jobs) /\ Range(JobsFor(dl.new)) \subseteq AllJobs
    BY <2>1, JobsForType, AllJobsAreJobs, SeqMonotonic, RangeInSet
  <2>3. Range(queue') \subseteq AllJobs
    BY <1>5, <2>2, RangeOfConcat DEF QueueJobs, TypeOK, JobInv
  <2> QED
    BY <1>5, <2>3 DEF QueueJobs, worker, JobInv
<1>6. ASSUME NEW w \in Workers, Serve(w) PROVE JobInv'
  <2>1. Head(queue) \in AllJobs /\ Range(Tail(queue)) \subseteq AllJobs
    BY <1>6, HeadAndRest DEF Serve, TypeOK, JobInv
  <2> QED
    BY <1>6, <2>1 DEF Serve, TypeOK, JobInv
<1>7. ASSUME NEW w \in Workers, ServeMissing(w) PROVE JobInv'
  <2>1. Range(Tail(queue)) \subseteq AllJobs
    BY <1>7, HeadAndRest DEF ServeMissing, TypeOK, JobInv
  <2> QED
    BY <1>7, <2>1 DEF ServeMissing, worker, JobInv
<1>8. CASE StartRun \/ FetchPage \/ \E i \in DOMAIN Pages[dl.page] : OpenSgf(i)
  BY <1>1, <1>8 DEF StartRun, FetchPage, OpenSgf, worker
<1>9. ASSUME NEW g \in Games,
             Store(g, "good") \/ Store(g, "bad") \/ GameEnds(g) \/ UserDeletes(g)
      PROVE  UNCHANGED <<queue, wpc, wjob>>
  BY <1>9 DEF Store, GameEnds, UserDeletes, server, worker
<1>10. CASE UNCHANGED vars
  BY <1>1, <1>10 DEF vars, server, worker
<1> QED
  BY <1>1, <1>2, <1>3, <1>4, <1>5, <1>6, <1>7, <1>8, <1>9, <1>10, WorkerSteps DEF StepKind

\* While the server is down nothing is queued and its workers are gone.
LEMMA DownStep == TypeOK /\ DownInv /\ StepKind => DownInv'
<1> SUFFICES ASSUME TypeOK, DownInv, StepKind PROVE DownInv'
  OBVIOUS
<1>1. CASE UNCHANGED <<queue, dl, up, wpc>>
  BY <1>1 DEF DownInv
<1>2. CASE up'
  BY <1>2 DEF DownInv
<1>3. CASE ServerStops
  <2>1. queue' = <<>> /\ dl' = Waiting /\ \A w \in Workers : w \in Local => wpc'[w] = "dead"
    BY <1>3, ServerEnd
  <2> QED
    BY <2>1, PipelineAssumption DEF DownInv, Waiting
<1>4. ASSUME NEW w \in Workers, NEW s \in AtWork \cup {"idle", "dead"},
             UNCHANGED <<up, queue, dl>>, wpc' = [wpc EXCEPT ![w] = s],
             wpc[w] = "dead" => s = "dead" \/ w \notin Local
      PROVE  DownInv'
  <2>1. \A v \in Local : wpc[v] = "dead" => wpc'[v] = "dead"
    BY <1>4, PipelineAssumption DEF TypeOK
  <2> QED
    BY <1>4, <2>1 DEF DownInv
<1>5. CASE Restart \/ StartRun \/ FetchPage \/ QueueJobs
           \/ \E i \in DOMAIN Pages[dl.page] : OpenSgf(i)
  BY <1>2, <1>5 DEF Restart, StartRun, FetchPage, QueueJobs, OpenSgf
<1>6. ASSUME NEW g \in Games, Store(g, "good") \/ Store(g, "bad") PROVE up'
  BY <1>6 DEF Store
<1>7. ASSUME NEW w \in Workers, Serve(w) \/ ServeMissing(w) PROVE up'
  BY <1>7 DEF Serve, ServeMissing
<1>8. ASSUME NEW g \in Games, GameEnds(g) \/ UserDeletes(g)
      PROVE  UNCHANGED <<queue, dl, up, wpc>>
  BY <1>8 DEF GameEnds, UserDeletes, server, worker
<1>9. CASE UNCHANGED vars
  BY <1>1, <1>9 DEF vars, server, worker
<1> QED
  BY <1>1, <1>2, <1>3, <1>4, <1>5, <1>6, <1>7, <1>8, <1>9, WorkerSteps DEF StepKind

\* No step takes a variable out of its type; a job that is lost was a job.
LEMMA TypeStep == TypeOK /\ JobInv /\ [Next]_vars => TypeOK'
<1> SUFFICES ASSUME TypeOK, JobInv, [Next]_vars PROVE TypeOK'
  OBVIOUS
<1>0. faults' \in 0 .. MaxFaults
  BY FaultsBounded DEF TypeOK
<1>a. Waiting \in Downloads /\ Len(Pages) \in Nat
  BY PipelineAssumption, LenProperties, EmptySeq DEF Waiting, Downloads
<1> USE <1>0, PipelineAssumption DEF TypeOK, server, worker, history
<1>1. CASE ServerStops
  <2>1. PICK again \in SUBSET {w \in Workers \ Local : wpc[w] = "saving"} :
          Lose(Forgotten(again))
    BY <1>1, ServerEnd
  <2>2. lost' \in SUBSET Jobs
    BY <2>1, ForgottenType, LoseType
  <2>3. dl' \in Downloads /\ queue' \in Seq(Jobs)
    <3>1. dl' = Waiting /\ queue' = <<>>
      BY <1>1 DEF ServerStops
    <3>2. <<>> \in Seq(Jobs)
      BY EmptySeq
    <3> QED
      BY <1>a, <3>1, <3>2
  <2> QED
    BY <1>1, <2>2, <2>3, ServerEnd, ZenonT(60) DEF AtWork
<1>2. ASSUME NEW w \in Workers, WorkerStops(w) PROVE TypeOK'
  <2>1. lost' \in SUBSET Jobs
    BY <1>2, HoldingType, LoseType DEF WorkerStops
  <2> QED
    BY <1>2, <2>1 DEF WorkerStops
<1>3. CASE Restart \/ UNCHANGED vars
  BY <1>3 DEF Restart, vars
<1>4. CASE StartRun
  <2>1. dl' \in Downloads
    BY <1>4, <1>a DEF StartRun, Downloads
  <2> QED
    BY <1>4, <2>1 DEF StartRun
<1>5. CASE FetchPage
  <2>1. dl' \in Downloads
    <3>1. (Range(Pages[dl.page + 1]) \cap ended) \ dl.known \in SUBSET Games
      OBVIOUS
    <3>2. dl.page + 1 \in 0 .. Len(Pages)
      BY <1>5, <1>a DEF FetchPage, Downloads
    <3> QED
      BY <1>5, <3>1, <3>2 DEF FetchPage, Downloads
  <2> QED
    BY <1>5, <2>1 DEF FetchPage
<1>6. CASE QueueJobs
  <2>1. dl.new \in Seq(Games)
    BY DEF Downloads
  <2>2. JobsFor(dl.new) \in Seq(Jobs)
    BY <2>1, JobsForType, AllJobsAreJobs, SeqMonotonic
  <2>3. queue' \in Seq(Jobs)
    BY <1>6, <2>2, RangeOfConcat DEF QueueJobs
  <2>4. dl' \in Downloads
    BY <1>6, <1>a DEF QueueJobs
  <2> QED
    BY <1>6, <2>3, <2>4 DEF QueueJobs
<1>7. ASSUME NEW i \in DOMAIN Pages[dl.page], dl.todo # {}, OpenSgf(i) PROVE TypeOK'
  BY <1>7 DEF OpenSgf, Downloads
<1>8. ASSUME NEW g \in Games, Store(g, "good") \/ Store(g, "bad") PROVE TypeOK'
  <2>1. Append(dl.new, g) \in Seq(Games)
    BY AppendProperties DEF Downloads
  <2>2. dl' \in Downloads
    <3>1. dl.todo \ {g} \in SUBSET Games
      BY DEF Downloads
    <3> QED
      BY <1>8, <2>1, <3>1, ZenonT(60) DEF Store, Downloads
  <2>3. sgf' \in [Games -> {"none", "good", "bad"}]
    BY <1>8, ZenonT(60) DEF Store
  <2> QED
    BY <1>8, <2>2, <2>3 DEF Store
<1>9. ASSUME NEW w \in Workers, Serve(w) PROVE TypeOK'
  <2>1. Head(queue) \in Jobs /\ Tail(queue) \in Seq(Jobs)
    BY <1>9, HeadAndRest DEF Serve
  <2>2. sgf[Head(queue).game] \in {"good", "bad"}
    BY <1>9, <2>1 DEF Serve, Jobs
  <2>3. queue' \in Seq(Jobs) /\ wpc' \in [Workers -> {"reply", "work", "result", "saving",
                                                       "resend", "idle", "dead"}]
    BY <1>9, <2>1 DEF Serve
  <2>4. wjob' \in [Workers -> Jobs \cup {NoJob}] /\ body' \in [Workers -> {"good", "bad"}]
    BY <1>9, <2>1, <2>2 DEF Serve
  <2>5. served' \in [Jobs -> Nat]
    BY <1>9, <2>1 DEF Serve
  <2> QED
    BY <1>9, <2>3, <2>4, <2>5 DEF Serve
<1>10. ASSUME NEW w \in Workers, ServeMissing(w) PROVE TypeOK'
  <2>1. queue # <<>> /\ queue' = Tail(queue) /\ Lose({Head(queue)})
    BY <1>10 DEF ServeMissing
  <2>2. lost' \in SUBSET Jobs
    <3>1. {Head(queue)} \in SUBSET Jobs
      BY <2>1, HeadAndRest
    <3> QED
      BY <2>1, <3>1, LoseType
  <2> QED
    BY <1>10, <2>1, <2>2, HeadAndRest DEF ServeMissing
<1>11. ASSUME NEW w \in Workers, Receive(w) \/ ReplyTruncated(w) \/ AnalysisFails(w)
       PROVE  TypeOK'
  BY <1>11 DEF Receive, ReplyTruncated, AnalysisFails
<1>12. ASSUME NEW w \in Workers, Analyse(w) PROVE TypeOK'
  <2>1. wjob[w] \in Jobs
    BY <1>12, AllJobsAreJobs DEF Analyse, JobInv, AtWork
  <2> QED
    BY <1>12, <2>1 DEF Analyse
<1>13. ASSUME NEW w \in Workers, ReplyLost(w) \/ GiveUp(w) PROVE TypeOK'
  <2>1. lost' \in SUBSET Jobs
    BY <1>13, HoldingType, LoseType DEF ReplyLost, GiveUp
  <2> QED
    BY <1>13, <2>1 DEF ReplyLost, GiveUp
<1>14. ASSUME NEW w \in Workers, Submit(w) \/ Saved(w) \/ AnswerLost(w) PROVE TypeOK'
  BY <1>14, ZenonT(60) DEF Submit, Saved, AnswerLost
<1>15. ASSUME NEW w \in Workers, WorkerRestart(w) PROVE TypeOK'
  BY <1>15 DEF WorkerRestart
<1>16. ASSUME NEW g \in Games, GameEnds(g) PROVE TypeOK'
  BY <1>16 DEF GameEnds
<1>17. ASSUME NEW g \in Games, UserDeletes(g) PROVE TypeOK'
  BY <1>17 DEF UserDeletes
<1> QED
  BY <1>1, <1>2, <1>3, <1>4, <1>5, <1>6, <1>7, <1>8, <1>9, <1>10, <1>11, <1>12,
     <1>13, <1>14, <1>15, <1>16, <1>17, StepCases DEF StepKind

\* So they hold together in every reachable state.
LEMMA Invariance == Spec => []Ind
<1>1. Ind /\ [Next]_vars => Ind'
  BY TypeStep, DlStep, JobStep, DownStep, StepCases DEF Ind
<1> QED
  BY <1>1, IndInit, PTL DEF Spec

\* Every reachable state has its type: whatever goes wrong, a worker has a job
\* of the pipeline or none, and a page that is read is a page of the list.
THEOREM TypeCorrect == Spec => []TypeOK
<1>1. Ind => TypeOK
  BY DEF Ind
<1> QED
  BY <1>1, Invariance, PTL

-----------------------------------------------------------------------------
(* No job is dropped.                                                      *)

\* Where a job may be that was created with its game.
Somewhere(j) ==
    \/ j.game \in dl.open \cup Range(dl.new)
    \/ j \in Range(queue)
    \/ \E w \in Workers : j \in Holding(w)
    \/ rsgf[j] = "whole"
    \/ j \in lost

\* A job that was given up was lost, unless its result is there.
LEMMA LoseAccounts ==
  ASSUME TypeOK, NEW S, Lose(S), NEW j \in S \cup lost
  PROVE  rsgf[j] = "whole" \/ j \in lost'
  BY DEF Lose

\* Whatever a step of a worker does with the job it holds, the job is still at
\* the worker, stored or lost; the other workers keep theirs.
LEMMA WorkerKeeps ==
  ASSUME TypeOK, JobInv, NEW w \in Workers,
         \/ WorkerStops(w) \/ Receive(w) \/ ReplyLost(w) \/ ReplyTruncated(w) \/ Analyse(w)
         \/ AnalysisFails(w) \/ Submit(w) \/ Saved(w) \/ AnswerLost(w) \/ GiveUp(w)
         \/ WorkerRestart(w),
         NEW j \in AllJobs, Somewhere(j)
  PROVE  Somewhere(j)'
<1> USE DEF TypeOK, AtWork, server, worker, history
<1>1. UNCHANGED <<queue, dl, wjob>> /\ \A v \in Workers \ {w} : wpc'[v] = wpc[v]
  BY WorkerSteps
<1>2. \A v \in Workers \ {w} : Holding(v)' = Holding(v)
  BY <1>1 DEF Holding
<1>3. CASE WorkerStops(w) \/ ReplyLost(w) \/ GiveUp(w)
  <2>1. Lose(Holding(w)) /\ rsgf' = rsgf
    BY <1>3 DEF WorkerStops, ReplyLost, GiveUp
  <2> QED
    BY <1>1, <1>2, <2>1 DEF Lose, Somewhere
<1>4. CASE Receive(w) \/ ReplyTruncated(w) \/ Analyse(w) \/ AnalysisFails(w) \/ WorkerRestart(w)
  <2>1. lost' = lost /\ rsgf' = rsgf
    BY <1>4 DEF Receive, ReplyTruncated, Analyse, AnalysisFails, WorkerRestart
  <2>2. Holding(w) \subseteq Holding(w)'
    BY <1>4 DEF Receive, ReplyTruncated, Analyse, AnalysisFails, WorkerRestart, Holding
  <2> QED
    BY <1>1, <1>2, <2>1, <2>2, SMTT(30) DEF Somewhere
<1>5. CASE Submit(w) \/ Saved(w) \/ AnswerLost(w)
  <2>1. lost' = lost /\ wjob[w] \in Jobs /\ AllJobs \subseteq Jobs
    BY <1>5, AllJobsAreJobs DEF Submit, Posting, Saved, AnswerLost, JobInv
  <2>2. \A k \in Jobs \ {wjob[w]} : rsgf'[k] = rsgf[k]
    BY <1>5 DEF Submit, Saved, AnswerLost
  <2>3. wjob[w] \in Holding(w)' \/ rsgf'[wjob[w]] = "whole"
    BY <1>1, <1>5, <2>1 DEF Submit, Saved, AnswerLost, Holding
  <2>4. Holding(w) \subseteq {wjob[w]}
    BY DEF Holding
  <2>5. CASE j = wjob[w]
    BY <2>3, <2>5 DEF Somewhere
  <2>6. CASE j # wjob[w]
    <3>1. rsgf'[j] = rsgf[j] /\ (j \in lost' <=> j \in lost)
      BY <2>1, <2>2, <2>6
    <3>2. \A v \in Workers : j \in Holding(v) => j \in Holding(v)'
      BY <1>2, <2>4, <2>6
    <3> QED
      BY <1>1, <3>1, <3>2 DEF Somewhere
  <2> QED
    BY <2>5, <2>6
<1> QED
  BY <1>3, <1>4, <1>5

\* The same of every step, of the server's and the user's too.
LEMMA StepKeeps ==
  ASSUME Ind, [Next]_vars, NEW j \in AllJobs, Somewhere(j)
  PROVE  Somewhere(j)'
<1> USE DEF Ind, TypeOK
<1>1. CASE ServerStops
  <2>1. PICK again \in SUBSET {w \in Workers \ Local : wpc[w] = "saving"} :
          /\ Lose(Forgotten(again)) /\ UNCHANGED <<rsgf, wjob>>
          /\ \A w \in Workers :
                wpc'[w] = IF w \in Local THEN "dead"
                          ELSE IF w \in Hit(again) THEN "idle"
                          ELSE IF w \in again THEN "resend" ELSE wpc[w]
    BY <1>1, ServerEnd
  <2>2. \A w \in Workers \ Hit(again) : Holding(w) = Holding(w)'
    BY <2>1 DEF Hit, Holding
  <2>3. j \in Forgotten(again) \/ j \in lost \/ rsgf[j] = "whole"
            \/ \E w \in Workers \ Hit(again) : j \in Holding(w)
    BY DEF Somewhere, Forgotten, JobsOf, AllJobs
  <2> QED
    BY <2>1, <2>2, <2>3, LoseAccounts DEF Somewhere, Lose
<1>2. CASE UNCHANGED <<queue, wpc, wjob, rsgf, lost>> /\ dl.open \cup Range(dl.new)
                \subseteq dl'.open \cup Range(dl'.new)
  BY <1>2 DEF Somewhere, Holding
<1>3. CASE Restart
  BY <1>3 DEF Restart, Somewhere, Holding, DownInv, server, worker, history
<1>4. CASE StartRun \/ FetchPage
  <2>1. dl.open \cup Range(dl.new) \subseteq dl'.open \cup Range(dl'.new)
    <3>1. CASE StartRun
      <4>1. dl.open = {} /\ dl.new = <<>> /\ Range(<<>>) = {}
        BY <3>1, EmptySeq DEF StartRun, Waiting, DlInv, Range
      <4> QED
        BY <4>1
    <3>2. CASE FetchPage
      BY <3>2 DEF FetchPage, Downloads
    <3> QED
      BY <1>4, <3>1, <3>2
  <2> QED
    BY <1>2, <1>4, <2>1 DEF StartRun, FetchPage, worker, history
<1>5. ASSUME NEW i \in DOMAIN Pages[dl.page], OpenSgf(i) PROVE Somewhere(j)'
  BY <1>2, <1>5 DEF OpenSgf, Downloads, worker, history
<1>6. ASSUME NEW g \in Games, Store(g, "good") \/ Store(g, "bad") PROVE Somewhere(j)'
  <2>1. dl.new \in Seq(Games) /\ Range(Append(dl.new, g)) = Range(dl.new) \cup {g}
    BY RangeOfAppend DEF Downloads
  <2>2. dl.open = {g}
    BY <1>6 DEF Store, DlInv
  <2>3. dl'.new = Append(dl.new, g)
    BY <1>6 DEF Store, Downloads
  <2> QED
    BY <1>2, <1>6, <2>1, <2>2, <2>3 DEF Store, worker, history
<1>7. CASE QueueJobs
  <2>1. dl.open = {}
    BY <1>7 DEF QueueJobs, DlInv
  <2>2. dl.new \in Seq(Games)
    BY DEF Downloads
  <2>3. /\ JobsFor(dl.new) \in Seq(Jobs)
        /\ j.game \in Range(dl.new) => j \in Range(JobsFor(dl.new))
    <3>1. JobsFor(dl.new) \in Seq(Jobs)
      BY <2>2, JobsForType, AllJobsAreJobs, SeqMonotonic
    <3>2. j \in JobsOf(j.game)
      BY DEF AllJobs, JobsOf
    <3> QED
      BY <2>2, <3>1, <3>2, JobsForType
  <2>4. Range(queue') = Range(queue) \cup Range(JobsFor(dl.new))
    <3>1. queue \in Seq(Jobs) /\ queue' = queue \o JobsFor(dl.new)
      BY <1>7 DEF QueueJobs
    <3> QED
      BY <2>3, <3>1, RangeOfConcat
  <2> QED
    BY <1>7, <2>1, <2>3, <2>4 DEF QueueJobs, Somewhere, Holding, worker, history
<1>8. ASSUME NEW w \in Workers, Serve(w) PROVE Somewhere(j)'
  <2>1. Range(queue) = {Head(queue)} \cup Range(queue')
    BY <1>8, HeadAndRest DEF Serve
  <2>2. Head(queue) \in Holding(w)'
    BY <1>8 DEF Serve, Holding
  <2>3. \A v \in Workers : Holding(v) \subseteq Holding(v)'
    BY <1>8 DEF Serve, Holding
  <2> QED
    BY <1>8, <2>1, <2>2, <2>3 DEF Serve, Somewhere, history
<1>9. ASSUME NEW w \in Workers, ServeMissing(w) PROVE Somewhere(j)'
  <2>1. Range(queue) = {Head(queue)} \cup Range(queue')
    BY <1>9, HeadAndRest DEF ServeMissing
  <2>2. \A v \in Workers : Holding(v) = Holding(v)'
    BY <1>9 DEF ServeMissing, Holding, worker
  <2> QED
    BY <1>9, <2>1, <2>2 DEF ServeMissing, Somewhere, Lose
<1>10. ASSUME NEW g \in Games, GameEnds(g) \/ UserDeletes(g) PROVE Somewhere(j)'
  BY <1>2, <1>10 DEF GameEnds, UserDeletes, server, worker, history
<1>11. CASE UNCHANGED vars
  BY <1>2, <1>11 DEF vars, server, worker, history
<1> QED
  BY <1>1, <1>3, <1>4, <1>5, <1>6, <1>7, <1>8, <1>9, <1>10, <1>11, WorkerKeeps, StepCases
  DEF StepKind

\* A game that had no sgf before a step and has one after it is being written.
LEMMA NewSgf ==
  ASSUME TypeOK, DlInv, StepKind, NEW g \in Games, sgf[g] = "none", sgf'[g] # "none"
  PROVE  g \in dl'.open
<1> USE DEF TypeOK
<1>1. CASE \E i \in DOMAIN Pages[dl.page] : OpenSgf(i)
  BY <1>1 DEF OpenSgf, Downloads
<1>2. ASSUME NEW h \in Games, Store(h, "good") \/ Store(h, "bad") PROVE FALSE
  BY <1>2 DEF Store
<1>3. ASSUME NEW h \in Games, GameEnds(h) \/ UserDeletes(h) PROVE FALSE
  BY <1>3 DEF GameEnds, UserDeletes
<1>4. ASSUME NEW w \in Workers,
             \/ Serve(w) \/ ServeMissing(w) \/ Receive(w) \/ ReplyLost(w)
             \/ ReplyTruncated(w) \/ Analyse(w) \/ AnalysisFails(w)
             \/ Submit(w) \/ Saved(w) \/ AnswerLost(w) \/ GiveUp(w)
             \/ WorkerRestart(w) \/ WorkerStops(w)
      PROVE  FALSE
  BY <1>4 DEF Serve, ServeMissing, Receive, ReplyLost, ReplyTruncated, Analyse, AnalysisFails,
     Submit, Saved, AnswerLost, GiveUp, WorkerRestart, WorkerStops
<1>5. CASE ServerStops
  BY <1>5, ServerEnd
<1>6. CASE Restart \/ StartRun \/ FetchPage \/ QueueJobs \/ UNCHANGED vars
  BY <1>6 DEF Restart, StartRun, FetchPage, QueueJobs, vars
<1> QED
  BY <1>1, <1>2, <1>3, <1>4, <1>5, <1>6 DEF StepKind

\* No step of the pipeline drops a job whose game will not be downloaded again:
\* through crashes, truncated results and deletions it is waiting, at a worker,
\* stored whole, or among those a fault took.
THEOREM NoJobDropped == Spec => []Accounted
<1>1. Init => Accounted
  BY DEF Init, Accounted, AllJobs, JobsOf
<1>2. Ind /\ Accounted /\ [Next]_vars => Accounted'
  <2> SUFFICES ASSUME Ind, Accounted, [Next]_vars, NEW j \in AllJobs, sgf'[j.game] # "none"
               PROVE  Somewhere(j)'
    BY DEF Accounted, Somewhere
  <2>1. CASE sgf[j.game] # "none"
    BY <2>1, StepKeeps DEF Accounted, Somewhere
  <2>2. CASE sgf[j.game] = "none"
    BY <2>2, NewSgf, StepCases DEF Ind, Somewhere, AllJobs, JobsOf
  <2> QED
    BY <2>1, <2>2
<1> QED
  BY <1>1, <1>2, Invariance, PTL DEF Spec

-----------------------------------------------------------------------------
(* Each bot is named once.  A game whose sgf the user deleted is analysed  *)
(* again; the invariants are about the others.                             *)

\* A game is being downloaded, or was and its jobs are not queued yet.
Coming(g) == g \in dl.open \cup Range(dl.new)

\* No worker ever had the job.
Untouched(j) ==
    /\ \A w \in Workers : j \notin Holding(w)
    /\ rsgf[j] = "none" /\ j \notin lost

\* What a run of the downloader knows of the files: those it did not see at its
\* start come from the pages so far, and what is left to do has no file yet.
SnapshotInv ==
    dl.pc = "pages" =>
        /\ dl.todo # {} => dl.page \in DOMAIN Pages /\ dl.todo \subseteq Range(Pages[dl.page])
        /\ \A g \in Games :
              /\ sgf[g] # "none" =>
                    g \in dl.known \/ \E k \in DOMAIN Pages : k <= dl.page /\ g \in Range(Pages[k])
              /\ g \in dl.todo \ dl.open => sgf[g] = "none"

\* A job of a game that was never deleted is in one place at most, and got
\* there from the place before.  Only a worker that got no answer holds a job
\* whose result is stored.
OnceAt(j) ==
    /\ sgf[j.game] = "none" => ~Coming(j.game) /\ j \notin Range(queue) /\ Untouched(j)
    /\ Coming(j.game) => j \notin Range(queue) /\ Untouched(j)
    /\ Unique(dl.new, j.game)
    /\ j.game \in dl.open => j.game \notin Range(dl.new)
    /\ Unique(queue, j)
    /\ j \in Range(queue) => Untouched(j)
    /\ \A w \in Workers : j \in Holding(w) =>
          /\ \A v \in Workers : j \in Holding(v) => v = w
          /\ rsgf[j] = "whole" => wpc[w] = "resend"
          /\ j \notin lost

OnceInv == \A j \in AllJobs : deletes[j.game] = 0 => OnceAt(j)

\* A worker in the server's process dies with the server: it never has to ask
\* again.
ResendInv == \A w \in Workers : wpc[w] = "resend" => w \notin Local

-----------------------------------------------------------------------------
(* The jobs of the new games.                                              *)

\* A game that is new once gets each of its jobs once, if each bot is named once.
LEMMA UniqueJobsFor ==
  ASSUME NEW games \in Seq(Games), NEW j \in AllJobs, IsInjective(BotList),
         Unique(games, j.game)
  PROVE  Unique(JobsFor(games), j)
<1> DEFINE n == Len(BotList)
           m == Len(games)
           row(k) == ((k - 1) \div n) + 1
           column(k) == ((k - 1) % n) + 1
<1>1. /\ n \in Nat /\ m \in Nat /\ m * n \in Nat
      /\ DOMAIN games = 1 .. m /\ DOMAIN BotList = 1 .. n
  BY PipelineAssumption, LenProperties
<1>2. ASSUME NEW k \in 1 .. m * n
      PROVE  /\ n \in Nat \ {0}
             /\ row(k) \in 1 .. m
             /\ column(k) \in 1 .. n
             /\ k = (row(k) - 1) * n + column(k)
  <2>1. n \in Nat \ {0}
    BY <1>1
  <2> HIDE DEF n, m
  <2>2. k - 1 = ((k - 1) \div n) * n + ((k - 1) % n)
    BY <1>1, <2>1
  <2> QED
    BY <1>1, <2>1, <2>2, RowAndColumn
<1>3. DOMAIN JobsFor(games) = 1 .. m * n
  BY DEF JobsFor
<1>4. ASSUME NEW k \in 1 .. m * n
      PROVE  /\ JobsFor(games)[k].game = games[row(k)]
             /\ JobsFor(games)[k].bot = BotList[column(k)]
  BY <1>1 DEF JobsFor
<1> SUFFICES ASSUME NEW i \in 1 .. m * n, NEW k \in 1 .. m * n,
                    JobsFor(games)[i] = j, JobsFor(games)[k] = j
             PROVE  i = k
  BY <1>3 DEF Unique
<1>5. games[row(i)] = j.game /\ games[row(k)] = j.game
  BY <1>1, <1>4
<1>6. BotList[column(i)] = j.bot /\ BotList[column(k)] = j.bot
  BY <1>1, <1>4
<1> HIDE DEF row, column, n, m
<1>7. row(i) = row(k)
  BY <1>1, <1>2, <1>5 DEF Unique
<1>8. column(i) = column(k)
  BY <1>1, <1>2, <1>6 DEF IsInjective
<1> QED
  BY <1>2, <1>7, <1>8

-----------------------------------------------------------------------------
(* The files and the downloader.                                           *)

\* Only the downloader and the user change the sgf files.
LEMMA WorkersAndSgf ==
  ASSUME NEW w \in Workers,
         \/ WorkerStops(w) \/ Serve(w) \/ ServeMissing(w) \/ Receive(w) \/ ReplyLost(w)
         \/ ReplyTruncated(w) \/ Analyse(w) \/ AnalysisFails(w) \/ Submit(w) \/ Saved(w)
         \/ AnswerLost(w) \/ GiveUp(w) \/ WorkerRestart(w)
  PROVE  UNCHANGED <<sgf, dl, deletes>>
  BY DEF WorkerStops, Serve, ServeMissing, Receive, ReplyLost, ReplyTruncated, Analyse,
     AnalysisFails, Submit, Saved, AnswerLost, GiveUp, WorkerRestart, server, history

\* The game that OpenSgf opens.
LEMMA Opened ==
  ASSUME TypeOK, NEW i \in DOMAIN Pages[dl.page], OpenSgf(i)
  PROVE  \E g \in dl.todo :
            /\ up /\ dl.open = {} /\ dl' = [dl EXCEPT !.open = {g}]
            /\ sgf' = [sgf EXCEPT ![g] = "bad"]
            /\ UNCHANGED <<rsgf, queue, wpc, wjob, lost, deletes, served>>
  BY DEF OpenSgf, worker, history

\* The game that Store stores was open, and is new from now on.
LEMMA Stored ==
  ASSUME TypeOK, DlInv, NEW g \in Games, Store(g, "good") \/ Store(g, "bad")
  PROVE  /\ dl.pc = "pages" /\ dl'.pc = "pages"
         /\ dl.open = {g} /\ dl'.open = {} /\ dl'.new = Append(dl.new, g)
         /\ dl'.todo = dl.todo \ {g} /\ dl'.known = dl.known /\ dl'.page = dl.page
         /\ \A h \in Games : (sgf[h] = "none") <=> (sgf'[h] = "none")
         /\ UNCHANGED <<rsgf, queue, wpc, wjob, lost, deletes, served>>
<1>1. g \in dl.open /\ dl.pc # "waiting"
  BY DEF Store, DlInv, Waiting
<1>2. dl.open = {g} /\ dl.pc = "pages"
  BY <1>1 DEF DlInv, TypeOK, Downloads
<1>3. \A h \in Games : (sgf[h] = "none") <=> (sgf'[h] = "none")
  BY DEF Store, TypeOK
<1> QED
  BY <1>2, <1>3, ZenonT(60) DEF Store, TypeOK, Downloads, worker

\* The snapshot of the directory stays good enough: no page lists a game of a
\* page before it, so what is downloaded in a run is not taken for missing in it.
LEMMA SnapshotStep == TypeOK /\ DlInv /\ SnapshotInv /\ StepKind => SnapshotInv'
<1> SUFFICES ASSUME TypeOK, DlInv, SnapshotInv, StepKind PROVE SnapshotInv'
  OBVIOUS
<1>1. CASE UNCHANGED <<sgf, dl, deletes>>
  BY <1>1 DEF SnapshotInv
<1>2. CASE dl'.pc = "waiting"
  BY <1>2 DEF SnapshotInv
<1>3. CASE ServerStops \/ QueueJobs
  <2>1. dl' = Waiting
    BY <1>3, ServerEnd DEF QueueJobs
  <2>2. dl'.pc = "waiting"
    BY <2>1 DEF Waiting
  <2> QED
    BY <1>2, <2>2
<1>4. CASE StartRun
  <2>1. dl' = [Waiting EXCEPT !.pc = "pages", !.known = {g \in Games : sgf[g] # "none"}]
           /\ UNCHANGED <<sgf, deletes>>
    BY <1>4 DEF StartRun, history
  <2> QED
    BY <2>1 DEF Waiting, SnapshotInv
<1>5. CASE FetchPage
  <2>1. /\ dl.pc = "pages" /\ dl.todo = {} /\ dl.open = {} /\ UNCHANGED <<sgf, deletes>>
        /\ dl'.page = dl.page + 1 /\ dl'.known = dl.known /\ dl'.open = {}
        /\ dl'.todo \subseteq Range(Pages[dl'.page]) \ dl.known
        /\ dl.page \in Nat /\ dl'.page \in 1 .. Len(Pages)
    BY <1>5, PipelineAssumption, LenProperties DEF FetchPage, TypeOK, Downloads, DlInv, history
  <2>2. dl'.page \in DOMAIN Pages /\ DOMAIN Pages \subseteq Nat
    BY <2>1, PipelineAssumption, LenProperties
  <2>3. ASSUME NEW g \in Games, sgf[g] # "none", g \notin dl.known
        PROVE  (\E k \in DOMAIN Pages : k <= dl.page /\ g \in Range(Pages[k])) /\ g \notin dl'.todo
    <3>1. PICK k \in DOMAIN Pages : k <= dl.page /\ g \in Range(Pages[k])
      BY <2>1, <2>3 DEF SnapshotInv
    <3>2. k # dl'.page
      BY <2>1, <2>2, <3>1
    <3> QED
      BY <2>1, <2>2, <3>1, <3>2, ListAssumption
  <2>4. \A k \in DOMAIN Pages : k <= dl.page => k <= dl'.page
    BY <2>1, <2>2
  <2> QED
    BY <2>1, <2>2, <2>3, <2>4 DEF SnapshotInv
<1>6. ASSUME NEW i \in DOMAIN Pages[dl.page], dl.todo # {}, OpenSgf(i) PROVE SnapshotInv'
  <2>1. PICK g \in dl.todo :
           /\ dl.open = {} /\ dl' = [dl EXCEPT !.open = {g}]
           /\ sgf' = [sgf EXCEPT ![g] = "bad"] /\ UNCHANGED deletes
    BY <1>6, Opened
  <2>2. /\ dl'.pc = dl.pc /\ dl'.todo = dl.todo /\ dl'.page = dl.page /\ dl'.known = dl.known
        /\ dl'.open = {g} /\ \A h \in Games \ {g} : sgf'[h] = sgf[h]
    BY <2>1 DEF TypeOK, Downloads
  <2>3. dl.pc = "pages" => g \in Range(Pages[dl.page]) /\ dl.page \in DOMAIN Pages
                            /\ dl.page <= dl.page
    BY <2>1 DEF SnapshotInv, TypeOK, Downloads
  <2> QED
    BY <2>1, <2>2, <2>3 DEF SnapshotInv
<1>7. ASSUME NEW g \in Games, Store(g, "good") \/ Store(g, "bad") PROVE SnapshotInv'
  BY <1>7, Stored DEF SnapshotInv
<1>8. ASSUME NEW g \in Games, UserDeletes(g) PROVE SnapshotInv'
  <2>1. /\ dl' = dl /\ sgf'[g] = "none" /\ \A h \in Games \ {g} : sgf'[h] = sgf[h]
    BY <1>8 DEF UserDeletes, server, TypeOK
  <2> QED
    BY <2>1 DEF SnapshotInv
<1>9. ASSUME NEW g \in Games, GameEnds(g) PROVE UNCHANGED <<sgf, dl, deletes>>
  BY <1>9 DEF GameEnds, server, history
<1>10. CASE Restart \/ UNCHANGED vars
  BY <1>1, <1>10 DEF Restart, vars, server, history
<1> QED
  BY <1>1, <1>3, <1>4, <1>5, <1>6, <1>7, <1>8, <1>9, <1>10, WorkersAndSgf DEF StepKind

-----------------------------------------------------------------------------
(* Each job is in one place.                                               *)

\* What a step of a worker can do to jobs: only the one it holds is disturbed,
\* and it never gets another.
LEMMA WorkerDisturbs ==
  ASSUME TypeOK, JobInv, NEW w \in Workers,
         \/ WorkerStops(w) \/ Receive(w) \/ ReplyLost(w) \/ ReplyTruncated(w) \/ Analyse(w)
         \/ AnalysisFails(w) \/ Submit(w) \/ Saved(w) \/ AnswerLost(w) \/ GiveUp(w)
         \/ WorkerRestart(w)
  PROVE  /\ UNCHANGED <<queue, dl, sgf, deletes, wjob>>
         /\ \A v \in Workers \ {w} : wpc'[v] = wpc[v] /\ Holding(v)' = Holding(v)
         /\ Holding(w)' \subseteq Holding(w)
         /\ \A j \in Jobs \ Holding(w) : rsgf'[j] = rsgf[j] /\ (j \in lost' <=> j \in lost)
<1> USE DEF TypeOK, AtWork, server, worker, history
<1>1. UNCHANGED <<queue, dl, wjob>> /\ \A v \in Workers \ {w} : wpc'[v] = wpc[v]
  BY WorkerSteps
<1>2. \A v \in Workers \ {w} : Holding(v)' = Holding(v)
  BY <1>1 DEF Holding
<1>3. Holding(w)' \subseteq Holding(w)
  BY <1>1, WorkerSteps DEF Holding
<1>4. CASE WorkerStops(w) \/ ReplyLost(w) \/ GiveUp(w)
  BY <1>1, <1>2, <1>3, <1>4, WorkersAndSgf DEF WorkerStops, ReplyLost, GiveUp, Lose
<1>5. CASE Receive(w) \/ ReplyTruncated(w) \/ Analyse(w) \/ AnalysisFails(w) \/ WorkerRestart(w)
  <2>1. lost' = lost /\ rsgf' = rsgf
    BY <1>5 DEF Receive, ReplyTruncated, Analyse, AnalysisFails, WorkerRestart
  <2> QED
    BY <1>1, <1>2, <1>3, <1>5, <2>1, WorkersAndSgf
<1>6. CASE Submit(w) \/ Saved(w) \/ AnswerLost(w)
  <2>1. lost' = lost /\ wjob[w] \in Holding(w)
    BY <1>6 DEF Submit, Posting, Saved, AnswerLost, Holding
  <2>2. \A k \in Jobs \ {wjob[w]} : rsgf'[k] = rsgf[k]
    BY <1>6 DEF Submit, Saved, AnswerLost
  <2> QED
    BY <1>1, <1>2, <1>3, <1>6, <2>1, <2>2, WorkersAndSgf
<1> QED
  BY <1>4, <1>5, <1>6

\* The job a worker still holds after a step of its own.
LEMMA WorkerHolds ==
  ASSUME TypeOK, JobInv, NEW w \in Workers, NEW j \in Holding(w),
         \/ WorkerStops(w) \/ Receive(w) \/ ReplyLost(w) \/ ReplyTruncated(w) \/ Analyse(w)
         \/ AnalysisFails(w) \/ Submit(w) \/ Saved(w) \/ AnswerLost(w) \/ GiveUp(w)
         \/ WorkerRestart(w),
         j \in Holding(w)',
         rsgf[j] = "whole" => wpc[w] = "resend", j \notin lost
  PROVE  (rsgf'[j] = "whole" => wpc'[w] = "resend") /\ j \notin lost'
<1> USE DEF TypeOK, AtWork, server, worker, history
<1>1. j = wjob[w] /\ wpc[w] \in AtWork /\ j \in Jobs
  BY HoldingOf, HoldingType
<1>2. CASE WorkerStops(w) \/ ReplyLost(w) \/ GiveUp(w) \/ Saved(w) \/ WorkerRestart(w)
  <2>1. wpc'[w] \notin AtWork
    BY <1>2 DEF WorkerStops, ReplyLost, GiveUp, Saved, WorkerRestart
  <2> QED
    BY <2>1 DEF Holding
<1>3. CASE Receive(w) \/ ReplyTruncated(w) \/ Analyse(w) \/ AnalysisFails(w)
  BY <1>1, <1>3 DEF Receive, ReplyTruncated, Analyse, AnalysisFails
<1>4. CASE Submit(w) \/ AnswerLost(w)
  BY <1>1, <1>4 DEF Submit, AnswerLost
<1> QED
  BY <1>2, <1>3, <1>4

\* So the step leaves each job in one place.
LEMMA WorkerOnce ==
  ASSUME TypeOK, JobInv, NEW w \in Workers,
         \/ WorkerStops(w) \/ Receive(w) \/ ReplyLost(w) \/ ReplyTruncated(w) \/ Analyse(w)
         \/ AnalysisFails(w) \/ Submit(w) \/ Saved(w) \/ AnswerLost(w) \/ GiveUp(w)
         \/ WorkerRestart(w),
         NEW j \in AllJobs, OnceAt(j)
  PROVE  OnceAt(j)'
<1>1. /\ UNCHANGED <<queue, dl, sgf>> /\ j \in Jobs
      /\ \A v \in Workers \ {w} : wpc'[v] = wpc[v] /\ Holding(v)' = Holding(v)
      /\ Holding(w)' \subseteq Holding(w)
      /\ j \notin Holding(w) => rsgf'[j] = rsgf[j] /\ (j \in lost' <=> j \in lost)
  BY WorkerDisturbs, AllJobsAreJobs
<1>2. CASE j \notin Holding(w)
  <2>1. \A v \in Workers : j \in Holding(v)' <=> j \in Holding(v)
    BY <1>1, <1>2
  <2>2. Untouched(j)' <=> Untouched(j)
    BY <1>1, <1>2, <2>1 DEF Untouched
  <2>3. Coming(j.game)' <=> Coming(j.game)
    BY <1>1 DEF Coming
  <2> QED
    BY <1>1, <1>2, <2>1, <2>2, <2>3 DEF OnceAt
<1>3. CASE j \in Holding(w)
  <2>1. sgf[j.game] # "none" /\ ~Coming(j.game) /\ j \notin Range(queue)
    BY <1>3 DEF OnceAt, Untouched
  <2>2. ~Coming(j.game)'
    BY <1>1, <2>1 DEF Coming
  <2>3. \A v \in Workers : j \in Holding(v)' => v = w
    BY <1>1, <1>3 DEF OnceAt
  <2>4. j \in Holding(w)' => (rsgf'[j] = "whole" => wpc'[w] = "resend") /\ j \notin lost'
    <3>1. (rsgf[j] = "whole" => wpc[w] = "resend") /\ j \notin lost
      BY <1>3 DEF OnceAt
    <3> QED
      BY <1>3, <3>1, WorkerHolds
  <2> QED
    BY <1>1, <2>1, <2>2, <2>3, <2>4 DEF OnceAt
<1> QED
  BY <1>2, <1>3

\* The end of the server's process takes every job it hits from where it was,
\* once; a result that will be sent again stays with its worker.
LEMMA ServerEndOnce ==
  ASSUME TypeOK, NEW j \in AllJobs, OnceAt(j), ServerStops
  PROVE  OnceAt(j)'
<1>1. PICK again \in SUBSET {w \in Workers \ Local : wpc[w] = "saving"} :
        /\ Lose(Forgotten(again)) /\ UNCHANGED <<sgf, rsgf, wjob>>
        /\ queue' = <<>> /\ dl' = Waiting
        /\ \A w \in Workers :
              wpc'[w] = IF w \in Local THEN "dead"
                        ELSE IF w \in Hit(again) THEN "idle"
                        ELSE IF w \in again THEN "resend" ELSE wpc[w]
  BY ServerEnd
<1>2. /\ Range(queue') = {} /\ DOMAIN queue' = {}
      /\ dl'.open = {} /\ Range(dl'.new) = {} /\ DOMAIN dl'.new = {}
  BY <1>1, EmptySeq DEF Waiting, Range
<1>3. \A w \in Workers : j \in Holding(w)' =>
         /\ j \in Holding(w) /\ w \notin Hit(again)
         /\ wpc'[w] = IF w \in again THEN "resend" ELSE wpc[w]
  BY <1>1 DEF Holding, Hit
<1>4. ASSUME j \in lost', j \notin lost
      PROVE  /\ \/ Coming(j.game) \/ j \in Range(queue)
                \/ \E w \in Hit(again) : j \in Holding(w)
             /\ rsgf[j] # "whole"
  BY <1>1, <1>4 DEF Lose, Forgotten, Coming, JobsOf
<1>5. ASSUME sgf'[j.game] = "none"
      PROVE  ~Coming(j.game)' /\ Untouched(j)'
  <2>1. ~Coming(j.game) /\ j \notin Range(queue) /\ Untouched(j)
    BY <1>1, <1>5 DEF OnceAt
  <2>2. Hit(again) \subseteq Workers
    BY DEF Hit
  <2>3. j \notin lost'
    BY <1>4, <2>1, <2>2 DEF Untouched
  <2> QED
    BY <1>1, <1>2, <1>3, <2>1, <2>3 DEF Untouched, Coming
<1>6. ASSUME NEW w \in Workers, j \in Holding(w)'
      PROVE  /\ \A v \in Workers : j \in Holding(v)' => v = w
             /\ rsgf'[j] = "whole" => wpc'[w] = "resend"
             /\ j \notin lost'
  <2>1. j \in Holding(w) /\ w \notin Hit(again)
    BY <1>3, <1>6
  <2>2. \A v \in Workers : j \in Holding(v) => v = w
    BY <2>1 DEF OnceAt
  <2>3. Hit(again) \subseteq Workers /\ ~Coming(j.game) /\ j \notin Range(queue)
    BY <2>1 DEF Hit, OnceAt, Untouched
  <2>4. j \notin lost /\ (rsgf[j] = "whole" => wpc[w] = "resend")
    BY <2>1 DEF OnceAt
  <2> QED
    BY <1>1, <1>3, <1>4, <1>6, <2>1, <2>2, <2>3, <2>4
<1> QED
  BY <1>2, <1>5, <1>6 DEF OnceAt, Unique, Coming

\* A job that is handed out leaves the queue for the worker.
LEMMA ServeOnce ==
  ASSUME TypeOK, NEW w \in Workers, NEW j \in AllJobs, OnceAt(j), Serve(w)
  PROVE  OnceAt(j)'
<1> DEFINE h == Head(queue)
<1>1. /\ queue \in Seq(Jobs) /\ queue # <<>> /\ queue' = Tail(queue)
      /\ wpc[w] = "idle" /\ sgf[h.game] # "none"
      /\ wpc' = [wpc EXCEPT ![w] = "reply"] /\ wjob' = [wjob EXCEPT ![w] = h]
      /\ UNCHANGED <<sgf, rsgf, dl, lost>>
  BY DEF Serve, TypeOK, history
<1>2. Range(queue) = {h} \cup Range(queue')
  BY <1>1, HeadAndRest
<1>3. Unique(queue', j) /\ (j = h => j \notin Range(queue'))
  <2>1. Unique(queue, j)
    BY DEF OnceAt
  <2> QED
    BY <1>1, <2>1, UniqueTail
<1>4. /\ Holding(w) = {} /\ Holding(w)' = {h}
      /\ \A v \in Workers \ {w} : Holding(v)' = Holding(v) /\ wpc'[v] = wpc[v]
  BY <1>1 DEF Holding, TypeOK
<1>5. Coming(j.game)' <=> Coming(j.game)
  BY <1>1 DEF Coming
<1> HIDE DEF h
<1>6. CASE j = h
  <2>1. Untouched(j) /\ ~Coming(j.game) /\ j \notin Range(queue')
    BY <1>2, <1>3, <1>6 DEF OnceAt
  <2>2. \A v \in Workers : j \in Holding(v)' => v = w
    BY <1>4, <2>1 DEF Untouched
  <2> QED
    BY <1>1, <1>3, <1>5, <1>6, <2>1, <2>2 DEF OnceAt, Untouched
<1>7. CASE j # h
  <2>1. \A v \in Workers : j \in Holding(v)' <=> j \in Holding(v)
    BY <1>4, <1>7
  <2>2. Untouched(j)' <=> Untouched(j)
    BY <1>1, <2>1 DEF Untouched
  <2>3. j \in Range(queue') <=> j \in Range(queue)
    BY <1>2, <1>7
  <2>4. \A v \in Workers : j \in Holding(v)' => wpc'[v] = wpc[v]
    BY <1>4, <1>7
  <2> QED
    BY <1>1, <1>3, <1>5, <2>1, <2>2, <2>3, <2>4 DEF OnceAt
<1> QED
  BY <1>6, <1>7

\* A job whose sgf is gone is popped in vain.
LEMMA ServeMissingOnce ==
  ASSUME TypeOK, NEW w \in Workers, NEW j \in AllJobs, OnceAt(j), ServeMissing(w)
  PROVE  OnceAt(j)'
<1> DEFINE h == Head(queue)
<1>1. /\ queue \in Seq(Jobs) /\ queue # <<>> /\ queue' = Tail(queue)
      /\ sgf[h.game] = "none" /\ lost' = lost \cup {k \in {h} : rsgf[k] # "whole"}
      /\ UNCHANGED <<sgf, rsgf, dl, wpc, wjob>>
  BY DEF ServeMissing, TypeOK, Lose, worker
<1>2. Range(queue) = {h} \cup Range(queue')
  BY <1>1, HeadAndRest
<1>3. Unique(queue', j)
  <2>1. Unique(queue, j)
    BY DEF OnceAt
  <2> QED
    BY <1>1, <2>1, UniqueTail
<1>4. j # h
  BY <1>1, <1>2 DEF OnceAt
<1> HIDE DEF h
<1>5. (j \in lost' <=> j \in lost) /\ (j \in Range(queue') <=> j \in Range(queue))
  BY <1>1, <1>2, <1>4
<1>6. \A v \in Workers : Holding(v)' = Holding(v)
  BY <1>1 DEF Holding
<1>7. (Untouched(j)' <=> Untouched(j)) /\ (Coming(j.game)' <=> Coming(j.game))
  BY <1>1, <1>5, <1>6 DEF Untouched, Coming
<1> QED
  BY <1>1, <1>3, <1>5, <1>6, <1>7 DEF OnceAt

\* What the downloader opens had no file, so that its jobs are new.
LEMMA OpenOnce ==
  ASSUME TypeOK, DlInv, SnapshotInv, NEW j \in AllJobs, OnceAt(j),
         NEW i \in DOMAIN Pages[dl.page], OpenSgf(i)
  PROVE  OnceAt(j)'
<1>1. PICK g \in dl.todo :
         /\ dl.open = {} /\ dl' = [dl EXCEPT !.open = {g}]
         /\ sgf' = [sgf EXCEPT ![g] = "bad"]
         /\ UNCHANGED <<rsgf, queue, wpc, wjob, lost>>
  BY Opened
<1>2. j.game \in Games /\ g \in Games /\ dl.pc = "pages"
  BY <1>1 DEF AllJobs, JobsOf, TypeOK, Downloads, DlInv, Waiting
<1>3. /\ dl'.open = {g} /\ dl'.new = dl.new
      /\ sgf'[g] = "bad" /\ (j.game # g => sgf'[j.game] = sgf[j.game])
  BY <1>1, <1>2 DEF TypeOK, Downloads
<1>4. g = j.game => sgf[g] = "none"
  BY <1>1, <1>2 DEF SnapshotInv
<1>5. \A v \in Workers : Holding(v)' = Holding(v)
  BY <1>1 DEF Holding
<1>6. Untouched(j)' <=> Untouched(j)
  BY <1>1, <1>5 DEF Untouched
<1>7. CASE g = j.game
  <2>1. ~Coming(g) /\ j \notin Range(queue) /\ Untouched(j)
    BY <1>4, <1>7 DEF OnceAt
  <2>2. g \notin Range(dl.new)
    BY <2>1 DEF Coming
  <2> QED
    BY <1>1, <1>3, <1>5, <1>6, <1>7, <2>1, <2>2 DEF OnceAt
<1>8. CASE g # j.game
  <2>1. Coming(j.game)' <=> Coming(j.game)
    BY <1>1, <1>3, <1>8 DEF Coming
  <2> QED
    BY <1>1, <1>3, <1>5, <1>6, <1>8, <2>1 DEF OnceAt
<1> QED
  BY <1>7, <1>8

\* The game that was open becomes new.
LEMMA StoreOnce ==
  ASSUME TypeOK, DlInv, NEW j \in AllJobs, OnceAt(j), NEW g \in Games,
         Store(g, "good") \/ Store(g, "bad")
  PROVE  OnceAt(j)'
<1>1. /\ dl.open = {g} /\ dl'.open = {} /\ dl'.new = Append(dl.new, g)
      /\ \A h \in Games : (sgf[h] = "none") <=> (sgf'[h] = "none")
      /\ UNCHANGED <<rsgf, queue, wpc, wjob, lost>>
  BY Stored
<1>2. j.game \in Games /\ dl.new \in Seq(Games)
  BY DEF AllJobs, JobsOf, TypeOK, Downloads
<1>3. Range(dl'.new) = Range(dl.new) \cup {g}
  BY <1>1, <1>2, RangeOfAppend
<1>4. \A v \in Workers : Holding(v)' = Holding(v)
  BY <1>1 DEF Holding
<1>5. (Untouched(j)' <=> Untouched(j)) /\ (Coming(j.game)' <=> Coming(j.game))
  BY <1>1, <1>3, <1>4 DEF Untouched, Coming
<1>6. Unique(dl'.new, j.game)
  <2>1. Unique(dl.new, j.game) /\ (j.game = g => j.game \notin Range(dl.new))
    BY <1>1 DEF OnceAt
  <2> QED
    BY <1>1, <1>2, <2>1, UniqueAppend
<1> QED
  BY <1>1, <1>2, <1>4, <1>5, <1>6 DEF OnceAt

\* The jobs of the new games are queued: each once, if its bot is named once.
LEMMA QueueOnce ==
  ASSUME TypeOK, DlInv, IsInjective(BotList), NEW j \in AllJobs, OnceAt(j), QueueJobs
  PROVE  OnceAt(j)'
<1>1. /\ queue \in Seq(Jobs) /\ dl.new \in Seq(Games) /\ dl.open = {}
      /\ queue' = queue \o JobsFor(dl.new) /\ dl' = Waiting
      /\ UNCHANGED <<sgf, rsgf, wpc, wjob, lost>>
  BY DEF QueueJobs, TypeOK, Downloads, DlInv, worker, history
<1>2. /\ JobsFor(dl.new) \in Seq(Jobs)
      /\ j \in Range(JobsFor(dl.new)) => j.game \in Range(dl.new)
  <2>1. j \in Range(JobsFor(dl.new)) => j.game \in Range(dl.new)
    BY <1>1, JobsForType DEF JobsOf
  <2> QED
    BY <1>1, <2>1, JobsForType, AllJobsAreJobs, SeqMonotonic
<1>3. Range(queue') = Range(queue) \cup Range(JobsFor(dl.new))
  BY <1>1, <1>2, RangeOfConcat
<1>4. /\ dl'.open = {} /\ Range(dl'.new) = {} /\ DOMAIN dl'.new = {}
  BY <1>1, EmptySeq DEF Waiting, Range
<1>5. \A v \in Workers : Holding(v)' = Holding(v)
  BY <1>1 DEF Holding
<1>6. (Untouched(j)' <=> Untouched(j)) /\ ~Coming(j.game)'
  BY <1>1, <1>4, <1>5 DEF Untouched, Coming
<1>7. j \in Range(JobsFor(dl.new)) => Coming(j.game)
  BY <1>2 DEF Coming
<1>8. Unique(queue', j)
  <2>1. Unique(queue, j) /\ Unique(JobsFor(dl.new), j)
    BY <1>1, UniqueJobsFor DEF OnceAt
  <2>2. j \notin Range(queue) \/ j \notin Range(JobsFor(dl.new))
    BY <1>7 DEF OnceAt
  <2> QED
    BY <1>1, <1>2, <2>1, <2>2, UniqueConcat
<1>9. /\ sgf[j.game] = "none" => j \notin Range(queue') /\ Untouched(j)
      /\ j \in Range(queue') => Untouched(j)
      /\ \A w \in Workers : j \in Holding(w) =>
            /\ \A v \in Workers : j \in Holding(v) => v = w
            /\ rsgf[j] = "whole" => wpc[w] = "resend"
            /\ j \notin lost
  BY <1>3, <1>7 DEF OnceAt
<1> QED
  BY <1>1, <1>4, <1>5, <1>6, <1>8, <1>9 DEF OnceAt, Unique

\* A step that moves nothing leaves every job in its place.
LEMMA RestOnce ==
  ASSUME NEW j \in AllJobs, OnceAt(j), UNCHANGED <<rsgf, queue, wjob, lost>>,
         (sgf[j.game] = "none") <=> (sgf'[j.game] = "none"),
         \A w \in Workers : wpc[w] \in AtWork \/ wpc'[w] \in AtWork => wpc'[w] = wpc[w],
         dl'.open = dl.open, dl'.new = dl.new
  PROVE  OnceAt(j)'
<1>1. \A w \in Workers : Holding(w)' = Holding(w) /\ (Holding(w) # {} => wpc'[w] = wpc[w])
  BY DEF Holding, AtWork
<1>2. (Untouched(j)' <=> Untouched(j)) /\ (Coming(j.game)' <=> Coming(j.game))
  BY <1>1 DEF Untouched, Coming
<1> QED
  BY <1>1, <1>2 DEF OnceAt

\* No step brings a job of a game that was never deleted to a second place.
LEMMA OnceStep ==
  ASSUME IsInjective(BotList), Ind, SnapshotInv, StepKind,
         NEW j \in AllJobs, OnceAt(j), deletes'[j.game] = 0
  PROVE  OnceAt(j)'
<1> USE DEF Ind
<1>1. j.game \in Games
  BY DEF AllJobs, JobsOf
<1>2. CASE ServerStops \/ QueueJobs
  BY <1>2, ServerEndOnce, QueueOnce
<1>3. ASSUME UNCHANGED <<sgf, rsgf, queue, wpc, wjob, lost>>,
             dl'.open = dl.open, dl'.new = dl.new
      PROVE  OnceAt(j)'
  BY <1>3, RestOnce
<1>4. CASE Restart
  <2>1. ~up /\ UNCHANGED <<sgf, rsgf, queue, dl, wjob, lost>>
        /\ wpc' = [w \in Workers |-> IF w \in Local THEN "idle" ELSE wpc[w]]
    BY <1>4 DEF Restart, server, history
  <2>2. \A w \in Workers : w \in Local => wpc[w] = "dead"
    BY <2>1 DEF DownInv
  <2> QED
    BY <2>1, <2>2, RestOnce DEF AtWork
<1>5. CASE StartRun
  <2>1. dl = Waiting
    BY <1>5 DEF StartRun, DlInv
  <2>2. dl'.open = dl.open /\ dl'.new = dl.new
    BY <1>5, <2>1 DEF StartRun, Waiting
  <2> QED
    BY <1>3, <1>5, <2>2 DEF StartRun, worker, history
<1>6. CASE FetchPage
  <2>1. dl'.open = dl.open /\ dl'.new = dl.new
    BY <1>6 DEF FetchPage, TypeOK, Downloads
  <2> QED
    BY <1>3, <1>6, <2>1 DEF FetchPage, worker, history
<1>7. ASSUME NEW i \in DOMAIN Pages[dl.page], OpenSgf(i) PROVE OnceAt(j)'
  BY <1>7, OpenOnce
<1>8. ASSUME NEW g \in Games, Store(g, "good") \/ Store(g, "bad") PROVE OnceAt(j)'
  BY <1>8, StoreOnce
<1>9. ASSUME NEW w \in Workers, Serve(w) \/ ServeMissing(w) PROVE OnceAt(j)'
  BY <1>9, ServeOnce, ServeMissingOnce
<1>10. ASSUME NEW w \in Workers,
              \/ WorkerStops(w) \/ Receive(w) \/ ReplyLost(w) \/ ReplyTruncated(w)
              \/ Analyse(w) \/ AnalysisFails(w) \/ Submit(w) \/ Saved(w) \/ AnswerLost(w)
              \/ GiveUp(w) \/ WorkerRestart(w)
       PROVE  OnceAt(j)'
  BY <1>10, WorkerOnce
<1>11. ASSUME NEW g \in Games, GameEnds(g) PROVE OnceAt(j)'
  <2>1. UNCHANGED <<sgf, rsgf, queue, dl, wpc, wjob, lost>>
    BY <1>11 DEF GameEnds, server, worker, history
  <2> QED
    BY <1>3, <2>1
<1>12. ASSUME NEW g \in Games, UserDeletes(g) PROVE OnceAt(j)'
  <2>1. UNCHANGED <<rsgf, queue, dl, wpc, wjob, lost>>
        /\ deletes'[g] # 0 /\ sgf' = [sgf EXCEPT ![g] = "none"]
    BY <1>12, PipelineAssumption DEF UserDeletes, server, worker, TypeOK
  <2>2. sgf'[j.game] = sgf[j.game]
    BY <1>1, <2>1 DEF TypeOK
  <2> QED
    BY <2>1, <2>2, RestOnce
<1>13. CASE UNCHANGED vars
  BY <1>3, <1>13 DEF vars, server, worker, history
<1> QED
  BY <1>2, <1>4, <1>5, <1>6, <1>7, <1>8, <1>9, <1>10, <1>11, <1>12, <1>13 DEF StepKind

\* Deletions are counted and never forgotten.
LEMMA DeletesGrow ==
  ASSUME TypeOK, StepKind, NEW g \in Games, deletes'[g] = 0
  PROVE  deletes[g] = 0
<1>1. CASE ServerStops
  BY <1>1, ServerEnd
<1>2. CASE Restart \/ StartRun \/ FetchPage \/ QueueJobs \/ UNCHANGED vars
  BY <1>2 DEF Restart, StartRun, FetchPage, QueueJobs, vars, history
<1>3. ASSUME NEW i \in DOMAIN Pages[dl.page], OpenSgf(i) PROVE UNCHANGED deletes
  BY <1>3, Opened
<1>4. ASSUME NEW h \in Games, Store(h, "good") \/ Store(h, "bad") PROVE UNCHANGED deletes
  BY <1>4 DEF Store
<1>5. ASSUME NEW h \in Games, GameEnds(h) PROVE UNCHANGED deletes
  BY <1>5 DEF GameEnds, history
<1>6. ASSUME NEW h \in Games, UserDeletes(h) PROVE deletes[g] = 0
  BY <1>6, PipelineAssumption DEF UserDeletes, TypeOK
<1> QED
  BY <1>1, <1>2, <1>3, <1>4, <1>5, <1>6, WorkersAndSgf DEF StepKind

\* Only a result that was being stored is sent again.
LEMMA ResendStep == TypeOK /\ ResendInv /\ StepKind => ResendInv'
<1> SUFFICES ASSUME TypeOK, ResendInv, StepKind, NEW w \in Workers, wpc'[w] = "resend"
             PROVE  w \notin Local
  BY DEF ResendInv
<1> USE DEF TypeOK
<1>1. CASE wpc[w] = "resend"
  BY <1>1 DEF ResendInv
<1>2. CASE wpc[w] # "resend"
  <2>1. CASE ServerStops
    BY <1>2, <2>1, ServerEnd
  <2>2. ASSUME NEW v \in Workers, AnswerLost(v) PROVE w \notin Local
    BY <1>2, <2>2 DEF AnswerLost
  <2>3. ASSUME NEW v \in Workers,
               \/ Serve(v) \/ ServeMissing(v) \/ Receive(v) \/ ReplyLost(v)
               \/ ReplyTruncated(v) \/ Analyse(v) \/ AnalysisFails(v) \/ Submit(v)
               \/ Saved(v) \/ GiveUp(v) \/ WorkerRestart(v) \/ WorkerStops(v)
        PROVE  FALSE
    BY <1>2, <2>3 DEF Serve, ServeMissing, Receive, ReplyLost, ReplyTruncated, Analyse,
       AnalysisFails, Submit, Saved, GiveUp, WorkerRestart, WorkerStops, worker
  <2>4. ASSUME NEW g \in Games,
               Store(g, "good") \/ Store(g, "bad") \/ GameEnds(g) \/ UserDeletes(g)
        PROVE  FALSE
    BY <1>2, <2>4 DEF Store, GameEnds, UserDeletes, worker
  <2>5. CASE \/ Restart \/ StartRun \/ FetchPage \/ QueueJobs \/ UNCHANGED vars
             \/ \E i \in DOMAIN Pages[dl.page] : OpenSgf(i)
    BY <1>2, <2>5 DEF Restart, StartRun, FetchPage, QueueJobs, OpenSgf, vars, worker
  <2> QED
    BY <2>1, <2>2, <2>3, <2>4, <2>5 DEF StepKind
<1> QED
  BY <1>1, <1>2

\* Everything that holds together where each bot is named once.
Once == Ind /\ SnapshotInv /\ ResendInv /\ OnceInv

\* Where each bot is named once, every step keeps each job in one place.
LEMMA OnceInvariance ==
  ASSUME IsInjective(BotList)
  PROVE  Spec => []Once
<1>1. Init => Once
  <2> SUFFICES ASSUME Init PROVE SnapshotInv /\ ResendInv /\ OnceInv
    BY IndInit DEF Once
  <2>1. SnapshotInv /\ ResendInv
    BY DEF Init, SnapshotInv, ResendInv, Waiting
  <2>2. ASSUME NEW j \in AllJobs PROVE OnceAt(j)
    <3>1. j \in Jobs
      BY AllJobsAreJobs
    <3>2. /\ DOMAIN queue = {} /\ Range(queue) = {} /\ dl.open = {}
          /\ DOMAIN dl.new = {} /\ Range(dl.new) = {}
      BY EmptySeq DEF Init, Waiting, Range
    <3>3. \A w \in Workers : Holding(w) = {}
      BY DEF Init, Holding
    <3> QED
      BY <3>1, <3>2, <3>3 DEF Init, OnceAt, Unique, Untouched, Coming
  <2> QED
    BY <2>1, <2>2 DEF OnceInv
<1>2. Once /\ [Next]_vars => Once'
  <2> SUFFICES ASSUME Once, [Next]_vars PROVE Once'
    OBVIOUS
  <2> USE DEF Once
  <2>1. StepKind
    BY StepCases
  <2>2. Ind'
    BY <2>1, TypeStep, DlStep, JobStep, DownStep DEF Ind
  <2>3. SnapshotInv' /\ ResendInv'
    BY <2>1, SnapshotStep, ResendStep DEF Ind
  <2>4. ASSUME NEW j \in AllJobs, deletes'[j.game] = 0 PROVE OnceAt(j)'
    <3>1. j.game \in Games
      BY DEF AllJobs, JobsOf
    <3>2. deletes[j.game] = 0
      BY <2>1, <2>4, <3>1, DeletesGrow DEF Ind
    <3> QED
      BY <2>1, <2>4, <3>2, OnceStep DEF OnceInv
  <2>5. OnceInv'
    BY <2>4 DEF OnceInv, AllJobs, JobsOf
  <2> QED
    BY <2>2, <2>3, <2>5
<1> QED
  BY <1>1, <1>2, PTL DEF Spec

-----------------------------------------------------------------------------
(* Results stay.                                                           *)

\* Only a worker that posts a job's result truncates its file.
LEMMA OnlyPostsTruncate ==
  ASSUME TypeOK, JobInv, StepKind, NEW j \in AllJobs, rsgf[j] = "whole", rsgf'[j] # "whole"
  PROVE  \E w \in Workers : Submit(w) /\ wjob[w] = j
<1> USE DEF TypeOK
<1>1. j \in Jobs
  BY AllJobsAreJobs
<1>2. CASE ServerStops
  BY <1>2, ServerEnd
<1>3. ASSUME NEW w \in Workers, Submit(w) \/ Saved(w) \/ AnswerLost(w)
      PROVE  Submit(w) /\ wjob[w] = j
  BY <1>1, <1>3 DEF Submit, Saved, AnswerLost
<1>4. ASSUME NEW w \in Workers,
             \/ Serve(w) \/ ServeMissing(w) \/ Receive(w) \/ ReplyLost(w)
             \/ ReplyTruncated(w) \/ Analyse(w) \/ AnalysisFails(w) \/ GiveUp(w)
             \/ WorkerRestart(w) \/ WorkerStops(w)
      PROVE  FALSE
  BY <1>4 DEF Serve, ServeMissing, Receive, ReplyLost, ReplyTruncated, Analyse,
     AnalysisFails, GiveUp, WorkerRestart, WorkerStops
<1>5. ASSUME NEW g \in Games,
             Store(g, "good") \/ Store(g, "bad") \/ GameEnds(g) \/ UserDeletes(g)
      PROVE  FALSE
  BY <1>5 DEF Store, GameEnds, UserDeletes
<1>6. CASE \/ Restart \/ StartRun \/ FetchPage \/ QueueJobs \/ UNCHANGED vars
           \/ \E i \in DOMAIN Pages[dl.page] : OpenSgf(i)
  BY <1>6 DEF Restart, StartRun, FetchPage, QueueJobs, OpenSgf, vars
<1> QED
  BY <1>2, <1>3, <1>4, <1>5, <1>6 DEF StepKind

\* A stored result is never truncated for a game whose sgf was not deleted,
\* but by the worker that stored it and asks again: no crash, lost message or
\* restart brings a second worker to the same job.
THEOREM ResultsStay ==
  ASSUME IsInjective(BotList)
  PROVE  Spec => KeepResults
<1> DEFINE Stays == \A j \in AllJobs :
              rsgf[j] = "whole" /\ deletes[j.game] = 0 =>
                  \/ rsgf'[j] = "whole"
                  \/ \E w \in Workers : wpc[w] = "resend" /\ wjob[w] = j
<1>1. Once /\ [Next]_vars => Stays
  <2> SUFFICES ASSUME Once, [Next]_vars, NEW j \in AllJobs,
                      rsgf[j] = "whole", deletes[j.game] = 0, rsgf'[j] # "whole"
               PROVE  \E w \in Workers : wpc[w] = "resend" /\ wjob[w] = j
    OBVIOUS
  <2>1. PICK w \in Workers : Submit(w) /\ wjob[w] = j
    BY StepCases, OnlyPostsTruncate DEF Once, Ind
  <2>2. j \in Holding(w)
    BY <2>1 DEF Submit, Posting, Holding
  <2> QED
    BY <2>1, <2>2 DEF Once, OnceInv, OnceAt
<1>2. Once /\ [Next]_vars => [Stays]_vars
  BY <1>1
<1> QED
  BY <1>2, OnceInvariance, PTL DEF Spec, KeepResults

-----------------------------------------------------------------------------
(* Without faults.                                                         *)

\* Nothing went wrong and the user deleted nothing.
Quiet == faults = 0 /\ \A g \in Games : deletes[g] = 0

\* Then every process runs, no sgf is read while it is written,
\* and every analysis leaves the result that its worker will look for.
Calm ==
    /\ up /\ \A w \in Workers : wpc[w] \notin {"dead", "resend"}
    /\ \A g \in dl.open : sgf[g] # "none"
    /\ \A g \in Range(dl.new) : sgf[g] = "good"
    /\ \A j \in Range(queue) : sgf[j.game] = "good"
    /\ \A w \in Workers : wpc[w] \in {"reply", "work"} => body[w] = "good"
    /\ \A w \in Workers : wpc[w] = "result" => wjob[w] \in temp[w]

CalmInv == Quiet => Calm

\* The steps that happen while there was no fault and nobody deletes an sgf.
CalmStep ==
    \/ StartRun \/ FetchPage \/ QueueJobs
    \/ \E i \in DOMAIN Pages[dl.page] : dl.todo # {} /\ OpenSgf(i)
    \/ \E g \in Games : Download(g) \/ GameEnds(g)
    \/ \E w \in Workers : \/ Serve(w) \/ ServeMissing(w) \/ Receive(w) \/ Analyse(w) \/ Submit(w)
                          \/ Saved(w)
    \/ UNCHANGED vars

\* With an ogs_id nothing ends a process but a fault, as long as every analysis
\* leaves its result.
LEMMA CalmSteps ==
  ASSUME Ids = {TRUE}, TypeOK, CalmInv, [Next]_vars, Quiet'
  PROVE  Calm /\ CalmStep
<1>1. /\ faults \in Nat /\ faults' = 0 /\ id
      /\ \A g \in Games : deletes[g] \in Nat /\ deletes'[g] = 0
  BY PipelineAssumption DEF TypeOK, Quiet
<1>a. \A g \in Games : deletes[g] = 0
  BY <1>1, DeletesGrow, StepCases
<1>b. ~RunWithoutId
  BY <1>1 DEF RunWithoutId
<1>2. ~FaultyStep
  <2>1. \A K : ~Fault(K)
    BY <1>1 DEF Fault
  <2> QED
    BY <2>1 DEF FaultyStep, Crash, PageFails, DownloadFails, WorkerCrash, ReplyLost,
       ReplyTruncated, AnalysisFails, AnalysisThrows, SubmitLost, AnswerLost
<1>3. faults = 0
  <2>1. CASE Downloader
    BY <1>1, <1>b, <2>1
       DEF Downloader, StartRun, FetchPage, QueueJobs, OpenSgf, Download, Store, history
  <2>2. ASSUME NEW w \in Workers, WorkerLoop(w) \/ WorkerRestart(w) PROVE UNCHANGED faults
    BY <2>2 DEF WorkerLoop, WorkerRestart, Serve, ServeMissing, Receive, Analyse, SubmitNothing,
       Submit, Saved, SubmitRefused, history
  <2>3. ASSUME NEW g \in Games, GameEnds(g) \/ UserDeletes(g) PROVE UNCHANGED faults
    BY <2>3 DEF GameEnds, UserDeletes, history
  <2>4. CASE Restart \/ UNCHANGED vars
    BY <1>1, <2>4 DEF Restart, vars, history
  <2> QED
    BY <1>1, <1>2, <2>1, <2>2, <2>3, <2>4, SMTT(30) DEF Next
<1>4. Calm
  BY <1>3, <1>a DEF CalmInv, Quiet
<1>5. ~Restart /\ \A w \in Workers : ~WorkerRestart(w) /\ ~SubmitRefused(w) /\ ~SubmitNothing(w)
  BY <1>4 DEF Calm, Restart, WorkerRestart, SubmitRefused, SubmitNothing
<1>6. \A g \in Games : ~UserDeletes(g)
  <2> SUFFICES ASSUME NEW g \in Games, UserDeletes(g) PROVE FALSE
    OBVIOUS
  <2>1. deletes'[g] = deletes[g] + 1
    BY DEF UserDeletes, TypeOK
  <2> QED
    BY <1>1, <1>a, <2>1
<1>7. Downloader => CalmStep
  BY <1>b DEF Downloader, CalmStep
<1>8. \A w \in Workers : WorkerLoop(w) => CalmStep
  BY <1>5 DEF WorkerLoop, CalmStep
<1> QED
  BY <1>2, <1>4, <1>5, <1>6, <1>7, <1>8 DEF Next, CalmStep

\* A file is written before its jobs are queued and is not opened again.
LEMMA CalmKept ==
  ASSUME Ind, SnapshotInv, Calm, CalmStep,
         \A w \in Workers : Range(BotList) \subseteq Paths[w]
  PROVE  Calm'
<1> USE DEF Ind
<1>1. CASE UNCHANGED <<sgf, up, queue, dl, wpc, wjob, body, temp>>
  BY <1>1 DEF Calm
<1>2. CASE StartRun \/ FetchPage
  <2>1. UNCHANGED <<sgf, up, queue, worker>>
    BY <1>2 DEF StartRun, FetchPage
  <2>2. Range(dl'.new) \subseteq Range(dl.new) /\ dl'.open \subseteq dl.open
    <3>1. Range(<<>>) = {}
      BY EmptySeq DEF Range
    <3>2. StartRun => dl'.new = <<>> /\ dl'.open = {}
      BY DEF StartRun, Waiting
    <3>3. FetchPage => dl'.new = dl.new /\ dl'.open = dl.open
      BY DEF FetchPage, TypeOK, Downloads
    <3> QED
      BY <1>2, <3>1, <3>2, <3>3
  <2> QED
    BY <2>1, <2>2 DEF Calm, worker
<1>3. CASE QueueJobs
  <2>1. /\ queue \in Seq(Jobs) /\ dl.new \in Seq(Games)
        /\ JobsFor(dl.new) \in Seq(AllJobs)
        /\ Range(JobsFor(dl.new)) = UNION {JobsOf(g) : g \in Range(dl.new)}
    BY JobsForType DEF TypeOK, Downloads
  <2>2. JobsFor(dl.new) \in Seq(Jobs)
    BY <2>1, AllJobsAreJobs
  <2>3. Range(queue') = Range(queue) \cup Range(JobsFor(dl.new))
    BY <1>3, <2>1, <2>2, RangeOfConcat DEF QueueJobs
  <2>4. \A j \in Range(queue') : sgf[j.game] = "good"
    BY <2>1, <2>3 DEF Calm, JobsOf
  <2>5. Range(dl'.new) = {} /\ dl'.open = {}
    BY <1>3, EmptySeq DEF QueueJobs, Waiting, Range
  <2> QED
    BY <1>3, <2>4, <2>5 DEF QueueJobs, Calm, worker
<1>4. ASSUME NEW i \in DOMAIN Pages[dl.page], dl.todo # {}, OpenSgf(i) PROVE Calm'
  <2> DEFINE g == Pages[dl.page][i]
  <2>1. /\ g \in dl.todo \ dl.open /\ UNCHANGED <<up, queue, worker>>
        /\ sgf' = [sgf EXCEPT ![g] = "bad"] /\ dl' = [dl EXCEPT !.open = {g}]
    BY <1>4 DEF OpenSgf
  <2>2. g \in Games /\ sgf[g] = "none"
    BY <2>1, <1>4 DEF SnapshotInv, TypeOK, Downloads, DlInv, Waiting
  <2> HIDE DEF g
  <2>3. dl'.new = dl.new /\ dl'.open = {g} /\ sgf'[g] # "none" /\ g \notin Range(dl.new)
    BY <2>1, <2>2 DEF TypeOK, Downloads, Calm
  <2>4. \A h \in Games \ {g} : sgf'[h] = sgf[h]
    BY <2>1 DEF TypeOK
  <2>5. Range(dl.new) \subseteq Games /\ Range(queue) \subseteq Jobs
    BY RangeInSet DEF TypeOK, Downloads
  <2>6. \A j \in Range(queue) : j.game # g /\ j.game \in Games
    BY <2>2, <2>5 DEF Calm, Jobs
  <2> QED
    BY <2>1, <2>3, <2>4, <2>5, <2>6 DEF Calm, worker
<1>5. ASSUME NEW g \in Games, Download(g) PROVE Calm'
  <2>1. /\ UNCHANGED <<up, queue, worker>>
        /\ sgf' = [sgf EXCEPT ![g] = IF @ = "none" THEN "none" ELSE "good"]
        /\ dl'.new = Append(dl.new, g) /\ g \in dl.open
    BY <1>5 DEF Download, Store, TypeOK, Downloads
  <2>2. sgf'[g] = "good" /\ dl'.open = {}
    BY <1>5, <2>1 DEF Calm, Download, Store, TypeOK, Downloads
  <2>3. \A h \in Games \ {g} : sgf'[h] = sgf[h]
    BY <2>1 DEF TypeOK
  <2>4. Range(dl'.new) = Range(dl.new) \cup {g} /\ Range(dl.new) \subseteq Games
    BY <2>1, RangeOfAppend, RangeInSet DEF TypeOK, Downloads
  <2>5. \A j \in Range(queue) : j.game \in Games
    <3>1. Range(queue) \subseteq Jobs
      BY RangeInSet DEF TypeOK
    <3> QED
      BY <3>1 DEF Jobs
  <2>6. \A j \in Range(queue) : sgf'[j.game] = "good"
    BY <2>2, <2>3, <2>5 DEF Calm
  <2>7. \A h \in Range(dl'.new) : sgf'[h] = "good"
    BY <2>2, <2>3, <2>4 DEF Calm
  <2> QED
    BY <2>1, <2>2, <2>6, <2>7 DEF Calm, worker
<1>6. ASSUME NEW g \in Games, GameEnds(g) PROVE Calm'
  BY <1>1, <1>6 DEF GameEnds, server, worker
<1>7. ASSUME NEW w \in Workers, Serve(w) \/ ServeMissing(w)
      PROVE  /\ Head(queue) \in Range(queue) /\ Range(queue') \subseteq Range(queue)
             /\ UNCHANGED <<sgf, up, dl, temp>>
  BY <1>7, HeadAndRest DEF Serve, ServeMissing, TypeOK, worker
<1>8. ASSUME NEW w \in Workers, Serve(w) PROVE Calm'
  <2>1. /\ wpc' = [wpc EXCEPT ![w] = "reply"] /\ wjob' = [wjob EXCEPT ![w] = Head(queue)]
        /\ body' = [body EXCEPT ![w] = sgf[Head(queue).game]]
    BY <1>8 DEF Serve
  <2>2. sgf[Head(queue).game] = "good"
    BY <1>7, <1>8 DEF Calm
  <2>3. /\ wpc'[w] = "reply" /\ body'[w] = "good"
        /\ \A v \in Workers \ {w} : UNCHANGED <<wpc[v], wjob[v], body[v]>>
    BY <2>1, <2>2 DEF TypeOK
  <2> QED
    BY <1>7, <1>8, <2>3, ZenonT(60) DEF Calm
<1>9. ASSUME NEW w \in Workers, ServeMissing(w) PROVE Calm'
  BY <1>7, <1>9 DEF ServeMissing, worker, Calm
<1>10. ASSUME NEW w \in Workers, Receive(w) \/ Submit(w) \/ Saved(w) PROVE Calm'
  <2>1. /\ UNCHANGED <<sgf, up, queue, dl, wjob, body, temp>>
        /\ \E s \in {"work", "saving", "idle"} :
              wpc' = [wpc EXCEPT ![w] = s] /\ (s = "work" => wpc[w] = "reply")
    BY <1>10 DEF Receive, Submit, Saved, server
  <2>2. /\ wpc'[w] \in {"work", "saving", "idle"} /\ (wpc'[w] = "work" => wpc[w] = "reply")
        /\ \A v \in Workers \ {w} : wpc'[v] = wpc[v]
    BY <2>1 DEF TypeOK
  <2> QED
    BY <2>1, <2>2 DEF Calm
<1>11. ASSUME NEW w \in Workers, Analyse(w) PROVE Calm'
  <2>1. wpc[w] = "work" /\ body[w] = "good" /\ wjob[w] \in AllJobs
    BY <1>11 DEF Analyse, Calm, JobInv, AtWork
  <2>2. wjob[w].bot \in Paths[w]
    BY <2>1 DEF AllJobs, JobsOf
  <2>3. /\ temp' = [temp EXCEPT ![w] = @ \cup {wjob[w]}] /\ wpc' = [wpc EXCEPT ![w] = "result"]
        /\ UNCHANGED <<sgf, up, queue, dl, wjob, body>>
    BY <1>11, <2>1, <2>2 DEF Analyse, server
  <2>4. /\ wpc'[w] = "result" /\ wjob'[w] \in temp'[w]
        /\ \A v \in Workers \ {w} : UNCHANGED <<wpc[v], temp[v]>>
    BY <2>3 DEF TypeOK
  <2> QED
    BY <2>3, <2>4 DEF Calm
<1>12. CASE UNCHANGED vars
  BY <1>1, <1>12 DEF vars, server, worker
<1> QED
  BY <1>2, <1>3, <1>4, <1>5, <1>6, <1>8, <1>9, <1>10, <1>11, <1>12 DEF CalmStep

\* Where config.ini has an ogs_id and no worker lacks a bot's path, no process
\* ends before a fault happens or the user deletes an sgf: the downloader finds
\* its player (downloader.cpp:33), no sgf is served before it is written, and each
\* submit_job finds the file that do_job left (main.cpp, work_client.cpp).
THEOREM NobodyDies ==
  ASSUME Ids = {TRUE}, \A w \in Workers : Range(BotList) \subseteq Paths[w]
  PROVE  Spec => []NoFaultNoDeath
<1>1. Init => Ind /\ SnapshotInv /\ CalmInv
  <2> SUFFICES ASSUME Init PROVE SnapshotInv /\ Calm
    BY IndInit DEF CalmInv
  <2>1. dl.pc = "waiting" /\ dl.open = {} /\ dl.new = <<>> /\ queue = <<>>
    BY DEF Init, Waiting
  <2>2. Range(dl.new) = {} /\ Range(queue) = {}
    BY <2>1, EmptySeq DEF Range
  <2>3. up /\ \A w \in Workers : wpc[w] = "idle"
    BY DEF Init
  <2> QED
    BY <2>1, <2>2, <2>3 DEF SnapshotInv, Calm
<1>2. Ind /\ SnapshotInv /\ CalmInv /\ [Next]_vars => (Ind /\ SnapshotInv /\ CalmInv)'
  <2> SUFFICES ASSUME Ind, SnapshotInv, CalmInv, [Next]_vars PROVE (Ind /\ SnapshotInv /\ CalmInv)'
    OBVIOUS
  <2>0. Ind'
    BY TypeStep, DlStep, JobStep, DownStep, StepCases DEF Ind
  <2>1. SnapshotInv'
    BY SnapshotStep, StepCases DEF Ind
  <2>2. ASSUME Quiet' PROVE Calm'
    BY <2>2, CalmSteps, CalmKept DEF Ind
  <2> QED
    BY <2>0, <2>1, <2>2 DEF CalmInv
<1>3. CalmInv => NoFaultNoDeath
  BY DEF CalmInv, Quiet, Calm, NoFaultNoDeath
<1> QED
  BY <1>1, <1>2, <1>3, PTL DEF Spec

-----------------------------------------------------------------------------
(* AutoGrp implements JobLifecycle where config.ini names each bot once and*)
(* nobody deletes an sgf: every step of the pipeline is a step in the life *)
(* of the jobs it moves, or leaves them all as they are.                   *)

\* A pair of a game and a bot that config.ini does not name never gets anywhere.
Unasked(j) == j \notin lost /\ rsgf[j] = "none"
UnaskedInv == \A j \in Jobs \ AllJobs : Unasked(j)

Status == [j \in Jobs |-> StatusOf(j)]

-----------------------------------------------------------------------------
(* The status of a job.                                                    *)

\* What a step does to the status of a job, read from where the job is.
LEMMA StatusCases ==
  \A j \in AllJobs : OnceAt(j) =>
      /\ StatusOf(j) = "pending" <=> Coming(j.game) \/ j \in Range(queue)
      /\ StatusOf(j) = "running" <=> \E w \in Workers : j \in Holding(w)
      /\ ~Coming(j.game) /\ j \notin Range(queue) /\ Untouched(j) => StatusOf(j) = "new"
      /\ StatusOf(j) = "lost" <=> j \in lost
<1> SUFFICES ASSUME NEW j \in AllJobs, OnceAt(j)
             PROVE  /\ StatusOf(j) = "pending" <=> Coming(j.game) \/ j \in Range(queue)
                    /\ StatusOf(j) = "running" <=> \E w \in Workers : j \in Holding(w)
                    /\ ~Coming(j.game) /\ j \notin Range(queue) /\ Untouched(j)
                          => StatusOf(j) = "new"
                    /\ StatusOf(j) = "lost" <=> j \in lost
  OBVIOUS
<1>1. j.bot \in Range(BotList)
  BY DEF AllJobs, JobsOf
<1> DEFINE held == \E w \in Workers : j \in Holding(w)
           come == Coming(j.game)
           wait == j \in Range(queue)
<1>2. StatusOf(j) = IF j \in lost THEN "lost" ELSE IF held THEN "running"
                    ELSE IF rsgf[j] = "whole" THEN "done"
                    ELSE IF wait \/ come THEN "pending" ELSE "new"
  BY <1>1 DEF StatusOf, Coming
<1>3. come \/ wait => ~held /\ rsgf[j] = "none" /\ j \notin lost
  BY DEF OnceAt, Untouched
<1>4. held => j \notin lost
  BY DEF OnceAt
<1>5. Untouched(j) => ~held /\ rsgf[j] = "none" /\ j \notin lost
  BY DEF Untouched
<1> HIDE DEF held, come, wait
<1>6. /\ StatusOf(j) = "pending" <=> come \/ wait
      /\ StatusOf(j) = "running" <=> held
      /\ ~come /\ ~wait /\ Untouched(j) => StatusOf(j) = "new"
      /\ StatusOf(j) = "lost" <=> j \in lost
  BY <1>2, <1>3, <1>4, <1>5
<1> QED
  BY <1>6 DEF held, come, wait

\* A pair that config.ini does not name stays new.
LEMMA UnaskedIsNew ==
  Ind /\ UnaskedInv => \A j \in Jobs \ AllJobs : StatusOf(j) = "new"
<1> SUFFICES ASSUME Ind, UnaskedInv, NEW j \in Jobs \ AllJobs PROVE StatusOf(j) = "new"
  OBVIOUS
<1>1. j.bot \notin Range(BotList)
  BY DEF Jobs, AllJobs, JobsOf
<1>2. j \notin Range(queue) /\ \A w \in Workers : j \notin Holding(w)
  BY HoldingType DEF Ind, JobInv
<1> QED
  BY <1>1, <1>2 DEF UnaskedInv, Unasked, StatusOf

\* A step changes the results of jobs that were asked for, and takes no others.
LEMMA UnaskedStep ==
  ASSUME Ind, StepKind, NEW j \in Jobs \ AllJobs, Unasked(j)
  PROVE  Unasked(j)'
<1> USE DEF Ind
<1>1. CASE UNCHANGED <<rsgf, lost>>
  BY <1>1 DEF Unasked
<1>2. CASE ServerStops
  <2>1. PICK again \in SUBSET {w \in Workers \ Local : wpc[w] = "saving"} :
           Lose(Forgotten(again)) /\ UNCHANGED rsgf
    BY <1>2, ServerEnd
  <2> QED
    BY <2>1, ForgottenType DEF Unasked, Lose
<1>3. ASSUME NEW w \in Workers, Serve(w) PROVE UNCHANGED <<rsgf, lost>>
  BY <1>3 DEF Serve, history
<1>4. ASSUME NEW w \in Workers, ServeMissing(w) PROVE Unasked(j)'
  <2>1. Head(queue) \in AllJobs
    BY <1>4, HeadAndRest DEF ServeMissing, TypeOK, JobInv
  <2> QED
    BY <1>4, <2>1 DEF ServeMissing, Lose, Unasked
<1>5. ASSUME NEW w \in Workers,
             \/ WorkerStops(w) \/ Receive(w) \/ ReplyLost(w) \/ ReplyTruncated(w)
             \/ Analyse(w) \/ AnalysisFails(w) \/ Submit(w) \/ Saved(w) \/ AnswerLost(w)
             \/ GiveUp(w) \/ WorkerRestart(w)
      PROVE  Unasked(j)'
  <2>1. j \notin Holding(w)
    BY HoldingType
  <2> QED
    BY <1>5, <2>1, WorkerDisturbs DEF Unasked
<1>6. ASSUME NEW g \in Games,
             Store(g, "good") \/ Store(g, "bad") \/ GameEnds(g) \/ UserDeletes(g)
      PROVE  UNCHANGED <<rsgf, lost>>
  BY <1>6 DEF Store, GameEnds, UserDeletes, history
<1>7. CASE \/ Restart \/ StartRun \/ FetchPage \/ QueueJobs \/ UNCHANGED vars
           \/ \E i \in DOMAIN Pages[dl.page] : OpenSgf(i)
  BY <1>1, <1>7 DEF Restart, StartRun, FetchPage, QueueJobs, OpenSgf, vars, history
<1> QED
  BY <1>1, <1>2, <1>3, <1>4, <1>5, <1>6, <1>7 DEF StepKind

\* What holds in every state if nobody deletes an sgf.
Life ==
    /\ Ind /\ SnapshotInv /\ ResendInv /\ UnaskedInv
    /\ \A j \in AllJobs : deletes[j.game] = 0 /\ OnceAt(j)

\* The statuses of all jobs, when those of S change and the others do not.
LEMMA Becoming ==
  ASSUME Life, Life', NEW S \in SUBSET AllJobs, NEW s,
         \A j \in S : StatusOf(j)' = s,
         \A j \in AllJobs \ S : StatusOf(j)' = StatusOf(j)
  PROVE  Lifecycle!Become(S, s) /\ (S = {} => Status' = Status)
<1>1. UnaskedIsNew' 
  BY UnaskedIsNew, PTL
<1>2. \A j \in Jobs \ AllJobs : StatusOf(j)' = StatusOf(j)
  BY <1>1, UnaskedIsNew DEF Life
<1>3. \A j \in Jobs \ S : StatusOf(j)' = StatusOf(j)
  BY <1>2
<1> QED
  BY <1>3, AllJobsAreJobs DEF Lifecycle!Become, Status

\* The same of a job that stays where it is, be it that its game's jobs move
\* to the queue.
LEMMA StatusKept ==
  ASSUME Life, Life', NEW j \in AllJobs,
         \A w \in Workers : j \in Holding(w)' <=> j \in Holding(w),
         rsgf'[j] = rsgf[j] \/ \E w \in Workers : j \in Holding(w),
         j \in lost' <=> j \in lost,
         Coming(j.game)' \/ j \in Range(queue') <=> Coming(j.game) \/ j \in Range(queue)
  PROVE  StatusOf(j)' = StatusOf(j)
<1>1. j.bot \in Range(BotList)
  BY DEF AllJobs, JobsOf
<1> DEFINE held == \E w \in Workers : j \in Holding(w)
           ahead == Coming(j.game) \/ j \in Range(queue)
<1>2. StatusOf(j) = IF j \in lost THEN "lost" ELSE IF held THEN "running"
                    ELSE IF rsgf[j] = "whole" THEN "done"
                    ELSE IF ahead THEN "pending" ELSE "new"
  BY <1>1 DEF StatusOf, Coming
<1>3. StatusOf(j)' = IF j \in lost' THEN "lost" ELSE IF held' THEN "running"
                     ELSE IF rsgf'[j] = "whole" THEN "done"
                     ELSE IF ahead' THEN "pending" ELSE "new"
  BY <1>1 DEF StatusOf, Coming
<1>4. (held' <=> held) /\ (ahead' <=> ahead) /\ (rsgf'[j] = rsgf[j] \/ held)
  OBVIOUS
<1> HIDE DEF held, ahead
<1> QED
  BY <1>2, <1>3, <1>4

\* A step in the life of the jobs.
LifeStep == Lifecycle!Next \/ Status' = Status

\* The downloader opens a file: the jobs of its game are created.
LEMMA OpenLives ==
  ASSUME Life, Life', NEW i \in DOMAIN Pages[dl.page], OpenSgf(i)
  PROVE  LifeStep
<1>1. PICK g \in dl.todo :
         /\ dl.open = {} /\ dl' = [dl EXCEPT !.open = {g}]
         /\ UNCHANGED <<rsgf, queue, wpc, wjob, lost>>
  BY Opened DEF Life, Ind
<1>2. /\ g \in Games /\ dl'.open = {g} /\ dl'.new = dl.new /\ dl.pc = "pages"
  BY <1>1 DEF Life, Ind, TypeOK, Downloads, DlInv, Waiting
<1>3. JobsOf(g) \in SUBSET AllJobs
  BY <1>2, AllJobsAreJobs
<1>4. \A v \in Workers : Holding(v)' = Holding(v)
  BY <1>1 DEF Holding
<1>5. ASSUME NEW j \in JobsOf(g) PROVE StatusOf(j) = "new" /\ StatusOf(j)' = "pending"
  <2>1. j.game = g /\ j \in AllJobs
    BY <1>3 DEF JobsOf
  <2>2. OnceAt(j) /\ deletes[g] = 0
    BY <2>1 DEF Life
  <2>3. sgf[g] = "none"
    BY <1>1, <1>2, <2>2 DEF Life, SnapshotInv
  <2>4. StatusOf(j) = "new"
    BY <2>1, <2>2, <2>3, StatusCases DEF OnceAt
  <2>5. Coming(j.game)' /\ OnceAt(j)'
    BY <1>2, <2>1 DEF Coming, Life
  <2>6. StatusCases'
    BY StatusCases, PTL
  <2> QED
    BY <2>1, <2>4, <2>5, <2>6
<1>6. ASSUME NEW j \in AllJobs \ JobsOf(g) PROVE StatusOf(j)' = StatusOf(j)
  <2>1. j.game # g
    BY <1>6 DEF AllJobs, JobsOf
  <2>2. Coming(j.game)' <=> Coming(j.game)
    BY <1>1, <1>2, <2>1 DEF Coming
  <2> QED
    BY <1>1, <1>4, <2>2, StatusKept
<1>7. Lifecycle!Become(JobsOf(g), "pending") /\ (JobsOf(g) = {} => Status' = Status)
  BY <1>3, <1>5, <1>6, Becoming
<1>8. JobsOf(g) \subseteq Lifecycle!In("new")
  BY <1>3, <1>5, AllJobsAreJobs DEF Lifecycle!In
<1> QED
  BY <1>3, <1>7, <1>8, AllJobsAreJobs DEF LifeStep, Lifecycle!Next, Lifecycle!Create

\* A worker is handed the head of the queue.
LEMMA ServeLives ==
  ASSUME Life, Life', NEW w \in Workers, Serve(w)
  PROVE  LifeStep
<1>1. /\ queue \in Seq(Jobs) /\ queue # <<>> /\ queue' = Tail(queue)
      /\ wpc[w] = "idle" /\ wpc' = [wpc EXCEPT ![w] = "reply"]
      /\ wjob' = [wjob EXCEPT ![w] = Head(queue)]
      /\ UNCHANGED <<rsgf, dl, lost>>
  BY DEF Serve, Life, Ind, TypeOK, history
<1>2. PICK h \in AllJobs : h = Head(queue) /\ Range(queue) = {h} \cup Range(queue')
  BY <1>1, HeadAndRest DEF Life, Ind, JobInv
<1>3. /\ Holding(w) = {} /\ Holding(w)' = {h}
      /\ \A v \in Workers \ {w} : Holding(v)' = Holding(v)
  BY <1>1, <1>2 DEF Holding, Life, Ind, TypeOK
<1>4. \A g \in Games : Coming(g)' <=> Coming(g)
  BY <1>1 DEF Coming
<1>5. StatusOf(h) = "pending"
  BY <1>2, StatusCases DEF Life
<1>6. StatusOf(h)' = "running"
  <2>1. StatusCases'
    BY StatusCases, PTL
  <2> QED
    BY <1>2, <1>3, <2>1 DEF Life
<1>7. ASSUME NEW j \in AllJobs \ {h} PROVE StatusOf(j)' = StatusOf(j)
  <2>1. \A v \in Workers : j \in Holding(v)' <=> j \in Holding(v)
    BY <1>3
  <2>2. j \in Range(queue') <=> j \in Range(queue)
    BY <1>2
  <2>3. Coming(j.game)' <=> Coming(j.game)
    BY <1>4 DEF AllJobs, JobsOf
  <2> QED
    BY <1>1, <2>1, <2>2, <2>3, StatusKept
<1>8. Lifecycle!Become({h}, "running")
  BY <1>2, <1>6, <1>7, Becoming
<1>9. h \in Jobs /\ Status[h] = "pending"
  BY <1>2, <1>5, AllJobsAreJobs DEF Status
<1> QED
  BY <1>8, <1>9 DEF LifeStep, Lifecycle!Next, Lifecycle!Take, Status

\* A worker's own step: the job it holds stays at work, is done or is lost.
LEMMA WorkerLives ==
  ASSUME Life, Life', NEW w \in Workers,
         \/ WorkerStops(w) \/ Receive(w) \/ ReplyLost(w) \/ ReplyTruncated(w) \/ Analyse(w)
         \/ AnalysisFails(w) \/ Submit(w) \/ Saved(w) \/ AnswerLost(w) \/ GiveUp(w)
         \/ WorkerRestart(w)
  PROVE  LifeStep
<1> USE DEF AtWork
<1>0. TypeOK /\ JobInv
  BY DEF Life, Ind
<1>1. /\ UNCHANGED <<queue, dl, wjob>>
      /\ \A v \in Workers \ {w} : Holding(v)' = Holding(v)
      /\ Holding(w)' \subseteq Holding(w)
      /\ \A j \in Jobs \ Holding(w) : rsgf'[j] = rsgf[j] /\ (j \in lost' <=> j \in lost)
  BY <1>0, WorkerDisturbs
<1>2. \A g \in Games : Coming(g)' <=> Coming(g)
  BY <1>1 DEF Coming
<1>3. ASSUME NEW j \in AllJobs, j \notin Holding(w) PROVE StatusOf(j)' = StatusOf(j)
  <2>1. \A v \in Workers : j \in Holding(v)' <=> j \in Holding(v)
    BY <1>1, <1>3
  <2>2. rsgf'[j] = rsgf[j] /\ (j \in lost' <=> j \in lost)
    BY <1>1, <1>3, AllJobsAreJobs
  <2>3. Coming(j.game)' <=> Coming(j.game)
    BY <1>2 DEF AllJobs, JobsOf
  <2> QED
    BY <1>1, <2>1, <2>2, <2>3, StatusKept
<1>4. CASE Holding(w) = {}
  <2>1. Status' = Status
    BY <1>3, <1>4, Becoming
  <2> QED
    BY <2>1 DEF LifeStep
<1>5. ASSUME NEW j \in AllJobs, Holding(w) = {j} PROVE LifeStep
  <2>1. OnceAt(j) /\ OnceAt(j)' /\ wjob[w] = j /\ j \in Jobs
    BY <1>5, AllJobsAreJobs DEF Life, Holding
  <2>2. StatusOf(j) = "running" /\ j \notin lost /\ ~Coming(j.game) /\ j \notin Range(queue)
    BY <1>5, <2>1, StatusCases DEF OnceAt, Untouched
  <2>3. CASE Holding(w)' = {j}
    <3>1. StatusOf(j)' = "running"
      <4>1. StatusCases'
        BY StatusCases, PTL
      <4> QED
        BY <2>1, <2>3, <4>1
    <3>2. Status' = Status
      BY <1>3, <1>5, <2>2, <3>1, Becoming
    <3> QED
      BY <3>2 DEF LifeStep
  <2>4. CASE Holding(w)' = {}
    <3>1. \A v \in Workers : j \notin Holding(v)'
      <4>1. \A v \in Workers \ {w} : j \notin Holding(v)
        BY <1>5, <2>1 DEF OnceAt
      <4> QED
        BY <1>1, <2>4, <4>1
    <3>2. ~Coming(j.game)' /\ j \notin Range(queue')
      BY <1>1, <1>2, <2>2 DEF AllJobs, JobsOf
    <3>3. j \in lost' \/ (j \notin lost' /\ rsgf'[j] = "whole")
      <4>1. Somewhere(j)'
        <5>1. Somewhere(j)
          BY <1>5 DEF Somewhere
        <5> QED
          BY <1>0, <5>1, WorkerKeeps
      <4> QED
        BY <3>1, <3>2, <4>1 DEF Somewhere, Coming
    <3>4. CASE j \in lost'
      <4>1. StatusOf(j)' = "lost"
        BY <3>4 DEF StatusOf
      <4>2. Lifecycle!Become({j}, "lost")
        BY <1>3, <1>5, <4>1, Becoming
      <4>3. {j} \subseteq Lifecycle!In("running")
        BY <2>1, <2>2 DEF Lifecycle!In
      <4> QED
        BY <2>1, <4>2, <4>3 DEF LifeStep, Lifecycle!Next, Lifecycle!Lose
    <3>5. CASE j \notin lost' /\ rsgf'[j] = "whole"
      <4>1. StatusOf(j)' = "done"
        BY <3>1, <3>5 DEF StatusOf
      <4>2. Lifecycle!Become({j}, "done")
        BY <1>3, <1>5, <4>1, Becoming
      <4>3. Status[j] = "running"
        BY <2>1, <2>2 DEF Status
      <4> QED
        BY <2>1, <4>2, <4>3 DEF LifeStep, Lifecycle!Next, Lifecycle!Finish, Status
    <3> QED
      BY <3>3, <3>4, <3>5
  <2> QED
    BY <1>1, <1>5, <2>3, <2>4
<1>6. Holding(w) = {} \/ \E j \in AllJobs : Holding(w) = {j}
  BY <1>0, HoldingOf DEF JobInv
<1> QED
  BY <1>4, <1>5, <1>6

\* The end of the server's process loses every job that waited and those of the
\* workers it hits; none of these had a result.
LEMMA ServerEndLives ==
  ASSUME Life, Life', ServerStops
  PROVE  LifeStep
<1>1. PICK again \in SUBSET {w \in Workers \ Local : wpc[w] = "saving"} :
        /\ Lose(Forgotten(again)) /\ UNCHANGED <<rsgf, wjob>>
        /\ queue' = <<>> /\ dl' = Waiting
        /\ \A w \in Workers :
              wpc'[w] = IF w \in Local THEN "dead"
                        ELSE IF w \in Hit(again) THEN "idle"
                        ELSE IF w \in again THEN "resend" ELSE wpc[w]
  BY ServerEnd DEF Life, Ind
<1>2. Range(queue') = {} /\ dl'.open = {} /\ Range(dl'.new) = {}
  BY <1>1, EmptySeq DEF Waiting, Range
<1>3. Forgotten(again) \in SUBSET AllJobs
  BY ForgottenType DEF Life, Ind
<1>4. \A w \in Workers : wpc'[w] \in AtWork => w \notin Hit(again) /\ wpc[w] \in AtWork
  BY <1>1 DEF AtWork, Hit
<1>5. \A w \in Workers \ Hit(again) : Holding(w)' = Holding(w)
  BY <1>1 DEF Holding, Hit
<1>6. \A w \in Hit(again) : Holding(w)' = {}
  BY <1>1, <1>4 DEF Holding, Hit, AtWork
<1>7. ASSUME NEW j \in Forgotten(again)
      PROVE  StatusOf(j) \in {"pending", "running"} /\ StatusOf(j)' = "lost"
  <2>1. j \in AllJobs /\ OnceAt(j)
    BY <1>3 DEF Life
  <2>2. CASE Coming(j.game) \/ j \in Range(queue)
    <3>1. Untouched(j) /\ StatusOf(j) = "pending"
      BY <2>1, <2>2, StatusCases DEF OnceAt
    <3> QED
      BY <1>1, <3>1 DEF Untouched, Lose, StatusOf
  <2>3. ASSUME NEW w \in Hit(again), j \in Holding(w)
        PROVE  StatusOf(j) \in {"pending", "running"} /\ StatusOf(j)' = "lost"
    <3>1. w \in Workers /\ (w \in Local \/ wpc[w] \in {"reply", "saving"})
      BY DEF Hit
    <3>2. wpc[w] # "resend"
      BY <3>1 DEF Life, ResendInv
    <3>3. rsgf[j] # "whole" /\ StatusOf(j) = "running"
      BY <2>1, <2>3, <3>1, <3>2, StatusCases DEF OnceAt
    <3> QED
      BY <1>1, <3>3 DEF Lose, StatusOf
  <2>4. \/ Coming(j.game) \/ j \in Range(queue)
        \/ \E w \in Hit(again) : j \in Holding(w)
    BY DEF Forgotten, Coming, JobsOf
  <2> QED
    BY <2>2, <2>3, <2>4
<1>8. ASSUME NEW j \in AllJobs \ Forgotten(again) PROVE StatusOf(j)' = StatusOf(j)
  <2>1. ~Coming(j.game) /\ j \notin Range(queue) /\ \A w \in Hit(again) : j \notin Holding(w)
    BY <1>8 DEF Forgotten, Coming, JobsOf, AllJobs
  <2>2. \A w \in Workers : j \in Holding(w)' <=> j \in Holding(w)
    BY <1>5, <1>6, <2>1
  <2>3. j \in lost' <=> j \in lost
    BY <1>1, <1>8 DEF Lose
  <2>4. ~Coming(j.game)' /\ j \notin Range(queue')
    BY <1>2 DEF Coming
  <2> QED
    BY <1>1, <2>1, <2>2, <2>3, <2>4, StatusKept
<1>9. /\ Lifecycle!Become(Forgotten(again), "lost")
      /\ Forgotten(again) = {} => Status' = Status
  BY <1>3, <1>7, <1>8, Becoming
<1>10. Forgotten(again) \subseteq Lifecycle!In("pending") \cup Lifecycle!In("running")
  BY <1>3, <1>7, AllJobsAreJobs DEF Lifecycle!In
<1>11. Forgotten(again) \in SUBSET Jobs
  BY <1>3, AllJobsAreJobs
<1> QED
  BY <1>9, <1>10, <1>11 DEF LifeStep, Lifecycle!Next, Lifecycle!Lose

\* The other steps of the downloader leave the statuses as they are: the jobs
\* of a new game were created with its file.
LEMMA DownloaderLives ==
  ASSUME Life, Life',
         StartRun \/ FetchPage \/ QueueJobs \/ \E g \in Games : Store(g, "good") \/ Store(g, "bad")
  PROVE  Status' = Status
<1>1. TypeOK /\ DlInv
  BY DEF Life, Ind
<1>2. UNCHANGED <<rsgf, wpc, wjob, lost>>
  BY <1>1, Stored DEF StartRun, FetchPage, QueueJobs, worker, history
<1>3. \A v \in Workers : Holding(v)' = Holding(v)
  BY <1>2 DEF Holding
<1> SUFFICES ASSUME NEW j \in AllJobs
             PROVE  Coming(j.game)' \/ j \in Range(queue')
                        <=> Coming(j.game) \/ j \in Range(queue)
  BY <1>2, <1>3, StatusKept, Becoming
<1>4. j.game \in Games /\ j \in JobsOf(j.game) /\ dl.new \in Seq(Games)
  BY <1>1 DEF AllJobs, JobsOf, TypeOK, Downloads
<1>5. CASE StartRun
  <2>1. dl = Waiting
    BY <1>1, <1>5 DEF StartRun, DlInv
  <2>2. dl'.open = dl.open /\ dl'.new = dl.new /\ queue' = queue
    BY <1>5, <2>1 DEF StartRun, Waiting
  <2> QED
    BY <2>2 DEF Coming
<1>6. CASE FetchPage
  <2>1. dl'.open = dl.open /\ dl'.new = dl.new /\ queue' = queue
    BY <1>1, <1>6 DEF FetchPage, TypeOK, Downloads
  <2> QED
    BY <2>1 DEF Coming
<1>7. ASSUME NEW g \in Games, Store(g, "good") \/ Store(g, "bad")
      PROVE  Coming(j.game)' <=> Coming(j.game)
  <2>1. dl.open = {g} /\ dl'.open = {} /\ dl'.new = Append(dl.new, g)
    BY <1>1, <1>7, Stored
  <2>2. Range(dl'.new) = Range(dl.new) \cup {g}
    BY <1>4, <2>1, RangeOfAppend
  <2> QED
    BY <2>1, <2>2 DEF Coming
<1>8. CASE QueueJobs
  <2>1. /\ queue \in Seq(Jobs) /\ queue' = queue \o JobsFor(dl.new)
        /\ dl' = Waiting /\ dl.open = {}
    BY <1>1, <1>8 DEF QueueJobs, TypeOK, DlInv
  <2>2. /\ JobsFor(dl.new) \in Seq(Jobs)
        /\ Range(JobsFor(dl.new)) = UNION {JobsOf(g) : g \in Range(dl.new)}
    BY <1>4, JobsForType, AllJobsAreJobs, SeqMonotonic
  <2>3. Range(queue') = Range(queue) \cup Range(JobsFor(dl.new))
    BY <2>1, <2>2, RangeOfConcat
  <2>4. j \in Range(JobsFor(dl.new)) <=> j.game \in Range(dl.new)
    BY <1>4, <2>2 DEF JobsOf
  <2>5. ~Coming(j.game)'
    BY <2>1, EmptySeq DEF Coming, Waiting, Range
  <2> QED
    BY <2>1, <2>3, <2>4, <2>5 DEF Coming
<1>9. ASSUME NEW g \in Games, Store(g, "good") \/ Store(g, "bad") PROVE queue' = queue
  BY <1>1, <1>9, Stored
<1> QED
  BY <1>5, <1>6, <1>7, <1>8, <1>9

\* So do the restart of the server, and a game that ends.
LEMMA RestLives ==
  ASSUME Life, Life', Restart \/ UNCHANGED vars \/ \E g \in Games : GameEnds(g)
  PROVE  Status' = Status
<1>1. UNCHANGED <<rsgf, queue, dl, wjob, lost>>
  BY DEF Restart, GameEnds, vars, server, worker, history
<1>2. \A w \in Workers : wpc[w] \in AtWork \/ wpc'[w] \in AtWork => wpc'[w] = wpc[w]
  <2>1. CASE Restart
    BY <2>1 DEF Restart, Life, Ind, DownInv, AtWork
  <2> QED
    BY <2>1 DEF GameEnds, vars, worker
<1>3. \A w \in Workers : Holding(w)' = Holding(w)
  BY <1>1, <1>2 DEF Holding, AtWork
<1>4. \A g \in Games : Coming(g)' <=> Coming(g)
  BY <1>1 DEF Coming
<1>5. ASSUME NEW j \in AllJobs PROVE StatusOf(j)' = StatusOf(j)
  <2>1. j.game \in Games
    BY DEF AllJobs, JobsOf
  <2> QED
    BY <1>1, <1>3, <1>4, <2>1, StatusKept
<1> QED
  BY <1>5, Becoming

\* The queue holds no job whose game has no file, and nobody deletes one.
LEMMA NothingMissing ==
  ASSUME Life, Life'
  PROVE  /\ \A w \in Workers : ~ServeMissing(w)
         /\ MaxDeletes = 0 => \A g \in Games : ~UserDeletes(g)
<1>1. ASSUME NEW w \in Workers, ServeMissing(w) PROVE FALSE
  <2>1. Head(queue) \in Range(queue) /\ sgf[Head(queue).game] = "none"
    BY <1>1, HeadAndRest DEF ServeMissing, Life, Ind, TypeOK
  <2> QED
    BY <2>1 DEF Life, Ind, JobInv, OnceAt
<1>2. ASSUME MaxDeletes = 0, NEW g \in Games, UserDeletes(g) PROVE FALSE
  BY <1>2 DEF UserDeletes, Life, Ind, TypeOK
<1> QED
  BY <1>1, <1>2

\* Each step of the pipeline is a step in the life of its jobs.
LEMMA StepLives ==
  ASSUME MaxDeletes = 0, Life, Life', StepKind
  PROVE  LifeStep
<1>1. CASE ServerStops
  BY <1>1, ServerEndLives
<1>2. CASE \/ Restart \/ StartRun \/ FetchPage \/ QueueJobs \/ UNCHANGED vars
           \/ \E g \in Games : Store(g, "good") \/ Store(g, "bad") \/ GameEnds(g)
  <2>1. Status' = Status
    BY <1>2, DownloaderLives, RestLives
  <2> QED
    BY <2>1 DEF LifeStep
<1>3. ASSUME NEW i \in DOMAIN Pages[dl.page], OpenSgf(i) PROVE LifeStep
  BY <1>3, OpenLives
<1>4. ASSUME NEW w \in Workers, Serve(w) PROVE LifeStep
  BY <1>4, ServeLives
<1>5. ASSUME NEW w \in Workers,
             \/ WorkerStops(w) \/ Receive(w) \/ ReplyLost(w) \/ ReplyTruncated(w)
             \/ Analyse(w) \/ AnalysisFails(w) \/ Submit(w) \/ Saved(w) \/ AnswerLost(w)
             \/ GiveUp(w) \/ WorkerRestart(w)
      PROVE  LifeStep
  BY <1>5, WorkerLives
<1> QED
  BY <1>1, <1>2, <1>3, <1>4, <1>5, NothingMissing DEF StepKind

\* Where each bot is named once and nobody deletes an sgf, every job lives the
\* life of JobLifecycle: it is created with its game, handed to one worker, and
\* done or lost for good, whatever crashes, fails or is sent twice.
THEOREM JobsLive ==
  ASSUME IsInjective(BotList), MaxDeletes = 0
  PROVE  Spec => ImplementsLifecycle
<1>1. Init => UnaskedInv /\ Lifecycle!Init
  <2> SUFFICES ASSUME Init PROVE UnaskedInv /\ Lifecycle!Init
    OBVIOUS
  <2>1. /\ Range(queue) = {} /\ dl.open = {} /\ Range(dl.new) = {}
        /\ \A w \in Workers : Holding(w) = {}
        /\ lost = {} /\ \A j \in Jobs : rsgf[j] = "none"
    BY EmptySeq DEF Init, Waiting, Range, Holding
  <2>2. UnaskedInv
    BY <2>1 DEF UnaskedInv, Unasked
  <2>3. \A j \in Jobs : StatusOf(j) = "new"
    BY <2>1 DEF StatusOf
  <2> QED
    BY <2>2, <2>3 DEF Lifecycle!Init
<1>2. Once /\ UnaskedInv /\ [Next]_vars => UnaskedInv'
  <2> SUFFICES ASSUME Once, UnaskedInv, [Next]_vars, NEW j \in Jobs \ AllJobs
               PROVE  Unasked(j)'
    BY DEF UnaskedInv, Jobs, AllJobs, JobsOf
  <2> QED
    BY StepCases, UnaskedStep DEF Once, UnaskedInv
<1>3. Once /\ UnaskedInv => Life
  <2> SUFFICES ASSUME Once, UnaskedInv, NEW j \in AllJobs
               PROVE  deletes[j.game] = 0 /\ OnceAt(j)
    BY DEF Once, Life
  <2>1. deletes[j.game] = 0
    BY DEF Once, Ind, TypeOK, AllJobs, JobsOf
  <2> QED
    BY <2>1 DEF Once, OnceInv
<1>4. Life /\ Life' /\ [Next]_vars => [Lifecycle!Next]_Status
  BY StepCases, StepLives DEF LifeStep
<1> QED
  BY <1>1, <1>2, <1>3, <1>4, OnceInvariance, PTL
  DEF Spec, ImplementsLifecycle, Lifecycle!Spec, Status

-----------------------------------------------------------------------------
(* However often a bot is named and an sgf is deleted.                     *)

\* std::unique leaves no bot next to itself (main.cpp:34).
NoRepeats == \A i \in DOMAIN BotList : i = 1 \/ BotList[i - 1] # BotList[i]

\* How often a job was handed out and is going to be: from the queue, and once
\* for each time its bot is named when its game is new.
HandOuts(j) == Count(queue, j) + served[j] + Named(j.bot) * Count(dl.new, j.game)

\* What a job may be handed out for: the file that is there, and those deleted.
\* A file that is open counts before its game is new.
CreditAt(j) ==
    HandOuts(j) + (IF j.game \in dl.open THEN Named(j.bot) ELSE 0)
        <= Named(j.bot) * (deletes[j.game] + (IF sgf[j.game] = "none" THEN 0 ELSE 1))

CreditInv == \A j \in AllJobs : CreditAt(j)

-----------------------------------------------------------------------------
(* Counting jobs.                                                          *)

\* Without a repetition a bot is named as often as it is in the list.
LEMMA NamedIsCount ==
  ASSUME NoRepeats, NEW b
  PROVE  Named(b) = Count(BotList, b) /\ Named(b) \in Nat
<1>1. Count(BotList, b) \in Nat
  BY PipelineAssumption, CountType
<1>2. {i \in DOMAIN BotList : BotList[i] = b /\ (i = 1 \/ BotList[i - 1] # b)}
          = {i \in DOMAIN BotList : BotList[i] = b}
  BY DEF NoRepeats
<1> QED
  BY <1>1, <1>2 DEF Named, Count

\* A job is queued once for each time its game is new and its bot is named.
LEMMA CountJobsFor ==
  ASSUME NoRepeats, NEW games \in Seq(Games), NEW j \in AllJobs
  PROVE  Count(JobsFor(games), j) <= Named(j.bot) * Count(games, j.game)
<1> DEFINE n == Len(BotList)
           m == Len(games)
           row(k) == ((k - 1) \div n) + 1
           column(k) == ((k - 1) % n) + 1
           A == {i \in DOMAIN games : games[i] = j.game}
           B == {i \in DOMAIN BotList : BotList[i] = j.bot}
           C == {k \in DOMAIN JobsFor(games) : JobsFor(games)[k] = j}
           f == [k \in C |-> <<row(k), column(k)>>]
<1>1. /\ n \in Nat /\ m \in Nat /\ m * n \in Nat
      /\ DOMAIN games = 1 .. m /\ DOMAIN BotList = 1 .. n
  BY PipelineAssumption, LenProperties
<1>2. ASSUME NEW k \in 1 .. m * n
      PROVE  /\ n \in Nat \ {0}
             /\ row(k) \in 1 .. m
             /\ column(k) \in 1 .. n
             /\ k = (row(k) - 1) * n + column(k)
  <2>1. n \in Nat \ {0}
    BY <1>1
  <2> HIDE DEF n, m
  <2>2. k - 1 = ((k - 1) \div n) * n + ((k - 1) % n)
    BY <1>1, <2>1
  <2> QED
    BY <1>1, <2>1, <2>2, RowAndColumn
<1>3. DOMAIN JobsFor(games) = 1 .. m * n
  BY DEF JobsFor
<1>4. ASSUME NEW k \in 1 .. m * n
      PROVE  /\ JobsFor(games)[k].game = games[row(k)]
             /\ JobsFor(games)[k].bot = BotList[column(k)]
  BY <1>1 DEF JobsFor
<1>5. /\ IsFiniteSet(A) /\ Cardinality(A) = Count(games, j.game)
      /\ IsFiniteSet(B) /\ Cardinality(B) = Named(j.bot)
      /\ Cardinality(C) = Count(JobsFor(games), j)
  <2>1. IsFiniteSet(A) /\ Cardinality(A) = Count(games, j.game)
    BY CountType DEF Count
  <2>2. IsFiniteSet(B) /\ Cardinality(B) = Named(j.bot)
    BY PipelineAssumption, CountType, NamedIsCount DEF Count
  <2> QED
    BY <2>1, <2>2 DEF Count
<1>6. ASSUME NEW k \in C
      PROVE  /\ k \in 1 .. m * n /\ row(k) \in A /\ column(k) \in B
             /\ f[k] = <<row(k), column(k)>>
  <2>1. k \in 1 .. m * n /\ JobsFor(games)[k] = j
    BY <1>3
  <2>2. games[row(k)] = j.game /\ BotList[column(k)] = j.bot
    BY <1>4, <2>1
  <2>3. row(k) \in DOMAIN games /\ column(k) \in DOMAIN BotList
    BY <1>1, <1>2, <2>1
  <2> QED
    BY <2>1, <2>2, <2>3
<1>7. f \in Injection(C, A \X B)
  <2>1. f \in [C -> A \X B]
    <3> HIDE DEF A, B, C, row, column
    <3> QED
      BY <1>6
  <2>2. ASSUME NEW i \in C, NEW k \in C, f[i] = f[k] PROVE i = k
    <3>1. row(i) = row(k) /\ column(i) = column(k)
      <4> HIDE DEF f, A, B, C, row, column
      <4> QED
        BY <1>6, <2>2
    <3>2. /\ i = (row(i) - 1) * n + column(i)
          /\ k = (row(k) - 1) * n + column(k)
      <4> HIDE DEF f, A, B, C, row, column, n, m
      <4> QED
        BY <1>2, <1>6
    <3> HIDE DEF f, A, B, C, row, column, n, m
    <3> QED
      BY <3>1, <3>2
  <2> QED
    BY <2>1, <2>2 DEF Injection, IsInjective
<1> HIDE DEF A, B, C, f
<1>8. IsFiniteSet(A \X B) /\ Cardinality(A \X B) = Cardinality(A) * Cardinality(B)
  BY <1>5, FS_Product
<1>9. Cardinality(C) <= Cardinality(A \X B)
  BY <1>7, <1>8, FS_Injection
<1>10. Cardinality(A) \in Nat /\ Cardinality(B) \in Nat
  BY <1>5, FS_CardinalityType
<1>11. Cardinality(A) * Cardinality(B) = Cardinality(B) * Cardinality(A)
  BY <1>10
<1> QED
  BY <1>5, <1>8, <1>9, <1>11

-----------------------------------------------------------------------------
(* What the hand-outs of a job add up to.                                  *)

\* They are numbers.
LEMMA HandOutsType ==
  TypeOK =>
      \A j \in AllJobs :
          /\ served[j] \in Nat
          /\ Count(queue, j) \in Nat /\ Count(dl.new, j.game) \in Nat
          /\ deletes[j.game] \in Nat
<1> SUFFICES ASSUME TypeOK, NEW j \in AllJobs
             PROVE  /\ served[j] \in Nat
                    /\ Count(queue, j) \in Nat /\ Count(dl.new, j.game) \in Nat
                    /\ deletes[j.game] \in Nat
  OBVIOUS
<1>1. queue \in Seq(Jobs) /\ dl.new \in Seq(Games)
  BY DEF TypeOK, Downloads
<1>2. deletes[j.game] \in Nat
  BY DEF TypeOK, AllJobs, JobsOf
<1>3. served[j] \in Nat
  BY AllJobsAreJobs DEF TypeOK
<1> QED
  BY <1>1, <1>2, <1>3, CountType

\* A step that hands out no job but from the queue keeps within the credit.
LEMMA CreditKept ==
  ASSUME NoRepeats, TypeOK, TypeOK', NEW j \in AllJobs, CreditAt(j),
         Count(queue', j) + served'[j] <= Count(queue, j) + served[j],
         Count(dl'.new, j.game) = 0 \/ Count(dl'.new, j.game) = Count(dl.new, j.game),
         j.game \in dl'.open => j.game \in dl.open,
         (sgf'[j.game] = "none") <=> (sgf[j.game] = "none"),
         deletes'[j.game] = deletes[j.game]
  PROVE  CreditAt(j)'
<1> DEFINE n == Named(j.bot)
           open == IF j.game \in dl.open THEN n ELSE 0
           bound == n * (deletes[j.game] + (IF sgf[j.game] = "none" THEN 0 ELSE 1))
<1>0. HandOutsType'
  BY HandOutsType, PTL
<1>1. /\ HandOuts(j) = Count(queue, j) + served[j] + n * Count(dl.new, j.game)
      /\ served[j] \in Nat /\ Count(queue, j) \in Nat
      /\ Count(dl.new, j.game) \in Nat
  BY HandOutsType DEF HandOuts
<1>2. /\ HandOuts(j)' = Count(queue', j) + served'[j] + n * Count(dl'.new, j.game)
      /\ served'[j] \in Nat /\ Count(queue', j) \in Nat
  BY <1>0 DEF HandOuts, Named, Count
<1>3. n \in Nat
  BY NamedIsCount
<1>4. bound' = bound /\ open' <= open /\ open \in Nat /\ open' \in Nat
  BY <1>3 DEF Named
<1>5. n * Count(dl'.new, j.game) <= n * Count(dl.new, j.game)
      /\ n * Count(dl.new, j.game) \in Nat /\ n * Count(dl'.new, j.game) \in Nat
  BY <1>1, <1>3
<1>6. HandOuts(j) + open <= bound /\ bound \in Nat
  <2>1. deletes[j.game] \in Nat
    BY HandOutsType
  <2> QED
    BY <1>3, <2>1 DEF CreditAt
<1>7. CreditAt(j)' <=> HandOuts(j)' + open' <= bound'
  BY DEF CreditAt
<1> HIDE DEF n, open, bound
<1> QED
  BY <1>1, <1>2, <1>4, <1>5, <1>6, <1>7

\* The worker that is handed a job takes it out of the queue.
LEMMA ServeCredit ==
  ASSUME NoRepeats, TypeOK, TypeOK', NEW j \in AllJobs, CreditAt(j),
         NEW w \in Workers, Serve(w)
  PROVE  CreditAt(j)'
<1>1. /\ queue \in Seq(Jobs) /\ queue # <<>> /\ queue' = Tail(queue)
      /\ served' = [served EXCEPT ![Head(queue)] = @ + 1]
      /\ UNCHANGED <<sgf, dl, deletes>>
  BY DEF Serve, TypeOK
<1>2. served'[j] = served[j] + (IF Head(queue) = j THEN 1 ELSE 0)
  BY <1>1, AllJobsAreJobs, HandOutsType DEF TypeOK
<1>3. Count(queue', j) + (IF Head(queue) = j THEN 1 ELSE 0) <= Count(queue, j)
  BY <1>1, CountTail
<1>4. /\ served[j] \in Nat /\ Count(queue, j) \in Nat /\ Count(queue', j) \in Nat
  <2>1. queue' \in Seq(Jobs)
    BY DEF TypeOK
  <2> QED
    BY <2>1, HandOutsType, CountType
<1>5. Count(queue', j) + served'[j] <= Count(queue, j) + served[j]
  BY <1>2, <1>3, <1>4
<1> QED
  BY <1>1, <1>5, CreditKept

\* Opening the file of a game uses the credit of the file.
LEMMA OpenCredit ==
  ASSUME NoRepeats, TypeOK, TypeOK', DlInv, SnapshotInv,
         NEW j \in AllJobs, CreditAt(j), NEW i \in DOMAIN Pages[dl.page], OpenSgf(i)
  PROVE  CreditAt(j)'
<1>1. PICK g \in dl.todo :
         /\ dl.open = {} /\ dl' = [dl EXCEPT !.open = {g}]
         /\ sgf' = [sgf EXCEPT ![g] = "bad"]
         /\ UNCHANGED <<rsgf, queue, wpc, wjob, lost, deletes, served>>
  BY Opened
<1>2. j.game \in Games /\ g \in Games /\ dl.pc = "pages"
  BY <1>1 DEF AllJobs, JobsOf, TypeOK, Downloads, DlInv, Waiting
<1>3. /\ dl'.open = {g} /\ dl'.new = dl.new
      /\ sgf'[g] = "bad" /\ (j.game # g => sgf'[j.game] = sgf[j.game])
      /\ sgf[g] = "none"
  BY <1>1, <1>2 DEF TypeOK, Downloads, SnapshotInv
<1>4. served'[j] = served[j] /\ Count(queue', j) = Count(queue, j)
  BY <1>1
<1>5. CASE j.game # g
  <2>1. served[j] \in Nat /\ Count(queue, j) \in Nat
    BY HandOutsType
  <2>2. Count(queue', j) + served'[j] <= Count(queue, j) + served[j]
    BY <1>4, <2>1
  <2> QED
    BY <1>1, <1>3, <1>5, <2>2, CreditKept
<1>6. CASE j.game = g
  <2> DEFINE n == Named(j.bot)
             d == deletes[j.game]
  <2>1. n \in Nat /\ d \in Nat
    BY NamedIsCount, HandOutsType
  <2>2. HandOuts(j) <= n * d /\ HandOuts(j) \in Nat
    <3>1. j.game \notin dl.open /\ HandOuts(j) + 0 <= n * (d + 0)
      BY <1>1, <1>3, <1>6 DEF CreditAt
    <3>2. HandOuts(j) \in Nat
      BY <2>1, HandOutsType DEF HandOuts
    <3> QED
      BY <2>1, <3>1, <3>2
  <2>3. HandOuts(j)' = HandOuts(j)
    BY <1>1, <1>3 DEF HandOuts, Count, Named
  <2>4. d' = d /\ j.game \in dl'.open /\ sgf'[j.game] # "none"
    BY <1>1, <1>3, <1>6
  <2>5. CreditAt(j)' <=> HandOuts(j)' + n <= n * (d' + 1)
    BY <2>4 DEF CreditAt, Named
  <2> HIDE DEF n, d
  <2>6. n * (d + 1) = n * d + n /\ n * d \in Nat
    BY <2>1
  <2> QED
    BY <2>1, <2>2, <2>3, <2>4, <2>5, <2>6
<1> QED
  BY <1>5, <1>6

\* The game that was open is new: its bots are owed the same.
LEMMA StoreCredit ==
  ASSUME NoRepeats, TypeOK, TypeOK', DlInv,
         NEW j \in AllJobs, CreditAt(j),
         NEW g \in Games, Store(g, "good") \/ Store(g, "bad")
  PROVE  CreditAt(j)'
<1>1. /\ dl.open = {g} /\ dl'.open = {} /\ dl'.new = Append(dl.new, g)
      /\ \A h \in Games : (sgf[h] = "none") <=> (sgf'[h] = "none")
      /\ UNCHANGED <<rsgf, queue, wpc, wjob, lost, deletes, served>>
  BY Stored
<1>2. j.game \in Games /\ dl.new \in Seq(Games)
  BY DEF AllJobs, JobsOf, TypeOK, Downloads
<1>3. Count(dl'.new, j.game) = Count(dl.new, j.game) + (IF g = j.game THEN 1 ELSE 0)
  BY <1>1, <1>2, CountAppend
<1>4. served'[j] = served[j] /\ Count(queue', j) = Count(queue, j)
  BY <1>1
<1>5. /\ served[j] \in Nat /\ Count(queue, j) \in Nat
      /\ Count(dl.new, j.game) \in Nat
  BY HandOutsType
<1>6. CASE g # j.game
  <2>1. Count(queue', j) + served'[j] <= Count(queue, j) + served[j]
    BY <1>4, <1>5
  <2>2. Count(dl'.new, j.game) = Count(dl.new, j.game)
    BY <1>3, <1>5, <1>6
  <2> QED
    BY <1>1, <1>2, <2>1, <2>2, CreditKept
<1>7. CASE g = j.game
  <2> DEFINE n == Named(j.bot)
             k == Count(dl.new, j.game)
             rest == Count(queue, j) + served[j]
             bound == n * (deletes[j.game] + (IF sgf[j.game] = "none" THEN 0 ELSE 1))
  <2>1. n \in Nat /\ k \in Nat /\ rest \in Nat
    BY <1>5, NamedIsCount
  <2>2. rest + n * k + n <= bound
    <3>1. HandOuts(j) = rest + n * k
      BY <1>5 DEF HandOuts
    <3>2. HandOuts(j) + n <= bound
      BY <1>1, <1>7 DEF CreditAt
    <3> QED
      BY <3>1, <3>2
  <2>3. HandOuts(j)' = rest + n * (k + 1)
    <3>1. HandOuts(j)' = Count(queue', j) + served'[j] + n * Count(dl'.new, j.game)
      BY DEF HandOuts, Named, Count
    <3> QED
      BY <1>3, <1>4, <1>7, <3>1
  <2>4. bound' = bound
    BY <1>1, <1>2 DEF Named
  <2>5. HandOuts(j)' + 0 <= bound' <=> CreditAt(j)'
    BY <1>1 DEF CreditAt
  <2>6. bound \in Nat
    <3>1. deletes[j.game] \in Nat
      BY HandOutsType
    <3> QED
      BY <2>1, <3>1
  <2> HIDE DEF n, k, rest, bound
  <2>7. n * (k + 1) = n * k + n /\ n * k \in Nat
    BY <2>1
  <2> QED
    BY <2>1, <2>2, <2>3, <2>4, <2>5, <2>6, <2>7
<1> QED
  BY <1>6, <1>7

\* The jobs of the new games are queued, as many as were owed.
LEMMA QueueCredit ==
  ASSUME NoRepeats, TypeOK, TypeOK', DlInv,
         NEW j \in AllJobs, CreditAt(j), QueueJobs
  PROVE  CreditAt(j)'
<1>1. /\ queue \in Seq(Jobs) /\ dl.new \in Seq(Games) /\ dl.open = {}
      /\ queue' = queue \o JobsFor(dl.new) /\ dl' = Waiting
      /\ UNCHANGED <<sgf, deletes, served>>
  BY DEF QueueJobs, TypeOK, Downloads, DlInv, history
<1> DEFINE n == Named(j.bot)
           k == Count(dl.new, j.game)
           c == Count(JobsFor(dl.new), j)
           q == Count(queue, j)
           h == served[j]
           bound == n * (deletes[j.game] + (IF sgf[j.game] = "none" THEN 0 ELSE 1))
<1>2. JobsFor(dl.new) \in Seq(Jobs)
  BY <1>1, JobsForType, AllJobsAreJobs, SeqMonotonic
<1>3. /\ n \in Nat /\ k \in Nat /\ c \in Nat /\ q \in Nat /\ h \in Nat /\ n * k \in Nat
      /\ HandOuts(j) = q + h + n * k
  <2>1. n \in Nat
    BY NamedIsCount
  <2>2. c \in Nat
    BY <1>2, CountType
  <2>3. k \in Nat /\ q \in Nat /\ h \in Nat /\ HandOuts(j) = q + h + n * k
    BY HandOutsType DEF HandOuts
  <2> QED
    BY <2>1, <2>2, <2>3
<1>4. c <= n * k
  BY <1>1, CountJobsFor
<1>5. Count(queue', j) <= q + c /\ Count(queue', j) \in Nat
  <2>1. queue' \in Seq(Jobs)
    BY DEF TypeOK
  <2> QED
    BY <1>1, <1>2, <2>1, CountConcat, CountType
<1>6. HandOuts(j)' = Count(queue', j) + h
  <2>1. HandOuts(j)' = Count(queue', j) + served'[j] + n * Count(dl'.new, j.game)
    BY DEF HandOuts, Named, Count
  <2>2. served'[j] = served[j]
    BY <1>1
  <2>3. Count(dl'.new, j.game) = 0
    BY <1>1, CountEmpty DEF Waiting
  <2> QED
    BY <1>3, <1>5, <2>1, <2>2, <2>3
<1>7. HandOuts(j) + 0 <= bound
  BY <1>1 DEF CreditAt
<1>8. bound' = bound /\ (CreditAt(j)' <=> HandOuts(j)' + 0 <= bound')
  BY <1>1 DEF CreditAt, Waiting, Named
<1>9. bound \in Nat
  <2>1. deletes[j.game] \in Nat
    BY HandOutsType
  <2> QED
    BY <1>3, <2>1
<1> HIDE DEF n, k, c, q, h, bound
<1> QED
  BY <1>3, <1>4, <1>5, <1>6, <1>7, <1>8, <1>9

\* A deleted file is counted from then on as a deletion.
LEMMA DeleteCredit ==
  ASSUME NoRepeats, TypeOK, TypeOK',
         NEW j \in AllJobs, CreditAt(j), NEW g \in Games, UserDeletes(g)
  PROVE  CreditAt(j)'
<1>1. /\ UNCHANGED <<queue, dl, served>> /\ sgf[g] # "none" /\ deletes[g] \in Nat
      /\ sgf' = [sgf EXCEPT ![g] = "none"] /\ deletes' = [deletes EXCEPT ![g] = @ + 1]
  BY DEF UserDeletes, server, worker, TypeOK
<1>2. HandOuts(j)' = HandOuts(j) /\ dl'.open = dl.open
  BY <1>1 DEF HandOuts, Count, Named
<1>3. j.game \in Games
  BY DEF AllJobs, JobsOf
<1>4. (deletes[j.game] + (IF sgf[j.game] = "none" THEN 0 ELSE 1))'
          = deletes[j.game] + (IF sgf[j.game] = "none" THEN 0 ELSE 1)
  BY <1>1, <1>3 DEF TypeOK
<1> QED
  BY <1>2, <1>4 DEF CreditAt, Named

\* No step goes beyond the credit.
LEMMA CreditStep ==
  ASSUME NoRepeats, Ind, Ind', SnapshotInv, StepKind,
         NEW j \in AllJobs, CreditAt(j)
  PROVE  CreditAt(j)'
<1> USE DEF Ind
<1>a. j.game \in Games /\ served[j] \in Nat /\ Count(queue, j) \in Nat
  BY HandOutsType DEF AllJobs, JobsOf
<1>1. ASSUME UNCHANGED <<sgf, queue, deletes, served>>, dl'.open = dl.open, dl'.new = dl.new
      PROVE  CreditAt(j)'
  <2>1. Count(queue', j) + served'[j] <= Count(queue, j) + served[j]
    BY <1>1, <1>a
  <2> QED
    BY <1>1, <2>1, CreditKept
<1>2. CASE ServerStops
  <2>1. UNCHANGED <<sgf, deletes, served>> /\ queue' = <<>> /\ dl' = Waiting
    BY <1>2, ServerEnd
  <2>2. /\ Count(queue', j) = 0 /\ Count(dl'.new, j.game) = 0
        /\ j.game \notin dl'.open
    BY <2>1, CountEmpty DEF Waiting
  <2>3. Count(queue', j) + served'[j] <= Count(queue, j) + served[j]
    BY <1>a, <2>1, <2>2
  <2> QED
    BY <2>1, <2>2, <2>3, CreditKept
<1>3. CASE Restart \/ UNCHANGED vars
  BY <1>1, <1>3 DEF Restart, vars, server, history
<1>4. CASE StartRun
  <2>1. dl = Waiting
    BY <1>4 DEF StartRun, DlInv
  <2>2. dl'.open = dl.open /\ dl'.new = dl.new
    BY <1>4, <2>1 DEF StartRun, Waiting
  <2> QED
    BY <1>1, <1>4, <2>2 DEF StartRun, history
<1>5. CASE FetchPage
  <2>1. dl'.open = dl.open /\ dl'.new = dl.new
    BY <1>5 DEF FetchPage, TypeOK, Downloads
  <2> QED
    BY <1>1, <1>5, <2>1 DEF FetchPage, history
<1>6. CASE QueueJobs
  BY <1>6, QueueCredit
<1>7. ASSUME NEW i \in DOMAIN Pages[dl.page], OpenSgf(i) PROVE CreditAt(j)'
  BY <1>7, OpenCredit
<1>8. ASSUME NEW g \in Games, Store(g, "good") \/ Store(g, "bad") PROVE CreditAt(j)'
  BY <1>8, StoreCredit
<1>9. ASSUME NEW g \in Games, UserDeletes(g) PROVE CreditAt(j)'
  BY <1>9, DeleteCredit
<1>10. ASSUME NEW g \in Games, GameEnds(g) PROVE CreditAt(j)'
  BY <1>1, <1>10 DEF GameEnds, server, history
<1>11. ASSUME NEW w \in Workers, Serve(w) PROVE CreditAt(j)'
  BY <1>11, ServeCredit
<1>12. ASSUME NEW w \in Workers, ServeMissing(w) PROVE CreditAt(j)'
  <2>1. /\ queue \in Seq(Jobs) /\ queue # <<>> /\ queue' = Tail(queue)
        /\ UNCHANGED <<sgf, dl, deletes, served>>
    BY <1>12 DEF ServeMissing, TypeOK
  <2>2. Count(queue', j) + (IF Head(queue) = j THEN 1 ELSE 0) <= Count(queue, j)
    BY <2>1, CountTail
  <2>3. Count(queue', j) \in Nat
    <3>1. queue' \in Seq(Jobs)
      BY DEF TypeOK
    <3> QED
      BY <3>1, CountType
  <2>4. Count(queue', j) + served'[j] <= Count(queue, j) + served[j]
    BY <1>a, <2>1, <2>2, <2>3
  <2> QED
    BY <2>1, <2>4, CreditKept
<1>13. ASSUME NEW w \in Workers,
              \/ WorkerStops(w) \/ Receive(w) \/ ReplyLost(w) \/ ReplyTruncated(w)
              \/ Analyse(w) \/ AnalysisFails(w) \/ Submit(w) \/ Saved(w) \/ AnswerLost(w)
              \/ GiveUp(w) \/ WorkerRestart(w)
       PROVE  CreditAt(j)'
  <2>1. UNCHANGED <<queue, dl, sgf, deletes>>
    BY <1>13, WorkerDisturbs
  <2>2. UNCHANGED served
    BY <1>13 DEF WorkerStops, Receive, ReplyLost, ReplyTruncated, Analyse, AnalysisFails, Submit,
       Saved, AnswerLost, GiveUp, WorkerRestart, history
  <2> QED
    BY <1>1, <2>1, <2>2
<1> QED
  BY <1>2, <1>3, <1>4, <1>5, <1>6, <1>7, <1>8, <1>9, <1>10, <1>11, <1>12, <1>13 DEF StepKind

\* However runs of the downloader, crashes, lost replies and deletions follow
\* each other, from the first run on a job is handed out at most once for each
\* time its bot is named and its game had no sgf: the repetitions that config.ini
\* and the user ask for.
THEOREM HandedOutOnce ==
  ASSUME NoRepeats
  PROVE  Spec => []AtMostOnce
<1> DEFINE All == Ind /\ SnapshotInv /\ CreditInv
<1>1. Init => All
  <2> SUFFICES ASSUME Init PROVE SnapshotInv /\ CreditInv
    BY IndInit
  <2>1. SnapshotInv
    BY DEF Init, SnapshotInv, Waiting
  <2>2. ASSUME NEW j \in AllJobs PROVE CreditAt(j)
    <3>1. Named(j.bot) \in Nat /\ j.game \in Games
      BY NamedIsCount DEF AllJobs, JobsOf
    <3>2. Count(queue, j) = 0 /\ Count(dl.new, j.game) = 0 /\ j.game \notin dl.open
      BY CountEmpty DEF Init, Waiting
    <3>3. served[j] = 0
      BY AllJobsAreJobs DEF Init
    <3>4. HandOuts(j) = 0
      BY <3>1, <3>2, <3>3 DEF HandOuts
    <3>5. deletes[j.game] = 0 /\ sgf[j.game] = "none"
      BY <3>1 DEF Init
    <3> QED
      BY <3>1, <3>2, <3>4, <3>5 DEF CreditAt
  <2> QED
    BY <2>1, <2>2 DEF CreditInv
<1>2. All /\ [Next]_vars => All'
  <2> SUFFICES ASSUME All, [Next]_vars PROVE All'
    OBVIOUS
  <2>1. StepKind
    BY StepCases
  <2>2. Ind'
    BY <2>1, TypeStep, DlStep, JobStep, DownStep DEF Ind
  <2>3. SnapshotInv'
    BY <2>1, SnapshotStep DEF Ind
  <2>4. ASSUME NEW j \in AllJobs PROVE CreditAt(j)'
    BY <2>1, <2>2, CreditStep DEF CreditInv
  <2>5. CreditInv'
    BY <2>4 DEF CreditInv, AllJobs, JobsOf
  <2> QED
    BY <2>2, <2>3, <2>5
<1>3. All => AtMostOnce
  <2> SUFFICES ASSUME All, NEW j \in AllJobs
               PROVE  served[j] <= Named(j.bot) * (1 + deletes[j.game])
    BY DEF AtMostOnce
  <2> DEFINE n == Named(j.bot)
             d == deletes[j.game]
             due == Count(queue, j) + n * Count(dl.new, j.game)
                        + (IF j.game \in dl.open THEN n ELSE 0)
  <2>1. n \in Nat /\ d \in Nat /\ served[j] \in Nat /\ due \in Nat
    BY NamedIsCount, HandOutsType DEF Ind
  <2>2. served[j] + due <= n * (d + (IF sgf[j.game] = "none" THEN 0 ELSE 1))
    <3>1. HandOuts(j) = Count(queue, j) + served[j] + n * Count(dl.new, j.game)
      BY DEF HandOuts
    <3>2. HandOuts(j) + (IF j.game \in dl.open THEN n ELSE 0)
              <= n * (d + (IF sgf[j.game] = "none" THEN 0 ELSE 1))
      BY DEF CreditInv, CreditAt
    <3>3. Count(queue, j) \in Nat /\ n * Count(dl.new, j.game) \in Nat
      BY <2>1, HandOutsType DEF Ind
    <3> QED
      BY <2>1, <3>1, <3>2, <3>3
  <2> HIDE DEF n, d, due
  <2>3. n * (d + 0) <= n * (1 + d) /\ n * (d + 1) = n * (1 + d) /\ n * (1 + d) \in Nat
        /\ n * (d + 0) \in Nat
    BY <2>1
  <2>4. served[j] <= n * (1 + d)
    BY <2>1, <2>2, <2>3
  <2> QED
    BY <2>4 DEF n, d
<1> HIDE DEF All
<1> QED
  BY <1>1, <1>2, <1>3, PTL DEF Spec

-----------------------------------------------------------------------------
(* The list of bots.                                                       *)

DropDomain(bots) == 0 .. Len(bots)
DropRank(bots, i) == i
DropGood(bots, i, left) == TRUE
DropBody(bots, kept, i) ==
    IF i = 0 THEN <<>>
    ELSE IF i > 1 /\ bots[i] = bots[i - 1] THEN kept[i - 1]
    ELSE Append(kept[i - 1], bots[i])

Drop == INSTANCE Recursion
    WITH D <- DropDomain, Rank <- DropRank, Good <- DropGood, Body <- DropBody

\* Of a list of bots std::unique leaves all bots, each of them not next to itself.
LEMMA Dropped ==
  ASSUME NEW S, NEW bots \in Seq(S)
  PROVE  LET left == DropRepeats(bots)
         IN  /\ left \in Seq(S) /\ Range(left) = Range(bots)
             /\ \A i \in DOMAIN left : i = 1 \/ left[i - 1] # left[i]
<1> DEFINE n == Len(bots)
           kept == CHOOSE f : f = [i \in 0 .. n |-> DropBody(bots, f, i)]
<1>1. n \in Nat /\ <<>> \in Seq(S) /\ DOMAIN bots = 1 .. n /\ \A i \in 1 .. n : bots[i] \in S
  BY LenProperties, ElementOfSeq
<1>2. Drop!WellFounded(bots)
  <2> SUFFICES ASSUME NEW g, NEW h, NEW i \in 0 .. n, \A k \in 0 .. n : k < i => g[k] = h[k]
               PROVE  DropBody(bots, g, i) = DropBody(bots, h, i)
    BY <1>1 DEF Drop!WellFounded, DropDomain, DropRank, DropGood
  <2>1. CASE i = 0
    BY <2>1 DEF DropBody
  <2>2. CASE i # 0
    <3>1. i - 1 \in 0 .. n /\ i - 1 < i
      BY <1>1, <2>2
    <3>2. g[i - 1] = h[i - 1]
      BY <3>1
    <3> QED
      BY <2>2, <3>2 DEF DropBody
  <2> QED
    BY <2>1, <2>2
<1>5. kept = [i \in 0 .. n |-> DropBody(bots, kept, i)]
  <2>1. \E f : f = [i \in 0 .. n |-> DropBody(bots, f, i)]
    BY <1>2, Drop!Exists, Zenon DEF Drop!Satisfies, DropDomain
  <2> QED
    BY <2>1, Zenon
<1>6. DropRepeats(bots) = kept[n]
  BY Zenon DEF DropRepeats, DropBody
<1> HIDE DEF kept, n
<1>7. kept[0] = <<>>
  BY <1>1, <1>5 DEF DropBody
<1>8. ASSUME NEW i \in Nat, i + 1 <= n
      PROVE  kept[i + 1] = IF i > 0 /\ bots[i + 1] = bots[i] THEN kept[i]
                           ELSE Append(kept[i], bots[i + 1])
  <2>1. i + 1 \in 0 .. n /\ i + 1 # 0 /\ (i + 1) - 1 = i /\ (i + 1 > 1 <=> i > 0)
    BY <1>1, <1>8
  <2> QED
    BY <1>5, <2>1 DEF DropBody
<1> DEFINE Done(s, i) ==
             /\ s \in Seq(S) /\ Range(s) = {bots[k] : k \in 1 .. i}
             /\ \A k \in DOMAIN s : k = 1 \/ s[k - 1] # s[k]
             /\ i > 0 => s # <<>> /\ s[Len(s)] = bots[i]
           P == {i \in Nat : i <= n => Done(kept[i], i)}
<1>9. 0 \in P
  <2>1. <<>> \in Seq(S) /\ Range(<<>>) = {} /\ DOMAIN <<>> = {} /\ 1 .. 0 = {}
    BY EmptySeq DEF Range
  <2>2. Done(<<>>, 0)
    BY <2>1
  <2> HIDE DEF Done
  <2> QED
    BY <1>7, <2>2
<1>10. ASSUME NEW i \in Nat, i \in P PROVE i + 1 \in P
  <2> SUFFICES ASSUME i + 1 <= n PROVE Done(kept[i + 1], i + 1)
    OBVIOUS
  <2> DEFINE s == kept[i]
             x == bots[i + 1]
  <2>1. Done(s, i) /\ i + 1 \in 1 .. n /\ x \in S
    BY <1>1, <1>10
  <2>2. {bots[k] : k \in 1 .. i + 1} = {bots[k] : k \in 1 .. i} \cup {x}
    BY <1>1
  <2>3. CASE i > 0 /\ x = bots[i]
    <3>1. kept[i + 1] = s
      BY <1>8, <2>3
    <3>2. {bots[k] : k \in 1 .. i + 1} = {bots[k] : k \in 1 .. i}
      <4>1. i \in 1 .. i
        BY <2>3
      <4> QED
        BY <2>2, <2>3, <4>1
    <3> HIDE DEF s
    <3> QED
      BY <2>1, <2>3, <3>1, <3>2
  <2>4. CASE ~(i > 0 /\ x = bots[i])
    <3>1. kept[i + 1] = Append(s, x)
      BY <1>8, <2>4
    <3> HIDE DEF s, x
    <3>2. /\ Append(s, x) \in Seq(S) /\ Range(Append(s, x)) = Range(s) \cup {x}
      BY <2>1, RangeOfAppend
    <3>3. /\ DOMAIN Append(s, x) = 1 .. Len(s) + 1 /\ Len(Append(s, x)) = Len(s) + 1
          /\ Append(s, x)[Len(s) + 1] = x /\ Len(s) \in Nat /\ DOMAIN s = 1 .. Len(s)
          /\ \A k \in 1 .. Len(s) : Append(s, x)[k] = s[k]
      BY <2>1, AppendProperties, LenProperties
    <3>4. ASSUME NEW k \in DOMAIN Append(s, x), k # 1
          PROVE  Append(s, x)[k - 1] # Append(s, x)[k]
      <4>1. CASE k = Len(s) + 1
        <5>1. k - 1 = Len(s) /\ Len(s) \in 1 .. Len(s) /\ s # <<>>
          BY <3>3, <3>4, <4>1, EmptySeq
        <5>2. i > 0
          <6>1. i = 0 => Range(s) = {}
            BY <2>1
          <6>2. s[Len(s)] \in Range(s)
            BY <3>3, <5>1 DEF Range
          <6> QED
            BY <6>1, <6>2
        <5>3. s[Len(s)] # x
          BY <2>1, <2>4, <5>2
        <5>4. Append(s, x)[k - 1] = s[Len(s)] /\ Append(s, x)[k] = x
          BY <3>3, <4>1, <5>1
        <5> QED
          BY <5>3, <5>4
      <4>2. CASE k # Len(s) + 1
        <5>1. k \in 1 .. Len(s) /\ k - 1 \in 1 .. Len(s)
          BY <3>3, <3>4, <4>2
        <5>2. s[k - 1] # s[k]
          BY <2>1, <3>3, <3>4, <5>1
        <5> QED
          BY <3>3, <5>1, <5>2
      <4> QED
        BY <4>1, <4>2
    <3>5. Append(s, x) # <<>> /\ Append(s, x)[Len(Append(s, x))] = x
      BY <3>2, <3>3, EmptySeq
    <3> QED
      BY <2>1, <2>2, <3>1, <3>2, <3>4, <3>5 DEF x
  <2> QED
    BY <2>3, <2>4
<1>11. Done(kept[n], n)
  <2>1. Nat \subseteq P
    <3> HIDE DEF P
    <3> QED
      BY <1>9, <1>10, Induction
  <2> HIDE DEF Done
  <2>2. n \in P /\ n <= n
    BY <1>1, <2>1
  <2> QED
    BY <2>2
<1> QED
  BY <1>1, <1>6, <1>11 DEF Range

\* bots_to_use, if it is there, is a list of some names.
NamesBots(ini) ==
    "bots_to_use" \in DOMAIN ini => \E Names : ini["bots_to_use"] \in Seq(Names)

\* Whatever names config.ini lists, main makes of them a list of bots that is
\* one, without a repetition (main.cpp:27-35, bot_from_string).
LEMMA ListOfBots ==
  ASSUME NEW ini, NamesBots(ini)
  PROVE  LET bots == BotsToUse(ini)
         IN  /\ bots \in Seq(BOT) /\ Range(bots) = Range(Columns(ini))
             /\ \A i \in DOMAIN bots : i = 1 \/ bots[i - 1] # bots[i]
<1> DEFINE names == Get(ini, "bots_to_use", <<"leela">>)
<1>1. PICK Names : names \in Seq(Names)
  <2>1. <<"leela">> \in Seq({"leela"})
    OBVIOUS
  <2> QED
    BY <2>1 DEF NamesBots, Get
<1>2. Columns(ini) = [i \in DOMAIN names |-> BotFromString(names[i])]
  BY DEF Columns
<1> HIDE DEF names
<1>3. Len(names) \in Nat /\ DOMAIN names = 1 .. Len(names)
  BY <1>1, LenProperties
<1>4. Columns(ini) \in [1 .. Len(names) -> BOT]
  BY <1>2, <1>3 DEF BotFromString, BOT
<1>5. Columns(ini) \in Seq(BOT)
  BY <1>3, <1>4, SMTT(30)
<1> QED
  BY <1>5, Dropped DEF BotsToUse

\* With the list that main makes of config.ini, whatever names and repetitions
\* that holds, a job is handed out at most once for each time its bot is named
\* there and its game had no sgf.
THEOREM ConfiguredOnce ==
  ASSUME NEW ini, NamesBots(ini), BotList = BotsToUse(ini)
  PROVE  Spec => []AtMostOnce
<1>1. NoRepeats
  BY ListOfBots DEF NoRepeats
<1> QED
  BY <1>1, HandedOutOnce
=============================================================================
