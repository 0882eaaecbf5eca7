--------------------------- MODULE ShutdownProofs ---------------------------
(***************************************************************************)
(* Proofs about Shutdown, for every choice of programs and signals and for *)
(* any number of signals at any moment.                                    *)
(***************************************************************************)
EXTENDS Shutdown, SequenceTheorems, TLAPS

\* client has no timer, so nothing can become of one.
ClientInv ==
    program = "client" =>
        /\ ~armed /\ io # "downloading" /\ pool = "running"
        /\ ready \in Seq({"ctrl_handler"})

\* The local worker leaves its loop only after the stop was handled.
LoopInv ==
    program = "local" /\ main \in {"cancel", "join_timer"} => ~keep_running

\* Only SIGINT stops a server whose process goes on, and a worker that has a job got it from a
\* server that was running.
ServerInv ==
    /\ pool \in {"stopping", "stopped"} => interrupted \/ main = "exited"
    /\ main \in {"reply", "work", "submit"} => pool # "starting"

IInv == ClientInv /\ LoopInv /\ ServerInv
            /\ NoDownloadAfterStop /\ WorkerStopIsPrompt /\ StopKeepsJob

-----------------------------------------------------------------------------
\* A handler taken from the io_service's queue leaves a queue of handlers.
LEMMA HandleReady ==
  ASSUME NEW S, ready \in Seq(S), NEW h, Handle(h)
  PROVE  ready' \in Seq(S) /\ h \in S
  BY HeadTailProperties DEF Handle

\* The programs start with their types.
LEMMA TypeInit == Init => TypeOK
  BY ProgramAssumption, EmptySeq DEF Init, TypeOK

\* No step takes a variable out of its type.
LEMMA TypeStep == TypeOK /\ [Next]_vars => TypeOK'
<1> SUFFICES ASSUME TypeOK, [Next]_vars PROVE TypeOK'
  OBVIOUS
<1> USE ProgramAssumption DEF TypeOK, ioVars
<1>1. ASSUME NEW s \in Signals, Signal(s) PROVE TypeOK'
  BY <1>1, AppendProperties DEF Signal
<1>2. CASE TimerExpires
  BY <1>2, AppendProperties DEF TimerExpires
<1>3. CASE CtrlHandler
  BY <1>3, HandleReady DEF CtrlHandler, Handle
<1>4. CASE RunDownloader
  BY <1>4, HandleReady DEF RunDownloader, Handle
<1>5. CASE RunWithoutId
  BY <1>5, EmptySeq DEF RunWithoutId
<1>6. CASE Rearm
  BY <1>6 DEF Rearm
<1>7. CASE IoReturns
  BY <1>7 DEF IoReturns
<1>8. CASE PoolStarts \/ PoolStops
  BY <1>8 DEF PoolStarts, PoolStops
<1>9. CASE Continue \/ Leave \/ GetJob \/ GetNothing \/ Receive \/ ReplyAbandoned
  BY <1>9 DEF Continue, Leave, GetJob, GetNothing, Receive, ReplyAbandoned, Main
<1>10. CASE WakeUp \/ DoJob \/ SubmitJob
  BY <1>10 DEF WakeUp, DoJob, SubmitJob, Main
<1>11. CASE JoinServer
  BY <1>11 DEF JoinServer, Main
<1>12. CASE JoinTimer
  BY <1>12, ZenonT(60) DEF JoinTimer, Main
<1>13. CASE Cancel
  BY <1>13, AppendProperties DEF Cancel, Main
<1>14. CASE Exited \/ UNCHANGED vars
  BY <1>14 DEF Exited, vars
<1> QED
  BY <1>1, <1>2, <1>3, <1>4, <1>5, <1>6, <1>7, <1>8, <1>9, <1>10, <1>11,
     <1>12, <1>13, <1>14
  DEF Next, MainThread, IoThread

\* Every reachable state has its type; in particular client never cancels a
\* timer and autogrp without a local worker never runs the worker's loop.
THEOREM TypeCorrect == Spec => []TypeOK
  BY TypeInit, TypeStep, PTL DEF Spec

-----------------------------------------------------------------------------
\* The inductive invariant holds when the programs start.
LEMMA IInvInit == Init => IInv
  BY EmptySeq DEF Init, IInv, ClientInv, LoopInv, ServerInv, NoDownloadAfterStop,
         WorkerStopIsPrompt, StopKeepsJob

\* Every step of every thread, and every signal, preserves it.
LEMMA IInvStep == TypeOK /\ IInv /\ [Next]_vars => IInv'
<1> SUFFICES ASSUME TypeOK, IInv, [Next]_vars PROVE IInv'
  OBVIOUS
<1> USE DEF IInv, ClientInv, LoopInv, ServerInv, NoDownloadAfterStop,
            WorkerStopIsPrompt, StopKeepsJob, TypeOK, ioVars
<1>1. ASSUME NEW s \in Signals, Signal(s) PROVE IInv'
  BY <1>1, AppendProperties, ProgramAssumption DEF Signal
<1>2. CASE TimerExpires
  BY <1>2 DEF TimerExpires
<1>3. CASE CtrlHandler
  BY <1>3, HandleReady DEF CtrlHandler, Handle
<1>4. CASE RunDownloader
  <2>1. program # "client"
    BY <1>4, HandleReady DEF RunDownloader
  <2> QED
    BY <1>4, <2>1 DEF RunDownloader, Handle
<1>5. CASE RunWithoutId
  BY <1>5, EmptySeq DEF RunWithoutId
\* A local worker that left its loop was told to stop, and a download that
\* still runs was not: the timer is not armed behind main's back.
<1>6. CASE Rearm
  <2>1. program # "client" /\ keep_running
    BY <1>6 DEF Rearm
  <2>2. ~(program = "local" /\ main = "join_timer")
    BY <2>1
  <2> QED
    BY <1>6, <2>1, <2>2, ProgramAssumption DEF Rearm
<1>7. CASE IoReturns
  BY <1>7 DEF IoReturns
<1>8. CASE PoolStarts \/ PoolStops
  BY <1>8 DEF PoolStarts, PoolStops
<1>9. CASE Continue \/ GetNothing \/ Receive \/ WakeUp \/ DoJob
  BY <1>9 DEF Continue, GetNothing, Receive, WakeUp, DoJob, Main
<1>10. CASE Leave
  BY <1>10 DEF Leave, Main
<1>11. CASE GetJob
  BY <1>11 DEF GetJob, Main, Answers
<1>12. CASE ReplyAbandoned
  BY <1>12, ProgramAssumption DEF ReplyAbandoned, Main
<1>13. CASE SubmitJob
  BY <1>13, ProgramAssumption DEF SubmitJob, Main, Answers
<1>14. CASE JoinServer
  BY <1>14 DEF JoinServer, Main
<1>15. CASE Cancel
  BY <1>15 DEF Cancel, Main
<1>16. CASE JoinTimer
  BY <1>16 DEF JoinTimer, Main
<1>17. CASE Exited \/ UNCHANGED vars
  BY <1>17 DEF Exited, vars
<1> QED
  BY <1>1, <1>2, <1>3, <1>4, <1>5, <1>6, <1>7, <1>8, <1>9, <1>10, <1>11,
     <1>12, <1>13, <1>14, <1>15, <1>16, <1>17
  DEF Next, MainThread, IoThread

\* So it holds in every reachable state.
LEMMA Invariance == Spec => []IInv
  BY IInvInit, IInvStep, TypeInit, TypeStep, PTL DEF Spec

\* Once the stop was handled no download runs, whatever the timer does.
THEOREM NoDownload == Spec => []NoDownloadAfterStop
<1>1. IInv => NoDownloadAfterStop
  BY DEF IInv
<1> QED
  BY <1>1, Invariance, PTL

\* Neither client nor a local worker ever joins a thread that waits for the
\* hourly timer, in whatever order cancel, re-arming and signals come.
THEOREM WorkerNeverWaitsForTimer == Spec => []WorkerStopIsPrompt
<1>1. IInv => WorkerStopIsPrompt
  BY DEF IInv
<1> QED
  BY <1>1, Invariance, PTL

\* A job is lost by stopping only where SIGINT stopped the server under its
\* own local worker: never by SIGTERM, and never by a client.
THEOREM JobSurvivesStop == Spec => []StopKeepsJob
<1>1. IInv => StopKeepsJob
  BY DEF IInv
<1> QED
  BY <1>1, Invariance, PTL
=============================================================================
