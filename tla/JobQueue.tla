------------------------------ MODULE JobQueue ------------------------------
(***************************************************************************)
(* What src/src/work_queue.h promises its callers: a FIFO of jobs.  A call *)
(* of add_to_queue appends its whole batch at once, a call of get_job      *)
(* removes the oldest job, and get_job may answer "no job" (nullopt) only  *)
(* when the queue was empty at the moment of the call.                     *)
(***************************************************************************)
EXTENDS Naturals, Sequences

CONSTANTS
    Poppers,    \* the threads that call get_job
    Batches,    \* the batches of jobs a call of add_to_queue may append
    NoJob       \* get_job's std::nullopt

VARIABLES
    queue,      \* the jobs waiting, oldest first
    asked,      \* per popper: no call, or what the queue was when it called
    job         \* per popper: the answer of its last get_job

vars == <<queue, asked, job>>

Init == /\ queue = <<>>
        /\ asked = [p \in Poppers |-> "idle"]
        /\ job = [p \in Poppers |-> NoJob]

Add == /\ \E b \in Batches : queue' = queue \o b
       /\ UNCHANGED <<asked, job>>

Ask(p) == /\ asked[p] = "idle"
          /\ asked' = [asked EXCEPT ![p] = IF queue = <<>> THEN "empty" ELSE "waiting"]
          /\ UNCHANGED <<queue, job>>

Serve(p) == /\ asked[p] # "idle"
            /\ queue # <<>>
            /\ job' = [job EXCEPT ![p] = Head(queue)]
            /\ queue' = Tail(queue)
            /\ asked' = [asked EXCEPT ![p] = "idle"]

Refuse(p) == /\ asked[p] = "empty"
             /\ job' = [job EXCEPT ![p] = NoJob]
             /\ asked' = [asked EXCEPT ![p] = "idle"]
             /\ UNCHANGED queue

Next == Add \/ \E p \in Poppers : Ask(p) \/ Serve(p) \/ Refuse(p)

Spec == Init /\ [][Next]_vars
=============================================================================
