----------------------------- MODULE WorkQueue -----------------------------
(***************************************************************************)
(* src/src/work_queue.cpp: a std::vector of jobs and a mutex, shared by    *)
(* the threads that add jobs, the restinio pool thread that pops them and  *)
(* the GUI thread that copies them.  get_job (line 45) and queue_copy      *)
(* (line 37) look at the vector BEFORE they take the mutex.  Such a look   *)
(* reads two words of the vector, begin and end, one at a time and in      *)
(* either order, while a reallocation in another thread stores the same    *)
(* two words, one at a time and in either order.                           *)
(*                                                                         *)
(* The memory blocks are model values, and a freed block may be handed out *)
(* again.  When an insertion reallocates is the library's choice, except   *)
(* that a vector without a block must allocate one.                        *)
(***************************************************************************)
EXTENDS Naturals, Sequences

CONSTANTS
    Adders,     \* threads that call add_to_queue
    Poppers,    \* threads that run the request handler, which calls get_job
    Viewers,    \* threads that call queue_copy
    Jobs,       \* (file name, bot) pairs
    Batches,    \* the arguments add_to_queue is called with
    Blocks,     \* addresses of heap blocks
    Null,       \* the block of a vector that never held anything
    NoThread,   \* the mutex is free
    NoJob,      \* std::nullopt
    MaxQueue    \* bound: no add_to_queue is called on a longer queue

Threads == Adders \cup Poppers \cup Viewers

\* work_server.cpp:17: the pool has at most one thread, which neither adds nor copies.
ASSUME PoolAssumption ==
    /\ \A p, q \in Poppers : p = q
    /\ Poppers \cap (Adders \cup Viewers) = {}

\* queue_view.cpp: where the queue is copied (the GUI), the thread that
\* copies it is also the only one that adds to it.
ASSUME ViewerAssumption == \A v \in Viewers : Adders \subseteq {v}

ASSUME DataAssumption ==
    /\ \A b \in Batches : b \in Seq(Jobs)
    /\ Null \notin Blocks
    /\ NoThread \notin Threads
    /\ NoJob \notin Jobs
    /\ MaxQueue \in Nat

VARIABLES
    start,      \* the vector's begin word
    finish,     \* the vector's end word: a block and an offset into it
    items,      \* the elements
    lock,       \* the holder of work_queue_lock
    pc,         \* where each thread is in its call
    batch,      \* the argument of each thread's add_to_queue
    unread,     \* the words its unlocked look has still to read
    seen,       \* the words it has read
    dirty,      \* the words a reallocation has still to store
    new,        \* what it stores there
    job,        \* the last result of each popper's get_job
    wasEmpty    \* history: was the queue empty when get_job was called?

vecVars == <<start, finish, items>>
growVars == <<dirty, new>>
callVars == <<batch, unread, seen, job, wasEmpty>>
vars == <<vecVars, lock, pc, growVars, callVars>>

Words == {"start", "finish"}
\* Mutant: the end word is one element behind.
EndOfBehind(b, n) == [block |-> b, offset |-> n - 1]

EndOf(b, n) == [block |-> b, offset |-> n]
Ends == [block : Blocks \cup {Null}, offset : Nat]
Vectors == [start : Blocks \cup {Null}, finish : Ends]
EmptyVector == [start |-> Null, finish |-> EndOf(Null, 0)]

Held == {"add", "grow", "pop", "copy", "unlock"}
PCs == {"idle", "look", "wait_add", "wait_pop", "wait_copy"} \cup Held

Goto(t, l) == pc' = [pc EXCEPT ![t] = l]

Init == /\ start = Null /\ finish = EndOf(Null, 0) /\ items = <<>>
        /\ lock = NoThread
        /\ pc = [t \in Threads |-> "idle"]
        /\ batch = [t \in Threads |-> <<>>]
        /\ unread = [t \in Threads |-> {}]
        /\ seen = [t \in Threads |-> EmptyVector]
        /\ dirty = {} /\ new = EmptyVector
        /\ job = [t \in Poppers |-> NoJob]
        /\ wasEmpty = [t \in Poppers |-> TRUE]

-----------------------------------------------------------------------------
(* The mutex.                                                              *)

Lock(t, from, to) ==
    /\ pc[t] = from
    /\ lock = NoThread
    /\ lock' = t
    /\ Goto(t, to)
    /\ UNCHANGED <<vecVars, growVars, callVars>>

Unlock(t) ==
    /\ pc[t] = "unlock"
    /\ lock' = NoThread
    /\ Goto(t, "idle")
    /\ UNCHANGED <<vecVars, growVars, callVars>>

-----------------------------------------------------------------------------
(* add_to_queue: one job is a batch of one.  reserve leaves the length as  *)
(* it is and insert then moves the end; emplace_back's reallocation, or an *)
(* optimiser that merges the two stores, writes the new length at once.    *)

AddCall(t) ==
    /\ pc[t] = "idle"
    /\ Len(items) <= MaxQueue
    /\ \E b \in Batches : batch' = [batch EXCEPT ![t] = b]
    /\ Goto(t, "wait_add")
    /\ UNCHANGED <<vecVars, lock, growVars, unread, seen, job, wasEmpty>>

\* Mutant: the new block's end is stored before its elements are counted.
ReallocateEmpty(t) ==
    /\ pc[t] = "add"
    /\ batch[t] # <<>>
    /\ \E b \in Blocks \ {start} : new' = [start |-> b, finish |-> EndOf(b, 0)]
    /\ dirty' = Words
    /\ Goto(t, "grow")
    /\ UNCHANGED <<vecVars, lock, callVars>>

Reallocate(t) ==
    /\ pc[t] = "add"
    /\ batch[t] # <<>>
    /\ \E b \in Blocks \ {start}, n \in {Len(items), Len(items) + Len(batch[t])} :
          new' = [start |-> b, finish |-> EndOf(b, n)]
    /\ dirty' = Words
    /\ Goto(t, "grow")
    /\ UNCHANGED <<vecVars, lock, callVars>>

StoreStart(t) ==
    /\ pc[t] = "grow" /\ "start" \in dirty
    /\ start' = new.start
    /\ dirty' = dirty \ {"start"}
    /\ UNCHANGED <<finish, items, lock, pc, new, callVars>>

StoreFinish(t) ==
    /\ pc[t] = "grow" /\ "finish" \in dirty
    /\ finish' = new.finish
    /\ dirty' = dirty \ {"finish"}
    /\ UNCHANGED <<start, items, lock, pc, new, callVars>>

Insert(t) ==
    /\ \/ pc[t] = "add" /\ (batch[t] = <<>> \/ start # Null)
       \/ pc[t] = "grow" /\ dirty = {}
    /\ items' = items \o batch[t]
    /\ finish' = EndOf(start, Len(items) + Len(batch[t]))
    /\ Goto(t, "unlock")
    /\ UNCHANGED <<start, lock, growVars, callVars>>

-----------------------------------------------------------------------------
(* The unlocked look at the vector: work_queue.empty() in get_job,         *)
(* work_queue.size() in queue_copy.                                        *)

ReadStart(t) ==
    /\ pc[t] = "look" /\ "start" \in unread[t]
    /\ seen' = [seen EXCEPT ![t].start = start]
    /\ unread' = [unread EXCEPT ![t] = @ \ {"start"}]
    /\ UNCHANGED <<vecVars, lock, pc, growVars, batch, job, wasEmpty>>

ReadFinish(t) ==
    /\ pc[t] = "look" /\ "finish" \in unread[t]
    /\ seen' = [seen EXCEPT ![t].finish = finish]
    /\ unread' = [unread EXCEPT ![t] = @ \ {"finish"}]
    /\ UNCHANGED <<vecVars, lock, pc, growVars, batch, job, wasEmpty>>

\* Mutant: get_job does not test for an empty queue.
NeverEmpty(t) == FALSE /\ t \in Threads

SawEmpty(t) == seen[t].finish = EndOf(seen[t].start, 0)

-----------------------------------------------------------------------------
(* get_job.  Once past the look it takes the first element without looking *)
(* again; on an empty vector that is undefined behaviour, which Pop leaves *)
(* out and SafePop excludes.                                               *)

GetCall(t) ==
    /\ pc[t] = "idle"
    /\ wasEmpty' = [wasEmpty EXCEPT ![t] = items = <<>>]
    /\ unread' = [unread EXCEPT ![t] = Words]
    /\ Goto(t, "look")
    /\ UNCHANGED <<vecVars, lock, growVars, batch, seen, job>>

GetNothing(t) ==
    /\ pc[t] = "look" /\ unread[t] = {}
    /\ SawEmpty(t)
    /\ job' = [job EXCEPT ![t] = NoJob]
    /\ Goto(t, "idle")
    /\ UNCHANGED <<vecVars, lock, growVars, batch, unread, seen, wasEmpty>>

GetSomething(t) ==
    /\ pc[t] = "look" /\ unread[t] = {}
    /\ ~SawEmpty(t)
    /\ Goto(t, "wait_pop")
    /\ UNCHANGED <<vecVars, lock, growVars, callVars>>

\* Mutant: a queue that became empty gives its block back (shrink_to_fit).
PopAndShrink(t) ==
    /\ pc[t] = "pop"
    /\ items # <<>>
    /\ job' = [job EXCEPT ![t] = Head(items)]
    /\ items' = Tail(items)
    /\ start' = IF Len(items) = 1 THEN Null ELSE start
    /\ finish' = EndOf(start', Len(items) - 1)
    /\ Goto(t, "unlock")
    /\ UNCHANGED <<lock, growVars, batch, unread, seen, wasEmpty>>

Pop(t) ==
    /\ pc[t] = "pop"
    /\ items # <<>>
    /\ job' = [job EXCEPT ![t] = Head(items)]
    /\ items' = Tail(items)
    /\ finish' = EndOf(start, Len(items) - 1)
    /\ Goto(t, "unlock")
    /\ UNCHANGED <<start, lock, growVars, batch, unread, seen, wasEmpty>>

-----------------------------------------------------------------------------
(* queue_copy.  What it reserves is the distance between the words it saw. *)

CopyCall(t) ==
    /\ pc[t] = "idle"
    /\ unread' = [unread EXCEPT ![t] = Words]
    /\ Goto(t, "look")
    /\ UNCHANGED <<vecVars, lock, growVars, batch, seen, job, wasEmpty>>

Reserve(t) ==
    /\ pc[t] = "look" /\ unread[t] = {}
    /\ Goto(t, "wait_copy")
    /\ UNCHANGED <<vecVars, lock, growVars, callVars>>

Copy(t) ==
    /\ pc[t] = "copy"
    /\ Goto(t, "unlock")
    /\ UNCHANGED <<vecVars, lock, growVars, callVars>>

-----------------------------------------------------------------------------
add_to_queue(t) ==
    \/ AddCall(t) \/ Lock(t, "wait_add", "add")
    \/ Reallocate(t) \/ StoreStart(t) \/ StoreFinish(t) \/ Insert(t) \/ Unlock(t)

get_job(t) ==
    \/ GetCall(t) \/ ReadStart(t) \/ ReadFinish(t) \/ GetNothing(t) \/ GetSomething(t)
    \/ Lock(t, "wait_pop", "pop") \/ Pop(t) \/ Unlock(t)

queue_copy(t) ==
    \/ CopyCall(t) \/ ReadStart(t) \/ ReadFinish(t) \/ Reserve(t)
    \/ Lock(t, "wait_copy", "copy") \/ Copy(t) \/ Unlock(t)

Next == \/ \E t \in Adders : add_to_queue(t)
        \/ \E t \in Poppers : get_job(t)
        \/ \E t \in Viewers : queue_copy(t)

Spec == Init /\ [][Next]_vars

-----------------------------------------------------------------------------
TypeOK ==
    /\ start \in Blocks \cup {Null} /\ finish \in Ends /\ items \in Seq(Jobs)
    /\ lock \in Threads \cup {NoThread}
    /\ pc \in [Threads -> PCs]
    /\ batch \in [Threads -> Seq(Jobs)]
    /\ unread \in [Threads -> SUBSET Words]
    /\ seen \in [Threads -> Vectors]
    /\ dirty \in SUBSET Words /\ new \in Vectors
    /\ job \in [Poppers -> Jobs \cup {NoJob}]
    /\ wasEmpty \in [Poppers -> BOOLEAN]

\* A get_job that passed the unlocked test of line 45 finds a job when it
\* holds the mutex, although lines 48-49 do not test again: front() and
\* erase(begin()) never run on an empty vector, however the words it read
\* were torn by a concurrent reallocation.
SafePop == \A p \in Poppers : pc[p] = "pop" => items # <<>>

\* The size() that queue_copy reads without the mutex is a length the vector
\* had in one block, never the distance between two blocks, and it is enough
\* for what is copied under the mutex, so that insert does not reallocate.
CopyFits ==
    \A v \in Viewers : pc[v] \in {"wait_copy", "copy"} =>
        /\ seen[v].finish.block = seen[v].start
        /\ seen[v].finish.offset >= Len(items)

-----------------------------------------------------------------------------
Queue == INSTANCE JobQueue WITH
    queue <- items,
    asked <- [p \in Poppers |-> IF pc[p] \in {"look", "wait_pop", "pop"}
                                THEN IF wasEmpty[p] THEN "empty" ELSE "waiting"
                                ELSE "idle"]

\* The vector behind its mutex is the FIFO of work_queue.h: batches go in
\* whole and in order, each job comes out once, oldest first, and a request
\* that arrives while a job waits is never answered "no job", although the
\* emptiness test races with the adders.
ImplementsQueue == Queue!Spec
=============================================================================
