-------------------------- MODULE WorkQueueProofs --------------------------
(***************************************************************************)
(* Proofs about WorkQueue, for every set of threads, batches and blocks    *)
(* the assumptions of that module admit.                                   *)
(***************************************************************************)
EXTENDS WorkQueue, SequenceTheorems, TLAPS

Growing == \E t \in Threads : pc[t] = "grow"

\* The mutex is held by exactly the thread that is in a locked section.
MutexInv == \A t \in Threads : pc[t] \in Held <=> lock = t

\* Which thread is where, with which argument.
RoleInv ==
    \A t \in Threads :
        /\ pc[t] \in {"wait_add", "add", "grow"} => t \in Adders /\ batch[t] \in Batches
        /\ pc[t] \in {"wait_pop", "pop"} => t \in Poppers
        /\ pc[t] \in {"wait_copy", "copy"} => t \in Viewers
        /\ pc[t] = "grow" => batch[t] # <<>>

\* Outside a reallocation the two words delimit the elements; inside one the
\* end word still lies beyond them, in whatever block.
VecInv ==
    /\ finish.offset >= Len(items)
    /\ ~Growing => finish = EndOf(start, Len(items))
    /\ Growing => new.finish.offset >= Len(items)

\* A look at an empty vector that nobody is growing sees its current words,
\* so a thread that saw something else will find a job under the mutex.
PopInv ==
    \A p \in Poppers :
        /\ pc[p] = "look" /\ items = <<>> /\ ~Growing =>
              /\ "start" \in unread[p] \/ seen[p].start = start
              /\ "finish" \in unread[p] \/ seen[p].finish = finish
        /\ pc[p] = "wait_pop" => items # <<>> \/ Growing
        /\ pc[p] = "pop" => items # <<>>

\* A look begun on a non-empty queue never reads an end word at offset 0.
LookInv ==
    \A p \in Poppers : pc[p] = "look" /\ ~wasEmpty[p] =>
        /\ items # <<>>
        /\ "finish" \in unread[p] \/ seen[p].finish.offset > 0

\* While the only adder copies, the block stays and the end only moves back.
CopyInv ==
    \A v \in Viewers : pc[v] \in {"look", "wait_copy", "copy"} =>
        /\ (pc[v] = "look" /\ "start" \in unread[v]) \/ seen[v].start = start
        /\ \/ pc[v] = "look" /\ "finish" \in unread[v]
           \/ seen[v].finish.block = start /\ seen[v].finish.offset >= Len(items)
        /\ pc[v] # "look" => unread[v] = {}

IInv == MutexInv /\ RoleInv /\ VecInv /\ PopInv /\ LookInv /\ CopyInv

-----------------------------------------------------------------------------
\* An empty vector, a free mutex and idle threads have their types.
LEMMA TypeInit == Init => TypeOK
  BY DEF Init, TypeOK, Vectors, EmptyVector, EndOf, Ends, PCs

\* No step of a call takes a variable out of its type.
LEMMA TypeStep == TypeOK /\ [Next]_vars => TypeOK'
<1> SUFFICES ASSUME TypeOK, [Next]_vars PROVE TypeOK'
  OBVIOUS
<1> USE DEF TypeOK, vecVars, growVars, callVars, Goto, Words
<1>1. ASSUME NEW t \in Adders, AddCall(t) PROVE TypeOK'
  BY <1>1, DataAssumption DEF AddCall, PCs, Threads
<1>2. ASSUME NEW t \in Threads, NEW from, NEW to \in PCs, Lock(t, from, to) PROVE TypeOK'
  BY <1>2 DEF Lock
<1>3. ASSUME NEW t \in Threads, Unlock(t) PROVE TypeOK'
  BY <1>3 DEF Unlock, PCs
<1>4. ASSUME NEW t \in Adders, Reallocate(t) PROVE TypeOK'
  <2>1. PICK b \in Blocks, n \in {Len(items), Len(items) + Len(batch[t])} :
           new' = [start |-> b, finish |-> EndOf(b, n)]
    BY <1>4 DEF Reallocate
  <2>2. t \in Threads /\ n \in Nat
    BY LenProperties DEF Threads
  <2>3. new' \in Vectors
    BY <2>1, <2>2 DEF Vectors, EndOf, Ends
  <2> QED
    BY <1>4, <2>2, <2>3 DEF Reallocate, PCs, Held
<1>5. ASSUME NEW t \in Adders, StoreStart(t) PROVE TypeOK'
  BY <1>5 DEF StoreStart, Vectors
<1>6. ASSUME NEW t \in Adders, StoreFinish(t) PROVE TypeOK'
  BY <1>6 DEF StoreFinish, Vectors
<1>7. ASSUME NEW t \in Adders, Insert(t) PROVE TypeOK'
  BY <1>7, ConcatProperties, LenProperties DEF Insert, PCs, Held, Threads, EndOf, Ends
<1>8. ASSUME NEW t \in Threads, ReadStart(t) PROVE TypeOK'
  BY <1>8 DEF ReadStart, Vectors
<1>9. ASSUME NEW t \in Threads, ReadFinish(t) PROVE TypeOK'
  BY <1>9 DEF ReadFinish, Vectors
<1>10. ASSUME NEW t \in Poppers, GetCall(t) PROVE TypeOK'
  BY <1>10 DEF GetCall, PCs, Threads
<1>11. ASSUME NEW t \in Poppers, GetNothing(t) PROVE TypeOK'
  BY <1>11 DEF GetNothing, PCs, Threads
<1>12. ASSUME NEW t \in Threads, GetSomething(t) \/ Reserve(t) PROVE TypeOK'
  BY <1>12 DEF GetSomething, Reserve, PCs
<1>13. ASSUME NEW t \in Poppers, Pop(t) PROVE TypeOK'
  BY <1>13, HeadTailProperties, LenProperties DEF Pop, PCs, Held, Threads, EndOf, Ends
<1>14. ASSUME NEW t \in Viewers, CopyCall(t) PROVE TypeOK'
  BY <1>14 DEF CopyCall, PCs, Threads
<1>15. ASSUME NEW t \in Viewers, Copy(t) PROVE TypeOK'
  BY <1>15 DEF Copy, PCs, Held, Threads
<1>16. CASE UNCHANGED vars
  BY <1>16 DEF vars
<1> QED
  BY <1>1, <1>2, <1>3, <1>4, <1>5, <1>6, <1>7, <1>8, <1>9, <1>10, <1>11, <1>12,
     <1>13, <1>14, <1>15, <1>16
  DEF Next, add_to_queue, get_job, queue_copy, Threads, PCs, Held

\* Every reachable state has its type.
THEOREM TypeCorrect == Spec => []TypeOK
<1> QED
  BY TypeInit, TypeStep, PTL DEF Spec

-----------------------------------------------------------------------------
\* The inductive invariant holds before any call.
LEMMA IInvInit == Init => IInv
  BY DataAssumption, EmptySeq DEF Init, IInv, MutexInv, RoleInv, VecInv, PopInv, LookInv,
     CopyInv, Growing, EndOf, Held, Threads

\* get_job's history variable records whether the queue was empty.
LEMMA GetCallRecords ==
  ASSUME wasEmpty \in [Poppers -> BOOLEAN], NEW t \in Poppers, GetCall(t)
  PROVE  wasEmpty'[t] = (items = <<>>)
  BY SMTT(30) DEF GetCall

\* Every step of every call preserves the inductive invariant: one step of
\* the proof per action, and under it one per conjunct the action can disturb.
LEMMA IInvStep == TypeOK /\ IInv /\ [Next]_vars => IInv'
<1> SUFFICES ASSUME TypeOK, IInv, [Next]_vars PROVE IInv'
  OBVIOUS
<1>0. TypeOK'
  BY TypeStep
<1> USE <1>0, PoolAssumption, ViewerAssumption, DataAssumption
    DEF TypeOK, IInv, MutexInv, RoleInv, VecInv, PopInv, LookInv, CopyInv, Growing,
        vecVars, growVars, callVars, Goto, Words, Threads, Held, EndOf, PCs
<1>1. ASSUME NEW t \in Adders, AddCall(t) PROVE IInv'
  BY <1>1, SMTT(30) DEF AddCall
<1>2. ASSUME NEW t \in Adders, Lock(t, "wait_add", "add") PROVE IInv'
  BY <1>2 DEF Lock
<1>3. ASSUME NEW t \in Poppers, Lock(t, "wait_pop", "pop") PROVE IInv'
  BY <1>3 DEF Lock
<1>4. ASSUME NEW t \in Viewers, Lock(t, "wait_copy", "copy") PROVE IInv'
  BY <1>4 DEF Lock
<1>5. ASSUME NEW t \in Threads, Unlock(t) PROVE IInv'
  BY <1>5 DEF Unlock
<1>6. ASSUME NEW t \in Adders, Reallocate(t) PROVE IInv'
  BY <1>6, LenProperties DEF Reallocate
<1>7. ASSUME NEW t \in Adders, StoreStart(t) PROVE IInv'
  BY <1>7 DEF StoreStart
<1>8. ASSUME NEW t \in Adders, StoreFinish(t) PROVE IInv'
  BY <1>8 DEF StoreFinish
<1>9. ASSUME NEW t \in Adders, Insert(t) PROVE IInv'
  BY <1>9, ConcatProperties, LenProperties DEF Insert
<1>10. ASSUME NEW t \in Threads, ReadStart(t) PROVE IInv'
  BY <1>10 DEF ReadStart
<1>11. ASSUME NEW t \in Threads, ReadFinish(t) PROVE IInv'
  <2> USE <1>11 DEF ReadFinish
  <2>1. MutexInv' /\ RoleInv' /\ VecInv'
    OBVIOUS
  <2>2. PopInv'
    OBVIOUS
  <2>3. LookInv'
    <3>1. items # <<>> => finish.offset > 0
      BY EmptySeq DEF Ends
    <3>2. seen'[t].finish = finish /\ \A p \in Threads \ {t} : seen'[p] = seen[p]
      OBVIOUS
    <3>3. unread'[t] \subseteq unread[t] /\ \A p \in Threads \ {t} : unread'[p] = unread[p]
      OBVIOUS
    <3> SUFFICES ASSUME NEW p \in Poppers, pc[p] = "look", ~wasEmpty[p]
                 PROVE  items # <<>> /\ ("finish" \in unread'[p] \/ seen'[p].finish.offset > 0)
      OBVIOUS
    <3>4. items # <<>> /\ ("finish" \in unread[p] \/ seen[p].finish.offset > 0)
      OBVIOUS
    <3>5. CASE p = t
      BY <3>1, <3>2, <3>4, <3>5
    <3>6. CASE p # t
      BY <3>2, <3>3, <3>4, <3>6
    <3> QED
      BY <3>5, <3>6
  <2>4. CopyInv'
    OBVIOUS
  <2> QED
    BY <2>1, <2>2, <2>3, <2>4
<1>12. ASSUME NEW t \in Poppers, GetCall(t) PROVE IInv'
  <2> USE <1>12 DEF GetCall
  <2>1. MutexInv' /\ RoleInv' /\ VecInv'
    OBVIOUS
  <2>2. PopInv'
    OBVIOUS
  <2>3. LookInv'
    <3>1. wasEmpty'[t] <=> items = <<>>
      BY GetCallRecords
    <3>2. \A p \in Poppers : p = t
      OBVIOUS
    <3>3. "finish" \in unread'[t] /\ items' = items
      OBVIOUS
    <3> QED
      BY <3>1, <3>2, <3>3
  <2>4. CopyInv'
    OBVIOUS
  <2> QED
    BY <2>1, <2>2, <2>3, <2>4
<1>13. ASSUME NEW t \in Poppers, GetNothing(t) PROVE IInv'
  BY <1>13 DEF GetNothing
<1>14. ASSUME NEW t \in Poppers, GetSomething(t) PROVE IInv'
  BY <1>14 DEF GetSomething, SawEmpty
<1>15. ASSUME NEW t \in Poppers, Pop(t) PROVE IInv'
  <2> USE <1>15 DEF Pop
  <2>1. MutexInv' /\ RoleInv'
    OBVIOUS
  <2>2. Len(items') = Len(items) - 1
    BY HeadTailProperties, LenProperties
  <2>3. VecInv'
    BY <2>2
  <2>4. PopInv' /\ LookInv'
    OBVIOUS
  <2>5. CopyInv'
    <3>1. \A v \in Viewers : pc'[v] = pc[v]
      OBVIOUS
    <3>2. Len(items) \in Nat /\ \A v \in Viewers : seen[v].finish.offset \in Nat
      BY LenProperties DEF Vectors, Ends
    <3> QED
      BY <2>2, <3>1, <3>2
  <2> QED
    BY <2>1, <2>3, <2>4, <2>5
<1>16. ASSUME NEW t \in Viewers, CopyCall(t) PROVE IInv'
  BY <1>16 DEF CopyCall
<1>17. ASSUME NEW t \in Viewers, Reserve(t) PROVE IInv'
  BY <1>17 DEF Reserve
<1>18. ASSUME NEW t \in Viewers, Copy(t) PROVE IInv'
  BY <1>18 DEF Copy
<1>19. CASE UNCHANGED vars
  BY <1>19 DEF vars
<1> QED
  BY <1>1, <1>2, <1>3, <1>4, <1>5, <1>6, <1>7, <1>8, <1>9, <1>10, <1>11, <1>12,
     <1>13, <1>14, <1>15, <1>16, <1>17, <1>18, <1>19
  DEF Next, add_to_queue, get_job, queue_copy

\* So both hold in every reachable state.
LEMMA Invariance == Spec => [](TypeOK /\ IInv)
<1>1. Init => TypeOK /\ IInv
  BY TypeInit, IInvInit
<1>2. TypeOK /\ IInv /\ [Next]_vars => (TypeOK /\ IInv)'
  BY TypeStep, IInvStep
<1> QED
  BY <1>1, <1>2, PTL DEF Spec

\* get_job never takes the first element of an empty vector, for any number
\* of adding threads, as long as one pool thread pops.
THEOREM PopIsSafe == Spec => []SafePop
<1>1. IInv => SafePop
  BY DEF IInv, PopInv, SafePop
<1> QED
  BY <1>1, Invariance, PTL

\* What queue_copy reserves without the mutex is a length in one block and
\* enough for what it copies.
THEOREM CopyIsReserved == Spec => []CopyFits
<1>1. IInv => CopyFits
  BY DEF IInv, CopyInv, CopyFits
<1> QED
  BY <1>1, Invariance, PTL

-----------------------------------------------------------------------------
(* The refinement of JobQueue.                                             *)

\* The empty vector is the empty FIFO, with no call under way.
LEMMA QueueInit == Init => Queue!Init
  BY DEF Init, Queue!Init, Threads

AskedOf(p) == IF pc[p] \in {"look", "wait_pop", "pop"}
              THEN IF wasEmpty[p] THEN "empty" ELSE "waiting"
              ELSE "idle"
Asked == [p \in Poppers |-> AskedOf(p)]

\* A step that leaves the queue, the answers and the poppers' calls alone is
\* a stuttering step of the abstract queue.
LEMMA QueueStutter ==
  ASSUME items' = items, job' = job, wasEmpty' = wasEmpty,
         \A p \in Poppers : (pc'[p] \in {"look", "wait_pop", "pop"})
                              <=> (pc[p] \in {"look", "wait_pop", "pop"})
  PROVE  UNCHANGED Queue!vars
  BY DEF Queue!vars

\* Insert is Add, GetCall is Ask, Pop is Serve and GetNothing is Refuse; every
\* other step of a call stutters.  GetNothing needs LookInv: a look begun on a
\* non-empty queue never ends in "empty".
LEMMA QueueStep == TypeOK /\ IInv /\ [Next]_vars => [Queue!Next]_Queue!vars
<1> SUFFICES ASSUME TypeOK, IInv, [Next]_vars PROVE [Queue!Next]_Queue!vars
  OBVIOUS
<1> USE PoolAssumption DEF TypeOK, vecVars, growVars, callVars, Goto, Threads
<1>1. ASSUME NEW t \in Adders,
             AddCall(t) \/ Lock(t, "wait_add", "add") \/ Reallocate(t)
               \/ StoreStart(t) \/ StoreFinish(t)
      PROVE  UNCHANGED Queue!vars
  BY <1>1, QueueStutter DEF AddCall, Lock, Reallocate, StoreStart, StoreFinish
<1>2. ASSUME NEW t \in Adders, Insert(t) PROVE Queue!Add
  <2>1. batch[t] \in Batches
    BY <1>2 DEF Insert, IInv, RoleInv
  <2>2. Asked' = Asked
    BY <1>2 DEF Insert, Asked, AskedOf
  <2> QED
    BY <1>2, <2>1, <2>2 DEF Insert, Queue!Add, Asked, AskedOf
<1>3. ASSUME NEW t \in Threads, Unlock(t) PROVE UNCHANGED Queue!vars
  BY <1>3, QueueStutter DEF Unlock
<1>4. ASSUME NEW t \in Threads, ReadStart(t) \/ ReadFinish(t) PROVE UNCHANGED Queue!vars
  BY <1>4, QueueStutter DEF ReadStart, ReadFinish
<1>5. ASSUME NEW t \in Viewers,
             CopyCall(t) \/ Reserve(t) \/ Lock(t, "wait_copy", "copy") \/ Copy(t)
      PROVE  UNCHANGED Queue!vars
  BY <1>5, QueueStutter DEF CopyCall, Reserve, Lock, Copy
<1>6. ASSUME NEW t \in Poppers, GetSomething(t) \/ Lock(t, "wait_pop", "pop")
      PROVE  UNCHANGED Queue!vars
  BY <1>6, QueueStutter DEF GetSomething, Lock
<1>7. ASSUME NEW t \in Poppers, GetCall(t) PROVE Queue!Ask(t)
  <2>1. wasEmpty'[t] = (items = <<>>) /\ \A p \in Poppers : p = t
    BY <1>7, GetCallRecords
  <2>2. Asked' = [Asked EXCEPT ![t] = IF items = <<>> THEN "empty" ELSE "waiting"]
    BY <1>7, <2>1 DEF GetCall, Asked, AskedOf
  <2> QED
    BY <1>7, <2>2 DEF GetCall, Queue!Ask, Asked, AskedOf
<1>8. ASSUME NEW t \in Poppers, GetNothing(t) PROVE Queue!Refuse(t)
  <2>1. wasEmpty[t]
    <3>1. seen[t].finish.offset = 0 /\ pc[t] = "look" /\ "finish" \notin unread[t]
      BY <1>8 DEF GetNothing, SawEmpty, EndOf
    <3> SUFFICES ASSUME ~wasEmpty[t] PROVE FALSE
      OBVIOUS
    <3> QED
      BY <3>1 DEF IInv, LookInv
  <2>2. Asked' = [Asked EXCEPT ![t] = "idle"]
    BY <1>8 DEF GetNothing, Asked, AskedOf
  <2> QED
    BY <1>8, <2>1, <2>2 DEF GetNothing, Queue!Refuse, Asked, AskedOf
<1>9. ASSUME NEW t \in Poppers, Pop(t) PROVE Queue!Serve(t)
  <2>1. Asked' = [Asked EXCEPT ![t] = "idle"]
    BY <1>9 DEF Pop, Asked, AskedOf
  <2> QED
    BY <1>9, <2>1 DEF Pop, Queue!Serve, Asked, AskedOf
<1>10. CASE UNCHANGED vars
  BY <1>10, QueueStutter DEF vars
<1> QED
  BY <1>1, <1>2, <1>3, <1>4, <1>5, <1>6, <1>7, <1>8, <1>9, <1>10
  DEF Next, add_to_queue, get_job, queue_copy, Queue!Next

\* Every behaviour of the vector behind its mutex is, jobs in and jobs out, a
\* behaviour of the FIFO: the refinement of JobQueue that ImplementsQueue names.
THEOREM QueueRefined == Spec => ImplementsQueue
<1> QED
  BY QueueInit, QueueStep, Invariance, PTL DEF ImplementsQueue, Queue!Spec, Spec
=============================================================================
