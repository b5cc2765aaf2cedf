-------------------------- MODULE ThreadPoolProofs --------------------------
(***************************************************************************)
(* Proofs that the thread pool keeps its inductive invariant for every     *)
(* number of workers, messages and cancels, and what follows from it.      *)
(***************************************************************************)
EXTENDS ThreadPool, TLAPS

-----------------------------------------------------------------------------
(* What the queue operators do to a queue of the right type.               *)

\* job_queue_push() links the job behind the others, leaves the closed flag
\* alone and wakes at most one sleeper.
LEMMA PushedFacts ==
    ASSUME NEW J, NEW T, NEW q \in QueueType(J, T), NEW j \in J,
           NEW p \in Pushed(q, j)
    PROVE  /\ p \in QueueType(J, T)
           /\ p.jobs = Append(q.jobs, j)
           /\ p.closed = q.closed
           /\ Len(q.jobs) \in Nat
           /\ Len(p.jobs) = Len(q.jobs) + 1
           /\ p.jobs[Len(q.jobs) + 1] = j
           /\ \A i \in 1..Len(q.jobs) : p.jobs[i] = q.jobs[i]
<1>1. PICK W \in Signalled(q) : p = [q EXCEPT !.jobs = Append(@, j), !.waiting = W]
  BY DEF Pushed
<1>2. W \in SUBSET T
  BY DEF Signalled, QueueType
<1>3. Append(q.jobs, j) \in Seq(J)
  BY DEF QueueType
<1>4. /\ p \in QueueType(J, T)
      /\ p.jobs = Append(q.jobs, j)
      /\ p.closed = q.closed
  BY <1>1, <1>2, <1>3 DEF QueueType
<1>5. q.jobs \in Seq(J)
  BY DEF QueueType
<1> QED
  BY <1>4, <1>5

\* job_queue_pop() takes the head and leaves the rest.
LEMMA PoppedFacts ==
    ASSUME NEW J, NEW T, NEW q \in QueueType(J, T), q.jobs # <<>>,
           NEW p, p = Popped(q)
    PROVE  /\ p \in QueueType(J, T)
           /\ p.closed = q.closed
           /\ Head(q.jobs) \in J
           /\ Head(q.jobs) = q.jobs[1]
           /\ Len(p.jobs) = Len(q.jobs) - 1
           /\ Len(q.jobs) \in Nat \ {0}
           /\ \A i \in 1..(Len(q.jobs) - 1) : p.jobs[i] = q.jobs[i + 1]
<1>1. q.jobs \in Seq(J)
  BY DEF QueueType
<1>2. Tail(q.jobs) \in Seq(J) /\ Head(q.jobs) \in J
  BY <1>1
<1>3. p \in QueueType(J, T) /\ p.closed = q.closed /\ p.jobs = Tail(q.jobs)
  BY <1>2 DEF QueueType, Popped
<1> QED
  BY <1>1, <1>2, <1>3

\* Sleeping, waking and closing leave the jobs where they are.
LEMMA UnlinkedFacts ==
    ASSUME NEW J, NEW T, NEW q \in QueueType(J, T), NEW t \in T,
           NEW p, p = Asleep(q, t) \/ p = Woken(q, t)
    PROVE  p \in QueueType(J, T) /\ p.jobs = q.jobs /\ p.closed = q.closed
BY DEF QueueType, Asleep, Woken

LEMMA ClosedFacts ==
    ASSUME NEW J, NEW T, NEW q \in QueueType(J, T)
    PROVE  /\ Closed(q) \in QueueType(J, T) /\ Closed(q).jobs = q.jobs
BY DEF QueueType, Closed

-----------------------------------------------------------------------------
(* The inductive invariant.                                                *)

\* threadpool_start(): empty queues, idle threads.
LEMMA InitPoolInv == Init => PoolInv
<1> SUFFICES ASSUME Init PROVE PoolInv
  OBVIOUS
<1> USE MessagesAssumption, ThreadPoolAssumption DEF Init, NewQueue
<1>1. TypeOK
  BY DEF TypeOK, QueueType, JobOrNone
<1>2. Taken = 0 /\ Passed = 0 /\ Len(request_queue.jobs) = 0
  BY DEF Taken, Passed
<1>3. WorkQueueInv /\ CancelInv /\ ShutdownInv
  BY DEF WorkQueueInv, CancelInv, ShutdownInv
<1>4. OwnerInv
  BY <1>2 DEF OwnerInv, Threads
<1>5. FreedInv
  BY <1>2 DEF FreedInv, JobIndex
<1>6. PinInv
  BY <1>2 DEF PinInv, InPool, Threads, JobIndex
<1>7. ReplyInv
  BY DEF ReplyInv
<1> QED
  BY <1>1, <1>3, <1>4, <1>5, <1>6, <1>7 DEF PoolInv

\* Arithmetic on the length of a queue (b) within the arrivals (n).
LEMMA IntervalArithmetic ==
    ASSUME NEW n \in Nat, NEW b \in Nat
    PROVE  /\ n + 1 = (n - b) + (b + 1)
           /\ \A i \in 1..b : n - b < (n - b) + i /\ (n - b) + i <= n
OBVIOUS

\* The numbers the invariant counts with.
LEMMA Counting ==
    ASSUME PoolInv
    PROVE  /\ received \in Seq(Message) /\ Len(received) \in Nat
           /\ Len(received) <= MaxJobs
           /\ work_queue.jobs \in Seq(JobIndex) /\ Len(work_queue.jobs) \in Nat
           /\ request_queue.jobs \in Seq(JobIndex) /\ Len(request_queue.jobs) \in Nat
           /\ Taken \in Nat /\ Taken <= Len(received)
           /\ Passed \in Int /\ Passed <= Taken
<1>1. /\ received \in Seq(Message) /\ Len(received) \in Nat
      /\ Len(received) <= MaxJobs
      /\ work_queue.jobs \in Seq(JobIndex) /\ Len(work_queue.jobs) \in Nat
      /\ request_queue.jobs \in Seq(JobIndex) /\ Len(request_queue.jobs) \in Nat
  BY DEF PoolInv, TypeOK, QueueType
<1>2. Taken \in Nat /\ Taken <= Len(received)
  BY <1>1 DEF Taken, PoolInv, WorkQueueInv
<1> QED
  BY <1>1, <1>2 DEF Passed

\* Where a job is follows from its number: linked in the work queue means not
\* taken, with the pool means passed on and not freed.
LEMMA Places ==
    ASSUME PoolInv
    PROVE  /\ \A j \in Linked(work_queue) :
                 j \in JobIndex /\ Taken < j /\ j <= Len(received)
           /\ \A j \in Linked(request_queue) : j \in JobIndex /\ InPool(j)
           /\ \A j \in JobIndex : InPool(j) => j <= Passed
           /\ \A j \in freed : j \in JobIndex /\ j <= Passed /\ ~InPool(j)
<1> USE Counting
<1>1. \A j \in Linked(work_queue) : j \in JobIndex /\ Taken < j /\ j <= Len(received)
  <2> SUFFICES ASSUME NEW i \in 1..Len(work_queue.jobs)
               PROVE  /\ work_queue.jobs[i] \in JobIndex /\ Taken < work_queue.jobs[i]
                      /\ work_queue.jobs[i] <= Len(received)
    BY DEF Linked
  <2>1. work_queue.jobs[i] = Taken + i /\ work_queue.jobs[i] \in JobIndex
    BY DEF PoolInv, WorkQueueInv
  <2>2. Taken = Len(received) - Len(work_queue.jobs) /\ Taken \in Nat
    BY DEF Taken
  <2>3. Taken < Taken + i /\ Taken + i <= Len(received)
    BY IntervalArithmetic DEF Taken
  <2> QED
    BY <2>1, <2>3
<1>2. \A j \in Linked(request_queue) : j \in JobIndex /\ InPool(j)
  BY DEF Linked, InPool
<1>3. \A j \in JobIndex : InPool(j) => j <= Passed
  BY MessagesAssumption, ThreadPoolAssumption DEF PoolInv, OwnerInv, InPool
<1>4. \A j \in freed : j \in JobIndex /\ j <= Passed /\ ~InPool(j)
  BY DEF PoolInv, FreedInv, TypeOK
<1> QED
  BY <1>1, <1>2, <1>3, <1>4

\* server_process() hands a message to the work queue.
LEMMA EnqueueInv ==
    ASSUME PoolInv, NEW m \in Message, Enqueue(m)
    PROVE  PoolInv'
<1> USE MessagesAssumption, ThreadPoolAssumption DEF PoolInv, Enqueue, NextJob
<1>1. NextJob \in JobIndex
  BY DEF TypeOK, JobIndex
<1>2. /\ work_queue' \in QueueType(JobIndex, {Coordinator})
      /\ work_queue'.closed = work_queue.closed
      /\ Len(work_queue.jobs) \in Nat
      /\ Len(work_queue'.jobs) = Len(work_queue.jobs) + 1
      /\ work_queue'.jobs[Len(work_queue.jobs) + 1] = NextJob
      /\ \A i \in 1..Len(work_queue.jobs) : work_queue'.jobs[i] = work_queue.jobs[i]
  BY <1>1, PushedFacts DEF TypeOK
<1>3. /\ received \in Seq(Message) /\ Len(received) \in Nat
      /\ received' \in Seq(Message)
      /\ Len(received') = Len(received) + 1
      /\ \A i \in 1..Len(received) : received'[i] = received[i]
  BY DEF TypeOK
<1>4. /\ Taken' = Taken /\ Passed' = Passed
      /\ Taken \in Int /\ Taken <= Len(received)
  <2>1. Taken \in Int /\ Taken <= Len(received)
    BY <1>2, <1>3 DEF Taken
  <2>2. Taken' = Taken
    BY <1>2, <1>3 DEF Taken
  <2> QED
    BY <2>1, <2>2 DEF Passed
<1>5. TypeOK'
  BY <1>2, <1>3 DEF TypeOK, JobIndex, jobVars
<1>6. WorkQueueInv'
  <2> HIDE DEF PoolInv, Enqueue
  <2>1. NextJob = Taken + (Len(work_queue.jobs) + 1)
    <3>1. Len(received) \in Nat /\ Len(work_queue.jobs) \in Nat
      BY <1>2, <1>3
    <3> QED
      BY <3>1, IntervalArithmetic DEF Taken, NextJob
  <2>2. Len(work_queue'.jobs) <= Len(received')
    BY <1>2, <1>3 DEF PoolInv, WorkQueueInv
  <2>3. \A i \in 1..Len(work_queue'.jobs) : work_queue'.jobs[i] = Taken + i
    BY <2>1, <1>2 DEF PoolInv, WorkQueueInv
  <2> QED
    BY <2>2, <2>3, <1>4 DEF WorkQueueInv
<1>7. OwnerInv'
  BY <1>4 DEF OwnerInv
<1>8. FreedInv'
  BY <1>4 DEF FreedInv, InPool, jobVars
<1>9. \A j \in JobIndex : j <= Len(received) =>
          NotificationsBefore(received', j) = NotificationsBefore(received, j)
  BY <1>3 DEF NotificationsBefore, JobIndex
<1>10. \A j \in JobIndex : InPool(j) => j <= Passed
  BY DEF OwnerInv, InPool, TypeOK, JobIndex
<1>11. Passed <= Len(received)
  BY <1>4 DEF Passed
<1>12. PinInv'
  <2>1. {i \in 1..(IF coordinator = "dispatch" THEN Taken - 1 ELSE Taken) :
             received'[i].kind = "notification"}
        = {i \in 1..(IF coordinator = "dispatch" THEN Taken - 1 ELSE Taken) :
             received[i].kind = "notification"}
    BY <1>3, <1>4
  <2>2. \A j \in JobIndex : coordinator = "push" /\ holds[Coordinator] = j => j <= Len(received)
    BY <1>4 DEF OwnerInv
  <2>3. \A j \in JobIndex : InPool(j) => j <= Len(received)
    BY <1>10, <1>11, <1>4 DEF JobIndex, Passed
  <2> QED
    BY <2>1, <2>2, <2>3, <1>4, <1>9 DEF PinInv, InPool, jobVars
<1>13. \A j \in freed : j <= Len(received) /\ j \in JobIndex
  BY <1>4, <1>11 DEF FreedInv, TypeOK, JobIndex, Passed
<1>14. ReplyInv'
  BY <1>3, <1>9, <1>13 DEF ReplyInv, CancelAsked, jobVars, JobIndex
<1>15. CancelInv'
  BY <1>3, <1>4 DEF CancelInv, CancelAsked, jobVars, JobIndex, TypeOK
<1>16. ShutdownInv'
  BY <1>2 DEF ShutdownInv
<1> QED
  BY <1>5, <1>6, <1>7, <1>8, <1>12, <1>14, <1>15, <1>16

\* threadpool_cancel_by_id(), first scan.
LEMMA CancelScanWorkInv ==
    ASSUME PoolInv, NEW id \in Ids, CancelScanWork(id)
    PROVE  PoolInv'
<1> USE MessagesAssumption, ThreadPoolAssumption, Counting DEF CancelScanWork
<1>1. \A j \in Matching(work_queue, id) :
          /\ j \in JobIndex /\ Taken < j /\ j <= Len(received)
          /\ received[j].id = id /\ j \notin freed
  <2>1. \A j \in Linked(work_queue) : j \in JobIndex /\ Taken < j /\ j <= Len(received)
    BY Places
  <2>2. \A j \in JobIndex : Taken < j => j \notin freed
    BY Places DEF JobIndex
  <2> QED
    BY <2>1, <2>2 DEF Matching
<1>2. Taken' = Taken /\ Passed' = Passed
  BY DEF Taken, Passed
<1>3. \A j : InPool(j)' <=> InPool(j)
  BY DEF InPool
<1>4. TypeOK'
  BY <1>1 DEF TypeOK, PoolInv
<1>5. WorkQueueInv' /\ OwnerInv' /\ FreedInv' /\ PinInv' /\ ShutdownInv'
  BY <1>2, <1>3 DEF PoolInv, WorkQueueInv, OwnerInv, FreedInv, PinInv, ShutdownInv
<1>6. ReplyInv'
  BY <1>1 DEF PoolInv, ReplyInv, CancelAsked
<1>7. CancelInv'
  <2>1. \A j \in is_cancelled' :
            j <= Len(received) /\ received[j].id \in Ids /\ CancelAsked(j)'
    <3>1. \A j \in is_cancelled :
              j <= Len(received) /\ received[j].id \in Ids /\ CancelAsked(j)'
      BY DEF PoolInv, CancelInv, CancelAsked
    <3>2. \A j \in Matching(work_queue, id) : CancelAsked(j)'
      <4> DEFINE c == [id |-> id, at |-> Len(received)]
      <4>1. c \in cancels' /\ c.id = id /\ c.at = Len(received)
        OBVIOUS
      <4>2. received' = received
        OBVIOUS
      <4> HIDE DEF c
      <4> QED
        BY <1>1, <4>1, <4>2 DEF CancelAsked
    <3> QED
      BY <1>1, <3>1, <3>2
  <2>2. \A c \in cancels' : c.at <= Len(received)
    BY DEF PoolInv, CancelInv
  <2>3. ASSUME NEW j \in JobIndex, Taken < j, j <= Len(received), received[j].id = id
        PROVE  j \in is_cancelled'
    <3>1. received[j] \in Message
      BY <2>3 DEF JobIndex
    <3>2. received[j].kind # "notification"
      BY <2>3, <3>1 DEF Message
    <3>3. j \in Linked(work_queue)
      <4>1. j - Taken \in 1..Len(work_queue.jobs)
        BY <2>3 DEF Taken, JobIndex
      <4>2. work_queue.jobs[j - Taken] = Taken + (j - Taken)
        BY <4>1 DEF PoolInv, WorkQueueInv
      <4>3. work_queue.jobs[j - Taken] = j
        BY <4>2 DEF JobIndex
      <4> QED
        BY <4>1, <4>3 DEF Linked
    <3> QED
      BY <2>3, <3>2, <3>3 DEF Matching
  <2>4. ASSUME NEW c \in cancels', NEW j \in JobIndex,
               Taken < j, j <= c.at, received[j].id = c.id
        PROVE  j \in is_cancelled'
    <3>1. CASE c \in cancels
      BY <2>4, <3>1 DEF PoolInv, CancelInv
    <3>2. CASE c = [id |-> id, at |-> Len(received)]
      BY <2>3, <2>4, <3>2
    <3> QED
      BY <3>1, <3>2
  <2> QED
    BY <1>2, <2>1, <2>2, <2>4 DEF CancelInv
<1> QED
  BY <1>4, <1>5, <1>6, <1>7 DEF PoolInv

\* threadpool_cancel_by_id(), second scan: the jobs it marks are queued, so
\* none of them has been answered.
LEMMA CancelScanRequestInv ==
    ASSUME PoolInv, CancelScanRequest
    PROVE  PoolInv'
<1> USE MessagesAssumption, ThreadPoolAssumption, Counting
    DEF CancelScanRequest, clientVars
<1>1. \A j \in Matching(request_queue, scan_id) :
          /\ j \in JobIndex /\ j <= Len(received)
          /\ received[j].id = scan_id /\ j \notin freed
  BY Places DEF Matching, JobIndex
<1>2. Taken' = Taken /\ Passed' = Passed
  BY DEF Taken, Passed
<1>3. \A j : InPool(j)' <=> InPool(j)
  BY DEF InPool
<1>4. TypeOK'
  BY <1>1 DEF TypeOK, PoolInv
<1>5. WorkQueueInv' /\ OwnerInv' /\ FreedInv' /\ PinInv' /\ ShutdownInv'
  BY <1>2, <1>3 DEF PoolInv, WorkQueueInv, OwnerInv, FreedInv, PinInv, ShutdownInv
<1>6. ReplyInv'
  BY <1>1 DEF PoolInv, ReplyInv, CancelAsked
<1>7. CancelInv'
  <2>1. \A j \in Matching(request_queue, scan_id) : received[j].id \in Ids /\ CancelAsked(j)
    BY <1>1 DEF PoolInv, CancelInv, CancelAsked
  <2>2. \A j \in is_cancelled' :
            j <= Len(received) /\ received[j].id \in Ids /\ CancelAsked(j)
    BY <1>1, <2>1 DEF PoolInv, CancelInv
  <2> QED
    BY <1>2, <2>2 DEF PoolInv, CancelInv, CancelAsked
<1> QED
  BY <1>4, <1>5, <1>6, <1>7 DEF PoolInv

\* threadpool_stop(): close, join, join.
LEMMA StopInv ==
    ASSUME PoolInv, CloseWorkQueue \/ JoinCoordinator \/ JoinWorkers
    PROVE  PoolInv'
<1> USE MessagesAssumption, ThreadPoolAssumption, Counting
    DEF CloseWorkQueue, JoinCoordinator, JoinWorkers, clientVars, jobVars
<1>1. /\ work_queue'.jobs = work_queue.jobs
      /\ work_queue' \in QueueType(JobIndex, {Coordinator})
  BY ClosedFacts DEF PoolInv, TypeOK
<1>2. Taken' = Taken /\ Passed' = Passed
  BY <1>1 DEF Taken, Passed
<1>3. \A j : InPool(j)' <=> InPool(j)
  BY DEF InPool
<1>4. TypeOK'
  BY <1>1 DEF TypeOK, PoolInv
<1>5. WorkQueueInv' /\ OwnerInv' /\ FreedInv' /\ PinInv'
  BY <1>1, <1>2, <1>3 DEF PoolInv, WorkQueueInv, OwnerInv, FreedInv, PinInv
<1>6. ReplyInv' /\ CancelInv'
  BY <1>2 DEF PoolInv, ReplyInv, CancelInv, CancelAsked
<1>7. ShutdownInv'
  BY <1>1 DEF PoolInv, ShutdownInv
<1> QED
  BY <1>4, <1>5, <1>6, <1>7 DEF PoolInv

\* The coordinator's job_queue_pop(): a job, a sleep, or NULL and the closing
\* of the request queue.
LEMMA CoordinatorPopInv ==
    ASSUME PoolInv, CoordinatorPop
    PROVE  PoolInv'
<1> USE MessagesAssumption, ThreadPoolAssumption, Counting
<1>0. /\ coordinator = "pop"
      /\ UNCHANGED <<reader, scan_id, finished, received, cancels, replies,
                     is_cancelled, context, applied, freed>>
  BY DEF CoordinatorPop, clientVars, jobVars
<1>1. CASE /\ CanPop(work_queue, Coordinator)
           /\ holds' = [holds EXCEPT ![Coordinator] = Head(work_queue.jobs)]
           /\ work_queue' = Popped(work_queue)
           /\ coordinator' = "dispatch"
           /\ UNCHANGED request_queue
  <2>1. /\ work_queue' \in QueueType(JobIndex, {Coordinator})
        /\ work_queue'.closed = work_queue.closed
        /\ Head(work_queue.jobs) \in JobIndex
        /\ Head(work_queue.jobs) = work_queue.jobs[1]
        /\ Len(work_queue'.jobs) = Len(work_queue.jobs) - 1
        /\ Len(work_queue.jobs) \in Nat \ {0}
        /\ \A i \in 1..(Len(work_queue.jobs) - 1) :
              work_queue'.jobs[i] = work_queue.jobs[i + 1]
    <3>1. work_queue \in QueueType(JobIndex, {Coordinator}) /\ work_queue.jobs # <<>>
      BY <1>1 DEF CanPop, PoolInv, TypeOK
    <3>2. work_queue' = Popped(work_queue)
      BY <1>1
    <3> HIDE Counting
    <3> QED
      BY <3>1, <3>2, PoppedFacts
  <2>2. Taken' = Taken + 1 /\ Passed' = Passed /\ Passed = Taken
    <3>1. Taken' = Taken + 1
      BY <1>0, <2>1 DEF Taken
    <3>2. Passed = Taken
      BY <1>0 DEF Passed
    <3>3. Passed' = Taken' - 1
      BY <1>1 DEF Passed
    <3> QED
      BY <3>1, <3>2, <3>3
  <2>3. Head(work_queue.jobs) = Taken + 1
    BY <2>1 DEF PoolInv, WorkQueueInv
  <2>4. /\ holds'[Coordinator] = Taken'
        /\ \A w \in Workers : holds'[w] = holds[w]
    BY <1>1, <2>2, <2>3 DEF PoolInv, TypeOK, Threads
  <2>5. \A j : InPool(j)' <=> InPool(j)
    BY <1>1, <2>4 DEF InPool
  <2>6. TypeOK'
    BY <1>0, <1>1, <2>1 DEF PoolInv, TypeOK, JobOrNone, Threads
  <2>7. WorkQueueInv'
    <3>1. Len(work_queue'.jobs) <= Len(received)
      BY <2>1 DEF PoolInv, WorkQueueInv
    <3>2. \A i \in 1..(Len(work_queue.jobs) - 1) : work_queue'.jobs[i] = Taken + (i + 1)
      BY <2>1 DEF PoolInv, WorkQueueInv
    <3>3. \A i \in 1..Len(work_queue'.jobs) : work_queue'.jobs[i] = Taken' + i
      <4> SUFFICES ASSUME NEW i \in 1..(Len(work_queue.jobs) - 1)
                   PROVE  work_queue'.jobs[i] = Taken' + i
        BY <2>1
      <4>1. i \in Nat /\ Taken \in Nat
        BY <2>1
      <4>2. Taken + (i + 1) = (Taken + 1) + i
        BY <4>1
      <4> QED
        BY <4>2, <3>2, <2>2
    <3> QED
      BY <1>0, <3>1, <3>3 DEF WorkQueueInv
  <2>8. OwnerInv'
    <3>1. 0 < Taken'
      BY <2>2
    <3>2. \A a \in 1..Len(request_queue.jobs) : request_queue.jobs[a] <= Passed'
      BY <2>2 DEF PoolInv, OwnerInv
    <3>3. \A w \in Workers : holds[w] # NoJob =>
              /\ holds[w] <= Passed'
              /\ \A a \in 1..Len(request_queue.jobs) : holds[w] < request_queue.jobs[a]
      BY <2>2 DEF PoolInv, OwnerInv
    <3> QED
      BY <1>1, <2>4, <3>1, <3>2, <3>3 DEF PoolInv, OwnerInv
  <2>9. FreedInv'
    BY <1>0, <2>2, <2>5 DEF PoolInv, FreedInv
  <2>10. PinInv'
    <3>1. Taken' - 1 = Taken
      BY <2>2
    <3>2. applied' = {i \in 1..(IF coordinator = "dispatch" THEN Taken - 1 ELSE Taken)' :
                        received'[i].kind = "notification"}
      BY <1>0, <1>1, <3>1 DEF PoolInv, PinInv
    <3> QED
      BY <3>2, <1>0, <1>1, <2>5 DEF PoolInv, PinInv
  <2>11. ReplyInv'
    BY <1>0 DEF PoolInv, ReplyInv, CancelAsked
  <2>12. CancelInv'
    <3>1. \A j \in JobIndex : Taken' < j => Taken < j
      BY <2>2 DEF JobIndex
    <3> QED
      BY <3>1, <1>0 DEF PoolInv, CancelInv, CancelAsked
  <2>13. ShutdownInv'
    BY <1>0, <1>1, <2>1 DEF PoolInv, ShutdownInv
  <2> QED
    BY <2>6, <2>7, <2>8, <2>9, <2>10, <2>11, <2>12, <2>13 DEF PoolInv
<1>2. ASSUME UNCHANGED holds,
             work_queue'.jobs = work_queue.jobs,
             work_queue' \in QueueType(JobIndex, {Coordinator}),
             request_queue'.jobs = request_queue.jobs,
             request_queue' \in QueueType(JobIndex, Workers),
             coordinator' \in {"pop", "done"},
             ShutdownInv'
      PROVE  PoolInv'
  <2>1. Taken' = Taken /\ Passed' = Passed
    BY <1>0, <1>2 DEF Taken, Passed
  <2>2. \A j : InPool(j)' <=> InPool(j)
    BY <1>2 DEF InPool
  <2>3. TypeOK'
    BY <1>0, <1>2 DEF PoolInv, TypeOK
  <2>4. WorkQueueInv' /\ OwnerInv' /\ FreedInv' /\ PinInv'
    BY <1>0, <1>2, <2>1, <2>2 DEF PoolInv, WorkQueueInv, OwnerInv, FreedInv, PinInv
  <2>5. ReplyInv' /\ CancelInv'
    BY <1>0, <2>1 DEF PoolInv, ReplyInv, CancelInv, CancelAsked
  <2> QED
    BY <1>2, <2>3, <2>4, <2>5 DEF PoolInv
<1>3. CASE /\ MustSleep(work_queue, Coordinator)
           /\ work_queue' = Asleep(work_queue, Coordinator)
           /\ UNCHANGED <<coordinator, holds, request_queue>>
  <2>1. /\ work_queue'.jobs = work_queue.jobs
        /\ work_queue'.closed = work_queue.closed
        /\ work_queue' \in QueueType(JobIndex, {Coordinator})
    <3>1. work_queue \in QueueType(JobIndex, {Coordinator})
      BY DEF PoolInv, TypeOK
    <3>2. Coordinator \in {Coordinator}
      OBVIOUS
    <3> HIDE Counting
    <3> QED
      BY <1>3, <3>1, <3>2, UnlinkedFacts
  <2>2. ShutdownInv'
    BY <1>0, <1>3, <2>1 DEF PoolInv, ShutdownInv
  <2>3. request_queue' \in QueueType(JobIndex, Workers)
    BY <1>3 DEF PoolInv, TypeOK
  <2> QED
    BY <1>0, <1>2, <1>3, <2>1, <2>2, <2>3
<1>4. CASE /\ PopsNull(work_queue, Coordinator)
           /\ request_queue' = Closed(request_queue)
           /\ coordinator' = "done"
           /\ UNCHANGED <<work_queue, holds>>
  <2>1. /\ request_queue'.jobs = request_queue.jobs
        /\ request_queue' \in QueueType(JobIndex, Workers)
    BY <1>4, ClosedFacts DEF PoolInv, TypeOK
  <2>2. ShutdownInv'
    BY <1>0, <1>4, <2>1 DEF PoolInv, ShutdownInv, PopsNull
  <2>3. work_queue' \in QueueType(JobIndex, {Coordinator})
    BY <1>4 DEF PoolInv, TypeOK
  <2> QED
    BY <1>2, <1>4, <2>1, <2>2, <2>3
<1> QED
  BY <1>1, <1>3, <1>4 DEF CoordinatorPop

\* What a reply r for job j has to be.
GoodReply(j, r) ==
    /\ r \in ReplyType
    /\ r.outcome = "result" => r.seen = NotificationsBefore(received, j)
    /\ r.outcome = "cancelled" => CancelAsked(j)
    /\ j \in is_cancelled => r.outcome = "cancelled"

\* Freeing a job keeps ReplyInv when a request gets one good reply and a
\* message without an id gets none.
LEMMA AnswerInv ==
    ASSUME PoolInv, NEW j \in JobIndex, j \notin freed, freed' = freed \cup {j},
           UNCHANGED <<received, cancels, is_cancelled>>,
           \/ ~IsRequest(received[j]) /\ replies' = replies
           \/ /\ IsRequest(received[j])
              /\ \E r : GoodReply(j, r) /\ replies' = [replies EXCEPT ![j] = Append(@, r)]
    PROVE  ReplyInv' /\ replies' \in [JobIndex -> Seq(ReplyType)]
<1>1. replies \in [JobIndex -> Seq(ReplyType)] /\ replies[j] = <<>>
  BY DEF PoolInv, TypeOK, ReplyInv
<1>2. CASE ~IsRequest(received[j]) /\ replies' = replies
  BY <1>1, <1>2 DEF PoolInv, ReplyInv, CancelAsked
<1>3. CASE /\ IsRequest(received[j])
           /\ \E r : GoodReply(j, r) /\ replies' = [replies EXCEPT ![j] = Append(@, r)]
  <2>1. PICK r : GoodReply(j, r) /\ replies' = [replies EXCEPT ![j] = Append(@, r)]
    BY <1>3
  <2>2. Append(replies[j], r) = <<r>> /\ r \in ReplyType
    BY <1>1, <2>1 DEF GoodReply
  <2>3. /\ replies' \in [JobIndex -> Seq(ReplyType)]
        /\ replies'[j] = <<r>>
        /\ \A k \in JobIndex : k # j => replies'[k] = replies[k]
    BY <1>1, <2>1, <2>2
  <2>4. /\ Len(replies'[j]) = 1
        /\ \A i \in DOMAIN replies'[j] : replies'[j][i] = r
    BY <2>2, <2>3
  <2>5. ReplyInv'
    <3>1. \A k \in JobIndex \ freed' : replies'[k] = <<>>
      BY <2>3 DEF PoolInv, ReplyInv
    <3>2. freed \in SUBSET JobIndex
      BY DEF PoolInv, TypeOK
    <3>3. ASSUME NEW k \in freed'
          PROVE  /\ ~IsRequest(received[k]) => replies'[k] = <<>>
                 /\ IsRequest(received[k]) => Len(replies'[k]) = 1
                 /\ \A i \in DOMAIN replies'[k] :
                       /\ replies'[k][i].outcome = "result"
                             => replies'[k][i].seen = NotificationsBefore(received, k)
                       /\ replies'[k][i].outcome = "cancelled" => CancelAsked(k)
                       /\ k \in is_cancelled => replies'[k][i].outcome = "cancelled"
      <4>1. CASE k = j
        BY <4>1, <1>3, <2>1, <2>4 DEF GoodReply
      <4>2. CASE k # j
        BY <4>2, <2>3, <3>2 DEF PoolInv, ReplyInv
      <4> QED
        BY <4>1, <4>2
    <3> QED
      BY <3>1, <3>3 DEF ReplyInv, CancelAsked
  <2> QED
    BY <2>3, <2>5
<1> QED
  BY <1>2, <1>3

\* The coordinator's handling of the job it holds: a notification handler, a
\* cancelled reply, an inline reply, or a pinned snapshot.
LEMMA CoordinatorDispatchInv ==
    ASSUME PoolInv, CoordinatorDispatch
    PROVE  PoolInv'
<1> USE MessagesAssumption, ThreadPoolAssumption, Counting
<1> DEFINE job == holds[Coordinator]
<1>0. /\ coordinator = "dispatch"
      /\ UNCHANGED <<reader, scan_id, work_queue, request_queue, finished,
                     received, cancels, is_cancelled>>
  BY DEF CoordinatorDispatch
<1>1. /\ job = Taken /\ Passed = Taken - 1 /\ job \in JobIndex
      /\ Taken' = Taken /\ received[job] \in Message
      /\ holds \in [Threads -> JobOrNone] /\ freed \in SUBSET JobIndex
  <2>1. job = Taken /\ 0 < Taken /\ Passed = Taken - 1 /\ Taken' = Taken
    BY <1>0 DEF PoolInv, OwnerInv, Passed, Taken
  <2>2. holds \in [Threads -> JobOrNone] /\ freed \in SUBSET JobIndex
    BY DEF PoolInv, TypeOK
  <2>3. job \in JobIndex
    BY <2>1 DEF JobIndex
  <2> QED
    BY <2>1, <2>2, <2>3 DEF JobIndex
<1>2. job \notin freed /\ ~InPool(job)
  BY <1>1, Places
<1>3. applied = NotificationsBefore(received, job)
  BY <1>0, <1>1 DEF PoolInv, PinInv, NotificationsBefore
<1>4. WorkQueueInv' /\ CancelInv'
  BY <1>0, <1>1 DEF PoolInv, WorkQueueInv, CancelInv, CancelAsked
\* The three ways in which the job ends here.
<1>5. ASSUME freed' = freed \cup {job},
             holds' = [holds EXCEPT ![Coordinator] = NoJob],
             coordinator' = "pop", UNCHANGED context,
             \/ received[job].kind = "notification" /\ applied' = applied \cup {job}
             \/ received[job].kind # "notification" /\ applied' = applied,
             \/ ~IsRequest(received[job]) /\ replies' = replies
             \/ /\ IsRequest(received[job])
                /\ \E r : GoodReply(job, r) /\ replies' = [replies EXCEPT ![job] = Append(@, r)]
      PROVE  PoolInv'
  <2>1. Passed' = Taken
    BY <1>1, <1>5 DEF Passed
  <2>2. /\ holds' \in [Threads -> JobOrNone] /\ holds'[Coordinator] = NoJob
        /\ \A w \in Workers : holds'[w] = holds[w]
    BY <1>1, <1>5 DEF Threads, JobOrNone
  <2>3. \A j : InPool(j)' <=> InPool(j)
    BY <1>0, <2>2 DEF InPool
  <2>4. ReplyInv' /\ replies' \in [JobIndex -> Seq(ReplyType)]
    BY <1>0, <1>1, <1>2, <1>5, AnswerInv
  <2>5. TypeOK'
    BY <1>0, <1>1, <1>5, <2>2, <2>4 DEF PoolInv, TypeOK
  <2>6. OwnerInv'
    <3>1. \A j \in JobIndex : j <= Passed => j <= Taken
      BY <1>1 DEF JobIndex
    <3>2. \A w \in Workers : holds[w] # NoJob => holds[w] \in JobIndex
      BY <1>1 DEF JobOrNone, Threads
    <3>3. \A a \in 1..Len(request_queue.jobs) : request_queue.jobs[a] \in JobIndex
      OBVIOUS
    <3> QED
      BY <3>1, <3>2, <3>3, <1>0, <1>5, <2>1, <2>2 DEF PoolInv, OwnerInv
  <2>7. FreedInv'
    <3>1. \A j \in JobIndex : j <= Taken <=> j <= Passed \/ j = job
      BY <1>1 DEF JobIndex
    <3> QED
      BY <3>1, <1>2, <1>5, <2>1, <2>3 DEF PoolInv, FreedInv
  <2>8. PinInv'
    <3>1. applied' = {i \in 1..Taken : received[i].kind = "notification"}
      <4>1. applied = {i \in 1..(Taken - 1) : received[i].kind = "notification"}
        BY <1>0 DEF PoolInv, PinInv
      <4>2. 1..Taken = (1..(Taken - 1)) \cup {job}
        BY <1>1 DEF JobIndex
      <4> QED
        BY <1>5, <4>1, <4>2
    <3> QED
      BY <3>1, <1>0, <1>1, <1>5, <2>3 DEF PoolInv, PinInv
  <2>9. ShutdownInv'
    BY <1>0, <1>5, <2>2 DEF PoolInv, ShutdownInv, TypeOK
  <2> QED
    BY <1>4, <2>4, <2>5, <2>6, <2>7, <2>8, <2>9 DEF PoolInv
<1>6. CASE /\ received[job].kind = "notification"
           /\ applied' = applied \cup {job}
           /\ FreeSilently(Coordinator)
           /\ coordinator' = "pop"
           /\ UNCHANGED context
  <2>1. ~IsRequest(received[job])
    BY <1>1, <1>6 DEF Message, IsRequest
  <2> QED
    BY <1>5, <1>6, <2>1 DEF FreeSilently
<1>7. CASE /\ received[job].kind # "notification"
           /\ job \in is_cancelled
           /\ DispatchCancelled(Coordinator)
           /\ coordinator' = "pop"
           /\ UNCHANGED <<applied, context>>
  <2>1. IsRequest(received[job]) /\ CancelAsked(job)
    BY <1>7 DEF PoolInv, CancelInv, IsRequest
  <2>2. GoodReply(job, Cancelled)
    BY <2>1 DEF GoodReply, Cancelled, ReplyType
  <2>3. ReplyAndFree(Coordinator, Cancelled)
    BY <1>7, <2>1 DEF DispatchCancelled
  <2> QED
    BY <1>5, <1>7, <2>1, <2>2, <2>3 DEF ReplyAndFree
<1>8. CASE /\ received[job].kind = "inline"
           /\ job \notin is_cancelled
           /\ ReplyAndFree(Coordinator, Result(applied))
           /\ coordinator' = "pop"
           /\ UNCHANGED <<applied, context>>
  <2>1. IsRequest(received[job])
    BY <1>1, <1>8 DEF Message, IsRequest
  <2>2. GoodReply(job, Result(applied))
    BY <1>3, <1>8 DEF GoodReply, Result, ReplyType, PoolInv, TypeOK
  <2> QED
    BY <1>5, <1>8, <2>1, <2>2 DEF ReplyAndFree
<1>9. CASE /\ received[job].kind \in {"query", "unknown"}
           /\ job \notin is_cancelled
           /\ context' = [context EXCEPT ![job] = applied]
           /\ coordinator' = "push"
           /\ UNCHANGED <<applied, holds, freed, replies>>
  <2>1. Passed' = Passed
    BY <1>0, <1>1, <1>9 DEF Passed
  <2>2. \A j : InPool(j)' <=> InPool(j)
    BY <1>0, <1>9 DEF InPool
  <2>3. TypeOK'
    BY <1>0, <1>9 DEF PoolInv, TypeOK
  <2>4. OwnerInv' /\ FreedInv'
    BY <1>0, <1>1, <1>9, <2>1, <2>2 DEF PoolInv, OwnerInv, FreedInv
  <2>5. PinInv'
    <3>1. applied = {i \in 1..Taken : received[i].kind = "notification"}
      BY <1>0, <1>1, <1>9 DEF PoolInv, PinInv
    <3>2. context \in [JobIndex -> SUBSET JobIndex]
      BY DEF PoolInv, TypeOK
    <3>3. /\ context'[job] = NotificationsBefore(received, job)
          /\ \A j \in JobIndex : InPool(j) => context'[j] = NotificationsBefore(received, j)
      BY <1>1, <1>2, <1>3, <1>9, <3>2 DEF PoolInv, PinInv
    <3> QED
      BY <3>1, <3>3, <1>0, <1>1, <1>9, <2>2 DEF PinInv
  <2>6. ReplyInv' /\ ShutdownInv'
    BY <1>0, <1>9 DEF PoolInv, ReplyInv, ShutdownInv, CancelAsked
  <2> QED
    BY <1>4, <2>3, <2>4, <2>5, <2>6 DEF PoolInv
<1> QED
  BY <1>6, <1>7, <1>8, <1>9 DEF CoordinatorDispatch

\* Ownership of the pinned job passes to the request queue.
LEMMA CoordinatorPushInv ==
    ASSUME PoolInv, CoordinatorPush
    PROVE  PoolInv'
<1> USE MessagesAssumption, ThreadPoolAssumption, Counting
<1> DEFINE job == holds[Coordinator]
<1>0. /\ coordinator = "push" /\ coordinator' = "pop"
      /\ request_queue' \in Pushed(request_queue, job)
      /\ holds' = [holds EXCEPT ![Coordinator] = NoJob]
      /\ UNCHANGED <<reader, scan_id, work_queue, finished, received, cancels,
                     replies, is_cancelled, context, applied, freed>>
  BY DEF CoordinatorPush, clientVars, jobVars
<1>1. job = Taken /\ 0 < Taken /\ Passed = Taken - 1 /\ Taken' = Taken /\ Passed' = Taken
  <2>1. Taken' = Taken /\ Passed' = Taken'
    BY <1>0 DEF Taken, Passed
  <2>2. job = Taken /\ 0 < Taken /\ Passed = Taken - 1
    BY <1>0 DEF PoolInv, OwnerInv, Passed
  <2> QED
    BY <2>1, <2>2
<1>2. job \in JobIndex
  BY <1>1 DEF JobIndex
<1>3. /\ request_queue' \in QueueType(JobIndex, Workers)
      /\ request_queue'.closed = request_queue.closed
      /\ Len(request_queue'.jobs) = Len(request_queue.jobs) + 1
      /\ request_queue'.jobs[Len(request_queue.jobs) + 1] = job
      /\ \A i \in 1..Len(request_queue.jobs) :
            request_queue'.jobs[i] = request_queue.jobs[i]
  <2>1. request_queue \in QueueType(JobIndex, Workers)
    BY DEF PoolInv, TypeOK
  <2> HIDE Counting DEF job
  <2> QED
    BY <1>0, <1>2, <2>1, PushedFacts
<1>4. /\ holds' \in [Threads -> JobOrNone] /\ holds'[Coordinator] = NoJob
      /\ \A w \in Workers : holds'[w] = holds[w]
      /\ \A w \in Workers : holds[w] # NoJob => holds[w] \in JobIndex
  BY <1>0 DEF PoolInv, TypeOK, Threads, JobOrNone
<1>5. \A j : InPool(j)' <=> InPool(j) \/ j = job
  <2> DEFINE n == Len(request_queue.jobs)
  <2>1. 1..(n + 1) = (1..n) \cup {n + 1}
    OBVIOUS
  <2>2. \A j : (\E a \in 1..(n + 1) : request_queue'.jobs[a] = j)
                <=> (\E a \in 1..n : request_queue.jobs[a] = j) \/ j = job
    BY <2>1, <1>3
  <2>3. \A j : (\E w \in Workers : holds'[w] = j) <=> (\E w \in Workers : holds[w] = j)
    BY <1>4
  <2> QED
    BY <2>2, <2>3, <1>3 DEF InPool
<1>6. TypeOK'
  BY <1>0, <1>3, <1>4 DEF PoolInv, TypeOK
<1>7. WorkQueueInv' /\ CancelInv' /\ ReplyInv'
  BY <1>0, <1>1 DEF PoolInv, WorkQueueInv, CancelInv, CancelAsked, ReplyInv
<1>8. OwnerInv'
  <2> DEFINE n == Len(request_queue.jobs)
  <2>1. \A a \in 1..n : /\ request_queue'.jobs[a] \in JobIndex
                        /\ request_queue'.jobs[a] <= Passed
                        /\ request_queue'.jobs[a] = request_queue.jobs[a]
    BY <1>3 DEF PoolInv, OwnerInv
  <2>2. \A j \in JobIndex : j <= Passed <=> j < job
    BY <1>1 DEF JobIndex
  <2>3. \A a \in 1..(n + 1) : a \in 1..n \/ a = n + 1
    OBVIOUS
  <2>4. \A a \in 1..(n + 1) : request_queue'.jobs[a] <= Passed'
    BY <2>1, <2>2, <2>3, <1>1, <1>3 DEF JobIndex
  <2>5. \A a, b \in 1..(n + 1) : a < b => request_queue'.jobs[a] < request_queue'.jobs[b]
    <3> SUFFICES ASSUME NEW a \in 1..(n + 1), NEW b \in 1..(n + 1), a < b
                 PROVE  request_queue'.jobs[a] < request_queue'.jobs[b]
      OBVIOUS
    <3>1. a \in 1..n
      OBVIOUS
    <3>2. CASE b \in 1..n
      BY <3>1, <3>2, <2>1 DEF PoolInv, OwnerInv
    <3>3. CASE b = n + 1
      BY <3>1, <3>3, <2>1, <2>2, <1>3
    <3> QED
      BY <2>3, <3>2, <3>3
  <2>6. ASSUME NEW w \in Workers, holds[w] # NoJob
        PROVE  /\ holds[w] <= Passed'
               /\ \A a \in 1..(n + 1) : holds[w] < request_queue'.jobs[a]
    <3>1. holds[w] \in JobIndex /\ holds[w] <= Passed
      BY <2>6, <1>4 DEF PoolInv, OwnerInv
    <3>2. \A a \in 1..n : holds[w] < request_queue'.jobs[a]
      BY <2>6, <2>1 DEF PoolInv, OwnerInv
    <3>3. holds[w] < job /\ holds[w] <= Passed'
      BY <3>1, <2>2, <1>1 DEF JobIndex
    <3> QED
      BY <3>2, <3>3, <2>3, <1>3
  <2> QED
    BY <1>0, <1>3, <1>4, <2>4, <2>5, <2>6 DEF PoolInv, OwnerInv
<1>9. FreedInv'
  <2>1. \A j \in JobIndex : j <= Taken <=> j <= Passed \/ j = job
    BY <1>1 DEF JobIndex
  <2>2. job \notin freed
    BY <1>1, <1>2, Places
  <2> QED
    BY <2>1, <2>2, <1>0, <1>1, <1>5 DEF PoolInv, FreedInv
<1>10. PinInv'
  BY <1>0, <1>1, <1>5 DEF PoolInv, PinInv
<1>11. ShutdownInv'
  BY <1>0, <1>3 DEF PoolInv, ShutdownInv
<1> QED
  BY <1>6, <1>7, <1>8, <1>9, <1>10, <1>11 DEF PoolInv

\* A worker's job_queue_pop().
LEMMA WorkerPopInv ==
    ASSUME PoolInv, NEW w \in Workers, WorkerPop(w)
    PROVE  PoolInv'
<1> USE MessagesAssumption, ThreadPoolAssumption, Counting
<1>0. /\ w \notin finished /\ holds[w] = NoJob
      /\ UNCHANGED <<reader, scan_id, work_queue, coordinator, received, cancels,
                     replies, is_cancelled, context, applied, freed>>
  BY DEF WorkerPop, clientVars, jobVars
<1>1. Taken' = Taken /\ Passed' = Passed
  BY <1>0 DEF Taken, Passed
<1>2. WorkQueueInv' /\ CancelInv' /\ ReplyInv'
  BY <1>0, <1>1 DEF PoolInv, WorkQueueInv, CancelInv, CancelAsked, ReplyInv
<1>3. CASE /\ CanPop(request_queue, w)
           /\ holds' = [holds EXCEPT ![w] = Head(request_queue.jobs)]
           /\ request_queue' = Popped(request_queue)
           /\ UNCHANGED finished
  <2> DEFINE n == Len(request_queue.jobs)
             h == Head(request_queue.jobs)
  <2>1. /\ request_queue' \in QueueType(JobIndex, Workers)
        /\ request_queue'.closed = request_queue.closed
        /\ h \in JobIndex /\ h = request_queue.jobs[1]
        /\ Len(request_queue'.jobs) = n - 1
        /\ n \in Nat \ {0}
        /\ \A i \in 1..(n - 1) : request_queue'.jobs[i] = request_queue.jobs[i + 1]
    <3>1. request_queue \in QueueType(JobIndex, Workers) /\ request_queue.jobs # <<>>
      BY <1>3 DEF CanPop, PoolInv, TypeOK
    <3>2. request_queue' = Popped(request_queue)
      BY <1>3
    <3> HIDE Counting
    <3> QED
      BY <3>1, <3>2, PoppedFacts
  <2>2. /\ holds' \in [Threads -> JobOrNone] /\ holds'[w] = h
        /\ \A t \in Threads : t # w => holds'[t] = holds[t]
    BY <1>3, <2>1 DEF PoolInv, TypeOK, Threads, JobOrNone
  <2>3. \A a \in 1..n : a = 1 \/ a - 1 \in 1..(n - 1)
    BY <2>1
  <2>4. \A j \in JobIndex : InPool(j)' <=> InPool(j)
    <3> SUFFICES ASSUME NEW j \in JobIndex PROVE InPool(j)' <=> InPool(j)
      OBVIOUS
    <3>1. ASSUME NEW a \in 1..n, request_queue.jobs[a] = j PROVE InPool(j)'
      <4>1. CASE a = 1
        BY <4>1, <3>1, <2>1, <2>2 DEF InPool
      <4>2. CASE a - 1 \in 1..(n - 1)
        <5>0. (a - 1) + 1 = a
          OBVIOUS
        <5>1. request_queue'.jobs[a - 1] = request_queue.jobs[a]
          BY <4>2, <5>0, <2>1
        <5> QED
          BY <5>1, <4>2, <3>1, <2>1 DEF InPool
      <4> QED
        BY <4>1, <4>2, <2>3
    <3>2. ASSUME NEW v \in Workers, holds[v] = j PROVE InPool(j)'
      BY <3>2, <1>0, <2>2 DEF InPool, Threads
    <3>3. ASSUME NEW a \in 1..(n - 1), request_queue'.jobs[a] = j PROVE InPool(j)
      <4>1. a + 1 \in 1..n /\ request_queue.jobs[a + 1] = j
        BY <3>3, <2>1
      <4> QED
        BY <4>1 DEF InPool
    <3>4. ASSUME NEW v \in Workers, holds'[v] = j PROVE InPool(j)
      <4>1. CASE v = w
        BY <4>1, <3>4, <2>1, <2>2 DEF InPool
      <4>2. CASE v # w
        BY <4>2, <3>4, <2>2 DEF InPool, Threads
      <4> QED
        BY <4>1, <4>2
    <3> QED
      BY <3>1, <3>2, <3>3, <3>4, <2>1 DEF InPool
  <2>5. TypeOK'
    BY <1>0, <1>3, <2>1, <2>2 DEF PoolInv, TypeOK
  <2>6. OwnerInv'
    <3>1. \A a \in 1..(n - 1) :
             /\ a + 1 \in 1..n
             /\ request_queue'.jobs[a] = request_queue.jobs[a + 1]
             /\ h < request_queue'.jobs[a]
      <4> SUFFICES ASSUME NEW a \in 1..(n - 1)
                   PROVE  /\ a + 1 \in 1..n
                          /\ request_queue'.jobs[a] = request_queue.jobs[a + 1]
                          /\ h < request_queue'.jobs[a]
        OBVIOUS
      <4>1. a + 1 \in 1..n /\ 1 \in 1..n /\ 1 < a + 1
        BY <2>1
      <4>2. request_queue.jobs[1] < request_queue.jobs[a + 1]
        BY <4>1 DEF PoolInv, OwnerInv
      <4> QED
        BY <4>1, <4>2, <2>1
    <3>2. h <= Passed'
      BY <2>1, <1>1 DEF PoolInv, OwnerInv
    <3>3. holds'[Coordinator] = holds[Coordinator]
      BY <2>2 DEF Threads
    <3>4. \A a, b \in 1..(n - 1) : a < b => request_queue'.jobs[a] < request_queue'.jobs[b]
      <4> SUFFICES ASSUME NEW a \in 1..(n - 1), NEW b \in 1..(n - 1), a < b
                   PROVE  request_queue'.jobs[a] < request_queue'.jobs[b]
        OBVIOUS
      <4>1. a + 1 \in 1..n /\ b + 1 \in 1..n /\ a + 1 < b + 1
        BY <2>1
      <4> QED
        BY <4>1, <3>1 DEF PoolInv, OwnerInv
    <3>5. \A v \in Workers : holds'[v] # NoJob =>
             /\ holds'[v] <= Passed'
             /\ \A a \in 1..(n - 1) : holds'[v] < request_queue'.jobs[a]
      BY <3>1, <3>2, <2>2, <1>1 DEF PoolInv, OwnerInv, Threads
    <3>6. \A v \in Workers : v # w /\ holds[v] # NoJob => holds[v] # h
      <4>1. \A v \in Workers : holds[v] # NoJob => holds[v] < request_queue.jobs[1]
        BY <2>1 DEF PoolInv, OwnerInv
      <4> QED
        BY <4>1, <2>1 DEF JobIndex
    <3>7. \A u, v \in Workers : holds'[u] = holds'[v] /\ holds'[u] # NoJob => u = v
      BY <3>6, <2>2 DEF PoolInv, OwnerInv, Threads
    <3>8. \A a \in 1..(n - 1) : request_queue'.jobs[a] <= Passed'
      BY <3>1, <1>1 DEF PoolInv, OwnerInv
    <3> QED
      BY <1>0, <1>1, <2>1, <3>3, <3>4, <3>5, <3>7, <3>8 DEF PoolInv, OwnerInv
  <2>7. FreedInv'
    BY <1>0, <1>1, <2>4 DEF PoolInv, FreedInv
  <2>8. PinInv'
    BY <1>0, <1>1, <2>2, <2>4 DEF PoolInv, PinInv, Threads
  <2>9. ShutdownInv'
    <3>1. finished = {}
      BY <1>3 DEF PoolInv, ShutdownInv, CanPop
    <3> QED
      BY <3>1, <1>0, <1>3, <2>1 DEF PoolInv, ShutdownInv
  <2> QED
    BY <1>2, <2>5, <2>6, <2>7, <2>8, <2>9 DEF PoolInv
<1>4. ASSUME UNCHANGED holds,
             request_queue'.jobs = request_queue.jobs,
             request_queue' \in QueueType(JobIndex, Workers),
             finished' \in SUBSET Workers, ShutdownInv'
      PROVE  PoolInv'
  <2>1. \A j : InPool(j)' <=> InPool(j)
    BY <1>4 DEF InPool
  <2>2. TypeOK'
    BY <1>0, <1>4 DEF PoolInv, TypeOK
  <2>3. OwnerInv' /\ FreedInv' /\ PinInv'
    BY <1>0, <1>1, <1>4, <2>1 DEF PoolInv, OwnerInv, FreedInv, PinInv
  <2> QED
    BY <1>2, <1>4, <2>2, <2>3 DEF PoolInv
<1>5. CASE /\ MustSleep(request_queue, w)
           /\ request_queue' = Asleep(request_queue, w)
           /\ UNCHANGED <<holds, finished>>
  <2>1. /\ request_queue'.jobs = request_queue.jobs
        /\ request_queue'.closed = request_queue.closed
        /\ request_queue' \in QueueType(JobIndex, Workers)
    <3>1. request_queue \in QueueType(JobIndex, Workers)
      BY DEF PoolInv, TypeOK
    <3> HIDE Counting
    <3> QED
      BY <1>5, <3>1, UnlinkedFacts
  <2>2. ShutdownInv'
    BY <1>0, <1>5, <2>1 DEF PoolInv, ShutdownInv
  <2>3. finished' \in SUBSET Workers
    BY <1>5 DEF PoolInv, TypeOK
  <2> QED
    BY <1>4, <1>5, <2>1, <2>2, <2>3
<1>6. CASE /\ PopsNull(request_queue, w)
           /\ finished' = finished \cup {w}
           /\ UNCHANGED <<holds, request_queue>>
  <2>1. ShutdownInv'
    BY <1>0, <1>6 DEF PoolInv, ShutdownInv, PopsNull, TypeOK
  <2>2. finished' \in SUBSET Workers /\ request_queue' \in QueueType(JobIndex, Workers)
    BY <1>6 DEF PoolInv, TypeOK
  <2> QED
    BY <1>4, <1>6, <2>1, <2>2
<1> QED
  BY <1>3, <1>5, <1>6 DEF WorkerPop

\* A worker answers the job it holds and frees it.
LEMMA WorkerRunInv ==
    ASSUME PoolInv, NEW w \in Workers, WorkerRun(w)
    PROVE  PoolInv'
<1> USE MessagesAssumption, ThreadPoolAssumption, Counting
<1> DEFINE job == holds[w]
<1>0. /\ job # NoJob
      /\ UNCHANGED <<reader, scan_id, work_queue, request_queue, coordinator,
                     finished, received, cancels, is_cancelled, context, applied>>
  BY DEF WorkerRun
<1>1. /\ holds \in [Threads -> JobOrNone] /\ job \in JobIndex /\ InPool(job)
      /\ context \in [JobIndex -> SUBSET JobIndex]
  BY <1>0 DEF PoolInv, TypeOK, Threads, JobOrNone, InPool
<1>2. job \notin freed
  BY <1>1, Places
<1>3. /\ freed' = freed \cup {job} /\ holds' = [holds EXCEPT ![w] = NoJob]
      /\ \/ ~IsRequest(received[job]) /\ replies' = replies
         \/ /\ IsRequest(received[job])
            /\ \E r : GoodReply(job, r) /\ replies' = [replies EXCEPT ![job] = Append(@, r)]
  <2>1. CASE job \in is_cancelled
    <3>1. IsRequest(received[job]) /\ CancelAsked(job)
      BY <2>1 DEF PoolInv, CancelInv, IsRequest
    <3>2. GoodReply(job, Cancelled)
      BY <3>1 DEF GoodReply, Cancelled, ReplyType
    <3> QED
      BY <2>1, <3>1, <3>2 DEF WorkerRun, DispatchCancelled, ReplyAndFree
  <2>2. CASE job \notin is_cancelled /\ received[job].kind = "query"
    <3>1. received[job] \in Message
      BY <1>1, Places DEF JobIndex
    <3>2. IsRequest(received[job])
      BY <2>2, <3>1 DEF Message, IsRequest
    <3>3. GoodReply(job, Result(context[job]))
      BY <1>1, <2>2 DEF GoodReply, Result, ReplyType, PoolInv, PinInv
    <3> QED
      BY <2>2, <3>2, <3>3 DEF WorkerRun, RunQuery, ReplyAndFree
  <2>3. CASE job \notin is_cancelled /\ received[job].kind # "query"
    <3>1. GoodReply(job, Null)
      BY <2>3 DEF GoodReply, Null, ReplyType
    <3> QED
      BY <2>3, <3>1 DEF WorkerRun, RunQuery, ReplyAndFree, FreeSilently
  <2> QED
    BY <2>1, <2>2, <2>3
<1>4. ReplyInv' /\ replies' \in [JobIndex -> Seq(ReplyType)]
  BY <1>0, <1>1, <1>2, <1>3, AnswerInv
<1>5. /\ holds' \in [Threads -> JobOrNone] /\ holds'[w] = NoJob
      /\ \A t \in Threads : t # w => holds'[t] = holds[t]
  BY <1>1, <1>3 DEF Threads, JobOrNone
<1>6. Taken' = Taken /\ Passed' = Passed
  BY <1>0 DEF Taken, Passed
<1>7. \A j \in JobIndex : InPool(j)' <=> InPool(j) /\ j # job
  <2>1. \A v \in Workers : v # w /\ holds[v] # NoJob => holds[v] # job
    BY DEF PoolInv, OwnerInv
  <2>2. \A a \in 1..Len(request_queue.jobs) : request_queue.jobs[a] # job
    <3>1. \A a \in 1..Len(request_queue.jobs) :
              job < request_queue.jobs[a] /\ request_queue.jobs[a] \in JobIndex
      BY <1>0 DEF PoolInv, OwnerInv
    <3> QED
      BY <3>1, <1>1 DEF JobIndex
  <2>3. \A j \in JobIndex : (\E v \in Workers : holds'[v] = j)
              <=> (\E v \in Workers : holds[v] = j) /\ j # job
    BY <2>1, <1>5 DEF Threads
  <2> QED
    BY <2>2, <2>3, <1>0 DEF InPool
<1>8. TypeOK'
  BY <1>0, <1>1, <1>3, <1>4, <1>5 DEF PoolInv, TypeOK
<1>9. WorkQueueInv' /\ CancelInv'
  BY <1>0, <1>6 DEF PoolInv, WorkQueueInv, CancelInv, CancelAsked
<1>10. OwnerInv'
  BY <1>0, <1>5, <1>6 DEF PoolInv, OwnerInv, Threads
<1>11. FreedInv'
  <2>1. job <= Passed
    BY <1>1, Places
  <2> QED
    BY <2>1, <1>3, <1>6, <1>7 DEF PoolInv, FreedInv
<1>12. PinInv'
  BY <1>0, <1>5, <1>6, <1>7 DEF PoolInv, PinInv, Threads
<1>13. ShutdownInv'
  BY <1>0, <1>5 DEF PoolInv, ShutdownInv, Threads, TypeOK
<1> QED
  BY <1>4, <1>8, <1>9, <1>10, <1>11, <1>12, <1>13 DEF PoolInv

\* A sleeper that wakes by itself changes nothing the invariant speaks of.
LEMMA SpuriousWakeupInv ==
    ASSUME PoolInv, SpuriousWakeup
    PROVE  PoolInv'
<1>0. UNCHANGED <<reader, scan_id, coordinator, holds, finished, received, cancels,
                  replies, is_cancelled, context, applied, freed>>
  BY DEF SpuriousWakeup, clientVars, jobVars
<1>1. /\ work_queue \in QueueType(JobIndex, {Coordinator})
      /\ request_queue \in QueueType(JobIndex, Workers)
  BY DEF PoolInv, TypeOK
<1>2. request_queue.waiting \subseteq Workers
  BY <1>1 DEF QueueType
<1>3. /\ work_queue' \in QueueType(JobIndex, {Coordinator})
      /\ work_queue'.jobs = work_queue.jobs /\ work_queue'.closed = work_queue.closed
      /\ request_queue' \in QueueType(JobIndex, Workers)
      /\ request_queue'.jobs = request_queue.jobs
      /\ request_queue'.closed = request_queue.closed
  <2>1. CASE work_queue' = Woken(work_queue, Coordinator) /\ UNCHANGED request_queue
    BY <2>1, <1>1, UnlinkedFacts
  <2>2. CASE \E v \in request_queue.waiting :
               request_queue' = Woken(request_queue, v) /\ UNCHANGED work_queue
    <3>1. PICK v \in Workers : request_queue' = Woken(request_queue, v)
      BY <2>2, <1>2
    <3> QED
      BY <2>2, <3>1, <1>1, UnlinkedFacts
  <2> QED
    BY <2>1, <2>2 DEF SpuriousWakeup
<1>4. Taken' = Taken /\ Passed' = Passed
  BY <1>0, <1>3 DEF Taken, Passed
<1>5. \A j : InPool(j)' <=> InPool(j)
  BY <1>0, <1>3 DEF InPool
<1>6. TypeOK'
  BY <1>0, <1>3 DEF PoolInv, TypeOK
<1>7. WorkQueueInv' /\ OwnerInv' /\ FreedInv' /\ PinInv'
  BY <1>0, <1>3, <1>4, <1>5 DEF PoolInv, WorkQueueInv, OwnerInv, FreedInv, PinInv
<1>8. ReplyInv' /\ CancelInv' /\ ShutdownInv'
  BY <1>0, <1>3, <1>4 DEF PoolInv, ReplyInv, CancelInv, ShutdownInv, CancelAsked
<1> QED
  BY <1>6, <1>7, <1>8 DEF PoolInv

\* A step that changes no variable.
LEMMA StutterInv ==
    ASSUME PoolInv, UNCHANGED vars
    PROVE  PoolInv'
<1>1. Taken' = Taken /\ Passed' = Passed
  BY DEF vars, Taken, Passed
<1>2. \A j : InPool(j)' <=> InPool(j)
  BY DEF vars, InPool
<1>3. TypeOK'
  BY DEF PoolInv, TypeOK, vars
<1>4. WorkQueueInv' /\ OwnerInv' /\ FreedInv' /\ PinInv'
  BY <1>1, <1>2 DEF vars, PoolInv, WorkQueueInv, OwnerInv, FreedInv, PinInv
<1>5. ReplyInv' /\ CancelInv' /\ ShutdownInv'
  BY <1>1 DEF vars, PoolInv, ReplyInv, CancelInv, ShutdownInv, CancelAsked
<1> QED
  BY <1>3, <1>4, <1>5 DEF PoolInv

-----------------------------------------------------------------------------
(* Theorems.                                                               *)

\* The pool's inductive invariant holds in every reachable state, for any set
\* of workers and any number of messages.
THEOREM PoolInvariance == SafeSpec => []PoolInv
<1>1. PoolInv /\ [Next]_vars => PoolInv'
  <2> SUFFICES ASSUME PoolInv, [Next]_vars PROVE PoolInv'
    OBVIOUS
  <2>1. ASSUME NEW m \in Message, Enqueue(m) PROVE PoolInv'
    BY <2>1, EnqueueInv
  <2>2. ASSUME NEW id \in Ids, CancelScanWork(id) PROVE PoolInv'
    BY <2>2, CancelScanWorkInv
  <2>3. CASE CancelScanRequest
    BY <2>3, CancelScanRequestInv
  <2>4. CASE CloseWorkQueue \/ JoinCoordinator \/ JoinWorkers
    BY <2>4, StopInv
  <2>5. CASE CoordinatorPop
    BY <2>5, CoordinatorPopInv
  <2>6. CASE CoordinatorDispatch
    BY <2>6, CoordinatorDispatchInv
  <2>7. CASE CoordinatorPush
    BY <2>7, CoordinatorPushInv
  <2>8. ASSUME NEW w \in Workers, WorkerPop(w) PROVE PoolInv'
    BY <2>8, WorkerPopInv
  <2>9. ASSUME NEW w \in Workers, WorkerRun(w) PROVE PoolInv'
    BY <2>9, WorkerRunInv
  <2>10. CASE SpuriousWakeup
    BY <2>10, SpuriousWakeupInv
  <2>11. CASE UNCHANGED vars
    BY <2>11, StutterInv
  <2> QED
    BY <2>1, <2>2, <2>3, <2>4, <2>5, <2>6, <2>7, <2>8, <2>9, <2>10, <2>11
    DEF Next, ReaderStep, CoordinatorStep, WorkerStep, Exited
<1> QED
  BY <1>1, InitPoolInv, PTL DEF SafeSpec

\* Every variable keeps its type.
THEOREM TypeCorrect == SafeSpec => []TypeOK
<1>1. PoolInv => TypeOK
  BY DEF PoolInv
<1> QED
  BY <1>1, PoolInvariance, PTL

\* No job is in two places: no double free, no use after free, no request run
\* by two workers (job_queue.c's transfer of ownership).
THEOREM SingleOwnerAlways == SafeSpec => []SingleOwner
<1>1. ASSUME PoolInv PROVE SingleOwner
  <2> USE MessagesAssumption, ThreadPoolAssumption
  <2>0. /\ Taken \in Nat /\ Passed \in Int /\ Passed <= Taken
        /\ work_queue.jobs \in Seq(JobIndex) /\ request_queue.jobs \in Seq(JobIndex)
    BY <1>1, Counting
  <2>1. /\ \A j \in Linked(work_queue) : j \in JobIndex /\ Taken < j
        /\ \A j \in Linked(request_queue) : j \in JobIndex /\ InPool(j)
        /\ \A j \in JobIndex : InPool(j) => j <= Passed
        /\ \A j \in freed : j \in JobIndex /\ j <= Passed /\ ~InPool(j)
    BY <1>1, Places
  <2>2. \A j \in JobIndex : Taken < j => ~(j <= Taken) /\ ~(j <= Passed)
    BY <2>0 DEF JobIndex
  <2>3. Linked(work_queue) \cap Linked(request_queue) = {}
    BY <2>1, <2>2
  <2>4. \A a, b \in DOMAIN work_queue.jobs : work_queue.jobs[a] = work_queue.jobs[b] => a = b
    <3>1. \A a \in 1..Len(work_queue.jobs) : work_queue.jobs[a] = Taken + a
      BY <1>1 DEF PoolInv, WorkQueueInv
    <3>2. \A a, b \in 1..Len(work_queue.jobs) : Taken + a = Taken + b => a = b
      BY <2>0
    <3> QED
      BY <2>0, <3>1, <3>2
  <2>5. \A a, b \in DOMAIN request_queue.jobs :
            request_queue.jobs[a] = request_queue.jobs[b] => a = b
    <3> SUFFICES ASSUME NEW a \in 1..Len(request_queue.jobs),
                        NEW b \in 1..Len(request_queue.jobs), a < b
                 PROVE  request_queue.jobs[a] # request_queue.jobs[b]
      BY <2>0
    <3>1. request_queue.jobs[a] < request_queue.jobs[b]
      BY <1>1 DEF PoolInv, OwnerInv
    <3>2. request_queue.jobs[a] \in JobIndex /\ request_queue.jobs[b] \in JobIndex
      BY <2>0
    <3> QED
      BY <3>1, <3>2 DEF JobIndex
  \* What the coordinator holds and what the workers hold.
  <2>6. holds[Coordinator] # NoJob =>
            holds[Coordinator] = Taken /\ Taken \in JobIndex /\ ~(Taken <= Passed)
    <3>1. holds[Coordinator] # NoJob => coordinator \in {"dispatch", "push"}
      BY <1>1 DEF PoolInv, OwnerInv, TypeOK
    <3>2. coordinator \in {"dispatch", "push"} =>
              holds[Coordinator] = Taken /\ 0 < Taken /\ Passed = Taken - 1
      BY <1>1 DEF PoolInv, OwnerInv, Passed
    <3>3. Taken <= MaxJobs
      BY <1>1, Counting
    <3> QED
      BY <3>1, <3>2, <3>3, <2>0 DEF JobIndex
  <2>7. \A w \in Workers : holds[w] # NoJob =>
            holds[w] \in JobIndex /\ InPool(holds[w]) /\ holds[w] \notin Linked(request_queue)
    <3> SUFFICES ASSUME NEW w \in Workers, holds[w] # NoJob
                 PROVE  /\ holds[w] \in JobIndex /\ InPool(holds[w])
                        /\ holds[w] \notin Linked(request_queue)
      OBVIOUS
    <3>1. holds[w] \in JobIndex /\ InPool(holds[w])
      BY <1>1 DEF PoolInv, TypeOK, Threads, JobOrNone, InPool
    <3>2. \A a \in 1..Len(request_queue.jobs) :
              holds[w] < request_queue.jobs[a] /\ request_queue.jobs[a] \in JobIndex
      BY <1>1, <2>0 DEF PoolInv, OwnerInv
    <3>3. \A a \in 1..Len(request_queue.jobs) : holds[w] # request_queue.jobs[a]
      BY <3>1, <3>2 DEF JobIndex
    <3> QED
      BY <3>1, <3>3, <2>0 DEF Linked
  <2>8. \A s, t \in Threads : holds[s] = holds[t] /\ holds[s] # NoJob => s = t
    BY <1>1, <2>1, <2>6, <2>7 DEF PoolInv, OwnerInv, Threads
  <2>9. \A t \in Threads : holds[t] # NoJob => ~Queued(holds[t]) /\ holds[t] \notin freed
    <3>1. holds[Coordinator] # NoJob =>
              ~Queued(holds[Coordinator]) /\ holds[Coordinator] \notin freed
      BY <2>0, <2>1, <2>6 DEF Queued
    <3>2. \A w \in Workers : holds[w] # NoJob => ~Queued(holds[w]) /\ holds[w] \notin freed
      BY <2>1, <2>2, <2>7 DEF Queued
    <3> QED
      BY <3>1, <3>2 DEF Threads
  <2>10. \A j \in freed : ~Queued(j)
    BY <2>1, <2>2 DEF Queued
  <2> QED
    BY <2>3, <2>4, <2>5, <2>8, <2>9, <2>10 DEF SingleOwner
<1> QED
  BY <1>1, PoolInvariance, PTL

\* Nothing the client sent is dropped between the threads.
THEOREM NoJobLostAlways == SafeSpec => []NoJobLost
<1>1. ASSUME PoolInv PROVE NoJobLost
  <2> SUFFICES ASSUME NEW j \in 1..Len(received), j \notin freed, ~Queued(j)
               PROVE  \E t \in Threads : holds[t] = j
    BY DEF NoJobLost, Jobs
  <2> USE <1>1, Counting
  <2>1. j \in JobIndex
    BY MessagesAssumption DEF JobIndex
  <2>2. j <= Taken
    <3>1. SUFFICES ASSUME Taken < j PROVE FALSE
      BY <2>1 DEF JobIndex
    <3>2. j - Taken \in 1..Len(work_queue.jobs)
      BY <3>1 DEF Taken
    <3>3. work_queue.jobs[j - Taken] = Taken + (j - Taken) /\ Taken + (j - Taken) = j
      BY <3>2 DEF PoolInv, WorkQueueInv
    <3> QED
      BY <3>2, <3>3 DEF Queued, Linked
  <2>3. CASE j <= Passed
    <3>1. InPool(j)
      BY <2>1, <2>3 DEF PoolInv, FreedInv
    <3> QED
      BY <3>1 DEF InPool, Queued, Linked, Threads
  <2>4. CASE ~(j <= Passed)
    <3>1. coordinator \in {"dispatch", "push"} /\ j = Taken
      BY <2>2, <2>4 DEF Passed
    <3>2. holds[Coordinator] = Taken
      BY <3>1 DEF PoolInv, OwnerInv
    <3> QED
      BY <3>1, <3>2 DEF Threads
  <2> QED
    BY <2>3, <2>4
<1> QED
  BY <1>1, PoolInvariance, PTL

\* One reply per request, none for a message without an id.
THEOREM RepliedOnceAlways == SafeSpec => []RepliedOnce
<1>1. ASSUME PoolInv PROVE RepliedOnce
  <2>1. \A j \in 1..Len(received) : j \in JobIndex
    BY <1>1, Counting, MessagesAssumption DEF JobIndex
  <2>2. Len(<<>>) = 0
    OBVIOUS
  <2>3. ASSUME NEW j \in 1..Len(received)
        PROVE  Len(replies[j]) = IF j \in freed /\ IsRequest(received[j]) THEN 1 ELSE 0
    <3>1. CASE j \in freed
      BY <1>1, <2>2, <3>1 DEF PoolInv, ReplyInv
    <3>2. CASE j \notin freed
      BY <1>1, <2>1, <2>2, <3>2 DEF PoolInv, ReplyInv
    <3> QED
      BY <3>1, <3>2
  <2> QED
    BY <2>3 DEF RepliedOnce, Jobs
<1> QED
  BY <1>1, PoolInvariance, PTL

\* A served request saw exactly the notifications that were sent before it,
\* whatever the workers' timing: the coordinator pins the snapshot.
THEOREM ArrivalOrderAlways == SafeSpec => []ServedInArrivalOrder
<1>1. ASSUME PoolInv PROVE ServedInArrivalOrder
  <2>1. \A j \in 1..Len(received) : j \in JobIndex
    BY <1>1, Counting, MessagesAssumption DEF JobIndex
  <2> QED
    BY <1>1, <2>1 DEF PoolInv, ReplyInv, ServedInArrivalOrder, Jobs
<1> QED
  BY <1>1, PoolInvariance, PTL

\* Only a request whose id the client cancelled afterwards is refused.
THEOREM RefusalsAsked == SafeSpec => []RefusedOnlyIfAsked
<1>1. ASSUME PoolInv PROVE RefusedOnlyIfAsked
  <2>1. \A j \in 1..Len(received) : j \in JobIndex
    BY <1>1, Counting, MessagesAssumption DEF JobIndex
  <2> QED
    BY <1>1, <2>1 DEF PoolInv, ReplyInv, RefusedOnlyIfAsked, Jobs, CancelAsked
<1> QED
  BY <1>1, PoolInvariance, PTL

\* A cancel marks every matching request that is still in the work queue, and
\* a marked request is never served.
THEOREM CancelsHonoured == SafeSpec => []CancelHonoured
<1>1. ASSUME PoolInv PROVE CancelHonoured
  <2>1. \A j \in Linked(work_queue) : j \in JobIndex /\ Taken < j
    BY <1>1, Places
  <2>2. \A c \in cancels : \A j \in Linked(work_queue) :
            received[j].id = c.id /\ j <= c.at => j \in is_cancelled
    BY <1>1, <2>1 DEF PoolInv, CancelInv
  <2>3. \A j \in is_cancelled : j \in JobIndex
    BY <1>1 DEF PoolInv, TypeOK
  <2>4. \A j \in is_cancelled : \A i \in DOMAIN replies[j] :
            replies[j][i].outcome = "cancelled"
    BY <1>1, <2>3 DEF PoolInv, ReplyInv
  <2> QED
    BY <2>2, <2>4 DEF CancelHonoured
<1> QED
  BY <1>1, PoolInvariance, PTL

\* threadpool_stop() returns only when every request has been answered.
THEOREM ExitDrains == SafeSpec => []DrainedAtExit
<1>1. ASSUME PoolInv, reader = "exited"
      PROVE  /\ work_queue.jobs = <<>> /\ request_queue.jobs = <<>>
             /\ \A j \in Jobs : j \in freed /\ (IsRequest(received[j]) => replies[j] # <<>>)
  <2>1. /\ coordinator = "done" /\ finished = Workers
        /\ work_queue.jobs = <<>>
    BY <1>1 DEF PoolInv, ShutdownInv
  <2>2. /\ request_queue.jobs = <<>>
        /\ \A w \in Workers : holds[w] = NoJob
    BY <1>1, <2>1, ThreadPoolAssumption DEF PoolInv, ShutdownInv
  <2>3. Passed = Len(received)
    BY <1>1, <2>1, Counting DEF Passed, Taken
  <2>4. \A j \in JobIndex : ~InPool(j)
    BY <2>2, ThreadPoolAssumption DEF InPool
  <2>5. \A j \in 1..Len(received) : j \in JobIndex /\ j <= Passed
    BY <1>1, <2>3, Counting, MessagesAssumption DEF JobIndex
  <2>6. \A j \in 1..Len(received) : j \in freed
    BY <1>1, <2>4, <2>5 DEF PoolInv, FreedInv
  <2>7. \A j \in freed : IsRequest(received[j]) => replies[j] # <<>>
    BY <1>1 DEF PoolInv, ReplyInv
  <2> QED
    BY <2>1, <2>2, <2>6, <2>7 DEF Jobs
<1>2. PoolInv => DrainedAtExit
  BY <1>1 DEF DrainedAtExit
<1> QED
  BY <1>2, PoolInvariance, PTL
-----------------------------------------------------------------------------
(***************************************************************************)
(* The thread pool implements RequestService, for every number of workers, *)
(* messages and cancels: each step of a thread is a step of the service    *)
(* that has no threads, or leaves what the client sees as it is.           *)
(***************************************************************************)
-----------------------------------------------------------------------------
(* Which jobs come to the workers.                                         *)

ForWorkers(j) == received[j].kind \in {"query", "unknown"}

\* Notifications and inline requests never leave the coordinator.
PoolKinds ==
    /\ coordinator = "push" => ForWorkers(holds[Coordinator])
    /\ \A a \in 1..Len(request_queue.jobs) : ForWorkers(request_queue.jobs[a])
    /\ \A w \in Workers : holds[w] # NoJob => ForWorkers(holds[w])

\* A step that gives no job to the request queue and none to a worker.
LEMMA KindsStill ==
    ASSUME PoolKinds, UNCHANGED received, request_queue'.jobs = request_queue.jobs,
           \A w \in Workers : holds'[w] \in {holds[w], NoJob},
           coordinator' = "push" => ForWorkers(holds'[Coordinator])
    PROVE  PoolKinds'
BY DEF PoolKinds, ForWorkers

LEMMA EnqueueKinds ==
    ASSUME PoolInv, PoolKinds, NEW m \in Message, Enqueue(m)
    PROVE  PoolKinds'
<1>0. UNCHANGED <<request_queue, coordinator, holds>> /\ received' = Append(received, m)
  BY DEF Enqueue
<1>1. \A j \in 1..Len(received) : received'[j] = received[j]
  BY <1>0, Counting
<1>2. \A a \in 1..Len(request_queue.jobs) : request_queue.jobs[a] \in 1..Len(received)
  <2>1. \A a \in 1..Len(request_queue.jobs) :
           request_queue.jobs[a] \in JobIndex /\ request_queue.jobs[a] <= Passed
    BY Counting DEF PoolInv, OwnerInv
  <2> QED
    BY <2>1, Counting, MessagesAssumption DEF JobIndex
<1>3. \A w \in Workers : holds[w] # NoJob => holds[w] \in 1..Len(received)
  <2>1. \A w \in Workers : holds[w] # NoJob => holds[w] \in JobIndex /\ holds[w] <= Passed
    BY DEF PoolInv, OwnerInv, TypeOK, JobOrNone, Threads
  <2> QED
    BY <2>1, Counting, MessagesAssumption DEF JobIndex
<1>4. coordinator = "push" => holds[Coordinator] \in 1..Len(received)
  BY Counting DEF PoolInv, OwnerInv
<1> QED
  BY <1>0, <1>1, <1>2, <1>3, <1>4 DEF PoolKinds, ForWorkers

LEMMA KindsStep ==
    ASSUME PoolInv, PoolKinds, [Next]_vars
    PROVE  PoolKinds'
<1>0. /\ holds \in [Threads -> JobOrNone] /\ Coordinator \notin Workers
      /\ work_queue \in QueueType(JobIndex, {Coordinator})
      /\ request_queue \in QueueType(JobIndex, Workers)
  BY ThreadPoolAssumption DEF PoolInv, TypeOK
<1>1. CASE \E m \in Message : Enqueue(m)
  BY <1>1, EnqueueKinds
<1>2. CASE \/ \E id \in Ids : CancelScanWork(id)
           \/ CloseWorkQueue \/ ReaderStep \/ Exited \/ UNCHANGED vars
  <2>1. UNCHANGED <<received, request_queue, coordinator, holds>>
    BY <1>2 DEF CancelScanWork, CloseWorkQueue, ReaderStep, CancelScanRequest, JoinCoordinator,
                JoinWorkers, Exited, vars, clientVars
  <2> QED
    BY <2>1 DEF PoolKinds, ForWorkers
<1>3. CASE SpuriousWakeup
  <2>1. UNCHANGED <<received, coordinator, holds>>
    BY <1>3 DEF SpuriousWakeup, clientVars
  <2>2. request_queue'.jobs = request_queue.jobs
    <3>1. \/ UNCHANGED request_queue
          \/ \E w \in request_queue.waiting : request_queue' = Woken(request_queue, w)
      BY <1>3 DEF SpuriousWakeup
    <3>2. request_queue.waiting \subseteq Workers
      BY <1>0 DEF QueueType
    <3> QED
      BY <1>0, <3>1, <3>2, UnlinkedFacts
  <2> QED
    BY <2>1, <2>2, KindsStill DEF PoolKinds, ForWorkers
<1>4. CASE CoordinatorPop
  <2>1. UNCHANGED received /\ coordinator' # "push"
    BY <1>4 DEF CoordinatorPop, clientVars
  <2>2. \A w \in Workers : holds'[w] = holds[w]
    BY <1>0, <1>4 DEF CoordinatorPop, Threads
  <2>3. request_queue'.jobs = request_queue.jobs
    BY <1>0, <1>4, ClosedFacts DEF CoordinatorPop
  <2> QED
    BY <2>1, <2>2, <2>3, KindsStill
<1>5. CASE CoordinatorDispatch
  <2>1. UNCHANGED <<received, request_queue>> /\ coordinator = "dispatch"
    BY <1>5 DEF CoordinatorDispatch
  <2>2. \A w \in Workers : holds'[w] = holds[w]
    BY <1>0, <1>5 DEF CoordinatorDispatch, FreeSilently, DispatchCancelled, ReplyAndFree, Threads
  <2>3. coordinator' = "push" => ForWorkers(holds'[Coordinator])
    BY <1>5 DEF CoordinatorDispatch, ForWorkers
  <2> QED
    BY <2>1, <2>2, <2>3, KindsStill
<1>6. CASE CoordinatorPush
  <2> DEFINE j == holds[Coordinator]
  <2>1. /\ UNCHANGED received /\ coordinator = "push" /\ coordinator' = "pop"
        /\ request_queue' \in Pushed(request_queue, j)
        /\ holds' = [holds EXCEPT ![Coordinator] = NoJob]
    BY <1>6 DEF CoordinatorPush, clientVars
  <2>2. j \in JobIndex /\ ForWorkers(j)
    <3>1. j = Taken /\ 0 < Taken
      BY <2>1 DEF PoolInv, OwnerInv
    <3> QED
      BY <2>1, <3>1, Counting, MessagesAssumption DEF JobIndex, PoolKinds
  <2> HIDE DEF j
  <2>3. /\ Len(request_queue.jobs) \in Nat
        /\ Len(request_queue'.jobs) = Len(request_queue.jobs) + 1
        /\ request_queue'.jobs[Len(request_queue.jobs) + 1] = j
        /\ \A i \in 1..Len(request_queue.jobs) : request_queue'.jobs[i] = request_queue.jobs[i]
    BY <1>0, <2>1, <2>2, PushedFacts
  <2>4. \A w \in Workers : holds'[w] = holds[w]
    BY <1>0, <2>1 DEF Threads
  <2>5. \A a \in 1..Len(request_queue'.jobs) : ForWorkers(request_queue'.jobs[a])
    BY <2>2, <2>3 DEF PoolKinds
  <2> QED
    BY <2>1, <2>4, <2>5 DEF PoolKinds, ForWorkers
<1>7. CASE \E w \in Workers : WorkerPop(w)
  <2>1. PICK w \in Workers : WorkerPop(w)
    BY <1>7
  <2>2. UNCHANGED <<received, coordinator>>
    BY <2>1 DEF WorkerPop, clientVars
  <2>3. CASE /\ CanPop(request_queue, w)
             /\ holds' = [holds EXCEPT ![w] = Head(request_queue.jobs)]
             /\ request_queue' = Popped(request_queue)
    <3>1. /\ Len(request_queue.jobs) \in Nat \ {0}
          /\ Head(request_queue.jobs) = request_queue.jobs[1]
          /\ Len(request_queue'.jobs) = Len(request_queue.jobs) - 1
          /\ \A i \in 1..(Len(request_queue.jobs) - 1) :
                request_queue'.jobs[i] = request_queue.jobs[i + 1]
      BY <1>0, <2>3, PoppedFacts DEF CanPop
    <3>2. /\ holds'[w] = request_queue.jobs[1] /\ holds'[Coordinator] = holds[Coordinator]
          /\ \A v \in Workers : v # w => holds'[v] = holds[v]
      BY <1>0, <2>3, <3>1 DEF Threads
    <3>3. \A a \in 1..Len(request_queue'.jobs) : ForWorkers(request_queue'.jobs[a])
      BY <3>1 DEF PoolKinds
    <3>4. ForWorkers(request_queue.jobs[1])
      BY <3>1 DEF PoolKinds
    <3> QED
      BY <2>2, <3>2, <3>3, <3>4 DEF PoolKinds, ForWorkers
  <2>4. CASE UNCHANGED holds /\ (request_queue' = Asleep(request_queue, w) \/ UNCHANGED request_queue)
    <3>1. request_queue'.jobs = request_queue.jobs
      BY <1>0, <2>4, UnlinkedFacts
    <3> QED
      BY <2>2, <2>4, <3>1, KindsStill DEF PoolKinds, ForWorkers
  <2> QED
    BY <2>1, <2>3, <2>4 DEF WorkerPop
<1>8. CASE \E w \in Workers : WorkerRun(w)
  <2>1. PICK w \in Workers : WorkerRun(w)
    BY <1>8
  <2>2. /\ UNCHANGED <<received, coordinator, request_queue>>
        /\ holds' = [holds EXCEPT ![w] = NoJob]
    BY <2>1 DEF WorkerRun, DispatchCancelled, RunQuery, ReplyAndFree, FreeSilently
  <2>3. /\ \A v \in Workers : holds'[v] \in {holds[v], NoJob}
        /\ holds'[Coordinator] = holds[Coordinator]
    BY <1>0, <2>2 DEF Threads
  <2> QED
    BY <2>2, <2>3, KindsStill DEF PoolKinds, ForWorkers
<1> QED
  BY <1>1, <1>2, <1>3, <1>4, <1>5, <1>6, <1>7, <1>8 DEF Next, CoordinatorStep, WorkerStep

-----------------------------------------------------------------------------
(* Every step is a step of the service, or none.                           *)

\* The service speaks of the same messages and replies as the pool.
LEMMA SameMessages ==
    /\ Service!JobIndex = JobIndex /\ Service!Message = Message
    /\ Service!Null = Null /\ Service!Cancelled = Cancelled
    /\ \A m : Service!IsRequest(m) <=> IsRequest(m)
    /\ \A x : Service!Result(x) = Result(x)
    /\ \A ms, j : Service!NotificationsBefore(ms, j) = NotificationsBefore(ms, j)
BY DEF JobIndex, Message, Null, Cancelled, IsRequest, Result, NotificationsBefore,
       Service!JobIndex, Service!Message, Service!Null, Service!Cancelled, Service!IsRequest,
       Service!Result, Service!NotificationsBefore

\* The phase of the service that a state of the reader stands for.
PhaseOf(r) == CASE r \in {"read", "scan_request"} -> "open"
                [] r \in {"join_coordinator", "join_workers"} -> "closing"
                [] r = "exited" -> "closed"

LEMMA Phases ==
    /\ \A r \in {"read", "scan_request"} : PhaseOf(r) = "open"
    /\ \A r \in {"join_coordinator", "join_workers"} : PhaseOf(r) = "closing"
    /\ PhaseOf("exited") = "closed"
BY DEF PhaseOf

\* A step in which the client sends and reads nothing.
LEMMA Unseen ==
    ASSUME UNCHANGED clientVars, PhaseOf(reader)' = PhaseOf(reader)
    PROVE  UNCHANGED Service!serviceVars
BY DEF clientVars, PhaseOf, Service!serviceVars

\* A thread replies to job j, for the first time.
LEMMA Answers ==
    ASSUME PoolInv, reader # "exited", NEW j \in JobIndex, j \notin freed, j <= Len(received),
           IsRequest(received[j]), UNCHANGED <<reader, received, cancels>>,
           NEW r, replies' = [replies EXCEPT ![j] = Append(replies[j], r)],
           \/ r = Cancelled /\ CancelAsked(j)
           \/ r = IF received[j].kind = "unknown" THEN Null
                  ELSE Result(NotificationsBefore(received, j))
    PROVE  Service!ServiceNext
<1>1. replies \in [JobIndex -> Seq(ReplyType)] /\ replies[j] = <<>>
  BY DEF PoolInv, TypeOK, ReplyInv
<1>2. replies' = [replies EXCEPT ![j] = <<r>>]
  <2>1. Append(<<>>, r) = <<r>>
    OBVIOUS
  <2> QED
    BY <1>1, <2>1
<1>3. reader \in {"read", "scan_request", "join_coordinator", "join_workers"}
  BY DEF PoolInv, TypeOK
<1>4. PhaseOf(reader) # "closed" /\ PhaseOf(reader)' = PhaseOf(reader)
  BY <1>3, Phases DEF PhaseOf
<1>5. j \in Service!Requests
  BY Counting, MessagesAssumption, SameMessages DEF Service!Requests, JobIndex
<1>6. Service!Reply(j, r)
  BY <1>1, <1>2, <1>4 DEF Service!Reply, PhaseOf
<1>7. CASE r = Cancelled /\ CancelAsked(j)
  <2>1. Service!CancelAsked(j)
    <3>1. PICK c \in cancels : c.id = received[j].id /\ j <= c.at
      BY <1>7 DEF CancelAsked
    <3>2. c.at \in 0..MaxJobs
      BY <3>1 DEF PoolInv, TypeOK
    <3>3. c.at >= j
      BY <3>1, <3>2, MessagesAssumption DEF JobIndex
    <3> QED
      BY <3>1, <3>3 DEF Service!CancelAsked
  <2>2. Service!Refuse(j)
    BY <1>6, <1>7, <2>1, SameMessages DEF Service!Refuse
  <2> QED
    BY <1>5, <2>2 DEF Service!ServiceNext
<1>8. CASE r = IF received[j].kind = "unknown" THEN Null
               ELSE Result(NotificationsBefore(received, j))
  <2>1. Service!Serve(j)
    BY <1>6, <1>8, SameMessages DEF Service!Serve
  <2> QED
    BY <1>5, <2>1 DEF Service!ServiceNext
<1> QED
  BY <1>7, <1>8

\* The reader.
LEMMA ReaderRefines ==
    ASSUME PoolInv,
           \/ \E m \in Message : Enqueue(m)
           \/ \E id \in Ids : CancelScanWork(id)
           \/ CloseWorkQueue
           \/ ReaderStep
    PROVE  Service!ServiceNext \/ UNCHANGED Service!serviceVars
<1>1. ASSUME NEW m \in Message, Enqueue(m)
      PROVE  Service!ServiceNext
  <2>1. PhaseOf(reader) = "open" /\ PhaseOf(reader)' = PhaseOf(reader)
    BY <1>1, Phases DEF Enqueue, PhaseOf
  <2>2. Service!Receive(m)
    BY <1>1, <2>1 DEF Enqueue, Service!Receive, PhaseOf
  <2> QED
    BY <2>2, SameMessages DEF Service!ServiceNext
<1>2. ASSUME NEW id \in Ids, CancelScanWork(id)
      PROVE  Service!ServiceNext
  <2>1. PhaseOf(reader) = "open" /\ PhaseOf(reader)' = "open"
    BY <1>2, Phases DEF CancelScanWork, PhaseOf
  <2>2. Service!ReceiveCancel(id)
    BY <1>2, <2>1 DEF CancelScanWork, Service!ReceiveCancel, PhaseOf
  <2> QED
    BY <2>2 DEF Service!ServiceNext
<1>3. ASSUME CloseWorkQueue
      PROVE  Service!ServiceNext
  <2>1. PhaseOf(reader) = "open" /\ PhaseOf(reader)' = "closing"
    BY <1>3, Phases DEF CloseWorkQueue, PhaseOf
  <2>2. Service!Close
    BY <1>3, <2>1 DEF CloseWorkQueue, clientVars, Service!Close, PhaseOf
  <2> QED
    BY <2>2 DEF Service!ServiceNext
<1>4. ASSUME CancelScanRequest \/ JoinCoordinator
      PROVE  UNCHANGED Service!serviceVars
  <2>1. UNCHANGED clientVars /\ PhaseOf(reader)' = PhaseOf(reader)
    BY <1>4, Phases DEF CancelScanRequest, JoinCoordinator, PhaseOf
  <2> QED
    BY <2>1, Unseen
<1>5. ASSUME JoinWorkers
      PROVE  Service!ServiceNext
  <2>1. PhaseOf(reader) = "closing" /\ PhaseOf(reader)' = "closed"
    BY <1>5, Phases DEF JoinWorkers, PhaseOf
  <2>2. coordinator = "done" /\ work_queue.jobs = <<>> /\ request_queue.jobs = <<>>
        /\ \A w \in Workers : holds[w] = NoJob
    BY <1>5, ThreadPoolAssumption DEF JoinWorkers, PoolInv, ShutdownInv
  <2>3. Passed = Len(received)
    BY <2>2, Counting DEF Passed, Taken
  <2>4. \A j \in JobIndex : ~InPool(j)
    BY <2>2, ThreadPoolAssumption DEF InPool
  <2>5. \A j \in 1..Len(received) : j \in JobIndex /\ j <= Passed
    BY <2>3, Counting, MessagesAssumption DEF JobIndex
  <2>6. \A j \in 1..Len(received) : j \in freed
    BY <2>4, <2>5 DEF PoolInv, FreedInv
  <2>7. \A j \in freed : IsRequest(received[j]) => replies[j] # <<>>
    BY DEF PoolInv, ReplyInv
  <2>8. Service!Finish
    BY <1>5, <2>1, <2>6, <2>7, SameMessages DEF JoinWorkers, clientVars, Service!Finish, Service!Requests, PhaseOf
  <2> QED
    BY <2>8 DEF Service!ServiceNext
<1> QED
  BY <1>1, <1>2, <1>3, <1>4, <1>5 DEF ReaderStep

\* The coordinator: it answers inline requests and refuses cancelled ones.
LEMMA CoordinatorRefines ==
    ASSUME PoolInv, CoordinatorStep
    PROVE  Service!ServiceNext \/ UNCHANGED Service!serviceVars
<1>1. ASSUME CoordinatorPop \/ CoordinatorPush
      PROVE  UNCHANGED Service!serviceVars
  <2>1. UNCHANGED clientVars /\ UNCHANGED reader
    BY <1>1 DEF CoordinatorPop, CoordinatorPush
  <2> QED
    BY <2>1, Unseen DEF PhaseOf
<1>2. ASSUME CoordinatorDispatch
      PROVE  Service!ServiceNext \/ UNCHANGED Service!serviceVars
  <2> DEFINE job == holds[Coordinator]
  <2>0. coordinator = "dispatch" /\ UNCHANGED <<reader, received, cancels>>
    BY <1>2 DEF CoordinatorDispatch
  <2>1. /\ job = Taken /\ Passed = Taken - 1 /\ job \in JobIndex /\ job <= Len(received)
        /\ received[job] \in Message
    <3>1. job = Taken /\ 0 < Taken /\ Passed = Taken - 1
      BY <2>0 DEF PoolInv, OwnerInv, Passed
    <3>2. job \in JobIndex /\ job <= Len(received)
      BY <3>1, Counting, MessagesAssumption DEF JobIndex
    <3> QED
      BY <3>1, <3>2, Counting DEF JobIndex
  <2>2. job \notin freed
    BY <2>1, Places, Counting
  <2>3. reader # "exited"
    BY <2>0 DEF PoolInv, ShutdownInv
  <2>4. applied = NotificationsBefore(received, job)
    BY <2>0, <2>1 DEF PoolInv, PinInv, NotificationsBefore
  <2>5. ASSUME replies' = replies
        PROVE  UNCHANGED Service!serviceVars
    BY <2>0, <2>5, Unseen DEF PhaseOf, clientVars
  <2>6. CASE received[job].kind # "notification" /\ job \in is_cancelled
    <3>1. IsRequest(received[job]) /\ CancelAsked(job)
      BY <2>6, MessagesAssumption DEF PoolInv, CancelInv, IsRequest
    <3>2. replies' = [replies EXCEPT ![job] = Append(replies[job], Cancelled)]
      BY <1>2, <2>6, <3>1 DEF CoordinatorDispatch, DispatchCancelled, ReplyAndFree
    <3> HIDE DEF job
    <3> QED
      BY <2>0, <2>1, <2>2, <2>3, <3>1, <3>2, Answers
  <2>7. CASE received[job].kind = "inline" /\ job \notin is_cancelled
    <3>1. IsRequest(received[job])
      BY <2>1, <2>7, MessagesAssumption DEF Message, IsRequest
    <3>2. replies' = [replies EXCEPT ![job] =
                        Append(replies[job], Result(NotificationsBefore(received, job)))]
      BY <1>2, <2>4, <2>7 DEF CoordinatorDispatch, ReplyAndFree
    <3>3. Result(NotificationsBefore(received, job)) =
             IF received[job].kind = "unknown" THEN Null
             ELSE Result(NotificationsBefore(received, job))
      BY <2>7
    <3> HIDE DEF job
    <3> QED
      BY <2>0, <2>1, <2>2, <2>3, <3>1, <3>2, <3>3, Answers
  <2>8. CASE \/ received[job].kind = "notification"
             \/ received[job].kind \in {"query", "unknown"} /\ job \notin is_cancelled
    <3>1. replies' = replies
      BY <1>2, <2>8 DEF CoordinatorDispatch, FreeSilently
    <3> QED
      BY <2>5, <3>1
  <2>9. received[job].kind \in {"notification", "inline", "query", "unknown"}
    BY <2>1 DEF Message
  <2> QED
    BY <2>6, <2>7, <2>8, <2>9
<1> QED
  BY <1>1, <1>2 DEF CoordinatorStep

\* The workers: each answers the job it holds.
LEMMA WorkerRefines ==
    ASSUME PoolInv, PoolKinds, NEW w \in Workers, WorkerStep(w)
    PROVE  Service!ServiceNext \/ UNCHANGED Service!serviceVars
<1>1. ASSUME WorkerPop(w)
      PROVE  UNCHANGED Service!serviceVars
  BY <1>1, Unseen DEF WorkerPop, PhaseOf
<1>2. ASSUME WorkerRun(w)
      PROVE  Service!ServiceNext \/ UNCHANGED Service!serviceVars
  <2> DEFINE job == holds[w]
  <2>0. job # NoJob /\ UNCHANGED <<reader, received, cancels>>
    BY <1>2 DEF WorkerRun
  <2>1. job \in JobIndex /\ InPool(job)
    BY <2>0 DEF PoolInv, TypeOK, Threads, JobOrNone, InPool
  <2>2. job \notin freed /\ job <= Len(received) /\ received[job] \in Message
    <3>1. job \notin freed /\ job <= Passed
      BY <2>1, Places
    <3>2. job <= Len(received)
      BY <2>1, <3>1, Counting DEF JobIndex
    <3> QED
      BY <2>1, <3>1, <3>2, Counting DEF JobIndex
  <2>3. reader # "exited"
    BY <2>0 DEF PoolInv, ShutdownInv
  <2>4. context[job] = NotificationsBefore(received, job)
    BY <2>1 DEF PoolInv, PinInv
  <2>5. CASE job \in is_cancelled
    <3>1. IsRequest(received[job]) /\ CancelAsked(job)
      BY <2>5, MessagesAssumption DEF PoolInv, CancelInv, IsRequest
    <3>2. replies' = [replies EXCEPT ![job] = Append(replies[job], Cancelled)]
      BY <1>2, <2>5, <3>1 DEF WorkerRun, DispatchCancelled, ReplyAndFree
    <3> HIDE DEF job
    <3> QED
      BY <2>0, <2>1, <2>2, <2>3, <3>1, <3>2, Answers
  <2>6. CASE job \notin is_cancelled /\ IsRequest(received[job])
    <3> DEFINE r == IF received[job].kind = "unknown" THEN Null
                    ELSE Result(NotificationsBefore(received, job))
    <3>1. received[job].kind \in {"query", "unknown"}
      BY <2>0 DEF PoolKinds, ForWorkers
    <3>2. replies' = [replies EXCEPT ![job] = Append(replies[job], r)]
      BY <1>2, <2>4, <2>6, <3>1 DEF WorkerRun, RunQuery, ReplyAndFree
    <3> HIDE DEF job
    <3> QED
      BY <2>0, <2>1, <2>2, <2>3, <2>6, <3>2, Answers
  <2>7. CASE job \notin is_cancelled /\ ~IsRequest(received[job])
    <3>1. received[job].kind # "query"
      BY <2>2, <2>7, MessagesAssumption DEF Message, IsRequest
    <3>2. replies' = replies
      BY <1>2, <2>7, <3>1 DEF WorkerRun, RunQuery, FreeSilently
    <3> QED
      BY <2>0, <3>2, Unseen DEF PhaseOf, clientVars
  <2> QED
    BY <2>5, <2>6, <2>7
<1> QED
  BY <1>1, <1>2 DEF WorkerStep

LEMMA InitRefines == Init => Service!ServiceInit /\ PoolKinds
<1> SUFFICES ASSUME Init PROVE Service!ServiceInit /\ PoolKinds
  OBVIOUS
<1>1. PhaseOf(reader) = "open"
  BY Phases DEF Init
<1>2. Service!ServiceInit
  BY <1>1, SameMessages DEF Init, Service!ServiceInit, PhaseOf
<1>3. PoolKinds
  BY ThreadPoolAssumption DEF Init, NewQueue, PoolKinds, Threads
<1> QED
  BY <1>2, <1>3

LEMMA StepRefines ==
    ASSUME PoolInv, PoolKinds, [Next]_vars
    PROVE  [Service!ServiceNext]_(Service!serviceVars)
<1>1. ASSUME SpuriousWakeup \/ Exited \/ UNCHANGED vars
      PROVE  UNCHANGED Service!serviceVars
  <2>1. UNCHANGED clientVars /\ UNCHANGED reader
    BY <1>1 DEF SpuriousWakeup, Exited, vars, clientVars
  <2> QED
    BY <2>1, Unseen DEF PhaseOf
<1> QED
  BY <1>1, ReaderRefines, CoordinatorRefines, WorkerRefines DEF Next

\* The pool with its queues, cancels and shutdown does nothing a server that
\* handles one message at a time could not do: the safety part of
\* ImplementsService.  A request is served with the notifications sent before
\* it, or refused because the client cancelled it, once, and threadpool_stop()
\* returns when no request waits for a reply.
THEOREM PoolRefinesService == SafeSpec => Service!ServiceSafety
<1>1. Init => Service!ServiceInit /\ PoolKinds
  BY InitRefines
<1>2. PoolInv /\ PoolKinds /\ [Next]_vars => PoolKinds'
  BY KindsStep
<1>3. PoolInv /\ PoolKinds /\ [Next]_vars => [Service!ServiceNext]_(Service!serviceVars)
  BY StepRefines
<1> QED
  BY <1>1, <1>2, <1>3, PoolInvariance, PTL DEF SafeSpec, Service!ServiceSafety

=============================================================================
