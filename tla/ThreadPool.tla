----------------------------- MODULE ThreadPool -----------------------------
(***************************************************************************)
(* The threads that carry a message from stdin to its reply: the reader    *)
(* (main.c, server_process), the coordinator and the query workers         *)
(* (threadpool.c) with the two queues between them (job_queue.c).          *)
(*                                                                         *)
(* One step is one critical section: a queue operation under the queue's   *)
(* mutex, or a handler's work on the job its thread has popped.  Only the  *)
(* coordinator ever takes docs_mutex, so the lock itself is not a variable.*)
(***************************************************************************)
EXTENDS Messages, JobQueue, FiniteSets

CONSTANTS MaxCancels,   \* bound on the distinct cancel messages
          Workers,      \* the query worker threads
          Coordinator,  \* the coordinator thread
          NoJob         \* a thread that holds no job

ASSUME ThreadPoolAssumption ==
    /\ MaxCancels \in Nat
    /\ Workers # {}
    /\ Coordinator \notin Workers
    /\ NoJob \notin JobIndex

Threads == Workers \cup {Coordinator}

VARIABLES
    reader,         \* where the reader thread is
    scan_id,        \* the id threadpool_cancel_by_id() is looking for
    work_queue,     \* reader -> coordinator
    request_queue,  \* coordinator -> query workers
    coordinator,    \* where the coordinator is: "pop", "dispatch", "push", "done"
    holds,          \* the job each thread has popped and not yet passed on
    finished,       \* the workers whose thread has returned
    received,       \* every job's message, by arrival number
    is_cancelled,   \* the jobs whose is_cancelled flag is set
    context,        \* the notifications in a job's pinned snapshot
    applied,        \* the notifications whose handler has run
    replies,        \* the replies written for each job
    freed,          \* the jobs given to job_free()
    cancels         \* history: each cancel's id and the jobs received before it

clientVars == <<received, cancels, replies>>
jobVars == <<is_cancelled, context, applied, freed>>
vars == <<reader, scan_id, work_queue, request_queue, coordinator, holds,
          finished, received, is_cancelled, context, applied, replies, freed,
          cancels>>

Init ==
    /\ reader = "read"
    /\ scan_id = NoId
    /\ work_queue = NewQueue
    /\ request_queue = NewQueue
    /\ coordinator = "pop"
    /\ holds = [t \in Threads |-> NoJob]
    /\ finished = {}
    /\ received = <<>>
    /\ is_cancelled = {}
    /\ context = [j \in JobIndex |-> {}]
    /\ applied = {}
    /\ replies = [j \in JobIndex |-> <<>>]
    /\ freed = {}
    /\ cancels = {}

-----------------------------------------------------------------------------
(* Faulty variants of definitions below, to show that the properties can   *)
(* fail: a cancel that ignores the id, a reply without job_free(), a       *)
(* worker that reads the live documents or ignores the cancelled flag, a   *)
(* stop that does not join the workers.                                    *)

MatchingAnyId(q, id) == {j \in Linked(q) : received[j].kind # "notification"}

MatchingHeadOnly(q, id) ==
    {j \in Linked(q) : j = q.jobs[1] /\ received[j].kind # "notification"
                                    /\ received[j].id = id}

ReplyWithoutFree(t, r) ==
    /\ replies' = [replies EXCEPT ![holds[t]] = Append(@, r)]
    /\ UNCHANGED <<freed, holds>>

RunQueryLive(w) ==
    /\ replies' = [replies EXCEPT ![holds[w]] =
                     IF IsRequest(received[holds[w]])
                     THEN Append(@, Result(applied)) ELSE @]
    /\ freed' = freed \cup {holds[w]}
    /\ holds' = [holds EXCEPT ![w] = NoJob]

JoinWorkersEarly ==
    /\ reader = "join_workers"
    /\ reader' = "exited"
    /\ UNCHANGED <<scan_id, work_queue, request_queue, coordinator, holds,
                   finished, clientVars, jobVars>>

-----------------------------------------------------------------------------
(* The reader thread.                                                      *)

NextJob == Len(received) + 1

\* server_process(): classify the message and enqueue it.
Enqueue(m) ==
    /\ reader = "read"
    /\ Len(received) < MaxJobs
    /\ received' = Append(received, m)
    /\ work_queue' \in Pushed(work_queue, NextJob)
    /\ UNCHANGED <<reader, scan_id, request_queue, coordinator, holds,
                   finished, cancels, replies, jobVars>>

\* job_queue_mark_cancelled_by_id()
Matching(q, id) == {j \in Linked(q) :
                       received[j].kind # "notification" /\ received[j].id = id}

\* threadpool_cancel_by_id() takes the two queues' mutexes one after the
\* other: first the work queue...
CancelScanWork(id) ==
    /\ reader = "read"
    /\ Cardinality(cancels) < MaxCancels
    /\ reader' = "scan_request"
    /\ scan_id' = id
    /\ is_cancelled' = is_cancelled \cup Matching(work_queue, id)
    /\ cancels' = cancels \cup {[id |-> id, at |-> Len(received)]}
    /\ UNCHANGED <<work_queue, request_queue, coordinator, holds, finished,
                   received, context, applied, replies, freed>>

\* ...then the request queue.
CancelScanRequest ==
    /\ reader = "scan_request"
    /\ reader' = "read"
    /\ scan_id' = NoId
    /\ is_cancelled' = is_cancelled \cup Matching(request_queue, scan_id)
    /\ UNCHANGED <<work_queue, request_queue, coordinator, holds, finished,
                   clientVars, context, applied, freed>>

\* The "exit" notification or end of input: threadpool_stop() closes the work
\* queue, joins the coordinator and then the workers.
CloseWorkQueue ==
    /\ reader = "read"
    /\ reader' = "join_coordinator"
    /\ work_queue' = Closed(work_queue)
    /\ UNCHANGED <<scan_id, request_queue, coordinator, holds, finished,
                   clientVars, jobVars>>

JoinCoordinator ==
    /\ reader = "join_coordinator"
    /\ coordinator = "done"
    /\ reader' = "join_workers"
    /\ UNCHANGED <<scan_id, work_queue, request_queue, coordinator, holds,
                   finished, clientVars, jobVars>>

JoinWorkers ==
    /\ reader = "join_workers"
    /\ finished = Workers
    /\ reader' = "exited"
    /\ UNCHANGED <<scan_id, work_queue, request_queue, coordinator, holds,
                   finished, clientVars, jobVars>>

-----------------------------------------------------------------------------
(* The coordinator thread.                                                 *)

CoordinatorPop ==
    /\ coordinator = "pop"
    /\ UNCHANGED <<reader, scan_id, finished, clientVars, jobVars>>
    /\ \/ /\ CanPop(work_queue, Coordinator)
          /\ holds' = [holds EXCEPT ![Coordinator] = Head(work_queue.jobs)]
          /\ work_queue' = Popped(work_queue)
          /\ coordinator' = "dispatch"
          /\ UNCHANGED request_queue
       \/ /\ MustSleep(work_queue, Coordinator)
          /\ work_queue' = Asleep(work_queue, Coordinator)
          /\ UNCHANGED <<coordinator, holds, request_queue>>
       \/ /\ PopsNull(work_queue, Coordinator)
          /\ request_queue' = Closed(request_queue)
          /\ coordinator' = "done"
          /\ UNCHANGED <<work_queue, holds>>

\* A thread writes reply r for the job it holds and frees the job.
ReplyAndFree(t, r) ==
    /\ replies' = [replies EXCEPT ![holds[t]] = Append(@, r)]
    /\ freed' = freed \cup {holds[t]}
    /\ holds' = [holds EXCEPT ![t] = NoJob]

\* job_free() without a reply.
FreeSilently(t) ==
    /\ freed' = freed \cup {holds[t]}
    /\ holds' = [holds EXCEPT ![t] = NoJob]
    /\ UNCHANGED replies

\* server_dispatch_cancelled(): an error reply, if the message has an id.
DispatchCancelled(t) ==
    IF IsRequest(received[holds[t]]) THEN ReplyAndFree(t, Cancelled)
                                     ELSE FreeSilently(t)

CoordinatorDispatch ==
    LET job == holds[Coordinator] IN
    /\ coordinator = "dispatch"
    /\ UNCHANGED <<reader, scan_id, work_queue, request_queue, finished,
                   received, cancels, is_cancelled>>
    /\ \/ /\ received[job].kind = "notification"
          /\ applied' = applied \cup {job}
          /\ FreeSilently(Coordinator)
          /\ coordinator' = "pop"
          /\ UNCHANGED context
       \/ /\ received[job].kind # "notification"
          /\ job \in is_cancelled
          /\ DispatchCancelled(Coordinator)
          /\ coordinator' = "pop"
          /\ UNCHANGED <<applied, context>>
       \/ /\ received[job].kind = "inline"
          /\ job \notin is_cancelled
          /\ ReplyAndFree(Coordinator, Result(applied))
          /\ coordinator' = "pop"
          /\ UNCHANGED <<applied, context>>
       \/ /\ received[job].kind \in {"query", "unknown"}
          /\ job \notin is_cancelled
          /\ context' = [context EXCEPT ![job] = applied]
          /\ coordinator' = "push"
          /\ UNCHANGED <<applied, holds, freed, replies>>

\* job_queue_push(request_queue, job): the job changes owner.
CoordinatorPush ==
    /\ coordinator = "push"
    /\ request_queue' \in Pushed(request_queue, holds[Coordinator])
    /\ holds' = [holds EXCEPT ![Coordinator] = NoJob]
    /\ coordinator' = "pop"
    /\ UNCHANGED <<reader, scan_id, work_queue, finished, clientVars, jobVars>>

-----------------------------------------------------------------------------
(* The query workers.                                                      *)

WorkerPop(w) ==
    /\ w \notin finished
    /\ holds[w] = NoJob
    /\ UNCHANGED <<reader, scan_id, work_queue, coordinator, clientVars, jobVars>>
    /\ \/ /\ CanPop(request_queue, w)
          /\ holds' = [holds EXCEPT ![w] = Head(request_queue.jobs)]
          /\ request_queue' = Popped(request_queue)
          /\ UNCHANGED finished
       \/ /\ MustSleep(request_queue, w)
          /\ request_queue' = Asleep(request_queue, w)
          /\ UNCHANGED <<holds, finished>>
       \/ /\ PopsNull(request_queue, w)
          /\ finished' = finished \cup {w}
          /\ UNCHANGED <<holds, request_queue>>

\* server_run_query(): a handler's result, a null result for an unknown
\* method with an id, nothing for an unknown method without one.
RunQuery(w) ==
    LET job == holds[w] IN
    IF received[job].kind = "query" THEN ReplyAndFree(w, Result(context[job]))
    ELSE IF IsRequest(received[job]) THEN ReplyAndFree(w, Null)
    ELSE FreeSilently(w)

WorkerRun(w) ==
    /\ holds[w] # NoJob
    /\ IF holds[w] \in is_cancelled THEN DispatchCancelled(w) ELSE RunQuery(w)
    /\ UNCHANGED <<reader, scan_id, work_queue, request_queue, coordinator,
                   finished, received, cancels, is_cancelled, context, applied>>

\* A sleeper wakes without being signalled.
SpuriousWakeup ==
    /\ \/ /\ Coordinator \in work_queue.waiting
          /\ work_queue' = Woken(work_queue, Coordinator)
          /\ UNCHANGED request_queue
       \/ \E w \in request_queue.waiting :
             /\ request_queue' = Woken(request_queue, w)
             /\ UNCHANGED work_queue
    /\ UNCHANGED <<reader, scan_id, coordinator, holds, finished, clientVars, jobVars>>

\* main() has returned or called exit(): nothing more happens.
Exited == reader = "exited" /\ UNCHANGED vars

-----------------------------------------------------------------------------

CoordinatorStep == CoordinatorPop \/ CoordinatorDispatch \/ CoordinatorPush
WorkerStep(w) == WorkerPop(w) \/ WorkerRun(w)
ReaderStep == CancelScanRequest \/ JoinCoordinator \/ JoinWorkers

Next ==
    \/ \E m \in Message : Enqueue(m)
    \/ \E id \in Ids : CancelScanWork(id)
    \/ CloseWorkQueue
    \/ ReaderStep
    \/ CoordinatorStep
    \/ \E w \in Workers : WorkerStep(w)
    \/ SpuriousWakeup
    \/ Exited

\* Each thread keeps running while it can; messages need not arrive.
Fairness ==
    /\ WF_vars(ReaderStep)
    /\ WF_vars(CoordinatorStep)
    /\ \A w \in Workers : WF_vars(WorkerStep(w))

SafeSpec == Init /\ [][Next]_vars
Spec == SafeSpec /\ Fairness
-----------------------------------------------------------------------------
(* Properties.                                                             *)

JobOrNone == JobIndex \cup {NoJob}

\* Type invariant: jobs are arrival numbers, flags and phases are the ones
\* threadpool.c and job_queue.c can produce.
TypeOK ==
    /\ reader \in {"read", "scan_request", "join_coordinator", "join_workers", "exited"}
    /\ scan_id \in Ids \cup {NoId}
    /\ work_queue \in QueueType(JobIndex, {Coordinator})
    /\ request_queue \in QueueType(JobIndex, Workers)
    /\ coordinator \in {"pop", "dispatch", "push", "done"}
    /\ holds \in [Threads -> JobOrNone]
    /\ finished \in SUBSET Workers
    /\ received \in Seq(Message) /\ Len(received) <= MaxJobs
    /\ is_cancelled \in SUBSET JobIndex
    /\ context \in [JobIndex -> SUBSET JobIndex]
    /\ applied \in SUBSET JobIndex
    /\ replies \in [JobIndex -> Seq(ReplyType)]
    /\ freed \in SUBSET JobIndex
    /\ cancels \in SUBSET [id : Ids, at : 0..MaxJobs]

Jobs == 1..Len(received)
Queued(j) == j \in Linked(work_queue) \/ j \in Linked(request_queue)

\* A job has one owner at a time (a queue or a thread), and none after
\* job_free(): no job is freed twice, used after it was freed, or run by two
\* workers.
SingleOwner ==
    /\ Linked(work_queue) \cap Linked(request_queue) = {}
    /\ \A q \in {work_queue, request_queue} :
          \A a, b \in DOMAIN q.jobs : q.jobs[a] = q.jobs[b] => a = b
    /\ \A s, t \in Threads : holds[s] = holds[t] /\ holds[s] # NoJob => s = t
    /\ \A t \in Threads : holds[t] # NoJob => ~Queued(holds[t]) /\ holds[t] \notin freed
    /\ \A j \in freed : ~Queued(j)

\* No job is lost on its way: what was received is queued, held or freed.
NoJobLost ==
    \A j \in Jobs : Queued(j) \/ j \in freed \/ \E t \in Threads : holds[t] = j

\* The client reads at most one reply per request, none for a message without
\* an id, and the reply is there by the time the job is freed.
RepliedOnce ==
    \A j \in Jobs :
        Len(replies[j]) = IF j \in freed /\ IsRequest(received[j]) THEN 1 ELSE 0

\* Messages take effect in arrival order: a served request has seen every
\* notification received before it and none received after it, whichever
\* thread served it and however late.
ServedInArrivalOrder ==
    \A j \in Jobs : \A i \in DOMAIN replies[j] :
        replies[j][i].outcome = "result"
            => replies[j][i].seen = NotificationsBefore(received, j)

\* A request is refused only if the client cancelled its id after sending it,
\* also when the client uses an id again.
RefusedOnlyIfAsked ==
    \A j \in Jobs : \A i \in DOMAIN replies[j] :
        replies[j][i].outcome = "cancelled"
            => \E c \in cancels : c.id = received[j].id /\ j <= c.at

\* A cancel reaches every matching request that the coordinator has not popped
\* yet, and a request that was marked is never served.
CancelHonoured ==
    /\ \A c \in cancels : \A j \in Linked(work_queue) :
          received[j].id = c.id /\ j <= c.at => j \in is_cancelled
    /\ \A j \in is_cancelled : \A i \in DOMAIN replies[j] :
          replies[j][i].outcome = "cancelled"

\* threadpool_stop() drains: when it returns every job has been dispatched
\* and freed, and every request has its reply.
DrainedAtExit ==
    reader = "exited" =>
        /\ work_queue.jobs = <<>> /\ request_queue.jobs = <<>>
        /\ \A j \in Jobs : j \in freed /\ (IsRequest(received[j]) => replies[j] # <<>>)

\* Every request is answered, also when the pool is being stopped.
EveryRequestAnswered ==
    \A j \in JobIndex :
        (j \in Jobs /\ IsRequest(received[j])) ~> (replies[j] # <<>>)

\* Once the reader has seen exit or end of input the process ends: nobody
\* sleeps through the closing of the queues.
StopTerminates == (reader = "join_coordinator") ~> (reader = "exited")

-----------------------------------------------------------------------------
(* The inductive invariant behind the safety properties.                   *)

\* How many jobs have left the work queue, and how many have left the
\* coordinator as well.
Taken == Len(received) - Len(work_queue.jobs)
Passed == IF coordinator \in {"dispatch", "push"} THEN Taken - 1 ELSE Taken

\* The work queue is the interval of arrival numbers not yet taken.
WorkQueueInv ==
    /\ Len(work_queue.jobs) <= Len(received)
    /\ \A i \in 1..Len(work_queue.jobs) : work_queue.jobs[i] = Taken + i

\* The request queue is increasing, what a worker holds is older than
\* anything in it, and the coordinator holds the job it took last.
OwnerInv ==
    /\ coordinator \in {"dispatch", "push"} => holds[Coordinator] = Taken /\ 0 < Taken
    /\ coordinator \in {"pop", "done"} => holds[Coordinator] = NoJob
    /\ \A a \in 1..Len(request_queue.jobs) : request_queue.jobs[a] <= Passed
    /\ \A a, b \in 1..Len(request_queue.jobs) :
          a < b => request_queue.jobs[a] < request_queue.jobs[b]
    /\ \A w \in Workers : holds[w] # NoJob =>
          /\ holds[w] <= Passed
          /\ \A a \in 1..Len(request_queue.jobs) : holds[w] < request_queue.jobs[a]
    /\ \A v, w \in Workers : holds[v] = holds[w] /\ holds[v] # NoJob => v = w

\* The jobs with the worker pool, and those it has finished with.
InPool(j) ==
    \/ \E a \in 1..Len(request_queue.jobs) : request_queue.jobs[a] = j
    \/ \E w \in Workers : holds[w] = j

FreedInv == \A j \in JobIndex : j \in freed <=> j <= Passed /\ ~InPool(j)

\* What a snapshot pinned for job j has to contain.
PinInv ==
    /\ applied = {i \in 1..(IF coordinator = "dispatch" THEN Taken - 1 ELSE Taken) :
                    received[i].kind = "notification"}
    /\ \A j \in JobIndex :
          InPool(j) \/ (coordinator = "push" /\ holds[Coordinator] = j) =>
             context[j] = NotificationsBefore(received, j)

CancelAsked(j) == \E c \in cancels : c.id = received[j].id /\ j <= c.at

ReplyInv ==
    /\ \A j \in JobIndex \ freed : replies[j] = <<>>
    /\ \A j \in freed :
          /\ ~IsRequest(received[j]) => replies[j] = <<>>
          /\ IsRequest(received[j]) => Len(replies[j]) = 1
          /\ \A i \in DOMAIN replies[j] :
                /\ replies[j][i].outcome = "result"
                      => replies[j][i].seen = NotificationsBefore(received, j)
                /\ replies[j][i].outcome = "cancelled" => CancelAsked(j)
                /\ j \in is_cancelled => replies[j][i].outcome = "cancelled"

\* Marks stand for cancels that came after the job; a scan that is half done
\* has already been recorded.
CancelInv ==
    /\ \A j \in is_cancelled :
          j <= Len(received) /\ received[j].id \in Ids /\ CancelAsked(j)
    /\ \A c \in cancels : c.at <= Len(received)
    /\ \A c \in cancels : \A j \in JobIndex :
          /\ Taken < j /\ j <= c.at /\ received[j].id = c.id
          => j \in is_cancelled
    /\ reader = "scan_request" =>
          scan_id \in Ids /\ [id |-> scan_id, at |-> Len(received)] \in cancels

\* Shutdown goes from the reader to the coordinator to the workers.
ShutdownInv ==
    /\ coordinator = "done" =>
          /\ reader \notin {"read", "scan_request"}
          /\ work_queue.jobs = <<>>
    /\ work_queue.closed => reader \notin {"read", "scan_request"}
    /\ request_queue.closed => coordinator = "done"
    /\ \A w \in finished : coordinator = "done" /\ request_queue.jobs = <<>> /\ holds[w] = NoJob
    /\ reader \in {"join_workers", "exited"} => coordinator = "done"
    /\ reader = "exited" => finished = Workers

\* The conjunction is inductive; TLC checks that it holds, TLAPS that it is
\* kept by every step.
PoolInv ==
    /\ TypeOK
    /\ WorkQueueInv
    /\ OwnerInv
    /\ FreedInv
    /\ PinInv
    /\ ReplyInv
    /\ CancelInv
    /\ ShutdownInv

-----------------------------------------------------------------------------
\* The pool with its queues, races and shutdown implements RequestService.
Service == INSTANCE RequestService WITH
    phase <- CASE reader \in {"read", "scan_request"} -> "open"
               [] reader \in {"join_coordinator", "join_workers"} -> "closing"
               [] reader = "exited" -> "closed"

ImplementsService == Service!ServiceSpec
=============================================================================
