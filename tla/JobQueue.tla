------------------------------ MODULE JobQueue ------------------------------
(***************************************************************************)
(* The FIFO of job_queue.c as a value: the linked list, the closed flag    *)
(* and the threads asleep on the queue's condition variable.  Every        *)
(* function of job_queue.c runs under the queue's mutex, so each operator  *)
(* below is one atomic step of the thread that calls it.                   *)
(***************************************************************************)
EXTENDS Integers, Sequences

\* job_queue_create
NewQueue == [jobs |-> <<>>, closed |-> FALSE, waiting |-> {}]

QueueType(Job, Thread) ==
    [jobs : Seq(Job), closed : BOOLEAN, waiting : SUBSET Thread]

\* Faulty variants of the operators below, each a slip that job_queue.c could
\* have had; the properties of the thread pool reject every one of them.
SignalledNobody(q) == {q.waiting}
PoppedStillLinked(q) == q
PopsNullUndrained(q, t) == t \notin q.waiting /\ q.closed
ClosedWakesOne(q) ==
    [q EXCEPT !.closed = TRUE,
              !.waiting = IF @ = {} THEN {} ELSE @ \ {CHOOSE t \in @ : TRUE}]

\* pthread_cond_signal: one of the sleepers wakes, if anyone sleeps.
Signalled(q) == IF q.waiting = {} THEN {{}} ELSE {q.waiting \ {t} : t \in q.waiting}

\* job_queue_push: link the job at the tail and signal.
Pushed(q, job) ==
    {[q EXCEPT !.jobs = Append(@, job), !.waiting = W] : W \in Signalled(q)}

\* job_queue_pop by thread t: either a job is unlinked from the head, or the
\* drained closed queue yields NULL, or the thread goes to sleep.
CanPop(q, t) == t \notin q.waiting /\ q.jobs # <<>>
Popped(q) == [q EXCEPT !.jobs = Tail(@)]
PopsNull(q, t) == t \notin q.waiting /\ q.jobs = <<>> /\ q.closed
MustSleep(q, t) == t \notin q.waiting /\ q.jobs = <<>> /\ ~q.closed
Asleep(q, t) == [q EXCEPT !.waiting = @ \cup {t}]

\* job_queue_close: set the flag and wake everyone.
Closed(q) == [q EXCEPT !.closed = TRUE, !.waiting = {}]

\* POSIX lets pthread_cond_wait return without a signal; the loop around it
\* tests the condition again.
Woken(q, t) == [q EXCEPT !.waiting = @ \ {t}]

\* The jobs linked into the queue.
Linked(q) == {q.jobs[i] : i \in DOMAIN q.jobs}
=============================================================================
