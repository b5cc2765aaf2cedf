----------------------------- MODULE MCProgress -----------------------------
(***************************************************************************)
(* The threads of the server, each component by itself, with the fairness  *)
(* of its threads.                                                         *)
(*   runs       two workers run tj3 at the same time, with more output     *)
(*              than a pipe holds                                          *)
(*   pool       the reader, the coordinator and two query workers          *)
(*   diag       the registry and the workers of two projects               *)
(*   snapshots  a query, which asks for no token data, a diagnostics       *)
(*              worker and the coordinator share snapshots                 *)
(***************************************************************************)
EXTENDS Tj3Runs

CONSTANTS Parts,    \* the parts of the run, chosen before the first step
          StringId, NoId, NoJob, NoProject, NoWorker, Nil
VARIABLES part,
  reader, scan_id, work_queue, request_queue, coordinator, holds, finished,
  received, is_cancelled, context, applied, replies, freed, cancels,  \* ThreadPool
  registry, published, baseline, todo, seen, g_workers, joining,
  spawn_failures, worker, shown, newest,                              \* DiagWorkers
  docs, gws, snap, ws, bufs, recycle, memos, ctx, diag, coord, releases \* Snapshots

runVars == <<pc, child, holders, pipe, left, total, buf>>
poolVars == <<reader, scan_id, work_queue, request_queue, coordinator, holds, finished,
              received, is_cancelled, context, applied, replies, freed, cancels>>
diagVars == <<registry, published, baseline, todo, seen, g_workers, joining,
              spawn_failures, worker, shown, newest>>
snapVars == <<docs, gws, snap, ws, bufs, recycle, memos, ctx, diag, coord, releases>>

-----------------------------------------------------------------------------
Pool == INSTANCE ThreadPool WITH
  MaxJobs <- 2, MaxCancels <- 1, Ids <- {1}, Workers <- {"w1", "w2"}, Coordinator <- "coordinator"

\* Projects, documents and snapshots as in the runs of DiagWorkers.
Worlds == INSTANCE MCDiagWorkers WITH
  p1 <- "p1", p2 <- "p2", u1 <- "u1", u2 <- "u2", u3 <- "u3", coordinator <- registry,
  Projects <- {"p1", "p2"}, Uris <- {"u1", "u2", "u3"}, Snapshots <- {},
  MaxRev <- 2, MaxSpawnFailures <- 0
Diags == INSTANCE DiagWorkers WITH
  coordinator <- registry, Projects <- {"p1", "p2"}, Uris <- {"u1", "u2", "u3"},
  Snapshots <- Worlds!MCSnapshots, MaxRev <- 2, MaxSpawnFailures <- 0

Shared == INSTANCE Snapshots WITH
  todo <- releases, Doc <- {"d1"}, Query <- {"q1"}, Diag <- {"w1"}, Snap <- {"s1", "s2"},
  Ws <- {"x1", "x2"}, Buf <- {"b1", "b2"}, Coord <- "coordinator"

-----------------------------------------------------------------------------
\* The client of the pool uses no string ids.
NumericIds == \A j \in DOMAIN received : received[j].id # StringId

MCInit == part \in Parts /\ Init /\ Pool!Init /\ Diags!Init /\ Shared!Init
MCNext ==
  \/ part = "runs" /\ Next /\ UNCHANGED <<part, poolVars, diagVars, snapVars>>
  \/ part = "pool" /\ Pool!Next /\ NumericIds' /\ UNCHANGED <<part, runVars, diagVars, snapVars>>
  \/ part = "diag" /\ Diags!Next /\ UNCHANGED <<part, runVars, poolVars, snapVars>>
  \/ part = "snapshots" /\ Shared!Next /\ memos' = {} /\ UNCHANGED <<part, runVars, poolVars, diagVars>>

\* Of each part its own fairness: Tj3Runs!Fairness, ThreadPool!Fairness, that of
\* DiagWorkers!Spec and Snapshots!Fairness (less the CAS of token data).
RunsFair == \A w \in Workers : /\ WF_runVars(part = "runs" /\ WorkerStep(w))
                               /\ WF_runVars(part = "runs" /\ Write(w))
PoolFair == /\ WF_poolVars(part = "pool" /\ Pool!ReaderStep)
            /\ WF_poolVars(part = "pool" /\ Pool!CoordinatorStep)
            /\ \A w \in {"w1", "w2"} : WF_poolVars(part = "pool" /\ Pool!WorkerStep(w))
DiagFair == /\ WF_diagVars(part = "diag" /\ Diags!CoordinatorStep)
            /\ \A w \in Diags!WorkerIds : WF_diagVars(part = "diag" /\ Diags!WorkerStep(w))
SnapFair == /\ WF_snapVars(part = "snapshots" /\ coord.pc # "idle" /\ Shared!Coordinate)
            /\ WF_snapVars(part = "snapshots" /\ Shared!Finish("q1"))
            /\ WF_snapVars(part = "snapshots" /\ Shared!RunDiag("w1"))
            /\ \A t \in Shared!Thread : WF_snapVars(part = "snapshots" /\ Shared!Release(t))

MCSpec == /\ MCInit /\ [][MCNext]_<<part, runVars, poolVars, diagVars, snapVars>>
          /\ RunsFair /\ PoolFair /\ DiagFair /\ SnapFair

-----------------------------------------------------------------------------
\* Every request is answered, also when the pool is being stopped
\* (threadpool_stop): no job waits for a thread that sleeps on.
EveryRequestAnswered == Pool!EveryRequestAnswered

\* Once the reader has seen exit or end of input the process ends: nobody sleeps
\* through the closing of the queues (job_queue_close).
StopTerminates == Pool!StopTerminates

\* The pool with its queues, races and shutdown implements RequestService.
ImplementsService == Pool!ImplementsService

\* "The latest snapshot is always eventually validated" (diag_worker.h): if tj3
\* ends, the screen becomes right after the last revalidation and stays so, however
\* the requests were coalesced, unless the server is told to exit.
EventuallyUpToDate == Diags!EventuallyUpToDate

\* "A slow project never delays another project's diagnostics" (diag_worker.h): a
\* project whose tj3 ends becomes and stays up to date although those of the others
\* may run for ever, as long as no project appears, disappears or changes mode.
SlowProjectIsolated == Diags!SlowProjectIsolated

\* A shutdown always ends if tj3 does: every worker sees its stop flag, also one
\* that has a request pending or a run under way, and is joined
\* (diag_registry_shutdown).
ShutdownEnds == Diags!ShutdownEnds

\* A workspace snapshot the server has moved on from is eventually freed, also when
\* a worker is retired with one pending (workspace_snapshot_release).
SupersededFreed == Shared!SupersededFreed
=============================================================================
