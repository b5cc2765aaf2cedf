---------------------------- MODULE DiagWorkers ----------------------------
(***************************************************************************)
(* The tj3 diagnostics workers (diag_worker.c): one thread per project,    *)
(* handed workspace snapshots by the coordinator, and the markers that     *)
(* their publishDiagnostics notifications leave on the client's screen.    *)
(*                                                                         *)
(* A snapshot is reduced to what the workers read of it: its projects,     *)
(* which of them come from compile_commands.json, which project each       *)
(* document belongs to, which documents the editor manages, which ones tj3 *)
(* has something to say of, and which ones would need the file             *)
(* compile_commands.json that is missing or malformed.                     *)
(*                                                                         *)
(* A worker is named by its project and mode, both fixed for its lifetime. *)
(* One step is one notification written under stdout's lock, or one        *)
(* critical section of a worker's own lock.                                *)
(***************************************************************************)
EXTENDS Integers, Sequences, FiniteSets

CONSTANTS Projects,          \* project ids
          Uris,              \* documents
          Snapshots,         \* the snapshots the coordinator may build
          MaxRev,            \* bound on the snapshots published
          MaxSpawnFailures,  \* bound on failed pthread_create() calls
          NoProject,         \* a document of no project in a snapshot
          NoWorker           \* the coordinator joins nobody

Modes == {"full", "syntax"}

WorkerIds == Projects \X Modes

\* projects and full: the projects, and those from compile_commands.json;
\* editor: the documents sent an empty list first, which are the editor's and
\* those that didClose or didRenameFiles just dropped; faulty: the ones tj3
\* complains of; cc_missed: the ones that need compile_commands.json.
Snapshot == [projects : SUBSET Projects, full : SUBSET Projects,
             project_index : [Uris -> Projects \cup {NoProject}],
             editor : SUBSET Uris, faulty : SUBSET Uris, cc_missed : SUBSET Uris]

ASSUME DiagWorkersAssumption ==
    /\ Snapshots \subseteq Snapshot
    /\ \A s \in Snapshots, u \in Uris :
          s.project_index[u] \in s.projects \cup {NoProject}
    /\ MaxRev \in Nat
    /\ MaxSpawnFailures \in Nat
    /\ NoProject \notin Projects
    /\ NoWorker \notin WorkerIds

VARIABLES
    coordinator,    \* "idle", "revalidate", "shutdown" or "exited"
    published,      \* every snapshot published; the last one is g_ws
    baseline,       \* editor documents republish_all_diagnostics() has left
    todo,           \* projects diag_registry_update() has left
    seen,           \* the workers whose seen flag is set
    g_workers,      \* the registered workers
    joining,        \* the worker that diag_worker_retire() waits for
    spawn_failures, \* how often pthread_create() has failed
    worker,         \* each worker's thread and struct diag_worker
    shown,          \* the revision whose markers the client shows, 0 if none
    newest          \* history: the latest revision a document was shown

registryVars == <<published, todo, seen, g_workers, joining, spawn_failures>>
clientVars == <<shown, newest>>
vars == <<coordinator, baseline, worker, registryVars, clientVars>>

NoThread == [pc |-> "none", pending |-> 0, ws |-> 0, set |-> {}, last |-> {},
             out |-> {}, old |-> {}, stop |-> FALSE, clear_on_stop |-> FALSE]

WorkerRecord ==
    [pc : {"none", "wait", "collect", "publish", "stopping", "exited"},
     pending : 0..MaxRev,       \* newest unstarted request, 0 if none
     ws : 0..MaxRev,            \* the snapshot run_once() works on, 0 if none
     set : SUBSET Uris,         \* documents of the set being published
     last : SUBSET Uris,        \* documents of last_published
     out : SUBSET Uris,         \* of set, still to be published
     old : SUBSET Uris,         \* of last, still to be cleared
     stop : BOOLEAN, clear_on_stop : BOOLEAN]

Revision == Len(published)
Latest == published[Revision]

Init ==
    /\ coordinator = "idle"
    /\ published = <<>>
    /\ baseline = {} /\ todo = {} /\ seen = {} /\ g_workers = {}
    /\ joining = NoWorker
    /\ spawn_failures = 0
    /\ worker = [w \in WorkerIds |-> NoThread]
    /\ shown = [u \in Uris |-> 0]
    /\ newest = [u \in Uris |-> 0]

-----------------------------------------------------------------------------
(* Faulty variants of definitions below, to show that the properties can   *)
(* fail: a request that does not replace an older one, or is dropped while *)
(* a run is under way; a retired worker that is not joined; one tj3 at a   *)
(* time; an empty list published for the whole previous set; a set that is *)
(* never remembered; a worker that does not stop while it has a request    *)
(* pending.                                                                *)

RequestKeepsOldest(r, rev) ==
    [r EXCEPT !.pending = IF r.pending = 0 THEN rev ELSE r.pending]

RequestIfIdle(r, rev) ==
    [r EXCEPT !.pending = IF r.pc = "wait" THEN rev ELSE r.pending]

RetireWithoutJoin(w, clear) ==
    /\ joining' = NoWorker
    /\ worker' = [worker EXCEPT ![w].stop = TRUE, ![w].clear_on_stop = clear]

TakeOneAtATime(w) ==
    /\ worker[w].pc = "wait"
    /\ ~worker[w].stop
    /\ worker[w].pending # 0
    /\ \A v \in WorkerIds : worker[v].pc # "collect"
    /\ worker' = [worker EXCEPT ![w].pc = "collect", ![w].pending = 0,
                                ![w].ws = worker[w].pending]
    /\ UNCHANGED <<coordinator, baseline, registryVars, clientVars>>

VanishedAll(set, last) == last

EndRunKeepsLast(w) ==
    /\ worker[w].pc = "publish"
    /\ worker[w].out = {}
    /\ worker[w].old = {}
    /\ worker' = [worker EXCEPT ![w].pc = "wait", ![w].set = {}, ![w].ws = 0]
    /\ UNCHANGED <<coordinator, baseline, registryVars, clientVars>>

StopWhenIdle(w) ==
    /\ worker[w].pc = "wait"
    /\ worker[w].stop
    /\ worker[w].pending = 0
    /\ worker' = [worker EXCEPT ![w].pc = "stopping", ![w].old =
                    IF worker[w].clear_on_stop THEN worker[w].last ELSE {}]
    /\ UNCHANGED <<coordinator, baseline, registryVars, clientVars>>

-----------------------------------------------------------------------------
(* What the workers compute.                                               *)

Members(s, p) == {u \in Uris : s.project_index[u] = p}

\* diag_collect_cc_missing() warns in the editor's documents only.
CcMissing(s, p) == s.cc_missed \cap s.editor \cap Members(s, p)

\* tj3_collect_project(): map_reported_path() drops what is not a member.
Tj3Collect(s, p) == s.faulty \cap Members(s, p)

\* run_once(): the documents of the new set, both sources merged
Collect(s, p) == CcMissing(s, p) \cup Tj3Collect(s, p)

\* The class of worker a project needs.
ModeOf(s, p) == IF p \in s.full THEN "full" ELSE "syntax"

\* publish_diagnostics_list(): markers of revision r replace those of u.
Show(u, r) ==
    /\ shown' = [shown EXCEPT ![u] = r]
    /\ newest' = [newest EXCEPT ![u] = IF r > @ THEN r ELSE @]

\* publish_diagnostics(): an empty list for u.
Clear(u) ==
    /\ shown' = [shown EXCEPT ![u] = 0]
    /\ UNCHANGED newest

-----------------------------------------------------------------------------
(* The coordinator: revalidate_all_docs().                                 *)

\* publish_workspace_snapshot() swaps in a new snapshot; what follows walks
\* the editor's documents, then the snapshot's projects, then the workers.
Revalidate(s) ==
    /\ coordinator = "idle"
    /\ Revision < MaxRev
    /\ coordinator' = "revalidate"
    /\ published' = Append(published, s)
    /\ baseline' = s.editor
    /\ todo' = s.projects
    /\ seen' = {}
    /\ UNCHANGED <<g_workers, joining, spawn_failures, worker, clientVars>>

\* republish_all_diagnostics(), one document
Baseline(u) ==
    /\ u \in baseline
    /\ baseline' = baseline \ {u}
    /\ Clear(u)
    /\ UNCHANGED <<coordinator, registryVars, worker>>

Updating == coordinator = "revalidate" /\ baseline = {} /\ joining = NoWorker

\* diag_worker_request()
Request(r, rev) == [r EXCEPT !.pending = rev]

\* acquire_project_worker() finds a worker of the right mode.
RequestExisting(p) ==
    LET w == <<p, ModeOf(Latest, p)>>
    IN  /\ Updating
        /\ p \in todo
        /\ w \in g_workers
        /\ todo' = todo \ {p}
        /\ seen' = seen \cup {w}
        /\ worker' = [worker EXCEPT ![w] = Request(@, Revision)]
        /\ UNCHANGED <<coordinator, published, baseline, g_workers, joining,
                       spawn_failures, clientVars>>

HasWorker(p) == \E m \in Modes : <<p, m>> \in g_workers

\* It finds none, and spawns one.
SpawnWorker(p) ==
    LET w == <<p, ModeOf(Latest, p)>>
    IN  /\ Updating
        /\ p \in todo
        /\ ~HasWorker(p)
        /\ todo' = todo \ {p}
        /\ seen' = seen \cup {w}
        /\ g_workers' = g_workers \cup {w}
        /\ worker' = [worker EXCEPT ![w] =
                        Request([NoThread EXCEPT !.pc = "wait"], Revision)]
        /\ UNCHANGED <<coordinator, published, baseline, joining,
                       spawn_failures, clientVars>>

\* pthread_create() fails: the project goes without a worker this time.
SpawnFails(p) ==
    /\ Updating
    /\ p \in todo
    /\ ~HasWorker(p)
    /\ spawn_failures < MaxSpawnFailures
    /\ spawn_failures' = spawn_failures + 1
    /\ todo' = todo \ {p}
    /\ UNCHANGED <<coordinator, published, baseline, seen, g_workers, joining,
                   worker, clientVars>>

\* diag_worker_retire(), up to pthread_join()
Retire(w, clear) ==
    /\ joining' = w
    /\ worker' = [worker EXCEPT ![w].stop = TRUE, ![w].clear_on_stop = clear]

\* acquire_project_worker() finds one of the other mode: the project was
\* added to, or removed from, compile_commands.json.
RetireFlipped(p) ==
    /\ Updating
    /\ p \in todo
    /\ \E m \in Modes \ {ModeOf(Latest, p)} :
          /\ <<p, m>> \in g_workers
          /\ g_workers' = g_workers \ {<<p, m>>}
          /\ Retire(<<p, m>>, TRUE)
    /\ UNCHANGED <<coordinator, published, baseline, todo, seen,
                   spawn_failures, clientVars>>

\* The sweep over the workers whose project is gone.
RetireUnseen(w) ==
    /\ Updating
    /\ todo = {}
    /\ w \in g_workers \ seen
    /\ g_workers' = g_workers \ {w}
    /\ Retire(w, TRUE)
    /\ UNCHANGED <<coordinator, published, baseline, todo, seen,
                   spawn_failures, clientVars>>

EndUpdate ==
    /\ Updating
    /\ todo = {}
    /\ g_workers \subseteq seen
    /\ coordinator' = "idle"
    /\ UNCHANGED <<baseline, registryVars, worker, clientVars>>

\* pthread_join() returns and the worker is freed.
Join ==
    /\ joining # NoWorker
    /\ worker[joining].pc = "exited"
    /\ worker' = [worker EXCEPT ![joining] = NoThread]
    /\ joining' = NoWorker
    /\ UNCHANGED <<coordinator, published, baseline, todo, seen, g_workers,
                   spawn_failures, clientVars>>

\* diag_registry_shutdown(), called once the thread pool has stopped.
Shutdown ==
    /\ coordinator = "idle"
    /\ coordinator' = "shutdown"
    /\ UNCHANGED <<baseline, registryVars, worker, clientVars>>

RetireAtShutdown(w) ==
    /\ coordinator = "shutdown"
    /\ joining = NoWorker
    /\ w \in g_workers
    /\ g_workers' = g_workers \ {w}
    /\ Retire(w, FALSE)
    /\ UNCHANGED <<coordinator, published, baseline, todo, seen,
                   spawn_failures, clientVars>>

EndShutdown ==
    /\ coordinator = "shutdown"
    /\ joining = NoWorker
    /\ g_workers = {}
    /\ coordinator' = "exited"
    /\ UNCHANGED <<baseline, registryVars, worker, clientVars>>

-----------------------------------------------------------------------------
(* A worker thread: diag_worker_main().                                    *)

\* It takes its pending snapshot.
Take(w) ==
    /\ worker[w].pc = "wait"
    /\ ~worker[w].stop
    /\ worker[w].pending # 0
    /\ worker' = [worker EXCEPT ![w].pc = "collect", ![w].pending = 0,
                                ![w].ws = worker[w].pending]
    /\ UNCHANGED <<coordinator, baseline, registryVars, clientVars>>

\* run_once(): what diag_set_publish() has to clear of the previous set.
Vanished(set, last) == last \ set

\* run_once(): tj3 has ended and the new set is complete.
Collected(w) ==
    LET set == Collect(published[worker[w].ws], w[1])
    IN  /\ worker[w].pc = "collect"
        /\ worker' = [worker EXCEPT ![w].pc = "publish", ![w].set = set,
                        ![w].out = set, ![w].old = Vanished(set, worker[w].last)]
        /\ UNCHANGED <<coordinator, baseline, registryVars, clientVars>>

\* diag_set_publish() first writes the current set, one document at a time...
Publish(w, u) ==
    /\ worker[w].pc = "publish"
    /\ u \in worker[w].out
    /\ worker' = [worker EXCEPT ![w].out = @ \ {u}]
    /\ Show(u, worker[w].ws)
    /\ UNCHANGED <<coordinator, baseline, registryVars>>

\* ...then an empty list for what the previous set had and this one has not.
\* clear_published() does the same against an empty set.
ClearOld(w, u) ==
    /\ worker[w].pc \in {"publish", "stopping"}
    /\ worker[w].out = {}
    /\ u \in worker[w].old
    /\ worker' = [worker EXCEPT ![w].old = @ \ {u}]
    /\ Clear(u)
    /\ UNCHANGED <<coordinator, baseline, registryVars>>

\* The end of run_once().
EndRun(w) ==
    /\ worker[w].pc = "publish"
    /\ worker[w].out = {}
    /\ worker[w].old = {}
    /\ worker' = [worker EXCEPT ![w].pc = "wait", ![w].last = worker[w].set,
                                ![w].set = {}, ![w].ws = 0]
    /\ UNCHANGED <<coordinator, baseline, registryVars, clientVars>>

\* It sees the stop flag, drops its pending snapshot and leaves the loop.
Stop(w) ==
    /\ worker[w].pc = "wait"
    /\ worker[w].stop
    /\ worker' = [worker EXCEPT ![w].pc = "stopping", ![w].pending = 0,
                    ![w].old = IF worker[w].clear_on_stop THEN worker[w].last
                                                          ELSE {}]
    /\ UNCHANGED <<coordinator, baseline, registryVars, clientVars>>

Exit(w) ==
    /\ worker[w].pc = "stopping"
    /\ worker[w].old = {}
    /\ worker' = [worker EXCEPT ![w].pc = "exited", ![w].last = {}]
    /\ UNCHANGED <<coordinator, baseline, registryVars, clientVars>>

-----------------------------------------------------------------------------
CoordinatorStep ==
    \/ \E u \in Uris : Baseline(u)
    \/ \E p \in Projects : \/ RequestExisting(p) \/ SpawnWorker(p)
                           \/ SpawnFails(p) \/ RetireFlipped(p)
    \/ \E w \in WorkerIds : RetireUnseen(w) \/ RetireAtShutdown(w)
    \/ EndUpdate \/ Join \/ EndShutdown

\* A worker's own steps; the end of tj3 is apart, it is not the server's.
WorkerStep(w) ==
    \/ Take(w) \/ EndRun(w) \/ Stop(w) \/ Exit(w)
    \/ \E u \in Uris : Publish(w, u) \/ ClearOld(w, u)

Stopped == coordinator = "exited" /\ UNCHANGED vars

Next ==
    \/ \E s \in Snapshots : Revalidate(s)
    \/ Shutdown
    \/ CoordinatorStep
    \/ \E w \in WorkerIds : WorkerStep(w) \/ Collected(w)
    \/ Stopped

SafeSpec == Init /\ [][Next]_vars

\* Threads keep running.  Whether tj3 ends is up to tj3: the properties that
\* need it say so.
Spec ==
    /\ SafeSpec
    /\ WF_vars(CoordinatorStep)
    /\ \A w \in WorkerIds : WF_vars(WorkerStep(w))

-----------------------------------------------------------------------------
(* Properties.                                                             *)

TypeOK ==
    /\ coordinator \in {"idle", "revalidate", "shutdown", "exited"}
    /\ published \in Seq(Snapshots) /\ Revision \in 0..MaxRev
    /\ baseline \subseteq Uris
    /\ todo \subseteq Projects
    /\ seen \subseteq WorkerIds
    /\ g_workers \subseteq WorkerIds
    /\ joining \in WorkerIds \cup {NoWorker}
    /\ spawn_failures \in 0..MaxSpawnFailures
    /\ worker \in [WorkerIds -> WorkerRecord]
    /\ shown \in [Uris -> 0..MaxRev]
    /\ newest \in [Uris -> 0..MaxRev]

Live(w) == worker[w].pc # "none"

Stopping == coordinator \in {"shutdown", "exited"}

\* A project never has two worker threads, even while it changes mode: the
\* old one is joined before the new one starts (acquire_project_worker()).
OneWorkerPerProject ==
    \A v, w \in WorkerIds : Live(v) /\ Live(w) /\ v[1] = w[1] => v = w

\* The registry and its workers are of their types, and a project has at most
\* one live worker, also while it changes mode (acquire_project_worker()).
RegistryOK == TypeOK /\ OneWorkerPerProject

\* Every marker on the screen is one that a live worker remembers and would
\* clear: in its last set, or in the one it is publishing.  Until the server
\* shuts down no marker outlives the workers that could remove it.
NoOrphanMarker ==
    ~Stopping => \A u \in Uris : shown[u] # 0 =>
        \E w \in WorkerIds : Live(w) /\ u \in worker[w].last \cup worker[w].set

\* Once a document was shown the markers of a revision, it is never shown
\* those of an earlier one again, not even after being cleared in between.
NoStaleMarker == \A u \in Uris : shown[u] \in {0, newest[u]}

\* A worker that clears a document removes an old revision's markers, never
\* those of the latest snapshot (diag_worker_main(): "Clearing only makes
\* sense when a project was retired mid-session (drop its stale markers)").
ClearsOnlyStale ==
    [][\A w \in WorkerIds, u \in Uris : ClearOld(w, u) => shown[u] < Revision]_vars

\* All workers have caught up with the coordinator.
Quiet ==
    /\ coordinator = "idle"
    /\ \A w \in g_workers : worker[w].pc = "wait" /\ worker[w].pending = 0

\* The client shows for u what the latest snapshot has to say of it.
Reported(u) == \E p \in Latest.projects : HasWorker(p) /\ u \in Collect(Latest, p)

UpToDate(u) == shown[u] = IF Revision > 0 /\ Reported(u) THEN Revision ELSE 0

\* When the workers are idle the screen is exactly right: the latest revision's
\* markers on every document that has any, none on the others, whatever runs,
\* baselines, mode changes and retirements overlapped on the way.
Converged == Quiet => \A u \in Uris : UpToDate(u)

\* Every tj3 run for project p ends.
Tj3Ends(p) == \A m \in Modes : WF_vars(Collected(<<p, m>>))

\* "The latest snapshot is always eventually validated": if tj3 ends, the
\* screen becomes right after the last revalidation and stays so, however the
\* requests were coalesced, unless the server is told to exit.
EventuallyUpToDate ==
    (\A p \in Projects : Tj3Ends(p)) => <>[](Stopping \/ \A u \in Uris : UpToDate(u))

\* The projects and their modes have been the same since the start.
Steady == \A i \in DOMAIN published : /\ published[i].projects = Latest.projects
                                      /\ published[i].full = Latest.full

\* "A slow project never delays another project's diagnostics": a project whose
\* tj3 ends becomes and stays up to date although those of the others may run
\* for ever, as long as no project appears, disappears or changes mode.
SlowProjectIsolated ==
    \A p \in Projects : Tj3Ends(p) =>
        <>[](\/ Stopping \/ Revision = 0 \/ ~Steady
             \/ \A u \in Uris : Latest.project_index[u] = p => UpToDate(u))

\* A shutdown always ends if tj3 does: every worker sees its stop flag, also one
\* that has a request pending or a run under way, and is joined.
ShutdownEnds == (\A p \in Projects : Tj3Ends(p)) => Stopping ~> (coordinator = "exited")

=============================================================================
