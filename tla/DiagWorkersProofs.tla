------------------------- MODULE DiagWorkersProofs -------------------------
(***************************************************************************)
(* What the diagnostics workers guarantee for any number of projects,      *)
(* documents, snapshots and revisions.  Two results need nothing: a        *)
(* project never has two workers, and every marker on the screen is one    *)
(* that a live worker will remove.  The others, that no stale marker       *)
(* appears, that a worker clears stale markers only, and that the screen   *)
(* is right once the workers are idle, hold as long as a document stays    *)
(* with its project, DocumentsStay (the run diag_moved_document shows what *)
(* happens when it does not).                                              *)
(***************************************************************************)
EXTENDS DiagWorkers, TLAPS

\* Whatever snapshots the coordinator builds, a document that has a project in
\* two of them has the same one in both.
DocumentsStay ==
    \A s, t \in Snapshots, u \in Uris :
        s.project_index[u] # NoProject /\ t.project_index[u] # NoProject
            => s.project_index[u] = t.project_index[u]

-----------------------------------------------------------------------------
(* The registry: what diag_registry_update() keeps between the snapshot    *)
(* swap and its return.  seen counts only until the shutdown.              *)

UpToShutdown == coordinator \in {"idle", "revalidate"}

\* The live threads are the registered ones and the one being joined, which
\* alone has its stop flag set, and drops its markers unless the server stops.
RegistryThreads ==
    /\ \A w \in WorkerIds : Live(w) <=> (w \in g_workers \/ w = joining)
    /\ joining \notin g_workers
    /\ joining # NoWorker => coordinator \in {"revalidate", "shutdown"}
    /\ \A w \in WorkerIds :
          /\ worker[w].stop => w = joining
          /\ worker[w].clear_on_stop <=> (w = joining /\ coordinator = "revalidate")

\* The workers seen are registered and done with; nobody is seen before the
\* baseline is out, and outside an update every registered worker was seen.
RegistrySeen ==
    /\ baseline # {} => coordinator = "revalidate" /\ seen = {} /\ joining = NoWorker
    /\ UpToShutdown =>
          /\ seen \subseteq g_workers
          /\ \A w \in seen : w[1] \notin todo
          /\ joining # NoWorker => \A w \in seen : w[1] # joining[1]
    /\ coordinator = "idle" => todo = {} /\ g_workers \subseteq seen

RegistryInv == TypeOK /\ OneWorkerPerProject /\ RegistryThreads /\ RegistrySeen

-----------------------------------------------------------------------------
(* A worker's fields, as they go with its place in diag_worker_main().     *)

Idle(r) == r.set = {} /\ r.out = {} /\ r.old = {} /\ r.ws = 0

WorkerShape(w) ==
    LET r == worker[w] IN
    /\ r.pc = "none" => r = NoThread
    /\ r.pc = "wait" => Idle(r)
    /\ r.pc = "collect" => r.set = {} /\ r.out = {} /\ r.old = {} /\ r.ws # 0
    /\ r.pc = "publish" => /\ r.ws # 0
                           /\ r.set = Collect(published[r.ws], w[1])
                           /\ r.out \subseteq r.set
                           /\ r.old \subseteq r.last \ r.set
    /\ r.pc = "stopping" => /\ r.set = {} /\ r.out = {} /\ r.ws = 0 /\ r.pending = 0
                            /\ r.old \subseteq r.last
                            /\ r.stop /\ (r.old # {} => r.clear_on_stop)
    /\ r.pc = "exited" => Idle(r) /\ r.pending = 0 /\ r.last = {} /\ r.stop

\* Revisions grow: a pending request is newer than the run under way, none is
\* newer than the latest snapshot, and only a worker that was seen has that.
WorkerRevisions(w) ==
    /\ worker[w].pending <= Revision
    /\ worker[w].ws <= Revision
    /\ worker[w].pending # 0 => worker[w].ws <= worker[w].pending
    /\ UpToShutdown /\ Revision # 0 /\ Revision \in {worker[w].pending, worker[w].ws}
          => w \in seen

\* Worker w will remove, or replace, the marker of u.
Covers(w, u) ==
    \/ u \in worker[w].set
    \/ u \in worker[w].old
    \/ u \in worker[w].last /\ worker[w].pc \in {"wait", "collect"}

MarkersCovered ==
    ~Stopping => \A u \in Uris : shown[u] # 0 => \E w \in WorkerIds : Covers(w, u)

WorkerInv ==
    /\ RegistryInv
    /\ \A w \in WorkerIds : WorkerShape(w) /\ WorkerRevisions(w)
    /\ MarkersCovered

-----------------------------------------------------------------------------
(* The client's screen, while documents stay with their projects.          *)

\* Some snapshot has u in project p.
Known(u, p) == \E s \in Snapshots : s.project_index[u] = p

\* What u was last shown is what some project's run had to say of it; if it is
\* the latest revision, that project's worker was seen.
ShownByRun(u) ==
    /\ newest[u] <= Revision
    /\ shown[u] \in {0, newest[u]}
    /\ newest[u] # 0 =>
          \E p \in Projects :
             /\ u \in Collect(published[newest[u]], p)
             /\ UpToShutdown /\ newest[u] = Revision => \E w \in seen : w[1] = p

\* A worker's documents are its project's, and whatever it has still to publish
\* of them is no older than what they were shown.
Ahead(w, u) ==
    /\ u \in worker[w].last \cup worker[w].set => Known(u, w[1])
    /\ Known(u, w[1]) =>
          /\ worker[w].pending # 0 => newest[u] <= worker[w].pending
          /\ worker[w].ws # 0 => newest[u] <= worker[w].ws

\* A worker that was seen has the latest snapshot before it, in hand or done;
\* what it has published of it is on the screen.
Validating(w) ==
    /\ worker[w].pending \in {0, Revision}
    /\ \/ worker[w].pending = Revision
       \/ worker[w].pc = "collect" /\ worker[w].ws = Revision
       \/ /\ worker[w].pc = "publish" /\ worker[w].ws = Revision
          /\ \A u \in worker[w].set \ worker[w].out : shown[u] = Revision
       \/ /\ worker[w].pc = "wait" /\ worker[w].last = Collect(Latest, w[1])
          /\ \A u \in worker[w].last : shown[u] = Revision

ScreenInv ==
    /\ WorkerInv
    /\ \A u \in Uris : ShownByRun(u)
    /\ \A w \in WorkerIds, u \in Uris : Ahead(w, u)
    /\ UpToShutdown => \A w \in seen : Validating(w)
    /\ coordinator = "revalidate" => Revision # 0

-----------------------------------------------------------------------------
(* Facts about a worker's identity and record.                             *)

\* A worker is its project and its mode.
LEMMA WorkerIdFacts ==
  /\ \A w \in WorkerIds : w[1] \in Projects /\ w[2] \in Modes /\ w = <<w[1], w[2]>>
  /\ \A p \in Projects, m \in Modes : <<p, m>> \in WorkerIds /\ <<p, m>>[1] = p
  BY DEF WorkerIds

\* The class that a snapshot gives a project is a class of worker.
LEMMA ModeOfType == \A s, p : ModeOf(s, p) \in Modes
  BY DEF ModeOf, Modes

\* A freed worker's record is of the records' type.
LEMMA NoThreadType == NoThread \in WorkerRecord
  BY DiagWorkersAssumption DEF NoThread, WorkerRecord

\* diag_worker_request() replaces the pending revision and nothing else.
LEMMA RequestFacts ==
  ASSUME NEW q \in WorkerRecord, NEW n \in 0..MaxRev
  PROVE  LET r == Request(q, n) IN
         /\ r \in WorkerRecord /\ r.pending = n
         /\ r.pc = q.pc /\ r.ws = q.ws /\ r.set = q.set /\ r.last = q.last /\ r.out = q.out
         /\ r.old = q.old /\ r.stop = q.stop /\ r.clear_on_stop = q.clear_on_stop
  BY DEF WorkerRecord, Request

\* A step of worker w's thread, which keeps its flags and leaves the registry
\* alone, keeps the registry's invariant.
LEMMA OwnStepRegistry ==
  ASSUME RegistryInv, NEW w \in WorkerIds, Live(w), NEW r \in WorkerRecord,
         worker' = [worker EXCEPT ![w] = r],
         r.pc # "none", r.stop = worker[w].stop,
         r.clear_on_stop = worker[w].clear_on_stop,
         UNCHANGED <<coordinator, baseline, registryVars>>,
         shown' \in [Uris -> 0..MaxRev], newest' \in [Uris -> 0..MaxRev]
  PROVE  RegistryInv'
<1>1. TypeOK'
  BY DEF RegistryInv, TypeOK, registryVars, Revision
<1>2. \A v \in WorkerIds : v # w => worker'[v] = worker[v]
  BY DEF RegistryInv, TypeOK
<1>3. worker'[w] = r
  BY DEF RegistryInv, TypeOK
<1>4. \A v \in WorkerIds : Live(v)' <=> Live(v)
  BY <1>2, <1>3 DEF Live
<1>5. \A v \in WorkerIds : /\ worker'[v].stop = worker[v].stop
                           /\ worker'[v].clear_on_stop = worker[v].clear_on_stop
  BY <1>2, <1>3
<1>6. OneWorkerPerProject'
  BY <1>4 DEF RegistryInv, OneWorkerPerProject
<1>7. RegistryThreads'
  BY <1>4, <1>5 DEF RegistryInv, RegistryThreads, registryVars
<1>8. RegistrySeen'
  BY DEF RegistryInv, RegistrySeen, UpToShutdown, registryVars
<1>9. QED
  BY <1>1, <1>6, <1>7, <1>8 DEF RegistryInv

\* The same with the workers' part: it is enough to look at worker w, and to
\* see that no marker loses the worker that covers it.
LEMMA OwnStepWorkers ==
  ASSUME WorkerInv, NEW w \in WorkerIds, Live(w), NEW r \in WorkerRecord,
         worker' = [worker EXCEPT ![w] = r],
         r.pc # "none", r.stop = worker[w].stop,
         r.clear_on_stop = worker[w].clear_on_stop,
         UNCHANGED <<coordinator, baseline, registryVars>>,
         shown' \in [Uris -> 0..MaxRev], newest' \in [Uris -> 0..MaxRev],
         WorkerShape(w)', WorkerRevisions(w)',
         \A u \in Uris : ~Stopping /\ shown'[u] # 0 =>
            Covers(w, u)' \/ (shown[u] # 0 /\ ~Covers(w, u))
  PROVE  WorkerInv'
<1>1. RegistryInv'
  BY OwnStepRegistry DEF WorkerInv
<1>2. \A v \in WorkerIds : v # w => worker'[v] = worker[v]
  BY DEF WorkerInv, RegistryInv, TypeOK
<1>3. \A v \in WorkerIds : WorkerShape(v)'
  BY <1>2 DEF WorkerInv, WorkerShape, registryVars
<1>4. \A v \in WorkerIds : WorkerRevisions(v)'
  BY <1>2 DEF WorkerInv, WorkerRevisions, UpToShutdown, Revision, registryVars
<1>5. MarkersCovered'
  <2>1. SUFFICES ASSUME ~Stopping, NEW u \in Uris, shown'[u] # 0, ~Covers(w, u)'
                 PROVE  \E v \in WorkerIds : Covers(v, u)'
    BY DEF MarkersCovered, Stopping
  <2>2. PICK v \in WorkerIds : Covers(v, u)
    BY <2>1 DEF WorkerInv, MarkersCovered
  <2>3. v # w
    BY <2>1, <2>2
  <2>4. QED
    BY <1>2, <2>2, <2>3 DEF Covers
<1>6. QED
  BY <1>1, <1>3, <1>4, <1>5 DEF WorkerInv

-----------------------------------------------------------------------------
(* The steps of a worker thread.                                           *)

\* diag_worker_main() takes the pending snapshot.
LEMMA TakeWorkers ==
  ASSUME WorkerInv, NEW w \in WorkerIds, Take(w) PROVE WorkerInv'
<1> DEFINE q == worker[w]
           r == worker'[w]
<1>1. /\ q \in WorkerRecord /\ WorkerShape(w) /\ WorkerRevisions(w) /\ Revision \in Nat
      /\ q.pc = "wait" /\ q.pending # 0
  BY DEF WorkerInv, RegistryInv, TypeOK, Take
<1>2. /\ worker' = [worker EXCEPT ![w] = r] /\ r \in WorkerRecord
      /\ r.pc = "collect" /\ r.pending = 0 /\ r.ws = q.pending
      /\ r.set = q.set /\ r.out = q.out /\ r.old = q.old /\ r.last = q.last
      /\ r.stop = q.stop /\ r.clear_on_stop = q.clear_on_stop
  BY DiagWorkersAssumption DEF WorkerInv, RegistryInv, TypeOK, Take, WorkerRecord
<1>3. UNCHANGED <<coordinator, baseline, registryVars, published, seen, shown, newest, Revision>>
  BY DEF Take, clientVars, registryVars, Revision
<1> HIDE DEF q, r
<1>4. WorkerShape(w)'
  BY <1>1, <1>2 DEF WorkerShape, Idle, q, r
<1>5. WorkerRevisions(w)'
  BY <1>1, <1>2, <1>3 DEF WorkerRevisions, UpToShutdown, WorkerRecord, q, r
<1>6. \A u \in Uris : Covers(w, u) => Covers(w, u)'
  BY <1>1, <1>2 DEF Covers, WorkerShape, Idle, q, r
<1>7. Live(w) /\ r.pc # "none"
  BY <1>1, <1>2 DEF Live, q
<1>8. QED
  BY <1>2, <1>3, <1>4, <1>5, <1>6, <1>7, OwnStepWorkers DEF WorkerInv, RegistryInv, TypeOK, q

\* What a run has to say is about documents.
LEMMA CollectType == \A s, p : Collect(s, p) \subseteq Uris
  BY DEF Collect, CcMissing, Tj3Collect, Members

\* run_once() has its set; what vanished since the last one is still to be
\* cleared, so that no marker is lost sight of.
LEMMA CollectedWorkers ==
  ASSUME WorkerInv, NEW w \in WorkerIds, Collected(w) PROVE WorkerInv'
<1> DEFINE q == worker[w]
           r == worker'[w]
           set == Collect(published[q.ws], w[1])
<1>1. /\ q \in WorkerRecord /\ WorkerShape(w) /\ WorkerRevisions(w) /\ Revision \in Nat
      /\ q.pc = "collect"
  BY DEF WorkerInv, RegistryInv, TypeOK, Collected
<1>2. set \subseteq Uris
  BY CollectType
<1> HIDE DEF set
<1>3. /\ worker' = [worker EXCEPT ![w] = r] /\ r \in WorkerRecord
      /\ r.pc = "publish" /\ r.set = set /\ r.out = set /\ r.old = q.last \ set
      /\ r.pending = q.pending /\ r.ws = q.ws /\ r.last = q.last
      /\ r.stop = q.stop /\ r.clear_on_stop = q.clear_on_stop
  BY <1>1, <1>2 DEF WorkerInv, RegistryInv, TypeOK, Collected, WorkerRecord, Vanished, set
<1>4. UNCHANGED <<coordinator, baseline, registryVars, published, seen, shown, newest, Revision>>
  BY DEF Collected, clientVars, registryVars, Revision
<1> HIDE DEF q, r
<1>5. WorkerShape(w)'
  BY <1>1, <1>3, <1>4 DEF WorkerShape, q, r, set
<1>6. WorkerRevisions(w)'
  BY <1>1, <1>3, <1>4 DEF WorkerRevisions, UpToShutdown, WorkerRecord, q, r
<1>7. \A u \in Uris : Covers(w, u) => Covers(w, u)'
  BY <1>1, <1>3 DEF Covers, WorkerShape, q, r
<1>8. Live(w) /\ r.pc # "none"
  BY <1>1, <1>3 DEF Live, q
<1>9. QED
  BY <1>3, <1>4, <1>5, <1>6, <1>7, <1>8, OwnStepWorkers DEF WorkerInv, RegistryInv, TypeOK, q

\* diag_set_publish() writes a document of the set, which covers its marker.
LEMMA PublishWorkers ==
  ASSUME WorkerInv, NEW w \in WorkerIds, NEW u \in Uris, Publish(w, u) PROVE WorkerInv'
<1> DEFINE q == worker[w]
           r == worker'[w]
<1>1. /\ q \in WorkerRecord /\ WorkerShape(w) /\ WorkerRevisions(w) /\ Revision \in Nat
      /\ q.pc = "publish" /\ u \in q.out
  BY DEF WorkerInv, RegistryInv, TypeOK, Publish
<1>2. /\ worker' = [worker EXCEPT ![w] = r] /\ r \in WorkerRecord
      /\ r.out = q.out \ {u} /\ r.set = q.set /\ r.old = q.old /\ r.last = q.last
      /\ r.pc = q.pc /\ r.pending = q.pending /\ r.ws = q.ws
      /\ r.stop = q.stop /\ r.clear_on_stop = q.clear_on_stop
  BY <1>1 DEF WorkerInv, RegistryInv, TypeOK, Publish, WorkerRecord
<1>3. UNCHANGED <<coordinator, baseline, registryVars, published, seen, Revision>>
  BY DEF Publish, registryVars, Revision
<1>4. q.ws \in 0..MaxRev
  BY <1>1 DEF WorkerRecord
<1>5. /\ shown' \in [Uris -> 0..MaxRev] /\ newest' \in [Uris -> 0..MaxRev]
      /\ \A x \in Uris : x # u => shown'[x] = shown[x]
  BY <1>4 DEF Publish, Show, WorkerInv, RegistryInv, TypeOK
<1> HIDE DEF q, r
<1>6. WorkerShape(w)'
  BY <1>1, <1>2, <1>3 DEF WorkerShape, q, r
<1>7. WorkerRevisions(w)'
  BY <1>1, <1>2, <1>3 DEF WorkerRevisions, UpToShutdown, WorkerRecord, q, r
<1>8. \A x \in Uris : (Covers(w, x) => Covers(w, x)') /\ Covers(w, u)'
  BY <1>1, <1>2 DEF Covers, WorkerShape, q, r
<1>9. Live(w) /\ r.pc # "none"
  BY <1>1, <1>2 DEF Live, q
<1>10. QED
  BY <1>2, <1>3, <1>5, <1>6, <1>7, <1>8, <1>9, OwnStepWorkers DEF q

\* diag_set_publish() or clear_published() writes an empty list: that document
\* has no marker left to cover.
LEMMA ClearOldWorkers ==
  ASSUME WorkerInv, NEW w \in WorkerIds, NEW u \in Uris, ClearOld(w, u) PROVE WorkerInv'
<1> DEFINE q == worker[w]
           r == worker'[w]
<1>1. /\ q \in WorkerRecord /\ WorkerShape(w) /\ WorkerRevisions(w) /\ Revision \in Nat
      /\ q.pc \in {"publish", "stopping"} /\ u \in q.old
  BY DEF WorkerInv, RegistryInv, TypeOK, ClearOld
<1>2. /\ worker' = [worker EXCEPT ![w] = r] /\ r \in WorkerRecord
      /\ r.old = q.old \ {u} /\ r.set = q.set /\ r.out = q.out /\ r.last = q.last
      /\ r.pc = q.pc /\ r.pending = q.pending /\ r.ws = q.ws
      /\ r.stop = q.stop /\ r.clear_on_stop = q.clear_on_stop
  BY <1>1 DEF WorkerInv, RegistryInv, TypeOK, ClearOld, WorkerRecord
<1>3. UNCHANGED <<coordinator, baseline, registryVars, published, seen, Revision, newest>>
  BY DEF ClearOld, Clear, registryVars, Revision
<1>4. /\ shown' \in [Uris -> 0..MaxRev] /\ newest' \in [Uris -> 0..MaxRev]
      /\ \A x \in Uris : x # u => shown'[x] = shown[x]
      /\ shown'[u] = 0
  BY DiagWorkersAssumption DEF ClearOld, Clear, WorkerInv, RegistryInv, TypeOK
<1> HIDE DEF q, r
<1>5. WorkerShape(w)'
  BY <1>1, <1>2, <1>3 DEF WorkerShape, q, r
<1>6. WorkerRevisions(w)'
  BY <1>1, <1>2, <1>3 DEF WorkerRevisions, UpToShutdown, WorkerRecord, q, r
<1>7. \A x \in Uris : x # u => (Covers(w, x) => Covers(w, x)')
  BY <1>1, <1>2 DEF Covers, q, r
<1>8. Live(w) /\ r.pc # "none"
  BY <1>1, <1>2 DEF Live, q
<1>9. QED
  BY <1>2, <1>3, <1>4, <1>5, <1>6, <1>7, <1>8, OwnStepWorkers DEF q

\* run_once() remembers the set it has published as the last one.
LEMMA EndRunWorkers ==
  ASSUME WorkerInv, NEW w \in WorkerIds, EndRun(w) PROVE WorkerInv'
<1> DEFINE q == worker[w]
           r == worker'[w]
<1>1. /\ q \in WorkerRecord /\ WorkerShape(w) /\ WorkerRevisions(w) /\ Revision \in Nat
      /\ q.pc = "publish" /\ q.out = {} /\ q.old = {} /\ q.set \in SUBSET Uris
      /\ 0 \in 0..MaxRev
  BY DiagWorkersAssumption DEF WorkerInv, RegistryInv, TypeOK, EndRun, WorkerRecord
<1>2. /\ worker' = [worker EXCEPT ![w] = r] /\ r \in WorkerRecord
      /\ r.pc = "wait" /\ r.last = q.set /\ r.set = {} /\ r.ws = 0
      /\ r.out = q.out /\ r.old = q.old /\ r.pending = q.pending
      /\ r.stop = q.stop /\ r.clear_on_stop = q.clear_on_stop
  BY <1>1 DEF WorkerInv, RegistryInv, TypeOK, EndRun, WorkerRecord
<1>3. UNCHANGED <<coordinator, baseline, registryVars, published, seen, shown, newest, Revision>>
  BY DEF EndRun, clientVars, registryVars, Revision
<1> HIDE DEF q, r
<1>4. WorkerShape(w)'
  BY <1>1, <1>2 DEF WorkerShape, Idle, q, r
<1>5. WorkerRevisions(w)'
  BY <1>1, <1>2, <1>3 DEF WorkerRevisions, UpToShutdown, WorkerRecord, q, r
<1>6. \A u \in Uris : Covers(w, u) => Covers(w, u)'
  BY <1>1, <1>2 DEF Covers, q, r
<1>7. Live(w) /\ r.pc # "none"
  BY <1>1, <1>2 DEF Live, q
<1>8. QED
  BY <1>2, <1>3, <1>4, <1>5, <1>6, <1>7, OwnStepWorkers DEF WorkerInv, RegistryInv, TypeOK, q

\* A worker that is told to stop in mid-session has all of its last set to clear.
LEMMA StopWorkers ==
  ASSUME WorkerInv, NEW w \in WorkerIds, Stop(w) PROVE WorkerInv'
<1> DEFINE q == worker[w]
           r == worker'[w]
           old == IF worker[w].clear_on_stop THEN worker[w].last ELSE {}
<1>1. /\ q \in WorkerRecord /\ WorkerShape(w) /\ WorkerRevisions(w) /\ Revision \in Nat
      /\ q.pc = "wait" /\ q.stop /\ old \in SUBSET Uris /\ 0 \in 0..MaxRev
      /\ worker' = [worker EXCEPT ![w].pc = "stopping", ![w].pending = 0, ![w].old = old]
  BY DiagWorkersAssumption DEF WorkerInv, RegistryInv, TypeOK, Stop, WorkerRecord
<1> HIDE DEF old
<1>2. /\ worker' = [worker EXCEPT ![w] = r] /\ r \in WorkerRecord
      /\ r.pc = "stopping" /\ r.pending = 0
      /\ r.old = old
      /\ r.last = q.last /\ r.set = q.set /\ r.out = q.out /\ r.ws = q.ws
      /\ r.stop = q.stop /\ r.clear_on_stop = q.clear_on_stop
  BY <1>1 DEF WorkerInv, RegistryInv, TypeOK, WorkerRecord
<1>3. UNCHANGED <<coordinator, baseline, registryVars, published, seen, shown, newest, Revision>>
  BY DEF Stop, clientVars, registryVars, Revision
<1>4. ~Stopping => q.clear_on_stop
  BY <1>1, DiagWorkersAssumption
     DEF WorkerInv, RegistryInv, TypeOK, RegistryThreads, Stopping, Live
<1> HIDE DEF q, r
<1>5. WorkerShape(w)'
  BY <1>1, <1>2 DEF WorkerShape, Idle, q, r, old
<1>6. WorkerRevisions(w)'
  BY <1>1, <1>2, <1>3 DEF WorkerRevisions, UpToShutdown, WorkerRecord, q, r
<1>7. ~Stopping => \A u \in Uris : Covers(w, u) => Covers(w, u)'
  BY <1>1, <1>2, <1>4 DEF Covers, WorkerShape, Idle, q, r, old
<1>8. Live(w) /\ r.pc # "none"
  BY <1>1, <1>2 DEF Live, q
<1>9. QED
  BY <1>2, <1>3, <1>5, <1>6, <1>7, <1>8, OwnStepWorkers DEF WorkerInv, RegistryInv, TypeOK, q

\* The thread ends with nothing left to clear.
LEMMA ExitWorkers ==
  ASSUME WorkerInv, NEW w \in WorkerIds, Exit(w) PROVE WorkerInv'
<1> DEFINE q == worker[w]
           r == worker'[w]
<1>1. /\ q \in WorkerRecord /\ WorkerShape(w) /\ WorkerRevisions(w) /\ Revision \in Nat
      /\ q.pc = "stopping" /\ q.old = {}
  BY DEF WorkerInv, RegistryInv, TypeOK, Exit
<1>2. /\ worker' = [worker EXCEPT ![w] = r] /\ r \in WorkerRecord
      /\ r.pc = "exited" /\ r.last = {}
      /\ r.set = q.set /\ r.out = q.out /\ r.old = q.old
      /\ r.ws = q.ws /\ r.pending = q.pending
      /\ r.stop = q.stop /\ r.clear_on_stop = q.clear_on_stop
  BY DEF WorkerInv, RegistryInv, TypeOK, Exit, WorkerRecord
<1>3. UNCHANGED <<coordinator, baseline, registryVars, published, seen, shown, newest, Revision>>
  BY DEF Exit, clientVars, registryVars, Revision
<1> HIDE DEF q, r
<1>4. WorkerShape(w)'
  BY <1>1, <1>2 DEF WorkerShape, Idle, q, r
<1>5. WorkerRevisions(w)'
  BY <1>1, <1>2, <1>3 DEF WorkerRevisions, UpToShutdown, WorkerRecord, q, r
<1>6. \A u \in Uris : Covers(w, u) => Covers(w, u)'
  BY <1>1, <1>2 DEF Covers, WorkerShape, q, r
<1>7. Live(w) /\ r.pc # "none"
  BY <1>1, <1>2 DEF Live, q
<1>8. QED
  BY <1>2, <1>3, <1>4, <1>5, <1>6, <1>7, OwnStepWorkers DEF WorkerInv, RegistryInv, TypeOK, q

-----------------------------------------------------------------------------
(* The steps of the coordinator.                                           *)

\* A new snapshot leaves the earlier ones at their revisions.
LEMMA PublishedGrows ==
  ASSUME published \in Seq(Snapshots), NEW s \in Snapshots, published' = Append(published, s)
  PROVE  /\ published' \in Seq(Snapshots)
         /\ Revision \in Nat /\ Revision' = Revision + 1
         /\ \A i \in 1..Revision : published'[i] = published[i]
         /\ Latest' = s
  BY DEF Revision, Latest

\* publish_workspace_snapshot(): the new revision is ahead of every worker, and
\* no worker has been seen yet.
LEMMA RevalidateWorkers ==
  ASSUME WorkerInv, NEW s \in Snapshots, Revalidate(s) PROVE WorkerInv'
<1>1. /\ TypeOK /\ RegistryThreads /\ RegistrySeen /\ OneWorkerPerProject
      /\ coordinator = "idle" /\ coordinator' = "revalidate" /\ seen' = {}
      /\ todo' = s.projects /\ baseline' = s.editor /\ Revision < MaxRev
      /\ UNCHANGED <<g_workers, joining, spawn_failures, worker, shown, newest>>
  BY DEF WorkerInv, RegistryInv, Revalidate, clientVars
<1>2. /\ published' \in Seq(Snapshots)
      /\ Revision \in Nat /\ Revision' = Revision + 1
      /\ \A i \in 1..Revision : published'[i] = published[i]
  BY PublishedGrows DEF Revalidate, WorkerInv, RegistryInv, TypeOK
<1>3. s.projects \subseteq Projects /\ s.editor \subseteq Uris
  BY DiagWorkersAssumption DEF Snapshot
<1>4. TypeOK'
  BY <1>1, <1>2, <1>3, DiagWorkersAssumption DEF TypeOK
<1>5. joining = NoWorker
  BY <1>1 DEF RegistryThreads
<1>6. OneWorkerPerProject' /\ RegistryThreads' /\ RegistrySeen'
  BY <1>1, <1>5, DiagWorkersAssumption
     DEF OneWorkerPerProject, RegistryThreads, RegistrySeen, Live, UpToShutdown, TypeOK
<1>7. ASSUME NEW w \in WorkerIds PROVE WorkerShape(w)' /\ WorkerRevisions(w)'
  <2>1. /\ worker'[w] = worker[w] /\ worker[w] \in WorkerRecord
        /\ WorkerShape(w) /\ WorkerRevisions(w)
        /\ worker[w].ws \in Nat /\ worker[w].pending \in Nat
    BY <1>1, DiagWorkersAssumption DEF WorkerInv, TypeOK, WorkerRecord
  <2>2. worker[w].ws # 0 => published'[worker[w].ws] = published[worker[w].ws]
    BY <1>2, <2>1 DEF WorkerRevisions
  <2>3. WorkerShape(w)'
    BY <2>1, <2>2 DEF WorkerShape, Idle
  <2>4. WorkerRevisions(w)'
    BY <1>2, <2>1 DEF WorkerRevisions
  <2>5. QED
    BY <2>3, <2>4
<1>8. MarkersCovered'
  BY <1>1 DEF WorkerInv, MarkersCovered, Covers, Stopping
<1>9. QED
  BY <1>4, <1>6, <1>7, <1>8 DEF WorkerInv, RegistryInv

\* republish_all_diagnostics() only takes markers away.
LEMMA BaselineWorkers ==
  ASSUME WorkerInv, NEW u \in Uris, Baseline(u) PROVE WorkerInv'
<1>1. /\ TypeOK /\ RegistryThreads /\ RegistrySeen /\ OneWorkerPerProject
      /\ u \in baseline /\ baseline' = baseline \ {u}
      /\ UNCHANGED <<coordinator, published, todo, seen, g_workers, joining,
                     spawn_failures, worker, newest>>
      /\ UNCHANGED Revision
  BY DEF WorkerInv, RegistryInv, Baseline, registryVars, Clear, Revision
<1>2. /\ shown' \in [Uris -> 0..MaxRev]
      /\ \A x \in Uris : shown'[x] # 0 => shown[x] # 0
  BY DiagWorkersAssumption, <1>1 DEF Baseline, Clear, TypeOK
<1>3. TypeOK'
  BY <1>1, <1>2 DEF TypeOK
<1>4. OneWorkerPerProject' /\ RegistryThreads' /\ RegistrySeen'
  BY <1>1 DEF OneWorkerPerProject, RegistryThreads, RegistrySeen, Live, UpToShutdown
<1>5. \A w \in WorkerIds : WorkerShape(w)' /\ WorkerRevisions(w)'
  BY <1>1 DEF WorkerInv, WorkerShape, WorkerRevisions, UpToShutdown
<1>6. MarkersCovered'
  BY <1>1, <1>2 DEF WorkerInv, MarkersCovered, Covers, Stopping
<1>7. QED
  BY <1>3, <1>4, <1>5, <1>6 DEF WorkerInv, RegistryInv

\* diag_worker_request(): a worker that has not been seen works on an earlier
\* revision, if at all, and now has the latest one pending.
LEMMA RequestExistingWorkers ==
  ASSUME WorkerInv, NEW p \in Projects, RequestExisting(p) PROVE WorkerInv'
<1> DEFINE w == <<p, ModeOf(Latest, p)>>
<1>1. /\ TypeOK /\ RegistryThreads /\ RegistrySeen /\ OneWorkerPerProject
      /\ coordinator = "revalidate" /\ baseline = {} /\ joining = NoWorker
      /\ p \in todo /\ w \in g_workers /\ todo' = todo \ {p} /\ seen' = seen \cup {w}
      /\ worker' = [worker EXCEPT ![w] = Request(@, Revision)]
      /\ UNCHANGED <<coordinator, published, baseline, g_workers, joining,
                     spawn_failures, shown, newest, Revision>>
  BY DEF WorkerInv, RegistryInv, RequestExisting, Updating, clientVars, Revision
<1>2. w \in WorkerIds /\ w[1] = p /\ Revision \in 0..MaxRev
  BY <1>1 DEF TypeOK
<1> HIDE DEF w
<1> DEFINE q == worker[w]
           r == worker'[w]
<1>3. /\ q \in WorkerRecord /\ r \in WorkerRecord /\ r.pending = Revision
      /\ r.pc = q.pc /\ r.ws = q.ws /\ r.set = q.set /\ r.last = q.last /\ r.out = q.out
      /\ r.old = q.old /\ r.stop = q.stop /\ r.clear_on_stop = q.clear_on_stop
      /\ \A v \in WorkerIds : v # w => worker'[v] = worker[v]
      /\ worker' \in [WorkerIds -> WorkerRecord]
  BY <1>1, <1>2, RequestFacts DEF TypeOK
<1> HIDE DEF q, r
<1>4. TypeOK'
  BY <1>1, <1>2, <1>3 DEF TypeOK
<1>5. \A v \in WorkerIds : /\ Live(v)' <=> Live(v)
                           /\ worker'[v].stop = worker[v].stop
                           /\ worker'[v].clear_on_stop = worker[v].clear_on_stop
  BY <1>3 DEF Live, q, r
<1>6. OneWorkerPerProject' /\ RegistryThreads'
  BY <1>1, <1>5 DEF OneWorkerPerProject, RegistryThreads
<1>7. RegistrySeen'
  BY <1>1, <1>2 DEF RegistrySeen, UpToShutdown
<1>8. ~q.stop /\ q.pc # "none" /\ q.pc # "stopping" /\ q.pc # "exited"
  <2>1. ~q.stop /\ q.pc # "none"
    BY <1>1, <1>2, DiagWorkersAssumption DEF RegistryThreads, Live, q
  <2>2. q.pc # "stopping"
    BY <1>2, <2>1 DEF WorkerInv, WorkerShape, q
  <2>3. q.pc # "exited"
    BY <1>1, <1>2, <2>1 DEF WorkerInv, WorkerShape, q
  <2>4. QED
    BY <2>1, <2>2, <2>3
<1>9. \A v \in WorkerIds : WorkerShape(v)'
  BY <1>1, <1>2, <1>3, <1>8 DEF WorkerInv, WorkerShape, Idle, q, r
<1>10. \A v \in WorkerIds : WorkerRevisions(v)'
  BY <1>1, <1>2, <1>3 DEF WorkerInv, WorkerRevisions, UpToShutdown, WorkerRecord, q, r
<1>11. MarkersCovered'
  BY <1>1, <1>3 DEF WorkerInv, MarkersCovered, Covers, Stopping, q, r
<1>12. QED
  BY <1>4, <1>6, <1>7, <1>9, <1>10, <1>11 DEF WorkerInv, RegistryInv

\* A new worker's record, with the latest revision pending.
LEMMA SpawnFacts ==
  ASSUME NEW n \in 0..MaxRev
  PROVE  LET r == Request([NoThread EXCEPT !.pc = "wait"], n) IN
         /\ r \in WorkerRecord /\ r.pc = "wait" /\ r.pending = n /\ Idle(r) /\ r.last = {}
         /\ ~r.stop /\ ~r.clear_on_stop
<1> DEFINE q == [NoThread EXCEPT !.pc = "wait"]
<1>1. \A x \in WorkerRecord : LET y == [x EXCEPT !.pc = "wait"] IN
        /\ y \in WorkerRecord /\ y.pc = "wait" /\ y.ws = x.ws /\ y.set = x.set
        /\ y.last = x.last /\ y.out = x.out /\ y.old = x.old
        /\ y.stop = x.stop /\ y.clear_on_stop = x.clear_on_stop
  BY DEF WorkerRecord
<1>2. /\ NoThread.ws = 0 /\ NoThread.set = {} /\ NoThread.last = {} /\ NoThread.out = {}
      /\ NoThread.old = {} /\ ~NoThread.stop /\ ~NoThread.clear_on_stop
  BY DEF NoThread
<1>3. /\ q \in WorkerRecord /\ q.pc = "wait" /\ Idle(q) /\ q.last = {}
      /\ ~q.stop /\ ~q.clear_on_stop
  BY <1>1, <1>2, NoThreadType DEF Idle
<1> HIDE DEF q
<1>4. QED
  BY <1>3, RequestFacts DEF Idle, q

\* acquire_project_worker() starts a worker only where the project has none left,
\* not even one that is being joined.
LEMMA SpawnWorkerWorkers ==
  ASSUME WorkerInv, NEW p \in Projects, SpawnWorker(p) PROVE WorkerInv'
<1> DEFINE w == <<p, ModeOf(Latest, p)>>
<1>1. /\ TypeOK /\ RegistryThreads /\ RegistrySeen /\ OneWorkerPerProject
      /\ coordinator = "revalidate" /\ baseline = {} /\ joining = NoWorker
      /\ p \in todo /\ todo' = todo \ {p} /\ seen' = seen \cup {w}
      /\ g_workers' = g_workers \cup {w}
      /\ worker' = [worker EXCEPT ![w] = Request([NoThread EXCEPT !.pc = "wait"], Revision)]
      /\ UNCHANGED <<coordinator, published, baseline, joining,
                     spawn_failures, shown, newest, Revision>>
  BY DEF WorkerInv, RegistryInv, SpawnWorker, Updating, clientVars, Revision
<1>2. w \in WorkerIds /\ w[1] = p /\ Revision \in 0..MaxRev
  BY <1>1, WorkerIdFacts, ModeOfType DEF TypeOK
<1>3. \A v \in WorkerIds : v[1] = p => ~Live(v)
  <2>1. \A v \in WorkerIds : v[1] = p => v \notin g_workers
    BY WorkerIdFacts DEF SpawnWorker, HasWorker
  <2>2. QED
    BY <1>1, <2>1, DiagWorkersAssumption DEF RegistryThreads
<1> HIDE DEF w
<1> DEFINE r == worker'[w]
<1>4. /\ r \in WorkerRecord /\ r.pc = "wait" /\ r.pending = Revision /\ Idle(r) /\ r.last = {}
      /\ ~r.stop /\ ~r.clear_on_stop
      /\ \A v \in WorkerIds : v # w => worker'[v] = worker[v]
      /\ worker' \in [WorkerIds -> WorkerRecord]
  BY <1>1, <1>2, SpawnFacts DEF TypeOK
<1> HIDE DEF r
<1>5. TypeOK'
  BY <1>1, <1>2, <1>4 DEF TypeOK
<1>6. OneWorkerPerProject'
  BY <1>1, <1>2, <1>3, <1>4 DEF OneWorkerPerProject, Live
<1>7. RegistryThreads'
  <2>1. \A v \in WorkerIds : Live(v)' <=> (v \in g_workers' \/ v = joining')
    BY <1>1, <1>2, <1>4 DEF RegistryThreads, Live, r
  <2>2. joining' \notin g_workers'
    BY <1>1, <1>2, DiagWorkersAssumption DEF RegistryThreads
  <2>3. \A v \in WorkerIds :
          /\ worker'[v].stop => v = joining'
          /\ worker'[v].clear_on_stop <=> (v = joining' /\ coordinator' = "revalidate")
    BY <1>1, <1>2, <1>4, DiagWorkersAssumption DEF RegistryThreads, r
  <2>4. QED
    BY <1>1, <2>1, <2>2, <2>3 DEF RegistryThreads
<1>8. RegistrySeen'
  BY <1>1, <1>2 DEF RegistrySeen, UpToShutdown
<1>9. \A v \in WorkerIds : WorkerShape(v)'
  BY <1>1, <1>2, <1>4 DEF WorkerInv, WorkerShape, Idle, r
<1>10. \A v \in WorkerIds : WorkerRevisions(v)'
  BY <1>1, <1>2, <1>4 DEF WorkerInv, WorkerRevisions, UpToShutdown, WorkerRecord, Idle, r
<1>11. MarkersCovered'
  <2>1. \A u \in Uris : ~Covers(w, u)
    BY <1>2, <1>3 DEF WorkerInv, WorkerShape, Covers, Live, NoThread
  <2>2. QED
    BY <1>1, <1>4, <2>1 DEF WorkerInv, MarkersCovered, Covers, Stopping
<1>12. QED
  BY <1>5, <1>6, <1>7, <1>8, <1>9, <1>10, <1>11 DEF WorkerInv, RegistryInv

\* diag_worker_retire() sets the two flags and nothing else.
LEMMA FlagFacts ==
  ASSUME NEW q \in WorkerRecord, NEW b \in BOOLEAN
  PROVE  LET r == [q EXCEPT !.stop = TRUE, !.clear_on_stop = b] IN
         /\ r \in WorkerRecord /\ r.stop = TRUE /\ r.clear_on_stop = b
         /\ r.pc = q.pc /\ r.pending = q.pending /\ r.ws = q.ws /\ r.set = q.set
         /\ r.last = q.last /\ r.out = q.out /\ r.old = q.old
  BY DEF WorkerRecord

\* diag_worker_retire(): a registered worker of a project that was not seen
\* becomes the one that is joined; it clears its markers unless the server stops.
LEMMA RetireWorkers ==
  ASSUME WorkerInv, NEW w \in g_workers, joining = NoWorker,
         coordinator \in {"revalidate", "shutdown"}, baseline = {},
         coordinator = "revalidate" => \A v \in seen : v[1] # w[1],
         g_workers' = g_workers \ {w},
         Retire(w, coordinator = "revalidate"),
         UNCHANGED <<coordinator, published, baseline, todo, seen, spawn_failures, clientVars>>
  PROVE  WorkerInv'
<1>1. /\ TypeOK /\ RegistryThreads /\ RegistrySeen /\ OneWorkerPerProject
      /\ w \in WorkerIds /\ joining' = w
      /\ UNCHANGED <<coordinator, published, baseline, todo, seen, spawn_failures,
                     shown, newest, Revision>>
  BY DEF WorkerInv, RegistryInv, TypeOK, Retire, clientVars, Revision
<1> DEFINE q == worker[w]
           r == worker'[w]
           clear == coordinator = "revalidate"
<1>2. clear \in BOOLEAN
  OBVIOUS
<1> DEFINE f == [worker[w] EXCEPT !.stop = TRUE, !.clear_on_stop = clear]
<1>3. worker' = [worker EXCEPT ![w] = f]
  BY <1>1 DEF Retire, TypeOK
<1> HIDE DEF clear
<1>q. worker[w] \in WorkerRecord
  BY <1>1 DEF TypeOK
<1>f. /\ f \in WorkerRecord /\ f.stop = TRUE /\ f.clear_on_stop = clear
      /\ f.pc = q.pc /\ f.pending = q.pending /\ f.ws = q.ws /\ f.set = q.set
      /\ f.last = q.last /\ f.out = q.out /\ f.old = q.old
  BY ONLY <1>2, <1>q, FlagFacts, Zenon
<1> HIDE DEF f
<1>4. /\ q \in WorkerRecord /\ r \in WorkerRecord /\ r.stop = TRUE /\ r.clear_on_stop = clear
      /\ r.pc = q.pc /\ r.pending = q.pending /\ r.ws = q.ws /\ r.set = q.set
      /\ r.last = q.last /\ r.out = q.out /\ r.old = q.old
      /\ \A v \in WorkerIds : v # w => worker'[v] = worker[v]
      /\ worker' \in [WorkerIds -> WorkerRecord]
  BY <1>1, <1>3, <1>f DEF TypeOK
<1> HIDE DEF q, r
<1>5. TypeOK'
  BY <1>1, <1>4 DEF TypeOK
<1>6. \A v \in WorkerIds : Live(v)' <=> Live(v)
  BY <1>4 DEF Live, q, r
<1>7. OneWorkerPerProject'
  BY <1>6, <1>1 DEF OneWorkerPerProject
<1>8. RegistryThreads'
  <2>1. \A v \in WorkerIds : Live(v)' <=> (v \in g_workers' \/ v = joining')
    BY <1>1, <1>6, DiagWorkersAssumption DEF RegistryThreads
  <2>2. \A v \in WorkerIds :
          /\ worker'[v].stop => v = joining'
          /\ worker'[v].clear_on_stop <=> (v = joining' /\ coordinator' = "revalidate")
    BY <1>1, <1>4, DiagWorkersAssumption DEF RegistryThreads, r, clear
  <2>3. QED
    BY <1>1, <2>1, <2>2 DEF RegistryThreads
<1>9. RegistrySeen'
  BY <1>1 DEF RegistrySeen, UpToShutdown
<1>10. q.pc # "stopping"
  BY <1>1, DiagWorkersAssumption DEF WorkerInv, WorkerShape, RegistryThreads, q
<1>11. q.pc # "none"
  BY <1>1 DEF RegistryThreads, Live, q
<1>12. \A v \in WorkerIds : WorkerShape(v)'
  BY <1>1, <1>4, <1>10, <1>11 DEF WorkerInv, WorkerShape, Idle, q, r
<1>13. \A v \in WorkerIds : WorkerRevisions(v)'
  BY <1>1, <1>4 DEF WorkerInv, WorkerRevisions, UpToShutdown, q, r
<1>14. MarkersCovered'
  BY <1>1, <1>4 DEF WorkerInv, MarkersCovered, Covers, Stopping, q, r
<1>15. QED
  BY <1>5, <1>7, <1>8, <1>9, <1>12, <1>13, <1>14 DEF WorkerInv, RegistryInv

\* acquire_project_worker() retires the worker of the other class.
LEMMA RetireFlippedWorkers ==
  ASSUME WorkerInv, NEW p \in Projects, RetireFlipped(p) PROVE WorkerInv'
<1>1. /\ coordinator = "revalidate" /\ baseline = {} /\ joining = NoWorker /\ p \in todo
      /\ RegistrySeen
  BY DEF WorkerInv, RegistryInv, RetireFlipped, Updating
<1>2. PICK m \in Modes : /\ <<p, m>> \in g_workers
                         /\ g_workers' = g_workers \ {<<p, m>>}
                         /\ Retire(<<p, m>>, TRUE)
  BY DEF RetireFlipped
<1>3. \A v \in seen : v[1] # <<p, m>>[1]
  BY <1>1 DEF RegistrySeen, UpToShutdown
<1>4. Retire(<<p, m>>, coordinator = "revalidate")
  BY <1>1, <1>2 DEF Retire
<1>5. QED
  BY <1>1, <1>2, <1>3, <1>4, RetireWorkers DEF RetireFlipped

\* The sweep retires a worker that was not seen; its project has no other.
LEMMA RetireUnseenWorkers ==
  ASSUME WorkerInv, NEW w \in WorkerIds, RetireUnseen(w) PROVE WorkerInv'
<1>1. /\ coordinator = "revalidate" /\ baseline = {} /\ joining = NoWorker
      /\ w \in g_workers \ seen /\ g_workers' = g_workers \ {w} /\ Retire(w, TRUE)
      /\ RegistrySeen /\ RegistryThreads /\ OneWorkerPerProject /\ TypeOK
  BY DEF WorkerInv, RegistryInv, RetireUnseen, Updating
<1>2. \A v \in seen : v[1] # w[1]
  BY <1>1 DEF RegistrySeen, UpToShutdown, OneWorkerPerProject, RegistryThreads, TypeOK
<1>3. Retire(w, coordinator = "revalidate")
  BY <1>1 DEF Retire
<1>4. QED
  BY <1>1, <1>2, <1>3, RetireWorkers DEF RetireUnseen

\* diag_registry_shutdown() retires a worker, which leaves its markers.
LEMMA RetireAtShutdownWorkers ==
  ASSUME WorkerInv, NEW w \in WorkerIds, RetireAtShutdown(w) PROVE WorkerInv'
<1>1. /\ coordinator = "shutdown" /\ joining = NoWorker
      /\ w \in g_workers /\ g_workers' = g_workers \ {w} /\ Retire(w, FALSE)
  BY DEF RetireAtShutdown
<1>2. Retire(w, coordinator = "revalidate")
  BY <1>1 DEF Retire
<1>3. baseline = {}
  BY <1>1 DEF WorkerInv, RegistryInv, RegistrySeen
<1>4. QED
  BY <1>1, <1>2, <1>3, RetireWorkers DEF RetireAtShutdown

\* pthread_join() and the free: the exited worker covered nothing any more.
LEMMA JoinWorkers ==
  ASSUME WorkerInv, Join PROVE WorkerInv'
<1>0. PICK w \in WorkerIds : w = joining
  BY DEF Join, WorkerInv, RegistryInv, TypeOK
<1>1. /\ TypeOK /\ RegistryThreads /\ RegistrySeen /\ OneWorkerPerProject
      /\ w \in WorkerIds /\ joining' = NoWorker /\ w # NoWorker
      /\ worker' = [worker EXCEPT ![w] = NoThread] /\ worker[w].pc = "exited"
      /\ UNCHANGED <<coordinator, published, baseline, todo, seen, g_workers,
                     spawn_failures, shown, newest, Revision>>
  BY <1>0 DEF WorkerInv, RegistryInv, TypeOK, Join, clientVars, Revision
<1>2. /\ worker'[w] = NoThread /\ NoThread.pc = "none"
      /\ ~NoThread.stop /\ ~NoThread.clear_on_stop
      /\ NoThread.pending = 0 /\ NoThread.ws = 0
      /\ \A v \in WorkerIds : v # w => worker'[v] = worker[v]
      /\ worker' \in [WorkerIds -> WorkerRecord]
  BY <1>1, NoThreadType DEF TypeOK, NoThread
<1>3. TypeOK'
  BY <1>1, <1>2 DEF TypeOK
<1>4. OneWorkerPerProject'
  BY <1>1, <1>2 DEF OneWorkerPerProject, Live
<1>5. RegistryThreads'
  BY <1>0, <1>1, <1>2, DiagWorkersAssumption DEF RegistryThreads, Live, TypeOK
<1>6. RegistrySeen'
  BY <1>1 DEF RegistrySeen, UpToShutdown
<1>7. \A v \in WorkerIds : WorkerShape(v)'
  BY <1>1, <1>2 DEF WorkerInv, WorkerShape, Idle
<1>8. \A v \in WorkerIds : WorkerRevisions(v)'
  <2>1. Revision \in Nat
    BY <1>1 DEF TypeOK
  <2>2. WorkerRevisions(w)'
    BY <1>1, <1>2, <2>1 DEF WorkerRevisions
  <2>3. \A v \in WorkerIds : v # w => WorkerRevisions(v)'
    BY <1>1, <1>2 DEF WorkerInv, WorkerRevisions, UpToShutdown
  <2>4. QED
    BY <2>2, <2>3
<1>9. MarkersCovered'
  <2>1. \A u \in Uris : ~Covers(w, u)
    BY <1>1 DEF WorkerInv, WorkerShape, Idle, Covers
  <2>2. QED
    BY <1>1, <1>2, <2>1 DEF WorkerInv, MarkersCovered, Covers, Stopping
<1>10. QED
  BY <1>3, <1>4, <1>5, <1>6, <1>7, <1>8, <1>9 DEF WorkerInv, RegistryInv

\* The coordinator's other steps leave the workers and the screen alone.
LEMMA CoordinatorOnlyWorkers ==
  ASSUME WorkerInv,
         \/ \E p \in Projects : SpawnFails(p)
         \/ EndUpdate \/ Shutdown \/ EndShutdown \/ UNCHANGED vars
  PROVE  WorkerInv'
<1>1. /\ TypeOK /\ RegistryThreads /\ RegistrySeen /\ OneWorkerPerProject
      /\ UNCHANGED <<published, baseline, seen, g_workers, joining, worker, shown,
                     newest, Revision>>
  BY DEF WorkerInv, RegistryInv, SpawnFails, EndUpdate, Shutdown, EndShutdown, vars,
         registryVars, clientVars, Revision
<1>2. todo' \subseteq todo /\ spawn_failures' \in 0..MaxSpawnFailures
  BY <1>1, DiagWorkersAssumption
     DEF TypeOK, SpawnFails, EndUpdate, Shutdown, EndShutdown, vars, registryVars
<1>3. \/ coordinator' = coordinator
      \/ coordinator = "revalidate" /\ coordinator' = "idle" /\ joining = NoWorker
           /\ todo' = {} /\ g_workers \subseteq seen /\ baseline = {}
      \/ coordinator = "idle" /\ coordinator' = "shutdown"
      \/ coordinator = "shutdown" /\ coordinator' = "exited" /\ joining = NoWorker
  BY DEF SpawnFails, EndUpdate, Shutdown, EndShutdown, vars, registryVars, Updating
<1>4. TypeOK'
  BY <1>1, <1>2, <1>3 DEF TypeOK
<1>5. OneWorkerPerProject'
  BY <1>1 DEF OneWorkerPerProject, Live
<1>6. RegistryThreads'
  BY <1>1, <1>3, DiagWorkersAssumption DEF RegistryThreads, Live
<1>7. RegistrySeen'
  BY <1>1, <1>2, <1>3 DEF RegistrySeen, UpToShutdown
<1>8. \A w \in WorkerIds : WorkerShape(w)' /\ WorkerRevisions(w)'
  BY <1>1, <1>3 DEF WorkerInv, WorkerShape, WorkerRevisions, UpToShutdown
<1>9. MarkersCovered'
  BY <1>1, <1>3 DEF WorkerInv, MarkersCovered, Covers, Stopping
<1>10. QED
  BY <1>4, <1>5, <1>6, <1>7, <1>8, <1>9 DEF WorkerInv, RegistryInv

-----------------------------------------------------------------------------
\* The registry starts empty and the screen without markers.
LEMMA InitWorkers == Init => WorkerInv
<1> SUFFICES ASSUME Init PROVE WorkerInv
  OBVIOUS
<1>1. \A w \in WorkerIds : worker[w] = NoThread
  BY DEF Init
<1>2. TypeOK
  BY NoThreadType, DiagWorkersAssumption DEF Init, TypeOK, Revision
<1>3. /\ NoThread.pc = "none" /\ ~NoThread.stop /\ ~NoThread.clear_on_stop
      /\ NoThread.pending = 0 /\ NoThread.ws = 0 /\ Revision = 0
  BY DEF NoThread, Init, Revision
<1>4. OneWorkerPerProject /\ RegistryThreads /\ RegistrySeen
  BY <1>1, <1>3, DiagWorkersAssumption
     DEF Init, OneWorkerPerProject, RegistryThreads, RegistrySeen, Live
<1>5. \A w \in WorkerIds : WorkerShape(w) /\ WorkerRevisions(w)
  BY <1>1, <1>3 DEF WorkerShape, WorkerRevisions
<1>6. MarkersCovered
  BY DEF Init, MarkersCovered
<1>7. QED
  BY <1>2, <1>4, <1>5, <1>6 DEF WorkerInv, RegistryInv

\* Every step of the coordinator or of a worker keeps the invariant.
LEMMA NextWorkers == WorkerInv /\ [Next]_vars => WorkerInv'
<1> SUFFICES ASSUME WorkerInv, [Next]_vars PROVE WorkerInv'
  OBVIOUS
<1>1. CASE UNCHANGED vars
  BY <1>1, CoordinatorOnlyWorkers
<1>2. CASE \E s \in Snapshots : Revalidate(s)
  BY <1>2, RevalidateWorkers
<1>3. CASE Shutdown
  BY <1>3, CoordinatorOnlyWorkers
<1>4. CASE CoordinatorStep
  BY <1>4, BaselineWorkers, RequestExistingWorkers, SpawnWorkerWorkers,
     RetireFlippedWorkers, RetireUnseenWorkers, RetireAtShutdownWorkers, JoinWorkers,
     CoordinatorOnlyWorkers DEF CoordinatorStep
<1>5. ASSUME NEW w \in WorkerIds, WorkerStep(w) \/ Collected(w) PROVE WorkerInv'
  BY <1>5, TakeWorkers, EndRunWorkers, StopWorkers, ExitWorkers, PublishWorkers,
     ClearOldWorkers, CollectedWorkers DEF WorkerStep
<1>6. QED
  BY <1>1, <1>2, <1>3, <1>4, <1>5 DEF Next, Stopped

\* The registry and the workers agree in every state, whatever the snapshots.
THEOREM WorkersInvariance == SafeSpec => []WorkerInv
  BY InitWorkers, NextWorkers, PTL DEF SafeSpec

\* RegistryOK: of its types, and a project never has two worker threads, because
\* acquire_project_worker() joins the old one before it starts another.
THEOREM RegistryOKAlways == SafeSpec => []RegistryOK
<1>1. WorkerInv => RegistryOK
  BY DEF WorkerInv, RegistryInv, RegistryOK
<1>2. QED
  BY <1>1, WorkersInvariance, PTL

\* NoOrphanMarker: until the server stops, every marker on the screen is in the
\* set of a live worker, also when documents move between projects.
THEOREM NoOrphanMarkerAlways == SafeSpec => []NoOrphanMarker
<1>1. WorkerInv => NoOrphanMarker
  <2>1. SUFFICES ASSUME WorkerInv, ~Stopping, NEW u \in Uris, shown[u] # 0
                 PROVE  \E w \in WorkerIds : Live(w) /\ u \in worker[w].last \cup worker[w].set
    BY DEF NoOrphanMarker
  <2>2. PICK w \in WorkerIds : Covers(w, u)
    BY <2>1 DEF WorkerInv, MarkersCovered
  <2>3. worker[w] \in WorkerRecord /\ WorkerShape(w)
    BY <2>1 DEF WorkerInv, RegistryInv, TypeOK
  <2>4. Live(w) /\ u \in worker[w].last \cup worker[w].set
    BY <2>2, <2>3 DEF Covers, WorkerShape, Idle, Live, WorkerRecord, NoThread
  <2>5. QED
    BY <2>4
<1>2. QED
  BY <1>1, WorkersInvariance, PTL

-----------------------------------------------------------------------------
(* The screen.                                                             *)

\* A document stays with one project.
LEMMA OneProject ==
  ASSUME DocumentsStay, NEW u \in Uris, NEW p \in Projects, NEW q \in Projects,
         Known(u, p), Known(u, q)
  PROVE  p = q
  BY DiagWorkersAssumption DEF DocumentsStay, Known

\* A run's documents are members of its project.
LEMMA CollectKnown ==
  ASSUME TypeOK, NEW i \in 1..Revision, NEW p, NEW u \in Collect(published[i], p)
  PROVE  Known(u, p)
<1>1. published[i] \in Snapshots
  BY DEF TypeOK, Revision
<1>2. QED
  BY <1>1 DEF Collect, CcMissing, Tj3Collect, Members, Known

\* A step of worker w that publishes nothing: only w has to be looked at.
LEMMA OwnStepScreen ==
  ASSUME ScreenInv, WorkerInv', NEW w \in WorkerIds,
         \A v \in WorkerIds : v # w => worker'[v] = worker[v],
         UNCHANGED <<coordinator, baseline, registryVars, clientVars>>,
         \A u \in Uris : Ahead(w, u)',
         UpToShutdown /\ w \in seen => Validating(w)'
  PROVE  ScreenInv'
<1>1. UNCHANGED <<coordinator, published, seen, shown, newest, Revision, Latest>>
  BY DEF registryVars, clientVars, Revision, Latest
<1>2. \A u \in Uris : ShownByRun(u)'
  BY <1>1 DEF ScreenInv, ShownByRun, UpToShutdown
<1>3. \A v \in WorkerIds, u \in Uris : Ahead(v, u)'
  BY <1>1 DEF ScreenInv, Ahead
<1>4. UpToShutdown' => \A v \in seen' : Validating(v)'
  <2>1. seen \subseteq WorkerIds
    BY DEF ScreenInv, WorkerInv, RegistryInv, TypeOK
  <2>2. QED
    BY <1>1, <2>1 DEF ScreenInv, Validating, UpToShutdown
<1>5. QED
  BY <1>1, <1>2, <1>3, <1>4 DEF ScreenInv

\* A worker with a request or a run is live.
LEMMA BusyIsLive ==
  ASSUME WorkerInv, NEW w \in WorkerIds, worker[w].pending # 0 \/ worker[w].ws # 0
  PROVE  Live(w)
  BY DEF WorkerInv, WorkerShape, Live, NoThread

\* The worker being joined is not among those seen.
LEMMA JoiningUnseen ==
  ASSUME WorkerInv, UpToShutdown, NEW w \in WorkerIds, w = joining PROVE w \notin seen
  BY DEF WorkerInv, RegistryInv, RegistryThreads, RegistrySeen

\* Taking the pending snapshot turns a request into a run.
LEMMA TakeScreen ==
  ASSUME ScreenInv, WorkerInv', NEW w \in WorkerIds, Take(w) PROVE ScreenInv'
<1> DEFINE q == worker[w]
           r == worker'[w]
<1>1. /\ q \in WorkerRecord /\ Revision \in Nat /\ q.pc = "wait" /\ q.pending # 0
      /\ \A u \in Uris : Ahead(w, u)
      /\ UpToShutdown /\ w \in seen => Validating(w)
  BY DEF ScreenInv, WorkerInv, RegistryInv, TypeOK, Take
<1>2. /\ \A v \in WorkerIds : v # w => worker'[v] = worker[v]
      /\ r.pc = "collect" /\ r.pending = 0 /\ r.ws = q.pending
      /\ r.set = q.set /\ r.last = q.last
  BY DEF ScreenInv, WorkerInv, RegistryInv, TypeOK, Take, WorkerRecord
<1>3. UNCHANGED <<coordinator, baseline, registryVars, clientVars, newest, Revision>>
  BY DEF Take, clientVars, registryVars, Revision
<1> HIDE DEF q, r
<1>4. \A u \in Uris : Ahead(w, u)'
  BY <1>1, <1>2, <1>3 DEF Ahead, Known, q, r
<1>5. UpToShutdown /\ w \in seen => Validating(w)'
  BY <1>1, <1>2, <1>3 DEF Validating, q, r
<1>6. QED
  BY <1>2, <1>3, <1>4, <1>5, OwnStepScreen

\* The set of a run is of documents that its project has in some snapshot.
LEMMA CollectedScreen ==
  ASSUME ScreenInv, WorkerInv', NEW w \in WorkerIds, Collected(w) PROVE ScreenInv'
<1> DEFINE q == worker[w]
           r == worker'[w]
           set == Collect(published[q.ws], w[1])
<1>1. /\ q \in WorkerRecord /\ Revision \in Nat /\ q.pc = "collect" /\ TypeOK
      /\ WorkerShape(w) /\ WorkerRevisions(w)
      /\ \A u \in Uris : Ahead(w, u)
      /\ UpToShutdown /\ w \in seen => Validating(w)
  BY DEF ScreenInv, WorkerInv, RegistryInv, TypeOK, Collected
<1>2. q.ws \in 1..Revision
  BY <1>1, DiagWorkersAssumption DEF WorkerShape, WorkerRevisions, WorkerRecord
<1>3. \A u \in set : Known(u, w[1])
  BY <1>1, <1>2, CollectKnown
<1> HIDE DEF set
<1>4. /\ \A v \in WorkerIds : v # w => worker'[v] = worker[v]
      /\ r.pc = "publish" /\ r.set = set /\ r.out = set
      /\ r.pending = q.pending /\ r.ws = q.ws /\ r.last = q.last
  BY <1>1 DEF TypeOK, Collected, WorkerRecord, Vanished, set
<1>5. UNCHANGED <<coordinator, baseline, registryVars, clientVars, newest, Revision>>
  BY DEF Collected, clientVars, registryVars, Revision
<1> HIDE DEF q, r
<1>6. \A u \in Uris : Ahead(w, u)'
  BY <1>1, <1>3, <1>4, <1>5 DEF Ahead, Known, q, r
<1>7. UpToShutdown /\ w \in seen => Validating(w)'
  BY <1>1, <1>4, <1>5 DEF Validating, q, r
<1>8. QED
  BY <1>4, <1>5, <1>6, <1>7, OwnStepScreen

\* A run that ends leaves the markers of its set on the screen.
LEMMA EndRunScreen ==
  ASSUME ScreenInv, WorkerInv', NEW w \in WorkerIds, EndRun(w) PROVE ScreenInv'
<1> DEFINE q == worker[w]
           r == worker'[w]
<1>1. /\ q \in WorkerRecord /\ Revision \in Nat /\ q.pc = "publish" /\ q.out = {}
      /\ WorkerShape(w)
      /\ \A u \in Uris : Ahead(w, u)
      /\ UpToShutdown /\ w \in seen => Validating(w)
  BY DEF ScreenInv, WorkerInv, RegistryInv, TypeOK, EndRun
<1>2. /\ \A v \in WorkerIds : v # w => worker'[v] = worker[v]
      /\ r.pc = "wait" /\ r.last = q.set /\ r.set = {} /\ r.ws = 0 /\ r.pending = q.pending
  BY DEF ScreenInv, WorkerInv, RegistryInv, TypeOK, EndRun, WorkerRecord
<1>3. UNCHANGED <<coordinator, baseline, registryVars, clientVars, newest, shown, Revision, Latest>>
  BY DEF EndRun, clientVars, registryVars, Revision, Latest
<1> HIDE DEF q, r
<1>4. \A u \in Uris : Ahead(w, u)'
  BY <1>1, <1>2, <1>3 DEF Ahead, Known, q, r
<1>5. UpToShutdown /\ w \in seen => Validating(w)'
  BY <1>1, <1>2, <1>3 DEF Validating, WorkerShape, Latest, q, r
<1>6. QED
  BY <1>2, <1>3, <1>4, <1>5, OwnStepScreen

\* A worker that stops or exits was retired: it is not among those seen.
LEMMA StopExitScreen ==
  ASSUME ScreenInv, WorkerInv', NEW w \in WorkerIds, Stop(w) \/ Exit(w) PROVE ScreenInv'
<1> DEFINE q == worker[w]
           r == worker'[w]
<1>1. /\ q \in WorkerRecord /\ Revision \in Nat /\ WorkerShape(w)
      /\ \A u \in Uris : Ahead(w, u)
  BY DEF ScreenInv, WorkerInv, RegistryInv, TypeOK
<1>2. /\ \A v \in WorkerIds : v # w => worker'[v] = worker[v]
      /\ r.last \subseteq q.last /\ r.set = q.set /\ r.ws = q.ws
      /\ r.pending = 0 \/ r.pending = q.pending
  <2>1. CASE Stop(w)
    BY <2>1 DEF ScreenInv, WorkerInv, RegistryInv, TypeOK, Stop, WorkerRecord
  <2>2. CASE Exit(w)
    BY <2>2 DEF ScreenInv, WorkerInv, RegistryInv, TypeOK, Exit, WorkerRecord
  <2>3. QED
    BY <2>1, <2>2
<1>3. UNCHANGED <<coordinator, baseline, registryVars, clientVars, newest, Revision>>
  BY DEF Stop, Exit, clientVars, registryVars, Revision
<1>4. q.stop
  BY <1>1 DEF Stop, Exit, WorkerShape
<1>5. UpToShutdown => w \notin seen
  BY <1>4, JoiningUnseen DEF ScreenInv, WorkerInv, RegistryInv, RegistryThreads
<1> HIDE DEF q, r
<1>6. \A u \in Uris : Ahead(w, u)'
  BY <1>1, <1>2, <1>3 DEF Ahead, Known, q, r
<1>7. QED
  BY <1>2, <1>3, <1>5, <1>6, OwnStepScreen

\* Publishing never takes a document back to an earlier revision: the run is at
\* least as new as what the document was shown, since only workers of its own
\* project publish it, one at a time, each request newer than the last.
LEMMA PublishScreen ==
  ASSUME DocumentsStay, ScreenInv, WorkerInv', NEW w \in WorkerIds, NEW u \in Uris,
         Publish(w, u)
  PROVE  ScreenInv'
<1> DEFINE q == worker[w]
           r == worker'[w]
<1>1. /\ q \in WorkerRecord /\ Revision \in Nat /\ q.pc = "publish" /\ u \in q.out /\ TypeOK
      /\ WorkerShape(w) /\ WorkerRevisions(w) /\ OneWorkerPerProject
      /\ w[1] \in Projects /\ Ahead(w, u)
  BY WorkerIdFacts DEF ScreenInv, WorkerInv, RegistryInv, TypeOK, Publish
<1>2. /\ \A v \in WorkerIds : v # w => worker'[v] = worker[v]
      /\ r.out = q.out \ {u} /\ r.set = q.set /\ r.last = q.last
      /\ r.pc = q.pc /\ r.pending = q.pending /\ r.ws = q.ws
  BY <1>1 DEF TypeOK, Publish, WorkerRecord
<1>3. UNCHANGED <<coordinator, published, seen, Revision, Latest>>
  BY DEF Publish, registryVars, Revision, Latest
<1>4. q.ws \in 1..Revision /\ u \in q.set /\ newest[u] \in Nat
  BY <1>1, DiagWorkersAssumption DEF WorkerShape, WorkerRevisions, WorkerRecord, TypeOK
<1>5. Known(u, w[1]) /\ newest[u] <= q.ws
  BY <1>1, <1>4 DEF Ahead
<1>6. /\ shown'[u] = q.ws /\ newest'[u] = q.ws
      /\ \A x \in Uris : x # u => shown'[x] = shown[x] /\ newest'[x] = newest[x]
  BY <1>4, <1>5 DEF Publish, Show, TypeOK, ScreenInv, WorkerInv, RegistryInv
<1> HIDE DEF q, r
<1>7. \A x \in Uris : ShownByRun(x)'
  <2>1. ShownByRun(u)'
    <3>1. u \in Collect(published[q.ws], w[1])
      BY <1>1, <1>4 DEF WorkerShape, q
    <3>2. UpToShutdown /\ q.ws = Revision => w \in seen
      BY <1>1, <1>4 DEF WorkerRevisions, q
    <3>3. QED
      BY <1>1, <1>3, <1>4, <1>6, <3>1, <3>2 DEF ShownByRun, UpToShutdown
  <2>2. \A x \in Uris : x # u => ShownByRun(x)'
    BY <1>3, <1>6 DEF ScreenInv, ShownByRun, UpToShutdown
  <2>3. QED
    BY <2>1, <2>2
<1>8. ASSUME NEW v \in WorkerIds, NEW x \in Uris PROVE Ahead(v, x)'
  <2>1. Ahead(v, x)
    BY DEF ScreenInv
  <2>2. /\ worker'[v].last = worker[v].last /\ worker'[v].set = worker[v].set
        /\ worker'[v].pending = worker[v].pending /\ worker'[v].ws = worker[v].ws
    BY <1>2 DEF q, r
  <2>3. CASE x # u
    BY <1>6, <2>1, <2>2, <2>3 DEF Ahead, Known
  <2>4. CASE x = u /\ v = w
    <3>1. q.pending # 0 => q.ws <= q.pending
      BY <1>1 DEF WorkerRevisions, q
    <3>2. q.ws <= q.ws
      BY <1>4
    <3>3. QED
      BY <1>6, <2>1, <2>2, <2>4, <3>1, <3>2 DEF Ahead, Known, q
  <2>5. CASE x = u /\ v # w /\ Known(u, v[1])
    <3>1. v[1] = w[1]
      BY <1>1, <1>5, <2>5, OneProject, WorkerIdFacts
    <3>2. ~Live(v)
      BY <1>1, <2>5, <3>1 DEF OneWorkerPerProject, Live, q
    <3>3. worker[v].pending = 0 /\ worker[v].ws = 0
      BY <3>2, BusyIsLive DEF ScreenInv
    <3>4. QED
      BY <2>1, <2>2, <2>5, <3>3 DEF Ahead, Known
  <2>6. CASE x = u /\ ~Known(u, v[1])
    BY <2>1, <2>2, <2>6 DEF Ahead, Known
  <2>7. QED
    BY <2>3, <2>4, <2>5, <2>6
<1>9. \A x \in Uris : Revision # 0 /\ shown[x] = Revision => shown'[x] = Revision
  <2>1. Revision # 0 /\ shown[u] = Revision => newest[u] = Revision
    BY DEF ScreenInv, ShownByRun
  <2>2. Revision # 0 /\ shown[u] = Revision => q.ws = Revision
    BY <1>1, <1>4, <1>5, <2>1
  <2>3. QED
    BY <1>6, <2>2
<1>10. ASSUME UpToShutdown, NEW v \in seen PROVE Validating(v)'
  <2>1. v \in WorkerIds /\ Validating(v) /\ Revision # 0
    BY <1>1, <1>4, <1>10 DEF ScreenInv, TypeOK
  <2>2. worker[v] \in WorkerRecord
    BY <1>1, <2>1 DEF TypeOK
  <2>3. \A x \in worker[v].set \cup worker[v].last : x \in Uris
    BY <2>2 DEF WorkerRecord
  <2>4. CASE v # w
    <3>1. worker'[v] = worker[v]
      BY <1>2, <2>1, <2>4
    <3>2. QED
      BY <1>3, <1>9, <2>1, <2>3, <3>1 DEF Validating
  <2>5. CASE v = w
    <3>1. \/ q.pending = Revision
          \/ q.ws = Revision /\ \A x \in q.set \ q.out : shown[x] = Revision
      BY <1>1, <2>1, <2>5 DEF Validating, q
    <3>2. CASE q.pending = Revision
      BY <1>2, <1>3, <2>5, <3>2 DEF Validating, q, r
    <3>3. CASE q.ws = Revision /\ \A x \in q.set \ q.out : shown[x] = Revision
      <4>1. \A x \in r.set \ r.out : shown'[x] = Revision
        BY <1>2, <1>6, <1>9, <2>1, <2>3, <2>5, <3>3 DEF q
      <4>2. q.pending \in {0, Revision}
        BY <2>1, <2>5 DEF Validating, q
      <4>3. QED
        BY <1>1, <1>2, <1>3, <2>5, <3>3, <4>1, <4>2 DEF Validating, q, r
    <3>4. QED
      BY <3>1, <3>2, <3>3
  <2>6. QED
    BY <2>4, <2>5
<1>11. QED
  BY <1>3, <1>7, <1>8, <1>10 DEF ScreenInv, UpToShutdown

\* An empty list never removes a marker of the latest revision.  While it
\* publishes, the worker's own run is at least that new and has the document in
\* its set; when it stops, its project was not seen in this update.
LEMMA ClearOldStale ==
  ASSUME DocumentsStay, ScreenInv, NEW w \in WorkerIds, NEW u \in Uris, ClearOld(w, u)
  PROVE  shown[u] < Revision
<1> DEFINE q == worker[w]
<1>1. /\ q \in WorkerRecord /\ Revision \in Nat /\ TypeOK /\ u \in q.old
      /\ q.pc \in {"publish", "stopping"}
      /\ WorkerShape(w) /\ WorkerRevisions(w) /\ RegistryThreads /\ RegistrySeen
      /\ w[1] \in Projects /\ Ahead(w, u) /\ ShownByRun(u)
  BY WorkerIdFacts DEF ScreenInv, WorkerInv, RegistryInv, TypeOK, ClearOld
<1>2. u \in q.last
  BY <1>1 DEF WorkerShape
<1>3. Known(u, w[1])
  BY <1>1, <1>2 DEF Ahead
<1>4. /\ shown[u] \in Nat /\ newest[u] \in Nat /\ shown[u] <= Revision
      /\ q.ws \in Nat /\ q.ws <= Revision
  BY <1>1, DiagWorkersAssumption DEF ShownByRun, TypeOK, WorkerRevisions, WorkerRecord
<1>5. Revision # 0
  <2>1. CASE q.pc = "publish"
    BY <1>1, <1>4, <2>1 DEF WorkerShape
  <2>2. CASE q.pc = "stopping"
    BY <1>1, <2>2 DEF WorkerShape, RegistryThreads, ScreenInv
  <2>3. QED
    BY <1>1, <2>1, <2>2
<1>6. SUFFICES ASSUME shown[u] = Revision PROVE FALSE
  BY <1>1, <1>4
<1>7. newest[u] = Revision
  BY <1>1, <1>5, <1>6 DEF ShownByRun
<1>8. PICK p \in Projects : /\ u \in Collect(published[Revision], p)
                            /\ UpToShutdown => \E v \in seen : v[1] = p
  BY <1>1, <1>5, <1>7 DEF ShownByRun
<1>9. p = w[1]
  <2>1. Revision \in 1..Revision
    BY <1>1, <1>5
  <2>2. Known(u, p)
    BY <1>1, <1>8, <2>1, CollectKnown
  <2>3. QED
    BY <1>1, <1>3, <2>2, OneProject
<1>10. CASE q.pc = "publish"
  <2>1. q.ws = Revision
    BY <1>1, <1>3, <1>4, <1>7, <1>10 DEF Ahead, WorkerShape
  <2>2. u \notin Collect(published[q.ws], w[1])
    BY <1>1, <1>10 DEF WorkerShape
  <2>3. QED
    BY <1>8, <1>9, <2>1, <2>2
<1>11. CASE q.pc = "stopping"
  <2>1. w = joining /\ coordinator = "revalidate"
    BY <1>1, <1>11 DEF WorkerShape, RegistryThreads
  <2>2. \A v \in seen : v[1] # w[1]
    BY <1>1, <2>1, DiagWorkersAssumption DEF RegistrySeen, UpToShutdown
  <2>3. QED
    BY <1>8, <1>9, <2>1, <2>2 DEF UpToShutdown
<1>12. QED
  BY <1>1, <1>10, <1>11

\* So the latest revision's markers stay when a worker clears its old ones.
LEMMA ClearOldScreen ==
  ASSUME DocumentsStay, ScreenInv, WorkerInv', NEW w \in WorkerIds, NEW u \in Uris,
         ClearOld(w, u)
  PROVE  ScreenInv'
<1> DEFINE q == worker[w]
           r == worker'[w]
<1>1. /\ q \in WorkerRecord /\ Revision \in Nat /\ TypeOK
  BY DEF ScreenInv, WorkerInv, RegistryInv, TypeOK
<1>2. /\ \A v \in WorkerIds : v # w => worker'[v] = worker[v]
      /\ r.set = q.set /\ r.out = q.out /\ r.last = q.last
      /\ r.pc = q.pc /\ r.pending = q.pending /\ r.ws = q.ws
  BY <1>1 DEF TypeOK, ClearOld, WorkerRecord
<1>3. UNCHANGED <<coordinator, published, seen, Revision, Latest, newest>>
  BY DEF ClearOld, Clear, registryVars, Revision, Latest
<1>4. shown'[u] = 0 /\ \A x \in Uris : x # u => shown'[x] = shown[x]
  BY <1>1 DEF ClearOld, Clear, TypeOK
<1>5. shown[u] # Revision
  BY <1>1, ClearOldStale DEF TypeOK
<1> HIDE DEF q, r
<1>6. \A x \in Uris : ShownByRun(x)'
  BY <1>3, <1>4 DEF ScreenInv, ShownByRun, UpToShutdown
<1>7. \A v \in WorkerIds, x \in Uris : Ahead(v, x)'
  BY <1>2, <1>3 DEF ScreenInv, Ahead, Known, q, r
<1>8. ASSUME UpToShutdown, NEW v \in seen PROVE Validating(v)'
  <2>1. v \in WorkerIds /\ Validating(v) /\ worker[v] \in WorkerRecord
    BY <1>1, <1>8 DEF ScreenInv, TypeOK
  <2>2. \A x \in worker[v].set \cup worker[v].last : shown[x] = Revision => shown'[x] = Revision
    BY <1>4, <1>5, <2>1 DEF WorkerRecord
  <2>3. /\ worker'[v].set = worker[v].set /\ worker'[v].out = worker[v].out
        /\ worker'[v].last = worker[v].last /\ worker'[v].pc = worker[v].pc
        /\ worker'[v].pending = worker[v].pending /\ worker'[v].ws = worker[v].ws
    BY <1>2, <2>1 DEF q, r
  <2>4. QED
    BY <1>3, <2>1, <2>2, <2>3 DEF Validating
<1>9. QED
  BY <1>3, <1>6, <1>7, <1>8 DEF ScreenInv, UpToShutdown

\* A new snapshot is newer than everything on the screen, and nobody was seen.
LEMMA RevalidateScreen ==
  ASSUME ScreenInv, WorkerInv', NEW s \in Snapshots, Revalidate(s) PROVE ScreenInv'
<1>1. /\ seen' = {} /\ UNCHANGED <<worker, shown, newest>> /\ TypeOK
  BY DEF ScreenInv, WorkerInv, RegistryInv, Revalidate, clientVars
<1>2. /\ Revision \in Nat /\ Revision' = Revision + 1
      /\ \A i \in 1..Revision : published'[i] = published[i]
  BY <1>1, PublishedGrows DEF Revalidate, TypeOK
<1>3. ASSUME NEW u \in Uris PROVE ShownByRun(u)'
  <2>1. ShownByRun(u) /\ newest[u] \in Nat
    BY <1>1, DiagWorkersAssumption DEF ScreenInv, TypeOK
  <2>2. newest[u] # 0 => published'[newest[u]] = published[newest[u]]
    BY <1>2, <2>1 DEF ShownByRun
  <2>3. QED
    BY <1>1, <1>2, <2>1, <2>2 DEF ShownByRun
<1>4. \A w \in WorkerIds, u \in Uris : Ahead(w, u)'
  BY <1>1 DEF ScreenInv, Ahead, Known
<1>5. QED
  BY <1>1, <1>2, <1>3, <1>4 DEF ScreenInv

\* The empty baseline lists go out before any worker is seen.
LEMMA BaselineScreen ==
  ASSUME ScreenInv, WorkerInv', NEW u \in Uris, Baseline(u) PROVE ScreenInv'
<1>1. /\ seen = {} /\ TypeOK
      /\ UNCHANGED <<coordinator, published, seen, worker, newest, Revision>>
  BY DEF ScreenInv, WorkerInv, RegistryInv, RegistrySeen, Baseline, Clear, registryVars, Revision
<1>2. \A x \in Uris : shown'[x] = 0 \/ shown'[x] = shown[x]
  BY <1>1 DEF Baseline, Clear, TypeOK
<1>3. \A x \in Uris : ShownByRun(x)'
  BY <1>1, <1>2 DEF ScreenInv, ShownByRun, UpToShutdown
<1>4. \A w \in WorkerIds, x \in Uris : Ahead(w, x)'
  BY <1>1 DEF ScreenInv, Ahead, Known
<1>5. QED
  BY <1>1, <1>3, <1>4 DEF ScreenInv

\* A worker that is found or spawned for a project has the latest revision
\* pending, which no document is ahead of.
LEMMA AcquireScreen ==
  ASSUME ScreenInv, WorkerInv', NEW p \in Projects, RequestExisting(p) \/ SpawnWorker(p)
  PROVE  ScreenInv'
<1>1. PICK w \in WorkerIds : w = <<p, ModeOf(Latest, p)>>
  BY ModeOfType, WorkerIdFacts
<1> DEFINE r == worker'[w]
<1>2. /\ TypeOK /\ Revision \in 0..MaxRev /\ seen' = seen \cup {w}
      /\ UNCHANGED <<coordinator, published, shown, newest, Revision, Latest>>
  BY <1>1 DEF ScreenInv, WorkerInv, RegistryInv, TypeOK, RequestExisting, SpawnWorker,
              clientVars, Revision, Latest
<1>3. /\ \A v \in WorkerIds : v # w => worker'[v] = worker[v]
      /\ r.pending = Revision
      /\ \/ r.ws = worker[w].ws /\ r.set = worker[w].set /\ r.last = worker[w].last
         \/ r.ws = 0 /\ r.set = {} /\ r.last = {}
  <2>1. CASE RequestExisting(p)
    <3>1. worker' = [worker EXCEPT ![w] = Request(@, Revision)]
      BY <1>1, <2>1 DEF RequestExisting
    <3>2. QED
      BY <1>2, <3>1, RequestFacts DEF TypeOK
  <2>2. CASE SpawnWorker(p)
    <3>1. worker' = [worker EXCEPT ![w] = Request([NoThread EXCEPT !.pc = "wait"], Revision)]
      BY <1>1, <2>2 DEF SpawnWorker
    <3>2. QED
      BY <1>2, <3>1, SpawnFacts DEF TypeOK, Idle
  <2>3. QED
    BY <2>1, <2>2
<1> HIDE DEF r
<1>4. \A u \in Uris : newest[u] <= Revision
  BY DEF ScreenInv, ShownByRun
<1>5. \A u \in Uris : ShownByRun(u)'
  BY <1>2 DEF ScreenInv, ShownByRun, UpToShutdown
<1>6. \A v \in WorkerIds, u \in Uris : Ahead(v, u)'
  BY <1>2, <1>3, <1>4 DEF ScreenInv, Ahead, Known, r
<1>7. ASSUME UpToShutdown, NEW v \in seen' PROVE Validating(v)'
  <2>1. CASE v = w
    BY <1>2, <1>3, <2>1 DEF Validating, r
  <2>2. CASE v # w
    BY <1>2, <1>3, <1>7, <2>2 DEF ScreenInv, TypeOK, Validating
  <2>3. QED
    BY <2>1, <2>2
<1>8. QED
  BY <1>2, <1>5, <1>6, <1>7 DEF ScreenInv, UpToShutdown

\* Retiring sets the two flags, which the screen does not depend on.
LEMMA RetireScreen ==
  ASSUME ScreenInv, WorkerInv', NEW w \in WorkerIds, NEW clear \in BOOLEAN, Retire(w, clear),
         UNCHANGED <<coordinator, published, seen, clientVars>>
  PROVE  ScreenInv'
<1>1. TypeOK /\ UNCHANGED <<coordinator, published, seen, shown, newest, Revision, Latest>>
  BY DEF ScreenInv, WorkerInv, RegistryInv, clientVars, Revision, Latest
<1>2. \A v \in WorkerIds :
        /\ worker'[v].set = worker[v].set /\ worker'[v].out = worker[v].out
        /\ worker'[v].last = worker[v].last /\ worker'[v].pc = worker[v].pc
        /\ worker'[v].pending = worker[v].pending /\ worker'[v].ws = worker[v].ws
  BY <1>1 DEF TypeOK, Retire, WorkerRecord
<1>3. \A u \in Uris : ShownByRun(u)'
  BY <1>1 DEF ScreenInv, ShownByRun, UpToShutdown
<1>4. \A v \in WorkerIds, u \in Uris : Ahead(v, u)'
  BY <1>1, <1>2 DEF ScreenInv, Ahead, Known
<1>5. UpToShutdown' => \A v \in seen' : Validating(v)'
  BY <1>1, <1>2 DEF ScreenInv, Validating, UpToShutdown, TypeOK
<1>6. QED
  BY <1>1, <1>3, <1>4, <1>5 DEF ScreenInv

\* The freed worker was not among those seen.
LEMMA JoinScreen ==
  ASSUME ScreenInv, WorkerInv', Join PROVE ScreenInv'
<1>1. PICK w \in WorkerIds : w = joining
  BY DEF Join, ScreenInv, WorkerInv, RegistryInv, TypeOK
<1>2. /\ TypeOK /\ worker' = [worker EXCEPT ![w] = NoThread]
      /\ UNCHANGED <<coordinator, published, seen, shown, newest, Revision, Latest>>
  BY <1>1 DEF Join, ScreenInv, WorkerInv, RegistryInv, clientVars, Revision, Latest
<1>3. /\ \A v \in WorkerIds : v # w => worker'[v] = worker[v]
      /\ worker'[w].last = {} /\ worker'[w].set = {}
      /\ worker'[w].pending = 0 /\ worker'[w].ws = 0
  BY <1>2 DEF TypeOK, NoThread
<1>4. UpToShutdown => w \notin seen
  BY <1>1, JoiningUnseen DEF ScreenInv
<1>5. \A u \in Uris : ShownByRun(u)'
  BY <1>2 DEF ScreenInv, ShownByRun, UpToShutdown
<1>6. \A v \in WorkerIds, u \in Uris : Ahead(v, u)'
  BY <1>2, <1>3 DEF ScreenInv, Ahead, Known
<1>7. UpToShutdown' => \A v \in seen' : Validating(v)'
  BY <1>2, <1>3, <1>4 DEF ScreenInv, Validating, UpToShutdown, TypeOK
<1>8. QED
  BY <1>2, <1>5, <1>6, <1>7 DEF ScreenInv

\* The coordinator's other steps leave the workers and the screen alone.
LEMMA CoordinatorOnlyScreen ==
  ASSUME ScreenInv, WorkerInv',
         \/ \E p \in Projects : SpawnFails(p)
         \/ EndUpdate \/ Shutdown \/ EndShutdown \/ UNCHANGED vars
  PROVE  ScreenInv'
<1>1. /\ TypeOK
      /\ UNCHANGED <<published, seen, worker, shown, newest, Revision, Latest>>
  BY DEF ScreenInv, WorkerInv, RegistryInv, SpawnFails, EndUpdate, Shutdown, EndShutdown,
         vars, registryVars, clientVars, Revision, Latest
<1>2. (UpToShutdown' => UpToShutdown) /\ (coordinator' = "revalidate" => coordinator = "revalidate")
  BY DEF SpawnFails, EndUpdate, Updating, Shutdown, EndShutdown, vars, UpToShutdown
<1>3. \A u \in Uris : ShownByRun(u)'
  BY <1>1, <1>2 DEF ScreenInv, ShownByRun
<1>4. \A v \in WorkerIds, u \in Uris : Ahead(v, u)'
  BY <1>1 DEF ScreenInv, Ahead, Known
<1>5. UpToShutdown' => \A v \in seen' : Validating(v)'
  BY <1>1, <1>2 DEF ScreenInv, Validating
<1>6. QED
  BY <1>1, <1>2, <1>3, <1>4, <1>5 DEF ScreenInv

-----------------------------------------------------------------------------
\* At first nothing is shown and nobody was seen.
LEMMA InitScreen == Init => ScreenInv
<1> SUFFICES ASSUME Init PROVE ScreenInv
  OBVIOUS
<1>1. WorkerInv
  BY InitWorkers
<1>2. \A u \in Uris : ShownByRun(u)
  BY DEF Init, ShownByRun, Revision
<1>3. \A w \in WorkerIds, u \in Uris : Ahead(w, u)
  BY DEF Init, Ahead, NoThread
<1>4. QED
  BY <1>1, <1>2, <1>3 DEF Init, ScreenInv

\* Every step keeps the screen's invariant while documents stay.
LEMMA NextScreen ==
  ASSUME DocumentsStay PROVE ScreenInv /\ [Next]_vars => ScreenInv'
<1> SUFFICES ASSUME ScreenInv, [Next]_vars PROVE ScreenInv'
  OBVIOUS
<1>0. WorkerInv'
  BY NextWorkers DEF ScreenInv
<1>1. CASE UNCHANGED vars
  BY <1>0, <1>1, CoordinatorOnlyScreen
<1>2. CASE \E s \in Snapshots : Revalidate(s)
  BY <1>0, <1>2, RevalidateScreen
<1>3. CASE Shutdown
  BY <1>0, <1>3, CoordinatorOnlyScreen
<1>4. CASE CoordinatorStep
  <2>1. ASSUME NEW p \in Projects, RetireFlipped(p) PROVE ScreenInv'
    <3>1. PICK m \in Modes : Retire(<<p, m>>, TRUE)
      BY <2>1 DEF RetireFlipped
    <3>2. <<p, m>> \in WorkerIds
      BY DEF WorkerIds
    <3>3. QED
      BY <1>0, <2>1, <3>1, <3>2, RetireScreen DEF RetireFlipped
  <2>2. ASSUME NEW w \in WorkerIds, RetireUnseen(w) \/ RetireAtShutdown(w) PROVE ScreenInv'
    BY <1>0, <2>2, RetireScreen DEF RetireUnseen, RetireAtShutdown
  <2>3. QED
    BY <1>0, <1>4, <2>1, <2>2, BaselineScreen, AcquireScreen, JoinScreen,
       CoordinatorOnlyScreen DEF CoordinatorStep
<1>5. ASSUME NEW w \in WorkerIds, WorkerStep(w) \/ Collected(w) PROVE ScreenInv'
  BY <1>0, <1>5, TakeScreen, EndRunScreen, StopExitScreen, PublishScreen,
     ClearOldScreen, CollectedScreen DEF WorkerStep
<1>6. QED
  BY <1>1, <1>2, <1>3, <1>4, <1>5 DEF Next, Stopped

\* While documents stay with their projects, the screen follows the workers in
\* every state.
THEOREM ScreenInvariance ==
  ASSUME DocumentsStay PROVE SafeSpec => []ScreenInv
  BY InitScreen, NextScreen, PTL DEF SafeSpec

\* NoStaleMarker: no document goes back to the markers of an earlier snapshot,
\* whichever of its project's workers publish, stop and start on the way.
THEOREM NoStaleMarkerAlways ==
  ASSUME DocumentsStay PROVE SafeSpec => []NoStaleMarker
<1>1. ScreenInv => NoStaleMarker
  BY DEF ScreenInv, ShownByRun, NoStaleMarker
<1>2. QED
  BY <1>1, ScreenInvariance, PTL

\* ClearsOnlyStale: what diag_set_publish() and clear_published() clear is older
\* than the latest snapshot.
THEOREM ClearsOnlyStaleAlways ==
  ASSUME DocumentsStay PROVE SafeSpec => ClearsOnlyStale
<1>1. ScreenInv => \A w \in WorkerIds, u \in Uris : ClearOld(w, u) => shown[u] < Revision
  BY ClearOldStale
<1>2. QED
  BY <1>1, ScreenInvariance, PTL DEF ClearsOnlyStale

\* Converged: whenever no worker has anything left to do, each document shows
\* exactly what the latest snapshot has to say of it.
THEOREM ConvergedAlways ==
  ASSUME DocumentsStay PROVE SafeSpec => []Converged
<1>1. ScreenInv => Converged
  <2>1. SUFFICES ASSUME ScreenInv, Quiet, NEW u \in Uris PROVE UpToDate(u)
    BY DEF Converged
  <2>2. /\ TypeOK /\ RegistryThreads /\ RegistrySeen /\ ShownByRun(u)
        /\ coordinator = "idle" /\ joining = NoWorker /\ g_workers \subseteq seen
        /\ g_workers \subseteq WorkerIds /\ Revision \in Nat
    BY <2>1 DEF ScreenInv, WorkerInv, RegistryInv, RegistryThreads, RegistrySeen, Quiet, TypeOK
  <2>3. ASSUME NEW w \in g_workers, Revision # 0
        PROVE  /\ worker[w].pc = "wait" /\ worker[w].last = Collect(Latest, w[1])
               /\ \A x \in worker[w].last : shown[x] = Revision
    <3>1. Validating(w) /\ worker[w].pc = "wait" /\ worker[w].pending = 0
      BY <2>1, <2>2 DEF ScreenInv, UpToShutdown, Quiet
    <3>2. QED
      BY <2>3, <3>1 DEF Validating
  <2>4. ASSUME Revision # 0, Reported(u) PROVE shown[u] = Revision
    <3>1. PICK p \in Latest.projects : HasWorker(p) /\ u \in Collect(Latest, p)
      BY <2>4 DEF Reported
    <3>2. PICK m \in Modes : <<p, m>> \in g_workers
      BY <3>1 DEF HasWorker
    <3>3. QED
      BY <2>3, <2>4, <3>1, <3>2
  <2>5. ASSUME shown[u] # 0 PROVE Revision # 0 /\ Reported(u)
    <3>1. Revision # 0
      BY <2>2, <2>5, DiagWorkersAssumption DEF ShownByRun, TypeOK
    <3>2. PICK w \in WorkerIds : Covers(w, u)
      BY <2>1, <2>2, <2>5 DEF ScreenInv, WorkerInv, MarkersCovered, Stopping
    <3>3. WorkerShape(w) /\ Live(w)
      BY <2>1, <3>2 DEF ScreenInv, WorkerInv, WorkerShape, Covers, Live, NoThread
    <3>4. w \in g_workers
      BY <2>2, <3>3, DiagWorkersAssumption DEF RegistryThreads
    <3>5. u \in Collect(Latest, w[1])
      BY <2>3, <3>1, <3>2, <3>3, <3>4 DEF Covers, WorkerShape, Idle
    <3>6. Latest \in Snapshots
      BY <2>2, <3>1 DEF TypeOK, Latest, Revision
    <3>7. w[1] \in Projects /\ w[2] \in Modes /\ w = <<w[1], w[2]>>
      BY WorkerIdFacts
    <3>8. Latest.project_index[u] = w[1]
      BY <3>5 DEF Collect, CcMissing, Tj3Collect, Members
    <3>9. w[1] \in Latest.projects
      BY <3>6, <3>7, <3>8, DiagWorkersAssumption
    <3>10. HasWorker(w[1])
      BY <3>4, <3>7 DEF HasWorker
    <3>11. QED
      BY <3>1, <3>5, <3>9, <3>10 DEF Reported
  <2>6. QED
    BY <2>2, <2>4, <2>5, DiagWorkersAssumption DEF UpToDate, TypeOK
<1>2. QED
  BY <1>1, ScreenInvariance, PTL
=============================================================================
