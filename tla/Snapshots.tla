----------------------------- MODULE Snapshots -----------------------------
(***************************************************************************)
(* Reference-counted snapshots (query_context.c, document_store.c).  The   *)
(* coordinator parses documents, publishes workspace snapshots, pins query *)
(* contexts and hands snapshots to the diagnostics workers.  Any thread    *)
(* may drop the last reference.  Every atomic access is a step of its own. *)
(*                                                                         *)
(* A release is a stack of instructions that its thread works through:     *)
(*   "drop"  the atomic_fetch_sub of docsnap_release / ws_release;         *)
(*   "spans" the CAS of tok_spans_release for a dying doc_snapshot;        *)
(*   "free"  the rest of the destructor.                                   *)
(* Objects are named by their address, and free() makes an address         *)
(* available to the next allocation.                                       *)
(***************************************************************************)
EXTENDS Naturals, FiniteSets, Sequences

CONSTANTS Doc,      \* slots of docs[]
          Query,    \* query contexts in flight, each run by one pool thread
          Diag,     \* diagnostics workers
          Snap,     \* addresses of doc_snapshots
          Ws,       \* addresses of workspace_snapshots
          Buf,      \* addresses of token-span buffers
          Coord,    \* the coordinator thread
          Nil       \* NULL

ASSUME SnapshotsAssumption ==
  /\ \A S \in {Doc, Query, Diag, Snap, Ws, Buf} : IsFiniteSet(S) /\ Nil \notin S
  /\ Coord \notin Query \cup Diag \cup {Nil}
  /\ Query \cap Diag = {} /\ Snap \cap Ws = {}
  /\ Nil \notin Nat /\ Nil \notin Query \X Snap

VARIABLES
  docs,     \* [Doc -> [snap, prev]]: Document.snap and Document.prev_snap
  gws,      \* g_ws, the published workspace snapshot
  snap,     \* the doc_snapshots; refs = Nil where none is allocated
  ws,       \* the workspace_snapshots
  bufs,     \* allocated token-span buffers
  recycle,  \* g_tok_spans_recycle
  memos,    \* allocated sem_token_data, named <<computing thread, snapshot>>
  ctx,      \* [Query -> query_context and the state of the thread that runs it]
  diag,     \* [Diag -> the references a diagnostics worker holds]
  coord,    \* the coordinator between two notifications or queries
  todo      \* [Thread -> release instructions still to run, the next one last]

vars == <<docs, gws, snap, ws, bufs, recycle, memos, ctx, diag, coord, todo>>

Thread == {Coord} \cup Query \cup Diag
Instr  == [op : {"drop", "spans", "free"}, obj : Snap \cup Ws]
Memo   == Query \X Snap

Document == [snap : Snap \cup {Nil}, prev : Snap \cup {Nil}]
DocSnapshot == [refs : Nat \cup {Nil}, buf : Buf \cup {Nil}, memo : Memo \cup {Nil}]
WorkspaceSnapshot == [refs : Nat \cup {Nil}, docs : [Doc -> Snap \cup {Nil}]]
QueryContext ==
  [pc : {"none", "run", "cas"}, ws : Ws \cup {Nil}, prev : Snap \cup {Nil},
   primary : Doc \cup {Nil}, at : Snap \cup {Nil}, memo : SUBSET Memo]
DiagWorker ==
  [pc : {"off", "wait", "run", "exit"}, pending : Ws \cup {Nil}, running : Ws \cup {Nil},
   stop : BOOLEAN]

NoSnap == [refs |-> Nil, buf |-> Nil, memo |-> Nil]
NoWs   == [refs |-> Nil, docs |-> [d \in Doc |-> Nil]]
NoCtx  == [pc |-> "none", ws |-> Nil, prev |-> Nil, primary |-> Nil, at |-> Nil, memo |-> {}]
NoDiag == [pc |-> "off", pending |-> Nil, running |-> Nil, stop |-> FALSE]

TypeOK ==
  /\ docs \in [Doc -> Document]
  /\ gws \in Ws \cup {Nil}
  /\ snap \in [Snap -> DocSnapshot]
  /\ ws \in [Ws -> WorkspaceSnapshot]
  /\ bufs \subseteq Buf /\ recycle \in Buf \cup {Nil}
  /\ memos \subseteq Memo
  /\ ctx \in [Query -> QueryContext]
  /\ diag \in [Diag -> DiagWorker]
  /\ coord \in [pc : {"idle", "edit", "update"}, left : SUBSET Diag, lock : Diag \cup {Nil}]
  /\ todo \in [Thread -> Seq(Instr)]

Init ==
  /\ docs = [d \in Doc |-> [snap |-> Nil, prev |-> Nil]]
  /\ gws = Nil
  /\ snap = [s \in Snap |-> NoSnap]
  /\ ws = [w \in Ws |-> NoWs]
  /\ bufs = {} /\ recycle = Nil /\ memos = {}
  /\ ctx = [q \in Query |-> NoCtx]
  /\ diag = [w \in Diag |-> NoDiag]
  /\ coord = [pc |-> "idle", left |-> {}, lock |-> Nil]
  /\ todo = [t \in Thread |-> <<>>]

-----------------------------------------------------------------------------
(* Reference counting.  The operators named Faulty... are variants of the  *)
(* definition they precede; only the tests of the properties use them.     *)

Drop(x) == IF x = Nil THEN <<>> ELSE <<[op |-> "drop", obj |-> x]>>

docsnap_acquire(m, s) == IF s = Nil THEN m ELSE [m EXCEPT ![s].refs = @ + 1]

ws_acquire(m, w) == IF w = Nil THEN m ELSE [m EXCEPT ![w].refs = @ + 1]

\* The destructor runs in the thread whose fetch_sub returned 1.
FaultyDropDocsnap(s) == IF snap[s].refs \in {1, 2}
                        THEN <<[op |-> "free", obj |-> s], [op |-> "spans", obj |-> s]>>
                        ELSE <<>>
docsnap_release(s) == IF snap[s].refs = 1
                      THEN <<[op |-> "free", obj |-> s], [op |-> "spans", obj |-> s]>>
                      ELSE <<>>

ws_release(w) == IF ws[w].refs = 1 THEN <<[op |-> "free", obj |-> w]>> ELSE <<>>

\* tok_spans_release: a buffer below the size threshold is freed, a large one
\* is published in the empty slot by CAS, or freed when the slot is taken.
FaultyTokSpansRelease(b) == recycle' = b /\ bufs' = bufs
tok_spans_release(b) ==
  \/ recycle' = recycle /\ bufs' = bufs \ {b}
  \/ recycle = Nil /\ recycle' = b /\ bufs' = bufs

\* Thread t's next instruction is op on an object of S; the others wait.
Top(t) == todo[t][Len(todo[t])]
Rest(t) == SubSeq(todo[t], 1, Len(todo[t]) - 1)
Runs(t, op, S) == todo[t] # <<>> /\ Top(t).op = op /\ Top(t).obj \in S

DropSnap(t) ==
  /\ Runs(t, "drop", Snap)
  /\ snap' = [snap EXCEPT ![Top(t).obj].refs = @ - 1]
  /\ todo' = [todo EXCEPT ![t] = Rest(t) \o docsnap_release(Top(t).obj)]
  /\ UNCHANGED <<ws, bufs, recycle, memos>>

DropWs(t) ==
  /\ Runs(t, "drop", Ws)
  /\ ws' = [ws EXCEPT ![Top(t).obj].refs = @ - 1]
  /\ todo' = [todo EXCEPT ![t] = Rest(t) \o ws_release(Top(t).obj)]
  /\ UNCHANGED <<snap, bufs, recycle, memos>>

ReleaseSpans(t) ==
  /\ Runs(t, "spans", Snap)
  /\ tok_spans_release(snap[Top(t).obj].buf)
  /\ snap' = [snap EXCEPT ![Top(t).obj].buf = Nil]
  /\ todo' = [todo EXCEPT ![t] = Rest(t)]
  /\ UNCHANGED <<ws, memos>>

FreeSnap(t) ==
  /\ Runs(t, "free", Snap)
  /\ memos' = memos \ {snap[Top(t).obj].memo}
  /\ snap' = [snap EXCEPT ![Top(t).obj] = NoSnap]
  /\ todo' = [todo EXCEPT ![t] = Rest(t)]
  /\ UNCHANGED <<ws, bufs, recycle>>

\* ws_release() drops the documents of the dying workspace one after the other...
DropDoc(t) ==
  /\ Runs(t, "free", Ws)
  /\ LET w == Top(t).obj IN
     \E d \in Doc : /\ ws[w].docs[d] # Nil
                    /\ ws' = [ws EXCEPT ![w].docs[d] = Nil]
                    /\ todo' = [todo EXCEPT ![t] = @ \o Drop(ws[w].docs[d])]
  /\ UNCHANGED <<snap, bufs, recycle, memos>>

\* ...and frees it.
FreeWs(t) ==
  /\ Runs(t, "free", Ws)
  /\ \A d \in Doc : ws[Top(t).obj].docs[d] = Nil
  /\ ws' = [ws EXCEPT ![Top(t).obj] = NoWs]
  /\ todo' = [todo EXCEPT ![t] = Rest(t)]
  /\ UNCHANGED <<snap, bufs, recycle, memos>>

\* The next instruction of thread t's release.
Release(t) ==
  /\ \/ DropSnap(t) \/ DropWs(t) \/ ReleaseSpans(t)
     \/ FreeSnap(t) \/ DropDoc(t) \/ FreeWs(t)
  /\ UNCHANGED <<docs, gws, ctx, diag, coord>>

-----------------------------------------------------------------------------
(* The coordinator: document notifications.                                *)

CoordFree(pcs) == coord.pc \in pcs /\ coord.lock = Nil /\ todo[Coord] = <<>>


\* parse() takes the recycled buffer (atomic_exchange with NULL) or grows a
\* new one; doc_install_parse() builds the snapshot with one reference and
\* rotates Document.snap to Document.prev_snap.
Install(d) ==
  /\ CoordFree({"idle", "edit"})
  /\ \E s \in Snap, b \in Buf :
       /\ snap[s].refs = Nil
       /\ IF recycle # Nil THEN b = recycle ELSE b \notin bufs
       /\ snap' = [snap EXCEPT ![s] = [refs |-> 1, buf |-> b, memo |-> Nil]]
       /\ bufs' = bufs \cup {b}
       /\ recycle' = Nil
       /\ docs' = [docs EXCEPT ![d] = [snap |-> s, prev |-> docs[d].snap]]
  /\ todo' = [todo EXCEPT ![Coord] = Drop(docs[d].prev)]
  /\ coord' = [coord EXCEPT !.pc = "edit"]
  /\ UNCHANGED <<gws, ws, memos, ctx, diag>>

\* doc_free() and doc_clear_parse_state(): both references are dropped.
Forget(d) ==
  /\ CoordFree({"idle", "edit"})
  /\ docs[d].snap # Nil
  /\ docs' = [docs EXCEPT ![d] = [snap |-> Nil, prev |-> Nil]]
  /\ todo' = [todo EXCEPT ![Coord] = Drop(docs[d].prev) \o Drop(docs[d].snap)]
  /\ coord' = [coord EXCEPT !.pc = "edit"]
  /\ UNCHANGED <<gws, snap, ws, bufs, recycle, memos, ctx, diag>>

\* publish_workspace_snapshot(): build from docs[], swap g_ws, release the old.
AcquireAll == [s \in Snap |->
  [snap[s] EXCEPT !.refs =
     IF snap[s].refs = Nil THEN Nil ELSE @ + Cardinality({d \in Doc : docs[d].snap = s})]]
Publish ==
  /\ CoordFree({"idle", "edit"})
  /\ \E w \in Ws :
       /\ ws[w].refs = Nil
       /\ ws' = [ws EXCEPT ![w] = [refs |-> 1, docs |-> [d \in Doc |-> docs[d].snap]]]
       /\ gws' = w
  /\ snap' = AcquireAll
  /\ todo' = [todo EXCEPT ![Coord] = Drop(gws)]
  /\ coord' = [coord EXCEPT !.pc = "update", !.left = Diag]
  /\ UNCHANGED <<docs, bufs, recycle, memos, ctx, diag>>

\* diag_worker_request(): the worker's lock is held while a pending snapshot
\* it has not started on is released and replaced.
DiagRequest(w) ==
  /\ CoordFree({"update"}) /\ w \in coord.left
  /\ diag[w].pc # "exit" /\ ~diag[w].stop
  /\ ws' = ws_acquire(ws, gws)
  /\ todo' = [todo EXCEPT ![Coord] = Drop(diag[w].pending)]
  /\ diag' = [diag EXCEPT ![w].pending = gws, ![w].pc = IF @ = "off" THEN "wait" ELSE @]
  /\ coord' = [coord EXCEPT !.left = @ \ {w}, !.lock = w]
  /\ UNCHANGED <<docs, gws, snap, bufs, recycle, memos, ctx>>

\* diag_worker_retire(): the coordinator waits in pthread_join.
DiagRetire(w) ==
  /\ CoordFree({"update"}) /\ w \in coord.left
  /\ diag[w].pc # "off"
  /\ diag' = [diag EXCEPT ![w].stop = TRUE]
  /\ coord' = [coord EXCEPT !.left = @ \ {w}, !.lock = w]
  /\ UNCHANGED <<docs, gws, snap, ws, bufs, recycle, memos, ctx, todo>>

\* The lock of a request is given up; the join of a retired worker returns.
DiagUnlock ==
  /\ coord.lock # Nil /\ todo[Coord] = <<>>
  /\ LET w == coord.lock IN
     IF diag[w].stop
     THEN /\ diag[w].pc = "exit" /\ todo[w] = <<>>
          /\ diag' = [diag EXCEPT ![w] = NoDiag]
     ELSE diag' = diag
  /\ coord' = [coord EXCEPT !.lock = Nil]
  /\ UNCHANGED <<docs, gws, snap, ws, bufs, recycle, memos, ctx, todo>>

\* Every registered worker has been handed the snapshot or was retired.
Revalidated ==
  /\ CoordFree({"update"})
  /\ \A w \in coord.left : diag[w].pc = "off"
  /\ coord' = [coord EXCEPT !.pc = "idle", !.left = {}]
  /\ UNCHANGED <<docs, gws, snap, ws, bufs, recycle, memos, ctx, diag, todo>>

-----------------------------------------------------------------------------
(* Queries: pinned by the coordinator, run and released by a pool thread.  *)

\* build_query_context_locked() for primary document d (Nil: workspace/symbol).
Pin(q, d) ==
  /\ CoordFree({"idle"})
  /\ ctx[q].pc = "none" /\ todo[q] = <<>>
  /\ LET prev == IF d = Nil THEN Nil ELSE docs[d].prev IN
     /\ snap' = docsnap_acquire(snap, prev)
     /\ ws' = ws_acquire(ws, gws)
     /\ ctx' = [ctx EXCEPT ![q] = [NoCtx EXCEPT !.pc = "run", !.ws = gws, !.prev = prev,
                                                !.primary = d]]
  /\ UNCHANGED <<docs, gws, bufs, recycle, memos, diag, coord, todo>>

\* What a context of primary d may ask token data for: the primary and, for a
\* delta, its previous parse.
TokenSources(q) ==
  LET c == ctx[q]
  IN  ({c.prev} \cup IF c.ws = Nil \/ c.primary = Nil THEN {} ELSE {ws[c.ws].docs[c.primary]})
        \ {Nil}

\* docsnap_sem_tokens(): the load, and the computation when it saw NULL.
SemTokensLoad(q) ==
  /\ ctx[q].pc = "run"
  /\ \E s \in {x \in TokenSources(q) : ~ \E m \in ctx[q].memo : m[2] = x} :
       IF snap[s].memo # Nil
       THEN /\ ctx' = [ctx EXCEPT ![q].memo = @ \cup {snap[s].memo}]
            /\ memos' = memos
       ELSE /\ ctx' = [ctx EXCEPT ![q].pc = "cas", ![q].at = s]
            /\ memos' = memos \cup {<<q, s>>}
  /\ UNCHANGED <<docs, gws, snap, ws, bufs, recycle, diag, coord, todo>>

\* docsnap_sem_tokens(): the CAS; the loser frees its buffer and adopts.
FaultyCas(s, m) == TRUE
CasWins(s, m) == snap[s].memo = Nil
FaultyLoser(q, s) == {}
LoserFrees(q, s) == {<<q, s>>}
SemTokensCas(q) ==
  /\ ctx[q].pc = "cas"
  /\ LET s == ctx[q].at  won == CasWins(s, <<q, s>>)
     IN  /\ snap' = [snap EXCEPT ![s].memo = IF won THEN <<q, s>> ELSE @]
         /\ memos' = IF won THEN memos ELSE memos \ LoserFrees(q, s)
         /\ ctx' = [ctx EXCEPT ![q].pc = "run", ![q].at = Nil,
                               ![q].memo = @ \cup {IF won THEN <<q, s>> ELSE snap[s].memo}]
  /\ UNCHANGED <<docs, gws, ws, bufs, recycle, diag, coord, todo>>

\* The response is written and query_context_free() drops both references.
query_context_free(q) == Drop(ctx[q].ws) \o Drop(ctx[q].prev)
Finish(q) ==
  /\ ctx[q].pc = "run"
  /\ todo' = [todo EXCEPT ![q] = query_context_free(q)]
  /\ ctx' = [ctx EXCEPT ![q] = NoCtx]
  /\ UNCHANGED <<docs, gws, snap, ws, bufs, recycle, memos, diag, coord>>

-----------------------------------------------------------------------------
(* Diagnostics workers.                                                    *)

DiagTake(w) ==
  /\ diag[w].pc = "wait" /\ ~diag[w].stop /\ diag[w].pending # Nil
  /\ todo[w] = <<>> /\ coord.lock # w
  /\ diag' = [diag EXCEPT ![w].pc = "run", ![w].running = diag[w].pending, ![w].pending = Nil]
  /\ UNCHANGED <<docs, gws, snap, ws, bufs, recycle, memos, ctx, coord, todo>>

\* run_once() has published and releases its snapshot.
DiagRan(w) ==
  /\ diag[w].pc = "run"
  /\ diag' = [diag EXCEPT ![w].pc = "wait", ![w].running = Nil]
  /\ todo' = [todo EXCEPT ![w] = Drop(diag[w].running)]
  /\ UNCHANGED <<docs, gws, snap, ws, bufs, recycle, memos, ctx, coord>>

FaultyStop(w) == <<>>
StopReleases(w) == Drop(diag[w].pending)
DiagStop(w) ==
  /\ diag[w].pc = "wait" /\ diag[w].stop /\ todo[w] = <<>>
  /\ diag' = [diag EXCEPT ![w].pc = "exit", ![w].pending = Nil]
  /\ todo' = [todo EXCEPT ![w] = StopReleases(w)]
  /\ UNCHANGED <<docs, gws, snap, ws, bufs, recycle, memos, ctx, coord>>

-----------------------------------------------------------------------------
Edit == \E d \in Doc : Install(d) \/ Forget(d)
Coordinate == \/ Publish \/ Revalidated \/ DiagUnlock
              \/ \E w \in Diag : DiagRequest(w) \/ DiagRetire(w)
RunQuery(q) == SemTokensLoad(q) \/ SemTokensCas(q) \/ Finish(q)
RunDiag(w) == DiagTake(w) \/ DiagRan(w) \/ DiagStop(w)

Next == \/ Edit \/ Coordinate
        \/ \E q \in Query, d \in Doc \cup {Nil} : Pin(q, d)
        \/ \E q \in Query : RunQuery(q)
        \/ \E w \in Diag : RunDiag(w)
        \/ \E t \in Thread : Release(t)

Spec == Init /\ [][Next]_vars

\* Threads that have work are scheduled, a handler returns and every tj3 ends.
\* Nothing forces the client to send a notification or a request.
Fairness == /\ WF_vars(coord.pc # "idle" /\ Coordinate)
            /\ \A q \in Query : WF_vars(SemTokensCas(q)) /\ WF_vars(Finish(q))
            /\ \A w \in Diag : WF_vars(RunDiag(w))
            /\ \A t \in Thread : WF_vars(Release(t))

-----------------------------------------------------------------------------
(* Properties.                                                             *)

\* Who owes a reference to doc_snapshot s: docs[], workspace snapshots,
\* contexts, and releases that have been decided but not executed.
CurrentIn(s) == {d \in Doc : docs[d].snap = s}
PreviousIn(s) == {d \in Doc : docs[d].prev = s}
MemberOf(s) == {p \in Ws \X Doc : ws[p[1]].docs[p[2]] = s}
PreviousOf(s) == {q \in Query : ctx[q].prev = s}
Slots(op, x) ==
  UNION {{t} \X {i \in DOMAIN todo[t] : todo[t][i] = [op |-> op, obj |-> x]} : t \in Thread}

SnapHolders(s) ==
    Cardinality(CurrentIn(s)) + Cardinality(PreviousIn(s)) + Cardinality(MemberOf(s))
  + Cardinality(PreviousOf(s)) + Cardinality(Slots("drop", s))

\* And to workspace snapshot w: g_ws, contexts, the diagnostics workers.
PinnedBy(w) == {q \in Query : ctx[q].ws = w}
PendingAt(w) == {v \in Diag : diag[v].pending = w}
RunningAt(w) == {v \in Diag : diag[v].running = w}

WsHolders(w) ==
    (IF gws = w THEN 1 ELSE 0) + Cardinality(PinnedBy(w)) + Cardinality(PendingAt(w))
  + Cardinality(RunningAt(w)) + Cardinality(Slots("drop", w))

\* The refcount of every allocated snapshot is the number of its holders, and
\* nobody holds an address that is not allocated: docsnap_release and
\* ws_release never free an object a query or a diagnostics worker can still
\* reach, whichever thread drops the last reference.
CountsMatchHolders ==
  /\ \A s \in Snap : SnapHolders(s) = IF snap[s].refs = Nil THEN 0 ELSE snap[s].refs
  /\ \A w \in Ws : WsHolders(w) = IF ws[w].refs = Nil THEN 0 ELSE ws[w].refs

\* A snapshot whose count is zero is in exactly one thread's destructor: it is
\* neither leaked nor freed twice.
FreedOnce ==
  /\ \A s \in Snap : Cardinality(Slots("free", s)) = IF snap[s].refs = 0 THEN 1 ELSE 0
  /\ \A w \in Ws : Cardinality(Slots("free", w)) = IF ws[w].refs = 0 THEN 1 ELSE 0

\* Whichever of coordinator, query threads and diagnostics workers drops the
\* last reference, a snapshot lives exactly as long as somebody holds it.
ReferencesCounted == TypeOK /\ CountsMatchHolders /\ FreedOnce

\* Every token-span buffer has one owner: a snapshot or the recycle slot, and
\* an owned buffer is allocated ("The exchange/CAS pair never loses or
\* double-owns a buffer", parser.c).
OwnersOf(b) == {s \in Snap : snap[s].buf = b}
BufferOwnedOnce ==
  \A b \in Buf : Cardinality(OwnersOf(b)) + (IF recycle = b THEN 1 ELSE 0)
                    = IF b \in bufs THEN 1 ELSE 0

\* Token data a running query reads is allocated and is the memo of a snapshot
\* the query has pinned; data that lost the CAS is freed.
MemoSafe ==
  /\ \A q \in Query : ctx[q].memo \subseteq memos
  /\ memos = {snap[s].memo : s \in {x \in Snap : snap[x].memo # Nil}}
               \cup {<<q, ctx[q].at>> : q \in {x \in Query : ctx[x].pc = "cas"}}

\* A context sees one workspace: from Pin to Finish neither the documents of
\* its workspace snapshot nor the token buffers and memos behind them change,
\* whatever the coordinator parses, publishes or forgets meanwhile.
PinnedStep ==
  \A q \in Query :
    LET w == ctx[q].ws IN
    (w # Nil /\ ctx'[q].ws = w /\ ctx'[q].primary = ctx[q].primary) =>
      /\ ws'[w].docs = ws[w].docs
      /\ \A d \in Doc : LET s == ws[w].docs[d] IN
           s # Nil => /\ snap'[s].buf = snap[s].buf
                      /\ snap[s].memo # Nil => snap'[s].memo = snap[s].memo

\* What a query has pinned never changes under it (build_query_context_locked).
PinnedViewStable == [][PinnedStep]_vars

\* A snapshot the server has moved on from is eventually freed: superseded
\* workspace snapshots do not accumulate behind queries or tj3 runs.
SupersededFreed ==
  \A w \in Ws : (ws[w].refs # Nil /\ w # gws) ~> (ws[w].refs = Nil \/ w = gws)
=============================================================================
