# A TLA+ model of taskjuggler-lsp

taskjuggler-lsp is a Language Server for TaskJuggler project files, written in
C. This directory holds TLA+ specifications of its threads, its workspace and the
algorithms behind its queries, TLC configurations that model-check them, and TLAPS
proofs (`*Proofs`). Line numbers of the modelled code are
in `PROJECT.json` ("map"); source files below are under `src/src/`.

## 1. The system

| Part | Files | State | Operations | Modelled by |
|---|---|---|---|---|
| Reader and dispatch | main.c, server.c, rpc.c | none of its own | read a framed message, classify, enqueue, handle `$/cancelRequest` and `exit` itself | `Messages`, `ThreadPool` |
| Job queues | job_queue.c | linked list, closed flag, condition variable | push, blocking pop, close, mark cancelled by id, free | `JobQueue` |
| Thread pool | threadpool.c | two queues, coordinator, query workers | dispatch in arrival order, run queries in parallel, cancel, stop | `ThreadPool` |
| Diagnostics workers | diag_worker.c, diagnostics.c | registry of workers; per worker a pending snapshot, stop flags and the last published set | reconcile with a snapshot, request, run, publish and clear, retire, shutdown | `DiagWorkers` |
| tj3 runner | tj3.c, sandbox.c | pipe and child process per run, a staging directory | stage files, pipe, fork, confine and exec, drain, reap, parse stderr, remove | `Tj3Runs`, `Tj3Staging` |
| Revalidation | workspace.c | published snapshot `g_ws` | publish a snapshot, empty baselines, registry update | `Workspace`, `DiagWorkers` |
| Workspace | workspace.c, compile_commands.c | include graph, prefixes, compile_commands cache | reload, follow includes, assemble projects | `Workspace`, `ProjectTree` |
| Document store, lifecycle | document_store.c, lifecycle.c | `docs[64]` | didOpen, didChange, didClose, watched files, renames | `Workspace`, `TextSync` |
| Snapshots | query_context.c, parser.c | reference counts, token memo, recycled buffer | acquire, release, memoise | `Snapshots` |
| Semantic tokens | semantic_tokens.c, semantic_tokens_delta.c | resultId = parse version | full, delta (Myers diff) | `SemanticTokens`, `TokenDelta` |
| Project tree | project_tree.c, dependency.c, definition.c, references.c, document_highlight.c | prefix-applied tree, memo cell per dependency | resolve dependencies and references | `ProjectTree` |
| Symbol tree | grammar.y, parser.c, document_symbol.c, workspace_symbol.c, folding_range.c | declarations with ranges, owner of each token | build, owner pass, node at a position, outline, folds | `TokenOwners` |
| Cursor queries | hover.c, signature.c, completion.c, folding_range.c | none | find the statement around the cursor in any text | `KeywordContext` |
| Code lenses | code_lens.c | dates captured on tasks | infer the other end of a task | `CodeLens` |
| Grammar tables, URIs, arena, debug | grammar.y, lexer.l, pathutil.c, arena.c, debug.c | - | parsing tables, percent coding, allocation, logs | not modelled |

How they interact. The reader puts every message on `work_queue`. The
coordinator pops in arrival order; notifications it runs itself (they change
`docs[]` and end in `revalidate_all_docs()`), queries it gives a pinned
snapshot and puts on `request_queue`, from which the query workers take them.
`revalidate_all_docs()` publishes a new snapshot, sends an empty diagnostics
list for each editor document and hands the snapshot to the diagnostics
workers, one thread per project, each of which forks `tj3`. All threads write
to stdout under one mutex. `exit` or end of input stops the pool and then the
diagnostics workers.

What is hard: jobs that change hands between four kinds of thread; a cancel
that scans two queues while jobs move between them; arrival order with parallel
queries; sleeping threads and shutdown; diagnostics of overlapping revisions
published one document at a time by several threads; synchronous joins; file
descriptors shared by concurrent forks; snapshots freed by whichever thread
comes last; a disk, an editor and a file watcher that disagree; state that
outlives its reason (prefixes, roots, status, resultIds); and queries on texts
that are being typed and do not parse. `PROJECT.json` ("hazards") lists each
at its line with the properties that would catch it.

What makes each part correct:

* pool: one owner per job, one reply per request, arrival order, cancels that
  hit what they should and nothing else, a stop that drains and ends;
* diagnostics: no stale or orphaned marker, a screen that is right when the
  workers are idle and becomes right if tj3 ends, a slow project that delays
  nobody else, a shutdown that ends;
* tj3 runner: each run reads its own child's whole output, ends, and leaves no
  process and no directory behind; includes name the staged copies and messages
  are mapped back;
* workspace: project membership is the include closure of the compile_commands
  roots as they are now, the editor's text wins over the disk;
* snapshots: nobody reads what was freed, everything is freed once, and what is
  superseded is freed in the end;
* semantic tokens: applying a delta to what the client holds gives the current
  tokens, and decoding them gives the source's;
* project tree: a dependency resolves to the task of that qualified id, whatever
  thread asks first, and definition, references, highlight, hover and completion
  agree with one another;
* positions: the owner of a token is the innermost declaration around it, and
  what a query answers is about the statement in which the cursor is;
* text: after every notification the server's text is the editor's.

## 2. Modules

`Messages` holds the classes of message (query, inline request, unknown method,
notification), ids and the replies a client can see. `JobQueue` has the queue
operations as operators on a record `[jobs, closed, waiting]`; a sleeping thread
is in `waiting` until a signal, a broadcast or a spurious wakeup removes it.

`RequestService` is the abstract specification: messages arrive, each request is
answered once, a served one from exactly the notifications before it, a refusal
only if it was asked for, and after a close everything is answered.

`ThreadPool` is the implementation. A step is one critical section: a queue
operation under the queue's mutex or a handler's work on a popped job.
`threadpool_cancel_by_id()` takes the two mutexes one after the other and is two
steps. A job is its arrival number; `holds`, `freed` and the queues say who owns
it; `context` is what the pinned snapshot contains, as the set of notifications
applied before it was pinned. Payloads are left out. `docs_mutex` is only taken
by the coordinator and is no variable.

| action | code |
|---|---|
| `Enqueue`, `CancelScanWork`, `CancelScanRequest` | `server_process()`, `threadpool_cancel_by_id()` |
| `CloseWorkQueue`, `JoinCoordinator`, `JoinWorkers` | `threadpool_stop()` |
| `CoordinatorPop`, `CoordinatorDispatch`, `CoordinatorPush` | coordinator loop, `server_dispatch_*()`, `server_coordinate_query()` |
| `WorkerPop`, `WorkerRun` | worker loop, `server_run_query()` |
| `SpuriousWakeup` | what `pthread_cond_wait()` may do |

`DiagWorkers` is the registry, the workers and the client's screen. A snapshot
is what the workers read of it: projects, their class, the project of each
document, the documents that tj3 complains of and those that get the
compile_commands warning. A worker is named by project and mode, which are fixed
for its lifetime, so that an old and a new worker of one project are different
threads. `shown[u]` is the revision whose markers the client displays for a
document. Every single notification is a step: the coordinator's empty baseline
(`Baseline`), a worker's current set (`Publish`), then its clears (`ClearOld`).
`RetireFlipped`, `RetireUnseen` and `RetireAtShutdown` set the stop flag and
leave the coordinator in `Join`, where it can do nothing else. The order in
which projects, workers and documents are walked is left open. The condition
variable of a worker has a single waiter that rechecks its predicate under the
lock, so waiting is a guard.

`Tj3Runs` is `run_tj3()` executed by several workers at once. `holders[w]` says
which processes have the write end of w's pipe open; `Fork` copies every write
end the server has open at that moment, which is what `fork()` does with
descriptors that are not close-on-exec. A pipe ends when it is empty and nobody
holds its write end. The kernel's side is modelled from how tj3.c uses it.

`Tj3Staging` is `tj3_collect_project()` around it, for one worker (the directory
is private): which documents are staged where, the choice between a confined run
and one without reports, the lines of stderr and their parsing. A path is a
sequence of components, a line a sequence of atoms (path, colon, number, the two
markers, text); tj3 itself is external and may name a staged file in any of the
ways the code provides for.

`Snapshots` names snapshots, workspaces and token buffers by their addresses, so
that a freed one may be allocated again. A release is a stack of instructions
(drop a count, hand the buffer on, free; the next one is last) that its thread
works through with other threads in between; the destructor of a workspace drops
its documents one by one (`DropDoc`). `gws` is read and pinned by the coordinator
only, as in the code.

`Workspace` has one action per handler, since all of them run on the coordinator
under `docs_mutex`; each ends in the whole of `revalidate_all_docs()` with the
reload, the parsing of loaded files and their includes, and the assembly of the
projects. `load_file_from_disk()` and `follow_includes()` call each other;
`Loading[n]` is the former with n calls of itself below it, and `MaxDocs` of them
are all there can be, since each has taken a slot. The loops over `docs[]` are
`InSlotOrder`. The environment is the editor's buffers, the disk and the watcher's
events, which arrive late. A text is a value of which only the
include statements matter. `ProjectTree` details the assembly: declarations are
cloned under their prefixes and dependencies resolved with `project_dep_resolve()`
by several workers that share the memo cells.

`SemanticTokens` is the way from lexemes to the integers sent, with the client's
decoding as reference; a lexeme is the lengths of its lines. `TokenDelta` is
Myers' diff with the code's array indices, and the resultId protocol with several
requests in flight. There a document has lives, from `doc_alloc()` to `doc_free()`:
the latter only frees the slot, a request made before it is answered after it from
the parses it pinned, and the next life's counter starts at 1. What the editor does
with the tokens of a document it closed is the constant `Forgets`. `TextSync` compares the bytes of the server with the editor's
text under edits.

`TokenOwners`, `KeywordContext` and `CodeLens` write a document step by step, so
that every prefix of a text is a state and every query is asked in it. In
`TokenOwners` the steps are statements and the grammar's reductions build the
tree; a body still open is closed at the end of the text, as the lexer does. In
`KeywordContext` a document is any sequence of lexemes, since the code only scans
tokens. `CodeLens` counts time in days.

`MC*` modules give the constants values. `MCProgress` (what must eventually happen),
`MCSnapshots`, `MCWorkspace` and `MCDocuments` hold several situations of a component, or several components that
work on the same documents, and choose one with the variable `part` before the
first step; from then on only the actions of that part are taken, and a property
of a part is stated under `part = ...`. Definitions with a fault, used to show that
each property can fail, stand before the definition that they vary.

## 3. What is checked

| run | specification and bounds | properties |
|---|---|---|
| pool_safety | 3 messages, 1 cancel, 2 workers, 1 numeric id, and requests with a string id that no cancel can match | `SingleOwner`, `RepliedOnce`, `ServedInArrivalOrder`, `RefusedOnlyIfAsked`, `CancelHonoured`, `DrainedAtExit` |
| diag_safety | 3 revisions, 2 projects, 3 documents, 1 failed spawn | `RegistryOK`, `NoOrphanMarker`, `NoStaleMarker`, `Converged`, `ClearsOnlyStale` |
| snapshots | 1 document, 3 snapshots, workspaces and buffers; diag: 1 query and 1 diagnostics worker; queries: 2 queries, no diagnostics worker, no document closed | `ReferencesCounted`, `BufferOwnedOnce`, `MemoSafe`, `PinnedViewStable` |
| progress | the parts runs, pool, diag and snapshots below, fair | listed with the parts |
| workspace | 3 URIs and slots. files: edits, writes, deletions, compile_commands.json removed, 1 event on its way; disk: disk changes and renames, 2 events on their way; graph: include graphs with cycles, entries that come and go, a malformed compile_commands.json; stable: an include whose prefix comes and goes, an entry that is added, a malformed compile_commands.json | `TextsCurrent`, `ProjectsCurrent`, `DerivedStateCurrent` |
| documents | the parts below | listed with the parts |
| diag_moved_document | 2 revisions; a document moves to another project | `ClearsOnlyStale`, refuted |
| tj3_inherited_pipe | 2 workers, outputs of 0 or 1, fair | `SlowRunIsolated`, refuted |
| workspace_rename_open | 3 URIs and slots, edits and renames | `EditorTextWins`, refuted |
| workspace_stale_roots | the part graph of workspace | `RootsFromFile`, refuted |
| workspace_orphan_prefix | 3 URIs and slots, edits; an include with a prefix that comes and goes | `OrphanUnprefixed`, refuted |
| documents_reopened_ids | the part kept of documents | `ResultIdsMonotonic`, refuted |

The properties of the larger runs are conjunctions of named parts that are defined,
with a comment each, in the component's module:

| property | its parts |
|---|---|
| `RegistryOK` | `TypeOK`, `OneWorkerPerProject` |
| `RunsClean` | `TypeOK` and `NothingLeftBehind` (child, pipe) |
| `StagingSound` | `IncludesResolve` (paths into the directory), `DiagnosticsFaithful` (and back), `NothingStagedLeft` (directory), `ReportsStayInside` |
| `ReferencesCounted` | `TypeOK`, `CountsMatchHolders`, `FreedOnce` |
| `TextsCurrent` | `TypeOK`, `UniqueUri`, `EditorTextWins`, `DiskTextCurrent`, `ClosureLoaded` |
| `ProjectsCurrent` | `EdgesCurrent`, `PublishedCurrent`, `MembershipIsReachability`, `TreeWithinContext` |
| `DerivedStateCurrent` | `IncludedPrefix`; `EntriesAreRoots` in parts graph and stable, where no file is deleted; `StatusTruthful` outside part files, where compile_commands.json is not removed |

Parts of the run progress:

| part | bounds | properties |
|---|---|---|
| runs | 2 workers, pipe of 1 chunk, outputs of 0 to 3 | `OutputComplete`, `RunsClean`, `RunsEnd` |
| pool | 2 messages, 1 cancel, 2 workers, 1 numeric id | `EveryRequestAnswered`, `StopTerminates`, `ImplementsService` |
| diag | 2 revisions, 2 projects, 3 documents | `EventuallyUpToDate`, `SlowProjectIsolated`, `ShutdownEnds` |
| snapshots | 1 document, 2 snapshots, workspaces and buffers, 1 query that asks for no token data, 1 diagnostics worker | `SupersededFreed` |

Parts of the run documents:

| part | bounds | properties |
|---|---|---|
| sync | texts of 4 letters and line ends, notifications of 1 or 2 edits | `TextAgrees` |
| encode | 3 tokens of up to 3 lines | `EncodingFaithful`: `DecodesToSource`, `FitsAllocation` |
| diff | pairs of arrays of up to 3 tokens of 3 kinds or 4 of 2, the replacement bound included | `DeltaSound`: `DeltaCorrect`, `DeltaNormal`, `DeltaMinimal`, `DiffFitsAllocation` |
| session | 3 versions, 2 requests in flight, 1 life | `ResultIdsHonoured`: `OneArrayInLife`, `AnswersRight`, `ClientHoldsNamedTokens` |
| reopened | 2 lives of 2 versions, 2 requests in flight across the close; an editor that forgets what it closes | the same |
| kept | the same with an editor that keeps its tokens and takes late answers | `ResultIdsHonoured`: `OneArrayInLife`, `AnswersRight` |
| outline | 3 declarations, tasks and project blocks, 2 line breaks | `CursorFindsInnermost`: `OwnersInnermost`, `NodeAtInnermost`, `DeclFound`; `ViewsFollowNesting`: `OutlineInSourceOrder`, `FoldsNest` |
| nested | 3 declarations, 1 dependency | `CursorFindsInnermost`: `DependencyOnEnclosingTask`, `DependencyFound`; `CompletionFits`: `KeywordsOfBlock` |
| cursor | every text of 5 lexemes of 6 kinds on 2 lines | `StatementAtCursor`: `ContextIsStatement`, `HighlightFollowsCursor`; `CompletionFits`: `NewStatementNotFilled`, `ArgumentIds` |
| brackets | every text of 7 brackets on 3 lines | `ViewsFollowNesting`: `FoldsMatchBrackets` |
| dates | 1 task, 5 days around a weekend, 11 values | `LensesRight`: `DateCoversValue`, `EndsAreInverse` |
| lenses | 3 tasks, nested or not | `LensesRight`: `LensIffOwnEndpoint` |
| tree | 2 documents, 3 declarations, 1 dependency of up to 2 segments and 2 bangs | `ReferencesAgree`: `ClosureCopied`, `OwnClone`, `DefinitionInvertsReferences`, `HoverNamesTarget`, `HighlightCoversCursor`; `DependenciesResolve`: `ResolvesByQualifiedId`, `OfferedResolves` |
| memo | 2 dependencies, 2 workers | `DependenciesResolve`: `MemoIsPure` |
| staging | 3 files in 3 directories (two of one name), a document without a path, both modes, failures | `StagingSound` |

Bounds. Three messages are enough for a notification between two queries that
overlap, for an id that is used again around a cancel, and for work in both
queues at the time of a stop; the theorems below remove the bound for the safety
properties. Three revisions are one to run, one to be replaced while pending and
one to replace it; p1 has a disk-only document that no baseline clears, and the
five snapshots let each project leave, return, change mode and lose its
diagnostics. Two workers are enough for one to be asleep when the other takes
the job. An output larger than the pipe makes tj3 block. Three snapshots are the
one being read, the previous one and the one being built. Three slots and URIs
make a root, an included file and one that either includes or is included by
both. Three declarations are parent, child and sibling. The longest values of a
lens are a month, which crosses four weekends. Arrays of fixed size keep the
code's capacity (`SymCap`, `StackCap`, `BracketCap`, `ChainCap`) where texts of
the checked length do not reach it.

Fairness. Every thread that can take a step takes one eventually: pthreads are
scheduled, handlers terminate and stdout is read by the client. That messages
arrive, that the client cancels or exits, or that a file changes is never
assumed. That tj3 ends is no part of a specification, since the server neither
times out nor kills it: it is a hypothesis of the property that needs it
(`Tj3Ends` in `EventuallyUpToDate` and `SlowProjectIsolated`, `WF_vars(Exit(w))`
in `RunsEnd`), and `SlowProjectIsolated` has it for one project only. In
`Snapshots` the coordinator's handler, a query, a diagnostics run and a release
that have begun go on; nothing forces new edits or queries.

Assumed of the client: a position lies in the text it has sent. Of its semantic
tokens nothing is assumed in `OneArrayInLife` and `AnswersRight`: an answer to a
request whose base is of the request's own life is right, however late it arrives.
That the editor itself then holds what its resultId names (`ClientHoldsNamedTokens`)
needs an editor that drops a document's tokens, and answers still to come, when it
closes the document (`Forgets`): `doc_version` starts again at 1, so for an editor
that kept them one resultId names two arrays (documents_reopened_ids) and a delta
may be computed from another array than the one it is applied to.

### Where the code and what is said of it differ

Six runs that TLC refutes; each is quoted with both places in `PROJECT.json`
("findings"):

* tj3_inherited_pipe: diag_worker.h:32 says "A slow project never delays another
  project's diagnostics." A slow tj3 that was forked between another worker's
  `pipe()` and `close(errpipe[1])` keeps that worker's pipe open, so its `read()`
  sees no end of file. What is read is still complete (`OutputComplete`).
* diag_moved_document: if a document moves to another project, the old
  project's worker clears it after the new one's markers were published; the
  screen stays wrong until the next change. All other properties of DiagWorkers
  are checked for documents that stay in their project.
* workspace_rename_open: a rename onto a document that the editor has open makes
  it a disk-only document, and the server works with the disk's text.
* workspace_stale_roots: workspace.rst:114-116 says the workspace is rebuilt when
  compile_commands.json changes. `is_cc_root` is set for its entries and never
  cleared, so a file that is dropped from it goes on heading a project, and claims
  documents that another root includes.
* workspace_orphan_prefix: workspace.c:585-586 says an orphan stands at top level
  "with no prefix". A prefix that an include directive left on a document outlives
  the directive; the orphan's tree has no task of that name, and its declarations
  are left out of it. An orphan that a file outside compile_commands.json still
  includes under a prefix has an empty tree for the same reason.
* documents_reopened_ids: query_context.h:90 calls `doc_version` a "monotonic parse
  stamp; also the semantic-tokens resultId". It starts again with each life of a
  document.

Met while modelling, and kept out of the passing runs by their constants or by a
hypothesis of the property that names the case:

* `diag_registry_shutdown()` leaves the markers; diag_worker.h:51 says they are
  cleared. The code's own comment (diag_worker.c:140) says it skips this on
  purpose.
* A project that changes mode, or disappears, while its tj3 hangs keeps the
  coordinator in `pthread_join()`, and another project's request is never made.
  `SlowProjectIsolated` is stated for registries that stay the same (`Steady`).
* tj3.c: an include that goes above the common directory of the members and back
  names nothing in the staging directory; a warning with ": Error: " in its
  message is dropped.
* workspace.c: an include's prefix is missing if the included file was created
  later, and a root whose file is deleted and comes back is no root until
  compile_commands.json is loaded again; the status of an earlier
  compile_commands.json stays after the file is removed; a file of two projects is
  a member of one only; when `docs[]` is full an opened document
  is dropped.
* semantic_tokens.c: comments beyond the lexer's 4096 bytes get wrong lengths; the
  declaration modifier is never set.
* project_tree.c, completion.c: tasks without an id share a clone; completion
  offers ids that do not resolve, above the root and under a prefix; a file is
  left out of the tree if its prefix task is declared later in the breadth-first
  walk.
* grammar.y, parser.c: no node between hoisted declarations of a project block;
  the range of a declaration without a body is its keyword, so that it is not
  found from its id; the stack of 128 tasks overflows asymmetrically.
* hover.c, completion.c: numbers are not counted as arguments; three keywords
  never get ids; keywords are offered for a declaration's id; ids are offered on
  an empty line after a statement; a repeated argument on a continuation line
  gets keywords.
* lifecycle.c: columns are counted in bytes, the protocol's in UTF-16 units.
* code_lens.c, lexer.l: a value written with a space (`length 5 d`) gets no lens,
  since `emit_plain()` records no span for its number; code_lens.c:104-106 reads
  such values and lsp_coverage.rst:184 promises the lens. `LensIffOwnEndpoint`
  is about compact values only. grammar.y: a date inside `supplement task` goes to
  the task around it.
* lsp_coverage.rst:298 says `workspace/symbol` returns top-level declarations; the
  code, and `OutlineInSourceOrder`, include nested ones. lsp_coverage.rst:59 says
  `exit` terminates immediately; the code drains the queues first, as
  threadpool.h:34 says and `DrainedAtExit` states.

## 4. What is proved

The theorems hold for every value of the constants: any number of workers,
messages, documents, projects, revisions, snapshots and requests. They assume the
named assumptions of the modules (bounds are natural numbers, the markers for
"none" are distinct from what they stand beside, the sets of addresses and slots
in `Snapshots` are finite), which TLC evaluates on every run, and where a theorem
has a further hypothesis it is said below.

**Thread pool** (`ThreadPoolProofs`). `PoolInv` is an invariant of `SafeSpec`
(`PoolInvariance`), and from it follow `TypeOK`, `SingleOwner`, `NoJobLost`,
`RepliedOnce`, `ServedInArrivalOrder`, `RefusedOnlyIfAsked`, `CancelHonoured`
and `DrainedAtExit`. The properties are not inductive: that a job has one owner
depends on how the queues are filled. `PoolInv` says it: the work queue is the
interval of arrival numbers that were not taken yet (`WorkQueueInv`); the
coordinator holds the job it took last, the request queue is increasing and what
the workers hold is older than anything in it (`OwnerInv`); a job is freed exactly
when it has passed the coordinator and is not in the pool (`FreedInv`), which makes
single ownership and no loss the same fact; the notifications applied, and those in
a pinned context, are the ones before a job (`PinInv`); replies and marks agree with
that (`ReplyInv`, `CancelInv`); a stop proceeds from reader to coordinator to
workers (`ShutdownInv`).

**Refinement** (also `ThreadPoolProofs`). `PoolRefinesService` is the safety part of
`ImplementsService`: every step of the pool is a step of `RequestService` or leaves
what the client sees unchanged. Beside `PoolInv` it needs `PoolKinds`, that only
queries and unknown methods reach the workers: without it a worker could answer an
inline request, which the service serves at its place in the order. The fairness
part stays with the run progress.

**Diagnostics workers** (`DiagWorkersProofs`). Unconditionally: `RegistryOK` (one
worker per project, also across a change of mode) and `NoOrphanMarker`. Their
invariant `WorkerInv` adds which workers are registered, seen or being joined at
each stage of an update (`RegistryInv`), which fields of a worker can
be set in which state (`WorkerShape`), that a worker's revisions grow and
only one that was seen has the latest (`WorkerRevisions`), and that each marker is in the set, the old set or the last
published set of a worker (`MarkersCovered`). With the hypothesis `DocumentsStay`
(a document that has a project in two snapshots has the same one in both):
`NoStaleMarker`, `ClearsOnlyStale` and `Converged`, from `ScreenInv`: what a
document was last shown came from its own project's worker (`ShownByRun`), what
a worker has still to publish is no older than what its documents were shown
(`Ahead`), and a worker that was seen in
the current update has the latest revision pending, running, published or on the
screen (`Validating`). The hypothesis is needed: the run diag_moved_document is
the counterexample without it.

**tj3 runs** (`Tj3RunsProofs`). `OutputComplete` and `RunsClean` from `RunInv`: the
server has the write end open exactly between `pipe()` and `close()` (`ServerEnd`),
what a worker knows of its child (`ChildKnown`), that only running children hold a
write end, whoever's pipe it is (`HoldersRun`), and that what was read, what is in
the pipe and what is still to be written add up to the output (`Conserved`).

**Snapshots** (`SnapshotsProofs`). `RefInv` is `ReferencesCounted` with what it
needs to be inductive: the releases still to run are finitely many (`SlotsFinite`), a thread that
has a context or a run has no release left over from the one before
(`ThreadsOrderly`), and an unallocated workspace names no documents. The argument
counts: each step changes the count of an object by as much as it changes the
number of its holders, where the instructions that a thread still has to run count
as holders. `BufInv` adds to it that the destructor of a snapshot gives its buffer
away just before the rest of it runs, and that a snapshot that is held has one
(`BufferKept`), which gives `BufferOwnedOnce`. `MemoInv` adds that a memo names its
snapshot and that a query reads only memos of snapshots it has pinned (`MemoKept`),
which gives `MemoSafe`. `PinnedViewStable` is an action property: a step that
changes an allocated workspace or snapshot is an allocation or part of a destructor,
and by `RefInv` neither can touch what is pinned.

**resultIds** (`TokenDeltaProofs`). For any number of lives and of requests in
flight across them. A request pins parses that the slot has long replaced or that
belong to a life that is over, so `StampInv` speaks of every stamp that is known: of
the slot's two parses, of those that requests have pinned and of those handed out,
each with its life. None is of a life to come (`LivesBegun`), the counter is ahead of
those of the present life (`CounterAhead`), and in one life a stamp names one array
(`StampsNameOneArray`); so a new life's stamps meet no old ones although its counter
starts at 1 again. `OneArrayInLife` follows. With the hypothesis `DiffInverts`,
`AnswersRight`: a delta for a base of the request's life is computed from the array
that the base is. With the further hypothesis `Forgets`, `ClientHoldsNamedTokens`,
from `NamedInv` (what the client holds or has sent as a base was handed out in that
life); documents_reopened_ids shows why an editor that does not forget is left out.
`DiffInverts` is `DeltaCorrect` for every pair of buffers; the diff is a fold over
its input, so the part diff of the run documents checks it for short arrays. All
suppose that NULL is not a slot (`NullIsNoSlot`).

**Memo cells** (`ProjectTreeProofs`). `MemoIsPure` from `MemoInv`: a worker that is
busy with an edge pins the tree (`Pins`), so assembly and release find the pool
idle, and the edge has a cell.

**tj3 staging** (`Tj3StagingProofs`). `DiagnosticsFaithful`, `NothingStagedLeft` and
`ReportsStayInside`, for documents with canonical paths (`PathsCanonical`: sequences
of proper names, pairwise different) and messages that do not contain `: Error: `
(`MessagesPlain`). The argument: the common directory is a proper prefix of every
member's path, so relative paths are neither empty nor shared by two members; hence
`map_reported_path()` undoes each way in which tj3 may write a staged file's path and
finds nobody for a path outside; and in a line with a position the marker and the
colon found are the ones tj3 wrote. `StagingInv` adds that the lines of a running tj3
are such lines and that nothing is collected before it ended (`LinesPending`), and
that only confined runs write reports (`Confinement`). The hypothesis on messages is
needed: `parse_diagnostic_line()` looks for an error's marker first, so a warning
whose text contains one is dropped.

**Workspace** (`WorkspaceProofs`). `ProjectsCurrent` holds for any files, include
graph, compile_commands.json, environment and number of slots. Its invariant is
`Sound` (`WorkspaceInvariance`): no file has two slots, slots not in use are zero,
include edges are those of the stored texts, `g_ws` is what
`build_workspace_snapshot()` makes of the present `docs[]`, and nothing is loaded
before `initialized`. What has to be shown of a handler is the effect of loading,
which is recursive: by induction on the calls still possible, a load only adds
background documents with the text of the disk, leaves the others as they are
except for prefixes and roots, and goes on until everything that the new documents
include is loaded or no slot is left (`LoadingSpec`, `InstallSpec`); from it come
the effects of the handlers (`OpenEffect`, `ChangeEffect`, `CloseEffect`,
`ForgetEffect`, `AdmitEffect`, `RenameEffect`). That the queue of
`project_populate_from_root()` computes reachability is `BfsReaches`: its visited
list has no repetitions, is inside the closure, and after k rounds the successors of
its first k entries are in it, so that with `MaxDocs` rounds it is closed. Together
with the folds that build a tree (`TreeFacts`) and the order of the slots
(`SlotOrder`) this gives membership and what a query sees.

`TextsCurrent` needs two hypotheses. `DocsFit`: `docs[]` has a slot for every file;
with fewer, a document that finds no slot is dropped and never asked for again, so
that the closure is not loaded even after slots become free. `RenamesApart`: an
editor that edits does not rename files; the run workspace_rename_open is the
counterexample without it. The invariant is `Sound` with `Fresh`: a document is
open exactly if it is not disk-only, with the buffer's text (`Buffers`); a file of
which no event is on its way is `Settled` (its document has the disk's text, and it
has one if something that is loaded includes it); and the last event on its way
about a file says whether the file still exists (`EventsAgree`), so that handling
that event settles the file, whatever events about it came before.

**Text** (the last part of `WorkspaceProofs`). `TextAgrees` of `TextSync`, for texts
of any length. The hypothesis is that the characters take one byte in a line or end
it, as in the run documents: `apply_incremental_change()` counts columns in bytes
where LSP counts UTF-16 units, so with others it fails (`Utf8` has one for trying).
For texts of such characters `TextAgrees` is inductive, and what has to be shown is
that the scan over the bytes stops where the editor means. A gap of the text and its
place in the bytes have the same position (`PositionsAgree`, by induction over the
characters, with the CR of a CRLF as a column that its line end takes back),
different places have different positions (`PosDiffer`), and counting on from the
start of the range gives the positions of what follows (`PosFrom`); so both scans of
an edit end at its gaps (`ScanFinds`, `EditApplied`). `ChangesApplied` unfolds the
fold over the changes of a notification.

Only model-checked:

* liveness (`EveryRequestAnswered`, `StopTerminates`, `EventuallyUpToDate`,
  `SlowProjectIsolated`, `ShutdownEnds`, `RunsEnd`, `SupersededFreed`) and the
  fairness part of `ImplementsService`: TLAPS has no rules for fairness and
  `ENABLED`;
* the modules with recursive operators, for which the prover has no backend:
  `TokenOwners` and `KeywordContext`;
* what most folds compute from a whole text or array: the diff, the encoding of
  tokens, the assembly and resolution in `ProjectTree`, `CodeLens`, and
  `IncludesResolve`, where a reference of any length is followed component by
  component. Each needs an induction of its own over the data, which can be done
  only through the least element of a set of numbers, as in `WorkspaceProofs`
  (`LeastNumber`, `UpTo`), since the library's induction theorems are out of the
  provers' reach;
* `DerivedStateCurrent`, whose parts hold only in the situations that the run
  names, and `StagingSound` for its part `IncludesResolve`.

## 5. What is not modelled

* The LALR tables and the parser's recovery on malformed text other than missing
  closing braces; a second or nested project block.
* pathutil.c: percent coding of URIs and the textual fallback for `realpath()`.
  The models name files by canonical paths. Nor is the text of
  compile_commands.json and the search for it (compile_commands.c): its entries
  are a sequence of files, or it is malformed.
* Message framing, the JSON of replies, documentation texts, labels and wording.
* completion.c's scans of the raw text for unterminated strings and scissors.
* In `TextSync`: a lone CR as line end and positions past the end of a line.
* Landlock itself (external); the arena allocator and logging.

Out-of-memory paths end the process. `tj3_available()` and `sandbox_available()`
cache their answer without a lock; all threads compute the same value.

## 6. Plan

1. Facts about one step of the folds (`push_relative_entry` and the client's
   decoding, `copy_document_into_project`) as lemmas beside the runs that check
   the whole folds.
2. The text scans of completion and the search for compile_commands.json.
