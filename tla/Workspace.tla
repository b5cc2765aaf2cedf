----------------------------- MODULE Workspace -----------------------------
(***************************************************************************)
(* The document store, compile_commands.json, include following and the    *)
(* assembly of projects (workspace.c, document_store.c, lifecycle.c).      *)
(* Every handler runs on the coordinator under docs_mutex, so one handler  *)
(* is one action.  The environment is the editor (its buffers), the disk   *)
(* and the file watcher, whose events reach the server late.               *)
(*                                                                         *)
(* A text is a value; what matters of it is its include directives.  Every *)
(* document declares one top-level task named after its URI, so a path in  *)
(* a project tree is a sequence of URIs.                                   *)
(***************************************************************************)
EXTENDS Naturals, FiniteSets, SequencesExt

CONSTANTS Uri,        \* canonical URIs
          Text,       \* texts a file or a buffer can hold
          Includes,   \* [Text -> Seq([to : Uri, prefix : Seq(Uri)])]
          TextOf,     \* [Uri -> SUBSET Text]: texts a given file can hold
          MaxDocs,    \* MAX_DOCS, slots in docs[]
          CcFiles,    \* contents compile_commands.json can have, as Seq(Uri)
          Env,        \* what the environment does: a subset of EnvKinds
          MaxEvents,  \* bound: file events on their way to the server
          Disk0, Cc0, \* the disk when the server starts
          Malformed,  \* a compile_commands.json that does not parse or has the wrong schema
          Nil         \* NULL, absent

EnvKinds == {"edit", "write", "delete", "rename", "cc", "ccbad", "ccremove"}

ASSUME WorkspaceAssumption ==
  /\ MaxDocs \in Nat \ {0} /\ MaxEvents \in Nat /\ Env \subseteq EnvKinds
  /\ TextOf \in [Uri -> SUBSET Text] /\ Nil \notin Uri \cup Text
  /\ \A t \in Text : Includes[t] \in Seq([to : Uri, prefix : Seq(Uri)])
  /\ Disk0 \in [Uri -> Text \cup {Nil}]
  /\ Cc0 \in Seq(Uri) \cup {Malformed, Nil} /\ CcFiles \subseteq Seq(Uri)

VARIABLES
  docs,      \* docs[]: [1..MaxDocs -> Document]
  gws,       \* g_ws, Nil before the first revalidation
  ccStatus,  \* g_cc_status
  ccCached,  \* the cached mtime and size are those of the file
  phase,     \* "start", "initialize" answered, then "ready" after initialized
  root,      \* g_workspace_root (and with it g_cc_path) is set
  disk,      \* [Uri -> Text or Nil]
  cc,        \* compile_commands.json: Nil, Malformed or a sequence of entries
  editor,    \* [Uri -> Text or Nil]: the editor's open buffers
  events     \* file events not yet handled, oldest first

vars == <<docs, gws, ccStatus, ccCached, phase, root, disk, cc, editor, events>>

Slot == 1..MaxDocs

Document == [uri : Uri \cup {Nil}, text : Text \cup {Nil}, disk_only : BOOLEAN,
             is_cc_root : BOOLEAN, prefix : Seq(Uri), included : Seq(Uri)]
FreeSlot == [uri |-> Nil, text |-> Nil, disk_only |-> FALSE, is_cc_root |-> FALSE,
             prefix |-> <<>>, included |-> <<>>]

-----------------------------------------------------------------------------
(* document_store.c.  Operators named Faulty... vary the next definition;  *)
(* only the tests of the properties use them.                              *)

\* URIs are canonical, so both passes of doc_find() look for the same string.
doc_find(D, u) == IF \E i \in Slot : D[i].uri = u
                  THEN CHOOSE i \in Slot : D[i].uri = u ELSE 0

doc_alloc(D) == IF \E i \in Slot : D[i].uri = Nil
                THEN CHOOSE i \in Slot : D[i].uri = Nil /\ \A j \in 1..(i - 1) : D[j].uri # Nil
                ELSE 0

doc_free(D, i) == [D EXCEPT ![i] = FreeSlot]

\* The table after slot i, free or not, holds u.
Occupied(D, i, u) == [D EXCEPT ![i].uri = u]

-----------------------------------------------------------------------------
(* Loading (workspace.c).                                                  *)

\* Contents docs[] can have.
Table == [Slot -> Document]

\* The table once slot i holds the file u, its includes still to be followed.
FromDisk(D, i, u) ==
  [D EXCEPT ![i] = [FreeSlot EXCEPT !.uri = u, !.text = disk[u], !.disk_only = TRUE]]

\* Load the target with load, give it this directive's prefixes, record the edge.
FaultyInclude(load, D, u, inc) ==
  LET L == load[inc.to][D]  f == doc_find(L, u)
  IN  IF f = 0 THEN L ELSE [L EXCEPT ![f].included = Append(@, inc.to)]
FollowInclude(load, D, u, inc) ==
  LET L == load[inc.to][D]
      k == doc_find(L, inc.to)
      P == IF k = 0 THEN L ELSE [L EXCEPT ![k].prefix = inc.prefix]
      f == doc_find(P, u)
  IN  IF f = 0 THEN P ELSE [P EXCEPT ![f].included = Append(@, inc.to)]

follow_includes(load, D, u, t) ==
  LET f == doc_find(D, u)
      C == IF f = 0 THEN D ELSE [D EXCEPT ![f].included = <<>>]
  IN  FoldLeft(LAMBDA acc, inc : FollowInclude(load, acc, u, inc), C, Includes[t])

\* load_file_from_disk() with n calls of itself below it.  Each call that goes on
\* has taken a slot, so with MaxDocs of them no slot is left.
Loading[n \in 0..MaxDocs] ==
  [u \in Uri |-> [D \in Table |->
     IF n = 0 \/ doc_find(D, u) # 0 \/ disk[u] = Nil \/ doc_alloc(D) = 0 THEN D
     ELSE follow_includes(Loading[n - 1], FromDisk(D, doc_alloc(D), u), u, disk[u])]]

load_file_from_disk(D, u) == Loading[MaxDocs][u][D]

\* Store text t in slot i and parse it.
Reparse(D, i, t) == follow_includes(Loading[MaxDocs], [D EXCEPT ![i].text = t], D[i].uri, t)

install_disk_text(D, i, t) == Reparse([D EXCEPT ![i].disk_only = TRUE], i, t)

-----------------------------------------------------------------------------
(* compile_commands.json.                                                  *)

LoadEntry(D, u) ==
  LET L == load_file_from_disk(D, u)  k == doc_find(L, u)
  IN  IF k = 0 THEN L ELSE [L EXCEPT ![k].is_cc_root = TRUE]

load_compile_entries(D, entries) == FoldLeft(LoadEntry, D, entries)

\* reload_compile_commands(): the new table and the new status.
reload_compile_commands(D) ==
  CASE ~root \/ cc = Nil -> [docs |-> D, status |-> "MISSING"]
    [] root /\ cc = Malformed -> [docs |-> D, status |-> "MALFORMED"]
    [] OTHER            -> [docs |-> load_compile_entries(D, cc), status |-> "OK"]

\* A removed file only clears the cached stat; a changed one is loaded.
maybe_reload_compile_commands(D) ==
  IF root /\ cc # Nil /\ ~ccCached THEN reload_compile_commands(D)
                           ELSE [docs |-> D, status |-> ccStatus]

-----------------------------------------------------------------------------
(* Building the workspace snapshot.                                        *)

InUse(D) == {i \in Slot : D[i].uri # Nil}

\* Slots reached next from slot i, in include order, each once.
FaultyFrontier(D, i, visited) ==
  SelectSeq([k \in 1..Len(D[i].included) |-> doc_find(D, D[i].included[k])],
            LAMBDA j : j # 0 /\ j \notin ToSet(visited))
Frontier(D, i, visited) ==
  FoldLeft(LAMBDA acc, u : LET j == doc_find(D, u) IN
             IF j = 0 \/ j \in ToSet(visited) \cup ToSet(acc) THEN acc ELSE Append(acc, j),
           <<>>, D[i].included)

\* project_populate_from_root(): slots in the order their documents are copied;
\* the k-th round takes the k-th of them from the queue, if there is one.
Bfs(D, r) ==
  LET order[k \in 0..MaxDocs] ==
        IF k = 0 THEN <<r>>
        ELSE LET visited == order[k - 1]
             IN  IF k > Len(visited) THEN visited
                 ELSE visited \o Frontier(D, visited[k], visited)
  IN  order[MaxDocs]

\* A document lands under its prefix, or nowhere when the path does not exist.
copy_document_into_project(tree, d) ==
  IF d.prefix = <<>> \/ \E n \in ToSet(tree) : n.path = d.prefix
  THEN Append(tree, [path |-> Append(d.prefix, d.uri), doc |-> d.uri])
  ELSE tree

Project(D, i, order, fromCc) ==
  [id |-> D[i].uri, from_compile_commands |-> fromCc,
   tree |-> FoldLeft(LAMBDA t, j : copy_document_into_project(t, D[j]), <<>>, order)]

populate_ws_doc(d, p) ==
  [uri |-> d.uri, text |-> d.text, prefix |-> d.prefix, disk_only |-> d.disk_only,
   project_index |-> p]

\* A set of slots as the sequence in which a loop over docs[] meets them.
InSlotOrder(S) ==
  [k \in 1..Cardinality(S) |-> CHOOSE i \in S : Cardinality({j \in S : j <= i}) = k]

\* Pass 1: a project per compile_commands root, first to reach a document
\* claims it.  Pass 2: a singleton project per unclaimed document.
Claim(claims) == CHOOSE k \in claims : \A j \in claims : k <= j

build_workspace_snapshot(D, status) ==
  LET roots     == InSlotOrder({i \in InUse(D) : D[i].is_cc_root})
      order     == [k \in DOMAIN roots |-> Bfs(D, roots[k])]
      claims(i) == {k \in DOMAIN roots : i \in ToSet(order[k])}
      orphans   == InSlotOrder({i \in InUse(D) : claims(i) = {}})
      index(i)  == IF claims(i) # {} THEN Claim(claims(i))
                   ELSE Len(roots) + CHOOSE k \in DOMAIN orphans : orphans[k] = i
  IN  [cc_status |-> status,
       docs      |-> {populate_ws_doc(D[i], index(i)) : i \in InUse(D)},
       projects  |-> [k \in DOMAIN roots |-> Project(D, roots[k], order[k], TRUE)]
                     \o [k \in DOMAIN orphans |-> Project(D, orphans[k], <<orphans[k]>>, FALSE)]]

\* build_query_context_locked(): the documents a query on u sees.
QueryDocs(w, u) ==
  LET prim == {d \in w.docs : d.uri = u}
  IN  {d \in w.docs : \E p \in prim : d.project_index = p.project_index}

-----------------------------------------------------------------------------
(* Handlers.                                                               *)

\* revalidate_all_docs(): the table D becomes docs[] and is published.
Revalidate(D) ==
  LET r == maybe_reload_compile_commands(D)
  IN  /\ docs' = r.docs
      /\ ccStatus' = r.status
      /\ ccCached' = TRUE
      /\ gws' = build_workspace_snapshot(r.docs, r.status)

NoRevalidate == UNCHANGED <<docs, gws, ccStatus, ccCached>>

\* initialize: a rootUri sets the workspace root (workspace_set_root_from_uri).
handle_initialize ==
  /\ phase = "start"
  /\ phase' = "initialize"
  /\ root' \in BOOLEAN
  /\ UNCHANGED <<docs, gws, ccStatus, ccCached, disk, cc, editor, events>>

\* initialized: load, and publish when there is a root.
handle_initialized ==
  /\ phase = "initialize"
  /\ phase' = "ready"
  /\ LET r == reload_compile_commands(docs)
     IN  /\ docs' = r.docs
         /\ ccStatus' = r.status
         /\ ccCached' = TRUE
         /\ gws' = IF root THEN build_workspace_snapshot(r.docs, r.status) ELSE gws
  /\ UNCHANGED <<root, disk, cc, editor, events>>

\* The document was not known, or its disk text differs from the buffer.
OpenAs(i, u, t) == Revalidate(Reparse([Occupied(docs, i, u) EXCEPT ![i].disk_only = FALSE], i, t))

handle_didopen(u, t) ==
  LET i == doc_find(docs, u)  new == doc_alloc(docs) IN
  CASE i # 0 /\ ~docs[i].disk_only  -> NoRevalidate
    [] i # 0 /\ docs[i].disk_only   -> IF docs[i].text = t
                                       THEN Revalidate([docs EXCEPT ![i].disk_only = FALSE])
                                       ELSE OpenAs(i, u, t)
    [] i = 0 /\ new # 0             -> OpenAs(new, u, t)
    [] i = 0 /\ new = 0             -> NoRevalidate

DidOpen(u, t) ==
  /\ phase = "ready" /\ "edit" \in Env /\ editor[u] = Nil
  /\ editor' = [editor EXCEPT ![u] = t]
  /\ handle_didopen(u, t)
  /\ UNCHANGED <<phase, root, disk, cc, events>>

\* The editor's edit turns its buffer into t.  Applied to another base than
\* the editor's it yields some other text.
DidChange(u, t) ==
  /\ phase = "ready" /\ editor[u] # Nil /\ t # editor[u]
  /\ editor' = [editor EXCEPT ![u] = t]
  /\ LET i == doc_find(docs, u) IN
     IF i = 0 THEN NoRevalidate
     ELSE \E x \in TextOf[u] : /\ docs[i].text = editor[u] => x = t
                               /\ Revalidate(Reparse(docs, i, x))
  /\ UNCHANGED <<phase, root, disk, cc, events>>

Closed(i, u) == IF disk[u] # Nil THEN install_disk_text(docs, i, disk[u]) ELSE doc_free(docs, i)
DidClose(u) ==
  /\ phase = "ready" /\ editor[u] # Nil
  /\ editor' = [editor EXCEPT ![u] = Nil]
  /\ LET i == doc_find(docs, u) IN
     IF i = 0 THEN NoRevalidate ELSE Revalidate(Closed(i, u))
  /\ UNCHANGED <<phase, root, disk, cc, events>>

forget_watched_file(u) ==
  LET i == doc_find(docs, u) IN
  IF i # 0 /\ docs[i].disk_only THEN Revalidate(doc_free(docs, i)) ELSE NoRevalidate

FaultyAdmit(u) ==
  LET i == doc_find(docs, u)  k == IF i # 0 THEN i ELSE doc_alloc(docs) IN
  IF disk[u] = Nil \/ k = 0 THEN NoRevalidate
  ELSE Revalidate(install_disk_text(Occupied(docs, k, u), k, disk[u]))
admit_watched_file(u) ==
  LET i == doc_find(docs, u)  k == IF i # 0 THEN i ELSE doc_alloc(docs) IN
  IF (i # 0 /\ ~docs[i].disk_only) \/ disk[u] = Nil \/ k = 0 THEN NoRevalidate
  ELSE Revalidate(install_disk_text(Occupied(docs, k, u), k, disk[u]))

handle_did_rename_files(o, n) ==
  LET i == doc_find(docs, o)
      F == IF i = 0 THEN docs ELSE doc_free(docs, i)
      j == doc_find(F, n)
      k == IF j # 0 THEN j ELSE doc_alloc(F)
      installed == disk[n] # Nil /\ k # 0
  IN  IF i = 0 /\ ~installed THEN NoRevalidate
      ELSE Revalidate(IF installed THEN install_disk_text(Occupied(F, k, n), k, disk[n]) ELSE F)

\* workspace/didChangeWatchedFiles and workspace/didRenameFiles.
FileEvent ==
  /\ phase = "ready" /\ events # <<>>
  /\ events' = Tail(events)
  /\ LET e == Head(events) IN
     CASE e.type = "deleted" -> forget_watched_file(e.uri)
       [] e.type = "changed" -> admit_watched_file(e.uri)
       [] e.type = "renamed" -> handle_did_rename_files(e.uri, e.new)
  /\ UNCHANGED <<phase, root, disk, cc, editor>>

-----------------------------------------------------------------------------
(* The environment.                                                        *)

Event(type, u, n) == [type |-> type, uri |-> u, new |-> n]

FileChanges(kind, newDisk, event) ==
  /\ phase = "ready" /\ kind \in Env /\ Len(events) < MaxEvents
  /\ disk' = newDisk
  /\ events' = Append(events, event)
  /\ UNCHANGED <<docs, gws, ccStatus, ccCached, phase, root, cc, editor>>

WriteFile(u, t) ==
  disk[u] # t /\ FileChanges("write", [disk EXCEPT ![u] = t], Event("changed", u, Nil))
DeleteFile(u) ==
  disk[u] # Nil /\ FileChanges("delete", [disk EXCEPT ![u] = Nil], Event("deleted", u, Nil))
RenameFile(o, n) ==
  /\ disk[o] # Nil /\ o # n
  /\ FileChanges("rename", [disk EXCEPT ![o] = Nil, ![n] = disk[o]], Event("renamed", o, n))

CcChanges(kind, new) ==
  /\ phase = "ready" /\ kind \in Env /\ cc # new
  /\ cc' = new /\ ccCached' = FALSE
  /\ UNCHANGED <<docs, gws, ccStatus, phase, root, disk, editor, events>>

-----------------------------------------------------------------------------
Init ==
  /\ docs = [i \in Slot |-> FreeSlot]
  /\ gws = Nil
  /\ ccStatus = "OK" /\ ccCached = FALSE
  /\ phase = "start" /\ root = FALSE
  /\ disk = Disk0 /\ cc = Cc0
  /\ editor = [u \in Uri |-> Nil]
  /\ events = <<>>

Next ==
  \/ handle_initialize \/ handle_initialized
  \/ \E u \in Uri : \E t \in TextOf[u] : DidOpen(u, t) \/ DidChange(u, t) \/ WriteFile(u, t)
  \/ \E u \in Uri : DidClose(u) \/ DeleteFile(u)
  \/ \E o, n \in Uri : RenameFile(o, n)
  \/ FileEvent
  \/ \E c \in CcFiles : CcChanges("cc", c)
  \/ CcChanges("ccbad", Malformed) \/ CcChanges("ccremove", Nil)

Spec == Init /\ [][Next]_vars

-----------------------------------------------------------------------------
(* Properties.                                                             *)

\* Types; a slot that is not in use is all zero (doc_free's memset).
TypeOK ==
  /\ docs \in Table /\ \A i \in Slot : docs[i].uri = Nil => docs[i] = FreeSlot
  /\ ccStatus \in {"OK", "MISSING", "MALFORMED"} /\ ccCached \in BOOLEAN /\ root \in BOOLEAN
  /\ disk \in [Uri -> Text \cup {Nil}] /\ editor \in [Uri -> Text \cup {Nil}]

Tracked(u) == \E i \in InUse(docs) : docs[i].uri = u
Published == gws # Nil
Quiet == phase = "ready" /\ events = <<>>

\* No URI occupies two slots, whichever of didOpen, an include, an entry of
\* compile_commands.json, a watcher event or a rename brought it in first.
UniqueUri == \A i, j \in InUse(docs) : docs[i].uri = docs[j].uri => i = j

\* The editor's buffer wins: a tracked document that is open in the editor
\* holds the buffer's text and is not disk-only (workspace.rst, "Its text wins
\* over the on-disk copy").
EditorTextWins ==
  \A i \in InUse(docs) : editor[docs[i].uri] # Nil =>
    docs[i].text = editor[docs[i].uri] /\ ~docs[i].disk_only

\* Once the outstanding file events are handled, every background document
\* holds the text on disk and none survives its file.
DiskTextCurrent ==
  Quiet => \A i \in InUse(docs) : docs[i].disk_only => docs[i].text = disk[docs[i].uri]

\* The include closure is loaded: while a slot is free, a file that exists and
\* that a tracked document includes is tracked as well.
ClosureLoaded ==
  (Quiet /\ doc_alloc(docs) # 0) =>
    \A i \in InUse(docs) : \A u \in ToSet(docs[i].included) : disk[u] # Nil => Tracked(u)

\* included_uris[] are the directives of the text the document now has.
EdgesCurrent ==
  \A i \in InUse(docs) :
    docs[i].included = [k \in DOMAIN Includes[docs[i].text] |-> Includes[docs[i].text][k].to]

\* Queries and diagnostics read a snapshot built from the present docs[]: no
\* handler leaves a change unpublished.
PublishedCurrent == Published => gws = build_workspace_snapshot(docs, ccStatus)

\* Reference definition of membership: the least set of slots that contains
\* the root and is closed under include edges.
Reach(D, r) ==
  LET closed(S) == \A i \in S : \A j \in InUse(D) : D[j].uri \in ToSet(D[i].included) => j \in S
      sets == {S \in SUBSET InUse(D) : r \in S /\ closed(S)}
  IN  {i \in InUse(D) : \A S \in sets : i \in S}

CcRoots == {i \in InUse(docs) : docs[i].is_cc_root}
FirstRoot(i) ==
  LET rs == {r \in CcRoots : i \in Reach(docs, r)}
  IN  IF rs = {} THEN i ELSE CHOOSE r \in rs : \A s \in rs : r <= s

\* A document belongs to the project of the first root that reaches it, else
\* to its own; a project's tree holds only documents its root reaches and none
\* of them twice, also for diamonds and include cycles.
MembershipIsReachability ==
  Published =>
    /\ \A d \in gws.docs :
         gws.projects[d.project_index].id = docs[FirstRoot(doc_find(docs, d.uri))].uri
    /\ \A p \in ToSet(gws.projects) :
         LET r == doc_find(docs, p.id) IN
         /\ \A n \in ToSet(p.tree) : n.doc \in {docs[i].uri : i \in Reach(docs, r)}
         /\ \A k, l \in DOMAIN p.tree : p.tree[k].doc = p.tree[l].doc => k = l

\* A query on a document sees among its documents every file whose
\* declarations stand in the project tree it resolves against, as long as no
\* file is included from two roots.
TreeWithinContext ==
  (/\ Published
   /\ \A i \in InUse(docs) : Cardinality({r \in CcRoots : i \in Reach(docs, r)}) <= 1) =>
    \A d \in gws.docs : \A n \in ToSet(gws.projects[d.project_index].tree) :
      \E s \in QueryDocs(gws, d.uri) : s.uri = n.doc

\* docs[] has one entry per file: with the editor's text while the file is open
\* (handle_didopen, handle_didchange), else with the disk's once the watcher's
\* events have been handled (admit_watched_file, forget_watched_file), and a file
\* on disk that one of them includes has an entry as well (load_file_from_disk).
TextsCurrent == TypeOK /\ UniqueUri /\ EditorTextWins /\ DiskTextCurrent /\ ClosureLoaded

\* What revalidate_all_docs() publishes is made of the present documents: the edges
\* of the include graph are their includes, a document's project is a root from
\* which it is reached, through cycles and diamonds, and the documents of a
\* project's tree are among those that its queries see (build_query_context_locked).
ProjectsCurrent ==
  EdgesCurrent /\ PublishedCurrent /\ MembershipIsReachability /\ TreeWithinContext

\* The directives of tracked documents that name u.
NamedBy(u) == UNION {{Includes[docs[i].text][k].prefix : k \in
                        {m \in DOMAIN Includes[docs[i].text] : Includes[docs[i].text][m].to = u}}
                       : i \in InUse(docs)}

\* An included document stands under the prefix of an include directive that
\* names it (workspace.rst: "contributes its top-level tasks under the prefix").
IncludedPrefix ==
  Quiet => \A i \in InUse(docs) : NamedBy(docs[i].uri) # {} =>
             docs[i].prefix \in NamedBy(docs[i].uri)

\* A document no directive names any more makes up a project of its own with
\* its declarations at top level: build_workspace_snapshot() says that it gives
\* such a document a "singleton orphan project, anchored on the doc's own
\* top-level with no prefix".
OrphanUnprefixed ==
  Published => \A p \in ToSet(gws.projects) : ~p.from_compile_commands /\ NamedBy(p.id) = {} =>
                 p.tree = <<[path |-> <<p.id>>, doc |-> p.id]>>

\* After a reload every tracked entry of the present compile_commands.json is a
\* project root (load_compile_entries), however often it changed in between.
EntriesAreRoots ==
  (Quiet /\ root /\ ccCached /\ cc \notin {Nil, Malformed}) =>
    {i \in InUse(docs) : docs[i].uri \in ToSet(cc)} \subseteq CcRoots

\* After a reload the project roots are the tracked entries of the present
\* compile_commands.json and no others (workspace.rst: the server "rebuilds the
\* workspace whenever its mtime or content changes").
RootsFromFile ==
  (Quiet /\ root /\ ccCached /\ cc \notin {Nil, Malformed}) =>
    CcRoots = {i \in InUse(docs) : docs[i].uri \in ToSet(cc)}

\* The status on the snapshot is that of the file the server last looked at
\* (diagnostics.h: CC_STATUS_OK "means a usable file drove the snapshot").
StatusTruthful ==
  (Quiet /\ ccCached) =>
    ccStatus = CASE ~root \/ cc = Nil -> "MISSING" [] root /\ cc = Malformed -> "MALFORMED" [] OTHER -> "OK"
=============================================================================
