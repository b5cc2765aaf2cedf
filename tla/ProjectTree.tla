---------------------------- MODULE ProjectTree ----------------------------
(***************************************************************************)
(* The assembled project tree and what is resolved against it              *)
(* (project_tree.c, workspace.c, hover.c, definition.c, references.c,      *)
(* document_highlight.c, completion.c).  Every document parses to a tree   *)
(* of declarations; the include closure of the root is copied into one     *)
(* tree, each document below its prefix target; a dependency is resolved   *)
(* in that tree and the result kept in the dependency's memo cell.         *)
(*                                                                         *)
(* A tree is a sequence of nodes in source order; `up' is the index of the *)
(* parent, 0 the synthetic root.  A path is the sequence of the segments   *)
(* of a dotted id.                                                         *)
(***************************************************************************)
EXTENDS Integers, SequencesExt, FiniteSetsExt

CONSTANTS Docs,       \* documents of the include closure
          Root,       \* the compile_commands.json entry
          Includes,   \* [Docs -> Seq(Docs)], included_uris in source order
          PrefixSets, \* [Docs -> SUBSET [{"TASK", "RESOURCE"} -> Seq(Ids)]], from the includes
          Keywords,   \* keywords of the declarations that may occur
          Ids,        \* ids of the declarations that may occur
          MaxNodes,   \* bound on the declarations of all documents together
          MaxDeps,    \* bound on their dependencies
          Bangs,      \* numbers of leading bangs a dependency may have
          MaxSegs,    \* bound on the segments of a dependency's path
          ChainCap,   \* length of chain[] in sym_qualified_id
          Workers     \* query workers that share the snapshot

None       == -1   \* a lookup that fails
Unresolved == -2   \* PROJECT_DEP_UNRESOLVED

VARIABLES decls,    \* the parse trees: sequences of [kw, id, up, deps]
          prefix,   \* Document.prefixes of each document
          built,    \* has the snapshot been built?
          tree,     \* the ProjectNode tree: nodes with their document and origin
          memo,     \* ProjectDep.resolved: [<<node, dependency>> -> cell]
          worker    \* what each query worker is resolving
vars == <<decls, prefix, built, tree, memo, worker>>

-----------------------------------------------------------------------------
(* Trees.                                                                  *)

First(S) == IF S = {} THEN None ELSE Min(S)

\* The id-namespace of a keyword, and the keywords of a namespace.
node_kind_of(kw) ==
  CASE kw = "task" -> "TASK" [] kw \in {"resource", "shift"} -> "RESOURCE"
    [] kw = "project" -> "OTHER" [] OTHER -> "REPORT"

\* One step of every descent: the first child of cur with the id and a fitting
\* keyword.
child(f, cur, kind, seg) ==
  IF cur = None THEN None
  ELSE First({i \in DOMAIN f : f[i].up = cur /\ node_kind_of(f[i].kw) = kind /\ f[i].id = seg})

find_node_by_dotted_path(f, start, path, kind) ==
  FoldLeft(LAMBDA cur, seg : child(f, cur, kind, seg), start, path)

find_task(f, start, path) ==
  IF path = <<>> THEN None ELSE find_node_by_dotted_path(f, start, path, "TASK")

\* The nodes from the top level down to i.
Ancestry(f, i) ==
  LET line[j \in DOMAIN f] == IF f[j].up = 0 THEN <<j>> ELSE Append(line[f[j].up], j)
  IN line[i]

\* The ids of a node and of its same-keyword ancestors, outermost first.
Qualified(f, i) ==
  LET same == SelectSeq(Ancestry(f, i), LAMBDA j : f[j].kw = f[i].kw)
  IN [k \in DOMAIN same |-> f[same[k]].id]

\* chain[] is filled from the inside out and keeps the innermost ids when full.
sym_qualified_id(f, i) ==
  LET q == Qualified(f, i) IN SubSeq(q, Max({1, Len(q) - ChainCap + 1}), Len(q))

-----------------------------------------------------------------------------
(* Assembly.                                                               *)

\* Where the clone of node i goes: below the prefix target of its namespace, or
\* below the clone of its parent.  The project block is not copied; neither is
\* a declaration whose prefix target is missing, with all it contains.
Target(t, at, n, pre) ==
  IF n.up # 0 THEN at[n.up]
  ELSE LET kind == node_kind_of(n.kw)
       IN IF kind = "OTHER" THEN None
          ELSE find_node_by_dotted_path(t, 0, IF kind \in DOMAIN pre THEN pre[kind] ELSE <<>>, kind)

\* A clone: the declaration's own fields (its ranges stand for its origin), its
\* place in the tree and the document it came from.
ProjectNode(n, up, d, i) ==
  [kw |-> n.kw, id |-> n.id, up |-> up, deps |-> n.deps, doc |-> d, of |-> i]

project_node_from_tj(acc, d, i) ==
  LET n  == decls[d][i]
      up == Target(acc.t, acc.at, n, prefix[d])
  IN IF up = None THEN [acc EXCEPT !.at = Append(@, None)]
     ELSE [t  |-> Append(acc.t, ProjectNode(n, up, d, i)),
           at |-> Append(acc.at, Len(acc.t) + 1)]

copy_document_into_project(t, d) ==
  FoldLeft(LAMBDA acc, i : project_node_from_tj(acc, d, i), [t |-> t, at |-> <<>>],
           [i \in DOMAIN decls[d] |-> i]).t

\* The order in which the include search claims the documents.
BreadthFirst ==
  LET enqueue(q, d) == IF Contains(q, d) THEN q ELSE Append(q, d)
      visit(q, k)   == IF k > Len(q) THEN q ELSE FoldLeft(enqueue, q, Includes[q[k]])
  IN FoldLeft(visit, <<Root>>, [k \in 1 .. Cardinality(Docs) |-> k])

Assembled(order) == FoldLeft(copy_document_into_project, <<>>, order)

-----------------------------------------------------------------------------
(* Resolution.                                                             *)

\* One level per bang; the synthetic root is out of bounds.
FaultyClimb(f, i, bangs) ==
  FoldLeft(LAMBDA cur, b : IF cur = None THEN None ELSE IF f[cur].up = 0 THEN cur ELSE f[cur].up,
           i, [b \in 1 .. bangs |-> b])
Climb(f, i, bangs) ==
  FoldLeft(LAMBDA cur, b : IF cur = None \/ f[cur].up = 0 THEN None ELSE f[cur].up,
           i, [b \in 1 .. bangs |-> b])

\* What project_dep_resolve computes for dependency k of node i of a tree.
Resolution(f, i, k) ==
  LET dep   == f[i].deps[k]
      scope == IF dep.bangs = 0 THEN 0 ELSE Climb(f, i, dep.bangs)
  IN IF scope = None THEN None ELSE find_task(f, scope, dep.path)

FaultyForDocTask(d, i) == find_task(tree, 0, sym_qualified_id(decls[d], i))
project_node_for_doc_task(d, i) ==
  LET base == find_node_by_dotted_path(tree, 0, prefix[d].TASK, "TASK")
  IN find_node_by_dotted_path(tree, base, sym_qualified_id(decls[d], i), "TASK")

project_resolve_dep_ref(d, i, k) ==
  LET owner == project_node_for_doc_task(d, i)
  IN IF owner = None \/ k > Len(tree[owner].deps) THEN None ELSE Resolution(tree, owner, k)

-----------------------------------------------------------------------------
(* The requests.  A cursor is on the id of a task or on a dependency; both *)
(* are given as the task's document and index (and the dependency's).      *)

build_definition_json(d, i, k) == project_resolve_dep_ref(d, i, k)

\* The dependencies of a tree, as pairs of a node and an ordinal.
Edges(f) == {e \in (DOMAIN f) \X (1 .. MaxDeps) : e[2] <= Len(f[e[1]].deps)}
Place(e) == <<tree[e[1]].doc, tree[e[1]].of, e[2]>>

handle_references(d, i) ==
  LET wanted == project_node_for_doc_task(d, i)
  IN IF wanted = None THEN {} ELSE {Place(e) : e \in {x \in Edges(tree) : Resolution(tree, x[1], x[2]) = wanted}}

\* The id that hover shows for the target of a dependency, or none.
project_node_hover_markdown(i) == sym_qualified_id(tree, i)
try_dependency_hover(d, i, k) ==
  LET target == project_resolve_dep_ref(d, i, k)
  IN IF target = None THEN <<>> ELSE project_node_hover_markdown(target)

\* The one task that is highlighted: k = 0 is the cursor on the task's own id.
resolve_highlight_target(d, i, k) ==
  IF k = 0 THEN project_node_for_doc_task(d, i) ELSE project_resolve_dep_ref(d, i, k)

\* The Write occurrence of the target and its Read occurrences in document d.
build_document_highlight_json(d, wanted) ==
  IF wanted = None THEN {}
  ELSE {<<tree[wanted].doc, tree[wanted].of>> : w \in {x \in {d} : tree[wanted].doc = x}}
       \cup {Place(e) : e \in {x \in Edges(tree) : tree[x[1]].doc = d /\ Resolution(tree, x[1], x[2]) = wanted}}

Tasks(f) == {i \in DOMAIN f : f[i].kw = "task"}

\* tj_node_find_path from the top level of the document: the task whose children
\* are the scope, 0 for the top level.
tj_node_find_path(d, scope) ==
  FoldLeft(LAMBDA cur, seg : child(decls[d], cur, "TASK", seg), 0, scope)

\* The tasks below a scope, with their paths relative to it.
collect_ids(d, scope) ==
  LET f == decls[d]
      q == [i \in Tasks(f) |-> Qualified(f, i)]
      below(i) == LET line == SelectSeq(Ancestry(f, i), LAMBDA x : f[x].kw = "task")
                  IN scope = <<>> \/ line[Len(scope)] = tj_node_find_path(d, scope)
  IN {SubSeq(q[i], Len(scope) + 1, Len(q[i])) : i \in {j \in Tasks(f) : Len(q[j]) > Len(scope) /\ below(j)}}

collect_all_ids == UNION {collect_ids(d, <<>>) : d \in Docs}

\* The ids of the tasks around the cursor, which is in task i.
current_task_scope(d, i) == Qualified(decls[d], i)

\* What completion offers after the given number of bangs in task i of document
\* d: absolute ids of every document, or the ids below the enclosing scope.
build_dep_completions(d, i, bangs) ==
  LET scope == current_task_scope(d, i)
  IN IF bangs = 0 THEN collect_all_ids
     ELSE IF bangs > Len(scope) THEN {} ELSE collect_ids(d, SubSeq(scope, 1, Len(scope) - bangs))

-----------------------------------------------------------------------------
Init ==
  /\ decls = [d \in Docs |-> <<>>]
  /\ prefix \in {p \in [Docs -> UNION {PrefixSets[d] : d \in Docs}] : \A d \in Docs : p[d] \in PrefixSets[d]}
  /\ built = FALSE /\ tree = <<>> /\ memo = <<>>
  /\ worker = [w \in Workers |-> [at |-> "idle"]]

Size == MapThenSumSet(LAMBDA d : Len(decls[d]), Docs)
Deps == MapThenSumSet(LAMBDA d : FoldLeft(LAMBDA n, x : n + Len(x.deps), 0, decls[d]), Docs)

\* The parser completes a declaration inside an open one of its own kind, or at
\* the top level (the body of a project block is hoisted there).
Declare(d) ==
  /\ ~built /\ Size < MaxNodes
  /\ \E kw \in Keywords, id \in Ids, up \in 0 .. Len(decls[d]) :
       /\ up # 0 => /\ Contains(Ancestry(decls[d], Len(decls[d])), up)
                    /\ decls[d][up].kw = kw /\ kw # "project"
       /\ decls' = [decls EXCEPT ![d] = Append(@, [kw |-> kw, id |-> id, up |-> up, deps |-> <<>>])]
  /\ UNCHANGED <<prefix, built, tree, memo, worker>>

Dependency(b, p) == [bangs |-> b, path |-> p]
Paths == UNION {[1 .. n -> Ids] : n \in 1 .. MaxSegs}

\* tj_node_push_dependency on a task.
Depend(d) ==
  /\ ~built /\ Deps < MaxDeps
  /\ \E i \in Tasks(decls[d]), b \in Bangs, p \in Paths :
       decls' = [decls EXCEPT ![d][i].deps = Append(@, Dependency(b, p))]
  /\ UNCHANGED <<prefix, built, tree, memo, worker>>

\* project_populate_from_root; copy_dependencies leaves every cell unresolved.
Build ==
  /\ ~built /\ built' = TRUE
  /\ tree' = Assembled(BreadthFirst)
  /\ memo' = [e \in Edges(tree') |-> Unresolved]
  /\ UNCHANGED <<decls, prefix, worker>>

\* project_dep_resolve of one edge: the acquire load, which answers when the
\* cell is set, and the store of what was computed from the tree.
Load(w) ==
  /\ built /\ worker[w].at = "idle"
  /\ \E e \in DOMAIN memo :
       worker' = [worker EXCEPT ![w] =
         IF memo[e] # Unresolved THEN [at |-> "done", edge |-> e, answer |-> memo[e]]
         ELSE [at |-> "walk", edge |-> e]]
  /\ UNCHANGED <<decls, prefix, built, tree, memo>>

Publish(w) ==
  /\ worker[w].at = "walk"
  /\ LET e == worker[w].edge
         r == Resolution(tree, e[1], e[2])
     IN /\ memo' = [memo EXCEPT ![e] = r]
        /\ worker' = [worker EXCEPT ![w] = [at |-> "done", edge |-> e, answer |-> r]]
  /\ UNCHANGED <<decls, prefix, built, tree>>

\* The worker answers its request and takes the next one.
Answer(w) ==
  /\ worker[w].at = "done"
  /\ worker' = [worker EXCEPT ![w] = [at |-> "idle"]]
  /\ UNCHANGED <<decls, prefix, built, tree, memo>>

\* The snapshot is replaced by the next one and this tree is released.
Release ==
  /\ built /\ \A w \in Workers : worker[w].at = "idle"
  /\ built' = FALSE /\ tree' = <<>> /\ memo' = <<>>
  /\ UNCHANGED <<decls, prefix, worker>>

Next ==
  \/ \E d \in Docs : Declare(d) \/ Depend(d)
  \/ Build \/ Release
  \/ \E w \in Workers : Load(w) \/ Publish(w) \/ Answer(w)

Spec == Init /\ [][Next]_vars

-----------------------------------------------------------------------------
(* Properties.                                                             *)

TypeOK ==
  /\ \A d \in Docs : \A i \in DOMAIN decls[d] :
       decls[d][i].kw \in Keywords /\ decls[d][i].id \in Ids /\ decls[d][i].up \in 0 .. i - 1
  /\ \A i \in DOMAIN tree : /\ tree[i].up \in 0 .. i - 1
                            /\ tree[i].of \in DOMAIN decls[tree[i].doc]
  /\ \A e \in DOMAIN memo : memo[e] \in {Unresolved, None} \cup DOMAIN tree
  /\ \A w \in Workers : worker[w].at \in {"idle", "walk", "done"}

CloneOf(d, i) == First({j \in DOMAIN tree : tree[j].doc = d /\ tree[j].of = i})
Cloned == {c \in Docs \X (1 .. MaxNodes) : c[2] \in Tasks(decls[c[1]]) /\ CloneOf(c[1], c[2]) # None}
Distinct == \A i, j \in Tasks(tree) : tree[i].up = tree[j].up /\ tree[i].id = tree[j].id => i = j

\* project_node_for_doc_task maps a task under the cursor to its own clone: the
\* bridge every request goes through, whatever the prefix and the nesting, as
\* long as no two sibling tasks share an id.
OwnClone == Distinct => \A c \in Cloned : project_node_for_doc_task(c[1], c[2]) = CloneOf(c[1], c[2])

\* Go-to-definition and find-references are inverse to each other: definition
\* leads from a dependency to a task exactly when references lists that
\* dependency for the task, although one addresses the dependency by its ordinal
\* in the document and the other walks the whole project tree.
DefinitionInvertsReferences ==
  Distinct => \A c, r \in Cloned : \A k \in DOMAIN decls[r[1]][r[2]].deps :
    build_definition_json(r[1], r[2], k) = CloneOf(c[1], c[2]) <=>
      <<r[1], r[2], k>> \in handle_references(c[1], c[2])

\* project_dep_resolve finds exactly the task whose qualified id, prefixes
\* included, is the path appended to the scope the bangs select: the whole
\* namespace without bangs, the enclosing task that many levels up with them.
ResolvesByQualifiedId ==
  Distinct => \A e \in Edges(tree) :
    LET dep   == tree[e[1]].deps[e[2]]
        owner == Qualified(tree, e[1])
        named(x) == \/ dep.bangs = 0 /\ Qualified(tree, x) = dep.path
                    \/ /\ 0 < dep.bangs /\ dep.bangs < Len(owner)
                       /\ Qualified(tree, x) = SubSeq(owner, 1, Len(owner) - dep.bangs) \o dep.path
    IN Resolution(tree, e[1], e[2]) = First({x \in Tasks(tree) : named(x)})

\* The qualified id that hover shows for a dependency names its target: used as
\* an absolute reference it resolves to the same task.
HoverNamesTarget ==
  Distinct => \A c \in Cloned : \A k \in DOMAIN decls[c[1]][c[2]].deps :
    LET target == build_definition_json(c[1], c[2], k)
    IN target # None => find_task(tree, 0, try_dependency_hover(c[1], c[2], k)) = target

\* A highlight covers what the cursor is on: the declaration when the cursor is
\* on a task's id, the reference itself when it is on a dependency that resolves,
\* also when the target is in another document.
HighlightCoversCursor ==
  Distinct => \A c \in Cloned :
    /\ c \in build_document_highlight_json(c[1], resolve_highlight_target(c[1], c[2], 0))
    /\ \A k \in DOMAIN decls[c[1]][c[2]].deps :
         LET wanted == resolve_highlight_target(c[1], c[2], k)
         IN wanted # None => <<c[1], c[2], k>> \in build_document_highlight_json(c[1], wanted)

Resolves(d, i, bangs, path) ==
  LET owner == CloneOf(d, i)
      scope == IF bangs = 0 THEN 0 ELSE Climb(tree, owner, bangs)
  IN scope # None /\ find_task(tree, scope, path) # None

\* Every id that completion offers in a dependency resolves once it is accepted:
\* relative ids below the top level, and absolute ids while no document is
\* included under a prefix.
OfferedResolves ==
  Distinct => \A c \in Cloned, b \in Bangs :
    (IF b = 0 THEN \A d \in Docs : prefix[d].TASK = <<>> ELSE b < Len(current_task_scope(c[1], c[2])))
      => \A p \in build_dep_completions(c[1], c[2], b) : Resolves(c[1], c[2], b, p)

\* The documents in the order of the text: each one before what it includes, and
\* what it includes completely before its next include (reference definition).
DepthFirst ==
  LET path == FoldLeft(LAMBDA st, n :
        IF st.todo = <<>> THEN st
        ELSE IF Contains(st.seen, Head(st.todo)) THEN [st EXCEPT !.todo = Tail(@)]
        ELSE [seen |-> Append(st.seen, Head(st.todo)), todo |-> Includes[Head(st.todo)] \o Tail(st.todo)],
        [seen |-> <<>>, todo |-> <<Root>>], [n \in 1 .. 4 * Cardinality(Docs) |-> n])
  IN path.seen

\* A declaration whose prefix target comes before it in the text of the project,
\* includes inserted where they stand, is copied with all it contains
\* (copy_document_into_project).  A document whose prefix task comes later in the
\* breadth-first walk is left out; here, with one include, the two orders agree.
ClosureCopied ==
  built => LET text == Assembled(DepthFirst)
               nested(d, i) == \E j \in DOMAIN decls[d] : decls[d][j].up = i /\ CloneOf(d, j) = None
           IN /\ \A j \in DOMAIN text : CloneOf(text[j].doc, text[j].of) # None
              /\ \A j \in DOMAIN tree : ~nested(tree[j].doc, tree[j].of)

\* Whichever workers resolve a dependency first, and in whatever order they
\* store, the memo cell and every answer are what the tree determines.
MemoIsPure ==
  /\ \A e \in DOMAIN memo : memo[e] \in {Unresolved, Resolution(tree, e[1], e[2])}
  /\ \A w \in Workers : worker[w].at = "done" =>
       worker[w].answer = Resolution(tree, worker[w].edge[1], worker[w].edge[2])

=============================================================================
