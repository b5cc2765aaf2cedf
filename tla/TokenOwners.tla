---------------------------- MODULE TokenOwners ----------------------------
(* Which declaration a position of a document belongs to.                  *)
(*                                                                         *)
(* A document is typed statement by statement.  The grammar turns it into  *)
(* the tj_node tree (grammar.y, parser.c), assign_token_owners gives every *)
(* token its innermost declaration in one pass, and the cursor queries     *)
(* (document_symbol.c, dependency.c, completion.c) start from the owner of *)
(* the token before the cursor.  The outline (document_symbol.c,           *)
(* workspace_symbol.c) walks the same tree.                                *)
(*                                                                         *)
(* A position is line * Width + column.  Tokens are one column wide.  A    *)
(* body still open at the end of the text is closed there by the lexer, so *)
(* that every state of the typing is a document the server can parse.      *)
EXTENDS Integers, Sequences, FiniteSets, SequencesExt

CONSTANTS
  Keywords,   \* declaration keywords the documents use
  MaxDecls,   \* bound: declarations of a document
  MaxDeps,    \* bound: dependency references of a document
  Named,      \* subset of BOOLEAN: whether declarations have an id
  MaxLines,   \* bound: line breaks of a document
  Width,      \* bound: columns of a line
  SymCap      \* capacity of g_sym_stack (grammar.y); 128 in the code

VARIABLES
  tokens,   \* recorded token spans, [kind, from, to]
  decls,    \* tj_nodes in source order, [kw, from, to, sel, up, deps, body]; to = 0: body open
  open,     \* declarations whose body is open, outermost first
  syms,     \* g_sym_stack: tasks whose body is being parsed
  end       \* position of the end of the text

vars == <<tokens, decls, open, syms, end>>

Root == 0     \* the synthetic root of the document
NoNode == 0   \* NULL: climbing past the root, whose range is empty

Span(kind, from) == [kind |-> kind, from |-> from, to |-> from + 1]

(***************************************************************************)
(* Typing, and the grammar's actions                                       *)
(***************************************************************************)
IsProject(i) == i # Root /\ decls[i].kw = "project"

\* The tree parent: children of the project block are hoisted to the root.
Hoist(i) == IF IsProject(i) THEN Root ELSE i

Init ==
  /\ tokens = <<>>
  /\ decls = <<>>
  /\ open = <<>>
  /\ syms = <<>>
  /\ end = 0

Newline ==
  /\ end % Width # 0
  /\ end \div Width < MaxLines
  /\ end' = Width * (end \div Width + 1)
  /\ UNCHANGED <<tokens, decls, open, syms>>

\* A statement cannot follow a reference without a line break.
Separated == end % Width # 0 => Last(tokens).kind # "ref"

\* alloc_tj_node: the selection is the id, or the keyword where there is none;
\* finish_tj_node: without a body the range ends with the keyword.
alloc_tj_node(kw, named, body, up) ==
  [kw |-> kw, from |-> end, to |-> IF body THEN 0 ELSE end + 1,
   sel |-> IF named THEN Span("id", end + 2) ELSE Span("kw", end),
   up |-> up, deps |-> <<>>, body |-> body]

sym_stack_push(i) == IF Len(syms) < SymCap THEN Append(syms, i) ELSE syms

\* `kw [id] "name" [{`.  One project block, at file scope: a second one, or one
\* inside another block, is malformed input.
Declare(kw, named, body) ==
  LET inner == IF open = <<>> THEN Root ELSE Last(open)
      after == IF named THEN end + 4 ELSE end + 2
  IN /\ Len(decls) < MaxDecls
     /\ Separated
     /\ kw = "project" => open = <<>> /\ \A i \in DOMAIN decls : ~IsProject(i)
     /\ decls' = Append(decls, alloc_tj_node(kw, named, body, Hoist(inner)))
     /\ tokens' = tokens \o <<Span("kw", end)>>
                   \o (IF named THEN <<Span("id", end + 2)>> ELSE <<>>)
                   \o <<Span("name", after)>>
                   \o (IF body THEN <<Span("{", after + 2)>> ELSE <<>>)
     /\ open' = IF body THEN Append(open, Len(decls) + 1) ELSE open
     /\ syms' = IF body /\ kw = "task" THEN sym_stack_push(Len(decls) + 1) ELSE syms
     /\ end' = IF body THEN after + 3 ELSE after + 1

DepCount == Cardinality({t \in DOMAIN tokens : tokens[t].kind = "ref"})

\* The dep_ref action: the reference goes to the task on top of g_sym_stack.
DependencyTarget == IF syms = <<>> THEN 0 ELSE Last(syms)

\* `depends ref` in the innermost body.
DependsOn ==
  /\ DepCount < MaxDeps
  /\ open # <<>>
  /\ Separated
  /\ tokens' = tokens \o <<Span("attr", end), Span("ref", end + 2)>>
  /\ decls' = IF DependencyTarget = 0 THEN decls
              ELSE [decls EXCEPT ![DependencyTarget].deps = Append(@, Span("ref", end + 2))]
  /\ end' = end + 3
  /\ UNCHANGED <<open, syms>>

\* `}`: finish_tj_node of the innermost body; sym_stack_pop for a task.
CloseBody ==
  LET i == Last(open)
  IN /\ open # <<>>
     /\ tokens' = Append(tokens, Span("}", end))
     /\ decls' = [decls EXCEPT ![i].to = end + 1]
     /\ open' = Front(open)
     /\ syms' = IF decls[i].kw = "task" /\ syms # <<>> THEN Front(syms) ELSE syms
     /\ end' = end + 1

\* The editor replaces the text by an empty document.
Clear ==
  /\ tokens # <<>>
  /\ tokens' = <<>> /\ decls' = <<>> /\ open' = <<>> /\ syms' = <<>> /\ end' = 0

Next ==
  \/ Newline
  \/ \E kw \in Keywords, named \in Named, body \in BOOLEAN : Declare(kw, named, body)
  \/ DependsOn
  \/ CloseBody
  \/ Clear

Spec == Init /\ [][Next]_vars

(***************************************************************************)
(* parse(): the tree and the token owners                                  *)
(***************************************************************************)
Decl == DOMAIN decls

\* The yylex wrapper closes the bodies left open at the end of the text.
RangeEnd(i) == IF decls[i].to = 0 THEN end ELSE decls[i].to

compare_node_starts(i, j) == decls[i].from < decls[j].from

range_within(i, j) == decls[i].from >= decls[j].from /\ RangeEnd(i) <= RangeEnd(j)

Children(i) == SetToSortSeq({k \in Decl : decls[k].up = i}, <)

\* root->children as the grammar appends them: a project block is routed when
\* its body ends, after the declarations hoisted out of it.
RoutedTo(p) == LET roots == Children(Root)
                   body(k) == k > p /\ range_within(k, p)
               IN SelectSeq(roots, LAMBDA k : k < p) \o SelectSeq(roots, body)
                  \o <<p>> \o SelectSeq(roots, LAMBDA k : k > p /\ ~body(k))
route_top_level ==
  IF \E p \in Decl : IsProject(p) THEN RoutedTo(CHOOSE p \in Decl : IsProject(p)) ELSE Children(Root)

SortedByStart(s) == SetToSortSeq({s[k] : k \in DOMAIN s}, compare_node_starts)

\* parse() sorts the root's children.  In error it leaves them as appended.
FaultyTopLevel == route_top_level
TopLevel == SortedByStart(route_top_level)

\* build_owner_scope: the declarations whose range lies within the project's
\* become its scope-children again.  In error all stay at the top.
FaultyProjectKids(p) == <<>>
ProjectKids(p) == SortedByStart(SelectSeq(TopLevel, LAMBDA k : k # p /\ range_within(k, p)))

OwnerTop == SortedByStart(SelectSeq(TopLevel, LAMBDA k : \A p \in Decl :
              IsProject(p) /\ p # k => ~range_within(k, p)))

ScopeKids(i) == IF IsProject(i) THEN ProjectKids(i) ELSE Children(i)

Frame(kids, scope) == [kids |-> kids, idx |-> 1, scope |-> scope]

RECURSIVE LeaveScopes(_, _), EnterScopes(_, _)
\* Pop the scopes that end at or before pos.
LeaveScopes(stack, pos) ==
  IF Len(stack) > 1 /\ pos >= RangeEnd(Last(stack).scope)
  THEN LeaveScopes(Front(stack), pos) ELSE stack

\* Advance the top frame past the siblings that end before pos, and enter the
\* next one when it has started.
Passed(k, pos) == pos >= RangeEnd(k)
EnterScopes(stack, pos) ==
  LET frame == Last(stack)
      ahead == {k \in frame.idx .. Len(frame.kids) : ~Passed(frame.kids[k], pos)}
      idx   == IF ahead = {} THEN Len(frame.kids) + 1 ELSE CHOOSE k \in ahead : \A l \in ahead : k <= l
      moved == [stack EXCEPT ![Len(stack)].idx = idx]
  IN IF idx > Len(frame.kids) \/ pos < decls[frame.kids[idx]].from THEN moved
     ELSE EnterScopes(Append(moved, Frame(ScopeKids(frame.kids[idx]), frame.kids[idx])), pos)

\* assign_token_owners, token by token.
OwnStep(acc, t) ==
  LET stack == EnterScopes(LeaveScopes(acc.stack, t.from), t.from)
  IN [stack |-> stack, owners |-> Append(acc.owners, Last(stack).scope)]
assign_token_owners ==
  FoldLeft(OwnStep, [stack |-> <<Frame(OwnerTop, NoNode)>>, owners |-> <<>>], tokens).owners

(***************************************************************************)
(* Queries at a cursor                                                     *)
(***************************************************************************)
RECURSIVE Search(_, _, _, _), ClimbOut(_, _), Ancestry(_)
\* The last token that starts at or before pos, by bisection.
Search(lo, hi, found, pos) ==
  LET mid == lo + ((hi - lo) \div 2)
  IN IF lo > hi THEN found
     ELSE IF tokens[mid].from <= pos THEN Search(mid + 1, hi, mid, pos)
     ELSE Search(lo, mid - 1, found, pos)

ClimbOut(i, pos) == IF i # NoNode /\ pos >= RangeEnd(i) THEN ClimbOut(decls[i].up, pos) ELSE i

tj_node_at(owners, pos) ==
  LET found == Search(1, Len(tokens), 0, pos)
  IN IF found = 0 THEN NoNode ELSE ClimbOut(owners[found], pos)

Ancestry(i) == IF i = NoNode THEN <<>> ELSE <<i>> \o Ancestry(decls[i].up)

pos_in_range(pos, r) == r.from <= pos /\ pos <= r.to

\* <<task, reference>> pairs found first on the way up; {} when there is
\* none.
dependency_at_cursor(owners, pos) ==
  LET line  == Ancestry(tj_node_at(owners, pos))
      hits(i) == {k \in DOMAIN decls[i].deps : pos_in_range(pos, decls[i].deps[k])}
      first == {k \in DOMAIN line : hits(line[k]) # {} /\ \A l \in 1 .. k - 1 : hits(line[l]) = {}}
  IN {<<line[k], CHOOSE d \in hits(line[k]) : \A e \in hits(line[k]) : d <= e>> : k \in first}

task_decl_at_cursor(owners, pos) ==
  LET line == SelectSeq(Ancestry(tj_node_at(owners, pos)),
                        LAMBDA i : decls[i].kw = "task" /\ pos_in_range(pos, decls[i].sel))
  IN IF line = <<>> THEN NoNode ELSE Head(line)

\* completion.c: keywords of the enclosing declarations, innermost first.
block_stack(owners, pos) ==
  LET line == Ancestry(tj_node_at(owners, pos)) IN [k \in DOMAIN line |-> decls[line[k]].kw]

Tabled == {"task", "resource", "project", "account"}
Transparent == {"limits", "journalentry", "supplement", "extend", "scenario", "navigator",
                "taskreport", "textreport", "resourcereport", "shift"}

\* The keyword table of the innermost block that has one, looking through the
\* transparent blocks.
kws_for_stack(stack) ==
  LET opaque == SelectSeq(stack, LAMBDA kw : kw \notin Transparent)
  IN IF opaque # <<>> /\ Head(opaque) \in Tabled THEN Head(opaque) ELSE "toplevel"

(***************************************************************************)
(* The outline                                                             *)
(***************************************************************************)
symbol_kind_for(kw) ==
  CASE kw = "project" -> "Module" [] kw = "resource" -> "Object" [] kw = "account" -> "Variable"
    [] kw = "shift" -> "Event" [] OTHER -> "Function"

RECURSIVE OutlineOf(_, _)
\* write_node_buf and collect_recursive: each declaration before its children.
OutlineOf(kids, container) ==
  FlattenSeq([k \in DOMAIN kids |->
    <<[node |-> kids[k], container |-> container, kind |-> symbol_kind_for(decls[kids[k]].kw)]>>
    \o OutlineOf(Children(kids[k]), kids[k])])

handle_document_symbol == OutlineOf(TopLevel, NoNode)

\* workspace/symbol with a query that matches the names of the given nodes.
collect_workspace_symbols(matching) ==
  SelectSeq(OutlineOf(TopLevel, NoNode), LAMBDA s : s.node \in matching)

\* foldingRange: a region for every declaration that spans lines.
LineOf(pos) == pos \div Width
emit_symbol_ranges ==
  LET all == OutlineOf(TopLevel, NoNode)
  IN SelectSeq([k \in DOMAIN all |-> <<LineOf(decls[all[k].node].from), LineOf(RangeEnd(all[k].node))>>],
               LAMBDA f : f[2] > f[1])

(***************************************************************************)
(* Properties                                                              *)
(***************************************************************************)
\* The type of the document being typed.
TypeOK ==
  /\ end \in Nat
  /\ \A t \in DOMAIN tokens : tokens[t].from < tokens[t].to /\ tokens[t].to <= end
  /\ \A i \in Decl : decls[i].kw \in Keywords /\ decls[i].up \in 0 .. i - 1
  /\ \A k \in DOMAIN open : open[k] \in Decl /\ decls[open[k]].to = 0

\* Positions where an answer can change: the edges of the tokens, the column
\* after each, and the end of the text.
Cursors == UNION {{tokens[t].from, tokens[t].to, tokens[t].to + 1} : t \in DOMAIN tokens} \cup {end}

\* The innermost declaration around a position: ranges nest, so the last to
\* start among those that contain it.
Around(pos) == {i \in Decl : decls[i].from <= pos /\ pos < RangeEnd(i)}
Innermost(pos) == IF Around(pos) = {} THEN NoNode
                  ELSE CHOOSE i \in Around(pos) : \A j \in Around(pos) : j <= i

\* The single pass of assign_token_owners, with the project's body hoisted out
\* of it and put back for the walk, gives every token the innermost declaration
\* whose range contains its start.
OwnersInnermost ==
  LET owners == assign_token_owners IN \A t \in DOMAIN tokens : owners[t] = Innermost(tokens[t].from)

\* tj_node_at finds the innermost declaration around any cursor that is not
\* directly in a project block, on a token or between two, in a closed block or
\* in one still being typed.
NodeAtInnermost ==
  LET owners == assign_token_owners
  IN \A pos \in Cursors : LET i == Innermost(pos) IN ~IsProject(i) => tj_node_at(owners, pos) = i

\* task_decl_at_cursor finds a task with a body from every position of its
\* identifier, both ends included (references and highlights start there).
DeclFound ==
  LET owners == assign_token_owners
  IN \A i \in Decl, pos \in Cursors :
       decls[i].kw = "task" /\ decls[i].body /\ pos_in_range(pos, decls[i].sel)
       => task_decl_at_cursor(owners, pos) = i

\* Bodies around a position in the text, whatever the tree says.
TextuallyOpen(pos) == {i \in Decl : decls[i].body /\ decls[i].from < pos /\ pos < RangeEnd(i)}
EnclosingTasks(pos) == {i \in TextuallyOpen(pos) : decls[i].kw = "task"}

\* A reference in a task's body, or in a block nested in it that is not a task,
\* is recorded on that task.
DependencyOnEnclosingTask ==
  \A t \in DOMAIN tokens : tokens[t].kind = "ref" =>
    LET tasks == EnclosingTasks(tokens[t].from)
    IN {i \in Decl : tokens[t] \in {decls[i].deps[k] : k \in DOMAIN decls[i].deps}}
         = {i \in tasks : \A j \in tasks : j <= i}

\* dependency_at_cursor finds a recorded reference, and the task it belongs to,
\* from every position of it before the end of the text, both ends included.
DependencyFound ==
  LET owners == assign_token_owners
  IN \A i \in Decl : \A d \in DOMAIN decls[i].deps : \A pos \in Cursors :
       pos < end /\ pos_in_range(pos, decls[i].deps[d]) => dependency_at_cursor(owners, pos) = {<<i, d>>}

\* documentSymbol lists every declaration once, in source order, below the
\* declaration whose body it is in, declarations of a project block beside the
\* block; workspace/symbol with an empty query lists the same.
OutlineInSourceOrder ==
  LET outline == handle_document_symbol
  IN /\ [k \in DOMAIN outline |-> outline[k].node] = [k \in Decl |-> k]
     /\ \A k \in DOMAIN outline : LET c == outline[k].container IN
          IF c = NoNode THEN \A j \in TextuallyOpen(decls[k].from) : IsProject(j)
          ELSE range_within(k, c) /\ ~IsProject(c)
     /\ collect_workspace_symbols(Decl) = outline

\* Two folding regions of declarations nest or share at most the line where one
\* ends and the other starts, and each body that spans lines has one.
FoldsNest ==
  LET folds == emit_symbol_ranges
  IN /\ Len(folds) = Cardinality({i \in Decl : decls[i].body /\ LineOf(RangeEnd(i)) > LineOf(decls[i].from)})
     /\ \A k, l \in DOMAIN folds : k < l =>
          \/ folds[k][2] <= folds[l][1]
          \/ folds[k][1] <= folds[l][1] /\ folds[l][2] <= folds[k][2]

\* Outside a project block, completion offers the keywords of the innermost
\* body around the cursor that has a keyword table.
KeywordsOfBlock ==
  LET owners == assign_token_owners
  IN \A pos \in Cursors :
       LET bodies == {i \in Around(pos) : decls[i].kw \in Tabled}
       IN ~(\E i \in Around(pos) : IsProject(i)) =>
            kws_for_stack(block_stack(owners, pos))
              = (IF bodies = {} THEN "toplevel" ELSE decls[CHOOSE i \in bodies : \A j \in bodies : j <= i].kw)
=============================================================================
