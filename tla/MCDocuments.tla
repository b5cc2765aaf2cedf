---------------------------- MODULE MCDocuments ----------------------------
(***************************************************************************)
(* What the server computes from a document's text, and from the parses of *)
(* one project.                                                            *)
(*   sync      the server's text follows the editor's                      *)
(*   encode    semantic tokens of every text of three tokens               *)
(*   diff      every pair of token buffers of up to three tokens, or of up *)
(*             to four drawn from two; the longest pairs exceed D_BOUND    *)
(*   session   two delta requests in flight while the document is edited   *)
(*   reopened  the same while it is also closed and opened again           *)
(*   kept      the same with an editor that keeps the tokens of a document *)
(*             that it closes and takes answers that come later            *)
(*   outline   owners, outline and folds of tasks and a project block      *)
(*   nested    dependencies and keywords in nested tasks and shifts        *)
(*   cursor    statements around a cursor, in text that need not parse     *)
(*   brackets  bracket folds on three lines, unbalanced ones included      *)
(*   dates     lenses of one task, both walks, every unit                  *)
(*   lenses    up to three tasks, endpoint and value in any order          *)
(*   tree      two documents, the second included with or without a prefix *)
(*   memo      two workers resolve the dependencies of one document        *)
(*   staging   a worker stages the documents of a project, runs tj3 on     *)
(*             them and reads its messages                                 *)
(***************************************************************************)
EXTENDS Integers, SequencesExt

CONSTANTS Parts,   \* the parts of the run, chosen before the first step
          w1, w2, q1, q2, Nil
VARIABLES part,
  client, server,                                \* TextSync
  recorded, num_sem_entries, pos, source,        \* SemanticTokens
  doc, life, held, query, issued,                \* TokenDelta
  tokens, decls, open, syms, end,                \* TokenOwners
  text, lexed, typed,                            \* KeywordContext
  bodies, start, finish, spans, written,         \* CodeLens
  docs, prefix, built, tree, memo, worker,       \* ProjectTree
  phase, landlock, members, staged, tmp, real,
  mode, tj3, lines, out, escaped                 \* Tj3Staging

syncVars == <<client, server>>
encodeVars == <<recorded, num_sem_entries, pos, source>>
deltaVars == <<doc, life, held, query, issued>>
ownerVars == <<tokens, decls, open, syms, end>>
keywordVars == <<text, lexed, typed>>
lensVars == <<bodies, start, finish, spans, written>>
treeVars == <<docs, prefix, built, tree, memo, worker>>
stagingVars == <<phase, landlock, members, staged, tmp, real, mode, tj3, lines, out, escaped>>

-----------------------------------------------------------------------------
Sync == INSTANCE TextSync WITH Chars <- {"a", "LF", "CRLF"}, MaxText <- 4

Encoder == INSTANCE SemanticTokens WITH
  spans <- recorded, Single <- {"KW_TASK", "KW_START", "TK_LBRACE", "TK_LBRACKET"}, Multi <- {"TK_BLOCK_COMMENT"},
  Column <- {0, 1}, Length <- {0, 2}, MaxLines <- 3, MaxSpans <- 3, StrBuf <- 100

Pairs == SeqOf({"a", "b", "c"}, 3) \cup SeqOf({"a", "b"}, 4)
Few   == {<<>>, <<"a">>, <<"a", "b">>, <<"b", "a">>}

Diff == INSTANCE TokenDelta WITH
  client <- held, Token <- {"a", "b", "c"}, Buffer <- Pairs, Query <- {},
  D_BOUND <- 6, MaxVersion <- 2, MaxLives <- 1, Forgets <- TRUE
Session == INSTANCE TokenDelta WITH
  client <- held, Token <- {"a", "b"}, Buffer <- Few, Query <- {q1, q2},
  D_BOUND <- 6, MaxVersion <- 3, MaxLives <- 1, Forgets <- TRUE
Reopened == INSTANCE TokenDelta WITH
  client <- held, Token <- {"a", "b"}, Buffer <- {<<"a">>, <<"b", "a">>}, Query <- {q1, q2},
  D_BOUND <- 6, MaxVersion <- 2, MaxLives <- 2, Forgets <- TRUE
Kept == INSTANCE TokenDelta WITH
  client <- held, Token <- {"a", "b"}, Buffer <- {<<"a">>, <<"b", "a">>}, Query <- {q1, q2},
  D_BOUND <- 6, MaxVersion <- 2, MaxLives <- 2, Forgets <- FALSE

Outline == INSTANCE TokenOwners WITH
  Keywords <- {"task", "project"}, MaxDecls <- 3, MaxDeps <- 0, Named <- BOOLEAN,
  MaxLines <- 2, Width <- 100, SymCap <- 128
Nested == INSTANCE TokenOwners WITH
  Keywords <- {"task", "shift"}, MaxDecls <- 3, MaxDeps <- 1, Named <- {TRUE},
  MaxLines <- 1, Width <- 100, SymCap <- 128

Cursor == INSTANCE KeywordContext WITH
  tokens <- lexed, end <- typed, Lexemes <- {"task", "depends", "a", "{", "}", "comment"}, Idents <- {"a"},
  MaxLexemes <- 5, MaxLines <- 1, Width <- 100, StackCap <- 512, BracketCap <- 256
Brackets == INSTANCE KeywordContext WITH
  tokens <- lexed, end <- typed, Lexemes <- {"[", "]"}, Idents <- {},
  MaxLexemes <- 7, MaxLines <- 2, Width <- 100, StackCap <- 512, BracketCap <- 256

Val(n, unit) == [n |-> n, unit |-> unit, form |-> "compact"]
Spaced == [n |-> 5, unit |-> "d", form |-> "spaced"]
\* Days: a Friday, a Saturday and a Sunday, a Monday and a Wednesday.
Dates == INSTANCE CodeLens WITH
  open <- bodies, end <- finish, Days <- {8, 9, 10, 11, 13},
  Values <- {Val(5, "d"), Val(1, "d"), Val(-3, "d"), Val(0, "d"), Val(8, "d"), Val(3, "h"),
             Val(0, "h"), Val(2, "w"), Val(1, "m"), Val(-2, "min"), Spaced},
  Bodies <- {"task", "supplement"}, MaxTasks <- 1, MaxSpans <- 1
Lenses == INSTANCE CodeLens WITH
  open <- bodies, end <- finish, Days <- {8, 10}, Values <- {Val(5, "d"), Val(0, "d"), Spaced},
  Bodies <- {"task"}, MaxTasks <- 3, MaxSpans <- 1

Unprefixed == [TASK |-> <<>>, RESOURCE |-> <<>>]
Under(id)  == [TASK |-> <<id>>, RESOURCE |-> <<id>>]
Tree == INSTANCE ProjectTree WITH
  decls <- docs, Docs <- {"r", "s"}, Root <- "r", Includes <- [r |-> <<"s">>, s |-> <<>>],
  PrefixSets <- [r |-> {Unprefixed}, s |-> {Unprefixed, Under("a")}],
  Keywords <- {"task", "resource", "project"}, Ids <- {"a", "b"}, MaxNodes <- 3, MaxDeps <- 1,
  Bangs <- {0, 1, 2}, MaxSegs <- 2, ChainCap <- 64, Workers <- {}
Memo == INSTANCE ProjectTree WITH
  decls <- docs, Docs <- {"r"}, Root <- "r", Includes <- [r |-> <<>>],
  PrefixSets <- [r |-> {Unprefixed}],
  Keywords <- {"task"}, Ids <- {"a", "b"}, MaxNodes <- 2, MaxDeps <- 2,
  Bangs <- {0, 1}, MaxSegs <- 1, ChainCap <- 64, Workers <- {w1, w2}

\* Two files of one name in different directories, and a document that is not
\* on disk.
Paths == [main |-> <<"w", "p", "main">>, part |-> <<"w", "p", "sub", "part">>,
          lib |-> <<"w", "lib", "part">>, untitled |-> <<>>]
References ==
  {<<"sub", "part">>, <<"..", "main">>, <<"..", "lib", "part">>, <<"..", "..", "lib", "part">>,
   <<"..", "p", "main">>, <<"..", "p", "sub", "part">>, <<"sub", "..", "sub", "part">>}
Staging == INSTANCE Tj3Staging WITH
  child <- tj3, Docs <- DOMAIN Paths, PathOf <- Paths, Refs <- References,
  Messages <- {<<[kind |-> "text"]>>}, LineNos <- {0, 1, 7}, MaxLines <- 1

-----------------------------------------------------------------------------
Init == /\ part \in Parts
        /\ Sync!Init /\ Encoder!Init /\ Outline!Init /\ Cursor!Init /\ Dates!Init /\ Staging!Init
        /\ IF part \in {"session", "reopened", "kept"} THEN Session!Init ELSE Diff!Init
        /\ part # "staging" => ~landlock
        /\ IF part = "tree" THEN Tree!Init ELSE Memo!Init

Delta   == \/ part = "diff" /\ Diff!Next
           \/ part = "session" /\ Session!Next
           \/ part = "reopened" /\ Reopened!Next
           \/ part = "kept" /\ Kept!Next
Owners  == (part = "outline" /\ Outline!Next) \/ (part = "nested" /\ Nested!Next)
Keyword == (part = "cursor" /\ Cursor!Next) \/ (part = "brackets" /\ Brackets!Next)
Lens    == (part = "dates" /\ Dates!Next) \/ (part = "lenses" /\ Lenses!Next)
Project == (part = "tree" /\ Tree!Next) \/ (part = "memo" /\ Memo!Next)

requestVars == <<keywordVars, lensVars, treeVars, stagingVars>>
tokenVars == <<syncVars, encodeVars, deltaVars>>
Next ==
  \/ part = "sync" /\ Sync!Next /\ UNCHANGED <<part, encodeVars, deltaVars, ownerVars, requestVars>>
  \/ part = "encode" /\ Encoder!Next /\ UNCHANGED <<part, syncVars, deltaVars, ownerVars, requestVars>>
  \/ Delta /\ UNCHANGED <<part, syncVars, encodeVars, ownerVars, requestVars>>
  \/ Owners /\ UNCHANGED <<part, tokenVars, requestVars>>
  \/ Keyword /\ UNCHANGED <<part, tokenVars, ownerVars, lensVars, treeVars, stagingVars>>
  \/ Lens /\ UNCHANGED <<part, tokenVars, ownerVars, keywordVars, treeVars, stagingVars>>
  \/ Project /\ UNCHANGED <<part, tokenVars, ownerVars, keywordVars, lensVars, stagingVars>>
  \/ part = "staging" /\ Staging!Next /\ UNCHANGED <<part, tokenVars, ownerVars, keywordVars, lensVars, treeVars>>
vars == <<part, tokenVars, ownerVars, requestVars>>
Spec == Init /\ [][Next]_vars

-----------------------------------------------------------------------------
\* After every notification the server's document is the editor's text, also
\* where a range ends a line, crosses lines or touches the end of the text; an
\* unusable notification changes nothing (apply_content_changes).
TextAgrees == part = "sync" => Sync!TextAgrees

\* The client that decodes the response of semanticTokens/full highlights exactly
\* the highlightable lines of the text, each at its own place and length, also
\* after empty lines and skipped tokens (compute_semantic_tokens_data); and the
\* encoder stays inside the buffer that the lexer's count allocated, although
\* is_sem_highlighted and classify decide separately what is highlighted.
EncodingFaithful == part = "encode" =>
  Encoder!TypeOK /\ Encoder!DecodesToSource /\ Encoder!FitsAllocation

\* Applying the edits of build_semantic_tokens_delta_json to the old token array
\* gives the new one: empty, equal, within the bound or beyond it.  The edits are
\* ascending, disjoint, never empty and never adjacent (coalesce_edit_ops), their
\* script is minimal unless the bound makes myers_diff_run replace everything, and
\* the arrays allocated before the diff are large enough for its steps.
DeltaSound == part = "diff" =>
  Diff!DeltaCorrect /\ Diff!DeltaNormal /\ Diff!DeltaMinimal /\ Diff!DiffFitsAllocation

\* Whatever the interleaving of edits, requests, answers, closing and reopening,
\* in one life of a document no resultId names two arrays, also counting the
\* answers that go out after its close, and an answer to a request whose base is of
\* the same life gives the tokens of the parse it pinned
\* (handle_semantic_tokens_full_delta, doc_version).  An editor that forgets what it
\* closes always holds the tokens that its resultId names in the present life.
ResultIdsHonoured ==
  /\ part = "session" => /\ Session!TypeOK /\ Session!OneArrayInLife /\ Session!AnswersRight
                         /\ Session!ClientHoldsNamedTokens
  /\ part = "reopened" => /\ Reopened!TypeOK /\ Reopened!OneArrayInLife /\ Reopened!AnswersRight
                          /\ Reopened!ClientHoldsNamedTokens
  /\ part = "kept" => Kept!TypeOK /\ Kept!OneArrayInLife /\ Kept!AnswersRight

\* doc_version is a monotonic parse stamp and the resultId (query_context.h), so one
\* resultId never names two token arrays of a document.
ResultIdsMonotonic == part = "kept" => Kept!ResultIdNamesOneArray

\* assign_token_owners gives every token the innermost declaration around its
\* start, although the body of the project block is hoisted out of it; tj_node_at
\* finds it from any cursor not directly in a project block, task_decl_at_cursor
\* a task with a body from every position of its identifier.  A dependency is
\* recorded on the task around it (sym_stack_push, sym_stack_pop), and
\* dependency_at_cursor finds it from every position of the reference.
CursorFindsInnermost ==
  /\ part = "outline" => /\ Outline!TypeOK /\ Outline!OwnersInnermost
                         /\ Outline!NodeAtInnermost /\ Outline!DeclFound
  /\ part = "nested" => Nested!DependencyOnEnclosingTask /\ Nested!DependencyFound

\* documentSymbol and workspace/symbol list every declaration once, in source
\* order, below the declaration whose body it is in; the folds of declarations
\* nest, one for each body that spans lines (emit_symbol_ranges); the bracket folds
\* are the matching pairs that span lines, whatever is left open or closed twice
\* (emit_token_ranges).
ViewsFollowNesting ==
  /\ part = "outline" => Outline!OutlineInSourceOrder /\ Outline!FoldsNest
  /\ part = "brackets" => Brackets!FoldsMatchBrackets

\* The stack scan behind hover, signature help and completion finds the statement
\* around every cursor and counts its arguments, through nested blocks, stray
\* braces and comments (active_context); the highlighted parameter is one of the
\* signature's and never moves left when the cursor moves right in a statement
\* (handle_signature_help).
StatementAtCursor == part = "cursor" =>
  Cursor!TypeOK /\ Cursor!ContextIsStatement /\ Cursor!HighlightFollowsCursor

\* After a keyword on its line completion offers the ids that keyword takes, and
\* none after one that takes none (id_kind_for_keyword); the identifier that starts
\* a line is never completed with ids for an earlier line's statement
\* (build_completions_json); the keywords offered are those of the innermost body
\* that has a table (block_stack, kws_for_stack).
CompletionFits ==
  /\ part = "cursor" => Cursor!NewStatementNotFilled /\ Cursor!ArgumentIds
  /\ part = "nested" => Nested!KeywordsOfBlock

\* Of the values in the compact form, a lens stands on exactly those other than zero
\* of tasks with a `start` or `end` of their own, before or after the keyword (a
\* value with a space is left open, see LensIffOwnEndpoint).  A lens's date is the
\* last day counted: a `length` covers exactly its working days and ends on one, a
\* `duration` its days (format_inferred_date_title); the walk back from the end
\* shown for a start gives that start.
LensesRight ==
  /\ part = "dates" => Dates!DateCoversValue /\ Dates!EndsAreInverse
  /\ part = "lenses" => Lenses!LensIffOwnEndpoint

\* An included document whose prefix task stands before it in the walk is copied
\* into the project tree whole (copy_document_into_project), and the task under
\* the cursor is mapped to its own copy, whatever prefix and nesting
\* (project_node_for_doc_task).  Definition leads from a dependency to a task
\* exactly when references lists the dependency for the task, the qualified id
\* that hover shows names that task, and a highlight covers what the cursor is on,
\* also when the target is in another document.
ReferencesAgree == part = "tree" =>
  /\ Tree!TypeOK /\ Tree!ClosureCopied /\ Tree!OwnClone
  /\ Tree!DefinitionInvertsReferences /\ Tree!HoverNamesTarget /\ Tree!HighlightCoversCursor

\* project_dep_resolve finds exactly the task whose qualified id is the path
\* appended to the scope that the bangs select, and every id that completion offers
\* in a dependency resolves once accepted (build_dep_completions), except relative
\* ids at the top level and absolute ids under a prefix.  Whichever worker resolves
\* a dependency first, the memo and every answer are what the tree determines
\* (ProjectDep.resolved).
DependenciesResolve ==
  /\ part = "tree" => Tree!ResolvesByQualifiedId /\ Tree!OfferedResolves
  /\ part = "memo" => Memo!MemoIsPure

\* An include from one project member to another names in the staging directory
\* the copy of what it names on disk (assign_member_relpaths), unless it climbs
\* above the members' common directory; the diagnostics collected from tj3's
\* output are those tj3 reported, each with its document, line and severity
\* (parse_diagnostics, map_reported_path); a run leaves no temporary directory,
\* also when tj3 could not be started (tj3_collect_project); and no report is
\* written outside that directory, with Landlock or without, also when
\* confinement fails (sandbox.c).
StagingSound == part = "staging" =>
  /\ Staging!IncludesResolve /\ Staging!DiagnosticsFaithful
  /\ Staging!NothingStagedLeft /\ Staging!ReportsStayInside
=============================================================================
