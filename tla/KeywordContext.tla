--------------------------- MODULE KeywordContext ---------------------------
(* The statement around the cursor: hover, signature help, completion mode *)
(* and bracket folding.                                                    *)
(*                                                                         *)
(* These queries do not use the parse tree.  They scan the recorded tokens *)
(* (hover.c, signature.c, completion.c, folding_range.c), so they answer   *)
(* on any text, complete or not.  A document is any sequence of lexemes of *)
(* the alphabet, typed one after another; a position is line * Width +     *)
(* column, and every lexeme is one column wide.                            *)
EXTENDS Integers, Sequences, FiniteSets, SequencesExt

CONSTANTS
  Lexemes,      \* the alphabet: keywords, identifiers, punctuation, "string", "int", "comment"
  Idents,       \* the lexemes that are identifiers
  MaxLexemes,   \* bound: lexemes of a document
  MaxLines,     \* bound: line breaks of a document
  Width,        \* bound: columns of a line
  StackCap,     \* capacity of the keyword stack: 512 in the code
  BracketCap    \* MAX_BRACKET_DEPTH: 256 in the code

VARIABLES
  text,    \* lexemes of the document, [kind, from, to]
  tokens,  \* the spans the lexer records of it
  end      \* where the next lexeme goes

vars == <<text, tokens, end>>

(***************************************************************************)
(* Tables                                                                  *)
(***************************************************************************)
\* Keywords with a signature, and how many parameters it has (signature.c).
SigParams == [
  project |-> 5, task |-> 2, resource |-> 2, account |-> 2, shift |-> 2, macro |-> 2, include |-> 1,
  flags |-> 1, supplement |-> 2, scenario |-> 2, effort |-> 2, duration |-> 2, length |-> 2,
  milestone |-> 0, scheduled |-> 0, depends |-> 1, precedes |-> 1, allocate |-> 1, start |-> 1,
  end |-> 1, maxstart |-> 1, minstart |-> 1, maxend |-> 1, minend |-> 1, priority |-> 1,
  complete |-> 1, note |-> 1, responsible |-> 1, booking |-> 2, rate |-> 1, efficiency |-> 1,
  vacation |-> 2, leaves |-> 3, now |-> 1, currency |-> 1, timeformat |-> 1, timezone |-> 1,
  workinghours |-> 2, timingresolution |-> 1]

\* Keywords with hover documentation (hover.c).
keyword_doc_table == {
  "account", "allocate", "booking", "complete", "currency", "depends", "duration", "efficiency",
  "effort", "end", "flags", "include", "leaves", "length", "macro", "maxend", "maxstart",
  "milestone", "minend", "minstart", "note", "now", "precedes", "priority", "project", "rate",
  "resource", "responsible", "scenario", "scheduled", "shift", "start", "supplement", "task",
  "timeformat", "timezone", "timingresolution", "vacation", "workinghours"}

\* The token kinds below KW_SIG_END, in the order of grammar.y; none lies
\* between KW_SIG_END and KW_DOCS_END.
ScannedKeywords == {
  "project", "task", "resource", "account", "shift", "macro", "include", "flags", "supplement",
  "effort", "duration", "length", "milestone", "depends", "precedes", "allocate", "start", "end",
  "maxstart", "minstart", "maxend", "minend", "priority", "complete", "note", "responsible",
  "booking", "scheduled", "rate", "efficiency", "vacation", "leaves", "now", "currency",
  "timeformat", "timezone", "workinghours", "timingresolution", "scenario"}

\* Keywords with a token kind beyond KW_DOCS_END that take ids.
OtherKeywords == {"managers", "chargeset", "balance"}

\* Whose ids a keyword takes as arguments; "" for none.
id_kind_for_keyword(kw) ==
  CASE kw \in {"depends", "precedes"} -> "task"
    [] kw \in {"allocate", "responsible", "managers"} -> "resource"
    [] kw \in {"chargeset", "balance"} -> "account"
    [] OTHER -> ""

is_decl_keyword(kw) ==
  kw \in {"project", "task", "resource", "account", "shift", "scenario", "macro", "include", "supplement"}

(***************************************************************************)
(* Typing                                                                  *)
(***************************************************************************)
Word(kind) == kind \in Idents \cup ScannedKeywords \cup OtherKeywords \cup {"int"}

Init == text = <<>> /\ tokens = <<>> /\ end = 0

\* Numbers leave no span (emit_plain).
Lex(lexeme) ==
  /\ text' = Append(text, lexeme)
  /\ tokens' = IF lexeme.kind = "int" THEN tokens ELSE Append(tokens, lexeme)

\* Words are set apart by a blank; punctuation is not.
Type(kind) ==
  LET from == IF text # <<>> /\ Last(text).to = end /\ Word(Last(text).kind) /\ Word(kind)
              THEN end + 1 ELSE end
  IN /\ Len(text) < MaxLexemes
     /\ Lex([kind |-> kind, from |-> from, to |-> from + 1])
     /\ end' = from + 1

Newline ==
  /\ end % Width # 0
  /\ end \div Width < MaxLines
  /\ end' = Width * (end \div Width + 1)
  /\ UNCHANGED <<text, tokens>>

Clear ==
  /\ text # <<>>
  /\ text' = <<>> /\ tokens' = <<>> /\ end' = 0

Next == (\E kind \in Lexemes : Type(kind)) \/ Newline \/ Clear

Spec == Init /\ [][Next]_vars

LineOf(pos) == pos \div Width

(***************************************************************************)
(* hover.c: the keyword stack                                              *)
(***************************************************************************)
\* The token the position is on or touches the end of.
TokenAt(pos) == LET before == {k \in DOMAIN tokens : tokens[k].from <= pos}
                    last   == CHOOSE k \in before : \A l \in before : l <= k
                IN IF before # {} /\ pos <= tokens[last].to THEN {tokens[last]} ELSE {}

\* Pop the entries at this depth or deeper, then push.
push_keyword_entry(stack, depth, tok) ==
  LET kept == SelectSeq(stack, LAMBDA e : e.depth < depth)
  IN IF Len(kept) < StackCap
     THEN Append(kept, [kw |-> tok.kind, from |-> tok.from, depth |-> depth, argc |-> 0])
     ELSE kept

\* A token that ends before the cursor is an argument of the innermost entry at
\* its depth.  In error a token under the cursor counts too.
FaultyBumpArgc(stack, depth, tok, cursor) ==
  [k \in DOMAIN stack |-> IF stack[k].depth = depth THEN [stack[k] EXCEPT !.argc = @ + 1] ELSE stack[k]]
bump_active_argc(stack, depth, tok, cursor) ==
  LET at == {k \in DOMAIN stack : stack[k].depth = depth}
      k  == CHOOSE i \in at : \A j \in at : j <= i
  IN IF tok.to <= cursor /\ at # {} THEN [stack EXCEPT ![k].argc = @ + 1] ELSE stack

ScanToken(acc, tok, cursor) ==
  CASE tok.kind = "comment" -> acc
    [] tok.kind = "{" -> [acc EXCEPT !.depth = @ + 1]
    [] tok.kind = "}" -> LET depth == IF acc.depth > 0 THEN acc.depth - 1 ELSE 0
                         IN [depth |-> depth, stack |-> SelectSeq(acc.stack, LAMBDA e : e.depth <= depth)]
    [] tok.kind \in ScannedKeywords -> [acc EXCEPT !.stack = push_keyword_entry(@, acc.depth, tok)]
    [] OTHER -> [acc EXCEPT !.stack = bump_active_argc(@, acc.depth, tok, cursor)]

scan_kw_stack(cursor) ==
  FoldLeft(LAMBDA acc, tok : ScanToken(acc, tok, cursor), [depth |-> 0, stack |-> <<>>],
           SelectSeq(tokens, LAMBDA t : t.from <= cursor))

NoContext == [kw |-> "", from |-> 0, depth |-> 0, argc |-> 0]

\* The innermost entry at the depth of the cursor: active_keyword_at and
\* active_context, which scan the same keywords.
active_context(cursor) ==
  LET scan == scan_kw_stack(cursor)
      here == SelectSeq(scan.stack, LAMBDA e : e.depth = scan.depth)
  IN IF here = <<>> THEN NoContext ELSE Last(here)

\* Hover where no dependency is under the cursor: the keyword documented.
handle_hover(cursor) ==
  LET kw == active_context(cursor).kw IN IF kw \in keyword_doc_table THEN kw ELSE ""

(***************************************************************************)
(* signature.c                                                             *)
(***************************************************************************)
\* The parameter highlighted, counted from 0; clamped to the last one.
ActiveParameter(kw, argc) ==
  LET n == SigParams[kw] IN IF n = 0 THEN 0 ELSE IF argc < n THEN argc ELSE n - 1

\* {} is the null response.
handle_signature_help(cursor) ==
  LET ac == active_context(cursor)
  IN IF ac.kw \in DOMAIN SigParams THEN {[kw |-> ac.kw, param |-> ActiveParameter(ac.kw, ac.argc)]} ELSE {}

(***************************************************************************)
(* completion.c                                                            *)
(***************************************************************************)
\* The identifier under the cursor; "" for none.
partial_word(cursor) ==
  LET on == {t \in TokenAt(cursor) : t.kind \in Idents}
  IN IF on = {} THEN "" ELSE (CHOOSE t \in on : TRUE).kind

\* The first token of the cursor's line, if it is an identifier.
line_first_word(cursor) ==
  LET line == SelectSeq(tokens, LAMBDA t : t.kind # "comment" /\ LineOf(t.from) = LineOf(cursor))
  IN IF line # <<>> /\ Head(line).kind \in Idents THEN Head(line).kind ELSE ""

at_statement_start(cursor) ==
  \A k \in DOMAIN tokens : tokens[k].kind # "comment" /\ LineOf(tokens[k].from) = LineOf(cursor)
                           => tokens[k].from >= cursor

cursor_in_dquote(cursor) == \E t \in TokenAt(cursor) : t.kind = "string"

\* The list offered: "null", "keywords", or the kind of the ids.  In error the
\* first identifier of a line is completed as an argument.
FaultyCompletions(cursor) ==
  LET ids == id_kind_for_keyword(active_context(cursor).kw)
  IN IF cursor_in_dquote(cursor) THEN "null"
     ELSE IF ids # "" THEN ids
     ELSE IF partial_word(cursor) # "" \/ at_statement_start(cursor) THEN "keywords" ELSE "null"
build_completions_json(cursor) ==
  LET partial == partial_word(cursor)
      first   == line_first_word(cursor)
      ids     == id_kind_for_keyword(active_context(cursor).kw)
      newStmt == first # "" /\ partial # "" /\ first = partial
  IN IF cursor_in_dquote(cursor) \/ is_decl_keyword(first) THEN "null"
     ELSE IF ~newStmt /\ ids # "" THEN ids
     ELSE IF partial # "" \/ at_statement_start(cursor) THEN "keywords" ELSE "null"

(***************************************************************************)
(* folding_range.c: bracket pairs                                          *)
(***************************************************************************)
FoldStep(acc, t) ==
  CASE t.kind = "[" /\ Len(acc.open) < BracketCap -> [acc EXCEPT !.open = Append(@, LineOf(t.from))]
    [] t.kind = "]" /\ acc.open # <<>> ->
         [open |-> Front(acc.open), folds |-> Append(acc.folds, <<Last(acc.open), LineOf(t.from)>>)]
    [] OTHER -> acc

emit_token_ranges ==
  SelectSeq(FoldLeft(FoldStep, [open |-> <<>>, folds |-> <<>>], tokens).folds, LAMBDA f : f[2] > f[1])

(***************************************************************************)
(* Properties                                                              *)
(***************************************************************************)
Cursors == UNION {{text[k].from, text[k].to, text[k].to + 1} : k \in DOMAIN text} \cup {end}

Token == DOMAIN tokens
Count(S, kind) == Cardinality({k \in S : tokens[k].kind = kind})

RECURSIVE DepthAfter(_)
\* Brace depth after the first k tokens; closing braces without an open one are
\* ignored.
DepthAfter(k) ==
  IF k = 0 THEN 0
  ELSE LET d == DepthAfter(k - 1)
       IN IF tokens[k].kind = "{" THEN d + 1
          ELSE IF tokens[k].kind = "}" /\ d > 0 THEN d - 1 ELSE d

\* The type of the document being typed: lexemes do not overlap.
TypeOK ==
  /\ end \in Nat
  /\ \A k \in DOMAIN text : text[k].kind \in Lexemes /\ text[k].to <= end
  /\ \A k, l \in DOMAIN text : k < l => text[k].to <= text[l].from

\* The keyword whose statement the cursor is in, said without a stack: the last
\* keyword at the cursor's depth whose block has not been left since.
StatementKeywords(cursor) ==
  LET seen == {k \in Token : tokens[k].from <= cursor}
      here == DepthAfter(Cardinality(seen))
  IN {k \in seen : /\ tokens[k].kind \in ScannedKeywords
                   /\ DepthAfter(k) = here
                   /\ \A l \in seen : k < l => DepthAfter(l) >= here}

\* Its completed arguments: the recorded tokens at its depth that end before the
\* cursor.
Arguments(k, cursor) ==
  {l \in Token : /\ k < l /\ tokens[l].to <= cursor
                 /\ tokens[l].kind \notin {"comment", "{", "}"}
                 /\ DepthAfter(l) = DepthAfter(k)}

\* The stack scan finds the statement around every cursor and counts its
\* arguments, through nested blocks, stray closing braces and comments, on text
\* that does not parse as well (hover, signature help and completion all start
\* from it).
ContextIsStatement ==
  \A cursor \in Cursors :
    LET ks == StatementKeywords(cursor)
        k  == CHOOSE i \in ks : \A j \in ks : j <= i
        ac == active_context(cursor)
    IN IF ks = {} THEN ac = NoContext
       ELSE /\ ac.kw = tokens[k].kind /\ ac.from = tokens[k].from
            /\ ac.argc = Cardinality(Arguments(k, cursor))

\* Every statement keyword the scan can find has documentation and a signature,
\* and the highlighted parameter is one of the signature's; moving the cursor to
\* the right in a statement never moves the highlight to the left.
HighlightFollowsCursor ==
  LET answers == {[at |-> c, context |-> active_context(c), help |-> handle_signature_help(c),
                   hover |-> handle_hover(c)] : c \in Cursors}
  IN \A a \in answers :
       /\ (a.help = {}) = (a.context.kw = "") /\ (a.hover = "") = (a.help = {})
       /\ \A s \in a.help : s.param \in {0} \cup 0 .. SigParams[s.kw] - 1
       /\ \A b \in answers :
            a.at < b.at /\ a.context # NoContext /\ a.context.from = b.context.from
            => \A s \in a.help, t \in b.help : s.param <= t.param

\* A cursor on the identifier that starts a line is never completed with the
\* ids that an earlier line's statement takes.
NewStatementNotFilled ==
  \A cursor \in Cursors : \A t \in TokenAt(cursor) :
    t.kind \in Idents /\ (\A k \in Token : LineOf(tokens[k].from) = LineOf(t.from) => tokens[k].from >= t.from)
    => build_completions_json(cursor) \in {"keywords", "null"}

\* The keywords before the cursor on its line, no brace in between: the last is
\* the statement being typed there.
LineKeywords(cursor, kws) ==
  {k \in Token : /\ tokens[k].kind \in kws /\ LineOf(tokens[k].from) = LineOf(cursor) /\ tokens[k].to < cursor
                 /\ \A l \in Token : k < l /\ tokens[l].from <= cursor => tokens[l].kind \notin {"{", "}"} \cup kws}

LineStartsWithIdent(cursor) ==
  \E k \in Token : /\ LineOf(tokens[k].from) = LineOf(cursor) /\ tokens[k].kind \in Idents
                   /\ \A l \in 1 .. k - 1 : LineOf(tokens[l].from) = LineOf(cursor) => tokens[l].kind = "comment"

\* After a keyword on its line completion offers the ids that keyword takes, and
\* no ids after one that takes none.
ArgumentIds ==
  \A cursor \in Cursors : ~cursor_in_dquote(cursor) /\ LineKeywords(cursor, OtherKeywords) = {} =>
    \A k \in LineKeywords(cursor, ScannedKeywords) :
      LET kind  == id_kind_for_keyword(tokens[k].kind)
          offer == build_completions_json(cursor)
      IN ~LineStartsWithIdent(cursor) => IF kind # "" THEN offer = kind ELSE offer \in {"keywords", "null"}

\* Two brackets match when what is between them is balanced.
Between(i, j) == {k \in Token : i < k /\ k < j}
Matching(i, j) ==
  /\ tokens[i].kind = "[" /\ tokens[j].kind = "]" /\ i < j
  /\ Count(Between(i, j), "[") = Count(Between(i, j), "]")
  /\ \A m \in Between(i, j) : Count(Between(i, m + 1), "[") >= Count(Between(i, m + 1), "]")

\* The bracket folds are the matching pairs that span lines, each once, whatever
\* brackets are left open or closed twice.
FoldsMatchBrackets ==
  LET pairs == {p \in Token \X Token : Matching(p[1], p[2]) /\ LineOf(tokens[p[1]].from) < LineOf(tokens[p[2]].from)}
  IN /\ Len(emit_token_ranges) = Cardinality(pairs)
     /\ {emit_token_ranges[k] : k \in DOMAIN emit_token_ranges}
          = {<<LineOf(tokens[p[1]].from), LineOf(tokens[p[2]].from)>> : p \in pairs}
=============================================================================
