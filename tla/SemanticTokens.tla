--------------------------- MODULE SemanticTokens ---------------------------
(***************************************************************************)
(* From lexed tokens to the five-integer encoding of semanticTokens/full   *)
(* (lexer.l, parser.c, semantic_tokens.c).  The lexer records one          *)
(* TokenSpan per token and counts the entries the encoder may need; the    *)
(* encoder classifies each span, splits it at line ends and encodes each   *)
(* piece relative to the one before; the client adds the deltas up again.  *)
(*                                                                         *)
(* A lexeme is abstracted to the lengths of its lines.                     *)
(***************************************************************************)
EXTENDS Integers, SequencesExt

CONSTANTS Single,      \* kinds of the single-line tokens that may occur
          Multi,       \* kinds of the tokens that may span lines
          Column,      \* columns skipped between two tokens
          Length,      \* lengths of a line's body inside a token
          MaxLines,    \* bound on the lines of one token
          MaxSpans,    \* bound on the tokens of the document
          StrBuf       \* sizeof(str_buf) in lexer.l

VARIABLES spans,            \* g_tok_spans
          num_sem_entries,  \* g_num_sem_entries
          pos,              \* the lexer's position: yylineno - 1 and yycolumn
          source            \* history: the lines each token covers in the text
vars == <<spans, num_sem_entries, pos, source>>

Structural == {"KW_PROJECT", "KW_TASK", "KW_RESOURCE", "KW_ACCOUNT", "KW_SHIFT"}
Property   == {"KW_START", "KW_END", "KW_YEARLYWORKINGDAYS"}
Skipped    == {"TK_LBRACE", "TK_RBRACE", "TK_BANG", "TK_DOT", "TK_COMMA"}
Brackets   == {"TK_LBRACKET", "TK_RBRACKET"}

-----------------------------------------------------------------------------
(* The lexer.                                                              *)

\* STR_APPEND: a fragment that does not fit into str_buf is dropped, later and
\* shorter fragments may fit again.  A newline starts the next line of the text.
Append1(acc, frag) ==
  IF acc.len + frag.n >= StrBuf - 1 THEN acc
  ELSE [len |-> acc.len + frag.n,
        text |-> IF frag.nl THEN Append(acc.text, 0)
                 ELSE [acc.text EXCEPT ![Len(acc.text)] = @ + frag.n]]

\* The rules of a multi-fragment token: the opening delimiter, the body of each
\* line, the newlines, the closing delimiter.
Fragments(body, delim) ==
  LET piece(n) == [n |-> n, nl |-> FALSE]
      line(i)  == IF i = 1 THEN <<piece(body[1])>> ELSE <<[n |-> 1, nl |-> TRUE], piece(body[i])>>
  IN <<piece(delim)>> \o FlattenSeq([i \in DOMAIN body |-> line(i)]) \o <<piece(delim)>>
Lexeme(body, delim) ==
  FoldLeft(Append1, [len |-> 0, text |-> <<0>>], Fragments(body, delim)).text

is_sem_highlighted(kind) == kind \notin Skipped

g_push_tok_span(kind, sl, sc, el, ec, text) ==
  /\ spans' = Append(spans, [kind |-> kind, start |-> [line |-> sl, char |-> sc],
                             end |-> [line |-> el, char |-> ec], text |-> text])
  /\ num_sem_entries' =
       num_sem_entries + IF is_sem_highlighted(kind) THEN el - sl + 1 ELSE 0

\* A token of one line, after white space that may hold one newline.
LexSingle ==
  /\ Len(spans) < MaxSpans
  /\ \E kind \in Single, nl \in {0, 1}, gap \in Column, n \in Length \ {0} :
       LET line == pos.line + nl
           char == gap + IF nl = 0 THEN pos.char ELSE 0
       IN /\ g_push_tok_span(kind, line, char, line, char + n, <<n>>)
          /\ pos' = [line |-> line, char |-> char + n]
          /\ source' = Append(source, <<n>>)

\* A block comment (delimiters of two characters) or a scissors string (four).
LexMulti ==
  /\ Len(spans) < MaxSpans
  /\ \E kind \in Multi, gap \in Column, n \in 1..MaxLines :
     \E body \in [1..n -> Length] :
       LET delim == IF kind = "TK_BLOCK_COMMENT" THEN 2 ELSE 4
           el    == pos.line + n - 1
           cols  == [i \in 1..n |-> body[i] + (IF i = 1 THEN delim ELSE 0)
                                            + (IF i = n THEN delim ELSE 0)]
           ec    == cols[n] + IF n = 1 THEN pos.char + gap ELSE 0
       IN /\ g_push_tok_span(kind, pos.line, pos.char + gap, el, ec, Lexeme(body, delim))
          /\ pos' = [line |-> el, char |-> ec]
          /\ source' = Append(source, cols)

Init == /\ spans = <<>> /\ num_sem_entries = 0
        /\ pos = [line |-> 0, char |-> 0] /\ source = <<>>
Done == Len(spans) = MaxSpans /\ UNCHANGED vars
Next == LexSingle \/ LexMulti \/ Done
Spec == Init /\ [][Next]_vars

-----------------------------------------------------------------------------
(* The encoder.                                                            *)

\* The token type of a kind, "none" when the token is skipped.
classify(kind) ==
  CASE kind \in {"TK_LINE_COMMENT", "TK_BLOCK_COMMENT"} -> "comment"
    [] kind \in {"TK_STR", "TK_MULTI_LINE_STR"} -> "string"
    [] kind \in {"TK_DATE", "TK_DURATION"} -> "number"
    [] kind = "TK_IDENT" -> "variable"
    [] kind \in Structural -> "keyword"
    [] kind \in Property -> "function"
    [] OTHER -> "none"
modifiers(kind) == 0

\* The output buffer and the origin of the entry pushed last.
Empty == [buf |-> <<>>, line |-> 0, char |-> 0]

push_entry(buf, entry) == IF entry.length = 0 THEN buf ELSE Append(buf, entry)

FaultyRelative(acc, line, char, n, kind) ==
  [buf  |-> push_entry(acc.buf, [deltaLine |-> line - acc.line, deltaStart |-> char - acc.char,
                                 length |-> n, type |-> classify(kind), mods |-> modifiers(kind)]),
   line |-> line, char |-> char]
push_relative_entry(acc, line, char, n, kind) ==
  LET delta == line - acc.line IN
  [buf  |-> push_entry(acc.buf, [deltaLine |-> delta,
                                 deltaStart |-> IF delta = 0 THEN char - acc.char ELSE char,
                                 length |-> n, type |-> classify(kind), mods |-> modifiers(kind)]),
   line |-> line, char |-> char]

\* All lines but the last take their length from the text (once it has no
\* further newline, from what is left of it); the last ends at end.char.
emit_token(acc, s) ==
  LET lines == s.end.line - s.start.line
      seg(i) == s.text[IF i < Len(s.text) THEN i ELSE Len(s.text)]
      char(i) == IF i = 1 THEN s.start.char ELSE 0
      step(a, i) == IF seg(i) = 0 THEN a
                    ELSE push_relative_entry(a, s.start.line + i - 1, char(i), seg(i), s.kind)
  IN IF lines = 0
     THEN push_relative_entry(acc, s.start.line, s.start.char, s.end.char - s.start.char, s.kind)
     ELSE push_relative_entry(FoldLeft(step, acc, [i \in 1..lines |-> i]),
                              s.end.line, 0, s.end.char, s.kind)

compute_semantic_tokens_data ==
  LET step(acc, s) == IF classify(s.kind) = "none" THEN acc ELSE emit_token(acc, s)
  IN FoldLeft(step, Empty, spans).buf

-----------------------------------------------------------------------------
(* The client adds the deltas up.                                          *)

Decode(buf) ==
  LET step(acc, e) ==
        LET line == acc.line + e.deltaLine
            char == e.deltaStart + IF e.deltaLine = 0 THEN acc.char ELSE 0
        IN [out |-> Append(acc.out, [line |-> line, char |-> char, length |-> e.length,
                                     type |-> e.type, mods |-> e.mods]),
            line |-> line, char |-> char]
  IN FoldLeft(step, [out |-> <<>>, line |-> 0, char |-> 0], buf).out

\* What the source text holds: every non-empty line of every highlighted token.
Highlighted ==
  LET piece(s, i, n) == [line |-> s.start.line + i - 1, length |-> n,
                         char |-> IF i = 1 THEN s.start.char ELSE 0,
                         type |-> classify(s.kind), mods |-> modifiers(s.kind)]
      pieces(k) == IF classify(spans[k].kind) = "none" THEN <<>>
                   ELSE SelectSeq([i \in DOMAIN source[k] |-> piece(spans[k], i, source[k][i])],
                                  LAMBDA p : p.length > 0)
  IN FlattenSeq([k \in DOMAIN spans |-> pieces(k)])

\* A token's text has no more lines than the token covers (g_push_tok_span).
TypeOK ==
  /\ pos \in [line : Nat, char : Nat] /\ num_sem_entries \in Nat
  /\ \A k \in DOMAIN spans :
       /\ spans[k].kind \in Single \cup Multi
       /\ spans[k].text \in Seq(Nat)
       /\ Len(spans[k].text) \in 1..(spans[k].end.line - spans[k].start.line + 1)

\* The client that decodes the response of semanticTokens/full highlights
\* exactly the highlightable tokens of the text, each line of a multi-line
\* token at its own place and length, also after empty lines and after tokens
\* that are skipped (emit_token advances prev_line and prev_char itself).
DecodesToSource == Decode(compute_semantic_tokens_data) = Highlighted

\* compute_semantic_tokens_data writes into a buffer allocated for
\* num_sem_entries entries, counted by the lexer with is_sem_highlighted before
\* classify has run: the two functions must agree for the write to stay inside.
FitsAllocation == Len(compute_semantic_tokens_data) <= num_sem_entries
=============================================================================
