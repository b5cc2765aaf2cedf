----------------------------- MODULE TokenDelta -----------------------------
(***************************************************************************)
(* semanticTokens/full/delta (semantic_tokens_delta.c): Myers' diff over   *)
(* the tokens of two parses of a document, and the resultId protocol that  *)
(* decides which parse the client holds.                                   *)
(*                                                                         *)
(* A five-integer tuple is a member of Token; a buffer is a sequence of    *)
(* them.  Edits are in flat-integer units, TUPLE_LEN to a token.           *)
(***************************************************************************)
EXTENDS Integers, FiniteSets, SequencesExt

CONSTANTS Token,      \* the distinct five-tuples
          Buffer,     \* token buffers a parse may yield, sequences over Token
          Query,      \* delta requests in flight
          D_BOUND,    \* inputs longer than this are replaced as a whole
          MaxVersion, \* bound on doc_version
          MaxLives,   \* bound on how often the document is opened
          Forgets,    \* whether the editor forgets a document that it closes
          Nil         \* NULL

TUPLE_LEN == 5

-----------------------------------------------------------------------------
(* The diff.                                                               *)

Replace(na, nb, off) ==
  <<[start_tok |-> off, delete_tok |-> na, insert_b_start |-> off, insert_tok |-> nb]>>

\* The snake: how far x and x - k slide along matching tokens.
Slide(a, b, x, k) ==
  x + Max({n \in 0..Len(a) : /\ x + n <= Len(a) /\ x - k + n <= Len(b)
                             /\ \A j \in 1..n : a[x + j] = b[x - k + j]} \cup {0})

Diagonals(d) == {k \in -d..d : (k + d) % 2 = 0}

\* A round only reads the entries of the round before (k +- 1 has the other
\* parity): the frontier kept for a round is its snapshot.  A step down
\* inserts, a step right deletes.
Down(f, d, k) == k = -d \/ (k # d /\ f[k - 1] < f[k + 1])

Reached(a, b, f) == {k \in DOMAIN f : f[k] >= Len(a) /\ f[k] - k >= Len(b)}

Round(a, b, f, d) ==
  [k \in Diagonals(d) |->
     Slide(a, b, IF d = 0 THEN 0 ELSE IF Down(f, d, k) THEN f[k + 1] ELSE f[k - 1] + 1, k)]

\* Element d + 1 is the frontier of round d; the loop ends when the corner
\* (na, nb) is reached.
Frontiers(a, b) ==
  FoldLeft(LAMBDA fs, d : IF fs # <<>> /\ Reached(a, b, Last(fs)) # {} THEN fs
                          ELSE Append(fs, Round(a, b, IF d = 0 THEN <<>> ELSE Last(fs), d)),
           <<>>, [i \in 1..(Len(a) + Len(b) + 1) |-> i - 1])

\* One level of the backtrace: back along the snake to the edge, then the edit.
\* Steps are 0 match, 1 delete, 2 insert, here in chronological order.
BackStep(acc, f, d) ==
  LET k    == acc.x - acc.y
      down == Down(f[d], d, k)
      kp   == IF down THEN k + 1 ELSE k - 1
      xp   == f[d][kp]
      edge == IF down THEN xp ELSE xp + 1
  IN [x |-> xp, y |-> xp - kp,
      raw |-> <<IF down THEN 2 ELSE 1>> \o [i \in 1..(acc.x - edge) |-> 0] \o acc.raw]

Backtrace(f, d_found, x, y) ==
  LET back == FoldLeft(LAMBDA acc, d : BackStep(acc, f, d), [x |-> x, y |-> y, raw |-> <<>>],
                       [i \in 1..d_found |-> d_found + 1 - i])
  IN [i \in 1..back.x |-> 0] \o back.raw

\* Runs of adjacent edit steps become one EditOp; a match closes the run.
coalesce_edit_ops(raw, off) ==
  LET step(acc, kind) ==
        LET ops == IF acc.open \/ kind = 0 THEN acc.ops
                   ELSE Append(acc.ops, [start_tok |-> off + acc.x, delete_tok |-> 0,
                                         insert_b_start |-> off + acc.y, insert_tok |-> 0])
        IN [x |-> acc.x + IF kind = 2 THEN 0 ELSE 1, y |-> acc.y + IF kind = 1 THEN 0 ELSE 1,
            open |-> kind # 0,
            ops |-> CASE kind = 0 -> ops
                      [] kind = 1 -> [ops EXCEPT ![Len(ops)].delete_tok = @ + 1]
                      [] kind = 2 -> [ops EXCEPT ![Len(ops)].insert_tok = @ + 1]]
  IN FoldLeft(step, [x |-> 0, y |-> 0, open |-> FALSE, ops |-> <<>>], raw).ops

\* The diff proper, for two non-empty sequences within the bound.
Script(a, b) ==
  LET f == Frontiers(a, b)
      d == Len(f) - 1
      k == Min(Reached(a, b, Last(f)))
  IN [d |-> d, raw |-> IF d = 0 THEN <<>> ELSE Backtrace(f, d, Last(f)[k], Last(f)[k] - k)]

myers_diff_run(a, b, off) ==
  IF a = <<>> /\ b = <<>> THEN <<>>
  ELSE IF a = <<>> \/ b = <<>> \/ Len(a) + Len(b) > D_BOUND THEN Replace(Len(a), Len(b), off)
  ELSE coalesce_edit_ops(Script(a, b).raw, off)

-----------------------------------------------------------------------------
(* The response.                                                           *)

Prefix(old, new) ==
  Max({n \in 0..Len(old) : n <= Len(new) /\ \A i \in 1..n : old[i] = new[i]})

\* The suffix may not overlap the prefix.
FaultySuffix(old, new) ==
  Max({n \in 0..Len(old) :
         /\ n <= Len(new)
         /\ \A i \in 0..(n - 1) : old[Len(old) - i] = new[Len(new) - i]})
Suffix(old, new) ==
  Max({n \in 0..(Len(old) - Prefix(old, new)) :
         /\ n <= Len(new) - Prefix(old, new)
         /\ \A i \in 0..(n - 1) : old[Len(old) - i] = new[Len(new) - i]})

Middle(s, old, new) == SubSeq(s, Prefix(old, new) + 1, Len(s) - Suffix(old, new))

Flat(s) == [i \in 1..(Len(s) * TUPLE_LEN) |->
              <<s[(i - 1) \div TUPLE_LEN + 1], (i - 1) % TUPLE_LEN>>]

build_edit_json(op, new) ==
  [start |-> op.start_tok * TUPLE_LEN, deleteCount |-> op.delete_tok * TUPLE_LEN,
   data  |-> Flat(SubSeq(new, op.insert_b_start + 1, op.insert_b_start + op.insert_tok))]

Ops(old, new) ==
  myers_diff_run(Middle(old, old, new), Middle(new, old, new), Prefix(old, new))

build_semantic_tokens_delta_json(old, new) ==
  LET ops == Ops(old, new) IN [i \in DOMAIN ops |-> build_edit_json(ops[i], new)]

\* The client: edits refer to the old array, so they are applied from the last
\* to the first.  An edit that starts past the end of the client's array, which
\* only a delta for another array has, is applied at its end.
ApplyEdits(flat, edits) ==
  FoldRight(LAMBDA e, acc : SubSeq(acc, 1, Min({e.start, Len(acc)})) \o e.data
                              \o SubSeq(acc, e.start + e.deleteCount + 1, Len(acc)),
            edits, flat)

-----------------------------------------------------------------------------
(* The protocol.  A document's slot holds the current and the previous     *)
(* parse; a request pins both and is answered by a pool thread later,      *)
(* also after the document was closed and opened again.  A life of the     *)
(* document goes from doc_alloc to doc_free.                               *)

VARIABLES doc,     \* the document's slot: doc_version, snap, prev_snap; Nil when free
          life,    \* history: the number of the document's present or last life
          client,  \* what the client holds: a resultId and the integers it names
          query,   \* requests in flight, each with the life it was made in (history)
          issued   \* history: every <<life, resultId, tokens>> handed out
vars == <<doc, life, client, query, issued>>

Stamped == [version : 1..MaxVersion, tokens : Buffer]
Held    == [id : 1..MaxVersion, data : Seq(Token \X (0..(TUPLE_LEN - 1)))]

\* The stamps of the two parses precede the slot's counter (doc_install_parse).
TypeOK ==
  /\ doc = Nil \/ doc \in [version : 1..(MaxVersion + 1), snap : Stamped, prev : Stamped \cup {Nil}]
  /\ doc # Nil => /\ doc.snap.version < doc.version
                  /\ doc.prev # Nil => doc.prev.version < doc.snap.version
  /\ life \in 0..MaxLives
  /\ client = Nil \/ client \in Held
  /\ \A q \in Query : query[q] = Nil \/
       /\ query[q].life \in 1..life
       /\ query[q].snap \in Stamped /\ query[q].prev \in Stamped \cup {Nil}
       /\ query[q].base = Nil \/ query[q].base \in Held

Init == /\ doc = Nil /\ life = 0 /\ client = Nil /\ issued = {}
        /\ query = [q \in Query |-> Nil]

\* doc_alloc stamps the fresh slot with version 1, in every life; the first
\* parse takes it.
Open(tokens) ==
  /\ doc = Nil
  /\ doc' = [version |-> 2, snap |-> [version |-> 1, tokens |-> tokens], prev |-> Nil]
  /\ life' = life + 1
  /\ UNCHANGED <<client, query, issued>>

doc_install_parse(tokens) ==
  /\ doc # Nil /\ doc.version <= MaxVersion
  /\ doc' = [version |-> doc.version + 1, prev |-> doc.snap,
             snap |-> [version |-> doc.version, tokens |-> tokens]]
  /\ UNCHANGED <<life, client, query, issued>>

\* doc_free: the closed document has no file to fall back on.  Its slot is
\* zeroed; requests in flight keep the parses that they have pinned.  What the
\* editor does with its own copy of the tokens is up to the editor.
doc_free ==
  /\ doc # Nil /\ life < MaxLives
  /\ doc' = Nil
  /\ client' = IF Forgets THEN Nil ELSE client
  /\ UNCHANGED <<life, query, issued>>

\* build_query_context_locked pins both parses; previousResultId is the
\* client's at the time it sends the request.
Request(q) ==
  /\ query[q] = Nil /\ doc # Nil
  /\ query' = [query EXCEPT ![q] = [life |-> life, snap |-> doc.snap, prev |-> doc.prev,
                                    base |-> client]]
  /\ UNCHANGED <<doc, life, client, issued>>

\* The parse the client holds, Nil when it is neither of the two.
FaultyBase(r) ==
  IF r.base = Nil THEN Nil
  ELSE IF r.base.id = r.snap.version THEN r.snap ELSE r.prev
Base(r) ==
  IF r.base = Nil THEN Nil
  ELSE IF r.base.id = r.snap.version THEN r.snap
  ELSE IF r.prev # Nil /\ r.base.id = r.prev.version THEN r.prev
  ELSE Nil

\* What the client makes of the response: a delta on the array it named in the
\* request, or the full array.
Result(r) ==
  IF Base(r) # Nil
  THEN ApplyEdits(r.base.data, build_semantic_tokens_delta_json(Base(r).tokens, r.snap.tokens))
  ELSE Flat(r.snap.tokens)

\* An editor that forgets takes no answer to a question about an earlier life.
Taken(r) == ~Forgets \/ (doc # Nil /\ r.life = life)

\* The answer goes out whatever has become of the document.
handle_semantic_tokens_full_delta(q) ==
  /\ query[q] # Nil
  /\ LET r == query[q] IN
     /\ client' = IF Taken(r) THEN [id |-> r.snap.version, data |-> Result(r)] ELSE client
     /\ issued' = issued \cup {<<r.life, r.snap.version, Flat(r.snap.tokens)>>}
  /\ query' = [query EXCEPT ![q] = Nil]
  /\ UNCHANGED <<doc, life>>

Next == \/ \E t \in Buffer : Open(t) \/ doc_install_parse(t)
        \/ doc_free
        \/ \E q \in Query : Request(q) \/ handle_semantic_tokens_full_delta(q)
        \/ Query = {} /\ UNCHANGED vars
Spec == Init /\ [][Next]_vars

-----------------------------------------------------------------------------
(* Properties of the diff, on the two parses the document holds.           *)

Pair == doc # Nil /\ doc.prev # Nil
Edits == build_semantic_tokens_delta_json(doc.prev.tokens, doc.snap.tokens)

\* Applying the edits of build_semantic_tokens_delta_json to the previous
\* array yields the new one, whatever the two parses are: empty, equal, within
\* the bound or beyond it.
DeltaCorrect == Pair => ApplyEdits(Flat(doc.prev.tokens), Edits) = Flat(doc.snap.tokens)

\* The edits are in ascending order, disjoint, never empty and never adjacent
\* (coalesce_edit_ops merges a run), as the protocol's consumers expect.
DeltaNormal ==
  Pair => LET e == Edits IN
          /\ \A i \in DOMAIN e : e[i].deleteCount + Len(e[i].data) > 0
          /\ \A i \in 1..(Len(e) - 1) : e[i].start + e[i].deleteCount < e[i + 1].start

\* Length of a longest common subsequence, by the textbook recurrence.
LCS(a, b) ==
  LET len[i \in 0..Len(a), j \in 0..Len(b)] ==
        IF i = 0 \/ j = 0 THEN 0
        ELSE IF a[i] = b[j] THEN len[i - 1, j - 1] + 1
        ELSE Max({len[i - 1, j], len[i, j - 1]})
  IN len[Len(a), Len(b)]

\* myers_diff_run computes a minimal edit script: tokens deleted and inserted
\* add up to the edit distance, unless the bound makes it replace everything.
DeltaMinimal ==
  Pair => LET old == doc.prev.tokens  new == doc.snap.tokens
              cost == FoldLeft(LAMBDA n, e : n + e.deleteCount + Len(e.data), 0, Edits)
          IN Len(Middle(old, old, new)) + Len(Middle(new, old, new)) <= D_BOUND
               => cost = TUPLE_LEN * (Len(old) + Len(new) - 2 * LCS(old, new))

\* The arrays are allocated before the diff runs: raw_kinds for na + nb steps
\* and the EditOps for one per unit of edit distance.
DiffFitsAllocation ==
  Pair => LET a == Middle(doc.prev.tokens, doc.prev.tokens, doc.snap.tokens)
              b == Middle(doc.snap.tokens, doc.prev.tokens, doc.snap.tokens)
          IN a # <<>> /\ b # <<>>
               => LET s == Script(a, b) IN
                  /\ Len(s.raw) <= Len(a) + Len(b)
                  /\ Len(coalesce_edit_ops(s.raw, 0)) <= s.d

-----------------------------------------------------------------------------
(* Properties of the protocol.                                             *)

\* In one life of the document no resultId names two token arrays, also counting
\* those in answers that went out after the close (doc_install_parse).
OneArrayInLife == \A x, y \in issued : x[1] = y[1] /\ x[2] = y[2] => x = y

\* Whatever editor and however late: an answer to a request whose base was handed
\* out in the life in which the request was made gives the tokens of the parse
\* that the request pinned (handle_semantic_tokens_full_delta).
AnswersRight ==
  \A q \in Query : query[q] # Nil =>
    LET r == query[q] IN
    (r.base # Nil => <<r.life, r.base.id, r.base.data>> \in issued)
      => Result(r) = Flat(r.snap.tokens)

\* An editor that forgets what it closes holds, whatever the interleaving of edits,
\* requests, answers, closing and reopening, the tokens that its resultId names
\* in the present life of the document.
ClientHoldsNamedTokens ==
  client # Nil => doc # Nil /\ <<life, client.id, client.data>> \in issued

\* query_context.h: doc_version is a "monotonic parse stamp; also the
\* semantic-tokens resultId", so one resultId never names two token arrays of the
\* document, in whichever life they were handed out.
ResultIdNamesOneArray == \A x, y \in issued : x[2] = y[2] => x[3] = y[3]
=============================================================================
