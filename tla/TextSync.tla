------------------------------ MODULE TextSync ------------------------------
(* Incremental text synchronisation (lifecycle.c).                         *)
(*                                                                         *)
(* The editor holds a text of characters and sends each edit as a range of *)
(* LSP positions (line, UTF-16 code unit) with the new text; the server    *)
(* holds the UTF-8 bytes and finds the range by scanning them.  The edits  *)
(* of one notification build on each other; an edit that names no text     *)
(* makes the whole notification unusable.                                  *)
EXTENDS Integers, Sequences, FiniteSets, SequencesExt, FiniteSetsExt

CONSTANTS
  Chars,     \* characters of the texts, a subset of DOMAIN Utf8
  MaxText    \* bound: characters of the editor's text

VARIABLES
  client,   \* the editor's text, a sequence of characters
  server    \* the text of the server's document, a sequence of bytes

vars == <<client, server>>

(***************************************************************************)
(* Encodings                                                               *)
(***************************************************************************)
\* The bytes of each character: an ASCII letter, a two-byte letter, and the two
\* line ends editors use.
Utf8 == [a |-> <<"a">>, e |-> <<"c3", "a9">>, LF |-> <<"LF">>, CRLF |-> <<"CR", "LF">>]

Encode(text) == FlattenSeq([k \in DOMAIN text |-> Utf8[text[k]]])

EndsLine(c) == c \in {"LF", "CRLF"}

\* The LSP position of the k-th gap of a text.  Each character here is one UTF-16
\* code unit.
PositionOf(text, k) ==
  LET ends  == {l \in 1 .. k : EndsLine(text[l])}
  IN [line |-> Cardinality(ends), character |-> k - Max(ends \cup {0})]

(***************************************************************************)
(* The server: apply_incremental_change and apply_content_changes          *)
(***************************************************************************)
\* Scan src from byte `from', which is taken to be at position pos, to the
\* target position: the number of bytes passed, all of them if it never comes.
Scan(src, from, pos, target) ==
  LET at(k) == LET ends == {l \in from + 1 .. k : src[l] = "LF"}
               IN [line |-> pos.line + Cardinality(ends),
                   character |-> IF ends = {} THEN pos.character + (k - from) ELSE k - Max(ends)]
      hits  == {k \in from .. Len(src) : at(k) = target}
  IN IF hits = {} THEN Len(src) ELSE Min(hits)

Origin == [line |-> 0, character |-> 0]

\* In error the scan for the end of the range forgets the column it starts in.
FaultyIncrementalChange(src, start, stop, new) ==
  LET from == Scan(src, 0, Origin, start)
      to   == Scan(src, from, [start EXCEPT !.character = 0], stop)
  IN SubSeq(src, 1, from) \o new \o SubSeq(src, to + 1, Len(src))
apply_incremental_change(src, start, stop, new) ==
  LET from == Scan(src, 0, Origin, start)
      to   == Scan(src, from, start, stop)
  IN SubSeq(src, 1, from) \o new \o SubSeq(src, to + 1, Len(src))

\* The changes in arrival order, each on the result of the one before; the
\* document keeps its text when one of them is unusable.
ApplyChange(src, c) ==
  IF c.kind = "full" THEN c.new ELSE apply_incremental_change(src, c.start, c.stop, c.new)
apply_content_changes(src, changes) ==
  IF \E k \in DOMAIN changes : changes[k].kind = "unusable" THEN src
  ELSE FoldLeft(ApplyChange, src, changes)

(***************************************************************************)
(* The editor                                                              *)
(***************************************************************************)
\* Replace the characters between two gaps by none or one.
Edits(text) ==
  {e \in [from : 0 .. Len(text), to : 0 .. Len(text), new : {<<>>} \cup {<<c>> : c \in Chars}] :
     e.from <= e.to}

Edited(text, e) == SubSeq(text, 1, e.from) \o e.new \o SubSeq(text, e.to + 1, Len(text))

\* The change the editor sends for an edit of its text.
Sent(text, e) ==
  [kind |-> "range", start |-> PositionOf(text, e.from), stop |-> PositionOf(text, e.to),
   new |-> Encode(e.new)]
Unusable == [kind |-> "unusable"]

Init == client = <<>> /\ server = <<>>

\* A notification with one edit.
DidChange == \E e \in Edits(client) :
  /\ Len(Edited(client, e)) <= MaxText
  /\ client' = Edited(client, e)
  /\ server' = apply_content_changes(server, <<Sent(client, e)>>)

\* One with two edits, the second on the result of the first.
DidChangeTwice == \E e \in Edits(client) :
  LET mid == Edited(client, e)
  IN \E f \in Edits(mid) :
       /\ Len(mid) <= MaxText /\ Len(Edited(mid, f)) <= MaxText
       /\ client' = Edited(mid, f)
       /\ server' = apply_content_changes(server, <<Sent(client, e), Sent(mid, f)>>)

\* The whole text, as after a reload in the editor, and an edit of it.
DidReplace == \E c \in Chars : \E e \in Edits(<<c>>) :
  /\ Len(Edited(<<c>>, e)) <= MaxText
  /\ client' = Edited(<<c>>, e)
  /\ server' = apply_content_changes(server, <<[kind |-> "full", new |-> Encode(<<c>>)], Sent(<<c>>, e)>>)

\* A notification whose last change names no text: the editor has not changed.
DidChangeUnusable == \E e \in Edits(client) :
  /\ client' = client
  /\ server' = apply_content_changes(server, <<Sent(client, e), Unusable>>)

Next == DidChange \/ DidChangeTwice \/ DidReplace \/ DidChangeUnusable

Spec == Init /\ [][Next]_vars

(***************************************************************************)
(* Properties                                                              *)
(***************************************************************************)
\* After every notification the server's document is the editor's text: ranges
\* that end a line, cross lines or touch the end of the text are found where the
\* editor means them, and an unusable notification changes nothing
\* (apply_incremental_change, apply_content_changes).
TextAgrees == server = Encode(client)
=============================================================================
