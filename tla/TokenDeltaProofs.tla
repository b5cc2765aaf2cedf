-------------------------- MODULE TokenDeltaProofs --------------------------
(***************************************************************************)
(* The resultId protocol of semanticTokens/full/delta, for any token       *)
(* buffers, any number of requests in flight, of parses and of times that  *)
(* the document is closed, with requests in flight, and opened again.      *)
(*                                                                         *)
(* The diff itself is a fold over its input and stays with TLC, which      *)
(* checks DeltaCorrect on every pair of buffers of the bounded instance;   *)
(* the theorem about the client's array takes it as the hypothesis         *)
(* DiffInverts.                                                            *)
(***************************************************************************)
EXTENDS TokenDelta, TLAPS

Parse == [version : Nat, tokens : Buffer]
Slot  == [version : Nat, snap : Parse, prev : Parse \cup {Nil}]

\* NULL is not the address of a document's slot.
NullIsNoSlot == Nil \notin Slot

\* The edits computed for two parses turn the array of the first into that of
\* the second: DeltaCorrect, on every pair of buffers.
DiffInverts == \A a, b \in Buffer :
  ApplyEdits(Flat(a), build_semantic_tokens_delta_json(a, b)) = Flat(b)

\* What a parse of life l is known by: that life, its stamp and its array.
Stamp(l, p) == <<l, p.version, Flat(p.tokens)>>

\* The parses that a slot or a request of life l holds on to.
Pinned(l, r) == {Stamp(l, r.snap)} \cup (IF r.prev = Nil THEN {} ELSE {Stamp(l, r.prev)})

\* Every stamp that can still meet another one: handed out, held by the document
\* or pinned by a request, of whichever life.
Known == issued \cup (IF doc = Nil THEN {} ELSE Pinned(life, doc))
                \cup UNION {Pinned(query[q].life, query[q]) : q \in {x \in Query : query[x] # Nil}}

Asked(r) == r = Nil \/ (r.snap \in Parse /\ r.prev \in Parse \cup {Nil})

SessionTypes ==
  /\ doc = Nil \/ doc \in Slot
  /\ life \in Nat
  /\ query = [q \in Query |-> query[q]]
  /\ \A q \in Query : Asked(query[q])

\* No stamp is of a life to come.
LivesBegun == \A x \in Known : x[1] \in Nat /\ x[1] <= life

\* The slot's counter is ahead of every stamp of the present life.
CounterAhead == doc # Nil => \A x \in Known : x[1] = life => x[2] \in Nat /\ x[2] < doc.version

\* In one life a stamp names one array, issued or not.
StampsNameOneArray == \A x, y \in Known : x[1] = y[1] /\ x[2] = y[2] => x = y

StampInv == SessionTypes /\ LivesBegun /\ CounterAhead /\ StampsNameOneArray

\* The array b was handed out under its resultId in life l.
NamedIn(l, b) == b # Nil => <<l, b.id, b.data>> \in issued
NamedInv == /\ ClientHoldsNamedTokens
            /\ \A q \in Query : query[q] # Nil => NamedIn(query[q].life, query[q].base)

-----------------------------------------------------------------------------
(* The stamps.                                                             *)

LEMMA StampInit == Init => StampInv
<1> SUFFICES ASSUME Init PROVE StampInv
  OBVIOUS
<1>1. Known = {}
  BY DEF Init, Known
<1> QED BY <1>1 DEF Init, StampInv, SessionTypes, LivesBegun, CounterAhead, StampsNameOneArray, Asked

\* A step after which no other stamp is known keeps the stamps unambiguous and
\* behind the counter, if the counter stays or the document is closed.
LEMMA FewerStamps ==
  ASSUME StampInv, life' = life, doc' = doc \/ doc' = Nil, Known' \subseteq Known
  PROVE  LivesBegun' /\ CounterAhead' /\ StampsNameOneArray'
BY DEF StampInv, LivesBegun, CounterAhead, StampsNameOneArray

\* So does a step that adds a stamp which nothing has had in its life.
LEMMA FreshStamp ==
  ASSUME StampInv, NEW s, \A x \in Known' : x \in Known \/ x = s,
         s[1] = life', life' \in Nat, life <= life',
         s[2] \in Nat, doc'.version \in Nat, s[2] < doc'.version,
         \A x \in Known : x[1] = life' => x[2] \in Nat /\ x[2] < s[2]
  PROVE  LivesBegun' /\ CounterAhead' /\ StampsNameOneArray'
<1> USE DEF StampInv, SessionTypes
<1>1. LivesBegun'
  <2> SUFFICES ASSUME NEW x \in Known' PROVE x[1] \in Nat /\ x[1] <= life'
    BY DEF LivesBegun
  <2>1. CASE x \in Known
    <3>1. x[1] \in Nat /\ x[1] <= life /\ life \in Nat
      BY <2>1 DEF LivesBegun
    <3> QED BY <3>1
  <2>2. CASE x = s
    BY <2>2
  <2> QED BY <2>1, <2>2
<1>2. CounterAhead'
  <2> SUFFICES ASSUME NEW x \in Known', x[1] = life' PROVE x[2] \in Nat /\ x[2] < doc'.version
    BY DEF CounterAhead
  <2>1. CASE x \in Known
    <3>1. x[2] \in Nat /\ x[2] < s[2]
      BY <2>1
    <3> QED BY <3>1
  <2>2. CASE x = s
    BY <2>2
  <2> QED BY <2>1, <2>2
<1>3. StampsNameOneArray'
  <2> SUFFICES ASSUME NEW x \in Known', NEW y \in Known', x[1] = y[1], x[2] = y[2] PROVE x = y
    BY DEF StampsNameOneArray
  <2>1. \A z \in Known : ~(z[1] = s[1] /\ z[2] = s[2])
    <3> SUFFICES ASSUME NEW z \in Known, z[1] = s[1], z[2] = s[2] PROVE FALSE
      OBVIOUS
    <3>1. z[2] < s[2]
      OBVIOUS
    <3> QED BY <3>1
  <2>2. (x \in Known /\ y \in Known) \/ (x = s /\ y = s)
    BY <2>1
  <2> QED BY <2>2 DEF StampsNameOneArray
<1> QED BY <1>1, <1>2, <1>3

LEMMA StampStep == ASSUME NullIsNoSlot, StampInv, [Next]_vars PROVE StampInv'
<1> USE DEF StampInv
<1>1. ASSUME NEW t \in Buffer, Open(t) PROVE StampInv'
  <2> DEFINE p == [version |-> 1, tokens |-> t]
  <2>1. /\ doc = Nil /\ doc' = [version |-> 2, snap |-> p, prev |-> Nil]
        /\ life' = life + 1 /\ life \in Nat /\ issued' = issued /\ query' = query
    BY <1>1 DEF Open, SessionTypes
  <2>2. doc' \in Slot
    BY <2>1 DEF Slot, Parse
  <2>3. doc' # Nil
    BY <2>2 DEF NullIsNoSlot
  <2>4. \A x \in Known' : x \in Known \/ x = Stamp(life', p)
    BY <2>1, <2>3 DEF Known, Pinned, Stamp
  <2>5. Stamp(life', p)[1] = life' /\ Stamp(life', p)[2] = 1
    BY DEF Stamp
  <2>6. \A x \in Known : x[1] # life'
    <3> SUFFICES ASSUME NEW x \in Known PROVE x[1] # life + 1
      BY <2>1
    <3>1. x[1] \in Nat /\ x[1] <= life
      BY DEF LivesBegun
    <3> QED BY <2>1, <3>1
  <2>7. doc'.version = 2 /\ life' \in Nat /\ life <= life'
    BY <2>1
  <2>8. LivesBegun' /\ CounterAhead' /\ StampsNameOneArray'
    BY <2>4, <2>5, <2>6, <2>7, FreshStamp
  <2> QED BY <2>1, <2>2, <2>7, <2>8 DEF SessionTypes
<1>2. ASSUME NEW t \in Buffer, doc_install_parse(t) PROVE StampInv'
  <2> DEFINE p == [version |-> doc.version, tokens |-> t]
  <2>1. doc # Nil /\ doc \in Slot /\ doc.version \in Nat /\ doc.snap \in Parse /\ life \in Nat
    BY <1>2 DEF doc_install_parse, SessionTypes, Slot
  <2>2. doc' = [version |-> doc.version + 1, prev |-> doc.snap, snap |-> p] /\ life' = life
    BY <1>2 DEF doc_install_parse
  <2>3. p \in Parse
    BY <2>1 DEF Parse
  <2>4. doc' \in Slot
    BY <2>1, <2>2, <2>3 DEF Slot
  <2>5. issued' = issued /\ query' = query
    BY <1>2 DEF doc_install_parse
  <2>6. \A x \in Known' : x \in Known \/ x = Stamp(life', p)
    BY <2>1, <2>2, <2>5 DEF Known, Pinned, Stamp
  <2>7. Stamp(life', p)[1] = life' /\ Stamp(life', p)[2] = doc.version
    BY DEF Stamp
  <2>8. \A x \in Known : x[1] = life' => x[2] \in Nat /\ x[2] < doc.version
    BY <2>1, <2>2 DEF CounterAhead
  <2>9. doc'.version = doc.version + 1 /\ doc'.version \in Nat /\ doc.version < doc'.version
    BY <2>1, <2>2
  <2>10. LivesBegun' /\ CounterAhead' /\ StampsNameOneArray'
    BY <2>1, <2>2, <2>6, <2>7, <2>8, <2>9, FreshStamp
  <2> QED BY <2>1, <2>2, <2>4, <2>5, <2>10 DEF SessionTypes
<1>3. ASSUME doc_free PROVE StampInv'
  <2>1. doc # Nil /\ doc' = Nil /\ life' = life /\ issued' = issued /\ query' = query
    BY <1>3 DEF doc_free
  <2>2. Known' \subseteq Known
    BY <2>1 DEF Known
  <2> QED BY <2>1, <2>2, FewerStamps DEF SessionTypes
<1>4. ASSUME NEW q \in Query, Request(q) PROVE StampInv'
  <2> DEFINE r == [life |-> life, snap |-> doc.snap, prev |-> doc.prev, base |-> client]
  <2>1. doc # Nil /\ doc \in Slot /\ doc' = doc /\ life' = life /\ issued' = issued
    BY <1>4 DEF Request, SessionTypes
  <2>2. query' = [query EXCEPT ![q] = r]
    BY <1>4 DEF Request
  <2>3. query'[q] = r /\ \A s \in Query \ {q} : query'[s] = query[s]
    BY <2>2 DEF SessionTypes
  <2>4. Asked(r) /\ r.life = life /\ Pinned(life, r) = Pinned(life, doc)
    BY <2>1 DEF Asked, Slot, Pinned, Stamp
  <2>5. SessionTypes'
    BY <2>1, <2>2, <2>3, <2>4 DEF SessionTypes
  <2>6. Known' \subseteq Known
    <3> SUFFICES ASSUME NEW x \in Known' PROVE x \in Known
      OBVIOUS
    <3>1. CASE x \in issued' \cup Pinned(life, doc)
      BY <2>1, <3>1 DEF Known
    <3>2. CASE \E s \in Query : query'[s] # Nil /\ x \in Pinned(query'[s].life, query'[s])
      BY <2>1, <2>3, <2>4, <3>2 DEF Known
    <3> QED BY <2>1, <3>1, <3>2 DEF Known
  <2> QED BY <2>1, <2>5, <2>6, FewerStamps
<1>5. ASSUME NEW q \in Query, handle_semantic_tokens_full_delta(q) PROVE StampInv'
  <2>1. /\ query[q] # Nil /\ doc' = doc /\ life' = life /\ query' = [query EXCEPT ![q] = Nil]
        /\ issued' = issued \cup {Stamp(query[q].life, query[q].snap)}
    BY <1>5 DEF handle_semantic_tokens_full_delta, Stamp
  <2>2. query'[q] = Nil /\ \A s \in Query \ {q} : query'[s] = query[s]
    BY <2>1 DEF SessionTypes
  <2>3. SessionTypes'
    BY <2>1, <2>2 DEF SessionTypes, Asked
  <2>4. Known' \subseteq Known
    BY <2>1, <2>2 DEF Known, Pinned
  <2> QED BY <2>1, <2>3, <2>4, FewerStamps
<1>6. ASSUME UNCHANGED vars PROVE StampInv'
  BY <1>6 DEF vars, SessionTypes, LivesBegun, CounterAhead, StampsNameOneArray, Known
<1> QED BY <1>1, <1>2, <1>3, <1>4, <1>5, <1>6 DEF Next

\* Every stamp in play belongs to the present life of the document or to an earlier
\* one, doc_version is ahead of those of the present life, and within a life a stamp
\* names one parse, although requests outlive the document that they have pinned and
\* doc_alloc starts again at 1.
THEOREM StampInvariance == ASSUME NullIsNoSlot PROVE Spec => []StampInv
BY StampInit, StampStep, PTL DEF Spec

\* In one life of a document no resultId names two token arrays, for any number of
\* parses, of requests in flight, some of them answered after the close, and of
\* lives (doc_install_parse, doc_free).
THEOREM OneArrayInLifeAlways == ASSUME NullIsNoSlot PROVE Spec => []OneArrayInLife
<1>1. StampInv => OneArrayInLife
  BY DEF StampInv, StampsNameOneArray, Known, OneArrayInLife
<1> QED BY <1>1, StampInvariance, PTL

-----------------------------------------------------------------------------
(* The answers.                                                            *)

\* If the base of a request was handed out in the request's life, the parse that
\* it is diffed against is one that it pins, and the client's array is that parse's.
LEMMA BaseIsHeld ==
  ASSUME StampInv, NEW q \in Query, query[q] # Nil, Base(query[q]) # Nil,
         NamedIn(query[q].life, query[q].base)
  PROVE  /\ Base(query[q]).tokens \in Buffer
         /\ query[q].base.data = Flat(Base(query[q]).tokens)
<1> DEFINE r == query[q]
           p == Base(r)
           s == <<r.life, r.base.id, r.base.data>>
<1>1. r.base # Nil /\ r.base.id = p.version /\ p \in Parse /\ Stamp(r.life, p) \in Pinned(r.life, r)
  BY DEF Base, StampInv, SessionTypes, Asked, Pinned
<1>2. s \in issued
  BY <1>1 DEF NamedIn
<1>3. s \in Known /\ Stamp(r.life, p) \in Known
  BY <1>1, <1>2 DEF Known
<1>4. s = Stamp(r.life, p)
  BY <1>1, <1>3 DEF StampInv, StampsNameOneArray, Stamp
<1> QED BY <1>1, <1>4 DEF Stamp, Parse

LEMMA ResultIsSnap ==
  ASSUME DiffInverts, StampInv, NEW q \in Query, query[q] # Nil,
         NamedIn(query[q].life, query[q].base)
  PROVE  Result(query[q]) = Flat(query[q].snap.tokens)
<1>1. query[q].snap.tokens \in Buffer
  BY DEF StampInv, SessionTypes, Asked, Parse
<1>2. CASE Base(query[q]) = Nil
  BY <1>2 DEF Result
<1>3. CASE Base(query[q]) # Nil
  BY <1>1, <1>3, BaseIsHeld DEF Result, DiffInverts
<1> QED BY <1>2, <1>3

\* Given a diff that is right on every pair of buffers, an answer to a request whose
\* base was handed out in the life in which the request was made gives the tokens of
\* the parse that it pinned, whenever it is sent and whatever the editor does with
\* the tokens of closed documents (handle_semantic_tokens_full_delta).
THEOREM AnswersRightAlways ==
  ASSUME NullIsNoSlot, DiffInverts PROVE Spec => []AnswersRight
<1>1. StampInv => AnswersRight
  BY ResultIsSnap DEF AnswersRight, NamedIn
<1> QED BY <1>1, StampInvariance, PTL

-----------------------------------------------------------------------------
(* The client's array, for an editor that forgets.                         *)

LEMMA NamedStep ==
  ASSUME Forgets, NullIsNoSlot, DiffInverts, StampInv, NamedInv, [Next]_vars PROVE NamedInv'
<1> USE DEF NamedInv, ClientHoldsNamedTokens, NamedIn
<1>1. ASSUME NEW t \in Buffer, Open(t) PROVE NamedInv'
  BY <1>1 DEF Open
<1>2. ASSUME NEW t \in Buffer, doc_install_parse(t) PROVE NamedInv'
  <2>1. doc # Nil /\ doc \in Slot
    BY <1>2 DEF doc_install_parse, StampInv, SessionTypes
  <2>2. doc' = [version |-> doc.version + 1, prev |-> doc.snap,
                snap |-> [version |-> doc.version, tokens |-> t]]
    BY <1>2 DEF doc_install_parse
  <2>3. doc' \in Slot
    BY <2>1, <2>2 DEF Slot, Parse
  <2>4. doc' # Nil
    BY <2>3 DEF NullIsNoSlot
  <2> QED BY <1>2, <2>4 DEF doc_install_parse
<1>3. ASSUME doc_free PROVE NamedInv'
  BY <1>3 DEF doc_free
<1>4. ASSUME NEW q \in Query, Request(q) PROVE NamedInv'
  <2> DEFINE r == [life |-> life, snap |-> doc.snap, prev |-> doc.prev, base |-> client]
  <2>1. client' = client /\ doc' = doc /\ life' = life /\ issued' = issued
        /\ query' = [query EXCEPT ![q] = r]
    BY <1>4 DEF Request
  <2>2. query'[q].base = client /\ query'[q].life = life
        /\ \A s \in Query \ {q} : query'[s] = query[s]
    BY <2>1 DEF StampInv, SessionTypes
  <2> QED BY <2>1, <2>2
<1>5. ASSUME NEW q \in Query, handle_semantic_tokens_full_delta(q) PROVE NamedInv'
  <2> DEFINE r == query[q]
  <2>1. /\ r # Nil /\ query' = [query EXCEPT ![q] = Nil] /\ doc' = doc /\ life' = life
        /\ client' = IF Taken(r) THEN [id |-> r.snap.version, data |-> Result(r)] ELSE client
        /\ issued' = issued \cup {<<r.life, r.snap.version, Flat(r.snap.tokens)>>}
    BY <1>5 DEF handle_semantic_tokens_full_delta
  <2>2. Result(r) = Flat(r.snap.tokens)
    BY <2>1, ResultIsSnap
  <2>3. query'[q] = Nil /\ \A s \in Query \ {q} : query'[s] = query[s]
    BY <2>1 DEF StampInv, SessionTypes
  <2>4. ClientHoldsNamedTokens'
    <3>1. CASE Taken(r)
      <4>1. doc # Nil /\ r.life = life
        BY <3>1 DEF Taken
      <4> QED BY <2>1, <2>2, <3>1, <4>1
    <3>2. CASE ~Taken(r)
      BY <2>1, <3>2
    <3> QED BY <3>1, <3>2
  <2> QED BY <2>1, <2>3, <2>4
<1>6. ASSUME UNCHANGED vars PROVE NamedInv'
  BY <1>6 DEF vars
<1> QED BY <1>1, <1>2, <1>3, <1>4, <1>5, <1>6 DEF Next

\* Given such a diff, an editor that forgets the tokens of a document it closes, and
\* takes no answer to a question about an earlier life, always holds the tokens that
\* its resultId names in the present life, whatever the interleaving of edits,
\* requests, late answers, closing and reopening.
THEOREM ClientHoldsNamedTokensAlways ==
  ASSUME NullIsNoSlot, DiffInverts, Forgets PROVE Spec => []ClientHoldsNamedTokens
<1>1. Init => NamedInv
  BY DEF Init, NamedInv, NamedIn, ClientHoldsNamedTokens
<1>2. StampInv /\ NamedInv /\ [Next]_vars => NamedInv'
  BY NamedStep
<1>3. NamedInv => ClientHoldsNamedTokens
  BY DEF NamedInv
<1> QED BY <1>1, <1>2, <1>3, StampInvariance, PTL DEF Spec

=============================================================================
