-------------------------- MODULE SnapshotsProofs --------------------------
(***************************************************************************)
(* For any number of documents, queries, diagnostics workers and addresses *)
(* the reference counts are exact, each object is freed once, a token-span *)
(* buffer has one owner, token data that a query reads is not freed under  *)
(* it, and what a query has pinned does not change.                        *)
(*                                                                         *)
(* The counts come first, because all the rest is: who holds a reference   *)
(* sees a positive count, so the object is in nobody's destructor.         *)
(***************************************************************************)
EXTENDS Snapshots, FiniteSetTheorems, SequenceTheorems, TLAPS

Obj == Snap \cup Ws
Op == {"drop", "spans", "free"}

\* Releases that are still to run are finitely many.
SlotsFinite == \A op \in Op, x \in Obj : IsFiniteSet(Slots(op, x))

\* A thread that runs a query or a tj3 has no release under way, and the
\* references of a context or worker are those that its state allows.
ThreadsOrderly ==
  /\ \A q \in Query : /\ ctx[q].pc = "none" => ctx[q] = NoCtx
                      /\ ctx[q].pc # "none" => todo[q] = <<>>
                      /\ ctx[q].pc = "cas" => ctx[q].at # Nil
  /\ \A v \in Diag : /\ diag[v].pc = "run" => todo[v] = <<>>
                     /\ diag[v].pc \in {"off", "exit"} => diag[v].pending = Nil
                     /\ diag[v].pc # "run" => diag[v].running = Nil

\* A workspace snapshot that is not allocated has no documents.
FreeWsEmpty == \A w \in Ws, d \in Doc : ws[w].refs = Nil => ws[w].docs[d] = Nil

RefInv == ReferencesCounted /\ SlotsFinite /\ ThreadsOrderly /\ FreeWsEmpty

\* A stack whose first n instructions are not those of a doc_snapshot's
\* destructor: that destructor runs through before its thread does anything else.
PlainTo(q, n) == \A i \in 1 .. n : q[i].op = "drop" \/ (q[i].op = "free" /\ q[i].obj \in Ws)

\* The destructor gives the token buffer away just before the rest of it runs.
SnapInstr(op, s) == [op |-> op, obj |-> s]
Tidy(q, sn) ==
  \/ PlainTo(q, Len(q))
  \/ \E s \in Snap : /\ Len(q) >= 1 /\ q[Len(q)] = SnapInstr("free", s)
                     /\ PlainTo(q, Len(q) - 1) /\ sn[s].buf = Nil
  \/ \E s \in Snap : /\ Len(q) >= 2 /\ q[Len(q)] = SnapInstr("spans", s)
                     /\ q[Len(q) - 1] = SnapInstr("free", s)
                     /\ PlainTo(q, Len(q) - 2) /\ sn[s].buf # Nil

\* A doc_snapshot has a token buffer while anybody holds it.
BufferKept ==
  /\ \A s \in Snap : /\ snap[s].refs = Nil => snap[s].buf = Nil
                     /\ snap[s].refs \notin {Nil, 0} => snap[s].buf # Nil
  /\ \A t \in Thread : Tidy(todo[t], snap)

BufInv == RefInv /\ BufferKept /\ BufferOwnedOnce

\* A memo names its snapshot; a query reads memos of snapshots it has pinned,
\* and the one it is computing is not yet anybody's.
MemoKept ==
  /\ \A s \in Snap : snap[s].memo # Nil => snap[s].memo[2] = s
  /\ \A s \in Snap : snap[s].refs = Nil => snap[s].memo = Nil
  /\ \A q \in Query :
       /\ \A m \in ctx[q].memo : m[2] \in TokenSources(q) /\ snap[m[2]].memo = m
       /\ ctx[q].pc = "cas" => /\ ctx[q].at \in TokenSources(q)
                               /\ snap[ctx[q].at].memo # <<q, ctx[q].at>>

MemoInv == RefInv /\ MemoKept /\ MemoSafe


-----------------------------------------------------------------------------
(* Counting.                                                               *)

In(e, S) == IF e \in S THEN 1 ELSE 0
Eq(a, b) == IF a = b THEN 1 ELSE 0

\* Two finite sets that agree but on e differ in size by what e contributes.
LEMMA SetUpdate ==
  ASSUME NEW A, NEW B, NEW e, IsFiniteSet(A), A \ {e} = B \ {e}
  PROVE  /\ IsFiniteSet(B) /\ Cardinality(A) \in Nat /\ Cardinality(B) \in Nat
         /\ Cardinality(B) + In(e, A) = Cardinality(A) + In(e, B)
<1> DEFINE C == A \ {e}
<1>1. IsFiniteSet(C) /\ Cardinality(C) \in Nat /\ Cardinality(A) \in Nat
  BY FS_RemoveElement, FS_CardinalityType
<1>2. Cardinality(A) = Cardinality(C) + In(e, A)
  BY <1>1, FS_RemoveElement DEF In
<1>3. e \notin C /\ (B = C \/ B = C \cup {e})
  OBVIOUS
<1>4. CASE e \in B
  <2>1. B = C \cup {e}
    BY <1>3, <1>4
  <2>2. IsFiniteSet(B) /\ Cardinality(B) = Cardinality(C) + 1
    BY <1>1, <1>3, <2>1, FS_AddElement
  <2> QED BY <1>1, <1>2, <1>4, <2>2 DEF In
<1>5. CASE e \notin B
  BY <1>1, <1>2, <1>3, <1>5 DEF In
<1> QED BY <1>4, <1>5

\* A member of a finite set makes its size positive.
LEMMA MemberCounts ==
  ASSUME NEW A, NEW e \in A, IsFiniteSet(A)
  PROVE  Cardinality(A) \in Nat /\ Cardinality(A) >= 1
BY FS_EmptySet, FS_CardinalityType

\* The places where an instruction waits, for any assignment f of stacks.
Stacks == [Thread -> Seq(Instr)]
SlotsOf(f, op, x) ==
  UNION {{t} \X {i \in DOMAIN f[t] : f[t][i] = [op |-> op, obj |-> x]} : t \in Thread}
AllFinite(f) == \A op \in Op, x \in Obj : IsFiniteSet(SlotsOf(f, op, x))
Count(f, op, x) == Cardinality(SlotsOf(f, op, x))
Push(f, t, i) == [f EXCEPT ![t] = Append(f[t], i)]
Pop(f, t) == [f EXCEPT ![t] = SubSeq(f[t], 1, Len(f[t]) - 1)]

LEMMA SlotMember ==
  ASSUME NEW f \in Stacks, NEW op, NEW x, NEW t \in Thread, NEW i
  PROVE  <<t, i>> \in SlotsOf(f, op, x)
           <=> i \in 1 .. Len(f[t]) /\ f[t][i] = [op |-> op, obj |-> x]
BY DEF SlotsOf, Stacks

LEMMA PushedSlots ==
  ASSUME NEW f \in Stacks, NEW t \in Thread, NEW i \in Instr, NEW op, NEW x
  PROVE  LET e == <<t, Len(f[t]) + 1>> IN
         /\ Push(f, t, i) \in Stacks
         /\ SlotsOf(Push(f, t, i), op, x) \ {e} = SlotsOf(f, op, x) \ {e}
         /\ e \notin SlotsOf(f, op, x)
         /\ e \in SlotsOf(Push(f, t, i), op, x) <=> i = [op |-> op, obj |-> x]
<1> DEFINE g == Push(f, t, i)  e == <<t, Len(f[t]) + 1>>
<1>1. /\ g \in Stacks /\ Len(g[t]) = Len(f[t]) + 1 /\ Len(f[t]) \in Nat
      /\ g[t][Len(f[t]) + 1] = i
      /\ \A j \in 1 .. Len(f[t]) : g[t][j] = f[t][j]
      /\ \A u \in Thread : u # t => g[u] = f[u]
  BY DEF Push, Stacks
<1> HIDE DEF g
<1>g. g \in Stacks
  BY <1>1
<1>2. \A u \in Thread : \A j : <<u, j>> # e =>
        (<<u, j>> \in SlotsOf(g, op, x) <=> <<u, j>> \in SlotsOf(f, op, x))
  <2> SUFFICES ASSUME NEW u \in Thread, NEW j, <<u, j>> # e
               PROVE  <<u, j>> \in SlotsOf(g, op, x) <=> <<u, j>> \in SlotsOf(f, op, x)
    OBVIOUS
  <2>0. <<u, j>> \in SlotsOf(f, op, x)
           <=> j \in 1 .. Len(f[u]) /\ f[u][j] = [op |-> op, obj |-> x]
    BY DEF SlotsOf, Stacks
  <2>1. <<u, j>> \in SlotsOf(g, op, x)
           <=> j \in 1 .. Len(g[u]) /\ g[u][j] = [op |-> op, obj |-> x]
    BY <1>g DEF SlotsOf, Stacks
  <2>2. CASE u = t
    <3>1. j # Len(f[t]) + 1
      BY <2>2
    <3>2. j \in 1 .. Len(g[u]) <=> j \in 1 .. Len(f[u])
      BY <1>1, <2>2, <3>1
    <3> QED BY <1>1, <2>0, <2>1, <2>2, <3>2, Zenon
  <2>3. CASE u # t
    BY <1>1, <2>0, <2>1, <2>3
  <2> QED BY <2>2, <2>3
<1>3. \A h, p : p \in SlotsOf(h, op, x) => \E u \in Thread : \E j : p = <<u, j>>
  BY DEF SlotsOf
<1>4. SlotsOf(g, op, x) \ {e} = SlotsOf(f, op, x) \ {e}
  BY <1>2, <1>3
<1>5. e \notin SlotsOf(f, op, x)
  <2>1. e \in SlotsOf(f, op, x) => Len(f[t]) + 1 \in 1 .. Len(f[t])
    BY SlotMember, Zenon
  <2> QED BY <1>1, <2>1
<1>6. e \in SlotsOf(g, op, x) <=> i = [op |-> op, obj |-> x]
  <2>1. Len(f[t]) + 1 \in 1 .. Len(g[t])
    BY <1>1
  <2>2. e \in SlotsOf(g, op, x) <=>
          Len(f[t]) + 1 \in 1 .. Len(g[t]) /\ g[t][Len(f[t]) + 1] = [op |-> op, obj |-> x]
    BY <1>g DEF SlotsOf, Stacks
  <2> QED BY <1>1, <2>1, <2>2, Zenon
<1> QED BY <1>1, <1>4, <1>5, <1>6 DEF g

\* Pushing an instruction adds one to its own count and to no other.
LEMMA PushCounts ==
  ASSUME NEW f \in Stacks, NEW t \in Thread, NEW i \in Instr, AllFinite(f)
  PROVE  /\ Push(f, t, i) \in Stacks /\ AllFinite(Push(f, t, i))
         /\ \A op \in Op, x \in Obj :
              /\ Count(f, op, x) \in Nat
              /\ Count(Push(f, t, i), op, x) = Count(f, op, x) + Eq(i, [op |-> op, obj |-> x])
<1> DEFINE g == Push(f, t, i)  e == <<t, Len(f[t]) + 1>>
<1>1. g \in Stacks
  BY PushedSlots
<1>2. ASSUME NEW op \in Op, NEW x \in Obj
      PROVE  /\ IsFiniteSet(SlotsOf(g, op, x)) /\ Count(f, op, x) \in Nat
             /\ Count(g, op, x) = Count(f, op, x) + Eq(i, [op |-> op, obj |-> x])
  <2> DEFINE A == SlotsOf(f, op, x)  B == SlotsOf(g, op, x)
  <2>1. IsFiniteSet(A) /\ A \ {e} = B \ {e} /\ e \notin A
        /\ (e \in B <=> i = [op |-> op, obj |-> x])
    BY PushedSlots DEF AllFinite
  <2> HIDE DEF A, B, e, g
  <2>2. /\ IsFiniteSet(B) /\ Cardinality(A) \in Nat /\ Cardinality(B) \in Nat
        /\ Cardinality(B) + In(e, A) = Cardinality(A) + In(e, B)
    BY <2>1, SetUpdate
  <2>3. In(e, A) = 0 /\ In(e, B) = Eq(i, [op |-> op, obj |-> x])
    BY <2>1 DEF In, Eq
  <2>4. Cardinality(B) = Cardinality(A) + Eq(i, [op |-> op, obj |-> x])
    BY <2>2, <2>3 DEF Eq
  <2> QED BY <2>2, <2>4 DEF A, B, Count
<1> QED BY <1>1, <1>2 DEF AllFinite

\* Popping one takes it away again.
LEMMA PopCounts ==
  ASSUME NEW f \in Stacks, NEW t \in Thread, f[t] # <<>>, AllFinite(f)
  PROVE  /\ f[t][Len(f[t])] \in Instr
         /\ Pop(f, t) \in Stacks /\ AllFinite(Pop(f, t))
         /\ \A op \in Op, x \in Obj :
              /\ Count(Pop(f, t), op, x) \in Nat
              /\ Count(f, op, x) =
                   Count(Pop(f, t), op, x) + Eq(f[t][Len(f[t])], [op |-> op, obj |-> x])
<1> DEFINE g == Pop(f, t)  i == f[t][Len(f[t])]
<1>0. Len(f[t]) \in Nat \ {0} /\ f[t] \in Seq(Instr)
  BY DEF Stacks
<1>1. i \in Instr
  BY <1>0
<1>2. g \in Stacks /\ g[t] = SubSeq(f[t], 1, Len(f[t]) - 1)
  BY <1>0 DEF Pop, Stacks
<1>3. Append(g[t], i) = f[t]
  <2>1. Append(SubSeq(f[t], 1, Len(f[t]) - 1), f[t][Len(f[t])]) = f[t]
    BY <1>0
  <2> QED BY <1>2, <2>1
<1>4. Push(g, t, i) = f
  BY <1>2, <1>3 DEF Push, Pop, Stacks
<1> HIDE DEF g, i
<1>g. g \in Stacks
  BY <1>2
<1>5. ASSUME NEW op \in Op, NEW x \in Obj
      PROVE  IsFiniteSet(SlotsOf(g, op, x))
  <2> DEFINE e == <<t, Len(g[t]) + 1>>
  <2>0. /\ SlotsOf(Push(g, t, i), op, x) \ {e} = SlotsOf(g, op, x) \ {e}
        /\ e \notin SlotsOf(g, op, x)
    BY ONLY <1>1, <1>g, t \in Thread, PushedSlots
  <2>1. SlotsOf(g, op, x) \ {<<t, Len(g[t]) + 1>>} = SlotsOf(f, op, x) \ {<<t, Len(g[t]) + 1>>}
    BY <1>4, <2>0
  <2>2. <<t, Len(g[t]) + 1>> \notin SlotsOf(g, op, x)
    BY <2>0
  <2>3. SlotsOf(g, op, x) \subseteq SlotsOf(f, op, x)
    BY <2>1, <2>2
  <2> QED BY <2>3, FS_Subset DEF AllFinite
<1>6. AllFinite(g)
  BY <1>5 DEF AllFinite
<1> QED BY <1>1, <1>2, <1>4, <1>6, PushCounts DEF g, i


\* A deferred release adds a drop of its object, and NULL adds nothing.
LEMMA DropCounts ==
  ASSUME NEW f \in Stacks, NEW t \in Thread, NEW a \in Obj \cup {Nil}, AllFinite(f)
  PROVE  LET g == [f EXCEPT ![t] = f[t] \o Drop(a)] IN
         /\ g \in Stacks /\ AllFinite(g)
         /\ \A op \in Op, x \in Obj :
              /\ Count(f, op, x) \in Nat
              /\ Count(g, op, x) = Count(f, op, x) + IF op = "drop" THEN Eq(a, x) ELSE 0
<1> DEFINE g == [f EXCEPT ![t] = f[t] \o Drop(a)]
<1>n. Nil \notin Obj
  BY SnapshotsAssumption DEF Obj
<1>0. f[t] \in Seq(Instr)
  BY DEF Stacks
<1>1. CASE a = Nil
  <2>1. f[t] \o <<>> = f[t]
    BY <1>0
  <2>2. g = f
    BY <1>1, <2>1 DEF Stacks, Drop
  <2>3. \A op \in Op, x \in Obj : Count(f, op, x) \in Nat
    BY FS_CardinalityType DEF AllFinite, Count
  <2>4. \A op \in Op, x \in Obj : (IF op = "drop" THEN Eq(a, x) ELSE 0) = 0
    BY <1>1, <1>n DEF Eq
  <2> HIDE DEF g
  <2>5. \A op \in Op, x \in Obj :
           Count(g, op, x) = Count(f, op, x) + IF op = "drop" THEN Eq(a, x) ELSE 0
    BY <2>2, <2>3, <2>4
  <2> QED BY <2>2, <2>3, <2>5 DEF g
<1>2. CASE a # Nil
  <2> DEFINE i == [op |-> "drop", obj |-> a]
  <2>1. i \in Instr
    BY <1>2 DEF Instr, Obj
  <2>2. f[t] \o Drop(a) = Append(f[t], i)
    BY <1>0, <1>2, <2>1 DEF Drop
  <2>3. g = Push(f, t, i)
    BY <2>2 DEF Push
  <2>4. \A op \in Op, x \in Obj :
           Eq(i, [op |-> op, obj |-> x]) = IF op = "drop" THEN Eq(a, x) ELSE 0
    BY DEF Eq, Op
  <2> HIDE DEF g, i
  <2>5. /\ g \in Stacks /\ AllFinite(g)
        /\ \A op \in Op, x \in Obj :
              /\ Count(f, op, x) \in Nat
              /\ Count(g, op, x) = Count(f, op, x) + Eq(i, [op |-> op, obj |-> x])
    BY <2>1, <2>3, PushCounts
  <2>6. \A op \in Op, x \in Obj :
           Count(g, op, x) = Count(f, op, x) + IF op = "drop" THEN Eq(a, x) ELSE 0
    BY <2>4, <2>5
  <2> QED BY <2>5, <2>6 DEF g
<1> QED BY <1>1, <1>2

LEMMA DropOnEmpty ==
  ASSUME NEW f \in Stacks, NEW t \in Thread, f[t] = <<>>, AllFinite(f),
         NEW a \in Obj \cup {Nil}
  PROVE  LET g == [f EXCEPT ![t] = Drop(a)] IN
         /\ g \in Stacks /\ AllFinite(g)
         /\ \A op \in Op, x \in Obj :
              /\ Count(f, op, x) \in Nat
              /\ Count(g, op, x) = Count(f, op, x) + IF op = "drop" THEN Eq(a, x) ELSE 0
<1>1. Drop(a) \in Seq(Instr)
  <2>1. CASE a = Nil
    BY <2>1 DEF Drop
  <2>2. CASE a # Nil
    <3>1. [op |-> "drop", obj |-> a] \in Instr
      BY <2>2 DEF Instr, Obj
    <3> QED BY <2>2, <3>1 DEF Drop
  <2> QED BY <2>1, <2>2
<1>2. f[t] \o Drop(a) = Drop(a)
  <2>1. <<>> \o Drop(a) = Drop(a)
    BY ONLY <1>1, ConcatEmptySeq, Zenon
  <2> QED BY <2>1
<1> DEFINE g == [f EXCEPT ![t] = Drop(a)]
<1>3. g = [f EXCEPT ![t] = f[t] \o Drop(a)]
  BY <1>2
<1> HIDE DEF g
<1>4. /\ g \in Stacks /\ AllFinite(g)
      /\ \A op \in Op, x \in Obj :
           /\ Count(f, op, x) \in Nat
           /\ Count(g, op, x) = Count(f, op, x) + IF op = "drop" THEN Eq(a, x) ELSE 0
  BY <1>3, DropCounts
<1> QED BY <1>4 DEF g

\* A sequence of two deferred releases.
LEMMA TwoDropsOnEmpty ==
  ASSUME NEW f \in Stacks, NEW t \in Thread, f[t] = <<>>, AllFinite(f),
         NEW a \in Obj \cup {Nil}, NEW b \in Obj \cup {Nil}
  PROVE  LET g == [f EXCEPT ![t] = Drop(a) \o Drop(b)] IN
         /\ g \in Stacks /\ AllFinite(g)
         /\ \A op \in Op, x \in Obj :
              /\ Count(f, op, x) \in Nat
              /\ Count(g, op, x) =
                   Count(f, op, x) + IF op = "drop" THEN Eq(a, x) + Eq(b, x) ELSE 0
<1> DEFINE h == [f EXCEPT ![t] = Drop(a)]  g == [h EXCEPT ![t] = h[t] \o Drop(b)]
<1>1. /\ h \in Stacks /\ AllFinite(h)
      /\ \A op \in Op, x \in Obj :
           /\ Count(f, op, x) \in Nat
           /\ Count(h, op, x) = Count(f, op, x) + IF op = "drop" THEN Eq(a, x) ELSE 0
  BY DropOnEmpty
<1>2. g = [f EXCEPT ![t] = Drop(a) \o Drop(b)]
  BY DEF Stacks
<1> HIDE DEF h
<1>3. /\ g \in Stacks /\ AllFinite(g)
      /\ \A op \in Op, x \in Obj :
           /\ Count(h, op, x) \in Nat
           /\ Count(g, op, x) = Count(h, op, x) + IF op = "drop" THEN Eq(b, x) ELSE 0
  BY <1>1, DropCounts
<1> HIDE DEF g
<1>4. \A x : Eq(a, x) \in Nat /\ Eq(b, x) \in Nat
  BY DEF Eq
<1>5. ASSUME NEW op \in Op, NEW x \in Obj
      PROVE  /\ Count(f, op, x) \in Nat
             /\ Count(g, op, x) =
                   Count(f, op, x) + IF op = "drop" THEN Eq(a, x) + Eq(b, x) ELSE 0
  BY <1>1, <1>3, <1>4
<1> QED BY <1>2, <1>3, <1>5

\* The instructions of the model are those of its stacks.
LEMMA SlotsAreCounts ==
  /\ SlotsFinite <=> AllFinite(todo)
  /\ SlotsFinite' <=> AllFinite(todo')
  /\ \A op, x : Slots(op, x) = SlotsOf(todo, op, x) /\ Cardinality(Slots(op, x)) = Count(todo, op, x)
  /\ \A op, x : Slots(op, x)' = SlotsOf(todo', op, x) /\ Cardinality(Slots(op, x)') = Count(todo', op, x)
BY DEF SlotsFinite, AllFinite, Slots, SlotsOf, Count


-----------------------------------------------------------------------------
(* Holders.                                                                *)

LEMMA HoldersFinite ==
  ASSUME TypeOK, NEW x
  PROVE  /\ IsFiniteSet(CurrentIn(x)) /\ Cardinality(CurrentIn(x)) \in Nat
         /\ IsFiniteSet(PreviousIn(x)) /\ Cardinality(PreviousIn(x)) \in Nat
         /\ IsFiniteSet(MemberOf(x)) /\ Cardinality(MemberOf(x)) \in Nat
         /\ IsFiniteSet(PreviousOf(x)) /\ Cardinality(PreviousOf(x)) \in Nat
         /\ IsFiniteSet(PinnedBy(x)) /\ Cardinality(PinnedBy(x)) \in Nat
         /\ IsFiniteSet(PendingAt(x)) /\ Cardinality(PendingAt(x)) \in Nat
         /\ IsFiniteSet(RunningAt(x)) /\ Cardinality(RunningAt(x)) \in Nat
<1>1. IsFiniteSet(Doc) /\ IsFiniteSet(Query) /\ IsFiniteSet(Diag) /\ IsFiniteSet(Ws)
  BY SnapshotsAssumption
<1>2. IsFiniteSet(Ws \X Doc)
  BY <1>1, FS_Product
<1>3. /\ CurrentIn(x) \in SUBSET Doc /\ PreviousIn(x) \in SUBSET Doc
      /\ MemberOf(x) \in SUBSET (Ws \X Doc) /\ PreviousOf(x) \in SUBSET Query
      /\ PinnedBy(x) \in SUBSET Query
      /\ PendingAt(x) \in SUBSET Diag /\ RunningAt(x) \in SUBSET Diag
  BY DEF CurrentIn, PreviousIn, MemberOf, PreviousOf, PinnedBy, PendingAt, RunningAt
<1>4. /\ IsFiniteSet(CurrentIn(x)) /\ IsFiniteSet(PreviousIn(x)) /\ IsFiniteSet(MemberOf(x))
      /\ IsFiniteSet(PreviousOf(x)) /\ IsFiniteSet(PinnedBy(x))
      /\ IsFiniteSet(PendingAt(x)) /\ IsFiniteSet(RunningAt(x))
  BY <1>1, <1>2, <1>3, FS_Subset
<1> QED BY <1>4, FS_CardinalityType

\* A change of one document, context or worker moves at most one holder.
LEMMA DocCounts ==
  ASSUME TypeOK, NEW d \in Doc, NEW r \in Document, docs' = [docs EXCEPT ![d] = r], NEW x
  PROVE  /\ Cardinality(CurrentIn(x)') \in Nat /\ Cardinality(PreviousIn(x)') \in Nat
         /\ Cardinality(CurrentIn(x)') + Eq(docs[d].snap, x)
              = Cardinality(CurrentIn(x)) + Eq(r.snap, x)
         /\ Cardinality(PreviousIn(x)') + Eq(docs[d].prev, x)
              = Cardinality(PreviousIn(x)) + Eq(r.prev, x)
<1>1. IsFiniteSet(CurrentIn(x)) /\ IsFiniteSet(PreviousIn(x))
  BY HoldersFinite
<1>2. /\ CurrentIn(x) \ {d} = CurrentIn(x)' \ {d}
      /\ In(d, CurrentIn(x)) = Eq(docs[d].snap, x) /\ In(d, CurrentIn(x)') = Eq(r.snap, x)
  BY DEF TypeOK, CurrentIn, In, Eq
<1>3. /\ PreviousIn(x) \ {d} = PreviousIn(x)' \ {d}
      /\ In(d, PreviousIn(x)) = Eq(docs[d].prev, x) /\ In(d, PreviousIn(x)') = Eq(r.prev, x)
  BY DEF TypeOK, PreviousIn, In, Eq
<1>4. /\ Cardinality(CurrentIn(x)') \in Nat
      /\ Cardinality(CurrentIn(x)') + In(d, CurrentIn(x))
           = Cardinality(CurrentIn(x)) + In(d, CurrentIn(x)')
  BY <1>1, <1>2, SetUpdate
<1>5. /\ Cardinality(PreviousIn(x)') \in Nat
      /\ Cardinality(PreviousIn(x)') + In(d, PreviousIn(x))
           = Cardinality(PreviousIn(x)) + In(d, PreviousIn(x)')
  BY <1>1, <1>3, SetUpdate
<1> QED BY <1>2, <1>3, <1>4, <1>5

LEMMA CtxCounts ==
  ASSUME TypeOK, NEW q \in Query, NEW r \in QueryContext, ctx' = [ctx EXCEPT ![q] = r], NEW x
  PROVE  /\ Cardinality(PreviousOf(x)') \in Nat /\ Cardinality(PinnedBy(x)') \in Nat
         /\ Cardinality(PreviousOf(x)') + Eq(ctx[q].prev, x)
              = Cardinality(PreviousOf(x)) + Eq(r.prev, x)
         /\ Cardinality(PinnedBy(x)') + Eq(ctx[q].ws, x)
              = Cardinality(PinnedBy(x)) + Eq(r.ws, x)
<1>1. IsFiniteSet(PreviousOf(x)) /\ IsFiniteSet(PinnedBy(x))
  BY HoldersFinite
<1>2. /\ PreviousOf(x) \ {q} = PreviousOf(x)' \ {q}
      /\ In(q, PreviousOf(x)) = Eq(ctx[q].prev, x) /\ In(q, PreviousOf(x)') = Eq(r.prev, x)
  BY DEF TypeOK, PreviousOf, In, Eq
<1>3. /\ PinnedBy(x) \ {q} = PinnedBy(x)' \ {q}
      /\ In(q, PinnedBy(x)) = Eq(ctx[q].ws, x) /\ In(q, PinnedBy(x)') = Eq(r.ws, x)
  BY DEF TypeOK, PinnedBy, In, Eq
<1>4. /\ Cardinality(PreviousOf(x)') \in Nat
      /\ Cardinality(PreviousOf(x)') + In(q, PreviousOf(x))
           = Cardinality(PreviousOf(x)) + In(q, PreviousOf(x)')
  BY <1>1, <1>2, SetUpdate
<1>5. /\ Cardinality(PinnedBy(x)') \in Nat
      /\ Cardinality(PinnedBy(x)') + In(q, PinnedBy(x))
           = Cardinality(PinnedBy(x)) + In(q, PinnedBy(x)')
  BY <1>1, <1>3, SetUpdate
<1> QED BY <1>2, <1>3, <1>4, <1>5

LEMMA DiagCounts ==
  ASSUME TypeOK, NEW v \in Diag, NEW r \in DiagWorker, diag' = [diag EXCEPT ![v] = r], NEW x
  PROVE  /\ Cardinality(PendingAt(x)') \in Nat /\ Cardinality(RunningAt(x)') \in Nat
         /\ Cardinality(PendingAt(x)') + Eq(diag[v].pending, x)
              = Cardinality(PendingAt(x)) + Eq(r.pending, x)
         /\ Cardinality(RunningAt(x)') + Eq(diag[v].running, x)
              = Cardinality(RunningAt(x)) + Eq(r.running, x)
<1>1. IsFiniteSet(PendingAt(x)) /\ IsFiniteSet(RunningAt(x))
  BY HoldersFinite
<1>2. /\ PendingAt(x) \ {v} = PendingAt(x)' \ {v}
      /\ In(v, PendingAt(x)) = Eq(diag[v].pending, x) /\ In(v, PendingAt(x)') = Eq(r.pending, x)
  BY DEF TypeOK, PendingAt, In, Eq
<1>3. /\ RunningAt(x) \ {v} = RunningAt(x)' \ {v}
      /\ In(v, RunningAt(x)) = Eq(diag[v].running, x) /\ In(v, RunningAt(x)') = Eq(r.running, x)
  BY DEF TypeOK, RunningAt, In, Eq
<1>4. /\ Cardinality(PendingAt(x)') \in Nat
      /\ Cardinality(PendingAt(x)') + In(v, PendingAt(x))
           = Cardinality(PendingAt(x)) + In(v, PendingAt(x)')
  BY <1>1, <1>2, SetUpdate
<1>5. /\ Cardinality(RunningAt(x)') \in Nat
      /\ Cardinality(RunningAt(x)') + In(v, RunningAt(x))
           = Cardinality(RunningAt(x)) + In(v, RunningAt(x)')
  BY <1>1, <1>3, SetUpdate
<1> QED BY <1>2, <1>3, <1>4, <1>5

\* What a step leaves alone.
LEMMA UnchangedCounts ==
  /\ UNCHANGED docs => \A x : CurrentIn(x)' = CurrentIn(x) /\ PreviousIn(x)' = PreviousIn(x)
  /\ UNCHANGED ws => \A x : MemberOf(x)' = MemberOf(x)
  /\ UNCHANGED ctx => \A x : PreviousOf(x)' = PreviousOf(x) /\ PinnedBy(x)' = PinnedBy(x)
  /\ UNCHANGED diag => \A x : PendingAt(x)' = PendingAt(x) /\ RunningAt(x)' = RunningAt(x)
  /\ UNCHANGED todo => \A op, x : Count(todo', op, x) = Count(todo, op, x)
BY DEF CurrentIn, PreviousIn, MemberOf, PreviousOf, PinnedBy, PendingAt, RunningAt


LEMMA HolderSums ==
  /\ \A s : SnapHolders(s) =
       Cardinality(CurrentIn(s)) + Cardinality(PreviousIn(s)) + Cardinality(MemberOf(s))
         + Cardinality(PreviousOf(s)) + Count(todo, "drop", s)
  /\ \A s : SnapHolders(s)' =
       Cardinality(CurrentIn(s)') + Cardinality(PreviousIn(s)') + Cardinality(MemberOf(s)')
         + Cardinality(PreviousOf(s)') + Count(todo', "drop", s)
  /\ \A w : WsHolders(w) =
       Eq(gws, w) + Cardinality(PinnedBy(w)) + Cardinality(PendingAt(w))
         + Cardinality(RunningAt(w)) + Count(todo, "drop", w)
  /\ \A w : WsHolders(w)' =
       Eq(gws', w) + Cardinality(PinnedBy(w)') + Cardinality(PendingAt(w)')
         + Cardinality(RunningAt(w)') + Count(todo', "drop", w)
BY SlotsAreCounts DEF SnapHolders, WsHolders, Eq

LEMMA CountsNat ==
  ASSUME RefInv
  PROVE  /\ todo \in Stacks /\ AllFinite(todo)
         /\ \A op \in Op, x \in Obj : Count(todo, op, x) \in Nat
         /\ \A x, y : Eq(x, y) \in Nat
         /\ \A s \in Snap : SnapHolders(s) \in Nat
         /\ \A w \in Ws : WsHolders(w) \in Nat
<1>1. todo \in Stacks /\ AllFinite(todo) /\ TypeOK
  BY SlotsAreCounts DEF RefInv, ReferencesCounted, TypeOK, Stacks
<1>2. \A op \in Op, x \in Obj : Count(todo, op, x) \in Nat
  BY <1>1, FS_CardinalityType DEF AllFinite, Count
<1>3. \A x, y : Eq(x, y) \in Nat
  BY DEF Eq
<1>4. "drop" \in Op /\ Snap \subseteq Obj /\ Ws \subseteq Obj
  BY DEF Op, Obj
<1>5. \A s \in Snap : SnapHolders(s) \in Nat
  BY <1>1, <1>2, <1>4, HolderSums, HoldersFinite
<1>6. \A w \in Ws : WsHolders(w) \in Nat
  BY <1>1, <1>2, <1>3, <1>4, HolderSums, HoldersFinite
<1> QED BY <1>1, <1>2, <1>3, <1>5, <1>6

\* An object somebody holds is allocated and is in no destructor.
LEMMA HeldSnap ==
  ASSUME RefInv, NEW s \in Snap,
         \/ \E d \in Doc : docs[d].snap = s \/ docs[d].prev = s
         \/ \E w \in Ws, d \in Doc : ws[w].docs[d] = s
         \/ \E q \in Query : ctx[q].prev = s
         \/ Count(todo, "drop", s) >= 1
  PROVE  /\ snap[s].refs \in Nat /\ snap[s].refs >= 1
         /\ Count(todo, "free", s) = 0
<1>1. TypeOK /\ \A x : IsFiniteSet(CurrentIn(x)) /\ IsFiniteSet(PreviousIn(x))
                       /\ IsFiniteSet(MemberOf(x)) /\ IsFiniteSet(PreviousOf(x))
  BY HoldersFinite DEF RefInv, ReferencesCounted
<1>2. ASSUME NEW d \in Doc, docs[d].snap = s
      PROVE  Cardinality(CurrentIn(s)) >= 1
  BY <1>1, <1>2, MemberCounts DEF CurrentIn
<1>3. ASSUME NEW d \in Doc, docs[d].prev = s
      PROVE  Cardinality(PreviousIn(s)) >= 1
  BY <1>1, <1>3, MemberCounts DEF PreviousIn
<1>4. ASSUME NEW w \in Ws, NEW d \in Doc, ws[w].docs[d] = s
      PROVE  Cardinality(MemberOf(s)) >= 1
  <2>1. <<w, d>> \in MemberOf(s)
    BY <1>4 DEF MemberOf
  <2> QED BY <1>1, <2>1, MemberCounts
<1>5. ASSUME NEW q \in Query, ctx[q].prev = s
      PROVE  Cardinality(PreviousOf(s)) >= 1
  BY <1>1, <1>5, MemberCounts DEF PreviousOf
<1>6. /\ Cardinality(CurrentIn(s)) \in Nat /\ Cardinality(PreviousIn(s)) \in Nat
      /\ Cardinality(MemberOf(s)) \in Nat /\ Cardinality(PreviousOf(s)) \in Nat
      /\ Count(todo, "drop", s) \in Nat
  BY <1>1, HoldersFinite, CountsNat DEF Op, Obj
<1>7. SnapHolders(s) >= 1
  <2>1. \/ Cardinality(CurrentIn(s)) >= 1 \/ Cardinality(PreviousIn(s)) >= 1
        \/ Cardinality(MemberOf(s)) >= 1 \/ Cardinality(PreviousOf(s)) >= 1
        \/ Count(todo, "drop", s) >= 1
    BY <1>2, <1>3, <1>4, <1>5
  <2> QED BY <1>6, <2>1, HolderSums
<1>8. snap[s].refs \in Nat /\ snap[s].refs >= 1
  <2>1. snap[s].refs \in Nat \cup {Nil}
    BY <1>1 DEF TypeOK, DocSnapshot
  <2>2. SnapHolders(s) = IF snap[s].refs = Nil THEN 0 ELSE snap[s].refs
    BY DEF RefInv, ReferencesCounted, CountsMatchHolders
  <2> QED BY <1>7, <2>1, <2>2
<1>9. Count(todo, "free", s) = IF snap[s].refs = 0 THEN 1 ELSE 0
  BY SlotsAreCounts DEF RefInv, ReferencesCounted, FreedOnce
<1> QED BY <1>8, <1>9

LEMMA HeldWs ==
  ASSUME RefInv, NEW w \in Ws,
         \/ gws = w
         \/ \E q \in Query : ctx[q].ws = w
         \/ \E v \in Diag : diag[v].pending = w \/ diag[v].running = w
         \/ Count(todo, "drop", w) >= 1
  PROVE  /\ ws[w].refs \in Nat /\ ws[w].refs >= 1
         /\ Count(todo, "free", w) = 0
<1>1. TypeOK /\ \A x : IsFiniteSet(PinnedBy(x)) /\ IsFiniteSet(PendingAt(x))
                       /\ IsFiniteSet(RunningAt(x))
  BY HoldersFinite DEF RefInv, ReferencesCounted
<1>2. ASSUME NEW q \in Query, ctx[q].ws = w
      PROVE  Cardinality(PinnedBy(w)) >= 1
  BY <1>1, <1>2, MemberCounts DEF PinnedBy
<1>3. ASSUME NEW v \in Diag, diag[v].pending = w
      PROVE  Cardinality(PendingAt(w)) >= 1
  BY <1>1, <1>3, MemberCounts DEF PendingAt
<1>4. ASSUME NEW v \in Diag, diag[v].running = w
      PROVE  Cardinality(RunningAt(w)) >= 1
  BY <1>1, <1>4, MemberCounts DEF RunningAt
<1>5. gws = w => Eq(gws, w) = 1
  BY DEF Eq
<1>6. /\ Cardinality(PinnedBy(w)) \in Nat /\ Cardinality(PendingAt(w)) \in Nat
      /\ Cardinality(RunningAt(w)) \in Nat /\ Eq(gws, w) \in Nat
      /\ Count(todo, "drop", w) \in Nat
  BY <1>1, HoldersFinite, CountsNat DEF Op, Obj
<1>7. WsHolders(w) >= 1
  <2>1. \/ Cardinality(PinnedBy(w)) >= 1 \/ Cardinality(PendingAt(w)) >= 1
        \/ Cardinality(RunningAt(w)) >= 1 \/ Eq(gws, w) >= 1
        \/ Count(todo, "drop", w) >= 1
    BY <1>2, <1>3, <1>4, <1>5
  <2> QED BY <1>6, <2>1, HolderSums
<1>8. ws[w].refs \in Nat /\ ws[w].refs >= 1
  <2>1. ws[w].refs \in Nat \cup {Nil}
    BY <1>1 DEF TypeOK, WorkspaceSnapshot
  <2>2. WsHolders(w) = IF ws[w].refs = Nil THEN 0 ELSE ws[w].refs
    BY DEF RefInv, ReferencesCounted, CountsMatchHolders
  <2> QED BY <1>7, <2>1, <2>2
<1>9. Count(todo, "free", w) = IF ws[w].refs = 0 THEN 1 ELSE 0
  BY SlotsAreCounts DEF RefInv, ReferencesCounted, FreedOnce
<1> QED BY <1>8, <1>9


-----------------------------------------------------------------------------
(* Every step keeps the counts.                                            *)

LEMMA Counted ==
  ASSUME RefInv
  PROVE  /\ TypeOK /\ ThreadsOrderly /\ FreeWsEmpty
         /\ \A s \in Snap : /\ SnapHolders(s) = IF snap[s].refs = Nil THEN 0 ELSE snap[s].refs
                            /\ Count(todo, "free", s) = IF snap[s].refs = 0 THEN 1 ELSE 0
                            /\ snap[s].refs \in Nat \cup {Nil}
         /\ \A w \in Ws : /\ WsHolders(w) = IF ws[w].refs = Nil THEN 0 ELSE ws[w].refs
                          /\ Count(todo, "free", w) = IF ws[w].refs = 0 THEN 1 ELSE 0
                          /\ ws[w].refs \in Nat \cup {Nil}
BY SlotsAreCounts DEF RefInv, ReferencesCounted, CountsMatchHolders, FreedOnce, TypeOK,
   DocSnapshot, WorkspaceSnapshot

LEMMA Recounted ==
  ASSUME TypeOK', AllFinite(todo'), ThreadsOrderly', FreeWsEmpty',
         \A s \in Snap : SnapHolders(s)' = IF snap'[s].refs = Nil THEN 0 ELSE snap'[s].refs,
         \A s \in Snap : Count(todo', "free", s) = IF snap'[s].refs = 0 THEN 1 ELSE 0,
         \A w \in Ws : WsHolders(w)' = IF ws'[w].refs = Nil THEN 0 ELSE ws'[w].refs,
         \A w \in Ws : Count(todo', "free", w) = IF ws'[w].refs = 0 THEN 1 ELSE 0
  PROVE  RefInv'
BY SlotsAreCounts DEF RefInv, ReferencesCounted, CountsMatchHolders, FreedOnce

\* The terms of the sums, for one object.
LEMMA SnapSum ==
  ASSUME RefInv, NEW x \in Snap
  PROVE  /\ Cardinality(CurrentIn(x)) \in Nat /\ Cardinality(PreviousIn(x)) \in Nat
         /\ Cardinality(MemberOf(x)) \in Nat /\ Cardinality(PreviousOf(x)) \in Nat
         /\ Count(todo, "drop", x) \in Nat /\ Count(todo, "free", x) \in Nat
         /\ SnapHolders(x) =
              Cardinality(CurrentIn(x)) + Cardinality(PreviousIn(x)) + Cardinality(MemberOf(x))
                + Cardinality(PreviousOf(x)) + Count(todo, "drop", x)
         /\ SnapHolders(x)' =
              Cardinality(CurrentIn(x)') + Cardinality(PreviousIn(x)') + Cardinality(MemberOf(x)')
                + Cardinality(PreviousOf(x)') + Count(todo', "drop", x)
BY HolderSums, HoldersFinite, CountsNat, Counted DEF Obj, Op

LEMMA WsSum ==
  ASSUME RefInv, NEW x \in Ws
  PROVE  /\ Cardinality(PinnedBy(x)) \in Nat /\ Cardinality(PendingAt(x)) \in Nat
         /\ Cardinality(RunningAt(x)) \in Nat
         /\ Count(todo, "drop", x) \in Nat /\ Count(todo, "free", x) \in Nat
         /\ WsHolders(x) =
              Eq(gws, x) + Cardinality(PinnedBy(x)) + Cardinality(PendingAt(x))
                + Cardinality(RunningAt(x)) + Count(todo, "drop", x)
         /\ WsHolders(x)' =
              Eq(gws', x) + Cardinality(PinnedBy(x)') + Cardinality(PendingAt(x)')
                + Cardinality(RunningAt(x)') + Count(todo', "drop", x)
BY HolderSums, HoldersFinite, CountsNat, Counted DEF Obj, Op

\* A step that defers the release of a and b in an idle thread t.
LEMMA StackDrops ==
  ASSUME RefInv, NEW t \in Thread, todo[t] = <<>>,
         NEW a \in Obj \cup {Nil}, NEW b \in Obj \cup {Nil},
         todo' = [todo EXCEPT ![t] = Drop(a) \o Drop(b)]
  PROVE  /\ todo' \in [Thread -> Seq(Instr)] /\ AllFinite(todo')
         /\ \A u \in Thread : u # t => todo'[u] = todo[u]
         /\ \A x \in Obj :
              /\ Count(todo', "drop", x) = Count(todo, "drop", x) + Eq(a, x) + Eq(b, x)
              /\ Count(todo', "free", x) = Count(todo, "free", x)
              /\ Count(todo, "drop", x) \in Nat /\ Count(todo, "free", x) \in Nat
              /\ Eq(a, x) \in Nat /\ Eq(b, x) \in Nat
<1>1. todo \in Stacks /\ AllFinite(todo)
  BY CountsNat
<1>2. /\ todo' \in Stacks /\ AllFinite(todo')
      /\ \A op \in Op, x \in Obj :
           /\ Count(todo, op, x) \in Nat
           /\ Count(todo', op, x) =
                Count(todo, op, x) + IF op = "drop" THEN Eq(a, x) + Eq(b, x) ELSE 0
  <2> DEFINE g == [todo EXCEPT ![t] = Drop(a) \o Drop(b)]
  <2>1. /\ g \in Stacks /\ AllFinite(g)
        /\ \A op \in Op, x \in Obj :
             /\ Count(todo, op, x) \in Nat
             /\ Count(g, op, x) =
                  Count(todo, op, x) + IF op = "drop" THEN Eq(a, x) + Eq(b, x) ELSE 0
    BY <1>1, TwoDropsOnEmpty
  <2>2. todo' = g
    OBVIOUS
  <2> HIDE DEF g
  <2> QED BY <2>1, <2>2
<1>3. \A u \in Thread : u # t => todo'[u] = todo[u]
  BY <1>1 DEF Stacks
<1>4. \A x : Eq(a, x) \in Nat /\ Eq(b, x) \in Nat
  BY DEF Eq
<1>5. "drop" \in Op /\ "free" \in Op
  BY DEF Op
<1>6. ASSUME NEW x \in Obj
      PROVE  /\ Count(todo', "drop", x) = Count(todo, "drop", x) + Eq(a, x) + Eq(b, x)
             /\ Count(todo', "free", x) = Count(todo, "free", x)
             /\ Count(todo, "drop", x) \in Nat /\ Count(todo, "free", x) \in Nat
  <2>1. Count(todo, "drop", x) \in Nat /\ Count(todo, "free", x) \in Nat
    BY <1>2, <1>5
  <2>2. Count(todo', "drop", x) =
          Count(todo, "drop", x) + IF "drop" = "drop" THEN Eq(a, x) + Eq(b, x) ELSE 0
    BY <1>2, <1>5, Zenon
  <2>3. Count(todo', "free", x) =
          Count(todo, "free", x) + IF "free" = "drop" THEN Eq(a, x) + Eq(b, x) ELSE 0
    BY <1>2, <1>5, Zenon
  <2> QED BY <1>4, <2>1, <2>2, <2>3
<1> QED BY <1>2, <1>3, <1>4, <1>6 DEF Stacks

LEMMA StackDrop ==
  ASSUME RefInv, NEW t \in Thread, todo[t] = <<>>, NEW a \in Obj \cup {Nil},
         todo' = [todo EXCEPT ![t] = Drop(a)]
  PROVE  /\ todo' \in [Thread -> Seq(Instr)] /\ AllFinite(todo')
         /\ \A u \in Thread : u # t => todo'[u] = todo[u]
         /\ \A x \in Obj :
              /\ Count(todo', "drop", x) = Count(todo, "drop", x) + Eq(a, x)
              /\ Count(todo', "free", x) = Count(todo, "free", x)
              /\ Count(todo, "drop", x) \in Nat /\ Count(todo, "free", x) \in Nat
              /\ Eq(a, x) \in Nat
<1>1. Drop(Nil) = <<>> /\ Nil \notin Obj
  BY SnapshotsAssumption DEF Drop, Obj
<1>2. Drop(a) \in Seq(Instr)
  <2>1. CASE a = Nil
    BY <2>1 DEF Drop
  <2>2. CASE a # Nil
    <3>1. [op |-> "drop", obj |-> a] \in Instr
      BY <2>2 DEF Instr, Obj
    <3> QED BY <2>2, <3>1 DEF Drop
  <2> QED BY <2>1, <2>2
<1>3. Drop(a) \o Drop(Nil) = Drop(a)
  BY <1>1, <1>2, ConcatEmptySeq
<1>4. todo' = [todo EXCEPT ![t] = Drop(a) \o Drop(Nil)]
  BY <1>3
<1>5. \A x \in Obj : Eq(Nil, x) = 0
  BY <1>1 DEF Eq
<1>6. /\ todo' \in [Thread -> Seq(Instr)] /\ AllFinite(todo')
      /\ \A u \in Thread : u # t => todo'[u] = todo[u]
      /\ \A x \in Obj :
           /\ Count(todo', "drop", x) = Count(todo, "drop", x) + Eq(a, x) + Eq(Nil, x)
           /\ Count(todo', "free", x) = Count(todo, "free", x)
           /\ Count(todo, "drop", x) \in Nat /\ Count(todo, "free", x) \in Nat
           /\ Eq(a, x) \in Nat
  <2>1. Nil \in Obj \cup {Nil}
    OBVIOUS
  <2> QED BY <1>4, <2>1, StackDrops, Zenon
<1>7. ASSUME NEW x \in Obj
      PROVE  Count(todo', "drop", x) = Count(todo, "drop", x) + Eq(a, x)
  <2>1. /\ Count(todo', "drop", x) = Count(todo, "drop", x) + Eq(a, x) + Eq(Nil, x)
        /\ Count(todo, "drop", x) \in Nat /\ Eq(a, x) \in Nat
    BY <1>6
  <2> QED BY <1>5, <2>1
<1> QED BY <1>6, <1>7

LEMMA InstallRefs ==
  ASSUME RefInv, NEW d \in Doc, Install(d)
  PROVE  RefInv'
<1> DEFINE o == docs[d].snap  p == docs[d].prev
<1>0. TypeOK /\ Coord \in Thread /\ todo[Coord] = <<>>
  BY DEF RefInv, ReferencesCounted, Thread, Install, CoordFree
<1>1. PICK s \in Snap, b \in Buf :
        /\ snap[s].refs = Nil
        /\ snap' = [snap EXCEPT ![s] = [refs |-> 1, buf |-> b, memo |-> Nil]]
        /\ bufs' = bufs \cup {b} /\ recycle' = Nil
        /\ docs' = [docs EXCEPT ![d] = [snap |-> s, prev |-> o]]
  BY DEF Install
<1>2. o \in Snap \cup {Nil} /\ p \in Snap \cup {Nil} /\ p \in Obj \cup {Nil}
  BY <1>0 DEF TypeOK, Document, Obj
<1>3. /\ todo' \in [Thread -> Seq(Instr)] /\ AllFinite(todo')
      /\ \A u \in Thread : u # Coord => todo'[u] = todo[u]
      /\ \A x \in Obj :
           /\ Count(todo', "drop", x) = Count(todo, "drop", x) + Eq(p, x)
           /\ Count(todo', "free", x) = Count(todo, "free", x)
           /\ Eq(p, x) \in Nat
  BY <1>0, <1>2, StackDrop DEF Install
<1>4. TypeOK'
  BY <1>0, <1>1, <1>2, <1>3 DEF TypeOK, Install, Document, DocSnapshot
<1>5. [snap |-> s, prev |-> o] \in Document
  BY <1>2 DEF Document
<1>6. \A x : /\ Cardinality(CurrentIn(x)') + Eq(o, x) = Cardinality(CurrentIn(x)) + Eq(s, x)
             /\ Cardinality(PreviousIn(x)') + Eq(p, x) = Cardinality(PreviousIn(x)) + Eq(o, x)
             /\ Cardinality(CurrentIn(x)') \in Nat /\ Cardinality(PreviousIn(x)') \in Nat
  BY <1>0, <1>1, <1>5, DocCounts
<1>7. /\ \A x : /\ MemberOf(x)' = MemberOf(x)
                /\ PreviousOf(x)' = PreviousOf(x) /\ PinnedBy(x)' = PinnedBy(x)
                /\ PendingAt(x)' = PendingAt(x) /\ RunningAt(x)' = RunningAt(x)
      /\ gws' = gws /\ ws' = ws
  BY UnchangedCounts DEF Install
<1> HIDE DEF o, p
<1>8. ASSUME NEW x \in Snap
      PROVE  /\ SnapHolders(x)' = SnapHolders(x) + Eq(s, x)
             /\ Count(todo', "free", x) = Count(todo, "free", x)
  <2>1. x \in Obj
    BY DEF Obj
  <2>2. Eq(p, x) \in Nat /\ Eq(o, x) \in Nat /\ Eq(s, x) \in Nat
    BY DEF Eq
  <2>3. /\ Cardinality(CurrentIn(x)') + Eq(o, x) = Cardinality(CurrentIn(x)) + Eq(s, x)
        /\ Cardinality(PreviousIn(x)') + Eq(p, x) = Cardinality(PreviousIn(x)) + Eq(o, x)
        /\ Cardinality(CurrentIn(x)') \in Nat /\ Cardinality(PreviousIn(x)') \in Nat
        /\ MemberOf(x)' = MemberOf(x) /\ PreviousOf(x)' = PreviousOf(x)
        /\ Count(todo', "drop", x) = Count(todo, "drop", x) + Eq(p, x)
        /\ Count(todo', "free", x) = Count(todo, "free", x)
    BY <1>3, <1>6, <1>7, <2>1
  <2>4. /\ Cardinality(CurrentIn(x)) \in Nat /\ Cardinality(PreviousIn(x)) \in Nat
        /\ Cardinality(MemberOf(x)) \in Nat /\ Cardinality(PreviousOf(x)) \in Nat
        /\ Count(todo, "drop", x) \in Nat
        /\ SnapHolders(x) =
              Cardinality(CurrentIn(x)) + Cardinality(PreviousIn(x)) + Cardinality(MemberOf(x))
                + Cardinality(PreviousOf(x)) + Count(todo, "drop", x)
        /\ SnapHolders(x)' =
              Cardinality(CurrentIn(x)') + Cardinality(PreviousIn(x)') + Cardinality(MemberOf(x)')
                + Cardinality(PreviousOf(x)') + Count(todo', "drop", x)
    BY SnapSum
  <2> QED BY ONLY <2>2, <2>3, <2>4
<1>9. ASSUME NEW w \in Ws
      PROVE  /\ WsHolders(w)' = WsHolders(w)
             /\ Count(todo', "free", w) = Count(todo, "free", w)
  <2>1. w \in Obj
    BY DEF Obj
  <2>2. Eq(p, w) = 0
    BY <1>2, SnapshotsAssumption DEF Eq
  <2> QED BY <1>3, <1>7, <2>1, <2>2, WsSum
<1>10. ThreadsOrderly'
  <2>1. UNCHANGED <<ctx, diag>> /\ Coord \notin Query \cup Diag
    BY SnapshotsAssumption DEF Install
  <2> QED BY <1>3, <2>1, Counted DEF ThreadsOrderly, Thread
<1>11. FreeWsEmpty'
  BY Counted DEF FreeWsEmpty, Install
<1>12. \A x \in Snap : snap'[x].refs = IF x = s THEN 1 ELSE snap[x].refs
  BY <1>0, <1>1 DEF TypeOK
<1>13. \A x \in Snap : SnapHolders(x)' = IF snap'[x].refs = Nil THEN 0 ELSE snap'[x].refs
  BY <1>1, <1>8, <1>12, Counted, CountsNat, SnapshotsAssumption DEF Eq
<1>14. \A x \in Snap : Count(todo', "free", x) = IF snap'[x].refs = 0 THEN 1 ELSE 0
  BY <1>1, <1>8, <1>12, Counted, SnapshotsAssumption
<1> QED BY <1>3, <1>4, <1>7, <1>9, <1>10, <1>11, <1>13, <1>14, Counted, Recounted


LEMMA ForgetRefs ==
  ASSUME RefInv, NEW d \in Doc, Forget(d)
  PROVE  RefInv'
<1> DEFINE o == docs[d].snap  p == docs[d].prev
<1>0. TypeOK /\ Coord \in Thread /\ todo[Coord] = <<>>
  BY DEF RefInv, ReferencesCounted, Thread, Forget, CoordFree
<1>1. docs' = [docs EXCEPT ![d] = [snap |-> Nil, prev |-> Nil]]
  BY DEF Forget
<1>2. /\ o \in Snap \cup {Nil} /\ p \in Snap \cup {Nil}
      /\ o \in Obj \cup {Nil} /\ p \in Obj \cup {Nil}
  BY <1>0 DEF TypeOK, Document, Obj
<1>3. /\ todo' \in [Thread -> Seq(Instr)] /\ AllFinite(todo')
      /\ \A u \in Thread : u # Coord => todo'[u] = todo[u]
      /\ \A x \in Obj :
           /\ Count(todo', "drop", x) = Count(todo, "drop", x) + Eq(p, x) + Eq(o, x)
           /\ Count(todo', "free", x) = Count(todo, "free", x)
           /\ Eq(p, x) \in Nat /\ Eq(o, x) \in Nat
  <2>1. todo' = [todo EXCEPT ![Coord] = Drop(p) \o Drop(o)]
    BY DEF Forget
  <2> HIDE DEF o, p
  <2> QED BY <1>0, <1>2, <2>1, StackDrops
<1>5. [snap |-> Nil, prev |-> Nil] \in Document
  BY DEF Document
<1>4. TypeOK'
  <2>1. docs' \in [Doc -> Document]
    BY <1>0, <1>1, <1>5 DEF TypeOK
  <2>2. coord' \in [pc : {"idle", "edit", "update"}, left : SUBSET Diag, lock : Diag \cup {Nil}]
    BY <1>0 DEF TypeOK, Forget
  <2>3. UNCHANGED <<gws, snap, ws, bufs, recycle, memos, ctx, diag>>
    BY DEF Forget
  <2> QED BY <1>0, <1>3, <2>1, <2>2, <2>3 DEF TypeOK
<1>6. \A x : /\ Cardinality(CurrentIn(x)') + Eq(o, x) = Cardinality(CurrentIn(x)) + Eq(Nil, x)
             /\ Cardinality(PreviousIn(x)') + Eq(p, x) = Cardinality(PreviousIn(x)) + Eq(Nil, x)
             /\ Cardinality(CurrentIn(x)') \in Nat /\ Cardinality(PreviousIn(x)') \in Nat
  BY <1>0, <1>1, <1>5, DocCounts
<1>7. /\ \A x : /\ MemberOf(x)' = MemberOf(x)
                /\ PreviousOf(x)' = PreviousOf(x) /\ PinnedBy(x)' = PinnedBy(x)
                /\ PendingAt(x)' = PendingAt(x) /\ RunningAt(x)' = RunningAt(x)
      /\ gws' = gws /\ ws' = ws /\ snap' = snap
  BY UnchangedCounts DEF Forget
<1> HIDE DEF o, p
<1>8. ASSUME NEW x \in Snap
      PROVE  /\ SnapHolders(x)' = SnapHolders(x)
             /\ Count(todo', "free", x) = Count(todo, "free", x)
  <2>1. x \in Obj
    BY DEF Obj
  <2>2. Eq(p, x) \in Nat /\ Eq(o, x) \in Nat /\ Eq(Nil, x) = 0
    BY SnapshotsAssumption DEF Eq
  <2>3. /\ Cardinality(CurrentIn(x)') + Eq(o, x) = Cardinality(CurrentIn(x)) + Eq(Nil, x)
        /\ Cardinality(PreviousIn(x)') + Eq(p, x) = Cardinality(PreviousIn(x)) + Eq(Nil, x)
        /\ Cardinality(CurrentIn(x)') \in Nat /\ Cardinality(PreviousIn(x)') \in Nat
        /\ MemberOf(x)' = MemberOf(x) /\ PreviousOf(x)' = PreviousOf(x)
        /\ Count(todo', "drop", x) = Count(todo, "drop", x) + Eq(p, x) + Eq(o, x)
        /\ Count(todo', "free", x) = Count(todo, "free", x)
    BY <1>3, <1>6, <1>7, <2>1
  <2>4. /\ Cardinality(CurrentIn(x)) \in Nat /\ Cardinality(PreviousIn(x)) \in Nat
        /\ Cardinality(MemberOf(x)) \in Nat /\ Cardinality(PreviousOf(x)) \in Nat
        /\ Count(todo, "drop", x) \in Nat
        /\ SnapHolders(x) =
              Cardinality(CurrentIn(x)) + Cardinality(PreviousIn(x)) + Cardinality(MemberOf(x))
                + Cardinality(PreviousOf(x)) + Count(todo, "drop", x)
        /\ SnapHolders(x)' =
              Cardinality(CurrentIn(x)') + Cardinality(PreviousIn(x)') + Cardinality(MemberOf(x)')
                + Cardinality(PreviousOf(x)') + Count(todo', "drop", x)
    BY SnapSum
  <2> QED BY ONLY <2>2, <2>3, <2>4
<1>9. ASSUME NEW w \in Ws
      PROVE  /\ WsHolders(w)' = WsHolders(w)
             /\ Count(todo', "free", w) = Count(todo, "free", w)
  <2>1. w \in Obj
    BY DEF Obj
  <2>2. Eq(p, w) = 0 /\ Eq(o, w) = 0
    BY <1>2, SnapshotsAssumption DEF Eq
  <2> QED BY <1>3, <1>7, <2>1, <2>2, WsSum
<1>10. ThreadsOrderly'
  <2>1. UNCHANGED <<ctx, diag>> /\ Coord \notin Query \cup Diag
    BY SnapshotsAssumption DEF Forget
  <2> QED BY <1>3, <2>1, Counted DEF ThreadsOrderly, Thread
<1>11. FreeWsEmpty'
  BY Counted DEF FreeWsEmpty, Forget
<1> QED BY <1>3, <1>4, <1>7, <1>8, <1>9, <1>10, <1>11, Counted, Recounted

\* publish_workspace_snapshot() gives the new workspace a reference to every
\* document's parse.
LEMMA PublishMembers ==
  ASSUME RefInv, NEW w \in Ws, ws[w].refs = Nil,
         ws' = [ws EXCEPT ![w] = [refs |-> 1, docs |-> [d \in Doc |-> docs[d].snap]]],
         NEW x \in Snap
  PROVE  Cardinality(MemberOf(x)') = Cardinality(MemberOf(x)) + Cardinality(CurrentIn(x))
<1> DEFINE new == {w} \X CurrentIn(x)
<1>1. TypeOK /\ \A d \in Doc : ws[w].docs[d] = Nil
  BY Counted DEF FreeWsEmpty
<1>2. x # Nil
  BY SnapshotsAssumption
<1>3. /\ w \in Ws /\ ws'[w].docs = [d \in Doc |-> docs[d].snap]
      /\ \A v \in Ws : v # w => ws'[v] = ws[v]
  BY <1>1 DEF TypeOK
<1>4. ASSUME NEW v \in Ws, NEW d \in Doc
      PROVE  <<v, d>> \in MemberOf(x)' <=> <<v, d>> \in MemberOf(x) \/ <<v, d>> \in new
  <2>1. <<v, d>> \in MemberOf(x)' <=> ws'[v].docs[d] = x
    BY DEF MemberOf
  <2>2. <<v, d>> \in MemberOf(x) <=> ws[v].docs[d] = x
    BY DEF MemberOf
  <2>3. <<v, d>> \in new <=> v = w /\ docs[d].snap = x
    BY DEF CurrentIn
  <2>4. CASE v = w
    BY <1>1, <1>2, <1>3, <2>1, <2>2, <2>3, <2>4
  <2>5. CASE v # w
    BY <1>3, <2>1, <2>2, <2>3, <2>5
  <2> QED BY <2>4, <2>5
<1>5. /\ MemberOf(x) \subseteq Ws \X Doc /\ MemberOf(x)' \subseteq Ws \X Doc
      /\ new \subseteq Ws \X Doc
  BY DEF MemberOf, CurrentIn
<1>6. MemberOf(x)' = MemberOf(x) \cup new
  BY <1>4, <1>5
<1>7. MemberOf(x) \cap new = {}
  BY <1>1, <1>2 DEF MemberOf, CurrentIn
<1>8. IsFiniteSet(new) /\ Cardinality(new) = Cardinality(CurrentIn(x))
  <2>1. IsFiniteSet({w}) /\ Cardinality({w}) = 1
    BY FS_Singleton
  <2>2. IsFiniteSet(CurrentIn(x)) /\ Cardinality(CurrentIn(x)) \in Nat
    BY <1>1, HoldersFinite
  <2>3. IsFiniteSet(new) /\ Cardinality(new) = Cardinality({w}) * Cardinality(CurrentIn(x))
    BY <2>1, <2>2, FS_Product
  <2> QED BY <2>1, <2>2, <2>3
<1>9. IsFiniteSet(MemberOf(x)) /\ Cardinality(MemberOf(x)) \in Nat
      /\ Cardinality(CurrentIn(x)) \in Nat
  BY <1>1, HoldersFinite
<1>10. Cardinality(MemberOf(x) \cup new) =
         Cardinality(MemberOf(x)) + Cardinality(new) - Cardinality(MemberOf(x) \cap new)
  BY <1>8, <1>9, FS_Union
<1>11. Cardinality(MemberOf(x) \cap new) = 0
  BY <1>7, FS_EmptySet
<1> QED BY <1>6, <1>8, <1>9, <1>10, <1>11


LEMMA PublishRefs ==
  ASSUME RefInv, Publish
  PROVE  RefInv'
<1>0. TypeOK /\ Coord \in Thread /\ todo[Coord] = <<>> /\ gws \in Obj \cup {Nil}
  BY DEF RefInv, ReferencesCounted, Thread, Publish, CoordFree, TypeOK, Obj
<1>1. PICK w \in Ws :
        /\ ws[w].refs = Nil
        /\ ws' = [ws EXCEPT ![w] = [refs |-> 1, docs |-> [d \in Doc |-> docs[d].snap]]]
        /\ gws' = w
  BY DEF Publish
<1>2. /\ UNCHANGED <<docs, bufs, recycle, memos, ctx, diag>> /\ snap' = AcquireAll
      /\ todo' = [todo EXCEPT ![Coord] = Drop(gws)]
      /\ coord' = [coord EXCEPT !.pc = "update", !.left = Diag]
  BY DEF Publish
<1>3. /\ todo' \in [Thread -> Seq(Instr)] /\ AllFinite(todo')
      /\ \A u \in Thread : u # Coord => todo'[u] = todo[u]
      /\ \A x \in Obj :
           /\ Count(todo', "drop", x) = Count(todo, "drop", x) + Eq(gws, x)
           /\ Count(todo', "free", x) = Count(todo, "free", x)
           /\ Eq(gws, x) \in Nat
  BY <1>0, <1>2, StackDrop
<1>4. \A x \in Snap :
        /\ snap'[x].buf = snap[x].buf /\ snap'[x].memo = snap[x].memo
        /\ snap'[x].refs = IF snap[x].refs = Nil THEN Nil
                           ELSE snap[x].refs + Cardinality(CurrentIn(x))
        /\ snap'[x] = [snap[x] EXCEPT !.refs = snap'[x].refs]
  BY <1>0, <1>2 DEF AcquireAll, CurrentIn, TypeOK, DocSnapshot
<1>5. \A x \in Ws : ws'[x].refs = IF x = w THEN 1 ELSE ws[x].refs
  BY <1>0, <1>1 DEF TypeOK
<1>6. TypeOK'
  <2>1. \A x \in Snap : snap'[x].refs \in Nat \cup {Nil}
    <3> SUFFICES ASSUME NEW x \in Snap
                 PROVE  snap'[x].refs \in Nat \cup {Nil}
      OBVIOUS
    <3>1. snap[x].refs \in Nat \cup {Nil} /\ Cardinality(CurrentIn(x)) \in Nat
      BY <1>0, Counted, HoldersFinite
    <3>2. snap'[x].refs = IF snap[x].refs = Nil THEN Nil
                          ELSE snap[x].refs + Cardinality(CurrentIn(x))
      BY <1>4
    <3> QED BY ONLY <3>1, <3>2
  <2>2. snap' \in [Snap -> DocSnapshot]
    <3>1. \A x \in Snap : snap'[x] \in DocSnapshot
      BY <1>0, <1>4, <2>1 DEF TypeOK, DocSnapshot
    <3>2. snap' = [x \in Snap |-> snap'[x]]
      BY <1>2 DEF AcquireAll
    <3> QED BY <3>1, <3>2
  <2>3. ws' \in [Ws -> WorkspaceSnapshot]
    <3>1. [refs |-> 1, docs |-> [d \in Doc |-> docs[d].snap]] \in WorkspaceSnapshot
      BY <1>0 DEF TypeOK, Document, WorkspaceSnapshot
    <3> QED BY <1>0, <1>1, <3>1 DEF TypeOK
  <2>4. coord' \in [pc : {"idle", "edit", "update"}, left : SUBSET Diag, lock : Diag \cup {Nil}]
    BY <1>0, <1>2 DEF TypeOK
  <2> QED BY <1>0, <1>1, <1>2, <1>3, <2>2, <2>3, <2>4 DEF TypeOK
<1>7. \A x : /\ CurrentIn(x)' = CurrentIn(x) /\ PreviousIn(x)' = PreviousIn(x)
             /\ PreviousOf(x)' = PreviousOf(x) /\ PinnedBy(x)' = PinnedBy(x)
             /\ PendingAt(x)' = PendingAt(x) /\ RunningAt(x)' = RunningAt(x)
  BY <1>2, UnchangedCounts
<1>8. ASSUME NEW x \in Snap
      PROVE  /\ SnapHolders(x)' = SnapHolders(x) + Cardinality(CurrentIn(x))
             /\ Count(todo', "free", x) = Count(todo, "free", x)
             /\ Cardinality(CurrentIn(x)) \in Nat
             /\ SnapHolders(x) = 0 => Cardinality(CurrentIn(x)) = 0
  <2>1. x \in Obj /\ Eq(gws, x) = 0
    BY <1>0, SnapshotsAssumption DEF Obj, Eq, TypeOK
  <2>2. Cardinality(MemberOf(x)') = Cardinality(MemberOf(x)) + Cardinality(CurrentIn(x))
    BY <1>1, PublishMembers
  <2>3. /\ CurrentIn(x)' = CurrentIn(x) /\ PreviousIn(x)' = PreviousIn(x)
        /\ PreviousOf(x)' = PreviousOf(x)
        /\ Count(todo', "drop", x) = Count(todo, "drop", x) + Eq(gws, x)
        /\ Count(todo', "free", x) = Count(todo, "free", x)
    BY <1>3, <1>7, <2>1
  <2>4. /\ Cardinality(CurrentIn(x)) \in Nat /\ Cardinality(PreviousIn(x)) \in Nat
        /\ Cardinality(MemberOf(x)) \in Nat /\ Cardinality(PreviousOf(x)) \in Nat
        /\ Count(todo, "drop", x) \in Nat
        /\ SnapHolders(x) =
              Cardinality(CurrentIn(x)) + Cardinality(PreviousIn(x)) + Cardinality(MemberOf(x))
                + Cardinality(PreviousOf(x)) + Count(todo, "drop", x)
        /\ SnapHolders(x)' =
              Cardinality(CurrentIn(x)') + Cardinality(PreviousIn(x)') + Cardinality(MemberOf(x)')
                + Cardinality(PreviousOf(x)') + Count(todo', "drop", x)
    BY SnapSum
  <2> QED BY ONLY <2>1, <2>2, <2>3, <2>4
<1>9. ASSUME NEW x \in Ws
      PROVE  /\ WsHolders(x)' = WsHolders(x) + Eq(w, x)
             /\ Count(todo', "free", x) = Count(todo, "free", x)
  <2>1. x \in Obj /\ Eq(w, x) \in Nat /\ Eq(gws, x) \in Nat /\ Eq(gws', x) = Eq(w, x)
    BY <1>1 DEF Obj, Eq
  <2>3. /\ PinnedBy(x)' = PinnedBy(x)
        /\ PendingAt(x)' = PendingAt(x) /\ RunningAt(x)' = RunningAt(x)
        /\ Count(todo', "drop", x) = Count(todo, "drop", x) + Eq(gws, x)
        /\ Count(todo', "free", x) = Count(todo, "free", x)
    BY <1>3, <1>7, <2>1
  <2>4. /\ Cardinality(PinnedBy(x)) \in Nat /\ Cardinality(PendingAt(x)) \in Nat
        /\ Cardinality(RunningAt(x)) \in Nat /\ Count(todo, "drop", x) \in Nat
        /\ WsHolders(x) =
              Eq(gws, x) + Cardinality(PinnedBy(x)) + Cardinality(PendingAt(x))
                + Cardinality(RunningAt(x)) + Count(todo, "drop", x)
        /\ WsHolders(x)' =
              Eq(gws', x) + Cardinality(PinnedBy(x)') + Cardinality(PendingAt(x)')
                + Cardinality(RunningAt(x)') + Count(todo', "drop", x)
    BY WsSum
  <2> QED BY ONLY <2>1, <2>3, <2>4
<1>10. ThreadsOrderly'
  <2>1. Coord \notin Query \cup Diag
    BY SnapshotsAssumption
  <2> QED BY <1>2, <1>3, <2>1, Counted DEF ThreadsOrderly, Thread
<1>11. FreeWsEmpty'
  BY <1>0, <1>1, <1>5, Counted, SnapshotsAssumption DEF FreeWsEmpty, TypeOK
<1>12. \A x \in Snap : SnapHolders(x)' = IF snap'[x].refs = Nil THEN 0 ELSE snap'[x].refs
  <2> SUFFICES ASSUME NEW x \in Snap
               PROVE  SnapHolders(x)' = IF snap'[x].refs = Nil THEN 0 ELSE snap'[x].refs
    OBVIOUS
  <2>1. /\ SnapHolders(x) = IF snap[x].refs = Nil THEN 0 ELSE snap[x].refs
        /\ snap[x].refs \in Nat \cup {Nil}
    BY Counted
  <2>2. /\ snap'[x].refs = IF snap[x].refs = Nil THEN Nil
                           ELSE snap[x].refs + Cardinality(CurrentIn(x))
        /\ Nil \notin Nat
    BY <1>4, SnapshotsAssumption
  <2>3. /\ SnapHolders(x)' = SnapHolders(x) + Cardinality(CurrentIn(x))
        /\ Count(todo', "free", x) = Count(todo, "free", x)
        /\ Cardinality(CurrentIn(x)) \in Nat
        /\ SnapHolders(x) = 0 => Cardinality(CurrentIn(x)) = 0
    BY <1>8
  <2> QED BY ONLY <2>1, <2>2, <2>3
<1>13. \A x \in Snap : Count(todo', "free", x) = IF snap'[x].refs = 0 THEN 1 ELSE 0
  <2> SUFFICES ASSUME NEW x \in Snap
               PROVE  Count(todo', "free", x) = IF snap'[x].refs = 0 THEN 1 ELSE 0
    OBVIOUS
  <2>1. /\ SnapHolders(x) = IF snap[x].refs = Nil THEN 0 ELSE snap[x].refs
        /\ Count(todo, "free", x) = IF snap[x].refs = 0 THEN 1 ELSE 0
        /\ snap[x].refs \in Nat \cup {Nil}
    BY Counted
  <2>2. /\ snap'[x].refs = IF snap[x].refs = Nil THEN Nil
                           ELSE snap[x].refs + Cardinality(CurrentIn(x))
        /\ Nil \notin Nat
    BY <1>4, SnapshotsAssumption
  <2>3. /\ SnapHolders(x)' = SnapHolders(x) + Cardinality(CurrentIn(x))
        /\ Count(todo', "free", x) = Count(todo, "free", x)
        /\ Cardinality(CurrentIn(x)) \in Nat
        /\ SnapHolders(x) = 0 => Cardinality(CurrentIn(x)) = 0
    BY <1>8
  <2> QED BY ONLY <2>1, <2>2, <2>3
<1>14. \A x \in Ws : WsHolders(x)' = IF ws'[x].refs = Nil THEN 0 ELSE ws'[x].refs
  BY <1>1, <1>5, <1>9, Counted, CountsNat, SnapshotsAssumption DEF Eq
<1>15. \A x \in Ws : Count(todo', "free", x) = IF ws'[x].refs = 0 THEN 1 ELSE 0
  BY <1>1, <1>5, <1>9, Counted, SnapshotsAssumption
<1> QED BY <1>3, <1>6, <1>10, <1>11, <1>12, <1>13, <1>14, <1>15, Recounted


\* A step that moves no reference.
LEMMA QuietRefs ==
  ASSUME RefInv, TypeOK', ThreadsOrderly', UNCHANGED <<docs, gws, ws, todo>>,
         \A s \in Snap : snap'[s].refs = snap[s].refs,
         \A q \in Query : ctx'[q].prev = ctx[q].prev /\ ctx'[q].ws = ctx[q].ws,
         \A v \in Diag : diag'[v].pending = diag[v].pending /\ diag'[v].running = diag[v].running
  PROVE  RefInv'
<1>1. \A x : /\ CurrentIn(x)' = CurrentIn(x) /\ PreviousIn(x)' = PreviousIn(x)
             /\ MemberOf(x)' = MemberOf(x)
             /\ PreviousOf(x)' = PreviousOf(x) /\ PinnedBy(x)' = PinnedBy(x)
             /\ PendingAt(x)' = PendingAt(x) /\ RunningAt(x)' = RunningAt(x)
  BY UnchangedCounts DEF PreviousOf, PinnedBy, PendingAt, RunningAt
<1>2. AllFinite(todo') /\ \A op, x : Count(todo', op, x) = Count(todo, op, x)
  BY CountsNat, UnchangedCounts
<1>3. /\ \A x \in Snap : SnapHolders(x)' = SnapHolders(x)
      /\ \A x \in Ws : WsHolders(x)' = WsHolders(x)
  BY <1>1, <1>2, HolderSums
<1>4. FreeWsEmpty'
  BY Counted DEF FreeWsEmpty
<1> QED BY <1>2, <1>3, <1>4, Counted, Recounted

\* ws_acquire(b) counts one more holder of b, which has one already.
LEMMA AcquireWs ==
  ASSUME RefInv, NEW b \in Ws \cup {Nil}, ws' = ws_acquire(ws, b)
  PROVE  /\ ws' \in [Ws -> [refs : (Nat \cup {Nil}), docs : [Doc -> Snap \cup {Nil}]]]
            \/ (b # Nil /\ ws[b].refs = Nil)
         /\ \A x \in Ws : ws'[x].docs = ws[x].docs /\ (x # b => ws'[x].refs = ws[x].refs)
         /\ b # Nil => ws'[b].refs = ws[b].refs + 1
<1>1. ws \in [Ws -> [refs : (Nat \cup {Nil}), docs : [Doc -> Snap \cup {Nil}]]]
  BY Counted DEF TypeOK, WorkspaceSnapshot
<1>2. CASE b = Nil
  BY <1>1, <1>2, SnapshotsAssumption DEF ws_acquire
<1>3. CASE b # Nil
  <2>1. b \in Ws /\ ws' = [ws EXCEPT ![b].refs = ws[b].refs + 1]
    BY <1>3 DEF ws_acquire
  <2>2. /\ \A x \in Ws : ws'[x].docs = ws[x].docs /\ (x # b => ws'[x] = ws[x])
        /\ ws'[b] = [ws[b] EXCEPT !.refs = ws[b].refs + 1]
        /\ ws'[b].refs = ws[b].refs + 1
    BY <1>1, <2>1
  <2>3. ASSUME ws[b].refs # Nil
        PROVE  ws' \in [Ws -> [refs : (Nat \cup {Nil}), docs : [Doc -> Snap \cup {Nil}]]]
    <3>1. ws[b].refs \in Nat
      BY <1>1, <2>1, <2>3
    <3>2. ws[b].refs + 1 \in Nat \cup {Nil}
      BY <3>1
    <3> QED BY <1>1, <2>1, <3>2
  <2> QED BY <1>3, <2>2, <2>3
<1> QED BY <1>2, <1>3

\* A step of or on a diagnostics worker v: a is released later, b acquired.
DiagMove(v, r, a, b) ==
  /\ r \in DiagWorker /\ diag' = [diag EXCEPT ![v] = r]
  /\ a \in Ws \cup {Nil} /\ b \in Ws \cup {Nil} /\ (b # Nil => b = gws)
  /\ UNCHANGED <<docs, gws, snap, bufs, recycle, memos, ctx>>
  /\ ws' = ws_acquire(ws, b)
  /\ coord' \in [pc : {"idle", "edit", "update"}, left : SUBSET Diag, lock : Diag \cup {Nil}]
  /\ todo' \in [Thread -> Seq(Instr)] /\ AllFinite(todo')
  /\ \A x \in Obj : /\ Count(todo', "drop", x) = Count(todo, "drop", x) + Eq(a, x)
                    /\ Count(todo', "free", x) = Count(todo, "free", x)
  /\ \A x \in Ws : Eq(r.pending, x) + Eq(r.running, x) + Eq(a, x)
                     = Eq(diag[v].pending, x) + Eq(diag[v].running, x) + Eq(b, x)
  /\ ThreadsOrderly'

LEMMA DiagRefs ==
  ASSUME RefInv, NEW v \in Diag, NEW r, NEW a, NEW b, DiagMove(v, r, a, b)
  PROVE  RefInv'
<1> USE DEF DiagMove
<1>0. TypeOK
  BY Counted
<1>1. /\ b # Nil => ws[b].refs \in Nat /\ ws[b].refs >= 1 /\ Nil \notin Nat
  BY HeldWs, SnapshotsAssumption
<1>2. /\ ws' \in [Ws -> WorkspaceSnapshot]
      /\ \A x \in Ws : ws'[x].docs = ws[x].docs /\ (x # b => ws'[x].refs = ws[x].refs)
      /\ b # Nil => ws'[b].refs = ws[b].refs + 1
  <2>1. ~ (b # Nil /\ ws[b].refs = Nil)
    BY <1>1
  <2> QED BY <2>1, AcquireWs DEF WorkspaceSnapshot
<1>3. TypeOK'
  BY <1>0, <1>2 DEF TypeOK
<1>4. \A x : /\ CurrentIn(x)' = CurrentIn(x) /\ PreviousIn(x)' = PreviousIn(x)
             /\ MemberOf(x)' = MemberOf(x)
             /\ PreviousOf(x)' = PreviousOf(x) /\ PinnedBy(x)' = PinnedBy(x)
  BY <1>2, UnchangedCounts DEF MemberOf
<1>5. \A x \in Snap : SnapHolders(x)' = SnapHolders(x)
                      /\ Count(todo', "free", x) = Count(todo, "free", x)
  <2> SUFFICES ASSUME NEW x \in Snap
               PROVE  SnapHolders(x)' = SnapHolders(x)
                      /\ Count(todo', "free", x) = Count(todo, "free", x)
    OBVIOUS
  <2>1. x \in Obj /\ Eq(a, x) = 0
    BY SnapshotsAssumption DEF Obj, Eq
  <2>2. Count(todo', "drop", x) = Count(todo, "drop", x)
        /\ Count(todo', "free", x) = Count(todo, "free", x)
    BY <2>1, SnapSum
  <2> QED BY <1>4, <2>2, HolderSums
<1>6. ASSUME NEW x \in Ws
      PROVE  /\ WsHolders(x)' = WsHolders(x) + Eq(b, x)
             /\ Count(todo', "free", x) = Count(todo, "free", x)
  <2>1. /\ x \in Obj /\ Eq(a, x) \in Nat /\ Eq(b, x) \in Nat
        /\ Eq(r.pending, x) \in Nat /\ Eq(r.running, x) \in Nat
        /\ Eq(diag[v].pending, x) \in Nat /\ Eq(diag[v].running, x) \in Nat
        /\ Eq(gws', x) = Eq(gws, x) /\ Eq(gws, x) \in Nat
    BY DEF Obj, Eq
  <2>2. /\ Cardinality(PendingAt(x)') \in Nat /\ Cardinality(RunningAt(x)') \in Nat
        /\ Cardinality(PendingAt(x)') + Eq(diag[v].pending, x)
              = Cardinality(PendingAt(x)) + Eq(r.pending, x)
        /\ Cardinality(RunningAt(x)') + Eq(diag[v].running, x)
              = Cardinality(RunningAt(x)) + Eq(r.running, x)
    BY <1>0, DiagCounts
  <2>3. /\ PinnedBy(x)' = PinnedBy(x)
        /\ Count(todo', "drop", x) = Count(todo, "drop", x) + Eq(a, x)
        /\ Count(todo', "free", x) = Count(todo, "free", x)
        /\ Eq(r.pending, x) + Eq(r.running, x) + Eq(a, x)
             = Eq(diag[v].pending, x) + Eq(diag[v].running, x) + Eq(b, x)
    BY <1>4, <2>1
  <2>4. /\ Cardinality(PinnedBy(x)) \in Nat /\ Cardinality(PendingAt(x)) \in Nat
        /\ Cardinality(RunningAt(x)) \in Nat /\ Count(todo, "drop", x) \in Nat
        /\ WsHolders(x) =
              Eq(gws, x) + Cardinality(PinnedBy(x)) + Cardinality(PendingAt(x))
                + Cardinality(RunningAt(x)) + Count(todo, "drop", x)
        /\ WsHolders(x)' =
              Eq(gws', x) + Cardinality(PinnedBy(x)') + Cardinality(PendingAt(x)')
                + Cardinality(RunningAt(x)') + Count(todo', "drop", x)
    BY WsSum
  <2> QED BY ONLY <2>1, <2>2, <2>3, <2>4
<1>7. ASSUME NEW x \in Ws
      PROVE  /\ WsHolders(x)' = IF ws'[x].refs = Nil THEN 0 ELSE ws'[x].refs
             /\ Count(todo', "free", x) = IF ws'[x].refs = 0 THEN 1 ELSE 0
  <2>1. /\ WsHolders(x) = IF ws[x].refs = Nil THEN 0 ELSE ws[x].refs
        /\ Count(todo, "free", x) = IF ws[x].refs = 0 THEN 1 ELSE 0
        /\ ws[x].refs \in Nat \cup {Nil} /\ Nil \notin Nat /\ x # Nil
    BY Counted, SnapshotsAssumption
  <2>2. /\ WsHolders(x)' = WsHolders(x) + Eq(b, x)
        /\ Count(todo', "free", x) = Count(todo, "free", x)
    BY <1>6
  <2>3. CASE x = b
    <3>1. Eq(b, x) = 1 /\ ws'[x].refs = ws[x].refs + 1 /\ ws[x].refs \in Nat /\ ws[x].refs >= 1
      BY <1>1, <1>2, <2>1, <2>3 DEF Eq
    <3> QED BY ONLY <2>1, <2>2, <3>1
  <2>4. CASE x # b
    <3>1. Eq(b, x) = 0 /\ ws'[x].refs = ws[x].refs
      BY <1>2, <2>4 DEF Eq
    <3> QED BY ONLY <2>1, <2>2, <3>1
  <2> QED BY <2>3, <2>4
<1>8. FreeWsEmpty'
  <2> SUFFICES ASSUME NEW x \in Ws, NEW d \in Doc, ws'[x].refs = Nil
               PROVE  ws'[x].docs[d] = Nil
    BY DEF FreeWsEmpty
  <2>1. ws[x].refs = Nil
    <3>1. CASE x = b
      <4>1. b # Nil /\ ws'[x].refs \in Nat /\ Nil \notin Nat
        BY <1>1, <1>2, <3>1, SnapshotsAssumption
      <4> QED BY <4>1
    <3>2. CASE x # b
      BY <1>2, <3>2
    <3> QED BY <3>1, <3>2
  <2> QED BY <1>2, <2>1, Counted DEF FreeWsEmpty
<1> QED BY <1>3, <1>5, <1>7, <1>8, Counted, Recounted


LEMMA DiagRequestRefs ==
  ASSUME RefInv, NEW v \in Diag, DiagRequest(v)
  PROVE  RefInv'
<1> DEFINE q == diag[v]
           r == [q EXCEPT !.pending = gws, !.pc = IF q.pc = "off" THEN "wait" ELSE q.pc]
<1>0. TypeOK /\ Coord \in Thread /\ todo[Coord] = <<>> /\ Coord \notin Diag \cup Query
  BY SnapshotsAssumption DEF RefInv, ReferencesCounted, Thread, DiagRequest, CoordFree
<1>1. q \in DiagWorker /\ q.pc # "exit" /\ gws \in Ws \cup {Nil}
  BY <1>0 DEF TypeOK, DiagRequest
<1>2. /\ r \in DiagWorker /\ r.pending = gws /\ r.running = q.running
      /\ r.pc \notin {"off", "exit"} /\ (r.pc = "run" <=> q.pc = "run")
      /\ q.pending \in Ws \cup {Nil}
  BY <1>1 DEF DiagWorker
<1>3. /\ diag' = [diag EXCEPT ![v] = r]
      /\ todo' = [todo EXCEPT ![Coord] = Drop(q.pending)]
  BY <1>0 DEF DiagRequest, TypeOK
<1>4. /\ UNCHANGED <<docs, gws, snap, bufs, recycle, memos, ctx>>
      /\ ws' = ws_acquire(ws, gws)
  BY DEF DiagRequest
<1>5. coord' \in [pc : {"idle", "edit", "update"}, left : SUBSET Diag, lock : Diag \cup {Nil}]
  BY <1>0 DEF DiagRequest, TypeOK
<1> HIDE DEF q, r
<1>6. /\ todo' \in [Thread -> Seq(Instr)] /\ AllFinite(todo')
      /\ \A u \in Thread : u # Coord => todo'[u] = todo[u]
      /\ \A x \in Obj : /\ Count(todo', "drop", x) = Count(todo, "drop", x) + Eq(q.pending, x)
                        /\ Count(todo', "free", x) = Count(todo, "free", x)
  <2>1. q.pending \in Obj \cup {Nil}
    BY <1>2 DEF Obj
  <2> QED BY <1>0, <1>3, <2>1, StackDrop
<1>7. \A x \in Ws : Eq(r.pending, x) + Eq(r.running, x) + Eq(q.pending, x)
                      = Eq(q.pending, x) + Eq(q.running, x) + Eq(gws, x)
  BY <1>2 DEF Eq
<1>8. ThreadsOrderly'
  <2>1. \A u \in Diag : diag'[u] = IF u = v THEN r ELSE diag[u]
    BY <1>0, <1>3 DEF TypeOK
  <2>2. \A u \in Diag \cup Query : todo'[u] = todo[u]
    BY <1>0, <1>6 DEF Thread
  <2>3. ThreadsOrderly
    BY Counted
  <2> QED BY <1>1, <1>2, <1>4, <2>1, <2>2, <2>3 DEF ThreadsOrderly, q
<1>9. /\ gws # Nil => gws = gws
      /\ \A x \in Ws : Eq(r.pending, x) + Eq(r.running, x) + Eq(q.pending, x)
                          = Eq(diag[v].pending, x) + Eq(diag[v].running, x) + Eq(gws, x)
  BY <1>7 DEF q
<1>10. DiagMove(v, r, q.pending, gws)
  BY <1>1, <1>2, <1>3, <1>4, <1>5, <1>6, <1>8, <1>9 DEF DiagMove
<1> QED BY <1>10, DiagRefs

\* A step of worker v itself: all it defers is the release of a.
WorkerMove(v, r, a) ==
  /\ r \in DiagWorker /\ diag' = [diag EXCEPT ![v] = r]
  /\ a \in Ws \cup {Nil} /\ todo[v] = <<>> /\ todo' = [todo EXCEPT ![v] = Drop(a)]
  /\ UNCHANGED <<docs, gws, snap, ws, bufs, recycle, memos, ctx, coord>>
  /\ \A x \in Ws : Eq(r.pending, x) + Eq(r.running, x) + Eq(a, x)
                     = Eq(diag[v].pending, x) + Eq(diag[v].running, x)
  /\ r.pc = "run" => a = Nil
  /\ r.pc \in {"off", "exit"} => r.pending = Nil
  /\ r.pc # "run" => r.running = Nil

LEMMA WorkerRefs ==
  ASSUME RefInv, NEW v \in Diag, NEW r, NEW a, WorkerMove(v, r, a)
  PROVE  RefInv'
<1> USE DEF WorkerMove
<1>0. TypeOK /\ v \in Thread /\ v \notin Query /\ Nil \in Ws \cup {Nil} /\ Nil \notin Ws
  BY SnapshotsAssumption DEF RefInv, ReferencesCounted, Thread
<1>1. ws' = ws_acquire(ws, Nil) /\ (Nil # Nil => Nil = gws)
  BY DEF ws_acquire
<1>2. coord' \in [pc : {"idle", "edit", "update"}, left : SUBSET Diag, lock : Diag \cup {Nil}]
  BY <1>0 DEF TypeOK
<1>3. /\ todo' \in [Thread -> Seq(Instr)] /\ AllFinite(todo')
      /\ \A u \in Thread : u # v => todo'[u] = todo[u]
      /\ \A x \in Obj : /\ Count(todo', "drop", x) = Count(todo, "drop", x) + Eq(a, x)
                        /\ Count(todo', "free", x) = Count(todo, "free", x)
  <2>1. a \in Obj \cup {Nil}
    BY DEF Obj
  <2> QED BY <1>0, <2>1, StackDrop
<1>4. \A x \in Ws : Eq(r.pending, x) + Eq(r.running, x) + Eq(a, x)
                      = Eq(diag[v].pending, x) + Eq(diag[v].running, x) + Eq(Nil, x)
  BY <1>0 DEF Eq
<1>5. ThreadsOrderly'
  <2>1. \A u \in Diag : diag'[u] = IF u = v THEN r ELSE diag[u]
    BY <1>0 DEF TypeOK
  <2>2. \A u \in Diag \cup Query : u # v => todo'[u] = todo[u]
    BY <1>3 DEF Thread
  <2>3. r.pc = "run" => todo'[v] = <<>>
    BY <1>0 DEF TypeOK, Drop
  <2>4. ThreadsOrderly
    BY Counted
  <2> QED BY <1>0, <2>1, <2>2, <2>3, <2>4 DEF ThreadsOrderly
<1>6. UNCHANGED <<docs, gws, snap, bufs, recycle, memos, ctx>>
  OBVIOUS
<1>7. DiagMove(v, r, a, Nil)
  BY <1>0, <1>1, <1>2, <1>3, <1>4, <1>5, <1>6 DEF DiagMove
<1> QED BY <1>7, DiagRefs

LEMMA RunDiagRefs ==
  ASSUME RefInv, NEW v \in Diag, RunDiag(v)
  PROVE  RefInv'
<1> DEFINE q == diag[v]
<1>0. TypeOK /\ ThreadsOrderly /\ v \in Thread /\ Nil \notin Ws
  BY Counted, SnapshotsAssumption DEF Thread
<1>1. q \in DiagWorker /\ q.pending \in Ws \cup {Nil} /\ q.running \in Ws \cup {Nil}
  BY <1>0 DEF TypeOK, DiagWorker
<1>2. /\ q.pc = "run" => todo[v] = <<>>
      /\ q.pc # "run" => q.running = Nil
  BY <1>0 DEF ThreadsOrderly
<1>3. \A x \in Ws : Eq(Nil, x) = 0 /\ \A y : Eq(y, x) \in Nat
  BY <1>0 DEF Eq
<1>4. CASE DiagTake(v)
  <2> DEFINE r == [q EXCEPT !.pc = "run", !.running = q.pending, !.pending = Nil]
  <2>1. /\ r \in DiagWorker /\ r.pc = "run" /\ r.running = q.pending /\ r.pending = Nil
        /\ q.running = Nil
    BY <1>1, <1>2, <1>4 DEF DiagWorker, DiagTake
  <2>2. diag' = [diag EXCEPT ![v] = r] /\ todo[v] = <<>>
        /\ UNCHANGED <<docs, gws, snap, ws, bufs, recycle, memos, ctx, coord, todo>>
    BY <1>0, <1>4 DEF DiagTake, TypeOK
  <2>3. todo' = [todo EXCEPT ![v] = Drop(Nil)]
    BY <1>0, <2>2 DEF TypeOK, Drop
  <2> HIDE DEF r, q
  <2>4. \A x \in Ws : Eq(r.pending, x) + Eq(r.running, x) + Eq(Nil, x)
                        = Eq(q.pending, x) + Eq(q.running, x)
    BY <1>3, <2>1
  <2>5. UNCHANGED <<docs, gws, snap, ws, bufs, recycle, memos, ctx, coord>> /\ Nil \in Ws \cup {Nil}
    BY <2>2
  <2>6. WorkerMove(v, r, Nil)
    BY <2>1, <2>2, <2>3, <2>4, <2>5 DEF WorkerMove, q
  <2> QED BY <2>6, WorkerRefs
<1>5. CASE DiagRan(v)
  <2> DEFINE r == [q EXCEPT !.pc = "wait", !.running = Nil]
  <2>1. /\ r \in DiagWorker /\ r.pc = "wait" /\ r.running = Nil /\ r.pending = q.pending
        /\ todo[v] = <<>>
    BY <1>1, <1>2, <1>5 DEF DiagWorker, DiagRan
  <2>2. diag' = [diag EXCEPT ![v] = r] /\ todo' = [todo EXCEPT ![v] = Drop(q.running)]
        /\ UNCHANGED <<docs, gws, snap, ws, bufs, recycle, memos, ctx, coord>>
    BY <1>0, <1>5 DEF DiagRan, TypeOK
  <2> HIDE DEF r, q
  <2>4. \A x \in Ws : Eq(r.pending, x) + Eq(r.running, x) + Eq(q.running, x)
                        = Eq(q.pending, x) + Eq(q.running, x)
    BY <1>3, <2>1
  <2>5. \A x \in Ws : Eq(r.pending, x) + Eq(r.running, x) + Eq(q.running, x)
                        = Eq(diag[v].pending, x) + Eq(diag[v].running, x)
    BY <2>4 DEF q
  <2>6. WorkerMove(v, r, q.running)
    BY <1>1, <2>1, <2>2, <2>5 DEF WorkerMove
  <2> QED BY <2>6, WorkerRefs
<1>6. CASE DiagStop(v)
  <2> DEFINE r == [q EXCEPT !.pc = "exit", !.pending = Nil]
  <2>1. /\ r \in DiagWorker /\ r.pc = "exit" /\ r.running = q.running /\ r.pending = Nil
        /\ todo[v] = <<>> /\ q.running = Nil
    BY <1>1, <1>2, <1>6 DEF DiagWorker, DiagStop
  <2>2. diag' = [diag EXCEPT ![v] = r] /\ todo' = [todo EXCEPT ![v] = Drop(q.pending)]
        /\ UNCHANGED <<docs, gws, snap, ws, bufs, recycle, memos, ctx, coord>>
    BY <1>0, <1>6 DEF DiagStop, StopReleases, TypeOK
  <2> HIDE DEF r, q
  <2>4. \A x \in Ws : Eq(r.pending, x) + Eq(r.running, x) + Eq(q.pending, x)
                        = Eq(q.pending, x) + Eq(q.running, x)
    BY <1>3, <2>1
  <2>5. \A x \in Ws : Eq(r.pending, x) + Eq(r.running, x) + Eq(q.pending, x)
                        = Eq(diag[v].pending, x) + Eq(diag[v].running, x)
    BY <2>4 DEF q
  <2>6. WorkerMove(v, r, q.pending)
    BY <1>1, <2>1, <2>2, <2>5 DEF WorkerMove
  <2> QED BY <2>6, WorkerRefs
<1> QED BY <1>4, <1>5, <1>6 DEF RunDiag


LEMMA AcquireSnap ==
  ASSUME RefInv, NEW b \in Snap \cup {Nil}, b # Nil => snap[b].refs \in Nat,
         snap' = docsnap_acquire(snap, b)
  PROVE  /\ snap' \in [Snap -> DocSnapshot]
         /\ \A x \in Snap : x # b => snap'[x].refs = snap[x].refs
         /\ b # Nil => snap'[b].refs = snap[b].refs + 1
<1>1. snap \in [Snap -> DocSnapshot]
  BY Counted DEF TypeOK
<1>2. CASE b = Nil
  BY <1>1, <1>2, SnapshotsAssumption DEF docsnap_acquire
<1>3. CASE b # Nil
  <2>1. b \in Snap /\ snap' = [snap EXCEPT ![b].refs = snap[b].refs + 1]
    BY <1>3 DEF docsnap_acquire
  <2>2. snap[b].refs + 1 \in Nat \cup {Nil}
    BY <1>3
  <2> QED BY <1>1, <2>1, <2>2 DEF DocSnapshot
<1> QED BY <1>2, <1>3

LEMMA PinRefs ==
  ASSUME RefInv, NEW q \in Query, NEW d \in Doc \cup {Nil}, Pin(q, d)
  PROVE  RefInv'
<1> DEFINE p == IF d = Nil THEN Nil ELSE docs[d].prev
           r == [NoCtx EXCEPT !.pc = "run", !.ws = gws, !.prev = p, !.primary = d]
<1>0. TypeOK /\ ThreadsOrderly /\ Nil \notin Snap /\ Nil \notin Ws /\ Nil \notin Nat
  BY Counted, SnapshotsAssumption
<1>1. /\ p \in Snap \cup {Nil} /\ gws \in Ws \cup {Nil}
      /\ p # Nil => snap[p].refs \in Nat /\ snap[p].refs >= 1
      /\ gws # Nil => ws[gws].refs \in Nat /\ ws[gws].refs >= 1
  <2>1. p \in Snap \cup {Nil} /\ gws \in Ws \cup {Nil}
    BY <1>0 DEF TypeOK, Document
  <2>2. ASSUME p # Nil PROVE snap[p].refs \in Nat /\ snap[p].refs >= 1
    <3>1. p \in Snap /\ d \in Doc /\ docs[d].prev = p
      BY <2>1, <2>2
    <3> QED BY <3>1, HeldSnap
  <2>3. ASSUME gws # Nil PROVE ws[gws].refs \in Nat /\ ws[gws].refs >= 1
    BY <2>1, <2>3, HeldWs
  <2> QED BY <2>1, <2>2, <2>3
<1>2. /\ snap' = docsnap_acquire(snap, p) /\ ws' = ws_acquire(ws, gws)
      /\ ctx' = [ctx EXCEPT ![q] = r] /\ ctx[q].pc = "none" /\ todo[q] = <<>>
      /\ UNCHANGED <<docs, gws, bufs, recycle, memos, diag, coord, todo>>
  BY DEF Pin
<1>3. /\ r \in QueryContext /\ r.ws = gws /\ r.prev = p /\ r.pc = "run"
  BY <1>1 DEF QueryContext, NoCtx
<1>4. ctx[q].ws = Nil /\ ctx[q].prev = Nil
  BY <1>0, <1>2 DEF ThreadsOrderly, NoCtx
<1> HIDE DEF p, r
<1>5. /\ snap' \in [Snap -> DocSnapshot]
      /\ \A x \in Snap : x # p => snap'[x].refs = snap[x].refs
      /\ p # Nil => snap'[p].refs = snap[p].refs + 1
  BY <1>1, <1>2, AcquireSnap
<1>6. /\ ws' \in [Ws -> WorkspaceSnapshot]
      /\ \A x \in Ws : ws'[x].docs = ws[x].docs /\ (x # gws => ws'[x].refs = ws[x].refs)
      /\ gws # Nil => ws'[gws].refs = ws[gws].refs + 1
  <2>1. ~ (gws # Nil /\ ws[gws].refs = Nil)
    BY <1>0, <1>1
  <2> QED BY <1>1, <1>2, <2>1, AcquireWs DEF WorkspaceSnapshot
<1>7. TypeOK'
  BY <1>0, <1>2, <1>3, <1>5, <1>6 DEF TypeOK
<1>8. /\ \A x : /\ CurrentIn(x)' = CurrentIn(x) /\ PreviousIn(x)' = PreviousIn(x)
                /\ MemberOf(x)' = MemberOf(x)
                /\ PendingAt(x)' = PendingAt(x) /\ RunningAt(x)' = RunningAt(x)
      /\ \A op, x : Count(todo', op, x) = Count(todo, op, x)
      /\ AllFinite(todo')
  BY <1>2, <1>6, UnchangedCounts, CountsNat DEF MemberOf
<1>9. ASSUME NEW x \in Snap
      PROVE  /\ SnapHolders(x)' = IF snap'[x].refs = Nil THEN 0 ELSE snap'[x].refs
             /\ Count(todo', "free", x) = IF snap'[x].refs = 0 THEN 1 ELSE 0
  <2>1. Eq(p, x) \in Nat /\ Eq(Nil, x) = 0
    BY <1>0 DEF Eq
  <2>2. /\ Cardinality(PreviousOf(x)') \in Nat
        /\ Cardinality(PreviousOf(x)') + Eq(Nil, x) = Cardinality(PreviousOf(x)) + Eq(p, x)
    BY <1>0, <1>2, <1>3, <1>4, CtxCounts
  <2>3. /\ CurrentIn(x)' = CurrentIn(x) /\ PreviousIn(x)' = PreviousIn(x)
        /\ MemberOf(x)' = MemberOf(x)
        /\ Count(todo', "drop", x) = Count(todo, "drop", x)
        /\ Count(todo', "free", x) = Count(todo, "free", x)
    BY <1>8
  <2>4. /\ Cardinality(CurrentIn(x)) \in Nat /\ Cardinality(PreviousIn(x)) \in Nat
        /\ Cardinality(MemberOf(x)) \in Nat /\ Cardinality(PreviousOf(x)) \in Nat
        /\ Count(todo, "drop", x) \in Nat
        /\ SnapHolders(x) =
              Cardinality(CurrentIn(x)) + Cardinality(PreviousIn(x)) + Cardinality(MemberOf(x))
                + Cardinality(PreviousOf(x)) + Count(todo, "drop", x)
        /\ SnapHolders(x)' =
              Cardinality(CurrentIn(x)') + Cardinality(PreviousIn(x)') + Cardinality(MemberOf(x)')
                + Cardinality(PreviousOf(x)') + Count(todo', "drop", x)
    BY SnapSum
  <2>5. SnapHolders(x)' = SnapHolders(x) + Eq(p, x)
    BY ONLY <2>1, <2>2, <2>3, <2>4
  <2>6. /\ SnapHolders(x) = IF snap[x].refs = Nil THEN 0 ELSE snap[x].refs
        /\ Count(todo, "free", x) = IF snap[x].refs = 0 THEN 1 ELSE 0
        /\ snap[x].refs \in Nat \cup {Nil} /\ Nil \notin Nat /\ x # Nil
    BY <1>0, Counted
  <2>7. CASE x = p
    <3>1. Eq(p, x) = 1 /\ snap'[x].refs = snap[x].refs + 1 /\ snap[x].refs \in Nat /\ snap[x].refs >= 1
      BY <1>1, <1>5, <2>6, <2>7 DEF Eq
    <3> QED BY ONLY <2>3, <2>5, <2>6, <3>1
  <2>8. CASE x # p
    <3>1. Eq(p, x) = 0 /\ snap'[x].refs = snap[x].refs
      BY <1>5, <2>8 DEF Eq
    <3> QED BY ONLY <2>3, <2>5, <2>6, <3>1
  <2> QED BY <2>7, <2>8
<1>10. ASSUME NEW x \in Ws
       PROVE  /\ WsHolders(x)' = IF ws'[x].refs = Nil THEN 0 ELSE ws'[x].refs
              /\ Count(todo', "free", x) = IF ws'[x].refs = 0 THEN 1 ELSE 0
              /\ ws'[x].refs = Nil => ws[x].refs = Nil
  <2>1. Eq(gws, x) \in Nat /\ Eq(Nil, x) = 0 /\ Eq(gws', x) = Eq(gws, x)
    BY <1>0, <1>2 DEF Eq
  <2>2. /\ Cardinality(PinnedBy(x)') \in Nat
        /\ Cardinality(PinnedBy(x)') + Eq(Nil, x) = Cardinality(PinnedBy(x)) + Eq(gws, x)
    BY <1>0, <1>2, <1>3, <1>4, CtxCounts
  <2>3. /\ PendingAt(x)' = PendingAt(x) /\ RunningAt(x)' = RunningAt(x)
        /\ Count(todo', "drop", x) = Count(todo, "drop", x)
        /\ Count(todo', "free", x) = Count(todo, "free", x)
    BY <1>8
  <2>4. /\ Cardinality(PinnedBy(x)) \in Nat /\ Cardinality(PendingAt(x)) \in Nat
        /\ Cardinality(RunningAt(x)) \in Nat /\ Count(todo, "drop", x) \in Nat
        /\ WsHolders(x) =
              Eq(gws, x) + Cardinality(PinnedBy(x)) + Cardinality(PendingAt(x))
                + Cardinality(RunningAt(x)) + Count(todo, "drop", x)
        /\ WsHolders(x)' =
              Eq(gws', x) + Cardinality(PinnedBy(x)') + Cardinality(PendingAt(x)')
                + Cardinality(RunningAt(x)') + Count(todo', "drop", x)
    BY WsSum
  <2>5. WsHolders(x)' = WsHolders(x) + Eq(gws, x)
    BY ONLY <2>1, <2>2, <2>3, <2>4
  <2>6. /\ WsHolders(x) = IF ws[x].refs = Nil THEN 0 ELSE ws[x].refs
        /\ Count(todo, "free", x) = IF ws[x].refs = 0 THEN 1 ELSE 0
        /\ ws[x].refs \in Nat \cup {Nil} /\ Nil \notin Nat /\ x # Nil
    BY <1>0, Counted
  <2>7. CASE x = gws
    <3>1. Eq(gws, x) = 1 /\ ws'[x].refs = ws[x].refs + 1 /\ ws[x].refs \in Nat /\ ws[x].refs >= 1
      BY <1>1, <1>6, <2>6, <2>7 DEF Eq
    <3> QED BY ONLY <2>3, <2>5, <2>6, <3>1
  <2>8. CASE x # gws
    <3>1. Eq(gws, x) = 0 /\ ws'[x].refs = ws[x].refs
      BY <1>6, <2>8 DEF Eq
    <3> QED BY ONLY <2>3, <2>5, <2>6, <3>1
  <2> QED BY <2>7, <2>8
<1>11. ThreadsOrderly'
  <2>1. \A u \in Query : ctx'[u] = IF u = q THEN r ELSE ctx[u]
    BY <1>0, <1>2 DEF TypeOK
  <2> QED BY <1>0, <1>2, <1>3, <2>1 DEF ThreadsOrderly
<1>12. FreeWsEmpty'
  BY <1>6, <1>10, Counted DEF FreeWsEmpty
<1> QED BY <1>7, <1>8, <1>9, <1>10, <1>11, <1>12, Recounted

LEMMA FinishRefs ==
  ASSUME RefInv, NEW q \in Query, Finish(q)
  PROVE  RefInv'
<1> DEFINE g == ctx[q].ws  p == ctx[q].prev
<1>0. TypeOK /\ ThreadsOrderly /\ q \in Thread /\ Nil \notin Snap \cup Ws /\ q \notin Diag
  BY Counted, SnapshotsAssumption DEF Thread
<1>1. /\ g \in Ws \cup {Nil} /\ p \in Snap \cup {Nil}
      /\ g \in Obj \cup {Nil} /\ p \in Obj \cup {Nil} /\ Snap \cap Ws = {}
  BY <1>0, SnapshotsAssumption DEF TypeOK, QueryContext, Obj
<1>2. /\ todo[q] = <<>> /\ todo' = [todo EXCEPT ![q] = Drop(g) \o Drop(p)]
      /\ ctx' = [ctx EXCEPT ![q] = NoCtx]
      /\ UNCHANGED <<docs, gws, snap, ws, bufs, recycle, memos, diag, coord>>
  BY <1>0 DEF ThreadsOrderly, Finish, query_context_free
<1>3. NoCtx \in QueryContext /\ NoCtx.ws = Nil /\ NoCtx.prev = Nil /\ NoCtx.pc = "none"
  BY DEF NoCtx, QueryContext
<1> HIDE DEF g, p
<1>4. /\ todo' \in [Thread -> Seq(Instr)] /\ AllFinite(todo')
      /\ \A u \in Thread : u # q => todo'[u] = todo[u]
      /\ \A x \in Obj :
           /\ Count(todo', "drop", x) = Count(todo, "drop", x) + Eq(g, x) + Eq(p, x)
           /\ Count(todo', "free", x) = Count(todo, "free", x)
  <2>1. todo[q] = <<>> /\ todo' = [todo EXCEPT ![q] = Drop(g) \o Drop(p)]
    BY <1>2
  <2>2. q \in Thread /\ g \in Obj \cup {Nil} /\ p \in Obj \cup {Nil}
    BY <1>0, <1>1
  <2> QED BY ONLY RefInv, <2>1, <2>2, StackDrops
<1>5. TypeOK'
  BY <1>0, <1>2, <1>3, <1>4 DEF TypeOK
<1>6. \A x : /\ CurrentIn(x)' = CurrentIn(x) /\ PreviousIn(x)' = PreviousIn(x)
             /\ MemberOf(x)' = MemberOf(x)
             /\ PendingAt(x)' = PendingAt(x) /\ RunningAt(x)' = RunningAt(x)
  BY <1>2, UnchangedCounts
<1>7. \A x : /\ Cardinality(PreviousOf(x)') \in Nat /\ Cardinality(PinnedBy(x)') \in Nat
             /\ Cardinality(PreviousOf(x)') + Eq(p, x) = Cardinality(PreviousOf(x)) + Eq(Nil, x)
             /\ Cardinality(PinnedBy(x)') + Eq(g, x) = Cardinality(PinnedBy(x)) + Eq(Nil, x)
  BY <1>0, <1>2, <1>3, CtxCounts DEF g, p
<1>8. ASSUME NEW x \in Snap
      PROVE  /\ SnapHolders(x)' = SnapHolders(x)
             /\ Count(todo', "free", x) = Count(todo, "free", x)
  <2>1. x \in Obj /\ Eq(p, x) \in Nat /\ Eq(Nil, x) = 0 /\ Eq(g, x) = 0
    BY <1>0, <1>1 DEF Eq, Obj
  <2>3. /\ CurrentIn(x)' = CurrentIn(x) /\ PreviousIn(x)' = PreviousIn(x)
        /\ MemberOf(x)' = MemberOf(x)
        /\ Cardinality(PreviousOf(x)') \in Nat
        /\ Cardinality(PreviousOf(x)') + Eq(p, x) = Cardinality(PreviousOf(x)) + Eq(Nil, x)
        /\ Count(todo', "drop", x) = Count(todo, "drop", x) + Eq(g, x) + Eq(p, x)
        /\ Count(todo', "free", x) = Count(todo, "free", x)
    BY <1>4, <1>6, <1>7, <2>1
  <2>4. /\ Cardinality(CurrentIn(x)) \in Nat /\ Cardinality(PreviousIn(x)) \in Nat
        /\ Cardinality(MemberOf(x)) \in Nat /\ Cardinality(PreviousOf(x)) \in Nat
        /\ Count(todo, "drop", x) \in Nat
        /\ SnapHolders(x) =
              Cardinality(CurrentIn(x)) + Cardinality(PreviousIn(x)) + Cardinality(MemberOf(x))
                + Cardinality(PreviousOf(x)) + Count(todo, "drop", x)
        /\ SnapHolders(x)' =
              Cardinality(CurrentIn(x)') + Cardinality(PreviousIn(x)') + Cardinality(MemberOf(x)')
                + Cardinality(PreviousOf(x)') + Count(todo', "drop", x)
    BY SnapSum
  <2> QED BY ONLY <2>1, <2>3, <2>4
<1>9. ASSUME NEW x \in Ws
      PROVE  /\ WsHolders(x)' = WsHolders(x)
             /\ Count(todo', "free", x) = Count(todo, "free", x)
  <2>1. /\ x \in Obj /\ Eq(g, x) \in Nat /\ Eq(Nil, x) = 0 /\ Eq(p, x) = 0
        /\ Eq(gws', x) = Eq(gws, x) /\ Eq(gws, x) \in Nat
    BY <1>0, <1>1, <1>2 DEF Eq, Obj
  <2>3. /\ PendingAt(x)' = PendingAt(x) /\ RunningAt(x)' = RunningAt(x)
        /\ Cardinality(PinnedBy(x)') \in Nat
        /\ Cardinality(PinnedBy(x)') + Eq(g, x) = Cardinality(PinnedBy(x)) + Eq(Nil, x)
        /\ Count(todo', "drop", x) = Count(todo, "drop", x) + Eq(g, x) + Eq(p, x)
        /\ Count(todo', "free", x) = Count(todo, "free", x)
    BY <1>4, <1>6, <1>7, <2>1
  <2>4. /\ Cardinality(PinnedBy(x)) \in Nat /\ Cardinality(PendingAt(x)) \in Nat
        /\ Cardinality(RunningAt(x)) \in Nat /\ Count(todo, "drop", x) \in Nat
        /\ WsHolders(x) =
              Eq(gws, x) + Cardinality(PinnedBy(x)) + Cardinality(PendingAt(x))
                + Cardinality(RunningAt(x)) + Count(todo, "drop", x)
        /\ WsHolders(x)' =
              Eq(gws', x) + Cardinality(PinnedBy(x)') + Cardinality(PendingAt(x)')
                + Cardinality(RunningAt(x)') + Count(todo', "drop", x)
    BY WsSum
  <2> QED BY ONLY <2>1, <2>3, <2>4
<1>10. ThreadsOrderly'
  <2>1. \A u \in Query : ctx'[u] = IF u = q THEN NoCtx ELSE ctx[u]
    BY <1>0, <1>2 DEF TypeOK
  <2>2. \A u \in Diag \cup Query : u # q => todo'[u] = todo[u]
    BY <1>4 DEF Thread
  <2> QED BY <1>0, <1>2, <1>3, <2>1, <2>2 DEF ThreadsOrderly
<1>11. FreeWsEmpty'
  BY <1>2, Counted DEF FreeWsEmpty
<1> QED BY <1>2, <1>4, <1>5, <1>8, <1>9, <1>10, <1>11, Counted, Recounted


LEMMA SemTokensRefs ==
  ASSUME RefInv, NEW q \in Query, SemTokensLoad(q) \/ SemTokensCas(q)
  PROVE  RefInv'
<1>0. TypeOK /\ ThreadsOrderly /\ Nil \notin Snap
  BY Counted, SnapshotsAssumption
<1>1. UNCHANGED <<docs, gws, ws, bufs, recycle, diag, coord, todo>>
  BY DEF SemTokensLoad, SemTokensCas
<1>2. ctx[q] \in QueryContext /\ ctx[q].pc # "none" /\ todo[q] = <<>>
  BY <1>0 DEF TypeOK, ThreadsOrderly, SemTokensLoad, SemTokensCas
<1>3. CASE SemTokensLoad(q)
  <2>1. TokenSources(q) \subseteq Snap
    <3>1. ctx[q].prev \in Snap \cup {Nil} /\ ctx[q].ws \in Ws \cup {Nil}
          /\ ctx[q].primary \in Doc \cup {Nil}
      BY <1>2 DEF QueryContext
    <3>2. \A w \in Ws, d \in Doc : ws[w].docs[d] \in Snap \cup {Nil}
      BY <1>0 DEF TypeOK, WorkspaceSnapshot
    <3> QED BY <3>1, <3>2 DEF TokenSources
  <2>2. PICK s \in TokenSources(q) :
          IF snap[s].memo # Nil
          THEN /\ ctx' = [ctx EXCEPT ![q].memo = @ \cup {snap[s].memo}]
               /\ memos' = memos
          ELSE /\ ctx' = [ctx EXCEPT ![q].pc = "cas", ![q].at = s]
               /\ memos' = memos \cup {<<q, s>>}
    BY <1>3 DEF SemTokensLoad
  <2>3. s \in Snap /\ snap[s].memo \in Memo \cup {Nil} /\ <<q, s>> \in Memo
    BY <1>0, <2>1 DEF TypeOK, DocSnapshot, Memo
  <2>4. ctx' \in [Query -> QueryContext] /\ memos' \subseteq Memo
    <3>1. CASE snap[s].memo # Nil
      <4>1. ctx' = [ctx EXCEPT ![q] = [ctx[q] EXCEPT !.memo = @ \cup {snap[s].memo}]]
        BY <1>0, <2>2, <3>1 DEF TypeOK
      <4>2. [ctx[q] EXCEPT !.memo = @ \cup {snap[s].memo}] \in QueryContext
        BY <1>2, <2>3, <3>1 DEF QueryContext
      <4> QED BY <1>0, <2>2, <3>1, <4>1, <4>2 DEF TypeOK
    <3>2. CASE snap[s].memo = Nil
      <4>1. ctx' = [ctx EXCEPT ![q] = [ctx[q] EXCEPT !.pc = "cas", !.at = s]]
        BY <1>0, <2>2, <3>2 DEF TypeOK
      <4>2. [ctx[q] EXCEPT !.pc = "cas", !.at = s] \in QueryContext
        BY <1>2, <2>3 DEF QueryContext
      <4> QED BY <1>0, <2>2, <2>3, <3>2, <4>1, <4>2 DEF TypeOK
    <3> QED BY <3>1, <3>2
  <2>5. snap' = snap
    BY <1>3 DEF SemTokensLoad
  <2>6. \A u \in Query : /\ ctx'[u].prev = ctx[u].prev /\ ctx'[u].ws = ctx[u].ws
                         /\ u # q => ctx'[u] = ctx[u]
    BY <1>0, <2>2 DEF TypeOK, QueryContext
  <2>7. ctx'[q].pc # "none" /\ (ctx'[q].pc = "cas" => ctx'[q].at # Nil)
    BY <1>0, <1>2, <1>3, <2>2, <2>3 DEF TypeOK, QueryContext, SemTokensLoad
  <2>8. TypeOK'
    BY <1>0, <1>1, <2>4, <2>5 DEF TypeOK
  <2>9. ThreadsOrderly'
    BY <1>0, <1>1, <1>2, <2>6, <2>7 DEF ThreadsOrderly
  <2> QED BY <1>1, <2>5, <2>6, <2>8, <2>9, QuietRefs
<1>4. CASE SemTokensCas(q)
  <2> DEFINE s == ctx[q].at  won == CasWins(s, <<q, s>>)
             m == IF won THEN <<q, s>> ELSE snap[s].memo
             r == [ctx[q] EXCEPT !.pc = "run", !.at = Nil, !.memo = @ \cup {m}]
  <2>1. s \in Snap /\ <<q, s>> \in Memo
    BY <1>0, <1>2, <1>4 DEF ThreadsOrderly, SemTokensCas, QueryContext, Memo
  <2>2. m \in Memo
    <3>1. snap[s].memo \in Memo \cup {Nil}
      BY <1>0, <2>1 DEF TypeOK, DocSnapshot
    <3> QED BY <2>1, <3>1 DEF CasWins
  <2>3. /\ snap' = [snap EXCEPT ![s].memo = IF won THEN <<q, s>> ELSE @]
        /\ memos' \subseteq memos /\ ctx' = [ctx EXCEPT ![q] = r]
    BY <1>0, <1>4 DEF SemTokensCas, TypeOK
  <2>4. /\ r \in QueryContext /\ r.pc = "run"
        /\ r.prev = ctx[q].prev /\ r.ws = ctx[q].ws
    <3> HIDE DEF m
    <3> QED BY <1>2, <2>2 DEF QueryContext
  <2>5. /\ snap' \in [Snap -> DocSnapshot]
        /\ \A x \in Snap : snap'[x].refs = snap[x].refs
    BY <1>0, <2>1, <2>3 DEF TypeOK, DocSnapshot
  <2> HIDE DEF r
  <2>6. \A u \in Query : ctx'[u] = IF u = q THEN r ELSE ctx[u]
    BY <1>0, <2>3 DEF TypeOK
  <2>7. TypeOK'
    BY <1>0, <1>1, <2>3, <2>4, <2>5 DEF TypeOK
  <2>8. ThreadsOrderly'
    BY <1>0, <1>1, <1>2, <2>4, <2>6 DEF ThreadsOrderly
  <2>9. \A u \in Query : ctx'[u].prev = ctx[u].prev /\ ctx'[u].ws = ctx[u].ws
    BY <2>4, <2>6
  <2> QED BY <1>1, <2>5, <2>7, <2>8, <2>9, QuietRefs
<1> QED BY <1>3, <1>4

LEMMA CoordinateQuietRefs ==
  ASSUME RefInv, \/ Revalidated \/ DiagUnlock \/ \E v \in Diag : DiagRetire(v)
  PROVE  RefInv'
<1>0. TypeOK /\ ThreadsOrderly /\ Coord \notin Diag \cup Query
  BY Counted, SnapshotsAssumption
<1>1. UNCHANGED <<docs, gws, snap, ws, bufs, recycle, memos, ctx, todo>>
  BY DEF Revalidated, DiagUnlock, DiagRetire
<1>2. coord' \in [pc : {"idle", "edit", "update"}, left : SUBSET Diag, lock : Diag \cup {Nil}]
  <2>1. CASE Revalidated
    BY <1>0, <2>1 DEF TypeOK, Revalidated
  <2>2. CASE DiagUnlock
    BY <1>0, <2>2 DEF TypeOK, DiagUnlock
  <2>3. CASE \E v \in Diag : DiagRetire(v)
    <3>1. PICK v \in Diag : coord' = [coord EXCEPT !.left = @ \ {v}, !.lock = v]
      BY <2>3 DEF DiagRetire
    <3> QED BY <1>0, <3>1 DEF TypeOK
  <2> QED BY <2>1, <2>2, <2>3
<1>3. /\ diag' \in [Diag -> DiagWorker]
      /\ \A v \in Diag : /\ diag'[v].pending = diag[v].pending
                         /\ diag'[v].running = diag[v].running
                         /\ diag'[v].pc = "run" => diag[v].pc = "run"
                         /\ diag'[v].pc \in {"off", "exit"} => diag[v].pc \in {"off", "exit"}
                         /\ diag'[v].pc # "run" => diag[v].pc # "run"
  <2>1. CASE Revalidated
    BY <1>0, <2>1 DEF TypeOK, Revalidated
  <2>2. CASE \E v \in Diag : DiagRetire(v)
    <3>1. PICK v \in Diag : diag' = [diag EXCEPT ![v].stop = TRUE]
      BY <2>2 DEF DiagRetire
    <3>2. diag \in [Diag -> DiagWorker]
      BY <1>0 DEF TypeOK
    <3>3. \A u \in Diag : diag[u] \in DiagWorker /\ u # v => diag'[u] = diag[u]
      BY <3>1, <3>2
    <3> DEFINE q == diag[v]  r == [q EXCEPT !.stop = TRUE]
    <3>4. /\ r \in DiagWorker /\ r.pending = q.pending /\ r.running = q.running /\ r.pc = q.pc
      BY <3>2 DEF DiagWorker
    <3>5. diag' = [diag EXCEPT ![v] = r]
      BY <3>1, <3>2
    <3> HIDE DEF r
    <3> QED BY <3>2, <3>4, <3>5
  <2>3. CASE DiagUnlock
    <3>1. coord.lock \in Diag
      BY <1>0, <2>3 DEF TypeOK, DiagUnlock
    <3>2. CASE diag[coord.lock].stop
      <4>1. /\ diag[coord.lock].pc = "exit" /\ diag' = [diag EXCEPT ![coord.lock] = NoDiag]
        BY <2>3, <3>2 DEF DiagUnlock
      <4>2. diag[coord.lock].pending = Nil /\ diag[coord.lock].running = Nil
        BY <1>0, <3>1, <4>1 DEF ThreadsOrderly
      <4>3. /\ NoDiag \in DiagWorker /\ NoDiag.pc = "off" /\ NoDiag.pending = Nil
            /\ NoDiag.running = Nil
        BY DEF NoDiag, DiagWorker
      <4> QED BY <1>0, <3>1, <4>1, <4>2, <4>3 DEF TypeOK
    <3>3. CASE ~ diag[coord.lock].stop
      BY <1>0, <2>3, <3>3 DEF DiagUnlock, TypeOK
    <3> QED BY <3>2, <3>3
  <2> QED BY <2>1, <2>2, <2>3
<1>4. TypeOK'
  BY <1>0, <1>1, <1>2, <1>3 DEF TypeOK
<1>5. ThreadsOrderly'
  BY <1>0, <1>1, <1>3 DEF ThreadsOrderly
<1> QED BY <1>1, <1>3, <1>4, <1>5, QuietRefs


\* The release a thread is working through, without its next instruction.
LEMMA PopNow ==
  ASSUME RefInv, NEW t \in Thread, NEW op \in Op, NEW S \in SUBSET Obj, Runs(t, op, S)
  PROVE  LET f == Pop(todo, t)  y == Top(t).obj IN
         /\ Top(t) = [op |-> op, obj |-> y] /\ y \in S
         /\ f \in Stacks /\ AllFinite(f)
         /\ f = [todo EXCEPT ![t] = Rest(t)] /\ f[t] = Rest(t) /\ Rest(t) \in Seq(Instr)
         /\ \A x \in Obj :
              /\ Count(f, "drop", x) \in Nat /\ Count(f, "free", x) \in Nat
              /\ Count(todo, "drop", x) = Count(f, "drop", x) + IF op = "drop" THEN Eq(y, x) ELSE 0
              /\ Count(todo, "free", x) = Count(f, "free", x) + IF op = "free" THEN Eq(y, x) ELSE 0
<1> DEFINE f == Pop(todo, t)  y == Top(t).obj
<1>1. todo \in Stacks /\ AllFinite(todo) /\ todo[t] # <<>> /\ Top(t).op = op /\ y \in S
  BY CountsNat DEF Runs
<1>2. /\ Top(t) \in Instr /\ f \in Stacks /\ AllFinite(f)
      /\ \A p \in Op, x \in Obj :
           /\ Count(f, p, x) \in Nat
           /\ Count(todo, p, x) = Count(f, p, x) + Eq(Top(t), [op |-> p, obj |-> x])
  BY <1>1, PopCounts DEF Top
<1>3. Top(t) = [op |-> op, obj |-> y]
  BY <1>1, <1>2 DEF Instr
<1>4. f = [todo EXCEPT ![t] = Rest(t)] /\ f[t] = Rest(t) /\ Rest(t) \in Seq(Instr)
  <2>1. f = [todo EXCEPT ![t] = Rest(t)]
    BY DEF Pop, Rest
  <2>2. f[t] = Rest(t)
    BY <1>1, <2>1 DEF Stacks
  <2> QED BY <1>2, <2>1, <2>2 DEF Stacks
<1> HIDE DEF f, y
<1>5. ASSUME NEW x \in Obj
      PROVE  /\ Count(f, "drop", x) \in Nat /\ Count(f, "free", x) \in Nat
             /\ Count(todo, "drop", x) = Count(f, "drop", x) + IF op = "drop" THEN Eq(y, x) ELSE 0
             /\ Count(todo, "free", x) = Count(f, "free", x) + IF op = "free" THEN Eq(y, x) ELSE 0
  <2>1. "drop" \in Op /\ "free" \in Op
    BY DEF Op
  <2>2. /\ Eq(Top(t), [op |-> "drop", obj |-> x]) = IF op = "drop" THEN Eq(y, x) ELSE 0
        /\ Eq(Top(t), [op |-> "free", obj |-> x]) = IF op = "free" THEN Eq(y, x) ELSE 0
    BY <1>3 DEF Eq
  <2> QED BY <1>2, <2>1, <2>2
<1> QED BY <1>1, <1>2, <1>3, <1>4, <1>5 DEF f, y

LEMMA ReleaseOrderly ==
  ASSUME RefInv, NEW t \in Thread, todo[t] # <<>>, UNCHANGED <<ctx, diag>>,
         \A u \in Thread : u # t => todo'[u] = todo[u]
  PROVE  ThreadsOrderly'
<1>1. ThreadsOrderly
  BY Counted
<1>2. /\ \A q \in Query : ctx[q].pc # "none" => todo'[q] = todo[q]
      /\ \A v \in Diag : diag[v].pc = "run" => todo'[v] = todo[v]
  BY <1>1 DEF ThreadsOrderly, Thread
<1> QED BY <1>1, <1>2 DEF ThreadsOrderly

\* docsnap_release(): one reference fewer, and the destructor's steps when it
\* was the last.
LEMMA DropSnapRefs ==
  ASSUME RefInv, NEW t \in Thread, DropSnap(t), UNCHANGED <<docs, gws, ctx, diag, coord>>
  PROVE  RefInv'
<1> DEFINE f == Pop(todo, t)  s == Top(t).obj
           F == [op |-> "free", obj |-> s]  P == [op |-> "spans", obj |-> s]
<1>0. TypeOK /\ Runs(t, "drop", Snap) /\ Snap \in SUBSET Obj /\ "drop" \in Op /\ Nil \notin Nat
  BY Counted, SnapshotsAssumption DEF DropSnap, Obj, Op
<1>1. /\ s \in Snap /\ f \in Stacks /\ AllFinite(f) /\ f[t] = Rest(t) /\ Rest(t) \in Seq(Instr)
      /\ f = [todo EXCEPT ![t] = Rest(t)]
      /\ \A x \in Obj :
           /\ Count(f, "drop", x) \in Nat /\ Count(f, "free", x) \in Nat
           /\ Count(todo, "drop", x) = Count(f, "drop", x) + Eq(s, x)
           /\ Count(todo, "free", x) = Count(f, "free", x)
  BY <1>0, PopNow
<1>2. /\ UNCHANGED <<ws, bufs, recycle, memos>> /\ todo[t] # <<>>
      /\ snap' = [snap EXCEPT ![s].refs = snap[s].refs - 1]
      /\ todo' = [todo EXCEPT ![t] = Rest(t) \o docsnap_release(s)]
  BY DEF DropSnap, Runs
<1>3. snap[s].refs \in Nat /\ snap[s].refs >= 1
  <2>1. s \in Obj /\ Eq(s, s) = 1
    BY <1>0, <1>1 DEF Eq
  <2>2. Count(todo, "drop", s) >= 1
    BY <1>1, <2>1
  <2> QED BY <1>1, <2>2, HeldSnap
<1>4. F \in Instr /\ P \in Instr
  BY <1>1 DEF Instr
<1>5. /\ todo' \in Stacks /\ AllFinite(todo')
      /\ \A x \in Obj :
           /\ Count(todo', "drop", x) = Count(f, "drop", x)
           /\ Count(todo', "free", x) =
                Count(f, "free", x) + IF snap[s].refs = 1 THEN Eq(s, x) ELSE 0
  <2>1. CASE snap[s].refs = 1
    <3> DEFINE g == Push(f, t, F)
    <3>1. /\ g \in Stacks /\ AllFinite(g)
          /\ \A op \in Op, x \in Obj :
               Count(g, op, x) = Count(f, op, x) + Eq(F, [op |-> op, obj |-> x])
      <4> HIDE DEF f, F
      <4> QED BY <1>1, <1>4, PushCounts
    <3>2. g[t] = Append(Rest(t), F)
      BY <1>1 DEF Push, Stacks
    <3> HIDE DEF g
    <3>3. /\ Push(g, t, P) \in Stacks /\ AllFinite(Push(g, t, P))
          /\ \A op \in Op, x \in Obj :
               Count(Push(g, t, P), op, x) = Count(g, op, x) + Eq(P, [op |-> op, obj |-> x])
      BY <1>4, <3>1, PushCounts
    <3>4. todo' = Push(g, t, P)
      <4>1. docsnap_release(s) = <<F, P>>
        BY <2>1 DEF docsnap_release
      <4>2. Rest(t) \o <<F, P>> = Append(Append(Rest(t), F), P)
        BY <1>1, <1>4
      <4>3. todo' = [todo EXCEPT ![t] = Append(g[t], P)]
        BY <1>2, <3>2, <4>1, <4>2
      <4>4. Push(g, t, P) = [todo EXCEPT ![t] = Append(g[t], P)]
        BY <1>1, <3>1 DEF Push, g, Stacks
      <4> QED BY <4>3, <4>4
    <3>5. ASSUME NEW x \in Obj
          PROVE  /\ Eq(F, [op |-> "drop", obj |-> x]) = 0 /\ Eq(P, [op |-> "drop", obj |-> x]) = 0
                 /\ Eq(F, [op |-> "free", obj |-> x]) = Eq(s, x)
                 /\ Eq(P, [op |-> "free", obj |-> x]) = 0 /\ Eq(s, x) \in Nat
      BY DEF Eq
    <3>6. "drop" \in Op /\ "free" \in Op
      BY DEF Op
    <3> HIDE DEF F, P
    <3>7. ASSUME NEW x \in Obj
          PROVE  /\ Count(todo', "drop", x) = Count(f, "drop", x)
                 /\ Count(todo', "free", x) = Count(f, "free", x) + Eq(s, x)
      <4>1. /\ Count(todo', "drop", x) = Count(g, "drop", x) + Eq(P, [op |-> "drop", obj |-> x])
            /\ Count(todo', "free", x) = Count(g, "free", x) + Eq(P, [op |-> "free", obj |-> x])
            /\ Count(g, "drop", x) = Count(f, "drop", x) + Eq(F, [op |-> "drop", obj |-> x])
            /\ Count(g, "free", x) = Count(f, "free", x) + Eq(F, [op |-> "free", obj |-> x])
            /\ Count(f, "drop", x) \in Nat /\ Count(f, "free", x) \in Nat
        BY <1>1, <3>1, <3>3, <3>4, <3>6
      <4> QED BY <3>5, <4>1
    <3> QED BY <2>1, <3>3, <3>4, <3>7
  <2>2. CASE snap[s].refs # 1
    <3>1. docsnap_release(s) = <<>> /\ Rest(t) \o <<>> = Rest(t)
      BY <1>1, <2>2 DEF docsnap_release
    <3>2. todo' = f
      BY <1>1, <1>2, <3>1
    <3> HIDE DEF f, s
    <3>3. ASSUME NEW x \in Obj
          PROVE  Count(f, "free", x) =
                   Count(f, "free", x) + IF snap[s].refs = 1 THEN Eq(s, x) ELSE 0
      <4>1. Count(f, "free", x) \in Nat
        BY <1>1
      <4> QED BY ONLY <2>2, <4>1
    <3> QED BY <1>1, <3>2, <3>3
  <2> QED BY <2>1, <2>2
<1>6. \A x \in Snap : snap'[x].refs = IF x = s THEN snap[s].refs - 1 ELSE snap[x].refs
  BY <1>0, <1>1, <1>2 DEF TypeOK
<1>7. TypeOK'
  <2>1. snap[s].refs - 1 \in Nat \cup {Nil}
    BY <1>3
  <2>2. snap' \in [Snap -> DocSnapshot]
    <3> HIDE DEF s
    <3>1. snap \in [Snap -> DocSnapshot] /\ s \in Snap
      BY <1>0, <1>1 DEF TypeOK
    <3>2. [snap[s] EXCEPT !.refs = snap[s].refs - 1] \in DocSnapshot
      BY <2>1, <3>1 DEF DocSnapshot
    <3>3. snap' = [snap EXCEPT ![s] = [snap[s] EXCEPT !.refs = snap[s].refs - 1]]
      BY <1>2, <3>1
    <3> QED BY <3>1, <3>2, <3>3
  <2> QED BY <1>0, <1>2, <1>5, <2>2 DEF TypeOK, Stacks
<1>8. ThreadsOrderly'
  <2>1. \A u \in Thread : u # t => todo'[u] = todo[u]
    BY <1>0, <1>2 DEF TypeOK
  <2> QED BY <1>2, <2>1, ReleaseOrderly
<1> HIDE DEF f, s
<1>9. \A x : /\ CurrentIn(x)' = CurrentIn(x) /\ PreviousIn(x)' = PreviousIn(x)
             /\ MemberOf(x)' = MemberOf(x)
             /\ PreviousOf(x)' = PreviousOf(x) /\ PinnedBy(x)' = PinnedBy(x)
             /\ PendingAt(x)' = PendingAt(x) /\ RunningAt(x)' = RunningAt(x)
  BY <1>2, UnchangedCounts
<1>10. ASSUME NEW x \in Snap
       PROVE  /\ SnapHolders(x)' = IF snap'[x].refs = Nil THEN 0 ELSE snap'[x].refs
              /\ Count(todo', "free", x) = IF snap'[x].refs = 0 THEN 1 ELSE 0
  <2>1. x \in Obj /\ Eq(s, x) \in Nat /\ Eq(s, x) = IF x = s THEN 1 ELSE 0
    BY <1>0 DEF Eq
  <2>2. /\ Count(todo', "drop", x) = Count(f, "drop", x)
        /\ Count(todo', "free", x) =
             Count(f, "free", x) + IF snap[s].refs = 1 THEN Eq(s, x) ELSE 0
        /\ Count(f, "drop", x) \in Nat /\ Count(f, "free", x) \in Nat
        /\ Count(todo, "drop", x) = Count(f, "drop", x) + Eq(s, x)
        /\ Count(todo, "free", x) = Count(f, "free", x)
    BY <1>1, <1>5, <2>1
  <2>3. /\ CurrentIn(x)' = CurrentIn(x) /\ PreviousIn(x)' = PreviousIn(x)
        /\ MemberOf(x)' = MemberOf(x) /\ PreviousOf(x)' = PreviousOf(x)
    BY <1>9
  <2>4. /\ Cardinality(CurrentIn(x)) \in Nat /\ Cardinality(PreviousIn(x)) \in Nat
        /\ Cardinality(MemberOf(x)) \in Nat /\ Cardinality(PreviousOf(x)) \in Nat
        /\ SnapHolders(x) =
              Cardinality(CurrentIn(x)) + Cardinality(PreviousIn(x)) + Cardinality(MemberOf(x))
                + Cardinality(PreviousOf(x)) + Count(todo, "drop", x)
        /\ SnapHolders(x)' =
              Cardinality(CurrentIn(x)') + Cardinality(PreviousIn(x)') + Cardinality(MemberOf(x)')
                + Cardinality(PreviousOf(x)') + Count(todo', "drop", x)
    BY SnapSum
  <2>5. SnapHolders(x)' + Eq(s, x) = SnapHolders(x) /\ SnapHolders(x)' \in Nat
    BY ONLY <2>1, <2>2, <2>3, <2>4
  <2>6. /\ SnapHolders(x) = IF snap[x].refs = Nil THEN 0 ELSE snap[x].refs
        /\ Count(todo, "free", x) = IF snap[x].refs = 0 THEN 1 ELSE 0
        /\ snap[x].refs \in Nat \cup {Nil}
    BY Counted
  <2>7. /\ snap'[x].refs = IF x = s THEN snap[s].refs - 1 ELSE snap[x].refs
        /\ snap[s].refs \in Nat /\ snap[s].refs >= 1 /\ Nil \notin Nat
    BY <1>0, <1>3, <1>6
  <2> QED BY ONLY <2>1, <2>2, <2>5, <2>6, <2>7
<1>11. ASSUME NEW x \in Ws
       PROVE  /\ WsHolders(x)' = WsHolders(x)
              /\ Count(todo', "free", x) = Count(todo, "free", x)
  <2>1. x \in Obj /\ Eq(s, x) = 0
    BY <1>1, SnapshotsAssumption DEF Eq, Obj
  <2>2. /\ Count(todo', "drop", x) = Count(todo, "drop", x)
        /\ Count(todo', "free", x) = Count(todo, "free", x)
    <3>1. /\ Count(todo', "drop", x) = Count(f, "drop", x)
          /\ Count(todo', "free", x) =
               Count(f, "free", x) + IF snap[s].refs = 1 THEN Eq(s, x) ELSE 0
          /\ Count(f, "drop", x) \in Nat /\ Count(f, "free", x) \in Nat
          /\ Count(todo, "drop", x) = Count(f, "drop", x) + Eq(s, x)
          /\ Count(todo, "free", x) = Count(f, "free", x)
      BY <1>1, <1>5, <2>1
    <3> QED BY ONLY <2>1, <3>1
  <2> QED BY <1>9, <2>2, HolderSums
<1>12. FreeWsEmpty'
  BY <1>2, Counted DEF FreeWsEmpty
<1> QED BY <1>2, <1>5, <1>7, <1>8, <1>10, <1>11, <1>12, Counted, Recounted


\* ws_release(): the same for a workspace snapshot.
LEMMA DropWsRefs ==
  ASSUME RefInv, NEW t \in Thread, DropWs(t), UNCHANGED <<docs, gws, ctx, diag, coord>>
  PROVE  RefInv'
<1> DEFINE f == Pop(todo, t)  w == Top(t).obj  F == [op |-> "free", obj |-> w]
<1>0. TypeOK /\ Runs(t, "drop", Ws) /\ Ws \in SUBSET Obj /\ "drop" \in Op /\ Nil \notin Nat
  BY Counted, SnapshotsAssumption DEF DropWs, Obj, Op
<1>1. /\ w \in Ws /\ f \in Stacks /\ AllFinite(f) /\ f[t] = Rest(t) /\ Rest(t) \in Seq(Instr)
      /\ f = [todo EXCEPT ![t] = Rest(t)]
      /\ \A x \in Obj :
           /\ Count(f, "drop", x) \in Nat /\ Count(f, "free", x) \in Nat
           /\ Count(todo, "drop", x) = Count(f, "drop", x) + Eq(w, x)
           /\ Count(todo, "free", x) = Count(f, "free", x)
  BY <1>0, PopNow
<1>2. /\ UNCHANGED <<snap, bufs, recycle, memos>> /\ todo[t] # <<>>
      /\ ws' = [ws EXCEPT ![w].refs = ws[w].refs - 1]
      /\ todo' = [todo EXCEPT ![t] = Rest(t) \o ws_release(w)]
  BY DEF DropWs, Runs
<1>3. ws[w].refs \in Nat /\ ws[w].refs >= 1
  <2>1. w \in Obj /\ Eq(w, w) = 1
    BY <1>0, <1>1 DEF Eq
  <2>2. Count(todo, "drop", w) >= 1
    BY <1>1, <2>1
  <2> QED BY <1>1, <2>2, HeldWs
<1>4. F \in Instr
  BY <1>1 DEF Instr
<1>5. /\ todo' \in Stacks /\ AllFinite(todo')
      /\ \A x \in Obj :
           /\ Count(todo', "drop", x) = Count(f, "drop", x)
           /\ Count(todo', "free", x) =
                Count(f, "free", x) + IF ws[w].refs = 1 THEN Eq(w, x) ELSE 0
  <2>1. CASE ws[w].refs = 1
    <3>1. /\ Push(f, t, F) \in Stacks /\ AllFinite(Push(f, t, F))
          /\ \A op \in Op, x \in Obj :
               Count(Push(f, t, F), op, x) = Count(f, op, x) + Eq(F, [op |-> op, obj |-> x])
      <4> HIDE DEF f, F
      <4> QED BY <1>1, <1>4, PushCounts
    <3>2. todo' = Push(f, t, F)
      <4>1. ws_release(w) = <<F>>
        BY <2>1 DEF ws_release
      <4>2. Rest(t) \o <<F>> = Append(Rest(t), F)
        BY <1>1, <1>4
      <4>3. todo' = [todo EXCEPT ![t] = Append(Rest(t), F)]
        BY <1>2, <4>1, <4>2
      <4>4. Push(f, t, F) = [todo EXCEPT ![t] = Append(Rest(t), F)]
        BY <1>1 DEF Push, Stacks
      <4> QED BY <4>3, <4>4
    <3>3. ASSUME NEW x \in Obj
          PROVE  /\ Eq(F, [op |-> "drop", obj |-> x]) = 0
                 /\ Eq(F, [op |-> "free", obj |-> x]) = Eq(w, x) /\ Eq(w, x) \in Nat
      BY DEF Eq
    <3>4. "drop" \in Op /\ "free" \in Op
      BY DEF Op
    <3> HIDE DEF F
    <3>5. ASSUME NEW x \in Obj
          PROVE  /\ Count(todo', "drop", x) = Count(f, "drop", x)
                 /\ Count(todo', "free", x) = Count(f, "free", x) + Eq(w, x)
      <4>1. /\ Count(todo', "drop", x) = Count(f, "drop", x) + Eq(F, [op |-> "drop", obj |-> x])
            /\ Count(todo', "free", x) = Count(f, "free", x) + Eq(F, [op |-> "free", obj |-> x])
            /\ Count(f, "drop", x) \in Nat /\ Count(f, "free", x) \in Nat
        BY <1>1, <3>1, <3>2, <3>4
      <4> QED BY <3>3, <4>1
    <3> QED BY <2>1, <3>1, <3>2, <3>5
  <2>2. CASE ws[w].refs # 1
    <3>1. ws_release(w) = <<>> /\ Rest(t) \o <<>> = Rest(t)
      BY <1>1, <2>2 DEF ws_release
    <3>2. todo' = f
      BY <1>1, <1>2, <3>1
    <3> HIDE DEF f, w
    <3>3. ASSUME NEW x \in Obj
          PROVE  Count(f, "free", x) =
                   Count(f, "free", x) + IF ws[w].refs = 1 THEN Eq(w, x) ELSE 0
      <4>1. Count(f, "free", x) \in Nat
        BY <1>1
      <4> QED BY ONLY <2>2, <4>1
    <3> QED BY <1>1, <3>2, <3>3
  <2> QED BY <2>1, <2>2
<1> HIDE DEF w, f
<1>6. /\ \A x \in Ws : ws'[x].refs = IF x = w THEN ws[w].refs - 1 ELSE ws[x].refs
      /\ \A x \in Ws : ws'[x].docs = ws[x].docs
      /\ ws' \in [Ws -> WorkspaceSnapshot]
  <2>1. ws \in [Ws -> WorkspaceSnapshot] /\ w \in Ws
    BY <1>0, <1>1 DEF TypeOK
  <2>2. ws[w].refs - 1 \in Nat \cup {Nil}
    BY <1>3
  <2> DEFINE r == [ws[w] EXCEPT !.refs = ws[w].refs - 1]
  <2>3. r \in WorkspaceSnapshot /\ r.docs = ws[w].docs /\ r.refs = ws[w].refs - 1
    BY <2>1, <2>2 DEF WorkspaceSnapshot
  <2>4. ws' = [ws EXCEPT ![w] = r]
    BY <1>2, <2>1
  <2> HIDE DEF r
  <2> QED BY <2>1, <2>3, <2>4
<1>7. TypeOK'
  BY <1>0, <1>2, <1>5, <1>6 DEF TypeOK, Stacks
<1>8. ThreadsOrderly'
  <2>1. \A u \in Thread : u # t => todo'[u] = todo[u]
    BY <1>0, <1>2 DEF TypeOK
  <2> QED BY <1>2, <2>1, ReleaseOrderly
<1>9. \A x : /\ CurrentIn(x)' = CurrentIn(x) /\ PreviousIn(x)' = PreviousIn(x)
             /\ MemberOf(x)' = MemberOf(x)
             /\ PreviousOf(x)' = PreviousOf(x) /\ PinnedBy(x)' = PinnedBy(x)
             /\ PendingAt(x)' = PendingAt(x) /\ RunningAt(x)' = RunningAt(x)
  BY <1>6, UnchangedCounts DEF MemberOf
<1>10. ASSUME NEW x \in Ws
       PROVE  /\ WsHolders(x)' = IF ws'[x].refs = Nil THEN 0 ELSE ws'[x].refs
              /\ Count(todo', "free", x) = IF ws'[x].refs = 0 THEN 1 ELSE 0
              /\ ws'[x].refs = Nil => ws[x].refs = Nil
  <2>1. /\ x \in Obj /\ Eq(w, x) \in Nat /\ Eq(w, x) = IF x = w THEN 1 ELSE 0
        /\ Eq(gws', x) = Eq(gws, x) /\ Eq(gws, x) \in Nat
    BY <1>0 DEF Eq
  <2>2. /\ Count(todo', "drop", x) = Count(f, "drop", x)
        /\ Count(todo', "free", x) =
             Count(f, "free", x) + IF ws[w].refs = 1 THEN Eq(w, x) ELSE 0
        /\ Count(f, "drop", x) \in Nat /\ Count(f, "free", x) \in Nat
        /\ Count(todo, "drop", x) = Count(f, "drop", x) + Eq(w, x)
        /\ Count(todo, "free", x) = Count(f, "free", x)
    BY <1>1, <1>5, <2>1
  <2>3. /\ PinnedBy(x)' = PinnedBy(x)
        /\ PendingAt(x)' = PendingAt(x) /\ RunningAt(x)' = RunningAt(x)
    BY <1>9
  <2>4. /\ Cardinality(PinnedBy(x)) \in Nat /\ Cardinality(PendingAt(x)) \in Nat
        /\ Cardinality(RunningAt(x)) \in Nat
        /\ WsHolders(x) =
              Eq(gws, x) + Cardinality(PinnedBy(x)) + Cardinality(PendingAt(x))
                + Cardinality(RunningAt(x)) + Count(todo, "drop", x)
        /\ WsHolders(x)' =
              Eq(gws', x) + Cardinality(PinnedBy(x)') + Cardinality(PendingAt(x)')
                + Cardinality(RunningAt(x)') + Count(todo', "drop", x)
    BY WsSum
  <2>5. WsHolders(x)' + Eq(w, x) = WsHolders(x) /\ WsHolders(x)' \in Nat
    BY ONLY <2>1, <2>2, <2>3, <2>4
  <2>6. /\ WsHolders(x) = IF ws[x].refs = Nil THEN 0 ELSE ws[x].refs
        /\ Count(todo, "free", x) = IF ws[x].refs = 0 THEN 1 ELSE 0
        /\ ws[x].refs \in Nat \cup {Nil}
    BY Counted
  <2>7. /\ ws'[x].refs = IF x = w THEN ws[w].refs - 1 ELSE ws[x].refs
        /\ ws[w].refs \in Nat /\ ws[w].refs >= 1 /\ Nil \notin Nat
    BY <1>0, <1>3, <1>6
  <2> QED BY ONLY <2>1, <2>2, <2>5, <2>6, <2>7
<1>11. ASSUME NEW x \in Snap
       PROVE  /\ SnapHolders(x)' = SnapHolders(x)
              /\ Count(todo', "free", x) = Count(todo, "free", x)
  <2>1. x \in Obj /\ Eq(w, x) = 0
    BY <1>1, SnapshotsAssumption DEF Eq, Obj
  <2>2. /\ Count(todo', "drop", x) = Count(todo, "drop", x)
        /\ Count(todo', "free", x) = Count(todo, "free", x)
    <3>1. /\ Count(todo', "drop", x) = Count(f, "drop", x)
          /\ Count(todo', "free", x) =
               Count(f, "free", x) + IF ws[w].refs = 1 THEN Eq(w, x) ELSE 0
          /\ Count(f, "drop", x) \in Nat /\ Count(f, "free", x) \in Nat
          /\ Count(todo, "drop", x) = Count(f, "drop", x) + Eq(w, x)
          /\ Count(todo, "free", x) = Count(f, "free", x)
      BY <1>1, <1>5, <2>1
    <3> QED BY ONLY <2>1, <3>1
  <2> QED BY <1>9, <2>2, HolderSums
<1>12. FreeWsEmpty'
  BY <1>6, <1>10, Counted DEF FreeWsEmpty
<1> QED BY <1>2, <1>5, <1>7, <1>8, <1>10, <1>11, <1>12, Counted, Recounted


\* The rest of the destructors: no count moves, but a freed object leaves.
LEMMA ReleaseSpansRefs ==
  ASSUME RefInv, NEW t \in Thread, ReleaseSpans(t), UNCHANGED <<docs, gws, ctx, diag, coord>>
  PROVE  RefInv'
<1> DEFINE f == Pop(todo, t)  s == Top(t).obj
<1>0. TypeOK /\ Runs(t, "spans", Snap) /\ Snap \in SUBSET Obj /\ "spans" \in Op
  BY Counted DEF ReleaseSpans, Obj, Op
<1>1. /\ s \in Snap /\ f \in Stacks /\ AllFinite(f) /\ f = [todo EXCEPT ![t] = Rest(t)]
      /\ \A x \in Obj : /\ Count(f, "drop", x) \in Nat /\ Count(f, "free", x) \in Nat
                        /\ Count(todo, "drop", x) = Count(f, "drop", x) + 0
                        /\ Count(todo, "free", x) = Count(f, "free", x) + 0
  BY <1>0, PopNow
<1>2. /\ UNCHANGED <<ws, memos>> /\ todo[t] # <<>> /\ todo' = f
      /\ snap' = [snap EXCEPT ![s].buf = Nil]
      /\ tok_spans_release(snap[s].buf)
  BY <1>1 DEF ReleaseSpans, Runs
<1> HIDE DEF f, s
<1>3. /\ snap' \in [Snap -> DocSnapshot]
      /\ \A x \in Snap : snap'[x].refs = snap[x].refs
      /\ snap[s].buf \in Buf \cup {Nil}
  BY <1>0, <1>1, <1>2 DEF TypeOK, DocSnapshot
<1>4. bufs' \subseteq Buf /\ recycle' \in Buf \cup {Nil}
  BY <1>0, <1>2, <1>3 DEF TypeOK, tok_spans_release
<1>5. TypeOK'
  BY <1>0, <1>1, <1>2, <1>3, <1>4 DEF TypeOK, Stacks
<1>6. ThreadsOrderly'
  <2>1. \A u \in Thread : u # t => todo'[u] = todo[u]
    BY <1>0, <1>1, <1>2 DEF TypeOK
  <2> QED BY <1>2, <2>1, ReleaseOrderly
<1>7. \A x : /\ CurrentIn(x)' = CurrentIn(x) /\ PreviousIn(x)' = PreviousIn(x)
             /\ MemberOf(x)' = MemberOf(x)
             /\ PreviousOf(x)' = PreviousOf(x) /\ PinnedBy(x)' = PinnedBy(x)
             /\ PendingAt(x)' = PendingAt(x) /\ RunningAt(x)' = RunningAt(x)
  BY <1>2, UnchangedCounts
<1>8. \A x \in Obj : /\ Count(todo', "drop", x) = Count(todo, "drop", x)
                     /\ Count(todo', "free", x) = Count(todo, "free", x)
  <2> SUFFICES ASSUME NEW x \in Obj
               PROVE  /\ Count(todo', "drop", x) = Count(todo, "drop", x)
                      /\ Count(todo', "free", x) = Count(todo, "free", x)
    OBVIOUS
  <2>1. /\ Count(f, "drop", x) \in Nat /\ Count(f, "free", x) \in Nat
        /\ Count(todo, "drop", x) = Count(f, "drop", x) + 0
        /\ Count(todo, "free", x) = Count(f, "free", x) + 0
        /\ todo' = f
    BY <1>1, <1>2
  <2> QED BY ONLY <2>1
<1>9. /\ \A x \in Snap : /\ SnapHolders(x)' = SnapHolders(x)
                         /\ Count(todo', "free", x) = Count(todo, "free", x)
      /\ \A x \in Ws : /\ WsHolders(x)' = WsHolders(x)
                       /\ Count(todo', "free", x) = Count(todo, "free", x)
  BY <1>7, <1>8, HolderSums DEF Obj
<1>10. FreeWsEmpty'
  BY <1>2, Counted DEF FreeWsEmpty
<1> QED BY <1>1, <1>2, <1>3, <1>5, <1>6, <1>9, <1>10, Counted, Recounted

LEMMA FreeSnapRefs ==
  ASSUME RefInv, NEW t \in Thread, FreeSnap(t), UNCHANGED <<docs, gws, ctx, diag, coord>>
  PROVE  RefInv'
<1> DEFINE f == Pop(todo, t)  s == Top(t).obj
<1>0. TypeOK /\ Runs(t, "free", Snap) /\ Snap \in SUBSET Obj /\ "free" \in Op /\ Nil \notin Nat
  BY Counted, SnapshotsAssumption DEF FreeSnap, Obj, Op
<1>1. /\ s \in Snap /\ f \in Stacks /\ AllFinite(f) /\ f = [todo EXCEPT ![t] = Rest(t)]
      /\ \A x \in Obj : /\ Count(f, "drop", x) \in Nat /\ Count(f, "free", x) \in Nat
                        /\ Count(todo, "drop", x) = Count(f, "drop", x) + 0
                        /\ Count(todo, "free", x) = Count(f, "free", x) + Eq(s, x)
  BY <1>0, PopNow
<1>2. /\ UNCHANGED <<ws, bufs, recycle>> /\ todo[t] # <<>> /\ todo' = f
      /\ snap' = [snap EXCEPT ![s] = NoSnap] /\ memos' \subseteq memos
  BY <1>1 DEF FreeSnap, Runs
<1> HIDE DEF f, s
<1>3. /\ snap' \in [Snap -> DocSnapshot]
      /\ \A x \in Snap : snap'[x].refs = IF x = s THEN Nil ELSE snap[x].refs
  <2>1. NoSnap \in DocSnapshot /\ NoSnap.refs = Nil
    BY DEF NoSnap, DocSnapshot
  <2> QED BY <1>0, <1>1, <1>2, <2>1 DEF TypeOK
<1>5. TypeOK'
  BY <1>0, <1>1, <1>2, <1>3 DEF TypeOK, Stacks
<1>6. ThreadsOrderly'
  <2>1. \A u \in Thread : u # t => todo'[u] = todo[u]
    BY <1>0, <1>1, <1>2 DEF TypeOK
  <2> QED BY <1>2, <2>1, ReleaseOrderly
<1>7. \A x : /\ CurrentIn(x)' = CurrentIn(x) /\ PreviousIn(x)' = PreviousIn(x)
             /\ MemberOf(x)' = MemberOf(x)
             /\ PreviousOf(x)' = PreviousOf(x) /\ PinnedBy(x)' = PinnedBy(x)
             /\ PendingAt(x)' = PendingAt(x) /\ RunningAt(x)' = RunningAt(x)
  BY <1>2, UnchangedCounts
<1>8. \A x \in Obj : /\ Count(todo', "drop", x) = Count(todo, "drop", x)
                     /\ Count(todo, "free", x) = Count(todo', "free", x) + Eq(s, x)
                     /\ Count(todo', "free", x) \in Nat
  <2> SUFFICES ASSUME NEW x \in Obj
               PROVE  /\ Count(todo', "drop", x) = Count(todo, "drop", x)
                      /\ Count(todo, "free", x) = Count(todo', "free", x) + Eq(s, x)
                      /\ Count(todo', "free", x) \in Nat
    OBVIOUS
  <2>1. /\ Count(f, "drop", x) \in Nat /\ Count(f, "free", x) \in Nat
        /\ Count(todo, "drop", x) = Count(f, "drop", x) + 0
        /\ Count(todo, "free", x) = Count(f, "free", x) + Eq(s, x)
        /\ todo' = f
    BY <1>1, <1>2
  <2> QED BY ONLY <2>1
<1>9. /\ \A x \in Snap : SnapHolders(x)' = SnapHolders(x)
      /\ \A x \in Ws : WsHolders(x)' = WsHolders(x)
  BY <1>7, <1>8, HolderSums DEF Obj
<1>10. ASSUME NEW x \in Snap
       PROVE  /\ SnapHolders(x)' = IF snap'[x].refs = Nil THEN 0 ELSE snap'[x].refs
              /\ Count(todo', "free", x) = IF snap'[x].refs = 0 THEN 1 ELSE 0
  <2>1. x \in Obj /\ Eq(s, x) = IF x = s THEN 1 ELSE 0
    BY <1>0 DEF Eq
  <2>2. /\ SnapHolders(x) = IF snap[x].refs = Nil THEN 0 ELSE snap[x].refs
        /\ Count(todo, "free", x) = IF snap[x].refs = 0 THEN 1 ELSE 0
        /\ snap[x].refs \in Nat \cup {Nil} /\ Nil \notin Nat
    BY <1>0, Counted
  <2>3. /\ Count(todo, "free", x) = Count(todo', "free", x) + Eq(s, x)
        /\ Count(todo', "free", x) \in Nat
        /\ SnapHolders(x)' = SnapHolders(x)
        /\ snap'[x].refs = IF x = s THEN Nil ELSE snap[x].refs
    BY <1>3, <1>8, <1>9, <2>1
  <2>4. CASE x = s
    BY ONLY <2>1, <2>2, <2>3, <2>4
  <2>5. CASE x # s
    BY ONLY <2>1, <2>2, <2>3, <2>5
  <2> QED BY <2>4, <2>5
<1>11. ASSUME NEW x \in Ws
       PROVE  Count(todo', "free", x) = Count(todo, "free", x)
  <2>1. x \in Obj /\ Eq(s, x) = 0
    BY <1>1, SnapshotsAssumption DEF Eq, Obj
  <2> QED BY <1>8, <2>1
<1>12. FreeWsEmpty'
  BY <1>2, Counted DEF FreeWsEmpty
<1> QED BY <1>1, <1>2, <1>5, <1>6, <1>9, <1>10, <1>11, <1>12, Counted, Recounted

LEMMA FreeWsRefs ==
  ASSUME RefInv, NEW t \in Thread, FreeWs(t), UNCHANGED <<docs, gws, ctx, diag, coord>>
  PROVE  RefInv'
<1> DEFINE f == Pop(todo, t)  w == Top(t).obj
<1>0. TypeOK /\ Runs(t, "free", Ws) /\ Ws \in SUBSET Obj /\ "free" \in Op /\ Nil \notin Nat
  BY Counted, SnapshotsAssumption DEF FreeWs, Obj, Op
<1>1. /\ w \in Ws /\ f \in Stacks /\ AllFinite(f) /\ f = [todo EXCEPT ![t] = Rest(t)]
      /\ \A x \in Obj : /\ Count(f, "drop", x) \in Nat /\ Count(f, "free", x) \in Nat
                        /\ Count(todo, "drop", x) = Count(f, "drop", x) + 0
                        /\ Count(todo, "free", x) = Count(f, "free", x) + Eq(w, x)
  BY <1>0, PopNow
<1>2. /\ UNCHANGED <<snap, bufs, recycle, memos>> /\ todo[t] # <<>> /\ todo' = f
      /\ ws' = [ws EXCEPT ![w] = NoWs] /\ \A d \in Doc : ws[w].docs[d] = Nil
  BY <1>1 DEF FreeWs, Runs
<1> HIDE DEF f, w
<1>3. /\ ws' \in [Ws -> WorkspaceSnapshot]
      /\ \A x \in Ws : ws'[x].refs = IF x = w THEN Nil ELSE ws[x].refs
      /\ \A x \in Ws, d \in Doc : ws'[x].docs[d] = ws[x].docs[d]
  <2>1. NoWs \in WorkspaceSnapshot /\ NoWs.refs = Nil /\ \A d \in Doc : NoWs.docs[d] = Nil
    BY DEF NoWs, WorkspaceSnapshot
  <2> QED BY <1>0, <1>1, <1>2, <2>1 DEF TypeOK
<1>5. TypeOK'
  BY <1>0, <1>1, <1>2, <1>3 DEF TypeOK, Stacks
<1>6. ThreadsOrderly'
  <2>1. \A u \in Thread : u # t => todo'[u] = todo[u]
    BY <1>0, <1>1, <1>2 DEF TypeOK
  <2> QED BY <1>2, <2>1, ReleaseOrderly
<1>7. \A x : /\ CurrentIn(x)' = CurrentIn(x) /\ PreviousIn(x)' = PreviousIn(x)
             /\ MemberOf(x)' = MemberOf(x)
             /\ PreviousOf(x)' = PreviousOf(x) /\ PinnedBy(x)' = PinnedBy(x)
             /\ PendingAt(x)' = PendingAt(x) /\ RunningAt(x)' = RunningAt(x)
  BY <1>3, UnchangedCounts DEF MemberOf
<1>8. \A x \in Obj : /\ Count(todo', "drop", x) = Count(todo, "drop", x)
                     /\ Count(todo, "free", x) = Count(todo', "free", x) + Eq(w, x)
                     /\ Count(todo', "free", x) \in Nat
  <2> SUFFICES ASSUME NEW x \in Obj
               PROVE  /\ Count(todo', "drop", x) = Count(todo, "drop", x)
                      /\ Count(todo, "free", x) = Count(todo', "free", x) + Eq(w, x)
                      /\ Count(todo', "free", x) \in Nat
    OBVIOUS
  <2>1. /\ Count(f, "drop", x) \in Nat /\ Count(f, "free", x) \in Nat
        /\ Count(todo, "drop", x) = Count(f, "drop", x) + 0
        /\ Count(todo, "free", x) = Count(f, "free", x) + Eq(w, x)
        /\ todo' = f
    BY <1>1, <1>2
  <2> QED BY ONLY <2>1
<1>9. /\ \A x \in Snap : SnapHolders(x)' = SnapHolders(x)
      /\ \A x \in Ws : WsHolders(x)' = WsHolders(x)
  BY <1>7, <1>8, HolderSums DEF Obj
<1>10. ASSUME NEW x \in Ws
       PROVE  /\ WsHolders(x)' = IF ws'[x].refs = Nil THEN 0 ELSE ws'[x].refs
              /\ Count(todo', "free", x) = IF ws'[x].refs = 0 THEN 1 ELSE 0
  <2>1. x \in Obj /\ Eq(w, x) = IF x = w THEN 1 ELSE 0
    BY <1>0 DEF Eq
  <2>2. /\ WsHolders(x) = IF ws[x].refs = Nil THEN 0 ELSE ws[x].refs
        /\ Count(todo, "free", x) = IF ws[x].refs = 0 THEN 1 ELSE 0
        /\ ws[x].refs \in Nat \cup {Nil} /\ Nil \notin Nat
    BY <1>0, Counted
  <2>3. /\ Count(todo, "free", x) = Count(todo', "free", x) + Eq(w, x)
        /\ Count(todo', "free", x) \in Nat
        /\ WsHolders(x)' = WsHolders(x)
        /\ ws'[x].refs = IF x = w THEN Nil ELSE ws[x].refs
    BY <1>3, <1>8, <1>9, <2>1
  <2>4. CASE x = w
    BY ONLY <2>1, <2>2, <2>3, <2>4
  <2>5. CASE x # w
    BY ONLY <2>1, <2>2, <2>3, <2>5
  <2> QED BY <2>4, <2>5
<1>11. ASSUME NEW x \in Snap
       PROVE  Count(todo', "free", x) = Count(todo, "free", x)
  <2>1. x \in Obj /\ Eq(w, x) = 0
    BY <1>1, SnapshotsAssumption DEF Eq, Obj
  <2> QED BY <1>8, <2>1
<1>12. FreeWsEmpty'
  BY <1>2, <1>3, Counted DEF FreeWsEmpty
<1> QED BY <1>1, <1>2, <1>5, <1>6, <1>9, <1>10, <1>11, <1>12, Counted, Recounted


\* A dying workspace hands one of its references over to a drop.
LEMMA DropDocRefs ==
  ASSUME RefInv, NEW t \in Thread, DropDoc(t), UNCHANGED <<docs, gws, ctx, diag, coord>>
  PROVE  RefInv'
<1> DEFINE w == Top(t).obj
<1>0. /\ TypeOK /\ w \in Ws /\ todo[t] # <<>> /\ todo \in Stacks /\ AllFinite(todo)
      /\ Nil \notin Nat /\ Nil \notin Obj
  BY Counted, CountsNat, SnapshotsAssumption DEF DropDoc, Runs, Obj
<1>1. PICK d \in Doc : /\ ws[w].docs[d] # Nil
                       /\ ws' = [ws EXCEPT ![w].docs[d] = Nil]
                       /\ todo' = [todo EXCEPT ![t] = todo[t] \o Drop(ws[w].docs[d])]
  BY DEF DropDoc
<1>2. UNCHANGED <<snap, bufs, recycle, memos>>
  BY DEF DropDoc
<1> HIDE DEF w
<1> DEFINE s == ws[w].docs[d]
<1>3. s \in Snap /\ s \in Obj /\ s \in Obj \cup {Nil}
  BY <1>0, <1>1 DEF TypeOK, WorkspaceSnapshot, Obj
<1>4. /\ ws' \in [Ws -> WorkspaceSnapshot]
      /\ \A x \in Ws : ws'[x].refs = ws[x].refs
      /\ \A x \in Ws, e \in Doc :
           ws'[x].docs[e] = IF x = w /\ e = d THEN Nil ELSE ws[x].docs[e]
  <2>1. ws \in [Ws -> WorkspaceSnapshot] /\ w \in Ws
    BY <1>0 DEF TypeOK
  <2> DEFINE r == [ws[w] EXCEPT !.docs = [ws[w].docs EXCEPT ![d] = Nil]]
  <2>2. /\ r \in WorkspaceSnapshot /\ r.refs = ws[w].refs
        /\ \A e \in Doc : r.docs[e] = IF e = d THEN Nil ELSE ws[w].docs[e]
    BY <2>1 DEF WorkspaceSnapshot
  <2>3. ws' = [ws EXCEPT ![w] = r]
    BY <1>1, <2>1 DEF WorkspaceSnapshot
  <2> HIDE DEF r
  <2> QED BY <2>1, <2>2, <2>3
<1> HIDE DEF s
<1>5. /\ todo' \in Stacks /\ AllFinite(todo')
      /\ \A op \in Op, x \in Obj :
           /\ Count(todo, op, x) \in Nat
           /\ Count(todo', op, x) = Count(todo, op, x) + IF op = "drop" THEN Eq(s, x) ELSE 0
  <2> DEFINE g == [todo EXCEPT ![t] = todo[t] \o Drop(s)]
  <2>1. /\ g \in Stacks /\ AllFinite(g)
        /\ \A op \in Op, x \in Obj :
             /\ Count(todo, op, x) \in Nat
             /\ Count(g, op, x) = Count(todo, op, x) + IF op = "drop" THEN Eq(s, x) ELSE 0
    BY <1>0, <1>3, DropCounts
  <2>2. todo' = g
    BY <1>1 DEF s
  <2> HIDE DEF g
  <2> QED BY <2>1, <2>2
<1>6. ASSUME NEW x \in Obj
      PROVE  /\ Count(todo', "drop", x) = Count(todo, "drop", x) + Eq(s, x)
             /\ Count(todo', "free", x) = Count(todo, "free", x)
  <2>1. "drop" \in Op /\ "free" \in Op
    BY DEF Op
  <2>2. /\ Count(todo', "drop", x) = Count(todo, "drop", x) + Eq(s, x)
        /\ Count(todo', "free", x) = Count(todo, "free", x) + 0
        /\ Count(todo, "free", x) \in Nat
    BY <1>5, <2>1
  <2> QED BY ONLY <2>2
<1>7. TypeOK'
  BY <1>0, <1>2, <1>4, <1>5 DEF TypeOK, Stacks
<1>8. ThreadsOrderly'
  <2>1. \A u \in Thread : u # t => todo'[u] = todo[u]
    BY <1>0, <1>1 DEF Stacks
  <2> QED BY <1>0, <2>1, ReleaseOrderly
<1>9. FreeWsEmpty'
  BY <1>4, Counted DEF FreeWsEmpty
<1>10. \A x : /\ CurrentIn(x)' = CurrentIn(x) /\ PreviousIn(x)' = PreviousIn(x)
              /\ PreviousOf(x)' = PreviousOf(x) /\ PinnedBy(x)' = PinnedBy(x)
              /\ PendingAt(x)' = PendingAt(x) /\ RunningAt(x)' = RunningAt(x)
  BY UnchangedCounts
<1>11. ASSUME NEW x \in Snap
       PROVE  SnapHolders(x)' = SnapHolders(x) /\ Count(todo', "free", x) = Count(todo, "free", x)
  <2> DEFINE e == <<w, d>>
  <2>1. x \in Obj /\ x # Nil
    BY <1>0 DEF Obj
  <2>2. MemberOf(x) \ {e} = MemberOf(x)' \ {e}
    <3>1. ASSUME NEW v \in Ws, NEW c \in Doc, <<v, c>> # e
          PROVE  <<v, c>> \in MemberOf(x)' <=> <<v, c>> \in MemberOf(x)
      <4>1. ~ (v = w /\ c = d)
        BY <3>1
      <4> QED BY <1>4, <4>1 DEF MemberOf
    <3>2. MemberOf(x) \subseteq Ws \X Doc /\ MemberOf(x)' \subseteq Ws \X Doc
      BY DEF MemberOf
    <3> QED BY <3>1, <3>2
  <2>3. e \notin MemberOf(x)'
    BY <1>0, <1>4, <2>1 DEF MemberOf
  <2>4. e \in MemberOf(x) <=> s = x
    BY <1>0 DEF MemberOf, s
  <2>5. In(e, MemberOf(x)') = 0 /\ In(e, MemberOf(x)) = Eq(s, x) /\ Eq(s, x) \in Nat
    BY <2>3, <2>4 DEF In, Eq
  <2>6. IsFiniteSet(MemberOf(x))
    BY <1>0, HoldersFinite
  <2> HIDE DEF e
  <2>7. /\ Cardinality(MemberOf(x)) \in Nat /\ Cardinality(MemberOf(x)') \in Nat
        /\ Cardinality(MemberOf(x)') + In(e, MemberOf(x))
             = Cardinality(MemberOf(x)) + In(e, MemberOf(x)')
    BY <2>2, <2>6, SetUpdate
  <2>8. /\ CurrentIn(x)' = CurrentIn(x) /\ PreviousIn(x)' = PreviousIn(x)
        /\ PreviousOf(x)' = PreviousOf(x)
        /\ Count(todo', "drop", x) = Count(todo, "drop", x) + Eq(s, x)
        /\ Count(todo', "free", x) = Count(todo, "free", x)
    BY <1>6, <1>10, <2>1
  <2>9. /\ Cardinality(CurrentIn(x)) \in Nat /\ Cardinality(PreviousIn(x)) \in Nat
        /\ Cardinality(PreviousOf(x)) \in Nat /\ Count(todo, "drop", x) \in Nat
        /\ SnapHolders(x) =
              Cardinality(CurrentIn(x)) + Cardinality(PreviousIn(x)) + Cardinality(MemberOf(x))
                + Cardinality(PreviousOf(x)) + Count(todo, "drop", x)
        /\ SnapHolders(x)' =
              Cardinality(CurrentIn(x)') + Cardinality(PreviousIn(x)') + Cardinality(MemberOf(x)')
                + Cardinality(PreviousOf(x)') + Count(todo', "drop", x)
    BY SnapSum
  <2> QED BY ONLY <2>5, <2>7, <2>8, <2>9
<1>12. ASSUME NEW x \in Ws
       PROVE  WsHolders(x)' = WsHolders(x) /\ Count(todo', "free", x) = Count(todo, "free", x)
  <2>1. x \in Obj /\ Eq(s, x) = 0
    BY <1>3, SnapshotsAssumption DEF Eq, Obj
  <2>2. Count(todo, "drop", x) \in Nat
    BY WsSum
  <2>3. Count(todo', "drop", x) = Count(todo, "drop", x)
    BY <1>6, <2>1, <2>2
  <2> QED BY <1>6, <1>10, <2>1, <2>3, HolderSums
<1> QED BY <1>2, <1>4, <1>5, <1>7, <1>8, <1>9, <1>11, <1>12, Counted, Recounted

-----------------------------------------------------------------------------
LEMMA RefInit ==
  ASSUME Init
  PROVE  RefInv
<1>1. TypeOK
  BY DEF Init, TypeOK, Document, NoSnap, DocSnapshot, NoWs, WorkspaceSnapshot, NoCtx,
         QueryContext, NoDiag, DiagWorker
<1>2. /\ Nil \notin Snap /\ Nil \notin Ws /\ Nil \notin Nat
  BY SnapshotsAssumption
<1>3. \A op, x : Slots(op, x) = {}
  BY DEF Init, Slots
<1>4. \A x \in Snap : /\ CurrentIn(x) = {} /\ PreviousIn(x) = {} /\ MemberOf(x) = {}
                      /\ PreviousOf(x) = {}
  BY <1>2 DEF Init, CurrentIn, PreviousIn, MemberOf, PreviousOf, NoWs, NoCtx
<1>5. \A x \in Ws : PinnedBy(x) = {} /\ PendingAt(x) = {} /\ RunningAt(x) = {} /\ gws # x
  BY <1>2 DEF Init, PinnedBy, PendingAt, RunningAt, NoCtx, NoDiag
<1>6. IsFiniteSet({}) /\ Cardinality({}) = 0
  BY FS_EmptySet
<1>7. /\ \A x \in Snap : SnapHolders(x) = 0 /\ snap[x].refs = Nil
      /\ \A x \in Ws : WsHolders(x) = 0 /\ ws[x].refs = Nil
  <2>1. \A x \in Snap : snap[x].refs = Nil
    BY DEF Init, NoSnap
  <2>2. \A x \in Ws : ws[x].refs = Nil
    BY DEF Init, NoWs
  <2>3. \A x \in Snap : SnapHolders(x) = 0
    BY <1>3, <1>4, <1>6 DEF SnapHolders
  <2>4. \A x \in Ws : WsHolders(x) = 0
    BY <1>3, <1>5, <1>6 DEF WsHolders
  <2> QED BY <2>1, <2>2, <2>3, <2>4
<1>8. ReferencesCounted
  <2>1. CountsMatchHolders
    BY <1>7 DEF CountsMatchHolders
  <2>2. FreedOnce
    <3>1. Nil # 0
      BY <1>2
    <3> QED BY <1>3, <1>6, <1>7, <3>1 DEF FreedOnce
  <2> QED BY <1>1, <2>1, <2>2 DEF ReferencesCounted
<1>9. SlotsFinite
  BY <1>3, <1>6 DEF SlotsFinite
<1>10. ThreadsOrderly /\ FreeWsEmpty
  BY DEF Init, ThreadsOrderly, FreeWsEmpty, NoCtx, NoDiag, NoWs
<1> QED BY <1>8, <1>9, <1>10 DEF RefInv

LEMMA ReleaseRefs ==
  ASSUME RefInv, NEW t \in Thread, Release(t)
  PROVE  RefInv'
<1>1. UNCHANGED <<docs, gws, ctx, diag, coord>>
  BY DEF Release
<1> QED BY <1>1, DropSnapRefs, DropWsRefs, ReleaseSpansRefs, FreeSnapRefs, DropDocRefs, FreeWsRefs
        DEF Release

LEMMA RefStep ==
  ASSUME RefInv, [Next]_vars
  PROVE  RefInv'
<1>1. CASE UNCHANGED vars
  <2>1. UNCHANGED <<docs, gws, snap, ws, bufs, recycle, memos, ctx, diag, coord, todo>>
    BY <1>1 DEF vars
  <2>2. TypeOK'
    BY <2>1, Counted DEF TypeOK
  <2>3. ThreadsOrderly'
    BY <2>1, Counted DEF ThreadsOrderly
  <2> QED BY <2>1, <2>2, <2>3, QuietRefs
<1>2. CASE Edit
  BY <1>2, InstallRefs, ForgetRefs DEF Edit
<1>3. CASE Coordinate
  BY <1>3, PublishRefs, CoordinateQuietRefs, DiagRequestRefs DEF Coordinate
<1>4. CASE \E q \in Query, d \in Doc \cup {Nil} : Pin(q, d)
  BY <1>4, PinRefs
<1>5. CASE \E q \in Query : RunQuery(q)
  BY <1>5, SemTokensRefs, FinishRefs DEF RunQuery
<1>6. CASE \E v \in Diag : RunDiag(v)
  BY <1>6, RunDiagRefs
<1>7. CASE \E t \in Thread : Release(t)
  BY <1>7, ReleaseRefs
<1> QED BY <1>1, <1>2, <1>3, <1>4, <1>5, <1>6, <1>7 DEF Next

\* The counts, the pending releases and the threads' states fit together in
\* every reachable state of document_store.c and query_context.c.
THEOREM RefInvariance == Spec => []RefInv
<1>1. Init => RefInv
  BY RefInit
<1>2. RefInv /\ [Next]_vars => RefInv'
  BY RefStep
<1> QED BY <1>1, <1>2, PTL DEF Spec

\* docsnap_release() and ws_release() free an object exactly when its last
\* holder is gone, whichever thread drops the last reference.
THEOREM ReferencesCountedAlways == Spec => []ReferencesCounted
<1>1. RefInv => ReferencesCounted
  BY DEF RefInv
<1> QED BY <1>1, RefInvariance, PTL


-----------------------------------------------------------------------------
(* Token-span buffers.                                                     *)

\* The destructor of a doc_snapshot is on one thread's stack, in one place.
LEMMA FreedInOnePlace ==
  ASSUME RefInv, NEW s \in Snap, NEW t \in Thread, NEW i \in 1 .. Len(todo[t]),
         todo[t][i] = SnapInstr("free", s)
  PROVE  /\ snap[s].refs = 0
         /\ \A u \in Thread : \A j \in 1 .. Len(todo[u]) :
              todo[u][j] = SnapInstr("free", s) => u = t /\ j = i
<1> DEFINE A == SlotsOf(todo, "free", s)
<1>1. todo \in Stacks /\ IsFiniteSet(A)
  BY CountsNat DEF AllFinite, Op, Obj
<1>2. \A u \in Thread : \A j \in 1 .. Len(todo[u]) :
        todo[u][j] = SnapInstr("free", s) => <<u, j>> \in A
  BY <1>1 DEF SlotsOf, Stacks, SnapInstr
<1>3. <<t, i>> \in A
  BY <1>2
<1>4. Cardinality(A) >= 1
  BY <1>1, <1>3, MemberCounts
<1>5. Cardinality(A) = IF snap[s].refs = 0 THEN 1 ELSE 0
  BY Counted DEF Count
<1>6. snap[s].refs = 0 /\ Cardinality(A) = 1
  BY <1>4, <1>5
<1>7. PICK e : A = {e}
  BY <1>1, <1>6, FS_Singleton
<1> HIDE DEF A
<1>8. \A u \in Thread : \A j \in 1 .. Len(todo[u]) :
        todo[u][j] = SnapInstr("free", s) => <<u, j>> = <<t, i>>
  BY <1>2, <1>3, <1>7
<1> QED BY <1>6, <1>8

\* Whether the snapshots that stack q is going to free have a buffer has not changed.
BuffersAgree(q, sn, sn2) ==
  \A s \in Snap, i \in 1 .. Len(q) :
    q[i] = SnapInstr("free", s) => (sn2[s].buf = Nil <=> sn[s].buf = Nil)

LEMMA TidyFrame ==
  ASSUME NEW q \in Seq(Instr), NEW sn, NEW sn2, Tidy(q, sn), BuffersAgree(q, sn, sn2)
  PROVE  Tidy(q, sn2)
<1>0. /\ Len(q) \in Nat
      /\ \A s \in Snap, i \in 1 .. Len(q) :
           q[i] = SnapInstr("free", s) => (sn2[s].buf = Nil <=> sn[s].buf = Nil)
  BY DEF BuffersAgree
<1>1. CASE PlainTo(q, Len(q))
  BY <1>1 DEF Tidy
<1>2. CASE \E s \in Snap : /\ Len(q) >= 1 /\ q[Len(q)] = SnapInstr("free", s)
                           /\ PlainTo(q, Len(q) - 1) /\ sn[s].buf = Nil
  BY <1>0, <1>2 DEF Tidy
<1>3. CASE \E s \in Snap : /\ Len(q) >= 2 /\ q[Len(q)] = SnapInstr("spans", s)
                           /\ q[Len(q) - 1] = SnapInstr("free", s)
                           /\ PlainTo(q, Len(q) - 2) /\ sn[s].buf # Nil
  BY <1>0, <1>3 DEF Tidy
<1> QED BY <1>1, <1>2, <1>3 DEF Tidy

LEMMA DropsTidy ==
  ASSUME NEW a \in Obj \cup {Nil}, NEW b \in Obj \cup {Nil}, NEW sn
  PROVE  Tidy(Drop(a), sn) /\ Tidy(Drop(a) \o Drop(b), sn)
<1>1. \A x \in Obj \cup {Nil} : /\ Drop(x) \in Seq(Instr)
                               /\ \A i \in 1 .. Len(Drop(x)) : Drop(x)[i].op = "drop"
  <2> SUFFICES ASSUME NEW x \in Obj \cup {Nil}
               PROVE  /\ Drop(x) \in Seq(Instr)
                      /\ \A i \in 1 .. Len(Drop(x)) : Drop(x)[i].op = "drop"
    OBVIOUS
  <2>1. CASE x = Nil
    BY <2>1 DEF Drop
  <2>2. CASE x # Nil
    <3>1. [op |-> "drop", obj |-> x] \in Instr
      BY <2>2 DEF Instr, Obj
    <3> QED BY <2>2, <3>1 DEF Drop
  <2> QED BY <2>1, <2>2
<1>2. \A i \in 1 .. Len(Drop(a) \o Drop(b)) : (Drop(a) \o Drop(b))[i].op = "drop"
  BY <1>1
<1> QED BY <1>1, <1>2 DEF Tidy, PlainTo

\* What Tidy says of the instruction that is next.
LEMMA TidyTop ==
  ASSUME NEW q \in Seq(Instr), q # <<>>, NEW sn, Tidy(q, sn)
  PROVE  /\ Len(q) \in Nat /\ Len(q) >= 1
         /\ q[Len(q)].op = "drop" \/ q[Len(q)].obj \in Ws => PlainTo(q, Len(q))
         /\ \A s \in Snap : q[Len(q)] = SnapInstr("free", s) =>
              PlainTo(q, Len(q) - 1) /\ sn[s].buf = Nil
         /\ \A s \in Snap : q[Len(q)] = SnapInstr("spans", s) =>
              /\ Len(q) >= 2 /\ q[Len(q) - 1] = SnapInstr("free", s)
              /\ PlainTo(q, Len(q) - 2) /\ sn[s].buf # Nil
<1>0. Len(q) \in Nat /\ Len(q) >= 1 /\ Snap \cap Ws = {}
  BY SnapshotsAssumption
<1>1. \A op1, op2, s1, s2 : SnapInstr(op1, s1) = SnapInstr(op2, s2) => op1 = op2 /\ s1 = s2
  BY DEF SnapInstr
<1>2. \A op, s : SnapInstr(op, s).op = op /\ SnapInstr(op, s).obj = s
  BY DEF SnapInstr
<1>3. CASE PlainTo(q, Len(q))
  <2>1. q[Len(q)].op = "drop" \/ (q[Len(q)].op = "free" /\ q[Len(q)].obj \in Ws)
    BY <1>0, <1>3 DEF PlainTo
  <2> QED BY <1>0, <1>2, <1>3, <2>1
<1>4. CASE \E s \in Snap : /\ Len(q) >= 1 /\ q[Len(q)] = SnapInstr("free", s)
                           /\ PlainTo(q, Len(q) - 1) /\ sn[s].buf = Nil
  BY <1>0, <1>1, <1>2, <1>4
<1>5. CASE \E s \in Snap : /\ Len(q) >= 2 /\ q[Len(q)] = SnapInstr("spans", s)
                           /\ q[Len(q) - 1] = SnapInstr("free", s)
                           /\ PlainTo(q, Len(q) - 2) /\ sn[s].buf # Nil
  BY <1>0, <1>1, <1>2, <1>5
<1> QED BY <1>3, <1>4, <1>5 DEF Tidy


LEMMA RestOf ==
  ASSUME NEW q \in Seq(Instr), q # <<>>
  PROVE  LET r == SubSeq(q, 1, Len(q) - 1) IN
         /\ r \in Seq(Instr) /\ Len(r) = Len(q) - 1
         /\ \A i \in 1 .. Len(q) - 1 : r[i] = q[i]
         /\ PlainTo(q, Len(q) - 1) => PlainTo(r, Len(r))
<1>1. Len(q) \in Nat /\ Len(q) >= 1
  OBVIOUS
<1> DEFINE r == SubSeq(q, 1, Len(q) - 1)
<1> DEFINE n == Len(q) - 1
<1>2. n \in Int /\ n >= 0 /\ 1 \in Int /\ \A i \in 1 .. n : q[i] \in Instr
  BY <1>1
<1> HIDE DEF n
<1>3. /\ SubSeq(q, 1, n) \in Seq(Instr)
      /\ Len(SubSeq(q, 1, n)) = IF 1 <= n THEN n - 1 + 1 ELSE 0
      /\ \A i \in 1 .. n - 1 + 1 : SubSeq(q, 1, n)[i] = q[1 + i - 1]
  BY <1>2, SubSeqProperties
<1>4. Len(SubSeq(q, 1, n)) = n /\ \A i \in 1 .. n : SubSeq(q, 1, n)[i] = q[i]
  BY <1>2, <1>3
<1>5. r \in Seq(Instr) /\ Len(r) = Len(q) - 1 /\ \A i \in 1 .. Len(q) - 1 : r[i] = q[i]
  BY <1>3, <1>4 DEF n
<1> QED BY <1>5 DEF PlainTo

LEMMA PlainPush ==
  ASSUME NEW r \in Seq(Instr), PlainTo(r, Len(r)), NEW sn
  PROVE  /\ Tidy(r, sn)
         /\ \A a \in Obj \cup {Nil} : Tidy(r \o Drop(a), sn)
         /\ \A w \in Ws : Tidy(r \o <<[op |-> "free", obj |-> w]>>, sn)
         /\ \A s \in Snap : sn[s].buf # Nil =>
              Tidy(r \o <<[op |-> "free", obj |-> s], [op |-> "spans", obj |-> s]>>, sn)
<1>0. Len(r) \in Nat
  OBVIOUS
<1>1. Tidy(r, sn)
  BY DEF Tidy
<1>2. ASSUME NEW i \in Instr, i.op = "drop" \/ (i.op = "free" /\ i.obj \in Ws)
      PROVE  Tidy(r \o <<i>>, sn)
  <2>1. /\ r \o <<i>> \in Seq(Instr) /\ Len(r \o <<i>>) = Len(r) + 1
        /\ (r \o <<i>>)[Len(r) + 1] = i
        /\ \A j \in 1 .. Len(r) : (r \o <<i>>)[j] = r[j]
    OBVIOUS
  <2> QED BY <1>0, <1>2, <2>1 DEF Tidy, PlainTo
<1>3. ASSUME NEW a \in Obj \cup {Nil}
      PROVE  Tidy(r \o Drop(a), sn)
  <2>1. CASE a = Nil
    <3>1. r \o <<>> = r
      OBVIOUS
    <3> QED BY <1>1, <2>1, <3>1 DEF Drop
  <2>2. CASE a # Nil
    <3>1. [op |-> "drop", obj |-> a] \in Instr
      BY <2>2 DEF Instr, Obj
    <3> QED BY <1>2, <2>2, <3>1 DEF Drop
  <2> QED BY <2>1, <2>2
<1>4. ASSUME NEW w \in Ws
      PROVE  Tidy(r \o <<[op |-> "free", obj |-> w]>>, sn)
  <2>1. [op |-> "free", obj |-> w] \in Instr
    BY DEF Instr
  <2> QED BY <1>2, <2>1
<1>5. ASSUME NEW s \in Snap, sn[s].buf # Nil
      PROVE  Tidy(r \o <<[op |-> "free", obj |-> s], [op |-> "spans", obj |-> s]>>, sn)
  <2> DEFINE F == SnapInstr("free", s)  P == SnapInstr("spans", s)  q == r \o <<F, P>>
  <2>1. F \in Instr /\ P \in Instr
    BY DEF Instr, SnapInstr
  <2>2. /\ q \in Seq(Instr) /\ Len(q) = Len(r) + 2
        /\ q[Len(r) + 1] = F /\ q[Len(r) + 2] = P
        /\ \A j \in 1 .. Len(r) : q[j] = r[j]
    <3> HIDE DEF F, P
    <3> QED BY <2>1
  <2> HIDE DEF q
  <2>3. PlainTo(q, Len(q) - 2)
    BY <1>0, <2>2 DEF PlainTo
  <2>4. Len(q) >= 2 /\ q[Len(q)] = P /\ q[Len(q) - 1] = F
    BY <1>0, <2>2
  <2>5. Tidy(q, sn)
    BY <1>5, <2>3, <2>4 DEF Tidy
  <2> QED BY <2>5 DEF q, SnapInstr
<1> QED BY <1>1, <1>3, <1>4, <1>5

\* What every step but Install, ReleaseSpans and FreeSnap does to the buffers:
\* nothing, and no count comes back from zero.
BufStill ==
  /\ UNCHANGED <<bufs, recycle>>
  /\ \A s \in Snap : /\ snap'[s].buf = snap[s].buf
                     /\ snap'[s].refs = Nil <=> snap[s].refs = Nil
                     /\ snap'[s].refs \notin {Nil, 0} => snap[s].refs \notin {Nil, 0}

LEMMA StillKept ==
  ASSUME BufInv, BufStill, \A t \in Thread : Tidy(todo'[t], snap)
  PROVE  BufferKept' /\ BufferOwnedOnce'
<1>1. \A t \in Thread : Tidy(todo'[t], snap')
  BY DEF BufStill, Tidy
<1>2. BufferKept'
  BY <1>1 DEF BufInv, BufferKept, BufStill
<1>3. \A b : OwnersOf(b)' = OwnersOf(b)
  BY DEF OwnersOf, BufStill
<1>4. BufferOwnedOnce'
  BY <1>3 DEF BufInv, BufferOwnedOnce, BufStill
<1> QED BY <1>2, <1>4

LEMMA TodoTidy ==
  ASSUME BufInv
  PROVE  /\ RefInv /\ TypeOK
         /\ \A t \in Thread : todo[t] \in Seq(Instr) /\ Tidy(todo[t], snap)
BY Counted DEF BufInv, BufferKept, TypeOK

\* Steps of the coordinator, the queries and the workers.
LEMMA IdleBufs ==
  ASSUME BufInv,
         \/ \E d \in Doc : Forget(d)
         \/ Coordinate
         \/ \E q \in Query, d \in Doc \cup {Nil} : Pin(q, d)
         \/ \E q \in Query : RunQuery(q)
         \/ \E v \in Diag : RunDiag(v)
  PROVE  BufferKept' /\ BufferOwnedOnce'
<1>0. /\ RefInv /\ TypeOK /\ ThreadsOrderly /\ Nil \notin Nat /\ Nil \notin Snap
      /\ \A t \in Thread : todo[t] \in Seq(Instr) /\ Tidy(todo[t], snap)
  BY TodoTidy, Counted, SnapshotsAssumption
<1>1. /\ \A d \in Doc : docs[d].snap \in Obj \cup {Nil} /\ docs[d].prev \in Obj \cup {Nil}
      /\ gws \in Obj \cup {Nil}
      /\ \A q \in Query : ctx[q].ws \in Obj \cup {Nil} /\ ctx[q].prev \in Obj \cup {Nil}
      /\ \A v \in Diag : diag[v].pending \in Obj \cup {Nil} /\ diag[v].running \in Obj \cup {Nil}
  BY <1>0 DEF TypeOK, Document, QueryContext, DiagWorker, Obj
<1>2. Coord \in Thread /\ Query \subseteq Thread /\ Diag \subseteq Thread /\ Nil \in Obj \cup {Nil}
  BY DEF Thread
<1>3. ASSUME NEW t \in Thread, NEW a \in Obj \cup {Nil}, NEW b \in Obj \cup {Nil},
             \/ todo' = [todo EXCEPT ![t] = Drop(a)]
             \/ todo' = [todo EXCEPT ![t] = Drop(a) \o Drop(b)]
      PROVE  \A u \in Thread : Tidy(todo'[u], snap)
  <2>1. Tidy(Drop(a), snap) /\ Tidy(Drop(a) \o Drop(b), snap)
    BY DropsTidy
  <2>2. \A u \in Thread : u # t => todo'[u] = todo[u]
    BY <1>0, <1>3 DEF TypeOK
  <2>3. todo'[t] = Drop(a) \/ todo'[t] = Drop(a) \o Drop(b)
    BY <1>0, <1>3 DEF TypeOK
  <2> QED BY <1>0, <2>1, <2>2, <2>3
<1>4. UNCHANGED snap /\ UNCHANGED <<bufs, recycle>> => BufStill
  BY DEF BufStill
<1>5. CASE \E d \in Doc : Forget(d)
  <2>1. PICK d \in Doc : Forget(d)
    BY <1>5
  <2>2. \A u \in Thread : Tidy(todo'[u], snap)
    BY <1>1, <1>2, <1>3, <2>1 DEF Forget
  <2> QED BY <1>4, <2>1, <2>2, StillKept DEF Forget
<1>6. CASE Publish
  <2>1. \A u \in Thread : Tidy(todo'[u], snap)
    BY <1>1, <1>2, <1>3, <1>6 DEF Publish
  <2>2. ASSUME NEW s \in Snap
        PROVE  /\ snap'[s].buf = snap[s].buf
               /\ snap'[s].refs = Nil <=> snap[s].refs = Nil
               /\ snap'[s].refs \notin {Nil, 0} => snap[s].refs \notin {Nil, 0}
    <3>1. /\ snap'[s].buf = snap[s].buf
          /\ snap'[s].refs = IF snap[s].refs = Nil THEN Nil
                             ELSE snap[s].refs + Cardinality(CurrentIn(s))
      BY <1>0, <1>6 DEF Publish, AcquireAll, CurrentIn, TypeOK, DocSnapshot
    <3>2. snap[s].refs \in Nat \cup {Nil} /\ Cardinality(CurrentIn(s)) \in Nat
      BY <1>0, Counted, HoldersFinite
    <3>3. snap[s].refs = 0 => Cardinality(CurrentIn(s)) = 0
      <4>1. CurrentIn(s) # {} => snap[s].refs >= 1
        BY <1>0, HeldSnap DEF CurrentIn
      <4> QED BY <1>0, <4>1, FS_EmptySet
    <3> QED BY ONLY <1>0, <3>1, <3>2, <3>3
  <2>3. BufStill
    BY <1>6, <2>2 DEF Publish, BufStill
  <2> QED BY <2>1, <2>3, StillKept
<1>7. CASE Revalidated \/ DiagUnlock \/ \E v \in Diag : DiagRetire(v)
  <2>1. UNCHANGED <<snap, bufs, recycle, todo>>
    BY <1>7 DEF Revalidated, DiagUnlock, DiagRetire
  <2> QED BY <1>0, <1>4, <2>1, StillKept
<1>8. CASE \E v \in Diag : DiagRequest(v)
  <2>1. PICK v \in Diag : DiagRequest(v)
    BY <1>8
  <2>2. \A u \in Thread : Tidy(todo'[u], snap)
    BY <1>1, <1>2, <1>3, <2>1 DEF DiagRequest
  <2> QED BY <1>4, <2>1, <2>2, StillKept DEF DiagRequest
<1>9. CASE \E q \in Query, d \in Doc \cup {Nil} : Pin(q, d)
  <2>1. PICK q \in Query, d \in Doc \cup {Nil} : Pin(q, d)
    BY <1>9
  <2> DEFINE p == IF d = Nil THEN Nil ELSE docs[d].prev
  <2>2. UNCHANGED <<bufs, recycle, todo>> /\ snap' = docsnap_acquire(snap, p)
    BY <2>1 DEF Pin
  <2>3. p \in Snap \cup {Nil} /\ (p # Nil => snap[p].refs \in Nat /\ snap[p].refs >= 1)
    <3>1. p \in Snap \cup {Nil}
      BY <1>0 DEF TypeOK, Document
    <3>2. p # Nil => p \in Snap /\ d \in Doc /\ docs[d].prev = p
      BY <3>1
    <3> QED BY <1>0, <3>1, <3>2, HeldSnap
  <2> HIDE DEF p
  <2>4. \A s \in Snap : snap'[s].buf = snap[s].buf
    BY <1>0, <2>2, <2>3 DEF docsnap_acquire, TypeOK, DocSnapshot
  <2>5. \A s \in Snap : s # p => snap'[s].refs = snap[s].refs
    BY <1>0, <2>2, <2>3 DEF docsnap_acquire, TypeOK, DocSnapshot
  <2>6. p # Nil => snap'[p].refs = snap[p].refs + 1
    BY <1>0, <2>2, <2>3 DEF docsnap_acquire, TypeOK, DocSnapshot
  <2>7. BufStill
    BY <1>0, <2>2, <2>3, <2>4, <2>5, <2>6 DEF BufStill
  <2> QED BY <1>0, <2>2, <2>7, StillKept
<1>10. CASE \E q \in Query : RunQuery(q)
  <2>1. PICK q \in Query : RunQuery(q)
    BY <1>10
  <2>2. CASE SemTokensLoad(q)
    BY <1>0, <1>4, <2>2, StillKept DEF SemTokensLoad
  <2>3. CASE SemTokensCas(q)
    <3>1. \A s \in Snap : snap'[s].buf = snap[s].buf /\ snap'[s].refs = snap[s].refs
      BY <1>0, <2>3 DEF SemTokensCas, TypeOK, DocSnapshot
    <3>2. BufStill
      BY <2>3, <3>1 DEF BufStill, SemTokensCas
    <3> QED BY <1>0, <2>3, <3>2, StillKept DEF SemTokensCas
  <2>4. CASE Finish(q)
    <3>1. \A u \in Thread : Tidy(todo'[u], snap)
      BY <1>1, <1>2, <1>3, <2>4 DEF Finish, query_context_free
    <3> QED BY <1>4, <2>4, <3>1, StillKept DEF Finish
  <2> QED BY <2>1, <2>2, <2>3, <2>4 DEF RunQuery
<1>11. CASE \E v \in Diag : RunDiag(v)
  <2>1. PICK v \in Diag : RunDiag(v)
    BY <1>11
  <2>2. UNCHANGED <<snap, bufs, recycle>>
    BY <2>1 DEF RunDiag, DiagTake, DiagRan, DiagStop
  <2>3. CASE DiagTake(v)
    BY <1>0, <1>4, <2>2, <2>3, StillKept DEF DiagTake
  <2>4. CASE DiagRan(v)
    <3>1. \A u \in Thread : Tidy(todo'[u], snap)
      BY <1>1, <1>2, <1>3, <2>4 DEF DiagRan
    <3> QED BY <1>4, <2>2, <3>1, StillKept
  <2>5. CASE DiagStop(v)
    <3>1. \A u \in Thread : Tidy(todo'[u], snap)
      BY <1>1, <1>2, <1>3, <2>5 DEF DiagStop, StopReleases
    <3> QED BY <1>4, <2>2, <3>1, StillKept
  <2> QED BY <2>1, <2>3, <2>4, <2>5 DEF RunDiag
<1> QED BY <1>5, <1>6, <1>7, <1>8, <1>9, <1>10, <1>11 DEF Coordinate

\* A thread's stack changes and stays tidy.
LEMMA StackTidy ==
  ASSUME BufInv, NEW t \in Thread, NEW q, Tidy(q, snap), todo' = [todo EXCEPT ![t] = q]
  PROVE  \A u \in Thread : Tidy(todo'[u], snap)
BY TodoTidy DEF TypeOK

\* What a release leaves below its next instruction.
LEMMA TopPlain ==
  ASSUME BufInv, NEW t \in Thread, todo[t] # <<>>
  PROVE  /\ todo[t] \in Seq(Instr) /\ Rest(t) \in Seq(Instr)
         /\ Top(t).op = "drop" \/ Top(t).obj \in Ws =>
              PlainTo(todo[t], Len(todo[t])) /\ PlainTo(Rest(t), Len(Rest(t)))
         /\ \A s \in Snap : Top(t) = SnapInstr("free", s) =>
              PlainTo(Rest(t), Len(Rest(t))) /\ snap[s].buf = Nil
<1> DEFINE q == todo[t]
<1>1. q \in Seq(Instr) /\ q # <<>> /\ Tidy(q, snap)
  BY TodoTidy
<1> HIDE DEF q
<1>2. /\ Len(q) \in Nat /\ Len(q) >= 1
      /\ q[Len(q)].op = "drop" \/ q[Len(q)].obj \in Ws => PlainTo(q, Len(q))
      /\ \A s \in Snap : q[Len(q)] = SnapInstr("free", s) =>
           PlainTo(q, Len(q) - 1) /\ snap[s].buf = Nil
  BY <1>1, TidyTop
<1>3. PlainTo(q, Len(q)) => PlainTo(q, Len(q) - 1)
  BY <1>2 DEF PlainTo
<1> DEFINE r == SubSeq(q, 1, Len(q) - 1)
<1>4. r \in Seq(Instr) /\ (PlainTo(q, Len(q) - 1) => PlainTo(r, Len(r)))
  BY <1>1, RestOf
<1> HIDE DEF r
<1>5. /\ q \in Seq(Instr) /\ r \in Seq(Instr)
      /\ q[Len(q)].op = "drop" \/ q[Len(q)].obj \in Ws => PlainTo(q, Len(q)) /\ PlainTo(r, Len(r))
      /\ \A s \in Snap : q[Len(q)] = SnapInstr("free", s) =>
           PlainTo(r, Len(r)) /\ snap[s].buf = Nil
  BY <1>1, <1>2, <1>3, <1>4, Zenon
<1> QED BY <1>5 DEF q, r, Top, Rest

LEMMA DropSnapBufs ==
  ASSUME BufInv, NEW t \in Thread, DropSnap(t)
  PROVE  BufferKept' /\ BufferOwnedOnce'
<1> DEFINE s == Top(t).obj  r == Rest(t)
<1>0. /\ RefInv /\ TypeOK /\ Runs(t, "drop", Snap) /\ todo[t] # <<>> /\ Top(t).op = "drop"
      /\ Snap \in SUBSET Obj /\ "drop" \in Op /\ Nil \notin Nat
      /\ UNCHANGED <<bufs, recycle>> /\ snap' = [snap EXCEPT ![s].refs = snap[s].refs - 1]
      /\ todo' = [todo EXCEPT ![t] = r \o docsnap_release(s)]
  BY TodoTidy, SnapshotsAssumption DEF DropSnap, Runs, Obj, Op
<1>1. /\ s \in Snap
      /\ \A x \in Obj : /\ Count(Pop(todo, t), "drop", x) \in Nat
                        /\ Count(todo, "drop", x) = Count(Pop(todo, t), "drop", x) + Eq(s, x)
  BY <1>0, PopNow
<1>2. snap[s].refs \in Nat /\ snap[s].refs >= 1
  <2>1. s \in Obj /\ Eq(s, s) = 1
    BY <1>0, <1>1 DEF Eq
  <2>2. Count(todo, "drop", s) >= 1
    BY <1>1, <2>1
  <2> QED BY <1>0, <1>1, <2>2, HeldSnap
<1>3. r \in Seq(Instr) /\ PlainTo(r, Len(r))
  BY <1>0, TopPlain
<1>4. snap[s].buf # Nil
  BY <1>0, <1>1, <1>2 DEF BufInv, BufferKept
<1> HIDE DEF s, r
<1>5. Tidy(r \o docsnap_release(s), snap)
  <2>1. CASE snap[s].refs = 1
    <3>1. docsnap_release(s) = <<[op |-> "free", obj |-> s], [op |-> "spans", obj |-> s]>>
      BY <2>1 DEF docsnap_release
    <3> QED BY <1>1, <1>3, <1>4, <3>1, PlainPush
  <2>2. CASE snap[s].refs # 1
    <3>1. docsnap_release(s) = <<>> /\ r \o <<>> = r
      BY <1>3, <2>2 DEF docsnap_release
    <3>2. Tidy(r, snap)
      BY <1>3, PlainPush
    <3> QED BY <3>1, <3>2
  <2> QED BY <2>1, <2>2
<1>6. \A u \in Thread : Tidy(todo'[u], snap)
  BY <1>0, <1>5, StackTidy
<1>7. /\ \A x \in Snap : snap'[x].buf = snap[x].buf
      /\ \A x \in Snap : x # s => snap'[x].refs = snap[x].refs
      /\ snap'[s].refs = snap[s].refs - 1
  BY <1>0, <1>1 DEF TypeOK, DocSnapshot
<1>8. snap'[s].refs # Nil /\ snap[s].refs # Nil /\ snap[s].refs # 0
  <2>1. snap[s].refs - 1 \in Nat
    BY <1>2
  <2> QED BY <1>0, <1>2, <1>7, <2>1
<1>9. BufStill
  BY <1>0, <1>7, <1>8 DEF BufStill
<1> QED BY <1>6, <1>9, StillKept

LEMMA WsReleaseBufs ==
  ASSUME BufInv, NEW t \in Thread, DropWs(t) \/ DropDoc(t) \/ FreeWs(t)
  PROVE  BufferKept' /\ BufferOwnedOnce'
<1>1. /\ UNCHANGED <<snap, bufs, recycle>> /\ todo[t] # <<>> /\ Top(t).obj \in Ws /\ TypeOK
  BY TodoTidy DEF DropWs, DropDoc, FreeWs, Runs
<1>2. /\ todo[t] \in Seq(Instr) /\ Rest(t) \in Seq(Instr)
      /\ PlainTo(todo[t], Len(todo[t])) /\ PlainTo(Rest(t), Len(Rest(t)))
  BY <1>1, TopPlain
<1>3. \A u \in Thread : Tidy(todo'[u], snap)
  <2>1. CASE DropWs(t)
    <3>1. todo' = [todo EXCEPT ![t] = Rest(t) \o ws_release(Top(t).obj)]
      BY <2>1 DEF DropWs
    <3>2. Tidy(Rest(t) \o ws_release(Top(t).obj), snap)
      <4>1. CASE ws[Top(t).obj].refs = 1
        BY <1>1, <1>2, <4>1, PlainPush DEF ws_release
      <4>2. CASE ws[Top(t).obj].refs # 1
        <5>1. ws_release(Top(t).obj) = <<>> /\ Rest(t) \o <<>> = Rest(t)
          BY <1>2, <4>2 DEF ws_release
        <5>2. Tidy(Rest(t), snap)
          BY <1>2, PlainPush
        <5> QED BY <5>1, <5>2
      <4> QED BY <4>1, <4>2
    <3> QED BY <3>1, <3>2, StackTidy
  <2>2. CASE DropDoc(t)
    <3>1. PICK d \in Doc :
            todo' = [todo EXCEPT ![t] = todo[t] \o Drop(ws[Top(t).obj].docs[d])]
      BY <2>2 DEF DropDoc
    <3>2. ws[Top(t).obj].docs[d] \in Obj \cup {Nil}
      BY <1>1 DEF TypeOK, WorkspaceSnapshot, Obj
    <3>3. Tidy(todo[t] \o Drop(ws[Top(t).obj].docs[d]), snap)
      BY <1>2, <3>2, PlainPush
    <3> QED BY <3>1, <3>3, StackTidy
  <2>3. CASE FreeWs(t)
    <3>1. todo' = [todo EXCEPT ![t] = Rest(t)]
      BY <2>3 DEF FreeWs
    <3>2. Tidy(Rest(t), snap)
      BY <1>2, PlainPush
    <3> QED BY <3>1, <3>2, StackTidy
  <2> QED BY <2>1, <2>2, <2>3
<1>4. BufStill
  BY <1>1 DEF BufStill
<1> QED BY <1>3, <1>4, StillKept

\* One snapshot's buffer changes: so does the number of owners.
LEMMA OwnersUpdate ==
  ASSUME NEW s \in Snap, \A x \in Snap : x # s => snap'[x].buf = snap[x].buf, NEW b
  PROVE  /\ Cardinality(OwnersOf(b)) \in Nat /\ Cardinality(OwnersOf(b)') \in Nat
         /\ Cardinality(OwnersOf(b)') + Eq(snap[s].buf, b)
              = Cardinality(OwnersOf(b)) + Eq(snap'[s].buf, b)
<1>1. IsFiniteSet(Snap) /\ OwnersOf(b) \in SUBSET Snap
  BY SnapshotsAssumption DEF OwnersOf
<1>2. IsFiniteSet(OwnersOf(b))
  BY <1>1, FS_Subset
<1>3. /\ OwnersOf(b) \ {s} = OwnersOf(b)' \ {s}
      /\ In(s, OwnersOf(b)) = Eq(snap[s].buf, b) /\ In(s, OwnersOf(b)') = Eq(snap'[s].buf, b)
  BY DEF OwnersOf, In, Eq
<1>4. /\ Cardinality(OwnersOf(b)) \in Nat /\ Cardinality(OwnersOf(b)') \in Nat
      /\ Cardinality(OwnersOf(b)') + In(s, OwnersOf(b))
           = Cardinality(OwnersOf(b)) + In(s, OwnersOf(b)')
  BY <1>2, <1>3, SetUpdate
<1> QED BY <1>3, <1>4

LEMMA OwnedOnceNow ==
  ASSUME BufInv, NEW b \in Buf
  PROVE  Cardinality(OwnersOf(b)) + Eq(recycle, b) = In(b, bufs)
BY DEF BufInv, BufferOwnedOnce, Eq, In

LEMMA OwnedOnceNext ==
  ASSUME \A b \in Buf : Cardinality(OwnersOf(b)') + Eq(recycle', b) = In(b, bufs')
  PROVE  BufferOwnedOnce'
BY DEF BufferOwnedOnce, Eq, In

\* tok_spans_release(): the buffer leaves the dying snapshot for the recycle
\* slot or for free().
LEMMA ReleaseSpansBufs ==
  ASSUME BufInv, NEW t \in Thread, ReleaseSpans(t)
  PROVE  BufferKept' /\ BufferOwnedOnce'
<1> DEFINE s == Top(t).obj  q == todo[t]  r == Rest(t)
<1>0. /\ RefInv /\ TypeOK /\ s \in Snap /\ q # <<>> /\ q \in Seq(Instr) /\ Tidy(q, snap)
      /\ Top(t) = SnapInstr("spans", s) /\ Nil \notin Nat /\ Nil \notin Buf
      /\ snap' = [snap EXCEPT ![s].buf = Nil] /\ todo' = [todo EXCEPT ![t] = r]
      /\ tok_spans_release(snap[s].buf)
  <2>1. RefInv /\ TypeOK /\ Runs(t, "spans", Snap) /\ Snap \in SUBSET Obj /\ "spans" \in Op
    BY TodoTidy DEF ReleaseSpans, Obj, Op
  <2>2. Top(t) = SnapInstr("spans", s)
    BY <2>1, PopNow DEF SnapInstr
  <2> QED BY <2>1, <2>2, TodoTidy, SnapshotsAssumption DEF ReleaseSpans, Runs
<1>1. q[Len(q)] = SnapInstr("spans", s) /\ r = SubSeq(q, 1, Len(q) - 1)
  BY <1>0 DEF Top, Rest
<1> HIDE DEF s, q, r
<1>2. /\ Len(q) \in Nat /\ Len(q) >= 2 /\ q[Len(q) - 1] = SnapInstr("free", s)
      /\ PlainTo(q, Len(q) - 2) /\ snap[s].buf # Nil
  BY <1>0, <1>1, TidyTop
<1>3. /\ snap[s].refs = 0
      /\ \A u \in Thread : \A j \in 1 .. Len(todo[u]) :
           todo[u][j] = SnapInstr("free", s) => u = t
  <2>1. Len(q) - 1 \in 1 .. Len(q)
    BY <1>2
  <2> QED BY <1>0, <1>2, <2>1, FreedInOnePlace DEF q
<1>4. r \in Seq(Instr) /\ Len(r) = Len(q) - 1 /\ \A i \in 1 .. Len(q) - 1 : r[i] = q[i]
  BY <1>0, <1>1, RestOf
<1>5. /\ snap'[s].buf = Nil /\ snap[s].buf \in Buf
      /\ \A x \in Snap : snap'[x].refs = snap[x].refs
      /\ \A x \in Snap : x # s => snap'[x].buf = snap[x].buf
  BY <1>0, <1>2 DEF TypeOK, DocSnapshot
<1>6. Tidy(r, snap')
  <2>1. Len(r) >= 1 /\ r[Len(r)] = SnapInstr("free", s)
    BY <1>2, <1>4
  <2>2. PlainTo(r, Len(r) - 1)
    <3>1. Len(r) - 1 = Len(q) - 2
      BY <1>2, <1>4
    <3>2. \A i \in 1 .. Len(q) - 2 : r[i] = q[i]
      BY <1>2, <1>4
    <3> QED BY <1>2, <3>1, <3>2 DEF PlainTo
  <2> QED BY <1>0, <1>5, <2>1, <2>2 DEF Tidy
<1>7. \A u \in Thread : Tidy(todo'[u], snap')
  <2> SUFFICES ASSUME NEW u \in Thread PROVE Tidy(todo'[u], snap')
    OBVIOUS
  <2>1. CASE u = t
    BY <1>0, <1>6, <2>1 DEF TypeOK
  <2>2. CASE u # t
    <3>1. todo'[u] = todo[u] /\ todo[u] \in Seq(Instr) /\ Tidy(todo[u], snap)
      BY <1>0, <2>2, TodoTidy DEF TypeOK
    <3>2. BuffersAgree(todo[u], snap, snap')
      BY <1>3, <1>5, <2>2 DEF BuffersAgree
    <3> QED BY <3>1, <3>2, TidyFrame
  <2> QED BY <2>1, <2>2
<1>8. BufferKept'
  BY <1>3, <1>5, <1>7 DEF BufInv, BufferKept
<1>9. ASSUME NEW b \in Buf
      PROVE  Cardinality(OwnersOf(b)') + Eq(recycle', b) = In(b, bufs')
  <2> DEFINE c == snap[s].buf
  <2>1. /\ Cardinality(OwnersOf(b)) \in Nat /\ Cardinality(OwnersOf(b)') \in Nat
        /\ Cardinality(OwnersOf(b)') + Eq(c, b) = Cardinality(OwnersOf(b)) + 0
    <3>1. Eq(snap'[s].buf, b) = 0
      BY <1>0, <1>5 DEF Eq
    <3> QED BY <1>0, <1>5, <3>1, OwnersUpdate
  <2>2. Cardinality(OwnersOf(b)) + Eq(recycle, b) = In(b, bufs)
    BY OwnedOnceNow
  <2> HIDE DEF c
  <2>3. CASE recycle' = recycle /\ bufs' = bufs \ {c}
    BY <2>1, <2>2, <2>3 DEF Eq, In
  <2>4. CASE recycle = Nil /\ recycle' = c /\ bufs' = bufs
    BY <1>0, <2>1, <2>2, <2>4 DEF Eq, In
  <2> QED BY <1>0, <2>3, <2>4 DEF tok_spans_release, c
<1>10. BufferOwnedOnce'
  BY <1>9, OwnedOnceNext
<1> QED BY <1>8, <1>10

LEMMA FreeSnapBufs ==
  ASSUME BufInv, NEW t \in Thread, FreeSnap(t)
  PROVE  BufferKept' /\ BufferOwnedOnce'
<1> DEFINE s == Top(t).obj
<1>0. /\ RefInv /\ TypeOK /\ s \in Snap /\ todo[t] # <<>>
      /\ Top(t) = SnapInstr("free", s) /\ UNCHANGED <<bufs, recycle>>
      /\ snap' = [snap EXCEPT ![s] = NoSnap] /\ todo' = [todo EXCEPT ![t] = Rest(t)]
  <2>1. RefInv /\ TypeOK /\ Runs(t, "free", Snap) /\ Snap \in SUBSET Obj /\ "free" \in Op
    BY TodoTidy DEF FreeSnap, Obj, Op
  <2>2. Top(t) = SnapInstr("free", s)
    BY <2>1, PopNow DEF SnapInstr
  <2> QED BY <2>1, <2>2 DEF FreeSnap, Runs
<1> HIDE DEF s
<1>1. Rest(t) \in Seq(Instr) /\ PlainTo(Rest(t), Len(Rest(t))) /\ snap[s].buf = Nil
  BY <1>0, TopPlain
<1>2. /\ \A x \in Snap : snap'[x].buf = snap[x].buf
      /\ \A x \in Snap : x # s => snap'[x].refs = snap[x].refs
      /\ snap'[s].refs = Nil /\ snap'[s].buf = Nil
  BY <1>0, <1>1 DEF TypeOK, NoSnap
<1>3. \A u \in Thread : Tidy(todo'[u], snap)
  <2>1. Tidy(Rest(t), snap)
    BY <1>1, PlainPush
  <2> QED BY <1>0, <2>1, StackTidy
<1>4. \A u \in Thread : Tidy(todo'[u], snap')
  BY <1>2, <1>3 DEF Tidy
<1>5. BufferKept'
  <2>1. ASSUME NEW x \in Snap
        PROVE  /\ snap'[x].refs = Nil => snap'[x].buf = Nil
               /\ snap'[x].refs \notin {Nil, 0} => snap'[x].buf # Nil
    BY <1>2 DEF BufInv, BufferKept
  <2> QED BY <1>4, <2>1 DEF BufferKept
<1>6. \A b : OwnersOf(b)' = OwnersOf(b)
  BY <1>2 DEF OwnersOf
<1>7. BufferOwnedOnce'
  BY <1>0, <1>6 DEF BufInv, BufferOwnedOnce
<1> QED BY <1>5, <1>7

\* parse() takes over the recycled buffer or a new one.
LEMMA InstallBufs ==
  ASSUME BufInv, NEW d \in Doc, Install(d)
  PROVE  BufferKept' /\ BufferOwnedOnce'
<1>0. RefInv /\ TypeOK /\ Nil \notin Nat /\ Nil \notin Buf /\ Coord \in Thread
  BY TodoTidy, SnapshotsAssumption DEF Thread
<1>1. PICK s \in Snap, b \in Buf :
        /\ snap[s].refs = Nil
        /\ IF recycle # Nil THEN b = recycle ELSE b \notin bufs
        /\ snap' = [snap EXCEPT ![s] = [refs |-> 1, buf |-> b, memo |-> Nil]]
        /\ bufs' = bufs \cup {b}
        /\ recycle' = Nil
  BY DEF Install
<1>2. todo' = [todo EXCEPT ![Coord] = Drop(docs[d].prev)]
  BY DEF Install
<1>3. snap[s].buf = Nil
  BY <1>1 DEF BufInv, BufferKept
<1>4. /\ snap'[s].buf = b /\ snap'[s].refs = 1
      /\ \A x \in Snap : x # s => snap'[x] = snap[x]
  BY <1>0, <1>1 DEF TypeOK
<1>6. \A u \in Thread : Tidy(todo'[u], snap')
  <2> SUFFICES ASSUME NEW u \in Thread PROVE Tidy(todo'[u], snap')
    OBVIOUS
  <2>1. CASE u = Coord
    <3>1. todo'[u] = Drop(docs[d].prev) /\ docs[d].prev \in Obj \cup {Nil}
      BY <1>0, <1>2, <2>1 DEF TypeOK, Document, Obj
    <3> QED BY <3>1, DropsTidy
  <2>2. CASE u # Coord
    <3>1. todo'[u] = todo[u] /\ todo[u] \in Seq(Instr) /\ Tidy(todo[u], snap)
      BY <1>0, <1>2, <2>2, TodoTidy DEF TypeOK
    <3>2. ASSUME NEW x \in Snap, NEW i \in 1 .. Len(todo[u]), todo[u][i] = SnapInstr("free", x)
          PROVE  snap'[x].buf = Nil <=> snap[x].buf = Nil
      <4>1. snap[x].refs = 0
        BY <1>0, <3>2, FreedInOnePlace
      <4>2. x # s
        BY <1>0, <1>1, <4>1
      <4> QED BY <1>4, <4>2
    <3>3. BuffersAgree(todo[u], snap, snap')
      BY <3>2 DEF BuffersAgree
    <3> QED BY <3>1, <3>3, TidyFrame
  <2> QED BY <2>1, <2>2
<1>7. BufferKept'
  <2>1. ASSUME NEW x \in Snap
        PROVE  /\ snap'[x].refs = Nil => snap'[x].buf = Nil
               /\ snap'[x].refs \notin {Nil, 0} => snap'[x].buf # Nil
    <3>1. CASE x = s
      BY <1>0, <1>1, <1>4, <3>1
    <3>2. CASE x # s
      BY <1>4, <3>2 DEF BufInv, BufferKept
    <3> QED BY <3>1, <3>2
  <2> QED BY <1>6, <2>1 DEF BufferKept
<1>8. ASSUME NEW c \in Buf
      PROVE  Cardinality(OwnersOf(c)') + Eq(recycle', c) = In(c, bufs')
  <2>1. /\ Cardinality(OwnersOf(c)) \in Nat /\ Cardinality(OwnersOf(c)') \in Nat
        /\ Cardinality(OwnersOf(c)') + 0 = Cardinality(OwnersOf(c)) + Eq(b, c)
    <3>1. Eq(snap[s].buf, c) = 0 /\ Eq(snap'[s].buf, c) = Eq(b, c)
      BY <1>0, <1>3, <1>4 DEF Eq
    <3> QED BY <1>4, <3>1, OwnersUpdate
  <2>2. Cardinality(OwnersOf(c)) + Eq(recycle, c) = In(c, bufs)
    BY OwnedOnceNow
  <2>3. CASE c = b
    BY <1>0, <1>1, <2>1, <2>2, <2>3 DEF Eq, In
  <2>4. CASE c # b
    BY <1>0, <1>1, <2>1, <2>2, <2>4 DEF Eq, In
  <2> QED BY <2>3, <2>4
<1>9. BufferOwnedOnce'
  BY <1>8, OwnedOnceNext
<1> QED BY <1>7, <1>9

LEMMA BufInit == Init => BufInv
<1> SUFFICES ASSUME Init PROVE BufInv
  OBVIOUS
<1>1. RefInv
  BY RefInit
<1>2. \A s \in Snap : snap[s].buf = Nil /\ snap[s].refs = Nil
  BY DEF Init, NoSnap
<1>3. \A t \in Thread : Tidy(todo[t], snap)
  <2>1. Nil \in Obj \cup {Nil} /\ Drop(Nil) = <<>>
    BY DEF Drop
  <2>2. Tidy(<<>>, snap)
    BY <2>1, DropsTidy
  <2> QED BY <2>2 DEF Init
<1>4. BufferKept
  BY <1>2, <1>3 DEF BufferKept
<1>5. \A b \in Buf : OwnersOf(b) = {} /\ recycle # b /\ b \notin bufs
  BY <1>2, SnapshotsAssumption DEF OwnersOf, Init
<1>6. BufferOwnedOnce
  BY <1>5, FS_EmptySet DEF BufferOwnedOnce
<1> QED BY <1>1, <1>4, <1>6 DEF BufInv

LEMMA BufStep ==
  ASSUME BufInv, [Next]_vars
  PROVE  BufInv'
<1>0. RefInv'
  BY RefStep DEF BufInv
<1>1. BufferKept' /\ BufferOwnedOnce'
  <2>1. CASE UNCHANGED vars
    <3>1. UNCHANGED <<snap, bufs, recycle, todo>>
      BY <2>1 DEF vars
    <3>2. BufStill /\ \A t \in Thread : Tidy(todo'[t], snap)
      BY <3>1, TodoTidy DEF BufStill
    <3> QED BY <3>2, StillKept
  <2>2. CASE \E d \in Doc : Install(d)
    BY <2>2, InstallBufs
  <2>3. CASE \E t \in Thread : Release(t)
    BY <2>3, DropSnapBufs, WsReleaseBufs, ReleaseSpansBufs, FreeSnapBufs DEF Release
  <2>4. CASE \/ \E d \in Doc : Forget(d)
             \/ Coordinate
             \/ \E q \in Query, d \in Doc \cup {Nil} : Pin(q, d)
             \/ \E q \in Query : RunQuery(q)
             \/ \E v \in Diag : RunDiag(v)
    BY <2>4, IdleBufs
  <2> QED BY <2>1, <2>2, <2>3, <2>4 DEF Next, Edit
<1> QED BY <1>0, <1>1 DEF BufInv

\* A doc_snapshot keeps its token buffer until its destructor runs.
THEOREM BufInvariance == Spec => []BufInv
<1> QED BY BufInit, BufStep, PTL DEF Spec

\* "The exchange/CAS pair never loses or double-owns a buffer" (parser.c):
\* whichever threads parse and destroy snapshots, every allocated token-span
\* buffer belongs to one snapshot or to the recycle slot.
THEOREM BufferOwnedOnceAlways == Spec => []BufferOwnedOnce
<1>1. BufInv => BufferOwnedOnce
  BY DEF BufInv
<1> QED BY <1>1, BufInvariance, PTL



-----------------------------------------------------------------------------
(* What somebody holds does not change.                                    *)

\* An object that a destructor is working on has no holders left.
LEMMA Dying ==
  ASSUME RefInv, NEW t \in Thread
  PROVE  /\ Runs(t, "free", Ws) => Top(t).obj \in Ws /\ ws[Top(t).obj].refs = 0
         /\ Runs(t, "free", Snap) => Top(t).obj \in Snap /\ snap[Top(t).obj].refs = 0
<1> DEFINE y == Top(t).obj  f == Pop(todo, t)
<1>1. "free" \in Op /\ Ws \in SUBSET Obj /\ Snap \in SUBSET Obj
  BY DEF Op, Obj
<1>2. \A S \in SUBSET Obj : Runs(t, "free", S) =>
        /\ y \in S
        /\ \A x \in Obj : /\ Count(f, "free", x) \in Nat
                          /\ Count(todo, "free", x) = Count(f, "free", x) + Eq(y, x)
  BY <1>1, PopNow
<1> HIDE DEF y, f
<1>3. \A S \in SUBSET Obj : Runs(t, "free", S) => y \in S /\ Count(todo, "free", y) >= 1
  BY <1>2 DEF Eq
<1>4. /\ \A s \in Snap : Count(todo, "free", s) = IF snap[s].refs = 0 THEN 1 ELSE 0
      /\ \A w \in Ws : Count(todo, "free", w) = IF ws[w].refs = 0 THEN 1 ELSE 0
  BY Counted
<1>5. Runs(t, "free", Ws) => y \in Ws /\ ws[y].refs = 0
  BY <1>1, <1>3, <1>4
<1>6. Runs(t, "free", Snap) => y \in Snap /\ snap[y].refs = 0
  BY <1>1, <1>3, <1>4
<1> QED BY <1>5, <1>6 DEF y

\* Of a workspace snapshot in use only the count changes.
LEMMA WsFrame ==
  ASSUME RefInv, Next, NEW w \in Ws, ws[w].refs \notin {Nil, 0}
  PROVE  ws'[w].docs = ws[w].docs
<1>0. TypeOK /\ ws \in [Ws -> WorkspaceSnapshot] /\ gws \in Ws \cup {Nil}
  BY Counted DEF TypeOK
<1>1. ASSUME ws' = ws_acquire(ws, gws)
      PROVE  ws'[w].docs = ws[w].docs
  BY <1>0, <1>1 DEF ws_acquire, WorkspaceSnapshot
<1>2. CASE Edit
  BY <1>2 DEF Edit, Install, Forget
<1>3. CASE Coordinate
  <2>1. CASE Publish
    <3>1. PICK x \in Ws : /\ ws[x].refs = Nil
                          /\ ws' = [ws EXCEPT ![x] = [refs |-> 1, docs |-> [d \in Doc |-> docs[d].snap]]]
      BY <2>1 DEF Publish
    <3> QED BY <1>0, <3>1
  <2>2. CASE Revalidated \/ DiagUnlock \/ \E v \in Diag : DiagRetire(v)
    BY <2>2 DEF Revalidated, DiagUnlock, DiagRetire
  <2>3. CASE \E v \in Diag : DiagRequest(v)
    BY <1>1, <2>3 DEF DiagRequest
  <2> QED BY <1>3, <2>1, <2>2, <2>3 DEF Coordinate
<1>4. CASE \E q \in Query, d \in Doc \cup {Nil} : Pin(q, d)
  BY <1>1, <1>4 DEF Pin
<1>5. CASE \E q \in Query : RunQuery(q)
  BY <1>5 DEF RunQuery, SemTokensLoad, SemTokensCas, Finish
<1>6. CASE \E v \in Diag : RunDiag(v)
  BY <1>6 DEF RunDiag, DiagTake, DiagRan, DiagStop
<1>7. CASE \E t \in Thread : Release(t)
  <2>1. PICK t \in Thread : Release(t)
    BY <1>7
  <2>2. CASE DropWs(t)
    <3>1. ws' = [ws EXCEPT ![Top(t).obj].refs = ws[Top(t).obj].refs - 1] /\ Top(t).obj \in Ws
      BY <2>2 DEF DropWs, Runs
    <3> QED BY <1>0, <3>1 DEF WorkspaceSnapshot
  <2>3. CASE DropDoc(t)
    <3>1. Top(t).obj \in Ws /\ ws[Top(t).obj].refs = 0
      BY <2>3, Dying DEF DropDoc
    <3>2. PICK d \in Doc : ws' = [ws EXCEPT ![Top(t).obj].docs[d] = Nil]
      BY <2>3 DEF DropDoc
    <3> QED BY <1>0, <3>1, <3>2
  <2>4. CASE FreeWs(t)
    <3>1. Top(t).obj \in Ws /\ ws[Top(t).obj].refs = 0
      BY <2>4, Dying DEF FreeWs
    <3>2. ws' = [ws EXCEPT ![Top(t).obj] = NoWs]
      BY <2>4 DEF FreeWs
    <3> QED BY <1>0, <3>1, <3>2
  <2>5. CASE DropSnap(t) \/ ReleaseSpans(t) \/ FreeSnap(t)
    BY <2>5 DEF DropSnap, ReleaseSpans, FreeSnap
  <2> QED BY <2>1, <2>2, <2>3, <2>4, <2>5 DEF Release
<1> QED BY <1>2, <1>3, <1>4, <1>5, <1>6, <1>7 DEF Next

\* Of a doc_snapshot in use the buffer stays, and so does a memo once set.
LEMMA SnapFrame ==
  ASSUME BufInv, Next, NEW s \in Snap, snap[s].refs \notin {Nil, 0}
  PROVE  /\ snap'[s].buf = snap[s].buf
         /\ snap[s].memo # Nil => snap'[s].memo = snap[s].memo
<1>0. RefInv /\ TypeOK /\ snap \in [Snap -> DocSnapshot] /\ ThreadsOrderly
  BY TodoTidy, Counted DEF TypeOK
<1>1. CASE Edit
  <2>1. CASE \E d \in Doc : Install(d)
    <3>1. PICK x \in Snap, b \in Buf :
            /\ snap[x].refs = Nil
            /\ snap' = [snap EXCEPT ![x] = [refs |-> 1, buf |-> b, memo |-> Nil]]
      BY <2>1 DEF Install
    <3> QED BY <1>0, <3>1
  <2>2. CASE \E d \in Doc : Forget(d)
    BY <2>2 DEF Forget
  <2> QED BY <1>1, <2>1, <2>2 DEF Edit
<1>2. CASE Coordinate
  <2>1. CASE Publish
    <3>1. snap' = AcquireAll
      BY <2>1 DEF Publish
    <3> QED BY <1>0, <3>1 DEF AcquireAll, DocSnapshot
  <2>2. CASE Revalidated \/ DiagUnlock \/ \E v \in Diag : DiagRetire(v) \/ DiagRequest(v)
    BY <2>2 DEF Revalidated, DiagUnlock, DiagRetire, DiagRequest
  <2> QED BY <1>2, <2>1, <2>2 DEF Coordinate
<1>3. CASE \E q \in Query, d \in Doc \cup {Nil} : Pin(q, d)
  <2>1. PICK q \in Query, d \in Doc \cup {Nil} : Pin(q, d)
    BY <1>3
  <2> DEFINE p == IF d = Nil THEN Nil ELSE docs[d].prev
  <2>2. snap' = docsnap_acquire(snap, p)
    BY <2>1 DEF Pin
  <2>3. p \in Snap \cup {Nil}
    BY <1>0 DEF TypeOK, Document
  <2> HIDE DEF p
  <2> QED BY <1>0, <2>2, <2>3 DEF docsnap_acquire, DocSnapshot
<1>4. CASE \E q \in Query : RunQuery(q)
  <2>1. PICK q \in Query : RunQuery(q)
    BY <1>4
  <2>2. CASE SemTokensCas(q)
    <3> DEFINE y == ctx[q].at
    <3>1. y \in Snap
      BY <1>0, <2>2 DEF SemTokensCas, ThreadsOrderly, TypeOK, QueryContext
    <3>2. snap' = [snap EXCEPT ![y].memo = IF snap[y].memo = Nil THEN <<q, y>> ELSE snap[y].memo]
      BY <2>2 DEF SemTokensCas, CasWins
    <3> HIDE DEF y
    <3> QED BY <1>0, <3>1, <3>2 DEF DocSnapshot
  <2>3. CASE SemTokensLoad(q) \/ Finish(q)
    BY <2>3 DEF SemTokensLoad, Finish
  <2> QED BY <2>1, <2>2, <2>3 DEF RunQuery
<1>5. CASE \E v \in Diag : RunDiag(v)
  BY <1>5 DEF RunDiag, DiagTake, DiagRan, DiagStop
<1>6. CASE \E t \in Thread : Release(t)
  <2>1. PICK t \in Thread : Release(t)
    BY <1>6
  <2>2. CASE DropSnap(t)
    <3>1. snap' = [snap EXCEPT ![Top(t).obj].refs = snap[Top(t).obj].refs - 1] /\ Top(t).obj \in Snap
      BY <2>2 DEF DropSnap, Runs
    <3> QED BY <1>0, <3>1 DEF DocSnapshot
  <2>3. CASE ReleaseSpans(t)
    <3> DEFINE y == Top(t).obj  q == todo[t]
    <3>1. /\ y \in Snap /\ q # <<>> /\ q \in Seq(Instr) /\ Tidy(q, snap)
          /\ Top(t) = SnapInstr("spans", y) /\ snap' = [snap EXCEPT ![y].buf = Nil]
      <4>1. Runs(t, "spans", Snap) /\ Snap \in SUBSET Obj /\ "spans" \in Op
        BY <2>3 DEF ReleaseSpans, Obj, Op
      <4>2. Top(t) = SnapInstr("spans", y)
        BY <1>0, <4>1, PopNow DEF SnapInstr
      <4> QED BY <2>3, <4>1, <4>2, TodoTidy DEF ReleaseSpans, Runs
    <3>2. q[Len(q)] = SnapInstr("spans", y)
      BY <3>1 DEF Top
    <3> HIDE DEF y, q
    <3>3. Len(q) \in Nat /\ Len(q) >= 2 /\ q[Len(q) - 1] = SnapInstr("free", y)
      BY <3>1, <3>2, TidyTop
    <3>4. Len(q) - 1 \in 1 .. Len(q)
      BY <3>3
    <3>5. snap[y].refs = 0
      BY <1>0, <3>1, <3>3, <3>4, FreedInOnePlace DEF q
    <3>6. y # s
      BY <3>5
    <3> QED BY <1>0, <3>1, <3>6
  <2>4. CASE FreeSnap(t)
    <3>1. Top(t).obj \in Snap /\ snap[Top(t).obj].refs = 0
      BY <1>0, <2>4, Dying DEF FreeSnap
    <3>2. snap' = [snap EXCEPT ![Top(t).obj] = NoSnap]
      BY <2>4 DEF FreeSnap
    <3> QED BY <1>0, <3>1, <3>2
  <2>5. CASE DropWs(t) \/ DropDoc(t) \/ FreeWs(t)
    BY <2>5 DEF DropWs, DropDoc, FreeWs
  <2> QED BY <2>1, <2>2, <2>3, <2>4, <2>5 DEF Release
<1> QED BY <1>1, <1>2, <1>3, <1>4, <1>5, <1>6 DEF Next

\* From build_query_context_locked() to query_context_free() a context sees one
\* workspace: neither the documents of its snapshot nor the token buffers and
\* memos behind them change, whatever is parsed, published or forgotten.
THEOREM PinnedViewStableAlways == Spec => PinnedViewStable
<1>1. BufInv /\ [Next]_vars => [PinnedStep]_vars
  <2> SUFFICES ASSUME BufInv, Next PROVE PinnedStep
    OBVIOUS
  <2>0. RefInv /\ TypeOK /\ Nil \notin Nat
    BY TodoTidy, SnapshotsAssumption
  <2>1. ASSUME NEW q \in Query, ctx[q].ws # Nil
        PROVE  LET w == ctx[q].ws IN
               /\ ws'[w].docs = ws[w].docs
               /\ \A d \in Doc : LET s == ws[w].docs[d] IN
                    s # Nil => /\ snap'[s].buf = snap[s].buf
                               /\ snap[s].memo # Nil => snap'[s].memo = snap[s].memo
    <3> DEFINE w == ctx[q].ws
    <3>1. w \in Ws
      BY <2>0, <2>1 DEF TypeOK, QueryContext
    <3>2. ws[w].refs \in Nat /\ ws[w].refs >= 1
      BY <2>0, <3>1, HeldWs
    <3>3. ws[w].refs \notin {Nil, 0}
      BY <2>0, <3>2
    <3> HIDE DEF w
    <3>4. ws'[w].docs = ws[w].docs
      BY <2>0, <3>1, <3>3, WsFrame
    <3>5. ASSUME NEW d \in Doc, ws[w].docs[d] # Nil
          PROVE  LET s == ws[w].docs[d] IN
                 /\ snap'[s].buf = snap[s].buf
                 /\ snap[s].memo # Nil => snap'[s].memo = snap[s].memo
      <4> DEFINE s == ws[w].docs[d]
      <4>1. s \in Snap
        BY <2>0, <3>1, <3>5 DEF TypeOK, WorkspaceSnapshot
      <4>2. snap[s].refs \in Nat /\ snap[s].refs >= 1
        BY <2>0, <3>1, <4>1, HeldSnap
      <4>3. snap[s].refs \notin {Nil, 0}
        BY <2>0, <4>2
      <4> HIDE DEF s
      <4>4. /\ snap'[s].buf = snap[s].buf
            /\ snap[s].memo # Nil => snap'[s].memo = snap[s].memo
        BY <4>1, <4>3, SnapFrame
      <4> QED BY <4>4 DEF s
    <3> QED BY <3>4, <3>5 DEF w
  <2> QED BY <2>1 DEF PinnedStep
<1> QED BY <1>1, BufInvariance, PTL DEF Spec, PinnedViewStable



-----------------------------------------------------------------------------
(* Token data.                                                             *)

LEMMA MemoTypes ==
  ASSUME MemoInv
  PROVE  /\ RefInv /\ TypeOK /\ ThreadsOrderly /\ memos \subseteq Memo /\ Nil \notin Memo
         /\ \A s \in Snap : snap[s].memo \in Memo \cup {Nil}
         /\ \A q \in Query : ctx[q].memo \subseteq Memo
         /\ \A q \in Query : \A s : <<q, s>>[1] = q /\ <<q, s>>[2] = s
<1>1. RefInv /\ TypeOK /\ ThreadsOrderly /\ Nil \notin Memo
  BY Counted, SnapshotsAssumption DEF MemoInv, Memo
<1> QED BY <1>1 DEF TypeOK, DocSnapshot, QueryContext

\* A query's sources are held, so they are in nobody's destructor.
LEMMA SourcesHeld ==
  ASSUME RefInv, NEW q \in Query, NEW s \in TokenSources(q)
  PROVE  s \in Snap /\ snap[s].refs \in Nat /\ snap[s].refs >= 1
<1>0. TypeOK
  BY Counted
<1>1. ctx[q] \in QueryContext
  BY <1>0 DEF TypeOK
<1>2. CASE s = ctx[q].prev
  <2>1. s \in Snap
    BY <1>1, <1>2 DEF TokenSources, QueryContext
  <2> QED BY <1>2, <2>1, HeldSnap
<1>3. CASE s # ctx[q].prev
  <2> DEFINE w == ctx[q].ws  d == ctx[q].primary
  <2>1. w \in Ws /\ d \in Doc /\ s = ws[w].docs[d] /\ s # Nil
    BY <1>1, <1>3 DEF TokenSources, QueryContext
  <2> HIDE DEF w, d
  <2>2. s \in Snap
    BY <1>0, <2>1 DEF TypeOK, WorkspaceSnapshot
  <2> QED BY <2>1, <2>2, HeldSnap
<1> QED BY <1>2, <1>3

\* ... and stay the same as long as the query's context does.
LEMMA SourcesKept ==
  ASSUME RefInv, Next, NEW q \in Query,
         ctx'[q].ws = ctx[q].ws, ctx'[q].prev = ctx[q].prev, ctx'[q].primary = ctx[q].primary
  PROVE  TokenSources(q)' = TokenSources(q)
<1>0. TypeOK /\ Nil \notin Nat /\ ctx[q] \in QueryContext
  BY Counted, SnapshotsAssumption DEF TypeOK
<1>1. ctx[q].ws # Nil => ws'[ctx[q].ws].docs = ws[ctx[q].ws].docs
  <2> SUFFICES ASSUME ctx[q].ws # Nil
               PROVE  ws'[ctx[q].ws].docs = ws[ctx[q].ws].docs
    OBVIOUS
  <2>1. ctx[q].ws \in Ws
    BY <1>0 DEF QueryContext
  <2>2. ws[ctx[q].ws].refs \in Nat /\ ws[ctx[q].ws].refs >= 1
    BY <2>1, HeldWs
  <2>3. ws[ctx[q].ws].refs \notin {Nil, 0}
    BY <1>0, <2>2
  <2> QED BY <2>1, <2>3, WsFrame
<1> QED BY <1>1 DEF TokenSources

\* The memos in use, and those that a thread has computed but not published.
Published == {snap[s].memo : s \in {x \in Snap : snap[x].memo # Nil}}
Computed == {<<q, ctx[q].at>> : q \in {x \in Query : ctx[x].pc = "cas"}}

\* MemoSafe follows from who names which memo.
LEMMA MemoNext ==
  ASSUME MemoKept', memos' = Published' \cup Computed', Nil \notin Memo,
         \A q \in Query : ctx'[q].memo \subseteq Memo,
         \A q \in Query : TokenSources(q)' \subseteq Snap
  PROVE  MemoSafe'
<1>1. ASSUME NEW q \in Query, NEW m \in ctx'[q].memo
      PROVE  m \in memos'
  <2>1. m[2] \in Snap /\ snap'[m[2]].memo = m /\ m # Nil
    BY <1>1 DEF MemoKept
  <2>2. m \in Published'
    BY <2>1 DEF Published
  <2> QED BY <2>2
<1> QED BY <1>1 DEF MemoSafe, Published, Computed

\* A step that computes, publishes and frees no token data: what it may do to a
\* context is begin it or end it.
MemoStill ==
  /\ memos' = memos
  /\ \A s \in Snap : /\ snap'[s].memo = snap[s].memo
                     /\ snap'[s].refs = Nil => snap[s].refs = Nil
  /\ \A q \in Query : \/ ctx'[q] = ctx[q]
                      \/ ctx[q].pc # "cas" /\ ctx'[q].pc # "cas" /\ ctx'[q].memo = {}

LEMMA MemoStillStep ==
  ASSUME MemoInv, Next, MemoStill
  PROVE  MemoInv'
<1>0. RefInv /\ RefInv'
  BY RefStep DEF MemoInv
<1>1. \A q \in Query : ctx'[q] = ctx[q] => TokenSources(q)' = TokenSources(q)
  BY <1>0, SourcesKept
<1>2. MemoKept'
  <2>1. \A s \in Snap : /\ snap'[s].memo # Nil => snap'[s].memo[2] = s
                        /\ snap'[s].refs = Nil => snap'[s].memo = Nil
    BY DEF MemoStill, MemoInv, MemoKept
  <2>2. ASSUME NEW q \in Query
        PROVE  /\ \A m \in ctx'[q].memo : m[2] \in TokenSources(q)' /\ snap'[m[2]].memo = m
               /\ ctx'[q].pc = "cas" => /\ ctx'[q].at \in TokenSources(q)'
                                        /\ snap'[ctx'[q].at].memo # <<q, ctx'[q].at>>
    <3>1. CASE ctx'[q] = ctx[q]
      <4>1. TokenSources(q)' = TokenSources(q)
        BY <1>1, <3>1
      <4>2. \A s \in TokenSources(q) : snap'[s].memo = snap[s].memo
        BY <1>0, SourcesHeld DEF MemoStill
      <4> QED BY <3>1, <4>1, <4>2 DEF MemoInv, MemoKept
    <3>2. CASE ctx'[q].pc # "cas" /\ ctx'[q].memo = {}
      BY <3>2
    <3> QED BY <3>1, <3>2 DEF MemoStill
  <2> QED BY <2>1, <2>2 DEF MemoKept
<1>3. memos' = Published' \cup Computed'
  <2>1. memos = Published \cup Computed
    BY DEF MemoInv, MemoSafe, Published, Computed
  <2>2. Published' = Published
    BY DEF MemoStill, Published
  <2>3. Computed' = Computed
    <3>1. \A q \in Query : /\ ctx'[q].pc = "cas" <=> ctx[q].pc = "cas"
                           /\ ctx'[q].pc = "cas" => ctx'[q].at = ctx[q].at
      BY DEF MemoStill
    <3> QED BY <3>1 DEF Computed
  <2> QED BY <2>1, <2>2, <2>3 DEF MemoStill
<1>4. /\ Nil \notin Memo
      /\ \A q \in Query : ctx'[q].memo \subseteq Memo
      /\ \A q \in Query : TokenSources(q)' \subseteq Snap
  BY <1>0, MemoTypes, Counted, SourcesHeld DEF TokenSources, TypeOK, QueryContext, WorkspaceSnapshot, RefInv, ReferencesCounted
<1>5. MemoSafe'
  BY <1>2, <1>3, <1>4, MemoNext
<1> QED BY <1>0, <1>2, <1>5 DEF MemoInv

\* What the primed definitions of MemoNext need, from RefInv'.
LEMMA MemoNextTypes ==
  ASSUME RefInv'
  PROVE  /\ Nil \notin Memo
         /\ \A q \in Query : ctx'[q].memo \subseteq Memo
         /\ \A q \in Query : TokenSources(q)' \subseteq Snap
BY SnapshotsAssumption DEF Memo, TokenSources, TypeOK, QueryContext, WorkspaceSnapshot, RefInv,
   ReferencesCounted

\* docsnap_sem_tokens(), the load.
LEMMA SemTokensLoadMemos ==
  ASSUME MemoInv, Next, NEW q \in Query, SemTokensLoad(q)
  PROVE  MemoInv'
<1>0. /\ RefInv /\ RefInv' /\ TypeOK /\ Nil \notin Memo /\ UNCHANGED <<snap, ws>>
      /\ ctx[q].pc = "run" /\ ctx[q] \in QueryContext
  BY RefStep, MemoTypes DEF MemoInv, SemTokensLoad, TypeOK
<1>1. PICK s \in TokenSources(q) :
        IF snap[s].memo # Nil
        THEN /\ ctx' = [ctx EXCEPT ![q].memo = ctx[q].memo \cup {snap[s].memo}]
             /\ memos' = memos
        ELSE /\ ctx' = [ctx EXCEPT ![q].pc = "cas", ![q].at = s]
             /\ memos' = memos \cup {<<q, s>>}
  BY DEF SemTokensLoad
<1>2. s \in Snap
  BY <1>0, <1>1, SourcesHeld
<1>3. /\ \A p \in Query : p # q => ctx'[p] = ctx[p]
      /\ ctx'[q].ws = ctx[q].ws /\ ctx'[q].prev = ctx[q].prev /\ ctx'[q].primary = ctx[q].primary
      /\ snap[s].memo # Nil => /\ ctx'[q].pc = "run" /\ ctx'[q].at = ctx[q].at
                               /\ ctx'[q].memo = ctx[q].memo \cup {snap[s].memo}
      /\ snap[s].memo = Nil => /\ ctx'[q].pc = "cas" /\ ctx'[q].at = s
                               /\ ctx'[q].memo = ctx[q].memo
  BY <1>0, <1>1 DEF TypeOK, QueryContext
<1>4. \A p \in Query : TokenSources(p)' = TokenSources(p)
  BY <1>0, <1>3, SourcesKept
<1>5. MemoKept'
  <2>1. \A x \in Snap : /\ snap'[x].memo # Nil => snap'[x].memo[2] = x
                        /\ snap'[x].refs = Nil => snap'[x].memo = Nil
    BY <1>0 DEF MemoInv, MemoKept
  <2>2. ASSUME NEW p \in Query
        PROVE  /\ \A m \in ctx'[p].memo : m[2] \in TokenSources(p)' /\ snap'[m[2]].memo = m
               /\ ctx'[p].pc = "cas" => /\ ctx'[p].at \in TokenSources(p)'
                                        /\ snap'[ctx'[p].at].memo # <<p, ctx'[p].at>>
    <3>1. CASE p # q
      BY <1>0, <1>3, <1>4, <3>1 DEF MemoInv, MemoKept
    <3>2. CASE p = q /\ snap[s].memo # Nil
      <4>1. snap[s].memo[2] = s
        BY <1>2, <3>2 DEF MemoInv, MemoKept
      <4> QED BY <1>0, <1>1, <1>3, <1>4, <3>2, <4>1 DEF MemoInv, MemoKept
    <3>3. CASE p = q /\ snap[s].memo = Nil
      <4>1. <<q, s>> # Nil
        BY <1>0, <1>2 DEF Memo
      <4> QED BY <1>0, <1>1, <1>3, <1>4, <3>3, <4>1 DEF MemoInv, MemoKept
    <3> QED BY <3>1, <3>2, <3>3
  <2> QED BY <2>1, <2>2 DEF MemoKept
<1>6. memos' = Published' \cup Computed'
  <2>1. memos = Published \cup Computed
    BY DEF MemoInv, MemoSafe, Published, Computed
  <2>2. Published' = Published
    BY <1>0 DEF Published
  <2>3. CASE snap[s].memo # Nil
    <3>1. \A p \in Query : /\ ctx'[p].pc = "cas" <=> ctx[p].pc = "cas"
                           /\ ctx'[p].at = ctx[p].at
      BY <1>0, <1>3, <2>3
    <3>2. Computed' = Computed
      BY <3>1 DEF Computed
    <3> QED BY <1>1, <2>1, <2>2, <2>3, <3>2
  <2>4. CASE snap[s].memo = Nil
    <3>1. \A p \in Query : /\ ctx'[p].pc = "cas" <=> p = q \/ ctx[p].pc = "cas"
                           /\ p # q => ctx'[p].at = ctx[p].at
      BY <1>0, <1>3, <2>4
    <3>2. Computed' = Computed \cup {<<q, s>>}
      BY <1>0, <1>3, <2>4, <3>1 DEF Computed
    <3> QED BY <1>1, <2>1, <2>2, <2>4, <3>2
  <2> QED BY <2>3, <2>4
<1>7. MemoSafe'
  BY <1>0, <1>5, <1>6, MemoNext, MemoNextTypes
<1> QED BY <1>0, <1>5, <1>7 DEF MemoInv

\* docsnap_sem_tokens(), the CAS: one thread's data becomes the memo, the
\* others free theirs.
LEMMA SemTokensCasMemos ==
  ASSUME MemoInv, Next, NEW q \in Query, SemTokensCas(q)
  PROVE  MemoInv'
<1> DEFINE s == ctx[q].at  won == snap[s].memo = Nil
<1>0. /\ RefInv /\ RefInv' /\ TypeOK /\ Nil \notin Memo /\ ctx[q].pc = "cas" /\ UNCHANGED ws
      /\ ctx[q] \in QueryContext /\ snap \in [Snap -> DocSnapshot] /\ Nil \notin Nat
  BY RefStep, MemoTypes, SnapshotsAssumption DEF MemoInv, SemTokensCas, TypeOK
<1>1. /\ snap' = [snap EXCEPT ![s].memo = IF won THEN <<q, s>> ELSE snap[s].memo]
      /\ memos' = IF won THEN memos ELSE memos \ {<<q, s>>}
      /\ ctx' = [ctx EXCEPT ![q].pc = "run", ![q].at = Nil,
                            ![q].memo = ctx[q].memo \cup {IF won THEN <<q, s>> ELSE snap[s].memo}]
  BY DEF SemTokensCas, CasWins, LoserFrees
<1>2. s \in TokenSources(q) /\ snap[s].memo # <<q, s>>
  BY <1>0 DEF MemoInv, MemoKept
<1>3. s \in Snap /\ snap[s].refs # Nil /\ <<q, s>> \in Memo /\ <<q, s>>[2] = s
  BY <1>0, <1>2, SourcesHeld DEF Memo
<1>4. /\ \A p \in Query : p # q => ctx'[p] = ctx[p]
      /\ ctx'[q].ws = ctx[q].ws /\ ctx'[q].prev = ctx[q].prev /\ ctx'[q].primary = ctx[q].primary
      /\ ctx'[q].pc = "run"
      /\ ctx'[q].memo = ctx[q].memo \cup {IF won THEN <<q, s>> ELSE snap[s].memo}
  BY <1>0, <1>1 DEF TypeOK, QueryContext
<1>5. /\ \A x \in Snap : x # s => snap'[x] = snap[x]
      /\ snap'[s].refs = snap[s].refs
      /\ snap'[s].memo = IF won THEN <<q, s>> ELSE snap[s].memo
  BY <1>0, <1>1, <1>3 DEF DocSnapshot
<1>6. \A p \in Query : TokenSources(p)' = TokenSources(p) /\ TokenSources(p) \subseteq Snap
  BY <1>0, <1>4, SourcesKept, SourcesHeld
<1>7. /\ \A x \in Snap : /\ snap[x].memo # Nil => snap[x].memo[2] = x
                         /\ snap[x].memo # Nil => snap'[x].memo = snap[x].memo
      /\ memos = Published \cup Computed
      /\ \A p \in Query : /\ \A m \in ctx[p].memo :
                               m \in Memo /\ m[2] \in TokenSources(p) /\ snap[m[2]].memo = m
                          /\ ctx[p].pc = "cas" => /\ ctx[p].at \in TokenSources(p)
                                                  /\ snap[ctx[p].at].memo # <<p, ctx[p].at>>
  BY <1>5, MemoTypes DEF MemoInv, MemoKept, MemoSafe, Published, Computed
<1>8. snap'[s].memo[2] = s /\ snap'[s].memo # Nil /\ ctx'[q].memo = ctx[q].memo \cup {snap'[s].memo}
  BY <1>0, <1>3, <1>4, <1>5, <1>7
<1> HIDE DEF s
<1>9. MemoKept'
  <2>1. \A x \in Snap : /\ snap'[x].memo # Nil => snap'[x].memo[2] = x
                        /\ snap'[x].refs = Nil => snap'[x].memo = Nil
    BY <1>3, <1>5, <1>8 DEF MemoInv, MemoKept
  <2>2. ASSUME NEW p \in Query, NEW m \in ctx'[p].memo
        PROVE  m[2] \in TokenSources(p)' /\ snap'[m[2]].memo = m
    <3>1. CASE m \in ctx[p].memo
      <4>1. m \in Memo /\ m[2] \in TokenSources(p) /\ snap[m[2]].memo = m
        BY <1>7, <3>1
      <4>2. m # Nil /\ m[2] \in Snap
        BY <1>0, <1>6, <4>1
      <4> QED BY <1>6, <1>7, <4>1, <4>2
    <3>2. CASE m \notin ctx[p].memo
      <4>1. p = q /\ m = snap'[s].memo
        BY <1>4, <1>8, <2>2, <3>2
      <4> QED BY <1>2, <1>6, <1>8, <4>1
    <3> QED BY <3>1, <3>2
  <2>3. ASSUME NEW p \in Query, ctx'[p].pc = "cas"
        PROVE  /\ ctx'[p].at \in TokenSources(p)'
               /\ snap'[ctx'[p].at].memo # <<p, ctx'[p].at>>
    <3>1. p # q /\ ctx'[p] = ctx[p]
      BY <1>4, <2>3
    <3>2. ctx[p].at \in TokenSources(p) /\ snap[ctx[p].at].memo # <<p, ctx[p].at>> /\ ctx[p].at \in Snap
      BY <1>6, <1>7, <2>3, <3>1
    <3>3. snap'[ctx[p].at].memo # <<p, ctx[p].at>>
      <4>1. CASE ctx[p].at = s
        <5>1. <<q, s>> # <<p, s>>
          BY <3>1
        <5> QED BY <1>5, <3>2, <4>1, <5>1
      <4>2. CASE ctx[p].at # s
        BY <1>5, <3>2, <4>2
      <4> QED BY <4>1, <4>2
    <3> QED BY <1>6, <3>1, <3>2, <3>3
  <2> QED BY <2>1, <2>2, <2>3 DEF MemoKept
<1>10. Computed' = Computed \ {<<q, s>>}
  <2>1. \A p \in Query : /\ ctx'[p].pc = "cas" <=> p # q /\ ctx[p].pc = "cas"
                         /\ p # q => ctx'[p].at = ctx[p].at
    BY <1>4
  <2>2. \A p \in Query : \A x : p # q => <<p, x>> # <<q, s>>
    OBVIOUS
  <2>3. \A p \in Query : p = q => <<p, ctx[p].at>> = <<q, s>>
    BY DEF s
  <2> QED BY <2>1, <2>2, <2>3 DEF Computed
<1>11. <<q, s>> \in Computed
  BY <1>0 DEF Computed, s
<1>12. memos' = Published' \cup Computed'
  <2>1. CASE won
    <3>1. Published' = Published \cup {<<q, s>>}
      <4>1. \A x \in Snap : x # s => snap'[x].memo = snap[x].memo
        BY <1>5
      <4>2. snap[s].memo = Nil /\ snap'[s].memo = <<q, s>> /\ <<q, s>> # Nil
        BY <1>5, <1>8, <2>1
      <4> HIDE DEF won
      <4> QED BY <1>3, <4>1, <4>2 DEF Published
    <3> QED BY <1>1, <1>7, <1>10, <1>11, <2>1, <3>1
  <2>2. CASE ~won
    <3>1. \A x \in Snap : snap'[x].memo = snap[x].memo
      BY <1>5, <2>2
    <3>2. Published' = Published
      BY <3>1 DEF Published
    <3>3. <<q, s>> \notin Published
      <4>1. ASSUME NEW x \in Snap, snap[x].memo # Nil, snap[x].memo = <<q, s>>
            PROVE  FALSE
        <5>1. x = s
          BY <1>3, <1>7, <4>1
        <5> QED BY <1>2, <4>1, <5>1
      <4> QED BY <4>1 DEF Published
    <3>4. memos' = memos \ {<<q, s>>}
      BY <1>1, <2>2
    <3> QED BY <1>7, <1>10, <3>2, <3>3, <3>4
  <2> QED BY <2>1, <2>2
<1>13. MemoSafe'
  BY <1>0, <1>9, <1>12, MemoNext, MemoNextTypes
<1> QED BY <1>0, <1>9, <1>13 DEF MemoInv

\* A doc_snapshot nobody's query can reach comes or goes, with its memo.
LEMMA ReplacedMemo ==
  ASSUME MemoInv, Next, NEW s \in Snap, snap[s].refs \in {Nil, 0}, UNCHANGED ctx,
         snap'[s].memo = Nil, \A x \in Snap : x # s => snap'[x] = snap[x],
         memos' = memos \ {snap[s].memo}
  PROVE  MemoInv'
<1>0. /\ RefInv /\ RefInv' /\ Nil \notin Memo /\ memos \subseteq Memo /\ Nil \notin Nat
      /\ \A x \in Snap : snap[x].memo \in Memo \cup {Nil}
  BY RefStep, MemoTypes, SnapshotsAssumption DEF MemoInv
<1>1. \A q \in Query : /\ TokenSources(q)' = TokenSources(q)
                       /\ \A x \in TokenSources(q) : x \in Snap /\ x # s
  <2>1. ASSUME NEW q \in Query, NEW x \in TokenSources(q)
        PROVE  x \in Snap /\ x # s
    <3>1. x \in Snap /\ snap[x].refs \in Nat /\ snap[x].refs >= 1
      BY <1>0, SourcesHeld
    <3>2. snap[x].refs \notin {Nil, 0}
      BY <1>0, <3>1
    <3> QED BY <3>1, <3>2
  <2> QED BY <1>0, <2>1, SourcesKept
<1>2. MemoKept'
  <2>1. \A x \in Snap : /\ snap'[x].memo # Nil => snap'[x].memo[2] = x
                        /\ snap'[x].refs = Nil => snap'[x].memo = Nil
    BY DEF MemoInv, MemoKept
  <2>2. \A q \in Query :
           /\ \A m \in ctx'[q].memo : m[2] \in TokenSources(q)' /\ snap'[m[2]].memo = m
           /\ ctx'[q].pc = "cas" => /\ ctx'[q].at \in TokenSources(q)'
                                    /\ snap'[ctx'[q].at].memo # <<q, ctx'[q].at>>
    BY <1>1 DEF MemoInv, MemoKept
  <2> QED BY <2>1, <2>2 DEF MemoKept
<1>3. memos' = Published' \cup Computed'
  <2> DEFINE m == snap[s].memo
  <2>1. memos = Published \cup Computed /\ Computed' = Computed
    BY DEF MemoInv, MemoSafe, Published, Computed
  <2>2. \A x \in Snap : x # s /\ snap[x].memo # Nil => snap[x].memo # m
    <3>1. \A x \in Snap : snap[x].memo # Nil => snap[x].memo[2] = x
      BY DEF MemoInv, MemoKept
    <3> QED BY <3>1
  <2>3. \A q \in Query : ctx[q].pc = "cas" => <<q, ctx[q].at>> # m
    <3> SUFFICES ASSUME NEW q \in Query, ctx[q].pc = "cas" PROVE <<q, ctx[q].at>> # m
      OBVIOUS
    <3>1. ctx[q].at \in TokenSources(q)
      BY DEF MemoInv, MemoKept
    <3>2. ctx[q].at \in Snap /\ ctx[q].at # s
      BY <1>1, <3>1
    <3>3. <<q, ctx[q].at>> # Nil
      BY <1>0, <3>2 DEF Memo
    <3>4. m # Nil => m[2] = s
      BY DEF MemoInv, MemoKept
    <3>5. <<q, ctx[q].at>>[2] = ctx[q].at
      OBVIOUS
    <3> QED BY <3>2, <3>3, <3>4, <3>5
  <2>4. Computed \ {m} = Computed
    BY <2>3 DEF Computed
  <2>5. Published' = Published \ {m}
    <3>1. \A x \in Snap : snap'[x].memo = IF x = s THEN Nil ELSE snap[x].memo
      OBVIOUS
    <3>2. \A y : y \in Published' <=> \E x \in Snap : snap'[x].memo # Nil /\ y = snap'[x].memo
      BY DEF Published
    <3>3. \A y : y \in Published <=> \E x \in Snap : snap[x].memo # Nil /\ y = snap[x].memo
      BY DEF Published
    <3>4. \A y : y \in Published' <=> y \in Published /\ y # m
      BY <2>2, <3>1, <3>2, <3>3
    <3> QED BY <3>4
  <2> HIDE DEF m
  <2> QED BY <2>1, <2>4, <2>5 DEF m
<1>4. MemoSafe'
  BY <1>0, <1>2, <1>3, MemoNext, MemoNextTypes
<1> QED BY <1>0, <1>2, <1>4 DEF MemoInv

LEMMA InstallMemos ==
  ASSUME MemoInv, Next, NEW d \in Doc, Install(d)
  PROVE  MemoInv'
<1>0. TypeOK /\ memos \subseteq Memo /\ Nil \notin Memo
  BY MemoTypes
<1>1. PICK s \in Snap, b \in Buf :
        /\ snap[s].refs = Nil
        /\ snap' = [snap EXCEPT ![s] = [refs |-> 1, buf |-> b, memo |-> Nil]]
  BY DEF Install
<1>2. UNCHANGED <<ctx, memos>>
  BY DEF Install
<1>3. snap[s].memo = Nil
  BY <1>1 DEF MemoInv, MemoKept
<1>4. snap'[s].memo = Nil /\ \A x \in Snap : x # s => snap'[x] = snap[x]
  BY <1>0, <1>1 DEF TypeOK
<1>5. memos' = memos \ {snap[s].memo}
  BY <1>0, <1>2, <1>3
<1> QED BY <1>1, <1>2, <1>4, <1>5, ReplacedMemo

LEMMA FreeSnapMemos ==
  ASSUME MemoInv, Next, NEW t \in Thread, FreeSnap(t), UNCHANGED ctx
  PROVE  MemoInv'
<1> DEFINE s == Top(t).obj
<1>0. RefInv /\ TypeOK /\ Runs(t, "free", Snap)
  BY MemoTypes DEF FreeSnap
<1>1. s \in Snap /\ snap[s].refs = 0
  BY <1>0, Dying
<1>2. snap' = [snap EXCEPT ![s] = NoSnap] /\ memos' = memos \ {snap[s].memo}
  BY DEF FreeSnap
<1> HIDE DEF s
<1>3. snap'[s].memo = Nil /\ \A x \in Snap : x # s => snap'[x] = snap[x]
  BY <1>0, <1>1, <1>2 DEF TypeOK, NoSnap
<1> QED BY <1>1, <1>2, <1>3, ReplacedMemo

\* The steps that leave token data alone.
LEMMA QuietMemos ==
  ASSUME MemoInv,
         \/ \E d \in Doc : Forget(d)
         \/ Coordinate
         \/ \E q \in Query, d \in Doc \cup {Nil} : Pin(q, d)
         \/ \E q \in Query : Finish(q)
         \/ \E v \in Diag : RunDiag(v)
         \/ \E t \in Thread : /\ DropSnap(t) \/ DropWs(t) \/ ReleaseSpans(t)
                                 \/ DropDoc(t) \/ FreeWs(t)
                              /\ UNCHANGED ctx
  PROVE  MemoStill
<1>0. /\ RefInv /\ TypeOK /\ snap \in [Snap -> DocSnapshot] /\ Nil \notin Nat
      /\ ctx \in [Query -> QueryContext]
  BY MemoTypes, SnapshotsAssumption DEF TypeOK
<1>1. UNCHANGED <<snap, memos, ctx>> => MemoStill
  BY DEF MemoStill
<1>2. CASE \E d \in Doc : Forget(d)
  BY <1>1, <1>2 DEF Forget
<1>3. CASE Coordinate
  <2>1. CASE Publish
    <3>1. snap' = AcquireAll /\ UNCHANGED <<memos, ctx>>
      BY <2>1 DEF Publish
    <3>2. ASSUME NEW s \in Snap
          PROVE  /\ snap'[s].memo = snap[s].memo
                 /\ snap'[s].refs = Nil => snap[s].refs = Nil
      <4>1. /\ snap'[s].memo = snap[s].memo
            /\ snap'[s].refs = IF snap[s].refs = Nil THEN Nil
                               ELSE snap[s].refs + Cardinality(CurrentIn(s))
        BY <1>0, <3>1 DEF AcquireAll, CurrentIn, DocSnapshot
      <4>2. snap[s].refs \in Nat \cup {Nil} /\ Cardinality(CurrentIn(s)) \in Nat
        BY <1>0, Counted, HoldersFinite
      <4> QED BY ONLY <1>0, <4>1, <4>2
    <3> QED BY <3>1, <3>2 DEF MemoStill
  <2>2. CASE Revalidated \/ DiagUnlock \/ \E v \in Diag : DiagRetire(v) \/ DiagRequest(v)
    BY <1>1, <2>2 DEF Revalidated, DiagUnlock, DiagRetire, DiagRequest
  <2> QED BY <1>3, <2>1, <2>2 DEF Coordinate
<1>4. CASE \E q \in Query, d \in Doc \cup {Nil} : Pin(q, d)
  <2>1. PICK q \in Query, d \in Doc \cup {Nil} : Pin(q, d)
    BY <1>4
  <2> DEFINE p == IF d = Nil THEN Nil ELSE docs[d].prev
  <2>2. /\ snap' = docsnap_acquire(snap, p) /\ UNCHANGED memos /\ ctx[q].pc = "none"
        /\ ctx' = [ctx EXCEPT ![q] = [NoCtx EXCEPT !.pc = "run", !.ws = gws, !.prev = p,
                                                   !.primary = d]]
    BY <2>1 DEF Pin
  <2>3. p \in Snap \cup {Nil} /\ (p # Nil => snap[p].refs \in Nat /\ snap[p].refs >= 1)
    <3>1. p \in Snap \cup {Nil}
      BY <1>0 DEF TypeOK, Document
    <3>2. p # Nil => p \in Snap /\ d \in Doc /\ docs[d].prev = p
      BY <3>1
    <3> QED BY <1>0, <3>1, <3>2, HeldSnap
  <2> HIDE DEF p
  <2>4. \A s \in Snap : snap'[s].memo = snap[s].memo /\ (s # p => snap'[s].refs = snap[s].refs)
    BY <1>0, <2>2, <2>3 DEF docsnap_acquire, DocSnapshot
  <2>5. p # Nil => snap[p].refs # Nil /\ snap'[p].refs = snap[p].refs + 1
    BY <1>0, <2>2, <2>3 DEF docsnap_acquire, DocSnapshot
  <2>6. p # Nil => snap'[p].refs # Nil
    BY <1>0, <2>3, <2>5
  <2>7. /\ \A u \in Query : u # q => ctx'[u] = ctx[u]
        /\ ctx[q].pc # "cas" /\ ctx'[q].pc # "cas" /\ ctx'[q].memo = {}
    BY <1>0, <2>2 DEF NoCtx
  <2>8. \A s \in Snap : snap'[s].refs = Nil => snap[s].refs = Nil
    <3>1. Nil \notin Snap
      BY SnapshotsAssumption
    <3> QED BY <2>3, <2>4, <2>6, <3>1
  <2> QED BY <2>2, <2>4, <2>7, <2>8 DEF MemoStill
<1>5. CASE \E q \in Query : Finish(q)
  <2>1. PICK q \in Query : Finish(q)
    BY <1>5
  <2>2. /\ \A u \in Query : u # q => ctx'[u] = ctx[u]
        /\ ctx[q].pc # "cas" /\ ctx'[q].pc # "cas" /\ ctx'[q].memo = {}
    BY <1>0, <2>1 DEF Finish, NoCtx
  <2> QED BY <2>1, <2>2 DEF MemoStill, Finish
<1>6. CASE \E v \in Diag : RunDiag(v)
  BY <1>1, <1>6 DEF RunDiag, DiagTake, DiagRan, DiagStop
<1>7. CASE \E t \in Thread : /\ DropSnap(t) \/ DropWs(t) \/ ReleaseSpans(t)
                                \/ DropDoc(t) \/ FreeWs(t)
                             /\ UNCHANGED ctx
  <2>1. PICK t \in Thread : /\ DropSnap(t) \/ DropWs(t) \/ ReleaseSpans(t)
                               \/ DropDoc(t) \/ FreeWs(t)
                            /\ UNCHANGED ctx
    BY <1>7
  <2>2. CASE DropWs(t) \/ DropDoc(t) \/ FreeWs(t)
    BY <1>1, <2>1, <2>2 DEF DropWs, DropDoc, FreeWs
  <2>3. CASE ReleaseSpans(t)
    <3>1. snap' = [snap EXCEPT ![Top(t).obj].buf = Nil] /\ UNCHANGED memos /\ Top(t).obj \in Snap
      BY <2>3 DEF ReleaseSpans, Runs
    <3>2. \A s \in Snap : snap'[s].memo = snap[s].memo /\ snap'[s].refs = snap[s].refs
      BY <1>0, <3>1 DEF DocSnapshot
    <3> QED BY <2>1, <3>1, <3>2 DEF MemoStill
  <2>4. CASE DropSnap(t)
    <3> DEFINE s == Top(t).obj
    <3>1. /\ snap' = [snap EXCEPT ![s].refs = snap[s].refs - 1] /\ UNCHANGED memos
          /\ Runs(t, "drop", Snap) /\ s \in Snap /\ Snap \in SUBSET Obj /\ "drop" \in Op
      BY <2>4 DEF DropSnap, Runs, Obj, Op
    <3>2. \A x \in Obj : /\ Count(Pop(todo, t), "drop", x) \in Nat
                         /\ Count(todo, "drop", x) = Count(Pop(todo, t), "drop", x) + Eq(s, x)
      BY <1>0, <3>1, PopNow
    <3> HIDE DEF s
    <3>3. s \in Obj /\ Eq(s, s) = 1
      BY <3>1 DEF Eq
    <3>4. Count(todo, "drop", s) >= 1
      BY <3>2, <3>3
    <3>5. snap[s].refs \in Nat /\ snap[s].refs >= 1
      BY <1>0, <3>1, <3>4, HeldSnap
    <3>6. snap[s].refs - 1 # Nil
      BY <1>0, <3>5
    <3>7. /\ \A x \in Snap : snap'[x].memo = snap[x].memo
          /\ \A x \in Snap : x # s => snap'[x].refs = snap[x].refs
          /\ snap'[s].refs = snap[s].refs - 1
      BY <1>0, <3>1 DEF DocSnapshot
    <3> QED BY <2>1, <3>1, <3>6, <3>7 DEF MemoStill
  <2> QED BY <2>1, <2>2, <2>3, <2>4
<1> QED BY <1>2, <1>3, <1>4, <1>5, <1>6, <1>7

LEMMA MemoInit == Init => MemoInv
<1> SUFFICES ASSUME Init PROVE MemoInv
  OBVIOUS
<1>1. RefInv
  BY RefInit
<1>2. /\ \A s \in Snap : snap[s].memo = Nil
      /\ \A q \in Query : ctx[q].memo = {} /\ ctx[q].pc = "none"
      /\ memos = {}
  BY DEF Init, NoSnap, NoCtx
<1>3. MemoKept
  BY <1>2 DEF MemoKept
<1>4. MemoSafe
  BY <1>2 DEF MemoSafe
<1> QED BY <1>1, <1>3, <1>4 DEF MemoInv

LEMMA MemoStep ==
  ASSUME MemoInv, [Next]_vars
  PROVE  MemoInv'
<1>1. CASE UNCHANGED vars
  <2>1. UNCHANGED <<docs, gws, snap, ws, memos, ctx>>
    BY <1>1 DEF vars
  <2>2. RefInv'
    BY RefStep DEF MemoInv
  <2>3. MemoKept' /\ MemoSafe'
    BY <2>1 DEF MemoInv, MemoKept, MemoSafe, TokenSources
  <2> QED BY <2>2, <2>3 DEF MemoInv
<1>2. CASE Next
  <2>1. CASE \E d \in Doc : Install(d)
    BY <1>2, <2>1, InstallMemos
  <2>2. CASE \E q \in Query : SemTokensLoad(q) \/ SemTokensCas(q)
    BY <1>2, <2>2, SemTokensLoadMemos, SemTokensCasMemos
  <2>3. CASE \E t \in Thread : FreeSnap(t) /\ UNCHANGED ctx
    BY <1>2, <2>3, FreeSnapMemos
  <2>4. CASE \/ \E d \in Doc : Forget(d)
             \/ Coordinate
             \/ \E q \in Query, d \in Doc \cup {Nil} : Pin(q, d)
             \/ \E q \in Query : Finish(q)
             \/ \E v \in Diag : RunDiag(v)
             \/ \E t \in Thread : /\ DropSnap(t) \/ DropWs(t) \/ ReleaseSpans(t)
                                     \/ DropDoc(t) \/ FreeWs(t)
                                  /\ UNCHANGED ctx
    BY <1>2, <2>4, QuietMemos, MemoStillStep
  <2> QED BY <1>2, <2>1, <2>2, <2>3, <2>4 DEF Next, Edit, RunQuery, Release
<1> QED BY <1>1, <1>2

\* A query's token data is the memo of a snapshot it has pinned.
THEOREM MemoInvariance == Spec => []MemoInv
<1> QED BY MemoInit, MemoStep, PTL DEF Spec

\* docsnap_sem_tokens(): no query reads token data that was freed, whichever
\* thread wins the CAS and whichever destroys the snapshot, and the data of a
\* loser is freed.
THEOREM MemoSafeAlways == Spec => []MemoSafe
<1>1. MemoInv => MemoSafe
  BY DEF MemoInv
<1> QED BY <1>1, MemoInvariance, PTL
=============================================================================
