-------------------------- MODULE WorkspaceProofs --------------------------
(***************************************************************************)
(* The document table and the workspace snapshots, for any files, include  *)
(* graph, compile_commands.json and number of slots; and the text of a     *)
(* document under the edits of a client, for texts of any length.          *)
(***************************************************************************)
EXTENDS Workspace, FiniteSetTheorems, SequenceTheorems, WellFoundedInduction, TLAPS

-----------------------------------------------------------------------------
(* Induction and folds.                                                    *)

\* A set of numbers has a least one.
LEMMA LeastNumber ==
  ASSUME NEW T, T \subseteq Nat, T # {}
  PROVE  \E m \in T : \A k \in T : m <= k
<1> DEFINE R == OpToRel(<, Nat)
<1>1. IsWellFoundedOn(R, Nat)
  BY NatLessThanWellFounded
<1>2. \A x, y \in Nat : y < x => <<y, x>> \in R
  BY DEF OpToRel
<1> HIDE DEF R
<1>3. PICK m \in T : \A k \in T : ~(<<k, m>> \in R)
  BY <1>1, WFMin
<1>4. \A k \in T : m <= k
  <2> SUFFICES ASSUME NEW k \in T PROVE m <= k
    OBVIOUS
  <2>1. m \in Nat /\ k \in Nat /\ ~(k < m)
    BY <1>2, <1>3
  <2> QED BY ONLY <2>1
<1> QED BY <1>4

\* Induction up to n, for a property given as the set of numbers that have it.
LEMMA UpTo ==
  ASSUME NEW n \in Nat, NEW P, 0 \in P, \A k \in 0 .. n - 1 : k \in P => k + 1 \in P
  PROVE  \A k \in 0 .. n : k \in P
<1> SUFFICES ASSUME NEW j \in 0 .. n, j \notin P PROVE FALSE
  OBVIOUS
<1> DEFINE T == {k \in 0 .. n : k \notin P}
<1>1. T \subseteq Nat /\ T # {}
  OBVIOUS
<1>2. PICK m \in T : \A k \in T : m <= k
  BY <1>1, LeastNumber
<1>3. m # 0 /\ m \in 0 .. n /\ m \notin P
  OBVIOUS
<1>4. m - 1 \in 0 .. n - 1 /\ m - 1 + 1 = m /\ m - 1 \in 0 .. n /\ ~(m <= m - 1)
  BY <1>3
<1>5. m - 1 \in P
  BY <1>2, <1>4
<1> QED BY <1>3, <1>4, <1>5

\* f iterates the steps F from b.
Chain(f, n, F, b) == \A k \in 0 .. n : f[k] = IF k = 0 THEN b ELSE F[k][f[k - 1]]

\* A recursive function on an interval exists and has the type of its steps.
LEMMA ChainExists ==
  ASSUME NEW S, NEW n \in Nat, NEW F \in [1 .. n -> [S -> S]], NEW b \in S
  PROVE  \E f \in [0 .. n -> S] : Chain(f, n, F, b)
<1> DEFINE Good(m) == \E f \in [0 .. m -> S] : Chain(f, m, F, b)
           P == {m \in 0 .. n : Good(m)}
<1>1. 0 \in P
  <2> DEFINE f == [k \in 0 .. 0 |-> b]
  <2>1. f \in [0 .. 0 -> S] /\ Chain(f, 0, F, b)
    BY DEF Chain
  <2> HIDE DEF f
  <2>2. 0 \in 0 .. n /\ Good(0)
    BY <2>1
  <2> QED BY <2>2
<1>2. ASSUME NEW m \in 0 .. n - 1, m \in P PROVE m + 1 \in P
  <2>1. PICK f \in [0 .. m -> S] : Chain(f, m, F, b)
    BY <1>2
  <2>2. m \in Nat /\ m + 1 \in 1 .. n /\ m + 1 \in 0 .. n /\ m \in 0 .. m /\ m + 1 - 1 = m
    OBVIOUS
  <2>3. F[m + 1] \in [S -> S] /\ f[m] \in S /\ F[m + 1][f[m]] \in S
    BY <2>2
  <2> DEFINE g == [k \in 0 .. m + 1 |-> IF k \in 0 .. m THEN f[k] ELSE F[m + 1][f[m]]]
  <2>4. g \in [0 .. m + 1 -> S]
    BY <2>3
  <2>5. ASSUME NEW k \in 0 .. m + 1 PROVE g[k] = IF k = 0 THEN b ELSE F[k][g[k - 1]]
    <3>1. CASE k \in 0 .. m
      <4>1. g[k] = f[k] /\ (k # 0 => k - 1 \in 0 .. m /\ k - 1 \in 0 .. m + 1)
        BY <3>1, <2>2
      <4>2. k # 0 => g[k - 1] = f[k - 1]
        BY <4>1
      <4> QED BY <2>1, <3>1, <4>1, <4>2 DEF Chain
    <3>2. CASE k \notin 0 .. m
      <4>1. k = m + 1 /\ k # 0 /\ k - 1 = m /\ m \in 0 .. m + 1
        BY <3>2, <2>2
      <4>2. g[m] = f[m]
        BY <4>1, <2>2
      <4> QED BY <3>2, <4>1, <4>2
    <3> QED BY <3>1, <3>2
  <2>6. Chain(g, m + 1, F, b)
    BY <2>5 DEF Chain
  <2> HIDE DEF g
  <2> QED BY <2>2, <2>4, <2>6
<1> HIDE DEF P
<1>3. \A k \in 0 .. n : k \in P
  BY <1>1, <1>2, UpTo
<1> QED BY <1>3 DEF P

\* The greatest number of a set that ends in m.
LEMMA MaxIs ==
  ASSUME NEW S, S \subseteq Int, NEW m \in S, \A j \in S : j <= m
  PROVE  Max(S) = m
<1>1. Max(S) \in S /\ \A j \in S : Max(S) >= j
  BY DEF Max
<1>2. Max(S) >= m /\ m >= Max(S) /\ Max(S) \in Int /\ m \in Int
  BY <1>1
<1> QED BY ONLY <1>2

LEMMA MaxIn ==
  ASSUME NEW n \in Nat, NEW t, t \subseteq 1 .. n, t # {}
  PROVE  Max(t) \in t /\ \A j \in t : j <= Max(t)
<1> DEFINE T == {n - j : j \in t}
<1>0. \A j \in t : j \in Int /\ 1 <= j /\ j <= n /\ n - j \in Nat
  OBVIOUS
<1>1. T \subseteq Nat /\ T # {}
  BY <1>0
<1>2. PICK x \in T : \A y \in T : x <= y
  BY <1>1, LeastNumber
<1>3. PICK m \in t : x = n - m
  OBVIOUS
<1>4. \A j \in t : j <= m
  <2> SUFFICES ASSUME NEW j \in t PROVE j <= m
    OBVIOUS
  <2>1. n - m <= n - j
    BY <1>2, <1>3
  <2> QED BY ONLY <1>0, <2>1, j \in t, m \in t, n \in Nat
<1>5. t \subseteq Int
  BY <1>0
<1> QED BY <1>4, <1>5, MaxIs

\* The numbers up to k without the last.
LEMMA Interval ==
  ASSUME NEW n \in Nat, NEW k \in 1 .. n
  PROVE  /\ 1 .. k \in SUBSET (1 .. n) /\ 1 .. k # {} /\ Max(1 .. k) = k
         /\ (1 .. k) \ {k} = 1 .. (k - 1) /\ k - 1 \in 0 .. n /\ k \in 0 .. n
<1>1. 1 .. k \subseteq Int /\ k \in 1 .. k /\ \A j \in 1 .. k : j <= k
  OBVIOUS
<1>2. Max(1 .. k) = k
  BY <1>1, MaxIs
<1> QED BY <1>2

\* it folds the steps F, from b, over the numbers of a set in ascending order.
Folds(it, n, F, b) ==
  \A t \in SUBSET (1 .. n) : it[t] = IF t = {} THEN b ELSE F[Max(t)][it[t \ {Max(t)}]]

\* The function FoldLeft is defined by exists and has the type of its steps.
LEMMA FoldExists ==
  ASSUME NEW S, NEW n \in Nat, NEW F \in [1 .. n -> [S -> S]], NEW b \in S
  PROVE  \E it \in [SUBSET (1 .. n) -> S] : Folds(it, n, F, b)
<1> DEFINE Good(m) == \E it \in [SUBSET (1 .. m) -> S] :
             \A t \in SUBSET (1 .. m) : it[t] = IF t = {} THEN b ELSE F[Max(t)][it[t \ {Max(t)}]]
           P == {m \in 0 .. n : Good(m)}
<1>1. 0 \in P
  <2> DEFINE it == [t \in SUBSET (1 .. 0) |-> b]
  <2>1. \A t \in SUBSET (1 .. 0) : t = {}
    OBVIOUS
  <2>2. it \in [SUBSET (1 .. 0) -> S]
    OBVIOUS
  <2>3. \A t \in SUBSET (1 .. 0) : it[t] = IF t = {} THEN b ELSE F[Max(t)][it[t \ {Max(t)}]]
    BY <2>1
  <2> HIDE DEF it
  <2>4. 0 \in 0 .. n
    OBVIOUS
  <2> QED BY <2>2, <2>3, <2>4
<1>2. ASSUME NEW m \in 0 .. n - 1, m \in P PROVE m + 1 \in P
  <2>1. PICK it \in [SUBSET (1 .. m) -> S] :
          \A t \in SUBSET (1 .. m) : it[t] = IF t = {} THEN b ELSE F[Max(t)][it[t \ {Max(t)}]]
    BY <1>2
  <2>2. m \in Nat /\ m + 1 \in 1 .. n /\ m + 1 \in 0 .. n
    OBVIOUS
  <2>3. \A t \in SUBSET (1 .. m + 1) : t \ {m + 1} \in SUBSET (1 .. m)
    BY <2>2
  <2> DEFINE g == [t \in SUBSET (1 .. m + 1) |->
                    IF m + 1 \in t THEN F[m + 1][it[t \ {m + 1}]] ELSE it[t]]
  <2>4. \A t \in SUBSET (1 .. m + 1) : m + 1 \notin t => t \in SUBSET (1 .. m)
    BY <2>2
  <2>5. g \in [SUBSET (1 .. m + 1) -> S]
    <3>1. \A t \in SUBSET (1 .. m + 1) : F[m + 1][it[t \ {m + 1}]] \in S
      BY <2>2, <2>3
    <3> QED BY <2>4, <3>1
  <2>6. ASSUME NEW t \in SUBSET (1 .. m + 1)
        PROVE  g[t] = IF t = {} THEN b ELSE F[Max(t)][g[t \ {Max(t)}]]
    <3>1. CASE m + 1 \in t
      <4>1. Max(t) = m + 1
        <5>1. t \subseteq Int /\ \A j \in t : j <= m + 1
          BY <2>2
        <5> QED BY <5>1, <3>1, MaxIs
      <4>2. t \ {m + 1} \in SUBSET (1 .. m + 1) /\ m + 1 \notin t \ {m + 1}
        OBVIOUS
      <4>3. g[t \ {m + 1}] = it[t \ {m + 1}]
        BY <4>2
      <4> QED BY <3>1, <4>1, <4>3
    <3>2. CASE m + 1 \notin t
      <4>1. t \in SUBSET (1 .. m) /\ t \ {Max(t)} \in SUBSET (1 .. m)
        BY <3>2, <2>4
      <4>2. g[t] = it[t] /\ t \ {Max(t)} \in SUBSET (1 .. m + 1) /\ m + 1 \notin t \ {Max(t)}
        BY <3>2
      <4>3. g[t \ {Max(t)}] = it[t \ {Max(t)}]
        BY <4>2
      <4> QED BY <2>1, <4>1, <4>2, <4>3
    <3> QED BY <3>1, <3>2
  <2> HIDE DEF g
  <2> QED BY <2>2, <2>5, <2>6
<1> HIDE DEF P
<1>3. \A k \in 0 .. n : k \in P
  BY <1>1, <1>2, UpTo
<1>4. n \in P
  BY <1>3
<1> HIDE DEF Good
<1>5. Good(n)
  BY <1>4 DEF P
<1> QED BY <1>5 DEF Good, Folds

-----------------------------------------------------------------------------
(* Tables of documents.                                                    *)

Include == [to : Uri, prefix : Seq(Uri)]
Targets(t) == [k \in DOMAIN Includes[t] |-> Includes[t][k].to]

Holds(D, u) == \E i \in Slot : D[i].uri = u
Free(D) == {i \in Slot : D[i].uri = Nil}

\* One slot per document; slots not in use are zero, the others have a text.
Clean(D) ==
  /\ D \in Table
  /\ \A i \in Slot : D[i].uri = Nil => D[i] = FreeSlot
  /\ \A i \in Slot : D[i].uri # Nil => D[i].text # Nil
  /\ \A i, j \in Slot : D[i].uri # Nil /\ D[i].uri = D[j].uri => i = j

LEMMA SlotsFinite == MaxDocs \in Nat /\ 0 \notin Slot /\ IsFiniteSet(Slot) /\ Cardinality(Slot) = MaxDocs
<1>1. MaxDocs \in Nat \ {0}
  BY WorkspaceAssumption
<1>2. IsFiniteSet(1 .. MaxDocs) /\ Cardinality(1 .. MaxDocs) = MaxDocs
  BY <1>1, FS_Interval
<1> QED BY <1>1, <1>2 DEF Slot

LEMMA FieldTypes ==
  ASSUME NEW D \in Table, NEW i \in Slot
  PROVE  /\ D[i] \in Document
         /\ D[i].uri \in Uri \cup {Nil} /\ D[i].text \in Text \cup {Nil} /\ D[i].disk_only \in BOOLEAN
         /\ D[i].is_cc_root \in BOOLEAN /\ D[i].prefix \in Seq(Uri) /\ D[i].included \in Seq(Uri)
BY DEF Table, Document

LEMMA FreeSlotTyped == FreeSlot \in Document /\ FreeSlot.uri = Nil
BY DEF FreeSlot, Document

LEMMA FindFacts ==
  ASSUME NEW D \in Table, NEW u \in Uri
  PROVE  /\ doc_find(D, u) \in Slot \cup {0}
         /\ doc_find(D, u) = 0 <=> ~Holds(D, u)
         /\ doc_find(D, u) # 0 => D[doc_find(D, u)].uri = u
BY SlotsFinite DEF doc_find, Holds

\* doc_find() finds the document where it is.
LEMMA FindIs ==
  ASSUME NEW D, Clean(D), NEW u \in Uri, NEW f \in Slot, D[f].uri = u
  PROVE  doc_find(D, u) = f
<1>1. u # Nil /\ Holds(D, u) /\ D \in Table
  BY WorkspaceAssumption DEF Holds, Clean
<1>2. doc_find(D, u) # 0 /\ doc_find(D, u) \in Slot /\ D[doc_find(D, u)].uri = u
  BY <1>1, FindFacts
<1> QED BY <1>1, <1>2 DEF Clean

LEMMA AllocFacts ==
  ASSUME NEW D \in Table
  PROVE  /\ doc_alloc(D) \in Slot \cup {0}
         /\ doc_alloc(D) = 0 <=> Free(D) = {}
         /\ doc_alloc(D) # 0 => D[doc_alloc(D)].uri = Nil
<1>1. CASE Free(D) = {}
  BY <1>1 DEF doc_alloc, Free
<1>2. CASE Free(D) # {}
  <2>1. Free(D) \subseteq Nat
    BY SlotsFinite DEF Free, Slot
  <2>2. PICK m \in Free(D) : \A k \in Free(D) : m <= k
    BY <1>2, <2>1, LeastNumber
  <2>3. m \in Slot /\ D[m].uri = Nil /\ m \in Nat /\ m <= MaxDocs
    BY SlotsFinite DEF Free, Slot
  <2>4. \A j \in 1 .. (m - 1) : j \in Slot /\ ~(m <= j)
    BY <2>3, SlotsFinite DEF Slot
  <2>5. \A j \in 1 .. (m - 1) : D[j].uri # Nil
    BY <2>2, <2>4 DEF Free
  <2>6. doc_alloc(D) \in Slot /\ D[doc_alloc(D)].uri = Nil
    BY <2>3, <2>5 DEF doc_alloc
  <2> QED BY <1>2, <2>6, SlotsFinite
<1> QED BY <1>1, <1>2

-----------------------------------------------------------------------------
(* What loading may do to a table.                                         *)

\* A document as load_file_from_disk() leaves it.
Background(d) == d.text = disk[d.uri] /\ d.disk_only /\ d.included = Targets(d.text)

\* The documents of D are still in E, except for their prefix and whether they are
\* a root; the others in E were loaded from the disk.
Kept(d, e) == e.uri = d.uri /\ e.text = d.text /\ e.disk_only = d.disk_only
GrownBut(D, E, f) ==
  \A i \in Slot \ {f} :
    /\ D[i].uri # Nil => Kept(D[i], E[i]) /\ E[i].included = D[i].included
    /\ D[i].uri = Nil /\ E[i].uri # Nil => Background(E[i])
Grown(D, E) == GrownBut(D, E, 0)

\* A file that exists is in the table, or there is no room for it.
Present(E, u) == disk[u] = Nil \/ Holds(E, u) \/ Free(E) = {}

\* The includes of the documents that were loaded have been followed.
Followed(D, E) ==
  \A i \in Slot : D[i].uri = Nil /\ E[i].uri # Nil =>
    \A k \in DOMAIN E[i].included : Present(E, E[i].included[k])

Room(n, D) == Cardinality(Free(D)) <= n

LEMMA GrownKeeps ==
  ASSUME NEW D \in Table, NEW E \in Table, NEW f \in Slot \cup {0}, GrownBut(D, E, f),
         f # 0 => Kept(D[f], E[f]) /\ D[f].uri # Nil
  PROVE  /\ Free(E) \subseteq Free(D)
         /\ \A u \in Uri : Holds(D, u) => Holds(E, u)
         /\ \A u \in Uri : Present(D, u) => Present(E, u)
         /\ \A n \in Nat : Room(n, D) => Room(n, E)
<1>0. Nil \notin Uri
  BY WorkspaceAssumption
<1>1. \A i \in Slot : D[i].uri # Nil => E[i].uri = D[i].uri
  <2> SUFFICES ASSUME NEW i \in Slot, D[i].uri # Nil PROVE E[i].uri = D[i].uri
    OBVIOUS
  <2>1. CASE i = f
    BY <2>1, SlotsFinite DEF Kept
  <2>2. CASE i # f
    BY <2>2 DEF GrownBut, Kept
  <2> QED BY <2>1, <2>2
<1>2. Free(E) \subseteq Free(D)
  BY <1>1 DEF Free
<1>3. \A u \in Uri : Holds(D, u) => Holds(E, u)
  BY <1>0, <1>1 DEF Holds
<1>4. IsFiniteSet(Free(D)) /\ Free(D) \subseteq Slot
  BY SlotsFinite, FS_Subset DEF Free
<1>5. Cardinality(Free(E)) <= Cardinality(Free(D)) /\ IsFiniteSet(Free(E))
  BY <1>2, <1>4, FS_Subset
<1>6. Cardinality(Free(E)) \in Nat /\ Cardinality(Free(D)) \in Nat
  BY <1>4, <1>5, FS_CardinalityType
<1>7. \A n \in Nat : Room(n, D) => Room(n, E)
  BY <1>5, <1>6 DEF Room
<1> QED BY <1>2, <1>3, <1>7 DEF Present

LEMMA GrownSelf == ASSUME NEW D, Clean(D) PROVE Grown(D, D) /\ Followed(D, D)
BY SlotsFinite DEF Grown, GrownBut, Kept, Followed

\* Loading more keeps what loading before has shown.
LEMMA GrownTrans ==
  ASSUME NEW D \in Table, NEW E \in Table, NEW G \in Table, NEW f \in Slot \cup {0},
         GrownBut(D, E, f), GrownBut(E, G, f), f # 0 => Kept(D[f], E[f]) /\ Kept(E[f], G[f]) /\ D[f].uri # Nil
  PROVE  GrownBut(D, G, f)
<1> SUFFICES ASSUME NEW i \in Slot \ {f}
             PROVE  /\ D[i].uri # Nil => Kept(D[i], G[i]) /\ G[i].included = D[i].included
                    /\ D[i].uri = Nil /\ G[i].uri # Nil => Background(G[i])
  BY DEF GrownBut
<1>1. /\ D[i].uri # Nil => Kept(D[i], E[i]) /\ E[i].included = D[i].included
      /\ D[i].uri = Nil /\ E[i].uri # Nil => Background(E[i])
      /\ E[i].uri # Nil => Kept(E[i], G[i]) /\ G[i].included = E[i].included
      /\ E[i].uri = Nil /\ G[i].uri # Nil => Background(G[i])
  BY DEF GrownBut
<1> QED BY <1>1 DEF Kept, Background

LEMMA FollowedTrans ==
  ASSUME NEW D \in Table, NEW E \in Table, NEW G \in Table, NEW f \in Slot \cup {0},
         GrownBut(D, E, f), GrownBut(E, G, f), f # 0 => Kept(D[f], E[f]) /\ Kept(E[f], G[f]) /\ D[f].uri # Nil,
         Followed(D, E), Followed(E, G)
  PROVE  Followed(D, G)
<1> SUFFICES ASSUME NEW i \in Slot, D[i].uri = Nil, G[i].uri # Nil, NEW k \in DOMAIN G[i].included
             PROVE  Present(G, G[i].included[k])
  BY DEF Followed
<1>0. i # f
  BY SlotsFinite
<1>1. CASE E[i].uri = Nil
  BY <1>1 DEF Followed
<1>2. CASE E[i].uri # Nil
  <2>1. G[i].included = E[i].included
    BY <1>0, <1>2 DEF GrownBut
  <2>2. Present(E, E[i].included[k])
    BY <1>2, <2>1 DEF Followed
  <2>3. E[i].included \in Seq(Uri)
    BY FieldTypes
  <2>4. E[i].included[k] \in Uri
    BY <2>1, <2>3
  <2>5. f # 0 => Kept(E[f], G[f]) /\ E[f].uri # Nil
    BY DEF Kept
  <2> QED BY <2>1, <2>2, <2>4, <2>5, GrownKeeps
<1> QED BY <1>1, <1>2

\* What a call of load_file_from_disk() with n below it achieves.
LoadSpec(n, load) ==
  /\ load \in [Uri -> [Table -> Table]]
  /\ \A u \in Uri, D \in Table : Clean(D) =>
       /\ Clean(load[u][D]) /\ Grown(D, load[u][D])
       /\ Room(n, D) => Present(load[u][D], u) /\ Followed(D, load[u][D])

LEMMA IncludeTyped ==
  ASSUME NEW load \in [Uri -> [Table -> Table]], NEW D \in Table, NEW u \in Uri, NEW inc \in Include
  PROVE  FollowInclude(load, D, u, inc) \in Table
<1> DEFINE L == load[inc.to][D]
           k == doc_find(L, inc.to)
           P == IF k = 0 THEN L ELSE [L EXCEPT ![k].prefix = inc.prefix]
           f == doc_find(P, u)
           E == IF f = 0 THEN P ELSE [P EXCEPT ![f].included = Append(@, inc.to)]
<1>1. inc.to \in Uri /\ inc.prefix \in Seq(Uri)
  BY DEF Include
<1>2. L \in Table
  BY <1>1
<1> HIDE DEF L
<1>3. k \in Slot \cup {0}
  BY <1>1, <1>2, FindFacts
<1> HIDE DEF k
<1>4. P \in Table
  BY <1>1, <1>2, <1>3 DEF Table, Document
<1> HIDE DEF P
<1>5. f \in Slot \cup {0}
  BY <1>4, FindFacts
<1> HIDE DEF f
<1>6. E \in Table
  <2>1. f # 0 => Append(P[f].included, inc.to) \in Seq(Uri)
    BY <1>1, <1>4, <1>5, FieldTypes
  <2> QED BY <1>4, <1>5, <2>1 DEF Table, Document
<1>7. FollowInclude(load, D, u, inc) = E
  BY DEF FollowInclude, E, f, P, k, L
<1> QED BY <1>6, <1>7

\* Fields written one at a time.
LEMMA SetPrefix ==
  ASSUME NEW d \in Document, NEW p \in Seq(Uri), NEW e, e = [d EXCEPT !.prefix = p]
  PROVE  e \in Document /\ Kept(d, e) /\ e.included = d.included /\ e.is_cc_root = d.is_cc_root /\ e.prefix = p
BY DEF Document, Kept

LEMMA SetIncluded ==
  ASSUME NEW d \in Document, NEW s \in Seq(Uri), NEW e, e = [d EXCEPT !.included = s]
  PROVE  e \in Document /\ Kept(d, e) /\ e.included = s /\ e.is_cc_root = d.is_cc_root /\ e.prefix = d.prefix
BY DEF Document, Kept

LEMMA SetRoot ==
  ASSUME NEW d \in Document, NEW e, e = [d EXCEPT !.is_cc_root = TRUE]
  PROVE  e \in Document /\ Kept(d, e) /\ e.included = d.included /\ e.prefix = d.prefix /\ e.is_cc_root
BY DEF Document, Kept

\* A table stays clean when only documents in use change, and keep their URI and text.
LEMMA CleanKept ==
  ASSUME NEW D, Clean(D), NEW E \in Table, NEW k,
         \A i \in Slot : i # k => E[i] = D[i],
         k \in Slot => Kept(D[k], E[k]) /\ D[k].uri # Nil
  PROVE  Clean(E)
<1>1. \A i \in Slot : E[i].uri = D[i].uri /\ E[i].text = D[i].text
  BY DEF Kept
<1>2. \A i \in Slot : E[i].uri = Nil => E[i] = D[i]
  BY <1>1
<1> QED BY <1>1, <1>2 DEF Clean

\* One include directive of the document in slot f.
LEMMA IncludeStep ==
  ASSUME NEW n \in Nat, NEW load, LoadSpec(n, load), NEW D, Clean(D), NEW f \in Slot, NEW u \in Uri,
         D[f].uri = u, NEW inc \in Include, NEW E, E = FollowInclude(load, D, u, inc)
  PROVE  /\ Clean(E) /\ GrownBut(D, E, f) /\ Kept(D[f], E[f])
         /\ E[f].included = Append(D[f].included, inc.to)
         /\ Room(n, D) => Present(E, inc.to) /\ Followed(D, E)
<1> DEFINE L == load[inc.to][D]
           k == doc_find(L, inc.to)
           P == IF k = 0 THEN L ELSE [L EXCEPT ![k].prefix = inc.prefix]
<1>1. inc.to \in Uri /\ inc.prefix \in Seq(Uri) /\ D \in Table /\ u # Nil
  BY WorkspaceAssumption DEF Include, Clean
<1>2. /\ L \in Table /\ Clean(L) /\ Grown(D, L)
      /\ Room(n, D) => Present(L, inc.to) /\ Followed(D, L)
  BY <1>1 DEF LoadSpec
<1> HIDE DEF L
<1>3. k \in Slot \cup {0}
  BY <1>1, <1>2, FindFacts
<1> HIDE DEF k
<1>4. /\ P \in [Slot -> Document]
      /\ \A i \in Slot : Kept(L[i], P[i]) /\ P[i].included = L[i].included
      /\ k # 0 => L[k].uri # Nil
      /\ \A i \in Slot : i # k => P[i] = L[i]
  <2>1. k # 0 => L[k].uri = inc.to
    BY <1>1, <1>2, FindFacts DEF k
  <2>2. CASE k = 0
    BY <1>2, <2>2 DEF Table, Kept
  <2>3. CASE k \in Slot
    <3>1. P[k] = [L[k] EXCEPT !.prefix = inc.prefix] /\ DOMAIN P = Slot /\ \A i \in Slot : i # k => P[i] = L[i]
      BY <1>2, <2>3, SlotsFinite DEF Table
    <3>2. P[k] \in Document /\ Kept(L[k], P[k]) /\ P[k].included = L[k].included
      BY <1>1, <1>2, <2>3, <3>1, SetPrefix, FieldTypes
    <3>3. P = [i \in Slot |-> P[i]]
      BY <1>2, <2>3, <3>1, SlotsFinite DEF Table
    <3>4. \A i \in Slot : P[i] \in Document
      BY <1>2, <3>1, <3>2 DEF Table
    <3> HIDE DEF P
    <3> QED BY <2>1, <2>3, <3>1, <3>2, <3>3, <3>4, <1>1, WorkspaceAssumption DEF Kept
  <2> QED BY <1>3, <2>2, <2>3
<1> HIDE DEF P
<1>5. Clean(P)
  <2>1. P \in Table
    BY <1>4 DEF Table
  <2>2. /\ \A i \in Slot : i # k => P[i] = L[i]
        /\ k \in Slot => Kept(L[k], P[k]) /\ L[k].uri # Nil
    BY <1>4, SlotsFinite
  <2> QED BY <1>2, <2>1, <2>2, CleanKept
<1>6. Kept(D[f], L[f]) /\ L[f].included = D[f].included
  BY <1>1, <1>2, SlotsFinite DEF Grown, GrownBut
<1>7. P[f].uri = u
  BY <1>4, <1>6 DEF Kept
<1>8. doc_find(P, u) = f
  BY <1>5, <1>7, FindIs
<1>9. E = [P EXCEPT ![f].included = Append(@, inc.to)]
  BY <1>8, SlotsFinite DEF FollowInclude, P, k, L
<1>10. P[f].included \in Seq(Uri)
  BY <1>4, FieldTypes DEF Table
<1>11. /\ E \in Table
       /\ \A i \in Slot : i # f => E[i] = P[i]
       /\ Kept(P[f], E[f]) /\ E[f].included = Append(D[f].included, inc.to)
  <2>1. Append(P[f].included, inc.to) \in Seq(Uri)
    BY <1>1, <1>10
  <2>2. E[f] = [P[f] EXCEPT !.included = Append(P[f].included, inc.to)] /\ \A i \in Slot : i # f => E[i] = P[i]
    BY <1>4, <1>9
  <2>3. E[f] \in Document /\ Kept(P[f], E[f]) /\ E[f].included = Append(P[f].included, inc.to)
    <3>1. P[f] \in Document
      BY <1>4
    <3>2. E[f] = [P[f] EXCEPT !.included = Append(P[f].included, inc.to)]
      BY <2>2
    <3> QED BY ONLY <3>1, <2>1, <3>2 DEF Document, Kept
  <2>4. E = [i \in Slot |-> E[i]] /\ \A i \in Slot : E[i] \in Document
    BY <1>4, <1>9, <2>2, <2>3
  <2>5. P[f].included = D[f].included
    BY <1>4, <1>6
  <2> QED BY <2>2, <2>3, <2>4, <2>5 DEF Table
<1>12. \A i \in Slot : Kept(L[i], E[i]) /\ (i # f => E[i].included = L[i].included)
  BY <1>4, <1>11 DEF Kept
<1>13. Clean(E)
  <2>1. \A i \in Slot : E[i].uri = Nil => E[i] = P[i]
    BY <1>1, <1>7, <1>11 DEF Kept
  <2> QED BY <1>5, <1>11, <2>1 DEF Clean, Kept
<1>14. GrownBut(L, E, f)
  BY <1>12 DEF GrownBut, Kept
<1>15. GrownBut(D, L, f)
  BY <1>2, SlotsFinite DEF Grown, GrownBut
<1>16. GrownBut(D, E, f) /\ Kept(D[f], E[f])
  <2>1. Kept(L[f], E[f])
    BY <1>12
  <2> QED BY <1>1, <1>2, <1>6, <1>11, <1>14, <1>15, <2>1, GrownTrans DEF Kept
<1>17. ASSUME Room(n, D) PROVE Present(E, inc.to) /\ Followed(D, E)
  <2>1. Followed(L, E)
    BY <1>12 DEF Followed, Kept
  <2>2. Kept(L[f], E[f]) /\ Kept(D[f], L[f]) /\ L[f].uri # Nil
    BY <1>1, <1>6, <1>12 DEF Kept
  <2>3. Present(E, inc.to)
    BY <1>1, <1>2, <1>11, <1>14, <1>17, <2>2, GrownKeeps
  <2> QED BY <1>1, <1>2, <1>11, <1>14, <1>15, <1>17, <2>1, <2>2, <2>3, FollowedTrans
<1> QED BY <1>11, <1>13, <1>16, <1>17

-----------------------------------------------------------------------------
(* Following the includes of a document, and loading.                      *)

FollowAll(load, C, u, s) == FoldLeft(LAMBDA acc, inc : FollowInclude(load, acc, u, inc), C, s)

\* The tables after each directive.
LEMMA FollowSteps ==
  ASSUME NEW load \in [Uri -> [Table -> Table]], NEW C \in Table, NEW u \in Uri, NEW s \in Seq(Include)
  PROVE  \E f \in [0 .. Len(s) -> Table] :
           /\ f[0] = C
           /\ \A k \in 1 .. Len(s) : f[k] = FollowInclude(load, f[k - 1], u, s[k])
           /\ FollowAll(load, C, u, s) = f[Len(s)]
<1> DEFINE n == Len(s)
           F == [k \in 1 .. n |-> [D \in Table |-> FollowInclude(load, D, u, s[k])]]
           Eqn(it) == it = [t \in SUBSET (1 .. n) |-> IF t = {} THEN C
                              ELSE FollowInclude(load, it[t \ {Max(t)}], u, s[Max(t)])]
<1>1. n \in Nat /\ DOMAIN s = 1 .. n /\ \A k \in 1 .. n : s[k] \in Include
  BY LenProperties, ElementOfSeq
<1>2. F \in [1 .. n -> [Table -> Table]]
  BY <1>1, IncludeTyped
<1> HIDE DEF n, F
<1>3. PICK it \in [SUBSET (1 .. n) -> Table] : Folds(it, n, F, C)
  BY <1>1, <1>2, FoldExists
<1>4. Eqn(it)
  <2> SUFFICES ASSUME NEW t \in SUBSET (1 .. n), t # {}
               PROVE  F[Max(t)][it[t \ {Max(t)}]] = FollowInclude(load, it[t \ {Max(t)}], u, s[Max(t)])
    BY <1>3 DEF Folds
  <2>1. Max(t) \in 1 .. n /\ t \ {Max(t)} \in SUBSET (1 .. n)
    BY <1>1, MaxIn
  <2>2. it[t \ {Max(t)}] \in Table
    BY <2>1
  <2> QED BY <2>1, <2>2 DEF F
<1> DEFINE g == CHOOSE h : Eqn(h)
           f == [k \in 0 .. n |-> g[1 .. k]]
<1>5. Eqn(g)
  BY <1>4
<1>6. FollowAll(load, C, u, s) = g[1 .. n]
  BY <1>1 DEF FollowAll, FoldLeft, MapThenFoldSet
<1> HIDE DEF g
<1>7. f[0] = C
  <2>1. 1 .. 0 = {} /\ {} \in SUBSET (1 .. n) /\ 0 \in 0 .. n
    BY <1>1
  <2> QED BY <1>5, <2>1
<1>8. ASSUME NEW k \in 1 .. n PROVE f[k] = FollowInclude(load, f[k - 1], u, s[k])
  <2>1. /\ 1 .. k \in SUBSET (1 .. n) /\ 1 .. k # {} /\ Max(1 .. k) = k
        /\ (1 .. k) \ {k} = 1 .. (k - 1) /\ k - 1 \in 0 .. n /\ k \in 0 .. n
    BY <1>1, Interval
  <2>2. f[k - 1] = g[1 .. (k - 1)] /\ f[k] = g[1 .. k]
    BY <2>1
  <2>3. g[1 .. k] = FollowInclude(load, g[(1 .. k) \ {k}], u, s[k])
    BY <1>5, <2>1
  <2> QED BY <2>1, <2>2, <2>3
<1> DEFINE P == {k \in 0 .. n : f[k] \in Table}
<1>9. \A k \in 0 .. n : k \in P
  <2>1. 0 \in P
    BY <1>1, <1>7
  <2>2. ASSUME NEW k \in 0 .. n - 1, k \in P PROVE k + 1 \in P
    <3>1. k + 1 \in 1 .. n /\ k + 1 \in 0 .. n /\ k + 1 - 1 = k /\ f[k] \in Table
      BY <1>1, <2>2
    <3> HIDE DEF f
    <3> QED BY <1>1, <1>8, <3>1, IncludeTyped
  <2> HIDE DEF P
  <2> QED BY <1>1, <2>1, <2>2, UpTo
<1>10. f \in [0 .. n -> Table] /\ f[n] = g[1 .. n]
  BY <1>1, <1>9
<1> HIDE DEF f
<1> QED BY <1>6, <1>7, <1>8, <1>10 DEF n

\* follow_includes() for the document in slot f.
LEMMA FollowSpec ==
  ASSUME NEW n \in Nat, NEW load, LoadSpec(n, load), NEW D, Clean(D), NEW f \in Slot, NEW u \in Uri,
         D[f].uri = u, NEW t \in Text, NEW E, E = follow_includes(load, D, u, t)
  PROVE  /\ Clean(E) /\ GrownBut(D, E, f) /\ Kept(D[f], E[f])
         /\ E[f].included = Targets(t)
         /\ Room(n, D) => Followed(D, E) /\ \A k \in DOMAIN Targets(t) : Present(E, Targets(t)[k])
<1> DEFINE s == Includes[t]
           m == Len(s)
           C == [D EXCEPT ![f].included = <<>>]
<1>1. s \in Seq(Include) /\ m \in Nat /\ DOMAIN s = 1 .. m /\ \A k \in 1 .. m : s[k] \in Include /\ s[k].to \in Uri
  <2>1. s \in Seq(Include)
    BY WorkspaceAssumption DEF Include
  <2>2. m \in Nat /\ DOMAIN s = 1 .. m /\ \A k \in 1 .. m : s[k] \in Include
    BY <2>1, LenProperties, ElementOfSeq
  <2> QED BY <2>1, <2>2 DEF Include
<1>2. D \in Table /\ u # Nil /\ load \in [Uri -> [Table -> Table]]
  BY WorkspaceAssumption DEF Clean, LoadSpec
<1>3. E = FollowAll(load, C, u, s)
  <2>1. doc_find(D, u) = f
    BY FindIs
  <2> QED BY <2>1, SlotsFinite DEF follow_includes, FollowAll
<1>4. /\ C \in Table /\ \A i \in Slot : i # f => C[i] = D[i]
      /\ Kept(D[f], C[f]) /\ C[f].included = <<>>
  <2>1. C[f] = [D[f] EXCEPT !.included = <<>>] /\ DOMAIN C = Slot /\ \A i \in Slot : i # f => C[i] = D[i]
    BY <1>2 DEF Table
  <2>2. D[f] \in Document /\ <<>> \in Seq(Uri)
    BY <1>2, FieldTypes
  <2>3. C[f] \in Document /\ Kept(D[f], C[f]) /\ C[f].included = <<>>
    BY ONLY <2>1, <2>2 DEF Document, Kept
  <2>4. C = [i \in Slot |-> C[i]] /\ \A i \in Slot : C[i] \in Document
    BY <1>2, <2>1, <2>3 DEF Table
  <2> HIDE DEF C
  <2> QED BY <2>1, <2>3, <2>4 DEF Table
<1> HIDE DEF C, s, m
<1>5. Clean(C)
  BY <1>2, <1>4, CleanKept
<1>6. PICK g \in [0 .. m -> Table] :
           /\ g[0] = C
           /\ \A k \in 1 .. m : g[k] = FollowInclude(load, g[k - 1], u, s[k])
           /\ FollowAll(load, C, u, s) = g[m]
  <2>1. \E g \in [0 .. Len(s) -> Table] :
           /\ g[0] = C
           /\ \A k \in 1 .. Len(s) : g[k] = FollowInclude(load, g[k - 1], u, s[k])
           /\ FollowAll(load, C, u, s) = g[Len(s)]
    <3>1. load \in [Uri -> [Table -> Table]] /\ C \in Table /\ u \in Uri /\ s \in Seq(Include)
      BY <1>1, <1>2, <1>4
    <3> QED BY ONLY <3>1, FollowSteps
  <2> QED BY <2>1 DEF m
<1> DEFINE Inv(k) ==
             /\ Clean(g[k]) /\ GrownBut(C, g[k], f) /\ Kept(C[f], g[k][f])
             /\ Len(g[k][f].included) = k /\ \A j \in 1 .. k : g[k][f].included[j] = s[j].to
             /\ Room(n, D) => /\ Room(n, g[k]) /\ Followed(C, g[k])
                              /\ \A j \in 1 .. k : Present(g[k], s[j].to)
           P == {k \in 0 .. m : Inv(k)}
<1>7. 0 \in P
  <2>1. GrownBut(C, C, f) /\ Kept(C[f], C[f]) /\ Followed(C, C) /\ Len(C[f].included) = 0
    BY <1>4 DEF GrownBut, Kept, Followed
  <2>2. Free(C) = Free(D)
    BY <1>4 DEF Free, Kept
  <2>3. Room(n, D) => Room(n, C)
    BY <2>2 DEF Room
  <2>4. 0 \in 0 .. m /\ 1 .. 0 = {}
    BY <1>1
  <2> QED BY <1>5, <1>6, <2>1, <2>3, <2>4
<1>8. ASSUME NEW k \in 0 .. m - 1, k \in P PROVE k + 1 \in P
  <2>1. k + 1 \in 1 .. m /\ k + 1 \in 0 .. m /\ k + 1 - 1 = k /\ k \in 0 .. m /\ k \in Nat
    BY <1>1
  <2>2. Inv(k)
    BY <1>8
  <2> DEFINE A == g[k]
             B == g[k + 1]
             inc == s[k + 1]
  <2>3. A \in Table /\ B \in Table /\ B = FollowInclude(load, A, u, inc) /\ inc \in Include /\ inc.to \in Uri
    BY <1>1, <1>6, <2>1
  <2>4. A[f].uri = u
    BY <1>4, <2>2 DEF Kept
  <2> HIDE DEF A, B, inc
  <2>5. Clean(A)
    BY <2>2 DEF A
  <2>6. /\ Clean(B) /\ GrownBut(A, B, f) /\ Kept(A[f], B[f])
        /\ B[f].included = Append(A[f].included, inc.to)
        /\ Room(n, A) => Present(B, inc.to) /\ Followed(A, B)
    BY <2>3, <2>4, <2>5, IncludeStep
  <2>7. GrownBut(C, A, f) /\ Kept(C[f], A[f]) /\ C[f].uri # Nil /\ A[f].uri # Nil
    BY <1>2, <1>4, <2>2, <2>4 DEF A, Kept
  <2>8. GrownBut(C, B, f) /\ Kept(C[f], B[f])
    BY <1>4, <2>3, <2>6, <2>7, GrownTrans DEF Kept
  <2>9. Len(B[f].included) = k + 1 /\ \A j \in 1 .. k + 1 : B[f].included[j] = s[j].to
    <3>1. A[f].included \in Seq(Uri) /\ Len(A[f].included) = k /\ \A j \in 1 .. k : A[f].included[j] = s[j].to
      BY <2>2, <2>3, FieldTypes DEF A
    <3>2. /\ Len(B[f].included) = k + 1 /\ \A j \in 1 .. k : B[f].included[j] = A[f].included[j]
          /\ B[f].included[k + 1] = inc.to
      BY <2>3, <2>6, <3>1, AppendProperties
    <3>3. \A j \in 1 .. k + 1 : j \in 1 .. k \/ j = k + 1
      BY <2>1
    <3> QED BY <3>1, <3>2, <3>3 DEF inc
  <2>10. ASSUME Room(n, D) PROVE /\ Room(n, B) /\ Followed(C, B)
                                 /\ \A j \in 1 .. k + 1 : Present(B, s[j].to)
    <3>1. Room(n, A) /\ Followed(C, A) /\ \A j \in 1 .. k : Present(A, s[j].to)
      BY <2>2, <2>10 DEF A
    <3>2. Present(B, inc.to) /\ Followed(A, B)
      BY <2>6, <3>1
    <3>3. Room(n, B) /\ \A v \in Uri : Present(A, v) => Present(B, v)
      BY <2>3, <2>6, <2>7, <3>1, GrownKeeps
    <3>4. Followed(C, B)
      BY <1>4, <2>3, <2>6, <2>7, <3>1, <3>2, FollowedTrans
    <3>5. ASSUME NEW j \in 1 .. k + 1 PROVE Present(B, s[j].to)
      <4>1. j \in 1 .. k \/ j = k + 1
        BY <2>1
      <4>2. j \in 1 .. m
        BY <1>1, <2>1
      <4> QED BY <1>1, <3>1, <3>2, <3>3, <4>1, <4>2 DEF inc
    <3> QED BY <3>3, <3>4, <3>5
  <2>11. Inv(k + 1)
    BY <2>6, <2>8, <2>9, <2>10 DEF B
  <2> QED BY <2>1, <2>11
<1> HIDE DEF P
<1>9. \A k \in 0 .. m : k \in P
  BY <1>1, <1>7, <1>8, UpTo
<1>10. Inv(m) /\ E = g[m] /\ E \in Table
  BY <1>1, <1>3, <1>6, <1>9 DEF P
<1> HIDE DEF Inv
<1>11. /\ Clean(E) /\ GrownBut(C, E, f) /\ Kept(C[f], E[f])
       /\ Len(E[f].included) = m /\ \A j \in 1 .. m : E[f].included[j] = s[j].to
       /\ Room(n, D) => Followed(C, E) /\ \A j \in 1 .. m : Present(E, s[j].to)
  BY <1>10 DEF Inv
<1>12. Targets(t) = [k \in 1 .. m |-> s[k].to]
  BY <1>1 DEF Targets, s
<1>13. E[f].included = Targets(t)
  <2>1. E[f].included \in Seq(Uri)
    BY <1>10, FieldTypes
  <2>2. DOMAIN E[f].included = 1 .. m /\ E[f].included = [k \in 1 .. m |-> E[f].included[k]]
    BY <1>11, <2>1
  <2> QED BY <1>11, <1>12, <2>2
<1>14. GrownBut(D, E, f) /\ Kept(D[f], E[f])
  BY <1>4, <1>11 DEF GrownBut, Kept
<1>15. ASSUME Room(n, D) PROVE Followed(D, E) /\ \A k \in DOMAIN Targets(t) : Present(E, Targets(t)[k])
  <2>1. \A i \in Slot : D[i].uri = Nil <=> C[i].uri = Nil
    BY <1>4 DEF Kept
  <2> QED BY <1>11, <1>12, <1>15, <2>1 DEF Followed
<1> QED BY <1>11, <1>13, <1>14, <1>15

LEMMA FollowTyped ==
  ASSUME NEW load \in [Uri -> [Table -> Table]], NEW D \in Table, NEW u \in Uri, NEW t \in Text
  PROVE  follow_includes(load, D, u, t) \in Table
<1> DEFINE f == doc_find(D, u)
           C == IF f = 0 THEN D ELSE [D EXCEPT ![f].included = <<>>]
           s == Includes[t]
<1>1. f \in Slot \cup {0}
  BY FindFacts
<1> HIDE DEF f
<1>2. C \in Table
  <2>1. CASE f = 0
    BY <2>1
  <2>2. CASE f \in Slot
    <3>1. C[f] = [D[f] EXCEPT !.included = <<>>] /\ DOMAIN C = Slot /\ \A i \in Slot : i # f => C[i] = D[i]
      BY <2>2, SlotsFinite DEF Table
    <3>2. D[f] \in Document /\ <<>> \in Seq(Uri)
      BY <2>2, FieldTypes
    <3>3. C[f] \in Document
      <4> DEFINE e == C[f]
      <4>1. e = [D[f] EXCEPT !.included = <<>>]
        BY <3>1
      <4> HIDE DEF e
      <4>2. e \in Document
        BY <3>2, <4>1, SetIncluded
      <4> QED BY <4>2 DEF e
    <3>4. C = [i \in Slot |-> C[i]] /\ \A i \in Slot : C[i] \in Document
      BY <2>2, <3>1, <3>3, SlotsFinite DEF Table
    <3> HIDE DEF C
    <3> QED BY <3>4 DEF Table
  <2> QED BY <1>1, <2>1, <2>2
<1>3. s \in Seq(Include) /\ Len(s) \in 0 .. Len(s)
  <2>1. s \in Seq(Include)
    BY WorkspaceAssumption DEF Include
  <2>2. Len(s) \in Nat
    BY <2>1, LenProperties
  <2> QED BY <2>1, <2>2
<1> HIDE DEF C, s
<1>4. PICK g \in [0 .. Len(s) -> Table] : FollowAll(load, C, u, s) = g[Len(s)]
  BY <1>2, <1>3, FollowSteps
<1>5. follow_includes(load, D, u, t) = FollowAll(load, C, u, s)
  BY DEF follow_includes, FollowAll, C, s, f
<1> QED BY <1>3, <1>4, <1>5

DiskTyped == disk \in [Uri -> Text \cup {Nil}]

\* A slot taken for a file.
LEMMA FromDiskFacts ==
  ASSUME DiskTyped, NEW D \in Table, NEW i \in Slot, NEW u \in Uri, disk[u] # Nil
  PROVE  /\ FromDisk(D, i, u) \in Table
         /\ \A j \in Slot : j # i => FromDisk(D, i, u)[j] = D[j]
         /\ FromDisk(D, i, u)[i].uri = u /\ FromDisk(D, i, u)[i].text = disk[u]
         /\ FromDisk(D, i, u)[i].disk_only
<1> DEFINE d == [FreeSlot EXCEPT !.uri = u, !.text = disk[u], !.disk_only = TRUE]
<1>1. d \in Document /\ d.uri = u /\ d.text = disk[u] /\ d.disk_only
  <2>1. disk[u] \in Text /\ <<>> \in Seq(Uri)
    BY DEF DiskTyped
  <2> DEFINE a == [FreeSlot EXCEPT !.uri = u]
             b == [a EXCEPT !.text = disk[u]]
             c == [b EXCEPT !.disk_only = TRUE]
  <2>2. a \in Document /\ a.uri = u
    BY ONLY u \in Uri, FreeSlotTyped DEF Document
  <2> HIDE DEF a
  <2>3. b \in Document /\ b.uri = u /\ b.text = disk[u]
    BY ONLY <2>1, <2>2 DEF Document
  <2> HIDE DEF b
  <2>4. c \in Document /\ c.uri = u /\ c.text = disk[u] /\ c.disk_only
    BY ONLY <2>3 DEF Document
  <2>5. d = c
    BY ONLY DEF c, b, a, d
  <2> QED BY <2>4, <2>5
<1>2. FromDisk(D, i, u) = [D EXCEPT ![i] = d]
  BY DEF FromDisk
<1> HIDE DEF d
<1> QED BY <1>1, <1>2 DEF Table

\* load_file_from_disk() over the calls below it.
Level(n, load) ==
  [u \in Uri |-> [D \in Table |->
     IF n = 0 \/ doc_find(D, u) # 0 \/ disk[u] = Nil \/ doc_alloc(D) = 0 THEN D
     ELSE follow_includes(load, FromDisk(D, doc_alloc(D), u), u, disk[u])]]

LEMMA LevelTyped ==
  ASSUME DiskTyped, NEW load \in [Uri -> [Table -> Table]], NEW n
  PROVE  Level(n, load) \in [Uri -> [Table -> Table]]
<1> SUFFICES ASSUME NEW u \in Uri, NEW D \in Table, doc_alloc(D) # 0, disk[u] # Nil
             PROVE  follow_includes(load, FromDisk(D, doc_alloc(D), u), u, disk[u]) \in Table
  BY DEF Level
<1>1. FromDisk(D, doc_alloc(D), u) \in Table /\ disk[u] \in Text
  BY AllocFacts, FromDiskFacts DEF DiskTyped
<1> QED BY <1>1, FollowTyped

LEMMA LoadingIs ==
  ASSUME DiskTyped
  PROVE  /\ Loading \in [0 .. MaxDocs -> [Uri -> [Table -> Table]]]
         /\ \A u \in Uri : \A D \in Table : Loading[0][u][D] = D
         /\ \A n \in 1 .. MaxDocs : Loading[n] = Level(n, Loading[n - 1])
<1> DEFINE S == [Uri -> [Table -> Table]]
           b == [u \in Uri |-> [D \in Table |-> D]]
           F == [n \in 1 .. MaxDocs |-> [load \in S |-> Level(n, load)]]
           Eqn(L) == L = [n \in 0 .. MaxDocs |-> Level(n, L[n - 1])]
<1>1. b \in S /\ MaxDocs \in Nat
  BY SlotsFinite
<1>2. F \in [1 .. MaxDocs -> [S -> S]]
  BY LevelTyped
<1>3. \A load : Level(0, load) = b
  BY DEF Level
<1> HIDE DEF b, F
<1>4. PICK f \in [0 .. MaxDocs -> S] : Chain(f, MaxDocs, F, b)
  <2> HIDE DEF S
  <2> QED BY <1>1, <1>2, ChainExists
<1>5. Eqn(f)
  <2> SUFFICES ASSUME NEW n \in 0 .. MaxDocs PROVE f[n] = Level(n, f[n - 1])
    OBVIOUS
  <2>1. CASE n = 0
    BY <1>3, <1>4, <2>1 DEF Chain
  <2>2. CASE n # 0
    <3>1. n \in 1 .. MaxDocs /\ n - 1 \in 0 .. MaxDocs
      BY <1>1, <2>2
    <3>2. f[n] = F[n][f[n - 1]] /\ f[n - 1] \in S
      BY <1>4, <2>2, <3>1 DEF Chain
    <3> QED BY <3>1, <3>2 DEF F
  <2> QED BY <2>1, <2>2
<1>6. Loading = CHOOSE L : Eqn(L)
  BY DEF Loading, Level
<1>7. Eqn(Loading)
  BY <1>5, <1>6
<1>11. \A n \in 0 .. MaxDocs : Loading[n] = Level(n, Loading[n - 1])
  BY <1>7
<1> HIDE DEF S
<1> DEFINE P == {n \in 0 .. MaxDocs : Loading[n] \in S}
<1>8. \A n \in 0 .. MaxDocs : n \in P
  <2>1. 0 \in P
    BY <1>1, <1>3, <1>7
  <2>2. ASSUME NEW k \in 0 .. MaxDocs - 1, k \in P PROVE k + 1 \in P
    <3>1. k + 1 \in 0 .. MaxDocs /\ k + 1 - 1 = k /\ Loading[k] \in S
      BY <1>1, <2>2
    <3>2. Loading[k + 1] = Level(k + 1, Loading[k])
      BY <1>11, <3>1
    <3> QED BY <3>1, <3>2, LevelTyped DEF S
  <2> HIDE DEF P
  <2> QED BY <1>1, <2>1, <2>2, UpTo
<1>9. Loading \in [0 .. MaxDocs -> S]
  BY <1>7, <1>8
<1>10. Loading[0] = b
  BY <1>1, <1>3, <1>7
<1> QED BY <1>1, <1>7, <1>9, <1>10 DEF S, b

\* A document put in a free slot.
LEMMA CleanNew ==
  ASSUME NEW D, Clean(D), NEW i \in Slot, D[i].uri = Nil, NEW A \in Table,
         \A j \in Slot : j # i => A[j] = D[j],
         A[i].uri \in Uri, A[i].text # Nil, ~Holds(D, A[i].uri)
  PROVE  /\ Clean(A)
         /\ \A n \in Nat : Room(n + 1, D) => Room(n, A)
<1>1. Nil \notin Uri
  BY WorkspaceAssumption
<1>2. Clean(A)
  BY <1>1 DEF Clean, Holds
<1>3. Free(A) = Free(D) \ {i} /\ i \in Free(D)
  BY <1>1 DEF Free
<1>4. IsFiniteSet(Free(D))
  BY SlotsFinite, FS_Subset DEF Free
<1>5. Cardinality(Free(A)) = Cardinality(Free(D)) - 1 /\ Cardinality(Free(D)) \in Nat
  BY <1>3, <1>4, FS_RemoveElement, FS_CardinalityType
<1> QED BY <1>2, <1>5 DEF Room

LEMMA LevelSpec ==
  ASSUME DiskTyped, NEW n \in Nat, NEW load, LoadSpec(n, load)
  PROVE  LoadSpec(n + 1, Level(n + 1, load))
<1>1. Level(n + 1, load) \in [Uri -> [Table -> Table]]
  BY LevelTyped DEF LoadSpec
<1>2. ASSUME NEW u \in Uri, NEW D \in Table, Clean(D), NEW E, E = Level(n + 1, load)[u][D]
      PROVE  Clean(E) /\ Grown(D, E) /\ (Room(n + 1, D) => Present(E, u) /\ Followed(D, E))
  <2> DEFINE i == doc_alloc(D)
             A == FromDisk(D, i, u)
  <2>0. n + 1 # 0
    OBVIOUS
  <2>1. CASE doc_find(D, u) # 0 \/ disk[u] = Nil \/ i = 0
    <3>1. E = D
      BY <1>2, <2>1 DEF Level
    <3>2. Present(D, u)
      BY <2>1, FindFacts, AllocFacts DEF Present
    <3> QED BY <1>2, <3>1, <3>2, GrownSelf
  <2>2. CASE doc_find(D, u) = 0 /\ disk[u] # Nil /\ i # 0
    <3>1. i \in Slot /\ D[i].uri = Nil /\ ~Holds(D, u) /\ disk[u] \in Text /\ u # Nil
      BY <2>2, FindFacts, AllocFacts, WorkspaceAssumption DEF DiskTyped
    <3>2. E = follow_includes(load, A, u, disk[u])
      BY <1>2, <2>0, <2>2 DEF Level
    <3> HIDE DEF i
    <3>3. /\ A \in Table /\ \A j \in Slot : j # i => A[j] = D[j]
          /\ A[i].uri = u /\ A[i].text = disk[u] /\ A[i].disk_only
      BY <2>2, <3>1, FromDiskFacts
    <3> HIDE DEF A
    <3>4. Clean(A) /\ (Room(n + 1, D) => Room(n, A))
      BY <1>2, <2>2, <3>1, <3>3, CleanNew
    <3>5. /\ Clean(E) /\ GrownBut(A, E, i) /\ Kept(A[i], E[i])
          /\ E[i].included = Targets(disk[u])
          /\ Room(n, A) => Followed(A, E) /\ \A k \in DOMAIN Targets(disk[u]) : Present(E, Targets(disk[u])[k])
      BY <3>1, <3>2, <3>3, <3>4, FollowSpec
    <3>6. Background(E[i]) /\ E[i].uri = u
      BY <3>3, <3>5 DEF Background, Kept
    <3>7. Grown(D, E)
      BY <3>1, <3>3, <3>5, <3>6 DEF Grown, GrownBut
    <3>8. Present(E, u)
      BY <3>1, <3>6 DEF Present, Holds
    <3>9. ASSUME Room(n + 1, D) PROVE Followed(D, E)
      <4>1. Followed(A, E) /\ \A k \in DOMAIN Targets(disk[u]) : Present(E, Targets(disk[u])[k])
        BY <3>4, <3>5, <3>9
      <4> QED BY <3>3, <3>5, <4>1 DEF Followed
    <3> QED BY <3>5, <3>7, <3>8, <3>9
  <2> QED BY <2>1, <2>2
<1> QED BY <1>1, <1>2 DEF LoadSpec

\* load_file_from_disk() loads a file and everything it includes.
LEMMA LoadingSpec ==
  ASSUME DiskTyped
  PROVE  LoadSpec(MaxDocs, Loading[MaxDocs])
<1>0. MaxDocs \in Nat
  BY SlotsFinite
<1> DEFINE P == {n \in 0 .. MaxDocs : LoadSpec(n, Loading[n])}
<1>1. 0 \in P
  <2>1. Loading[0] \in [Uri -> [Table -> Table]] /\ \A u \in Uri : \A D \in Table : Loading[0][u][D] = D
    BY <1>0, LoadingIs
  <2>2. ASSUME NEW D \in Table, Clean(D), Room(0, D), NEW u \in Uri PROVE Present(D, u)
    <3>1. IsFiniteSet(Free(D))
      BY SlotsFinite, FS_Subset DEF Free
    <3>2. Cardinality(Free(D)) = 0
      BY <2>2, <3>1, FS_CardinalityType DEF Room
    <3>3. Free(D) = {}
      BY <3>1, <3>2, FS_EmptySet
    <3> QED BY <3>3 DEF Present
  <2>3. LoadSpec(0, Loading[0])
    BY <2>1, <2>2, GrownSelf DEF LoadSpec
  <2> QED BY <1>0, <2>3
<1>2. ASSUME NEW n \in 0 .. MaxDocs - 1, n \in P PROVE n + 1 \in P
  <2>1. n \in Nat /\ n + 1 \in 0 .. MaxDocs /\ n + 1 \in 1 .. MaxDocs /\ n + 1 - 1 = n /\ LoadSpec(n, Loading[n])
    BY <1>0, <1>2
  <2>2. Loading[n + 1] = Level(n + 1, Loading[n])
    BY <2>1, LoadingIs
  <2>3. LoadSpec(n + 1, Level(n + 1, Loading[n]))
    BY <2>1, LevelSpec
  <2> QED BY <2>1, <2>2, <2>3
<1> HIDE DEF P
<1>3. \A n \in 0 .. MaxDocs : n \in P
  BY <1>0, <1>1, <1>2, UpTo
<1>4. MaxDocs \in P
  BY <1>0, <1>3
<1> QED BY <1>4 DEF P

LEMMA RoomAlways == ASSUME NEW D PROVE Room(MaxDocs, D)
<1>1. Free(D) \subseteq Slot
  BY DEF Free
<1> QED BY <1>1, SlotsFinite, FS_Subset DEF Room

-----------------------------------------------------------------------------
(* compile_commands.json and revalidation.                                 *)

\* E is D after some more files have been loaded.
Loaded(D, E) == Clean(E) /\ Grown(D, E) /\ Followed(D, E)

LEMMA LoadedTrans ==
  ASSUME NEW D \in Table, NEW E, NEW G, Loaded(D, E), Loaded(E, G)
  PROVE  Loaded(D, G)
<1>1. E \in Table /\ G \in Table
  BY DEF Loaded, Clean
<1>2. Grown(D, G)
  BY <1>1, GrownTrans DEF Loaded, Grown
<1>3. Followed(D, G)
  BY <1>1, FollowedTrans DEF Loaded, Grown
<1> QED BY <1>2, <1>3 DEF Loaded

\* load_file_from_disk() at the top of the stack.
LEMMA LoadFile ==
  ASSUME DiskTyped, NEW u \in Uri, NEW D, Clean(D)
  PROVE  Loaded(D, load_file_from_disk(D, u)) /\ Present(load_file_from_disk(D, u), u)
<1>1. D \in Table
  BY DEF Clean
<1> QED BY <1>1, LoadingSpec, RoomAlways DEF load_file_from_disk, LoadSpec, Loaded

LEMMA LoadFileTyped ==
  ASSUME DiskTyped, NEW u \in Uri, NEW D \in Table
  PROVE  load_file_from_disk(D, u) \in Table
BY LoadingSpec DEF load_file_from_disk, LoadSpec

\* An entry of the file: loaded, and marked.
Marked(L, k) == [L EXCEPT ![k].is_cc_root = TRUE]

LEMMA MarkRoot ==
  ASSUME NEW L \in Table, NEW k \in Slot, NEW E, E = Marked(L, k)
  PROVE  /\ E \in Table /\ \A i \in Slot : i # k => E[i] = L[i]
         /\ Kept(L[k], E[k]) /\ E[k].included = L[k].included
<1>1. E[k] = [L[k] EXCEPT !.is_cc_root = TRUE] /\ DOMAIN E = Slot /\ \A i \in Slot : i # k => E[i] = L[i]
  BY DEF Table, Marked
<1>2. L[k] \in Document
  BY FieldTypes
<1>3. E[k] \in Document /\ Kept(L[k], E[k]) /\ E[k].included = L[k].included
  BY ONLY <1>1, <1>2, SetRoot
<1>4. E = [i \in Slot |-> E[i]] /\ \A i \in Slot : E[i] \in Document
  BY <1>1, <1>3 DEF Table, Marked
<1> QED BY ONLY <1>1, <1>3, <1>4 DEF Table

LEMMA EntryTyped ==
  ASSUME DiskTyped, NEW u \in Uri, NEW D \in Table
  PROVE  LoadEntry(D, u) \in Table
<1> DEFINE L == load_file_from_disk(D, u)
           k == doc_find(L, u)
<1>1. L \in Table
  BY LoadFileTyped
<1>2. LoadEntry(D, u) = IF k = 0 THEN L ELSE Marked(L, k)
  BY DEF LoadEntry, Marked
<1> HIDE DEF L
<1>3. k \in Slot \cup {0}
  BY <1>1, FindFacts
<1> HIDE DEF k
<1>4. CASE k = 0
  BY <1>1, <1>2, <1>4
<1>5. CASE k \in Slot
  BY <1>1, <1>2, <1>5, SlotsFinite, MarkRoot
<1> QED BY <1>3, <1>4, <1>5

LEMMA EntrySpec ==
  ASSUME DiskTyped, NEW u \in Uri, NEW D, Clean(D), NEW E, E = LoadEntry(D, u)
  PROVE  Loaded(D, E)
<1> DEFINE L == load_file_from_disk(D, u)
           k == doc_find(L, u)
<1>1. Loaded(D, L) /\ L \in Table /\ Clean(L) /\ D \in Table
  BY LoadFile DEF Loaded, Clean
<1>2. E = IF k = 0 THEN L ELSE Marked(L, k)
  BY DEF LoadEntry, Marked
<1> HIDE DEF L
<1>3. k \in Slot \cup {0} /\ (k # 0 => L[k].uri = u)
  BY <1>1, FindFacts
<1> HIDE DEF k
<1>4. CASE k = 0
  BY <1>1, <1>2, <1>4
<1>5. CASE k \in Slot
  <2>1. /\ E \in Table /\ \A i \in Slot : i # k => E[i] = L[i]
        /\ Kept(L[k], E[k]) /\ E[k].included = L[k].included /\ L[k].uri # Nil
    <3>1. k # 0 /\ E = Marked(L, k)
      BY <1>2, <1>5, SlotsFinite
    <3>2. L[k].uri # Nil
      BY <1>3, <3>1, WorkspaceAssumption
    <3>3. L \in Table /\ k \in Slot
      BY <1>1, <1>5
    <3> QED BY ONLY <3>1, <3>2, <3>3, MarkRoot
  <2>2. Clean(E)
    BY <1>1, <2>1, CleanKept
  <2>3. Grown(L, E) /\ Followed(L, E)
    BY <2>1 DEF Grown, GrownBut, Followed, Kept
  <2> QED BY <1>1, <2>2, <2>3, LoadedTrans DEF Loaded
<1> QED BY <1>3, <1>4, <1>5

\* The tables after each entry.
LEMMA EntrySteps ==
  ASSUME DiskTyped, NEW C \in Table, NEW s \in Seq(Uri)
  PROVE  \E f \in [0 .. Len(s) -> Table] :
           /\ f[0] = C
           /\ \A k \in 1 .. Len(s) : f[k] = LoadEntry(f[k - 1], s[k])
           /\ load_compile_entries(C, s) = f[Len(s)]
<1> DEFINE n == Len(s)
           F == [k \in 1 .. n |-> [D \in Table |-> LoadEntry(D, s[k])]]
           Eqn(it) == it = [t \in SUBSET (1 .. n) |-> IF t = {} THEN C
                              ELSE LoadEntry(it[t \ {Max(t)}], s[Max(t)])]
<1>1. n \in Nat /\ DOMAIN s = 1 .. n /\ \A k \in 1 .. n : s[k] \in Uri
  BY LenProperties, ElementOfSeq
<1>2. F \in [1 .. n -> [Table -> Table]]
  BY <1>1, EntryTyped
<1> HIDE DEF n, F
<1>3. PICK it \in [SUBSET (1 .. n) -> Table] : Folds(it, n, F, C)
  BY <1>1, <1>2, FoldExists
<1>4. Eqn(it)
  <2> SUFFICES ASSUME NEW t \in SUBSET (1 .. n), t # {}
               PROVE  F[Max(t)][it[t \ {Max(t)}]] = LoadEntry(it[t \ {Max(t)}], s[Max(t)])
    BY <1>3 DEF Folds
  <2>1. Max(t) \in 1 .. n /\ t \ {Max(t)} \in SUBSET (1 .. n)
    BY <1>1, MaxIn
  <2>2. it[t \ {Max(t)}] \in Table
    BY <2>1
  <2> QED BY <2>1, <2>2 DEF F
<1> DEFINE g == CHOOSE h : Eqn(h)
           f == [k \in 0 .. n |-> g[1 .. k]]
<1>5. Eqn(g)
  BY <1>4
<1>6. load_compile_entries(C, s) = g[1 .. n]
  BY <1>1 DEF load_compile_entries, FoldLeft, MapThenFoldSet
<1> HIDE DEF g
<1>7. f[0] = C
  <2>1. 1 .. 0 = {} /\ {} \in SUBSET (1 .. n) /\ 0 \in 0 .. n
    BY <1>1
  <2> QED BY <1>5, <2>1
<1>8. ASSUME NEW k \in 1 .. n PROVE f[k] = LoadEntry(f[k - 1], s[k])
  <2>1. /\ 1 .. k \in SUBSET (1 .. n) /\ 1 .. k # {} /\ Max(1 .. k) = k
        /\ (1 .. k) \ {k} = 1 .. (k - 1) /\ k - 1 \in 0 .. n /\ k \in 0 .. n
    BY <1>1, Interval
  <2>2. f[k - 1] = g[1 .. (k - 1)] /\ f[k] = g[1 .. k]
    BY <2>1
  <2>3. g[1 .. k] = LoadEntry(g[(1 .. k) \ {k}], s[k])
    BY <1>5, <2>1
  <2> QED BY <2>1, <2>2, <2>3
<1> DEFINE P == {k \in 0 .. n : f[k] \in Table}
<1>9. \A k \in 0 .. n : k \in P
  <2>1. 0 \in P
    BY <1>1, <1>7
  <2>2. ASSUME NEW k \in 0 .. n - 1, k \in P PROVE k + 1 \in P
    <3>1. k + 1 \in 1 .. n /\ k + 1 \in 0 .. n /\ k + 1 - 1 = k /\ f[k] \in Table
      BY <1>1, <2>2
    <3> HIDE DEF f
    <3> QED BY <1>1, <1>8, <3>1, EntryTyped
  <2> HIDE DEF P
  <2> QED BY <1>1, <2>1, <2>2, UpTo
<1>10. f \in [0 .. n -> Table] /\ f[n] = g[1 .. n]
  BY <1>1, <1>9
<1> HIDE DEF f
<1> QED BY <1>6, <1>7, <1>8, <1>10 DEF n

LEMMA LoadEntries ==
  ASSUME DiskTyped, NEW D, Clean(D), NEW s \in Seq(Uri)
  PROVE  Loaded(D, load_compile_entries(D, s))
<1> DEFINE n == Len(s)
<1>1. D \in Table /\ n \in Nat /\ \A k \in 1 .. n : s[k] \in Uri
  BY LenProperties, ElementOfSeq DEF Clean
<1>2. PICK f \in [0 .. n -> Table] :
           /\ f[0] = D
           /\ \A k \in 1 .. n : f[k] = LoadEntry(f[k - 1], s[k])
           /\ load_compile_entries(D, s) = f[n]
  BY <1>1, EntrySteps
<1> HIDE DEF n
<1> DEFINE P == {k \in 0 .. n : Loaded(D, f[k])}
<1>3. 0 \in P
  BY <1>1, <1>2, GrownSelf DEF Loaded
<1>4. ASSUME NEW k \in 0 .. n - 1, k \in P PROVE k + 1 \in P
  <2>1. k + 1 \in 1 .. n /\ k + 1 \in 0 .. n /\ k + 1 - 1 = k /\ Loaded(D, f[k]) /\ Clean(f[k])
    BY <1>1, <1>4 DEF Loaded
  <2>2. Loaded(f[k], f[k + 1])
    BY <1>1, <1>2, <2>1, EntrySpec
  <2> QED BY <1>1, <2>1, <2>2, LoadedTrans
<1> HIDE DEF P
<1>5. \A k \in 0 .. n : k \in P
  BY <1>1, <1>3, <1>4, UpTo
<1>6. n \in P
  BY <1>1, <1>5
<1> QED BY <1>2, <1>6 DEF P

CcTyped == cc \in Seq(Uri) \cup {Malformed, Nil}
StatusTyped == ccStatus \in {"OK", "MISSING", "MALFORMED"}

LEMMA ReloadSpec ==
  ASSUME DiskTyped, CcTyped, StatusTyped, NEW D, Clean(D),
         NEW r, r = reload_compile_commands(D) \/ r = maybe_reload_compile_commands(D)
  PROVE  Loaded(D, r.docs) /\ r.status \in {"OK", "MISSING", "MALFORMED"}
<1>1. Loaded(D, D)
  BY GrownSelf DEF Loaded
<1>2. ASSUME NEW q, q = reload_compile_commands(D)
      PROVE  Loaded(D, q.docs) /\ q.status \in {"OK", "MISSING", "MALFORMED"}
  <2>1. CASE ~root \/ cc = Nil
    BY <1>1, <1>2, <2>1 DEF reload_compile_commands
  <2>2. CASE root /\ cc # Nil /\ cc = Malformed
    BY <1>1, <1>2, <2>2 DEF reload_compile_commands
  <2>3. CASE root /\ cc # Nil /\ cc # Malformed
    <3>1. cc \in Seq(Uri)
      BY <2>3 DEF CcTyped
    <3>2. q = [docs |-> load_compile_entries(D, cc), status |-> "OK"]
      BY <1>2, <2>3 DEF reload_compile_commands
    <3> QED BY <3>1, <3>2, LoadEntries
  <2> QED BY <2>1, <2>2, <2>3
<1> QED BY <1>1, <1>2 DEF maybe_reload_compile_commands, StatusTyped

-----------------------------------------------------------------------------
(* A document gets a text: didOpen, didChange, didClose, file events.      *)

Texted(D, i, t) == [D EXCEPT ![i].text = t]
Flagged(D, i, b) == [D EXCEPT ![i].disk_only = b]

LEMMA TextedFacts ==
  ASSUME NEW D \in Table, NEW i \in Slot, NEW t \in Text, NEW E, E = Texted(D, i, t)
  PROVE  /\ E \in Table /\ \A j \in Slot : j # i => E[j] = D[j]
         /\ E[i].uri = D[i].uri /\ E[i].text = t /\ E[i].disk_only = D[i].disk_only
<1>1. E[i] = [D[i] EXCEPT !.text = t] /\ DOMAIN E = Slot /\ \A j \in Slot : j # i => E[j] = D[j]
  BY DEF Table, Texted
<1>2. D[i] \in Document
  BY FieldTypes
<1>3. E[i] \in Document /\ E[i].uri = D[i].uri /\ E[i].text = t /\ E[i].disk_only = D[i].disk_only
  BY ONLY <1>1, <1>2, t \in Text DEF Document
<1>4. E = [j \in Slot |-> E[j]] /\ \A j \in Slot : E[j] \in Document
  BY <1>1, <1>3 DEF Table, Texted
<1> QED BY ONLY <1>1, <1>3, <1>4 DEF Table

LEMMA FlaggedFacts ==
  ASSUME NEW D \in Table, NEW i \in Slot, NEW b \in BOOLEAN, NEW E, E = Flagged(D, i, b)
  PROVE  /\ E \in Table /\ \A j \in Slot : j # i => E[j] = D[j]
         /\ E[i].uri = D[i].uri /\ E[i].text = D[i].text /\ E[i].disk_only = b
         /\ E[i].included = D[i].included
<1>1. E[i] = [D[i] EXCEPT !.disk_only = b] /\ DOMAIN E = Slot /\ \A j \in Slot : j # i => E[j] = D[j]
  BY DEF Table, Flagged
<1>2. D[i] \in Document
  BY FieldTypes
<1>3. /\ E[i] \in Document /\ E[i].uri = D[i].uri /\ E[i].text = D[i].text /\ E[i].disk_only = b
      /\ E[i].included = D[i].included
  BY ONLY <1>1, <1>2, b \in BOOLEAN DEF Document
<1>4. E = [j \in Slot |-> E[j]] /\ \A j \in Slot : E[j] \in Document
  BY <1>1, <1>3 DEF Table, Flagged
<1> QED BY ONLY <1>1, <1>3, <1>4 DEF Table

LEMMA OccupiedFacts ==
  ASSUME NEW D \in Table, NEW i \in Slot, NEW u \in Uri, NEW E, E = Occupied(D, i, u)
  PROVE  E \in Table /\ (\A j \in Slot : j # i => E[j] = D[j]) /\ E[i].uri = u
<1>1. E[i] = [D[i] EXCEPT !.uri = u] /\ DOMAIN E = Slot /\ \A j \in Slot : j # i => E[j] = D[j]
  BY DEF Table, Occupied
<1>2. D[i] \in Document
  BY FieldTypes
<1>3. E[i] \in Document /\ E[i].uri = u
  BY ONLY <1>1, <1>2, u \in Uri DEF Document
<1>4. E = [j \in Slot |-> E[j]] /\ \A j \in Slot : E[j] \in Document
  BY <1>1, <1>3 DEF Table, Occupied
<1> QED BY ONLY <1>1, <1>3, <1>4 DEF Table

\* E is D with the text t for u in slot i, and what its includes have brought in.
Updated(D, E, i, u, t, b) ==
  /\ Clean(E) /\ GrownBut(D, E, i)
  /\ E[i].uri = u /\ E[i].text = t /\ E[i].disk_only = b /\ E[i].included = Targets(t)
  /\ \A k \in DOMAIN Targets(t) : Present(E, Targets(t)[k])
  /\ \A j \in Slot \ {i} : D[j].uri = Nil /\ E[j].uri # Nil =>
       \A k \in DOMAIN E[j].included : Present(E, E[j].included[k])

\* The slot of u, or a free one for it.
SlotFor(D, i, u) == i \in Slot /\ (D[i].uri = u \/ (D[i].uri = Nil /\ ~Holds(D, u)))

LEMMA ReparseSpec ==
  ASSUME DiskTyped, NEW D, Clean(D), NEW u \in Uri, NEW i, SlotFor(D, i, u), NEW t \in Text,
         NEW B \in Table, \A j \in Slot : j # i => B[j] = D[j], B[i].uri = u
  PROVE  Updated(D, Reparse(B, i, t), i, u, t, B[i].disk_only)
<1> DEFINE A == Texted(B, i, t)
           E == Reparse(B, i, t)
<1>0. i \in Slot /\ Nil \notin Uri /\ Nil \notin Text
  BY WorkspaceAssumption DEF SlotFor
<1>1. /\ A \in Table /\ \A j \in Slot : j # i => A[j] = D[j]
      /\ A[i].uri = u /\ A[i].text = t /\ A[i].disk_only = B[i].disk_only
  BY <1>0, TextedFacts
<1>2. E = follow_includes(Loading[MaxDocs], A, u, t)
  BY DEF Reparse, Texted
<1> HIDE DEF A, E
<1>3. Clean(A)
  <2>1. \A j \in Slot : j # i => A[j].uri # u
    BY <1>0, <1>1 DEF SlotFor, Clean, Holds
  <2> QED BY <1>0, <1>1, <2>1 DEF Clean
<1>4. MaxDocs \in Nat /\ LoadSpec(MaxDocs, Loading[MaxDocs]) /\ Room(MaxDocs, A)
  BY SlotsFinite, LoadingSpec, RoomAlways
<1>5. /\ Clean(E) /\ GrownBut(A, E, i) /\ Kept(A[i], E[i])
      /\ E[i].included = Targets(t)
      /\ Followed(A, E) /\ \A k \in DOMAIN Targets(t) : Present(E, Targets(t)[k])
  BY <1>0, <1>1, <1>2, <1>3, <1>4, FollowSpec
<1>6. E[i].uri = u /\ E[i].text = t /\ E[i].disk_only = B[i].disk_only
  BY <1>1, <1>5 DEF Kept
<1>7. GrownBut(D, E, i)
  BY <1>1, <1>5 DEF GrownBut
<1>8. \A j \in Slot \ {i} : D[j].uri = Nil /\ E[j].uri # Nil =>
        \A k \in DOMAIN E[j].included : Present(E, E[j].included[k])
  BY <1>1, <1>5 DEF Followed
<1> QED BY <1>5, <1>6, <1>7, <1>8 DEF Updated, E

LEMMA InstallSpec ==
  ASSUME DiskTyped, NEW D, Clean(D), NEW u \in Uri, NEW i, SlotFor(D, i, u), NEW t \in Text
  PROVE  /\ Updated(D, install_disk_text(Occupied(D, i, u), i, t), i, u, t, TRUE)
         /\ D[i].uri = u => Updated(D, install_disk_text(D, i, t), i, u, t, TRUE)
         /\ Updated(D, Reparse([Occupied(D, i, u) EXCEPT ![i].disk_only = FALSE], i, t), i, u, t, FALSE)
<1>0. i \in Slot /\ D \in Table
  BY DEF SlotFor, Clean
<1>1. ASSUME NEW C \in Table, \A j \in Slot : j # i => C[j] = D[j], C[i].uri = u, NEW b \in BOOLEAN
      PROVE  Updated(D, Reparse(Flagged(C, i, b), i, t), i, u, t, b)
  <2> DEFINE B == Flagged(C, i, b)
  <2>1. B \in Table /\ (\A j \in Slot : j # i => B[j] = D[j]) /\ B[i].uri = u /\ B[i].disk_only = b
    BY <1>0, <1>1, FlaggedFacts
  <2> HIDE DEF B
  <2>2. Updated(D, Reparse(B, i, t), i, u, t, B[i].disk_only)
    BY <2>1, ReparseSpec
  <2> QED BY <2>1, <2>2 DEF B
<1> DEFINE O == Occupied(D, i, u)
<1>2. O \in Table /\ (\A j \in Slot : j # i => O[j] = D[j]) /\ O[i].uri = u
  BY <1>0, OccupiedFacts
<1>3. /\ \A C : install_disk_text(C, i, t) = Reparse(Flagged(C, i, TRUE), i, t)
      /\ [O EXCEPT ![i].disk_only = FALSE] = Flagged(O, i, FALSE)
  BY DEF install_disk_text, Flagged
<1> HIDE DEF O
<1>4. Updated(D, install_disk_text(O, i, t), i, u, t, TRUE)
  BY <1>1, <1>2, <1>3
<1>5. D[i].uri = u => Updated(D, install_disk_text(D, i, t), i, u, t, TRUE)
  BY <1>0, <1>1, <1>3
<1>6. Updated(D, Reparse([O EXCEPT ![i].disk_only = FALSE], i, t), i, u, t, FALSE)
  BY <1>1, <1>2, <1>3
<1> QED BY <1>4, <1>5, <1>6 DEF O

\* Files that revalidate_all_docs() loads besides leave an update as it is.
LEMMA UpdatedLoaded ==
  ASSUME NEW D \in Table, NEW E, NEW G, NEW i \in Slot, NEW u \in Uri, NEW t \in Text, NEW b,
         Updated(D, E, i, u, t, b), Loaded(E, G)
  PROVE  Updated(D, G, i, u, t, b)
<1>1. E \in Table /\ G \in Table /\ Clean(G) /\ Nil \notin Uri
  BY WorkspaceAssumption DEF Updated, Loaded, Clean
<1>2. \A v \in Uri : Present(E, v) => Present(G, v)
  BY <1>1, GrownKeeps DEF Loaded, Grown
<1>3. \A j \in Slot :
        /\ E[j].uri # Nil => Kept(E[j], G[j]) /\ G[j].included = E[j].included
        /\ E[j].uri = Nil /\ G[j].uri # Nil =>
             Background(G[j]) /\ \A k \in DOMAIN G[j].included : Present(G, G[j].included[k])
  BY SlotsFinite DEF Loaded, Grown, GrownBut, Followed
<1>4. E[i].uri = u /\ E[i].text = t /\ E[i].disk_only = b /\ E[i].included = Targets(t) /\ u # Nil
  BY <1>1 DEF Updated
<1>5. G[i].uri = u /\ G[i].text = t /\ G[i].disk_only = b /\ G[i].included = Targets(t)
  BY <1>3, <1>4 DEF Kept
<1>6. GrownBut(D, G, i)
  <2>1. \A j \in Slot \ {i} :
          /\ D[j].uri # Nil => Kept(D[j], E[j]) /\ E[j].included = D[j].included
          /\ D[j].uri = Nil /\ E[j].uri # Nil => Background(E[j])
    BY DEF Updated, GrownBut
  <2> QED BY <1>3, <2>1 DEF GrownBut, Kept, Background
<1>7. \A k \in DOMAIN Targets(t) : Present(G, Targets(t)[k])
  <2> SUFFICES ASSUME NEW k \in DOMAIN Targets(t) PROVE Present(G, Targets(t)[k])
    OBVIOUS
  <2>1. E[i].included \in Seq(Uri)
    BY <1>1, FieldTypes
  <2>2. Targets(t)[k] \in Uri
    BY <1>4, <2>1
  <2> QED BY <1>2, <2>2 DEF Updated
<1>8. ASSUME NEW j \in Slot \ {i}, D[j].uri = Nil, G[j].uri # Nil, NEW k \in DOMAIN G[j].included
      PROVE  Present(G, G[j].included[k])
  <2>1. CASE E[j].uri = Nil
    BY <1>3, <1>8, <2>1
  <2>2. CASE E[j].uri # Nil
    <3>1. G[j].included = E[j].included /\ E[j].included \in Seq(Uri)
      BY <1>1, <1>3, <2>2, FieldTypes
    <3>2. G[j].included[k] \in Uri /\ Present(E, G[j].included[k])
      BY <1>8, <2>2, <3>1 DEF Updated
    <3> QED BY <1>2, <3>2
  <2> QED BY <2>1, <2>2
<1> QED BY <1>1, <1>5, <1>6, <1>7, <1>8 DEF Updated

-----------------------------------------------------------------------------
(* What each handler does to the table.                                    *)

LEMMA FreeFacts ==
  ASSUME NEW D, Clean(D), NEW i \in Slot, NEW F, F = doc_free(D, i)
  PROVE  /\ Clean(F) /\ F[i].uri = Nil
         /\ \A j \in Slot : j # i => F[j] = D[j]
<1>1. D \in Table
  BY DEF Clean
<1>2. F[i] = FreeSlot /\ F \in Table /\ \A j \in Slot : j # i => F[j] = D[j]
  BY <1>1, FreeSlotTyped DEF doc_free, Table
<1>3. F[i].uri = Nil
  BY <1>2, FreeSlotTyped
<1> QED BY <1>2, <1>3 DEF Clean

LEMMA FlagClean ==
  ASSUME NEW D, Clean(D), NEW i \in Slot, D[i].uri # Nil, NEW b \in BOOLEAN
  PROVE  Clean(Flagged(D, i, b))
<1> DEFINE E == Flagged(D, i, b)
<1>1. D \in Table
  BY DEF Clean
<1>2. /\ E \in Table /\ \A j \in Slot : j # i => E[j] = D[j]
      /\ E[i].uri = D[i].uri /\ E[i].text = D[i].text
  BY <1>1, FlaggedFacts
<1> HIDE DEF E
<1>3. Clean(E)
  BY <1>2 DEF Clean
<1> QED BY <1>3 DEF E

\* The slots a handler finds and allocates.
LEMMA SlotForFind ==
  ASSUME NEW D, Clean(D), NEW u \in Uri
  PROVE  /\ doc_find(D, u) # 0 => SlotFor(D, doc_find(D, u), u) /\ D[doc_find(D, u)].uri = u
         /\ doc_find(D, u) = 0 /\ doc_alloc(D) # 0 => SlotFor(D, doc_alloc(D), u)
         /\ doc_find(D, u) = 0 => ~Holds(D, u)
         /\ doc_alloc(D) = 0 => Free(D) = {}
         /\ doc_find(D, u) # 0 => doc_find(D, u) \in Slot
<1>1. D \in Table
  BY DEF Clean
<1> QED BY <1>1, FindFacts, AllocFacts DEF SlotFor

\* revalidate_all_docs(): the table that is published.
LEMMA RevalidateSpec ==
  ASSUME DiskTyped, CcTyped, StatusTyped, NEW G, Clean(G), Revalidate(G)
  PROVE  Loaded(G, docs') /\ StatusTyped' /\ ccCached' = TRUE /\ gws' = build_workspace_snapshot(docs', ccStatus')
<1> DEFINE r == maybe_reload_compile_commands(G)
<1>1. Loaded(G, r.docs) /\ r.status \in {"OK", "MISSING", "MALFORMED"}
  BY ReloadSpec
<1>2. docs' = r.docs /\ ccStatus' = r.status /\ ccCached' = TRUE /\ gws' = build_workspace_snapshot(r.docs, r.status)
  BY DEF Revalidate
<1> HIDE DEF r
<1> QED BY <1>1, <1>2 DEF StatusTyped

TextSet(D, E, u, t, b) == \E i \in Slot : SlotFor(D, i, u) /\ Updated(D, E, i, u, t, b)
Opened(D, E, u, t) ==
  \E i \in Slot : D[i].uri = u /\ D[i].disk_only /\ D[i].text = t /\ Loaded(Flagged(D, i, FALSE), E)
Dropped(D, E, u) == \E i \in Slot : D[i].uri = u /\ Loaded(doc_free(D, i), E)

\* Published, or nothing changed.
Publishes ==
  \/ StatusTyped' /\ ccCached' = TRUE /\ gws' = build_workspace_snapshot(docs', ccStatus')
  \/ NoRevalidate
Typed == DiskTyped /\ CcTyped /\ StatusTyped /\ Clean(docs)

\* A revalidation after a text has been set.
LEMMA SetAndPublish ==
  ASSUME Typed, NEW D, Clean(D), NEW u \in Uri, NEW t \in Text, NEW b, NEW i, SlotFor(D, i, u),
         NEW E, Updated(D, E, i, u, t, b), Revalidate(E)
  PROVE  TextSet(D, docs', u, t, b) /\ Publishes
<1>1. i \in Slot /\ D \in Table /\ Clean(E)
  BY DEF SlotFor, Updated, Clean
<1>2. Loaded(E, docs') /\ StatusTyped' /\ ccCached' = TRUE /\ gws' = build_workspace_snapshot(docs', ccStatus')
  BY <1>1, RevalidateSpec DEF Typed
<1>3. Updated(D, docs', i, u, t, b)
  BY <1>1, <1>2, UpdatedLoaded
<1> QED BY <1>1, <1>2, <1>3 DEF TextSet, Publishes

LEMMA DropAndPublish ==
  ASSUME Typed, NEW u \in Uri, NEW i \in Slot, docs[i].uri = u, Revalidate(doc_free(docs, i))
  PROVE  Dropped(docs, docs', u) /\ Publishes
<1>1. Clean(doc_free(docs, i))
  BY FreeFacts DEF Typed
<1>2. /\ Loaded(doc_free(docs, i), docs')
      /\ StatusTyped' /\ ccCached' = TRUE /\ gws' = build_workspace_snapshot(docs', ccStatus')
  BY <1>1, RevalidateSpec DEF Typed
<1> QED BY <1>2 DEF Dropped, Publishes

LEMMA OpenEffect ==
  ASSUME Typed, NEW u \in Uri, NEW t \in Text, handle_didopen(u, t)
  PROVE  /\ Publishes
         /\ \/ docs' = docs /\ \E i \in Slot : docs[i].uri = u /\ ~docs[i].disk_only
            \/ docs' = docs /\ ~Holds(docs, u) /\ Free(docs) = {}
            \/ Opened(docs, docs', u, t)
            \/ TextSet(docs, docs', u, t, FALSE)
<1> DEFINE i == doc_find(docs, u)
           new == doc_alloc(docs)
<1>0. Clean(docs) /\ docs \in Table /\ Nil \notin Uri /\ DiskTyped /\ CcTyped /\ StatusTyped
  BY WorkspaceAssumption DEF Typed, Clean
<1>1. /\ i # 0 => SlotFor(docs, i, u) /\ docs[i].uri = u /\ i \in Slot
      /\ i = 0 /\ new # 0 => SlotFor(docs, new, u)
      /\ i = 0 => ~Holds(docs, u)
      /\ new = 0 => Free(docs) = {}
  BY <1>0, SlotForFind
<1>2. /\ i # 0 /\ ~docs[i].disk_only => NoRevalidate
      /\ i # 0 /\ docs[i].disk_only /\ docs[i].text = t => Revalidate(Flagged(docs, i, FALSE))
      /\ i # 0 /\ docs[i].disk_only /\ docs[i].text # t => OpenAs(i, u, t)
      /\ i = 0 /\ new # 0 => OpenAs(new, u, t)
      /\ i = 0 /\ new = 0 => NoRevalidate
  BY DEF handle_didopen, Flagged
<1> HIDE DEF i, new
<1>3. ASSUME NEW k, SlotFor(docs, k, u), OpenAs(k, u, t)
      PROVE  TextSet(docs, docs', u, t, FALSE) /\ Publishes
  <2>1. Updated(docs, Reparse([Occupied(docs, k, u) EXCEPT ![k].disk_only = FALSE], k, t), k, u, t, FALSE)
    BY <1>0, <1>3, InstallSpec
  <2> QED BY <1>0, <1>3, <2>1, SetAndPublish DEF OpenAs
<1>4. CASE i # 0 /\ ~docs[i].disk_only
  BY <1>1, <1>2, <1>4 DEF NoRevalidate, Publishes
<1>5. CASE i # 0 /\ docs[i].disk_only /\ docs[i].text = t
  <2>1. i \in Slot /\ docs[i].uri # Nil /\ docs[i].uri = u
    BY <1>0, <1>1, <1>5
  <2>2. Clean(Flagged(docs, i, FALSE))
    BY <1>0, <2>1, FlagClean
  <2>3. /\ Loaded(Flagged(docs, i, FALSE), docs')
        /\ StatusTyped' /\ ccCached' = TRUE /\ gws' = build_workspace_snapshot(docs', ccStatus')
    BY <1>0, <1>2, <1>5, <2>2, RevalidateSpec
  <2> QED BY <1>5, <2>1, <2>3 DEF Opened, Publishes
<1>6. CASE i # 0 /\ docs[i].disk_only /\ docs[i].text # t
  BY <1>1, <1>2, <1>3, <1>6
<1>7. CASE i = 0 /\ new # 0
  BY <1>1, <1>2, <1>3, <1>7
<1>8. CASE i = 0 /\ new = 0
  BY <1>1, <1>2, <1>8 DEF NoRevalidate, Publishes
<1> QED BY <1>4, <1>5, <1>6, <1>7, <1>8

LEMMA ChangeEffect ==
  ASSUME Typed, NEW u \in Uri, NEW t, DidChange(u, t)
  PROVE  /\ Publishes
         /\ \/ docs' = docs /\ ~Holds(docs, u)
            \/ \E i \in Slot : \E x \in TextOf[u] :
                 /\ docs[i].uri = u /\ (docs[i].text = editor[u] => x = t)
                 /\ TextSet(docs, docs', u, x, docs[i].disk_only)
<1> DEFINE i == doc_find(docs, u)
<1>0. Clean(docs) /\ docs \in Table /\ DiskTyped /\ TextOf[u] \subseteq Text
  BY WorkspaceAssumption DEF Typed, Clean
<1>1. /\ i # 0 => SlotFor(docs, i, u) /\ docs[i].uri = u /\ i \in Slot
      /\ i = 0 => ~Holds(docs, u)
  BY <1>0, SlotForFind
<1>2. /\ i = 0 => NoRevalidate
      /\ i # 0 => \E x \in TextOf[u] : /\ docs[i].text = editor[u] => x = t
                                       /\ Revalidate(Reparse(docs, i, x))
  BY DEF DidChange
<1> HIDE DEF i
<1>3. CASE i = 0
  BY <1>1, <1>2, <1>3 DEF NoRevalidate, Publishes
<1>4. CASE i # 0
  <2>1. PICK x \in TextOf[u] : (docs[i].text = editor[u] => x = t) /\ Revalidate(Reparse(docs, i, x))
    BY <1>2, <1>4
  <2>2. Updated(docs, Reparse(docs, i, x), i, u, x, docs[i].disk_only)
    BY <1>0, <1>1, <1>4, ReparseSpec
  <2>3. TextSet(docs, docs', u, x, docs[i].disk_only) /\ Publishes
    BY <1>0, <1>1, <1>4, <2>1, <2>2, SetAndPublish
  <2> QED BY <1>1, <1>4, <2>1, <2>3
<1> QED BY <1>3, <1>4

LEMMA CloseEffect ==
  ASSUME Typed, NEW u \in Uri, DidClose(u)
  PROVE  /\ Publishes
         /\ \/ docs' = docs /\ ~Holds(docs, u)
            \/ disk[u] # Nil /\ TextSet(docs, docs', u, disk[u], TRUE)
            \/ disk[u] = Nil /\ Dropped(docs, docs', u)
<1> DEFINE i == doc_find(docs, u)
<1>0. Clean(docs) /\ docs \in Table /\ DiskTyped /\ (disk[u] # Nil => disk[u] \in Text)
  BY DEF Typed, Clean, DiskTyped
<1>1. /\ i # 0 => SlotFor(docs, i, u) /\ docs[i].uri = u /\ i \in Slot
      /\ i = 0 => ~Holds(docs, u)
  BY <1>0, SlotForFind
<1>2. /\ i = 0 => NoRevalidate
      /\ i # 0 => Revalidate(Closed(i, u))
  BY DEF DidClose
<1> HIDE DEF i
<1>3. CASE i = 0
  BY <1>1, <1>2, <1>3 DEF NoRevalidate, Publishes
<1>4. CASE i # 0 /\ disk[u] # Nil
  <2>1. Updated(docs, install_disk_text(docs, i, disk[u]), i, u, disk[u], TRUE)
    BY <1>0, <1>1, <1>4, InstallSpec
  <2>2. Revalidate(install_disk_text(docs, i, disk[u]))
    BY <1>2, <1>4 DEF Closed
  <2> QED BY <1>0, <1>1, <1>4, <2>1, <2>2, SetAndPublish
<1>5. CASE i # 0 /\ disk[u] = Nil
  <2>2. Revalidate(doc_free(docs, i))
    BY <1>2, <1>5 DEF Closed
  <2> QED BY <1>1, <1>5, <2>2, DropAndPublish
<1> QED BY <1>3, <1>4, <1>5

LEMMA ForgetEffect ==
  ASSUME Typed, NEW u \in Uri, forget_watched_file(u)
  PROVE  /\ Publishes
         /\ \/ docs' = docs /\ \A i \in Slot : docs[i].uri = u => ~docs[i].disk_only
            \/ Dropped(docs, docs', u) /\ \E i \in Slot : docs[i].uri = u /\ docs[i].disk_only
<1> DEFINE i == doc_find(docs, u)
<1>0. Clean(docs) /\ docs \in Table /\ u # Nil
  BY WorkspaceAssumption DEF Typed, Clean
<1>1. /\ i # 0 => docs[i].uri = u /\ i \in Slot
      /\ i = 0 => ~Holds(docs, u)
  BY <1>0, SlotForFind
<1>2. IF i # 0 /\ docs[i].disk_only THEN Revalidate(doc_free(docs, i)) ELSE NoRevalidate
  BY DEF forget_watched_file
<1> HIDE DEF i
<1>3. CASE i # 0 /\ docs[i].disk_only
  BY <1>1, <1>2, <1>3, DropAndPublish
<1>4. CASE ~(i # 0 /\ docs[i].disk_only)
  <2>1. NoRevalidate
    BY <1>2, <1>4
  <2>2. \A j \in Slot : docs[j].uri = u => ~docs[j].disk_only
    BY <1>0, <1>1, <1>4 DEF Holds, Clean
  <2> QED BY <2>1, <2>2 DEF NoRevalidate, Publishes
<1> QED BY <1>3, <1>4

LEMMA AdmitEffect ==
  ASSUME Typed, NEW u \in Uri, admit_watched_file(u)
  PROVE  /\ Publishes
         /\ \/ docs' = docs /\ \/ \E i \in Slot : docs[i].uri = u /\ ~docs[i].disk_only
                               \/ disk[u] = Nil
                               \/ ~Holds(docs, u) /\ Free(docs) = {}
            \/ /\ disk[u] # Nil /\ TextSet(docs, docs', u, disk[u], TRUE)
               /\ \A i \in Slot : docs[i].uri = u => docs[i].disk_only
<1> DEFINE i == doc_find(docs, u)
           k == IF i # 0 THEN i ELSE doc_alloc(docs)
<1>0. Clean(docs) /\ docs \in Table /\ DiskTyped /\ (disk[u] # Nil => disk[u] \in Text)
  BY DEF Typed, Clean, DiskTyped
<1>1. /\ i # 0 => docs[i].uri = u /\ i \in Slot
      /\ k # 0 => SlotFor(docs, k, u)
      /\ k = 0 => ~Holds(docs, u) /\ Free(docs) = {}
  BY <1>0, SlotForFind
<1>2. IF (i # 0 /\ ~docs[i].disk_only) \/ disk[u] = Nil \/ k = 0 THEN NoRevalidate
      ELSE Revalidate(install_disk_text(Occupied(docs, k, u), k, disk[u]))
  BY DEF admit_watched_file
<1> HIDE DEF i, k
<1>3. CASE (i # 0 /\ ~docs[i].disk_only) \/ disk[u] = Nil \/ k = 0
  <2>1. NoRevalidate
    BY <1>2, <1>3
  <2> QED BY <1>1, <1>3, <2>1 DEF NoRevalidate, Publishes
<1>4. CASE ~((i # 0 /\ ~docs[i].disk_only) \/ disk[u] = Nil \/ k = 0)
  <2>1. Revalidate(install_disk_text(Occupied(docs, k, u), k, disk[u]))
    BY <1>2, <1>4
  <2>2. Updated(docs, install_disk_text(Occupied(docs, k, u), k, disk[u]), k, u, disk[u], TRUE)
    BY <1>0, <1>1, <1>4, InstallSpec
  <2>3. \A j \in Slot : docs[j].uri = u => docs[j].disk_only
    <3>1. i = 0 => ~Holds(docs, u)
      BY <1>0, SlotForFind DEF i
    <3>2. u # Nil
      BY WorkspaceAssumption
    <3> QED BY <1>0, <1>1, <1>4, <3>1, <3>2 DEF Holds, Clean
  <2> QED BY <1>0, <1>1, <1>4, <2>1, <2>2, <2>3, SetAndPublish
<1> QED BY <1>3, <1>4

\* The table without the document that was renamed.
Without(D, F, o) == (F = D /\ ~Holds(D, o)) \/ \E i \in Slot : D[i].uri = o /\ F = doc_free(D, i)

LEMMA RenameEffect ==
  ASSUME Typed, NEW o \in Uri, NEW n \in Uri, handle_did_rename_files(o, n)
  PROVE  /\ Publishes
         /\ \E F : /\ Without(docs, F, o) /\ Clean(F)
                   /\ \/ (disk[n] = Nil \/ (~Holds(F, n) /\ Free(F) = {})) /\ Loaded(F, docs')
                      \/ disk[n] # Nil /\ TextSet(F, docs', n, disk[n], TRUE)
<1> DEFINE i == doc_find(docs, o)
           F == IF i = 0 THEN docs ELSE doc_free(docs, i)
           j == doc_find(F, n)
           k == IF j # 0 THEN j ELSE doc_alloc(F)
           installed == disk[n] # Nil /\ k # 0
<1>0. Clean(docs) /\ docs \in Table /\ DiskTyped /\ CcTyped /\ StatusTyped /\ (disk[n] # Nil => disk[n] \in Text)
  BY DEF Typed, Clean, DiskTyped
<1>1. /\ i # 0 => docs[i].uri = o /\ i \in Slot
      /\ i = 0 => ~Holds(docs, o)
  BY <1>0, SlotForFind
<1>2. /\ i = 0 /\ ~installed => NoRevalidate
      /\ i # 0 /\ ~installed => Revalidate(F)
      /\ installed => Revalidate(install_disk_text(Occupied(F, k, n), k, disk[n]))
  BY DEF handle_did_rename_files
<1> HIDE DEF i
<1>3. Without(docs, F, o) /\ Clean(F) /\ (i = 0 => F = docs)
  BY <1>0, <1>1, FreeFacts DEF Without
<1> HIDE DEF F
<1>4. /\ k # 0 => SlotFor(F, k, n)
      /\ k = 0 => ~Holds(F, n) /\ Free(F) = {}
  BY <1>3, SlotForFind
<1> HIDE DEF j, k
<1>5. CASE i = 0 /\ ~installed
  <2>1. NoRevalidate
    BY <1>2, <1>5
  <2>2. docs' = F /\ Loaded(F, docs')
    BY <1>3, <1>5, <2>1, GrownSelf DEF NoRevalidate, Loaded
  <2> QED BY <1>3, <1>4, <1>5, <2>1, <2>2 DEF Publishes
<1>6. CASE i # 0 /\ ~installed
  <2>1. Revalidate(F)
    BY <1>2, <1>6
  <2>2. /\ Loaded(F, docs')
        /\ StatusTyped' /\ ccCached' = TRUE /\ gws' = build_workspace_snapshot(docs', ccStatus')
    BY <1>0, <1>3, <2>1, RevalidateSpec
  <2> QED BY <1>3, <1>4, <1>6, <2>2 DEF Publishes
<1>7. CASE installed
  <2>1. Revalidate(install_disk_text(Occupied(F, k, n), k, disk[n]))
    BY <1>2, <1>7
  <2>2. Updated(F, install_disk_text(Occupied(F, k, n), k, disk[n]), k, n, disk[n], TRUE)
    BY <1>0, <1>3, <1>4, <1>7, InstallSpec
  <2>3. TextSet(F, docs', n, disk[n], TRUE) /\ Publishes
    BY <1>0, <1>3, <1>4, <1>7, <2>1, <2>2, SetAndPublish
  <2> QED BY <1>3, <1>7, <2>3
<1> QED BY <1>5, <1>6, <1>7

-----------------------------------------------------------------------------
(* The table is sound and published after every step.                      *)

Edges(D) == \A i \in Slot : D[i].uri # Nil => D[i].included = Targets(D[i].text)

LEMMA EdgesLoaded ==
  ASSUME NEW D, Edges(D), NEW E, Loaded(D, E)
  PROVE  Clean(E) /\ Edges(E)
BY SlotsFinite DEF Loaded, Grown, GrownBut, Edges, Background, Kept

LEMMA EdgesSet ==
  ASSUME NEW D, Edges(D), NEW E, NEW u, NEW t, NEW b, TextSet(D, E, u, t, b)
  PROVE  Clean(E) /\ Edges(E)
<1>1. PICK i \in Slot : Updated(D, E, i, u, t, b)
  BY DEF TextSet
<1> QED BY <1>1 DEF Updated, GrownBut, Edges, Background, Kept

LEMMA EdgesOpened ==
  ASSUME NEW D, Clean(D), Edges(D), NEW E, NEW u \in Uri, NEW t, Opened(D, E, u, t)
  PROVE  Clean(E) /\ Edges(E)
<1>1. PICK i \in Slot : D[i].uri = u /\ Loaded(Flagged(D, i, FALSE), E)
  BY DEF Opened
<1> DEFINE G == Flagged(D, i, FALSE)
<1>2. D \in Table
  BY DEF Clean
<1>3. /\ \A j \in Slot : j # i => G[j] = D[j]
      /\ G[i].uri = D[i].uri /\ G[i].text = D[i].text /\ G[i].included = D[i].included
  <2>1. \A b \in BOOLEAN : LET H == Flagged(D, i, b) IN
          /\ \A j \in Slot : j # i => H[j] = D[j]
          /\ H[i].uri = D[i].uri /\ H[i].text = D[i].text /\ H[i].included = D[i].included
    BY <1>2, FlaggedFacts
  <2> QED BY <2>1
<1> HIDE DEF G
<1>4. Edges(G)
  BY <1>3 DEF Edges
<1> QED BY <1>1, <1>4, EdgesLoaded DEF G

LEMMA EdgesWithout ==
  ASSUME NEW D, Clean(D), Edges(D), NEW F, NEW o, Without(D, F, o)
  PROVE  Edges(F)
<1>1. CASE F = D
  BY <1>1
<1>2. ASSUME NEW i \in Slot, F = doc_free(D, i) PROVE Edges(F)
  <2>1. F[i].uri = Nil /\ \A j \in Slot : j # i => F[j] = D[j]
    BY <1>2, FreeFacts
  <2> QED BY <2>1 DEF Edges
<1> QED BY <1>1, <1>2 DEF Without

LEMMA EdgesDropped ==
  ASSUME NEW D, Clean(D), Edges(D), NEW E, NEW u, Dropped(D, E, u)
  PROVE  Clean(E) /\ Edges(E)
<1>1. PICK i \in Slot : D[i].uri = u /\ Loaded(doc_free(D, i), E)
  BY DEF Dropped
<1>2. Edges(doc_free(D, i))
  BY <1>1, EdgesWithout DEF Without
<1> QED BY <1>1, <1>2, EdgesLoaded

FileEvents == [type : {"deleted", "changed", "renamed"}, uri : Uri, new : Uri \cup {Nil}]
EventsTyped ==
  /\ events \in Seq(FileEvents)
  /\ \A k \in 1 .. Len(events) : events[k].type = "renamed" => events[k].new \in Uri \ {events[k].uri}

\* The inductive invariant behind what is published.
Sound ==
  /\ Typed /\ Edges(docs) /\ EventsTyped
  /\ ccCached \in BOOLEAN /\ root \in BOOLEAN /\ editor \in [Uri -> Text \cup {Nil}]
  /\ phase # "ready" => gws = Nil /\ events = <<>> /\ \A i \in Slot : docs[i].uri = Nil
  /\ PublishedCurrent

LEMMA SoundInit == Init => Sound
<1> SUFFICES ASSUME Init PROVE Sound
  OBVIOUS
<1>1. \A i \in Slot : docs[i] = FreeSlot /\ docs[i].uri = Nil
  BY FreeSlotTyped DEF Init
<1>2. docs \in Table
  BY FreeSlotTyped DEF Init, Table
<1>3. Clean(docs) /\ Edges(docs)
  BY <1>1, <1>2 DEF Clean, Edges
<1>4. DiskTyped /\ CcTyped /\ StatusTyped
  BY WorkspaceAssumption DEF Init, DiskTyped, CcTyped, StatusTyped
<1>5. EventsTyped
  BY DEF Init, EventsTyped
<1> QED BY <1>1, <1>3, <1>4, <1>5 DEF Init, Sound, Typed, PublishedCurrent, Published

\* One event of the watcher.
LEMMA EventEffect ==
  ASSUME Sound, FileEvent, NEW e, e = events[1]
  PROVE  /\ phase = "ready" /\ events' = Tail(events) /\ Len(events) \in Nat \ {0} /\ events \in Seq(FileEvents)
         /\ e \in FileEvents /\ UNCHANGED <<phase, root, disk, cc, editor>>
         /\ e.type = "deleted" => forget_watched_file(e.uri)
         /\ e.type = "changed" => admit_watched_file(e.uri)
         /\ e.type = "renamed" => e.new \in Uri \ {e.uri} /\ handle_did_rename_files(e.uri, e.new)
<1>1. events \in Seq(FileEvents) /\ events # <<>>
  BY DEF Sound, EventsTyped, FileEvent
<1>2. Len(events) \in Nat \ {0} /\ Head(events) = events[1] /\ 1 \in 1 .. Len(events) /\ events[1] \in FileEvents
  BY <1>1, EmptySeq, LenProperties, HeadTailProperties, ElementOfSeq
<1>3. e.type \in {"deleted", "changed", "renamed"}
  BY <1>2 DEF FileEvents
<1>4. (CASE Head(events).type = "deleted" -> forget_watched_file(Head(events).uri)
        [] Head(events).type = "changed" -> admit_watched_file(Head(events).uri)
        [] Head(events).type = "renamed" -> handle_did_rename_files(Head(events).uri, Head(events).new))
  BY DEF FileEvent
<1>5. /\ e.type = "deleted" => forget_watched_file(e.uri)
      /\ e.type = "changed" => admit_watched_file(e.uri)
      /\ e.type = "renamed" => handle_did_rename_files(e.uri, e.new)
  BY <1>2, <1>4
<1>6. e.type = "renamed" => e.new \in Uri \ {e.uri}
  BY <1>2 DEF Sound, EventsTyped
<1> QED BY <1>1, <1>2, <1>5, <1>6 DEF FileEvent

LEMMA AfterHandler ==
  ASSUME Sound, Publishes, Clean(docs'), Edges(docs'), phase = "ready",
         UNCHANGED <<phase, root, disk, cc>>, EventsTyped', editor' \in [Uri -> Text \cup {Nil}]
  PROVE  Sound'
<1>1. StatusTyped' /\ ccCached' \in BOOLEAN /\ PublishedCurrent'
  BY DEF Publishes, NoRevalidate, Sound, Typed, StatusTyped, PublishedCurrent, Published
<1>2. DiskTyped' /\ CcTyped' /\ root' \in BOOLEAN
  BY DEF Sound, Typed, DiskTyped, CcTyped
<1> QED BY <1>1, <1>2 DEF Sound, Typed

LEMMA InitializeSound == ASSUME Sound, handle_initialize PROVE Sound'
BY DEF Sound, handle_initialize, Typed, EventsTyped, StatusTyped, DiskTyped, CcTyped, PublishedCurrent, Published

LEMMA InitializedEffect ==
  ASSUME Sound, handle_initialized
  PROVE  Loaded(docs, docs') /\ Sound'
<1> DEFINE r == reload_compile_commands(docs)
<1>1. Clean(docs) /\ DiskTyped /\ CcTyped /\ StatusTyped
  BY DEF Sound, Typed
<1>2. Loaded(docs, r.docs) /\ r.status \in {"OK", "MISSING", "MALFORMED"}
  BY <1>1, ReloadSpec
<1>3. /\ docs' = r.docs /\ ccStatus' = r.status /\ ccCached' = TRUE
      /\ gws' = IF root THEN build_workspace_snapshot(r.docs, r.status) ELSE gws
      /\ phase = "initialize" /\ phase' = "ready" /\ UNCHANGED <<root, disk, cc, editor, events>>
  BY DEF handle_initialized
<1> HIDE DEF r
<1>4. Loaded(docs, docs') /\ Clean(docs') /\ Edges(docs')
  BY <1>2, <1>3, EdgesLoaded DEF Sound
<1>5. gws = Nil
  BY <1>3 DEF Sound
<1>6. PublishedCurrent'
  BY <1>3, <1>5 DEF PublishedCurrent, Published
<1>7. StatusTyped' /\ DiskTyped' /\ CcTyped' /\ EventsTyped'
  BY <1>2, <1>3 DEF Sound, Typed, StatusTyped, DiskTyped, CcTyped, EventsTyped
<1>8. ccCached' \in BOOLEAN /\ root' \in BOOLEAN /\ editor' \in [Uri -> Text \cup {Nil}] /\ phase' = "ready"
  BY <1>3 DEF Sound
<1> QED BY <1>4, <1>6, <1>7, <1>8 DEF Sound, Typed

LEMMA TailTyped ==
  ASSUME EventsTyped, Len(events) \in Nat \ {0}, events' = Tail(events)
  PROVE  /\ EventsTyped' /\ Len(events') = Len(events) - 1
         /\ \A k \in 1 .. Len(events') : k + 1 \in 1 .. Len(events) /\ events'[k] = events[k + 1]
<1>1. events \in Seq(FileEvents) /\ events # <<>>
  BY EmptySeq DEF EventsTyped
<1>2. /\ Tail(events) \in Seq(FileEvents) /\ Len(Tail(events)) = Len(events) - 1
      /\ \A k \in 1 .. Len(Tail(events)) : Tail(events)[k] = events[k + 1]
  BY <1>1, HeadTailProperties
<1>3. \A k \in 1 .. Len(events') : k + 1 \in 1 .. Len(events) /\ events'[k] = events[k + 1]
  BY <1>2
<1> QED BY <1>2, <1>3 DEF EventsTyped

LEMMA EventSound == ASSUME Sound, FileEvent PROVE Sound'
<1> DEFINE e == events[1]
<1>1. /\ phase = "ready" /\ events' = Tail(events) /\ Len(events) \in Nat \ {0} /\ events \in Seq(FileEvents)
      /\ e \in FileEvents /\ UNCHANGED <<phase, root, disk, cc, editor>>
      /\ e.type = "deleted" => forget_watched_file(e.uri)
      /\ e.type = "changed" => admit_watched_file(e.uri)
      /\ e.type = "renamed" => e.new \in Uri \ {e.uri} /\ handle_did_rename_files(e.uri, e.new)
  BY EventEffect
<1>2. e.type \in {"deleted", "changed", "renamed"} /\ e.uri \in Uri
  BY <1>1 DEF FileEvents
<1> HIDE DEF e
<1>3. Typed /\ Clean(docs) /\ Edges(docs)
  BY DEF Sound, Typed
<1>4. Publishes /\ Clean(docs') /\ Edges(docs')
  <2>1. CASE e.type = "deleted"
    BY <1>1, <1>2, <1>3, <2>1, ForgetEffect, EdgesDropped
  <2>2. CASE e.type = "changed"
    BY <1>1, <1>2, <1>3, <2>2, AdmitEffect, EdgesSet
  <2>3. CASE e.type = "renamed"
    <3>1. Publishes
      BY <1>1, <1>2, <1>3, <2>3, RenameEffect
    <3>2. PICK F : /\ Without(docs, F, e.uri) /\ Clean(F)
                   /\ \/ Loaded(F, docs')
                      \/ TextSet(F, docs', e.new, disk[e.new], TRUE)
      BY <1>1, <1>2, <1>3, <2>3, RenameEffect
    <3>3. Edges(F)
      BY <1>3, <3>2, EdgesWithout
    <3> QED BY <3>1, <3>2, <3>3, EdgesLoaded, EdgesSet
  <2> QED BY <1>2, <2>1, <2>2, <2>3
<1>5. EventsTyped'
  BY <1>1, TailTyped DEF Sound
<1>6. editor' \in [Uri -> Text \cup {Nil}]
  BY <1>1 DEF Sound
<1> QED BY <1>1, <1>4, <1>5, <1>6, AfterHandler

\* An event of the environment.
LEMMA ChangesTyped ==
  ASSUME EventsTyped, NEW e \in FileEvents, e.type = "renamed" => e.new \in Uri \ {e.uri},
         events' = Append(events, e)
  PROVE  /\ EventsTyped' /\ Len(events') = Len(events) + 1 /\ events'[Len(events) + 1] = e
         /\ \A k \in 1 .. Len(events) : events'[k] = events[k]
<1>1. events \in Seq(FileEvents) /\ Len(events) \in Nat
  BY LenProperties DEF EventsTyped
<1>2. /\ Append(events, e) \in Seq(FileEvents) /\ Len(Append(events, e)) = Len(events) + 1
      /\ \A k \in 1 .. Len(events) : Append(events, e)[k] = events[k]
      /\ Append(events, e)[Len(events) + 1] = e
  BY <1>1, AppendProperties
<1>3. \A k \in 1 .. Len(events') : k \in 1 .. Len(events) \/ k = Len(events) + 1
  BY <1>1, <1>2
<1> QED BY <1>2, <1>3 DEF EventsTyped

LEMMA FileChangesSound ==
  ASSUME Sound, NEW kind, NEW d \in [Uri -> Text \cup {Nil}], NEW e \in FileEvents,
         e.type = "renamed" => e.new \in Uri \ {e.uri}, FileChanges(kind, d, e)
  PROVE  Sound'
<1>1. EventsTyped'
  BY ChangesTyped DEF FileChanges, Sound
<1> QED BY <1>1 DEF FileChanges, Sound, Typed, StatusTyped, DiskTyped, CcTyped, PublishedCurrent, Published

\* The three changes of files, as the watcher reports them.
LEMMA ChangeForms ==
  ASSUME disk \in [Uri -> Text \cup {Nil}]
  PROVE  /\ \A u \in Uri : \A t \in TextOf[u] : WriteFile(u, t) =>
              \E e \in FileEvents : \E d \in [Uri -> Text \cup {Nil}] :
                /\ e.type = "changed" /\ e.uri = u /\ FileChanges("write", d, e)
                /\ d[u] # Nil /\ \A v \in Uri : v # u => d[v] = disk[v]
         /\ \A u \in Uri : DeleteFile(u) =>
              \E e \in FileEvents : \E d \in [Uri -> Text \cup {Nil}] :
                /\ e.type = "deleted" /\ e.uri = u /\ FileChanges("delete", d, e)
                /\ d[u] = Nil /\ \A v \in Uri : v # u => d[v] = disk[v]
         /\ \A o, n \in Uri : RenameFile(o, n) =>
              \E e \in FileEvents : \E d \in [Uri -> Text \cup {Nil}] :
                /\ e.type = "renamed" /\ e.uri = o /\ e.new = n /\ n # o /\ FileChanges("rename", d, e)
                /\ d[o] = Nil /\ d[n] # Nil /\ \A v \in Uri : v \notin {o, n} => d[v] = disk[v]
<1>0. Nil \notin Text /\ \A u \in Uri : TextOf[u] \subseteq Text
  BY WorkspaceAssumption
<1>1. ASSUME NEW u \in Uri, NEW t \in TextOf[u], WriteFile(u, t)
      PROVE  \E e \in FileEvents : \E d \in [Uri -> Text \cup {Nil}] :
                /\ e.type = "changed" /\ e.uri = u /\ FileChanges("write", d, e)
                /\ d[u] # Nil /\ \A v \in Uri : v # u => d[v] = disk[v]
  <2> DEFINE e == Event("changed", u, Nil)
             d == [disk EXCEPT ![u] = t]
  <2>1. e \in FileEvents /\ e.type = "changed" /\ e.uri = u
    BY DEF Event, FileEvents
  <2>2. d \in [Uri -> Text \cup {Nil}] /\ d[u] # Nil /\ \A v \in Uri : v # u => d[v] = disk[v]
    BY <1>0
  <2>3. FileChanges("write", d, e)
    BY <1>1 DEF WriteFile
  <2> HIDE DEF e, d
  <2> QED BY <2>1, <2>2, <2>3
<1>2. ASSUME NEW u \in Uri, DeleteFile(u)
      PROVE  \E e \in FileEvents : \E d \in [Uri -> Text \cup {Nil}] :
                /\ e.type = "deleted" /\ e.uri = u /\ FileChanges("delete", d, e)
                /\ d[u] = Nil /\ \A v \in Uri : v # u => d[v] = disk[v]
  <2> DEFINE e == Event("deleted", u, Nil)
             d == [disk EXCEPT ![u] = Nil]
  <2>1. e \in FileEvents /\ e.type = "deleted" /\ e.uri = u
    BY DEF Event, FileEvents
  <2>2. d \in [Uri -> Text \cup {Nil}] /\ d[u] = Nil /\ \A v \in Uri : v # u => d[v] = disk[v]
    OBVIOUS
  <2>3. FileChanges("delete", d, e)
    BY <1>2 DEF DeleteFile
  <2> HIDE DEF e, d
  <2> QED BY <2>1, <2>2, <2>3
<1>3. ASSUME NEW o \in Uri, NEW n \in Uri, RenameFile(o, n)
      PROVE  \E e \in FileEvents : \E d \in [Uri -> Text \cup {Nil}] :
                /\ e.type = "renamed" /\ e.uri = o /\ e.new = n /\ n # o /\ FileChanges("rename", d, e)
                /\ d[o] = Nil /\ d[n] # Nil /\ \A v \in Uri : v \notin {o, n} => d[v] = disk[v]
  <2> DEFINE e == Event("renamed", o, n)
             d == [disk EXCEPT ![o] = Nil, ![n] = disk[o]]
  <2>1. e \in FileEvents /\ e.type = "renamed" /\ e.uri = o /\ e.new = n
    BY DEF Event, FileEvents
  <2>2. o # n /\ disk[o] # Nil
    BY <1>3 DEF RenameFile
  <2>3. d \in [Uri -> Text \cup {Nil}] /\ d[o] = Nil /\ d[n] # Nil /\ \A v \in Uri : v \notin {o, n} => d[v] = disk[v]
    BY <2>2
  <2>4. FileChanges("rename", d, e)
    BY <1>3 DEF RenameFile
  <2> HIDE DEF e, d
  <2> QED BY <2>1, <2>2, <2>3, <2>4
<1> QED BY <1>1, <1>2, <1>3

LEMMA SoundNext == Sound /\ [Next]_vars => Sound'
<1> SUFFICES ASSUME Sound, [Next]_vars PROVE Sound'
  OBVIOUS
<1>0. Typed /\ Clean(docs) /\ Edges(docs) /\ EventsTyped /\ disk \in [Uri -> Text \cup {Nil}] /\ CcTyped
  BY DEF Sound, Typed, DiskTyped
<1>1. CASE handle_initialize
  BY <1>1, InitializeSound
<1>2. CASE handle_initialized
  BY <1>2, InitializedEffect
<1>3. ASSUME NEW u \in Uri, NEW t \in TextOf[u], DidOpen(u, t) PROVE Sound'
  <2>0. t \in Text
    BY WorkspaceAssumption
  <2>1. /\ Publishes
        /\ docs' = docs \/ Opened(docs, docs', u, t) \/ TextSet(docs, docs', u, t, FALSE)
    BY <1>0, <1>3, <2>0, OpenEffect DEF DidOpen
  <2>2. Clean(docs') /\ Edges(docs')
    BY <1>0, <2>1, EdgesOpened, EdgesSet
  <2>3. phase = "ready" /\ UNCHANGED <<phase, root, disk, cc>> /\ EventsTyped' /\ editor' \in [Uri -> Text \cup {Nil}]
    BY <1>0, <1>3, <2>0 DEF DidOpen, EventsTyped, Sound
  <2> QED BY <2>1, <2>2, <2>3, AfterHandler
<1>4. ASSUME NEW u \in Uri, NEW t \in TextOf[u], DidChange(u, t) PROVE Sound'
  <2>0. t \in Text
    BY WorkspaceAssumption
  <2>1. /\ Publishes
        /\ docs' = docs \/ \E i \in Slot : \E x \in TextOf[u] : TextSet(docs, docs', u, x, docs[i].disk_only)
    BY <1>0, <1>4, ChangeEffect
  <2>2. Clean(docs') /\ Edges(docs')
    BY <1>0, <2>1, EdgesSet
  <2>3. phase = "ready" /\ UNCHANGED <<phase, root, disk, cc>> /\ EventsTyped' /\ editor' \in [Uri -> Text \cup {Nil}]
    BY <1>0, <1>4, <2>0 DEF DidChange, EventsTyped, Sound
  <2> QED BY <2>1, <2>2, <2>3, AfterHandler
<1>5. ASSUME NEW u \in Uri, DidClose(u) PROVE Sound'
  <2>1. /\ Publishes
        /\ docs' = docs \/ TextSet(docs, docs', u, disk[u], TRUE) \/ Dropped(docs, docs', u)
    BY <1>0, <1>5, CloseEffect
  <2>2. Clean(docs') /\ Edges(docs')
    BY <1>0, <2>1, EdgesSet, EdgesDropped
  <2>3. phase = "ready" /\ UNCHANGED <<phase, root, disk, cc>> /\ EventsTyped' /\ editor' \in [Uri -> Text \cup {Nil}]
    BY <1>0, <1>5 DEF DidClose, EventsTyped, Sound
  <2> QED BY <2>1, <2>2, <2>3, AfterHandler
<1>6. CASE FileEvent
  BY <1>6, EventSound
<1>7. ASSUME NEW u \in Uri, NEW t \in TextOf[u], WriteFile(u, t) PROVE Sound'
  <2>1. PICK e \in FileEvents : \E d \in [Uri -> Text \cup {Nil}] : e.type = "changed" /\ FileChanges("write", d, e)
    BY <1>0, <1>7, ChangeForms
  <2> QED BY <2>1, FileChangesSound
<1>8. ASSUME NEW u \in Uri, DeleteFile(u) PROVE Sound'
  <2>1. PICK e \in FileEvents : \E d \in [Uri -> Text \cup {Nil}] : e.type = "deleted" /\ FileChanges("delete", d, e)
    BY <1>0, <1>8, ChangeForms
  <2> QED BY <2>1, FileChangesSound
<1>9. ASSUME NEW o \in Uri, NEW n \in Uri, RenameFile(o, n) PROVE Sound'
  <2>1. PICK e \in FileEvents : \E d \in [Uri -> Text \cup {Nil}] :
          e.uri = o /\ e.new = n /\ n # o /\ FileChanges("rename", d, e)
    BY <1>0, <1>9, ChangeForms
  <2> QED BY <2>1, FileChangesSound
<1>10. ASSUME NEW kind, NEW c \in Seq(Uri) \cup {Malformed, Nil}, CcChanges(kind, c) PROVE Sound'
  <2>1. CcTyped' /\ UNCHANGED <<docs, gws, ccStatus, phase, root, disk, editor, events>> /\ ccCached' = FALSE
    BY <1>10 DEF CcChanges, CcTyped
  <2> QED BY <2>1 DEF Sound, Typed, StatusTyped, DiskTyped, EventsTyped, PublishedCurrent, Published
<1>11. \A c \in CcFiles \cup {Malformed, Nil} : c \in Seq(Uri) \cup {Malformed, Nil}
  BY WorkspaceAssumption
<1>12. CASE UNCHANGED vars
  BY <1>12 DEF vars, Sound, Typed, StatusTyped, DiskTyped, CcTyped, EventsTyped, PublishedCurrent, Published
<1> QED BY <1>1, <1>2, <1>3, <1>4, <1>5, <1>6, <1>7, <1>8, <1>9, <1>10, <1>11, <1>12 DEF Next

\* Whatever the editor, the disk and compile_commands.json do, and however small
\* docs[] is: no file has two slots and a slot not in use is zero (doc_alloc, doc_free),
\* included_uris[] are the directives of the stored text (follow_includes), and the
\* snapshot is the one that build_workspace_snapshot makes of the present docs[].
THEOREM WorkspaceInvariance == Spec => []Sound
<1> QED BY SoundInit, SoundNext, PTL DEF Spec

-----------------------------------------------------------------------------
(* Texts: every file fits in docs[], and renames and edits stay apart.     *)

DocsFit == IsFiniteSet(Uri) /\ Cardinality(Uri) <= MaxDocs
RenamesApart == ~({"edit", "rename"} \subseteq Env)

\* A full table has every file.
LEMMA FullHolds ==
  ASSUME DocsFit, NEW D, Clean(D), Free(D) = {}, NEW u \in Uri
  PROVE  Holds(D, u)
<1> SUFFICES ASSUME ~Holds(D, u) PROVE FALSE
  OBVIOUS
<1> DEFINE f == [i \in Slot |-> D[i].uri]
           V == Uri \ {u}
<1>1. \A i \in Slot : D[i].uri \in V
  <2>1. \A i \in Slot : D[i].uri \in Uri \cup {Nil} /\ D[i].uri # Nil
    BY FieldTypes DEF Free, Clean
  <2> QED BY <2>1 DEF Holds
<1>2. f \in [Slot -> V]
  BY <1>1
<1>3. \A i, j \in Slot : f[i] = f[j] => i = j
  BY DEF Clean, Free
<1>4. f \in Injection(Slot, V)
  BY <1>2, <1>3 DEF Injection, IsInjective
<1>5. IsFiniteSet(V) /\ Cardinality(V) = Cardinality(Uri) - 1 /\ Cardinality(Uri) \in Nat
  BY FS_RemoveElement, FS_CardinalityType DEF DocsFit
<1>6. Cardinality(Slot) <= Cardinality(V)
  <2> HIDE DEF f, V
  <2> QED BY <1>4, <1>5, SlotsFinite, FS_Injection
<1> QED BY <1>5, <1>6, SlotsFinite DEF DocsFit

\* The document of u is current: its text is the disk's unless it is open, and if
\* the file exists and a document includes it, it is tracked.
Settled(D, u) ==
  /\ \A i \in Slot : D[i].uri = u /\ D[i].disk_only => D[i].text = disk[u]
  /\ \A i \in Slot : D[i].uri # Nil /\ u \in ToSet(D[i].included) /\ disk[u] # Nil => Holds(D, u)

LEMMA PresentFits ==
  ASSUME DocsFit, NEW D, Clean(D), NEW u \in Uri, Present(D, u), disk[u] # Nil
  PROVE  Holds(D, u)
BY FullHolds DEF Present

LEMMA SettledLoaded ==
  ASSUME DocsFit, NEW D, Clean(D), NEW E, Loaded(D, E), NEW u \in Uri, Settled(D, u)
  PROVE  Settled(E, u)
<1>0. D \in Table /\ E \in Table /\ Clean(E) /\ Nil \notin Uri
  BY WorkspaceAssumption DEF Loaded, Clean
<1>1. \A j \in Slot :
        /\ D[j].uri # Nil => Kept(D[j], E[j]) /\ E[j].included = D[j].included
        /\ D[j].uri = Nil /\ E[j].uri # Nil =>
             Background(E[j]) /\ \A k \in DOMAIN E[j].included : Present(E, E[j].included[k])
  BY SlotsFinite DEF Loaded, Grown, GrownBut, Followed
<1>2. \A i \in Slot : E[i].uri = u /\ E[i].disk_only => E[i].text = disk[u]
  BY <1>0, <1>1 DEF Settled, Kept, Background
<1>3. ASSUME NEW i \in Slot, E[i].uri # Nil, u \in ToSet(E[i].included), disk[u] # Nil
      PROVE  Holds(E, u)
  <2>1. CASE D[i].uri # Nil
    <3>1. Holds(D, u)
      BY <1>1, <1>3, <2>1 DEF Settled
    <3> QED BY <1>0, <1>1, <3>1 DEF Holds, Kept
  <2>2. CASE D[i].uri = Nil
    <3>1. PICK k \in DOMAIN E[i].included : u = E[i].included[k]
      BY <1>3 DEF ToSet
    <3>2. Present(E, u)
      BY <1>1, <1>3, <2>2, <3>1
    <3> QED BY <1>0, <1>3, <3>2, PresentFits
  <2> QED BY <2>1, <2>2
<1> QED BY <1>2, <1>3 DEF Settled

LEMMA SettledSet ==
  ASSUME DocsFit, NEW D, Clean(D), NEW v \in Uri, NEW t \in Text, NEW b \in BOOLEAN, NEW E, TextSet(D, E, v, t, b),
         b => t = disk[v], NEW u \in Uri, u = v \/ Settled(D, u)
  PROVE  Settled(E, u)
<1>1. PICK i \in Slot : SlotFor(D, i, v) /\ Updated(D, E, i, v, t, b)
  BY DEF TextSet
<1>0. D \in Table /\ E \in Table /\ Clean(E) /\ Nil \notin Uri
  BY <1>1, WorkspaceAssumption DEF Updated, Clean
<1>2. \A j \in Slot \ {i} :
        /\ D[j].uri # Nil => Kept(D[j], E[j]) /\ E[j].included = D[j].included
        /\ D[j].uri = Nil /\ E[j].uri # Nil =>
             Background(E[j]) /\ \A k \in DOMAIN E[j].included : Present(E, E[j].included[k])
  BY <1>1 DEF Updated, GrownBut
<1>3. /\ E[i].uri = v /\ E[i].text = t /\ E[i].disk_only = b /\ E[i].included = Targets(t)
      /\ \A k \in DOMAIN Targets(t) : Present(E, Targets(t)[k])
  BY <1>1 DEF Updated
<1>4. ASSUME NEW j \in Slot, E[j].uri = u, E[j].disk_only PROVE E[j].text = disk[u]
  <2>1. CASE j = i
    BY <1>3, <1>4, <2>1
  <2>2. CASE j # i
    <3>1. u # v
      BY <1>0, <1>3, <1>4, <2>2 DEF Clean
    <3>2. Settled(D, u) /\ u # Nil
      BY <1>0, <3>1
    <3> QED BY <1>2, <1>4, <2>2, <3>2 DEF Settled, Kept, Background
  <2> QED BY <2>1, <2>2
<1>5. ASSUME NEW j \in Slot, E[j].uri # Nil, u \in ToSet(E[j].included), disk[u] # Nil
      PROVE  Holds(E, u)
  <2>0. CASE u = v
    BY <1>3, <2>0 DEF Holds
  <2>1. CASE u # v /\ j # i /\ D[j].uri # Nil
    <3>1. Holds(D, u)
      BY <1>2, <1>5, <2>1 DEF Settled
    <3>2. PICK m \in Slot : D[m].uri = u
      BY <3>1 DEF Holds
    <3>3. m # i /\ u # Nil
      BY <1>0, <1>1, <2>1, <3>2 DEF SlotFor
    <3> QED BY <1>2, <3>2, <3>3 DEF Holds, Kept
  <2>2. CASE u # v /\ (j = i \/ D[j].uri = Nil)
    <3>1. PICK k \in DOMAIN E[j].included : u = E[j].included[k]
      BY <1>5 DEF ToSet
    <3>2. Present(E, u)
      BY <1>2, <1>3, <1>5, <2>2, <3>1
    <3> QED BY <1>0, <1>5, <3>2, PresentFits
  <2> QED BY <2>0, <2>1, <2>2
<1> QED BY <1>4, <1>5 DEF Settled

LEMMA SettledWithout ==
  ASSUME NEW D, Clean(D), NEW o \in Uri, NEW F, Without(D, F, o), NEW u \in Uri,
         IF u = o THEN disk[o] = Nil ELSE Settled(D, u)
  PROVE  Settled(F, u)
<1>1. CASE F = D /\ ~Holds(D, o)
  BY <1>1 DEF Settled, Holds
<1>2. ASSUME NEW i \in Slot, D[i].uri = o, F = doc_free(D, i) PROVE Settled(F, u)
  <2>1. F[i].uri = Nil /\ (\A j \in Slot : j # i => F[j] = D[j]) /\ o # Nil /\ u # Nil
    BY <1>2, FreeFacts, WorkspaceAssumption
  <2>2. \A j \in Slot : j # i => D[j].uri # o
    BY <1>2, <2>1 DEF Clean
  <2>3. CASE u = o
    BY <2>1, <2>2, <2>3 DEF Settled, Holds
  <2>4. CASE u # o
    <3>1. Holds(D, u) => Holds(F, u)
      BY <1>2, <2>1, <2>4 DEF Holds
    <3> QED BY <2>1, <2>4, <3>1 DEF Settled
  <2> QED BY <2>3, <2>4
<1> QED BY <1>1, <1>2 DEF Without

LEMMA SettledOpened ==
  ASSUME DocsFit, NEW D, Clean(D), NEW v \in Uri, NEW t, NEW E, Opened(D, E, v, t), NEW u \in Uri, Settled(D, u)
  PROVE  Settled(E, u)
<1>1. PICK i \in Slot : D[i].uri = v /\ Loaded(Flagged(D, i, FALSE), E)
  BY DEF Opened
<1> DEFINE G == Flagged(D, i, FALSE)
<1>2. D \in Table /\ D[i].uri # Nil
  BY <1>1, WorkspaceAssumption DEF Clean
<1>3. /\ \A j \in Slot : j # i => G[j] = D[j]
      /\ G[i].uri = D[i].uri /\ G[i].disk_only = FALSE /\ G[i].included = D[i].included
  <2>1. \A b \in BOOLEAN : LET H == Flagged(D, i, b) IN
          /\ \A j \in Slot : j # i => H[j] = D[j]
          /\ H[i].uri = D[i].uri /\ H[i].disk_only = b /\ H[i].included = D[i].included
    BY <1>2, FlaggedFacts
  <2> QED BY <2>1
<1>4. Clean(G)
  BY <1>2, FlagClean
<1> HIDE DEF G
<1>5. Settled(G, u)
  BY <1>3 DEF Settled, Holds
<1> QED BY <1>1, <1>4, <1>5, SettledLoaded DEF G

\* The documents of the open buffers ed, and only they, are not disk-only; they
\* have the buffers' texts.
Buffers(D, ed) ==
  /\ \A i \in Slot : D[i].uri # Nil => (D[i].disk_only <=> ed[D[i].uri] = Nil)
  /\ \A i \in Slot : D[i].uri # Nil /\ ~D[i].disk_only => D[i].text = ed[D[i].uri]
  /\ \A u \in Uri : ed[u] # Nil => Holds(D, u)

LEMMA BuffersLoaded ==
  ASSUME NEW D, Clean(D), NEW E, Loaded(D, E), NEW ed, Buffers(D, ed)
  PROVE  Buffers(E, ed)
<1>0. D \in Table /\ E \in Table /\ Clean(E) /\ Nil \notin Uri
  BY WorkspaceAssumption DEF Loaded, Clean
<1>1. \A j \in Slot :
        /\ D[j].uri # Nil => Kept(D[j], E[j])
        /\ D[j].uri = Nil /\ E[j].uri # Nil => E[j].disk_only
  BY SlotsFinite DEF Loaded, Grown, GrownBut, Background
<1>2. ASSUME NEW j \in Slot, D[j].uri = Nil, E[j].uri # Nil PROVE E[j].disk_only /\ ed[E[j].uri] = Nil
  <2>1. E[j].uri \in Uri
    BY <1>0, <1>2, FieldTypes
  <2>2. ASSUME ed[E[j].uri] # Nil PROVE FALSE
    <3>1. PICK m \in Slot : D[m].uri = E[j].uri
      BY <2>1, <2>2 DEF Buffers, Holds
    <3>2. E[m].uri = E[j].uri /\ m # j
      BY <1>1, <1>2, <3>1 DEF Kept
    <3> QED BY <1>0, <1>2, <3>2 DEF Clean
  <2> QED BY <1>1, <1>2, <2>2
<1>3. \A u \in Uri : ed[u] # Nil => Holds(E, u)
  BY <1>0, <1>1 DEF Buffers, Holds, Kept
<1> QED BY <1>1, <1>2, <1>3 DEF Buffers, Kept

LEMMA BuffersSet ==
  ASSUME NEW D, Clean(D), NEW v \in Uri, NEW t, NEW b \in BOOLEAN, NEW E, TextSet(D, E, v, t, b),
         NEW ed, Buffers(D, ed), NEW new, \A u \in Uri \ {v} : new[u] = ed[u],
         b <=> new[v] = Nil, ~b => t = new[v]
  PROVE  Buffers(E, new)
<1>1. PICK i \in Slot : SlotFor(D, i, v) /\ Updated(D, E, i, v, t, b)
  BY DEF TextSet
<1>0. D \in Table /\ E \in Table /\ Clean(E) /\ Nil \notin Uri
  BY <1>1, WorkspaceAssumption DEF Updated, Clean
<1>2. \A j \in Slot \ {i} :
        /\ D[j].uri # Nil => Kept(D[j], E[j])
        /\ D[j].uri = Nil /\ E[j].uri # Nil => E[j].disk_only
  BY <1>1 DEF Updated, GrownBut, Background
<1>3. E[i].uri = v /\ E[i].text = t /\ E[i].disk_only = b
  BY <1>1 DEF Updated
<1>4. ASSUME NEW j \in Slot \ {i}, E[j].uri # Nil PROVE E[j].uri \in Uri \ {v}
  <2>1. E[j].uri \in Uri
    BY <1>0, <1>4, FieldTypes
  <2> QED BY <1>0, <1>3, <1>4, <2>1 DEF Clean
<1>5. \A u \in Uri \ {v} : new[u] # Nil => \E m \in Slot \ {i} : D[m].uri = u /\ E[m].uri = u
  <2> SUFFICES ASSUME NEW u \in Uri \ {v}, new[u] # Nil
               PROVE  \E m \in Slot \ {i} : D[m].uri = u /\ E[m].uri = u
    OBVIOUS
  <2>1. PICK m \in Slot : D[m].uri = u
    BY DEF Buffers, Holds
  <2>2. m # i /\ u # Nil
    BY <1>0, <1>1, <2>1 DEF SlotFor
  <2> QED BY <1>2, <2>1, <2>2 DEF Kept
<1>6. ASSUME NEW j \in Slot \ {i}, E[j].uri # Nil
      PROVE  (E[j].disk_only <=> new[E[j].uri] = Nil) /\ (~E[j].disk_only => E[j].text = new[E[j].uri])
  <2>1. E[j].uri \in Uri \ {v} /\ new[E[j].uri] = ed[E[j].uri]
    BY <1>4, <1>6
  <2>2. CASE D[j].uri # Nil
    BY <1>2, <2>1, <2>2 DEF Buffers, Kept
  <2>3. CASE D[j].uri = Nil
    <3>1. ASSUME new[E[j].uri] # Nil PROVE FALSE
      <4>1. PICK m \in Slot \ {i} : D[m].uri = E[j].uri /\ E[m].uri = E[j].uri
        BY <1>5, <2>1, <3>1
      <4> QED BY <1>0, <1>6, <2>3, <4>1 DEF Clean
    <3> QED BY <1>2, <1>6, <2>3, <3>1
  <2> QED BY <2>2, <2>3
<1>7. \A u \in Uri : new[u] # Nil => Holds(E, u)
  BY <1>3, <1>5 DEF Holds
<1>8. (E[i].disk_only <=> new[E[i].uri] = Nil) /\ (~E[i].disk_only => E[i].text = new[E[i].uri])
  BY <1>3
<1> QED BY <1>6, <1>7, <1>8 DEF Buffers

LEMMA BuffersOpened ==
  ASSUME NEW D, Clean(D), NEW v \in Uri, NEW t \in Text, NEW E, Opened(D, E, v, t),
         NEW ed, Buffers(D, ed), NEW new, \A u \in Uri \ {v} : new[u] = ed[u], new[v] = t
  PROVE  Buffers(E, new)
<1>1. PICK i \in Slot : D[i].uri = v /\ D[i].text = t /\ Loaded(Flagged(D, i, FALSE), E)
  BY DEF Opened
<1> DEFINE G == Flagged(D, i, FALSE)
<1>2. D \in Table /\ D[i].uri # Nil /\ Nil \notin Text
  BY <1>1, WorkspaceAssumption DEF Clean
<1>3. /\ \A j \in Slot : j # i => G[j] = D[j]
      /\ G[i].uri = D[i].uri /\ G[i].disk_only = FALSE /\ G[i].text = D[i].text
  <2>1. \A b \in BOOLEAN : LET H == Flagged(D, i, b) IN
          /\ \A j \in Slot : j # i => H[j] = D[j]
          /\ H[i].uri = D[i].uri /\ H[i].disk_only = b /\ H[i].text = D[i].text
    BY <1>2, FlaggedFacts
  <2> QED BY <2>1
<1>4. Clean(G)
  BY <1>2, FlagClean
<1> HIDE DEF G
<1>5. \A j \in Slot : j # i /\ D[j].uri # Nil => D[j].uri \in Uri \ {v}
  <2>1. \A j \in Slot : D[j].uri # Nil => D[j].uri \in Uri
    BY <1>2, FieldTypes
  <2> QED BY <1>1, <2>1 DEF Clean
<1>6. \A u \in Uri : new[u] # Nil => Holds(G, u)
  BY <1>1, <1>3 DEF Buffers, Holds
<1>7. \A j \in Slot : G[j].uri # Nil =>
        (G[j].disk_only <=> new[G[j].uri] = Nil) /\ (~G[j].disk_only => G[j].text = new[G[j].uri])
  <2> SUFFICES ASSUME NEW j \in Slot, G[j].uri # Nil
               PROVE  (G[j].disk_only <=> new[G[j].uri] = Nil) /\ (~G[j].disk_only => G[j].text = new[G[j].uri])
    OBVIOUS
  <2>1. CASE j = i
    BY <1>1, <1>2, <1>3, <2>1
  <2>2. CASE j # i
    BY <1>3, <1>5, <2>2 DEF Buffers
  <2> QED BY <2>1, <2>2
<1>8. Buffers(G, new)
  BY <1>6, <1>7 DEF Buffers
<1> QED BY <1>1, <1>4, <1>8, BuffersLoaded DEF G

LEMMA BuffersWithout ==
  ASSUME NEW D, Clean(D), NEW o \in Uri, NEW F, Without(D, F, o),
         NEW ed, Buffers(D, ed), NEW new, \A u \in Uri \ {o} : new[u] = ed[u], new[o] = Nil
  PROVE  Buffers(F, new)
<1>0. D \in Table /\ o # Nil /\ \A j \in Slot : D[j].uri # Nil => D[j].uri \in Uri
  BY FieldTypes, WorkspaceAssumption DEF Clean
<1>1. CASE F = D /\ ~Holds(D, o)
  BY <1>0, <1>1 DEF Buffers, Holds
<1>2. ASSUME NEW i \in Slot, D[i].uri = o, F = doc_free(D, i) PROVE Buffers(F, new)
  <2>1. F[i].uri = Nil /\ \A j \in Slot : j # i => F[j] = D[j]
    BY <1>2, FreeFacts
  <2>2. \A j \in Slot : j # i => D[j].uri # o
    BY <1>0, <1>2 DEF Clean
  <2>3. \A u \in Uri : new[u] # Nil => Holds(F, u)
    BY <1>2, <2>1 DEF Buffers, Holds
  <2> QED BY <1>0, <2>1, <2>2, <2>3 DEF Buffers
<1> QED BY <1>1, <1>2 DEF Without

\* A document that is dropped.
LEMMA DroppedIs ==
  ASSUME NEW D, Clean(D), NEW E, NEW u, Dropped(D, E, u)
  PROVE  \E F : Without(D, F, u) /\ Clean(F) /\ Loaded(F, E)
<1>1. PICK i \in Slot : D[i].uri = u /\ Loaded(doc_free(D, i), E)
  BY DEF Dropped
<1> QED BY <1>1, FreeFacts DEF Without

-----------------------------------------------------------------------------
(* Events and the disk.                                                    *)

Mentions(e) == IF e.type = "renamed" THEN {e.uri, e.new} ELSE {e.uri}
Removes(e, u) == e.type # "changed" /\ e.uri = u
Pending(es, u) == \E k \in 1 .. Len(es) : u \in Mentions(es[k])
LastFor(es, k, u) ==
  k \in 1 .. Len(es) /\ u \in Mentions(es[k]) /\ \A l \in 1 .. Len(es) : l > k => u \notin Mentions(es[l])

\* The last event about a file tells whether it exists.
EventsAgree(es, d) == \A u \in Uri : \A k \in 1 .. Len(es) : LastFor(es, k, u) => (d[u] = Nil <=> Removes(es[k], u))

\* The inductive invariant behind the texts, on top of Sound.
Fresh ==
  /\ Buffers(docs, editor)
  /\ phase # "ready" \/ "edit" \notin Env => \A u \in Uri : editor[u] = Nil
  /\ "rename" \notin Env => \A k \in 1 .. Len(events) : events[k].type # "renamed"
  /\ EventsAgree(events, disk)
  /\ \A u \in Uri : ~Pending(events, u) => Settled(docs, u)

\* A file changes and its event is on its way.
LEMMA ChangeFresh ==
  ASSUME Sound, Fresh, NEW kind, NEW d \in [Uri -> Text \cup {Nil}], NEW e \in FileEvents,
         e.type = "renamed" => e.new \in Uri \ {e.uri} /\ "rename" \in Env, FileChanges(kind, d, e),
         \A v \in Uri : v \notin Mentions(e) => d[v] = disk[v],
         \A v \in Uri : v \in Mentions(e) => (d[v] = Nil <=> Removes(e, v))
  PROVE  Fresh'
<1>1. /\ UNCHANGED <<docs, phase, editor>> /\ disk' = d /\ events' = Append(events, e)
  BY DEF FileChanges
<1>2. /\ Len(events') = Len(events) + 1 /\ events'[Len(events) + 1] = e
      /\ \A k \in 1 .. Len(events) : events'[k] = events[k]
  BY <1>1, ChangesTyped DEF Sound
<1>3. Len(events) \in Nat
  BY LenProperties DEF Sound, EventsTyped
<1>4. \A k \in 1 .. Len(events') : (k \in 1 .. Len(events) /\ events'[k] = events[k]) \/ (k = Len(events) + 1 /\ events'[k] = e)
  BY <1>2, <1>3
<1>5. \A k \in 1 .. Len(events) : k \in 1 .. Len(events') /\ Len(events) + 1 > k /\ Len(events) + 1 \in 1 .. Len(events')
  BY <1>2, <1>3
<1>6. EventsAgree(events', disk')
  <2> SUFFICES ASSUME NEW u \in Uri, NEW k \in 1 .. Len(events'), LastFor(events', k, u)
               PROVE  disk'[u] = Nil <=> Removes(events'[k], u)
    BY DEF EventsAgree
  <2>1. CASE k \in 1 .. Len(events)
    <3>1. u \notin Mentions(e)
      BY <1>2, <1>5, <2>1 DEF LastFor
    <3>2. LastFor(events, k, u)
      BY <1>2, <1>5, <2>1 DEF LastFor
    <3> QED BY <1>1, <1>2, <2>1, <3>1, <3>2 DEF Fresh, EventsAgree
  <2>2. CASE k = Len(events) + 1
    BY <1>1, <1>2, <2>2 DEF LastFor
  <2> QED BY <1>4, <2>1, <2>2
<1>7. ASSUME NEW u \in Uri, ~Pending(events', u) PROVE Settled(docs, u)'
  <2>0. Len(events) + 1 \in 1 .. Len(events')
    BY <1>2, <1>3
  <2>1. ~Pending(events, u) /\ u \notin Mentions(e)
    BY <1>2, <1>5, <1>7, <2>0 DEF Pending
  <2>2. disk'[u] = disk[u] /\ Settled(docs, u)
    BY <1>1, <2>1 DEF Fresh
  <2> QED BY <1>1, <2>2 DEF Settled
<1>8. "rename" \notin Env => \A k \in 1 .. Len(events') : events'[k].type # "renamed"
  BY <1>4 DEF Fresh
<1> QED BY <1>1, <1>6, <1>7, <1>8 DEF Fresh

\* Handling the oldest event, when the handler leaves the buffers and every file
\* that no later event is about as they should be.
LEMMA HandledFresh ==
  ASSUME Sound, Fresh, events' = Tail(events), Len(events) \in Nat \ {0}, UNCHANGED <<phase, disk, editor>>,
         Buffers(docs', editor),
         \A u \in Uri : (~Pending(events, u) \/ LastFor(events, 1, u)) => Settled(docs', u)
  PROVE  Fresh'
<1>1. /\ Len(events') = Len(events) - 1
      /\ \A k \in 1 .. Len(events') : k + 1 \in 1 .. Len(events) /\ events'[k] = events[k + 1]
  BY TailTyped DEF Sound
<1>2. \A k \in 1 .. Len(events) : k = 1 \/ (k - 1 \in 1 .. Len(events') /\ events'[k - 1] = events[k] /\ k > 1)
  BY <1>1
<1>3. EventsAgree(events', disk')
  <2> SUFFICES ASSUME NEW u \in Uri, NEW k \in 1 .. Len(events'), LastFor(events', k, u)
               PROVE  disk'[u] = Nil <=> Removes(events'[k], u)
    BY DEF EventsAgree
  <2>1. ASSUME NEW l \in 1 .. Len(events), l > k + 1 PROVE u \notin Mentions(events[l])
    <3>1. l - 1 \in 1 .. Len(events') /\ events'[l - 1] = events[l] /\ l - 1 > k
      BY <1>2, <2>1
    <3> QED BY <3>1 DEF LastFor
  <2>2. LastFor(events, k + 1, u)
    BY <1>1, <2>1 DEF LastFor
  <2> QED BY <1>1, <2>2 DEF Fresh, EventsAgree
<1>4. ASSUME NEW u \in Uri, ~Pending(events', u) PROVE Settled(docs', u)
  <2>1. \A k \in 1 .. Len(events) : k > 1 => u \notin Mentions(events[k])
    <3> SUFFICES ASSUME NEW k \in 1 .. Len(events), k > 1 PROVE u \notin Mentions(events[k])
      OBVIOUS
    <3>1. k # 1
      OBVIOUS
    <3>2. k - 1 \in 1 .. Len(events') /\ events'[k - 1] = events[k]
      BY <1>2, <3>1
    <3> QED BY <1>4, <3>2 DEF Pending
  <2>2. ~Pending(events, u) \/ LastFor(events, 1, u)
    <3>1. \A k \in 1 .. Len(events) : k = 1 \/ k > 1
      OBVIOUS
    <3> QED BY <2>1, <3>1 DEF Pending, LastFor
  <2> QED BY <2>2
<1>5. "rename" \notin Env => \A k \in 1 .. Len(events') : events'[k].type # "renamed"
  BY <1>1 DEF Fresh
<1>6. \A u \in Uri : ~Pending(events', u) => Settled(docs, u)'
  BY <1>4 DEF Settled
<1> QED BY <1>3, <1>5, <1>6 DEF Fresh

LEMMA FreshInit == Init => Fresh
<1> SUFFICES ASSUME Init PROVE Fresh
  OBVIOUS
<1>1. \A i \in Slot : docs[i].uri = Nil
  BY FreeSlotTyped DEF Init
<1>2. Len(events) = 0 /\ 1 .. 0 = {} /\ \A u \in Uri : editor[u] = Nil
  BY DEF Init
<1>3. Nil \notin Uri
  BY WorkspaceAssumption
<1> QED BY <1>1, <1>2, <1>3 DEF Fresh, Buffers, EventsAgree, Settled

\* A step of the server that answers the editor and leaves the events alone.
LEMMA AnsweredFresh ==
  ASSUME Fresh, UNCHANGED <<disk, events>>, phase' = "ready", Buffers(docs', editor'),
         "edit" \notin Env => \A u \in Uri : editor'[u] = Nil,
         \A u \in Uri : Settled(docs, u) => Settled(docs', u)
  PROVE  Fresh'
<1>1. \A u \in Uri : ~Pending(events', u) => Settled(docs, u)'
  BY DEF Fresh, Settled
<1> QED BY <1>1 DEF Fresh, EventsAgree

LEMMA DeletedFresh ==
  ASSUME DocsFit, Sound, Fresh, FileEvent, events[1].type = "deleted"
  PROVE  Fresh'
<1> DEFINE e == events[1]
           v == e.uri
<1>1. /\ events' = Tail(events) /\ Len(events) \in Nat \ {0}
      /\ e \in FileEvents /\ UNCHANGED <<phase, disk, editor>> /\ forget_watched_file(v)
  BY EventEffect
<1>2. v \in Uri /\ Typed /\ Clean(docs) /\ Buffers(docs, editor) /\ v # Nil
  BY <1>1, WorkspaceAssumption DEF FileEvents, Sound, Typed, Fresh
<1>3. \/ docs' = docs /\ \A i \in Slot : docs[i].uri = v => ~docs[i].disk_only
      \/ Dropped(docs, docs', v) /\ \E i \in Slot : docs[i].uri = v /\ docs[i].disk_only
  BY <1>1, <1>2, ForgetEffect
<1>4. \A u \in Uri : LastFor(events, 1, u) => u = v /\ disk[v] = Nil
  BY <1>1 DEF LastFor, Mentions, Fresh, EventsAgree, Removes
<1>5. CASE docs' = docs /\ \A i \in Slot : docs[i].uri = v => ~docs[i].disk_only
  <2>1. disk[v] = Nil => Settled(docs', v)
    BY <1>5 DEF Settled
  <2>2. \A u \in Uri : ~Pending(events, u) \/ LastFor(events, 1, u) => Settled(docs', u)
    BY <1>4, <1>5, <2>1 DEF Fresh
  <2> QED BY <1>1, <1>2, <1>5, <2>2, HandledFresh
<1>6. CASE Dropped(docs, docs', v) /\ \E i \in Slot : docs[i].uri = v /\ docs[i].disk_only
  <2>1. PICK F : Without(docs, F, v) /\ Clean(F) /\ Loaded(F, docs')
    BY <1>2, <1>6, DroppedIs
  <2>2. editor[v] = Nil
    BY <1>2, <1>6 DEF Buffers
  <2>3. Buffers(docs', editor)
    BY <1>2, <2>1, <2>2, BuffersWithout, BuffersLoaded
  <2>4. ASSUME NEW u \in Uri, ~Pending(events, u) \/ LastFor(events, 1, u) PROVE Settled(docs', u)
    <3>1. IF u = v THEN disk[v] = Nil ELSE Settled(docs, u)
      <4>1. CASE LastFor(events, 1, u)
        BY <1>4, <4>1
      <4>2. CASE ~Pending(events, u)
        <5>1. u # v
          BY <1>1, <4>2 DEF Pending, Mentions
        <5> QED BY <4>2, <5>1 DEF Fresh
      <4> QED BY <2>4, <4>1, <4>2
    <3>2. Settled(F, u)
      BY <1>2, <2>1, <3>1, SettledWithout
    <3> QED BY <2>1, <3>2, SettledLoaded
  <2> HIDE DEF e, v
  <2> QED BY <1>1, <2>3, <2>4, HandledFresh
<1> QED BY <1>3, <1>5, <1>6

LEMMA ChangedFresh ==
  ASSUME DocsFit, Sound, Fresh, FileEvent, events[1].type = "changed"
  PROVE  Fresh'
<1> DEFINE e == events[1]
           v == e.uri
<1>1. /\ events' = Tail(events) /\ Len(events) \in Nat \ {0}
      /\ e \in FileEvents /\ UNCHANGED <<phase, disk, editor>> /\ admit_watched_file(v)
  BY EventEffect
<1>2. v \in Uri /\ Typed /\ Clean(docs) /\ Buffers(docs, editor) /\ v # Nil /\ (disk[v] # Nil => disk[v] \in Text)
  BY <1>1, WorkspaceAssumption DEF FileEvents, Sound, Typed, Fresh, DiskTyped
<1>3. \/ docs' = docs /\ \/ \E i \in Slot : docs[i].uri = v /\ ~docs[i].disk_only
                         \/ disk[v] = Nil
                         \/ ~Holds(docs, v) /\ Free(docs) = {}
      \/ /\ disk[v] # Nil /\ TextSet(docs, docs', v, disk[v], TRUE)
         /\ \A i \in Slot : docs[i].uri = v => docs[i].disk_only
  BY <1>1, <1>2, AdmitEffect
<1>4. \A u \in Uri : LastFor(events, 1, u) => u = v /\ disk[v] # Nil
  BY <1>1 DEF LastFor, Mentions, Fresh, EventsAgree, Removes
<1> HIDE DEF e, v
<1>5. CASE docs' = docs /\ \E i \in Slot : docs[i].uri = v /\ ~docs[i].disk_only
  <2>1. Settled(docs', v)
    BY <1>2, <1>5 DEF Settled, Clean, Holds
  <2>2. \A u \in Uri : ~Pending(events, u) \/ LastFor(events, 1, u) => Settled(docs', u)
    BY <1>4, <1>5, <2>1 DEF Fresh
  <2> QED BY <1>1, <1>2, <1>5, <2>2, HandledFresh
<1>6. CASE docs' = docs /\ disk[v] = Nil
  <2>1. \A u \in Uri : ~Pending(events, u) \/ LastFor(events, 1, u) => Settled(docs', u)
    BY <1>4, <1>6 DEF Fresh
  <2> QED BY <1>1, <1>2, <1>6, <2>1, HandledFresh
<1>7. CASE ~Holds(docs, v) /\ Free(docs) = {}
  BY <1>2, <1>7, FullHolds
<1>8. CASE /\ disk[v] # Nil /\ TextSet(docs, docs', v, disk[v], TRUE)
           /\ \A i \in Slot : docs[i].uri = v => docs[i].disk_only
  <2>1. editor[v] = Nil
    BY <1>2, <1>8 DEF Buffers, Holds
  <2>2. Buffers(docs', editor)
    <3>1. \A b \in BOOLEAN : b = TRUE => Buffers(docs', editor)
      BY <1>2, <1>8, <2>1, BuffersSet
    <3> QED BY <3>1
  <2>3. ASSUME NEW u \in Uri, ~Pending(events, u) \/ LastFor(events, 1, u) PROVE Settled(docs', u)
    <3>1. u = v \/ Settled(docs, u)
      BY <1>4, <2>3 DEF Fresh
    <3>2. \A b \in BOOLEAN : b = TRUE => Settled(docs', u)
      BY <1>2, <1>8, <3>1, SettledSet
    <3> QED BY <3>2
  <2> QED BY <1>1, <2>2, <2>3, HandledFresh
<1> QED BY <1>3, <1>5, <1>6, <1>7, <1>8

LEMMA RenamedFresh ==
  ASSUME DocsFit, RenamesApart, Sound, Fresh, FileEvent, events[1].type = "renamed"
  PROVE  Fresh'
<1> DEFINE e == events[1]
           o == e.uri
           n == e.new
<1>1. /\ events' = Tail(events) /\ Len(events) \in Nat \ {0}
      /\ e \in FileEvents /\ UNCHANGED <<phase, disk, editor>>
      /\ n \in Uri \ {o} /\ handle_did_rename_files(o, n)
  BY EventEffect
<1>2. /\ o \in Uri /\ Typed /\ Clean(docs) /\ Buffers(docs, editor)
      /\ disk[n] # Nil => disk[n] \in Text
  BY <1>1 DEF FileEvents, Sound, Typed, Fresh, DiskTyped
<1>3. PICK F : /\ Without(docs, F, o) /\ Clean(F)
               /\ \/ (disk[n] = Nil \/ (~Holds(F, n) /\ Free(F) = {})) /\ Loaded(F, docs')
                  \/ disk[n] # Nil /\ TextSet(F, docs', n, disk[n], TRUE)
  BY <1>1, <1>2, RenameEffect
<1>4. \A u \in Uri : editor[u] = Nil
  <2>1. "rename" \in Env
    BY <1>1 DEF Fresh
  <2>2. "edit" \notin Env
    BY <2>1 DEF RenamesApart
  <2> QED BY <2>2 DEF Fresh
<1>5. \A u \in Uri : LastFor(events, 1, u) => (u = o /\ disk[o] = Nil) \/ (u = n /\ disk[n] # Nil)
  BY <1>1 DEF LastFor, Mentions, Fresh, EventsAgree, Removes
<1>6. \A u \in Uri : ~Pending(events, u) => u # o /\ u # n /\ Settled(docs, u)
  BY <1>1 DEF Pending, Mentions, Fresh
<1> HIDE DEF e, o, n
<1>7. Buffers(F, editor)
  BY <1>2, <1>3, <1>4, BuffersWithout
<1>8. \A u \in Uri \ {n} : ~Pending(events, u) \/ LastFor(events, 1, u) => Settled(F, u)
  BY <1>2, <1>3, <1>5, <1>6, SettledWithout
<1>9. CASE disk[n] = Nil /\ Loaded(F, docs')
  <2>1. Buffers(docs', editor)
    BY <1>3, <1>7, <1>9, BuffersLoaded
  <2>2. ASSUME NEW u \in Uri, ~Pending(events, u) \/ LastFor(events, 1, u) PROVE Settled(docs', u)
    <3>1. u # n
      BY <1>1, <1>5, <1>6, <1>9, <2>2
    <3> QED BY <1>3, <1>8, <1>9, <2>2, <3>1, SettledLoaded
  <2> QED BY <1>1, <2>1, <2>2, HandledFresh
<1>10. CASE ~Holds(F, n) /\ Free(F) = {}
  BY <1>1, <1>3, <1>10, FullHolds
<1>11. CASE disk[n] # Nil /\ TextSet(F, docs', n, disk[n], TRUE)
  <2>1. Buffers(docs', editor)
    <3>1. \A b \in BOOLEAN : b = TRUE => Buffers(docs', editor)
      BY <1>1, <1>3, <1>4, <1>7, <1>11, BuffersSet
    <3> QED BY <3>1
  <2>2. ASSUME NEW u \in Uri, ~Pending(events, u) \/ LastFor(events, 1, u) PROVE Settled(docs', u)
    <3>1. u = n \/ Settled(F, u)
      BY <1>8, <2>2
    <3>2. \A b \in BOOLEAN : b = TRUE => Settled(docs', u)
      BY <1>1, <1>2, <1>3, <1>11, <3>1, SettledSet
    <3> QED BY <3>2
  <2> QED BY <1>1, <2>1, <2>2, HandledFresh
<1> QED BY <1>3, <1>9, <1>10, <1>11

LEMMA OpenFresh ==
  ASSUME DocsFit, Sound, Fresh, NEW u \in Uri, NEW t \in TextOf[u], DidOpen(u, t)
  PROVE  Fresh'
<1>1. /\ phase' = "ready" /\ "edit" \in Env /\ editor[u] = Nil /\ editor' = [editor EXCEPT ![u] = t]
      /\ handle_didopen(u, t) /\ UNCHANGED <<disk, events>>
  BY DEF DidOpen
<1>2. /\ t \in Text /\ t # Nil /\ u # Nil /\ Typed /\ Clean(docs) /\ Buffers(docs, editor)
      /\ editor \in [Uri -> Text \cup {Nil}]
  BY WorkspaceAssumption DEF Sound, Typed, Fresh
<1>3. editor'[u] = t /\ \A v \in Uri \ {u} : editor'[v] = editor[v]
  BY <1>1, <1>2
<1>4. \/ \E i \in Slot : docs[i].uri = u /\ ~docs[i].disk_only
      \/ ~Holds(docs, u) /\ Free(docs) = {}
      \/ Opened(docs, docs', u, t)
      \/ TextSet(docs, docs', u, t, FALSE)
  BY <1>1, <1>2, OpenEffect
<1>5. CASE \E i \in Slot : docs[i].uri = u /\ ~docs[i].disk_only
  BY <1>1, <1>2, <1>5 DEF Buffers
<1>6. CASE ~Holds(docs, u) /\ Free(docs) = {}
  BY <1>2, <1>6, FullHolds
<1>7. CASE Opened(docs, docs', u, t)
  <2>1. Buffers(docs', editor')
    BY <1>2, <1>3, <1>7, BuffersOpened
  <2>2. \A v \in Uri : Settled(docs, v) => Settled(docs', v)
    BY <1>2, <1>7, SettledOpened
  <2> QED BY <1>1, <2>1, <2>2, AnsweredFresh
<1>8. CASE TextSet(docs, docs', u, t, FALSE)
  <2>1. \A b \in BOOLEAN : b = FALSE => Buffers(docs', editor') /\ \A v \in Uri : Settled(docs, v) => Settled(docs', v)
    <3> SUFFICES ASSUME NEW b \in BOOLEAN, b = FALSE
                 PROVE  Buffers(docs', editor') /\ \A v \in Uri : Settled(docs, v) => Settled(docs', v)
      OBVIOUS
    <3>1. TextSet(docs, docs', u, t, b)
      BY <1>8
    <3>2. Buffers(docs', editor')
      BY <1>2, <1>3, <3>1, BuffersSet
    <3>3. \A v \in Uri : Settled(docs, v) => Settled(docs', v)
      BY <1>2, <3>1, SettledSet
    <3> QED BY <3>2, <3>3
  <2>2. Buffers(docs', editor') /\ \A v \in Uri : Settled(docs, v) => Settled(docs', v)
    BY <2>1
  <2> QED BY <1>1, <2>2, AnsweredFresh
<1> QED BY <1>4, <1>5, <1>6, <1>7, <1>8

LEMMA EditFresh ==
  ASSUME DocsFit, Sound, Fresh, NEW u \in Uri, NEW t \in TextOf[u], DidChange(u, t)
  PROVE  Fresh'
<1>1. /\ phase' = "ready" /\ editor[u] # Nil /\ editor' = [editor EXCEPT ![u] = t] /\ UNCHANGED <<disk, events>>
  BY DEF DidChange
<1>2. /\ t \in Text /\ t # Nil /\ u # Nil /\ Typed /\ Clean(docs) /\ Buffers(docs, editor)
      /\ editor \in [Uri -> Text \cup {Nil}] /\ Holds(docs, u) /\ "edit" \in Env
  BY <1>1, WorkspaceAssumption DEF Sound, Typed, Fresh, Buffers
<1>3. editor'[u] = t /\ \A v \in Uri \ {u} : editor'[v] = editor[v]
  BY <1>1, <1>2
<1>4. PICK i \in Slot : \E x \in TextOf[u] :
                 /\ docs[i].uri = u /\ (docs[i].text = editor[u] => x = t)
                 /\ TextSet(docs, docs', u, x, docs[i].disk_only)
  BY <1>2, ChangeEffect
<1> DEFINE b == docs[i].disk_only
<1>5. ~b /\ b \in BOOLEAN /\ TextSet(docs, docs', u, t, b)
  <2>1. docs \in Table
    BY <1>2 DEF Clean
  <2> QED BY <1>1, <1>2, <1>4, <2>1, FieldTypes DEF Buffers
<1> HIDE DEF b
<1>6. Buffers(docs', editor')
  BY <1>2, <1>3, <1>5, BuffersSet
<1>7. \A v \in Uri : Settled(docs, v) => Settled(docs', v)
  BY <1>2, <1>5, SettledSet
<1> QED BY <1>1, <1>2, <1>6, <1>7, AnsweredFresh

LEMMA CloseFresh ==
  ASSUME DocsFit, Sound, Fresh, NEW u \in Uri, DidClose(u)
  PROVE  Fresh'
<1>1. /\ phase' = "ready" /\ editor[u] # Nil /\ editor' = [editor EXCEPT ![u] = Nil] /\ UNCHANGED <<disk, events>>
  BY DEF DidClose
<1>2. /\ Typed /\ Clean(docs) /\ Buffers(docs, editor) /\ (disk[u] # Nil => disk[u] \in Text)
      /\ editor \in [Uri -> Text \cup {Nil}] /\ Holds(docs, u) /\ "edit" \in Env
  BY <1>1 DEF Sound, Typed, Fresh, Buffers, DiskTyped
<1>3. editor'[u] = Nil /\ \A v \in Uri \ {u} : editor'[v] = editor[v]
  BY <1>1, <1>2
<1>4. \/ disk[u] # Nil /\ TextSet(docs, docs', u, disk[u], TRUE)
      \/ disk[u] = Nil /\ Dropped(docs, docs', u)
  BY <1>2, CloseEffect
<1>5. CASE disk[u] # Nil /\ TextSet(docs, docs', u, disk[u], TRUE)
  <2>1. \A b \in BOOLEAN : b = TRUE => Buffers(docs', editor') /\ \A v \in Uri : Settled(docs, v) => Settled(docs', v)
    <3> SUFFICES ASSUME NEW b \in BOOLEAN, b = TRUE
                 PROVE  Buffers(docs', editor') /\ \A v \in Uri : Settled(docs, v) => Settled(docs', v)
      OBVIOUS
    <3>1. TextSet(docs, docs', u, disk[u], b)
      BY <1>5
    <3>2. Buffers(docs', editor')
      <4>1. (b <=> editor'[u] = Nil) /\ (~b => disk[u] = editor'[u])
        BY <1>3
      <4>2. Clean(docs) /\ Buffers(docs, editor) /\ u \in Uri /\ b \in BOOLEAN
        BY <1>2
      <4>3. \A v \in Uri \ {u} : editor'[v] = editor[v]
        BY <1>3
      <4> QED BY ONLY <3>1, <4>1, <4>2, <4>3, BuffersSet
    <3>3. \A v \in Uri : Settled(docs, v) => Settled(docs', v)
      BY <1>2, <1>5, <3>1, SettledSet
    <3> QED BY <3>2, <3>3
  <2>2. Buffers(docs', editor') /\ \A v \in Uri : Settled(docs, v) => Settled(docs', v)
    BY <2>1
  <2> QED BY <1>1, <1>2, <2>2, AnsweredFresh
<1>6. CASE disk[u] = Nil /\ Dropped(docs, docs', u)
  <2>1. PICK F : Without(docs, F, u) /\ Clean(F) /\ Loaded(F, docs')
    BY <1>2, <1>6, DroppedIs
  <2>2. Buffers(docs', editor')
    BY <1>2, <1>3, <2>1, BuffersWithout, BuffersLoaded
  <2>3. \A v \in Uri : Settled(docs, v) => Settled(docs', v)
    BY <1>2, <1>6, <2>1, SettledWithout, SettledLoaded
  <2> QED BY <1>1, <1>2, <2>2, <2>3, AnsweredFresh
<1> QED BY <1>4, <1>5, <1>6

LEMMA FreshNext ==
  ASSUME DocsFit, RenamesApart
  PROVE  Sound /\ Fresh /\ [Next]_vars => Fresh'
<1> SUFFICES ASSUME Sound, Fresh, [Next]_vars PROVE Fresh'
  OBVIOUS
<1>0. disk \in [Uri -> Text \cup {Nil}] /\ EventsTyped
  BY DEF Sound, Typed, DiskTyped
<1>1. CASE handle_initialize
  <2>1. UNCHANGED <<docs, disk, editor, events>> /\ phase = "start"
    BY <1>1 DEF handle_initialize
  <2> QED BY <2>1 DEF Fresh, Settled
<1>2. CASE handle_initialized
  <2>1. Loaded(docs, docs') /\ UNCHANGED <<disk, editor, events>> /\ phase' = "ready" /\ phase # "ready"
    BY <1>2, InitializedEffect DEF handle_initialized
  <2>2. Clean(docs) /\ Buffers(docs, editor)
    BY DEF Sound, Typed, Fresh
  <2>3. Buffers(docs', editor')
    BY <2>1, <2>2, BuffersLoaded
  <2>4. \A v \in Uri : Settled(docs, v) => Settled(docs', v)
    BY <2>1, <2>2, SettledLoaded
  <2>5. \A v \in Uri : editor'[v] = Nil
    BY <2>1 DEF Fresh
  <2> QED BY <2>1, <2>3, <2>4, <2>5, AnsweredFresh
<1>3. ASSUME NEW u \in Uri, NEW t \in TextOf[u], DidOpen(u, t) PROVE Fresh'
  BY <1>3, OpenFresh
<1>4. ASSUME NEW u \in Uri, NEW t \in TextOf[u], DidChange(u, t) PROVE Fresh'
  BY <1>4, EditFresh
<1>5. ASSUME NEW u \in Uri, DidClose(u) PROVE Fresh'
  BY <1>5, CloseFresh
<1>6. CASE FileEvent
  <2>1. events[1].type \in {"deleted", "changed", "renamed"}
    BY <1>6, EventEffect DEF FileEvents
  <2> QED BY <1>6, <2>1, DeletedFresh, ChangedFresh, RenamedFresh
<1>7. ASSUME NEW u \in Uri, NEW t \in TextOf[u], WriteFile(u, t) PROVE Fresh'
  <2>1. PICK e \in FileEvents, d \in [Uri -> Text \cup {Nil}] :
                /\ e.type = "changed" /\ e.uri = u /\ FileChanges("write", d, e)
                /\ d[u] # Nil /\ \A v \in Uri : v # u => d[v] = disk[v]
    BY <1>0, <1>7, ChangeForms
  <2>2. Mentions(e) = {u} /\ \A v : ~Removes(e, v)
    BY <2>1 DEF Mentions, Removes
  <2> QED BY <2>1, <2>2, ChangeFresh
<1>8. ASSUME NEW u \in Uri, DeleteFile(u) PROVE Fresh'
  <2>1. PICK e \in FileEvents, d \in [Uri -> Text \cup {Nil}] :
                /\ e.type = "deleted" /\ e.uri = u /\ FileChanges("delete", d, e)
                /\ d[u] = Nil /\ \A v \in Uri : v # u => d[v] = disk[v]
    BY <1>0, <1>8, ChangeForms
  <2>2. Mentions(e) = {u} /\ Removes(e, u)
    BY <2>1 DEF Mentions, Removes
  <2> QED BY <2>1, <2>2, ChangeFresh
<1>9. ASSUME NEW o \in Uri, NEW n \in Uri, RenameFile(o, n) PROVE Fresh'
  <2>1. PICK e \in FileEvents, d \in [Uri -> Text \cup {Nil}] :
                /\ e.type = "renamed" /\ e.uri = o /\ e.new = n /\ n # o /\ FileChanges("rename", d, e)
                /\ d[o] = Nil /\ d[n] # Nil /\ \A v \in Uri : v \notin {o, n} => d[v] = disk[v]
    BY <1>0, <1>9, ChangeForms
  <2>2. Mentions(e) = {o, n} /\ Removes(e, o) /\ ~Removes(e, n) /\ "rename" \in Env
    BY <2>1 DEF Mentions, Removes, FileChanges
  <2> QED BY <2>1, <2>2, ChangeFresh
<1>10. ASSUME NEW kind, NEW c, CcChanges(kind, c) PROVE Fresh'
  <2>1. UNCHANGED <<docs, phase, disk, editor, events>>
    BY <1>10 DEF CcChanges
  <2> QED BY <2>1 DEF Fresh, Settled
<1>11. CASE UNCHANGED vars
  BY <1>11 DEF vars, Fresh, Settled
<1> QED BY <1>1, <1>2, <1>3, <1>4, <1>5, <1>6, <1>7, <1>8, <1>9, <1>10, <1>11 DEF Next

LEMMA FreshTexts ==
  ASSUME DocsFit, Sound, Fresh
  PROVE  TextsCurrent
<1>1. Clean(docs) /\ docs \in Table /\ Buffers(docs, editor)
  BY DEF Sound, Typed, Clean, Fresh
<1>2. TypeOK
  BY <1>1 DEF TypeOK, Sound, Typed, Clean, StatusTyped, DiskTyped
<1>3. UniqueUri
  BY <1>1 DEF UniqueUri, InUse, Clean
<1>4. EditorTextWins
  BY <1>1 DEF EditorTextWins, InUse, Buffers
<1>5. Quiet => \A u \in Uri : Settled(docs, u)
  BY DEF Quiet, Fresh, Pending
<1>6. \A i \in InUse(docs) : docs[i].uri \in Uri /\ i \in Slot /\ docs[i].included \in Seq(Uri)
  BY <1>1, FieldTypes DEF InUse
<1>7. DiskTextCurrent
  BY <1>5, <1>6 DEF DiskTextCurrent, Settled
<1>8. ClosureLoaded
  <2> SUFFICES ASSUME Quiet, NEW i \in InUse(docs), NEW u \in ToSet(docs[i].included), disk[u] # Nil
               PROVE  Tracked(u)
    BY DEF ClosureLoaded
  <2>1. u \in Uri /\ i \in Slot /\ docs[i].uri # Nil
    BY <1>6 DEF ToSet, InUse
  <2>2. Holds(docs, u) /\ u # Nil
    BY <1>5, <2>1, WorkspaceAssumption DEF Settled
  <2> QED BY <2>2 DEF Tracked, Holds, InUse
<1> QED BY <1>2, <1>3, <1>4, <1>7, <1>8 DEF TextsCurrent

\* Whatever the editor opens, changes and closes, whatever happens on disk and
\* however late the watcher's events arrive, docs[] has one entry per file, the
\* editor's text wins, background documents follow the disk once the events have been
\* handled, and included files are loaded (handle_didopen, handle_didchange,
\* handle_didclose, admit_watched_file, forget_watched_file, load_file_from_disk).
\* Two hypotheses: docs[] has a slot for every file, since doc_alloc drops documents
\* silently when it is full; and an editor that edits does not rename files, since
\* handle_did_rename_files puts the disk's text in the place of an open document's.
THEOREM TextsCurrentAlways ==
  ASSUME DocsFit, RenamesApart
  PROVE  Spec => []TextsCurrent
<1>1. Init => Sound /\ Fresh
  BY SoundInit, FreshInit
<1>2. Sound /\ Fresh /\ [Next]_vars => (Sound /\ Fresh)'
  BY SoundNext, FreshNext
<1>3. Sound /\ Fresh => TextsCurrent
  BY FreshTexts
<1> QED BY <1>1, <1>2, <1>3, PTL DEF Spec

-----------------------------------------------------------------------------
(* The include graph: a slot's successors and the search over them.        *)

Succ(D, i) == {j \in InUse(D) : D[j].uri \in ToSet(D[i].included)}

FrontStep(D, visited, acc, u) ==
  LET j == doc_find(D, u)
  IN  IF j = 0 \/ j \in ToSet(visited) \cup ToSet(acc) THEN acc ELSE Append(acc, j)

LEMMA FrontStepTyped ==
  ASSUME NEW D \in Table, NEW visited, NEW acc \in Seq(Slot), NEW u \in Uri
  PROVE  FrontStep(D, visited, acc, u) \in Seq(Slot)
<1> DEFINE j == doc_find(D, u)
<1>1. j \in Slot \cup {0}
  BY FindFacts
<1>2. FrontStep(D, visited, acc, u) = IF j = 0 \/ j \in ToSet(visited) \cup ToSet(acc) THEN acc ELSE Append(acc, j)
  BY DEF FrontStep
<1> HIDE DEF j
<1>3. j # 0 => Append(acc, j) \in Seq(Slot)
  BY <1>1
<1> QED BY <1>2, <1>3

\* The queue after each include.
FrontRun(f, D, visited, s) ==
  /\ f \in [0 .. Len(s) -> Seq(Slot)]
  /\ f[0] = <<>>
  /\ \A k \in 1 .. Len(s) : f[k] = FrontStep(D, visited, f[k - 1], s[k])

LEMMA FrontSteps ==
  ASSUME NEW D \in Table, NEW visited, NEW i \in Slot, NEW s, s = D[i].included
  PROVE  \E f : FrontRun(f, D, visited, s) /\ Frontier(D, i, visited) = f[Len(s)]
<1> DEFINE n == Len(s)
           Q == Seq(Slot)
           F == [k \in 1 .. n |-> [acc \in Q |-> FrontStep(D, visited, acc, s[k])]]
           Eqn(it) == it = [t \in SUBSET (1 .. n) |-> IF t = {} THEN <<>>
                              ELSE FrontStep(D, visited, it[t \ {Max(t)}], s[Max(t)])]
<1>0. s \in Seq(Uri) /\ <<>> \in Q
  BY FieldTypes
<1>1. n \in Nat /\ DOMAIN s = 1 .. n /\ \A k \in 1 .. n : s[k] \in Uri
  BY <1>0, LenProperties, ElementOfSeq
<1>2. F \in [1 .. n -> [Q -> Q]]
  BY <1>1, FrontStepTyped
<1> HIDE DEF n, F, Q
<1>3. PICK it \in [SUBSET (1 .. n) -> Q] : Folds(it, n, F, <<>>)
  BY <1>0, <1>1, <1>2, FoldExists
<1>4. Eqn(it)
  <2> SUFFICES ASSUME NEW t \in SUBSET (1 .. n), t # {}
               PROVE  F[Max(t)][it[t \ {Max(t)}]] = FrontStep(D, visited, it[t \ {Max(t)}], s[Max(t)])
    BY <1>3 DEF Folds
  <2>1. Max(t) \in 1 .. n /\ t \ {Max(t)} \in SUBSET (1 .. n)
    BY <1>1, MaxIn
  <2>2. it[t \ {Max(t)}] \in Q
    BY <2>1
  <2> QED BY <2>1, <2>2 DEF F
<1> DEFINE g == CHOOSE h : Eqn(h)
           f == [k \in 0 .. n |-> g[1 .. k]]
<1>5. Eqn(g)
  BY <1>4
<1>6. Frontier(D, i, visited) = g[1 .. n]
  BY <1>1 DEF Frontier, FrontStep, FoldLeft, MapThenFoldSet
<1> HIDE DEF g
<1>7. f[0] = <<>>
  <2>1. 1 .. 0 = {} /\ {} \in SUBSET (1 .. n) /\ 0 \in 0 .. n
    BY <1>1
  <2> QED BY <1>5, <2>1
<1>8. ASSUME NEW k \in 1 .. n PROVE f[k] = FrontStep(D, visited, f[k - 1], s[k])
  <2>1. /\ 1 .. k \in SUBSET (1 .. n) /\ 1 .. k # {} /\ Max(1 .. k) = k
        /\ (1 .. k) \ {k} = 1 .. (k - 1) /\ k - 1 \in 0 .. n /\ k \in 0 .. n
    BY <1>1, Interval
  <2>2. f[k - 1] = g[1 .. (k - 1)] /\ f[k] = g[1 .. k]
    BY <2>1
  <2>3. g[1 .. k] = FrontStep(D, visited, g[(1 .. k) \ {k}], s[k])
    BY <1>5, <2>1
  <2> QED BY <2>1, <2>2, <2>3
<1> DEFINE P == {k \in 0 .. n : f[k] \in Q}
<1>9. \A k \in 0 .. n : k \in P
  <2>1. 0 \in P
    BY <1>0, <1>1, <1>7
  <2>2. ASSUME NEW k \in 0 .. n - 1, k \in P PROVE k + 1 \in P
    <3>1. k + 1 \in 1 .. n /\ k + 1 \in 0 .. n /\ k + 1 - 1 = k /\ f[k] \in Q
      BY <1>1, <2>2
    <3> HIDE DEF f
    <3> QED BY <1>1, <1>8, <3>1, FrontStepTyped DEF Q
  <2> HIDE DEF P
  <2> QED BY <1>1, <2>1, <2>2, UpTo
<1>10. f \in [0 .. n -> Q] /\ f[n] = g[1 .. n]
  BY <1>1, <1>9
<1> HIDE DEF f
<1> QED BY <1>6, <1>7, <1>8, <1>10 DEF n, Q, FrontRun

Distinct(s) == \A k, l \in DOMAIN s : s[k] = s[l] => k = l

LEMMA AppendDistinct ==
  ASSUME NEW S, NEW s \in Seq(S), NEW x \in S
  PROVE  /\ Append(s, x) \in Seq(S)
         /\ ToSet(Append(s, x)) = ToSet(s) \cup {x}
         /\ Distinct(s) /\ x \notin ToSet(s) => Distinct(Append(s, x))
<1>1. /\ Append(s, x) \in Seq(S) /\ Len(Append(s, x)) = Len(s) + 1 /\ Append(s, x)[Len(s) + 1] = x
      /\ \A k \in 1 .. Len(s) : Append(s, x)[k] = s[k]
  BY AppendProperties
<1>2. DOMAIN s = 1 .. Len(s) /\ DOMAIN Append(s, x) = 1 .. Len(s) + 1 /\ Len(s) \in Nat
  BY <1>1, LenProperties
<1>3. /\ \A k \in 1 .. Len(s) + 1 : k \in 1 .. Len(s) \/ k = Len(s) + 1
      /\ \A k \in 1 .. Len(s) : k \in 1 .. Len(s) + 1
      /\ Len(s) + 1 \in 1 .. Len(s) + 1
  BY <1>2
<1>4. ToSet(Append(s, x)) = ToSet(s) \cup {x}
  BY <1>1, <1>2, <1>3 DEF ToSet
<1>5. ASSUME Distinct(s), x \notin ToSet(s) PROVE Distinct(Append(s, x))
  <2> SUFFICES ASSUME NEW k \in 1 .. Len(s) + 1, NEW l \in 1 .. Len(s) + 1, Append(s, x)[k] = Append(s, x)[l]
               PROVE  k = l
    BY <1>2 DEF Distinct
  <2>1. \A m \in 1 .. Len(s) : s[m] # x
    BY <1>2, <1>5 DEF ToSet
  <2> QED BY <1>1, <1>2, <1>3, <1>5, <2>1 DEF Distinct
<1> QED BY <1>1, <1>4, <1>5

\* Frontier() is what is reached next, each slot once.
LEMMA FrontierIs ==
  ASSUME NEW D, Clean(D), NEW visited, NEW i \in Slot
  PROVE  /\ Frontier(D, i, visited) \in Seq(Slot)
         /\ Distinct(Frontier(D, i, visited))
         /\ ToSet(Frontier(D, i, visited)) = Succ(D, i) \ ToSet(visited)
<1> DEFINE s == D[i].included
           n == Len(s)
           Found(k) == {j \in InUse(D) : \E m \in 1 .. k : D[j].uri = s[m]}
<1>0. D \in Table /\ s \in Seq(Uri) /\ n \in Nat /\ DOMAIN s = 1 .. n /\ \A k \in 1 .. n : s[k] \in Uri /\ s[k] # Nil
  <2>1. D \in Table /\ s \in Seq(Uri)
    BY FieldTypes DEF Clean
  <2> QED BY <2>1, LenProperties, ElementOfSeq, WorkspaceAssumption
<1>1. PICK f \in [0 .. n -> Seq(Slot)] :
           /\ f[0] = <<>>
           /\ \A k \in 1 .. n : f[k] = FrontStep(D, visited, f[k - 1], s[k])
           /\ Frontier(D, i, visited) = f[n]
  <2>1. s = D[i].included
    OBVIOUS
  <2> HIDE DEF s
  <2>2. PICK f : FrontRun(f, D, visited, s) /\ Frontier(D, i, visited) = f[Len(s)]
    BY <1>0, <2>1, FrontSteps
  <2> QED BY <2>2 DEF FrontRun
<1>2. Succ(D, i) = Found(n)
  BY <1>0 DEF Succ, ToSet
<1> HIDE DEF s, n
<1> DEFINE P == {k \in 0 .. n : Distinct(f[k]) /\ ToSet(f[k]) = Found(k) \ ToSet(visited)}
<1>3. 0 \in P
  <2>1. DOMAIN <<>> = {} /\ 1 .. 0 = {} /\ 0 \in 0 .. n
    BY <1>0
  <2>2. Distinct(<<>>) /\ ToSet(<<>>) = {} /\ Found(0) = {}
    BY <2>1 DEF Distinct, ToSet
  <2> QED BY <1>1, <2>1, <2>2
<1>4. ASSUME NEW k \in 0 .. n - 1, k \in P PROVE k + 1 \in P
  <2> DEFINE u == s[k + 1]
             j == doc_find(D, u)
             a == f[k]
  <2>1. /\ k + 1 \in 1 .. n /\ k + 1 \in 0 .. n /\ k + 1 - 1 = k /\ a \in Seq(Slot)
        /\ Distinct(a) /\ ToSet(a) = Found(k) \ ToSet(visited) /\ u \in Uri /\ u # Nil
        /\ \A m \in 1 .. k + 1 : m \in 1 .. k \/ m = k + 1
        /\ \A m \in 1 .. k : m \in 1 .. k + 1
    BY <1>0, <1>4
  <2>2. f[k + 1] = IF j = 0 \/ j \in ToSet(visited) \cup ToSet(a) THEN a ELSE Append(a, j)
    BY <1>1, <2>1 DEF FrontStep
  <2>3. Found(k + 1) = Found(k) \cup {m \in InUse(D) : D[m].uri = u}
    BY <2>1
  <2>4. {m \in InUse(D) : D[m].uri = u} = IF j = 0 THEN {} ELSE {j}
    <3>1. j = 0 => \A m \in Slot : D[m].uri # u
      BY <1>0, <2>1, FindFacts DEF Holds
    <3>2. j # 0 => j \in InUse(D) /\ D[j].uri = u
      BY <1>0, <2>1, FindFacts DEF InUse
    <3> QED BY <2>1, <3>1, <3>2 DEF InUse, Clean
  <2>5. j # 0 => j \in Slot
    BY <1>0, <2>1, FindFacts
  <2> HIDE DEF u, j, a, Found
  <2>6. Distinct(f[k + 1]) /\ ToSet(f[k + 1]) = Found(k + 1) \ ToSet(visited)
    <3>1. CASE j = 0 \/ j \in ToSet(visited) \cup ToSet(a)
      BY <2>1, <2>2, <2>3, <2>4, <3>1
    <3>2. CASE ~(j = 0 \/ j \in ToSet(visited) \cup ToSet(a))
      <4>1. f[k + 1] = Append(a, j) /\ j \in Slot
        BY <2>2, <2>5, <3>2
      <4>2. ToSet(Append(a, j)) = ToSet(a) \cup {j} /\ Distinct(Append(a, j))
        BY <2>1, <3>2, <4>1, AppendDistinct
      <4> QED BY <2>1, <2>3, <2>4, <3>2, <4>1, <4>2
    <3> QED BY <3>1, <3>2
  <2> QED BY <2>1, <2>6
<1> HIDE DEF P
<1>5. \A k \in 0 .. n : k \in P
  BY <1>0, <1>3, <1>4, UpTo
<1>6. n \in P /\ n \in 0 .. n
  BY <1>0, <1>5
<1> QED BY <1>1, <1>2, <1>6 DEF P

-----------------------------------------------------------------------------
(* project_populate_from_root().                                            *)

\* One round of project_populate_from_root().
Round(D, k, v) == IF k > Len(v) THEN v ELSE v \o Frontier(D, v[k], v)

LEMMA RoundFacts ==
  ASSUME NEW D, Clean(D), NEW k \in 1 .. MaxDocs, NEW v \in Seq(Slot), NEW w, w = Round(D, k, v)
  PROVE  /\ w \in Seq(Slot)
         /\ Distinct(v) => Distinct(w)
         /\ Len(w) >= Len(v) /\ \A l \in 1 .. Len(v) : w[l] = v[l]
         /\ ToSet(v) \subseteq ToSet(w)
         /\ k > Len(v) => w = v
         /\ k <= Len(v) => ToSet(w) = ToSet(v) \cup Succ(D, v[k])
<1>0. Len(v) \in Nat /\ DOMAIN v = 1 .. Len(v) /\ k \in Nat /\ MaxDocs \in Nat
  BY LenProperties, SlotsFinite
<1>1. CASE k > Len(v)
  <2>1. w = v /\ ~(k <= Len(v))
    BY <1>0, <1>1 DEF Round
  <2> QED BY <1>0, <1>1, <2>1
<1>2. CASE k <= Len(v)
  <2> DEFINE R == Frontier(D, v[k], v)
  <2>1. v[k] \in Slot /\ w = v \o R /\ ~(k > Len(v))
    <3>1. k \in 1 .. Len(v) /\ ~(k > Len(v))
      BY <1>0, <1>2
    <3> QED BY <3>1, ElementOfSeq DEF Round
  <2>2. R \in Seq(Slot) /\ Distinct(R) /\ ToSet(R) = Succ(D, v[k]) \ ToSet(v)
    BY <2>1, FrontierIs
  <2> HIDE DEF R
  <2>3. Len(R) \in Nat /\ DOMAIN R = 1 .. Len(R)
    BY <2>2, LenProperties
  <2>4. /\ w \in Seq(Slot) /\ Len(w) = Len(v) + Len(R)
        /\ \A l \in 1 .. Len(v) + Len(R) : w[l] = IF l <= Len(v) THEN v[l] ELSE R[l - Len(v)]
    BY <2>1, <2>2, ConcatProperties
  <2>5. DOMAIN w = 1 .. Len(v) + Len(R)
    BY <2>4, LenProperties
  <2>6. /\ \A l \in 1 .. Len(v) : l \in 1 .. Len(v) + Len(R) /\ w[l] = v[l]
        /\ \A l \in 1 .. Len(R) : Len(v) + l \in 1 .. Len(v) + Len(R) /\ w[Len(v) + l] = R[l]
    <3>1. \A l \in 1 .. Len(v) : l \in 1 .. Len(v) + Len(R) /\ l <= Len(v)
      BY <1>0, <2>3
    <3>2. \A l \in 1 .. Len(R) : /\ Len(v) + l \in 1 .. Len(v) + Len(R) /\ ~(Len(v) + l <= Len(v))
                                 /\ Len(v) + l - Len(v) = l
      BY <1>0, <2>3
    <3> QED BY <2>4, <3>1, <3>2
  <2>7. \A l \in 1 .. Len(v) + Len(R) : l \in 1 .. Len(v) \/ (l - Len(v) \in 1 .. Len(R) /\ ~(l <= Len(v)))
    BY <1>0, <2>3
  <2>8. ToSet(w) = ToSet(v) \cup ToSet(R)
    <3>1. ToSet(w) \subseteq ToSet(v) \cup ToSet(R)
      BY <1>0, <2>3, <2>4, <2>5, <2>6, <2>7 DEF ToSet
    <3>2. ToSet(v) \subseteq ToSet(w) /\ ToSet(R) \subseteq ToSet(w)
      BY <1>0, <2>3, <2>5, <2>6 DEF ToSet
    <3> QED BY <3>1, <3>2
  <2>9. ASSUME Distinct(v) PROVE Distinct(w)
    <3>1. \A l \in 1 .. Len(v) : \A m \in 1 .. Len(R) : v[l] # R[m]
      <4>1. ToSet(v) \cap ToSet(R) = {}
        BY <2>2
      <4> QED BY <1>0, <2>3, <4>1 DEF ToSet
    <3> SUFFICES ASSUME NEW l \in 1 .. Len(v) + Len(R), NEW m \in 1 .. Len(v) + Len(R), w[l] = w[m]
                 PROVE  l = m
      BY <2>5 DEF Distinct
    <3>2. CASE l <= Len(v) /\ m <= Len(v)
      <4>1. l \in 1 .. Len(v) /\ m \in 1 .. Len(v) /\ v[l] = v[m]
        BY <1>0, <2>3, <2>6, <3>2
      <4> QED BY <1>0, <2>9, <4>1 DEF Distinct
    <3>3. CASE ~(l <= Len(v)) /\ ~(m <= Len(v))
      <4>1. l - Len(v) \in 1 .. Len(R) /\ m - Len(v) \in 1 .. Len(R)
        BY <1>0, <2>3, <3>3
      <4>2. R[l - Len(v)] = R[m - Len(v)]
        BY <2>4, <3>3
      <4>3. l - Len(v) = m - Len(v)
        BY <2>2, <2>3, <4>1, <4>2 DEF Distinct
      <4> QED BY <1>0, <2>3, <4>3
    <3>4. CASE l <= Len(v) /\ ~(m <= Len(v))
      <4>1. l \in 1 .. Len(v) /\ m - Len(v) \in 1 .. Len(R)
        BY <1>0, <2>3, <3>4
      <4>2. v[l] = R[m - Len(v)]
        BY <2>4, <3>4
      <4> QED BY <3>1, <4>1, <4>2
    <3>5. CASE ~(l <= Len(v)) /\ m <= Len(v)
      <4>1. m \in 1 .. Len(v) /\ l - Len(v) \in 1 .. Len(R)
        BY <1>0, <2>3, <3>5
      <4>2. v[m] = R[l - Len(v)]
        BY <2>4, <3>5
      <4> QED BY <3>1, <4>1, <4>2
    <3> QED BY <3>2, <3>3, <3>4, <3>5
  <2>10. Len(w) >= Len(v)
    BY <1>0, <2>3, <2>4
  <2> QED BY <2>1, <2>2, <2>4, <2>6, <2>8, <2>9, <2>10
<1> QED BY <1>0, <1>1, <1>2

\* The search round by round.
BfsRun(f, D, r) ==
  /\ f \in [0 .. MaxDocs -> Seq(Slot)]
  /\ f[0] = <<r>>
  /\ \A k \in 1 .. MaxDocs : f[k] = Round(D, k, f[k - 1])

LEMMA BfsSteps ==
  ASSUME NEW D, Clean(D), NEW r \in Slot
  PROVE  \E f : BfsRun(f, D, r) /\ Bfs(D, r) = f[MaxDocs]
<1> DEFINE Q == Seq(Slot)
           b == <<r>>
           F == [k \in 1 .. MaxDocs |-> [v \in Q |-> Round(D, k, v)]]
           Eqn(h) == h = [k \in 0 .. MaxDocs |-> IF k = 0 THEN <<r>> ELSE Round(D, k, h[k - 1])]
<1>1. b \in Q /\ MaxDocs \in Nat
  BY SlotsFinite
<1>2. F \in [1 .. MaxDocs -> [Q -> Q]]
  BY RoundFacts
<1> HIDE DEF F, b, Q
<1>3. PICK f \in [0 .. MaxDocs -> Q] : Chain(f, MaxDocs, F, b)
  BY <1>1, <1>2, ChainExists
<1>4. Eqn(f)
  <2> SUFFICES ASSUME NEW k \in 0 .. MaxDocs PROVE f[k] = IF k = 0 THEN <<r>> ELSE Round(D, k, f[k - 1])
    OBVIOUS
  <2>1. CASE k = 0
    BY <1>3, <2>1 DEF Chain, b
  <2>2. CASE k # 0
    <3>1. k \in 1 .. MaxDocs /\ k - 1 \in 0 .. MaxDocs
      BY <1>1, <2>2
    <3>2. f[k] = F[k][f[k - 1]] /\ f[k - 1] \in Q
      BY <1>3, <2>2, <3>1 DEF Chain
    <3> QED BY <2>2, <3>1, <3>2 DEF F
  <2> QED BY <2>1, <2>2
<1> DEFINE g == CHOOSE h : Eqn(h)
<1>5. Eqn(g)
  BY <1>4
<1>6. Bfs(D, r) = g[MaxDocs]
  BY DEF Bfs, Round
<1> HIDE DEF g
<1>7. \A k \in 0 .. MaxDocs : g[k] = IF k = 0 THEN <<r>> ELSE Round(D, k, g[k - 1])
  BY <1>5
<1>8. g[0] = b /\ \A k \in 1 .. MaxDocs : k \in 0 .. MaxDocs /\ k # 0 /\ g[k] = Round(D, k, g[k - 1])
  BY <1>1, <1>7 DEF b
<1> DEFINE P == {k \in 0 .. MaxDocs : g[k] \in Q}
<1>9. \A k \in 0 .. MaxDocs : k \in P
  <2>1. 0 \in P
    BY <1>1, <1>8
  <2>2. ASSUME NEW k \in 0 .. MaxDocs - 1, k \in P PROVE k + 1 \in P
    <3>1. k + 1 \in 1 .. MaxDocs /\ k + 1 \in 0 .. MaxDocs /\ k + 1 - 1 = k /\ g[k] \in Q
      BY <1>1, <2>2
    <3>2. g[k + 1] = Round(D, k + 1, g[k])
      BY <1>8, <3>1
    <3> QED BY <3>1, <3>2, RoundFacts DEF Q
  <2> HIDE DEF P
  <2> QED BY <1>1, <2>1, <2>2, UpTo
<1>10. g \in [0 .. MaxDocs -> Q]
  BY <1>5, <1>9
<1>11. BfsRun(g, D, r)
  BY <1>8, <1>10 DEF BfsRun, Q, b
<1> QED BY <1>6, <1>11

\* A set of slots that contains its successors.
ClosedIn(D, S) == \A i \in S : Succ(D, i) \subseteq S

LEMMA ReachIs ==
  ASSUME NEW D, NEW r
  PROVE  Reach(D, r) = {i \in InUse(D) : \A S \in SUBSET InUse(D) : r \in S /\ ClosedIn(D, S) => i \in S}
BY DEF Reach, ClosedIn, Succ

\* project_populate_from_root() copies what the root reaches, each document once.
LEMMA BfsReaches ==
  ASSUME NEW D, Clean(D), NEW r \in InUse(D)
  PROVE  Bfs(D, r) \in Seq(Slot) /\ Distinct(Bfs(D, r)) /\ ToSet(Bfs(D, r)) = Reach(D, r)
<1>0. r \in Slot /\ InUse(D) \subseteq Slot /\ MaxDocs \in Nat
  BY SlotsFinite DEF InUse
<1>1. PICK f : BfsRun(f, D, r) /\ Bfs(D, r) = f[MaxDocs]
  BY <1>0, BfsSteps
<1> DEFINE Inv(k) ==
             /\ Distinct(f[k]) /\ r \in ToSet(f[k])
             /\ \A l \in 1 .. k : l <= Len(f[k]) => Succ(D, f[k][l]) \subseteq ToSet(f[k])
             /\ ToSet(f[k]) \subseteq InUse(D)
             /\ \A S \in SUBSET InUse(D) : r \in S /\ ClosedIn(D, S) => ToSet(f[k]) \subseteq S
           P == {k \in 0 .. MaxDocs : Inv(k)}
<1>2. 0 \in P
  <2>1. f[0] = <<r>> /\ 0 \in 0 .. MaxDocs /\ 1 .. 0 = {}
    BY <1>0, <1>1 DEF BfsRun
  <2>2. ToSet(<<r>>) = {r} /\ Distinct(<<r>>)
    BY DEF ToSet, Distinct
  <2> QED BY <2>1, <2>2
<1>3. ASSUME NEW k \in 0 .. MaxDocs - 1, k \in P PROVE k + 1 \in P
  <2> DEFINE v == f[k]
             w == f[k + 1]
  <2>1. k + 1 \in 1 .. MaxDocs /\ k + 1 \in 0 .. MaxDocs /\ k + 1 - 1 = k /\ k \in 0 .. MaxDocs /\ k \in Nat
    BY <1>0
  <2>2. v \in Seq(Slot) /\ w = Round(D, k + 1, v)
    BY <1>1, <2>1 DEF BfsRun
  <2>3. /\ Distinct(v) /\ r \in ToSet(v)
        /\ \A l \in 1 .. k : l <= Len(v) => Succ(D, v[l]) \subseteq ToSet(v)
        /\ ToSet(v) \subseteq InUse(D)
        /\ \A S \in SUBSET InUse(D) : r \in S /\ ClosedIn(D, S) => ToSet(v) \subseteq S
    BY <1>3
  <2> HIDE DEF v, w
  <2>4. /\ w \in Seq(Slot) /\ Distinct(w) /\ ToSet(v) \subseteq ToSet(w)
        /\ Len(w) >= Len(v) /\ \A l \in 1 .. Len(v) : w[l] = v[l]
        /\ k + 1 > Len(v) => w = v
        /\ k + 1 <= Len(v) => ToSet(w) = ToSet(v) \cup Succ(D, v[k + 1])
    BY <2>1, <2>2, <2>3, RoundFacts
  <2>5. Len(v) \in Nat /\ DOMAIN v = 1 .. Len(v) /\ Len(w) \in Nat
    BY <2>2, <2>4, LenProperties
  <2>6. \A l \in 1 .. k + 1 : l \in 1 .. k \/ l = k + 1
    BY <2>1
  <2>7. CASE k + 1 > Len(v)
    <3>1. w = v /\ ~(k + 1 <= Len(v))
      BY <2>1, <2>4, <2>5, <2>7
    <3>2. \A l \in 1 .. k + 1 : l <= Len(w) => Succ(D, w[l]) \subseteq ToSet(w)
      BY <2>3, <2>6, <3>1
    <3> QED BY <2>1, <2>3, <3>1, <3>2 DEF v, w
  <2>8. CASE k + 1 <= Len(v)
    <3>1. ToSet(w) = ToSet(v) \cup Succ(D, v[k + 1]) /\ k + 1 \in 1 .. Len(v) /\ v[k + 1] \in ToSet(v)
      BY <2>1, <2>4, <2>5, <2>8 DEF ToSet
    <3>2. ToSet(w) \subseteq InUse(D)
      BY <2>3, <3>1 DEF Succ
    <3>3. \A S \in SUBSET InUse(D) : r \in S /\ ClosedIn(D, S) => ToSet(w) \subseteq S
      BY <2>3, <3>1 DEF ClosedIn
    <3>4. ASSUME NEW l \in 1 .. k + 1, l <= Len(w) PROVE Succ(D, w[l]) \subseteq ToSet(w)
      <4>1. l \in 1 .. Len(v) /\ l <= Len(v) /\ w[l] = v[l]
        BY <2>1, <2>4, <2>5, <2>8
      <4> QED BY <2>3, <2>6, <3>1, <4>1
    <3> QED BY <2>1, <2>3, <2>4, <3>2, <3>3, <3>4 DEF w
  <2> QED BY <2>1, <2>5, <2>7, <2>8
<1> HIDE DEF P
<1>4. \A k \in 0 .. MaxDocs : k \in P
  BY <1>0, <1>2, <1>3, UpTo
<1> DEFINE v == f[MaxDocs]
<1>5. v \in Seq(Slot) /\ Inv(MaxDocs)
  BY <1>0, <1>1, <1>4 DEF P, BfsRun
<1>6. Len(v) \in Nat /\ DOMAIN v = 1 .. Len(v)
  BY <1>5, LenProperties
<1>7. Len(v) <= MaxDocs
  <2>1. v \in [1 .. Len(v) -> Slot]
    BY <1>5, <1>6
  <2>2. v \in Injection(1 .. Len(v), Slot)
    BY <1>5, <1>6, <2>1 DEF Injection, IsInjective, Distinct
  <2>3. Cardinality(1 .. Len(v)) <= Cardinality(Slot)
    BY <2>2, SlotsFinite, FS_Injection
  <2>4. Cardinality(1 .. Len(v)) = Len(v)
    BY <1>6, FS_Interval
  <2> QED BY <2>3, <2>4, SlotsFinite
<1>8. ClosedIn(D, ToSet(v))
  <2> SUFFICES ASSUME NEW i \in ToSet(v) PROVE Succ(D, i) \subseteq ToSet(v)
    BY DEF ClosedIn
  <2>1. PICK l \in 1 .. Len(v) : i = v[l]
    BY <1>6 DEF ToSet
  <2>2. l \in 1 .. MaxDocs /\ l <= Len(v)
    BY <1>0, <1>6, <1>7
  <2> QED BY <1>5, <2>1, <2>2
<1>9. ToSet(v) = Reach(D, r)
  BY <1>5, <1>8, ReachIs
<1> QED BY <1>1, <1>5, <1>9

-----------------------------------------------------------------------------
(* A project's tree.                                                       *)

Node == [path : Seq(Uri \cup {Nil}), doc : Uri \cup {Nil}]

LEMMA CopyTyped ==
  ASSUME NEW tree \in Seq(Node), NEW D \in Table, NEW j \in Slot
  PROVE  /\ copy_document_into_project(tree, D[j]) \in Seq(Node)
         /\ \/ copy_document_into_project(tree, D[j]) = tree
            \/ \E n \in Node : n.doc = D[j].uri /\ copy_document_into_project(tree, D[j]) = Append(tree, n)
<1> DEFINE n == [path |-> Append(D[j].prefix, D[j].uri), doc |-> D[j].uri]
<1>1. D[j].prefix \in Seq(Uri) /\ D[j].uri \in Uri \cup {Nil}
  BY FieldTypes
<1>2. D[j].prefix \in Seq(Uri \cup {Nil})
  BY <1>1
<1>3. n \in Node /\ n.doc = D[j].uri
  BY <1>1, <1>2 DEF Node
<1>4. \/ copy_document_into_project(tree, D[j]) = tree
      \/ copy_document_into_project(tree, D[j]) = Append(tree, n)
  BY DEF copy_document_into_project
<1> HIDE DEF n
<1> QED BY <1>3, <1>4

\* The tree after each document.
TreeRun(f, D, order) ==
  /\ f \in [0 .. Len(order) -> Seq(Node)]
  /\ f[0] = <<>>
  /\ \A k \in 1 .. Len(order) : f[k] = copy_document_into_project(f[k - 1], D[order[k]])

LEMMA TreeSteps ==
  ASSUME NEW D \in Table, NEW i, NEW order \in Seq(Slot), NEW c
  PROVE  \E f : TreeRun(f, D, order) /\ Project(D, i, order, c).tree = f[Len(order)]
<1> DEFINE n == Len(order)
           Q == Seq(Node)
           F == [k \in 1 .. n |-> [tree \in Q |-> copy_document_into_project(tree, D[order[k]])]]
           Eqn(it) == it = [t \in SUBSET (1 .. n) |-> IF t = {} THEN <<>>
                              ELSE copy_document_into_project(it[t \ {Max(t)}], D[order[Max(t)]])]
<1>0. <<>> \in Q
  OBVIOUS
<1>1. n \in Nat /\ DOMAIN order = 1 .. n /\ \A k \in 1 .. n : order[k] \in Slot
  BY LenProperties, ElementOfSeq
<1>2. F \in [1 .. n -> [Q -> Q]]
  BY <1>1, CopyTyped
<1> HIDE DEF n, F, Q
<1>3. PICK it \in [SUBSET (1 .. n) -> Q] : Folds(it, n, F, <<>>)
  BY <1>0, <1>1, <1>2, FoldExists
<1>4. Eqn(it)
  <2> SUFFICES ASSUME NEW t \in SUBSET (1 .. n), t # {}
               PROVE  F[Max(t)][it[t \ {Max(t)}]] = copy_document_into_project(it[t \ {Max(t)}], D[order[Max(t)]])
    BY <1>3 DEF Folds
  <2>1. Max(t) \in 1 .. n /\ t \ {Max(t)} \in SUBSET (1 .. n)
    BY <1>1, MaxIn
  <2>2. it[t \ {Max(t)}] \in Q
    BY <2>1
  <2> QED BY <2>1, <2>2 DEF F
<1> DEFINE g == CHOOSE h : Eqn(h)
           f == [k \in 0 .. n |-> g[1 .. k]]
<1>5. Eqn(g)
  BY <1>4
<1>6. Project(D, i, order, c).tree = g[1 .. n]
  BY <1>1 DEF Project, FoldLeft, MapThenFoldSet
<1> HIDE DEF g
<1>7. f[0] = <<>>
  <2>1. 1 .. 0 = {} /\ {} \in SUBSET (1 .. n) /\ 0 \in 0 .. n
    BY <1>1
  <2> QED BY <1>5, <2>1
<1>8. ASSUME NEW k \in 1 .. n PROVE f[k] = copy_document_into_project(f[k - 1], D[order[k]])
  <2>1. /\ 1 .. k \in SUBSET (1 .. n) /\ 1 .. k # {} /\ Max(1 .. k) = k
        /\ (1 .. k) \ {k} = 1 .. (k - 1) /\ k - 1 \in 0 .. n /\ k \in 0 .. n
    BY <1>1, Interval
  <2>2. f[k - 1] = g[1 .. (k - 1)] /\ f[k] = g[1 .. k]
    BY <2>1
  <2>3. g[1 .. k] = copy_document_into_project(g[(1 .. k) \ {k}], D[order[k]])
    BY <1>5, <2>1
  <2> QED BY <2>1, <2>2, <2>3
<1> DEFINE P == {k \in 0 .. n : f[k] \in Q}
<1>9. \A k \in 0 .. n : k \in P
  <2>1. 0 \in P
    BY <1>0, <1>1, <1>7
  <2>2. ASSUME NEW k \in 0 .. n - 1, k \in P PROVE k + 1 \in P
    <3>1. k + 1 \in 1 .. n /\ k + 1 \in 0 .. n /\ k + 1 - 1 = k /\ f[k] \in Q
      BY <1>1, <2>2
    <3> HIDE DEF f
    <3> QED BY <1>1, <1>8, <3>1, CopyTyped DEF Q
  <2> HIDE DEF P
  <2> QED BY <1>1, <2>1, <2>2, UpTo
<1>10. f \in [0 .. n -> Q] /\ f[n] = g[1 .. n]
  BY <1>1, <1>9
<1> HIDE DEF f
<1> QED BY <1>6, <1>7, <1>8, <1>10 DEF n, Q, TreeRun

\* A tree holds documents of the search, none of them twice.
\* T has a node for documents D[j], j in S, only, and no two for one of them.
TreeOf(D, T, S) ==
  /\ \A m \in DOMAIN T : \E j \in S : T[m].doc = D[j].uri
  /\ \A k, l \in DOMAIN T : T[k].doc = T[l].doc => k = l

LEMMA TreeFacts ==
  ASSUME NEW D, Clean(D), NEW i, NEW order \in Seq(Slot), Distinct(order), ToSet(order) \subseteq InUse(D), NEW c,
         NEW T, T = Project(D, i, order, c).tree
  PROVE  TreeOf(D, T, ToSet(order))
<1> DEFINE n == Len(order)
<1>0. D \in Table /\ n \in Nat /\ DOMAIN order = 1 .. n /\ \A k \in 1 .. n : order[k] \in Slot /\ order[k] \in InUse(D)
  BY LenProperties, ElementOfSeq DEF Clean, ToSet
<1>1. PICK f : TreeRun(f, D, order) /\ T = f[n]
  BY <1>0, TreeSteps
<1> HIDE DEF n
<1> DEFINE Inv(k) ==
             /\ \A m \in DOMAIN f[k] : \E l \in 1 .. k : f[k][m].doc = D[order[l]].uri
             /\ \A m, l \in DOMAIN f[k] : f[k][m].doc = f[k][l].doc => m = l
           P == {k \in 0 .. n : Inv(k)}
<1>2. 0 \in P
  <2>1. f[0] = <<>> /\ 0 \in 0 .. n /\ DOMAIN <<>> = {}
    BY <1>0, <1>1 DEF TreeRun
  <2> QED BY <2>1
<1>3. ASSUME NEW k \in 0 .. n - 1, k \in P PROVE k + 1 \in P
  <2> DEFINE a == f[k]
             b == f[k + 1]
             j == order[k + 1]
  <2>1. k + 1 \in 1 .. n /\ k + 1 \in 0 .. n /\ k + 1 - 1 = k /\ k \in 0 .. n /\ k \in Nat
    BY <1>0
  <2>2. a \in Seq(Node) /\ b = copy_document_into_project(a, D[j]) /\ j \in Slot /\ j \in InUse(D)
    BY <1>0, <1>1, <2>1 DEF TreeRun, n
  <2>3. /\ \A m \in DOMAIN a : \E l \in 1 .. k : a[m].doc = D[order[l]].uri
        /\ \A m, l \in DOMAIN a : a[m].doc = a[l].doc => m = l
    BY <1>3
  <2> HIDE DEF a, b
  <2>4. \A l \in 1 .. k : l \in 1 .. k + 1
    BY <2>1
  <2>5. CASE b = a
    BY <2>1, <2>3, <2>4, <2>5 DEF a, b
  <2>6. ASSUME NEW e \in Node, e.doc = D[j].uri, b = Append(a, e) PROVE k + 1 \in P
    <3>1. /\ Len(a) \in Nat /\ DOMAIN a = 1 .. Len(a) /\ DOMAIN b = 1 .. Len(a) + 1
          /\ b[Len(a) + 1] = e /\ \A m \in 1 .. Len(a) : b[m] = a[m]
      <4>1. /\ Append(a, e) \in Seq(Node) /\ Len(Append(a, e)) = Len(a) + 1
            /\ Append(a, e)[Len(a) + 1] = e /\ \A m \in 1 .. Len(a) : Append(a, e)[m] = a[m]
        BY <2>2, AppendProperties
      <4> QED BY <2>2, <2>6, <4>1, LenProperties
    <3>2. \A m \in 1 .. Len(a) + 1 : m \in 1 .. Len(a) \/ m = Len(a) + 1
      BY <3>1
    <3>3. \A l \in 1 .. k : D[order[l]].uri # D[j].uri
      <4> SUFFICES ASSUME NEW l \in 1 .. k, D[order[l]].uri = D[j].uri PROVE FALSE
        OBVIOUS
      <4>1. l \in 1 .. n /\ l # k + 1 /\ order[l] \in Slot
        BY <1>0, <2>1
      <4>2. order[l] = j
        BY <2>2, <4>1 DEF Clean, InUse
      <4> QED BY <1>0, <2>1, <4>1, <4>2 DEF Distinct
    <3>4. \A m \in DOMAIN b : \E l \in 1 .. k + 1 : b[m].doc = D[order[l]].uri
      <4> SUFFICES ASSUME NEW m \in 1 .. Len(a) + 1 PROVE \E l \in 1 .. k + 1 : b[m].doc = D[order[l]].uri
        BY <3>1
      <4>1. CASE m \in 1 .. Len(a)
        BY <2>3, <2>4, <3>1, <4>1
      <4>2. CASE m = Len(a) + 1
        <5>1. b[m].doc = D[order[k + 1]].uri /\ k + 1 \in 1 .. k + 1
          BY <2>1, <2>6, <3>1, <4>2
        <5> QED BY <5>1
      <4> QED BY <3>2, <4>1, <4>2
    <3>5. \A m \in 1 .. Len(a) : b[m].doc # e.doc
      BY <2>3, <2>6, <3>1, <3>3
    <3>6. \A m, l \in DOMAIN b : b[m].doc = b[l].doc => m = l
      BY <2>3, <3>1, <3>2, <3>5
    <3> QED BY <2>1, <3>4, <3>6 DEF b
  <2> QED BY <1>0, <2>2, <2>5, <2>6, CopyTyped
<1> HIDE DEF P
<1>4. \A k \in 0 .. n : k \in P
  BY <1>0, <1>2, <1>3, UpTo
<1>5. Inv(n)
  BY <1>0, <1>4 DEF P
<1>6. \A l \in 1 .. n : order[l] \in ToSet(order)
  BY <1>0 DEF ToSet
<1> QED BY <1>1, <1>5, <1>6 DEF TreeOf

-----------------------------------------------------------------------------
(* Loops over docs[].                                                      *)

Rank(S, i) == Cardinality({j \in S : j <= i})

LEMMA SlotSet ==
  ASSUME NEW S \in SUBSET Slot
  PROVE  IsFiniteSet(S) /\ Cardinality(S) \in Nat /\ S \subseteq Int
<1>1. IsFiniteSet(S) /\ Cardinality(S) \in Nat
  BY SlotsFinite, FS_Subset, FS_CardinalityType
<1>2. S \subseteq Int
  BY SlotsFinite DEF Slot
<1> QED BY <1>1, <1>2

LEMMA RankFacts ==
  ASSUME NEW S \in SUBSET Slot, NEW i \in S, NEW j \in S
  PROVE  /\ Rank(S, i) \in 1 .. Cardinality(S)
         /\ i < j => Rank(S, i) < Rank(S, j)
<1>0. IsFiniteSet(S) /\ Cardinality(S) \in Nat /\ S \subseteq Int
  BY SlotSet
<1> DEFINE A == {m \in S : m <= i}
           B == {m \in S : m <= j}
<1>1. A \subseteq S /\ B \subseteq S /\ i \in A /\ j \in B /\ (i < j => A \subseteq B /\ j \notin A)
  <2>1. \A m \in S : m \in Int /\ i \in Int /\ j \in Int
    BY <1>0
  <2>2. i <= i /\ j <= j /\ (i < j => ~(j <= i)) /\ \A m \in S : i < j /\ m <= i => m <= j
    BY <2>1
  <2> QED BY <2>2
<1>2. Rank(S, i) = Cardinality(A) /\ Rank(S, j) = Cardinality(B)
  BY DEF Rank
<1> HIDE DEF A, B
<1>3. IsFiniteSet(A) /\ Cardinality(A) <= Cardinality(S) /\ IsFiniteSet(B)
  BY <1>0, <1>1, FS_Subset
<1>4. Cardinality(A) \in Nat /\ Cardinality(B) \in Nat /\ Cardinality(A) # 0
  BY <1>1, <1>3, FS_CardinalityType, FS_EmptySet
<1>5. i < j => Cardinality(A) < Cardinality(B)
  <2> SUFFICES ASSUME i < j PROVE Cardinality(A) < Cardinality(B)
    OBVIOUS
  <2>1. Cardinality(A) <= Cardinality(B) /\ (Cardinality(A) = Cardinality(B) => A = B)
    BY <1>1, <1>3, FS_Subset
  <2> QED BY <1>1, <1>4, <2>1
<1> QED BY <1>0, <1>2, <1>3, <1>4, <1>5

\* A loop over docs[] meets every slot of S once, in ascending order.
LEMMA SlotOrder ==
  ASSUME NEW S \in SUBSET Slot, NEW q, q = InSlotOrder(S)
  PROVE  /\ q \in Seq(S) /\ Len(q) = Cardinality(S) /\ DOMAIN q = 1 .. Len(q)
         /\ \A i \in S : \E k \in DOMAIN q : q[k] = i
         /\ \A k, l \in DOMAIN q : k < l => q[k] < q[l]
         /\ Distinct(q)
<1> DEFINE n == Cardinality(S)
           rank == [i \in S |-> Rank(S, i)]
<1>0. IsFiniteSet(S) /\ n \in Nat /\ S \subseteq Int
  BY SlotSet
<1>1. rank \in [S -> 1 .. n]
  BY RankFacts
<1>2. \A i, j \in S : Rank(S, i) = Rank(S, j) => i = j
  <2> SUFFICES ASSUME NEW i \in S, NEW j \in S, Rank(S, i) = Rank(S, j), i # j PROVE FALSE
    OBVIOUS
  <2>1. i \in Int /\ j \in Int /\ Rank(S, i) \in 1 .. n /\ Rank(S, j) \in 1 .. n
    BY <1>0, RankFacts
  <2>2. i < j \/ j < i
    BY <2>1
  <2>3. Rank(S, i) < Rank(S, j) \/ Rank(S, j) < Rank(S, i)
    BY <2>2, RankFacts
  <2> QED BY <1>0, <2>1, <2>3
<1>3. rank \in Injection(S, 1 .. n)
  BY <1>1, <1>2 DEF Injection, IsInjective
<1>4. IsFiniteSet(1 .. n) /\ Cardinality(1 .. n) = n
  BY <1>0, FS_Interval
<1>5. rank \in Surjection(S, 1 .. n)
  <2> HIDE DEF rank
  <2> QED BY <1>3, <1>4, FS_Injection
<1>6. \A k \in 1 .. n : \E i \in S : Rank(S, i) = k
  BY <1>5 DEF Surjection
<1> HIDE DEF rank
<1>7. q = [k \in 1 .. n |-> CHOOSE i \in S : Rank(S, i) = k]
  BY DEF InSlotOrder, Rank
<1>8. \A k \in 1 .. n : q[k] \in S /\ Rank(S, q[k]) = k
  BY <1>6, <1>7
<1>9. q \in Seq(S) /\ Len(q) = n /\ DOMAIN q = 1 .. Len(q)
  <2>1. q \in [1 .. n -> S]
    BY <1>7, <1>8
  <2> QED BY <1>0, <2>1
<1>10. \A i \in S : \E k \in DOMAIN q : q[k] = i
  <2> SUFFICES ASSUME NEW i \in S PROVE \E k \in 1 .. n : q[k] = i
    BY <1>9
  <2>1. Rank(S, i) \in 1 .. n
    BY RankFacts
  <2> QED BY <1>2, <1>8, <2>1
<1>11. \A k, l \in 1 .. n : k < l => q[k] < q[l]
  <2> SUFFICES ASSUME NEW k \in 1 .. n, NEW l \in 1 .. n, k < l, ~(q[k] < q[l]) PROVE FALSE
    OBVIOUS
  <2>1. q[k] \in S /\ q[l] \in S /\ q[k] \in Int /\ q[l] \in Int /\ Rank(S, q[k]) = k /\ Rank(S, q[l]) = l
    BY <1>0, <1>8
  <2>2. q[k] # q[l]
    BY <2>1
  <2>3. q[l] < q[k]
    BY <2>1, <2>2
  <2>4. l < k
    BY <2>1, <2>3, RankFacts
  <2> QED BY <1>0, <2>4
<1>12. Distinct(q)
  BY <1>8, <1>9 DEF Distinct
<1> QED BY <1>9, <1>10, <1>11, <1>12

-----------------------------------------------------------------------------
(* The published projects.                                                 *)

RootSet(D) == {i \in InUse(D) : D[i].is_cc_root}
RootSeq(D) == InSlotOrder(RootSet(D))
Claims(D, i) == {k \in DOMAIN RootSeq(D) : i \in ToSet(Bfs(D, RootSeq(D)[k]))}
OrphanSet(D) == {i \in InUse(D) : Claims(D, i) = {}}
OrphanSeq(D) == InSlotOrder(OrphanSet(D))
Index(D, i) ==
  IF Claims(D, i) # {} THEN Claim(Claims(D, i))
  ELSE Len(RootSeq(D)) + CHOOSE k \in DOMAIN OrphanSeq(D) : OrphanSeq(D)[k] = i
RootProject(D, i) == Project(D, i, Bfs(D, i), TRUE)
OwnProject(D, i) == Project(D, i, <<i>>, FALSE)
RootProjects(D) == [k \in DOMAIN RootSeq(D) |-> Project(D, RootSeq(D)[k], Bfs(D, RootSeq(D)[k]), TRUE)]
OrphanProjects(D) == [k \in DOMAIN OrphanSeq(D) |-> Project(D, OrphanSeq(D)[k], <<OrphanSeq(D)[k]>>, FALSE)]

LEMMA SnapshotIs ==
  ASSUME NEW D, NEW st, NEW w, w = build_workspace_snapshot(D, st)
  PROVE  /\ w.docs = {populate_ws_doc(D[i], Index(D, i)) : i \in InUse(D)}
         /\ w.projects = RootProjects(D) \o OrphanProjects(D)
<1> DEFINE q == RootSeq(D)
           order == [k \in DOMAIN q |-> Bfs(D, q[k])]
           claims(i) == {k \in DOMAIN q : i \in ToSet(order[k])}
           orphans == InSlotOrder({i \in InUse(D) : claims(i) = {}})
           index(i) == IF claims(i) # {} THEN Claim(claims(i))
                       ELSE Len(q) + CHOOSE k \in DOMAIN orphans : orphans[k] = i
           wdocs == {populate_ws_doc(D[i], index(i)) : i \in InUse(D)}
           ps == [k \in DOMAIN q |-> Project(D, q[k], order[k], TRUE)]
                 \o [k \in DOMAIN orphans |-> Project(D, orphans[k], <<orphans[k]>>, FALSE)]
<1>1. w = [cc_status |-> st, docs |-> wdocs, projects |-> ps]
  BY DEF build_workspace_snapshot, RootSeq, RootSet
<1>2. \A i : claims(i) = Claims(D, i)
  BY DEF Claims
<1>3. orphans = OrphanSeq(D)
  <2>1. {i \in InUse(D) : claims(i) = {}} = OrphanSet(D)
    BY <1>2 DEF OrphanSet
  <2> QED BY <2>1 DEF OrphanSeq
<1> HIDE DEF claims, orphans
<1>4. \A i : index(i) = Index(D, i)
  BY <1>2, <1>3 DEF Index
<1>5. [k \in DOMAIN q |-> Project(D, q[k], order[k], TRUE)] = RootProjects(D)
  BY DEF RootProjects
<1>6. [k \in DOMAIN orphans |-> Project(D, orphans[k], <<orphans[k]>>, FALSE)] = OrphanProjects(D)
  BY <1>3 DEF OrphanProjects
<1> HIDE DEF q, order, index
<1>7. wdocs = {populate_ws_doc(D[i], Index(D, i)) : i \in InUse(D)}
  BY <1>4
<1>8. ps = RootProjects(D) \o OrphanProjects(D)
  BY <1>5, <1>6
<1> HIDE DEF wdocs, ps
<1>9. w.docs = wdocs /\ w.projects = ps
  BY <1>1
<1> QED BY <1>7, <1>8, <1>9

\* The roots and the orphans.
LEMMA RootsAre ==
  ASSUME NEW D, Clean(D), NEW q, q = RootSeq(D), NEW o, o = OrphanSeq(D)
  PROVE  /\ Len(q) \in Nat /\ DOMAIN q = 1 .. Len(q) /\ Len(o) \in Nat /\ DOMAIN o = 1 .. Len(o)
         /\ \A k \in 1 .. Len(q) : q[k] \in RootSet(D) /\ q[k] \in InUse(D) /\ q[k] \in Slot /\ q[k] \in Int
         /\ \A k \in 1 .. Len(o) : o[k] \in OrphanSet(D) /\ o[k] \in InUse(D) /\ o[k] \in Slot
         /\ \A i \in RootSet(D) : \E k \in 1 .. Len(q) : q[k] = i
         /\ \A i \in OrphanSet(D) : \E k \in 1 .. Len(o) : o[k] = i
         /\ \A k, l \in 1 .. Len(q) : k < l => q[k] < q[l]
<1>1. RootSet(D) \in SUBSET Slot /\ OrphanSet(D) \in SUBSET Slot /\ RootSet(D) \subseteq Int
      /\ RootSet(D) \subseteq InUse(D) /\ OrphanSet(D) \subseteq InUse(D)
  BY SlotsFinite DEF RootSet, OrphanSet, InUse, Slot
<1>2. /\ q \in Seq(RootSet(D)) /\ DOMAIN q = 1 .. Len(q)
      /\ \A i \in RootSet(D) : \E k \in DOMAIN q : q[k] = i
      /\ \A k, l \in DOMAIN q : k < l => q[k] < q[l]
  BY <1>1, SlotOrder DEF RootSeq
<1>3. /\ o \in Seq(OrphanSet(D)) /\ DOMAIN o = 1 .. Len(o)
      /\ \A i \in OrphanSet(D) : \E k \in DOMAIN o : o[k] = i
  BY <1>1, SlotOrder DEF OrphanSeq
<1>4. Len(q) \in Nat /\ Len(o) \in Nat
  BY <1>2, <1>3, LenProperties
<1>5. \A k \in 1 .. Len(q) : q[k] \in RootSet(D)
  BY <1>2, ElementOfSeq
<1>6. \A k \in 1 .. Len(o) : o[k] \in OrphanSet(D)
  BY <1>3, ElementOfSeq
<1> QED BY <1>1, <1>2, <1>3, <1>4, <1>5, <1>6

Assembled(D, ps, q, o) ==
  /\ \A k \in 1 .. Len(q) : ps[k] = RootProject(D, q[k])
  /\ \A k \in 1 .. Len(o) : ps[Len(q) + k] = OwnProject(D, o[k])
  /\ \A p \in ToSet(ps) : \/ \E k \in 1 .. Len(q) : p = RootProject(D, q[k])
                          \/ \E k \in 1 .. Len(o) : p = OwnProject(D, o[k])

LEMMA ProjectsAre ==
  ASSUME NEW D, Clean(D), NEW q, q = RootSeq(D), NEW o, o = OrphanSeq(D),
         NEW ps, ps = RootProjects(D) \o OrphanProjects(D)
  PROVE  Assembled(D, ps, q, o)
<1> DEFINE A == RootProjects(D)
           B == OrphanProjects(D)
           S == {A[k] : k \in 1 .. Len(q)} \cup {B[k] : k \in 1 .. Len(o)}
<1>0. Len(q) \in Nat /\ DOMAIN q = 1 .. Len(q) /\ Len(o) \in Nat /\ DOMAIN o = 1 .. Len(o)
  BY RootsAre
<1>1. /\ A = [k \in 1 .. Len(q) |-> RootProject(D, q[k])]
      /\ B = [k \in 1 .. Len(o) |-> OwnProject(D, o[k])]
  BY <1>0 DEF RootProjects, OrphanProjects, RootProject, OwnProject
<1>2. ps = A \o B
  OBVIOUS
<1> HIDE DEF A, B
<1>3. A \in [1 .. Len(q) -> S] /\ B \in [1 .. Len(o) -> S]
  BY <1>1
<1> HIDE DEF S
<1>4. A \in Seq(S) /\ B \in Seq(S) /\ Len(A) = Len(q) /\ Len(B) = Len(o)
  <2>1. \A n \in Nat : \A f \in [1 .. n -> S] : f \in Seq(S) /\ Len(f) = n
    OBVIOUS
  <2> QED BY <1>0, <1>3, <2>1
<1>5. /\ ps \in Seq(S) /\ Len(ps) = Len(q) + Len(o)
      /\ \A k \in 1 .. Len(q) + Len(o) : ps[k] = IF k <= Len(q) THEN A[k] ELSE B[k - Len(q)]
  <2>1. /\ A \o B \in Seq(S) /\ Len(A \o B) = Len(A) + Len(B)
        /\ \A k \in 1 .. Len(A) + Len(B) : (A \o B)[k] = IF k <= Len(A) THEN A[k] ELSE B[k - Len(A)]
    BY <1>4, ConcatProperties
  <2> QED BY <1>2, <1>4, <2>1
<1>6. DOMAIN ps = 1 .. Len(q) + Len(o)
  BY <1>5, LenProperties
<1>7. \A k \in 1 .. Len(q) : k \in 1 .. Len(q) + Len(o) /\ k <= Len(q)
  BY <1>0
<1>8. \A k \in 1 .. Len(o) : /\ Len(q) + k \in 1 .. Len(q) + Len(o) /\ ~(Len(q) + k <= Len(q))
                             /\ Len(q) + k - Len(q) = k
  BY <1>0
<1>9. \A k \in 1 .. Len(q) : ps[k] = RootProject(D, q[k])
  BY <1>1, <1>5, <1>7
<1>10. \A k \in 1 .. Len(o) : ps[Len(q) + k] = OwnProject(D, o[k])
  <2> SUFFICES ASSUME NEW k \in 1 .. Len(o) PROVE ps[Len(q) + k] = OwnProject(D, o[k])
    OBVIOUS
  <2>1. ps[Len(q) + k] = B[k]
    <3> DEFINE m == Len(q) + k
    <3>1. m \in 1 .. Len(q) + Len(o) /\ ~(m <= Len(q)) /\ m - Len(q) = k
      BY <1>8
    <3> HIDE DEF m
    <3>2. ps[m] = IF m <= Len(q) THEN A[m] ELSE B[m - Len(q)]
      BY <1>5, <3>1
    <3>3. ps[m] = B[m - Len(q)]
      BY ONLY <3>1, <3>2
    <3>4. ps[m] = B[k]
      BY ONLY <3>1, <3>3
    <3> QED BY <3>4 DEF m
  <2> QED BY <1>1, <2>1
<1>11. ASSUME NEW p \in ToSet(ps)
       PROVE  \/ \E k \in 1 .. Len(q) : p = RootProject(D, q[k])
              \/ \E k \in 1 .. Len(o) : p = OwnProject(D, o[k])
  <2>1. PICK k \in 1 .. Len(q) + Len(o) : p = ps[k]
    BY <1>6 DEF ToSet
  <2>2. CASE k <= Len(q)
    <3>1. k \in 1 .. Len(q)
      BY <1>0, <2>2
    <3> QED BY <1>9, <2>1, <3>1
  <2>3. CASE ~(k <= Len(q))
    <3>1. k - Len(q) \in 1 .. Len(o) /\ Len(q) + (k - Len(q)) = k
      BY <1>0, <2>3
    <3> QED BY <1>10, <2>1, <3>1
  <2> QED BY <2>2, <2>3
<1> QED BY <1>9, <1>10, <1>11 DEF Assembled

\* The project of a document is that of the first root that reaches it, else its own.
LEMMA IndexIs ==
  ASSUME NEW D, Clean(D), NEW i \in InUse(D), NEW q, q = RootSeq(D), NEW o, o = OrphanSeq(D)
  PROVE  LET rs == {r \in RootSet(D) : i \in Reach(D, r)}
             x == Index(D, i)
         IN  \/ /\ x \in 1 .. Len(q) /\ q[x] \in rs /\ \A r \in rs : q[x] <= r
             \/ /\ rs = {} /\ \E k \in 1 .. Len(o) : x = Len(q) + k /\ o[k] = i
<1> DEFINE rs == {r \in RootSet(D) : i \in Reach(D, r)}
           x == Index(D, i)
           C == Claims(D, i)
<1>0. /\ Len(q) \in Nat /\ DOMAIN q = 1 .. Len(q) /\ Len(o) \in Nat /\ DOMAIN o = 1 .. Len(o)
      /\ \A k \in 1 .. Len(q) : q[k] \in RootSet(D) /\ q[k] \in InUse(D) /\ q[k] \in Int
      /\ \A r \in RootSet(D) : \E k \in 1 .. Len(q) : q[k] = r
      /\ \A j \in OrphanSet(D) : \E k \in 1 .. Len(o) : o[k] = j
      /\ \A k, l \in 1 .. Len(q) : k < l => q[k] < q[l]
  BY RootsAre
<1>1. C = {k \in 1 .. Len(q) : i \in Reach(D, q[k])}
  BY <1>0, BfsReaches DEF Claims
<1>2. CASE C # {}
  <2>1. C \subseteq Nat /\ C \subseteq 1 .. Len(q)
    BY <1>0, <1>1
  <2>2. PICK m \in C : \A k \in C : m <= k
    BY <1>2, <2>1, LeastNumber
  <2>3. x = Claim(C)
    BY <1>2 DEF Index
  <2>4. x \in C /\ \A k \in C : x <= k
    BY <2>2, <2>3 DEF Claim
  <2>5. x \in 1 .. Len(q) /\ q[x] \in rs
    BY <1>0, <1>1, <2>1, <2>4
  <2>6. ASSUME NEW r \in rs PROVE q[x] <= r
    <3>1. PICK k \in 1 .. Len(q) : q[k] = r
      BY <1>0
    <3>2. k \in C
      BY <1>1, <3>1
    <3>3. x = k \/ x < k
      BY <1>0, <2>4, <2>5, <3>2
    <3>4. q[x] = q[k] \/ q[x] < q[k]
      BY <1>0, <2>5, <3>3
    <3>5. q[x] \in Int /\ q[k] \in Int
      BY <1>0, <2>5
    <3> QED BY <3>1, <3>4, <3>5
  <2> QED BY <2>5, <2>6
<1>3. CASE C = {}
  <2>1. rs = {}
    BY <1>0, <1>1, <1>3
  <2>2. i \in OrphanSet(D)
    BY <1>3 DEF OrphanSet
  <2>3. PICK k \in 1 .. Len(o) : o[k] = i
    BY <1>0, <2>2
  <2> DEFINE m == CHOOSE l \in DOMAIN o : o[l] = i
  <2>4. m \in 1 .. Len(o) /\ o[m] = i
    BY <1>0, <2>3
  <2>5. x = Len(q) + m
    BY <1>3 DEF Index
  <2> QED BY <2>1, <2>4, <2>5
<1> QED BY <1>2, <1>3

\* The roots from which a document is reached.
Rooted(D, i) == {r \in RootSet(D) : i \in Reach(D, r)}

LEMMA ReachSelf ==
  ASSUME NEW D, NEW i \in InUse(D)
  PROVE  i \in Reach(D, i)
BY ReachIs

LEMMA ReachInUse ==
  ASSUME NEW D, NEW r
  PROVE  Reach(D, r) \subseteq InUse(D)
BY ReachIs

LEMMA RootTree ==
  ASSUME NEW D, Clean(D), NEW r \in InUse(D), NEW p, p = RootProject(D, r)
  PROVE  p.id = D[r].uri /\ TreeOf(D, p.tree, Reach(D, r))
<1>1. Bfs(D, r) \in Seq(Slot) /\ Distinct(Bfs(D, r)) /\ ToSet(Bfs(D, r)) = Reach(D, r)
  BY BfsReaches
<1>2. Reach(D, r) \subseteq InUse(D)
  BY ReachInUse
<1>3. \E c : p = Project(D, r, Bfs(D, r), c)
  BY DEF RootProject
<1>4. PICK c : p = Project(D, r, Bfs(D, r), c)
  BY <1>3
<1> DEFINE T == p.tree
<1>5. T = Project(D, r, Bfs(D, r), c).tree
  BY <1>4
<1> HIDE DEF T
<1>6. TreeOf(D, T, ToSet(Bfs(D, r)))
  BY <1>1, <1>2, <1>5, TreeFacts
<1>7. p.id = D[r].uri
  BY <1>4 DEF Project, FoldLeft, MapThenFoldSet
<1> QED BY <1>1, <1>6, <1>7 DEF T

LEMMA OwnTree ==
  ASSUME NEW D, Clean(D), NEW i \in InUse(D), NEW p, p = OwnProject(D, i)
  PROVE  p.id = D[i].uri /\ TreeOf(D, p.tree, {i})
<1> DEFINE s == <<i>>
<1>1. i \in Slot /\ {i} \subseteq InUse(D)
  BY DEF InUse
<1>2. s \in Seq(Slot) /\ DOMAIN s = {1} /\ s[1] = i
  BY <1>1
<1>3. \E c : p = Project(D, i, s, c)
  BY DEF OwnProject
<1>4. PICK c : p = Project(D, i, s, c)
  BY <1>3
<1> DEFINE T == p.tree
<1> HIDE DEF s
<1>8. T = Project(D, i, s, c).tree /\ p.id = D[i].uri
  BY <1>4 DEF Project, FoldLeft, MapThenFoldSet
<1> HIDE DEF T
<1>5. Distinct(s)
  BY <1>2 DEF Distinct
<1>6. ToSet(s) = {i}
  BY <1>2 DEF ToSet
<1>7. TreeOf(D, T, ToSet(s))
  BY <1>1, <1>2, <1>5, <1>6, <1>8, TreeFacts
<1> QED BY <1>6, <1>7, <1>8 DEF T

\* p is the project of the document in slot i: the first root's, else its own.
InProject(D, i, p) ==
  \/ \E r \in Rooted(D, i) : /\ \A s \in Rooted(D, i) : r <= s
                             /\ p.id = D[r].uri /\ TreeOf(D, p.tree, Reach(D, r))
  \/ Rooted(D, i) = {} /\ p.id = D[i].uri /\ TreeOf(D, p.tree, {i})

LEMMA ProjectOf ==
  ASSUME NEW D, Clean(D), NEW i \in InUse(D),
         NEW ps, ps = RootProjects(D) \o OrphanProjects(D), NEW p, p = ps[Index(D, i)]
  PROVE  InProject(D, i, p)
<1> DEFINE q == RootSeq(D)
           o == OrphanSeq(D)
           x == Index(D, i)
<1>0. Assembled(D, ps, q, o)
  BY ONLY Clean(D), ps = RootProjects(D) \o OrphanProjects(D), ProjectsAre
<1>1. /\ \A k \in 1 .. Len(q) : ps[k] = RootProject(D, q[k])
      /\ \A k \in 1 .. Len(o) : ps[Len(q) + k] = OwnProject(D, o[k])
  BY <1>0 DEF Assembled
<1>2. \A k \in 1 .. Len(q) : q[k] \in InUse(D)
  BY RootsAre
<1>3. \/ /\ x \in 1 .. Len(q) /\ q[x] \in Rooted(D, i) /\ \A r \in Rooted(D, i) : q[x] <= r
      \/ /\ Rooted(D, i) = {} /\ \E k \in 1 .. Len(o) : x = Len(q) + k /\ o[k] = i
  BY IndexIs DEF Rooted
<1> HIDE DEF q, o
<1>4. p = ps[x]
  OBVIOUS
<1> HIDE DEF x
<1>5. CASE x \in 1 .. Len(q) /\ q[x] \in Rooted(D, i) /\ \A r \in Rooted(D, i) : q[x] <= r
  <2>1. p = RootProject(D, q[x]) /\ q[x] \in InUse(D)
    BY <1>1, <1>2, <1>4, <1>5
  <2>2. p.id = D[q[x]].uri /\ TreeOf(D, p.tree, Reach(D, q[x]))
    BY <2>1, RootTree
  <2> QED BY <1>5, <2>2 DEF InProject
<1>6. CASE Rooted(D, i) = {} /\ \E k \in 1 .. Len(o) : x = Len(q) + k /\ o[k] = i
  <2>1. PICK k \in 1 .. Len(o) : x = Len(q) + k /\ o[k] = i
    BY <1>6
  <2>2. p = OwnProject(D, i)
    BY <1>1, <1>4, <2>1
  <2>3. p.id = D[i].uri /\ TreeOf(D, p.tree, {i})
    BY <2>2, OwnTree
  <2> QED BY <1>6, <2>3 DEF InProject
<1> QED BY <1>3, <1>5, <1>6

\* Every project is that of its root, and holds what the root reaches.
LEMMA ProjectsReach ==
  ASSUME NEW D, Clean(D), NEW ps, ps = RootProjects(D) \o OrphanProjects(D), NEW p \in ToSet(ps)
  PROVE  TreeOf(D, p.tree, Reach(D, doc_find(D, p.id)))
<1> DEFINE q == RootSeq(D)
           o == OrphanSeq(D)
<1>0. Assembled(D, ps, q, o)
  BY ONLY Clean(D), ps = RootProjects(D) \o OrphanProjects(D), ProjectsAre
<1>1. \/ \E k \in 1 .. Len(q) : p = RootProject(D, q[k])
      \/ \E k \in 1 .. Len(o) : p = OwnProject(D, o[k])
  BY <1>0 DEF Assembled
<1>2. /\ \A k \in 1 .. Len(q) : q[k] \in InUse(D)
      /\ \A k \in 1 .. Len(o) : o[k] \in InUse(D)
  BY RootsAre
<1>3. \E r \in InUse(D) : p.id = D[r].uri /\ (TreeOf(D, p.tree, Reach(D, r)) \/ TreeOf(D, p.tree, {r}))
  BY <1>1, <1>2, RootTree, OwnTree
<1>4. PICK r \in InUse(D) : p.id = D[r].uri /\ (TreeOf(D, p.tree, Reach(D, r)) \/ TreeOf(D, p.tree, {r}))
  BY <1>3
<1>5. TreeOf(D, p.tree, Reach(D, r))
  BY <1>4, ReachSelf DEF TreeOf
<1>6. r \in Slot /\ D[r].uri \in Uri
  BY DEF InUse, Clean, Table, Document
<1>7. doc_find(D, p.id) = r
  BY <1>4, <1>6, FindIs
<1> QED BY <1>5, <1>7

LEMMA AtMostOne ==
  ASSUME NEW S, IsFiniteSet(S), Cardinality(S) <= 1, NEW x \in S, NEW y \in S
  PROVE  x = y
<1> SUFFICES ASSUME x # y PROVE FALSE
  OBVIOUS
<1>1. IsFiniteSet({x, y}) /\ Cardinality({x, y}) <= Cardinality(S) /\ Cardinality(S) \in Nat
  BY FS_Subset, FS_CardinalityType
<1>2. IsFiniteSet({x}) /\ Cardinality({x}) = 1 /\ {x} \cup {y} = {x, y} /\ y \notin {x}
  BY FS_Singleton
<1>3. Cardinality({x, y}) = 2
  BY <1>2, FS_AddElement
<1> QED BY <1>1, <1>3

\* Two documents that one root reaches, and no other root either of them, share a project.
LEMMA SameProject ==
  ASSUME NEW D, Clean(D), NEW i \in InUse(D), NEW j \in InUse(D), NEW r \in Rooted(D, i), r \in Rooted(D, j),
         Cardinality(Rooted(D, i)) <= 1, Cardinality(Rooted(D, j)) <= 1
  PROVE  Index(D, i) = Index(D, j)
<1> DEFINE q == RootSeq(D)
           o == OrphanSeq(D)
<1>1. \A k \in InUse(D) :
        \/ /\ Index(D, k) \in 1 .. Len(q) /\ q[Index(D, k)] \in Rooted(D, k)
        \/ Rooted(D, k) = {}
  BY IndexIs DEF Rooted
<1>2. \A k \in InUse(D) : IsFiniteSet(Rooted(D, k))
  BY SlotsFinite, FS_Subset DEF Rooted, RootSet, InUse
<1>3. q[Index(D, i)] = r /\ q[Index(D, j)] = r /\ Index(D, i) \in 1 .. Len(q) /\ Index(D, j) \in 1 .. Len(q)
  BY <1>1, <1>2, AtMostOne
<1>4. /\ Len(q) \in Nat /\ \A k \in 1 .. Len(q) : q[k] \in Int
      /\ \A k, l \in 1 .. Len(q) : k < l => q[k] < q[l]
  BY RootsAre
<1> HIDE DEF q
<1> DEFINE x == Index(D, i)
           y == Index(D, j)
<1>5. x \in 1 .. Len(q) /\ y \in 1 .. Len(q) /\ q[x] = r /\ q[y] = r
  BY <1>3
<1> HIDE DEF x, y
<1>6. ~(x < y) /\ ~(y < x)
  BY <1>4, <1>5
<1>7. x = y
  BY <1>4, <1>5, <1>6
<1> QED BY <1>7 DEF x, y

\* A published document is that of a slot in use.
LEMMA PublishedDocs ==
  ASSUME NEW D, Clean(D), NEW w, w.docs = {populate_ws_doc(D[i], Index(D, i)) : i \in InUse(D)}
  PROVE  /\ \A d \in w.docs : \E i \in InUse(D) : d.uri = D[i].uri /\ d.project_index = Index(D, i)
                                                  /\ doc_find(D, d.uri) = i
         /\ \A i \in InUse(D) : \E d \in w.docs : d.uri = D[i].uri /\ d.project_index = Index(D, i)
<1>1. \A i \in InUse(D) : /\ populate_ws_doc(D[i], Index(D, i)).uri = D[i].uri
                          /\ populate_ws_doc(D[i], Index(D, i)).project_index = Index(D, i)
  BY DEF populate_ws_doc
<1>2. \A i \in InUse(D) : i \in Slot /\ D[i].uri \in Uri
  BY DEF InUse, Clean, Table, Document
<1>3. \A i \in InUse(D) : doc_find(D, D[i].uri) = i
  BY <1>2, FindIs
<1> QED BY <1>1, <1>3

LEMMA SoundGraph ==
  ASSUME Sound
  PROVE  EdgesCurrent
BY DEF Sound, Edges, EdgesCurrent, InUse, Targets

\* A document is in the project of the first root that reaches it.
LEMMA SoundMembership ==
  ASSUME Sound
  PROVE  MembershipIsReachability
<1> SUFFICES ASSUME Published PROVE MembershipIsReachability
  BY DEF MembershipIsReachability
<1> DEFINE D == docs
           ps == gws.projects
<1>1. Clean(D) /\ gws = build_workspace_snapshot(D, ccStatus)
  BY DEF Sound, Typed, PublishedCurrent
<1>2. /\ gws.docs = {populate_ws_doc(D[i], Index(D, i)) : i \in InUse(D)}
      /\ ps = RootProjects(D) \o OrphanProjects(D)
  BY <1>1, SnapshotIs
<1> HIDE DEF ps
<1>3. ASSUME NEW d \in gws.docs
      PROVE  ps[d.project_index].id = docs[FirstRoot(doc_find(docs, d.uri))].uri
  <2>0. \E i \in InUse(D) : d.uri = D[i].uri /\ d.project_index = Index(D, i) /\ doc_find(D, d.uri) = i
    BY ONLY <1>1, <1>2, <1>3, PublishedDocs
  <2>1. PICK i \in InUse(D) : d.project_index = Index(D, i) /\ doc_find(D, d.uri) = i
    BY <2>0
  <2> DEFINE rs == Rooted(D, i)
             p == ps[Index(D, i)]
  <2>2. \/ \E r \in rs : (\A s \in rs : r <= s) /\ p.id = D[r].uri
        \/ rs = {} /\ p.id = D[i].uri
    <3>1. InProject(D, i, p)
      BY <1>1, <1>2, ProjectOf
    <3> HIDE DEF p
    <3> QED BY <3>1 DEF InProject
  <2>3. rs \subseteq Int
    BY SlotsFinite DEF Rooted, RootSet, InUse, Slot
  <2>4. FirstRoot(i) = IF rs = {} THEN i ELSE CHOOSE r \in rs : \A s \in rs : r <= s
    BY DEF FirstRoot, CcRoots, Rooted, RootSet
  <2> HIDE DEF rs
  <2>5. CASE rs = {}
    BY <2>1, <2>2, <2>4, <2>5
  <2>6. CASE rs # {}
    <3>1. PICK r \in rs : (\A s \in rs : r <= s) /\ p.id = D[r].uri
      BY <2>2, <2>6
    <3> DEFINE c == CHOOSE x \in rs : \A s \in rs : x <= s
    <3>2. c \in rs /\ \A s \in rs : c <= s
      BY <3>1
    <3> HIDE DEF c
    <3>3. c = r
      BY <2>3, <3>1, <3>2
    <3>4. FirstRoot(i) = c
      BY <2>4, <2>6 DEF c
    <3> QED BY <2>1, <3>1, <3>3, <3>4
  <2> QED BY <2>5, <2>6
<1>4. ASSUME NEW p \in ToSet(ps)
      PROVE  LET r == doc_find(docs, p.id) IN
             /\ \A n \in ToSet(p.tree) : n.doc \in {docs[i].uri : i \in Reach(docs, r)}
             /\ \A k, l \in DOMAIN p.tree : p.tree[k].doc = p.tree[l].doc => k = l
  <2> DEFINE r == doc_find(docs, p.id)
  <2>1. TreeOf(D, p.tree, Reach(D, r))
    BY <1>1, <1>2, ProjectsReach
  <2> HIDE DEF r
  <2>2. /\ \A n \in ToSet(p.tree) : n.doc \in {docs[i].uri : i \in Reach(docs, r)}
        /\ \A k, l \in DOMAIN p.tree : p.tree[k].doc = p.tree[l].doc => k = l
    BY <2>1 DEF TreeOf, ToSet
  <2> QED BY <2>2 DEF r
<1> QED BY <1>3, <1>4 DEF MembershipIsReachability, ps

\* A query sees the documents of the tree it resolves against.
LEMMA SoundContext ==
  ASSUME Sound
  PROVE  TreeWithinContext
<1> SUFFICES ASSUME Published,
                    \A i \in InUse(docs) : Cardinality({r \in CcRoots : i \in Reach(docs, r)}) <= 1,
                    NEW d \in gws.docs, NEW n \in ToSet(gws.projects[d.project_index].tree)
             PROVE  \E s \in QueryDocs(gws, d.uri) : s.uri = n.doc
  BY DEF TreeWithinContext
<1> DEFINE D == docs
           ps == gws.projects
<1>1. Clean(D) /\ gws = build_workspace_snapshot(D, ccStatus)
  BY DEF Sound, Typed, PublishedCurrent
<1>2. /\ gws.docs = {populate_ws_doc(D[i], Index(D, i)) : i \in InUse(D)}
      /\ ps = RootProjects(D) \o OrphanProjects(D)
  BY <1>1, SnapshotIs
<1> HIDE DEF ps
<1>3. PICK i \in InUse(D) : d.project_index = Index(D, i) /\ doc_find(D, d.uri) = i
  BY <1>1, <1>2, PublishedDocs
<1>4. \A j \in InUse(D) : Cardinality(Rooted(D, j)) <= 1
  BY DEF CcRoots, Rooted, RootSet
<1> DEFINE p == ps[Index(D, i)]
<1>5. \/ \E r \in Rooted(D, i) : TreeOf(D, p.tree, Reach(D, r))
      \/ TreeOf(D, p.tree, {i})
  <2>1. InProject(D, i, p)
    BY <1>1, <1>2, ProjectOf
  <2> QED BY <2>1 DEF InProject
<1>6. n \in ToSet(p.tree)
  BY <1>3 DEF ps
<1> HIDE DEF p
<1>7. \E j \in InUse(D) : n.doc = D[j].uri /\ Index(D, j) = Index(D, i)
  <2>1. CASE TreeOf(D, p.tree, {i})
    BY <1>6, <2>1 DEF TreeOf, ToSet
  <2>2. ASSUME NEW r \in Rooted(D, i), TreeOf(D, p.tree, Reach(D, r))
        PROVE  \E j \in InUse(D) : n.doc = D[j].uri /\ Index(D, j) = Index(D, i)
    <3>1. PICK j \in Reach(D, r) : n.doc = D[j].uri
      BY <1>6, <2>2 DEF TreeOf, ToSet
    <3>2. j \in InUse(D) /\ r \in Rooted(D, j)
      BY <2>2, ReachInUse DEF Rooted
    <3>3. Index(D, j) = Index(D, i)
      BY <1>1, <1>4, <2>2, <3>2, SameProject
    <3> QED BY <3>1, <3>2, <3>3
  <2> QED BY <1>5, <2>1, <2>2
<1>8. PICK j \in InUse(D) : n.doc = D[j].uri /\ Index(D, j) = Index(D, i)
  BY <1>7
<1>9. PICK s \in gws.docs : s.uri = D[j].uri /\ s.project_index = Index(D, j)
  BY <1>1, <1>2, PublishedDocs
<1>10. s \in QueryDocs(gws, d.uri)
  BY <1>3, <1>8, <1>9 DEF QueryDocs
<1> QED BY <1>8, <1>9, <1>10

\* Whatever the editor, the disk and compile_commands.json do, and however small
\* docs[] is, what revalidate_all_docs publishes is made of the present documents:
\* included_uris[] are the directives of the stored text (follow_includes), no handler
\* leaves a change unpublished, project_populate_from_root's queue and visited set
\* compute reachability through cycles and diamonds, build_workspace_snapshot gives
\* a document to the first root that reaches it, no tree holds a document twice
\* (copy_document_into_project), and a query sees every document of the tree it
\* resolves against unless two roots share a file (build_query_context_locked).
THEOREM ProjectsCurrentAlways == Spec => []ProjectsCurrent
<1>1. Sound => ProjectsCurrent
  <2>1. Sound => PublishedCurrent
    BY DEF Sound
  <2> QED BY <2>1, SoundGraph, SoundMembership, SoundContext DEF ProjectsCurrent
<1> QED BY <1>1, WorkspaceInvariance, PTL

-----------------------------------------------------------------------------
(* The text itself.  Workspace takes for granted that an edit which the    *)
(* editor makes to the text that the server holds gives the editor's next  *)
(* text; TextSync says so of the bytes.                                    *)

CONSTANTS Chars, MaxText
VARIABLES buffer, stored
Sync == INSTANCE TextSync WITH client <- buffer, server <- stored

\* The position m of a text whose lines end at the numbers of S.
LineEnds(S, m) == S \cap (1 .. m)
Pos(S, m) == [line |-> Cardinality(LineEnds(S, m)), character |-> m - Max(LineEnds(S, m) \cup {0})]

LEMMA LastEnd ==
  ASSUME NEW S, NEW m \in Nat
  PROVE  LET e == Max(LineEnds(S, m) \cup {0}) IN
         /\ IsFiniteSet(LineEnds(S, m)) /\ Cardinality(LineEnds(S, m)) \in Nat
         /\ e \in 0 .. m /\ e \in LineEnds(S, m) \cup {0}
         /\ \A j \in LineEnds(S, m) : j <= e
<1> DEFINE L == LineEnds(S, m)
           U == L \cup {0}
<1>1. L \subseteq 1 .. m /\ IsFiniteSet(1 .. m)
  BY FS_Interval DEF LineEnds
<1>2. IsFiniteSet(L) /\ Cardinality(L) \in Nat
  BY <1>1, FS_Subset, FS_CardinalityType
<1> HIDE DEF L
<1>3. U \subseteq Int /\ 0 \in U
  BY <1>1
<1>4. CASE L = {}
  <2>1. Max(U) = 0
    BY <1>3, <1>4, MaxIs
  <2> QED BY <1>2, <1>4, <2>1 DEF L
<1>5. CASE L # {}
  <2>1. Max(L) \in L
    BY <1>1, <1>5, MaxIn
  <2>2. \A j \in L : j <= Max(L)
    BY <1>1, <1>5, MaxIn
  <2>5. Max(L) \in 1 .. m
    BY <1>1, <2>1
  <2>3. \A j \in U : j <= Max(L)
    BY <2>2, <2>5
  <2>4. Max(U) = Max(L)
    BY <1>3, <2>1, <2>3, MaxIs
  <2> QED BY <1>1, <1>2, <2>1, <2>2, <2>4 DEF L
<1> QED BY <1>4, <1>5

LEMMA PosStart ==
  ASSUME NEW S
  PROVE  Pos(S, 0) = [line |-> 0, character |-> 0]
<1>1. LineEnds(S, 0) = {}
  BY DEF LineEnds
<1>2. Max({0}) = 0
  BY MaxIs
<1> QED BY <1>1, <1>2, FS_EmptySet DEF Pos

LEMMA PosStep ==
  ASSUME NEW S, NEW m \in Nat, NEW n, n = m + 1
  PROVE  /\ n \in S => Pos(S, n) = [line |-> Pos(S, m).line + 1, character |-> 0]
         /\ n \notin S =>
              Pos(S, n) = [line |-> Pos(S, m).line, character |-> Pos(S, m).character + 1]
<1> DEFINE L == LineEnds(S, m)
           M == LineEnds(S, n)
           e == Max(L \cup {0})
<1>1. IsFiniteSet(L) /\ Cardinality(L) \in Nat /\ e \in 0 .. m /\ L \subseteq 1 .. m
  BY LastEnd DEF LineEnds
<1>2. Pos(S, m).line = Cardinality(L) /\ Pos(S, m).character = m - e
  BY DEF Pos
<1>3. Pos(S, n) = [line |-> Cardinality(M), character |-> n - Max(M \cup {0})]
  BY DEF Pos
<1>4. CASE n \in S
  <2>1. M = L \cup {n} /\ n \notin L
    BY <1>4 DEF LineEnds
  <2> HIDE DEF L, M
  <2>2. Cardinality(M) = Cardinality(L) + 1
    BY <1>1, <2>1, FS_AddElement
  <2>3. M \cup {0} \subseteq Int /\ n \in M \cup {0} /\ \A j \in M \cup {0} : j <= n
    BY <1>1, <2>1
  <2>4. Max(M \cup {0}) = n
    BY <2>3, MaxIs
  <2>5. n - Max(M \cup {0}) = 0
    BY <2>4
  <2> QED BY <1>2, <1>3, <1>4, <2>2, <2>5
<1>5. CASE n \notin S
  <2>1. M = L
    BY <1>5 DEF LineEnds
  <2> HIDE DEF L, M
  <2>2. n - e = m - e + 1
    BY <1>1
  <2> QED BY <1>2, <1>3, <1>5, <2>1, <2>2
<1> QED BY <1>4, <1>5

\* Two places of a text have different positions.
LEMMA PosDiffer ==
  ASSUME NEW S, NEW j \in Nat, NEW k \in Nat, Pos(S, j) = Pos(S, k)
  PROVE  j = k
<1> SUFFICES ASSUME NEW a \in Nat, NEW b \in Nat, a < b, Pos(S, a) = Pos(S, b) PROVE FALSE
  <2>1. j = k \/ j < k \/ k < j
    OBVIOUS
  <2> QED BY <2>1
<1> DEFINE L == LineEnds(S, a)
           M == LineEnds(S, b)
<1>1. L \subseteq M
  BY DEF LineEnds
<1>2. IsFiniteSet(M) /\ Max(L \cup {0}) \in 0 .. a /\ Max(M \cup {0}) \in 0 .. b
  BY LastEnd
<1>3. Cardinality(L) = Cardinality(M) /\ a - Max(L \cup {0}) = b - Max(M \cup {0})
  BY DEF Pos
<1> HIDE DEF L, M
<1>4. L = M
  BY <1>1, <1>2, <1>3, FS_Subset
<1>5. a - Max(L \cup {0}) = b - Max(L \cup {0}) /\ Max(L \cup {0}) \in Int
  BY <1>2, <1>3, <1>4
<1> QED BY ONLY <1>5, a \in Nat, b \in Nat, a < b

\* The position k, reached from the position f by counting the line ends E between.
Reached(S, f, k, E) ==
  Pos(S, k) = [line |-> Pos(S, f).line + Cardinality(E),
               character |-> IF E = {} THEN Pos(S, f).character + (k - f) ELSE k - Max(E)]

LEMMA PosFrom ==
  ASSUME NEW S, NEW f \in Nat, NEW k \in Nat, f <= k, NEW E, E = S \cap (f + 1 .. k)
  PROVE  Reached(S, f, k, E)
<1> DEFINE L == LineEnds(S, f)
           M == LineEnds(S, k)
           e == Max(L \cup {0})
<1>1. M = L \cup E /\ L \cap E = {} /\ E \subseteq 1 .. k /\ L \subseteq 1 .. f /\ \A j \in E : j > f
  BY DEF LineEnds
<1>2. IsFiniteSet(L) /\ Cardinality(L) \in Nat /\ e \in 0 .. f
  BY LastEnd
<1>3. Pos(S, f).line = Cardinality(L) /\ Pos(S, f).character = f - e
  BY DEF Pos
<1>4. Pos(S, k) = [line |-> Cardinality(M), character |-> k - Max(M \cup {0})]
  BY DEF Pos
<1> HIDE DEF L, M
<1>5. IsFiniteSet(E) /\ Cardinality(E) \in Nat
  <2>1. IsFiniteSet(1 .. k)
    BY FS_Interval
  <2> QED BY <1>1, <2>1, FS_Subset, FS_CardinalityType
<1>6. Cardinality(M) = Cardinality(L) + Cardinality(E)
  <2>1. Cardinality(L \cap E) = 0
    BY <1>1, FS_EmptySet
  <2>2. Cardinality(L \cup E) = Cardinality(L) + Cardinality(E) - Cardinality(L \cap E)
    BY <1>2, <1>5, FS_Union
  <2> QED BY <1>1, <1>2, <1>5, <2>1, <2>2
<1>7. CASE E = {}
  <2>1. M = L /\ k - e = f - e + (k - f)
    BY <1>1, <1>2, <1>7
  <2> QED BY <1>3, <1>4, <1>6, <1>7, <2>1 DEF Reached
<1>8. CASE E # {}
  <2>1. Max(E) \in E
    BY <1>1, <1>8, MaxIn
  <2>2. \A j \in E : j <= Max(E)
    BY <1>1, <1>8, MaxIn
  <2>3. M \cup {0} \subseteq Int /\ Max(E) \in M \cup {0} /\ Max(E) \in Int /\ Max(E) > f
    BY <1>1, <2>1
  <2>4. \A j \in M \cup {0} : j <= Max(E)
    <3>1. \A j \in L \cup {0} : j \in Int /\ j <= f
      BY <1>1
    <3>2. \A j \in L \cup {0} : j <= Max(E)
      BY <2>3, <3>1
    <3> QED BY <1>1, <2>2, <3>2
  <2>5. Max(M \cup {0}) = Max(E)
    BY <2>3, <2>4, MaxIs
  <2> QED BY <1>3, <1>4, <1>6, <1>8, <2>5 DEF Reached
<1> QED BY <1>7, <1>8

-----------------------------------------------------------------------------
(* Encoding.                                                               *)

\* The characters of which the server counts as many columns as the editor does.
Char == {"a", "LF", "CRLF"}
Byte == {"a", "LF", "CR"}

LEMMA CharBytes ==
  /\ Sync!Utf8["a"] = <<"a">> /\ Sync!Utf8["LF"] = <<"LF">> /\ Sync!Utf8["CRLF"] = <<"CR", "LF">>
  /\ \A c \in Char : Sync!Utf8[c] \in Seq(Byte)
<1>1. Sync!Utf8["a"] = <<"a">> /\ Sync!Utf8["LF"] = <<"LF">> /\ Sync!Utf8["CRLF"] = <<"CR", "LF">>
  BY DEF Sync!Utf8
<1>2. <<"a">> \in Seq(Byte) /\ <<"LF">> \in Seq(Byte) /\ <<"CR", "LF">> \in Seq(Byte)
  BY DEF Byte
<1> QED BY <1>1, <1>2 DEF Char

\* g[k] are the bytes of the first k characters.
EncRun(g, text) ==
  /\ g \in [0 .. Len(text) -> Seq(Byte)] /\ g[0] = <<>>
  /\ \A k \in 1 .. Len(text) : g[k] = g[k - 1] \o Sync!Utf8[text[k]]

LEMMA EncodeSteps ==
  ASSUME NEW text \in Seq(Char)
  PROVE  \E g : EncRun(g, text) /\ Sync!Encode(text) = g[Len(text)]
<1> DEFINE n == Len(text)
           Q == Seq(Byte)
           F == [k \in 1 .. n |-> [s \in Q |-> s \o Sync!Utf8[text[k]]]]
           sq == [k \in DOMAIN text |-> Sync!Utf8[text[k]]]
           Eqn(h) == h = [i \in 1 .. Len(sq) |-> IF i = 1 THEN sq[i] ELSE h[i - 1] \o sq[i]]
<1>0. n \in Nat /\ DOMAIN text = 1 .. n /\ \A k \in 1 .. n : text[k] \in Char
  BY LenProperties, ElementOfSeq
<1>1. \A k \in 1 .. n : Sync!Utf8[text[k]] \in Q
  BY <1>0, CharBytes
<1>2. F \in [1 .. n -> [Q -> Q]] /\ <<>> \in Q
  <2>1. \A s, t \in Q : s \o t \in Q
    BY ConcatProperties
  <2> QED BY <1>1, <2>1
<1>3. sq \in Seq(Q) /\ Len(sq) = n /\ \A k \in 1 .. n : sq[k] = Sync!Utf8[text[k]]
  <2>1. sq \in [1 .. n -> Q] /\ \A k \in 1 .. n : sq[k] = Sync!Utf8[text[k]]
    BY <1>0, <1>1
  <2> HIDE DEF sq, Q
  <2>2. \A m \in Nat : \A f \in [1 .. m -> Q] : f \in Seq(Q) /\ Len(f) = m
    OBVIOUS
  <2> QED BY <1>0, <2>1, <2>2
<1>4. Sync!Encode(text) = IF Len(sq) = 0 THEN sq ELSE (CHOOSE h : Eqn(h))[Len(sq)]
  BY DEF Sync!Encode, Sync!FlattenSeq
<1> HIDE DEF F, Q, sq
<1>5. PICK g \in [0 .. n -> Q] : Chain(g, n, F, <<>>)
  BY <1>0, <1>2, ChainExists
<1>6. g[0] = <<>> /\ \A k \in 1 .. n : g[k] = g[k - 1] \o Sync!Utf8[text[k]]
  <2>1. \A k \in 1 .. n : k \in 0 .. n /\ k # 0 /\ k - 1 \in 0 .. n /\ g[k - 1] \in Q
    BY <1>0, <1>5
  <2>2. g[0] = <<>> /\ \A k \in 1 .. n : g[k] = F[k][g[k - 1]]
    BY <1>0, <1>5, <2>1 DEF Chain
  <2> QED BY <2>1, <2>2 DEF F
<1>7. EncRun(g, text)
  BY <1>5, <1>6 DEF EncRun, n, Q
<1>8. Sync!Encode(text) = g[n]
  <2>1. CASE n = 0
    <3>1. sq = <<>>
      BY <1>3, <2>1, EmptySeq
    <3> QED BY <1>3, <1>4, <1>6, <2>1, <3>1
  <2>2. CASE n # 0
    <3> DEFINE f == [i \in 1 .. n |-> g[i]]
    <3>1. ASSUME NEW i \in 1 .. n PROVE f[i] = IF i = 1 THEN sq[i] ELSE f[i - 1] \o sq[i]
      <4>1. CASE i = 1
        <5>0. 1 \in 1 .. n /\ 1 - 1 = 0
          BY <4>1
        <5>1. g[1] = g[0] \o sq[1] /\ sq[1] \in Q
          BY <1>1, <1>3, <1>6, <5>0
        <5>2. <<>> \o sq[1] = sq[1]
          BY <5>1, ConcatEmptySeq DEF Q
        <5> QED BY <1>6, <4>1, <5>1, <5>2
      <4>2. CASE i # 1
        <5>1. i - 1 \in 1 .. n
          BY <1>0, <4>2
        <5> QED BY <1>3, <1>6, <4>2, <5>1
      <4> QED BY <4>1, <4>2
    <3>2. Eqn(f)
      BY <1>3, <3>1
    <3> HIDE DEF f
    <3> DEFINE h == CHOOSE x : Eqn(x)
    <3>3. Eqn(h)
      BY <3>2
    <3> HIDE DEF h
    <3>4. \A i \in 1 .. n : h[i] = IF i = 1 THEN sq[i] ELSE h[i - 1] \o sq[i]
      BY <1>3, <3>3
    <3> DEFINE P == {k \in 0 .. n : k = 0 \/ h[k] = f[k]}
    <3>5. 0 \in P
      BY <1>0
    <3>6. ASSUME NEW k \in 0 .. n - 1, k \in P PROVE k + 1 \in P
      <4>1. k + 1 \in 1 .. n /\ k + 1 \in 0 .. n /\ k + 1 - 1 = k /\ (k = 0 <=> k + 1 = 1)
        BY <1>0
      <4>2. h[k + 1] = IF k = 0 THEN sq[k + 1] ELSE h[k] \o sq[k + 1]
        BY <3>4, <4>1
      <4>3. f[k + 1] = IF k = 0 THEN sq[k + 1] ELSE f[k] \o sq[k + 1]
        BY <3>1, <4>1
      <4> QED BY <3>6, <4>1, <4>2, <4>3
    <3> HIDE DEF P
    <3>7. \A k \in 0 .. n : k \in P
      BY <1>0, <3>5, <3>6, UpTo
    <3>8. h[n] = f[n] /\ f[n] = g[n]
      BY <1>0, <2>2, <3>7, n \in 0 .. n, n \in 1 .. n DEF P, f
    <3> QED BY <1>3, <1>4, <2>2, <3>8 DEF h
  <2> QED BY <2>1, <2>2
<1> QED BY <1>7, <1>8 DEF n

LEMMA EncStep ==
  ASSUME NEW text, Len(text) \in Nat, NEW g, EncRun(g, text), NEW k \in 0 .. Len(text) - 1
  PROVE  g[k + 1] = g[k] \o Sync!Utf8[text[k + 1]]
<1> DEFINE j == k + 1
<1>1. j \in 1 .. Len(text) /\ j - 1 = k
  OBVIOUS
<1> HIDE DEF j
<1>2. g[j] = g[j - 1] \o Sync!Utf8[text[j]]
  BY <1>1 DEF EncRun
<1>3. g[j] = g[k] \o Sync!Utf8[text[j]]
  BY <1>1, <1>2
<1> QED BY <1>3 DEF j

\* Texts that begin alike are encoded alike as far.
LEMMA EncRunsAgree ==
  ASSUME NEW s \in Seq(Char), NEW t \in Seq(Char), NEW g, EncRun(g, s), NEW h, EncRun(h, t),
         NEW m \in Nat, m <= Len(s), m <= Len(t), \A k \in 1 .. m : s[k] = t[k]
  PROVE  g[m] = h[m]
<1> DEFINE P == {k \in 0 .. m : g[k] = h[k]}
<1>0. Len(s) \in Nat /\ Len(t) \in Nat
  BY LenProperties
<1>1. 0 \in P
  BY DEF EncRun
<1>2. ASSUME NEW k \in 0 .. m - 1, k \in P PROVE k + 1 \in P
  <2>1. k + 1 \in 1 .. m /\ k \in 0 .. Len(s) - 1 /\ k \in 0 .. Len(t) - 1 /\ k + 1 \in 0 .. m
    BY <1>0
  <2>2. g[k + 1] = g[k] \o Sync!Utf8[s[k + 1]] /\ h[k + 1] = h[k] \o Sync!Utf8[t[k + 1]]
    BY <1>0, <2>1, EncStep
  <2> QED BY <1>2, <2>1, <2>2
<1> HIDE DEF P
<1>3. \A k \in 0 .. m : k \in P
  BY <1>1, <1>2, UpTo
<1> QED BY <1>3, m \in 0 .. m DEF P

\* Encoding goes character by character.
LEMMA EncodeConcat ==
  ASSUME NEW s \in Seq(Char), NEW t \in Seq(Char)
  PROVE  Sync!Encode(s \o t) = Sync!Encode(s) \o Sync!Encode(t) /\ Sync!Encode(s) \in Seq(Byte)
<1> DEFINE u == s \o t
           a == Len(s)
           b == Len(t)
<1>1. /\ u \in Seq(Char) /\ Len(u) = a + b /\ a \in Nat /\ b \in Nat
      /\ \A k \in 1 .. a + b : u[k] = IF k <= a THEN s[k] ELSE t[k - a]
  BY ConcatProperties, LenProperties
<1>2. PICK g : EncRun(g, s) /\ Sync!Encode(s) = g[a]
  BY EncodeSteps
<1>3. PICK h : EncRun(h, t) /\ Sync!Encode(t) = h[b]
  BY EncodeSteps
<1> HIDE DEF u, a, b
<1>4. PICK w : EncRun(w, u) /\ Sync!Encode(u) = w[Len(u)]
  BY <1>1, EncodeSteps
<1>5. w[a] = g[a]
  <2>1. \A k \in 1 .. a : u[k] = s[k]
    BY <1>1
  <2>2. a <= Len(u) /\ a <= Len(s)
    BY <1>1 DEF a
  <2> QED BY <1>1, <1>2, <1>4, <2>1, <2>2, EncRunsAgree
<1>6. /\ \A k \in 0 .. b : h[k] \in Seq(Byte)
      /\ g[a] \in Seq(Byte) /\ h[0] = <<>>
  <2>1. g \in [0 .. a -> Seq(Byte)] /\ h \in [0 .. b -> Seq(Byte)] /\ h[0] = <<>>
    BY <1>2, <1>3 DEF EncRun, a, b
  <2> QED BY <1>1, <2>1, a \in 0 .. a
<1> DEFINE P == {k \in 0 .. b : w[a + k] = g[a] \o h[k]}
<1>7. 0 \in P
  <2>1. g[a] \o <<>> = g[a] /\ a + 0 = a /\ 0 \in 0 .. b
    BY <1>1, <1>6, ConcatEmptySeq
  <2> QED BY <1>5, <1>6, <2>1
<1>8. ASSUME NEW k \in 0 .. b - 1, k \in P PROVE k + 1 \in P
  <2> DEFINE c == Sync!Utf8[t[k + 1]]
             j == a + k + 1
  <2>1. /\ k + 1 \in 1 .. b /\ k + 1 \in 0 .. b /\ k + 1 - 1 = k /\ k \in 0 .. b /\ j \in 1 .. a + b
        /\ j - 1 = a + k /\ j - a = k + 1 /\ ~(j <= a) /\ a + (k + 1) = j
    BY <1>1
  <2> HIDE DEF j
  <2>2. u[j] = t[k + 1]
    BY <1>1, <2>1
  <2>3. w[j] = w[a + k] \o c
    BY <1>1, <1>4, <2>1, <2>2 DEF EncRun
  <2>4. h[k + 1] = h[k] \o c
    BY <1>1, <1>3, EncStep DEF b
  <2>5. c \in Seq(Byte)
    <3>1. t[k + 1] \in Char
      BY <2>1, ElementOfSeq DEF b
    <3> QED BY <3>1, CharBytes
  <2> HIDE DEF c
  <2>6. (g[a] \o h[k]) \o c = g[a] \o (h[k] \o c)
    <3>1. \A x, y, z \in Seq(Byte) : (x \o y) \o z = x \o (y \o z)
      BY ConcatAssociative
    <3>2. g[a] \in Seq(Byte) /\ h[k] \in Seq(Byte)
      BY <1>6, <2>1
    <3> QED BY ONLY <2>5, <3>1, <3>2
  <2> QED BY <1>8, <2>1, <2>3, <2>4, <2>6
<1> HIDE DEF P
<1>9. \A k \in 0 .. b : k \in P
  BY <1>1, <1>7, <1>8, UpTo
<1>10. w[a + b] = g[a] \o h[b]
  BY <1>1, <1>9, b \in 0 .. b DEF P
<1> QED BY <1>1, <1>2, <1>3, <1>4, <1>6, <1>10 DEF u

\* a is the first k elements of s and r the rest.
SplitAt(S, s, k, a, r) ==
  a \in Seq(S) /\ r \in Seq(S) /\ Len(a) = k /\ s = a \o r /\ \A i \in 1 .. k : a[i] = s[i]

LEMMA Split ==
  ASSUME NEW S, NEW s \in Seq(S), NEW k \in 0 .. Len(s),
         NEW a, a = SubSeq(s, 1, k), NEW r, r = SubSeq(s, k + 1, Len(s))
  PROVE  SplitAt(S, s, k, a, r)
<1>1. Len(s) \in Nat /\ \A i \in 1 .. Len(s) : s[i] \in S
  BY LenProperties, ElementOfSeq
<1>2. 1 \in 1 .. Len(s) + 1 /\ k \in 1 - 1 .. Len(s) /\ Len(s) \in k .. Len(s)
  BY <1>1
<1>3. a \o r = SubSeq(s, 1, Len(s))
  BY <1>2, ConcatAdjacentSubSeq
<1>4. SubSeq(s, 1, Len(s)) = s
  BY SubSeqFull
<1>5. (\A i \in 1 .. k : s[i] \in S) /\ (\A i \in k + 1 .. Len(s) : s[i] \in S)
  BY <1>1
<1>6. a \in Seq(S) /\ Len(a) = (IF 1 <= k THEN k - 1 + 1 ELSE 0) /\ \A i \in 1 .. k - 1 + 1 : a[i] = s[1 + i - 1]
  BY <1>1, <1>5, SubSeqProperties
<1>7. r \in Seq(S)
  BY <1>1, <1>5, SubSeqProperties
<1>8. Len(a) = k
  BY <1>1, <1>6
<1>9. \A i \in 1 .. k : a[i] = s[i]
  <2>1. \A i \in 1 .. k : i \in 1 .. k - 1 + 1 /\ 1 + i - 1 = i
    BY <1>1
  <2> QED BY <1>6, <2>1
<1> QED BY <1>3, <1>4, <1>6, <1>7, <1>8, <1>9 DEF SplitAt

LEMMA Unsplit ==
  ASSUME NEW S, NEW a \in Seq(S), NEW r \in Seq(S), NEW s, s = a \o r, NEW n, n = Len(a)
  PROVE  SubSeq(s, 1, n) = a /\ SubSeq(s, n + 1, Len(s)) = r
<1> DEFINE x == SubSeq(s, 1, n)
           y == SubSeq(s, n + 1, Len(s))
           m == Len(r)
<1>1. /\ s \in Seq(S) /\ Len(s) = n + m /\ n \in Nat /\ m \in Nat
      /\ \A i \in 1 .. n + m : s[i] = IF i <= n THEN a[i] ELSE r[i - n]
  BY ConcatProperties, LenProperties
<1>2. \A i \in 1 .. n + m : s[i] \in S
  BY <1>1, ElementOfSeq
<1>3. (\A i \in 1 .. n : s[i] \in S) /\ (\A i \in n + 1 .. n + m : s[i] \in S)
  BY <1>1, <1>2
<1>4. x \in Seq(S) /\ Len(x) = (IF 1 <= n THEN n - 1 + 1 ELSE 0) /\ \A i \in 1 .. n - 1 + 1 : x[i] = s[1 + i - 1]
  BY <1>1, <1>3, SubSeqProperties
<1>5. /\ y \in Seq(S) /\ Len(y) = (IF n + 1 <= n + m THEN n + m - (n + 1) + 1 ELSE 0)
      /\ \A i \in 1 .. n + m - (n + 1) + 1 : y[i] = s[n + 1 + i - 1]
  BY <1>1, <1>3, SubSeqProperties
<1> HIDE DEF x, y, m
<1>6. Len(x) = n /\ Len(y) = m
  BY <1>1, <1>4, <1>5
<1>7. \A i \in 1 .. n : x[i] = a[i]
  <2>1. \A i \in 1 .. n : i \in 1 .. n - 1 + 1 /\ 1 + i - 1 = i /\ i <= n /\ i \in 1 .. n + m
    BY <1>1
  <2> QED BY <1>1, <1>4, <2>1
<1>8. \A i \in 1 .. m : y[i] = r[i]
  <2> SUFFICES ASSUME NEW i \in 1 .. m PROVE y[i] = r[i]
    OBVIOUS
  <2> DEFINE j == n + 1 + i - 1
  <2>1. i \in 1 .. n + m - (n + 1) + 1 /\ j \in 1 .. n + m /\ ~(j <= n) /\ j - n = i
    BY <1>1
  <2>2. y[i] = s[j]
    BY <1>5, <2>1
  <2> HIDE DEF j
  <2>3. s[j] = IF j <= n THEN a[j] ELSE r[j - n]
    BY <1>1, <2>1
  <2> QED BY ONLY <2>1, <2>2, <2>3
<1>9. x = a
  BY <1>4, <1>6, <1>7, SeqEqual
<1>10. y = r
  BY <1>5, <1>6, <1>8, SeqEqual DEF m
<1> QED BY <1>9, <1>10 DEF x, y

\* What precedes a gap of the text is encoded before its place in the bytes.
EncodedAt(text, g, k) ==
  /\ Sync!Encode(SubSeq(text, 1, k)) = g[k]
  /\ Sync!Encode(text) = g[k] \o Sync!Encode(SubSeq(text, k + 1, Len(text)))
  /\ Sync!Encode(SubSeq(text, k + 1, Len(text))) \in Seq(Byte)
  /\ g[k] \in Seq(Byte) /\ Len(g[k]) \in 0 .. Len(Sync!Encode(text))
  /\ \A l \in 1 .. Len(g[k]) : Sync!Encode(text)[l] = g[k][l]

LEMMA EncodeSplit ==
  ASSUME NEW text \in Seq(Char), NEW g, EncRun(g, text), NEW k \in 0 .. Len(text)
  PROVE  EncodedAt(text, g, k)
<1> DEFINE a == SubSeq(text, 1, k)
           r == SubSeq(text, k + 1, Len(text))
           x == Sync!Encode(a)
           y == Sync!Encode(r)
           src == Sync!Encode(text)
<1>0. Len(text) \in Nat /\ k \in Nat
  BY LenProperties
<1>1. a \in Seq(Char) /\ r \in Seq(Char) /\ Len(a) = k /\ text = a \o r /\ \A i \in 1 .. k : a[i] = text[i]
  <2>1. SplitAt(Char, text, k, a, r)
    BY Split
  <2> HIDE DEF a, r
  <2> QED BY <2>1 DEF SplitAt
<1> HIDE DEF a, r
<1>2. src = x \o y /\ x \in Seq(Byte) /\ y \in Seq(Byte)
  BY <1>1, EncodeConcat
<1>3. PICK h : EncRun(h, a) /\ x = h[k]
  BY <1>1, EncodeSteps
<1>4. h[k] = g[k]
  <2>1. k <= Len(a) /\ k <= Len(text)
    BY <1>0, <1>1
  <2>2. a \in Seq(Char) /\ \A i \in 1 .. k : a[i] = text[i]
    BY <1>1
  <2> QED BY ONLY text \in Seq(Char), EncRun(g, text), <1>0, <1>3, <2>1, <2>2, EncRunsAgree
<1> HIDE DEF x, y, src
<1>5. /\ Len(x \o y) = Len(x) + Len(y) /\ Len(x) \in Nat /\ Len(y) \in Nat
      /\ \A i \in 1 .. Len(x) + Len(y) : (x \o y)[i] = IF i <= Len(x) THEN x[i] ELSE y[i - Len(x)]
  BY <1>2, ConcatProperties, LenProperties
<1>6. Len(x) \in 0 .. Len(src) /\ \A l \in 1 .. Len(x) : src[l] = x[l]
  BY <1>2, <1>5
<1>7. x = g[k]
  BY <1>3, <1>4
<1>8. src = g[k] \o y /\ y \in Seq(Byte) /\ g[k] \in Seq(Byte) /\ Len(g[k]) \in 0 .. Len(src)
      /\ \A l \in 1 .. Len(g[k]) : src[l] = g[k][l]
  BY <1>2, <1>6, <1>7
<1> QED BY <1>7, <1>8 DEF EncodedAt, x, y, src, a, r

-----------------------------------------------------------------------------
(* Positions in the text and in its bytes.                                 *)

TextEnds(text) == {l \in 1 .. Len(text) : Sync!EndsLine(text[l])}
ByteEnds(src) == {l \in 1 .. Len(src) : src[l] = "LF"}

LEMMA SameMax == \A S : Sync!Max(S) = Max(S)
BY DEF Sync!Max, Max

LEMMA SameCardinality == \A S : Sync!Cardinality(S) = Cardinality(S)
BY DEF Sync!Cardinality, Cardinality

LEMMA PositionIs ==
  ASSUME NEW text \in Seq(Char), NEW k \in 0 .. Len(text)
  PROVE  Sync!PositionOf(text, k) = Pos(TextEnds(text), k)
<1> DEFINE ends == {l \in 1 .. k : Sync!EndsLine(text[l])}
<1>1. ends = LineEnds(TextEnds(text), k)
  <2>1. Len(text) \in Nat
    BY LenProperties
  <2> QED BY <2>1 DEF LineEnds, TextEnds
<1>2. Sync!PositionOf(text, k) = [line |-> Sync!Cardinality(ends), character |-> k - Sync!Max(ends \cup {0})]
  BY DEF Sync!PositionOf
<1> HIDE DEF ends
<1> QED BY <1>1, <1>2, SameMax, SameCardinality DEF Pos

\* The position of a gap is the position of its place in the bytes.
LEMMA PositionsAgree ==
  ASSUME NEW text \in Seq(Char), NEW g, EncRun(g, text), NEW src, src = Sync!Encode(text)
  PROVE  \A k \in 0 .. Len(text) : Pos(TextEnds(text), k) = Pos(ByteEnds(src), Len(g[k]))
<1> DEFINE n == Len(text)
           T == TextEnds(text)
           B == ByteEnds(src)
           P == {k \in 0 .. n : Pos(T, k) = Pos(B, Len(g[k]))}
<1>0. n \in Nat /\ \A k \in 1 .. n : text[k] \in Char
  BY LenProperties, ElementOfSeq
<1>1. \A k \in 0 .. n : /\ g[k] \in Seq(Byte) /\ Len(g[k]) \in 0 .. Len(src)
                        /\ \A l \in 1 .. Len(g[k]) : src[l] = g[k][l]
  <2>1. \A k \in 0 .. n : EncodedAt(text, g, k)
    BY EncodeSplit
  <2> QED BY <2>1 DEF EncodedAt
<1>2. Len(src) \in Nat
  <2>1. PICK h : EncRun(h, text) /\ src = h[n]
    BY EncodeSteps
  <2>2. src \in Seq(Byte)
    BY <1>0, <2>1, n \in 0 .. n DEF EncRun
  <2> QED BY <2>2, LenProperties
<1>3. 0 \in P
  <2>1. g[0] = <<>> /\ Len(<<>>) = 0
    BY DEF EncRun
  <2> QED BY <1>0, <2>1, PosStart
<1>4. ASSUME NEW k \in 0 .. n - 1, k \in P PROVE k + 1 \in P
  <2> DEFINE c == text[k + 1]
             m == Len(g[k])
             j == k + 1
  <2>1. j \in 1 .. n /\ j \in 0 .. n /\ k \in 0 .. n /\ k \in Nat /\ c \in Char
    BY <1>0
  <2>2. g[k] \in Seq(Byte) /\ m \in Nat /\ Pos(T, k) = Pos(B, m)
    BY <1>1, <1>4, <2>1, LenProperties
  <2>3. g[j] = g[k] \o Sync!Utf8[c]
    BY <1>0, EncStep DEF n
  <2>4. Sync!Utf8[c] \in Seq(Byte)
    BY <2>1, CharBytes
  <2>5. /\ Len(g[j]) = m + Len(Sync!Utf8[c]) /\ Len(g[j]) \in 0 .. Len(src)
        /\ \A l \in 1 .. m + Len(Sync!Utf8[c]) : g[j][l] = IF l <= m THEN g[k][l] ELSE Sync!Utf8[c][l - m]
    <3>1. /\ Len(g[k] \o Sync!Utf8[c]) = m + Len(Sync!Utf8[c])
          /\ \A l \in 1 .. m + Len(Sync!Utf8[c]) :
               (g[k] \o Sync!Utf8[c])[l] = IF l <= m THEN g[k][l] ELSE Sync!Utf8[c][l - m]
      BY <2>2, <2>4, ConcatProperties
    <3> QED BY <1>1, <2>1, <2>3, <3>1
  <2>6. \A l \in 1 .. Len(g[j]) : src[l] = g[j][l]
    BY <1>1, <2>1
  <2>7. Sync!EndsLine(c) <=> c \in {"LF", "CRLF"}
    BY DEF Sync!EndsLine
  <2>8. j \in T <=> Sync!EndsLine(c)
    BY <2>1 DEF TextEnds
  <2>9. \A l \in 1 .. Len(g[j]) : l \in B <=> src[l] = "LF"
    <3>2. \A x \in 0 .. Len(src) : \A l \in 1 .. x : l \in 1 .. Len(src)
      BY <1>2
    <3>3. Len(g[j]) \in 0 .. Len(src)
      BY <2>5
    <3>1. \A l \in 1 .. Len(g[j]) : l \in 1 .. Len(src)
      BY ONLY <3>2, <3>3
    <3> QED BY <3>1 DEF ByteEnds
  <2> HIDE DEF c, m, T, B
  <2>10. Sync!EndsLine(c) => Pos(T, j) = [line |-> Pos(T, k).line + 1, character |-> 0]
    BY <2>1, <2>8, PosStep
  <2>11. ~Sync!EndsLine(c) => Pos(T, j) = [line |-> Pos(T, k).line, character |-> Pos(T, k).character + 1]
    BY <2>1, <2>8, PosStep
  <2>12. CASE c = "a" \/ c = "LF"
    <3> DEFINE o == m + 1
    <3>1. Len(Sync!Utf8[c]) = 1 /\ Sync!Utf8[c][1] = c
      <4>1. \A s, x : s = <<x>> => Len(s) = 1 /\ s[1] = x
        OBVIOUS
      <4>2. c = "a" => Sync!Utf8[c] = <<"a">>
        BY CharBytes
      <4>3. c = "LF" => Sync!Utf8[c] = <<"LF">>
        BY CharBytes
      <4>4. CASE c = "a"
        BY <4>1, <4>2, <4>4
      <4>5. CASE c = "LF"
        BY <4>1, <4>3, <4>5
      <4> QED BY <2>12, <4>4, <4>5
    <3>2. o \in 1 .. m + 1 /\ ~(o <= m) /\ o - m = 1 /\ Len(g[j]) = o
      BY <2>2, <2>5, <3>1
    <3>3. src[o] = c
      BY <2>2, <2>5, <2>6, <3>1, <3>2
    <3>4. o \in B <=> c = "LF"
      BY <2>9, <3>2, <3>3
    <3>5. /\ o \in B => Pos(B, o) = [line |-> Pos(B, m).line + 1, character |-> 0]
          /\ o \notin B => Pos(B, o) = [line |-> Pos(B, m).line, character |-> Pos(B, m).character + 1]
      BY <2>2, PosStep
    <3> HIDE DEF o
    <3>6. Pos(T, j) = Pos(B, o)
      BY <2>2, <2>7, <2>10, <2>11, <2>12, <3>4, <3>5
    <3> QED BY <2>1, <3>2, <3>6
  <2>13. CASE c = "CRLF"
    <3> DEFINE o == m + 1
               p == o + 1
    <3>1. Len(Sync!Utf8[c]) = 2 /\ Sync!Utf8[c][1] = "CR" /\ Sync!Utf8[c][2] = "LF"
      BY <2>13, CharBytes
    <3>2. /\ o \in 1 .. m + 2 /\ ~(o <= m) /\ o - m = 1 /\ o \in Nat
          /\ p \in 1 .. m + 2 /\ ~(p <= m) /\ p - m = 2 /\ Len(g[j]) = p /\ Len(g[j]) = m + 2
      BY <2>2, <2>5, <3>1
    <3>3. src[o] = "CR" /\ src[p] = "LF"
      BY <2>2, <2>5, <2>6, <3>1, <3>2
    <3>4. o \notin B /\ p \in B
      BY <2>9, <3>2, <3>3
    <3>5. Pos(B, o).line = Pos(B, m).line
      BY <2>2, <3>4, PosStep
    <3> HIDE DEF o
    <3>6. Pos(B, p) = [line |-> Pos(B, o).line + 1, character |-> 0]
      BY <3>2, <3>4, PosStep
    <3> HIDE DEF p
    <3>7. Pos(T, j) = Pos(B, p)
      BY <2>2, <2>7, <2>10, <2>13, <3>5, <3>6
    <3> QED BY <2>1, <3>2, <3>7
  <2> QED BY <2>1, <2>12, <2>13 DEF Char
<1> HIDE DEF P
<1>5. \A k \in 0 .. n : k \in P
  BY <1>0, <1>3, <1>4, UpTo
<1> QED BY <1>5 DEF P, n, T, B

\* The scan goes to the place that has the position it looks for.
LEMMA ScanFinds ==
  ASSUME NEW src \in Seq(Byte), NEW f \in 0 .. Len(src), NEW t \in 0 .. Len(src), f <= t,
         NEW B, B = ByteEnds(src), NEW p, p = Pos(B, f)
  PROVE  Sync!Scan(src, f, p, Pos(B, t)) = t
<1> DEFINE n == Len(src)
           E(k) == {l \in f + 1 .. k : src[l] = "LF"}
           at(k) == [line |-> p.line + Sync!Cardinality(E(k)),
                     character |-> IF E(k) = {} THEN p.character + (k - f) ELSE k - Sync!Max(E(k))]
           hits == {k \in f .. n : at(k) = Pos(B, t)}
<1>0. n \in Nat /\ f \in Nat /\ t \in Nat /\ \A k \in f .. n : k \in Nat /\ f <= k
  BY LenProperties
<1>1. Sync!Scan(src, f, p, Pos(B, t)) = IF hits = {} THEN n ELSE Sync!Min(hits)
  BY DEF Sync!Scan
<1>2. ASSUME NEW k \in f .. n PROVE at(k) = Pos(B, k)
  <2>1. E(k) = B \cap (f + 1 .. k)
    BY <1>0 DEF ByteEnds
  <2>2. k \in Nat /\ f <= k
    BY <1>0
  <2> DEFINE e == E(k)
  <2>3. at(k) = [line |-> p.line + Cardinality(e), character |-> IF e = {} THEN p.character + (k - f) ELSE k - Max(e)]
    BY SameMax, SameCardinality
  <2> HIDE DEF e, at
  <2>4. e = B \cap (f + 1 .. k)
    BY <2>1 DEF e
  <2> HIDE DEF E
  <2>5. Pos(B, k) = [line |-> Pos(B, f).line + Cardinality(e),
                     character |-> IF e = {} THEN Pos(B, f).character + (k - f) ELSE k - Max(e)]
    <3>1. f \in Nat /\ k \in Nat /\ f <= k
      BY <1>0, <2>2
    <3>2. Reached(B, f, k, e)
      BY ONLY <2>4, <3>1, PosFrom
    <3> QED BY <3>2 DEF Reached
  <2> QED BY <2>3, <2>5
<1> HIDE DEF at, E
<1>3. hits = {t}
  <2>1. t \in f .. n
    BY <1>0
  <2>2. \A k \in f .. n : at(k) = Pos(B, t) => k = t
    BY <1>0, <1>2, PosDiffer
  <2> QED BY <1>2, <2>1, <2>2
<1> HIDE DEF hits
<1>4. Sync!Min({t}) = t
  BY <1>0 DEF Sync!Min
<1> QED BY <1>1, <1>3, <1>4

\* Wherever it looks, it stays in the text.
LEMMA ScanStays ==
  ASSUME NEW src \in Seq(Byte), NEW f \in 0 .. Len(src), NEW p, NEW q
  PROVE  Sync!Scan(src, f, p, q) \in 0 .. Len(src)
<1> DEFINE n == Len(src)
           E(k) == {l \in f + 1 .. k : src[l] = "LF"}
           at(k) == [line |-> p.line + Sync!Cardinality(E(k)),
                     character |-> IF E(k) = {} THEN p.character + (k - f) ELSE k - Sync!Max(E(k))]
           hits == {k \in f .. n : at(k) = q}
<1>0. n \in Nat /\ f \in Nat
  BY LenProperties
<1>1. Sync!Scan(src, f, p, q) = IF hits = {} THEN n ELSE Sync!Min(hits)
  BY DEF Sync!Scan
<1> HIDE DEF at
<1>2. hits \subseteq f .. n /\ hits \subseteq Nat
  BY <1>0
<1> HIDE DEF hits
<1>3. CASE hits = {}
  BY <1>0, <1>1, <1>3
<1>4. CASE hits # {}
  <2>1. PICK m \in hits : \A k \in hits : m <= k
    BY <1>2, <1>4, LeastNumber
  <2>2. Sync!Min(hits) \in hits
    BY <2>1 DEF Sync!Min
  <2> DEFINE x == Sync!Min(hits)
  <2> HIDE DEF x
  <2>3. x \in f .. n
    BY <1>2, <2>2 DEF x
  <2>4. x \in 0 .. n
    BY ONLY <1>0, <2>3
  <2>5. Sync!Scan(src, f, p, q) = x
    BY <1>1, <1>4 DEF x
  <2> QED BY <2>4, <2>5
<1> QED BY <1>3, <1>4

LEMMA ChangeTyped ==
  ASSUME NEW src \in Seq(Byte), NEW c, c.new \in Seq(Byte)
  PROVE  Sync!ApplyChange(src, c) \in Seq(Byte)
<1> DEFINE n == Len(src)
           f == Sync!Scan(src, 0, Sync!Origin, c.start)
           t == Sync!Scan(src, f, c.start, c.stop)
           x == SubSeq(src, 1, f)
           y == SubSeq(src, t + 1, n)
<1>0. n \in Nat /\ 0 \in 0 .. n /\ \A i \in 1 .. n : src[i] \in Byte
  BY LenProperties, ElementOfSeq
<1>1. f \in 0 .. n
  BY <1>0, ScanStays
<1>2. t \in 0 .. n
  BY <1>1, ScanStays
<1>3. Sync!ApplyChange(src, c) = IF c.kind = "full" THEN c.new ELSE x \o c.new \o y
  BY DEF Sync!ApplyChange, Sync!apply_incremental_change
<1> HIDE DEF f, t
<1>4. x \in Seq(Byte)
  <2>1. 1 \in Int /\ f \in Int /\ \A i \in 1 .. f : src[i] \in Byte
    BY <1>0, <1>1
  <2> QED BY <2>1, SubSeqProperties
<1>5. y \in Seq(Byte)
  <2>1. t + 1 \in Int /\ n \in Int /\ \A i \in t + 1 .. n : src[i] \in Byte
    BY <1>0, <1>2
  <2> QED BY <2>1, SubSeqProperties
<1> HIDE DEF x, y
<1>6. x \o c.new \o y \in Seq(Byte)
  BY <1>4, <1>5, ConcatProperties
<1> QED BY <1>3, <1>6

\* A later gap of the text is not earlier in the bytes.
LEMMA EncGrows ==
  ASSUME NEW text \in Seq(Char), NEW g, EncRun(g, text)
  PROVE  \A k \in 0 .. Len(text) : \A j \in 0 .. k : Len(g[j]) <= Len(g[k])
<1> DEFINE n == Len(text)
           P == {k \in 0 .. n : \A j \in 0 .. k : Len(g[j]) <= Len(g[k])}
<1>0. n \in Nat /\ \A k \in 1 .. n : text[k] \in Char
  BY LenProperties, ElementOfSeq
<1>1. \A k \in 0 .. n : g[k] \in Seq(Byte) /\ Len(g[k]) \in Nat
  BY LenProperties DEF EncRun
<1>2. 0 \in P
  BY <1>0, <1>1
<1>3. ASSUME NEW k \in 0 .. n - 1, k \in P PROVE k + 1 \in P
  <2> DEFINE j == k + 1
             c == Sync!Utf8[text[j]]
  <2>1. j \in 1 .. n /\ j \in 0 .. n /\ k \in 0 .. n /\ k \in Nat
    BY <1>0
  <2>2. c \in Seq(Byte)
    BY <1>0, <2>1, CharBytes
  <2>3. g[j] = g[k] \o c
    BY <1>0, EncStep
  <2> HIDE DEF c
  <2>4. Len(g[j]) = Len(g[k]) + Len(c) /\ Len(c) \in Nat
    BY <1>1, <2>1, <2>2, <2>3, ConcatProperties, LenProperties
  <2>5. \A i \in 0 .. j : i = j \/ i \in 0 .. k
    BY <2>1
  <2>6. \A i \in 0 .. k : i \in 0 .. n /\ Len(g[i]) <= Len(g[k])
    BY <1>0, <1>3
  <2> HIDE DEF j
  <2>7. \A i \in 0 .. j : Len(g[i]) <= Len(g[j])
    <3> SUFFICES ASSUME NEW i \in 0 .. j PROVE Len(g[i]) <= Len(g[j])
      OBVIOUS
    <3>1. CASE i = j
      BY <1>1, <2>1, <3>1
    <3>2. CASE i \in 0 .. k
      <4>1. Len(g[i]) \in Nat /\ Len(g[k]) \in Nat /\ Len(g[i]) <= Len(g[k])
        BY <1>1, <2>1, <2>6, <3>2
      <4> QED BY ONLY <2>4, <4>1
    <3> QED BY <2>5, <3>1, <3>2
  <2> QED BY <2>1, <2>7 DEF j
<1> HIDE DEF P
<1>4. \A k \in 0 .. n : k \in P
  BY <1>0, <1>2, <1>3, UpTo
<1> QED BY <1>4 DEF P

\* An edit of the editor, applied to the bytes of its text, gives the bytes of the edited text.
LEMMA EditApplied ==
  ASSUME NEW text \in Seq(Char), Chars \subseteq Char, NEW e \in Sync!Edits(text)
  PROVE  /\ Sync!Edited(text, e) \in Seq(Char)
         /\ Sync!ApplyChange(Sync!Encode(text), Sync!Sent(text, e)) = Sync!Encode(Sync!Edited(text, e))
         /\ Sync!Sent(text, e).kind = "range" /\ Sync!Sent(text, e).new \in Seq(Byte)
<1> DEFINE n == Len(text)
           src == Sync!Encode(text)
           B == ByteEnds(src)
           a == SubSeq(text, 1, e.from)
           r == SubSeq(text, e.to + 1, n)
<1>0. n \in Nat
  BY LenProperties
<1>1. /\ e.from \in 0 .. n /\ e.to \in 0 .. n /\ e.from <= e.to
      /\ e.new = <<>> \/ \E c \in Chars : e.new = <<c>>
  BY DEF Sync!Edits
<1>2. e.new \in Seq(Char)
  <2>1. <<>> \in Seq(Char) /\ \A c \in Char : <<c>> \in Seq(Char)
    OBVIOUS
  <2> QED BY <1>1, <2>1
<1>3. PICK g : EncRun(g, text) /\ src = g[n]
  BY EncodeSteps
<1> DEFINE f == Len(g[e.from])
           t == Len(g[e.to])
<1>4. EncodedAt(text, g, e.from) /\ EncodedAt(text, g, e.to)
  BY <1>1, <1>3, EncodeSplit
<1>5. a \in Seq(Char) /\ r \in Seq(Char)
  <2>1. SplitAt(Char, text, e.from, a, SubSeq(text, e.from + 1, n))
    BY <1>1, Split
  <2>2. SplitAt(Char, text, e.to, SubSeq(text, 1, e.to), r)
    BY <1>1, Split
  <2> QED BY <2>1, <2>2 DEF SplitAt
<1>6. src \in Seq(Byte) /\ Len(src) \in Nat
  <2>1. src \in Seq(Byte)
    BY <1>0, <1>3, n \in 0 .. n DEF EncRun
  <2> QED BY <2>1, LenProperties
<1>7. f \in 0 .. Len(src) /\ t \in 0 .. Len(src)
  BY <1>4 DEF EncodedAt
<1>8. Sync!PositionOf(text, e.from) = Pos(B, f) /\ Sync!PositionOf(text, e.to) = Pos(B, t)
  BY <1>1, <1>3, PositionIs, PositionsAgree
<1>9. f <= t
  <2>1. e.from \in 0 .. e.to
    BY <1>0, <1>1
  <2> QED BY <1>1, <1>3, <2>1, EncGrows
<1> DEFINE p == Sync!PositionOf(text, e.from)
           q == Sync!PositionOf(text, e.to)
           w == Sync!Encode(e.new)
           y == Sync!Encode(r)
<1>10. Sync!Scan(src, 0, Sync!Origin, p) = f
  <2>1. Sync!Origin = Pos(B, 0)
    BY PosStart DEF Sync!Origin
  <2>2. 0 \in 0 .. Len(src) /\ 0 <= f
    BY <1>6, <1>7
  <2> HIDE DEF src, B, f
  <2>3. B = ByteEnds(src)
    BY DEF B
  <2> QED BY <1>6, <1>7, <1>8, <2>1, <2>2, <2>3, ScanFinds
<1>11. Sync!Scan(src, f, p, q) = t
  <2>1. B = ByteEnds(src)
    OBVIOUS
  <2> HIDE DEF src, B, f, t
  <2> QED BY <1>6, <1>7, <1>8, <1>9, <2>1, ScanFinds
<1>12. SubSeq(src, 1, f) = Sync!Encode(a)
  <2> DEFINE x == g[e.from]
             z == Sync!Encode(SubSeq(text, e.from + 1, n))
  <2>1. src = x \o z /\ z \in Seq(Byte) /\ x \in Seq(Byte) /\ Sync!Encode(a) = x /\ f = Len(x)
    BY <1>4 DEF EncodedAt
  <2> HIDE DEF src, x, z, f
  <2>2. SubSeq(src, 1, f) = x
    BY ONLY <2>1, Unsplit
  <2> QED BY <2>1, <2>2
<1>13. SubSeq(src, t + 1, Len(src)) = y
  <2> DEFINE x == g[e.to]
  <2>1. src = x \o y /\ y \in Seq(Byte) /\ x \in Seq(Byte) /\ t = Len(x)
    BY <1>4 DEF EncodedAt
  <2> HIDE DEF src, x, y, t
  <2> QED BY ONLY <2>1, Unsplit
<1>14. Sync!Sent(text, e) = [kind |-> "range", start |-> p, stop |-> q, new |-> w]
  BY DEF Sync!Sent
<1>15. w \in Seq(Byte) /\ a \o e.new \in Seq(Char)
  <2> HIDE DEF a
  <2> QED BY <1>2, <1>5, EncodeConcat, ConcatProperties
<1>16. Sync!Edited(text, e) = (a \o e.new) \o r
  BY DEF Sync!Edited
<1> HIDE DEF a, r
<1>17. /\ (a \o e.new) \o r \in Seq(Char)
       /\ Sync!Encode((a \o e.new) \o r) = (Sync!Encode(a) \o w) \o y
  <2>1. Sync!Encode(a \o e.new) = Sync!Encode(a) \o w
    BY <1>2, <1>5, EncodeConcat
  <2>2. Sync!Encode((a \o e.new) \o r) = Sync!Encode(a \o e.new) \o y
    BY <1>5, <1>15, EncodeConcat
  <2> QED BY <1>5, <1>15, <2>1, <2>2, ConcatProperties
<1> HIDE DEF p, q, w, y, src, f, t
<1>18. Sync!ApplyChange(src, Sync!Sent(text, e)) = (SubSeq(src, 1, f) \o w) \o SubSeq(src, t + 1, Len(src))
  <2> DEFINE c == [kind |-> "range", start |-> p, stop |-> q, new |-> w]
  <2>1. c.kind = "range" /\ c.start = p /\ c.stop = q /\ c.new = w
    OBVIOUS
  <2>2. Sync!Sent(text, e) = c
    BY <1>14
  <2> HIDE DEF c
  <2>3. Sync!ApplyChange(src, c) = Sync!apply_incremental_change(src, p, q, w)
    BY <2>1 DEF Sync!ApplyChange
  <2>4. Sync!apply_incremental_change(src, p, q, w) = (SubSeq(src, 1, f) \o w) \o SubSeq(src, t + 1, Len(src))
    BY <1>10, <1>11 DEF Sync!apply_incremental_change
  <2> QED BY <2>2, <2>3, <2>4
<1>19. Sync!ApplyChange(src, Sync!Sent(text, e)) = Sync!Encode(Sync!Edited(text, e))
  BY <1>12, <1>13, <1>16, <1>17, <1>18
<1>20. Sync!Sent(text, e).kind = "range" /\ Sync!Sent(text, e).new = w
  BY <1>14
<1> QED BY <1>15, <1>16, <1>17, <1>19, <1>20 DEF src

\* h[k] is the text after the first k changes of a notification.
ChangeRun(h, src, changes, n) ==
  h[0] = src /\ \A k \in 1 .. n : h[k] = Sync!ApplyChange(h[k - 1], changes[k])

Usable(changes, n) ==
  DOMAIN changes = 1 .. n /\ \A k \in 1 .. n : changes[k].new \in Seq(Byte) /\ changes[k].kind # "unusable"

\* The changes of a notification are applied in their order, each to the result of the one before.
LEMMA ChangesApplied ==
  ASSUME NEW src \in Seq(Byte), NEW changes, NEW n \in Nat, Usable(changes, n)
  PROVE  \E h : ChangeRun(h, src, changes, n) /\ Sync!apply_content_changes(src, changes) = h[n]
<1> DEFINE Q == Seq(Byte)
           F == [k \in 1 .. n |-> [s \in Q |-> Sync!ApplyChange(s, changes[k])]]
           Eqn(it) == it = [t \in SUBSET (1 .. n) |-> IF t = {} THEN src
                              ELSE Sync!ApplyChange(it[t \ {Sync!Max(t)}], changes[Sync!Max(t)])]
<1>0. /\ DOMAIN changes = 1 .. n
      /\ \A k \in 1 .. n : changes[k].new \in Seq(Byte) /\ changes[k].kind # "unusable"
  BY DEF Usable
<1>1. F \in [1 .. n -> [Q -> Q]] /\ src \in Q
  <2>1. \A k \in 1 .. n : \A s \in Q : Sync!ApplyChange(s, changes[k]) \in Q
    BY <1>0, ChangeTyped
  <2> QED BY <2>1
<1> HIDE DEF F, Q
<1>2. PICK it \in [SUBSET (1 .. n) -> Q] : Folds(it, n, F, src)
  BY <1>1, FoldExists
<1>3. Eqn(it)
  <2>1. ASSUME NEW t \in SUBSET (1 .. n), t # {}
        PROVE  F[Max(t)][it[t \ {Max(t)}]] = Sync!ApplyChange(it[t \ {Max(t)}], changes[Max(t)])
    <3>1. Max(t) \in 1 .. n /\ t \ {Max(t)} \in SUBSET (1 .. n)
      BY <2>1, MaxIn
    <3>2. it[t \ {Max(t)}] \in Q
      BY <3>1
    <3> QED BY <3>1, <3>2 DEF F
  <2>2. \A t \in SUBSET (1 .. n) :
          it[t] = IF t = {} THEN src ELSE Sync!ApplyChange(it[t \ {Max(t)}], changes[Max(t)])
    BY <1>2, <2>1 DEF Folds
  <2>3. \A t \in SUBSET (1 .. n) :
          it[t] = IF t = {} THEN src ELSE Sync!ApplyChange(it[t \ {Sync!Max(t)}], changes[Sync!Max(t)])
    BY <2>2, SameMax
  <2> QED BY <2>3
<1> DEFINE g == CHOOSE h : Eqn(h)
           f == [k \in 0 .. n |-> g[1 .. k]]
<1>4. Eqn(g)
  BY <1>3
<1>5. Sync!apply_content_changes(src, changes) = g[1 .. n]
  <2>1. ~ \E k \in DOMAIN changes : changes[k].kind = "unusable"
    BY <1>0
  <2>2. Sync!apply_content_changes(src, changes) = Sync!FoldLeft(Sync!ApplyChange, src, changes)
    BY <2>1 DEF Sync!apply_content_changes
  <2>3. Sync!FoldLeft(Sync!ApplyChange, src, changes) = g[1 .. n]
    BY <1>0 DEF Sync!FoldLeft, Sync!MapThenFoldSet
  <2> QED BY <2>2, <2>3
<1> HIDE DEF g
<1>6. f[0] = src
  <2>1. 1 .. 0 = {} /\ {} \in SUBSET (1 .. n) /\ 0 \in 0 .. n
    OBVIOUS
  <2> QED BY <1>4, <2>1
<1>7. ASSUME NEW k \in 1 .. n PROVE f[k] = Sync!ApplyChange(f[k - 1], changes[k])
  <2>1. /\ 1 .. k \in SUBSET (1 .. n) /\ 1 .. k # {} /\ Max(1 .. k) = k
        /\ (1 .. k) \ {k} = 1 .. (k - 1) /\ k - 1 \in 0 .. n /\ k \in 0 .. n
    BY Interval
  <2>2. f[k - 1] = g[1 .. (k - 1)] /\ f[k] = g[1 .. k]
    BY <2>1
  <2>3. g[1 .. k] = Sync!ApplyChange(g[(1 .. k) \ {k}], changes[k])
    BY <1>4, <2>1, SameMax
  <2> QED BY <2>1, <2>2, <2>3
<1>8. f[n] = g[1 .. n]
  BY n \in 0 .. n
<1> HIDE DEF f
<1>9. ChangeRun(f, src, changes, n)
  BY <1>6, <1>7 DEF ChangeRun
<1> QED BY <1>5, <1>8, <1>9

LEMMA OneChange ==
  ASSUME NEW src \in Seq(Byte), NEW c, c.new \in Seq(Byte), c.kind # "unusable"
  PROVE  Sync!apply_content_changes(src, <<c>>) = Sync!ApplyChange(src, c)
<1> DEFINE s == <<c>>
<1>1. DOMAIN s = 1 .. 1 /\ s[1] = c
  OBVIOUS
<1> HIDE DEF s
<1>2. Usable(s, 1)
  BY <1>1 DEF Usable
<1>3. PICK h : ChangeRun(h, src, s, 1) /\ Sync!apply_content_changes(src, s) = h[1]
  BY <1>2, ChangesApplied
<1>4. 1 \in 1 .. 1 /\ 1 - 1 = 0
  OBVIOUS
<1>5. h[1] = Sync!ApplyChange(src, c)
  BY <1>1, <1>3, <1>4 DEF ChangeRun
<1> QED BY <1>3, <1>5 DEF s

LEMMA TwoChanges ==
  ASSUME NEW src \in Seq(Byte), NEW c, c.new \in Seq(Byte), c.kind # "unusable",
         NEW d, d.new \in Seq(Byte), d.kind # "unusable"
  PROVE  Sync!apply_content_changes(src, <<c, d>>) = Sync!ApplyChange(Sync!ApplyChange(src, c), d)
<1> DEFINE s == <<c, d>>
<1>1. DOMAIN s = 1 .. 2 /\ s[1] = c /\ s[2] = d
  OBVIOUS
<1> HIDE DEF s
<1>2. Usable(s, 2)
  <2>1. \A k \in 1 .. 2 : k = 1 \/ k = 2
    OBVIOUS
  <2> QED BY <1>1, <2>1 DEF Usable
<1>3. PICK h : ChangeRun(h, src, s, 2) /\ Sync!apply_content_changes(src, s) = h[2]
  BY <1>2, ChangesApplied
<1>4. 1 \in 1 .. 2 /\ 1 - 1 = 0 /\ 2 \in 1 .. 2 /\ 2 - 1 = 1
  OBVIOUS
<1>5. h[1] = Sync!ApplyChange(src, c)
  BY <1>1, <1>3, <1>4 DEF ChangeRun
<1>6. h[2] = Sync!ApplyChange(h[1], d)
  BY <1>1, <1>3, <1>4 DEF ChangeRun
<1> QED BY <1>3, <1>5, <1>6 DEF s

\* What a notification does to the bytes of the editor's text.
LEMMA OneEdit ==
  ASSUME NEW text \in Seq(Char), Chars \subseteq Char, NEW e \in Sync!Edits(text)
  PROVE  /\ Sync!Edited(text, e) \in Seq(Char)
         /\ Sync!apply_content_changes(Sync!Encode(text), <<Sync!Sent(text, e)>>)
              = Sync!Encode(Sync!Edited(text, e))
<1> DEFINE src == Sync!Encode(text)
           c == Sync!Sent(text, e)
           d == Sync!Edited(text, e)
<1>1. /\ d \in Seq(Char) /\ Sync!ApplyChange(src, c) = Sync!Encode(d)
      /\ c.kind = "range" /\ c.new \in Seq(Byte)
  BY EditApplied
<1>2. src \in Seq(Byte)
  BY EncodeConcat
<1> HIDE DEF src, c, d
<1>3. c.kind # "unusable"
  BY <1>1
<1>4. Sync!apply_content_changes(src, <<c>>) = Sync!ApplyChange(src, c)
  BY <1>1, <1>2, <1>3, OneChange
<1> QED BY <1>1, <1>4 DEF src, c, d

LEMMA TwoEdits ==
  ASSUME NEW text \in Seq(Char), Chars \subseteq Char, NEW e \in Sync!Edits(text),
         NEW mid, mid = Sync!Edited(text, e), NEW f \in Sync!Edits(mid)
  PROVE  /\ Sync!Edited(mid, f) \in Seq(Char)
         /\ Sync!apply_content_changes(Sync!Encode(text), <<Sync!Sent(text, e), Sync!Sent(mid, f)>>)
              = Sync!Encode(Sync!Edited(mid, f))
<1> DEFINE src == Sync!Encode(text)
           c == Sync!Sent(text, e)
           d == Sync!Sent(mid, f)
           r == Sync!Edited(mid, f)
<1>1. /\ mid \in Seq(Char) /\ Sync!ApplyChange(src, c) = Sync!Encode(mid)
      /\ c.kind = "range" /\ c.new \in Seq(Byte)
  BY EditApplied
<1>2. /\ r \in Seq(Char) /\ Sync!ApplyChange(Sync!Encode(mid), d) = Sync!Encode(r)
      /\ d.kind = "range" /\ d.new \in Seq(Byte)
  BY <1>1, EditApplied
<1>3. src \in Seq(Byte)
  BY EncodeConcat
<1> HIDE DEF src, c, d, r
<1>4. c.kind # "unusable" /\ d.kind # "unusable"
  BY <1>1, <1>2
<1>5. Sync!apply_content_changes(src, <<c, d>>) = Sync!ApplyChange(Sync!ApplyChange(src, c), d)
  BY <1>1, <1>2, <1>3, <1>4, TwoChanges
<1> QED BY <1>1, <1>2, <1>5 DEF src, c, d, r

LEMMA Replaced ==
  ASSUME NEW old \in Seq(Byte), NEW text \in Seq(Char), Chars \subseteq Char, NEW e \in Sync!Edits(text)
  PROVE  /\ Sync!Edited(text, e) \in Seq(Char)
         /\ Sync!apply_content_changes(old, <<[kind |-> "full", new |-> Sync!Encode(text)], Sync!Sent(text, e)>>)
              = Sync!Encode(Sync!Edited(text, e))
<1> DEFINE src == Sync!Encode(text)
           c == [kind |-> "full", new |-> src]
           d == Sync!Sent(text, e)
           r == Sync!Edited(text, e)
<1>1. /\ r \in Seq(Char) /\ Sync!ApplyChange(src, d) = Sync!Encode(r)
      /\ d.kind = "range" /\ d.new \in Seq(Byte)
  BY EditApplied
<1>2. src \in Seq(Byte)
  BY EncodeConcat
<1> HIDE DEF src, d, r
<1>3. c.kind = "full" /\ c.new = src
  OBVIOUS
<1> HIDE DEF c
<1>4. c.kind # "unusable" /\ d.kind # "unusable" /\ c.new \in Seq(Byte)
  BY <1>1, <1>2, <1>3
<1>5. Sync!apply_content_changes(old, <<c, d>>) = Sync!ApplyChange(Sync!ApplyChange(old, c), d)
  BY <1>1, <1>4, TwoChanges
<1>6. Sync!ApplyChange(old, c) = src
  BY <1>3 DEF Sync!ApplyChange
<1> QED BY <1>1, <1>5, <1>6 DEF src, c, d, r

LEMMA NothingApplied ==
  ASSUME NEW old, NEW c
  PROVE  Sync!apply_content_changes(old, <<c, Sync!Unusable>>) = old
<1> DEFINE s == <<c, Sync!Unusable>>
<1>1. 2 \in DOMAIN s /\ s[2] = Sync!Unusable
  OBVIOUS
<1>2. Sync!Unusable.kind = "unusable"
  BY DEF Sync!Unusable
<1> HIDE DEF s
<1>3. Sync!apply_content_changes(old, s) = old
  BY <1>1, <1>2 DEF Sync!apply_content_changes
<1> QED BY <1>3 DEF s

-----------------------------------------------------------------------------
\* The inductive invariant: the editor's text and the server's bytes agree.
TextInv == buffer \in Seq(Char) /\ Sync!TextAgrees

LEMMA TextStarts == Sync!Init => TextInv
<1> SUFFICES ASSUME Sync!Init PROVE TextInv
  OBVIOUS
<1>1. buffer = <<>> /\ stored = <<>> /\ <<>> \in Seq(Char) /\ Len(<<>>) = 0
  BY DEF Sync!Init
<1>2. PICK g : EncRun(g, <<>>) /\ Sync!Encode(<<>>) = g[Len(<<>>)]
  BY <1>1, EncodeSteps
<1>3. Sync!Encode(<<>>) = <<>>
  BY <1>1, <1>2 DEF EncRun
<1> QED BY <1>1, <1>3 DEF TextInv, Sync!TextAgrees

LEMMA TextStep ==
  ASSUME Chars \subseteq Char, TextInv, [Sync!Next]_Sync!vars
  PROVE  TextInv'
<1>0. buffer \in Seq(Char) /\ stored = Sync!Encode(buffer)
  BY DEF TextInv, Sync!TextAgrees
<1> SUFFICES buffer' \in Seq(Char) /\ stored' = Sync!Encode(buffer')
  BY DEF TextInv, Sync!TextAgrees, Sync!Encode, Sync!FlattenSeq, Sync!Utf8
<1>1. CASE Sync!DidChange
  <2>1. PICK e \in Sync!Edits(buffer) :
          /\ buffer' = Sync!Edited(buffer, e)
          /\ stored' = Sync!apply_content_changes(stored, <<Sync!Sent(buffer, e)>>)
    BY <1>1 DEF Sync!DidChange
  <2> QED BY <1>0, <2>1, OneEdit
<1>2. CASE Sync!DidChangeTwice
  <2>1. PICK e \in Sync!Edits(buffer) : \E f \in Sync!Edits(Sync!Edited(buffer, e)) :
          /\ buffer' = Sync!Edited(Sync!Edited(buffer, e), f)
          /\ stored' = Sync!apply_content_changes(stored,
                         <<Sync!Sent(buffer, e), Sync!Sent(Sync!Edited(buffer, e), f)>>)
    BY <1>2 DEF Sync!DidChangeTwice
  <2> DEFINE mid == Sync!Edited(buffer, e)
  <2>2. PICK f \in Sync!Edits(mid) :
          /\ buffer' = Sync!Edited(mid, f)
          /\ stored' = Sync!apply_content_changes(stored, <<Sync!Sent(buffer, e), Sync!Sent(mid, f)>>)
    BY <2>1
  <2> QED BY <1>0, <2>2, TwoEdits
<1>3. CASE Sync!DidReplace
  <2>1. PICK c \in Chars : \E e \in Sync!Edits(<<c>>) :
          /\ buffer' = Sync!Edited(<<c>>, e)
          /\ stored' = Sync!apply_content_changes(stored,
                         <<[kind |-> "full", new |-> Sync!Encode(<<c>>)], Sync!Sent(<<c>>, e)>>)
    BY <1>3 DEF Sync!DidReplace
  <2>2. <<c>> \in Seq(Char)
    <3>1. \A x \in Char : <<x>> \in Seq(Char)
      OBVIOUS
    <3> QED BY <3>1
  <2>3. stored \in Seq(Byte)
    BY <1>0, EncodeConcat
  <2>4. PICK e \in Sync!Edits(<<c>>) :
          /\ buffer' = Sync!Edited(<<c>>, e)
          /\ stored' = Sync!apply_content_changes(stored,
                         <<[kind |-> "full", new |-> Sync!Encode(<<c>>)], Sync!Sent(<<c>>, e)>>)
    BY <2>1
  <2> QED BY <2>2, <2>3, <2>4, Replaced
<1>4. CASE Sync!DidChangeUnusable
  BY <1>0, <1>4, NothingApplied DEF Sync!DidChangeUnusable
<1>5. CASE UNCHANGED Sync!vars
  BY <1>0, <1>5 DEF Sync!vars
<1> QED BY <1>1, <1>2, <1>3, <1>4, <1>5 DEF Sync!Next

\* The bytes the server holds are the editor's text after every notification, for
\* texts of any length (apply_incremental_change and apply_content_changes in
\* lifecycle.c).  The server counts columns in bytes, hence the hypothesis: the
\* characters are those that are one byte in a line, or end it.
THEOREM TextAgreesAlways ==
  ASSUME Chars \subseteq Char
  PROVE  Sync!Spec => []Sync!TextAgrees
<1>1. TextInv => Sync!TextAgrees
  BY DEF TextInv
<1> QED BY TextStarts, TextStep, <1>1, PTL DEF Sync!Spec
=============================================================================
