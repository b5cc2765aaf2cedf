------------------------- MODULE ProjectTreeProofs -------------------------
(***************************************************************************)
(* The memo cells of the project tree, for any documents, any tree that    *)
(* their assembly yields and any number of query workers that resolve the  *)
(* same dependencies at the same time.                                     *)
(***************************************************************************)
EXTENDS ProjectTree, TLAPS

Cells   == memo = [e \in DOMAIN memo |-> memo[e]]
Threads == worker = [w \in Workers |-> worker[w]]

\* A worker that is busy with an edge pins the tree the edge is in.
Pins == \A w \in Workers : worker[w].at # "idle" => built

\* An edge in a worker's hands has a cell.
EdgesHaveCells == \A w \in Workers : worker[w].at = "walk" => worker[w].edge \in DOMAIN memo

\* MemoIsPure is not inductive by itself: Build and Release replace the tree that
\* the answers refer to, which only an idle pool allows.
MemoInv == Cells /\ Threads /\ Pins /\ EdgesHaveCells /\ MemoIsPure

LEMMA MemoInit == Init => MemoInv
<1> SUFFICES ASSUME Init PROVE MemoInv
  OBVIOUS
<1>1. memo = <<>> /\ DOMAIN memo = {} /\ worker = [w \in Workers |-> [at |-> "idle"]]
  BY DEF Init
<1>2. \A w \in Workers : worker[w].at = "idle"
  BY <1>1
<1>3. Cells
  BY <1>1 DEF Cells
<1> QED BY <1>1, <1>2, <1>3 DEF MemoInv, Threads, Pins, EdgesHaveCells, MemoIsPure

LEMMA MemoStep == ASSUME MemoInv, [Next]_vars PROVE MemoInv'
<1> USE DEF MemoInv
\* What one worker does to the others: nothing.
<1>1. ASSUME NEW w \in Workers, NEW r, worker' = [worker EXCEPT ![w] = r]
      PROVE  Threads' /\ worker'[w] = r /\ \A v \in Workers \ {w} : worker'[v] = worker[v]
  BY <1>1 DEF Threads
<1>2. ASSUME NEW d \in Docs, Declare(d) \/ Depend(d) PROVE MemoInv'
  BY <1>2 DEF Declare, Depend, Cells, Threads, Pins, EdgesHaveCells, MemoIsPure
<1>3. ASSUME Build PROVE MemoInv'
  <2>1. ~built /\ worker' = worker /\ memo' = [e \in Edges(tree') |-> Unresolved]
    BY <1>3 DEF Build
  <2>2. \A w \in Workers : worker'[w].at = "idle"
    BY <2>1 DEF Pins
  <2>3. DOMAIN memo' = Edges(tree') /\ \A e \in Edges(tree') : memo'[e] = Unresolved
    BY <2>1
  <2> QED BY <2>1, <2>2, <2>3 DEF Cells, Threads, Pins, EdgesHaveCells, MemoIsPure
<1>4. ASSUME Release PROVE MemoInv'
  <2>1. worker' = worker /\ memo' = <<>> /\ \A w \in Workers : worker'[w].at = "idle"
    BY <1>4 DEF Release
  <2>2. DOMAIN memo' = {} /\ Cells'
    BY <2>1 DEF Cells
  <2> QED BY <2>1, <2>2 DEF Threads, Pins, EdgesHaveCells, MemoIsPure
<1>5. ASSUME NEW w \in Workers, Load(w) PROVE MemoInv'
  <2>1. built /\ built' = built /\ tree' = tree /\ memo' = memo
    BY <1>5 DEF Load
  <2>2. PICK e \in DOMAIN memo : worker' = [worker EXCEPT ![w] =
           IF memo[e] # Unresolved THEN [at |-> "done", edge |-> e, answer |-> memo[e]]
           ELSE [at |-> "walk", edge |-> e]]
    BY <1>5 DEF Load
  <2>3. CASE memo[e] # Unresolved
    <3>1. worker' = [worker EXCEPT ![w] = [at |-> "done", edge |-> e, answer |-> memo[e]]]
      BY <2>2, <2>3
    <3>2. /\ Threads' /\ worker'[w] = [at |-> "done", edge |-> e, answer |-> memo[e]]
          /\ \A v \in Workers \ {w} : worker'[v] = worker[v]
      BY <3>1, <1>1
    <3>3. memo[e] = Resolution(tree, e[1], e[2])
      BY <2>3 DEF MemoIsPure
    <3> QED BY <2>1, <3>2, <3>3 DEF Cells, Pins, EdgesHaveCells, MemoIsPure
  <2>4. CASE memo[e] = Unresolved
    <3>1. worker' = [worker EXCEPT ![w] = [at |-> "walk", edge |-> e]]
      BY <2>2, <2>4
    <3>2. /\ Threads' /\ worker'[w] = [at |-> "walk", edge |-> e]
          /\ \A v \in Workers \ {w} : worker'[v] = worker[v]
      BY <3>1, <1>1
    <3> QED BY <2>1, <3>2 DEF Cells, Pins, EdgesHaveCells, MemoIsPure
  <2> QED BY <2>3, <2>4
<1>6. ASSUME NEW w \in Workers, Publish(w) PROVE MemoInv'
  <2> DEFINE e == worker[w].edge
             r == Resolution(tree, e[1], e[2])
  <2>1. /\ worker[w].at = "walk" /\ built' = built /\ tree' = tree
        /\ memo' = [memo EXCEPT ![e] = r]
        /\ worker' = [worker EXCEPT ![w] = [at |-> "done", edge |-> e, answer |-> r]]
    BY <1>6 DEF Publish
  <2>2. /\ Threads' /\ worker'[w] = [at |-> "done", edge |-> e, answer |-> r]
        /\ \A v \in Workers \ {w} : worker'[v] = worker[v]
    BY <2>1, <1>1
  <2>3. e \in DOMAIN memo /\ built
    BY <2>1 DEF EdgesHaveCells, Pins
  <2>4. /\ DOMAIN memo' = DOMAIN memo /\ memo'[e] = r
        /\ \A x \in DOMAIN memo \ {e} : memo'[x] = memo[x]
    BY <2>1, <2>3 DEF Cells
  <2>5. Cells'
    BY <2>1 DEF Cells
  <2> QED BY <2>1, <2>2, <2>3, <2>4, <2>5 DEF Pins, EdgesHaveCells, MemoIsPure
<1>7. ASSUME NEW w \in Workers, Answer(w) PROVE MemoInv'
  <2>1. built' = built /\ tree' = tree /\ memo' = memo /\ worker' = [worker EXCEPT ![w] = [at |-> "idle"]]
    BY <1>7 DEF Answer
  <2>2. /\ Threads' /\ worker'[w] = [at |-> "idle"]
        /\ \A v \in Workers \ {w} : worker'[v] = worker[v]
    BY <2>1, <1>1
  <2> QED BY <2>1, <2>2 DEF Cells, Pins, EdgesHaveCells, MemoIsPure
<1>8. ASSUME UNCHANGED vars PROVE MemoInv'
  BY <1>8 DEF vars, Cells, Threads, Pins, EdgesHaveCells, MemoIsPure
<1> QED BY <1>2, <1>3, <1>4, <1>5, <1>6, <1>7, <1>8 DEF Next

\* Whichever workers resolve a dependency first, and in whatever order they store,
\* the memo cell and every answer are what the tree determines: the unsynchronised
\* check and store of project_dep_resolve can only repeat a computation, never
\* mix the answers of two edges or of two snapshots.
THEOREM MemoIsPureAlways == Spec => []MemoIsPure
<1>1. MemoInv => MemoIsPure
  BY DEF MemoInv
<1> QED BY <1>1, MemoInit, MemoStep, PTL DEF Spec

=============================================================================
