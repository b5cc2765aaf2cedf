---------------------------- MODULE MCSnapshots ----------------------------
(***************************************************************************)
(* "diag": one query and a diagnostics worker share snapshots with the     *)
(* coordinator.  "queries": two queries race on the token memo and on the  *)
(* recycle slot; no document is closed and there is no diagnostics worker. *)
(***************************************************************************)
EXTENDS Snapshots, TLC

CONSTANT Parts    \* the situations of the run, chosen before the first step
VARIABLE part

\* The queries that are running, releasing, or have left token data behind.
Using == {q \in Query : ctx[q] # NoCtx \/ todo[q] # <<>> \/ \E m \in memos : m[1] = q}

\* The documents that have been parsed and not closed.
Open == {d \in Doc : docs[d].snap # Nil}

MCInit == part \in Parts /\ Init
MCNext == \/ part = "diag" /\ Next /\ Cardinality(Using') <= 1 /\ UNCHANGED part
          \/ part = "queries" /\ Next /\ Open \subseteq Open' /\ UNCHANGED <<part, diag>>
MCSpec == MCInit /\ [][MCNext]_<<part, vars>>

Symmetry == Permutations(Query) \cup Permutations(Snap) \cup Permutations(Ws)
              \cup Permutations(Buf)
=============================================================================
