---------------------------- MODULE MCThreadPool ----------------------------
(***************************************************************************)
(* Two query workers and three messages: enough for a notification between *)
(* two queries that run at the same time, for an id used twice around a    *)
(* cancel, and for a shutdown with work in both queues.                    *)
(***************************************************************************)
EXTENDS ThreadPool, TLC

CONSTANTS w1, w2

MCWorkers == {w1, w2}
MCOneId == {1}
MCSymmetry == Permutations(MCWorkers)
=============================================================================
