----------------------------- MODULE MCOperations -----------------------------
(***************************************************************************)
(* Two processes, a document run and a batch on one dataset.                 *)
(***************************************************************************)
EXTENDS Operations, TLC

CONSTANTS v, w, d, b, e1, e2, e3

Symmetry == Permutations(Workers) \cup Permutations(Executions)

MCBase == [batch \in Batches |-> None]
=============================================================================
