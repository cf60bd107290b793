----------------------------- MODULE MCRuntime -----------------------------
(* Runtime on small instances. *)
EXTENDS Runtime, TLC

\* Workers are interchangeable.
WorkerSymmetry == Permutations(Workers)
=============================================================================
