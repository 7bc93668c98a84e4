----------------------------- MODULE MCSpecTasks -----------------------------
(* Small instances of SpecTasks for TLC. *)
EXTENDS SpecTasks, TLC

WorkerSymmetry == Permutations(Workers)
=============================================================================
