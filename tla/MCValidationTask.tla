-------------------------- MODULE MCValidationTask --------------------------
(* Small instances of ValidationTask. *)
EXTENDS ValidationTask, TLC

CONSTANTS w1, w2

WorkerSymmetry == Permutations(Workers)

=============================================================================
