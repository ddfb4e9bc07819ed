------------------------- MODULE MCWorkerWorkspace --------------------------
(* WorkerWorkspace for TLC: the turns of an environment are a symmetric set. *)
EXTENDS WorkerWorkspace, TLC

RunSymmetry == Permutations(Runs)
=============================================================================
