---------------------------- MODULE MCProjectFiles ----------------------------
(* Calls are told apart only by name. *)
EXTENDS ProjectFiles, TLC

CallSymmetry == Permutations(Calls)
=============================================================================
