---------------------------- MODULE MCMasterLoop ----------------------------
(* Two completions, so that a correction can replace one with the other. *)
EXTENDS MasterLoop, TLC

CONSTANTS c, d

Words == {c, d}
WordSymmetry == Permutations(Words)
=============================================================================
