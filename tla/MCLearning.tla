------------------------------ MODULE MCLearning ------------------------------
(***************************************************************************)
(* Two engines share the profile; one word outside the corpus fills the    *)
(* sample; two pairs, so that the memory of one evicts.                    *)
(***************************************************************************)
EXTENDS Learning, TLC

CONSTANTS e1, e2, p1, p2

EngineSet == {e1, e2}
PairSet == {p1, p2}
Symmetries == Permutations(EngineSet) \cup Permutations(PairSet)
=============================================================================
