------------------------------ MODULE MCEnsemble ------------------------------
(* Two words, one of them in the corpus; a prefix of each, one that only the    *)
(* tables complete until the new word is learned, and one that reaches nothing. *)
EXTENDS Ensemble, TLC

MCMatches == "o" :> {"old"} @@ "n" :> {"new"} @@ "t" :> {"new"} @@ "x" :> {}
=============================================================================
