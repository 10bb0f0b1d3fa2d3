----------------------------- MODULE MCComServer -----------------------------
(* Three threads: one may raise a counter while two others lower it. *)
EXTENDS ComServer, TLC

CONSTANTS t1, t2, t3

ThreadSet == {t1, t2, t3}

\* The threads are alike; both properties are safety properties.
ThreadSymmetry == Permutations(ThreadSet)
=============================================================================
