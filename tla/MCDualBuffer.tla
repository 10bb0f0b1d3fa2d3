---------------------------- MODULE MCDualBuffer ----------------------------
(***************************************************************************)
(* Frequencies that reach every side of the thresholds 85 and 70 percent:  *)
(* 2:2 is a tie, 2:3 context can overturn, 3:12 locks only when the        *)
(* surrounding language agrees (80%), 2:12 locks at once (86%).            *)
(***************************************************************************)
EXTENDS DualBuffer

MCSupport == {0, 2, 3, 12}
=============================================================================
