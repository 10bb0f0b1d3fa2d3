---------------------------- MODULE MCInputCore ----------------------------
(***************************************************************************)
(* InputCore with the text bound of a .cfg; the bound is in the guards of  *)
(* the actions that lengthen the text, so nothing else is needed.          *)
(***************************************************************************)
EXTENDS InputCore
=============================================================================
