-------------------------- MODULE MCDirectDelivery --------------------------
(***************************************************************************)
(* DirectDelivery with the bounds of a .cfg, all in the guards of actions. *)
(***************************************************************************)
EXTENDS DirectDelivery
=============================================================================
