---------------------------- MODULE MCContentType ----------------------------
(***************************************************************************)
(* ContentType for two fields and three content types: two ordinary ones   *)
(* and a password whose hints are not audited.  A private or unaudited     *)
(* type alone is treated as the password is, one that differs from Free in *)
(* a hint nobody acts on as Free is.                                       *)
(***************************************************************************)
EXTENDS ContentType

MCFree     == [purpose |-> "text", hints |-> "plain"]
MCUrl      == [purpose |-> "url", hints |-> "spell"]
MCPassword == [purpose |-> "password", hints |-> "odd"]
MCDeclared == {MCFree, MCUrl, MCPassword}
=============================================================================
