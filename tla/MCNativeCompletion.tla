-------------------------- MODULE MCNativeCompletion --------------------------
(* An empty line, the start of an identifier, the middle of a word, and a   *)
(* selection.                                                               *)
EXTENDS NativeCompletion

Elsewhere ==
  {[run |-> r, caret |-> "free"] : r \in {<<>>, <<"_">>}}
  \cup {[run |-> <<"_">>, caret |-> "selection"], [run |-> <<"x">>, caret |-> "inside"]}
=============================================================================
