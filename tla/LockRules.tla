----------------------------- MODULE LockRules -----------------------------
(***************************************************************************)
(* How far the script of a composing word has been decided.  A word starts *)
(* open; enough corpus evidence fixes its script at some length (an        *)
(* inferred lock); accepting a shown completion pins it until the word     *)
(* ends.  These are the only facts about a DualBuffer that the key handler *)
(* of InputMethodCore depends on.                                          *)
(***************************************************************************)
EXTENDS Naturals

\* No word is being composed (dual_buffer is None).
NoLock == [kind |-> "none", at |-> 0]

Open == [kind |-> "open", at |-> 0]

Pinned == [kind |-> "pinned", at |-> 0]

\* The script was inferred from the first n characters.
Inferred(n) == [kind |-> "inferred", at |-> n]

Locks ==
  {l \in [kind : {"none", "open", "pinned", "inferred"}, at : Nat] :
     l.kind = "inferred" <=> l.at > 0}

(***************************************************************************)
(* The locks a word of n characters may have once a character was added to *)
(* a word with lock l.                                                     *)
(***************************************************************************)
AfterPush(l, n) ==
  IF l.kind = "pinned" THEN {l}
  ELSE IF l.kind = "inferred" THEN {l, Inferred(n)}
  ELSE {Open, Inferred(n)}

(***************************************************************************)
(* The locks of the n characters left after a deletion: an inferred lock   *)
(* goes with the prefix that decided it, a pin stays.                      *)
(***************************************************************************)
AfterPop(l, n) ==
  IF l.kind = "pinned" \/ (l.kind = "inferred" /\ l.at <= n) THEN {l}
  ELSE {Open, Inferred(n)}
=============================================================================
