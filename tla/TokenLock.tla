----------------------------- MODULE TokenLock -----------------------------
(***************************************************************************)
(* What a dual buffer promises the key handler about one composing word    *)
(* after another: a word is open, locked by the evidence of a prefix it    *)
(* still has, or pinned; a deletion below the deciding prefix reopens it;  *)
(* a pin is given up only with the word.                                   *)
(***************************************************************************)
EXTENDS LockRules

VARIABLES len,   \* characters of the composing word
          lock   \* an element of Locks

vars == <<len, lock>>

Init == len = 0 /\ lock = NoLock

\* A key with two readings is composed.
Push ==
  /\ len' = len + 1
  /\ lock' \in AfterPush(lock, len + 1)

\* One character of the shown completion is accepted.
Accept ==
  /\ len > 0
  /\ len' = len + 1
  /\ lock' = Pinned

Pop ==
  /\ len > 1
  /\ len' = len - 1
  /\ lock' \in AfterPop(lock, len - 1)

\* The word leaves the preedit, or its last character is deleted.
Finish ==
  /\ len > 0
  /\ len' = 0
  /\ lock' = NoLock

Next == Push \/ Accept \/ Pop \/ Finish

Spec == Init /\ [][Next]_vars
=============================================================================
