---------------------------- MODULE AtomicCounters ----------------------------
(***************************************************************************)
(* What the unload counters of the Windows DLL promise: each is raised or  *)
(* lowered in one step, and lowering stops at zero (counter.rs).           *)
(***************************************************************************)
EXTENDS Naturals

CONSTANT Counters

VARIABLE count

Init == count = [c \in Counters |-> 0]

Add(c) == count' = [count EXCEPT ![c] = @ + 1]

Subtract(c) == count' = [count EXCEPT ![c] = IF @ = 0 THEN 0 ELSE @ - 1]

Next == \E c \in Counters : Add(c) \/ Subtract(c)

Spec == Init /\ [][Next]_count
=============================================================================
