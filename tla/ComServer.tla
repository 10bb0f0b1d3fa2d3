------------------------------ MODULE ComServer ------------------------------
(***************************************************************************)
(* The lifetime of the text services in the Windows DLL: the threads of a  *)
(* client create an instance, activate and deactivate it and release it,   *)
(* and count instances and server locks for DllCanUnloadNow.  A counter is *)
(* raised by one atomic addition; it is lowered by a loop of a load and    *)
(* compare-and-swaps, and DllCanUnloadNow loads one counter after the      *)
(* other: between any two of these other threads run.                      *)
(*                                                                         *)
(* DllCanUnloadNow is called by the host, one call at a time: it writes    *)
(* nothing, so calls of several threads do not meet.  An instance counts   *)
(* from the end of CreateInstance to its Deactivate; a deactivated one     *)
(* that is not released is not counted, as OBJECT_COUNT documents.         *)
(*                                                                         *)
(* A compare-and-swap that fails though nothing changed leaves everything  *)
(* as it was.  Failures of COM calls that return before any count are left *)
(* out.                                                                    *)
(***************************************************************************)
EXTENDS Naturals, FiniteSets

CONSTANTS
  Threads,   \* each has an instance of its own
  MaxCount,  \* no call that raises a counter begins there; bounds the model
  MaxAgain   \* most second activations; bounds the model

ASSUME ThreadsAssumption == IsFiniteSet(Threads) /\ {MaxCount, MaxAgain} \subseteq Nat

(* Operators named Slip... are wrong variants of the definition after them. *)

VARIABLES
  count,     \* OBJECT_COUNT and LOCK_COUNT
  instance,  \* of each thread: "none", "made" and not counted yet, "new",
             \* "active", "retired"
  lowering,  \* the counter a thread is about to lower: a set of at most one
  observed,  \* what saturating_decrement read: a set of at most one
  unload,    \* DllCanUnloadNow: "idle", OBJECT_COUNT was "zero", S_OK: "yes"
  again,     \* how often an instance was activated a second time (history)
  newer      \* whose instance was counted since that load (history)

serverVars == <<count, instance, lowering, observed, unload, again, newer>>
asking == <<unload, newer>>

Counters == {"objects", "locks"}

InitServer ==
  /\ count = [c \in Counters |-> 0]
  /\ instance = [t \in Threads |-> "none"]
  /\ lowering = [t \in Threads |-> {}] /\ observed = [t \in Threads |-> {}]
  /\ unload = "idle" /\ again = 0 /\ newer = {}

Room(c) == count[c] < MaxCount
Raise(c) == count' = [count EXCEPT ![c] = @ + 1]

\* A thread runs one call at a time.
Idle(t) == lowering[t] = {} /\ instance[t] # "made"

\* IClassFactory::CreateInstance, up to the end of its QueryInterface.
CreateInstance(t) ==
  /\ Idle(t) /\ instance[t] = "none" /\ Room("objects")
  /\ instance' = [instance EXCEPT ![t] = "made"]
  /\ UNCHANGED <<count, lowering, observed, again, asking>>

\* The end of CreateInstance: the instance is counted and handed out.
Counted(t) ==
  /\ instance[t] = "made"
  /\ instance' = [instance EXCEPT ![t] = "new"]
  /\ Raise("objects")
  /\ newer' = IF unload = "idle" THEN newer ELSE newer \cup {t}
  /\ UNCHANGED <<lowering, observed, unload, again>>

\* Activate and ActivateEx: neither counts; corpora are loaded only once.
ActivateEx(t) ==
  /\ Idle(t) /\ instance[t] \in {"new", "retired"}
  /\ instance' = [instance EXCEPT ![t] = "active"]
  /\ IF instance[t] = "new" THEN UNCHANGED again ELSE again < MaxAgain /\ again' = again + 1
  /\ UNCHANGED <<count, lowering, observed, asking>>

\* Deactivate, up to its call of saturating_decrement.
Deactivate(t) ==
  /\ Idle(t) /\ instance[t] = "active"
  /\ instance' = [instance EXCEPT ![t] = "retired"]
  /\ lowering' = [lowering EXCEPT ![t] = {"objects"}]
  /\ UNCHANGED <<count, observed, again, asking>>

\* IClassFactory::LockServer(TRUE)
LockServer(t) ==
  /\ Idle(t) /\ Room("locks") /\ Raise("locks")
  /\ UNCHANGED <<instance, lowering, observed, again, asking>>

\* LockServer(FALSE)
UnlockServer(t) ==
  /\ Idle(t)
  /\ lowering' = [lowering EXCEPT ![t] = {"locks"}]
  /\ UNCHANGED <<count, instance, observed, again, asking>>

\* The last reference goes; nothing is counted.
Release(t) ==
  /\ Idle(t) /\ instance[t] \in {"new", "retired"}
  /\ instance' = [instance EXCEPT ![t] = "none"]
  /\ UNCHANGED <<count, lowering, observed, again, asking>>

\* saturating_decrement: the load, and each reload after a failed exchange.
Load(t, c) ==
  /\ c \in lowering[t] /\ count[c] \notin observed[t]
  /\ observed' = [observed EXCEPT ![t] = {count[c]}]
  /\ UNCHANGED <<count, instance, lowering, again, asking>>

Lowered(t, c) ==
  /\ \E n \in observed[t] : count' = [count EXCEPT ![c] = IF n = 0 THEN 0 ELSE n - 1]
  /\ lowering' = [lowering EXCEPT ![t] = {}] /\ observed' = [observed EXCEPT ![t] = {}]
  /\ UNCHANGED <<instance, again, asking>>

SlipExchange(t, c) == c \in lowering[t] /\ observed[t] # {} /\ Lowered(t, c)
\* The exchange finds the counter as it was observed.
Exchange(t, c) == c \in lowering[t] /\ count[c] \in observed[t] /\ Lowered(t, c)

\* DllCanUnloadNow: the load of OBJECT_COUNT; a positive one is answered with
\* S_FALSE and changes nothing.
LoadObjects ==
  /\ unload = "idle" /\ count["objects"] = 0
  /\ unload' = "zero" /\ newer' = {}
  /\ UNCHANGED <<count, instance, lowering, observed, again>>

\* The load of LOCK_COUNT decides: S_OK or S_FALSE.
LoadLocks ==
  /\ unload = "zero"
  /\ unload' = IF count["locks"] = 0 THEN "yes" ELSE "idle"
  /\ newer' = IF count["locks"] = 0 THEN newer ELSE {}
  /\ UNCHANGED <<count, instance, lowering, observed, again>>

\* The host has the answer; what it does with it is its own affair.
Answered ==
  /\ unload = "yes" /\ unload' = "idle" /\ newer' = {}
  /\ UNCHANGED <<count, instance, lowering, observed, again>>

DllCanUnloadNow == LoadObjects \/ LoadLocks \/ Answered

NextServer ==
  \/ DllCanUnloadNow
  \/ \E t \in Threads :
       \/ CreateInstance(t) \/ Counted(t) \/ ActivateEx(t) \/ Deactivate(t) \/ Release(t)
       \/ LockServer(t) \/ UnlockServer(t)
       \/ \E c \in Counters : Load(t, c) \/ Exchange(t, c)

SpecServer == InitServer /\ [][NextServer]_serverVars

-----------------------------------------------------------------------------
(* Properties.                                                             *)

TypeOK ==
  /\ count \in [Counters -> Nat]
  /\ instance \in [Threads -> {"none", "made", "new", "active", "retired"}]
  /\ lowering \in [Threads -> SUBSET Counters] /\ observed \in [Threads -> SUBSET Nat]
  /\ \A t \in Threads : \A m, n \in observed[t] : m = n
  /\ unload \in {"idle", "zero", "yes"} /\ again \in Nat /\ newer \subseteq Threads

(* The loops of all threads lower the counters as if each did so in one step:
   no raise or other decrement between the load and the exchange is lost, and
   zero stays zero (counter.rs:5). *)
Abstract == INSTANCE AtomicCounters
ImplementsCounters == Abstract!Spec

\* The instances handed out and not deactivated.
InUse == {t \in Threads : instance[t] \in {"new", "active"}}

(* When DllCanUnloadNow answers S_OK (dll.rs:69), the instances in use were all
   counted after it had loaded OBJECT_COUNT, but for one at most per second
   activation: that is not counted again, while the second Deactivate is. *)
UnloadSpares == unload = "yes" => Cardinality(InUse \ newer) <= again
=============================================================================
