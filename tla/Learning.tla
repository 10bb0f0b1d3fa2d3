------------------------------- MODULE Learning -------------------------------
(***************************************************************************)
(* What the engines learn and the one personal profile they share: the     *)
(* sample of the words typed (cvm), the words the user confirmed, those    *)
(* only proposed, and the corrections.  An input context has an engine of  *)
(* its own, which reads the profile when it is created and overwrites it   *)
(* at a focus-out or when it is disabled; the file is rewritten in place,  *)
(* so a save that fails, or a crash in it, leaves a part of it.            *)
(*                                                                         *)
(* Words have three letters or more and one script.  The debounce of the   *)
(* saves is left open: any focus-out may save.  A word's age matters only  *)
(* where the code may drop it for its age.                                 *)
(***************************************************************************)
EXTENDS Naturals, FiniteSets

CONSTANTS
  Engines,    \* the engines of a process
  Words,      \* words that can be typed
  Corpus,     \* those the corpus has
  Capacity,   \* size at which the sample is thinned
  Pairs,      \* (context, predicted word) pairs
  Actuals,    \* what was typed in place of a prediction
  Threshold,  \* suppression_threshold
  MaxEntries, \* max_entries
  MaxTaught,  \* corrections made to a pair; bounds the model
  MaxClock    \* uses of the corrections by one engine; bounds the model

ASSUME WordsAssumption == Corpus \subseteq Words /\ Capacity \in Nat \ {0}
ASSUME PairsAssumption ==
  IsFiniteSet(Pairs) /\ {Threshold, MaxEntries} \subseteq Nat \ {0}
  /\ MaxTaught \in Nat /\ MaxClock \in Nat

(* Operators named Slip... are wrong variants of the definition after them. *)

VARIABLES
  learned,    \* what each engine has learned: a profile
  running,    \* the engines that exist
  file,       \* the profile on disk: "none", "whole", or a part of one
  confirmed,  \* the words ever confirmed, in any engine (history)
  taught,     \* corrections ever made to a pair, in any engine (history)
  current     \* engines whose evidence is the file's, if all went as
              \* recorded: nothing was learned or written since (history)

vars == <<learned, running, file, confirmed, taught, current>>

NoEntry == [count |-> 0, stamp |-> 0, actual |-> "none"]

\* sampled, round: CvmCounter's data, and whether a round has begun;
\* trusted, proposed: confirmed_trie, prediction_only_trie;
\* entries, clock: CorrectionMemory's entries and access_counter.
Blank ==
  [sampled |-> {}, round |-> FALSE, trusted |-> {}, proposed |-> {},
   entries |-> [k \in Pairs |-> NoEntry], clock |-> 0]

Held(entries) == {k \in Pairs : entries[k].count > 0}

Init ==
  /\ learned = [e \in Engines |-> Blank]
  /\ running = {}
  /\ file \in {[state |-> "none", profile |-> Blank]}
              \* or of an early release: only the sampled words (v1)
              \cup {[state |-> "whole", profile |-> [Blank EXCEPT !.sampled = S]] :
                      S \in {T \in SUBSET Words : T # {}}}
  /\ confirmed = {} /\ taught = [k \in Pairs |-> 0]
  /\ current = {}

-----------------------------------------------------------------------------
(* Words.                                                                  *)

\* CvmCounter::process: a word seen again may be dropped once a round has
\* begun; a full sample is thinned, by any part of it or by nothing.
Sampled(p, w) ==
  LET kept == IF w \in p.sampled /\ p.round
              THEN {p.sampled, p.sampled \ {w}} ELSE {p.sampled \cup {w}}
  IN  {[p EXCEPT !.sampled = S] : S \in {T \in kept : Cardinality(T) < Capacity}}
      \cup {[p EXCEPT !.sampled = T, !.round = TRUE] :
              T \in UNION {SUBSET S : S \in {S \in kept : Cardinality(S) >= Capacity}}}

\* The word becomes trusted on evidence; an unknown one is proposed from now on.
Promoted(p, w, evidence) ==
  IF evidence THEN [p EXCEPT !.trusted = @ \cup {w}]
  ELSE IF w \in Corpus \cup p.trusted THEN p
  ELSE [p EXCEPT !.proposed = @ \cup {w}]

\* commit_word_with_evidence.  The evidence: typed in its own script, or
\* accepted as a whole.
Commit(e, w, evidence) ==
  /\ e \in running
  /\ \E p \in Sampled(learned[e], w) :
       learned' = [learned EXCEPT ![e] = Promoted(p, w, evidence)]
  /\ confirmed' = IF evidence THEN confirmed \cup {w} ELSE confirmed
  /\ current' = current \ {e}
  /\ UNCHANGED <<running, file, taught>>

-----------------------------------------------------------------------------
(* Corrections.                                                            *)

\* evict_lru: a correction with the oldest stamp goes.
Evicted(entries) ==
  IF Cardinality(Held(entries)) <= MaxEntries THEN {entries}
  ELSE {[entries EXCEPT ![k] = NoEntry] :
          k \in {k \in Held(entries) :
                   \A l \in Held(entries) : entries[k].stamp <= entries[l].stamp}}

\* CorrectionMemory::record
Recorded(p, k, a) ==
  LET now == p.clock + 1
      new == [count |-> p.entries[k].count + 1, stamp |-> now, actual |-> a]
  IN  {[p EXCEPT !.clock = now, !.entries = E] : E \in Evicted([p.entries EXCEPT ![k] = new])}

\* record_ghost_as_negative: the user typed on past a dismissed completion,
\* or retyped the word in the other script.
Teach(e, k, a) ==
  /\ e \in running /\ taught[k] < MaxTaught /\ learned[e].clock < MaxClock
  /\ \E p \in Recorded(learned[e], k, a) : learned' = [learned EXCEPT ![e] = p]
  /\ taught' = [taught EXCEPT ![k] = @ + 1]
  /\ current' = current \ {e}
  /\ UNCHANGED <<running, file, confirmed>>

SlipOverrides(p, k) == p.entries[k].count + 1 >= Threshold
Overrides(p, k) == p.entries[k].count >= Threshold

\* CorrectionMemory::check: the actual word takes the prediction's place, and
\* the correction counts as used.
Override(e, k) ==
  /\ e \in running /\ Overrides(learned[e], k) /\ learned[e].clock < MaxClock
  /\ learned' = [learned EXCEPT ![e].clock = @ + 1,
                                ![e].entries[k].stamp = learned[e].clock + 1]
  /\ UNCHANGED <<running, file, confirmed, taught, current>>

-----------------------------------------------------------------------------
(* The profile.                                                            *)

SlipRestored(p) ==
  {[p EXCEPT !.sampled = S, !.proposed = p.sampled, !.trusted = @ \cup p.sampled, !.clock = 0] :
     S \in SUBSET p.sampled}
\* load_personal: every sampled word is proposed, those confirmed are trusted,
\* and words too old for the clock leave the sample.  The corrections keep
\* their stamps; the counter starts anew.
Restored(p) ==
  {[p EXCEPT !.sampled = S, !.proposed = p.sampled, !.clock = 0] : S \in SUBSET p.sampled}

\* What to_snapshot and export_personal_profile write.
Snapshot(p) == [p EXCEPT !.proposed = {}, !.clock = 0]

\* __init__: an engine that cannot read the profile starts blank.
Start(e) ==
  /\ e \notin running
  /\ running' = running \cup {e}
  /\ IF file.state = "whole"
     THEN \E p \in Restored(file.profile) : learned' = [learned EXCEPT ![e] = p]
     ELSE learned' = [learned EXCEPT ![e] = Blank]
  /\ current' = IF file.state = "part" THEN current ELSE current \cup {e}
  /\ UNCHANGED <<file, confirmed, taught>>

Part == [state |-> "part", profile |-> Blank]

SlipSave(e) ==
  /\ e \in running
  /\ file' = [state |-> "whole", profile |-> [Snapshot(learned[e]) EXCEPT !.trusted = {}]]
  /\ current' = {e}
  /\ UNCHANGED <<learned, running, confirmed, taught>>
\* save_personal at a focus-out or a disable: the last one to save wins.
Save(e) ==
  /\ e \in running
  /\ file' = [state |-> "whole", profile |-> Snapshot(learned[e])]
  /\ current' = {e}
  /\ UNCHANGED <<learned, running, confirmed, taught>>

\* The write fails half way: logged, and tried again at the next occasion.
SaveFails(e) ==
  /\ e \in running
  /\ file' = Part /\ current' = {}
  /\ UNCHANGED <<learned, running, confirmed, taught>>

\* do_destroy saves nothing.
Destroy(e) ==
  /\ e \in running
  /\ running' = running \ {e}
  /\ learned' = [learned EXCEPT ![e] = Blank]
  /\ current' = current \ {e}
  /\ UNCHANGED <<file, confirmed, taught>>

\* The process ends, possibly in the middle of a save.
Crash ==
  /\ running # {}
  /\ running' = {} /\ current' = {}
  /\ learned' = [e \in Engines |-> Blank]
  /\ file' \in {file, Part}
  /\ UNCHANGED <<confirmed, taught>>

-----------------------------------------------------------------------------

Next ==
  \/ \E e \in Engines :
       \/ \E w \in Words, evidence \in BOOLEAN : Commit(e, w, evidence)
       \/ \E k \in Pairs : Override(e, k) \/ \E a \in Actuals : Teach(e, k, a)
       \/ Start(e) \/ Save(e) \/ SaveFails(e) \/ Destroy(e)
  \/ Crash

Spec == Init /\ [][Next]_vars

-----------------------------------------------------------------------------
(* Properties.                                                             *)

Entries ==
  [count : Nat, stamp : Nat, actual : Actuals \cup {"none"}]
Profiles ==
  [sampled : SUBSET Words, round : BOOLEAN, trusted : SUBSET Words,
   proposed : SUBSET Words, entries : [Pairs -> Entries], clock : Nat]

\* The corrections an engine holds, and those it saved, never number more than
\* max_entries, whatever was evicted or restored (correction_memory.rs).
TypeOK ==
  /\ learned \in [Engines -> Profiles]
  /\ running \subseteq Engines /\ current \subseteq running
  /\ file \in [state : {"none", "part", "whole"}, profile : Profiles]
  /\ confirmed \subseteq Words
  /\ taught \in [Pairs -> Nat]
  /\ \A e \in Engines : Cardinality(Held(learned[e].entries)) <= MaxEntries
  /\ Cardinality(Held(file.profile.entries)) <= MaxEntries

\* A word an engine trusts, as evidence for corrections and for a language,
\* was once typed in its own script or accepted as a whole: that it was
\* sampled, proposed, saved and restored proves nothing (personal.rs:85,
\* ensemble.rs:422).
TrustEarned ==
  \A e \in Engines : learned[e].trusted \subseteq confirmed

\* A prediction is overridden only after the user corrected it as often as the
\* threshold says, over all engines: neither evictions nor restores nor the
\* engines that read the same profile count a correction twice
\* (correction_memory.rs:71).
OverrideEarned ==
  \A e \in Engines, k \in Pairs :
    Overrides(learned[e], k) => taught[k] >= Threshold

Lessons(p) == [k \in Pairs |-> <<p.entries[k].count, p.entries[k].actual>>]

\* The evidence an engine has when it starts, and the evidence it saved, are
\* what the profile holds until it learns more or the profile is written
\* again: a restart reads the same words as confirmed and the same
\* corrections (ensemble.rs:702, master_loop.rs:945).
RestartKeepsEvidence ==
  \A e \in current :
    /\ learned[e].trusted = file.profile.trusted
    /\ Lessons(learned[e]) = Lessons(file.profile)
=============================================================================
