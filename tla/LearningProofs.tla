---------------------------- MODULE LearningProofs ----------------------------
(***************************************************************************)
(* Proofs about Learning, for any engines, words, pairs and bounds.        *)
(***************************************************************************)
EXTENDS Learning, FiniteSetTheorems, TLAPS

(* What an engine knows, and what the file holds, was once learned. *)
Earned(p) ==
  /\ p.trusted \subseteq confirmed
  /\ \A k \in Pairs : p.entries[k].count <= taught[k]

Inv ==
  /\ TypeOK
  /\ \A e \in Engines : Earned(learned[e])
  /\ Earned(file.profile)
  /\ file.state # "whole" => file.profile = Blank
  /\ RestartKeepsEvidence

AllEntries == [Pairs -> Entries]

-----------------------------------------------------------------------------
(* Lemmas about the operators.                                             *)

LEMMA HeldFinite ==
  ASSUME NEW E
  PROVE  IsFiniteSet(Held(E)) /\ Cardinality(Held(E)) \in Nat
<1>1. Held(E) \subseteq Pairs
  BY DEF Held
<1>2. IsFiniteSet(Held(E))
  BY <1>1, PairsAssumption, FS_Subset
<1> QED
  BY <1>2, FS_CardinalityType

LEMMA BlankTyped ==
  /\ Blank \in Profiles
  /\ Held(Blank.entries) = {}
  /\ Blank.trusted = {}
  /\ \A k \in Pairs : Blank.entries[k] = NoEntry
<1>1. NoEntry \in Entries
  BY DEF NoEntry, Entries
<1> QED
  BY <1>1 DEF Blank, Profiles, Held, NoEntry

(* evict_lru leaves at most one correction less, and changes no other. *)
LEMMA EvictedBounded ==
  ASSUME NEW E \in AllEntries, Cardinality(Held(E)) <= MaxEntries + 1,
         NEW F \in Evicted(E)
  PROVE  /\ F \in AllEntries
         /\ Cardinality(Held(F)) <= MaxEntries
         /\ \A k \in Pairs : F[k].count <= E[k].count
<1> USE DEF AllEntries
<1>0. MaxEntries \in Nat
  BY PairsAssumption
<1>1. CASE Cardinality(Held(E)) <= MaxEntries
  <2>1. F = E
    BY <1>1 DEF Evicted
  <2> QED
    BY <2>1, <1>1 DEF Entries
<1>2. CASE ~(Cardinality(Held(E)) <= MaxEntries)
  <2>1. PICK k \in Held(E) : F = [E EXCEPT ![k] = NoEntry]
    BY <1>2 DEF Evicted
  <2>2. k \in Pairs /\ NoEntry \in Entries /\ NoEntry.count = 0
    BY DEF Held, NoEntry, Entries
  <2>3. F \in AllEntries
    BY <2>1, <2>2
  <2>4. Held(F) = Held(E) \ {k}
    BY <2>1, <2>2 DEF Held, NoEntry
  <2>5. Cardinality(Held(F)) = Cardinality(Held(E)) - 1
    BY <2>4, HeldFinite, FS_RemoveElement
  <2>6. Cardinality(Held(F)) <= MaxEntries
    BY <2>5, <1>0, HeldFinite
  <2>7. \A l \in Pairs : F[l].count <= E[l].count
    BY <2>1, <2>2 DEF Entries
  <2> QED
    BY <2>3, <2>6, <2>7
<1> QED
  BY <1>1, <1>2

LEMMA RecordedTyped ==
  ASSUME NEW p \in Profiles, Cardinality(Held(p.entries)) <= MaxEntries,
         NEW k \in Pairs, NEW a \in Actuals, NEW q \in Recorded(p, k, a)
  PROVE  /\ q \in Profiles
         /\ q.trusted = p.trusted
         /\ Cardinality(Held(q.entries)) <= MaxEntries
         /\ q.entries[k].count <= p.entries[k].count + 1
         /\ \A l \in Pairs \ {k} : q.entries[l].count <= p.entries[l].count
<1> DEFINE new == [count |-> p.entries[k].count + 1, stamp |-> p.clock + 1, actual |-> a]
           E == [p.entries EXCEPT ![k] = new]
<1>1. p.entries \in AllEntries /\ p.clock \in Nat
  BY DEF Profiles, AllEntries
<1>2. PICK F \in Evicted(E) : q = [p EXCEPT !.clock = p.clock + 1, !.entries = F]
  BY DEF Recorded
<1>3. new \in Entries
  BY <1>1 DEF Entries, AllEntries
<1>4. E \in AllEntries
  BY <1>1, <1>3 DEF AllEntries
<1>5. Held(E) = Held(p.entries) \cup {k}
  BY <1>1, <1>3 DEF Held, AllEntries, Entries
<1>6. Cardinality(Held(E)) <= MaxEntries + 1
  <2>1. Cardinality(Held(E)) \in {Cardinality(Held(p.entries)), Cardinality(Held(p.entries)) + 1}
    BY <1>5, HeldFinite, FS_AddElement
  <2> QED
    BY <2>1, HeldFinite, PairsAssumption
<1>7. /\ F \in AllEntries /\ Cardinality(Held(F)) <= MaxEntries
      /\ \A l \in Pairs : F[l].count <= E[l].count
  BY <1>4, <1>6, EvictedBounded
<1>8. q \in Profiles /\ q.trusted = p.trusted /\ q.entries = F
  <2>1. p.clock + 1 \in Nat /\ F \in [Pairs -> Entries]
    BY <1>1, <1>7 DEF AllEntries
  <2> HIDE DEF E, new
  <2> QED
    BY <1>2, <2>1 DEF Profiles
<1>9. /\ E[k].count = p.entries[k].count + 1
      /\ \A l \in Pairs \ {k} : E[l].count = p.entries[l].count
  BY <1>1 DEF AllEntries
<1> HIDE DEF E
<1> QED
  BY <1>7, <1>8, <1>9

LEMMA SampledTyped ==
  ASSUME NEW p \in Profiles, NEW w \in Words, NEW q \in Sampled(p, w)
  PROVE  /\ q \in Profiles
         /\ q.trusted = p.trusted /\ q.entries = p.entries
<1> DEFINE kept == IF w \in p.sampled /\ p.round
                   THEN {p.sampled, p.sampled \ {w}} ELSE {p.sampled \cup {w}}
<1>1. \A S \in kept : S \subseteq Words
  BY DEF Profiles
<1>2. CASE \E S \in {T \in kept : Cardinality(T) < Capacity} : q = [p EXCEPT !.sampled = S]
  BY <1>1, <1>2 DEF Profiles
<1>3. CASE \E T \in UNION {SUBSET S : S \in {S \in kept : Cardinality(S) >= Capacity}} :
             q = [p EXCEPT !.sampled = T, !.round = TRUE]
  <2>1. PICK T \in SUBSET Words : q = [p EXCEPT !.sampled = T, !.round = TRUE]
    BY <1>1, <1>3
  <2> QED
    BY <2>1 DEF Profiles
<1> QED
  BY <1>2, <1>3 DEF Sampled

LEMMA PromotedTyped ==
  ASSUME NEW p \in Profiles, NEW w \in Words, NEW evidence \in BOOLEAN
  PROVE  /\ Promoted(p, w, evidence) \in Profiles
         /\ Promoted(p, w, evidence).entries = p.entries
         /\ Promoted(p, w, evidence).trusted \subseteq
              (IF evidence THEN p.trusted \cup {w} ELSE p.trusted)
  BY DEF Promoted, Profiles

LEMMA RestoredTyped ==
  ASSUME NEW p \in Profiles, NEW q \in Restored(p)
  PROVE  q \in Profiles /\ q.trusted = p.trusted /\ q.entries = p.entries
<1>1. PICK S \in SUBSET p.sampled :
        q = [p EXCEPT !.sampled = S, !.proposed = p.sampled, !.clock = 0]
  BY DEF Restored
<1>2. S \in SUBSET Words /\ p.sampled \in SUBSET Words
  BY DEF Profiles
<1> QED
  BY <1>1, <1>2 DEF Profiles

LEMMA SnapshotTyped ==
  ASSUME NEW p \in Profiles
  PROVE  /\ Snapshot(p) \in Profiles
         /\ Snapshot(p).trusted = p.trusted /\ Snapshot(p).entries = p.entries
  BY DEF Snapshot, Profiles

-----------------------------------------------------------------------------
(* The inductive invariant.                                                *)

LEMMA InitInv == Init => Inv
<1> SUFFICES ASSUME Init PROVE Inv
  OBVIOUS
<1>1. /\ file.profile \in Profiles /\ file.profile.trusted = {}
      /\ file.profile.entries = Blank.entries
      /\ file \in [state : {"none", "part", "whole"}, profile : Profiles]
      /\ file.state # "whole" => file.profile = Blank
  <2>1. CASE file = [state |-> "none", profile |-> Blank]
    BY <2>1, BlankTyped
  <2>2. CASE \E S \in SUBSET Words :
               file = [state |-> "whole", profile |-> [Blank EXCEPT !.sampled = S]]
    <3>1. PICK S \in SUBSET Words :
            file = [state |-> "whole", profile |-> [Blank EXCEPT !.sampled = S]]
      BY <2>2
    <3> DEFINE b == [Blank EXCEPT !.sampled = S]
    <3>2. b \in Profiles /\ b.trusted = Blank.trusted /\ b.entries = Blank.entries
      BY BlankTyped DEF Profiles
    <3> HIDE DEF b
    <3>3. file = [state |-> "whole", profile |-> b]
      BY <3>1 DEF b
    <3> QED
      BY <3>2, <3>3, BlankTyped
  <2> QED
    BY <2>1, <2>2 DEF Init
<1>2. Cardinality({}) = 0 /\ MaxEntries \in Nat
  BY FS_EmptySet, PairsAssumption
<1>3. TypeOK
  BY <1>1, <1>2, BlankTyped DEF Init, TypeOK
<1>4. Earned(Blank) /\ Earned(file.profile)
  BY <1>1, BlankTyped DEF Init, Earned, NoEntry
<1> QED
  BY <1>1, <1>3, <1>4 DEF Init, Inv, RestartKeepsEvidence

LEMMA NextInv == Inv /\ [Next]_vars => Inv'
<1> SUFFICES ASSUME Inv, [Next]_vars PROVE Inv'
  OBVIOUS
<1>0. /\ learned \in [Engines -> Profiles]
      /\ file \in [state : {"none", "part", "whole"}, profile : Profiles]
      /\ file.profile \in Profiles
      /\ running \subseteq Engines /\ current \subseteq running
      /\ confirmed \subseteq Words
      /\ taught \in [Pairs -> Nat]
      /\ \A e \in Engines : Cardinality(Held(learned[e].entries)) <= MaxEntries
      /\ Cardinality(Held(file.profile.entries)) <= MaxEntries
      /\ \A e \in Engines : Earned(learned[e])
      /\ Earned(file.profile)
      /\ file.state # "whole" => file.profile = Blank
      /\ \A e \in current : /\ learned[e].trusted = file.profile.trusted
                            /\ Lessons(learned[e]) = Lessons(file.profile)
  BY DEF Inv, TypeOK, RestartKeepsEvidence
<1>b. /\ Cardinality({}) = 0 /\ MaxEntries \in Nat
      /\ Cardinality(Held(Blank.entries)) <= MaxEntries
      /\ Earned(Blank)
  BY BlankTyped, FS_EmptySet, PairsAssumption, <1>0 DEF Earned, NoEntry
<1>1. ASSUME NEW e \in Engines, NEW w \in Words, NEW evidence \in BOOLEAN,
             Commit(e, w, evidence)
      PROVE  Inv'
  <2>1. PICK p \in Sampled(learned[e], w) :
               learned' = [learned EXCEPT ![e] = Promoted(p, w, evidence)]
    BY <1>1 DEF Commit
  <2>2. p \in Profiles /\ p.trusted = learned[e].trusted /\ p.entries = learned[e].entries
    BY <1>0, <2>1, SampledTyped
  <2> DEFINE q == Promoted(p, w, evidence)
  <2>3. /\ q \in Profiles /\ q.entries = learned[e].entries
        /\ q.trusted \subseteq (IF evidence THEN learned[e].trusted \cup {w} ELSE learned[e].trusted)
    BY <2>2, PromotedTyped
  <2>4. learned' \in [Engines -> Profiles]
        /\ \A f \in Engines : learned'[f] = IF f = e THEN q ELSE learned[f]
    BY <1>0, <2>1, <2>3
  <2>5. confirmed \subseteq confirmed' /\ confirmed' \subseteq Words
        /\ (evidence => w \in confirmed')
    BY <1>0, <1>1 DEF Commit
  <2>6. UNCHANGED <<running, file, taught>> /\ current' = current \ {e}
    BY <1>1 DEF Commit
  <2> HIDE DEF q
  <2>7. TypeOK'
    BY <1>0, <2>3, <2>4, <2>5, <2>6 DEF TypeOK
  <2>8. Earned(file.profile)' /\ \A f \in Engines : Earned(learned[f])'
    BY <1>0, <2>3, <2>4, <2>5, <2>6 DEF Earned
  <2>9. RestartKeepsEvidence'
    BY <1>0, <2>4, <2>6 DEF RestartKeepsEvidence
  <2> QED
    BY <1>0, <2>6, <2>7, <2>8, <2>9 DEF Inv
<1>2. ASSUME NEW e \in Engines, NEW k \in Pairs, Override(e, k)
      PROVE  Inv'
  <2>1. /\ learned' = [learned EXCEPT ![e].clock = @ + 1,
                                      ![e].entries[k].stamp = learned[e].clock + 1]
        /\ UNCHANGED <<running, file, confirmed, taught, current>>
    BY <1>2 DEF Override
  <2> DEFINE p == learned[e]
             E == [p.entries EXCEPT ![k].stamp = p.clock + 1]
             q == [p EXCEPT !.clock = @ + 1, !.entries = E]
  <2>t. p \in Profiles /\ p.clock + 1 \in Nat /\ p.entries \in [Pairs -> Entries]
    BY <1>0 DEF Profiles
  <2>u. [p.entries[k] EXCEPT !.stamp = p.clock + 1] \in Entries
    BY <2>t DEF Entries
  <2>v. /\ E \in [Pairs -> Entries]
        /\ \A l \in Pairs : /\ E[l].count = p.entries[l].count
                            /\ E[l].actual = p.entries[l].actual
    BY <2>t, <2>u DEF Entries
  <2>w. q = [p EXCEPT !.clock = p.clock + 1, !.entries[k].stamp = p.clock + 1]
    BY <2>t DEF Profiles
  <2>x. learned' = [learned EXCEPT ![e] = q]
    BY <1>0, <2>1, <2>w
  <2> HIDE DEF p
  <2>y. q \in Profiles /\ q.trusted = p.trusted /\ q.entries = E
    <3> HIDE DEF E
    <3> QED
      BY <2>t, <2>v DEF Profiles
  <2>2. /\ q \in Profiles /\ q.trusted = learned[e].trusted
        /\ \A l \in Pairs : /\ q.entries[l].count = learned[e].entries[l].count
                            /\ q.entries[l].actual = learned[e].entries[l].actual
    BY <2>v, <2>y DEF p
  <2>3. learned' \in [Engines -> Profiles]
        /\ \A f \in Engines : learned'[f] = IF f = e THEN q ELSE learned[f]
    BY <1>0, <2>x, <2>2
  <2> HIDE DEF q, E
  <2>4. Held(q.entries) = Held(learned[e].entries) /\ Lessons(q) = Lessons(learned[e])
    BY <2>2 DEF Held, Lessons
  <2>5. TypeOK'
    <3>1. \A f \in Engines : Cardinality(Held(learned'[f].entries)) <= MaxEntries
      BY <1>0, <2>3, <2>4
    <3> QED
      BY <1>0, <2>1, <2>3, <3>1 DEF TypeOK
  <2>6. Earned(file.profile)' /\ \A f \in Engines : Earned(learned[f])'
    BY <1>0, <2>1, <2>2, <2>3 DEF Earned
  <2>7. RestartKeepsEvidence'
    <3>1. \A f \in current : /\ learned'[f].trusted = learned[f].trusted
                             /\ Lessons(learned'[f]) = Lessons(learned[f])
      BY <1>0, <2>2, <2>3, <2>4
    <3> QED
      BY <1>0, <2>1, <3>1 DEF RestartKeepsEvidence, Lessons
  <2> QED
    BY <1>0, <2>1, <2>5, <2>6, <2>7 DEF Inv
<1>3. ASSUME NEW e \in Engines, NEW k \in Pairs, NEW a \in Actuals, Teach(e, k, a)
      PROVE  Inv'
  <2>1. PICK q \in Recorded(learned[e], k, a) : learned' = [learned EXCEPT ![e] = q]
    BY <1>3 DEF Teach
  <2>2. /\ q \in Profiles /\ q.trusted = learned[e].trusted
        /\ Cardinality(Held(q.entries)) <= MaxEntries
        /\ q.entries[k].count <= learned[e].entries[k].count + 1
        /\ \A l \in Pairs \ {k} : q.entries[l].count <= learned[e].entries[l].count
    BY <1>0, <2>1, RecordedTyped
  <2>3. learned' \in [Engines -> Profiles]
        /\ \A f \in Engines : learned'[f] = IF f = e THEN q ELSE learned[f]
    BY <1>0, <2>1, <2>2
  <2>4. /\ taught' = [taught EXCEPT ![k] = @ + 1]
        /\ current' = current \ {e} /\ UNCHANGED <<running, file, confirmed>>
    BY <1>3 DEF Teach
  <2>5. /\ taught' \in [Pairs -> Nat]
        /\ taught'[k] = taught[k] + 1 /\ \A l \in Pairs \ {k} : taught'[l] = taught[l]
    BY <1>0, <2>4
  <2>6. TypeOK'
    BY <1>0, <2>2, <2>3, <2>4, <2>5 DEF TypeOK
  <2>7. ASSUME NEW f \in Engines PROVE Earned(learned[f])'
    <3>1. \A l \in Pairs : /\ learned[f].entries[l].count \in Nat
                           /\ learned'[f].entries[l].count \in Nat
                           /\ taught[l] \in Nat
                           /\ learned[f].entries[l].count <= taught[l]
      BY <1>0, <2>3 DEF Profiles, Entries, Earned
    <3>2. \A l \in Pairs : learned'[f].entries[l].count <= taught'[l]
      <4>1. CASE f = e
        BY <4>1, <2>2, <2>3, <2>5, <3>1
      <4>2. CASE f # e
        BY <4>2, <2>3, <2>5, <3>1
      <4> QED
        BY <4>1, <4>2
    <3>3. learned'[f].trusted = learned[f].trusted /\ learned[f].trusted \subseteq confirmed
      BY <1>0, <2>2, <2>3 DEF Earned
    <3> QED
      BY <2>4, <3>2, <3>3 DEF Earned
  <2>8. Earned(file.profile)'
    <3>1. \A l \in Pairs : file.profile.entries[l].count \in Nat
      BY <1>0 DEF Profiles, Entries
    <3> QED
      BY <1>0, <2>4, <2>5, <3>1 DEF Earned
  <2>9. RestartKeepsEvidence'
    BY <1>0, <2>3, <2>4 DEF RestartKeepsEvidence
  <2> QED
    BY <1>0, <2>4, <2>6, <2>7, <2>8, <2>9 DEF Inv
<1>4. ASSUME NEW e \in Engines, Start(e)
      PROVE  Inv'
  <2>1. PICK q \in Profiles :
          /\ learned' = [learned EXCEPT ![e] = q]
          /\ q.trusted = file.profile.trusted /\ q.entries = file.profile.entries
    <3>1. CASE file.state = "whole"
      BY <1>0, <1>4, <3>1, RestoredTyped DEF Start
    <3>2. CASE file.state # "whole"
      BY <1>0, <1>4, <3>2, BlankTyped DEF Start
    <3> QED
      BY <3>1, <3>2
  <2>2. /\ running' = running \cup {e} /\ UNCHANGED <<file, confirmed, taught>>
        /\ current' \subseteq current \cup {e}
    BY <1>4 DEF Start
  <2>3. learned' \in [Engines -> Profiles]
        /\ \A f \in Engines : learned'[f] = IF f = e THEN q ELSE learned[f]
    BY <1>0, <2>1
  <2>4. TypeOK'
    BY <1>0, <2>1, <2>2, <2>3 DEF TypeOK
  <2>5. Earned(file.profile)' /\ \A f \in Engines : Earned(learned[f])'
    BY <1>0, <2>1, <2>2, <2>3 DEF Earned
  <2>6. RestartKeepsEvidence'
    <3>1. Lessons(q) = Lessons(file.profile)
      BY <2>1 DEF Lessons
    <3> QED
      BY <1>0, <2>1, <2>2, <2>3, <3>1 DEF RestartKeepsEvidence, Lessons
  <2> QED
    BY <1>0, <2>2, <2>4, <2>5, <2>6 DEF Inv
<1>5. ASSUME NEW e \in Engines, Save(e)
      PROVE  Inv'
  <2>1. /\ file' = [state |-> "whole", profile |-> Snapshot(learned[e])]
        /\ current' = {e} /\ e \in running
        /\ UNCHANGED <<learned, running, confirmed, taught>>
    BY <1>5 DEF Save
  <2>2. /\ file'.profile \in Profiles
        /\ file'.profile.trusted = learned[e].trusted
        /\ file'.profile.entries = learned[e].entries
        /\ file'.state = "whole"
        /\ file' \in [state : {"none", "part", "whole"}, profile : Profiles]
    BY <1>0, <2>1, SnapshotTyped
  <2>3. TypeOK'
    BY <1>0, <2>1, <2>2 DEF TypeOK
  <2>4. Earned(file.profile)' /\ \A f \in Engines : Earned(learned[f])'
    BY <1>0, <2>1, <2>2 DEF Earned
  <2>5. RestartKeepsEvidence'
    BY <2>1, <2>2 DEF RestartKeepsEvidence, Lessons
  <2> QED
    BY <2>2, <2>3, <2>4, <2>5 DEF Inv
<1>6. ASSUME NEW e \in Engines, SaveFails(e)
      PROVE  Inv'
  <2>1. /\ file' = Part /\ current' = {}
        /\ UNCHANGED <<learned, running, confirmed, taught>>
    BY <1>6 DEF SaveFails
  <2>2. /\ file' \in [state : {"none", "part", "whole"}, profile : Profiles]
        /\ file'.profile = Blank /\ file'.state # "whole"
    BY <2>1, BlankTyped DEF Part
  <2>3. TypeOK'
    BY <1>0, <1>b, <2>1, <2>2 DEF TypeOK
  <2>4. Earned(file.profile)' /\ \A f \in Engines : Earned(learned[f])'
    BY <1>0, <1>b, <2>1, <2>2 DEF Earned
  <2>5. RestartKeepsEvidence'
    BY <2>1 DEF RestartKeepsEvidence
  <2> QED
    BY <2>2, <2>3, <2>4, <2>5 DEF Inv
<1>7. ASSUME NEW e \in Engines, Destroy(e)
      PROVE  Inv'
  <2>1. /\ running' = running \ {e} /\ current' = current \ {e}
        /\ learned' = [learned EXCEPT ![e] = Blank]
        /\ UNCHANGED <<file, confirmed, taught>>
    BY <1>7 DEF Destroy
  <2>2. learned' \in [Engines -> Profiles]
        /\ \A f \in Engines : learned'[f] = IF f = e THEN Blank ELSE learned[f]
    BY <1>0, <2>1, BlankTyped
  <2>3. TypeOK'
    BY <1>0, <1>b, <2>1, <2>2 DEF TypeOK
  <2>4. Earned(file.profile)' /\ \A f \in Engines : Earned(learned[f])'
    BY <1>0, <1>b, <2>1, <2>2 DEF Earned
  <2>5. RestartKeepsEvidence'
    BY <1>0, <2>1, <2>2 DEF RestartKeepsEvidence
  <2> QED
    BY <1>0, <2>1, <2>3, <2>4, <2>5 DEF Inv
<1>8. ASSUME Crash
      PROVE  Inv'
  <2>1. /\ running' = {} /\ current' = {}
        /\ learned' = [e \in Engines |-> Blank]
        /\ file' \in {file, Part}
        /\ UNCHANGED <<confirmed, taught>>
    BY <1>8 DEF Crash
  <2>2. /\ file' \in [state : {"none", "part", "whole"}, profile : Profiles]
        /\ file'.state # "whole" => file'.profile = Blank
        /\ Cardinality(Held(file'.profile.entries)) <= MaxEntries
        /\ file'.profile = file.profile \/ file'.profile = Blank
    <3>1. CASE file' = file
      BY <1>0, <3>1
    <3>2. CASE file' = Part
      BY <1>b, <3>2, BlankTyped DEF Part
    <3> QED
      BY <2>1, <3>1, <3>2
  <2>3. learned' \in [Engines -> Profiles] /\ \A f \in Engines : learned'[f] = Blank
    BY <2>1, BlankTyped
  <2>4. TypeOK'
    BY <1>0, <1>b, <2>1, <2>2, <2>3 DEF TypeOK
  <2>5. Earned(file.profile)' /\ \A f \in Engines : Earned(learned[f])'
    BY <1>0, <1>b, <2>1, <2>2, <2>3 DEF Earned
  <2>6. RestartKeepsEvidence'
    BY <2>1 DEF RestartKeepsEvidence
  <2> QED
    BY <2>2, <2>4, <2>5, <2>6 DEF Inv
<1>9. CASE UNCHANGED vars
  BY <1>0, <1>9 DEF vars, Inv, TypeOK, Earned, RestartKeepsEvidence
<1> QED
  BY <1>1, <1>2, <1>3, <1>4, <1>5, <1>6, <1>7, <1>8, <1>9 DEF Next

LEMMA InvHolds == Spec => []Inv
  BY InitInv, NextInv, PTL DEF Spec

-----------------------------------------------------------------------------
(* Theorems.                                                               *)

\* The state has its type, and no engine or profile ever holds more than
\* max_entries corrections (correction_memory.rs, record and from_snapshot).
THEOREM TypeCorrect == Spec => []TypeOK
<1>1. Inv => TypeOK
  BY DEF Inv
<1> QED
  BY <1>1, InvHolds, PTL

\* An engine trusts only words that some engine saw confirmed, however often
\* they were sampled, saved and restored (import_personal_profile).
THEOREM TrustIsEarned == Spec => []TrustEarned
<1>1. Inv => TrustEarned
  BY DEF Inv, Earned, TrustEarned
<1> QED
  BY <1>1, InvHolds, PTL

\* An override rests on as many corrections of the pair as the threshold says,
\* over all engines and restarts (CorrectionMemory).
THEOREM OverrideIsEarned == Spec => []OverrideEarned
<1>1. Inv => OverrideEarned
  <2> SUFFICES ASSUME Inv, NEW e \in Engines, NEW k \in Pairs, Overrides(learned[e], k)
               PROVE  taught[k] >= Threshold
    BY DEF OverrideEarned
  <2>1. learned[e].entries[k].count \in Nat /\ taught[k] \in Nat /\ Threshold \in Nat
    BY PairsAssumption DEF Inv, TypeOK, Profiles, Entries
  <2>2. learned[e].entries[k].count <= taught[k]
    BY DEF Inv, Earned
  <2> QED
    BY <2>1, <2>2 DEF Overrides
<1> QED
  BY <1>1, InvHolds, PTL

\* What an engine saved, or started from, is what the next one reads: neither
\* evictions, restores nor failed saves change the evidence of a profile.
THEOREM RestartKeeps == Spec => []RestartKeepsEvidence
<1>1. Inv => RestartKeepsEvidence
  BY DEF Inv
<1> QED
  BY <1>1, InvHolds, PTL
=============================================================================
