--------------------------- MODULE MasterLoopProofs ---------------------------
(***************************************************************************)
(* Proofs about the two halves of the master loop: MasterLoop, for any     *)
(* completions and any length of words, and SentenceEchoes, for any caps,  *)
(* any texts and any number of reports on their way.                       *)
(***************************************************************************)
EXTENDS MasterLoop, SentenceEchoes, FiniteSetTheorems, SequenceTheorems, WellFoundedInduction,
        TLAPS

(* What is on record is what is on the screen, beyond doubt. *)
Undoubted == shown # {} /\ screen # {} => shown = screen /\ ~doubt

(* A completion in the core is the one on the screen. *)
GhostDisplayed == ghost => word > 0 /\ owner = "core" /\ screen = Pair(word, top)

(* TypeOK, in two parts: the provers treat the Boolean variables on their own. *)
Flags ==
  /\ enabled \in BOOLEAN /\ ghost \in BOOLEAN /\ display \in BOOLEAN /\ readings \in BOOLEAN
  /\ supported \in BOOLEAN /\ dismissed \in BOOLEAN /\ lease \in BOOLEAN /\ doubt \in BOOLEAN
Others ==
  /\ word \in 0..MaxWord /\ owner \in {"core", "native", "direct"}
  /\ top \in AtMostOne(Completions) /\ accept \in {"none", "fresh", "late"}
  /\ shown \in AtMostOne(Pairs) /\ screen \in AtMostOne(Pairs) /\ rejected \subseteq Pairs
  /\ offer \in {"none", "current", "outdated"}
  /\ lastKey \in {"none", "other", "accept", "space"}
  /\ owner # "core" => word > 0 /\ top = {} /\ ~ghost

Relations ==
  /\ lease => offer = "current"
  /\ Undoubted
  /\ GhostDisplayed
  /\ BlameFollowsAccept
  /\ owner # "core" => accept = "none"
  /\ lastKey = "space" => word = 0

Inv == Flags /\ Others /\ Relations

Owners == {"core", "native", "direct"}

AnswerSet ==
  [word : 0..MaxWord, top : AtMostOne(Completions), ghost : BOOLEAN,
   shows : {"show", "hide", "keep"}, owner : Owners, on : BOOLEAN,
   handed : BOOLEAN, commits : BOOLEAN, accepts : BOOLEAN]

(* What is true of an answer to key k, before and after it is processed. *)
Sound(k, a) ==
  /\ a \in AnswerSet
  /\ a.shows = "show" => a.word > 0
  /\ a.ghost => a.word > 0 /\ a.owner = "core" /\ Displayed(a) = Pair(a.word, a.top)
  /\ a.owner # "core" => a.word > 0 /\ a.top = {} /\ ~a.ghost /\ ~a.accepts
  /\ a.accepts => a.word = 0 /\ (k = "space" => SpaceAccepts)

-----------------------------------------------------------------------------
(* Lemmas about the operators.                                             *)

LEMMA TypeSplit == TypeOK <=> Flags /\ Others
  BY DEF TypeOK, Flags, Others

LEMMA Types == Inv => TypeOK /\ Relations
  BY TypeSplit DEF Inv

LEMMA PairTyped ==
  ASSUME NEW w \in 0..MaxWord, NEW t \in AtMostOne(Completions)
  PROVE  Pair(w, t) \in AtMostOne(Pairs)
<1>1. CASE w = 0 \/ t = {}
  BY <1>1 DEF Pair, AtMostOne
<1>2. CASE w # 0 /\ t # {}
  <2>1. PICK c \in Completions : t = {c}
    BY <1>2 DEF AtMostOne
  <2>2. w \in WordLengths
    BY <1>2, BoundsAssumption DEF WordLengths
  <2>3. {w} \X {c} = {<<w, c>>} /\ <<w, c>> \in Pairs
    BY <2>2 DEF Pairs
  <2> QED
    BY <1>2, <2>1, <2>3 DEF Pair, AtMostOne
<1> QED
  BY <1>1, <1>2

LEMMA EndedSound ==
  ASSUME TypeOK, NEW k
  PROVE  Sound(k, Ended) /\ Sound(k, Committed) /\ Sound(k, [Ended EXCEPT !.on = FALSE])
         /\ ((k = "space" => SpaceAccepts) => Sound(k, Accepted))
<1>1. 0 \in 0..MaxWord /\ {} \in AtMostOne(Completions)
  BY BoundsAssumption DEF AtMostOne
<1> DEFINE b == Answer(0, {}, FALSE, "hide")
<1>b. /\ b \in AnswerSet /\ b.word = 0 /\ b.top = {} /\ b.ghost = FALSE /\ b.shows = "hide"
      /\ b.accepts = FALSE
  BY <1>1 DEF Answer, AnswerSet, TypeOK, Owners
<1>e. Ended = [b EXCEPT !.owner = "core"]
  BY DEF Ended
<1> HIDE DEF b
<1>2. /\ Ended \in AnswerSet /\ Ended.word = 0 /\ Ended.top = {} /\ Ended.ghost = FALSE
      /\ Ended.shows = "hide" /\ Ended.owner = "core" /\ Ended.accepts = FALSE
  BY <1>b, <1>e DEF AnswerSet, Owners
<1>3. Sound(k, Ended)
  BY <1>1, <1>2 DEF Sound, AnswerSet, Owners
<1>4. Sound(k, [Ended EXCEPT !.on = FALSE])
  BY <1>1, <1>2 DEF Sound, AnswerSet, Owners
<1>5. Sound(k, [Ended EXCEPT !.commits = TRUE])
  BY <1>1, <1>2 DEF Sound, AnswerSet, Owners
<1>6. (k = "space" => SpaceAccepts) => Sound(k, Accepted)
  BY <1>1, <1>2 DEF Sound, AnswerSet, Owners, Accepted
<1> QED
  BY <1>3, <1>4, <1>5, <1>6 DEF Committed

(* A completion or none, displayed only for a word of the core's. *)
LEMMA PredictedSound ==
  ASSUME Inv, NEW k, NEW w \in 0..MaxWord, NEW a \in Predicted(w)
  PROVE  Sound(k, a)
<1>0. TypeOK /\ {} \in AtMostOne(Completions) /\ owner \in Owners
  BY Types DEF TypeOK, AtMostOne, Owners
<1>1. CASE owner # "core" \/ ~display \/ w = 0
  <2> DEFINE b == Answer(w, {}, FALSE, "hide")
  <2>1. a = [b EXCEPT !.owner = IF w = 0 THEN "core" ELSE owner]
    BY <1>1 DEF Predicted
  <2>b. /\ b \in AnswerSet /\ b.word = w /\ b.top = {} /\ b.ghost = FALSE /\ b.shows = "hide"
        /\ b.accepts = FALSE
    BY <1>0 DEF Answer, AnswerSet, TypeOK, Owners
  <2> HIDE DEF b
  <2>2. /\ a \in AnswerSet /\ a.word = w /\ a.top = {} /\ a.ghost = FALSE /\ a.shows = "hide"
        /\ a.owner = (IF w = 0 THEN "core" ELSE owner) /\ a.accepts = FALSE
    BY <1>0, <2>1, <2>b DEF AnswerSet, Owners
  <2>3. w # 0 => w > 0
    BY BoundsAssumption
  <2> QED
    BY <2>2, <2>3 DEF Sound
<1>2. CASE ~(owner # "core" \/ ~display \/ w = 0)
  <2>0. owner = "core" /\ w > 0
    BY <1>2, BoundsAssumption
  <2>1. CASE \E t \in AtMostOne(Completions) : a = Answer(w, t, FALSE, "hide")
    <3>1. PICK t \in AtMostOne(Completions) : a = Answer(w, t, FALSE, "hide")
      BY <2>1
    <3>2. a \in AnswerSet /\ a.ghost = FALSE /\ a.shows = "hide" /\ a.owner = owner
          /\ a.accepts = FALSE
      BY <1>0, <3>1 DEF Answer, AnswerSet, TypeOK, Owners
    <3> QED
      BY <2>0, <3>2 DEF Sound
  <2>2. CASE \E c \in Completions : a = Answer(w, {c}, TRUE, "show")
    <3>1. PICK c \in Completions : a = Answer(w, {c}, TRUE, "show")
      BY <2>2
    <3>2. {c} \in AtMostOne(Completions)
      BY DEF AtMostOne
    <3>3. a \in AnswerSet /\ a.word = w /\ a.shows = "show" /\ a.owner = owner
          /\ a.accepts = FALSE
      BY <1>0, <3>1, <3>2 DEF Answer, AnswerSet, TypeOK, Owners
    <3> QED
      BY <2>0, <3>3 DEF Sound, Displayed
  <2> QED
    BY <1>2, <2>1, <2>2 DEF Predicted
<1> QED
  BY <1>1, <1>2

(* The word, its prediction and its display are kept. *)
LEMMA KeptSound ==
  ASSUME Inv, NEW k
  PROVE  Sound(k, Answer(word, top, ghost, "keep"))
<1>1. TypeOK /\ word \in 0..MaxWord /\ top \in AtMostOne(Completions) /\ ghost \in BOOLEAN
      /\ (owner # "core" => word > 0 /\ top = {} /\ ~ghost) /\ GhostDisplayed
  BY Types DEF TypeOK, Relations
<1> DEFINE b == Answer(word, top, ghost, "keep")
<1>2. /\ b \in AnswerSet /\ b.word = word /\ b.top = top /\ b.ghost = ghost
      /\ b.shows = "keep" /\ b.owner = owner /\ b.accepts = FALSE
  BY <1>1 DEF Answer, AnswerSet, TypeOK, Owners
<1> HIDE DEF b
<1>3. Sound(k, b)
  BY <1>1, <1>2 DEF GhostDisplayed, Sound, Displayed
<1> QED
  BY <1>3 DEF b

LEMMA AnswersSound ==
  ASSUME Inv, NEW k \in Keys, NEW a \in Answers(k)
  PROVE  Sound(k, a)
<1>0. /\ TypeOK /\ word \in 0..MaxWord /\ top \in AtMostOne(Completions) /\ ghost \in BOOLEAN
      /\ {} \in AtMostOne(Completions) /\ MaxWord \in Nat
      /\ (owner # "core" => word > 0 /\ top = {} /\ ~ghost)
      /\ (ghost => word > 0 /\ owner = "core")
  BY BoundsAssumption, Types DEF TypeOK, AtMostOne, Relations, GhostDisplayed
<1>1. CASE ~enabled
  <2>1. a = [Answer(word, top, ghost, "keep") EXCEPT !.on = (k = "kill")]
    BY <1>1 DEF Answers
  <2> DEFINE b == Answer(word, top, ghost, "keep")
  <2>2. Sound(k, b)
    BY KeptSound
  <2> HIDE DEF b
  <2>3. a = [b EXCEPT !.on = (k = "kill")]
    BY <2>1 DEF b
  <2>4. /\ a \in AnswerSet /\ a.word = b.word /\ a.top = b.top /\ a.ghost = b.ghost
        /\ a.shows = b.shows /\ a.owner = b.owner /\ a.accepts = b.accepts
    BY <2>2, <2>3 DEF Sound, AnswerSet
  <2> QED
    BY <2>2, <2>4 DEF Sound, Displayed
<1>2. CASE enabled /\ k = "kill"
  <2>1. a = [Ended EXCEPT !.on = FALSE]
    BY <1>2 DEF Answers
  <2> QED
    BY <1>0, <2>1, EndedSound
<1>3. CASE enabled /\ k = "modifier"
  <2>1. a = Answer(word, top, ghost, "keep")
    BY <1>3 DEF Answers
  <2> QED
    BY <2>1, KeptSound
<1>4. CASE enabled /\ k = "letter"
  <2>1. /\ word # MaxWord
        /\ a \in Predicted(word + 1) \/ a = [Answer(word + 1, {}, FALSE, "hide") EXCEPT !.handed = TRUE]
    BY <1>4 DEF Answers
  <2>2. word + 1 \in 0..MaxWord /\ word + 1 > 0
    BY <1>0, <2>1
  <2>3. CASE a \in Predicted(word + 1)
    BY <2>2, <2>3, PredictedSound
  <2>4. CASE a = [Answer(word + 1, {}, FALSE, "hide") EXCEPT !.handed = TRUE]
    <3> DEFINE b == Answer(word + 1, {}, FALSE, "hide")
    <3>b. /\ b \in AnswerSet /\ b.word = word + 1 /\ b.top = {} /\ b.ghost = FALSE
          /\ b.shows = "hide" /\ b.owner = owner /\ b.accepts = FALSE
      BY <1>0, <2>2 DEF Answer, AnswerSet, TypeOK, Owners
    <3>c. a = [b EXCEPT !.handed = TRUE]
      BY <2>4
    <3> HIDE DEF b
    <3>1. /\ a \in AnswerSet /\ a.word = word + 1 /\ a.top = {} /\ a.ghost = FALSE
          /\ a.shows = "hide" /\ a.owner = owner /\ a.accepts = FALSE
      BY <3>b, <3>c DEF AnswerSet
    <3> QED
      BY <2>2, <3>1 DEF Sound
  <2> QED
    BY <2>1, <2>3, <2>4
<1>5. CASE enabled /\ k = "backspace"
  <2>1. a \in Predicted(IF word = 0 THEN 0 ELSE word - 1)
    BY <1>5 DEF Answers
  <2>2. (IF word = 0 THEN 0 ELSE word - 1) \in 0..MaxWord
    BY <1>0
  <2> QED
    BY <2>1, <2>2, PredictedSound
<1>6. CASE enabled /\ k \in {"boundary", "arrow"}
  <2>1. a \in {Committed, Ended}
    BY <1>6 DEF Answers
  <2> QED
    BY <1>0, <2>1, EndedSound
<1>7. CASE enabled /\ k = "space"
  <2>1. a = IF SpaceAccepts THEN Accepted ELSE Committed
    BY <1>7 DEF Answers
  <2> QED
    BY <1>0, <2>1, EndedSound
<1>8. CASE enabled /\ k = "tab"
  <2>1. a = IF ghost THEN Accepted ELSE Committed
    BY <1>8 DEF Answers
  <2> QED
    BY <1>0, <1>8, <2>1, EndedSound
<1>9. CASE enabled /\ k = "right"
  <2>1. \/ a \in {Accepted, Ended}
        \/ ghost /\ word # MaxWord /\ a = Answer(word + 1, top, TRUE, "show")
    BY <1>9 DEF Answers
  <2>2. CASE a \in {Accepted, Ended}
    BY <1>0, <1>9, <2>2, EndedSound
  <2>3. CASE ghost /\ word # MaxWord /\ a = Answer(word + 1, top, TRUE, "show")
    <3>1. word + 1 \in 0..MaxWord /\ word + 1 > 0
      BY <1>0, <2>3
    <3>2. a \in AnswerSet /\ a.word = word + 1 /\ a.shows = "show" /\ a.owner = owner
          /\ a.accepts = FALSE
      BY <1>0, <2>3, <3>1 DEF Answer, AnswerSet, TypeOK, Owners
    <3> QED
      BY <1>0, <2>3, <3>1, <3>2 DEF Sound, Displayed
  <2> QED
    BY <2>1, <2>2, <2>3
<1>10. CASE enabled /\ k = "escape"
  <2>1. CASE ghost
    <3>1. a = Answer(word, {}, FALSE, "hide")
      BY <1>10, <2>1 DEF Answers
    <3>2. {} \in AtMostOne(Completions)
      BY DEF AtMostOne
    <3>3. a \in AnswerSet /\ a.ghost = FALSE /\ a.shows = "hide" /\ a.owner = owner
          /\ a.accepts = FALSE
      BY <1>0, <3>1, <3>2 DEF Answer, AnswerSet, TypeOK, Owners
    <3> QED
      BY <1>0, <2>1, <3>3 DEF Sound
  <2>2. CASE ~ghost
    <3>1. a = Ended \/ a = Answer(word, top, ghost, "keep")
      BY <1>0, <1>10, <2>2 DEF Answers, TypeOK
    <3> QED
      BY <1>0, <3>1, EndedSound, KeptSound
  <2> QED
    BY <2>1, <2>2
<1> QED
  BY <1>1, <1>2, <1>3, <1>4, <1>5, <1>6, <1>7, <1>8, <1>9, <1>10 DEF Keys

(* apply_correction_override keeps an answer sound. *)
LEMMA OverriddenSound ==
  ASSUME NEW k, NEW a, Sound(k, a), NEW b \in Overridden(a)
  PROVE  Sound(k, b)
<1>1. CASE b = a
  BY <1>1
<1>2. CASE b # a
  <2>1. PICK c \in Completions :
          /\ a.word # 0 /\ a.owner = "core"
          /\ b = [a EXCEPT !.top = {c}, !.ghost = TRUE, !.shows = "show"]
    BY <1>2 DEF Overridden
  <2>2. {c} \in AtMostOne(Completions) /\ a \in AnswerSet /\ a.word \in 0..MaxWord
    BY DEF AtMostOne, Sound, AnswerSet
  <2>3. /\ b \in AnswerSet /\ b.word = a.word /\ b.top = {c} /\ b.ghost /\ b.shows = "show"
        /\ b.owner = a.owner /\ b.accepts = a.accepts
    BY <2>1, <2>2 DEF AnswerSet
  <2>4. b.word > 0
    BY <2>1, <2>2, <2>3, BoundsAssumption
  <2> QED
    BY <2>1, <2>3, <2>4 DEF Sound, Displayed
<1> QED
  BY <1>1, <1>2

(* enforce_rejection_suppression keeps it sound, and shows nothing suppressed. *)
LEMMA EnforcedSound ==
  ASSUME NEW k, NEW a, Sound(k, a)
  PROVE  /\ Sound(k, Enforced(a))
         /\ Enforced(a).shows = "show" => ~Suppressed(Enforced(a))
<1>1. CASE ~Suppressed(a)
  BY <1>1 DEF Enforced
<1>2. CASE Suppressed(a)
  <2> DEFINE b == Enforced(a)
  <2>0. a \in AnswerSet
    BY DEF Sound
  <2>1. b = [a EXCEPT !.ghost = FALSE, !.shows = IF a.shows = "show" THEN "hide" ELSE a.shows]
    BY <1>2 DEF Enforced
  <2> HIDE DEF b
  <2>2. /\ b \in AnswerSet /\ b.word = a.word /\ b.top = a.top /\ ~b.ghost /\ b.shows # "show"
        /\ b.owner = a.owner /\ b.accepts = a.accepts
    BY <2>0, <2>1 DEF AnswerSet
  <2>3. Sound(k, b) /\ b.shows # "show"
    BY <2>2 DEF Sound
  <2> QED
    BY <2>3 DEF b
<1> QED
  BY <1>1, <1>2

LEMMA ProcessedSound ==
  ASSUME Inv, NEW k \in Keys, NEW a0 \in Answers(k), NEW a \in Processed(a0)
  PROVE  Sound(k, a) /\ (a.shows = "show" => ~Suppressed(a))
<1>1. PICK b \in Overridden(a0) : a = Enforced(b)
  BY DEF Processed
<1>2. Sound(k, b)
  BY AnswersSound, OverriddenSound
<1> QED
  BY <1>1, <1>2, EnforcedSound

-----------------------------------------------------------------------------
(* The inductive invariant.                                                *)

LEMMA InitInv == Init => Inv
<1>1. Init => Flags
  BY DEF Init, Flags
<1>2. Init => Others
  BY BoundsAssumption DEF Init, Others, AtMostOne
<1>3. Init => Relations
  BY DEF Init, Relations, Undoubted, GhostDisplayed, BlameFollowsAccept
<1> QED
  BY <1>1, <1>2, <1>3 DEF Inv

LEMMA OrdinaryInv ==
  ASSUME Inv, NEW k \in Keys, Ordinary(k)
  PROVE  Inv'
<1>a. PICK a0 \in Answers(k), blames \in Blames(k) : \E a \in Processed(a0) :
        /\ enabled' = a.on /\ word' = a.word /\ owner' = a.owner
        /\ top' = a.top /\ ghost' = a.ghost
        /\ Rereads(IF k = "modifier" THEN {readings} ELSE ReadingsOf(a.word))
        /\ rejected' \in IF blames THEN Recorded(Blamed(k, a)) ELSE {rejected}
        /\ shown' = Noted(a, Left(k, a, blames))
        /\ accept' = AcceptAfter(k, a)
        /\ screen' = Displayed(a)
        /\ doubt' = (a.shows = "keep" /\ doubt)
        /\ lastKey' = IF ~a.accepts THEN "other" ELSE IF k = "space" THEN "space" ELSE "accept"
  BY DEF Ordinary
<1>1. PICK a \in Processed(a0) :
        /\ enabled' = a.on /\ word' = a.word /\ owner' = a.owner
        /\ top' = a.top /\ ghost' = a.ghost
        /\ Rereads(IF k = "modifier" THEN {readings} ELSE ReadingsOf(a.word))
        /\ rejected' \in IF blames THEN Recorded(Blamed(k, a)) ELSE {rejected}
        /\ shown' = Noted(a, Left(k, a, blames))
        /\ accept' = AcceptAfter(k, a)
        /\ screen' = Displayed(a)
        /\ doubt' = (a.shows = "keep" /\ doubt)
        /\ lastKey' = IF ~a.accepts THEN "other" ELSE IF k = "space" THEN "space" ELSE "accept"
  BY <1>a
<1>2. Sound(k, a)
  BY ProcessedSound
<1>3. lease' = FALSE /\ dismissed' = (dismissed /\ word # 0) /\ UNCHANGED <<display, supported>>
  BY DEF Ordinary, Pressed, Invalidate
<1>4. a \in AnswerSet /\ Pair(a.word, a.top) \in AtMostOne(Pairs)
  BY <1>2, PairTyped DEF Sound, AnswerSet
<1>5. screen \in AtMostOne(Pairs) /\ shown \in AtMostOne(Pairs) /\ rejected \subseteq Pairs
      /\ {} \in AtMostOne(Pairs) /\ TypeOK /\ Relations
  BY Types DEF TypeOK, AtMostOne
<1>6. Left(k, a, blames) \in {{}, shown}
  BY DEF Left, Attributed
<1>7. Blamed(k, a) \in {{}, shown}
  BY DEF Blamed, Left, Attributed
<1>8. TypeOK'
  <2>1. /\ enabled' \in BOOLEAN /\ word' \in 0..MaxWord /\ owner' \in {"core", "native", "direct"}
        /\ top' \in AtMostOne(Completions) /\ ghost' \in BOOLEAN
    BY <1>1, <1>4 DEF AnswerSet, Owners
  <2>2. readings' \in BOOLEAN /\ offer' \in {"none", "current", "outdated"}
    BY <1>1, <1>5 DEF Rereads, ReadingsOf, TypeOK
  <2>3. accept' \in {"none", "fresh", "late"}
    BY <1>1 DEF AcceptAfter
  <2>4. shown' \in AtMostOne(Pairs)
    BY <1>1, <1>4, <1>5, <1>6 DEF Noted
  <2>5. screen' \in AtMostOne(Pairs)
    <3>1. a.shows \in {"show", "hide", "keep"}
      BY <1>4 DEF AnswerSet
    <3> QED
      BY <1>1, <1>4, <1>5, <3>1 DEF Displayed
  <2>6. shown \subseteq Pairs
    BY <1>5 DEF AtMostOne
  <2>7. rejected' \subseteq Pairs
    <3>1. rejected' \in {rejected, rejected \cup Blamed(k, a)}
      BY <1>1 DEF Recorded
    <3> QED
      BY <1>5, <1>7, <2>6, <3>1
  <2>8. display' \in BOOLEAN /\ supported' \in BOOLEAN /\ dismissed' \in BOOLEAN
        /\ lease' \in BOOLEAN
    BY <1>3, <1>5 DEF TypeOK
  <2>9. doubt' \in BOOLEAN /\ lastKey' \in {"none", "other", "accept", "space"}
    BY <1>1, <1>5 DEF TypeOK
  <2>10. owner' # "core" => word' > 0 /\ top' = {} /\ ~ghost'
    BY <1>1, <1>2 DEF Sound
  <2> QED
    BY <2>1, <2>2, <2>3, <2>4, <2>5, <2>7, <2>8, <2>9, <2>10 DEF TypeOK
<1>9. Undoubted'
  <2>1. CASE a.shows = "show"
    BY <1>1, <1>2, <2>1 DEF Undoubted, Noted, Displayed, Sound
  <2>2. CASE a.shows = "hide"
    BY <1>1, <2>2 DEF Undoubted, Displayed
  <2>3. CASE a.shows = "keep"
    <3>1. screen' = screen /\ shown' \in {{}, shown} /\ doubt' = doubt
      BY <1>1, <1>5, <1>6, <2>3 DEF Displayed, Noted, TypeOK
    <3> QED
      BY <1>5, <3>1 DEF Relations, Undoubted
  <2> QED
    BY <1>4, <2>1, <2>2, <2>3 DEF AnswerSet
<1>10. GhostDisplayed'
  BY <1>1, <1>2 DEF GhostDisplayed, Sound, Pair
<1>11. BlameFollowsAccept'
  BY <1>1 DEF BlameFollowsAccept, AcceptAfter
<1>12. owner' # "core" => accept' = "none"
  BY <1>1, <1>2 DEF Sound, AcceptAfter
<1>13. lastKey' = "space" => word' = 0
  BY <1>1, <1>2 DEF Sound
<1> QED
  <2>1. (Flags /\ Others)'
    BY <1>8 DEF TypeOK, Flags, Others
  <2>2. Relations'
    BY <1>3, <1>9, <1>10, <1>11, <1>12, <1>13 DEF Relations
  <2> QED
    BY <2>1, <2>2 DEF Inv

LEMMA NextInv == Inv /\ [Next]_vars => Inv'
<1> SUFFICES ASSUME Flags, Others, Relations, [Next]_vars PROVE (Flags /\ Others /\ Relations)'
  BY DEF Inv
<1> DEFINE Kept == (Flags /\ Others /\ Relations)'
<1>0. {} \in AtMostOne(Pairs) /\ {} \in AtMostOne(Completions) /\ MaxWord \in Nat \ {0}
  BY BoundsAssumption DEF AtMostOne
<1>1. ASSUME NEW k \in Keys, Ordinary(k) PROVE Kept
  BY <1>1, OrdinaryInv DEF Inv
<1>2. ASSUME Chord PROVE Kept
  <2>1. Flags'
    BY <1>2 DEF Flags, Chord, Pressed, Invalidate, Rereads
  <2>2. Others'
    BY <1>0, <1>2 DEF Others, Chord, Pressed, Invalidate, Rereads
  <2>3. Relations'
    BY <1>2 DEF Others, Relations, Undoubted, GhostDisplayed, BlameFollowsAccept,
       Chord, Pressed, Invalidate, Rereads
  <2> QED
    BY <2>1, <2>2, <2>3
<1>3. ASSUME ClientBoundary PROVE Kept
  <2>1. Flags'
    BY <1>3 DEF Flags, ClientBoundary, ClearTracking, CoreEnds, Invalidate, Rereads
  <2>2. Others'
    BY <1>0, <1>3 DEF Others, ClientBoundary, ClearTracking, CoreEnds, Invalidate, Rereads
  <2>3. Relations'
    BY <1>3 DEF Others, Relations, Undoubted, GhostDisplayed, BlameFollowsAccept,
       ClientBoundary, ClearTracking, CoreEnds, Invalidate, Rereads
  <2> QED
    BY <2>1, <2>2, <2>3
<1>4. ASSUME DirectKey PROVE Kept
  <2>1. Flags'
    BY <1>4 DEF Flags, DirectKey, ClearTracking, Pressed, Invalidate, Rereads
  <2>2. Others'
    BY <1>0, <1>4 DEF Others, DirectKey, ClearTracking, Pressed, Invalidate, Rereads
  <2>3. Relations'
    BY <1>4 DEF Others, Relations, Undoubted, GhostDisplayed, BlameFollowsAccept,
       DirectKey, ClearTracking, Pressed, Invalidate, Rereads
  <2> QED
    BY <2>1, <2>2, <2>3
<1>5. ASSUME NativePopup PROVE Kept
  <2>1. Flags'
    BY <1>5 DEF Flags, NativePopup, ClearTracking, Pressed, Invalidate, Rereads, ReadingsOf
  <2>2. Others'
    BY <1>0, <1>5 DEF Others, NativePopup, ClearTracking, Pressed, Invalidate, Rereads, ReadingsOf
  <2>3. Relations'
    BY <1>5 DEF Others, Relations, Undoubted, GhostDisplayed, BlameFollowsAccept,
       NativePopup, ClearTracking, Pressed, Invalidate, Rereads, ReadingsOf
  <2> QED
    BY <2>1, <2>2, <2>3
<1>6. ASSUME Offer PROVE Kept
  <2>1. Flags'
    BY <1>6 DEF Flags, Offer, core, feedback, history
  <2>2. Others'
    BY <1>0, <1>6 DEF Others, Offer, core, feedback, history
  <2>3. Relations'
    BY <1>6 DEF Others, Relations, Undoubted, GhostDisplayed, BlameFollowsAccept,
       Offer, core, feedback, history
  <2> QED
    BY <2>1, <2>2, <2>3
<1>7. ASSUME DismissLanguageChoice PROVE Kept
  <2>1. Flags'
    BY <1>7 DEF Flags, DismissLanguageChoice, Invalidate, core, feedback, history
  <2>2. Others'
    BY <1>0, <1>7 DEF Others, DismissLanguageChoice, Invalidate, core, feedback, history
  <2>3. Relations'
    BY <1>7 DEF Others, Relations, Undoubted, GhostDisplayed, BlameFollowsAccept,
       DismissLanguageChoice, Invalidate, core, feedback, history
  <2> QED
    BY <2>1, <2>2, <2>3
<1>8. ASSUME AcceptLanguageChoice PROVE Kept
  <2>1. Flags'
    BY <1>8 DEF Flags, AcceptLanguageChoice, Invalidate, CoreEnds, Rereads
  <2>2. Others'
    BY <1>0, <1>8 DEF Others, AcceptLanguageChoice, Invalidate, CoreEnds, Rereads
  <2>3. Relations'
    BY <1>8 DEF Others, Relations, Undoubted, GhostDisplayed, BlameFollowsAccept,
       AcceptLanguageChoice, Invalidate, CoreEnds, Rereads
  <2> QED
    BY <2>1, <2>2, <2>3
<1>9. ASSUME SetLanguageChoiceSupported PROVE Kept
  <2>1. Flags'
    BY <1>9 DEF Flags, SetLanguageChoiceSupported, Invalidate, core, feedback, history
  <2>2. Others'
    BY <1>0, <1>9 DEF Others, SetLanguageChoiceSupported, Invalidate, core, feedback, history
  <2>3. Relations'
    BY <1>9 DEF Others, Relations, Undoubted, GhostDisplayed, BlameFollowsAccept,
       SetLanguageChoiceSupported, Invalidate, core, feedback, history
  <2> QED
    BY <2>1, <2>2, <2>3
<1>10. ASSUME NEW b \in BOOLEAN, SetCompletionDisplaySupported(b) PROVE Kept
  <2>1. Flags'
    BY <1>10 DEF Flags, SetCompletionDisplaySupported, choice
  <2>2. Others'
    BY <1>0, <1>10 DEF Others, SetCompletionDisplaySupported, choice
  <2>3. Relations'
    BY <1>10 DEF Others, Relations, Undoubted, GhostDisplayed, BlameFollowsAccept,
       SetCompletionDisplaySupported, choice
  <2> QED
    BY <2>1, <2>2, <2>3
<1>11. ASSUME NEW to \in {"native", "direct"}, Handoff(to) PROVE Kept
  <2>1. Flags'
    BY <1>11 DEF Flags, Handoff, ClearTracking, Invalidate, Rereads
  <2>2. Others'
    BY <1>0, <1>11 DEF Others, Handoff, ClearTracking, Invalidate, Rereads
  <2>3. Relations'
    BY <1>11 DEF Others, Relations, Undoubted, GhostDisplayed, BlameFollowsAccept,
       Handoff, ClearTracking, Invalidate, Rereads
  <2> QED
    BY <2>1, <2>2, <2>3
<1>12. ASSUME ReconcileNative PROVE Kept
  <2>1. Flags'
    BY <1>12 DEF Flags, ReconcileNative, ClearTracking, CoreEnds, Invalidate, Rereads
  <2>2. Others'
    BY <1>0, <1>12 DEF Others, ReconcileNative, ClearTracking, CoreEnds, Invalidate, Rereads
  <2>3. Relations'
    BY <1>12 DEF Others, Relations, Undoubted, GhostDisplayed, BlameFollowsAccept,
       ReconcileNative, ClearTracking, CoreEnds, Invalidate, Rereads
  <2> QED
    BY <2>1, <2>2, <2>3
<1>13. ASSUME FlushPreeditForLayout PROVE Kept
  <2>1. Flags'
    BY <1>13 DEF Flags, FlushPreeditForLayout, ClearTracking, CoreEnds, Invalidate, Rereads
  <2>2. Others'
    BY <1>0, <1>13 DEF Others, FlushPreeditForLayout, ClearTracking, CoreEnds, Invalidate, Rereads
  <2>3. Relations'
    BY <1>13 DEF Others, Relations, Undoubted, GhostDisplayed, BlameFollowsAccept,
       FlushPreeditForLayout, ClearTracking, CoreEnds, Invalidate, Rereads
  <2> QED
    BY <2>1, <2>2, <2>3
<1>14. ASSUME FocusLostOrReset PROVE Kept
  <2>1. Flags'
    BY <1>14 DEF Flags, FocusLostOrReset, CoreEnds, Invalidate, Rereads
  <2>2. Others'
    BY <1>0, <1>14 DEF Others, FocusLostOrReset, CoreEnds, Invalidate, Rereads
  <2>3. Relations'
    BY <1>14 DEF Others, Relations, Undoubted, GhostDisplayed, BlameFollowsAccept,
       FocusLostOrReset, CoreEnds, Invalidate, Rereads
  <2> QED
    BY <2>1, <2>2, <2>3
<1>15. ASSUME FocusGained PROVE Kept
  <2>1. Flags'
    BY <1>15 DEF Flags, FocusGained, CoreEnds, Invalidate, Rereads, feedback
  <2>2. Others'
    <3>1. CASE owner = "native"
      BY <1>0, <1>15, <3>1 DEF Others, FocusGained, CoreEnds, Invalidate, Rereads, feedback
    <3>2. CASE owner # "native"
      BY <1>15, <3>2 DEF Others, FocusGained, CoreEnds, Invalidate, Rereads, feedback
    <3> QED
      BY <3>1, <3>2
  <2>3. Relations'
    BY <1>15 DEF Others, Relations, Undoubted, GhostDisplayed, BlameFollowsAccept,
       FocusGained, CoreEnds, Invalidate, Rereads, feedback
  <2> QED
    BY <2>1, <2>2, <2>3
<1>16. ASSUME ContextChanges PROVE Kept
  <2>1. Flags'
    BY <1>16 DEF Flags, ContextChanges, Invalidate, feedback, history, Rereads, ReadingsOf
  <2>2. Others'
    BY <1>0, <1>16 DEF Others, ContextChanges, Invalidate, feedback, history, Rereads, ReadingsOf
  <2>3. Relations'
    BY <1>16 DEF Others, Relations, Undoubted, GhostDisplayed, BlameFollowsAccept,
       ContextChanges, Invalidate, feedback, history, Rereads, ReadingsOf
  <2> QED
    BY <2>1, <2>2, <2>3
<1>17. ASSUME NEW p \in Pairs, RecordGhostRejection(p) PROVE Kept
  <2>1. /\ rejected' \in {rejected, rejected \cup {p}} /\ shown' = shown \ {p}
        /\ doubt' = (doubt \/ p \in screen)
        /\ UNCHANGED <<core, accept, choice, screen, lastKey>>
    BY <1>17 DEF RecordGhostRejection, Recorded
  <2>2. shown' \in {{}, shown} /\ (p \in shown => shown' = {})
    BY <2>1 DEF Others, AtMostOne
  <2>3. rejected' \subseteq Pairs
    BY <2>1 DEF Others
  <2>4. Flags'
    BY <2>1 DEF Flags, core, choice
  <2>5. Others'
    BY <1>0, <2>1, <2>2, <2>3 DEF Others, core, choice
  <2>6. Undoubted'
    BY <2>1, <2>2 DEF Relations, Undoubted
  <2>7. Relations'
    BY <2>1, <2>6 DEF Relations, GhostDisplayed, BlameFollowsAccept, core, choice
  <2> QED
    BY <2>4, <2>5, <2>7
<1>18. CASE AcceptAges
  <2>1. Flags'
    BY <1>18 DEF Flags, AcceptAges, core, choice, history
  <2>2. Others'
    BY <1>18 DEF Others, AcceptAges, core, choice, history
  <2>3. Relations'
    BY <1>18 DEF Relations, Undoubted, GhostDisplayed, BlameFollowsAccept, AcceptAges,
       core, choice, history
  <2> QED
    BY <2>1, <2>2, <2>3
<1>19. CASE UNCHANGED vars
  BY <1>19 DEF Flags, Others, Relations, Undoubted, GhostDisplayed, BlameFollowsAccept,
     vars, core, feedback, choice, history
<1> QED
  BY <1>1, <1>2, <1>3, <1>4, <1>5, <1>6, <1>7, <1>8, <1>9, <1>10, <1>11, <1>12, <1>13,
     <1>14, <1>15, <1>16, <1>17, <1>18, <1>19 DEF Next, HandleKey

LEMMA InvHolds == Spec => []Inv
  BY InitInv, NextInv, PTL DEF Spec

-----------------------------------------------------------------------------
(* Theorems.                                                               *)

\* Every variable is of its type, and the core of a word that the client holds
\* predicts nothing (MasterLoop).
THEOREM TypeCorrect == Spec => []TypeOK
<1>1. Inv => TypeOK
  BY Types
<1> QED
  BY <1>1, InvHolds, PTL

\* No change of a word's readings leaves the revision of an offer valid
\* (invalidate_language_choice).
THEOREM LeaseIsSound == Spec => []LeaseSound
<1>1. Inv => LeaseSound
  BY DEF Inv, Relations, LeaseSound
<1> QED
  BY <1>1, InvHolds, PTL

\* The completion on record is the one on the screen, when there are both
\* (note_shown_ghost).
THEOREM AttributionIsOne == Spec => []OneAttribution
<1>1. Inv => OneAttribution
  BY DEF Inv, Relations, Undoubted, OneAttribution
<1> QED
  BY <1>1, InvHolds, PTL

\* An accepted completion is blamed only by the key after it, through focus
\* losses and handovers (handle_key, frustration.rs).
THEOREM BlameIsImmediate == Spec => []BlameFollowsAccept
<1>1. Inv => BlameFollowsAccept
  BY DEF Inv, Relations
<1> QED
  BY <1>1, InvHolds, PTL

\* Space completes a word only with the completion on the screen, and none that
\* a chord or a rejection made doubtful (space_display_identity_ok).
THEOREM SpaceIsFaithful == Spec => SpaceTakesWhatIsShown
<1> DEFINE Taken == lastKey' = "space" /\ word # 0 /\ word' = 0 =>
                      screen # {} /\ screen = Pair(word, top) /\ ~doubt
<1>1. Inv /\ [Next]_vars => [Taken]_vars
  <2> SUFFICES ASSUME Inv, [Next]_vars, lastKey' = "space", word # 0, word' = 0
               PROVE  screen # {} /\ screen = Pair(word, top) /\ ~doubt
    OBVIOUS
  <2>0. Relations /\ lastKey # "space"
    BY DEF Inv, Relations
  <2>1. PICK k \in Keys : Ordinary(k)
    <3>1. Next
      BY <2>0 DEF vars, history
    <3>2. HandleKey
      BY <2>0, <3>1 DEF Next, Offer, DismissLanguageChoice, AcceptLanguageChoice,
         SetLanguageChoiceSupported, SetCompletionDisplaySupported, Handoff, ReconcileNative,
         FlushPreeditForLayout, FocusLostOrReset, FocusGained, ContextChanges,
         RecordGhostRejection, AcceptAges, history
    <3> QED
      BY <3>2 DEF HandleKey, Chord, ClientBoundary, DirectKey, NativePopup
  <2>2. PICK a0 \in Answers(k) : \E a \in Processed(a0) :
          lastKey' = IF ~a.accepts THEN "other" ELSE IF k = "space" THEN "space" ELSE "accept"
    BY <2>1 DEF Ordinary
  <2>3. PICK a \in Processed(a0) :
          lastKey' = IF ~a.accepts THEN "other" ELSE IF k = "space" THEN "space" ELSE "accept"
    BY <2>2
  <2>4. a.accepts /\ k = "space"
    BY <2>3
  <2>5. SpaceAccepts
    BY <2>4, ProcessedSound DEF Sound
  <2>6. ghost /\ shown # {} /\ shown = Pair(word, top)
    BY <2>5 DEF SpaceAccepts, SpaceDisplayIdentityOk
  <2> QED
    BY <2>0, <2>6 DEF Relations, GhostDisplayed, Undoubted
<1> QED
  BY <1>1, InvHolds, PTL DEF Spec, SpaceTakesWhatIsShown

\* No step displays a completion the user has rejected often enough, whatever
\* the corrections put in its place (enforce_rejection_suppression).
THEOREM RejectedStaysHidden == Spec => SuppressedNotDisplayed
<1> DEFINE Hidden == screen' # {} /\ screen' # screen => screen' \cap rejected = {}
<1>1. Inv /\ [Next]_vars => [Hidden]_vars
  <2> SUFFICES ASSUME Inv, [Next]_vars, screen' # {}, screen' # screen
               PROVE  screen' \cap rejected = {}
    OBVIOUS
  <2>1. PICK k \in Keys : Ordinary(k)
    <3>1. Next
      BY DEF vars, history
    <3>2. HandleKey
      BY <3>1 DEF Next, Offer, DismissLanguageChoice, AcceptLanguageChoice, CoreEnds,
         SetLanguageChoiceSupported, SetCompletionDisplaySupported, Handoff, ReconcileNative,
         FlushPreeditForLayout, FocusLostOrReset, FocusGained, ContextChanges,
         RecordGhostRejection, AcceptAges, history
    <3> QED
      BY <3>2 DEF HandleKey, Chord, ClientBoundary, DirectKey, NativePopup, CoreEnds
  <2>2. PICK a0 \in Answers(k) : \E a \in Processed(a0) : screen' = Displayed(a)
    BY <2>1 DEF Ordinary
  <2>3. PICK a \in Processed(a0) : screen' = Displayed(a)
    BY <2>2
  <2>4. Sound(k, a) /\ (a.shows = "show" => ~Suppressed(a))
    BY ProcessedSound
  <2>5. a.shows = "show"
    BY <2>3, <2>4 DEF Displayed, Sound, AnswerSet
  <2> QED
    BY <2>3, <2>4, <2>5 DEF Displayed, Suppressed
<1> QED
  BY <1>1, InvHolds, PTL DEF Spec, SuppressedNotDisplayed

-----------------------------------------------------------------------------
(* SentenceEchoes.  The projection is a queue of images, the reports on    *)
(* their way are another; what the proofs show is that the one always      *)
(* answers the other (Fits, EchoInv).                                      *)

Kinds == {"none", "return", "tab"}
Shots == [left : Nat, inserted : Seq(Chars)]
EchoSet == [base : Seq(Chars), opaque : Kinds, images : Seq(Shots)]

\* Every character an image adds, under the number of the image.
Spots(images) == UNION {{i} \X DOMAIN images[i].inserted : i \in DOMAIN images}

\* The images of a projection, within the caps.
Capped(images) == /\ images \in Seq(Shots) /\ images # <<>>
                  /\ Len(images) <= MaxEchoes /\ Inserted(images) <= MaxInserted
                  /\ IsFiniteSet(Spots(images))
Proper(e) == /\ e \in EchoSet /\ Capped(e.images)
             /\ \A i \in DOMAIN e.images : e.images[i].left <= Len(e.base)

\* What the images show, in their order.
Shows(e) == [i \in 1..Len(e.images) |-> TextOf(e, e.images[i])]

\* A text without its last n characters.
LEMMA ShortenedText ==
  ASSUME NEW C, NEW t \in Seq(C), NEW n \in Nat, n <= Len(t)
  PROVE  /\ Shortened(t, n) \in Seq(C) /\ Len(Shortened(t, n)) = Len(t) - n
         /\ \A i \in 1..(Len(t) - n) : Shortened(t, n)[i] = t[i]
<1>1. Len(t) \in Nat /\ 1 \in Int /\ Len(t) - n \in 0..Len(t)
  OBVIOUS
<1>2. /\ SubSeq(t, 1, Len(t) - n) \in Seq(C)
      /\ Len(SubSeq(t, 1, Len(t) - n)) = Len(t) - n
      /\ \A i \in 1..(Len(t) - n) : SubSeq(t, 1, Len(t) - n)[i] = t[i]
  BY <1>1, SMT
<1> QED
  BY <1>2, Zenon DEF Shortened

\* The text of an image: the base up to where it is left, then what was inserted.
LEMMA TextOfText ==
  ASSUME NEW e, NEW image, e.base \in Seq(Chars), image \in Shots, image.left <= Len(e.base)
  PROVE  /\ TextOf(e, image) \in Seq(Chars)
         /\ Len(TextOf(e, image)) = image.left + Len(image.inserted)
         /\ \A i \in 1..Len(TextOf(e, image)) :
              TextOf(e, image)[i] = IF i <= image.left THEN e.base[i]
                                    ELSE image.inserted[i - image.left]
<1> DEFINE b == e.base  l == image.left  t == image.inserted
<1>1. b \in Seq(Chars) /\ l \in Nat /\ t \in Seq(Chars) /\ l <= Len(b)
  BY DEF Shots
<1> HIDE DEF b, l, t
<1>2. /\ SubSeq(b, 1, l) \o t \in Seq(Chars)
      /\ Len(SubSeq(b, 1, l) \o t) = l + Len(t)
      /\ \A i \in 1..Len(SubSeq(b, 1, l) \o t) :
           (SubSeq(b, 1, l) \o t)[i] = IF i <= l THEN b[i] ELSE t[i - l]
  BY <1>1, SMT
<1>3. TextOf(e, image) = SubSeq(b, 1, l) \o t
  BY DEF TextOf, b, l, t
<1> QED
  BY <1>2, <1>3 DEF b, l, t

\* Two texts with the same characters are the same.
LEMMA SameText ==
  ASSUME NEW C, NEW s \in Seq(C), NEW t \in Seq(C), Len(s) = Len(t),
         \A i \in 1..Len(s) : s[i] = t[i]
  PROVE  s = t
  BY SMT

\* Two sequences joined, element by element.
LEMMA Concatenated ==
  ASSUME NEW C, NEW s \in Seq(C), NEW t \in Seq(C)
  PROVE  /\ s \o t \in Seq(C) /\ Len(s \o t) = Len(s) + Len(t)
         /\ \A i \in 1..(Len(s) + Len(t)) :
              (s \o t)[i] = IF i <= Len(s) THEN s[i] ELSE t[i - Len(s)]
  BY SMT

\* Cutting what was inserted cuts the text.
LEMMA CutInserted ==
  ASSUME NEW C, NEW a \in Seq(C), NEW t \in Seq(C), NEW n \in 0..Len(t)
  PROVE  a \o Shortened(t, n) = Shortened(a \o t, n)
<1> DEFINE u == Shortened(t, n)  w == a \o t  v == Shortened(w, n)  x == a \o u
<1>2. /\ n \in Nat /\ n <= Len(t) /\ n <= Len(a) + Len(t) /\ Len(a) \in Nat /\ Len(t) \in Nat
  BY SMT
<1>3. u \in Seq(C) /\ Len(u) = Len(t) - n /\ \A i \in 1..(Len(t) - n) : u[i] = t[i]
  BY <1>2, ShortenedText
<1>4. /\ w \in Seq(C) /\ Len(w) = Len(a) + Len(t)
      /\ \A i \in 1..(Len(a) + Len(t)) : w[i] = IF i <= Len(a) THEN a[i] ELSE t[i - Len(a)]
  BY Concatenated
<1>6. /\ x \in Seq(C) /\ Len(x) = Len(a) + Len(u)
      /\ \A i \in 1..(Len(a) + Len(u)) : x[i] = IF i <= Len(a) THEN a[i] ELSE u[i - Len(a)]
  <2> HIDE DEF u
  <2> QED
    BY <1>3, Concatenated
<1>5. v \in Seq(C) /\ Len(v) = Len(w) - n /\ \A i \in 1..(Len(w) - n) : v[i] = w[i]
  <2> HIDE DEF w
  <2> QED
    BY <1>2, <1>4, ShortenedText
<1>9. x = v
  <2> HIDE DEF u, v, w, x
  <2>1. ASSUME NEW i \in 1..Len(x) PROVE x[i] = v[i]
    <3>1. i \in Nat /\ i <= Len(a) + Len(t) - n /\ 1 <= i
      BY <1>2, <1>3, <1>6, SMT
    <3>2. v[i] = IF i <= Len(a) THEN a[i] ELSE t[i - Len(a)]
      BY <3>1, <1>2, <1>4, <1>5, SMT
    <3>3. x[i] = IF i <= Len(a) THEN a[i] ELSE u[i - Len(a)]
      BY <3>1, <1>2, <1>3, <1>6, SMT
    <3>4. i > Len(a) => u[i - Len(a)] = t[i - Len(a)]
      <4> SUFFICES ASSUME i > Len(a), NEW p, p = i - Len(a) PROVE u[p] = t[p]
        OBVIOUS
      <4>1. p \in 1..(Len(t) - n)
        BY <3>1, <1>2
      <4> QED
        BY <4>1, <1>3
    <3> QED
      BY <3>1, <3>2, <3>3, <3>4, <1>2, SMT
  <2>2. Len(x) = Len(v)
    BY <1>2, <1>3, <1>4, <1>5, <1>6, SMT
  <2> QED
    BY <1>5, <1>6, <2>1, <2>2, SameText
<1> QED
  BY <1>9

\* Cutting past what was inserted cuts the base.
LEMMA CutBase ==
  ASSUME NEW C, NEW b \in Seq(C), NEW l \in 0..Len(b), NEW t \in Seq(C), NEW n \in Nat,
         n > Len(t), n <= l + Len(t)
  PROVE  SubSeq(b, 1, l - (n - Len(t))) \o <<>> = Shortened(SubSeq(b, 1, l) \o t, n)
<1> DEFINE a == SubSeq(b, 1, l)  k == l - (n - Len(t))  y == SubSeq(b, 1, k)
           w == a \o t  v == Shortened(w, n)  x == y \o <<>>
<1>1. a \in Seq(C) /\ Len(a) = l /\ (\A i \in 1..l : a[i] = b[i]) /\ k \in 0..Len(b) /\ k <= l
      /\ k = l + Len(t) - n /\ l \in Nat /\ Len(t) \in Nat
  BY SMT
<1>2. y \in Seq(C) /\ Len(y) = k /\ \A i \in 1..k : y[i] = b[i]
  BY <1>1, SMT
<1>3. x = y
  BY <1>2, SMT
<1>4. /\ w \in Seq(C) /\ Len(w) = Len(a) + Len(t)
      /\ \A i \in 1..(Len(a) + Len(t)) : w[i] = IF i <= Len(a) THEN a[i] ELSE t[i - Len(a)]
  <2> HIDE DEF a
  <2> QED
    BY <1>1, Concatenated
<1>5. v \in Seq(C) /\ Len(v) = Len(w) - n /\ \A i \in 1..(Len(w) - n) : v[i] = w[i]
  <2>1. n <= Len(w)
    <3> HIDE DEF w, a
    <3> QED
      BY <1>1, <1>4, SMT
  <2> HIDE DEF w
  <2> QED
    BY <1>4, <2>1, ShortenedText
<1>9. y = v
  <2> HIDE DEF a, k, w, v, y
  <2>1. ASSUME NEW i \in 1..Len(y) PROVE y[i] = v[i]
    <3>1. i \in 1..k /\ i \in 1..l /\ i \in 1..(Len(w) - n) /\ i \in 1..(Len(a) + Len(t)) /\ i <= Len(a)
      BY <1>1, <1>2, <1>4, SMT
    <3>2. v[i] = w[i]
      BY <3>1, <1>5
    <3>3. w[i] = a[i]
      BY <3>1, <1>4
    <3> QED
      BY <3>1, <3>2, <3>3, <1>1, <1>2
  <2>2. Len(y) = Len(v)
    BY <1>1, <1>2, <1>4, <1>5, SMT
  <2> QED
    BY <1>2, <1>5, <2>1, <2>2, SameText
<1> QED
  BY <1>3, <1>9

\* Cut deletes in front of the caret (edit).
LEMMA CutText ==
  ASSUME NEW e, NEW image, e.base \in Seq(Chars), image \in Shots, image.left <= Len(e.base),
         NEW n \in Nat, n <= image.left + Len(image.inserted)
  PROVE  /\ Cut(image, n) \in Shots /\ Cut(image, n).left <= Len(e.base)
         /\ Len(Cut(image, n).inserted) <= Len(image.inserted)
         /\ TextOf(e, Cut(image, n)) = Shortened(TextOf(e, image), n)
<1> DEFINE cut == Cut(image, n)
<1>0. /\ image.left \in Nat /\ image.inserted \in Seq(Chars) /\ Len(image.inserted) \in Nat
      /\ Len(e.base) \in Nat /\ image.left \in 0..Len(e.base)
      /\ image = [left |-> image.left, inserted |-> image.inserted]
  BY DEF Shots
<1>1. CASE n <= Len(image.inserted)
  <2>1. cut = [left |-> image.left, inserted |-> Shortened(image.inserted, n)]
    BY <1>0, <1>1 DEF Cut, Shots
  <2>2. /\ Shortened(image.inserted, n) \in Seq(Chars)
        /\ Len(Shortened(image.inserted, n)) = Len(image.inserted) - n
    BY <1>0, <1>1, ShortenedText
  <2>3. cut \in Shots /\ cut.left <= Len(e.base) /\ Len(cut.inserted) <= Len(image.inserted)
    BY <1>0, <2>1, <2>2 DEF Shots
  <2>4. n \in 0..Len(image.inserted)
    BY <1>0, <1>1
  <2>5. SubSeq(e.base, 1, image.left) \in Seq(Chars)
    BY <1>0, SMT
  <2>6. SubSeq(e.base, 1, image.left) \o Shortened(image.inserted, n)
          = Shortened(SubSeq(e.base, 1, image.left) \o image.inserted, n)
    BY <1>0, <2>4, <2>5, CutInserted
  <2>7. TextOf(e, cut) = SubSeq(e.base, 1, image.left) \o Shortened(image.inserted, n)
    <3>1. cut.left = image.left /\ cut.inserted = Shortened(image.inserted, n)
      BY <2>1
    <3> HIDE DEF cut
    <3> QED
      BY <3>1, Zenon DEF TextOf
  <2> QED
    BY <2>3, <2>6, <2>7 DEF TextOf
<1>2. CASE ~(n <= Len(image.inserted))
  <2>1. cut = [left |-> image.left - (n - Len(image.inserted)), inserted |-> <<>>]
    BY <1>0, <1>2 DEF Cut, Shots
  <2>2. image.left - (n - Len(image.inserted)) \in Nat
        /\ image.left - (n - Len(image.inserted)) <= Len(e.base)
        /\ n > Len(image.inserted)
    BY <1>0, <1>2
  <2>3. cut \in Shots /\ cut.left <= Len(e.base) /\ Len(cut.inserted) <= Len(image.inserted)
    BY <1>0, <2>1, <2>2 DEF Shots
  <2>4. SubSeq(e.base, 1, image.left - (n - Len(image.inserted))) \o <<>>
          = Shortened(SubSeq(e.base, 1, image.left) \o image.inserted, n)
    BY <1>0, <2>2, CutBase
  <2>5. TextOf(e, cut) = SubSeq(e.base, 1, image.left - (n - Len(image.inserted))) \o <<>>
    <3>1. cut.left = image.left - (n - Len(image.inserted)) /\ cut.inserted = <<>>
      BY <2>1
    <3> HIDE DEF cut
    <3> QED
      BY <3>1, Zenon DEF TextOf
  <2> QED
    BY <2>3, <2>4, <2>5 DEF TextOf
<1> QED
  BY <1>1, <1>2

\* An image with the characters t more.
Added(image, t) == [image EXCEPT !.inserted = @ \o t]

\* What edit inserts comes behind the text.
LEMMA AddText ==
  ASSUME NEW e, NEW image, e.base \in Seq(Chars), image \in Shots, image.left <= Len(e.base),
         NEW t \in Seq(Chars)
  PROVE  /\ Added(image, t) \in Shots /\ Added(image, t).left = image.left
         /\ Added(image, t).inserted = image.inserted \o t
         /\ TextOf(e, Added(image, t)) = TextOf(e, image) \o t
<1> DEFINE more == [image EXCEPT !.inserted = @ \o t]  a == SubSeq(e.base, 1, image.left)
<1>2. /\ image.inserted \in Seq(Chars) /\ image.left \in Nat
      /\ image = [left |-> image.left, inserted |-> image.inserted]
  BY DEF Shots
<1>3. image.inserted \o t \in Seq(Chars) /\ a \in Seq(Chars)
  <2>1. image.inserted \o t \in Seq(Chars)
    BY <1>2, Concatenated
  <2> QED
    BY <1>2, <2>1, SMT
<1>4. a \o (image.inserted \o t) = (a \o image.inserted) \o t
  <2>1. ASSUME NEW r \in Seq(Chars), NEW s \in Seq(Chars), NEW u \in Seq(Chars)
        PROVE  r \o (s \o u) = (r \o s) \o u
    BY SMT
  <2> QED
    BY ZenonT(30), <1>2, <1>3, <2>1
<1>5. more.left = image.left /\ more.inserted = image.inserted \o t /\ more \in Shots
  BY <1>2, <1>3 DEF Shots
<1>6. TextOf(e, more) = TextOf(e, image) \o t
  <2> HIDE DEF more
  <2> QED
    BY <1>4, <1>5, Zenon DEF TextOf
<1> QED
  BY <1>5, <1>6 DEF Added

-----------------------------------------------------------------------------
(* The cap on what the images add.                                         *)

\* The spots, one by one.
LEMMA SpotOf ==
  ASSUME NEW images
  PROVE  \A p : p \in Spots(images) <=>
           \E i \in DOMAIN images : \E j \in DOMAIN images[i].inserted : p = <<i, j>>
BY DEF Spots

\* A projection just bound has inserted nothing.
LEMMA InsertedOne ==
  ASSUME NEW image \in Shots, image.inserted = <<>>
  PROVE  IsFiniteSet(Spots(<<image>>)) /\ Inserted(<<image>>) = 0
<1>1. Spots(<<image>>) = {}
  <2>1. DOMAIN <<image>> = {1} /\ <<image>>[1] = image
    OBVIOUS
  <2>2. DOMAIN image.inserted = {}
    OBVIOUS
  <2> QED
    BY <2>1, <2>2, SpotOf
<1> QED
  BY <1>1, FS_EmptySet DEF Inserted, Spots

\* A new image adds its own characters to the count.
LEMMA InsertedAppend ==
  ASSUME NEW images \in Seq(Shots), NEW image \in Shots, IsFiniteSet(Spots(images))
  PROVE  /\ IsFiniteSet(Spots(Append(images, image)))
         /\ Inserted(images) \in Nat
         /\ Inserted(Append(images, image)) = Inserted(images) + Len(image.inserted)
<1> DEFINE n == Len(images)  k == Len(image.inserted)  more == Append(images, image)
           new == {n + 1} \X (1..k)
<1>1. /\ n \in Nat /\ DOMAIN images = 1..n /\ image.inserted \in Seq(Chars)
      /\ k \in Nat /\ DOMAIN image.inserted = 1..k
  BY DEF Shots
<1>2. DOMAIN more = 1..(n + 1) /\ more[n + 1] = image /\ \A i \in 1..n : more[i] = images[i]
  OBVIOUS
<1>3. Spots(more) = Spots(images) \cup new
  <2> HIDE DEF more, n, k
  <2>1. ASSUME NEW p, p \in Spots(more) PROVE p \in Spots(images) \cup new
    <3>0. \E i \in DOMAIN more : \E j \in DOMAIN more[i].inserted : p = <<i, j>>
      BY <2>1, SpotOf
    <3>1. PICK i \in 1..(n + 1) : \E j \in DOMAIN more[i].inserted : p = <<i, j>>
      BY <1>2, <3>0, Zenon
    <3>2. CASE i = n + 1
      BY <1>1, <1>2, <3>1, <3>2
    <3>3. CASE i # n + 1
      <4>1. i \in 1..n
        BY <1>1, <3>3
      <4>2. more[i] = images[i]
        BY <4>1, <1>2
      <4> QED
        BY <1>1, <3>1, <4>1, <4>2, SpotOf
    <3> QED
      BY <3>2, <3>3
  <2>2. ASSUME NEW p, p \in Spots(images) PROVE p \in Spots(more)
    <3>1. PICK i \in 1..n : \E j \in DOMAIN images[i].inserted : p = <<i, j>>
      BY <1>1, <2>2, SpotOf
    <3>2. i \in DOMAIN more /\ more[i] = images[i]
      BY <1>1, <1>2
    <3> QED
      BY <3>1, <3>2, SpotOf
  <2>3. ASSUME NEW p \in new PROVE p \in Spots(more)
    <3>1. PICK j \in 1..k : p = <<n + 1, j>>
      OBVIOUS
    <3>2. n + 1 \in DOMAIN more
      BY <1>1, <1>2
    <3> QED
      BY <1>1, <1>2, <3>1, <3>2, SpotOf
  <2> QED
    BY <2>1, <2>2, <2>3
<1>4. Spots(images) \cap new = {}
  <2> SUFFICES ASSUME NEW p, p \in Spots(images), p \in new PROVE FALSE
    OBVIOUS
  <2>1. PICK i \in 1..n : \E j \in DOMAIN images[i].inserted : p = <<i, j>>
    BY <1>1, SpotOf
  <2>2. PICK h \in 1..k : p = <<n + 1, h>>
    OBVIOUS
  <2>3. i = n + 1
    BY <2>1, <2>2
  <2> QED
    BY <1>1, <2>3
<1>5. IsFiniteSet(new) /\ Cardinality(new) = k
  <2> HIDE DEF n, k
  <2>1. IsFiniteSet({n + 1}) /\ Cardinality({n + 1}) = 1
    BY FS_Singleton
  <2>2. IsFiniteSet(1..k) /\ Cardinality(1..k) = k
    <3>1. 1 \in Int /\ k \in Int
      BY <1>1
    <3>2. IsFiniteSet(1..k) /\ Cardinality(1..k) = IF 1 > k THEN 0 ELSE k - 1 + 1
      BY <3>1, FS_Interval
    <3> QED
      BY <1>1, <3>2
  <2>3. IsFiniteSet(new) /\ Cardinality(new) = Cardinality({n + 1}) * Cardinality(1..k)
    BY <2>1, <2>2, FS_Product
  <2> QED
    BY <1>1, <2>1, <2>2, <2>3
<1>6. Cardinality(Spots(images)) \in Nat /\ Cardinality({}) = 0
  BY FS_CardinalityType, FS_EmptySet
<1>7. /\ IsFiniteSet(Spots(images) \cup new)
      /\ Cardinality(Spots(images) \cup new)
           = Cardinality(Spots(images)) + Cardinality(new) - Cardinality(Spots(images) \cap new)
  <2> HIDE DEF new
  <2> QED
    BY <1>5, FS_Union
<1>8. Inserted(images) = Cardinality(Spots(images)) /\ Inserted(more) = Cardinality(Spots(more))
  BY DEF Inserted, Spots
<1> HIDE DEF new, k, n, more
<1>9. IsFiniteSet(Spots(more)) /\ Inserted(images) \in Nat /\ Inserted(more) = Inserted(images) + k
  <2>1. IsFiniteSet(Spots(more)) /\ Inserted(images) \in Nat
    BY <1>3, <1>6, <1>7, <1>8
  <2>2. Cardinality(Spots(images) \cap new) = 0
    BY <1>4, <1>6
  <2>3. Inserted(more) = Inserted(images) + k - 0
    BY <2>2, <1>3, <1>5, <1>7, <1>8
  <2> QED
    BY <2>1, <2>3, <1>1
<1> QED
  BY <1>9 DEF more, k

\* Dropping the oldest images (acknowledge) does not raise the count.
LEMMA InsertedSuffix ==
  ASSUME NEW images \in Seq(Shots), NEW m \in 1..Len(images), IsFiniteSet(Spots(images))
  PROVE  LET kept == SubSeq(images, m, Len(images)) IN
         /\ kept \in Seq(Shots) /\ Len(kept) = Len(images) - m + 1
         /\ \A i \in 1..Len(kept) : kept[i] = images[i + m - 1]
         /\ IsFiniteSet(Spots(kept)) /\ Inserted(kept) <= Inserted(images)
<1> DEFINE kept == SubSeq(images, m, Len(images))
           f == [p \in Spots(kept) |-> <<p[1] + m - 1, p[2]>>]
<1>1. /\ kept \in Seq(Shots) /\ Len(kept) = Len(images) - m + 1
      /\ \A i \in 1..Len(kept) : kept[i] = images[i + m - 1]
  BY SMT
<1>2. DOMAIN images = 1..Len(images) /\ DOMAIN kept = 1..Len(kept) /\ Len(images) \in Nat
  BY <1>1
<1> HIDE DEF kept
<1>3. ASSUME NEW p \in Spots(kept)
      PROVE  f[p] \in Spots(images) /\ p = <<p[1], p[2]>> /\ p[1] \in Nat
  <2>0. PICK i \in 1..Len(kept) : \E j \in DOMAIN kept[i].inserted : p = <<i, j>>
    BY <1>2, SpotOf
  <2>1. PICK j \in DOMAIN kept[i].inserted : p = <<i, j>>
    BY <2>0
  <2>2. i + m - 1 \in DOMAIN images /\ kept[i] = images[i + m - 1]
    BY <1>1, <1>2
  <2>3. f[p] = <<i + m - 1, j>>
    BY <2>1
  <2> QED
    BY <2>1, <2>2, <2>3, SpotOf
<1>4. f \in Injection(Spots(kept), Spots(images))
  <2>1. f \in [Spots(kept) -> Spots(images)]
    BY <1>3
  <2>2. ASSUME NEW p \in Spots(kept), NEW r \in Spots(kept), f[p] = f[r] PROVE p = r
    <3>1. p[1] + m - 1 = r[1] + m - 1 /\ p[2] = r[2]
      BY <2>2
    <3>2. /\ p[1] \in Nat /\ r[1] \in Nat /\ m \in Nat
          /\ p = <<p[1], p[2]>> /\ r = <<r[1], r[2]>>
      <4>1. p[1] \in Nat /\ p = <<p[1], p[2]>>
        BY <1>3, Zenon
      <4>2. r[1] \in Nat /\ r = <<r[1], r[2]>>
        BY <1>3, Zenon
      <4>3. m \in Nat
        BY <1>2
      <4> QED
        BY <4>1, <4>2, <4>3, Zenon
    <3>3. p[1] = r[1]
      <4> DEFINE a == p[1]  b == r[1]
      <4>1. a + m - 1 = b + m - 1 /\ a \in Nat /\ b \in Nat
        BY <3>1, <3>2
      <4> HIDE DEF a, b, f
      <4>2. a = b
        BY <4>1, <3>2, SMT
      <4> QED
        BY <4>2 DEF a, b
    <3> QED
      BY <3>1, <3>2, <3>3
  <2> HIDE DEF f
  <2> QED
    BY <2>1, <2>2 DEF Injection, IsInjective
<1>5. IsFiniteSet(Spots(kept)) /\ Cardinality(Spots(kept)) <= Cardinality(Spots(images))
  <2> HIDE DEF f
  <2> QED
    BY <1>4, FS_Injection
<1>6. Inserted(images) = Cardinality(Spots(images)) /\ Inserted(kept) = Cardinality(Spots(kept))
  BY DEF Inserted, Spots
<1>7. IsFiniteSet(Spots(kept)) /\ Inserted(kept) <= Inserted(images)
  BY <1>5, <1>6
<1> QED
  BY <1>1, <1>7 DEF kept

-----------------------------------------------------------------------------
(* What the images show after an edit: every text the edit makes.          *)

\* The few texts an edit shows, behind those before.
LEMMA Joins ==
  ASSUME NEW C, NEW s \in Seq(C), NEW a \in C, NEW b \in C
  PROVE  /\ s \o <<>> = s /\ s \o (<<>> \o <<>>) = s
         /\ s \o <<a>> = Append(s, a) /\ s \o (<<a>> \o <<>>) = Append(s, a)
         /\ s \o (<<>> \o <<a>>) = Append(s, a)
         /\ s \o (<<a>> \o <<b>>) = Append(Append(s, a), b)
BY SMT

\* The parts of a projection.
LEMMA ProperEcho ==
  ASSUME NEW e, Proper(e)
  PROVE  /\ e = [base |-> e.base, opaque |-> e.opaque, images |-> e.images]
         /\ e.base \in Seq(Chars) /\ e.opaque \in Kinds /\ e.images \in Seq(Shots)
         /\ Len(e.images) \in Nat \ {0} /\ Len(e.base) \in Nat
         /\ \A i \in 1..Len(e.images) : e.images[i] \in Shots /\ e.images[i].left <= Len(e.base)
         /\ Last(e.images) = e.images[Len(e.images)]
         /\ Last(e.images) \in Shots /\ Last(e.images).left <= Len(e.base)
<1>1. /\ e = [base |-> e.base, opaque |-> e.opaque, images |-> e.images]
      /\ e.base \in Seq(Chars) /\ e.opaque \in Kinds /\ e.images \in Seq(Shots)
  BY DEF Proper, EchoSet
<1>2. e.images # <<>> /\ \A i \in DOMAIN e.images : e.images[i].left <= Len(e.base)
  BY DEF Proper, Capped
<1>3. Len(e.images) \in Nat \ {0} /\ Len(e.base) \in Nat /\ DOMAIN e.images = 1..Len(e.images)
  BY <1>1, <1>2
<1>4. Len(e.images) \in 1..Len(e.images) /\ \A i \in 1..Len(e.images) : e.images[i] \in Shots
  BY <1>1, <1>3
<1> QED
  BY <1>1, <1>2, <1>3, <1>4, Zenon DEF Last

\* What a projection shows are texts, the last of them LastText.
LEMMA ShowsTexts ==
  ASSUME NEW e, Proper(e)
  PROVE  /\ Shows(e) \in Seq(Seq(Chars)) /\ Len(Shows(e)) = Len(e.images)
         /\ Len(Shows(e)) \in Nat \ {0}
         /\ \A i \in 1..Len(Shows(e)) : Shows(e)[i] = TextOf(e, e.images[i])
         /\ LastText(e) = Shows(e)[Len(Shows(e))] /\ LastText(e) = Last(Shows(e))
         /\ LastText(e) \in Seq(Chars)
         /\ Len(LastText(e)) = Last(e.images).left + Len(Last(e.images).inserted)
<1>1. /\ e.base \in Seq(Chars) /\ Len(e.images) \in Nat \ {0}
      /\ \A i \in 1..Len(e.images) : e.images[i] \in Shots /\ e.images[i].left <= Len(e.base)
      /\ Last(e.images) = e.images[Len(e.images)]
      /\ Last(e.images) \in Shots /\ Last(e.images).left <= Len(e.base)
  BY ProperEcho
<1>2. \A i \in 1..Len(e.images) : TextOf(e, e.images[i]) \in Seq(Chars)
  BY <1>1, TextOfText
<1> DEFINE n == Len(e.images)  shows == [i \in 1..n |-> TextOf(e, e.images[i])]
<1>3. shows \in Seq(Seq(Chars)) /\ Len(shows) = n /\ n \in 1..n /\ DOMAIN shows = 1..n
      /\ \A i \in 1..n : shows[i] = TextOf(e, e.images[i])
  <2>1. shows \in [1..n -> Seq(Chars)] /\ n \in Nat /\ n # 0
    BY <1>1, <1>2
  <2> HIDE DEF n
  <2> QED
    BY <2>1
<1>4. Shows(e) = shows
  BY DEF Shows
<1>5. LastText(e) = shows[n] /\ LastText(e) = TextOf(e, Last(e.images))
  BY <1>1, <1>3 DEF LastText
<1>6. /\ LastText(e) \in Seq(Chars)
      /\ Len(LastText(e)) = Last(e.images).left + Len(Last(e.images).inserted)
  <2>1. \A image \in {Last(e.images)} :
           /\ TextOf(e, image) \in Seq(Chars)
           /\ Len(TextOf(e, image)) = image.left + Len(image.inserted)
    BY <1>1, TextOfText
  <2> QED
    BY <1>5, <2>1
<1> HIDE DEF shows, n
<1>7. /\ Shows(e) \in Seq(Seq(Chars)) /\ Len(Shows(e)) = n /\ n \in Nat \ {0}
      /\ \A i \in 1..Len(Shows(e)) : Shows(e)[i] = TextOf(e, e.images[i])
      /\ LastText(e) = Shows(e)[Len(Shows(e))]
  BY <1>1, <1>3, <1>4, <1>5 DEF n
<1> QED
  BY <1>6, <1>7 DEF n, Last

\* push shows one text more, unless the image is the last one again.
LEMMA PushShows ==
  ASSUME NEW e, Proper(e), NEW image \in Shots, image.left <= Len(e.base), NEW f \in Push(e, image)
  PROVE  /\ Proper(f) /\ f.base = e.base /\ f.opaque = e.opaque
         /\ Last(e.images) = image => f = e
         /\ Last(e.images) # image =>
              Shows(f) = Append(Shows(e), TextOf(e, image)) /\ Last(f.images) = image
<1>1. CASE Last(e.images) = image
  BY <1>1 DEF Push
<1>2. CASE Last(e.images) # image
  <2> DEFINE more == Append(e.images, image)
  <2>1. f = [e EXCEPT !.images = more] /\ ~Full(e, image)
    BY <1>2 DEF Push
  <2>2. /\ e = [base |-> e.base, opaque |-> e.opaque, images |-> e.images]
        /\ e.base \in Seq(Chars) /\ e.opaque \in Kinds /\ e.images \in Seq(Shots)
        /\ Len(e.images) \in Nat \ {0}
        /\ \A i \in 1..Len(e.images) : e.images[i] \in Shots /\ e.images[i].left <= Len(e.base)
    BY ProperEcho
  <2>3. more \in Seq(Shots) /\ Len(more) = Len(e.images) + 1 /\ more # <<>> /\ Last(more) = image
        /\ more[Len(e.images) + 1] = image /\ \A i \in 1..Len(e.images) : more[i] = e.images[i]
    BY <2>2 DEF Last
  <2>4. IsFiniteSet(Spots(e.images))
    BY DEF Proper, Capped
  <2>5. /\ IsFiniteSet(Spots(more)) /\ Inserted(e.images) \in Nat
        /\ Inserted(more) = Inserted(e.images) + Len(image.inserted)
    BY <2>2, <2>4, InsertedAppend
  <2>6. ~(Len(e.images) >= MaxEchoes) /\ ~(Inserted(e.images) + Len(image.inserted) > MaxInserted)
    BY <2>1 DEF Full
  <2> HIDE DEF more
  <2>7. f = [base |-> e.base, opaque |-> e.opaque, images |-> more]
    BY <2>1, <2>2
  <2>8. f.base = e.base /\ f.opaque = e.opaque /\ f.images = more /\ f \in EchoSet
    BY <2>2, <2>3, <2>7 DEF EchoSet
  <2>9. Len(more) <= MaxEchoes /\ Inserted(more) <= MaxInserted
    <3>1. MaxEchoes \in Nat /\ MaxInserted \in Nat /\ image.inserted \in Seq(Chars)
          /\ Len(image.inserted) \in Nat
      BY CapsAssumption DEF Shots
    <3> QED
      BY <2>2, <2>3, <2>5, <2>6, <3>1
  <2>10. \A i \in DOMAIN more : more[i].left <= Len(e.base)
    BY <2>2, <2>3
  <2>11. Proper(f)
    BY <2>3, <2>5, <2>8, <2>9, <2>10 DEF Proper, Capped
  <2>12. Shows(f) = Append(Shows(e), TextOf(e, image))
    <3>1. /\ Shows(f) \in Seq(Seq(Chars)) /\ Len(Shows(f)) = Len(f.images)
          /\ \A i \in 1..Len(Shows(f)) : Shows(f)[i] = TextOf(f, f.images[i])
      BY <2>11, ShowsTexts
    <3>2. /\ Shows(e) \in Seq(Seq(Chars)) /\ Len(Shows(e)) = Len(e.images)
          /\ \A i \in 1..Len(Shows(e)) : Shows(e)[i] = TextOf(e, e.images[i])
      BY ShowsTexts
    <3>3. \A shot : TextOf(f, shot) = TextOf(e, shot)
      BY <2>8 DEF TextOf
    <3>4. TextOf(e, image) \in Seq(Chars)
      BY <2>2, TextOfText
    <3> DEFINE s == Shows(e)  r == Shows(f)  x == TextOf(e, image)  T == Seq(Chars)  n == Len(e.images)
    <3>5. r \in Seq(T) /\ s \in Seq(T) /\ x \in T /\ Len(s) = n /\ Len(r) = n + 1 /\ n \in Nat
      BY <2>2, <2>3, <2>8, <3>1, <3>2, <3>4
    <3>6. r[n + 1] = x
      <4>1. n + 1 \in 1..Len(r) /\ f.images[n + 1] = image
        BY <2>3, <2>8, <3>5
      <4>2. r[n + 1] = TextOf(f, f.images[n + 1])
        <5> HIDE DEF n
        <5> QED
          BY <3>1, <4>1
      <4> QED
        BY <3>3, <4>1, <4>2
    <3>7. ASSUME NEW i \in 1..n PROVE r[i] = s[i]
      <4>1. more[i] = e.images[i] /\ i \in 1..(n + 1)
        BY <2>2, <2>3
      <4>2. r[i] = TextOf(f, e.images[i]) /\ s[i] = TextOf(e, e.images[i])
        BY <2>3, <2>8, <3>1, <3>2, <4>1
      <4> QED
        BY <3>3, <4>2
    <3> HIDE DEF r, s, x, T, n
    <3>8. r = Append(s, x)
      BY <3>5, <3>6, <3>7
    <3> QED
      BY <3>8 DEF r, s, x
  <2> QED
    BY <1>2, <2>3, <2>8, <2>11, <2>12
<1> QED
  BY <1>1, <1>2

\* The texts of one edit, written out.
LEMMA AppliedForm ==
  ASSUME NEW t \in Seq(Chars), NEW n \in 0..Len(t), NEW w \in Seq(Chars)
  PROVE  LET cut == Shortened(t, n) IN
         /\ cut \in Seq(Chars) /\ (n = 0 => cut = t)
         /\ n = 0 /\ w = <<>> => Applied(t, Del(n, w)) = <<>> \o <<>>
         /\ n = 0 /\ w # <<>> => Applied(t, Del(n, w)) = <<>> \o <<cut \o w>>
         /\ n > 0 /\ w = <<>> => Applied(t, Del(n, w)) = <<cut>> \o <<>>
         /\ n > 0 /\ w # <<>> => Applied(t, Del(n, w)) = <<cut>> \o <<cut \o w>>
<1> DEFINE cut == Shortened(t, n)
<1>1. n \in Nat /\ n <= Len(t) /\ Len(t) \in Nat
  OBVIOUS
<1>2. cut \in Seq(Chars)
  BY <1>1, ShortenedText
<1>3. n = 0 => cut = t
  <2> SUFFICES ASSUME n = 0 PROVE cut = t
    OBVIOUS
  <2>1. Len(cut) = Len(t) - n /\ \A i \in 1..(Len(t) - n) : cut[i] = t[i]
    BY <1>1, ShortenedText
  <2>2. Len(cut) = Len(t) /\ \A i \in 1..Len(t) : cut[i] = t[i]
    BY <2>1, <1>1
  <2> QED
    BY <1>2, <2>2, SameText
<1>4. Del(n, w).delete = n /\ Del(n, w).insert = w
  BY DEF Del
<1>5. Shortened(t, IF Del(n, w).delete < Len(t) THEN Del(n, w).delete ELSE Len(t)) = cut
  <2>1. (IF n < Len(t) THEN n ELSE Len(t)) = n
    BY <1>1
  <2> HIDE DEF cut
  <2> QED
    BY <1>4, <2>1 DEF cut
<1>6. Applied(t, Del(n, w)) = (IF n > 0 THEN <<cut>> ELSE <<>>) \o
                              (IF w # <<>> THEN <<cut \o w>> ELSE <<>>)
  <2> HIDE DEF cut
  <2> QED
    BY <1>4, <1>5, Zenon DEF Applied
<1> HIDE DEF cut
<1>7. (n = 0 => ~(n > 0))
  BY <1>1
<1> QED
  BY <1>2, <1>3, <1>6, <1>7 DEF cut

\* edit shows what the client shows: the deletion, then the insertion.
LEMMA EditShows ==
  ASSUME NEW e, Proper(e), NEW n \in Nat, NEW t \in Seq(Chars), n > 0 \/ t # <<>>,
         NEW f \in Edit(e, n, t)
  PROVE  /\ Proper(f) /\ f.base = e.base /\ f.opaque = e.opaque /\ e.opaque = "none"
         /\ n <= Len(LastText(e))
         /\ Shows(f) = Shows(e) \o Applied(LastText(e), Del(n, t))
<1> DEFINE last == Last(e.images)  cut == Cut(last, n)  more == Added(cut, t)
           text == LastText(e)  short == Shortened(text, n)
<1>1. /\ e.opaque = "none" /\ ~(n > last.left + Len(last.inserted))
      /\ f \in UNION {Push(view, more) : view \in IF n > 0 THEN Push(e, cut) ELSE {e}}
  BY DEF Edit, Added
<1>2. /\ e.base \in Seq(Chars) /\ last \in Shots /\ last.left <= Len(e.base)
  BY ProperEcho
<1>3. /\ Shows(e) \in Seq(Seq(Chars)) /\ text \in Seq(Chars)
      /\ Len(text) = last.left + Len(last.inserted) /\ text = TextOf(e, last)
  BY ShowsTexts DEF LastText
<1>4. n <= Len(text) /\ n \in 0..Len(text) /\ n <= last.left + Len(last.inserted)
  <2>1. last.left + Len(last.inserted) \in Nat
    BY <1>2 DEF Shots
  <2> QED
    BY <1>1, <1>3, <2>1
<1>5. /\ cut \in Shots /\ cut.left <= Len(e.base) /\ TextOf(e, cut) = short
  <2> HIDE DEF last
  <2>1. /\ Cut(last, n) \in Shots /\ Cut(last, n).left <= Len(e.base)
        /\ TextOf(e, Cut(last, n)) = Shortened(TextOf(e, last), n)
    BY <1>2, <1>4, CutText
  <2> QED
    BY <2>1, <1>3
<1>6. /\ more \in Shots /\ more.left = cut.left /\ more.inserted = cut.inserted \o t
      /\ TextOf(e, more) = short \o t
  <2> HIDE DEF cut, last, short, text
  <2>1. /\ Added(cut, t) \in Shots /\ Added(cut, t).left = cut.left
        /\ Added(cut, t).inserted = cut.inserted \o t
        /\ TextOf(e, Added(cut, t)) = TextOf(e, cut) \o t
    BY <1>2, <1>5, AddText
  <2> QED
    BY <1>5, <2>1
<1>7. /\ short \in Seq(Chars) /\ (n = 0 => short = text)
      /\ n = 0 /\ t = <<>> => Applied(text, Del(n, t)) = <<>> \o <<>>
      /\ n = 0 /\ t # <<>> => Applied(text, Del(n, t)) = <<>> \o <<short \o t>>
      /\ n > 0 /\ t = <<>> => Applied(text, Del(n, t)) = <<short>> \o <<>>
      /\ n > 0 /\ t # <<>> => Applied(text, Del(n, t)) = <<short>> \o <<short \o t>>
  <2> HIDE DEF text
  <2> QED
    BY <1>3, <1>4, AppliedForm
<1>8. short \o t \in Seq(Chars)
  <2> HIDE DEF short
  <2> QED
    BY <1>7, Concatenated
<1>9. Len(t) \in Nat /\ (t # <<>> => Len(t) # 0)
  OBVIOUS
<1>10. t = <<>> => more = cut
  <2> HIDE DEF cut
  <2>1. cut = [left |-> cut.left, inserted |-> cut.inserted] /\ cut.inserted \in Seq(Chars)
    BY <1>5 DEF Shots
  <2>2. cut.inserted \o <<>> = cut.inserted
    BY <2>1
  <2>3. more = [left |-> more.left, inserted |-> more.inserted]
    <3> HIDE DEF more
    <3> QED
      BY <1>6 DEF Shots
  <2> QED
    BY <1>6, <2>1, <2>2, <2>3
<1>11. t # <<>> => more # cut
  <2> HIDE DEF cut
  <2>1. cut.inserted \in Seq(Chars) /\ Len(cut.inserted) \in Nat
    BY <1>5 DEF Shots
  <2>2. Len(cut.inserted \o t) = Len(cut.inserted) + Len(t)
    BY <2>1, Concatenated
  <2>3. Len(more.inserted) = Len(cut.inserted) + Len(t)
    BY <1>6, <2>2
  <2> HIDE DEF more
  <2> QED
    BY <1>9, <2>1, <2>3
<1>12. n > 0 => cut # last
  <2> SUFFICES ASSUME n > 0, cut = last PROVE FALSE
    OBVIOUS
  <2>1. short = text
    BY <1>3, <1>5
  <2>2. Len(short) = Len(text) - n /\ Len(text) \in Nat
    <3> HIDE DEF text
    <3> QED
      BY <1>3, <1>4, ShortenedText
  <2> QED
    BY <2>1, <2>2
<1>13. n = 0 => cut = last
  <2> SUFFICES ASSUME n = 0 PROVE cut = last
    OBVIOUS
  <2>1. last = [left |-> last.left, inserted |-> last.inserted] /\ last.inserted \in Seq(Chars)
    BY <1>2 DEF Shots
  <2> HIDE DEF last
  <2>2. Shortened(last.inserted, n) = last.inserted
    <3>1. \A i \in {last.inserted} : Shortened(i, n) = i
      <4> SUFFICES ASSUME NEW i \in Seq(Chars) PROVE Shortened(i, n) = i
        BY <2>1
      <4>1. 0 \in 0..Len(i) /\ <<>> \in Seq(Chars)
        OBVIOUS
      <4> QED
        BY <4>1, AppliedForm
    <3> QED
      BY <3>1
  <2>3. n <= Len(last.inserted)
    BY <2>1
  <2>4. cut = [last EXCEPT !.inserted = last.inserted]
    BY <2>2, <2>3 DEF Cut
  <2> QED
    BY <2>1, <2>4
<1> HIDE DEF last, cut, more, short, text
<1>14. CASE n = 0
  <2>1. f \in Push(e, more) /\ t # <<>> /\ Last(e.images) # more
    BY <1>1, <1>11, <1>13, <1>14 DEF last
  <2>2. /\ Proper(f) /\ f.base = e.base /\ f.opaque = e.opaque
        /\ Shows(f) = Append(Shows(e), TextOf(e, more))
    BY <1>5, <1>6, <2>1, PushShows
  <2>3. Shows(e) \o (<<>> \o <<short \o t>>) = Append(Shows(e), short \o t)
    BY <1>3, <1>8, Joins
  <2> QED
    BY <1>1, <1>4, <1>6, <1>7, <1>14, <2>1, <2>2, <2>3 DEF text
<1>15. CASE n # 0
  <2>0. n > 0
    BY <1>15
  <2>1. PICK view \in Push(e, cut) : f \in Push(view, more)
    BY <1>1, <2>0
  <2>2. /\ Proper(view) /\ view.base = e.base /\ view.opaque = e.opaque
        /\ Shows(view) = Append(Shows(e), short) /\ Last(view.images) = cut
    BY <1>5, <1>12, <2>0, PushShows DEF last
  <2>3. /\ Proper(f) /\ f.base = view.base /\ f.opaque = view.opaque
        /\ Last(view.images) = more => f = view
        /\ Last(view.images) # more => Shows(f) = Append(Shows(view), TextOf(view, more))
    <3>1. more.left <= Len(view.base)
      BY <1>5, <1>6, <2>2
    <3>2. more \in Shots /\ Proper(view) /\ f \in Push(view, more)
      BY <1>6, <2>1, <2>2
    <3> QED
      BY <3>1, <3>2, PushShows
  <2>4. TextOf(view, more) = short \o t
    BY <1>6, <2>2 DEF TextOf
  <2>5. CASE t = <<>>
    <3>1. Shows(f) = Append(Shows(e), short)
      BY <1>10, <2>2, <2>3, <2>5
    <3>2. Shows(e) \o (<<short>> \o <<>>) = Append(Shows(e), short)
      BY <1>3, <1>7, Joins
    <3> QED
      BY <1>1, <1>4, <1>7, <2>0, <2>2, <2>3, <2>5, <3>1, <3>2 DEF text
  <2>6. CASE t # <<>>
    <3>1. Shows(f) = Append(Append(Shows(e), short), short \o t)
      BY <1>11, <2>2, <2>3, <2>4, <2>6
    <3>2. Shows(e) \o (<<short>> \o <<short \o t>>) = Append(Append(Shows(e), short), short \o t)
      BY SMTT(30), <1>3, <1>7, <1>8, Joins
    <3> QED
      BY <1>1, <1>4, <1>7, <2>0, <2>2, <2>3, <2>6, <3>1, <3>2 DEF text
  <2> QED
    BY <2>5, <2>6
<1> QED
  BY <1>14, <1>15

Edits == [delete : Nat, insert : Seq(Chars)]

\* An edit is a deletion and an insertion.
LEMMA EditForm ==
  ASSUME NEW d \in Edits
  PROVE  /\ d = Del(d.delete, d.insert) /\ d.delete \in Nat /\ d.insert \in Seq(Chars)
         /\ d # Nothing <=> d.delete > 0 \/ d.insert # <<>>
<1>1. d = [delete |-> d.delete, insert |-> d.insert] /\ d.delete \in Nat /\ d.insert \in Seq(Chars)
  BY DEF Edits
<1>2. Nothing = [delete |-> 0, insert |-> <<>>] /\ Nothing.delete = 0 /\ Nothing.insert = <<>>
  BY DEF Nothing, Del
<1>3. d = Nothing <=> d.delete = 0 /\ d.insert = <<>>
  BY <1>1, <1>2
<1>4. d.delete > 0 <=> d.delete # 0
  <2> DEFINE n == d.delete
  <2>1. n \in Nat
    BY <1>1
  <2> HIDE DEF n
  <2>2. n > 0 <=> n # 0
    BY <2>1
  <2> QED
    BY <2>2 DEF n
<1> QED
  BY <1>1, <1>3, <1>4 DEF Del

\* An edit that is something shows something.
LEMMA AppliedTexts ==
  ASSUME NEW t \in Seq(Chars), NEW d \in Edits
  PROVE  /\ Applied(t, d) \in Seq(Seq(Chars))
         /\ Applied(t, d) # <<>> => Last(Applied(t, d)) \in Seq(Chars)
         /\ Applied(t, d) = <<>> <=> d = Nothing
<1> DEFINE m == IF d.delete < Len(t) THEN d.delete ELSE Len(t)  cut == Shortened(t, m)
           a == IF d.delete > 0 THEN <<cut>> ELSE <<>>
           b == IF d.insert # <<>> THEN <<cut \o d.insert>> ELSE <<>>
<1>1. /\ d.delete \in Nat /\ d.insert \in Seq(Chars)
      /\ d # Nothing <=> d.delete > 0 \/ d.insert # <<>>
  BY EditForm
<1>2. m \in Nat /\ m <= Len(t)
  <2>1. Len(t) \in Nat
    OBVIOUS
  <2>2. \A n \in Nat : LET k == IF n < Len(t) THEN n ELSE Len(t) IN k \in Nat /\ k <= Len(t)
    BY <2>1
  <2> QED
    BY <1>1, <2>2, Zenon
<1>3. cut \in Seq(Chars)
  <2> HIDE DEF m
  <2> QED
    BY <1>2, ShortenedText
<1> HIDE DEF cut
<1>4. cut \o d.insert \in Seq(Chars)
  BY <1>1, <1>3, Concatenated
<1>5. /\ a \in Seq(Seq(Chars)) /\ b \in Seq(Seq(Chars))
      /\ Len(a) = IF d.delete > 0 THEN 1 ELSE 0
      /\ Len(b) = IF d.insert # <<>> THEN 1 ELSE 0
  BY <1>1, <1>3, <1>4
<1>6. Applied(t, d) = a \o b
  BY Zenon DEF Applied, cut, m
<1>7. a \o b \in Seq(Seq(Chars)) /\ Len(a \o b) = Len(a) + Len(b)
  <2> HIDE DEF a, b
  <2> QED
    BY <1>5, Concatenated
<1>8. a \o b = <<>> <=> d = Nothing
  <2>1. Len(a) + Len(b) = 0 <=> ~(d.delete > 0) /\ d.insert = <<>>
    BY <1>5
  <2> HIDE DEF a, b
  <2>2. a \o b = <<>> <=> Len(a) + Len(b) = 0
    BY <1>7
  <2> QED
    BY <1>1, <2>1, <2>2
<1> HIDE DEF a, b
<1>9. a \o b # <<>> => Last(a \o b) \in Seq(Chars)
  <2> DEFINE s == a \o b  T == Seq(Chars)
  <2>1. s \in Seq(T)
    BY <1>7
  <2> HIDE DEF s, T
  <2>2. s # <<>> => s[Len(s)] \in T
    BY <2>1
  <2> QED
    BY <2>2 DEF s, T, Last
<1> QED
  BY <1>6, <1>7, <1>8, <1>9

\* One edit of a batch, done or left out.
LEMMA EditedShows ==
  ASSUME NEW e, Proper(e), NEW d \in Edits, NEW f \in Edited(e, d)
  PROVE  /\ Proper(f) /\ f.base = e.base /\ f.opaque = e.opaque
         /\ d # Nothing => e.opaque = "none" /\ d.delete <= Len(LastText(e))
         /\ d = Nothing => f = e
         /\ Shows(f) = Shows(e) \o Applied(LastText(e), d)
<1>1. /\ d = Del(d.delete, d.insert) /\ d.delete \in Nat /\ d.insert \in Seq(Chars)
      /\ d # Nothing <=> d.delete > 0 \/ d.insert # <<>>
  BY EditForm
<1>2. Shows(e) \in Seq(Seq(Chars)) /\ LastText(e) \in Seq(Chars)
  BY ShowsTexts
<1>3. CASE d = Nothing
  <2>1. f = e
    BY <1>3 DEF Edited
  <2>2. Applied(LastText(e), d) = <<>>
    BY <1>2, <1>3, AppliedTexts
  <2>3. Shows(e) \o <<>> = Shows(e)
    BY <1>2
  <2> QED
    BY <1>3, <2>1, <2>2, <2>3
<1>4. CASE d # Nothing
  <2>1. f \in Edit(e, d.delete, d.insert)
    BY <1>4 DEF Edited
  <2> DEFINE n == d.delete  w == d.insert
  <2>2. n \in Nat /\ w \in Seq(Chars) /\ (n > 0 \/ w # <<>>) /\ f \in Edit(e, n, w) /\ d = Del(n, w)
    BY <1>1, <1>4, <2>1
  <2> HIDE DEF n, w
  <2>3. /\ Proper(f) /\ f.base = e.base /\ f.opaque = e.opaque /\ e.opaque = "none"
        /\ n <= Len(LastText(e))
        /\ Shows(f) = Shows(e) \o Applied(LastText(e), Del(n, w))
    BY <2>2, EditShows
  <2> QED
    BY <1>4, <2>2, <2>3 DEF n
<1> QED
  BY <1>3, <1>4

\* The last of the texts shown is where they lead.
LEMMA ShowsAfter ==
  ASSUME NEW s \in Seq(Seq(Chars)), s # <<>>, NEW a \in Seq(Seq(Chars))
  PROVE  /\ s \o a \in Seq(Seq(Chars)) /\ Last(s \o a) = After(Last(s), a)
         /\ Len(s \o a) = Len(s) + Len(a)
         /\ a # <<>> => After(Last(s), a) = a[Len(a)]
<1> DEFINE T == Seq(Chars)
<1>0. s \in Seq(T) /\ a \in Seq(T)
  OBVIOUS
<1> HIDE DEF T
<1>1. s \o a \in Seq(T) /\ Len(s \o a) = Len(s) + Len(a)
  BY <1>0, Concatenated
<1>2. CASE a = <<>>
  <2>1. s \o a = s
    BY <1>0, <1>2
  <2> QED
    BY <1>1, <1>2, <2>1 DEF After, T
<1>3. CASE a # <<>>
  <2>1. (s \o a)[Len(s) + Len(a)] = a[Len(a)]
    BY <1>0, <1>3
  <2> QED
    BY <1>1, <1>3, <2>1 DEF After, T, Last
<1> QED
  BY <1>2, <1>3

\* The texts of a batch.
LEMMA AppliedAllTexts ==
  ASSUME NEW t \in Seq(Chars), NEW d \in Edits \X Edits
  PROVE  LET first == Applied(t, d[1]) IN
         /\ first \in Seq(Seq(Chars)) /\ After(t, first) \in Seq(Chars)
         /\ Applied(After(t, first), d[2]) \in Seq(Seq(Chars))
         /\ AppliedAll(t, d) = first \o Applied(After(t, first), d[2])
         /\ AppliedAll(t, d) \in Seq(Seq(Chars)) /\ After(t, AppliedAll(t, d)) \in Seq(Chars)
<1> DEFINE first == Applied(t, d[1])  mid == After(t, first)  second == Applied(mid, d[2])
<1>0. d[1] \in Edits /\ d[2] \in Edits
  OBVIOUS
<1>1. first \in Seq(Seq(Chars)) /\ (first # <<>> => Last(first) \in Seq(Chars))
  BY <1>0, AppliedTexts
<1>2. mid \in Seq(Chars)
  BY <1>1 DEF After
<1>3. second \in Seq(Seq(Chars))
  <2> HIDE DEF mid
  <2> QED
    BY <1>0, <1>2, AppliedTexts
<1>4. AppliedAll(t, d) = first \o second
  BY Zenon DEF AppliedAll
<1> HIDE DEF first, second
<1>5. first \o second \in Seq(Seq(Chars))
  BY <1>1, <1>3, Concatenated
<1>6. first \o second # <<>> => Last(first \o second) \in Seq(Chars)
  <2> DEFINE s == first \o second  T == Seq(Chars)
  <2>1. s \in Seq(T)
    BY <1>5
  <2> HIDE DEF s, T
  <2>2. s # <<>> => s[Len(s)] \in T
    BY <2>1
  <2> QED
    BY <2>2 DEF s, T, Last
<1>7. AppliedAll(t, d) \in Seq(Seq(Chars)) /\ After(t, AppliedAll(t, d)) \in Seq(Chars)
  BY <1>4, <1>5, <1>6 DEF After
<1> QED
  BY <1>1, <1>2, <1>3, <1>4, <1>7 DEF first, second

\* A batch shows the texts it makes of the last text.
LEMMA EditAllShows ==
  ASSUME NEW e, Proper(e), NEW d \in Edits \X Edits, NEW f \in EditAll(e, d)
  PROVE  /\ Proper(f) /\ f.base = e.base /\ f.opaque = e.opaque
         /\ d # <<Nothing, Nothing>> => e.opaque = "none"
         /\ d[1] # Nothing => d[1].delete <= Len(LastText(e))
         /\ d = <<Nothing, Nothing>> => f = e
         /\ Shows(f) = Shows(e) \o AppliedAll(LastText(e), d)
         /\ LastText(f) = After(LastText(e), AppliedAll(LastText(e), d))
<1> DEFINE t == LastText(e)  first == Applied(t, d[1])  mid == After(t, first)
           second == Applied(mid, d[2])
<1>0. d = <<d[1], d[2]>> /\ d[1] \in Edits /\ d[2] \in Edits
  OBVIOUS
<1>1. PICK g \in Edited(e, d[1]) : f \in Edited(g, d[2])
  BY DEF EditAll
<1>2. /\ Shows(e) \in Seq(Seq(Chars)) /\ t \in Seq(Chars) /\ t = Last(Shows(e))
      /\ Len(Shows(e)) \in Nat \ {0}
  BY ShowsTexts
<1>3. /\ Proper(g) /\ g.base = e.base /\ g.opaque = e.opaque
      /\ d[1] # Nothing => e.opaque = "none" /\ d[1].delete <= Len(t)
      /\ d[1] = Nothing => g = e
      /\ Shows(g) = Shows(e) \o first
  BY <1>0, <1>1, EditedShows
<1>4. /\ first \in Seq(Seq(Chars)) /\ mid \in Seq(Chars) /\ second \in Seq(Seq(Chars))
      /\ AppliedAll(t, d) = first \o second
      /\ AppliedAll(t, d) \in Seq(Seq(Chars))
  <2> HIDE DEF t
  <2> QED
    BY <1>2, AppliedAllTexts
<1>5. LastText(g) = mid
  <2>1. LastText(g) = Last(Shows(g))
    BY <1>3, ShowsTexts
  <2>2. Shows(e) # <<>>
    BY <1>2
  <2> HIDE DEF first
  <2>3. Last(Shows(e) \o first) = After(Last(Shows(e)), first)
    BY <1>2, <1>4, <2>2, ShowsAfter
  <2> QED
    BY <1>2, <1>3, <2>1, <2>3
<1>6. /\ Proper(f) /\ f.base = g.base /\ f.opaque = g.opaque
      /\ d[2] # Nothing => g.opaque = "none"
      /\ d[2] = Nothing => f = g
      /\ Shows(f) = Shows(g) \o Applied(LastText(g), d[2])
  BY SMTT(30), <1>0, <1>1, <1>3, EditedShows
<1>7. Shows(f) = Shows(e) \o AppliedAll(t, d)
  <2>1. Shows(f) = (Shows(e) \o first) \o second
    BY <1>3, <1>5, <1>6
  <2> HIDE DEF first, second
  <2>2. (Shows(e) \o first) \o second = Shows(e) \o (first \o second)
    <3> DEFINE r == Shows(e)  T == Seq(Chars)
    <3>1. r \in Seq(T) /\ first \in Seq(T) /\ second \in Seq(T)
      BY <1>2, <1>4
    <3> HIDE DEF r, T
    <3>2. (r \o first) \o second = r \o (first \o second)
      BY <3>1, ConcatAssociative, SMTT(30)
    <3> QED
      BY <3>2 DEF r
  <2> QED
    BY <1>4, <2>1, <2>2
<1>8. LastText(f) = After(t, AppliedAll(t, d))
  <2>1. LastText(f) = Last(Shows(f))
    BY <1>6, ShowsTexts
  <2>2. Shows(e) # <<>>
    BY <1>2
  <2>3. Last(Shows(e) \o AppliedAll(t, d)) = After(Last(Shows(e)), AppliedAll(t, d))
    BY <1>2, <1>4, <2>2, ShowsAfter
  <2> QED
    BY <1>2, <1>7, <2>1, <2>3
<1>9. d # <<Nothing, Nothing>> => e.opaque = "none"
  BY <1>0, <1>3, <1>6
<1> QED
  BY <1>0, <1>3, <1>6, <1>7, <1>8, <1>9

-----------------------------------------------------------------------------
(* How a queue of reports answers a sequence of texts: report i came when   *)
(* text g[i] was the last shown.                                            *)

\* The text a report follows upon.
Before(T, q, i) == IF i = 0 THEN T[1] ELSE q[i]

\* Each report is the text it answers, or else a text that was left on the
\* way from one shown is not shown again as the report.
AnswersAt(T, q, g) ==
  /\ g \in [0..Len(q) -> 1..Len(T)]
  /\ g[0] = 1 /\ g[Len(q)] = Len(T)
  /\ \A i, j \in 0..Len(q) : i <= j => g[i] <= g[j]
  /\ \A i \in 1..Len(q) :
       \/ q[i] = T[g[i]]
       \/ \A p, r \in 1..Len(T) :
            (g[i - 1] <= p /\ p <= r /\ r <= g[i] /\ Before(T, q, i - 1) = T[p]) => q[i] # T[r]

Echoed(T, q, g) == \A i \in 1..Len(q) : q[i] = T[g[i]]

Fits(T, q, exactly) ==
  \E g \in [0..Len(q) -> 1..Len(T)] : AnswersAt(T, q, g) /\ (exactly => Echoed(T, q, g))

\* Whatever the reports, they may answer a projection just bound.
LEMMA OneFits ==
  ASSUME NEW C, NEW t \in C, NEW q \in Seq(C), NEW exactly \in BOOLEAN, exactly => q = <<>>
  PROVE  Fits(<<t>>, q, exactly)
<1> DEFINE g == [i \in 0..Len(q) |-> 1]  T == <<t>>
<1>0. Len(T) = 1 /\ T[1] = t /\ Len(q) \in Nat
  OBVIOUS
<1>1. g \in [0..Len(q) -> 1..Len(T)] /\ \A i \in 0..Len(q) : g[i] = 1
  BY <1>0
<1> HIDE DEF g, T
<1>2. g[0] = 1 /\ g[Len(q)] = Len(T) /\ \A i, j \in 0..Len(q) : i <= j => g[i] <= g[j]
  BY <1>0, <1>1
<1>3. ASSUME NEW i \in 1..Len(q), q[i] # T[g[i]],
             NEW p \in 1..Len(T), NEW r \in 1..Len(T)
      PROVE  q[i] # T[r]
  <2>1. r = 1 /\ g[i] = 1
    BY <1>0, <1>1
  <2> QED
    BY <1>3, <2>1
<1>4. AnswersAt(T, q, g)
  BY <1>1, <1>2, <1>3 DEF AnswersAt
<1>5. exactly => Echoed(T, q, g)
  BY DEF Echoed
<1> QED
  BY <1>1, <1>4, <1>5 DEF Fits, T

\* One more report, for texts of which it may pass over all but the last.
LEMMA SkipsFit ==
  ASSUME NEW C, NEW T \in Seq(C), T # <<>>, NEW q \in Seq(C), NEW A \in Seq(C), NEW t \in C,
         NEW exactly \in BOOLEAN, Fits(T, q, exactly),
         NEW B \in Seq(C), Len(B) = Len(A) + 1, B[1] = T[Len(T)],
         \A i \in 1..Len(A) : B[i + 1] = A[i],
         exactly => t = B[Len(B)],
         \/ t = B[Len(B)]
         \/ \A i, j \in 1..Len(B) : i <= j /\ Before(T, q, Len(q)) = B[i] => t # B[j]
  PROVE  Fits(T \o A, Append(q, t), exactly)
<1> DEFINE n == Len(q)  m == Len(T)  a == Len(A)  U == T \o A  s == Append(q, t)
<1>0. n \in Nat /\ m \in Nat /\ m > 0 /\ a \in Nat
  OBVIOUS
<1>1. PICK g \in [0..n -> 1..m] : AnswersAt(T, q, g) /\ (exactly => Echoed(T, q, g))
  BY DEF Fits
<1> DEFINE h == [i \in 0..(n + 1) |-> IF i = n + 1 THEN m + a ELSE g[i]]
<1>2. /\ U \in Seq(C) /\ Len(U) = m + a
      /\ \A i \in 1..(m + a) : U[i] = IF i <= m THEN T[i] ELSE A[i - m]
  BY Concatenated
<1>3. Len(s) = n + 1 /\ s[n + 1] = t /\ \A i \in 1..n : s[i] = q[i]
  OBVIOUS
<1> HIDE DEF U, s, m, a, n
<1>4. ASSUME NEW i \in 0..a PROVE U[m + i] = B[i + 1]
  <2>1. CASE i = 0
    <3>1. U[m] = T[m] /\ m + i = m /\ i + 1 = 1
      BY <1>0, <1>2, <2>1
    <3> QED
      BY <3>1 DEF m
  <2>2. CASE i # 0
    <3>1. i \in 1..a /\ m + i \in 1..(m + a) /\ ~(m + i <= m) /\ (m + i) - m = i
      BY <1>0, <2>2
    <3>2. U[m + i] = A[i]
      BY <1>2, <3>1
    <3> QED
      BY <3>1, <3>2 DEF a
  <2> QED
    BY <2>1, <2>2
<1>41. B[Len(B)] = U[m + a]
  <2>1. Len(B) = a + 1 /\ a \in 0..a
    BY <1>0 DEF a
  <2> QED
    BY <1>4, <2>1
<1>5. /\ \A i \in 0..n : h[i] = g[i] /\ g[i] \in 1..m
      /\ h[n + 1] = m + a
      /\ h \in [0..(n + 1) -> 1..(m + a)]
  BY <1>0, <1>1
<1> HIDE DEF h
<1>6. g[0] = 1 /\ g[n] = m /\ \A i, j \in 0..n : i <= j => g[i] <= g[j]
  BY <1>1 DEF AnswersAt, n, m
<1>7. \A i, j \in 0..(n + 1) : i <= j => h[i] <= h[j]
  <2> SUFFICES ASSUME NEW i \in 0..(n + 1), NEW j \in 0..(n + 1), i <= j PROVE h[i] <= h[j]
    OBVIOUS
  <2>1. CASE j \in 0..n
    <3>1. i \in 0..n
      BY <1>0, <2>1
    <3> QED
      BY <1>5, <1>6, <2>1, <3>1
  <2>2. CASE j = n + 1 /\ i \in 0..n
    BY <1>0, <1>5, <2>2
  <2>3. CASE j = n + 1 /\ i = n + 1
    BY <1>0, <1>5, <2>3
  <2> QED
    BY <1>0, <2>1, <2>2, <2>3
<1>8. \A i \in 0..n : Before(U, s, i) = Before(T, q, i)
  <2>1. U[1] = T[1]
    BY <1>0, <1>2
  <2> QED
    BY <1>0, <1>3, <2>1 DEF Before
<1>9. \A p \in 1..m : U[p] = T[p] /\ p \in 1..(m + a)
  BY <1>0, <1>2
<1>10. ASSUME NEW i \in 1..n
       PROVE  \/ s[i] = U[h[i]]
              \/ \A p, r \in 1..(m + a) :
                   (h[i - 1] <= p /\ p <= r /\ r <= h[i] /\ Before(U, s, i - 1) = U[p]) => s[i] # U[r]
  <2>1. i \in 0..n /\ i - 1 \in 0..n /\ s[i] = q[i] /\ h[i] = g[i] /\ g[i] \in 1..m
        /\ h[i - 1] = g[i - 1] /\ g[i - 1] \in 1..m /\ U[g[i]] = T[g[i]]
        /\ Before(U, s, i - 1) = Before(T, q, i - 1)
    <3>1. i \in 0..n /\ i - 1 \in 0..n
      BY <1>0
    <3>2. s[i] = q[i]
      BY <1>3
    <3>3. h[i] = g[i] /\ g[i] \in 1..m /\ h[i - 1] = g[i - 1] /\ g[i - 1] \in 1..m
      BY <1>5, <3>1
    <3>4. U[g[i]] = T[g[i]]
      BY <1>9, <3>3
    <3>5. Before(U, s, i - 1) = Before(T, q, i - 1)
      BY <1>8, <3>1
    <3> QED
      BY <3>1, <3>2, <3>3, <3>4, <3>5
  <2>2. CASE q[i] = T[g[i]]
    BY <2>1, <2>2
  <2>3. CASE \A p, r \in 1..m :
            (g[i - 1] <= p /\ p <= r /\ r <= g[i] /\ Before(T, q, i - 1) = T[p]) => q[i] # T[r]
    <3> SUFFICES ASSUME NEW p \in 1..(m + a), NEW r \in 1..(m + a),
                        g[i - 1] <= p, p <= r, r <= g[i], Before(T, q, i - 1) = U[p]
                 PROVE  q[i] # U[r]
      BY <2>1
    <3>1. p \in 1..m /\ r \in 1..m
      <4>1. \A x \in 1..m : p <= r /\ r <= x => p \in 1..m /\ r \in 1..m
        BY <1>0, SMTT(30)
      <4> QED
        BY <2>1, <4>1
    <3>2. U[p] = T[p] /\ U[r] = T[r]
      BY <1>9, <3>1
    <3> QED
      BY <2>3, <3>1, <3>2
  <2> QED
    BY <1>1, <2>2, <2>3 DEF AnswersAt, n, m
<1>11. t = U[m + a] \/ \A p, r \in 1..(m + a) :
         (m <= p /\ p <= r /\ Before(T, q, n) = U[p]) => t # U[r]
  <2>2. CASE t = B[Len(B)]
    BY <1>41, <2>2
  <2>3. CASE \A i, j \in 1..Len(B) : i <= j /\ Before(T, q, Len(q)) = B[i] => t # B[j]
    <3> SUFFICES ASSUME NEW p \in 1..(m + a), NEW r \in 1..(m + a), m <= p, p <= r,
                        Before(T, q, n) = U[p]
                 PROVE  t # U[r]
      OBVIOUS
    <3> DEFINE i == p - m  j == r - m
    <3>1. i \in 0..a /\ j \in 0..a /\ p = m + i /\ r = m + j /\ i + 1 <= j + 1
          /\ i + 1 \in 1..Len(B) /\ j + 1 \in 1..Len(B)
      BY <1>0 DEF a
    <3> HIDE DEF i, j
    <3>2. U[p] = B[i + 1] /\ U[r] = B[j + 1]
      BY <1>4, <3>1
    <3> QED
      BY <2>3, <3>1, <3>2 DEF n
  <2> QED
    BY <2>2, <2>3
<1>12. AnswersAt(U, s, h)
  <2>1. h \in [0..Len(s) -> 1..Len(U)] /\ h[0] = 1 /\ h[Len(s)] = Len(U)
    BY <1>0, <1>2, <1>3, <1>5, <1>6
  <2>2. \A i, j \in 0..Len(s) : i <= j => h[i] <= h[j]
    BY <1>3, <1>7
  <2>3. ASSUME NEW i \in 1..Len(s)
        PROVE  \/ s[i] = U[h[i]]
               \/ \A p, r \in 1..Len(U) :
                    (h[i - 1] <= p /\ p <= r /\ r <= h[i] /\ Before(U, s, i - 1) = U[p]) => s[i] # U[r]
    <3>1. CASE i \in 1..n
      BY <1>2, <1>10, <3>1
    <3>2. CASE i = n + 1
      <4>1. i - 1 = n /\ n \in 0..n
        BY <1>0, <3>2
      <4>2. h[i - 1] = m /\ h[i] = m + a /\ s[i] = t /\ Before(U, s, i - 1) = Before(T, q, n)
        BY <1>3, <1>5, <1>6, <1>8, <3>2, <4>1
      <4> QED
        BY <1>2, <1>11, <4>2
    <3> QED
      BY <1>0, <1>3, <3>1, <3>2
  <2> QED
    BY <2>1, <2>2, <2>3 DEF AnswersAt
<1>13. exactly => Echoed(U, s, h)
  <2> SUFFICES ASSUME exactly, NEW i \in 1..Len(s) PROVE s[i] = U[h[i]]
    BY DEF Echoed
  <2>1. CASE i \in 1..n
    <3>1. q[i] = T[g[i]]
      BY <1>1, <2>1 DEF Echoed, n
    <3> QED
      BY SMTT(30), <1>0, <1>3, <1>5, <1>9, <2>1, <3>1
  <2>2. CASE i = n + 1
    <3>1. t = U[m + a]
      BY <1>41
    <3> QED
      BY <1>3, <1>5, <2>2, <3>1
  <2> QED
    BY <1>0, <1>3, <2>1, <2>2
<1>14. h \in [0..Len(s) -> 1..Len(U)]
  BY <1>2, <1>3, <1>5
<1>15. Fits(U, s, exactly)
  BY <1>12, <1>13, <1>14 DEF Fits
<1> QED
  BY <1>15 DEF U, s

\* Images before one that a report fits are dropped, with the reports up to it.
LEMMA DropsFit ==
  ASSUME NEW C, NEW T \in Seq(C), NEW q \in Seq(C), NEW exactly \in BOOLEAN, Fits(T, q, exactly),
         NEW s \in {0, 1}, s <= Len(q), NEW m \in 1..Len(T), Before(T, q, s) = T[m],
         \A j \in 1..Len(T) : T[j] = T[m] => j <= m,
         NEW still \in BOOLEAN,
         still => \/ Len(q) = s
                  \/ exactly /\ \A j \in 1..Len(T) : T[j] = T[m] => j = m
  PROVE  Fits(SubSeq(T, m, Len(T)), SubSeq(q, s + 1, Len(q)), still)
<1> DEFINE n == Len(q)  l == Len(T)  U == SubSeq(T, m, l)  u == SubSeq(q, s + 1, n)
<1>0. n \in Nat /\ l \in Nat /\ m \in Nat /\ s \in Nat /\ n - s \in Nat /\ l - m + 1 \in Nat \ {0}
      /\ m \in 1..l /\ s \in 0..n
  OBVIOUS
<1>1. PICK g \in [0..n -> 1..l] : AnswersAt(T, q, g) /\ (exactly => Echoed(T, q, g))
  BY DEF Fits
<1>2. Len(U) = l - m + 1 /\ \A i \in 1..(l - m + 1) : U[i] = T[i + m - 1]
  OBVIOUS
<1>3. Len(u) = n - s /\ \A i \in 1..(n - s) : u[i] = q[i + s]
  OBVIOUS
<1>4. g[0] = 1 /\ g[n] = l /\ \A i, j \in 0..n : i <= j => g[i] <= g[j]
  BY <1>1 DEF AnswersAt
<1>5. \A i \in 1..n :
       \/ q[i] = T[g[i]]
       \/ \A p, r \in 1..l :
            (g[i - 1] <= p /\ p <= r /\ r <= g[i] /\ Before(T, q, i - 1) = T[p]) => q[i] # T[r]
  BY <1>1 DEF AnswersAt
<1> DEFINE from(x) == IF x < m THEN 1 ELSE x - m + 1
           h == [i \in 0..(n - s) |-> from(g[i + s])]
<1>6. /\ \A x \in 1..l : from(x) \in 1..(l - m + 1)
      /\ \A x, y \in 1..l : x <= y => from(x) <= from(y)
      /\ from(l) = l - m + 1
      /\ \A x \in 1..l : x <= m => from(x) = 1
      /\ \A x \in 1..l : x >= m => from(x) + m - 1 = x
  BY <1>0
<1>7. \A i \in 0..(n - s) : i + s \in 0..n /\ g[i + s] \in 1..l
  BY <1>0
<1> HIDE DEF U, u, n, l, from
<1>8. /\ h \in [0..(n - s) -> 1..(l - m + 1)]
      /\ \A i \in 0..(n - s) : h[i] = from(g[i + s])
  BY <1>6, <1>7
<1> HIDE DEF h
<1>9. g[s] <= m
  <2>1. CASE s = 0
    BY <1>0, <1>4, <2>1
  <2>2. CASE s = 1
    <3>1. 1 \in 1..n /\ 1 - 1 = 0 /\ 1 \in 1..l /\ q[1] = T[m] /\ g[1] \in 1..l /\ Before(T, q, 0) = T[1]
      BY <1>0, <2>2 DEF Before
    <3>2. CASE q[1] = T[g[1]]
      BY <2>2, <3>1, <3>2 DEF l
    <3>3. CASE \A p, r \in 1..l :
                 (g[0] <= p /\ p <= r /\ r <= g[1] /\ Before(T, q, 0) = T[p]) => q[1] # T[r]
      <4>1. ~(g[0] <= 1 /\ 1 <= m /\ m <= g[1])
        BY <1>0, <3>1, <3>3
      <4> QED
        BY <1>0, <1>4, <2>2, <3>1, <4>1
    <3> QED
      BY <1>5, <3>1, <3>2, <3>3
  <2> QED
    BY <2>1, <2>2
<1>10. h[0] = 1 /\ h[n - s] = l - m + 1
  <2>1. 0 \in 0..(n - s) /\ n - s \in 0..(n - s) /\ 0 + s = s /\ (n - s) + s = n
    BY <1>0
  <2>2. h[0] = from(g[s]) /\ h[n - s] = from(g[n])
    BY <1>8, <2>1
  <2>3. g[s] \in 1..l
    BY <1>7, <2>1
  <2> QED
    BY <1>4, <1>6, <1>9, <2>2, <2>3
<1>11. \A i, j \in 0..(n - s) : i <= j => h[i] <= h[j]
  <2> SUFFICES ASSUME NEW i \in 0..(n - s), NEW j \in 0..(n - s), i <= j PROVE h[i] <= h[j]
    OBVIOUS
  <2>1. i + s \in 0..n /\ j + s \in 0..n /\ i + s <= j + s
    BY <1>0
  <2>2. g[i + s] <= g[j + s] /\ g[i + s] \in 1..l /\ g[j + s] \in 1..l
    BY <1>4, <1>7, <2>1
  <2>3. from(g[i + s]) <= from(g[j + s])
    BY <1>6, <2>2
  <2> QED
    BY <1>8, <2>3
<1>12. \A i \in 0..(n - s) : Before(U, u, i) = Before(T, q, i + s)
  <2> SUFFICES ASSUME NEW i \in 0..(n - s) PROVE Before(U, u, i) = Before(T, q, i + s)
    OBVIOUS
  <2>1. CASE i = 0
    <3>1. U[1] = T[m] /\ i + s = s
      BY <1>0, <1>2, <2>1
    <3> QED
      BY <2>1, <3>1 DEF Before
  <2>2. CASE i # 0
    <3>1. i \in 1..(n - s) /\ i + s # 0
      BY <1>0, <2>2
    <3> QED
      BY <1>3, <2>2, <3>1 DEF Before
  <2> QED
    BY <2>1, <2>2
<1>13. ASSUME NEW i \in 1..(n - s)
       PROVE  \/ u[i] = U[h[i]]
              \/ \A p, r \in 1..(l - m + 1) :
                   (h[i - 1] <= p /\ p <= r /\ r <= h[i] /\ Before(U, u, i - 1) = U[p]) => u[i] # U[r]
  <2> DEFINE k == i + s  x == g[k - 1]  y == g[k]
  <2>0. k \in 1..n /\ k - 1 \in 0..n /\ k \in 0..n /\ k - 1 <= k /\ (i - 1) + s = k - 1
        /\ i \in 0..(n - s) /\ i - 1 \in 0..(n - s)
    BY <1>0
  <2>1. /\ x \in 1..l /\ y \in 1..l /\ x <= y
        /\ h[i - 1] = from(x) /\ h[i] = from(y)
        /\ u[i] = q[k] /\ Before(U, u, i - 1) = Before(T, q, k - 1)
    <3>1. x \in 1..l /\ y \in 1..l /\ x <= y
      BY <1>4, <2>0
    <3>2. h[i - 1] = from(g[(i - 1) + s]) /\ h[i] = from(y)
      BY <1>8, <2>0
    <3>3. u[i] = q[k]
      BY <1>3
    <3>4. Before(U, u, i - 1) = Before(T, q, (i - 1) + s)
      BY <1>12, <2>0
    <3> QED
      BY <2>0, <3>1, <3>2, <3>3, <3>4
  <2>2. \/ q[k] = T[y]
        \/ \A p, r \in 1..l :
             (x <= p /\ p <= r /\ r <= y /\ Before(T, q, k - 1) = T[p]) => q[k] # T[r]
    BY <1>5, <2>0
  <2> HIDE DEF k, x, y
  <2>3. CASE y < m
    <3>1. from(x) = 1 /\ from(y) = 1
      <4>1. x <= m /\ y <= m
        BY <1>0, <2>1, <2>3
      <4> QED
        BY <1>6, <2>1, <4>1
    <3>2. CASE u[i] = U[1]
      BY <2>1, <3>1, <3>2
    <3>3. CASE u[i] # U[1]
      <4>1. \A r \in 1..(l - m + 1) : r <= 1 => r = 1
        BY <1>0
      <4> QED
        BY <2>1, <3>1, <3>3, <4>1
    <3> QED
      BY <3>2, <3>3
  <2>4. CASE y >= m /\ q[k] = T[y]
    <3>1. from(y) \in 1..(l - m + 1) /\ from(y) + m - 1 = y
      BY <1>6, <2>1, <2>4
    <3>2. U[from(y)] = T[y]
      BY <1>2, <3>1
    <3> QED
      BY <2>1, <2>4, <3>2
  <2>5. CASE y >= m /\ \A p, r \in 1..l :
               (x <= p /\ p <= r /\ r <= y /\ Before(T, q, k - 1) = T[p]) => q[k] # T[r]
    <3> SUFFICES ASSUME NEW p \in 1..(l - m + 1), NEW r \in 1..(l - m + 1),
                        from(x) <= p, p <= r, r <= from(y), Before(T, q, k - 1) = U[p]
                 PROVE  q[k] # U[r]
      BY <2>1
    <3>1. U[p] = T[p + m - 1] /\ U[r] = T[r + m - 1]
      BY <1>2
    <3>2. from(y) + m - 1 = y /\ from(y) \in 1..(l - m + 1) /\ from(x) \in 1..(l - m + 1)
      BY <1>6, <2>1, <2>5
    <3>3. x <= p + m - 1
      <4>1. CASE x < m
        BY <1>0, <2>1, <4>1
      <4>2. CASE ~(x < m)
        <5>1. from(x) + m - 1 = x
          BY <1>0, <1>6, <2>1, <4>2
        <5> QED
          BY SMTT(30), <1>0, <3>2, <5>1
      <4> QED
        BY <4>1, <4>2
    <3>4. p + m - 1 \in 1..l /\ r + m - 1 \in 1..l /\ p + m - 1 <= r + m - 1 /\ r + m - 1 <= y
      BY <1>0, <3>2
    <3> QED
      BY <2>5, <3>1, <3>3, <3>4
  <2> QED
    BY <1>0, <2>1, <2>2, <2>3, <2>4, <2>5
<1>14. still => \A i \in 1..(n - s) : u[i] = U[h[i]]
  <2> SUFFICES ASSUME still, NEW i \in 1..(n - s) PROVE u[i] = U[h[i]]
    OBVIOUS
  <2>0. i + s \in 1..n /\ i + s \in 0..n /\ s <= i + s /\ s \in 0..n /\ i \in 0..(n - s)
    BY <1>0
  <2>1. exactly /\ \A j \in 1..l : T[j] = T[m] => j = m
    BY <1>0, <2>0 DEF n, l
  <2>2. \A j \in 1..n : q[j] = T[g[j]]
    BY <1>1, <2>1 DEF Echoed, n
  <2>3. g[s] = m
    <3>1. CASE s = 0
      <4>1. T[1] = T[m] /\ 1 \in 1..l
        BY <1>0, <3>1 DEF Before
      <4> QED
        BY <1>4, <2>1, <3>1, <4>1
    <3>2. CASE s = 1
      <4>1. 1 \in 1..n /\ q[1] = T[m] /\ g[1] \in 1..l
        BY <1>0, <3>2 DEF Before
      <4>2. T[g[1]] = T[m]
        BY <2>2, <4>1
      <4> QED
        BY <2>1, <3>2, <4>1, <4>2
    <3> QED
      BY <3>1, <3>2
  <2>4. g[i + s] >= m /\ g[i + s] \in 1..l
    <3>1. g[s] <= g[i + s] /\ g[i + s] \in 1..l
      BY <1>4, <2>0
    <3> QED
      BY <1>0, <2>3, <3>1
  <2>5. from(g[i + s]) \in 1..(l - m + 1) /\ from(g[i + s]) + m - 1 = g[i + s]
    BY <1>6, <2>4
  <2>6. U[h[i]] = T[g[i + s]]
    BY <1>2, <1>8, <2>0, <2>5
  <2> QED
    BY <1>3, <2>0, <2>2, <2>6
<1>15. AnswersAt(U, u, h) /\ (still => Echoed(U, u, h)) /\ h \in [0..Len(u) -> 1..Len(U)]
  BY <1>2, <1>3, <1>8, <1>10, <1>11, <1>13, <1>14 DEF AnswersAt, Echoed
<1>16. Fits(U, u, still)
  BY <1>15 DEF Fits
<1> QED
  BY <1>16 DEF U, u, n, l

-----------------------------------------------------------------------------
(* What the hint says of a text.                                           *)

\* A set of positions that is not empty has a first and a last one.
LEMMA FirstPosition ==
  ASSUME NEW T \in SUBSET Nat, T # {}
  PROVE  \E i \in T : \A j \in T : i <= j
<1>1. PICK i \in T : \A j \in T : ~(<<j, i>> \in OpToRel(<, Nat))
  BY NatLessThanWellFounded, WFMin
<1>2. \A j \in T : j < i => <<j, i>> \in OpToRel(<, Nat)
  BY DEF OpToRel
<1>3. \A j \in T : ~(j < i)
  BY <1>1, <1>2
<1>4. \A j \in T : i <= j
  BY <1>3
<1> QED  BY <1>4

\* ... and a bounded one a last one.
LEMMA LastPosition ==
  ASSUME NEW n \in Nat, NEW T \in SUBSET (1..n), T # {}
  PROVE  \E i \in T : \A j \in T : j <= i
<1> DEFINE U == {k \in Nat : n - k \in T}
<1>1. PICK t \in T : TRUE
  OBVIOUS
<1>2. n - t \in U
  BY <1>1
<1>3. PICK k \in U : \A j \in U : k <= j
  BY <1>2, FirstPosition
<1>4. \A j \in T : n - j \in U
  OBVIOUS
<1>5. n - k \in T /\ \A j \in T : j <= n - k
  BY <1>3, <1>4
<1> QED  BY <1>5

White(c) == c \in {"s", "n", "t"}
Break(c) == c = "n"
Stop(c)  == c = "."

\* The k characters up to position n are full stops.
StopsEnd(t, n, k) == k <= n /\ \A i \in (n - k + 1)..n : Stop(t[i])
WhiteFrom(t, n) == \A i \in n..Len(t) : White(t[i])

\* A sentence starts at the end of the text.
Begins(t) == \/ WhiteFrom(t, 1)
             \/ \E i \in 1..Len(t) : Break(t[i]) /\ WhiteFrom(t, i)
             \/ \E i \in 1..(Len(t) - 1) : Stop(t[i]) /\ WhiteFrom(t, i + 1)

\* The characters, by kind.
LEMMA CharKinds ==
  /\ \A c : Break(c) => White(c)
  /\ \A c : Stop(c) => ~White(c)
  /\ White("s") /\ White("n") /\ White("t") /\ ~White("x") /\ ~White(".") /\ Stop(".") /\ ~Stop("x")
  /\ ~Break("s") /\ ~Stop("s") /\ {"x", "s", "n", "t", "."} = Chars
BY DEF White, Break, Stop, Chars

\* The text behind position n.
LEMMA RestOf ==
  ASSUME NEW t \in Seq(Chars), NEW n \in 0..Len(t)
  PROVE  LET rest == SubSeq(t, n + 1, Len(t)) IN
         /\ rest \in Seq(Chars) /\ Len(rest) = Len(t) - n
         /\ \A i \in 1..(Len(t) - n) : rest[i] = t[i + n]
         /\ rest = <<>> <=> n = Len(t)
         /\ Blank(rest) <=> WhiteFrom(t, n + 1)
         /\ Contains(rest, "n") <=> \E i \in (n + 1)..Len(t) : Break(t[i])
<1> DEFINE rest == SubSeq(t, n + 1, Len(t))
<1>1. rest \in Seq(Chars) /\ Len(rest) = Len(t) - n
      /\ \A i \in 1..(Len(t) - n) : rest[i] = t[i + n]
  OBVIOUS
<1>2. Len(t) \in Nat /\ n \in Nat /\ Len(t) - n \in Nat /\ DOMAIN rest = 1..(Len(t) - n)
  BY <1>1
<1> HIDE DEF rest
<1>3. rest = <<>> <=> n = Len(t)
  BY <1>1, <1>2
<1>4. Blank(rest) <=> \A i \in 1..(Len(t) - n) : White(rest[i])
  BY <1>2 DEF Blank, White, Whitespace
<1>5. (\A i \in 1..(Len(t) - n) : White(rest[i])) <=> \A i \in (n + 1)..Len(t) : White(t[i])
  <2>1. ASSUME \A i \in 1..(Len(t) - n) : White(rest[i]), NEW i \in (n + 1)..Len(t)
        PROVE  White(t[i])
    <3>1. i - n \in 1..(Len(t) - n) /\ (i - n) + n = i
      BY <1>2
    <3>2. rest[i - n] = t[i]
      BY <1>1, <3>1
    <3> QED
      BY <2>1, <3>1, <3>2
  <2>2. ASSUME \A i \in (n + 1)..Len(t) : White(t[i]), NEW i \in 1..(Len(t) - n)
        PROVE  White(rest[i])
    <3>1. i + n \in (n + 1)..Len(t)
      BY <1>2
    <3> QED
      BY <1>1, <2>2, <3>1
  <2> QED
    BY <2>1, <2>2
<1>6. Contains(rest, "n") <=> \E i \in 1..(Len(t) - n) : Break(rest[i])
  BY <1>1 DEF Contains, Break
<1>7. (\E i \in 1..(Len(t) - n) : Break(rest[i])) <=> \E i \in (n + 1)..Len(t) : Break(t[i])
  <2>1. ASSUME NEW i \in (n + 1)..Len(t), Break(t[i])
        PROVE  \E j \in 1..(Len(t) - n) : Break(rest[j])
    <3>1. i - n \in 1..(Len(t) - n) /\ (i - n) + n = i
      BY <1>2
    <3>2. rest[i - n] = t[i]
      BY <1>1, <3>1
    <3> QED
      BY <2>1, <3>1, <3>2
  <2>2. ASSUME NEW i \in 1..(Len(t) - n), Break(rest[i])
        PROVE  \E j \in (n + 1)..Len(t) : Break(t[j])
    <3>1. i + n \in (n + 1)..Len(t)
      BY <1>2
    <3> QED
      BY <1>1, <2>2, <3>1
  <2> QED
    BY <2>1, <2>2
<1> QED
  BY <1>1, <1>3, <1>4, <1>5, <1>6, <1>7 DEF rest, WhiteFrom

\* Trimmed is where the trailing whitespace starts.
LEMMA TrimmedAt ==
  ASSUME NEW t \in Seq(Chars)
  PROVE  /\ Trimmed(t) \in 0..Len(t) /\ WhiteFrom(t, Trimmed(t) + 1)
         /\ Trimmed(t) > 0 => ~White(t[Trimmed(t)])
<1> DEFINE P(n) == /\ Blank(SubSeq(t, n + 1, Len(t)))
                   /\ n > 0 => t[n] \notin Whitespace
           Q(n) == WhiteFrom(t, n + 1) /\ (n > 0 => ~White(t[n]))
           inked == {i \in 1..Len(t) : ~White(t[i])}
<1>1. \A n \in 0..Len(t) : P(n) <=> Q(n)
  BY RestOf DEF White, Whitespace
<1>2. \E n \in 0..Len(t) : Q(n)
  <2>0. Len(t) \in Nat
    OBVIOUS
  <2>1. CASE inked = {}
    <3>1. 0 \in 0..Len(t) /\ ~(0 > 0) /\ \A i \in (0 + 1)..Len(t) : White(t[i])
      BY <2>0, <2>1
    <3> QED
      BY <3>1 DEF WhiteFrom
  <2>2. CASE inked # {}
    <3>1. inked \in SUBSET (1..Len(t))
      OBVIOUS
    <3> HIDE DEF inked
    <3>2. PICK n \in inked : \A j \in inked : j <= n
      BY <2>0, <2>2, <3>1, LastPosition
    <3>3. n \in 0..Len(t) /\ ~White(t[n]) /\ n \in Nat
      BY <2>0, <3>1 DEF inked
    <3>4. ASSUME NEW i \in (n + 1)..Len(t) PROVE White(t[i])
      <4>1. i \in 1..Len(t) /\ ~(i <= n)
        BY <2>0, <3>3
      <4> QED
        BY <3>2, <4>1 DEF inked
    <3> QED
      BY <3>3, <3>4 DEF WhiteFrom
  <2> QED
    BY <2>1, <2>2
<1>3. Trimmed(t) = CHOOSE n \in 0..Len(t) : P(n)
  BY Zenon DEF Trimmed
<1> HIDE DEF P, Q
<1>4. Trimmed(t) \in 0..Len(t) /\ P(Trimmed(t))
  BY <1>1, <1>2, <1>3
<1> QED
  BY <1>1, <1>4 DEF Q

\* Stops counts the stops in front of the one at n.
LEMMA StopsAt ==
  ASSUME NEW t \in Seq(Chars), NEW n \in 1..Len(t), Stop(t[n])
  PROVE  Stops(t, n) \in Nat /\ StopsEnd(t, n, Stops(t, n) + 1)
<1> DEFINE P(m) == /\ \A i \in (n - m)..n : t[i] = "."
                   /\ n - m > 1 => t[n - m - 1] # "."
           Q(m) == /\ \A i \in (n - m)..n : Stop(t[i])
                   /\ n - m > 1 => ~Stop(t[n - m - 1])
           run == {i \in 1..n : \A j \in i..n : Stop(t[j])}
<1>1. \A m : P(m) <=> Q(m)
  BY DEF Stop
<1>2. \E m \in 0..(n - 1) : Q(m)
  <2>0. n \in Nat /\ n >= 1
    OBVIOUS
  <2>1. n \in run
    <3>1. \A j \in n..n : j = n
      BY <2>0
    <3> QED
      BY <2>0, <3>1
  <2>2. run \in SUBSET Nat
    OBVIOUS
  <2> HIDE DEF run
  <2>3. PICK i \in run : \A j \in run : i <= j
    BY <2>1, <2>2, FirstPosition
  <2>4. i \in 1..n /\ \A j \in i..n : Stop(t[j])
    BY DEF run
  <2> DEFINE m == n - i
  <2>5. m \in 0..(n - 1) /\ n - m = i /\ i \in Nat
    BY <2>0, <2>4
  <2>6. ASSUME i > 1, Stop(t[i - 1]) PROVE FALSE
    <3>1. i - 1 \in 1..n /\ ~(i <= i - 1)
      BY <2>0, <2>4, <2>6
    <3>2. ASSUME NEW j \in (i - 1)..n PROVE Stop(t[j])
      <4>1. j = i - 1 \/ j \in i..n
        BY <2>0, <2>5
      <4> QED
        BY <2>4, <2>6, <4>1
    <3> QED
      BY <2>3, <3>1, <3>2 DEF run
  <2> HIDE DEF m
  <2>7. Q(m)
    BY <2>4, <2>5, <2>6
  <2> QED
    BY <2>5, <2>7
<1>3. Stops(t, n) = CHOOSE m \in 0..(n - 1) : P(m)
  BY Zenon DEF Stops
<1> HIDE DEF P, Q
<1>4. Stops(t, n) \in 0..(n - 1) /\ Q(Stops(t, n))
  BY <1>1, <1>2, <1>3
<1> DEFINE s == Stops(t, n)
<1>5. s \in 0..(n - 1) /\ \A i \in (n - s)..n : Stop(t[i])
  BY <1>4 DEF Q
<1> HIDE DEF s
<1>6. s \in Nat /\ s + 1 <= n /\ n - (s + 1) + 1 = n - s
  BY <1>5
<1>7. StopsEnd(t, n, s + 1)
  BY <1>5, <1>6 DEF StopsEnd
<1> QED
  BY <1>6, <1>7 DEF s

Awaits(h) == h.kind = "awaiting"
Starts(h) == h.kind = "start"
HintSet == {NoHint} \cup {Awaiting(n) : n \in Nat} \cup {Start(s, n) : s \in Nat, n \in Nat}

\* What a hint says of the text it was taken from.
ToldBy(h, t) ==
  /\ Awaits(h) => StopsEnd(t, Len(t), h.tail + 1)
  /\ Starts(h) /\ h.spaces > 0 =>
       /\ h.spaces <= Len(t) /\ WhiteFrom(t, Len(t) - h.spaces + 1)
       /\ StopsEnd(t, Len(t) - h.spaces, h.tail + 1)
  /\ Starts(h) => Begins(t)

\* The hints, by kind.
LEMMA HintForms ==
  /\ NoHint \in HintSet /\ ~Awaits(NoHint) /\ ~Starts(NoHint) /\ NoHint.spaces = 0
  /\ \A n \in Nat : /\ Awaiting(n) \in HintSet /\ Awaits(Awaiting(n)) /\ ~Starts(Awaiting(n))
                    /\ Awaiting(n).tail = n /\ Awaiting(n).spaces = 0 /\ Awaiting(n) # NoHint
  /\ \A s, n \in Nat : /\ Start(s, n) \in HintSet /\ ~Awaits(Start(s, n)) /\ Starts(Start(s, n))
                       /\ Start(s, n).tail = n /\ Start(s, n).spaces = s /\ Start(s, n) # NoHint
<1>1. ~Awaits(NoHint) /\ ~Starts(NoHint) /\ NoHint.spaces = 0 /\ NoHint.kind = "none"
  BY DEF NoHint, Awaits, Starts
<1>2. ASSUME NEW n \in Nat
      PROVE  /\ Awaits(Awaiting(n)) /\ ~Starts(Awaiting(n)) /\ Awaiting(n).kind = "awaiting"
             /\ Awaiting(n).tail = n /\ Awaiting(n).spaces = 0
  BY DEF Awaiting, Awaits, Starts
<1>3. ASSUME NEW s \in Nat, NEW n \in Nat
      PROVE  /\ ~Awaits(Start(s, n)) /\ Starts(Start(s, n)) /\ Start(s, n).kind = "start"
             /\ Start(s, n).tail = n /\ Start(s, n).spaces = s
  BY DEF Start, Awaits, Starts
<1>4. /\ NoHint \in HintSet /\ \A n \in Nat : Awaiting(n) \in HintSet
      /\ \A s, n \in Nat : Start(s, n) \in HintSet
  BY DEF HintSet
<1>5. /\ \A n \in Nat : Awaiting(n) # NoHint
      /\ \A s, n \in Nat : Start(s, n) # NoHint
  BY <1>1, <1>2, <1>3
<1> QED
  BY <1>1, <1>2, <1>3, <1>4, <1>5

\* The fields of a hint.
LEMMA HintFields ==
  ASSUME NEW h \in HintSet
  PROVE  /\ h.kind \in {"none", "awaiting", "start"} /\ h.spaces \in Nat /\ h.tail \in Nat
         /\ ~Starts(h) => h.spaces = 0
         /\ h # NoHint => Awaits(h) \/ Starts(h)
         /\ Awaits(h) => ~Starts(h)
BY DEF HintSet, NoHint, Awaiting, Start, Awaits, Starts

\* The hint reconciled with a text is told by it, and is a start where one is.
LEMMA HintOfTold ==
  ASSUME NEW t \in Seq(Chars)
  PROVE  HintOf(t) \in HintSet /\ ToldBy(HintOf(t), t) /\ (Starts(HintOf(t)) <=> Begins(t))
<1> DEFINE n == Trimmed(t)  rest == SubSeq(t, n + 1, Len(t))
           broken == \E i \in (n + 1)..Len(t) : Break(t[i])
<1>0. Len(t) \in Nat
  OBVIOUS
<1>1. n \in 0..Len(t) /\ WhiteFrom(t, n + 1) /\ (n > 0 => ~White(t[n]))
  BY TrimmedAt
<1>2. /\ rest = <<>> <=> n = Len(t)
      /\ Contains(rest, "n") <=> broken
      /\ Len(rest) = Len(t) - n
  <2> HIDE DEF n
  <2> QED
    BY <1>1, RestOf
<1> HIDE DEF n, rest, broken
<1>3. n \in Nat /\ n <= Len(t)
  BY <1>0, <1>1
<1>4. HintOf(t) = IF n = 0 \/ broken THEN Start(0, 0)
                  ELSE IF ~Stop(t[n]) THEN NoHint
                  ELSE IF n = Len(t) THEN Awaiting(Stops(t, n))
                  ELSE Start(IF Spaces(rest) THEN Len(t) - n ELSE 0, Stops(t, n))
  <2>1. HintOf(t) = IF n = 0 \/ Contains(rest, "n") THEN Start(0, 0)
                    ELSE IF ~Stop(t[n]) THEN NoHint
                    ELSE IF rest = <<>> THEN Awaiting(Stops(t, n))
                    ELSE Start(IF Spaces(rest) THEN Len(rest) ELSE 0, Stops(t, n))
    BY Zenon DEF HintOf, n, rest, Stop
  <2> QED
    BY <1>2, <2>1, Zenon
<1>5. n = 0 \/ broken => Begins(t)
  <2>1. n = 0 => WhiteFrom(t, 1)
    <3>1. 0 + 1 = 1
      OBVIOUS
    <3> QED
      BY <1>1, <3>1
  <2>2. ASSUME broken PROVE \E i \in 1..Len(t) : Break(t[i]) /\ WhiteFrom(t, i)
    <3>1. PICK i \in (n + 1)..Len(t) : Break(t[i])
      BY <2>2 DEF broken
    <3>2. i \in 1..Len(t) /\ \A j \in i..Len(t) : j \in (n + 1)..Len(t)
      BY <1>0, <1>3
    <3>3. WhiteFrom(t, i)
      BY <1>1, <3>2 DEF WhiteFrom
    <3> QED
      BY <3>1, <3>2, <3>3
  <2> QED
    BY <2>1, <2>2 DEF Begins
<1>6. n > 0 /\ ~broken /\ ~Stop(t[n]) => ~Begins(t)
  <2> SUFFICES ASSUME n > 0, ~broken, ~Stop(t[n]), Begins(t) PROVE FALSE
    OBVIOUS
  <2>0. ~White(t[n]) /\ n \in 1..Len(t)
    BY <1>0, <1>1, <1>3
  <2>1. ~WhiteFrom(t, 1)
    BY <2>0 DEF WhiteFrom
  <2>2. ASSUME NEW i \in 1..Len(t), Break(t[i]), WhiteFrom(t, i) PROVE FALSE
    <3>1. ~(i <= n)
      <4>1. i <= n => n \in i..Len(t)
        BY <1>0, <2>0
      <4> QED
        BY <2>0, <2>2, <4>1 DEF WhiteFrom
    <3>2. i \in (n + 1)..Len(t)
      BY <1>0, <2>0, <3>1
    <3> QED
      BY <2>2, <3>2 DEF broken
  <2>3. ASSUME NEW i \in 1..(Len(t) - 1), Stop(t[i]), WhiteFrom(t, i + 1) PROVE FALSE
    <3>1. i >= n
      <4>1. i < n => n \in (i + 1)..Len(t)
        BY <1>0, <2>0
      <4>2. ~(i < n)
        BY <2>0, <2>3, <4>1 DEF WhiteFrom
      <4> QED
        BY <1>0, <1>3, <4>2
    <3>2. i > n => i \in (n + 1)..Len(t)
      BY <1>0, <1>3
    <3>3. ~(i > n)
      BY <1>1, <2>3, <3>2, CharKinds DEF WhiteFrom
    <3>4. i = n
      BY <1>0, <1>3, <3>1, <3>3
    <3> QED
      BY <2>3, <3>4
  <2> QED
    BY <2>1, <2>2, <2>3 DEF Begins
<1>7. CASE n = 0 \/ broken
  <2>1. HintOf(t) = Start(0, 0)
    BY <1>4, <1>7
  <2> QED
    BY <1>5, <1>7, <2>1, HintForms DEF ToldBy
<1>8. CASE n > 0 /\ ~broken /\ ~Stop(t[n])
  <2>1. HintOf(t) = NoHint
    BY <1>4, <1>8
  <2> QED
    BY <1>6, <1>8, <2>1, HintForms DEF ToldBy
<1>9. CASE n > 0 /\ ~broken /\ Stop(t[n])
  <2>1. n \in 1..Len(t)
    BY <1>0, <1>3, <1>9
  <2>2. Stops(t, n) \in Nat /\ StopsEnd(t, n, Stops(t, n) + 1)
    BY <1>9, <2>1, StopsAt
  <2>3. CASE n = Len(t)
    <3>1. HintOf(t) = Awaiting(Stops(t, n))
      BY <1>4, <1>9, <2>1, <2>3
    <3>2. ~Begins(t)
      <4>1. ~White(t[n]) /\ n \in 1..n
        BY <2>1, <1>9, CharKinds
      <4>2. \A i \in 1..Len(t) : ~WhiteFrom(t, i)
        <5>1. \A i \in 1..Len(t) : n \in i..Len(t)
          BY <2>1, <2>3
        <5> QED
          BY <4>1, <5>1 DEF WhiteFrom
      <4>3. 1 \in 1..Len(t) /\ \A i \in 1..(Len(t) - 1) : i + 1 \in 1..Len(t)
        BY <1>0, <2>1
      <4> QED
        BY <4>2, <4>3 DEF Begins
    <3> QED
      BY <2>2, <2>3, <3>1, <3>2, HintForms DEF ToldBy
  <2>4. CASE n # Len(t)
    <3> DEFINE s == IF Spaces(rest) THEN Len(t) - n ELSE 0  k == Stops(t, n)
    <3>1. /\ n \in 1..(Len(t) - 1) /\ s \in Nat
          /\ s > 0 => s <= Len(t) /\ Len(t) - s = n
      BY <1>0, <2>1, <2>4
    <3>2. HintOf(t) = Start(s, k)
      BY <1>4, <1>9, <2>1, <2>4
    <3>3. Begins(t)
      BY <1>1, <1>9, <3>1 DEF Begins
    <3>4. k \in Nat /\ StopsEnd(t, n, k + 1)
      BY <2>2
    <3> HIDE DEF s, k
    <3>5. /\ Start(s, k) \in HintSet /\ ~Awaits(Start(s, k)) /\ Starts(Start(s, k))
          /\ Start(s, k).tail = k /\ Start(s, k).spaces = s
      BY <3>1, <3>4, HintForms
    <3> QED
      BY <1>1, <3>1, <3>2, <3>3, <3>4, <3>5 DEF ToldBy
  <2> QED
    BY <2>3, <2>4
<1> QED
  BY <1>3, <1>7, <1>8, <1>9

-----------------------------------------------------------------------------
(* Projections bound, acknowledged and recorded upon.                      *)

\* A projection just bound shows the text it is bound to.
LEMMA BoundShows ==
  ASSUME NEW t \in Seq(Chars)
  PROVE  /\ Proper(Bound(t)) /\ Bound(t).opaque = "none"
         /\ Shows(Bound(t)) = <<t>> /\ LastText(Bound(t)) = t
<1> DEFINE b == Bound(t)  shot == [left |-> Len(t), inserted |-> <<>>]
<1>1. b.base = t /\ b.opaque = "none" /\ b.images = <<shot>>
      /\ b = [base |-> t, opaque |-> "none", images |-> <<shot>>]
  BY DEF Bound
<1>2. shot \in Shots /\ shot.left = Len(t) /\ shot.inserted = <<>> /\ Len(t) \in Nat
  BY DEF Shots
<1> HIDE DEF b, shot
<1>3. <<shot>> \in Seq(Shots) /\ <<shot>> # <<>> /\ Len(<<shot>>) = 1 /\ DOMAIN <<shot>> = {1}
      /\ <<shot>>[1] = shot
  BY <1>2
<1>4. IsFiniteSet(Spots(<<shot>>)) /\ Inserted(<<shot>>) = 0
  BY <1>2, InsertedOne
<1>5. MaxEchoes >= 1 /\ MaxInserted >= 0
  BY CapsAssumption
<1>6. b \in EchoSet
  BY <1>1, <1>3 DEF EchoSet, Kinds
<1>7. Capped(b.images)
  BY <1>1, <1>3, <1>4, <1>5 DEF Capped
<1>8. \A i \in DOMAIN b.images : b.images[i].left <= Len(b.base)
  BY <1>1, <1>2, <1>3
<1>9. Proper(b)
  BY <1>6, <1>7, <1>8 DEF Proper
<1>10. TextOf(b, shot) = t
  <2>1. SubSeq(t, 1, Len(t)) \o <<>> = t
    OBVIOUS
  <2> QED
    BY <1>1, <1>2, <2>1 DEF TextOf
<1>11. Shows(b) = <<t>>
  <2>1. Len(b.images) = 1 /\ b.images[1] = shot
    BY <1>1, <1>3
  <2>2. Shows(b) = [i \in 1..1 |-> TextOf(b, b.images[i])]
    BY <2>1 DEF Shows
  <2>3. Shows(b) \in Seq(Seq(Chars)) /\ Len(Shows(b)) = 1 /\ Shows(b)[1] = t
    <3>1. Len(Shows(b)) = 1 /\ Shows(b) \in Seq(Seq(Chars))
      BY <1>9, <2>1, ShowsTexts
    <3>2. Shows(b)[1] = TextOf(b, b.images[1])
      <4>1. 1 \in 1..Len(Shows(b))
        BY <3>1
      <4> QED
        BY <1>9, <4>1, ShowsTexts
    <3> QED
      BY <1>10, <2>1, <3>1, <3>2
  <2> QED
    BY <2>3
<1>12. LastText(b) = t
  <2>1. LastText(b) = Last(Shows(b))
    BY <1>9, ShowsTexts
  <2> QED
    BY <1>11, <2>1 DEF Last
<1> QED
  BY <1>1, <1>9, <1>11, <1>12 DEF b

\* What the outcome of an opaque key must have added.
Gap(e, t) == SubSeq(t, Len(LastText(e)) + 1, Len(t))

\* acknowledge keeps the images from the newest that fits, or binds afresh.
LEMMA AcknowledgeShows ==
  ASSUME NEW e, Proper(e), NEW t \in Seq(Chars)
  PROVE  /\ \A f, g \in Acknowledge(e, t) : f = g
         /\ (\E j \in 1..Len(Shows(e)) : Shows(e)[j] = t) => Acknowledge(e, t) # {}
         /\ \A f \in Acknowledge(e, t) : Proper(f) /\
              \/ \E m \in 1..Len(Shows(e)) :
                   /\ Shows(e)[m] = t /\ \A j \in 1..Len(Shows(e)) : Shows(e)[j] = t => j <= m
                   /\ Shows(f) = SubSeq(Shows(e), m, Len(Shows(e)))
                   /\ f.opaque = e.opaque /\ LastText(f) = LastText(e)
              \/ /\ \A j \in 1..Len(Shows(e)) : Shows(e)[j] # t
                 /\ e.opaque # "none" /\ f = Bound(t)
                 /\ IsPrefix(LastText(e), t) /\ Blank(Gap(e, t))
                 /\ e.opaque = "return" => Contains(Gap(e, t), "n")
<1> DEFINE matching == {i \in DOMAIN e.images : TextOf(e, e.images[i]) = t}
           newest == CHOOSE i \in matching : \A j \in matching : j <= i
           kept == [e EXCEPT !.images = SubSeq(@, newest, Len(@))]
           echo == /\ e.opaque # "none" /\ IsPrefix(LastText(e), t) /\ Blank(Gap(e, t))
                   /\ e.opaque = "return" => Contains(Gap(e, t), "n")
           n == Len(e.images)
<1>1. /\ Shows(e) \in Seq(Seq(Chars)) /\ Len(Shows(e)) = n /\ n \in Nat \ {0}
      /\ \A i \in 1..n : Shows(e)[i] = TextOf(e, e.images[i])
      /\ LastText(e) = Shows(e)[n]
  BY ShowsTexts
<1>2. /\ e = [base |-> e.base, opaque |-> e.opaque, images |-> e.images]
      /\ e.base \in Seq(Chars) /\ e.opaque \in Kinds /\ e.images \in Seq(Shots)
      /\ \A i \in 1..n : e.images[i] \in Shots /\ e.images[i].left <= Len(e.base)
      /\ DOMAIN e.images = 1..n
  BY ProperEcho
<1>3. Acknowledge(e, t) = IF matching # {} THEN {kept} ELSE IF echo THEN {Bound(t)} ELSE {}
  BY Zenon DEF Acknowledge, Gap
<1>4. matching = {i \in 1..n : Shows(e)[i] = t}
  <2> HIDE DEF n
  <2> QED
    BY <1>1, <1>2
<1> HIDE DEF matching, newest, kept, n
<1>5. \A f, g \in Acknowledge(e, t) : f = g
  BY <1>3
<1>6. (\E j \in 1..n : Shows(e)[j] = t) => matching # {}
  BY <1>4
<1>7. ASSUME matching # {}
      PROVE  /\ Proper(kept) /\ newest \in 1..n /\ Shows(e)[newest] = t
             /\ \A j \in 1..n : Shows(e)[j] = t => j <= newest
             /\ Shows(kept) = SubSeq(Shows(e), newest, n)
             /\ kept.opaque = e.opaque /\ LastText(kept) = LastText(e)
  <2>1. newest \in matching /\ \A j \in matching : j <= newest
    <3>1. matching \in SUBSET (1..n) /\ n \in Nat
      BY <1>1, <1>4
    <3>2. \E i \in matching : \A j \in matching : j <= i
      BY <1>7, <3>1, LastPosition
    <3> QED
      BY <3>2, Zenon DEF newest
  <2>2. newest \in 1..n /\ Shows(e)[newest] = t /\ \A j \in 1..n : Shows(e)[j] = t => j <= newest
    BY <1>4, <2>1
  <2> DEFINE rest == SubSeq(e.images, newest, Len(e.images))  m == newest
  <2>3. /\ rest \in Seq(Shots) /\ Len(rest) = n - m + 1
        /\ \A i \in 1..Len(rest) : rest[i] = e.images[i + m - 1]
        /\ IsFiniteSet(Spots(rest)) /\ Inserted(rest) <= Inserted(e.images)
    <3>1. IsFiniteSet(Spots(e.images)) /\ newest \in 1..Len(e.images)
      BY <2>2 DEF Proper, Capped, n
    <3> QED
      BY <1>2, <3>1, InsertedSuffix DEF n
  <2>4. kept = [base |-> e.base, opaque |-> e.opaque, images |-> rest]
    <3>1. kept = [e EXCEPT !.images = rest]
      BY DEF kept
    <3> HIDE DEF rest
    <3> QED
      BY <1>2, <3>1
  <2> HIDE DEF rest, m
  <2>5. kept.base = e.base /\ kept.opaque = e.opaque /\ kept.images = rest /\ kept \in EchoSet
    BY <1>2, <2>3, <2>4 DEF EchoSet
  <2>6. n \in Nat /\ m \in Nat /\ m >= 1 /\ m <= n /\ n - m + 1 \in Nat \ {0} /\ m \in 1..n
    BY <1>1, <2>2 DEF m
  <2>7. Capped(rest)
    <3>1. n <= MaxEchoes /\ Inserted(e.images) <= MaxInserted /\ Inserted(e.images) \in Nat
      <4>1. Inserted(e.images) = Cardinality(Spots(e.images)) /\ IsFiniteSet(Spots(e.images))
        BY DEF Inserted, Spots, Proper, Capped
      <4>2. Cardinality(Spots(e.images)) \in Nat
        BY <4>1, FS_CardinalityType
      <4> QED
        BY <4>1, <4>2 DEF Proper, Capped, n
    <3>2. Inserted(rest) \in Nat
      <4>1. Inserted(rest) = Cardinality(Spots(rest))
        BY DEF Inserted, Spots
      <4> QED
        BY <2>3, <4>1, FS_CardinalityType
    <3>3. MaxEchoes \in Nat /\ MaxInserted \in Nat
      BY CapsAssumption
    <3>4. Len(rest) <= MaxEchoes /\ Inserted(rest) <= MaxInserted /\ rest # <<>>
      BY <2>3, <2>6, <3>1, <3>2, <3>3
    <3> QED
      BY <2>3, <3>4 DEF Capped
  <2>8. \A i \in DOMAIN rest : rest[i].left <= Len(e.base)
    <3>1. \A i \in 1..Len(rest) : i + m - 1 \in 1..n
      BY <2>3, <2>6
    <3>2. DOMAIN rest = 1..Len(rest)
      BY <2>3
    <3> QED
      BY <1>2, <2>3, <3>1, <3>2
  <2>9. Proper(kept)
    BY <2>5, <2>7, <2>8 DEF Proper
  <2>10. Shows(kept) = SubSeq(Shows(e), newest, n)
    <3>1. /\ Shows(kept) \in Seq(Seq(Chars)) /\ Len(Shows(kept)) = Len(rest)
          /\ \A i \in 1..Len(rest) : Shows(kept)[i] = TextOf(kept, rest[i])
      BY <2>5, <2>9, ShowsTexts
    <3>2. \A shot : TextOf(kept, shot) = TextOf(e, shot)
      BY <2>5 DEF TextOf
    <3>3. ASSUME NEW i \in 1..Len(rest) PROVE Shows(kept)[i] = Shows(e)[i + m - 1]
      <4>1. i + m - 1 \in 1..n
        BY <2>3, <2>6
      <4> QED
        BY <1>1, <2>3, <3>1, <3>2, <4>1
    <3> DEFINE r == Shows(kept)  s == Shows(e)  T == Seq(Chars)
    <3>4. r \in Seq(T) /\ s \in Seq(T) /\ Len(s) = n /\ Len(r) = n - m + 1
          /\ \A i \in 1..(n - m + 1) : r[i] = s[i + m - 1]
      BY <1>1, <2>3, <3>1, <3>3
    <3> HIDE DEF r, s, T
    <3>5. SubSeq(s, m, n) \in Seq(T) /\ Len(SubSeq(s, m, n)) = n - m + 1
          /\ \A i \in 1..(n - m + 1) : SubSeq(s, m, n)[i] = s[i + m - 1]
      BY <2>6, <3>4
    <3>6. r = SubSeq(s, m, n)
      BY <3>4, <3>5, SameText
    <3> QED
      BY <3>6 DEF r, s, m
  <2>11. LastText(kept) = LastText(e)
    <3>1. Last(kept.images) = Last(e.images)
      <4>1. rest[Len(rest)] = e.images[n] /\ Len(e.images) = n
        BY <2>3, <2>6 DEF n
      <4> QED
        BY <2>5, <4>1 DEF Last
    <3> QED
      BY <2>5, <3>1 DEF LastText, TextOf
  <2> QED
    BY <2>2, <2>5, <2>9, <2>10, <2>11
<1>8. ASSUME NEW f \in Acknowledge(e, t)
      PROVE  Proper(f) /\
              \/ \E m \in 1..n :
                   /\ Shows(e)[m] = t /\ \A j \in 1..n : Shows(e)[j] = t => j <= m
                   /\ Shows(f) = SubSeq(Shows(e), m, n)
                   /\ f.opaque = e.opaque /\ LastText(f) = LastText(e)
              \/ (\A j \in 1..n : Shows(e)[j] # t) /\ f = Bound(t) /\ echo
  <2>1. CASE matching # {}
    <3>1. f = kept
      BY <1>3, <2>1
    <3> QED
      BY <1>7, <2>1, <3>1, Zenon
  <2>2. CASE matching = {}
    <3>1. f = Bound(t) /\ echo
      BY <1>3, <2>2
    <3>2. \A j \in 1..n : Shows(e)[j] # t
      BY <1>4, <2>2
    <3>3. Proper(f)
      BY <3>1, BoundShows
    <3> QED
      BY <3>1, <3>2, <3>3, Zenon
  <2> QED
    BY <2>1, <2>2
<1>9. (\E j \in 1..n : Shows(e)[j] = t) => Acknowledge(e, t) # {}
  BY <1>3, <1>6
<1>10. Len(Shows(e)) = n
  BY <1>1
<1> QED
  BY <1>5, <1>8, <1>9, <1>10, Zenon

\* record shows what the batch makes of the last text, unless that is unknown.
LEMMA RecordShows ==
  ASSUME NEW e, Proper(e), NEW k, NEW deed, deed.edits \in Edits \X Edits,
         k \in Strokes, NEW f \in Record(e, k, deed)
  PROVE  /\ Proper(f) /\ f.base = e.base
         /\ \E A \in Seq(Seq(Chars)) : Shows(f) = Shows(e) \o A
         /\ deed.edits = <<Nothing, Nothing>> => Shows(f) = Shows(e) /\ LastText(f) = LastText(e)
         /\ e.opaque # "none" => Shows(f) = Shows(e) /\ LastText(f) = LastText(e)
         /\ f.opaque = "none" =>
              /\ e.opaque = "none" /\ k \notin {"return", "tab"}
         /\ e.opaque = "none" =>
              /\ deed.edits[1].delete <= Len(LastText(e))
              /\ Shows(f) = Shows(e) \o AppliedAll(LastText(e), deed.edits)
              /\ LastText(f) = After(LastText(e), AppliedAll(LastText(e), deed.edits))
         /\ f.opaque = "tab" => e.opaque = "tab" \/ k = "tab"
<1>1. /\ Shows(e) \in Seq(Seq(Chars)) /\ LastText(e) \in Seq(Chars) /\ Shows(e) \o <<>> = Shows(e)
      /\ e = [base |-> e.base, opaque |-> e.opaque, images |-> e.images] /\ e.opaque \in Kinds
  BY ShowsTexts, ProperEcho
<1>2. CASE k = "s" /\ e.opaque # "none" /\ deed.edits[1] = Nothing
  <2>1. f = e
    BY <1>2 DEF Record
  <2>2. <<>> \in Seq(Seq(Chars))
    OBVIOUS
  <2> QED
    BY <1>1, <1>2, <2>1, <2>2, Zenon
<1>3. CASE ~(k = "s" /\ e.opaque # "none" /\ deed.edits[1] = Nothing)
  <2> DEFINE d == deed.edits
             mark(o) == IF k = "return" \/ (k = "tab" /\ o = "none") THEN k ELSE o
  <2>1. PICK g \in EditAll(e, d) : f = [g EXCEPT !.opaque = mark(g.opaque)]
    <3>1. f \in {[g EXCEPT !.opaque = mark(@)] : g \in EditAll(e, d)}
      BY <1>3 DEF Record
    <3> QED
      BY <3>1
  <2>2. /\ Proper(g) /\ g.base = e.base /\ g.opaque = e.opaque
        /\ d # <<Nothing, Nothing>> => e.opaque = "none"
        /\ d[1] # Nothing => d[1].delete <= Len(LastText(e))
        /\ d = <<Nothing, Nothing>> => g = e
        /\ Shows(g) = Shows(e) \o AppliedAll(LastText(e), d)
        /\ LastText(g) = After(LastText(e), AppliedAll(LastText(e), d))
    <3> HIDE DEF d
    <3>1. d \in Edits \X Edits
      BY DEF d
    <3> QED
      BY <3>1, EditAllShows
  <2>3. AppliedAll(LastText(e), d) \in Seq(Seq(Chars))
    <3> HIDE DEF d
    <3>1. d \in Edits \X Edits
      BY DEF d
    <3> QED
      BY <1>1, <3>1, AppliedAllTexts
  <2>4. g = [base |-> g.base, opaque |-> g.opaque, images |-> g.images] /\ g \in EchoSet
        /\ g.opaque \in Kinds
    BY <2>2, ProperEcho DEF Proper
  <2>5. mark(g.opaque) \in Kinds
    BY <2>4 DEF Kinds, Strokes
  <2>6. f.base = g.base /\ f.images = g.images /\ f.opaque = mark(g.opaque) /\ f \in EchoSet
    <3> HIDE DEF mark
    <3>1. f = [base |-> g.base, opaque |-> mark(g.opaque), images |-> g.images]
      BY <2>1, <2>4
    <3> QED
      BY <2>4, <2>5, <3>1 DEF EchoSet
  <2>7. Proper(f)
    BY <2>2, <2>6 DEF Proper
  <2>8. Shows(f) = Shows(g) /\ LastText(f) = LastText(g)
    <3>1. \A shot : TextOf(f, shot) = TextOf(g, shot)
      BY <2>6 DEF TextOf
    <3> HIDE DEF mark
    <3> QED
      BY <2>6, <3>1 DEF Shows, LastText
  <2>9. f.opaque = "none" => e.opaque = "none" /\ k \notin {"return", "tab"}
    BY <2>2, <2>6
  <2>10. f.opaque = "tab" => e.opaque = "tab" \/ k = "tab"
    BY <2>2, <2>6
  <2>11. d[1].delete <= Len(LastText(e))
    <3>1. CASE d[1] = Nothing
      <4>1. d[1].delete = 0
        BY <3>1 DEF Nothing, Del
      <4>2. Len(LastText(e)) \in Nat
        BY <1>1
      <4> DEFINE x == d[1].delete
      <4>3. x = 0
        BY <4>1
      <4> HIDE DEF x
      <4>4. x <= Len(LastText(e))
        BY <4>2, <4>3
      <4> QED
        BY <4>4 DEF x
    <3> QED
      BY <2>2, <3>1
  <2> HIDE DEF d, mark
  <2>12. d = <<Nothing, Nothing>> \/ e.opaque # "none" => g = e
    BY <2>2
  <2> QED
    BY <1>1, <2>2, <2>3, <2>6, <2>7, <2>8, <2>9, <2>10, <2>11, <2>12, Zenon DEF d
<1> QED
  BY <1>2, <1>3

-----------------------------------------------------------------------------
(* The texts a key press makes of two texts, and what reports of the one    *)
(* say of the other.                                                        *)

\* The texts A made of t and R made of u by the same edits, at most three:
\* they agree from where the first of them do, and R does not end where u or
\* a text on the way from t left off.
Blocks(t, u, A, R) ==
  \/ A = <<>> /\ R = <<>>
  \/ \E a, b \in Seq(Chars) : A = <<a>> /\ R = <<b>> /\ (t = u => a = b)
  \/ \E a1, a2, b1, b2 \in Seq(Chars) :
       /\ A = <<a1, a2>> /\ R = <<b1, b2>>
       /\ (t = u => a1 = b1) /\ (a1 = b1 => a2 = b2) /\ b2 # u
  \/ \E a1, a2, a3, b1, b2, b3 \in Seq(Chars) :
       /\ A = <<a1, a2, a3>> /\ R = <<b1, b2, b3>>
       /\ (t = u => a1 = b1) /\ (a1 = b1 => a2 = b2) /\ (a2 = b2 => a3 = b3)
       /\ b3 # u /\ (u = a1 => b3 # a2)

\* The texts from the last of T to the last of A, and that a report t follows
\* them: it is the last of them, or none where the reports left off or after.
Way(T, A) == [i \in 1..(Len(A) + 1) |-> IF i = 1 THEN T[Len(T)] ELSE A[i - 1]]
Follows(u, B, t) == \/ t = B[Len(B)]
                    \/ \A i, j \in 1..Len(B) : i <= j /\ u = B[i] => t # B[j]

\* One more report, for the texts A of which it may pass over all but the last.
LEMMA WayFits ==
  ASSUME NEW C, NEW T \in Seq(C), T # <<>>, NEW q \in Seq(C), NEW A \in Seq(C), NEW t \in C,
         NEW exactly \in BOOLEAN, Fits(T, q, exactly),
         Follows(Before(T, q, Len(q)), Way(T, A), t), exactly => t = Way(T, A)[Len(Way(T, A))]
  PROVE  Fits(T \o A, Append(q, t), exactly)
<1> DEFINE B == Way(T, A)
<1>1. /\ B \in Seq(C) /\ Len(B) = Len(A) + 1 /\ B[1] = T[Len(T)]
      /\ \A i \in 1..Len(A) : B[i + 1] = A[i]
  <2> DEFINE n == Len(A)  W == [i \in 1..(n + 1) |-> IF i = 1 THEN T[Len(T)] ELSE A[i - 1]]
  <2>1. n \in Nat /\ T[Len(T)] \in C /\ \A i \in 1..n : A[i] \in C
    OBVIOUS
  <2>2. \A i \in 1..(n + 1) : i # 1 => i - 1 \in 1..n
    BY <2>1
  <2>3. W \in [1..(n + 1) -> C]
    BY <2>1, <2>2
  <2>4. W \in Seq(C) /\ Len(W) = n + 1 /\ W[1] = T[Len(T)]
    BY <2>1, <2>3
  <2>5. ASSUME NEW i \in 1..n PROVE W[i + 1] = A[i]
    <3>1. i + 1 \in 1..(n + 1) /\ i + 1 # 1 /\ (i + 1) - 1 = i
      BY <2>1
    <3> HIDE DEF n
    <3> QED
      BY <3>1
  <2>6. B = W
    BY DEF Way
  <2> HIDE DEF W, B
  <2> QED
    BY <2>4, <2>5, <2>6
<1>2. exactly => t = B[Len(B)]
  OBVIOUS
<1>3. \/ t = B[Len(B)]
      \/ \A i, j \in 1..Len(B) : i <= j /\ Before(T, q, Len(q)) = B[i] => t # B[j]
  BY DEF Follows
<1> HIDE DEF B
<1> QED
  BY ZenonT(30), <1>1, <1>2, <1>3, SkipsFit

\* One more text, with the report of it.
LEMMA StepFits ==
  ASSUME NEW C, NEW T \in Seq(C), T # <<>>, NEW q \in Seq(C), NEW exactly \in BOOLEAN,
         Fits(T, q, exactly), NEW a \in C, NEW b \in C,
         T[Len(T)] = Before(T, q, Len(q)) => a = b, exactly => a = b
  PROVE  /\ Fits(Append(T, a), Append(q, b), exactly)
         /\ Append(T, a) \in Seq(C) /\ Append(T, a) # <<>> /\ Append(q, b) \in Seq(C)
         /\ Append(T, a)[Len(Append(T, a))] = a
         /\ Before(Append(T, a), Append(q, b), Len(Append(q, b))) = b
<1> DEFINE A == <<a>>  B == <<T[Len(T)], a>>
<1>1. /\ A \in Seq(C) /\ B \in Seq(C) /\ Len(B) = Len(A) + 1 /\ B[1] = T[Len(T)]
      /\ \A i \in 1..Len(A) : B[i + 1] = A[i]
      /\ B[Len(B)] = a /\ Len(B) = 2 /\ B[2] = a
  OBVIOUS
<1>2. \/ b = B[Len(B)]
      \/ \A i, j \in 1..Len(B) : i <= j /\ Before(T, q, Len(q)) = B[i] => b # B[j]
  <2> SUFFICES ASSUME b # a, NEW i \in 1..2, NEW j \in 1..2, i <= j, Before(T, q, Len(q)) = B[i]
               PROVE  b # B[j]
    BY <1>1
  <2>1. i = 2 /\ j = 2
    BY <1>1
  <2> QED
    BY <1>1, <2>1
<1>3. exactly => b = B[Len(B)]
  BY <1>1
<1> HIDE DEF A, B
<1>4. Fits(T \o A, Append(q, b), exactly)
  BY SMTT(30), <1>1, <1>2, <1>3, SkipsFit
<1>5. T \o A = Append(T, a)
  BY DEF A
<1>6. /\ Append(T, a) \in Seq(C) /\ Append(T, a) # <<>> /\ Append(q, b) \in Seq(C)
      /\ Append(T, a)[Len(Append(T, a))] = a
      /\ Len(Append(q, b)) # 0 /\ Append(q, b)[Len(Append(q, b))] = b
  OBVIOUS
<1> QED
  BY <1>4, <1>5, <1>6 DEF Before

\* A few texts joined, one at a time.
LEMMA ConcatFew ==
  ASSUME NEW C, NEW T \in Seq(C), NEW a1 \in C, NEW a2 \in C, NEW a3 \in C
  PROVE  /\ T \o <<a1>> = Append(T, a1)
         /\ T \o <<a1, a2>> = Append(Append(T, a1), a2)
         /\ T \o <<a1, a2, a3>> = Append(Append(Append(T, a1), a2), a3)
BY SMT

\* The end of an appended sequence.
LEMMA AppendEnd ==
  ASSUME NEW C, NEW s \in Seq(C), NEW x \in C
  PROVE  /\ Append(s, x) \in Seq(C) /\ Append(s, x) # <<>> /\ Len(Append(s, x)) # 0
         /\ Append(s, x)[Len(Append(s, x))] = x
OBVIOUS

\* The reports of what a key made of the client's text fit what it made of the last image.
LEMMA BlocksFit ==
  ASSUME NEW T \in Seq(Seq(Chars)), T # <<>>, NEW q \in Seq(Seq(Chars)), NEW exactly \in BOOLEAN,
         Fits(T, q, exactly), NEW A, NEW R,
         Blocks(T[Len(T)], Before(T, q, Len(q)), A, R),
         exactly => T[Len(T)] = Before(T, q, Len(q))
  PROVE  /\ A \in Seq(Seq(Chars)) /\ R \in Seq(Seq(Chars)) /\ (A = <<>> <=> R = <<>>)
         /\ Fits(T \o A, q \o R, exactly)
         /\ R # <<>> => Fits(T \o A, Append(q, R[Len(R)]), exactly)
<1> DEFINE C == Seq(Chars)  t == T[Len(T)]  u == Before(T, q, Len(q))
<1>0. T \in Seq(C) /\ q \in Seq(C) /\ t \in C
  OBVIOUS
<1> HIDE DEF C, t, u
<1>1. CASE A = <<>> /\ R = <<>>
  <2>1. T \o A = T /\ q \o R = q /\ A \in Seq(C) /\ R \in Seq(C)
    BY <1>0, <1>1
  <2> QED
    BY <1>1, <2>1 DEF C
<1>2. CASE \E a, b \in C : A = <<a>> /\ R = <<b>> /\ (t = u => a = b)
  <2>1. PICK a \in C, b \in C : A = <<a>> /\ R = <<b>> /\ (t = u => a = b)
    BY <1>2
  <2>2. Fits(Append(T, a), Append(q, b), exactly)
    BY <1>0, <2>1, StepFits DEF t, u
  <2>3. T \o A = Append(T, a) /\ q \o R = Append(q, b)
    BY <1>0, <2>1, ConcatFew
  <2>4. A \in Seq(C) /\ R \in Seq(C) /\ A # <<>> /\ R # <<>> /\ R[Len(R)] = b
    BY <2>1
  <2> QED
    BY <2>2, <2>3, <2>4 DEF C
<1>3. CASE \E a1, a2, b1, b2 \in C :
             /\ A = <<a1, a2>> /\ R = <<b1, b2>>
             /\ (t = u => a1 = b1) /\ (a1 = b1 => a2 = b2) /\ b2 # u
  <2>1. PICK a1 \in C, a2 \in C, b1 \in C, b2 \in C :
             /\ A = <<a1, a2>> /\ R = <<b1, b2>>
             /\ (t = u => a1 = b1) /\ (a1 = b1 => a2 = b2) /\ b2 # u
    BY <1>3
  <2> DEFINE T1 == Append(T, a1)  q1 == Append(q, b1)
  <2>2. /\ Fits(T1, q1, exactly) /\ T1 \in Seq(C) /\ T1 # <<>> /\ q1 \in Seq(C)
        /\ T1[Len(T1)] = a1 /\ Before(T1, q1, Len(q1)) = b1
    BY <1>0, <2>1, StepFits DEF t, u
  <2>3. T \o A = Append(T1, a2) /\ q \o R = Append(q1, b2)
    BY <1>0, <2>1, ConcatFew
  <2> HIDE DEF T1, q1
  <2>4. exactly => a2 = b2
    BY <2>1 DEF t, u
  <2>5. Fits(Append(T1, a2), Append(q1, b2), exactly)
    BY <2>1, <2>2, <2>4, StepFits
  <2>6. A \in Seq(C) /\ R \in Seq(C) /\ A # <<>> /\ R # <<>> /\ R[Len(R)] = b2
        /\ Len(A) = 2 /\ A[1] = a1 /\ A[2] = a2
    BY <2>1
  <2>7. Fits(T \o A, Append(q, b2), exactly)
    <3> DEFINE B == Way(T, A)
    <3>1. /\ Len(B) = 3 /\ B[1] = t /\ B[2] = a1 /\ B[3] = a2
      BY <1>0, <2>6 DEF Way, t
    <3> HIDE DEF B
    <3>3. b2 = a2 \/ \A i, j \in 1..3 : i <= j /\ u = B[i] => b2 # B[j]
      <4> SUFFICES ASSUME b2 # a2, NEW i \in 1..3, NEW j \in 1..3, i <= j, u = B[i] PROVE b2 # B[j]
        OBVIOUS
      <4>1. i # 1
        BY <2>1, <3>1
      <4>2. (i = 2 /\ j = 2) \/ j = 3
        BY <4>1
      <4> QED
        BY <2>1, <3>1, <4>2
    <3>4. exactly => b2 = B[Len(B)]
      BY <2>4, <3>1
    <3>5. Follows(u, B, b2)
      BY <3>1, <3>3 DEF Follows
    <3>6. A \in Seq(C) /\ b2 \in C
      BY <2>1, <2>6
    <3> QED
      BY <1>0, <3>4, <3>5, <3>6, WayFits DEF u, B
  <2> QED
    BY <2>3, <2>5, <2>6, <2>7 DEF C
<1>4. CASE \E a1, a2, a3, b1, b2, b3 \in C :
             /\ A = <<a1, a2, a3>> /\ R = <<b1, b2, b3>>
             /\ (t = u => a1 = b1) /\ (a1 = b1 => a2 = b2) /\ (a2 = b2 => a3 = b3)
             /\ b3 # u /\ (u = a1 => b3 # a2)
  <2>1. PICK a1 \in C, a2 \in C, a3 \in C, b1 \in C, b2 \in C, b3 \in C :
             /\ A = <<a1, a2, a3>> /\ R = <<b1, b2, b3>>
             /\ (t = u => a1 = b1) /\ (a1 = b1 => a2 = b2) /\ (a2 = b2 => a3 = b3)
             /\ b3 # u /\ (u = a1 => b3 # a2)
    BY <1>4
  <2> DEFINE T1 == Append(T, a1)  q1 == Append(q, b1)
  <2>11. a1 \in C /\ b1 \in C /\ (T[Len(T)] = Before(T, q, Len(q)) => a1 = b1) /\ (exactly => a1 = b1)
    BY <2>1 DEF t, u
  <2>12. a2 \in C /\ b2 \in C /\ (a1 = b1 => a2 = b2) /\ (exactly => a2 = b2)
    BY <2>1, <2>11
  <2>13. a3 \in C /\ b3 \in C /\ (a2 = b2 => a3 = b3) /\ (exactly => a3 = b3)
    BY <2>1, <2>12
  <2>2. /\ Fits(T1, q1, exactly) /\ T1 \in Seq(C) /\ T1 # <<>> /\ q1 \in Seq(C)
        /\ T1[Len(T1)] = a1 /\ Before(T1, q1, Len(q1)) = b1
    <3>1. Fits(Append(T, a1), Append(q, b1), exactly)
      BY <1>0, <2>11, StepFits
    <3>2. T1 \in Seq(C) /\ T1 # <<>> /\ T1[Len(T1)] = a1
      <4> HIDE DEF C
      <4>1. T \in Seq(C) /\ a1 \in C
        BY <1>0, <2>11, Zenon
      <4> QED
        BY <4>1, AppendEnd, Zenon
    <3>3. q1 \in Seq(C) /\ Len(q1) # 0 /\ q1[Len(q1)] = b1
      <4> HIDE DEF C
      <4>1. q \in Seq(C) /\ b1 \in C
        BY <1>0, <2>11, Zenon
      <4> QED
        BY <4>1, AppendEnd, Zenon
    <3> QED
      BY <3>1, <3>2, <3>3 DEF Before
  <2>3. T \o A = Append(Append(T1, a2), a3) /\ q \o R = Append(Append(q1, b2), b3)
    <3>1. A = <<a1, a2, a3>> /\ R = <<b1, b2, b3>>
      BY <2>1
    <3>2. T \o <<a1, a2, a3>> = Append(Append(Append(T, a1), a2), a3)
      BY <1>0, <2>11, <2>12, <2>13, ConcatFew
    <3>3. q \o <<b1, b2, b3>> = Append(Append(Append(q, b1), b2), b3)
      BY <1>0, <2>11, <2>12, <2>13, ConcatFew
    <3> QED
      BY <3>1, <3>2, <3>3
  <2> HIDE DEF T1, q1
  <2> DEFINE T2 == Append(T1, a2)  q2 == Append(q1, b2)
  <2>4. exactly => a2 = b2 /\ a3 = b3
    BY <2>1 DEF t, u
  <2>5. /\ Fits(T2, q2, exactly) /\ T2 \in Seq(C) /\ T2 # <<>> /\ q2 \in Seq(C)
        /\ T2[Len(T2)] = a2 /\ Before(T2, q2, Len(q2)) = b2
    BY <2>2, <2>12, StepFits
  <2> HIDE DEF T2, q2
  <2>6. Fits(T \o A, q \o R, exactly)
    <3>1. Fits(Append(T2, a3), Append(q2, b3), exactly)
      BY <2>5, <2>13, StepFits
    <3> QED
      BY <2>3, <3>1 DEF T2, q2
  <2>7. A \in Seq(C) /\ R \in Seq(C) /\ A # <<>> /\ R # <<>> /\ R[Len(R)] = b3
        /\ Len(A) = 3 /\ A[1] = a1 /\ A[2] = a2 /\ A[3] = a3
    BY <2>1
  <2>8. Fits(T \o A, Append(q, b3), exactly)
    <3> DEFINE B == Way(T, A)
    <3>1. /\ Len(B) = 4 /\ B[1] = t /\ B[2] = a1 /\ B[3] = a2 /\ B[4] = a3
      BY <1>0, <2>7 DEF Way, t
    <3> HIDE DEF B
    <3>3. b3 = a3 \/ \A i, j \in 1..4 : i <= j /\ u = B[i] => b3 # B[j]
      <4> SUFFICES ASSUME b3 # a3, NEW i \in 1..4, NEW j \in 1..4, i <= j, u = B[i] PROVE b3 # B[j]
        OBVIOUS
      <4>1. i # 1
        BY <2>1, <3>1
      <4>2. (i = 2 /\ j = 2) \/ (i = 2 /\ j = 3) \/ (i = 3 /\ j = 3) \/ j = 4
        BY <4>1
      <4> QED
        BY <2>1, <3>1, <4>2
    <3>4. exactly => b3 = B[Len(B)]
      BY <2>4, <3>1
    <3>5. Follows(u, B, b3)
      BY <3>1, <3>3 DEF Follows
    <3>6. A \in Seq(C) /\ b3 \in C
      BY <2>1, <2>7
    <3> QED
      BY <1>0, <3>4, <3>5, <3>6, WayFits DEF u, B
  <2> QED
    BY <2>6, <2>7, <2>8 DEF C
<1> QED
  BY <1>1, <1>2, <1>3, <1>4 DEF Blocks, C, t, u

-----------------------------------------------------------------------------
(* The texts that the keys make.                                           *)

\* An edit shows its deletion, its insertion, or one after the other.
Kept(t, d) == Shortened(t, IF d.delete < Len(t) THEN d.delete ELSE Len(t))

\* Two texts joined ...
LEMMA TwoTexts ==
  ASSUME NEW T, NEW x \in T, NEW y \in T PROVE <<x>> \o <<y>> = <<x, y>>
<1> DEFINE s == <<x>> \o <<y>>  r == <<x, y>>
<1>1. s \in Seq(T) /\ Len(s) = 2 /\ s[1] = x /\ s[2] = y
  OBVIOUS
<1>2. r \in Seq(T) /\ Len(r) = 2 /\ r[1] = x /\ r[2] = y
  OBVIOUS
<1> HIDE DEF s, r
<1>3. \A i \in 1..2 : s[i] = r[i]
  BY <1>1, <1>2
<1>4. s = r
  BY <1>1, <1>2, <1>3, SameText
<1> QED
  BY <1>4 DEF s, r

\* ... and three.
LEMMA ThreeTexts ==
  ASSUME NEW T, NEW x \in T, NEW y \in T, NEW z \in T PROVE <<x, y>> \o <<z>> = <<x, y, z>>
<1> DEFINE s == <<x, y>> \o <<z>>  r == <<x, y, z>>
<1>1. s \in Seq(T) /\ Len(s) = 3 /\ s[1] = x /\ s[2] = y /\ s[3] = z
  OBVIOUS
<1>2. r \in Seq(T) /\ Len(r) = 3 /\ r[1] = x /\ r[2] = y /\ r[3] = z
  OBVIOUS
<1> HIDE DEF s, r
<1>3. \A i \in 1..3 : s[i] = r[i]
  BY <1>1, <1>2
<1>4. s = r
  BY <1>1, <1>2, <1>3, SameText
<1> QED
  BY <1>4 DEF s, r

\* The few texts of a batch, joined.
LEMMA FewTexts ==
  /\ <<>> \o <<>> = <<>> /\ Len(<<>>) = 0
  /\ \A x \in Seq(Chars) : <<>> \o <<x>> = <<x>> /\ <<x>> \o <<>> = <<x>>
  /\ \A x, y \in Seq(Chars) : <<x>> \o <<y>> = <<x, y>> /\ <<x, y>> \o <<>> = <<x, y>>
  /\ \A x, y, z \in Seq(Chars) : <<x, y>> \o <<z>> = <<x, y, z>>
<1> DEFINE T == Seq(Chars)
<1> HIDE DEF T
<1>1. <<>> \o <<>> = <<>> /\ Len(<<>>) = 0
  OBVIOUS
<1>2. \A x \in T : <<>> \o <<x>> = <<x>> /\ <<x>> \o <<>> = <<x>>
  OBVIOUS
<1>3. ASSUME NEW x \in T, NEW y \in T PROVE <<x>> \o <<y>> = <<x, y>>
  BY TwoTexts
<1>4. \A x, y \in T : <<x, y>> \o <<>> = <<x, y>>
  OBVIOUS
<1>5. ASSUME NEW x \in T, NEW y \in T, NEW z \in T PROVE <<x, y>> \o <<z>> = <<x, y, z>>
  BY ThreeTexts
<1> QED
  BY <1>1, <1>2, <1>3, <1>4, <1>5 DEF T

\* Where a few texts lead.
LEMMA AfterFew ==
  /\ \A t : After(t, <<>>) = t
  /\ \A t, x : After(t, <<x>>) = x
  /\ \A t, x, y : After(t, <<x, y>>) = y
<1>1. \A x : <<x>> # <<>> /\ Last(<<x>>) = x
  BY DEF Last
<1>2. \A x, y : <<x, y>> # <<>> /\ Last(<<x, y>>) = y
  BY DEF Last
<1> QED
  BY <1>1, <1>2, Zenon DEF After

\* What an edit keeps of a text, and what it shows.
LEMMA KeptTexts ==
  ASSUME NEW t \in Seq(Chars), NEW d \in Edits
  PROVE  /\ Kept(t, d) \in Seq(Chars) /\ Len(Kept(t, d)) <= Len(t)
         /\ Len(Kept(t, d)) + d.delete >= Len(t) /\ Len(Kept(t, d)) \in Nat
         /\ d.delete <= Len(t) => Kept(t, d) = Shortened(t, d.delete)
         /\ d.insert \in Seq(Chars) /\ Kept(t, d) \o d.insert \in Seq(Chars)
         /\ d.delete = 0 => Kept(t, d) = t
         /\ d = Nothing => Applied(t, d) = <<>>
         /\ d.delete = 0 /\ d.insert # <<>> => Applied(t, d) = <<t \o d.insert>>
         /\ d.delete > 0 /\ d.insert = <<>> => Applied(t, d) = <<Kept(t, d)>>
         /\ d.delete > 0 /\ d.insert # <<>> => Applied(t, d) = <<Kept(t, d), Kept(t, d) \o d.insert>>
<1> DEFINE m == IF d.delete < Len(t) THEN d.delete ELSE Len(t)
           a == IF d.delete > 0 THEN <<Kept(t, d)>> ELSE <<>>
           b == IF d.insert # <<>> THEN <<Kept(t, d) \o d.insert>> ELSE <<>>
<1>1. /\ d.delete \in Nat /\ d.insert \in Seq(Chars) /\ d = Del(d.delete, d.insert)
      /\ d # Nothing <=> d.delete > 0 \/ d.insert # <<>>
  BY EditForm
<1>2. /\ m \in Nat /\ m <= Len(t) /\ m <= d.delete /\ Len(t) - m + d.delete >= Len(t)
      /\ (d.delete <= Len(t) => m = d.delete)
  <2>1. Len(t) \in Nat
    OBVIOUS
  <2>2. \A n \in Nat : LET k == IF n < Len(t) THEN n ELSE Len(t) IN
          /\ k \in Nat /\ k <= Len(t) /\ k <= n /\ Len(t) - k + n >= Len(t)
          /\ (n <= Len(t) => k = n)
    BY <2>1
  <2> QED
    BY <1>1, <2>2, Zenon
<1>3. Kept(t, d) = Shortened(t, m)
  BY DEF Kept
<1>4. /\ Kept(t, d) \in Seq(Chars) /\ Len(Kept(t, d)) = Len(t) - m
      /\ \A i \in 1..(Len(t) - m) : Kept(t, d)[i] = t[i]
  <2> HIDE DEF m
  <2> QED
    BY <1>2, <1>3, ShortenedText
<1>5. d.delete = 0 => Kept(t, d) = t
  <2> SUFFICES ASSUME d.delete = 0 PROVE Kept(t, d) = t
    OBVIOUS
  <2>1. m = 0
    <3> DEFINE n == d.delete
    <3>1. n = 0 /\ Len(t) \in Nat
      OBVIOUS
    <3> HIDE DEF n
    <3>2. (IF n < Len(t) THEN n ELSE Len(t)) = 0
      BY <3>1
    <3> QED
      BY <3>2 DEF n
  <2> HIDE DEF m
  <2>2. Len(Kept(t, d)) = Len(t) /\ \A i \in 1..Len(Kept(t, d)) : Kept(t, d)[i] = t[i]
    BY <1>4, <2>1
  <2> QED
    BY <1>4, <2>2, SameText
<1>6. Kept(t, d) \o d.insert \in Seq(Chars)
  BY <1>1, <1>4, Concatenated
<1>7. Applied(t, d) = a \o b
  BY Zenon DEF Applied, Kept
<1>8. d = Nothing => d.delete = 0 /\ d.insert = <<>>
  BY DEF Nothing, Del
<1>9. d.delete = 0 => ~(d.delete > 0)
  <2>1. ~(0 > 0)
    OBVIOUS
  <2> QED
    BY <2>1
<1>10. /\ d = Nothing => Applied(t, d) = <<>> \o <<>>
       /\ d.delete = 0 /\ d.insert # <<>> => Applied(t, d) = <<>> \o <<t \o d.insert>>
       /\ d.delete > 0 /\ d.insert = <<>> => Applied(t, d) = <<Kept(t, d)>> \o <<>>
       /\ d.delete > 0 /\ d.insert # <<>> => Applied(t, d) = <<Kept(t, d)>> \o <<Kept(t, d) \o d.insert>>
  BY <1>5, <1>7, <1>8, <1>9
<1>11. \A x, y \in Seq(Chars) : <<>> \o <<>> = <<>> /\ <<>> \o <<x>> = <<x>>
          /\ <<x>> \o <<>> = <<x>> /\ <<x>> \o <<y>> = <<x, y>>
  BY FewTexts
<1>13. t \o d.insert \in Seq(Chars)
  BY <1>1, Concatenated
<1>12. Len(Kept(t, d)) <= Len(t) /\ Len(Kept(t, d)) + d.delete >= Len(t) /\ Len(Kept(t, d)) \in Nat
       /\ (d.delete <= Len(t) => Kept(t, d) = Shortened(t, d.delete))
  <2>1. Len(t) \in Nat
    OBVIOUS
  <2> HIDE DEF m
  <2> QED
    BY <1>1, <1>2, <1>3, <1>4, <2>1
<1> QED
  BY <1>1, <1>4, <1>5, <1>6, <1>10, <1>11, <1>12, <1>13

\* The edits of a key: nothing; one change; a word and the key; a word typed
\* over by a longer one; a word typed over by another of its length, and the key.
Once(d)  == (d.delete = 0 /\ d.insert # <<>>) \/ (d.delete > 0 /\ d.insert = <<>>)
Grows(d) == d.delete > 0 /\ Len(d.insert) > d.delete
Swaps(d) == d.delete > 0 /\ Len(d.insert) = d.delete
Shaped(edits) ==
  \/ edits = <<Nothing, Nothing>>
  \/ \E d \in Edits : Once(d) /\ edits \in {<<d, Nothing>>, <<Nothing, d>>}
  \/ \E w, c \in Seq(Chars) : w # <<>> /\ c # <<>> /\ edits = <<Ins(w), Ins(c)>>
  \/ \E d \in Edits : Grows(d) /\ edits = <<d, Nothing>>
  \/ \E d \in Edits, c \in Seq(Chars) :
       Swaps(d) /\ Len(c) = 1 /\ c[1] # d.insert[d.delete] /\ edits = <<d, Ins(c)>>

\* Insertions are edits.
LEMMA InsForm ==
  ASSUME NEW w \in Seq(Chars)
  PROVE  /\ Ins(w) \in Edits /\ Ins(w).delete = 0 /\ Ins(w).insert = w
         /\ Nothing \in Edits /\ Nothing.delete = 0 /\ Nothing.insert = <<>>
BY DEF Ins, Del, Edits, Nothing

\* A batch, as its two edits.
LEMMA AppliedTwo ==
  ASSUME NEW t, NEW x, NEW y
  PROVE  AppliedAll(t, <<x, y>>) = Applied(t, x) \o Applied(After(t, Applied(t, x)), y)
BY DEF AppliedAll

\* Two texts under one batch: once alike, they stay alike.
LEMMA ShapedBlocks ==
  ASSUME NEW t \in Seq(Chars), NEW u \in Seq(Chars), NEW edits, Shaped(edits)
  PROVE  Blocks(t, u, AppliedAll(t, edits), AppliedAll(u, edits))
<1>0. \A x : /\ Applied(x, Nothing) = <<>> \/ x \notin Seq(Chars)
             /\ After(x, <<>>) = x
  <2>1. Nothing \in Edits
    BY DEF Nothing, Del, Edits
  <2> QED
    BY <2>1, KeptTexts DEF After
<1>1. CASE edits = <<Nothing, Nothing>>
  <2>1. ASSUME NEW x \in Seq(Chars) PROVE AppliedAll(x, edits) = <<>>
    <3>1. AppliedAll(x, <<Nothing, Nothing>>)
            = Applied(x, Nothing) \o Applied(After(x, Applied(x, Nothing)), Nothing)
      BY AppliedTwo
    <3>2. <<>> \o <<>> = <<>>
      BY FewTexts
    <3> QED
      BY <1>0, <1>1, <3>1, <3>2
  <2> QED
    BY <2>1 DEF Blocks
<1>2. CASE \E d \in Edits : Once(d) /\ edits \in {<<d, Nothing>>, <<Nothing, d>>}
  <2>1. PICK d \in Edits : Once(d) /\ edits \in {<<d, Nothing>>, <<Nothing, d>>}
    BY <1>2
  <2> DEFINE made(x) == IF d.delete = 0 THEN x \o d.insert ELSE Kept(x, d)
  <2>2. ASSUME NEW x \in Seq(Chars) PROVE made(x) \in Seq(Chars) /\ Applied(x, d) = <<made(x)>>
    <3>1. d.delete > 0 => d.delete # 0
      OBVIOUS
    <3> QED
      BY <2>1, <3>1, KeptTexts DEF Once
  <2> HIDE DEF made
  <2>3. ASSUME NEW x \in Seq(Chars) PROVE AppliedAll(x, edits) = <<made(x)>>
    <3>0. made(x) \in Seq(Chars) /\ Applied(x, d) = <<made(x)>>
      BY <2>2
    <3>1. After(x, <<made(x)>>) = made(x)
      BY AfterFew
    <3>2. <<made(x)>> \o <<>> = <<made(x)>> /\ <<>> \o <<made(x)>> = <<made(x)>>
      BY <3>0, FewTexts
    <3>3. AppliedAll(x, <<d, Nothing>>) = Applied(x, d) \o Applied(After(x, Applied(x, d)), Nothing)
      BY AppliedTwo
    <3>4. AppliedAll(x, <<Nothing, d>>)
            = Applied(x, Nothing) \o Applied(After(x, Applied(x, Nothing)), d)
      BY AppliedTwo
    <3>5. Applied(x, Nothing) = <<>> /\ After(x, <<>>) = x /\ Applied(made(x), Nothing) = <<>>
      BY <1>0, <3>0
    <3> QED
      BY <2>1, <3>0, <3>1, <3>2, <3>3, <3>4, <3>5
  <2>4. AppliedAll(t, edits) = <<made(t)>> /\ AppliedAll(u, edits) = <<made(u)>>
        /\ made(t) \in Seq(Chars) /\ made(u) \in Seq(Chars) /\ (t = u => made(t) = made(u))
    BY <2>2, <2>3
  <2> QED
    BY <2>4 DEF Blocks
<1>3. CASE \E w, c \in Seq(Chars) : w # <<>> /\ c # <<>> /\ edits = <<Ins(w), Ins(c)>>
  <2>1. PICK w \in Seq(Chars), c \in Seq(Chars) : w # <<>> /\ c # <<>> /\ edits = <<Ins(w), Ins(c)>>
    BY <1>3
  <2>2. ASSUME NEW x \in Seq(Chars)
        PROVE  /\ AppliedAll(x, edits) = <<x \o w, (x \o w) \o c>>
               /\ x \o w \in Seq(Chars) /\ (x \o w) \o c \in Seq(Chars) /\ (x \o w) \o c # x
    <3>1. \A y \in Seq(Chars) : Applied(y, Ins(w)) = <<y \o w>> /\ Applied(y, Ins(c)) = <<y \o c>>
      <4> SUFFICES ASSUME NEW y \in Seq(Chars)
                   PROVE  Applied(y, Ins(w)) = <<y \o w>> /\ Applied(y, Ins(c)) = <<y \o c>>
        OBVIOUS
      <4>1. \A v \in {w, c} : Ins(v) \in Edits /\ Ins(v).delete = 0 /\ Ins(v).insert = v
        BY InsForm
      <4>2. /\ Ins(w) \in Edits /\ Ins(w).delete = 0 /\ Ins(w).insert = w
            /\ Ins(c) \in Edits /\ Ins(c).delete = 0 /\ Ins(c).insert = c
        BY <4>1
      <4>3. Applied(y, Ins(w)) = <<y \o w>>
        BY <2>1, <4>2, KeptTexts
      <4>4. Applied(y, Ins(c)) = <<y \o c>>
        BY <2>1, <4>2, KeptTexts
      <4> QED
        BY <4>3, <4>4
    <3>2. x \o w \in Seq(Chars) /\ Len(x \o w) = Len(x) + Len(w)
      BY Concatenated
    <3> DEFINE z == x \o w
    <3>3. After(x, <<z>>) = z /\ \A y \in Seq(Chars) : <<z>> \o <<y>> = <<z, y>>
      <4>1. z \in Seq(Chars)
        BY <3>2
      <4> HIDE DEF z
      <4> QED
        BY <4>1, AfterFew, FewTexts, Zenon
    <3>4. z \o c \in Seq(Chars) /\ Len(z \o c) = Len(z) + Len(c)
      <4> HIDE DEF z
      <4>1. z \in Seq(Chars)
        BY <3>2 DEF z
      <4> QED
        BY <4>1, Concatenated
    <3> HIDE DEF z
    <3>5. Len(z \o c) > Len(x)
      <4>1. Len(z) = Len(x) + Len(w) /\ Len(w) \in Nat /\ Len(c) \in Nat /\ Len(x) \in Nat /\ Len(c) # 0
        BY <2>1, <3>2 DEF z
      <4> QED
        BY <3>4, <4>1
    <3>6. z \o c # x
      <4>1. Len(x) \in Nat
        OBVIOUS
      <4> QED
        BY <3>5, <4>1
    <3>7. AppliedAll(x, edits) = <<z>> \o <<z \o c>>
      <4>1. AppliedAll(x, <<Ins(w), Ins(c)>>)
              = Applied(x, Ins(w)) \o Applied(After(x, Applied(x, Ins(w))), Ins(c))
        BY AppliedTwo
      <4>2. Applied(x, Ins(w)) = <<z>> /\ Applied(z, Ins(c)) = <<z \o c>>
        BY <3>1, <3>2 DEF z
      <4> QED
        BY <2>1, <3>3, <4>1, <4>2
    <3> QED
      BY <3>2, <3>3, <3>4, <3>6, <3>7 DEF z
  <2> DEFINE a1(x) == x \o w  a2(x) == (x \o w) \o c
  <2>3. /\ AppliedAll(t, edits) = <<a1(t), a2(t)>> /\ AppliedAll(u, edits) = <<a1(u), a2(u)>>
        /\ a1(t) \in Seq(Chars) /\ a1(u) \in Seq(Chars) /\ a2(t) \in Seq(Chars) /\ a2(u) \in Seq(Chars)
        /\ (t = u => a1(t) = a1(u)) /\ (a1(t) = a1(u) => a2(t) = a2(u)) /\ a2(u) # u
    BY <2>2
  <2> HIDE DEF a1, a2
  <2> QED
    BY <2>3 DEF Blocks
<1>4. CASE \E d \in Edits : Grows(d) /\ edits = <<d, Nothing>>
  <2>1. PICK d \in Edits : Grows(d) /\ edits = <<d, Nothing>>
    BY <1>4
  <2> DEFINE a1(x) == Kept(x, d)  a2(x) == a1(x) \o d.insert
  <2>2. ASSUME NEW x \in Seq(Chars)
        PROVE  /\ AppliedAll(x, edits) = <<a1(x), a2(x)>>
               /\ a1(x) \in Seq(Chars) /\ a2(x) \in Seq(Chars) /\ a2(x) # x
    <3>1. d.delete \in Nat /\ d.insert \in Seq(Chars) /\ Len(d.insert) \in Nat
      BY EditForm
    <3>2. d.insert # <<>>
      <4>1. Len(d.insert) # 0
        <5> DEFINE n == d.delete  l == Len(d.insert)
        <5>1. n \in Nat /\ l \in Nat /\ l > n
          BY <2>1, <3>1 DEF Grows
        <5> HIDE DEF n, l
        <5>2. l # 0
          BY <5>1
        <5> QED
          BY <5>2 DEF l
      <4> QED
        BY <4>1
    <3>3. /\ a1(x) \in Seq(Chars) /\ a2(x) \in Seq(Chars) /\ Len(a1(x)) + d.delete >= Len(x)
          /\ Applied(x, d) = <<a1(x), a2(x)>>
      BY <2>1, <3>2, KeptTexts DEF Grows
    <3>4. Len(a2(x)) = Len(a1(x)) + Len(d.insert)
      <4> HIDE DEF a1
      <4> QED
        BY <3>1, <3>3, Concatenated
    <3> HIDE DEF a1, a2
    <3>5. a2(x) # x
      <4> DEFINE n == d.delete  l == Len(d.insert)  k == Len(a1(x))
      <4>1. k \in Nat /\ n \in Nat /\ l \in Nat /\ l > n /\ k + n >= Len(x) /\ Len(a2(x)) = k + l /\ Len(x) \in Nat
        BY <2>1, <3>1, <3>3, <3>4 DEF Grows
      <4> HIDE DEF n, l, k
      <4>2. Len(a2(x)) > Len(x)
        BY <4>1
      <4> QED
        BY <4>1, <4>2
    <3>6. After(x, <<a1(x), a2(x)>>) = a2(x) /\ <<a1(x), a2(x)>> \o <<>> = <<a1(x), a2(x)>>
      <4>1. a1(x) \in Seq(Chars) /\ a2(x) \in Seq(Chars)
        BY <3>3
      <4> QED
        BY <4>1, AfterFew, FewTexts
    <3>7. AppliedAll(x, edits) = <<a1(x), a2(x)>>
      <4>1. AppliedAll(x, <<d, Nothing>>) = Applied(x, d) \o Applied(After(x, Applied(x, d)), Nothing)
        BY AppliedTwo
      <4>2. Applied(a2(x), Nothing) = <<>>
        BY <1>0, <3>3
      <4> QED
        BY <2>1, <3>3, <3>6, <4>1, <4>2
    <3> QED
      BY <3>3, <3>5, <3>7
  <2>3. /\ AppliedAll(t, edits) = <<a1(t), a2(t)>> /\ AppliedAll(u, edits) = <<a1(u), a2(u)>>
        /\ a1(t) \in Seq(Chars) /\ a1(u) \in Seq(Chars) /\ a2(t) \in Seq(Chars) /\ a2(u) \in Seq(Chars)
        /\ (t = u => a1(t) = a1(u)) /\ (a1(t) = a1(u) => a2(t) = a2(u)) /\ a2(u) # u
    BY <2>2
  <2> HIDE DEF a1, a2
  <2> QED
    BY <2>3 DEF Blocks
<1>5. CASE \E d \in Edits, c \in Seq(Chars) :
             Swaps(d) /\ Len(c) = 1 /\ c[1] # d.insert[d.delete] /\ edits = <<d, Ins(c)>>
  <2>1. PICK d \in Edits, c \in Seq(Chars) :
             Swaps(d) /\ Len(c) = 1 /\ c[1] # d.insert[d.delete] /\ edits = <<d, Ins(c)>>
    BY <1>5
  <2> DEFINE a1(x) == Kept(x, d)  a2(x) == a1(x) \o d.insert  a3(x) == a2(x) \o c
  <2>2. ASSUME NEW x \in Seq(Chars)
        PROVE  /\ AppliedAll(x, edits) = <<a1(x), a2(x), a3(x)>>
               /\ a1(x) \in Seq(Chars) /\ a2(x) \in Seq(Chars) /\ a3(x) \in Seq(Chars)
               /\ a3(x) # x /\ a2(x) # <<>> /\ a3(x) # <<>>
               /\ a2(x)[Len(a2(x))] = d.insert[d.delete] /\ a3(x)[Len(a3(x))] = c[1]
    <3>1. d.delete \in Nat /\ d.insert \in Seq(Chars) /\ Len(d.insert) \in Nat
      BY EditForm
    <3> DEFINE n == d.delete  w == d.insert  k == Len(a1(x))
    <3>2. n \in Nat /\ n > 0 /\ w \in Seq(Chars) /\ Len(w) = n /\ w # <<>>
      <4>1. n \in Nat /\ n > 0 /\ w \in Seq(Chars) /\ Len(w) = n
        BY <2>1, <3>1 DEF Swaps
      <4> HIDE DEF n, w
      <4> QED
        BY <4>1
    <3>3. /\ a1(x) \in Seq(Chars) /\ k + n >= Len(x) /\ k \in Nat
          /\ a2(x) \in Seq(Chars) /\ Applied(x, d) = <<a1(x), a2(x)>>
      BY <2>1, <3>2, KeptTexts DEF Swaps
    <3>4. /\ Len(a2(x)) = k + Len(w)
          /\ \A i \in 1..(k + Len(w)) : a2(x)[i] = IF i <= k THEN a1(x)[i] ELSE w[i - k]
      <4> HIDE DEF a1
      <4> QED
        BY <3>2, <3>3, Concatenated
    <3>5. /\ a3(x) \in Seq(Chars) /\ Len(a3(x)) = Len(a2(x)) + Len(c)
          /\ \A i \in 1..(Len(a2(x)) + Len(c)) :
               a3(x)[i] = IF i <= Len(a2(x)) THEN a2(x)[i] ELSE c[i - Len(a2(x))]
      <4> HIDE DEF a2
      <4> QED
        BY <3>3, Concatenated
    <3>6. Applied(a2(x), Ins(c)) = <<a3(x)>>
      <4> HIDE DEF a1, a2, a3, k, n, w
      <4>1. c # <<>> /\ Ins(c) \in Edits /\ Ins(c).delete = 0 /\ Ins(c).insert = c
        <5>1. Len(c) = 1
          BY <2>1
        <5>2. c # <<>>
          <6>1. Len(<<>>) = 0 /\ 0 # 1
            OBVIOUS
          <6> QED
            BY <5>1, <6>1, Zenon
        <5> QED
          BY <5>2, InsForm
      <4>2. a2(x) \in Seq(Chars)
        BY <3>3
      <4>3. Applied(a2(x), Ins(c)) = <<a2(x) \o c>>
        BY <4>1, <4>2, KeptTexts
      <4> QED
        BY <4>3 DEF a3
    <3> HIDE DEF a1, a2, a3, n, w, k
    <3>7. Len(a3(x)) = k + n + 1 /\ Len(a2(x)) = k + n /\ Len(x) \in Nat
      BY <2>1, <3>2, <3>3, <3>4, <3>5
    <3>8. a3(x) # x /\ a2(x) # <<>> /\ a3(x) # <<>>
      BY <3>2, <3>3, <3>7
    <3>9. a2(x)[k + n] = w[n]
      <4> SUFFICES ASSUME NEW p, p = k + n PROVE a2(x)[p] = w[n]
        OBVIOUS
      <4>1. p \in 1..(k + Len(w)) /\ ~(p <= k) /\ p - k = n
        BY <3>2, <3>3
      <4> QED
        BY <3>4, <4>1
    <3>10. a3(x)[k + n + 1] = c[1]
      <4> SUFFICES ASSUME NEW p, p = k + n + 1 PROVE a3(x)[p] = c[1]
        OBVIOUS
      <4>1. p \in 1..(Len(a2(x)) + Len(c)) /\ ~(p <= Len(a2(x))) /\ p - Len(a2(x)) = 1
        BY <2>1, <3>2, <3>3, <3>7
      <4> QED
        BY <3>5, <4>1
    <3>11. /\ After(x, <<a1(x), a2(x)>>) = a2(x)
           /\ <<a1(x), a2(x)>> \o <<a3(x)>> = <<a1(x), a2(x), a3(x)>>
      <4>1. a1(x) \in Seq(Chars) /\ a2(x) \in Seq(Chars) /\ a3(x) \in Seq(Chars)
        BY <3>3, <3>5
      <4> QED
        BY <4>1, AfterFew, FewTexts
    <3>12. AppliedAll(x, edits) = <<a1(x), a2(x), a3(x)>>
      <4>1. AppliedAll(x, <<d, Ins(c)>>) = Applied(x, d) \o Applied(After(x, Applied(x, d)), Ins(c))
        BY AppliedTwo
      <4> QED
        BY <2>1, <3>3, <3>6, <3>11, <4>1
    <3> QED
      BY <3>3, <3>5, <3>7, <3>8, <3>9, <3>10, <3>12 DEF n, w
  <2>3. /\ AppliedAll(t, edits) = <<a1(t), a2(t), a3(t)>>
        /\ AppliedAll(u, edits) = <<a1(u), a2(u), a3(u)>>
        /\ a1(t) \in Seq(Chars) /\ a1(u) \in Seq(Chars) /\ a2(t) \in Seq(Chars) /\ a2(u) \in Seq(Chars)
        /\ a3(t) \in Seq(Chars) /\ a3(u) \in Seq(Chars)
        /\ (t = u => a1(t) = a1(u)) /\ (a1(t) = a1(u) => a2(t) = a2(u))
        /\ (a2(t) = a2(u) => a3(t) = a3(u)) /\ a3(u) # u /\ a3(u) # a2(t)
    <3>1. a2(t)[Len(a2(t))] = d.insert[d.delete] /\ a3(u)[Len(a3(u))] = c[1]
      BY <2>2
    <3>2. a3(u) # a2(t)
      BY <2>1, <3>1
    <3> QED
      BY <2>2, <3>2
  <2> HIDE DEF a1, a2, a3
  <2> QED
    BY <2>3 DEF Blocks
<1> QED
  BY <1>1, <1>2, <1>3, <1>4, <1>5 DEF Shaped

-----------------------------------------------------------------------------
(* What the hint says of the text after a key.                             *)

\* A character behind a text.
LEMMA AddedChar ==
  ASSUME NEW t \in Seq(Chars), NEW c \in Chars
  PROVE  /\ t \o <<c>> \in Seq(Chars) /\ Len(t \o <<c>>) = Len(t) + 1 /\ Len(t) \in Nat
         /\ (t \o <<c>>)[Len(t) + 1] = c
         /\ \A i \in 1..Len(t) : (t \o <<c>>)[i] = t[i]
<1> DEFINE C == Chars
<1>1. t \in Seq(C) /\ c \in C
  OBVIOUS
<1> HIDE DEF C
<1>2. /\ t \o <<c>> \in Seq(C) /\ Len(t \o <<c>>) = Len(t) + 1 /\ Len(t) \in Nat
      /\ (t \o <<c>>)[Len(t) + 1] = c
      /\ \A i \in 1..Len(t) : (t \o <<c>>)[i] = t[i]
  BY <1>1
<1> QED
  BY <1>2 DEF C

\* A full stop more.
LEMMA ToldStop ==
  ASSUME NEW t \in Seq(Chars), NEW c \in Chars, Stop(c), NEW n \in Nat,
         n = 0 \/ StopsEnd(t, Len(t), n)
  PROVE  ToldBy(Awaiting(n), t \o <<c>>)
<1> DEFINE u == t \o <<c>>
<1>1. /\ Len(u) = Len(t) + 1 /\ Len(t) \in Nat /\ u[Len(t) + 1] = c
      /\ \A i \in 1..Len(t) : u[i] = t[i]
  BY AddedChar
<1> HIDE DEF u
<1>2. StopsEnd(u, Len(u), n + 1)
  <2>1. n + 1 <= Len(u)
    BY <1>1 DEF StopsEnd
  <2>2. ASSUME NEW i \in (Len(u) - (n + 1) + 1)..Len(u) PROVE Stop(u[i])
    <3>1. CASE i = Len(u)
      BY <1>1, <3>1
    <3>2. CASE i # Len(u)
      <4>1. i \in (Len(t) - n + 1)..Len(t) /\ n # 0 /\ n <= Len(t)
        BY <1>1, <2>1, <2>2, <3>2
      <4>2. i \in 1..Len(t)
        BY <1>1, <4>1
      <4>3. Stop(t[i])
        BY <4>1 DEF StopsEnd
      <4> QED
        BY <1>1, <4>2, <4>3
    <3> QED
      BY <3>1, <3>2
  <2> QED
    BY <2>1, <2>2 DEF StopsEnd
<1>3. Awaits(Awaiting(n)) /\ ~Starts(Awaiting(n)) /\ Awaiting(n).tail = n
  BY HintForms
<1> QED
  BY <1>2, <1>3 DEF ToldBy, u

\* A space more.
LEMMA ToldSpace ==
  ASSUME NEW t \in Seq(Chars), NEW c \in Chars, White(c), NEW h \in HintSet, ToldBy(h, t)
  PROVE  /\ Awaits(h) => ToldBy(Start(1, h.tail), t \o <<c>>)
         /\ h.spaces > 0 => ToldBy(Start(h.spaces + 1, h.tail), t \o <<c>>)
         /\ ~Awaits(h) /\ h.spaces = 0 => ToldBy(h, t \o <<c>>)
<1> DEFINE u == t \o <<c>>  s == h.spaces  k == h.tail
<1>1. /\ Len(u) = Len(t) + 1 /\ Len(t) \in Nat /\ u[Len(t) + 1] = c
      /\ \A i \in 1..Len(t) : u[i] = t[i]
  BY AddedChar
<1>2. s \in Nat /\ k \in Nat /\ (~Starts(h) => s = 0)
  BY HintFields
<1>3. /\ Awaits(h) => StopsEnd(t, Len(t), k + 1)
      /\ Starts(h) /\ s > 0 => /\ s <= Len(t) /\ WhiteFrom(t, Len(t) - s + 1)
                               /\ StopsEnd(t, Len(t) - s, k + 1)
      /\ Starts(h) => Begins(t)
  BY DEF ToldBy
<1> HIDE DEF u, s, k
<1>4. ASSUME NEW n \in 0..Len(t), WhiteFrom(t, n + 1)
      PROVE  WhiteFrom(u, n + 1)
  <2>1. ASSUME NEW i \in (n + 1)..Len(u) PROVE White(u[i])
    <3>1. CASE i = Len(u)
      BY <1>1, <3>1
    <3>2. CASE i # Len(u)
      <4>1. i \in (n + 1)..Len(t) /\ i \in 1..Len(t)
        BY <1>1, <2>1, <3>2
      <4> QED
        BY <1>1, <1>4, <4>1 DEF WhiteFrom
    <3> QED
      BY <3>1, <3>2
  <2> QED
    BY <2>1 DEF WhiteFrom
<1>5. ASSUME NEW n \in 0..Len(t), NEW m \in Nat, StopsEnd(t, n, m)
      PROVE  StopsEnd(u, n, m) /\ (m > 0 => n > 0 /\ Stop(u[n]))
  <2>1. ASSUME NEW i \in (n - m + 1)..n PROVE Stop(u[i])
    <3>1. i \in 1..Len(t)
      BY <1>1, <1>5, <2>1 DEF StopsEnd
    <3> QED
      BY <1>1, <1>5, <3>1, <2>1 DEF StopsEnd
  <2>2. m > 0 => n \in (n - m + 1)..n /\ n > 0
    BY <1>1, <1>5 DEF StopsEnd
  <2> QED
    BY <1>5, <2>1, <2>2 DEF StopsEnd
<1>6. ASSUME NEW n \in 0..Len(t), WhiteFrom(t, n + 1), StopsEnd(t, n, k + 1)
      PROVE  ToldBy(Start(Len(t) - n + 1, k), u)
  <2> DEFINE r == Len(t) - n + 1
  <2>1. r \in Nat /\ r > 0 /\ r <= Len(u) /\ Len(u) - r = n /\ Len(u) - r + 1 = n + 1 /\ k + 1 > 0
        /\ k + 1 \in Nat /\ n <= Len(u) - 1 /\ n \in Nat
    BY <1>1, <1>2
  <2>2. WhiteFrom(u, n + 1) /\ StopsEnd(u, n, k + 1) /\ n > 0 /\ Stop(u[n])
    BY <1>4, <1>5, <1>6, <2>1
  <2>3. n \in 1..(Len(u) - 1)
    BY <2>1, <2>2, <1>1
  <2>4. Begins(u)
    BY <2>2, <2>3 DEF Begins
  <2> HIDE DEF r
  <2>5. /\ ~Awaits(Start(r, k)) /\ Starts(Start(r, k))
        /\ Start(r, k).tail = k /\ Start(r, k).spaces = r
    BY <1>2, <2>1, HintForms
  <2>6. ToldBy(Start(r, k), u)
    BY <2>1, <2>2, <2>4, <2>5 DEF ToldBy
  <2> QED
    BY <2>6 DEF r
<1>7. ASSUME Awaits(h) PROVE ToldBy(Start(1, k), u)
  <2>1. Len(t) \in 0..Len(t) /\ Len(t) - Len(t) + 1 = 1 /\ WhiteFrom(t, Len(t) + 1)
    BY <1>1 DEF WhiteFrom
  <2>2. ToldBy(Start(Len(t) - Len(t) + 1, k), u)
    BY <1>3, <1>6, <1>7, <2>1
  <2> QED
    BY <2>1, <2>2
<1>8. ASSUME s > 0 PROVE ToldBy(Start(s + 1, k), u)
  <2>0. Starts(h)
    BY <1>2, <1>8
  <2>1. s <= Len(t) /\ WhiteFrom(t, Len(t) - s + 1) /\ StopsEnd(t, Len(t) - s, k + 1)
    BY <1>3, <1>8, <2>0
  <2>2. Len(t) - s \in 0..Len(t) /\ Len(t) - (Len(t) - s) + 1 = s + 1
    BY <1>1, <1>2, <2>1
  <2>3. ToldBy(Start(Len(t) - (Len(t) - s) + 1, k), u)
    BY <1>6, <2>1, <2>2
  <2> QED
    BY <2>2, <2>3
<1>9. ASSUME ~Awaits(h), s = 0 PROVE ToldBy(h, u)
  <2>1. ASSUME Starts(h) PROVE Begins(u)
    <3>1. WhiteFrom(t, 1) => WhiteFrom(u, 1)
      <4>1. 0 \in 0..Len(t) /\ 0 + 1 = 1
        BY <1>1
      <4> QED
        BY <1>4, <4>1
    <3>2. ASSUME NEW i \in 1..Len(t), Break(t[i]), WhiteFrom(t, i)
          PROVE  Break(u[i]) /\ WhiteFrom(u, i) /\ i \in 1..Len(u)
      <4>1. i - 1 \in 0..Len(t) /\ (i - 1) + 1 = i /\ i \in 1..Len(u)
        BY <1>1
      <4> QED
        BY <1>1, <1>4, <3>2, <4>1
    <3>3. ASSUME NEW i \in 1..(Len(t) - 1), Stop(t[i]), WhiteFrom(t, i + 1)
          PROVE  Stop(u[i]) /\ WhiteFrom(u, i + 1) /\ i \in 1..(Len(u) - 1)
      <4>1. i \in 0..Len(t) /\ i \in 1..Len(t) /\ i \in 1..(Len(u) - 1)
        BY <1>1
      <4> QED
        BY <1>1, <1>4, <3>3, <4>1
    <3>4. Begins(t)
      BY <1>3, <2>1
    <3> QED
      BY <3>1, <3>2, <3>3, <3>4 DEF Begins
  <2>2. ~(s > 0)
    BY <1>9
  <2> QED
    BY <1>9, <2>1, <2>2 DEF ToldBy, s
<1> QED
  BY <1>7, <1>8, <1>9 DEF s, k, u

\* A character less.
LEMMA ToldErased ==
  ASSUME NEW t \in Seq(Chars), NEW u \in Seq(Chars), NEW h \in HintSet, ToldBy(h, t),
         Len(t) > 0 => Len(u) = Len(t) - 1 /\ \A i \in 1..Len(u) : u[i] = t[i]
  PROVE  /\ h.spaces > 1 => ToldBy(Start(h.spaces - 1, h.tail), u)
         /\ h.spaces = 1 => ToldBy(Awaiting(h.tail), u)
         /\ Awaits(h) /\ h.tail > 0 => ToldBy(Awaiting(h.tail - 1), u)
<1> DEFINE s == h.spaces  k == h.tail
<1>2. s \in Nat /\ k \in Nat /\ (~Starts(h) => s = 0) /\ Len(t) \in Nat /\ Len(u) \in Nat
  BY HintFields
<1>3. /\ Awaits(h) => StopsEnd(t, Len(t), k + 1)
      /\ Starts(h) /\ s > 0 => /\ s <= Len(t) /\ WhiteFrom(t, Len(t) - s + 1)
                               /\ StopsEnd(t, Len(t) - s, k + 1)
      /\ Starts(h) => Begins(t)
  BY DEF ToldBy
<1> HIDE DEF s, k
<1>5. ASSUME NEW n \in Nat, n < Len(t), NEW m \in Nat, StopsEnd(t, n, m)
      PROVE  StopsEnd(u, n, m) /\ (m > 0 => n > 0 /\ Stop(u[n]))
  <2>0. Len(u) = Len(t) - 1 /\ \A i \in 1..Len(u) : u[i] = t[i]
    BY <1>2, <1>5
  <2>1. ASSUME NEW i \in (n - m + 1)..n PROVE Stop(u[i])
    <3>1. i \in 1..Len(u)
      BY <1>2, <1>5, <2>0, <2>1 DEF StopsEnd
    <3> QED
      BY <2>0, <1>5, <3>1, <2>1 DEF StopsEnd
  <2>2. m > 0 => n \in (n - m + 1)..n /\ n > 0
    BY <1>2, <1>5 DEF StopsEnd
  <2> QED
    BY <1>5, <2>1, <2>2 DEF StopsEnd
<1>6. ASSUME s > 1 PROVE ToldBy(Start(s - 1, k), u)
  <2>0. Starts(h) /\ s > 0
    BY <1>2, <1>6
  <2>1. s <= Len(t) /\ WhiteFrom(t, Len(t) - s + 1) /\ StopsEnd(t, Len(t) - s, k + 1)
    BY <1>3, <2>0
  <2> DEFINE n == Len(t) - s  r == s - 1
  <2>2. /\ n \in Nat /\ n < Len(t) /\ r \in Nat /\ r > 0 /\ k + 1 \in Nat /\ k + 1 > 0
        /\ Len(u) = Len(t) - 1 /\ Len(u) - r = n /\ Len(u) - r + 1 = n + 1 /\ r <= Len(u)
        /\ n <= Len(u) - 1 /\ \A i \in 1..Len(u) : u[i] = t[i]
    BY <1>2, <1>6, <2>1, SMTT(30)
  <2>3. StopsEnd(u, n, k + 1) /\ n > 0 /\ Stop(u[n])
    <3>1. StopsEnd(t, n, k + 1)
      BY <2>1
    <3> HIDE DEF n, r
    <3> QED
      BY <1>5, <2>2, <3>1
  <2>4. WhiteFrom(u, n + 1)
    <3>1. WhiteFrom(t, n + 1)
      BY <2>1
    <3>2. \A i \in (n + 1)..Len(u) : i \in (n + 1)..Len(t) /\ i \in 1..Len(u)
      <4> HIDE DEF n, r
      <4> QED
        BY <1>2, <2>2
    <3> QED
      BY <2>2, <3>1, <3>2 DEF WhiteFrom
  <2> HIDE DEF n, r
  <2>5. n \in 1..(Len(u) - 1)
    BY <1>2, <2>2, <2>3
  <2>6. Begins(u)
    BY <2>3, <2>4, <2>5 DEF Begins
  <2>7. /\ ~Awaits(Start(r, k)) /\ Starts(Start(r, k))
        /\ Start(r, k).tail = k /\ Start(r, k).spaces = r
    BY <1>2, <2>2, HintForms
  <2>8. ToldBy(Start(r, k), u)
    BY <2>2, <2>3, <2>4, <2>6, <2>7 DEF ToldBy
  <2> QED
    BY <2>8 DEF r
<1>7. ASSUME s = 1 PROVE ToldBy(Awaiting(k), u)
  <2>0. Starts(h) /\ s > 0
    BY <1>2, <1>7
  <2>1. s <= Len(t) /\ StopsEnd(t, Len(t) - s, k + 1)
    BY <1>3, <2>0
  <2>2. Len(t) - s \in Nat /\ Len(t) - s < Len(t) /\ Len(u) = Len(t) - s /\ k + 1 \in Nat
    BY <1>2, <1>7, <2>1
  <2>3. StopsEnd(u, Len(u), k + 1)
    BY <1>5, <2>1, <2>2
  <2>4. Awaits(Awaiting(k)) /\ ~Starts(Awaiting(k)) /\ Awaiting(k).tail = k
    BY <1>2, HintForms
  <2> QED
    BY <2>3, <2>4 DEF ToldBy
<1>8. ASSUME Awaits(h), k > 0 PROVE ToldBy(Awaiting(k - 1), u)
  <2>1. StopsEnd(t, Len(t), k + 1)
    BY <1>3, <1>8
  <2> DEFINE m == k - 1
  <2>2. m \in Nat /\ m + 1 = k /\ k + 1 <= Len(t) /\ Len(u) = Len(t) - 1 /\ k <= Len(u)
        /\ \A i \in 1..Len(u) : u[i] = t[i]
    BY <1>2, <1>8, <2>1 DEF StopsEnd
  <2> HIDE DEF m
  <2>3. StopsEnd(u, Len(u), m + 1)
    <3>1. ASSUME NEW i \in (Len(u) - k + 1)..Len(u) PROVE Stop(u[i])
      <4>1. i \in 1..Len(u) /\ i \in (Len(t) - (k + 1) + 1)..Len(t)
        BY <1>2, <2>2, <3>1
      <4> QED
        BY <2>1, <2>2, <4>1 DEF StopsEnd
    <3> QED
      BY <2>2, <3>1 DEF StopsEnd
  <2>4. Awaits(Awaiting(m)) /\ ~Starts(Awaiting(m)) /\ Awaiting(m).tail = m
    BY <2>2, HintForms
  <2>5. ToldBy(Awaiting(m), u)
    BY <2>3, <2>4 DEF ToldBy
  <2> QED
    BY <2>5 DEF m
<1> QED
  BY <1>6, <1>7, <1>8 DEF s, k

\* What a sentence start or an awaited one leaves for a Tab.
Ready(t) == Begins(t) \/ StopsEnd(t, Len(t), 1)

\* A hint means that a sentence begins here, or would after whitespace.
LEMMA ToldReady ==
  ASSUME NEW t \in Seq(Chars), NEW h \in HintSet, ToldBy(h, t), h # NoHint
  PROVE  Ready(t)
<1>1. h.tail \in Nat /\ (Awaits(h) \/ Starts(h)) /\ Len(t) \in Nat
  BY HintFields
<1>2. ASSUME Awaits(h) PROVE StopsEnd(t, Len(t), 1)
  <2> DEFINE k == h.tail
  <2>1. StopsEnd(t, Len(t), k + 1) /\ k \in Nat
    BY <1>1, <1>2 DEF ToldBy
  <2> HIDE DEF k
  <2>2. Len(t) - 1 + 1 \in (Len(t) - (k + 1) + 1)..Len(t) /\ 1 <= Len(t)
        /\ \A i \in (Len(t) - 1 + 1)..Len(t) : i = Len(t) - 1 + 1
    BY <1>1, <2>1 DEF StopsEnd
  <2> QED
    BY <2>1, <2>2 DEF StopsEnd
<1> QED
  BY <1>1, <1>2 DEF ToldBy, Ready

-----------------------------------------------------------------------------
(* What a key does.                                                        *)

\* Letters are characters.
LEMMA LettersText ==
  ASSUME NEW n \in Nat
  PROVE  /\ Letters(n) \in Seq(Chars) /\ Len(Letters(n)) = n
         /\ \A i \in 1..n : Letters(n)[i] = "x"
<1> DEFINE w == Letters(n)
<1>1. "x" \in Chars /\ w = [i \in 1..n |-> "x"]
  BY DEF Chars, Letters
<1>2. w \in [1..n -> Chars] /\ \A i \in 1..n : w[i] = "x"
  BY <1>1
<1> HIDE DEF w
<1>3. w \in Seq(Chars) /\ Len(w) = n
  BY <1>2
<1> QED
  BY <1>2, <1>3 DEF w

WordTyped == /\ wordLen \in 0..MaxLetters /\ composing \in BOOLEAN /\ (composing => wordLen > 0)
             /\ hint \in HintSet

\* The edits of the word before a delimiter.
LEMMA WordEdits ==
  ASSUME WordTyped, NEW w \in {Preedit} \cup Rewrites
  PROVE  /\ w \in Edits /\ (wordLen = 0 => w = Nothing)
         /\ \A c \in Chars : c # "x" => Shaped(<<w, Ins(<<c>>)>>)
<1> DEFINE n == wordLen  v == Letters(n)
<1>0. n \in Nat /\ (composing => n > 0) /\ (n > 0 => n # 0)
  <2>1. n \in 0..MaxLetters /\ MaxLetters \in Nat
    BY CapsAssumption DEF WordTyped
  <2> HIDE DEF n
  <2>2. n \in Nat /\ (n > 0 => n # 0)
    BY <2>1
  <2> QED
    BY <2>2 DEF WordTyped, n
<1>1. v \in Seq(Chars) /\ Len(v) = n /\ \A i \in 1..n : v[i] = "x"
  <2> HIDE DEF n
  <2> QED
    BY <1>0, LettersText
<1>2. \A c \in Chars : <<c>> \in Seq(Chars) /\ <<c>> # <<>> /\ Len(<<c>>) = 1 /\ <<c>>[1] = c
  OBVIOUS
<1>3. CASE w = Nothing
  <2>1. ASSUME NEW c \in Chars PROVE Shaped(<<w, Ins(<<c>>)>>)
    <3>1. Ins(<<c>>) \in Edits /\ Ins(<<c>>).delete = 0 /\ Ins(<<c>>).insert = <<c>>
      BY <1>2, InsForm
    <3>2. Once(Ins(<<c>>))
      BY <1>2, <3>1 DEF Once
    <3> QED
      BY <1>3, <3>1, <3>2 DEF Shaped
  <2>2. Nothing \in Edits
    BY DEF Nothing, Del, Edits
  <2> QED
    BY <1>3, <2>1, <2>2
<1>4. CASE composing /\ w = Ins(v)
  <2>1. v # <<>>
    <3>1. Len(v) # 0
      BY <1>0, <1>1, <1>4
    <3> HIDE DEF v
    <3>2. Len(<<>>) = 0
      OBVIOUS
    <3> QED
      BY <3>1, <3>2, Zenon
  <2>2. w \in Edits /\ n # 0
    <3> HIDE DEF v
    <3> QED
      BY <1>0, <1>1, <1>4, InsForm
  <2> HIDE DEF v
  <2>3. ASSUME NEW c \in Chars PROVE Shaped(<<w, Ins(<<c>>)>>)
    BY <1>1, <1>2, <1>4, <2>1 DEF Shaped
  <2> QED
    BY <2>2, <2>3
<1>5. CASE n > 0 /\ w = Del(n, v)
  <2>1. w \in Edits /\ w.delete = n /\ w.insert = v
    <3> HIDE DEF v, n
    <3> QED
      BY <1>0, <1>1, <1>5 DEF Del, Edits
  <2>2. Swaps(w)
    <3> HIDE DEF v, n
    <3> QED
      BY <1>1, <1>5, <2>1 DEF Swaps
  <2>3. w.insert[w.delete] = "x"
    <3>1. n \in 1..n
      <4> HIDE DEF n
      <4> QED
        BY <1>0, <1>5
    <3> HIDE DEF v, n
    <3> QED
      BY <1>1, <2>1, <3>1
  <2>4. ASSUME NEW c \in Chars, c # "x" PROVE Shaped(<<w, Ins(<<c>>)>>)
    <3> DEFINE d == <<c>>
    <3>1. d \in Seq(Chars) /\ Len(d) = 1 /\ d[1] # w.insert[w.delete]
      BY <1>2, <2>3, <2>4
    <3> HIDE DEF d
    <3>2. Shaped(<<w, Ins(d)>>)
      BY <2>1, <2>2, <3>1, Zenon DEF Shaped
    <3> QED
      BY <3>2 DEF d
  <2>5. n # 0
    BY <1>0, <1>5
  <2> QED
    BY <2>1, <2>4, <2>5
<1>6. w = Nothing \/ (composing /\ w = Ins(v)) \/ (n > 0 /\ w = Del(n, v))
  BY DEF Preedit, Rewrites
<1> QED
  BY <1>3, <1>4, <1>5, <1>6

\* The hint after each key, and the edits it makes of the text.
HintAfterStop  == IF wordLen = 0 /\ Awaits(hint) THEN Awaiting(hint.tail + 1) ELSE Awaiting(0)
HintAfterSpace == IF wordLen > 0 THEN NoHint
                  ELSE IF Awaits(hint) THEN Start(1, hint.tail)
                  ELSE IF hint.spaces > 0 THEN Start(hint.spaces + 1, hint.tail)
                  ELSE hint
HintAfterTab   == IF wordLen > 0 \/ hint = NoHint THEN NoHint ELSE Start(0, 0)
HintErased     == IF wordLen > 0 THEN NoHint
                  ELSE IF Starts(hint) /\ hint.spaces > 1 THEN Start(hint.spaces - 1, hint.tail)
                  ELSE IF Starts(hint) /\ hint.spaces = 1 THEN Awaiting(hint.tail)
                  ELSE IF Awaits(hint) /\ hint.tail > 0 THEN Awaiting(hint.tail - 1)
                  ELSE NoHint

\* A key by what it does: types a letter, adds a delimiter, breaks or tabs,
\* takes a preedit letter, or one of the text.
TypesOn(deed) ==
  /\ deed.wordLen = wordLen + 1 /\ deed.wordLen <= MaxLetters
  /\ deed.composing \in BOOLEAN
  /\ deed.hint = IF Awaits(hint) THEN NoHint ELSE hint
  /\ deed.composing => (wordLen = 0 \/ composing) /\ deed.edits = <<Nothing, Nothing>>
Ends(deed, c, h) ==
  /\ deed.wordLen = 0 /\ deed.composing = FALSE /\ deed.hint = h
  /\ \E w \in {Preedit} \cup Rewrites : deed.edits = <<w, Ins(c)>>
Takes(deed, e, h) ==
  /\ deed.wordLen = (IF wordLen > 0 THEN wordLen - 1 ELSE 0)
  /\ deed.composing = (composing /\ wordLen > 1)
  /\ deed.edits = <<Nothing, e>> /\ deed.hint = h

\* What each key does (handle_key).
LEMMA DeedsByKey ==
  ASSUME WordTyped, NEW k \in Strokes, NEW deed \in Deeds(k)
  PROVE  /\ k = "x" => TypesOn(deed) /\ deed.edits \in Edits \X Edits /\ Shaped(deed.edits)
         /\ k = "." => Ends(deed, <<".">>, HintAfterStop)
         /\ k = "s" => Ends(deed, <<"s">>, HintAfterSpace)
         /\ k = "return" => Ends(deed, <<>>, Start(0, 0))
         /\ k = "tab" => Ends(deed, <<>>, HintAfterTab)
         /\ k = "backspace" /\ composing => Takes(deed, Nothing, hint)
         /\ k = "backspace" /\ ~composing => Takes(deed, Del(1, <<>>), HintErased)
<1> DEFINE n == wordLen  m == n + 1  v == Letters(m)
<1>0. n \in Nat /\ n <= MaxLetters /\ MaxLetters \in Nat /\ m \in Nat /\ m > 0 /\ m > n
  <2>1. n \in 0..MaxLetters /\ MaxLetters \in Nat
    BY CapsAssumption DEF WordTyped
  <2> HIDE DEF n
  <2> QED
    BY <2>1
<1>1. v \in Seq(Chars) /\ Len(v) = m
  <2> HIDE DEF m
  <2> QED
    BY <1>0, LettersText
<1>2. ASSUME k = "x"
      PROVE  /\ n < MaxLetters
             /\ \/ (n = 0 \/ composing) /\ deed = Letter(Nothing, TRUE)
                \/ ~composing /\ deed \in {Letter(Ins(<<"x">>), FALSE), Letter(Del(n, v), FALSE)}
  BY <1>2 DEF Deeds
<1>3. ASSUME k = "x" PROVE TypesOn(deed) /\ deed.edits \in Edits \X Edits /\ Shaped(deed.edits)
  <2>1. \A e, p : /\ Letter(e, p).edits = <<e, Nothing>> /\ Letter(e, p).wordLen = wordLen + 1
                  /\ Letter(e, p).composing = p
                  /\ Letter(e, p).hint = IF Awaits(hint) THEN NoHint ELSE hint
    BY DEF Letter, Awaits
  <2>2. wordLen + 1 <= MaxLetters
    <3>1. n < MaxLetters
      BY <1>2, <1>3
    <3>2. n + 1 <= MaxLetters
      <4> HIDE DEF n
      <4> QED
        BY <1>0, <3>1
    <3> QED
      BY <3>2
  <2>3. Nothing \in Edits /\ Nothing.delete = 0 /\ Nothing.insert = <<>>
    BY DEF Nothing, Del, Edits
  <2>4. CASE (n = 0 \/ composing) /\ deed = Letter(Nothing, TRUE)
    <3>1. deed.edits = <<Nothing, Nothing>> /\ deed.composing = TRUE
      BY <2>1, <2>4
    <3>2. deed.wordLen = wordLen + 1 /\ deed.hint = IF Awaits(hint) THEN NoHint ELSE hint
      BY <2>1, <2>4
    <3>3. TypesOn(deed)
      BY <2>2, <2>4, <3>1, <3>2, Zenon DEF TypesOn
    <3>4. Shaped(deed.edits)
      BY <3>1, Zenon DEF Shaped
    <3> QED
      BY <2>3, <3>1, <3>3, <3>4
  <2>5. ASSUME NEW e \in {Ins(<<"x">>), Del(n, v)}, deed = Letter(e, FALSE)
        PROVE  TypesOn(deed) /\ deed.edits \in Edits \X Edits /\ Shaped(deed.edits)
    <3>1. deed.edits = <<e, Nothing>> /\ deed.composing = FALSE /\ deed.wordLen = wordLen + 1
          /\ deed.hint = IF Awaits(hint) THEN NoHint ELSE hint
      BY <2>1, <2>5
    <3>2. e \in Edits /\ (Once(e) \/ Grows(e))
      <4>1. CASE e = Ins(<<"x">>)
        <5>1. <<"x">> \in Seq(Chars) /\ <<"x">> # <<>>
          BY DEF Chars
        <5>2. e \in Edits /\ e.delete = 0 /\ e.insert = <<"x">>
          BY <4>1, <5>1, InsForm
        <5> QED
          BY <5>1, <5>2 DEF Once
      <4>2. CASE e = Del(n, v)
        <5> HIDE DEF n, v, m
        <5>1. e \in Edits /\ e.delete = n /\ e.insert = v
          BY <1>0, <1>1, <4>2 DEF Del, Edits
        <5>2. v # <<>>
          <6>1. Len(v) # 0 /\ Len(<<>>) = 0
            BY <1>0, <1>1
          <6> QED
            BY <6>1, Zenon
        <5>3. n = 0 \/ n > 0
          BY <1>0
        <5> QED
          BY <1>0, <1>1, <5>1, <5>2, <5>3 DEF Once, Grows
      <4> QED
        BY <4>1, <4>2
    <3>3. TypesOn(deed)
      <4>1. FALSE \in BOOLEAN /\ ~deed.composing
        BY <3>1
      <4> QED
        BY <2>2, <3>1, <4>1, Zenon DEF TypesOn
    <3>4. Shaped(deed.edits)
      <4>1. <<e, Nothing>> \in {<<e, Nothing>>, <<Nothing, e>>}
        OBVIOUS
      <4> QED
        BY <3>1, <3>2, <4>1, Zenon DEF Shaped
    <3> QED
      BY <2>3, <3>1, <3>2, <3>3, <3>4
  <2> QED
    BY <1>2, <1>3, <2>4, <2>5
<1>4. \A c, h : \A d \in Delimits(c, h) : Ends(d, c, h)
  BY DEF Delimits, Ends
<1>5. ASSUME k = "." PROVE Ends(deed, <<".">>, HintAfterStop)
  <2>1. deed \in Delimits(<<".">>, HintAfterStop)
    BY <1>5 DEF Deeds, HintAfterStop, Awaits
  <2> QED
    BY <1>4, <2>1
<1>6. ASSUME k = "s" PROVE Ends(deed, <<"s">>, HintAfterSpace)
  <2>1. deed \in Delimits(<<"s">>, HintAfterSpace)
    BY <1>6 DEF Deeds, HintAfterSpace, Awaits
  <2> QED
    BY <1>4, <2>1
<1>7. ASSUME k = "return" PROVE Ends(deed, <<>>, Start(0, 0))
  <2>1. deed \in Delimits(<<>>, Start(0, 0))
    BY <1>7 DEF Deeds
  <2> QED
    BY <1>4, <2>1
<1>8. ASSUME k = "tab" PROVE Ends(deed, <<>>, HintAfterTab)
  <2>1. deed \in Delimits(<<>>, HintAfterTab)
    BY <1>8 DEF Deeds, HintAfterTab
  <2> QED
    BY <1>4, <2>1
<1>9. \A e, h : Takes(Erased(e, h), e, h)
  BY DEF Takes, Erased
<1>10. ASSUME k = "backspace", composing PROVE Takes(deed, Nothing, hint)
  <2>1. deed = Erased(Nothing, hint)
    BY <1>10 DEF Deeds
  <2> QED
    BY <1>9, <2>1
<1>11. ASSUME k = "backspace", ~composing PROVE Takes(deed, Del(1, <<>>), HintErased)
  <2>1. deed = Erased(Del(1, <<>>), HintErased)
    BY <1>11 DEF Deeds, HintErased, Starts, Awaits
  <2> QED
    BY <1>9, <2>1
<1> QED
  BY <1>3, <1>5, <1>6, <1>7, <1>8, <1>10, <1>11

\* The deeds, by their types.
LEMMA DeedTyped ==
  ASSUME WordTyped, NEW k \in Strokes, NEW deed \in Deeds(k)
  PROVE  /\ deed.edits \in Edits \X Edits
         /\ deed.wordLen \in 0..MaxLetters /\ deed.composing \in BOOLEAN
         /\ (deed.composing => deed.wordLen > 0) /\ deed.hint \in HintSet
         /\ k \notin {"return", "tab"} => Shaped(deed.edits)
<1> DEFINE n == wordLen
<1>0. /\ n \in Nat /\ n <= MaxLetters /\ MaxLetters \in Nat /\ n + 1 \in Nat /\ n + 1 > 0
      /\ 0 \in 0..MaxLetters /\ (n > 0 => n - 1 \in 0..MaxLetters) /\ (n > 1 => n > 0 /\ n - 1 > 0)
      /\ (n + 1 <= MaxLetters => n + 1 \in 0..MaxLetters)
  <2>1. n \in 0..MaxLetters /\ MaxLetters \in Nat
    BY CapsAssumption DEF WordTyped
  <2> HIDE DEF n
  <2> QED
    BY <2>1
<1>1. NoHint \in HintSet /\ \A s, t \in Nat : Awaiting(t) \in HintSet /\ Start(s, t) \in HintSet
  BY HintForms
<1>2. /\ hint.spaces \in Nat /\ hint.tail \in Nat /\ hint \in HintSet
      /\ 0 \in Nat /\ 1 \in Nat /\ hint.tail + 1 \in Nat /\ hint.spaces + 1 \in Nat
      /\ (hint.spaces > 1 => hint.spaces - 1 \in Nat) /\ (hint.tail > 0 => hint.tail - 1 \in Nat)
  <2> DEFINE s == hint.spaces  t == hint.tail
  <2>1. hint \in HintSet
    BY DEF WordTyped
  <2>2. s \in Nat /\ t \in Nat
    BY <2>1, HintFields
  <2> HIDE DEF s, t
  <2>3. 0 \in Nat /\ 1 \in Nat /\ t + 1 \in Nat /\ s + 1 \in Nat
        /\ (s > 1 => s - 1 \in Nat) /\ (t > 0 => t - 1 \in Nat)
    BY <2>2
  <2> QED
    BY <2>1, <2>2, <2>3 DEF s, t
<1>3. /\ HintAfterStop \in HintSet /\ HintAfterSpace \in HintSet /\ HintAfterTab \in HintSet
      /\ HintErased \in HintSet /\ Start(0, 0) \in HintSet
  <2>1. HintAfterStop \in HintSet
    BY <1>1, <1>2, Zenon DEF HintAfterStop
  <2>2. HintAfterSpace \in HintSet
    BY <1>1, <1>2, Zenon DEF HintAfterSpace
  <2>3. HintAfterTab \in HintSet /\ Start(0, 0) \in HintSet
    BY <1>1, <1>2, Zenon DEF HintAfterTab
  <2>4. HintErased \in HintSet
    BY <1>1, <1>2, Zenon DEF HintErased
  <2> QED
    BY <2>1, <2>2, <2>3, <2>4
<1>4. Nothing \in Edits /\ Ins(<<>>) \in Edits
  BY DEF Nothing, Ins, Del, Edits
<1>5. Del(1, <<>>) \in Edits /\ Del(1, <<>>).delete = 1 /\ Del(1, <<>>).insert = <<>>
  BY DEF Del, Edits
<1>6. CASE k = "x"
  <2>1. TypesOn(deed) /\ deed.edits \in Edits \X Edits /\ Shaped(deed.edits)
    BY <1>6, DeedsByKey
  <2>2. deed.wordLen = n + 1 /\ n + 1 <= MaxLetters
    BY <2>1 DEF TypesOn
  <2>3. deed.composing \in BOOLEAN /\ deed.hint \in HintSet
    BY <1>1, <1>2, <2>1, Zenon DEF TypesOn
  <2> HIDE DEF n
  <2>4. deed.wordLen \in 0..MaxLetters /\ deed.wordLen > 0
    BY <1>0, <2>2, Zenon
  <2> QED
    BY <2>1, <2>3, <2>4
<1>7. ASSUME NEW c, NEW h \in HintSet, Ends(deed, c, h),
             c = <<>> \/ \E char \in Chars : char # "x" /\ c = <<char>>
      PROVE  /\ deed.edits \in Edits \X Edits /\ deed.wordLen \in 0..MaxLetters
             /\ deed.composing = FALSE /\ deed.hint \in HintSet
             /\ c # <<>> => Shaped(deed.edits)
  <2>1. PICK w \in {Preedit} \cup Rewrites : deed.edits = <<w, Ins(c)>>
    BY <1>7, Zenon DEF Ends
  <2>2. w \in Edits /\ \A char \in Chars : char # "x" => Shaped(<<w, Ins(<<char>>)>>)
    BY WordEdits
  <2>3. Ins(c) \in Edits
    <3>1. \A char \in Chars : <<char>> \in Seq(Chars)
      OBVIOUS
    <3> QED
      BY <1>4, <1>7, <3>1, InsForm
  <2>4. deed.wordLen = 0 /\ deed.composing = FALSE /\ deed.hint = h
    BY <1>7, Zenon DEF Ends
  <2>5. c # <<>> => Shaped(deed.edits)
    BY <1>7, <2>1, <2>2, Zenon
  <2>6. deed.wordLen \in 0..MaxLetters
    BY <1>0, <2>4, Zenon
  <2> QED
    BY <2>1, <2>2, <2>3, <2>4, <2>5, <2>6
<1>8. ASSUME NEW e \in {Nothing, Del(1, <<>>)}, NEW h \in HintSet, Takes(deed, e, h)
      PROVE  /\ deed.edits \in Edits \X Edits /\ deed.wordLen \in 0..MaxLetters
             /\ deed.composing \in BOOLEAN /\ (deed.composing => deed.wordLen > 0)
             /\ deed.hint \in HintSet /\ Shaped(deed.edits)
  <2>1. deed.edits = <<Nothing, e>> /\ deed.hint = h /\ deed.composing = (composing /\ n > 1)
        /\ deed.wordLen = (IF n > 0 THEN n - 1 ELSE 0)
    BY <1>8, Zenon DEF Takes
  <2>2. deed.composing \in BOOLEAN
    BY <2>1
  <2> HIDE DEF n
  <2>3. deed.wordLen \in 0..MaxLetters /\ (deed.composing => deed.wordLen > 0)
    BY <1>0, <2>1, Zenon
  <2>4. Shaped(deed.edits)
    <3>1. CASE e = Nothing
      BY <2>1, <3>1, Zenon DEF Shaped
    <3>2. CASE e = Del(1, <<>>)
      <4>1. 1 > 0 /\ <<Nothing, e>> \in {<<e, Nothing>>, <<Nothing, e>>}
        OBVIOUS
      <4>2. Once(e)
        BY <1>5, <3>2, <4>1 DEF Once
      <4> QED
        BY <1>5, <2>1, <3>2, <4>1, <4>2, Zenon DEF Shaped
    <3> QED
      BY <3>1, <3>2
  <2> QED
    BY <1>4, <1>5, <2>1, <2>2, <2>3, <2>4
<1>9. CASE k \in {".", "s"}
  <2>1. \A char \in {".", "s"} : char \in Chars /\ char # "x" /\ <<char>> # <<>>
    BY DEF Chars
  <2>2. Ends(deed, <<k>>, HintAfterStop) \/ Ends(deed, <<k>>, HintAfterSpace)
    BY <1>9, DeedsByKey
  <2>3. <<k>> = <<>> \/ \E char \in Chars : char # "x" /\ <<k>> = <<char>>
    BY <1>9, <2>1
  <2> QED
    BY <1>3, <1>7, <1>9, <2>1, <2>2, <2>3
<1>10. CASE k \in {"return", "tab"}
  <2>1. Ends(deed, <<>>, Start(0, 0)) \/ Ends(deed, <<>>, HintAfterTab)
    BY <1>10, DeedsByKey
  <2> QED
    BY <1>3, <1>7, <1>10, <2>1
<1>11. CASE k = "backspace"
  <2>1. Takes(deed, Nothing, hint) \/ Takes(deed, Del(1, <<>>), HintErased)
    BY <1>11, DeedsByKey
  <2> QED
    BY <1>2, <1>3, <1>8, <2>1
<1> QED
  BY <1>6, <1>9, <1>10, <1>11 DEF Strokes

-----------------------------------------------------------------------------
(* What a projection is after a key.                                       *)

\* Only Return and Tab make a projection opaque.
LEMMA RecordOpaque ==
  ASSUME NEW e, Proper(e), NEW k \in Strokes, NEW deed, deed.edits \in Edits \X Edits,
         NEW f \in Record(e, k, deed)
  PROVE  /\ k \notin {"return", "tab"} => f.opaque = e.opaque
         /\ k = "return" => f.opaque = "return"
         /\ k = "tab" => f.opaque = IF e.opaque = "none" THEN "tab" ELSE e.opaque
         /\ e.opaque # "none" => \/ deed.edits = <<Nothing, Nothing>>
                                 \/ k = "s" /\ deed.edits[1] = Nothing
<1>1. CASE k = "s" /\ e.opaque # "none" /\ deed.edits[1] = Nothing
  <2>1. f = e
    BY <1>1 DEF Record
  <2> QED
    BY <1>1, <2>1
<1>2. CASE ~(k = "s" /\ e.opaque # "none" /\ deed.edits[1] = Nothing)
  <2> DEFINE d == deed.edits
             mark(o) == IF k = "return" \/ (k = "tab" /\ o = "none") THEN k ELSE o
  <2>1. PICK g \in EditAll(e, d) : f = [g EXCEPT !.opaque = mark(g.opaque)]
    <3>1. f \in {[g EXCEPT !.opaque = mark(@)] : g \in EditAll(e, d)}
      BY <1>2 DEF Record
    <3> QED
      BY <3>1
  <2>2. Proper(g) /\ g.opaque = e.opaque /\ (d # <<Nothing, Nothing>> => e.opaque = "none")
    <3> HIDE DEF d
    <3>1. d \in Edits \X Edits
      BY DEF d
    <3> QED
      BY <3>1, EditAllShows
  <2>3. g = [base |-> g.base, opaque |-> g.opaque, images |-> g.images]
    BY <2>2, ProperEcho
  <2>4. f.opaque = mark(g.opaque)
    <3> HIDE DEF mark
    <3> QED
      BY <2>1, <2>3
  <2> QED
    BY <2>2, <2>4
<1> QED
  BY <1>1, <1>2

\* A projection has one successor or none.
LEMMA RecordOne ==
  ASSUME NEW e, NEW k, NEW deed
  PROVE  \A f, g \in Record(e, k, deed) : f = g
<1>1. \A x, image : \A f, g \in Push(x, image) : f = g
  BY DEF Push
<1>2. ASSUME NEW x, NEW n, NEW t PROVE \A f, g \in Edit(x, n, t) : f = g
  <2> DEFINE last == Last(x.images)  cut == Cut(last, n)  more == [cut EXCEPT !.inserted = @ \o t]
             first == IF n > 0 THEN Push(x, cut) ELSE {x}
  <2>1. \A f, g \in first : f = g
    BY <1>1
  <2> HIDE DEF first, more
  <2>2. Edit(x, n, t) = {} \/ Edit(x, n, t) = UNION {Push(view, more) : view \in first}
    BY Zenon DEF Edit, first, more
  <2> QED
    BY <1>1, <2>1, <2>2
<1>3. \A x, d : \A f, g \in Edited(x, d) : f = g
  BY <1>2 DEF Edited
<1>4. ASSUME NEW x, NEW edits PROVE \A f, g \in EditAll(x, edits) : f = g
  <2>1. EditAll(x, edits) = UNION {Edited(f, edits[2]) : f \in Edited(x, edits[1])}
    BY DEF EditAll
  <2> QED
    BY <1>3, <2>1
<1>5. \A f, g \in EditAll(e, deed.edits) : f = g
  BY <1>4
<1> QED
  BY <1>5 DEF Record

\* The hint is told by the last text shown, or by what is known before a key
\* whose effect is not.
ToldOf(n, preedit, h, e) ==
  IF e.opaque = "none" THEN n = 0 \/ preedit => ToldBy(h, LastText(e))
  ELSE ~Awaits(h) /\ h.spaces = 0 /\ (e.opaque = "tab" /\ Starts(h) => Ready(LastText(e)))

\* A delimiter ends the text.
LEMMA DelimitedText ==
  ASSUME NEW t \in Seq(Chars), NEW w \in Edits, NEW c \in Chars
  PROVE  \E m \in Seq(Chars) : /\ After(t, AppliedAll(t, <<w, Ins(<<c>>)>>)) = m \o <<c>>
                               /\ w = Nothing => m = t
<1> DEFINE first == Applied(t, w)  m == After(t, first)  x == m \o <<c>>  T == Seq(Chars)
<1>0. <<c>> \in Seq(Chars) /\ <<c>> # <<>>
  OBVIOUS
<1>1. Ins(<<c>>) \in Edits /\ Ins(<<c>>).delete = 0 /\ Ins(<<c>>).insert = <<c>>
  BY <1>0, InsForm
<1>2. first \in Seq(Seq(Chars)) /\ m \in Seq(Chars)
  <2> DEFINE d == <<w, Ins(<<c>>)>>
  <2>1. d \in Edits \X Edits /\ d[1] = w
    BY <1>1
  <2> HIDE DEF d
  <2> QED
    BY <2>1, AppliedAllTexts
<1>3. x \in Seq(Chars)
  BY <1>0, <1>2, Concatenated
<1>4. Applied(m, Ins(<<c>>)) = <<x>>
  <2> HIDE DEF m
  <2> QED
    BY ZenonT(30), <1>0, <1>1, <1>2, KeptTexts DEF m
<1>5. AppliedAll(t, <<w, Ins(<<c>>)>>) = first \o Applied(m, Ins(<<c>>))
  BY AppliedTwo
<1>6. w = Nothing => first = <<>> /\ m = t
  BY KeptTexts, AfterFew
<1> HIDE DEF first, x, m, T
<1>7. After(t, first \o <<x>>) = x
  <2>1. first \in Seq(T) /\ x \in T
    BY <1>2, <1>3 DEF T
  <2>2. first \o <<x>> = Append(first, x)
    BY <2>1, Joins
  <2>3. Append(first, x) # <<>> /\ Append(first, x)[Len(Append(first, x))] = x
    BY <2>1, AppendEnd
  <2> QED
    BY <2>2, <2>3, Zenon DEF After, Last
<1> QED
  BY <1>2, <1>4, <1>5, <1>6, <1>7 DEF x

\* BackSpace takes the last character.
LEMMA ErasedText ==
  ASSUME NEW t \in Seq(Chars)
  PROVE  LET u == After(t, AppliedAll(t, <<Nothing, Del(1, <<>>)>>)) IN
         /\ u \in Seq(Chars)
         /\ Len(t) > 0 => Len(u) = Len(t) - 1 /\ \A i \in 1..Len(u) : u[i] = t[i]
<1> DEFINE d == Del(1, <<>>)  u == Kept(t, d)
<1>1. d \in Edits /\ d.delete = 1 /\ d.insert = <<>> /\ Nothing \in Edits
  BY DEF Del, Edits, Nothing
<1>2. /\ u \in Seq(Chars) /\ Applied(t, Nothing) = <<>>
      /\ d.delete <= Len(t) => u = Shortened(t, d.delete)
  <2> HIDE DEF d
  <2> QED
    BY <1>1, KeptTexts
<1>3. Applied(t, d) = <<u>>
  <2>1. 1 > 0
    OBVIOUS
  <2> HIDE DEF d
  <2> QED
    BY <1>1, <2>1, KeptTexts
<1>4. AppliedAll(t, <<Nothing, d>>) = Applied(t, Nothing) \o Applied(After(t, Applied(t, Nothing)), d)
  BY AppliedTwo
<1> HIDE DEF d, u
<1>5. After(t, AppliedAll(t, <<Nothing, d>>)) = u
  <2>1. After(t, <<>>) = t /\ After(t, <<u>>) = u /\ <<>> \o <<u>> = <<u>>
    BY <1>2, AfterFew, FewTexts
  <2> QED
    BY <1>2, <1>3, <1>4, <2>1
<1>6. Len(t) > 0 => Len(u) = Len(t) - 1 /\ \A i \in 1..Len(u) : u[i] = t[i]
  <2> SUFFICES ASSUME Len(t) > 0 PROVE Len(u) = Len(t) - 1 /\ \A i \in 1..Len(u) : u[i] = t[i]
    OBVIOUS
  <2>1. 1 \in Nat /\ 1 <= Len(t) /\ Len(t) \in Nat
    OBVIOUS
  <2>2. u = Shortened(t, 1)
    BY <1>1, <1>2, <2>1
  <2>3. /\ Len(Shortened(t, 1)) = Len(t) - 1
        /\ \A i \in 1..(Len(t) - 1) : Shortened(t, 1)[i] = t[i]
    BY <2>1, ShortenedText
  <2> QED
    BY <2>2, <2>3
<1> QED
  BY <1>2, <1>5, <1>6 DEF d

\* No hint is told by any text.
LEMMA NoHintTold ==
  ASSUME NEW n, NEW p, NEW e
  PROVE  ToldOf(n, p, NoHint, e)
<1>1. ~Awaits(NoHint) /\ ~Starts(NoHint) /\ NoHint.spaces = 0
  BY HintForms
<1>2. \A t : ToldBy(NoHint, t)
  BY <1>1, Zenon DEF ToldBy
<1> QED
  BY <1>1, <1>2, Zenon DEF ToldOf

\* The hint after a key is told by the projection after it.
LEMMA PressTold ==
  ASSUME WordTyped, NEW k \in Strokes, NEW deed \in Deeds(k), NEW e, Proper(e),
         ToldOf(wordLen, composing, hint, e), NEW f \in Record(e, k, deed)
  PROVE  ToldOf(deed.wordLen, deed.composing, deed.hint, f)
<1> DEFINE t == LastText(e)  h == hint  told == ToldOf(deed.wordLen, deed.composing, deed.hint, f)
           known == e.opaque = "none"
<1>1. /\ h \in HintSet /\ h.spaces \in Nat /\ h.tail \in Nat /\ (~Starts(h) => h.spaces = 0)
      /\ (h # NoHint => Awaits(h) \/ Starts(h)) /\ (Awaits(h) => ~Starts(h))
  <2>1. hint \in HintSet
    BY DEF WordTyped
  <2> QED
    BY <2>1, HintFields
<1>2. deed.edits \in Edits \X Edits
  BY DeedTyped
<1>3. t \in Seq(Chars)
  BY ShowsTexts
<1>4. /\ Proper(f)
      /\ deed.edits = <<Nothing, Nothing>> => LastText(f) = t
      /\ ~known => LastText(f) = t
      /\ known => LastText(f) = After(t, AppliedAll(t, deed.edits))
      /\ k \notin {"return", "tab"} => f.opaque = e.opaque
      /\ k = "return" => f.opaque = "return"
      /\ k = "tab" => f.opaque = IF known THEN "tab" ELSE e.opaque
      /\ ~known => deed.edits = <<Nothing, Nothing>> \/ (k = "s" /\ deed.edits[1] = Nothing)
  BY <1>2, RecordShows, RecordOpaque
<1>5. /\ known => (wordLen = 0 \/ composing => ToldBy(h, t))
      /\ ~known => ~Awaits(h) /\ h.spaces = 0 /\ (e.opaque = "tab" /\ Starts(h) => Ready(t))
  BY DEF ToldOf
<1>6. (composing => wordLen # 0) /\ (wordLen > 0 \/ wordLen = 0) /\ (wordLen > 0 => wordLen # 0)
      /\ 0 \in Nat
  <2>1. 0 \in Nat /\ \A n \in Nat : (n > 0 \/ n = 0) /\ (n > 0 => n # 0)
    OBVIOUS
  <2>2. wordLen \in Nat
    BY CapsAssumption DEF WordTyped
  <2> QED
    BY <2>1, <2>2 DEF WordTyped
<1>7. /\ \A n \in Nat : /\ Awaits(Awaiting(n)) /\ ~Starts(Awaiting(n))
      /\ \A s, n \in Nat : /\ ~Awaits(Start(s, n)) /\ Starts(Start(s, n)) /\ Start(s, n).spaces = s
  BY HintForms
<1> HIDE DEF h, t, known
<1>8. CASE deed.hint = NoHint
  BY <1>8, NoHintTold
<1>9. CASE k = "x" /\ deed.hint # NoHint
  <2>1. TypesOn(deed)
    BY <1>9, DeedsByKey
  <2>2. deed.hint = h /\ ~Awaits(h)
    BY <1>9, <2>1 DEF TypesOn, h
  <2>3. f.opaque = e.opaque /\ (known <=> f.opaque = "none")
    BY <1>4, <1>9 DEF known
  <2>4. deed.wordLen # 0
    <3>1. \A n \in Nat : n + 1 # 0
      OBVIOUS
    <3>2. wordLen \in Nat
      BY CapsAssumption DEF WordTyped
    <3> QED
      BY <2>1, <3>1, <3>2 DEF TypesOn
  <2>5. deed.composing => (wordLen = 0 \/ composing) /\ LastText(f) = t
    BY <1>4, <2>1 DEF TypesOn
  <2> QED
    BY <1>4, <1>5, <2>2, <2>3, <2>4, <2>5, Zenon DEF ToldOf
<1>10. ASSUME NEW c \in Chars, NEW g, Ends(deed, <<c>>, g), k \notin {"return", "tab"}
       PROVE  /\ deed.hint = g
              /\ known \/ k = "s"
              /\ known <=> f.opaque = "none"
              /\ known => \E m \in Seq(Chars) : /\ LastText(f) = m \o <<c>>
                                                /\ (wordLen = 0 => m = t)
  <2>1. PICK w \in {Preedit} \cup Rewrites : deed.edits = <<w, Ins(<<c>>)>> /\ deed.hint = g
    BY <1>10, Zenon DEF Ends
  <2>2. w \in Edits /\ (wordLen = 0 => w = Nothing)
    BY WordEdits
  <2>3. \E m \in Seq(Chars) : /\ After(t, AppliedAll(t, <<w, Ins(<<c>>)>>)) = m \o <<c>>
                              /\ w = Nothing => m = t
    BY <1>3, <2>2, DelimitedText
  <2>4. deed.edits # <<Nothing, Nothing>>
    <3>1. <<c>> \in Seq(Chars) /\ <<c>> # <<>>
      OBVIOUS
    <3>2. Ins(<<c>>) # Nothing
      BY <3>1, InsForm
    <3> QED
      BY <2>1, <3>2
  <2> QED
    BY <1>4, <1>10, <2>1, <2>2, <2>3, <2>4 DEF known
<1>11. CASE k = "." /\ deed.hint # NoHint
  <2>1. Ends(deed, <<".">>, HintAfterStop) /\ "." \in Chars /\ Stop(".") /\ k \notin {"return", "tab"}
    BY <1>11, DeedsByKey, CharKinds DEF Chars
  <2>2. /\ deed.hint = HintAfterStop /\ known /\ f.opaque = "none"
        /\ \E m \in Seq(Chars) : LastText(f) = m \o <<".">> /\ (wordLen = 0 => m = t)
    BY <1>10, <1>11, <2>1
  <2>3. PICK m \in Seq(Chars) : LastText(f) = m \o <<".">> /\ (wordLen = 0 => m = t)
    BY <2>2
  <2>4. \E n \in Nat : deed.hint = Awaiting(n) /\ (n = 0 \/ StopsEnd(m, Len(m), n))
    <3>1. CASE wordLen = 0 /\ Awaits(h)
      <4>1. StopsEnd(t, Len(t), h.tail + 1)
        BY <1>5, <2>2, <3>1 DEF ToldBy
      <4>2. deed.hint = Awaiting(h.tail + 1)
        BY <2>2, <3>1 DEF HintAfterStop, h
      <4>3. h.tail + 1 \in Nat
        <5> DEFINE n == h.tail
        <5>1. n \in Nat
          BY <1>1
        <5> HIDE DEF n
        <5>2. n + 1 \in Nat
          BY <5>1
        <5> QED
          BY <5>2 DEF n
      <4> QED
        BY <2>3, <3>1, <4>1, <4>2, <4>3
    <3>2. CASE ~(wordLen = 0 /\ Awaits(h))
      <4>1. deed.hint = Awaiting(0) /\ 0 \in Nat
        BY <2>2, <3>2 DEF HintAfterStop, h
      <4> QED
        BY <4>1
    <3> QED
      BY <3>1, <3>2
  <2>5. ToldBy(deed.hint, LastText(f))
    <3>1. PICK n \in Nat : deed.hint = Awaiting(n) /\ (n = 0 \/ StopsEnd(m, Len(m), n))
      BY <2>4
    <3>2. ToldBy(Awaiting(n), m \o <<".">>)
      BY <2>1, <3>1, ToldStop
    <3> QED
      BY <2>3, <3>1, <3>2
  <2> QED
    BY <2>2, <2>5 DEF ToldOf
<1>12. CASE k = "s" /\ deed.hint # NoHint
  <2>1. Ends(deed, <<"s">>, HintAfterSpace) /\ "s" \in Chars /\ White("s") /\ k \notin {"return", "tab"}
    BY <1>12, DeedsByKey, CharKinds DEF Chars
  <2>2. /\ deed.hint = HintAfterSpace /\ (known <=> f.opaque = "none")
        /\ known => \E m \in Seq(Chars) : LastText(f) = m \o <<"s">> /\ (wordLen = 0 => m = t)
    BY <1>10, <2>1
  <2>3. wordLen = 0 /\ deed.hint = IF Awaits(h) THEN Start(1, h.tail)
                                   ELSE IF h.spaces > 0 THEN Start(h.spaces + 1, h.tail) ELSE h
    BY <1>6, <1>12, <2>2, Zenon DEF HintAfterSpace, h
  <2>4. CASE known
    <3>1. LastText(f) = t \o <<"s">> /\ ToldBy(h, t)
      BY <1>5, <2>2, <2>3, <2>4
    <3>2. /\ Awaits(h) => ToldBy(Start(1, h.tail), t \o <<"s">>)
          /\ h.spaces > 0 => ToldBy(Start(h.spaces + 1, h.tail), t \o <<"s">>)
          /\ ~Awaits(h) /\ h.spaces = 0 => ToldBy(h, t \o <<"s">>)
      BY <1>1, <1>3, <2>1, <3>1, ToldSpace
    <3>3. ~(h.spaces > 0) => h.spaces = 0
      <4>1. \A n \in Nat : ~(n > 0) => n = 0
        OBVIOUS
      <4> QED
        BY <1>1, <4>1
    <3>4. ToldBy(deed.hint, LastText(f))
      BY <2>3, <3>1, <3>2, <3>3, Zenon
    <3> QED
      BY <2>2, <2>4, <3>4 DEF ToldOf
  <2>5. CASE ~known
    <3>1. ~(h.spaces > 0)
      <4>1. ~(0 > 0)
        OBVIOUS
      <4> QED
        BY <1>5, <2>5, <4>1
    <3>2. deed.hint = h /\ LastText(f) = t /\ f.opaque = e.opaque
      BY <1>4, <1>5, <2>1, <2>3, <2>5, <3>1
    <3> QED
      BY <1>5, <2>5, <3>2, Zenon DEF ToldOf, known
  <2> QED
    BY <2>4, <2>5
<1>13. CASE k = "return"
  <2>1. Ends(deed, <<>>, Start(0, 0))
    BY <1>13, DeedsByKey
  <2>2. deed.hint = Start(0, 0) /\ f.opaque = "return" /\ 0 \in Nat
    BY <1>4, <1>13, <2>1 DEF Ends
  <2> QED
    BY <1>7, <2>2 DEF ToldOf
<1>14. CASE k = "tab" /\ deed.hint # NoHint
  <2>1. Ends(deed, <<>>, HintAfterTab)
    BY <1>14, DeedsByKey
  <2>2. deed.hint = Start(0, 0) /\ wordLen = 0 /\ h # NoHint /\ 0 \in Nat
    BY <1>6, <1>14, <2>1, Zenon DEF Ends, HintAfterTab, h
  <2>3. deed.edits = <<Nothing, Nothing>>
    <3>1. PICK w \in {Preedit} \cup Rewrites : deed.edits = <<w, Ins(<<>>)>>
      BY <2>1, Zenon DEF Ends
    <3>2. w = Nothing
      BY <2>2, WordEdits
    <3> QED
      BY <3>1, <3>2 DEF Ins, Nothing
  <2>4. LastText(f) = t /\ f.opaque = IF known THEN "tab" ELSE e.opaque
    BY <1>4, <1>14, <2>3
  <2>5. f.opaque = "tab" => Ready(t)
    <3>1. known => Ready(t)
      BY <1>1, <1>3, <1>5, <2>2, ToldReady
    <3>2. ~known => (e.opaque = "tab" => Ready(t))
      BY <1>1, <1>5, <2>2
    <3> QED
      BY <2>4, <3>1, <3>2
  <2>6. f.opaque # "none"
    BY <2>4 DEF known
  <2>7. ~Awaits(deed.hint) /\ deed.hint.spaces = 0
    BY <1>7, <2>2
  <2> QED
    BY <2>4, <2>5, <2>6, <2>7, Zenon DEF ToldOf
<1>15. CASE k = "backspace" /\ composing
  <2>1. Takes(deed, Nothing, hint)
    BY <1>15, DeedsByKey
  <2>2. deed.edits = <<Nothing, Nothing>> /\ deed.hint = h
    BY <2>1, Zenon DEF Takes, h
  <2>3. LastText(f) = t /\ f.opaque = e.opaque
    BY <1>4, <1>15, <2>2
  <2> QED
    BY <1>5, <1>15, <2>2, <2>3, Zenon DEF ToldOf, known
<1>16. CASE k = "backspace" /\ ~composing /\ deed.hint # NoHint
  <2>1. Takes(deed, Del(1, <<>>), HintErased)
    BY <1>16, DeedsByKey
  <2>2. deed.edits = <<Nothing, Del(1, <<>>)>> /\ deed.hint = HintErased
    BY <2>1, Zenon DEF Takes
  <2>3. /\ wordLen = 0
        /\ deed.hint = IF Starts(h) /\ h.spaces > 1 THEN Start(h.spaces - 1, h.tail)
                       ELSE IF Starts(h) /\ h.spaces = 1 THEN Awaiting(h.tail)
                       ELSE IF Awaits(h) /\ h.tail > 0 THEN Awaiting(h.tail - 1)
                       ELSE NoHint
    BY <1>6, <1>16, <2>2, Zenon DEF HintErased, h
  <2>4. known /\ f.opaque = "none"
    <3>1. Del(1, <<>>) # Nothing
      BY DEF Del, Nothing
    <3>2. deed.edits # <<Nothing, Nothing>> /\ k # "s" /\ k \notin {"return", "tab"}
      BY <1>16, <2>2, <3>1
    <3> QED
      BY <1>4, <3>2 DEF known
  <2> DEFINE u == After(t, AppliedAll(t, <<Nothing, Del(1, <<>>)>>))
  <2>5. LastText(f) = u
    BY <1>4, <2>2, <2>4
  <2>6. /\ u \in Seq(Chars)
        /\ Len(t) > 0 => Len(u) = Len(t) - 1 /\ \A i \in 1..Len(u) : u[i] = t[i]
    BY <1>3, ErasedText
  <2>7. ToldBy(h, t)
    BY <1>5, <2>3, <2>4
  <2> HIDE DEF u
  <2>8. /\ h.spaces > 1 => ToldBy(Start(h.spaces - 1, h.tail), u)
        /\ h.spaces = 1 => ToldBy(Awaiting(h.tail), u)
        /\ Awaits(h) /\ h.tail > 0 => ToldBy(Awaiting(h.tail - 1), u)
    BY <1>1, <1>3, <2>6, <2>7, ToldErased
  <2>9. ToldBy(deed.hint, u)
    BY <1>16, <2>3, <2>8, Zenon
  <2> QED
    BY <2>4, <2>5, <2>9 DEF ToldOf
<1> QED
  BY <1>8, <1>9, <1>11, <1>12, <1>13, <1>14, <1>15, <1>16, Zenon DEF Strokes

-----------------------------------------------------------------------------
(* The inductive invariant.                                                *)

\* A projection against the client's text c and the reports q on the way: its
\* first image is the text last reported, its last one the client's text if
\* it is bound to that, and the reports answer the images in between.
Tracks(e, c, q, calm, exactly) ==
  /\ Proper(e)
  /\ q = <<>> => Shows(e)[1] = c
  /\ e.opaque = "none" => (calm => LastText(e) = c) /\ Fits(Shows(e), q, exactly)

EchoTyped ==
  /\ WordTyped
  /\ client \in Seq(Chars) /\ reports \in Seq(Seq(Chars)) /\ surrounding \subseteq Seq(Chars)
  /\ astray \in BOOLEAN /\ ahead \in BOOLEAN

EchoInv ==
  /\ EchoTyped
  /\ \A e, f \in echoes : e = f
  /\ \A s, t \in surrounding : s = t
  /\ reports # <<>> => Last(reports) = client
  /\ reports = <<>> => surrounding \subseteq {client}
  /\ \A e \in echoes : /\ Tracks(e, client, reports, ~astray, ~astray /\ ~ahead)
                       /\ \A t \in surrounding : Shows(e)[1] = t
                       /\ ToldOf(wordLen, composing, hint, e)

\* A projection bound to the client's text, or to one it still reports.
LEMMA BoundTracks ==
  ASSUME NEW t \in Seq(Chars), NEW c \in Seq(Chars), NEW q \in Seq(Seq(Chars)),
         NEW calm \in BOOLEAN, NEW exactly \in BOOLEAN,
         q = <<>> => t = c, calm => t = c, exactly => q = <<>>
  PROVE  Tracks(Bound(t), c, q, calm, exactly) /\ Shows(Bound(t))[1] = t
<1>1. /\ Proper(Bound(t)) /\ Bound(t).opaque = "none"
      /\ Shows(Bound(t)) = <<t>> /\ LastText(Bound(t)) = t
  BY BoundShows
<1>2. Fits(<<t>>, q, exactly)
  <2> DEFINE C == Seq(Chars)
  <2>1. t \in C /\ q \in Seq(C)
    OBVIOUS
  <2> HIDE DEF C
  <2> QED
    BY <2>1, OneFits
<1>3. <<t>>[1] = t
  OBVIOUS
<1> QED
  BY <1>1, <1>2, <1>3, Zenon DEF Tracks

\* The reports after the texts passed, each reported or only the last.
\* The client passes through texts and ends in d; the reports q become r.
Passes(c, q, passed, d, r) ==
  /\ q # <<>> => Last(q) = c
  /\ d = After(c, passed)
  /\ r = q \o passed \/ (passed # <<>> /\ r = Append(q, d))

\* The client after what it passed through is what it reports last.
LEMMA Passing ==
  \A c \in Seq(Chars), q \in Seq(Seq(Chars)), passed \in Seq(Seq(Chars)) : \A d, r :
    Passes(c, q, passed, d, r) =>
      /\ d \in Seq(Chars) /\ r \in Seq(Seq(Chars)) /\ (r # <<>> => Last(r) = d)
      /\ r = <<>> => q = <<>> /\ passed = <<>> /\ d = c
<1> SUFFICES ASSUME NEW c \in Seq(Chars), NEW q \in Seq(Seq(Chars)), NEW passed \in Seq(Seq(Chars)),
                    NEW d, NEW r, Passes(c, q, passed, d, r)
             PROVE  /\ d \in Seq(Chars) /\ r \in Seq(Seq(Chars)) /\ (r # <<>> => Last(r) = d)
                    /\ r = <<>> => q = <<>> /\ passed = <<>> /\ d = c
  BY Zenon
<1>c. /\ q # <<>> => Last(q) = c
      /\ d = After(c, passed)
      /\ r = q \o passed \/ (passed # <<>> /\ r = Append(q, d))
  BY Zenon DEF Passes
<1> DEFINE T == Seq(Chars)
<1>0. c \in T /\ q \in Seq(T) /\ passed \in Seq(T)
  OBVIOUS
<1> HIDE DEF T
<1>1. passed = <<>> => d = c
  BY <1>c DEF After
<1>2. ASSUME passed # <<>> PROVE d = passed[Len(passed)] /\ d \in T /\ Len(passed) \in Nat \ {0}
  <2>1. Len(passed) \in Nat /\ Len(passed) # 0
    BY <1>0, <1>2
  <2> QED
    BY <1>0, <1>2, <1>c, <2>1 DEF After, Last
<1>3. d \in T
  BY <1>0, <1>1, <1>2
<1>4. ASSUME r = q \o passed
      PROVE  r \in Seq(T) /\ (r # <<>> => Last(r) = d) /\ (r = <<>> => q = <<>> /\ passed = <<>>)
  <2>1. r \in Seq(T) /\ Len(r) = Len(q) + Len(passed) /\ Len(q) \in Nat /\ Len(passed) \in Nat
        /\ \A i \in 1..(Len(q) + Len(passed)) :
             r[i] = IF i <= Len(q) THEN q[i] ELSE passed[i - Len(q)]
    BY <1>0, <1>4, Concatenated
  <2>2. r = <<>> => q = <<>> /\ passed = <<>>
    <3>1. r = <<>> => Len(q) = 0 /\ Len(passed) = 0
      BY <2>1
    <3> QED
      BY <1>0, <3>1
  <2>3. CASE passed = <<>>
    <3>1. r = q
      BY <1>0, <1>4, <1>c, <2>3
    <3> QED
      BY <1>1, <1>c, <2>1, <2>2, <2>3, <3>1
  <2>4. CASE passed # <<>>
    <3>1. Len(r) \in 1..(Len(q) + Len(passed)) /\ ~(Len(r) <= Len(q)) /\ Len(r) - Len(q) = Len(passed)
      BY <1>2, <2>1, <2>4
    <3>2. r[Len(r)] = passed[Len(passed)]
      BY <2>1, <3>1
    <3> QED
      BY <1>2, <2>1, <2>2, <2>4, <3>2 DEF Last
  <2> QED
    BY <2>3, <2>4
<1>5. ASSUME passed # <<>>, r = Append(q, d)
      PROVE  r \in Seq(T) /\ (r # <<>> => Last(r) = d) /\ r # <<>>
  BY <1>0, <1>3, <1>5, AppendEnd DEF Last
<1> QED
  BY <1>1, <1>3, <1>4, <1>5, <1>c DEF T

\* What the client passes through are texts.
LEMMA PassedTexts ==
  ASSUME NEW k \in Strokes, NEW texts \in Seq(Seq(Chars)), NEW c \in Seq(Chars),
         NEW outcome \in Outcomes(k, c)
  PROVE  texts \o outcome \in Seq(Seq(Chars)) /\ (k \notin {"return", "tab"} => texts \o outcome = texts)
<1> DEFINE T == Seq(Chars)  x == Append(c, "n")  y == Append(c, "t")
<1>1. x \in T /\ y \in T /\ <<>> \in T
  <2>1. "n" \in Chars /\ "t" \in Chars
    BY DEF Chars
  <2> QED
    BY <2>1
<1>2. outcome \in {<<>>, <<x>>, <<y>>, <<(<<>>)>>} /\ (k \notin {"return", "tab"} => outcome = <<>>)
  BY DEF Outcomes
<1>3. texts \in Seq(T)
  OBVIOUS
<1> HIDE DEF T, x, y
<1>4. outcome \in Seq(T)
  <2>1. <<>> \in Seq(T) /\ \A z \in T : <<z>> \in Seq(T)
    OBVIOUS
  <2> QED
    BY <1>1, <1>2, <2>1, Zenon
<1>5. texts \o outcome \in Seq(T) /\ texts \o <<>> = texts
  <2>1. texts \o outcome \in Seq(T)
    BY <1>3, <1>4, Concatenated
  <2>2. texts \o <<>> = texts
    BY <1>3
  <2> QED
    BY <2>1, <2>2
<1> QED
  BY <1>2, <1>5 DEF T

\* The last report is the client's text.
LEMMA LastReported ==
  ASSUME NEW c, NEW q \in Seq(Seq(Chars)), q # <<>> => Last(q) = c,
         NEW T, q = <<>> => T[1] = c
  PROVE  Before(T, q, Len(q)) = c
<1>1. q = <<>> <=> Len(q) = 0
  OBVIOUS
<1> QED
  BY <1>1, Zenon DEF Before, Last

\* The keys whose effect on the text is unknown.
IsOpaque(k) == k \in {"return", "tab"}

\* A key pressed at one projection.
LEMMA PressTracks ==
  ASSUME NEW c \in Seq(Chars), NEW q \in Seq(Seq(Chars)),
         NEW calm \in BOOLEAN, NEW exactly \in BOOLEAN, exactly => calm,
         NEW e, Tracks(e, c, q, calm, exactly),
         NEW k \in Strokes, NEW deed, deed.edits \in Edits \X Edits,
         ~IsOpaque(k) => Shaped(deed.edits), NEW f \in Record(e, k, deed),
         NEW passed \in Seq(Seq(Chars)),
         ~IsOpaque(k) => passed = AppliedAll(c, deed.edits),
         NEW d, NEW r, Passes(c, q, passed, d, r)
  PROVE  Tracks(f, d, r, calm, exactly) /\ Shows(f)[1] = Shows(e)[1]
<1>c. /\ q # <<>> => Last(q) = c
      /\ d = After(c, passed)
      /\ r = q \o passed \/ (passed # <<>> /\ r = Append(q, d))
  BY Zenon DEF Passes
<1>d. d \in Seq(Chars) /\ (r = <<>> => q = <<>> /\ passed = <<>> /\ d = c)
  BY SMTT(30), Passing
<1>a. Proper(e) /\ deed.edits \in Edits \X Edits /\ k \in Strokes
  BY Zenon DEF Tracks
<1>b. /\ Proper(f)
      /\ e.opaque # "none" => Shows(f) = Shows(e)
      /\ f.opaque = "none" => e.opaque = "none" /\ ~IsOpaque(k)
      /\ e.opaque = "none" =>
           /\ Shows(f) = Shows(e) \o AppliedAll(LastText(e), deed.edits)
           /\ LastText(f) = After(LastText(e), AppliedAll(LastText(e), deed.edits))
  <2>1. Proper(f) /\ (f.opaque = "none" => e.opaque = "none" /\ k \notin {"return", "tab"})
    BY <1>a, RecordShows
  <2>2. e.opaque # "none" => Shows(f) = Shows(e)
    BY <1>a, RecordShows
  <2>3. e.opaque = "none" =>
           /\ Shows(f) = Shows(e) \o AppliedAll(LastText(e), deed.edits)
           /\ LastText(f) = After(LastText(e), AppliedAll(LastText(e), deed.edits))
    BY <1>a, RecordShows
  <2> QED
    BY <2>1, <2>2, <2>3, Zenon DEF IsOpaque
<1> DEFINE t == LastText(e)  T == Shows(e)  edits == deed.edits
           A == AppliedAll(t, edits)  C == Seq(Chars)
<1>1. Proper(e) /\ edits \in Edits \X Edits
  BY <1>a
<1>2. /\ Proper(f)
      /\ e.opaque # "none" => Shows(f) = T
      /\ f.opaque = "none" => e.opaque = "none" /\ ~IsOpaque(k)
      /\ e.opaque = "none" => Shows(f) = T \o A /\ LastText(f) = After(t, A)
  BY <1>b
<1>3. T \in Seq(C) /\ Len(T) \in Nat \ {0} /\ t = T[Len(T)] /\ t \in C /\ t = Last(T)
  BY <1>1, ShowsTexts
<1>4. T # <<>>
  <2>1. Len(<<>>) = 0 /\ Len(T) # 0
    BY <1>3
  <2> QED
    BY <2>1, Zenon
<1>5. (r = <<>> => q = <<>> /\ passed = <<>> /\ d = c) /\ d \in C
  BY <1>d
<1>6. Shows(f)[1] = T[1]
  <2>1. A \in Seq(C)
    <3> HIDE DEF t, edits
    <3> QED
      BY <1>1, <1>3, AppliedAllTexts
  <2> HIDE DEF C, T, A
  <2>2. (T \o A)[1] = T[1]
    BY <1>3, <2>1
  <2> QED
    BY <1>2, <2>2
<1>7. q = <<>> => T[1] = c
  BY DEF Tracks
<1>8. ASSUME f.opaque = "none" PROVE (calm => LastText(f) = d) /\ Fits(Shows(f), r, exactly)
  <2>1. e.opaque = "none" /\ passed = AppliedAll(c, edits) /\ Shaped(edits)
        /\ Shows(f) = T \o A /\ LastText(f) = After(t, A)
    BY <1>2, <1>8
  <2>2. (calm => t = c) /\ Fits(T, q, exactly)
    BY <2>1 DEF Tracks
  <2>3. Before(T, q, Len(q)) = c
    BY <1>7, <1>c, LastReported
  <2>4. Blocks(t, c, A, AppliedAll(c, edits))
    <3> HIDE DEF t, edits
    <3> QED
      BY <1>3, <2>1, ShapedBlocks
  <2>5. calm => LastText(f) = d
    BY <2>1, <2>2, <1>c
  <2> HIDE DEF t, T, A, edits
  <2>6. Blocks(T[Len(T)], Before(T, q, Len(q)), A, passed)
    BY <1>3, <2>1, <2>3, <2>4
  <2>7. exactly => T[Len(T)] = Before(T, q, Len(q))
    BY <1>3, <2>2, <2>3
  <2>8. /\ A \in Seq(C) /\ passed \in Seq(C) /\ (A = <<>> <=> passed = <<>>)
        /\ Fits(T \o A, q \o passed, exactly)
        /\ passed # <<>> => Fits(T \o A, Append(q, passed[Len(passed)]), exactly)
    BY <1>3, <1>4, <2>2, <2>6, <2>7, BlocksFit
  <2>9. passed # <<>> => d = passed[Len(passed)]
    BY <1>c, Zenon DEF After, Last
  <2> QED
    BY <2>1, <2>5, <2>8, <2>9, <1>c
<1> QED
  BY <1>2, <1>5, <1>6, <1>7, <1>8, Zenon DEF Tracks

-----------------------------------------------------------------------------
(* The steps keep the invariant.                                           *)

\* What record_sentence_delivery does with the projection held, which is the
\* one there is or one bound to the text last reported.
LEMMA DeliveredForm ==
  ASSUME EchoInv, NEW k \in Strokes, NEW deed \in Deeds(k), Delivered(k, deed)
  PROVE  /\ hint' \in HintSet
         /\ \E held :
              /\ held = echoes \/ (echoes = {} /\ hint = NoHint /\ held = {Bound(t) : t \in surrounding})
              /\ \A f \in echoes' :
                   /\ \E e \in held : f \in Record(e, k, deed)
                   /\ \/ hint' = deed.hint
                      \/ f.opaque = "none" /\ ToldBy(hint', LastText(f))
<1>1. deed.hint \in HintSet /\ deed.edits \in Edits \X Edits /\ NoHint \in HintSet
  BY DeedTyped, HintForms DEF EchoInv, EchoTyped
<1>2. /\ \A e \in echoes : Proper(e)
      /\ \A e, f \in echoes : e = f
  BY DEF EchoInv, Tracks
<1>3. CASE BlankErased(k)
  <2> DEFINE kept == {e \in UNION {Record(f, k, deed) : f \in echoes} :
                    Readable(e) /\ HintOf(LastText(e)) # NoHint}
  <2>1. /\ echoes' = kept
        /\ hint' = IF kept = {} THEN NoHint ELSE HintOf(LastText(CHOOSE e \in kept : TRUE))
    BY <1>3 DEF Delivered
  <2>2. k = "backspace" /\ \A e \in echoes : e.opaque = "none"
    BY <1>2, <1>3 DEF BlankErased, KnownBlank
  <2>3. ASSUME NEW f \in kept
        PROVE  /\ \E e \in echoes : f \in Record(e, k, deed)
               /\ f.opaque = "none" /\ LastText(f) \in Seq(Chars)
    <3>1. PICK e \in echoes : f \in Record(e, k, deed)
      OBVIOUS
    <3>2. Proper(e) /\ e.opaque = "none" /\ k \notin {"return", "tab"}
      BY <1>2, <2>2
    <3>3. Proper(f)
      BY <1>1, <3>1, <3>2, RecordShows
    <3>4. f.opaque = "none"
      BY <1>1, <3>1, <3>2, RecordOpaque
    <3>5. LastText(f) \in Seq(Chars)
      BY <3>3, ShowsTexts
    <3> QED
      BY <3>1, <3>4, <3>5
  <2>4. \A f, g \in kept : f = g
    <3> SUFFICES ASSUME NEW f \in kept, NEW g \in kept PROVE f = g
      OBVIOUS
    <3>1. PICK e \in echoes : f \in Record(e, k, deed)
      OBVIOUS
    <3>2. PICK x \in echoes : g \in Record(x, k, deed)
      OBVIOUS
    <3>3. x = e
      BY <1>2
    <3> QED
      BY <3>1, <3>2, <3>3, RecordOne
  <2> HIDE DEF kept
  <2>5. CASE kept = {}
    <3>1. hint' = NoHint /\ echoes' = {}
      BY <2>1, <2>5
    <3> QED
      BY <1>1, <3>1
  <2>6. CASE kept # {}
    <3> DEFINE one == CHOOSE e \in kept : TRUE
    <3>1. one \in kept
      BY <2>6
    <3>2. hint' = HintOf(LastText(one)) /\ LastText(one) \in Seq(Chars)
      BY <2>1, <2>3, <2>6, <3>1
    <3> HIDE DEF one
    <3>3. hint' \in HintSet /\ ToldBy(hint', LastText(one))
      BY <3>2, HintOfTold
    <3>4. \A f \in kept : f = one
      BY <2>4, <3>1
    <3>5. \A f \in echoes' : /\ \E e \in echoes : f \in Record(e, k, deed)
                             /\ f.opaque = "none" /\ ToldBy(hint', LastText(f))
      BY <2>1, <2>3, <3>3, <3>4
    <3> QED
      BY <3>3, <3>5
  <2> QED
    BY <2>5, <2>6
<1>4. CASE ~BlankErased(k) /\ deed.hint = NoHint
           /\ (EndsWord(k, deed) \/ (k = "backspace" /\ ~composing))
  <2>1. echoes' = {} /\ hint' = deed.hint
    BY <1>4 DEF Delivered
  <2> QED
    BY <1>1, <2>1
<1>5. CASE ~BlankErased(k) /\ ~(deed.hint = NoHint
                                /\ (EndsWord(k, deed) \/ (k = "backspace" /\ ~composing)))
  <2> DEFINE held == IF echoes = {} /\ hint = NoHint /\ deed.hint # NoHint
                     THEN {Bound(t) : t \in surrounding} ELSE echoes
             recorded == UNION {Record(e, k, deed) : e \in held}
  <2>1. echoes' = recorded /\ hint' = IF held # {} /\ recorded = {} THEN NoHint ELSE deed.hint
    BY <1>5 DEF Delivered
  <2>2. held = echoes \/ (echoes = {} /\ hint = NoHint /\ held = {Bound(t) : t \in surrounding})
    OBVIOUS
  <2>3. \A f \in recorded : \E e \in held : f \in Record(e, k, deed)
    <3> HIDE DEF held
    <3> QED
      OBVIOUS
  <2> HIDE DEF held, recorded
  <2>4. hint' \in HintSet /\ \A f \in echoes' : hint' = deed.hint
    BY <1>1, <2>1
  <2> QED
    BY <2>1, <2>2, <2>3, <2>4
<1> QED
  BY <1>3, <1>4, <1>5

\* A key press.
LEMMA PressKeeps ==
  ASSUME EchoInv, NEW k \in Strokes, Press(k)
  PROVE  EchoInv'
<1>1. PICK deed \in Deeds(k) :
        /\ wordLen' = deed.wordLen /\ composing' = deed.composing
        /\ Delivered(k, deed)
        /\ \E texts \in {AppliedAll(client, deed.edits)} :
           \E outcome \in Outcomes(k, After(client, texts)) :
             /\ client' = After(client, texts \o outcome)
             /\ reports' \in {reports \o (texts \o outcome)}
                             \cup (IF texts \o outcome = <<>> THEN {} ELSE {Append(reports, client')})
        /\ astray' = (echoes' # {} /\ IF echoes = {} THEN ~Current(surrounding, reports) ELSE astray)
        /\ ahead' = (ahead /\ echoes' # {}) /\ surrounding' = surrounding
  BY Zenon DEF Press
<1>2. /\ WordTyped /\ client \in Seq(Chars) /\ reports \in Seq(Seq(Chars))
      /\ surrounding \subseteq Seq(Chars) /\ astray \in BOOLEAN /\ ahead \in BOOLEAN
      /\ (reports # <<>> => Last(reports) = client)
      /\ (reports = <<>> => surrounding \subseteq {client})
  BY DEF EchoInv, EchoTyped
<1>3. /\ deed.edits \in Edits \X Edits
      /\ deed.wordLen \in 0..MaxLetters /\ deed.composing \in BOOLEAN
      /\ (deed.composing => deed.wordLen > 0)
      /\ ~IsOpaque(k) => Shaped(deed.edits)
  BY <1>2, DeedTyped DEF IsOpaque
<1> DEFINE texts == AppliedAll(client, deed.edits)
<1>4. texts \in Seq(Seq(Chars)) /\ After(client, texts) \in Seq(Chars)
  BY <1>2, <1>3, AppliedAllTexts
<1> HIDE DEF texts
<1>5. PICK outcome \in Outcomes(k, After(client, texts)) :
        /\ client' = After(client, texts \o outcome)
        /\ \/ reports' = reports \o (texts \o outcome)
           \/ texts \o outcome # <<>> /\ reports' = Append(reports, client')
  BY <1>1 DEF texts
<1> DEFINE passed == texts \o outcome
<1>6. passed \in Seq(Seq(Chars)) /\ (~IsOpaque(k) => passed = texts)
  BY <1>4, PassedTexts DEF IsOpaque
<1> HIDE DEF passed
<1>7. /\ client' = After(client, passed)
      /\ reports' = reports \o passed \/ (passed # <<>> /\ reports' = Append(reports, client'))
  BY <1>5 DEF passed
<1>7p. Passes(client, reports, passed, client', reports')
  BY <1>2, <1>7, Zenon DEF Passes
<1>8. /\ client' \in Seq(Chars) /\ reports' \in Seq(Seq(Chars))
      /\ (reports' # <<>> => Last(reports') = client')
      /\ (reports' = <<>> => reports = <<>> /\ passed = <<>> /\ client' = client)
  BY <1>2, <1>6, <1>7p, Passing
<1>9. hint' \in HintSet
  BY <1>1, DeliveredForm
<1>10. PICK held :
         /\ held = echoes \/ (echoes = {} /\ held = {Bound(t) : t \in surrounding} /\ hint = NoHint)
         /\ \A f \in echoes' :
              /\ \E e \in held : f \in Record(e, k, deed)
              /\ \/ hint' = deed.hint
                 \/ f.opaque = "none" /\ ToldBy(hint', LastText(f))
  BY <1>1, DeliveredForm
<1>11. astray' \in BOOLEAN /\ ahead' \in BOOLEAN
  BY <1>1, <1>2
<1> DEFINE calm == ~astray'  exactly == ~astray' /\ ~ahead'
<1>12. calm \in BOOLEAN /\ exactly \in BOOLEAN /\ (exactly => calm)
  OBVIOUS
<1>13. ASSUME NEW e \in held, echoes' # {}
       PROVE  /\ Tracks(e, client, reports, calm, exactly)
              /\ \A t \in surrounding : Shows(e)[1] = t
              /\ ToldOf(wordLen, composing, hint, e)
  <2>1. CASE e \in echoes
    <3>1. astray' = astray /\ ahead' = ahead
      BY <1>1, <1>2, <1>13, <2>1
    <3> QED
      BY <2>1, <3>1, Zenon DEF EchoInv
  <2>2. CASE echoes = {} /\ hint = NoHint /\ e \in {Bound(t) : t \in surrounding}
    <3>1. PICK t \in surrounding : e = Bound(t)
      BY <2>2
    <3>2. calm => surrounding = {client} /\ reports = <<>>
      BY <1>1, <1>13, <2>2 DEF Current
    <3>3. /\ t \in Seq(Chars) /\ (reports = <<>> => t = client) /\ (calm => t = client)
          /\ (exactly => reports = <<>>)
      BY <1>2, <3>2
    <3> HIDE DEF calm, exactly
    <3>4. Tracks(Bound(t), client, reports, calm, exactly) /\ Shows(Bound(t))[1] = t
      BY <1>2, <1>12, <3>3, BoundTracks
    <3>5. \A s \in surrounding : s = t
      BY DEF EchoInv
    <3> QED
      BY <2>2, <3>1, <3>4, <3>5, NoHintTold
  <2> QED
    BY <1>10, <1>13, <2>1, <2>2
<1>14. ASSUME NEW f \in echoes'
       PROVE  /\ Tracks(f, client', reports', calm, exactly)
              /\ \A t \in surrounding' : Shows(f)[1] = t
              /\ ToldOf(wordLen', composing', hint', f)
  <2>1. PICK e \in held : f \in Record(e, k, deed)
    BY <1>10
  <2>2. /\ Tracks(e, client, reports, calm, exactly)
        /\ \A t \in surrounding : Shows(e)[1] = t
        /\ ToldOf(wordLen, composing, hint, e)
    BY <1>13
  <2> HIDE DEF calm, exactly
  <2>3. Tracks(f, client', reports', calm, exactly) /\ Shows(f)[1] = Shows(e)[1]
    <3>1. ~IsOpaque(k) => passed = AppliedAll(client, deed.edits)
      BY <1>6 DEF texts
    <3> HIDE DEF texts, passed
    <3> QED
      BY <1>2, <1>3, <1>6, <1>7p, <1>12, <2>1, <2>2, <3>1, PressTracks
  <2>4. ToldOf(deed.wordLen, deed.composing, deed.hint, f)
    <3>1. Proper(e)
      BY <2>2 DEF Tracks
    <3> QED
      BY <1>2, <2>1, <2>2, <3>1, PressTold
  <2>5. ToldOf(wordLen', composing', hint', f)
    <3>1. CASE hint' = deed.hint
      BY <1>1, <2>4, <3>1
    <3>2. CASE f.opaque = "none" /\ ToldBy(hint', LastText(f))
      BY <3>2, Zenon DEF ToldOf
    <3> QED
      BY <1>10, <3>1, <3>2
  <2> QED
    BY <1>1, <2>2, <2>3, <2>5
<1>15. \A f, g \in echoes' : f = g
  <2> SUFFICES ASSUME NEW f \in echoes', NEW g \in echoes' PROVE f = g
    OBVIOUS
  <2>1. PICK e \in held : f \in Record(e, k, deed)
    BY <1>10
  <2>2. PICK x \in held : g \in Record(x, k, deed)
    BY <1>10
  <2>3. x = e
    BY <1>10 DEF EchoInv
  <2> QED
    BY <2>1, <2>2, <2>3, RecordOne
<1>16. EchoTyped'
  BY <1>1, <1>2, <1>3, <1>8, <1>9, <1>11 DEF EchoTyped, WordTyped
<1>17. /\ (reports' = <<>> => surrounding' \subseteq {client'})
       /\ \A s, t \in surrounding' : s = t
  BY <1>1, <1>2, <1>8 DEF EchoInv
<1> QED
  BY <1>8, <1>14, <1>15, <1>16, <1>17, Zenon DEF EchoInv

-----------------------------------------------------------------------------
(* What a report does to the projection.                                   *)

\* A text after the outcome of an opaque key, which added whitespace: a break
\* begins a sentence, and so does any whitespace after a stop.
LEMMA GapBegins ==
  ASSUME NEW u \in Seq(Chars), NEW t \in Seq(Chars), IsPrefix(u, t),
         Blank(SubSeq(t, Len(u) + 1, Len(t)))
  PROVE  /\ Contains(SubSeq(t, Len(u) + 1, Len(t)), "n") => Begins(t)
         /\ t # u /\ Ready(u) => Begins(t)
<1>1. Len(u) \in Nat /\ Len(t) \in Nat /\ Len(u) <= Len(t) /\ \A i \in 1..Len(u) : u[i] = t[i]
  BY DEF IsPrefix
<1>2. /\ WhiteFrom(t, Len(u) + 1)
      /\ Contains(SubSeq(t, Len(u) + 1, Len(t)), "n") =>
           \E i \in (Len(u) + 1)..Len(t) : Break(t[i])
  <2>1. Len(u) \in 0..Len(t)
    BY <1>1
  <2> QED
    BY <2>1, RestOf
<1>3. ASSUME NEW i \in (Len(u) + 1)..Len(t), Break(t[i]) PROVE Begins(t)
  <2>1. i \in 1..Len(t) /\ WhiteFrom(t, i)
    BY <1>1, <1>2 DEF WhiteFrom
  <2> QED
    BY <1>3, <2>1 DEF Begins
<1>4. ASSUME t # u, Ready(u) PROVE Begins(t)
  <2>1. Len(u) < Len(t)
    <3>1. Len(u) # Len(t)
      <4> SUFFICES ASSUME Len(u) = Len(t) PROVE FALSE
        OBVIOUS
      <4> QED
        BY <1>1, <1>4, SameText
    <3> QED
      BY <1>1, <3>1
  <2>2. \A i \in 1..Len(u) : WhiteFrom(u, i) => WhiteFrom(t, i)
    BY <1>1, <1>2 DEF WhiteFrom
  <2>3. CASE WhiteFrom(u, 1)
    <3>1. WhiteFrom(t, 1)
      BY <1>1, <1>2, <2>3 DEF WhiteFrom
    <3> QED
      BY <3>1 DEF Begins
  <2>4. ASSUME NEW i \in 1..Len(u), Break(u[i]), WhiteFrom(u, i) PROVE Begins(t)
    <3>1. i \in 1..Len(t) /\ Break(t[i]) /\ WhiteFrom(t, i)
      BY <1>1, <2>2, <2>4
    <3> QED
      BY <3>1 DEF Begins
  <2>5. ASSUME NEW i \in 1..(Len(u) - 1), Stop(u[i]), WhiteFrom(u, i + 1) PROVE Begins(t)
    <3>1. i \in 1..(Len(t) - 1) /\ i \in 1..Len(u) /\ i + 1 \in 1..Len(u)
      BY <1>1
    <3>2. Stop(t[i]) /\ WhiteFrom(t, i + 1)
      BY <1>1, <2>2, <2>5, <3>1
    <3> QED
      BY <3>1, <3>2 DEF Begins
  <2>6. CASE StopsEnd(u, Len(u), 1)
    <3>1. 1 <= Len(u) /\ Stop(u[Len(u)])
      BY <1>1, <2>6 DEF StopsEnd
    <3>2. Len(u) \in 1..(Len(t) - 1) /\ Stop(t[Len(u)])
      BY <1>1, <2>1, <3>1
    <3> QED
      BY <1>2, <3>2 DEF Begins
  <2> QED
    BY <1>4, <2>3, <2>4, <2>5, <2>6 DEF Ready, Begins
<1> QED
  BY <1>2, <1>3, <1>4

\* The report t is next, r are those after it.
ComesNext(q, s, e, t, r, c) ==
  /\ s <= Len(q) /\ Before(Shows(e), q, s) = t
  /\ r = SubSeq(q, s + 1, Len(q)) /\ (r = <<>> => t = c)

\* What is left of the projection e from the newest image the report t fits.
Newest(e, t, m, f) ==
  /\ Shows(e)[m] = t
  /\ \A j \in 1..Len(Shows(e)) : Shows(e)[j] = t => j <= m
  /\ Shows(f) = SubSeq(Shows(e), m, Len(Shows(e)))
  /\ f.opaque = e.opaque /\ LastText(f) = LastText(e)

OnlyFit(e, t, m) == \A j \in 1..Len(Shows(e)) : Shows(e)[j] = t => j = m

\* What is left tracks the reports after it.
LEMMA EchoTracks ==
  ASSUME NEW c \in Seq(Chars), NEW q \in Seq(Seq(Chars)),
         NEW calm \in BOOLEAN, NEW exactly \in BOOLEAN, NEW still \in BOOLEAN,
         NEW e, Tracks(e, c, q, calm, exactly), NEW t \in Seq(Chars),
         NEW s \in {0, 1}, NEW r, ComesNext(q, s, e, t, r, c),
         NEW m \in 1..Len(Shows(e)), NEW f, Proper(f), Newest(e, t, m, f),
         still => r = <<>> \/ (exactly /\ OnlyFit(e, t, m))
  PROVE  Tracks(f, c, r, calm, still) /\ Shows(f)[1] = t
<1>n. /\ s <= Len(q) /\ Before(Shows(e), q, s) = t
      /\ r = SubSeq(q, s + 1, Len(q)) /\ (r = <<>> => t = c)
  BY Zenon DEF ComesNext
<1>w. /\ Shows(e)[m] = t
      /\ \A j \in 1..Len(Shows(e)) : Shows(e)[j] = t => j <= m
      /\ Shows(f) = SubSeq(Shows(e), m, Len(Shows(e)))
      /\ f.opaque = e.opaque /\ LastText(f) = LastText(e)
  BY Zenon DEF Newest
<1>o. still => r = <<>> \/ (exactly /\ \A j \in 1..Len(Shows(e)) : Shows(e)[j] = t => j = m)
  BY Zenon DEF OnlyFit
<1> DEFINE T == Shows(e)  C == Seq(Chars)
<1>1. /\ T \in Seq(C) /\ q \in Seq(C) /\ Len(T) \in Nat /\ Len(q) \in Nat
      /\ m \in 1..Len(T) /\ Before(T, q, s) = T[m]
      /\ \A j \in 1..Len(T) : T[j] = T[m] => j <= m
      /\ still => r = <<>> \/ (exactly /\ \A j \in 1..Len(T) : T[j] = T[m] => j = m)
  <2>1. Proper(e)
    BY Zenon DEF Tracks
  <2>2. T \in Seq(C) /\ Len(T) \in Nat
    BY <2>1, ShowsTexts
  <2>3. q \in Seq(C) /\ m \in 1..Len(T) /\ T[m] = t
    BY <1>w
  <2> HIDE DEF T, C
  <2>4. Len(q) \in Nat
    BY <2>3
  <2> USE DEF T, C
  <2> QED
    BY <1>n, <1>w, <1>o, <2>2, <2>3, <2>4, Zenon
<1> HIDE DEF T, C
<1>2. SubSeq(T, m, Len(T))[1] = T[m]
  BY <1>1
<1>3. r = <<>> => Len(q) = s
  <2>1. Len(r) = Len(q) - s /\ Len(<<>>) = 0
    BY <1>1, <1>n
  <2>2. r = <<>> => Len(r) = 0
    BY <2>1, Zenon
  <2> QED
    BY <1>1, <1>n, <2>1, <2>2
<1>4. ASSUME Fits(T, q, exactly) PROVE Fits(SubSeq(T, m, Len(T)), r, still)
  <2>1. still => \/ Len(q) = s
                 \/ exactly /\ \A j \in 1..Len(T) : T[j] = T[m] => j = m
    BY <1>1, <1>3
  <2> QED
    BY <1>1, <1>4, <1>n, <2>1, DropsFit
<1>5. Shows(f) = SubSeq(T, m, Len(T)) /\ Shows(f)[1] = t
  BY <1>2, <1>w DEF T
<1>6. f.opaque = "none" => (calm => LastText(f) = c) /\ Fits(Shows(f), r, still)
  BY <1>4, <1>5, <1>w DEF Tracks, T
<1> QED
  BY <1>5, <1>6, <1>n, Zenon DEF Tracks


\* A report t comes in, or comes again (s = 0), with r still to come.
Comes(s, t, r) ==
  /\ s <= Len(reports) /\ r = SubSeq(reports, s + 1, Len(reports))
  /\ s = 0 => t \in surrounding
  /\ s = 1 => t = reports[1]
  /\ r = <<>> => t = client
  /\ Reconcile(t, r) /\ ahead' = (r # <<>> /\ (ahead \/ Alike(t)))

\* It is reconciled.
LEMMA ReconcileKeeps ==
  ASSUME EchoInv, NEW s \in {0, 1}, NEW t \in Seq(Chars), NEW r, Comes(s, t, r)
  PROVE  /\ hint' \in HintSet /\ astray' \in BOOLEAN /\ ahead' \in BOOLEAN
         /\ \A f, g \in echoes' : f = g
         /\ \A f \in echoes' : /\ Tracks(f, client, r, ~astray', ~astray' /\ ~ahead')
                               /\ Shows(f)[1] = t
                               /\ ToldOf(wordLen, composing, hint', f)
<1>1. /\ WordTyped /\ hint \in HintSet /\ client \in Seq(Chars) /\ reports \in Seq(Seq(Chars))
      /\ astray \in BOOLEAN /\ ahead \in BOOLEAN
  BY DEF EchoInv, EchoTyped, WordTyped
<1>2. /\ \A e, f \in echoes : e = f
      /\ \A e \in echoes : /\ Tracks(e, client, reports, ~astray, ~astray /\ ~ahead)
                           /\ \A u \in surrounding : Shows(e)[1] = u
                           /\ ToldOf(wordLen, composing, hint, e)
  BY DEF EchoInv
<1>c. /\ s <= Len(reports) /\ r = SubSeq(reports, s + 1, Len(reports))
      /\ s = 0 => t \in surrounding
      /\ s = 1 => t = reports[1]
      /\ r = <<>> => t = client
  BY Zenon DEF Comes
<1>a. Reconcile(t, r) /\ (ahead' <=> (r # <<>> /\ (ahead \/ Alike(t)))) /\ ahead' \in BOOLEAN
  <2>1. Reconcile(t, r) /\ ahead' = (r # <<>> /\ (ahead \/ Alike(t)))
    BY Zenon DEF Comes
  <2> QED
    BY <2>1, Zenon
<1>d. r = <<>> => t = client
  BY <1>c
<1>3. ahead' \in BOOLEAN /\ r \in Seq(Seq(Chars))
  BY <1>1, <1>a, <1>c
<1>4. CASE echoes = {}
  <2>1. hint' = NoHint /\ echoes' = {} /\ astray' = astray
    BY <1>4, <1>a, Zenon DEF Reconcile
  <2> QED
    BY <1>1, <1>3, <2>1, HintForms
<1>5. ASSUME NEW e \in echoes
      PROVE  /\ hint' \in HintSet /\ astray' \in BOOLEAN
             /\ \A f, g \in echoes' : f = g
             /\ \A f \in echoes' : /\ Tracks(f, client, r, ~astray', ~astray' /\ ~ahead')
                                   /\ Shows(f)[1] = t
                                   /\ ToldOf(wordLen, composing, hint', f)
  <2> DEFINE known == Acknowledge(e, t)
  <2>1. Proper(e) /\ Tracks(e, client, reports, ~astray, ~astray /\ ~ahead)
        /\ ToldOf(wordLen, composing, hint, e) /\ echoes = {e}
    BY <1>2 DEF Tracks
  <2>2. UNION {Acknowledge(x, t) : x \in echoes} = known
    BY <2>1
  <2>3. /\ known # {} =>
              /\ echoes' = known /\ hint' = hint
              /\ astray' = IF \E f \in known : e.opaque # f.opaque THEN ~Current({t}, r) ELSE astray
        /\ known = {} => echoes' = {Bound(t)} /\ hint' = HintOf(t) /\ astray' = ~Current({t}, r)
    <3> HIDE DEF known
    <3> QED
      BY <1>a, <2>1, <2>2 DEF Reconcile
  <2>4. (~Current({t}, r)) \in BOOLEAN /\ (Current({t}, r) => t = client /\ r = <<>>)
    <3>1. {t} = {client} => t = client
      OBVIOUS
    <3>2. Current({t}, r) => t = client /\ r = <<>>
      BY <3>1, Zenon DEF Current
    <3>3. Current({t}, r) \in BOOLEAN
      BY Zenon DEF Current
    <3> QED
      BY <3>2, <3>3
  <2>5. Before(Shows(e), reports, s) = t
    BY <1>2, <1>c DEF Before
  <2> HIDE DEF known
  \* What holds of the projection bound to t.
  <2>6. ASSUME astray' = ~Current({t}, r)
        PROVE  Tracks(Bound(t), client, r, ~astray', ~astray' /\ ~ahead') /\ Shows(Bound(t))[1] = t
    <3> DEFINE calm == ~astray'  exactly == ~astray' /\ ~ahead'
    <3>1. /\ calm \in BOOLEAN /\ exactly \in BOOLEAN
          /\ (calm => t = client) /\ (exactly => r = <<>>)
      BY <2>4, <2>6
    <3> HIDE DEF calm, exactly
    <3>2. Tracks(Bound(t), client, r, calm, exactly) /\ Shows(Bound(t))[1] = t
      BY <1>1, <1>3, <1>d, <3>1, BoundTracks
    <3> QED
      BY <3>2 DEF calm, exactly
  <2>7. Bound(t).opaque = "none" /\ LastText(Bound(t)) = t
    BY BoundShows
  <2>8. CASE known = {}
    <3>1. echoes' = {Bound(t)} /\ hint' = HintOf(t) /\ astray' = ~Current({t}, r)
      BY <2>3, <2>8
    <3>2. hint' \in HintSet /\ ToldBy(hint', t)
      BY <3>1, HintOfTold
    <3>3. ToldOf(wordLen, composing, hint', Bound(t))
      BY <2>7, <3>2, Zenon DEF ToldOf
    <3> QED
      BY <2>4, <2>6, <3>1, <3>2, <3>3
  <2>9. CASE known # {}
    <3>1. echoes' = known /\ hint' = hint /\ \A f, g \in known : f = g
      BY <2>1, <2>3, <2>9, AcknowledgeShows DEF known
    <3>2. ASSUME NEW f \in known
          PROVE  /\ astray' \in BOOLEAN
                 /\ Tracks(f, client, r, ~astray', ~astray' /\ ~ahead') /\ Shows(f)[1] = t
                 /\ ToldOf(wordLen, composing, hint, f)
      <4>1. astray' = IF e.opaque # f.opaque THEN ~Current({t}, r) ELSE astray
        BY <2>3, <2>9, <3>1
      <4>2. Proper(f) /\
              \/ \E m \in 1..Len(Shows(e)) :
                   /\ Shows(e)[m] = t /\ \A j \in 1..Len(Shows(e)) : Shows(e)[j] = t => j <= m
                   /\ Shows(f) = SubSeq(Shows(e), m, Len(Shows(e)))
                   /\ f.opaque = e.opaque /\ LastText(f) = LastText(e)
              \/ /\ \A j \in 1..Len(Shows(e)) : Shows(e)[j] # t
                 /\ e.opaque # "none" /\ f = Bound(t)
                 /\ IsPrefix(LastText(e), t) /\ Blank(Gap(e, t))
                 /\ e.opaque = "return" => Contains(Gap(e, t), "n")
        BY <2>1, AcknowledgeShows DEF known
      <4>3. ASSUME NEW m \in 1..Len(Shows(e)), Shows(e)[m] = t,
                   \A j \in 1..Len(Shows(e)) : Shows(e)[j] = t => j <= m,
                   Shows(f) = SubSeq(Shows(e), m, Len(Shows(e))),
                   f.opaque = e.opaque, LastText(f) = LastText(e)
            PROVE  /\ astray' \in BOOLEAN
                   /\ Tracks(f, client, r, ~astray', ~astray' /\ ~ahead') /\ Shows(f)[1] = t
                   /\ ToldOf(wordLen, composing, hint, f)
        <5> DEFINE calm == ~astray  exactly == ~astray /\ ~ahead  still == ~astray /\ ~ahead'
        <5>1. astray' = astray
          BY <4>1, <4>3
        <5>2. ~Alike(t) => \A j \in 1..Len(Shows(e)) : Shows(e)[j] = t => j = m
          <6>1. DOMAIN e.images = 1..Len(Shows(e))
                /\ \A i \in 1..Len(Shows(e)) : Shows(e)[i] = TextOf(e, e.images[i])
            BY <2>1, ShowsTexts, ProperEcho
          <6> QED
            BY <4>3, <6>1, Zenon DEF Alike
        <5>3. calm \in BOOLEAN /\ exactly \in BOOLEAN /\ still \in BOOLEAN
          OBVIOUS
        <5>4. still => r = <<>> \/ (exactly /\ OnlyFit(e, t, m))
          BY <1>a, <5>2 DEF OnlyFit
        <5>5. Tracks(e, client, reports, calm, exactly)
          BY <2>1
        <5>5n. ComesNext(reports, s, e, t, r, client)
          BY <1>c, <2>5, Zenon DEF ComesNext
        <5>5w. Newest(e, t, m, f) /\ Proper(f)
          BY <4>2, <4>3, Zenon DEF Newest
        <5> HIDE DEF calm, exactly, still
        <5>6. Tracks(f, client, r, calm, still) /\ Shows(f)[1] = t
          BY <1>1, <5>3, <5>4, <5>5, <5>5n, <5>5w, EchoTracks
        <5>7. ToldOf(wordLen, composing, hint, f)
          BY <2>1, <4>3, Zenon DEF ToldOf
        <5> QED
          BY <1>1, <5>1, <5>6, <5>7 DEF calm, still
      <4>4. ASSUME \A j \in 1..Len(Shows(e)) : Shows(e)[j] # t,
                   e.opaque # "none", f = Bound(t),
                   IsPrefix(LastText(e), t), Blank(Gap(e, t)),
                   e.opaque = "return" => Contains(Gap(e, t), "n")
            PROVE  /\ astray' \in BOOLEAN
                   /\ Tracks(f, client, r, ~astray', ~astray' /\ ~ahead') /\ Shows(f)[1] = t
                   /\ ToldOf(wordLen, composing, hint, f)
        <5>1. astray' = ~Current({t}, r)
          BY <2>7, <4>1, <4>4
        <5>2. LastText(e) \in Seq(Chars) /\ t # LastText(e)
          <6>1. LastText(e) = Shows(e)[Len(Shows(e))] /\ Len(Shows(e)) \in Nat \ {0}
                /\ LastText(e) \in Seq(Chars)
            BY <2>1, ShowsTexts
          <6>2. Len(Shows(e)) \in 1..Len(Shows(e))
            BY <6>1
          <6> QED
            BY <4>4, <6>1, <6>2
        <5>3. e.opaque = "return" \/ Ready(LastText(e)) => Begins(t)
          BY <4>4, <5>2, GapBegins DEF Gap
        <5>4. /\ ~Awaits(hint) /\ hint.spaces = 0
              /\ e.opaque = "tab" /\ Starts(hint) => Ready(LastText(e))
          BY <2>1, <4>4, Zenon DEF ToldOf
        <5>5. e.opaque \in {"return", "tab"}
          BY <2>1, <4>4, ProperEcho DEF Kinds
        <5>6. Starts(hint) => Begins(t)
          BY <5>3, <5>4, <5>5
        <5>7. ToldBy(hint, t)
          <6>1. hint.spaces \in Nat
            BY <1>1, HintFields
          <6> QED
            BY <5>4, <5>6, <6>1 DEF ToldBy
        <5>8. ToldOf(wordLen, composing, hint, Bound(t))
          BY <2>7, <5>7, Zenon DEF ToldOf
        <5> QED
          BY <2>4, <2>6, <4>4, <5>1, <5>8
      <4> QED
        BY <4>2, <4>3, <4>4
    <3> QED
      BY <1>1, <2>9, <3>1, <3>2
  <2> QED
    BY <2>8, <2>9
<1> QED
  BY <1>3, <1>4, <1>5

\* The next report.
LEMMA ReportKeeps ==
  ASSUME EchoInv, Report
  PROVE  EchoInv'
<1> DEFINE t == Head(reports)  r == Tail(reports)
<1>1. /\ reports # <<>> /\ surrounding' = {t} /\ reports' = r
      /\ Reconcile(t, r) /\ ahead' = (r # <<>> /\ (ahead \/ Alike(t)))
      /\ wordLen' = wordLen /\ composing' = composing /\ client' = client
  BY Zenon DEF Report
<1>2. /\ WordTyped /\ client \in Seq(Chars) /\ reports \in Seq(Seq(Chars))
      /\ reports # <<>> => Last(reports) = client
  BY DEF EchoInv, EchoTyped
<1>3. /\ t = reports[1] /\ r = SubSeq(reports, 1 + 1, Len(reports)) /\ 1 <= Len(reports)
      /\ t \in Seq(Chars) /\ r \in Seq(Seq(Chars))
      /\ r = <<>> => t = client
      /\ r # <<>> => Last(r) = client
  <2> DEFINE C == Seq(Chars)
  <2>1. reports \in Seq(C) /\ reports # <<>> /\ Last(reports) = client
    BY <1>1, <1>2
  <2> HIDE DEF C
  <2>2. Len(reports) \in Nat \ {0}
    BY <2>1
  <2>3. /\ t = reports[1] /\ r = SubSeq(reports, 1 + 1, Len(reports)) /\ t \in C /\ r \in Seq(C)
        /\ Len(r) = Len(reports) - 1 /\ \A i \in 1..Len(r) : r[i] = reports[i + 1]
    BY <2>1, <2>2
  <2> HIDE DEF t, r
  <2>4. r = <<>> => t = client
    <3>1. Len(<<>>) = 0
      OBVIOUS
    <3>2. r = <<>> => Len(r) = 0
      BY <3>1, Zenon
    <3>3. Len(r) = 0 => Len(reports) = 1
      BY <2>2, <2>3
    <3>4. Len(reports) = 1 => t = client
      BY <2>1, <2>3 DEF Last
    <3> QED
      BY <3>2, <3>3, <3>4
  <2>5. r # <<>> => Last(r) = client
    <3> SUFFICES ASSUME r # <<>> PROVE Last(r) = client
      OBVIOUS
    <3>1. Len(r) # 0
      BY <2>3
    <3>2. Len(r) \in 1..Len(r) /\ Len(r) + 1 = Len(reports)
      BY <2>2, <2>3, <3>1
    <3> QED
      BY <2>1, <2>3, <3>2 DEF Last
  <2> QED
    BY <2>2, <2>3, <2>4, <2>5 DEF C
<1>4. Comes(1, t, r)
  <2>1. 1 # 0
    OBVIOUS
  <2> QED
    BY <1>1, <1>3, <2>1, Zenon DEF Comes
<1> HIDE DEF t, r
<1>5. /\ hint' \in HintSet /\ astray' \in BOOLEAN /\ ahead' \in BOOLEAN
      /\ \A f, g \in echoes' : f = g
      /\ \A f \in echoes' : /\ Tracks(f, client, r, ~astray', ~astray' /\ ~ahead')
                            /\ Shows(f)[1] = t
                            /\ ToldOf(wordLen, composing, hint', f)
  <2>1. 1 \in {0, 1}
    OBVIOUS
  <2> QED
    BY <1>3, <1>4, <2>1, ReconcileKeeps
<1>6. EchoTyped'
  <2>1. surrounding' \subseteq Seq(Chars)
    BY <1>1, <1>3
  <2> QED
    BY <1>1, <1>2, <1>3, <1>5, <2>1 DEF EchoTyped, WordTyped
<1>7. \A f \in echoes' : /\ Tracks(f, client', reports', ~astray', ~astray' /\ ~ahead')
                         /\ \A u \in surrounding' : Shows(f)[1] = u
                         /\ ToldOf(wordLen', composing', hint', f)
  BY <1>1, <1>5
<1>8. /\ \A u, v \in surrounding' : u = v
      /\ reports' # <<>> => Last(reports') = client'
      /\ reports' = <<>> => surrounding' \subseteq {client'}
  BY <1>1, <1>3
<1> QED
  BY <1>5, <1>6, <1>7, <1>8, Zenon DEF EchoInv

\* The cached report, read again.
LEMMA RepeatKeeps ==
  ASSUME EchoInv, Repeat
  PROVE  EchoInv'
<1>1. PICK t \in surrounding :
        Reconcile(t, reports) /\ ahead' = (reports # <<>> /\ (ahead \/ Alike(t)))
  BY Zenon DEF Repeat
<1>2. /\ wordLen' = wordLen /\ composing' = composing /\ surrounding' = surrounding
      /\ client' = client /\ reports' = reports
  BY DEF Repeat
<1>3. /\ WordTyped /\ client \in Seq(Chars) /\ reports \in Seq(Seq(Chars)) /\ t \in Seq(Chars)
      /\ surrounding \subseteq Seq(Chars) /\ \A u, v \in surrounding : u = v
      /\ reports # <<>> => Last(reports) = client
      /\ reports = <<>> => surrounding \subseteq {client}
  BY DEF EchoInv, EchoTyped
<1>4. reports = SubSeq(reports, 0 + 1, Len(reports)) /\ 0 <= Len(reports) /\ 0 # 1
  <2> DEFINE C == Seq(Chars)
  <2>1. reports \in Seq(C)
    BY <1>3
  <2> HIDE DEF C
  <2> QED
    BY <2>1
<1>5. Comes(0, t, reports)
  BY <1>1, <1>3, <1>4, Zenon DEF Comes
<1>6. /\ hint' \in HintSet /\ astray' \in BOOLEAN /\ ahead' \in BOOLEAN
      /\ \A f, g \in echoes' : f = g
      /\ \A f \in echoes' : /\ Tracks(f, client, reports, ~astray', ~astray' /\ ~ahead')
                            /\ Shows(f)[1] = t
                            /\ ToldOf(wordLen, composing, hint', f)
  <2>1. 0 \in {0, 1}
    OBVIOUS
  <2> QED
    BY <1>3, <1>5, <2>1, ReconcileKeeps
<1>7. EchoTyped'
  BY <1>2, <1>3, <1>6 DEF EchoTyped, WordTyped
<1>8. \A f \in echoes' : /\ Tracks(f, client', reports', ~astray', ~astray' /\ ~ahead')
                         /\ \A u \in surrounding' : Shows(f)[1] = u
                         /\ ToldOf(wordLen', composing', hint', f)
  <2>1. \A u \in surrounding' : u = t
    BY <1>2, <1>3
  <2> QED
    BY <1>2, <1>6, <2>1
<1>9. /\ \A u, v \in surrounding' : u = v
      /\ reports' # <<>> => Last(reports') = client'
      /\ reports' = <<>> => surrounding' \subseteq {client'}
  BY <1>2, <1>3
<1> QED
  BY <1>6, <1>7, <1>8, <1>9, Zenon DEF EchoInv

\* A report of the client's own waits at the end of the queue.
LEMMA OwnFits ==
  ASSUME NEW T \in Seq(Seq(Chars)), T # <<>>, NEW q \in Seq(Seq(Chars)), NEW t \in Seq(Chars),
         NEW exactly \in BOOLEAN, Fits(T, q, exactly)
  PROVE  Fits(T, Append(q, t), FALSE)
<1> DEFINE C == Seq(Chars)
<1>1. T \in Seq(C) /\ q \in Seq(C) /\ t \in C /\ Fits(T, q, FALSE)
  BY DEF Fits
<1> HIDE DEF C
<1>2. T \o <<>> = T /\ <<>> \in Seq(C) /\ Len(<<>>) = 0
  BY <1>1
<1>3. Follows(Before(T, q, Len(q)), Way(T, <<>>), t)
  <2>1. Len(Way(T, <<>>)) = 1
    BY <1>2 DEF Way
  <2>2. \A i, j \in 1..1 : i = 1 /\ j = 1
    OBVIOUS
  <2> HIDE DEF C
  <2> QED
    BY <2>1, <2>2, Zenon DEF Follows
<1>4. Fits(T \o <<>>, Append(q, t), FALSE)
  BY <1>1, <1>2, <1>3, WayFits
<1> QED
  BY <1>2, <1>4

\* An edit of the client's own.
LEMMA ClientEditsKeeps ==
  ASSUME EchoInv, ClientEdits
  PROVE  EchoInv'
<1>1. /\ client' \in {Shortened(client, IF client = <<>> THEN 0 ELSE 1), <<"x", "s">>}
      /\ reports' = Append(reports, client')
      /\ astray' = (echoes # {})
      /\ wordLen' = wordLen /\ composing' = composing /\ hint' = hint /\ echoes' = echoes
      /\ surrounding' = surrounding /\ ahead' = ahead
  BY DEF ClientEdits
<1>2. /\ WordTyped /\ client \in Seq(Chars) /\ reports \in Seq(Seq(Chars))
      /\ surrounding \subseteq Seq(Chars) /\ ahead \in BOOLEAN
      /\ \A e, f \in echoes : e = f
      /\ \A s, t \in surrounding : s = t
  BY DEF EchoInv, EchoTyped
<1>3. client' \in Seq(Chars)
  <2>1. Shortened(client, IF client = <<>> THEN 0 ELSE 1) \in Seq(Chars)
    <3> DEFINE n == IF client = <<>> THEN 0 ELSE 1
    <3>1. n \in Nat /\ n <= Len(client)
      BY <1>2
    <3> HIDE DEF n
    <3>2. Shortened(client, n) \in Seq(Chars)
      BY <1>2, <3>1, ShortenedText
    <3> QED
      BY <3>2 DEF n
  <2>2. <<"x", "s">> \in Seq(Chars)
    <3>1. "x" \in Chars /\ "s" \in Chars
      BY DEF Chars
    <3> QED
      BY <3>1
  <2> QED
    BY <1>1, <2>1, <2>2
<1>4. reports' \in Seq(Seq(Chars)) /\ reports' # <<>> /\ Last(reports') = client'
  <2> DEFINE C == Seq(Chars)
  <2>1. reports \in Seq(C) /\ client' \in C
    BY <1>2, <1>3
  <2> HIDE DEF C
  <2>2. reports' \in Seq(C) /\ reports' # <<>> /\ reports'[Len(reports')] = client'
    BY <1>1, <2>1, AppendEnd
  <2> QED
    BY <2>2 DEF C, Last
<1>5. ASSUME NEW e \in echoes
      PROVE  /\ Tracks(e, client', reports', ~astray', ~astray' /\ ~ahead')
             /\ \A t \in surrounding : Shows(e)[1] = t
             /\ ToldOf(wordLen, composing, hint, e)
  <2>1. /\ Tracks(e, client, reports, ~astray, ~astray /\ ~ahead)
        /\ \A t \in surrounding : Shows(e)[1] = t
        /\ ToldOf(wordLen, composing, hint, e)
    BY DEF EchoInv
  <2>2. astray' /\ (~astray' <=> FALSE) /\ (~astray' /\ ~ahead' <=> FALSE)
    BY <1>1
  <2>3. Proper(e) /\ (e.opaque = "none" => Fits(Shows(e), reports, ~astray /\ ~ahead))
    BY <2>1, Zenon DEF Tracks
  <2>4. Shows(e) \in Seq(Seq(Chars)) /\ Shows(e) # <<>>
    <3>1. Shows(e) \in Seq(Seq(Chars)) /\ Len(Shows(e)) # 0 /\ Len(<<>>) = 0
      BY <2>3, ShowsTexts
    <3> QED
      BY <3>1, Zenon
  <2>5. e.opaque = "none" => Fits(Shows(e), reports', FALSE)
    <3> DEFINE exactly == ~astray /\ ~ahead
    <3>1. exactly \in BOOLEAN /\ (e.opaque = "none" => Fits(Shows(e), reports, exactly))
      BY <2>3
    <3> HIDE DEF exactly
    <3>2. e.opaque = "none" => Fits(Shows(e), Append(reports, client'), FALSE)
      BY <1>2, <1>3, <2>4, <3>1, OwnFits
    <3> QED
      BY <1>1, <3>2
  <2>6. e.opaque = "none" => Fits(Shows(e), reports', ~astray' /\ ~ahead')
    BY <2>2, <2>5 DEF Fits
  <2>7. Tracks(e, client', reports', ~astray', ~astray' /\ ~ahead')
    BY <1>4, <2>2, <2>3, <2>6, Zenon DEF Tracks
  <2> QED
    BY <2>1, <2>7
<1>6. EchoTyped'
  BY <1>1, <1>2, <1>3, <1>4 DEF EchoTyped, WordTyped
<1> QED
  BY <1>1, <1>2, <1>4, <1>5, <1>6, Zenon DEF EchoInv

\* The adapter drops the text it knows.
LEMMA UnknownKeeps ==
  ASSUME EchoInv, Unknown
  PROVE  EchoInv'
<1>1. /\ surrounding' = {} /\ wordLen' = wordLen /\ composing' = composing /\ hint' = hint
      /\ echoes' = echoes /\ client' = client /\ reports' = reports
      /\ astray' = astray /\ ahead' = ahead
  BY DEF Unknown
<1>2. EchoTyped'
  BY <1>1 DEF EchoInv, EchoTyped, WordTyped
<1>3. /\ \A s, t \in surrounding' : s = t
      /\ surrounding' \subseteq {client'}
      /\ \A e : \A t \in surrounding' : Shows(e)[1] = t
  BY <1>1
<1> QED
  BY <1>1, <1>2, <1>3, Zenon DEF EchoInv

\* The projection is withdrawn.
LEMMA WithdrawKeeps ==
  ASSUME EchoInv, Withdraw
  PROVE  EchoInv'
<1>1. /\ echoes' = {} /\ hint' = NoHint /\ astray' = FALSE /\ ahead' = FALSE
      /\ surrounding' = surrounding
      /\ \/ wordLen' = wordLen /\ composing' = composing
         \/ wordLen' = 0 /\ composing' = FALSE
      /\ \/ client' = client /\ reports' = reports
         \/ client' = client \o Letters(wordLen) /\ reports' = Append(reports, client')
  BY DEF Withdraw
<1>2. /\ WordTyped /\ client \in Seq(Chars) /\ reports \in Seq(Seq(Chars))
      /\ surrounding \subseteq Seq(Chars) /\ \A s, t \in surrounding : s = t
      /\ reports # <<>> => Last(reports) = client
      /\ reports = <<>> => surrounding \subseteq {client}
  BY DEF EchoInv, EchoTyped
<1>3. /\ client' \in Seq(Chars) /\ reports' \in Seq(Seq(Chars))
      /\ reports' # <<>> => Last(reports') = client'
      /\ reports' = <<>> => surrounding \subseteq {client'}
  <2>1. CASE client' = client /\ reports' = reports
    BY <1>2, <2>1
  <2>2. CASE client' = client \o Letters(wordLen) /\ reports' = Append(reports, client')
    <3> DEFINE C == Seq(Chars)
    <3>1. client' \in C
      <4>1. wordLen \in Nat
        BY <1>2, CapsAssumption DEF WordTyped
      <4>2. Letters(wordLen) \in Seq(Chars)
        BY <4>1, LettersText
      <4> QED
        BY <1>2, <2>2, <4>2
    <3>2. reports \in Seq(C)
      BY <1>2
    <3> HIDE DEF C
    <3>3. reports' \in Seq(C) /\ reports' # <<>> /\ reports'[Len(reports')] = client'
      BY <2>2, <3>1, <3>2, AppendEnd
    <3> QED
      BY <3>1, <3>3 DEF C, Last
  <2> QED
    BY <1>1, <2>1, <2>2
<1>4. EchoTyped'
  <2>1. wordLen' \in 0..MaxLetters /\ composing' \in BOOLEAN /\ (composing' => wordLen' > 0)
    <3>1. MaxLetters \in Nat
      BY CapsAssumption
    <3>2. /\ wordLen \in 0..MaxLetters /\ composing \in BOOLEAN /\ (composing => wordLen > 0)
          /\ 0 \in 0..MaxLetters
      BY <1>2, <3>1 DEF WordTyped
    <3>3. CASE wordLen' = wordLen /\ composing' = composing
      BY <3>2, <3>3
    <3>4. CASE wordLen' = 0 /\ composing' = FALSE
      BY <3>2, <3>4
    <3> QED
      BY <1>1, <3>3, <3>4
  <2>2. hint' \in HintSet
    BY <1>1, HintForms
  <2> QED
    BY <1>1, <1>2, <1>3, <2>1, <2>2 DEF EchoTyped, WordTyped
<1> QED
  BY <1>1, <1>2, <1>3, <1>4 DEF EchoInv

-----------------------------------------------------------------------------
(* The theorems.                                                           *)

\* EchoInv at the start ...
LEMMA EchoInitHolds ==
  ASSUME InitEchoes
  PROVE  EchoInv
<1>1. /\ wordLen = 0 /\ composing = FALSE /\ hint = NoHint /\ echoes = {} /\ surrounding = {}
      /\ client \in {<<>>, <<".">>} /\ reports = <<client>> /\ astray = FALSE /\ ahead = FALSE
  BY Zenon DEF InitEchoes
<1>2. client \in Seq(Chars)
  <2>1. "." \in Chars
    BY DEF Chars
  <2>2. <<>> \in Seq(Chars) /\ <<".">> \in Seq(Chars)
    BY <2>1
  <2> QED
    BY <1>1, <2>2, Zenon
<1>3. reports \in Seq(Seq(Chars)) /\ reports # <<>> /\ Last(reports) = client
  <2> DEFINE C == Seq(Chars)
  <2>1. client \in C
    BY <1>2
  <2> HIDE DEF C
  <2>2. <<client>> \in Seq(C) /\ Len(<<client>>) = 1 /\ <<client>>[1] = client
    BY <2>1
  <2>3. <<client>> # <<>>
    <3>1. Len(<<>>) = 0 /\ 1 # 0
      OBVIOUS
    <3> QED
      BY <2>2, <3>1, Zenon
  <2>4. Last(<<client>>) = client
    BY <2>2 DEF Last
  <2> QED
    BY <1>1, <2>2, <2>3, <2>4 DEF C
<1>4. WordTyped
  <2>1. 0 \in 0..MaxLetters
    BY CapsAssumption
  <2> QED
    BY <1>1, <2>1, HintForms DEF WordTyped
<1> QED
  BY <1>1, <1>2, <1>3, <1>4 DEF EchoInv, EchoTyped

\* ... and after every step.
LEMMA EchoStepKeeps ==
  ASSUME EchoInv, [NextEchoes]_echoVars
  PROVE  EchoInv'
<1>1. CASE UNCHANGED echoVars
  <2>1. /\ wordLen' = wordLen /\ composing' = composing /\ hint' = hint /\ echoes' = echoes
        /\ surrounding' = surrounding /\ client' = client /\ reports' = reports
        /\ astray' = astray /\ ahead' = ahead
    BY <1>1 DEF echoVars
  <2> QED
    BY <2>1, Zenon DEF EchoInv, EchoTyped, WordTyped
<1>2. ASSUME NEW k \in Strokes, Press(k) PROVE EchoInv'
  BY <1>2, PressKeeps
<1>3. CASE Withdraw
  BY <1>3, WithdrawKeeps
<1>4. CASE Report
  BY <1>4, ReportKeeps
<1>5. CASE Repeat
  BY <1>5, RepeatKeeps
<1>6. CASE Unknown
  BY <1>6, UnknownKeeps
<1>7. CASE ClientEdits
  BY <1>7, ClientEditsKeeps
<1> QED
  BY <1>1, <1>2, <1>3, <1>4, <1>5, <1>6, <1>7, Zenon DEF NextEchoes

\* The projection, the reports on their way and the text they were bound to
\* belong together in every state (EchoInv).
THEOREM SpecEchoInv == SpecEchoes => []EchoInv
<1>1. InitEchoes => EchoInv
  BY EchoInitHolds
<1>2. EchoInv /\ [NextEchoes]_echoVars => EchoInv'
  BY EchoStepKeeps
<1> QED
  BY <1>1, <1>2, PTL DEF SpecEchoes

\* What the invariant says, property by property.
LEMMA KeptWithinCaps ==
  ASSUME EchoInv
  PROVE  WithinCaps
<1>1. /\ wordLen \in 0..MaxLetters /\ composing \in BOOLEAN /\ (composing => wordLen > 0)
      /\ client \in Seq(Chars) /\ reports \in Seq(Seq(Chars)) /\ {astray, ahead} \subseteq BOOLEAN
      /\ surrounding \subseteq Seq(Chars) /\ hint \in HintSet
  BY DEF EchoInv, EchoTyped, WordTyped
<1>2. hint.kind \in {"none", "awaiting", "start"} /\ {hint.spaces, hint.tail} \subseteq Nat
  BY <1>1, HintFields
<1>3. ASSUME NEW e \in echoes
      PROVE  /\ e.opaque \in {"none", "return", "tab"}
             /\ Len(e.images) \in 1..MaxEchoes /\ Inserted(e.images) <= MaxInserted
             /\ \A i \in DOMAIN e.images : e.images[i].left <= Len(e.base)
  <2>1. Proper(e)
    BY DEF EchoInv, Tracks
  <2>2. e.opaque \in {"none", "return", "tab"}
    BY <2>1, ProperEcho DEF Kinds
  <2>3. Len(e.images) \in Nat \ {0} /\ Len(e.images) <= MaxEchoes /\ Inserted(e.images) <= MaxInserted
    BY <2>1, ProperEcho DEF Proper, Capped
  <2>4. Len(e.images) \in 1..MaxEchoes
    BY <2>3, CapsAssumption
  <2>5. \A i \in DOMAIN e.images : e.images[i].left <= Len(e.base)
    BY <2>1, Zenon DEF Proper
  <2> QED
    BY <2>2, <2>3, <2>4, <2>5
<1> QED
  BY <1>1, <1>2, <1>3, Zenon DEF WithinCaps

\* With no report on the way a projection is down to one image.
LEMMA OneImageLeft ==
  ASSUME NEW T \in Seq(Seq(Chars)), NEW exactly \in BOOLEAN, Fits(T, <<>>, exactly)
  PROVE  Len(T) = 1
<1>1. PICK g \in [0..Len(<<>>) -> 1..Len(T)] : AnswersAt(T, <<>>, g)
  BY DEF Fits
<1>2. Len(<<>>) = 0
  OBVIOUS
<1>3. g[0] = 1 /\ g[0] = Len(T)
  BY <1>1, <1>2, Zenon DEF AnswersAt
<1> QED
  BY <1>3

\* The projection and the hint, once the reports are in.
LEMMA KeptSettled ==
  ASSUME EchoInv
  PROVE  SettledAgrees
<1> SUFFICES ASSUME NEW e \in echoes, reports = <<>>, e.opaque = "none"
             PROVE  /\ LastText(e) = client
                    /\ hint.kind = "start" /\ (wordLen = 0 \/ composing) => HintOf(client).kind = "start"
  BY Zenon DEF SettledAgrees
<1>1. /\ Tracks(e, client, reports, ~astray, ~astray /\ ~ahead)
      /\ ToldOf(wordLen, composing, hint, e) /\ client \in Seq(Chars)
  BY DEF EchoInv, EchoTyped
<1>2. Proper(e) /\ Shows(e)[1] = client /\ Fits(Shows(e), <<>>, ~astray /\ ~ahead)
  BY <1>1, Zenon DEF Tracks
<1>3. Shows(e) \in Seq(Seq(Chars)) /\ LastText(e) = Shows(e)[Len(Shows(e))]
  BY <1>2, ShowsTexts
<1>4. Len(Shows(e)) = 1
  <2> DEFINE exactly == ~astray /\ ~ahead
  <2>1. exactly \in BOOLEAN /\ Fits(Shows(e), <<>>, exactly)
    BY <1>2
  <2> HIDE DEF exactly
  <2> QED
    BY <1>3, <2>1, OneImageLeft
<1>5. LastText(e) = client
  BY <1>2, <1>3, <1>4
<1>6. ASSUME Starts(hint), wordLen = 0 \/ composing PROVE Starts(HintOf(client))
  <2>1. ToldBy(hint, client)
    BY <1>1, <1>5, <1>6, Zenon DEF ToldOf
  <2>2. Begins(client)
    BY <1>6, <2>1 DEF ToldBy
  <2> QED
    BY <1>1, <2>2, HintOfTold
<1> QED
  BY <1>5, <1>6, Zenon DEF Starts

\* The last image, as long as the projection is bound to the client's text.
LEMMA KeptTail ==
  ASSUME EchoInv
  PROVE  TailIsClient
BY Zenon DEF EchoInv, Tracks, TailIsClient

\* A report of an image leaves the binding alone.
LEMMA EchoedStays ==
  ASSUME EchoInv, NEW e \in echoes, e.opaque = "none", NEW t \in Seq(Chars), NEW r,
         NEW j \in 1..Len(Shows(e)), Shows(e)[j] = t, Reconcile(t, r)
  PROVE  astray' = astray
<1>1. Proper(e) /\ echoes = {e}
  BY DEF EchoInv, Tracks
<1>2. Acknowledge(e, t) # {} /\ \A f \in Acknowledge(e, t) : f.opaque = e.opaque
  BY <1>1, AcknowledgeShows
<1>3. UNION {Acknowledge(x, t) : x \in echoes} = Acknowledge(e, t)
  BY <1>1
<1>4. astray' = IF \E x \in echoes, f \in Acknowledge(e, t) : x.opaque # f.opaque
                THEN ~Current({t}, r) ELSE astray
  BY <1>1, <1>2, <1>3, Zenon DEF Reconcile
<1> QED
  BY <1>1, <1>2, <1>4

\* Every step keeps the projection bound, but for the client's own edits.
LEMMA StepBound ==
  ASSUME EchoInv, NextEchoes, ~ahead
  PROVE  BoundByOwnReports
<1> SUFFICES ASSUME NEW e \in echoes, e.opaque = "none", echoes' # {}, ~astray, astray'
             PROVE  client' # client
  BY Zenon DEF BoundByOwnReports
<1>1. /\ Proper(e) /\ Fits(Shows(e), reports, ~astray /\ ~ahead)
      /\ \A t \in surrounding : Shows(e)[1] = t /\ t \in Seq(Chars)
      /\ reports \in Seq(Seq(Chars))
  BY DEF EchoInv, EchoTyped, Tracks
<1>2. ASSUME NEW k \in Strokes, Press(k) PROVE FALSE
  <2>1. astray' = (echoes' # {} /\ IF echoes = {} THEN ~Current(surrounding, reports) ELSE astray)
    BY <1>2, Zenon DEF Press
  <2> QED
    BY <2>1
<1>3. ~Withdraw
  BY DEF Withdraw
<1>4. ASSUME Report PROVE FALSE
  <2>1. reports # <<>> /\ Reconcile(Head(reports), Tail(reports))
    BY <1>4, Zenon DEF Report
  <2>2. PICK g \in [0..Len(reports) -> 1..Len(Shows(e))] : Echoed(Shows(e), reports, g)
    BY <1>1 DEF Fits
  <2>3. 1 \in 1..Len(reports) /\ Head(reports) = reports[1] /\ Head(reports) \in Seq(Chars)
    <3> DEFINE C == Seq(Chars)
    <3>1. reports \in Seq(C)
      BY <1>1
    <3> HIDE DEF C
    <3>2. 1 \in 1..Len(reports) /\ Head(reports) = reports[1] /\ Head(reports) \in C
      BY <2>1, <3>1
    <3> QED
      BY <3>2 DEF C
  <2>4. g[1] \in 1..Len(Shows(e)) /\ Shows(e)[g[1]] = Head(reports)
    <3>1. 1 \in 0..Len(reports)
      BY <2>3
    <3> QED
      BY <2>2, <2>3, <3>1 DEF Echoed
  <2> QED
    BY <2>1, <2>3, <2>4, EchoedStays
<1>5. ASSUME Repeat PROVE FALSE
  <2>1. PICK t \in surrounding : Reconcile(t, reports)
    BY <1>5, Zenon DEF Repeat
  <2>2. 1 \in 1..Len(Shows(e))
    BY <1>1, ShowsTexts
  <2> QED
    BY <1>1, <2>1, <2>2, EchoedStays
<1>6. ~Unknown
  BY DEF Unknown
<1>7. ASSUME ClientEdits PROVE client' # client
  BY <1>7, Zenon DEF ClientEdits
<1> QED
  BY <1>2, <1>3, <1>4, <1>5, <1>6, <1>7, Zenon DEF NextEchoes

\* The projection stays within its caps, and its images within their base
\* (push and edit give it up rather than pass them).
THEOREM SpecWithinCaps == SpecEchoes => []WithinCaps
<1>1. EchoInv => WithinCaps
  BY KeptWithinCaps
<1> QED
  BY <1>1, SpecEchoInv, PTL

\* A projection bound to the client's text shows it, whatever reports are
\* still on the way.
THEOREM SpecTailIsClient == SpecEchoes => []TailIsClient
<1>1. EchoInv => TailIsClient
  BY KeptTail
<1> QED
  BY <1>1, SpecEchoInv, PTL

\* With the reports in, the projection is the client's text, and a sentence
\* start hinted at is one (reconcile_sentence_report, record).
THEOREM SpecSettledAgrees == SpecEchoes => []SettledAgrees
<1>1. EchoInv => SettledAgrees
  BY KeptSettled
<1> QED
  BY <1>1, SpecEchoInv, PTL

\* Reports of what the loop delivered never unbind the projection, unless one
\* of them fitted two images (acknowledge).
THEOREM SpecLateReportsAreEchoes == SpecEchoes => LateReportsAreEchoes
<1>1. EchoInv /\ [NextEchoes]_echoVars => [~ahead => BoundByOwnReports]_echoVars
  BY StepBound
<1> QED
  BY <1>1, SpecEchoInv, PTL DEF SpecEchoes, LateReportsAreEchoes
=============================================================================
