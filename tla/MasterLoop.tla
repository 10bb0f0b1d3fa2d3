------------------------------ MODULE MasterLoop ------------------------------
(***************************************************************************)
(* MasterLoop: what wraps the input core.  It decides which completion a   *)
(* key is feedback on, hides completions the user rejected, accepts one on *)
(* Space only as it is displayed, and leases the two readings of a word to *)
(* the adapter until anything may have changed them.                       *)
(*                                                                         *)
(* The core is modelled by what it may answer a key with (InputCore has    *)
(* the handlers): the word it then holds, its first prediction, whether it *)
(* completes the word with it, and what the action list shows.  The        *)
(* corrections may replace the prediction by any other; when a pair counts *)
(* as rejected often enough, and which frustration signal a key gives, is  *)
(* left open here; Learning has what corrections are made of.              *)
(***************************************************************************)
EXTENDS Naturals, FiniteSets

CONSTANTS
  Completions,   \* the words the engine predicts
  MaxWord        \* longest typed prefix; bounds the model

ASSUME BoundsAssumption == MaxWord \in Nat \ {0}

(* Operators named Slip... are wrong variants of the definition after them. *)

VARIABLES
  enabled,    \* the kill switch of the core
  word,       \* the prefix typed: only its length matters
  owner,      \* "core", or who the open word was handed to: "native", "direct"
  top,        \* the first prediction: a set of at most one
  ghost,      \* the core completes the word with it
  display,    \* completion_display_supported
  readings,   \* language_choice_readings: the word has two readings
  shown,      \* last_shown_ghost: a set of at most one pair
  accept,     \* last_prediction_accept: "none", under 500 ms old, or older
  rejected,   \* the pairs the rejection memory suppresses
  supported,  \* language_choice_supported
  dismissed,  \* language_choice_dismissed
  screen,     \* the completion displayed at the word (history)
  doubt,      \* a chord or a rejection followed its display (history)
  offer,      \* the offer the adapter displays: "none", one that says what
              \* the readings are, or an outdated one (history)
  lease,      \* its revision is language_choice_revision
  lastKey     \* the last key press: "accept" for a completion accepted by Tab
              \* or Right, "space" for one accepted by Space (history)

core     == <<enabled, word, owner, top, ghost, display, readings>>
feedback == <<shown, accept, rejected>>
choice   == <<supported, dismissed, offer, lease>>
history  == <<screen, doubt, lastKey>>
vars     == <<core, feedback, choice, history>>

WordLengths == 1..MaxWord
Pairs == WordLengths \X Completions
Pair(w, t) == IF w = 0 THEN {} ELSE {w} \X t

AtMostOne(S) == {{}} \cup {{x} : x \in S}

Init ==
  /\ enabled = TRUE /\ word = 0 /\ owner = "core" /\ top = {} /\ ghost = FALSE
  /\ display = TRUE /\ readings = FALSE
  /\ shown = {} /\ accept = "none" /\ rejected = {}
  /\ supported = FALSE /\ dismissed = FALSE /\ offer = "none" /\ lease = FALSE
  /\ screen = {} /\ doubt = FALSE /\ lastKey = "none"

-----------------------------------------------------------------------------
(* The language choice.                                                    *)

SlipInvalidate == UNCHANGED lease
\* invalidate_language_choice: any offer out is of an older revision.
Invalidate == lease' = FALSE

\* The readings may be other ones now: an offer on display is outdated.
Rereads(r) ==
  /\ readings' \in r
  /\ offer' = IF offer = "none" THEN "none" ELSE "outdated"

ReadingsOf(w) == IF w = 0 THEN {FALSE} ELSE BOOLEAN

Offerable == supported /\ ~dismissed /\ readings

-----------------------------------------------------------------------------
(* What the core answers a key with.  "shows": the action list displays a  *)
(* completion, hides it, or leaves the display as it is.  "handed": text   *)
(* is delivered with the key forwarded or the display hidden, and the word *)
(* is still open.                                                          *)

Answer(w, t, g, s) ==
  [word |-> w, top |-> t, ghost |-> g, shows |-> s, owner |-> owner, on |-> enabled,
   handed |-> FALSE, commits |-> FALSE, accepts |-> FALSE]

Ended == [Answer(0, {}, FALSE, "hide") EXCEPT !.owner = "core"]

\* A prefix with a prediction or without one, offered as a completion or not.
\* Nothing is offered for a word in the hands of the client.
Predicted(w) ==
  IF owner # "core" \/ ~display \/ w = 0
  THEN {[Answer(w, {}, FALSE, "hide") EXCEPT !.owner = IF w = 0 THEN "core" ELSE owner]}
  ELSE {Answer(w, t, FALSE, "hide") : t \in AtMostOne(Completions)}
       \cup {Answer(w, {c}, TRUE, "show") : c \in Completions}

SlipSpaceDisplayIdentityOk == ghost
\* space_display_identity_ok: the pair on record is the one the core holds.
SpaceDisplayIdentityOk == shown # {} /\ shown = Pair(word, top)

\* Space completes the word: armed in the core (no choice of readings is
\* visible, the completion is) and attested by the identity of the display.
SpaceAccepts ==
  /\ ghost /\ owner = "core" /\ ~(supported /\ readings)
  /\ SpaceDisplayIdentityOk

Keys == {"letter", "backspace", "boundary", "space", "tab", "right", "escape",
         "arrow", "modifier", "kill"}

Accepted == [Ended EXCEPT !.commits = TRUE, !.accepts = TRUE]
Committed == IF word = 0 THEN Ended ELSE [Ended EXCEPT !.commits = TRUE]

Answers(k) ==
  IF ~enabled THEN {[Answer(word, top, ghost, "keep") EXCEPT !.on = (k = "kill")]}
  ELSE
  CASE k = "kill"      -> {[Ended EXCEPT !.on = FALSE]}
    [] k = "modifier"  -> {Answer(word, top, ghost, "keep")}
    [] k = "letter"    -> IF word = MaxWord THEN {} ELSE Predicted(word + 1) \cup
                            {[Answer(word + 1, {}, FALSE, "hide") EXCEPT !.handed = TRUE]}
    [] k = "backspace" -> Predicted(IF word = 0 THEN 0 ELSE word - 1)
    [] k = "boundary"  -> {Committed}
    [] k = "space"     -> {IF SpaceAccepts THEN Accepted ELSE Committed}
    [] k = "tab"       -> {IF ghost THEN Accepted ELSE Committed}
    [] k = "right"     ->       \* a letter of the completion, or the last one
         IF ghost THEN {Accepted} \cup (IF word = MaxWord THEN {}
                                        ELSE {Answer(word + 1, top, TRUE, "show")})
         ELSE {Ended}
    [] k = "escape"    ->       \* without a completion: cancelled, or forwarded
         IF ghost THEN {Answer(word, {}, FALSE, "hide")}
         ELSE {Ended, Answer(word, top, FALSE, "keep")}
    [] k = "arrow"     -> {Ended}

-----------------------------------------------------------------------------
(* handle_key: what is done to the answer.                                 *)

\* apply_correction_override: another word takes the place of the first
\* prediction, and is displayed.
Overridden(a) ==
  IF a.word = 0 \/ a.top = {} \/ a.owner # "core" \/ ~display THEN {a}
  ELSE {a} \cup {[a EXCEPT !.top = {c}, !.ghost = TRUE, !.shows = "show"] : c \in Completions}

Suppressed(a) == Pair(a.word, a.top) \cap rejected # {}

\* enforce_rejection_suppression
Enforced(a) ==
  IF ~Suppressed(a) THEN a
  ELSE [a EXCEPT !.ghost = FALSE, !.shows = IF @ = "show" THEN "hide" ELSE @]

SlipProcessed(a) == Overridden(Enforced(a))
\* The override comes first: what it puts in place is suppressed like any other.
Processed(a) == {Enforced(b) : b \in Overridden(a)}

\* rejections.record: once recorded often enough, the pair is suppressed.
Recorded(pairs) == {rejected, rejected \cup pairs}

\* FrustrationDetector.feed: may the signal of this key be REJECT or ABANDON?
\* ABANDON is any character after an Escape, one that ends the word too.
Blames(k) == IF k \in {"letter", "boundary"} THEN BOOLEAN ELSE {k = "backspace"}

\* An accepted completion is attributable to one immediate Backspace only.
Attributed(k) == IF k # "backspace" /\ accept # "none" THEN {} ELSE shown

SlipAcceptAfter(k, a) == IF a.accepts THEN "fresh" ELSE IF k = "backspace" THEN "none" ELSE accept
\* last_prediction_accept after the key; Space has landed its delimiter, and
\* the Backspace after it removes only that.
AcceptAfter(k, a) == IF a.accepts /\ k # "space" THEN "fresh" ELSE "none"

Displayed(a) ==
  CASE a.shows = "show" -> Pair(a.word, a.top)
    [] a.shows = "hide" -> {}
    [] a.shows = "keep" -> screen

\* The pair the key leaves on record before what it displays is noted.
Left(k, a, blames) ==
  IF \/ a.handed \/ Suppressed(a) \/ k = "arrow" \/ (k = "right" /\ ~ghost)
     \/ blames
     \/ IF a.accepts THEN k = "space" ELSE a.commits
  THEN {} ELSE Attributed(k)

SlipNoted(a, left) == IF left = {} THEN Displayed(a) ELSE left
\* note_shown_ghost
Noted(a, left) == IF a.shows = "show" /\ a.word > 0 THEN Pair(a.word, a.top) ELSE left

\* What a REJECT, an ABANDON or a Backspace blames: the pair on record, unless
\* the handover of the word, its suppression or the move has retired it.
Blamed(k, a) == Left(k, [a EXCEPT !.commits = FALSE, !.accepts = FALSE], FALSE)

\* Every press invalidates; a dismissal lasts to the next word.
Pressed == Invalidate /\ dismissed' = (dismissed /\ word # 0)

\* A press of an ordinary key.
Ordinary(k) ==
  /\ owner # "direct"
  /\ owner = "native" => k \in {"letter", "backspace", "arrow", "modifier"}
  /\ Pressed
  /\ \E a0 \in Answers(k), blames \in Blames(k) : \E a \in Processed(a0) :
       /\ enabled' = a.on /\ word' = a.word /\ owner' = a.owner
       /\ top' = a.top /\ ghost' = a.ghost
       /\ Rereads(IF k = "modifier" THEN {readings} ELSE ReadingsOf(a.word))
       /\ rejected' \in IF blames THEN Recorded(Blamed(k, a)) ELSE {rejected}
       /\ shown' = Noted(a, Left(k, a, blames))
       /\ accept' = AcceptAfter(k, a)
       /\ screen' = Displayed(a)
       /\ doubt' = (a.shows = "keep" /\ doubt)
       /\ lastKey' = IF ~a.accepts THEN "other" ELSE IF k = "space" THEN "space" ELSE "accept"
  /\ UNCHANGED <<display, supported>>

\* Ctrl or Alt is held: the key goes to the client, which may edit its text.
Chord ==
  /\ owner # "direct"
  /\ Pressed /\ Rereads({readings})
  /\ accept' = "none" /\ shown' = {} /\ doubt' = (screen # {}) /\ lastKey' = "other"
  /\ UNCHANGED <<enabled, word, owner, top, ghost, display, rejected, supported, screen>>

\* clear_native_completion_tracking
ClearTracking ==
  /\ Invalidate /\ dismissed' = FALSE
  /\ shown' = {} /\ accept' = "none"

CoreEnds ==
  /\ word' = 0 /\ owner' = "core" /\ top' = {} /\ ghost' = FALSE /\ Rereads({FALSE})
  /\ screen' = {} /\ doubt' = FALSE

\* A delimiter in a word the client completes, or a key that ends a word
\* delivered early, the kill switch among them: the word is the client's and
\* teaches nothing.
ClientBoundary ==
  /\ owner # "core"
  /\ ClearTracking /\ CoreEnds /\ lastKey' = "other"
  /\ enabled' \in BOOLEAN
  /\ UNCHANGED <<display, rejected, supported>>

\* A letter, a modifier or a BackSpace, which may end it, in a word delivered
\* early.
DirectKey ==
  /\ owner = "direct"
  /\ \E w \in {word - 1, word, word + 1} :
       /\ w <= MaxWord
       /\ word' = w /\ owner' = IF w = 0 THEN "core" ELSE owner
       /\ IF w = 0 THEN ClearTracking ELSE Pressed /\ UNCHANGED <<shown, accept>>
  /\ Rereads({FALSE}) /\ lastKey' = "other"
  /\ UNCHANGED <<enabled, top, ghost, display, rejected, supported, screen, doubt>>

\* Escape closes the client's popup, Up and Down move in it.
NativePopup ==
  /\ owner = "native"
  /\ \/ ClearTracking /\ owner' = "core"
     \/ Pressed /\ UNCHANGED <<shown, accept, owner>>
  /\ Rereads(ReadingsOf(word)) /\ lastKey' = "other"
  /\ UNCHANGED <<enabled, word, top, ghost, display, rejected, supported, screen, doubt>>

HandleKey == (\E k \in Keys : Ordinary(k)) \/ Chord \/ ClientBoundary \/ DirectKey \/ NativePopup

-----------------------------------------------------------------------------
(* The calls of the adapter.                                               *)

\* language_choice_offer: what the adapter may display.
Offer ==
  /\ Offerable
  /\ offer' = "current" /\ lease' = TRUE
  /\ UNCHANGED <<core, feedback, supported, dismissed, history>>

DismissLanguageChoice ==
  /\ Offerable /\ lease
  /\ Invalidate /\ dismissed' = TRUE
  /\ UNCHANGED <<core, feedback, supported, offer, history>>

AcceptLanguageChoice ==
  /\ Offerable /\ lease
  /\ Invalidate /\ dismissed' = FALSE
  /\ CoreEnds
  /\ accept' = "none" /\ shown' = {}
  /\ UNCHANGED <<enabled, display, rejected, supported, lastKey>>

SetLanguageChoiceSupported ==
  /\ Invalidate /\ supported' = ~supported
  /\ UNCHANGED <<core, feedback, dismissed, offer, history>>

SetCompletionDisplaySupported(b) ==
  /\ display' = b
  /\ IF b THEN UNCHANGED <<top, ghost, shown, accept, screen, doubt>>
     ELSE /\ top' = {} /\ ghost' = FALSE /\ shown' = {} /\ accept' = "none"
          /\ screen' = {} /\ doubt' = FALSE
  /\ UNCHANGED <<enabled, word, owner, readings, rejected, choice, lastKey>>

\* handoff_preedit_for_native_completion and handoff_preedit_for_delivery
Handoff(to) ==
  /\ owner = "core" /\ word > 0
  /\ ClearTracking
  /\ owner' = to /\ top' = {} /\ ghost' = FALSE /\ Rereads({FALSE})
  /\ screen' = {} /\ doubt' = FALSE
  /\ UNCHANGED <<enabled, word, display, rejected, supported, lastKey>>

\* reconcile_native_completion_word: the client's text no longer has the word.
ReconcileNative ==
  /\ owner = "native"
  /\ ClearTracking /\ CoreEnds
  /\ UNCHANGED <<enabled, display, rejected, supported, lastKey>>

FlushPreeditForLayout ==
  /\ ClearTracking /\ CoreEnds
  /\ UNCHANGED <<enabled, display, rejected, supported, lastKey>>

\* focus_lost and reset: what an accept left is kept.
FocusLostOrReset ==
  /\ Invalidate /\ dismissed' = FALSE /\ shown' = {}
  /\ CoreEnds
  /\ UNCHANGED <<enabled, display, accept, rejected, supported, lastKey>>

FocusGained ==
  /\ Invalidate /\ dismissed' = FALSE
  /\ IF owner = "native" THEN CoreEnds
     ELSE UNCHANGED <<word, owner, top, ghost, readings, offer, screen, doubt>>
  /\ UNCHANGED <<enabled, display, feedback, supported, lastKey>>

\* load_word and the other loaders, load_personal, set_surrounding_text with
\* another text, set_external_rewrite_supported, set_composing_rewrite_supported.
ContextChanges ==
  /\ Invalidate
  /\ Rereads(ReadingsOf(word))
  /\ UNCHANGED <<enabled, word, owner, top, ghost, display, feedback, supported, dismissed,
                 history>>

\* record_ghost_rejection: only the pair it names is consumed.
RecordGhostRejection(p) ==
  /\ rejected' \in Recorded({p})
  /\ shown' = shown \ {p}
  /\ doubt' = (doubt \/ p \in screen)
  /\ UNCHANGED <<core, accept, choice, screen, lastKey>>

\* 500 ms after the accept.
AcceptAges ==
  /\ accept = "fresh" /\ accept' = "late"
  /\ UNCHANGED <<core, shown, rejected, choice, history>>

Next ==
  \/ HandleKey
  \/ Offer \/ DismissLanguageChoice \/ AcceptLanguageChoice \/ SetLanguageChoiceSupported
  \/ \E b \in BOOLEAN : SetCompletionDisplaySupported(b)
  \/ \E to \in {"native", "direct"} : Handoff(to)
  \/ ReconcileNative \/ FlushPreeditForLayout \/ FocusLostOrReset \/ FocusGained
  \/ ContextChanges
  \/ \E p \in Pairs : RecordGhostRejection(p)
  \/ AcceptAges

Spec == Init /\ [][Next]_vars

-----------------------------------------------------------------------------
(* Properties.                                                             *)

\* Every variable is of its type, and the core of a word the client holds
\* predicts nothing.
TypeOK ==
  /\ enabled \in BOOLEAN /\ word \in 0..MaxWord /\ owner \in {"core", "native", "direct"}
  /\ top \in AtMostOne(Completions) /\ ghost \in BOOLEAN /\ display \in BOOLEAN
  /\ readings \in BOOLEAN /\ accept \in {"none", "fresh", "late"}
  /\ shown \in AtMostOne(Pairs) /\ screen \in AtMostOne(Pairs) /\ rejected \subseteq Pairs
  /\ supported \in BOOLEAN /\ dismissed \in BOOLEAN /\ lease \in BOOLEAN
  /\ offer \in {"none", "current", "outdated"} /\ doubt \in BOOLEAN
  /\ lastKey \in {"none", "other", "accept", "space"}
  /\ owner # "core" => word > 0 /\ top = {} /\ ~ghost

\* An offer that can still be accepted under its revision says what the
\* readings are: whatever changed them has invalidated the revision.
LeaseSound == lease /\ Offerable => offer = "current"

\* Feedback is attributed to the completion the user sees: when one is on the
\* screen and one is on record, they are the same.
OneAttribution == shown # {} /\ screen # {} => shown = screen

\* Space completes a word only with the completion on the screen, and only
\* while neither a chord nor a rejection has made it doubtful.
SpaceTakesWhatIsShown ==
  [][lastKey' = "space" /\ word # 0 /\ word' = 0 =>
       screen # {} /\ screen = Pair(word, top) /\ ~doubt]_vars

\* No step displays a completion that was suppressed before it, not even one
\* a correction puts in the place of the engine's.
SuppressedNotDisplayed == [][screen' # {} /\ screen' # screen => screen' \cap rejected = {}]_vars

\* A Backspace counts against an accepted completion only as the key after
\* the one that accepted it.
BlameFollowsAccept == accept # "none" => lastKey = "accept"
=============================================================================
