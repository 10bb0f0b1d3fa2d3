---------------------------- MODULE DirectDelivery ----------------------------
(***************************************************************************)
(* Direct delivery of the IBus adapter (smartkey_engine.py): for a client  *)
(* whose text cannot be verified there is no preedit; nothing reaches the  *)
(* client while the core may still change the script of the word, and      *)
(* nothing delivered is revised.  Three one-shot timers act between keys:  *)
(* the typing pause, the refocus of an editor that re-renders, and a held  *)
(* switch back to preedit mode.                                            *)
(*                                                                         *)
(* A character is the script it is in, or "s" for what ends a word.  The   *)
(* core is modelled by the actions it may answer a key with: the readings  *)
(* of the word in one script or the other, free while it is undecided, and *)
(* after that still free to flip when a lock is taken back.                *)
(***************************************************************************)
EXTENDS Naturals, Sequences

CONSTANTS
  MaxText,   \* longest text of a client; bounds the model
  MaxWord    \* longest word; bounds the model

ASSUME BoundsAssumption == MaxText \in Nat /\ MaxWord \in Nat \ {0}

(* Operators named Slip... are wrong variants of the definition after them. *)

VARIABLES
  direct,    \* _direct_delivery
  want,      \* _desired_direct_delivery: what the last capabilities ask for
  focused,   \* the context has the focus
  alive,     \* not destroyed
  word,      \* the word the core holds, as it reads it
  decided,   \* _direct_decided: the dual buffer has left its hypothesis phase
  owned,     \* handed over early: the core appends in a fixed script
  delivered, \* _direct_word
  pending,   \* _direct_pending
  recent,    \* _direct_commit_at lies at most _DIRECT_REFOCUS_MS back
  idle,      \* _direct_idle_source is armed
  refocus,   \* _direct_refocus_source is armed
  switch,    \* _direct_mode_switch_source is armed
  text,      \* what the client holds before the caret
  typed,     \* characters asked for, less those erased or discarded (history)
  erasing    \* the last step was the user's BackSpace (history)

mode  == <<direct, want, switch>>
token == <<word, decided, owned, delivered, pending>>
vars  == <<mode, focused, alive, token, recent, idle, refocus, text, typed, erasing>>

Scripts == {"L", "C"}
Chars == Scripts \cup {"s"}
Reading(s, n) == [i \in 1..n |-> s]

Extends(t, s) == Len(s) <= Len(t) /\ SubSeq(t, 1, Len(s)) = s
Rest(t, s) == SubSeq(t, Len(s) + 1, Len(t))
Erased(s) == IF s = <<>> THEN s ELSE SubSeq(s, 1, Len(s) - 1)
OneLess(n) == IF n = 0 THEN 0 ELSE n - 1

\* _direct_undelivered; in preedit mode the composing word.
Undelivered == direct /\ pending # <<>> /\ pending # delivered
Waiting == IF direct THEN (IF Undelivered THEN Len(pending) - Len(delivered) ELSE 0)
           ELSE Len(word)

-----------------------------------------------------------------------------
(* Parts of several handlers.                                              *)

SlipEndToken ==
  /\ word' = <<>> /\ decided' = FALSE /\ owned' = FALSE
  /\ delivered' = <<>> /\ pending' = <<>>
  /\ idle' = idle /\ refocus' = FALSE
\* core.reset and _direct_clear
EndToken ==
  /\ word' = <<>> /\ decided' = FALSE /\ owned' = FALSE
  /\ delivered' = <<>> /\ pending' = <<>>
  /\ idle' = FALSE /\ refocus' = FALSE

Types(s) ==
  /\ Len(text) + Len(s) <= MaxText
  /\ text' = text \o s

KeepModes == UNCHANGED <<want, focused, alive>>

\* The core reads the word as r.
Reads(r, d) == word' = r /\ decided' = d /\ UNCHANGED owned

\* A reading is shown but nothing is delivered: the script may still flip.
Hold(r) ==
  /\ pending' = r
  /\ idle' = (r # <<>>)
  /\ UNCHANGED <<delivered, text, recent, refocus>>

SlipMayApply(r) == Len(r) >= Len(delivered)
\* _direct_apply: what was delivered is only ever continued.
MayApply(r) == Extends(r, delivered)

\* _direct_apply appends: the client gets the rest of r.
Deliver(r) ==
  /\ MayApply(r)
  /\ Types(Rest(r, delivered))
  /\ delivered' = r /\ pending' = r
  /\ recent' = TRUE
  /\ idle' = FALSE /\ UNCHANGED refocus

\* _direct_apply refuses: the word ends, and the key, for which nothing was
\* delivered, goes to the client.
Refuse(native) == EndToken /\ text' = native /\ UNCHANGED recent

-----------------------------------------------------------------------------
(* Key presses in direct mode.  A held switch lands before the key.        *)

Pressed == alive /\ focused /\ direct /\ ~switch /\ UNCHANGED mode /\ KeepModes

\* The composing reading r of a key that native would be the client's answer to.
Composing(r, d, native) ==
  IF delivered # <<>> \/ d
  THEN IF MayApply(r) THEN Reads(r, d) /\ Deliver(r) ELSE Refuse(native)
  ELSE Reads(r, d) /\ Hold(r)

Letter(s, d) ==
  /\ Pressed
  /\ ~owned /\ Len(word) < MaxWord /\ Len(text) + Waiting < MaxText
  /\ decided => d
  /\ Composing(Reading(s, Len(word) + 1), d, Append(text, s))
  /\ typed' = typed + 1
  /\ erasing' = FALSE

\* An owned word grows by one committed character of its script.
OwnedLetter ==
  /\ Pressed
  /\ owned /\ Len(word) < MaxWord
  /\ Types(<<word[1]>>)
  /\ word' = Append(word, word[1])
  /\ typed' = typed + 1
  /\ recent' = TRUE /\ refocus' = FALSE /\ idle' = FALSE
  /\ erasing' = FALSE
  /\ UNCHANGED <<decided, owned, delivered, pending>>

SlipErase(r) == text' = Erased(text) /\ delivered' = Erased(delivered) /\ pending' = r
\* The one deletion the adapter makes, for the user's own BackSpace.
Erase(r) ==
  /\ text' = IF delivered = <<>> THEN text ELSE Erased(text)
  /\ delivered' = IF delivered = <<>> THEN <<>> ELSE r
  /\ pending' = r

\* Deleting the characters a lock was taken on takes the lock back, and the
\* word may flip; under a lock it cannot.
BackspaceInWord(s, d) ==
  /\ Pressed
  /\ ~owned /\ word # <<>>
  /\ LET r == Reading(s, Len(word) - 1)
     IN /\ d => decided /\ r # <<>> /\ s = word[1]
        /\ IF delivered = <<>> \/ r = <<>> \/ s = word[1]
           THEN /\ Erase(r) /\ Reads(r, d)
                /\ recent' = (recent \/ delivered # <<>>)
                /\ idle' = (pending' # delivered')
                /\ UNCHANGED refocus
           ELSE Refuse(Erased(text))
  /\ typed' = OneLess(typed)
  /\ erasing' = TRUE

\* No word, or one the client owns: the client deletes.
BackspaceForwarded ==
  /\ Pressed
  /\ owned \/ word = <<>>
  /\ text' = Erased(text)
  /\ word' = Erased(word)
  /\ owned' = (owned /\ Len(word) > 1)
  /\ typed' = OneLess(typed)
  /\ refocus' = FALSE /\ idle' = FALSE
  /\ erasing' = TRUE
  /\ UNCHANGED <<decided, delivered, pending, recent>>

\* A boundary, a digit, a mark, or a key the client handles itself: the core
\* commits the word in the script it resolves to, then the key goes through.
Boundary(s, key) ==
  /\ Pressed
  /\ Len(text) + Waiting + Len(key) <= MaxText
  /\ LET r == Reading(s, Len(word))
         rest == IF word # <<>> /\ ~owned /\ MayApply(r) THEN Rest(r, delivered) ELSE <<>>
     IN /\ text' = text \o rest \o key
        /\ recent' = (recent \/ rest # <<>>)
  /\ EndToken
  /\ typed' = typed + Len(key)
  /\ erasing' = FALSE

\* Tab, Right, Escape: the word as typed, never its completion; then do_reset.
Passthrough ==
  /\ Pressed
  /\ text' = IF Undelivered THEN text \o Rest(pending, delivered) ELSE text
  /\ EndToken
  /\ erasing' = FALSE
  /\ UNCHANGED <<recent, typed>>

\* Ctrl, Alt or Super goes down: what follows is not an editor refocusing.
ShortcutModifier ==
  /\ Pressed
  /\ recent' = FALSE
  /\ erasing' = FALSE
  /\ UNCHANGED <<token, idle, refocus, text, typed>>

\* The chord: deliver in the resolved script, end the word, let the client act.
Chord(s) ==
  /\ Pressed
  /\ recent' = FALSE
  /\ text' = IF Undelivered THEN text \o Rest(Reading(s, Len(word)), delivered) ELSE text
  /\ EndToken
  /\ erasing' = FALSE
  /\ UNCHANGED typed

-----------------------------------------------------------------------------
(* Modes.                                                                  *)

SlipEndMode == word' = word /\ delivered' = <<>> /\ pending' = <<>> /\ decided' = FALSE
               /\ owned' = FALSE /\ idle' = FALSE /\ refocus' = FALSE
\* _update_delivery_mode: the preedit goes down and the word ends.
EndMode == EndToken

\* _apply_capabilities
Apply(d) ==
  /\ switch' = FALSE
  /\ direct' = d
  /\ IF d = direct THEN UNCHANGED <<token, idle, refocus, typed>>
     ELSE EndMode /\ typed' = typed - Waiting

\* do_set_capabilities: leaving direct delivery waits while a word is open.
SetCapabilities(d) ==
  /\ alive
  /\ want' = d
  /\ IF direct /\ ~d /\ (word # <<>> \/ delivered # <<>> \/ pending # <<>>)
     THEN /\ switch' = TRUE
          /\ UNCHANGED <<direct, token, idle, refocus, typed>>
     ELSE Apply(d)
  /\ erasing' = FALSE
  /\ UNCHANGED <<focused, alive, recent, text>>

SlipSwitchDue == switch /\ switch' = FALSE /\ erasing' = FALSE
                 /\ UNCHANGED <<direct, want, focused, alive, token, recent, idle,
                                refocus, text, typed>>
\* _direct_mode_switch_due
SwitchDue ==
  /\ switch
  /\ Apply(want)
  /\ erasing' = FALSE
  /\ UNCHANGED <<want, focused, alive, recent, text>>

\* A key while the switch is held, or in preedit mode.  The composing word is
\* in the preedit; a boundary commits it.
Landed(k) ==
  LET base == IF switch THEN <<>> ELSE word
      discarded == IF switch THEN Waiting ELSE 0
  IN /\ alive /\ focused /\ ~(direct /\ ~switch)
     /\ direct' = FALSE /\ switch' = FALSE
     /\ delivered' = <<>> /\ pending' = <<>> /\ owned' = FALSE /\ decided' = FALSE
     /\ idle' = FALSE /\ refocus' = FALSE
     /\ CASE k = "letter" ->
               \E s \in Scripts :
                  /\ Len(base) < MaxWord /\ Len(text) + Len(base) < MaxText
                  /\ word' = Reading(s, Len(base) + 1)
                  /\ text' = text
                  /\ typed' = (typed - discarded) + 1
          [] k = "boundary" ->
               \E s \in Scripts :
                  /\ Types(Append(Reading(s, Len(base)), "s"))
                  /\ word' = <<>>
                  /\ typed' = (typed - discarded) + 1
          [] k = "backspace" ->
                  /\ word' = Erased(base)
                  /\ text' = IF base = <<>> THEN Erased(text) ELSE text
                  /\ typed' = OneLess(typed - discarded)
     /\ erasing' = (k = "backspace")
     /\ UNCHANGED <<want, focused, alive, recent>>

-----------------------------------------------------------------------------
(* Timers, focus, cancels.                                                 *)

SlipHandOver(r) == word' = r /\ owned' = TRUE /\ delivered' = r /\ pending' = r
\* handoff_preedit_for_delivery: the core owns the word, the adapter forgets it.
HandOver(r) == word' = r /\ owned' = TRUE /\ delivered' = <<>> /\ pending' = <<>>

\* _direct_idle_fire: the resolved script is fixed and the word stays open.
IdleFires(s) ==
  /\ idle
  /\ idle' = FALSE
  /\ IF Undelivered
     THEN /\ text' = text \o Rest(Reading(s, Len(word)), delivered)
          /\ HandOver(Reading(s, Len(word)))
          /\ recent' = TRUE /\ refocus' = FALSE
     ELSE UNCHANGED <<text, word, owned, delivered, pending, recent, refocus>>
  /\ erasing' = FALSE
  /\ UNCHANGED <<mode, focused, alive, decided, typed>>

\* More than _DIRECT_REFOCUS_MS since the last commit.
TimePasses ==
  /\ recent
  /\ recent' = FALSE
  /\ erasing' = FALSE
  /\ UNCHANGED <<mode, focused, alive, token, idle, refocus, text, typed>>

SlipMayHold == recent /\ word # <<>>
\* _direct_refocus_hold
MayHold == recent /\ word # <<>> /\ ~Undelivered

FocusOut ==
  /\ alive /\ focused
  /\ focused' = FALSE
  /\ CASE direct /\ MayHold ->
            refocus' = TRUE /\ UNCHANGED <<token, idle, text, typed>>
       [] direct /\ ~MayHold ->
            EndToken /\ typed' = typed - Waiting /\ UNCHANGED text
       [] ~direct -> Types(word) /\ EndToken /\ UNCHANGED typed
  /\ erasing' = FALSE
  /\ UNCHANGED <<mode, alive, recent>>

\* do_focus_in, on the same text or another: a held word goes on.
FocusIn(same) ==
  /\ alive /\ ~focused
  /\ focused' = TRUE
  /\ refocus' = FALSE
  /\ IF same THEN UNCHANGED <<text, typed>> ELSE text' = <<>> /\ typed' = 0
  /\ erasing' = FALSE
  /\ UNCHANGED <<mode, alive, token, recent, idle>>

\* _direct_refocus_expire
RefocusExpires ==
  /\ refocus
  /\ EndToken
  /\ typed' = typed - Waiting
  /\ erasing' = FALSE
  /\ UNCHANGED <<mode, focused, alive, recent, text>>

\* do_reset and do_disable discard what was not delivered.
Reset ==
  /\ alive
  /\ EndToken
  /\ typed' = typed - Waiting
  /\ erasing' = FALSE
  /\ UNCHANGED <<mode, focused, alive, recent, text>>

\* do_destroy
Destroy ==
  /\ alive
  /\ alive' = FALSE
  /\ idle' = FALSE /\ refocus' = FALSE /\ switch' = FALSE
  /\ erasing' = FALSE
  /\ UNCHANGED <<direct, want, focused, token, recent, text, typed>>

-----------------------------------------------------------------------------
Init ==
  /\ direct = FALSE /\ want = FALSE /\ switch = FALSE
  /\ focused = FALSE /\ alive = TRUE
  /\ word = <<>> /\ decided = FALSE /\ owned = FALSE
  /\ delivered = <<>> /\ pending = <<>>
  /\ recent = FALSE /\ idle = FALSE /\ refocus = FALSE
  /\ text = <<>> /\ typed = 0 /\ erasing = FALSE

DirectKey ==
  \/ \E s \in Scripts, d \in BOOLEAN : Letter(s, d)
  \/ OwnedLetter
  \/ \E s \in Scripts, d \in BOOLEAN : BackspaceInWord(s, d)
  \/ BackspaceForwarded
  \/ \E s \in Scripts, key \in {<<>>, <<"s">>} : Boundary(s, key)
  \/ Passthrough
  \/ ShortcutModifier
  \/ \E s \in Scripts : Chord(s)

Timers == SwitchDue \/ RefocusExpires \/ \E s \in Scripts : IdleFires(s)

Next ==
  \/ DirectKey
  \/ \E k \in {"letter", "boundary", "backspace"} : Landed(k)
  \/ \E d \in BOOLEAN : SetCapabilities(d)
  \/ Timers
  \/ TimePasses
  \/ FocusOut
  \/ \E same \in BOOLEAN : FocusIn(same)
  \/ Reset
  \/ Destroy

\* A one-shot timer of the main loop runs once it is due.
Spec == Init /\ [][Next]_vars /\ WF_vars(SwitchDue) /\ WF_vars(RefocusExpires)

-----------------------------------------------------------------------------
Texts == Seq(Chars)

(* Every variable is of its type. *)
TypeOK ==
  /\ direct \in BOOLEAN /\ want \in BOOLEAN /\ switch \in BOOLEAN /\ focused \in BOOLEAN
  /\ alive \in BOOLEAN /\ decided \in BOOLEAN /\ owned \in BOOLEAN /\ recent \in BOOLEAN
  /\ idle \in BOOLEAN /\ refocus \in BOOLEAN /\ erasing \in BOOLEAN
  /\ word \in Seq(Scripts) /\ delivered \in Seq(Scripts) /\ pending \in Seq(Scripts)
  /\ text \in Texts
  /\ typed \in Nat

(* What the adapter believes it delivered of the open word is what the core now
   reads, so that the next key only appends to it; a word handed over early is
   not tracked twice (_direct_apply, _direct_commit). *)
InStep ==
  /\ delivered # <<>> => direct /\ ~owned /\ delivered = word /\ pending = word
  /\ pending # <<>> => direct /\ ~owned /\ pending = word
  /\ decided /\ direct => pending = delivered

(* Every character the user typed reaches the client once, or still waits in the
   word: no key, timer or refocus loses or repeats one, only the discards of a
   cancel, a focus loss and a mode switch do. *)
EachKeyOnce == typed = Len(text) + Waiting

(* A timer outlives neither the word nor the mode it was armed for: the pause
   timer finds undelivered text, the refocus timer a delivered word without the
   focus, the switch timer an adapter still in direct mode. *)
TimersBelong ==
  /\ idle => alive /\ Undelivered
  /\ refocus => alive /\ direct /\ ~focused /\ word # <<>> /\ ~Undelivered
  /\ switch => alive /\ direct /\ ~want

(* In direct mode delivered text is continued, or shortened by one character for
   the user's own BackSpace; a word of which a part was delivered goes on in the
   script of that part, or ends (_direct_apply): no word of mixed scripts. *)
NeverRevised ==
  [][direct /\ direct' /\ ~(~focused /\ focused') =>
       /\ Extends(text', text) \/ (erasing' /\ text' = Erased(text))
       /\ delivered # <<>> /\ delivered' # <<>> =>
            Extends(delivered', delivered) \/ delivered' = Erased(delivered)]_vars

(* No word is carried from one delivery mode into the other. *)
ModesCarryNoWord ==
  [][direct # direct' => Len(word') <= 1 /\ delivered' = <<>> /\ ~owned' /\ ~refocus']_vars

(* The mode follows the capabilities: a switch held for an open word lands, or
   the capabilities come back, however the word ends meanwhile. *)
ModeFollowsCapabilities == (alive /\ direct # want) ~> (~alive \/ direct = want)
=============================================================================
