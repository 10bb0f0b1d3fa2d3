------------------------------ MODULE InputCore ------------------------------
(***************************************************************************)
(* InputMethodCore: the key-event state machine shared by every platform   *)
(* adapter.  One action per arm of handle_key and per other entry point.   *)
(*                                                                         *)
(* A character is a glyph class: a letter, another printable character, a  *)
(* sentence terminator, a closing mark, a space, a newline, or text whose  *)
(* content the core cannot know ("?": what stands before the caret after   *)
(* navigation, a Tab, a paste).  Which of its two scripts a word is shown  *)
(* in is the business of DualBuffer; here only its lock matters.           *)
(*                                                                         *)
(* The client is modelled by what the adapter contract makes of an action  *)
(* list: the text actions in order, then the forwarded key.                *)
(***************************************************************************)
EXTENDS Integers, Sequences, LockRules

CONSTANTS
  MaxText,         \* longest text explored; bounds the model
  MaxGhost,        \* longest completion suffix explored; bounds the model
  TokenEdits,      \* may a shortcut or unknown key edit a delivered open word?
  DelimiterChords  \* may a shortcut be pressed with a delimiter key (Ctrl+.)?

ASSUME BoundsAssumption == MaxText \in Nat /\ MaxGhost \in Nat
ASSUME ShortcutAssumption == TokenEdits \in BOOLEAN /\ DelimiterChords \in BOOLEAN

(* Operators named Slip... are wrong variants of the definition after them. *)

VARIABLES
  enabled,   \* the kill switch has not been thrown
  word,      \* current_word
  lock,      \* dual_buffer: NoLock for None, else how far it is decided
  layout,    \* word_delivery_layout is set
  translit,  \* transliteration_active
  native,    \* native_completion_owned
  direct,    \* direct_delivery_owned
  ghost,     \* length of the completion suffix
  display,   \* completion_display_supported
  hint,      \* sentence_boundary
  learned,   \* the last operation left a word in commit_learning
  client,    \* text the client holds before the caret
  typed      \* text the user asked for, what is still composing included

vars == <<enabled, word, lock, layout, translit, native, direct, ghost,
          display, hint, learned, client, typed>>

Glyphs == {"a", "1", ".", ")", " ", "n", "?"}
WordGlyphs == {"a", "1", ".", ")"}
Closers == {".", ")"}              \* the tail a sentence end may drag along
Marks == {"1", ".", ")"}           \* printable characters that are no letters

NoHint == [kind |-> "none", spaces |-> 0, tail |-> 0]
Awaiting(t) == [kind |-> "awaiting", spaces |-> 0, tail |-> t]
Start(s, t) == [kind |-> "start", spaces |-> s, tail |-> t]
Hints == [kind : {"none", "awaiting", "start"}, spaces : Nat, tail : Nat]

Composing == lock # NoLock
Held == IF Composing THEN word ELSE <<>>      \* the preedit

-----------------------------------------------------------------------------
(* Text.                                                                   *)

Letters(n) == [i \in 1..n |-> "a"]
Room(n) == Len(typed) + n <= MaxText
Cut(text, n) == SubSeq(text, 1, Len(text) - n)
EndsIn(text, w) ==
  /\ Len(w) <= Len(text)
  /\ SubSeq(text, Len(text) - Len(w) + 1, Len(text)) = w

\* The caret moved, or text unknown to the core was inserted.
Opaque(text) ==
  IF text # <<>> /\ text[Len(text)] = "?" THEN text ELSE Append(text, "?")

\* A forwarded Backspace; what lies in unknown text stays unknown.
Erased(text) ==
  IF text = <<>> \/ text[Len(text)] = "?" THEN text ELSE Cut(text, 1)

\* ReplaceWord { replace_len: n, text: new } on the text before the caret.
Replaced(text, n, new) == Cut(text, n) \o new

(***************************************************************************)
(* post_commit_pipeline: the word just committed may be corrected and then *)
(* capitalised in place, each by a ReplaceWord of the word's own length.   *)
(***************************************************************************)
PostCommit(text, w) == {text, Replaced(text, Len(w), w)}

-----------------------------------------------------------------------------
(* Parts of several handlers.                                              *)

\* The engine is on and no other party owns the word.
Plain == enabled /\ ~native /\ ~direct

HasLetter(w) == \E i \in 1..Len(w) : w[i] = "a"

(***************************************************************************)
(* compute_ghost_suffix: nothing for a word owned by the client's own      *)
(* completion or delivered early, without a display, or without a letter;  *)
(* otherwise whatever the engine predicts, nothing included.               *)
(***************************************************************************)
Offers(w, owned) ==
  IF owned \/ ~display \/ ~HasLetter(w) THEN {0} ELSE 0..MaxGhost

\* reset_word, except the sentence hint that callers may restore.
ResetWord ==
  /\ word' = <<>>
  /\ lock' = NoLock
  /\ layout' = FALSE
  /\ translit' = FALSE
  /\ native' = FALSE
  /\ direct' = FALSE
  /\ ghost' = 0

\* SentenceBoundaryHint::after_forwarded_key
AfterForwarded(g) ==
  IF g = "n" THEN Start(0, 0) ELSE IF g = "." THEN Awaiting(0) ELSE NoHint

\* A printable key withdraws a hint that still waits for whitespace.
Withdrawn == IF hint.kind = "awaiting" THEN NoHint ELSE hint

Forward(text) == client' = client \o text /\ typed' = typed \o text

\* The word ends: h is the sentence hint, learns whether it was committed.
EndWord(h, learns) == ResetWord /\ hint' = h /\ learned' = learns

\* The word ends delivered, possibly corrected in place, before tail.
Commit(tail, h) ==
  /\ EndWord(h, TRUE)
  /\ \E text \in PostCommit(client \o Held, word) : client' = text \o tail
  /\ typed' = typed \o tail

\* Left to the client, an unknown key or shortcut may edit its text, in
\* front of the preedit when there is one.
Shortcut ==
  \/ UNCHANGED <<client, typed>>
  \/ /\ TokenEdits \/ word = <<>> \/ Composing
     /\ Room(1)
     /\ client' = Opaque(client)
     /\ typed' = Opaque(client) \o Held

KeepModes == UNCHANGED <<enabled, display>>
KeepOwner == UNCHANGED <<layout, native, direct>>
KeepWord == UNCHANGED <<word, lock, layout, translit, native, direct>>

-----------------------------------------------------------------------------
(* handle_key: the kill switch, and keys while the engine is disabled.      *)

\* Super+Escape.  The preedit is hidden and not delivered.
KillOff ==
  /\ enabled
  /\ enabled' = FALSE
  /\ EndWord(NoHint, FALSE)
  /\ typed' = client
  /\ UNCHANGED <<display, client>>

KillOn ==
  /\ ~enabled
  /\ enabled' = TRUE
  /\ learned' = FALSE
  /\ KeepWord
  /\ UNCHANGED <<ghost, display, hint, client, typed>>

DisabledKey ==
  /\ ~enabled
  /\ learned' = FALSE
  /\ \/ \E g \in Glyphs : Room(1) /\ Forward(<<g>>)
     \/ client' = Erased(client) /\ typed' = Erased(typed)
  /\ KeepModes /\ KeepWord
  /\ UNCHANGED <<ghost, hint>>

-----------------------------------------------------------------------------
(* handle_key: a word delivered early, or owned by the client's completion. *)

(***************************************************************************)
(* Any key but a letter or Backspace ends a directly delivered word, and   *)
(* so does every key pressed with Ctrl, Alt or Super; the next hint comes  *)
(* from the glyph on the key.                                              *)
(***************************************************************************)
DirectBoundary ==
  /\ enabled /\ direct
  /\ \/ \E g \in Glyphs \ {"a"} :
          /\ Room(1)
          /\ EndWord(AfterForwarded(g), FALSE)
          /\ Forward(<<g>>)
     \/ /\ EndWord(NoHint, FALSE)        \* Escape, a chord on a letter
        /\ Shortcut
     \/ /\ DelimiterChords               \* a chord on a delimiter
        /\ EndWord(AfterForwarded("."), FALSE)
        /\ Shortcut
  /\ KeepModes

NativeBoundary ==
  /\ enabled /\ native /\ ~direct
  /\ \E g \in Glyphs \ {"a"} :
       /\ Room(1)
       /\ EndWord(AfterForwarded(g), FALSE)
       /\ Forward(<<g>>)
  /\ KeepModes

\* Up and Down move in the client's popup; Escape closes it.
NativePopupKey ==
  /\ enabled /\ native /\ ~direct
  /\ native' \in BOOLEAN
  /\ learned' = FALSE
  /\ KeepModes
  /\ UNCHANGED <<word, lock, layout, translit, direct, ghost, hint, client, typed>>

\* A key with Ctrl or Alt, or a key the engine does not know.
Chord ==
  /\ enabled /\ ~direct
  /\ hint' = NoHint
  /\ learned' = FALSE
  /\ Shortcut
  /\ KeepModes /\ KeepWord
  /\ UNCHANGED ghost

-----------------------------------------------------------------------------
(* handle_key: printable keys.                                              *)

\* Closing marks after a forwarded sentence end belong to it.
ClosingTail ==
  /\ enabled
  /\ hint.kind = "awaiting" /\ word = <<>> /\ ~Composing
  /\ Room(1)
  /\ \E g \in Closers : Forward(<<g>>)
  /\ hint' = [hint EXCEPT !.tail = @ + 1]
  /\ learned' = FALSE
  /\ KeepModes /\ KeepWord
  /\ UNCHANGED ghost

\* handle_dual_buffer_key.
RawKeyComposing ==
  /\ enabled
  /\ ~layout /\ (Composing \/ word = <<>>)
  /\ Room(1)
  /\ word' = Append(word, "a")
  /\ lock' \in AfterPush(lock, Len(word) + 1)
  /\ ghost' \in Offers(word', FALSE)
  /\ hint' = Withdrawn
  /\ learned' = FALSE
  /\ typed' = Append(typed, "a")
  /\ KeepModes /\ KeepOwner
  /\ UNCHANGED <<translit, client>>

\* append_delivered_raw_char: the prefix is already in the client.
RawKeyDelivered ==
  /\ enabled
  /\ layout \/ (~Composing /\ word # <<>>)
  /\ Room(1)
  /\ layout' = TRUE
  /\ word' = Append(word, "a")
  /\ ghost' \in Offers(word', native \/ direct)
  /\ hint' = Withdrawn
  /\ learned' = FALSE
  /\ Forward(<<"a">>)
  /\ KeepModes
  /\ UNCHANGED <<lock, translit, native, direct>>

\* A letter of the client's own layout: the preedit is delivered first and
\* the rest of this word stays out of composition.
LetterAfterComposing ==
  /\ enabled /\ Composing
  /\ Room(1)
  /\ word' = Append(word, "a")
  /\ lock' = NoLock
  /\ layout' = TRUE
  /\ translit' = FALSE
  /\ ghost' = 0
  /\ hint' = Withdrawn
  /\ learned' = FALSE
  /\ client' = client \o word \o <<"a">>
  /\ typed' = Append(typed, "a")
  /\ KeepModes
  /\ UNCHANGED <<native, direct>>

\* A letter of a delivered word, forwarded or committed transliterated.
Letter ==
  /\ enabled /\ ~Composing
  /\ Room(1)
  /\ word' = Append(word, "a")
  /\ ghost' \in Offers(word', native \/ direct)
  /\ hint' = Withdrawn
  /\ learned' = FALSE
  /\ Forward(<<"a">>)
  /\ KeepModes /\ KeepOwner
  /\ UNCHANGED <<lock, translit>>

(***************************************************************************)
(* check_wrong_layout: from the second letter on, the Latin word in the    *)
(* client may turn out to be Cyrillic typed on the wrong layout.  The key  *)
(* is consumed, and the letters forwarded before it are replaced.          *)
(***************************************************************************)
WrongLayout ==
  /\ enabled /\ ~Composing
  /\ ~layout /\ ~translit
  /\ word # <<>> /\ \A i \in 1..Len(word) : word[i] = "a"
  /\ Room(1)
  /\ translit' = TRUE
  /\ word' = Append(word, "a")
  /\ ghost' \in Offers(word', native \/ direct)
  /\ hint' = Withdrawn
  /\ learned' = FALSE
  /\ client' = Replaced(client, Len(word), word')
  /\ typed' = Append(typed, "a")
  /\ KeepModes /\ KeepOwner
  /\ UNCHANGED lock

\* A printable character that is no letter ends a composing word ...
MarkAfterComposing ==
  /\ Plain /\ Composing
  /\ Room(1)
  /\ \E g \in Marks :
       Commit(<<g>>, IF g = "." THEN Awaiting(0) ELSE NoHint)
  /\ KeepModes

\* ... and joins a word that is not composing, transliterated when it is on
\* a key that holds a letter in the other layout.
Mark ==
  /\ Plain /\ ~Composing
  /\ Room(1)
  /\ \E g \in Marks :
       /\ ~(hint.kind = "awaiting" /\ word = <<>> /\ g \in Closers)
       /\ \E shown \in {g} \cup (IF translit THEN {"a"} ELSE {}) :
            /\ word' = Append(word, shown)
            /\ Forward(<<shown>>)
  /\ ghost' \in Offers(word', FALSE)
  /\ hint' = Withdrawn
  /\ learned' = FALSE
  /\ KeepModes /\ KeepOwner
  /\ UNCHANGED <<lock, translit>>
-----------------------------------------------------------------------------
(* handle_key: completions.                                                 *)

\* accept_ghost_completion, for a word composing or delivered.
AcceptWith(tail) ==
  /\ ghost > 0
  /\ Room(ghost + Len(tail))
  /\ EndWord(NoHint, TRUE)
  /\ \E text \in PostCommit(client \o Held \o Letters(ghost),
                            word \o Letters(ghost)) : client' = text \o tail
  /\ typed' = typed \o Letters(ghost) \o tail
  /\ KeepModes

\* Tab; Right on the last character, or on one that no key can produce.
Accept == Plain /\ AcceptWith(<<>>)

\* Opt-in: Space accepts what is shown and types itself.
SpaceAccept == Plain /\ Composing /\ ~translit /\ AcceptWith(<<" ">>)

\* Right takes the next character of the completion into the word.
AcceptCharacter ==
  /\ Plain /\ ghost > 1
  /\ Room(1)
  /\ word' = Append(word, "a")
  /\ lock' = IF Composing THEN Pinned ELSE lock
  /\ ghost' = ghost - 1
  /\ learned' = FALSE
  /\ client' = IF Composing THEN client ELSE Append(client, "a")
  /\ typed' = Append(typed, "a")
  /\ KeepModes /\ KeepOwner
  /\ UNCHANGED <<translit, hint>>

\* cursor_moved: the word is delivered where it was composed.
CursorMoved ==
  /\ Room(1)
  /\ EndWord(NoHint, FALSE)
  /\ client' = Opaque(client \o Held)
  /\ typed' = Opaque(typed)
  /\ KeepModes

Navigate == enabled /\ ~direct /\ CursorMoved

-----------------------------------------------------------------------------
(* handle_key: word boundaries.                                             *)

\* Tab without a completion.  It may move the focus or indent.
Tab ==
  /\ Plain /\ ghost = 0
  /\ Room(1)
  /\ IF word # <<>>
     THEN /\ EndWord(NoHint, TRUE)
          /\ client' = client \o Held \o <<"?">>
     ELSE /\ hint' = IF hint = NoHint THEN NoHint ELSE Start(0, 0)
          /\ learned' = FALSE
          /\ client' = Append(client, "?")
          /\ KeepWord
          /\ UNCHANGED ghost
  /\ typed' = Append(typed, "?")
  /\ KeepModes

\* The hint after a Space that follows no word.
AfterSpace ==
  IF hint.kind = "awaiting" THEN Start(1, hint.tail)
  ELSE IF hint.spaces > 0 THEN Start(hint.spaces + 1, hint.tail)
  ELSE hint

\* Space and Return commit exactly the typed word and are forwarded.
Delimiter ==
  /\ Plain
  /\ Room(1)
  /\ \E g \in {" ", "n"} :
       IF word # <<>>
       THEN Commit(<<g>>, AfterForwarded(g))
       ELSE /\ EndWord(IF g = "n" THEN AfterForwarded(g) ELSE AfterSpace, FALSE)
            /\ Forward(<<g>>)
  /\ KeepModes

\* Escape drops the completion, else cancels a word still undecided.
Escape ==
  /\ Plain
  /\ learned' = FALSE
  /\ \/ /\ ghost > 0
        /\ ghost' = 0
        /\ UNCHANGED typed
        /\ KeepWord
     \/ /\ ghost = 0 /\ lock = Open
        /\ ResetWord
        /\ typed' = client
  /\ KeepModes
  /\ UNCHANGED <<hint, client>>

-----------------------------------------------------------------------------
(* handle_key: Backspace.                                                   *)

\* The preedit shrinks; when it empties the word is over.
BackspaceComposing ==
  /\ enabled /\ Composing
  /\ word' = Cut(word, 1)
  /\ IF word' = <<>>
     THEN lock' = NoLock /\ layout' = FALSE /\ ghost' = 0
     ELSE /\ lock' \in AfterPop(lock, Len(word'))
          /\ ghost' \in Offers(word', FALSE)
          /\ UNCHANGED layout
  /\ learned' = FALSE
  /\ typed' = Cut(typed, 1)
  /\ KeepModes
  /\ UNCHANGED <<translit, native, direct, hint, client>>

\* The hint after the client deleted one character in front of no word.
AfterErase ==
  IF hint.kind = "start" /\ hint.spaces > 1
  THEN Start(hint.spaces - 1, hint.tail)
  ELSE IF hint.kind = "start" /\ hint.spaces = 1
  THEN Awaiting(hint.tail)
  ELSE IF hint.kind = "awaiting" /\ hint.tail > 0
  THEN Awaiting(hint.tail - 1)
  ELSE NoHint

EraseDelivered ==
  /\ enabled /\ ~Composing
  /\ word' = IF word = <<>> THEN word ELSE Cut(word, 1)
  /\ layout' = (layout /\ word' # <<>>)
  /\ native' = (native /\ word' # <<>>)
  /\ ghost' \in Offers(word', native \/ direct)
  /\ learned' = FALSE
  /\ client' = Erased(client)
  /\ typed' = Erased(typed)
  /\ KeepModes
  /\ UNCHANGED <<lock, translit>>

SlipEmptyWordStaysDirect ==
  /\ EraseDelivered
  /\ hint' = IF word = <<>> THEN AfterErase ELSE NoHint
  /\ UNCHANGED direct

SlipLetterErasedAsDelimiter ==
  /\ EraseDelivered
  /\ hint' = AfterErase
  /\ direct' = (direct /\ word' # <<>>)

\* The key is forwarded: the client deletes what the core drops.
BackspaceDelivered ==
  /\ EraseDelivered
  /\ hint' = IF word = <<>> THEN AfterErase ELSE NoHint
  /\ direct' = (direct /\ word' # <<>>)

-----------------------------------------------------------------------------
(* Other entry points.                                                      *)

\* The user picks one of two readings of the composing word.
AcceptLanguageChoice ==
  /\ enabled /\ Composing /\ lock # Pinned
  /\ EndWord(NoHint, TRUE)
  /\ client' = client \o word
  /\ UNCHANGED typed
  /\ KeepModes

\* A remembered correction replaces the completion on display.
ApplyPredictionOverride ==
  /\ word # <<>> /\ ~native /\ ~direct /\ display
  /\ ghost' \in 1..MaxGhost
  /\ KeepModes /\ KeepWord
  /\ UNCHANGED <<hint, learned, client, typed>>

SlipHiddenGhostStays ==
  /\ display' \in BOOLEAN
  /\ KeepWord
  /\ UNCHANGED <<enabled, ghost, hint, learned, client, typed>>

SetCompletionDisplay ==
  /\ display' \in BOOLEAN
  /\ ghost' = IF display' THEN ghost ELSE 0
  /\ KeepWord
  /\ UNCHANGED <<enabled, hint, learned, client, typed>>

\* The completion on offer was rejected too often: it is taken back.
ClearGhost ==
  /\ ghost' = 0
  /\ KeepModes /\ KeepWord
  /\ UNCHANGED <<hint, learned, client, typed>>

SlipHandoffOnlyWhenLocked ==
  /\ lock' = NoLock
  /\ layout' = (layout \/ Composing)
  /\ translit' = (translit /\ ~Composing)
  /\ ghost' = 0
  /\ learned' = FALSE
  /\ client' = IF lock = Open THEN client ELSE client \o Held
  /\ KeepModes
  /\ UNCHANGED <<word, hint, typed>>

\* The preedit goes to the client and the word stays open ...
Handoff ==
  /\ lock' = NoLock
  /\ layout' = (layout \/ Composing)
  /\ translit' = (translit /\ ~Composing)
  /\ ghost' = 0
  /\ learned' = FALSE
  /\ client' = client \o Held
  /\ KeepModes
  /\ UNCHANGED <<word, hint, typed>>

\* ... owned by the client's own completion (Ctrl+Space) ...
HandoffForNativeCompletion ==
  /\ Handoff
  /\ native' = (word # <<>>)
  /\ UNCHANGED direct

\* ... or as text that will not be revised (direct delivery).
HandoffForDelivery ==
  /\ Handoff
  /\ direct' = (word # <<>>)
  /\ UNCHANGED native

\* The layout was switched by hand: deliver, learn nothing.
FlushPreeditForLayout ==
  /\ EndWord(NoHint, FALSE)
  /\ client' = client \o Held
  /\ UNCHANGED typed
  /\ KeepModes

SlipFlushOnlyWhenLocked ==
  /\ EndWord(NoHint, ~direct /\ ~native /\ word # <<>>)
  /\ client' = IF lock = Open THEN client ELSE client \o Held
  /\ UNCHANGED typed
  /\ KeepModes

SlipLearnsEveryWord ==
  /\ EndWord(NoHint, word # <<>>)
  /\ client' = client \o Held
  /\ UNCHANGED typed
  /\ KeepModes

FocusLost ==
  /\ EndWord(NoHint, ~direct /\ ~native /\ word # <<>>)
  /\ client' = client \o Held
  /\ UNCHANGED typed
  /\ KeepModes

\* Focus arrives between words in a field of unknown text, or without the
\* field having lost it.
FocusGained ==
  /\ IF native THEN ResetWord
     ELSE KeepWord /\ UNCHANGED ghost
  /\ hint' = NoHint
  /\ learned' = FALSE
  /\ \/ UNCHANGED <<client, typed>>
     \/ /\ word = <<>>
        /\ Room(1)
        /\ client' = Opaque(client)
        /\ typed' = Opaque(typed)
  /\ KeepModes

\* The host cancels the composition: nothing is delivered.
Reset ==
  /\ EndWord(NoHint, FALSE)
  /\ typed' = client
  /\ UNCHANGED client
  /\ KeepModes

WithdrawSentenceBoundaryHint ==
  /\ hint' = NoHint
  /\ KeepModes /\ KeepWord
  /\ UNCHANGED <<ghost, learned, client, typed>>

(***************************************************************************)
(* The client reports the text before the caret, all of it known: blank    *)
(* text or a line break starts a sentence; so does white space after a     *)
(* terminator and the closers that follow the earliest of its run.         *)
(***************************************************************************)
Reconciled(text) ==
  LET inked == {i \in 1..Len(text) : text[i] \notin {" ", "n"}}
      last  == CHOOSE i \in inked : \A j \in inked : j <= i
      stops == {i \in inked : text[i] = "."
                              /\ \A j \in i..last : text[j] \in Closers}
      first == CHOOSE i \in stops : \A j \in stops : i <= j
      blank == Len(text) - last
  IN  IF inked = {} \/ \E i \in (last + 1)..Len(text) : text[i] = "n"
      THEN Start(0, 0)
      ELSE IF stops = {} THEN NoHint
      ELSE IF blank = 0 THEN Awaiting(last - first)
      ELSE Start(blank, last - first)

\* A current report; MasterLoop keeps none while the engine is off.
ReconcileSentenceBoundaryHint ==
  /\ enabled
  /\ \A i \in 1..Len(client) : client[i] # "?"
  /\ hint' = Reconciled(client)
  /\ KeepModes /\ KeepWord
  /\ UNCHANGED <<ghost, learned, client, typed>>
-----------------------------------------------------------------------------
Init ==
  /\ enabled = TRUE
  /\ word = <<>> /\ lock = NoLock /\ ghost = 0
  /\ layout = FALSE /\ translit = FALSE /\ native = FALSE /\ direct = FALSE
  /\ display = TRUE
  /\ hint = NoHint
  /\ learned = FALSE
  /\ client \in {<<>>, <<"?">>}
  /\ typed = client

KeyEvent ==
  \/ KillOff \/ KillOn \/ DisabledKey
  \/ DirectBoundary \/ NativeBoundary \/ NativePopupKey \/ Chord
  \/ ClosingTail \/ RawKeyComposing \/ RawKeyDelivered
  \/ LetterAfterComposing \/ Letter \/ WrongLayout
  \/ MarkAfterComposing \/ Mark
  \/ Accept \/ SpaceAccept \/ AcceptCharacter \/ Navigate
  \/ Tab \/ Delimiter \/ Escape
  \/ BackspaceComposing \/ BackspaceDelivered

HostCall ==
  \/ AcceptLanguageChoice \/ ApplyPredictionOverride \/ SetCompletionDisplay
  \/ ClearGhost \/ HandoffForNativeCompletion \/ HandoffForDelivery
  \/ FlushPreeditForLayout \/ FocusLost \/ FocusGained \/ CursorMoved \/ Reset
  \/ WithdrawSentenceBoundaryHint \/ ReconcileSentenceBoundaryHint

Next == KeyEvent \/ HostCall

Spec == Init /\ [][Next]_vars
-----------------------------------------------------------------------------
(* Properties.                                                             *)

\* Types; the length of a lock's deciding prefix is a number of characters.
TypeOK ==
  /\ word \in Seq(WordGlyphs) /\ client \in Seq(Glyphs) /\ typed \in Seq(Glyphs)
  /\ lock \in Locks
  /\ hint \in Hints
  /\ ghost \in Nat
  /\ {enabled, layout, translit, native, direct, display, learned} \subseteq BOOLEAN

(***************************************************************************)
(* The four ways a word can be held exclude each other: a word in the      *)
(* preedit has no delivery layout and no other owner, and every mark of    *)
(* ownership is gone with the word.  This is spread over some twenty       *)
(* assignments in input.rs and checked nowhere.                            *)
(***************************************************************************)
Ownership ==
  /\ Composing => word # <<>> /\ ~layout /\ ~native /\ ~direct
  /\ layout \/ native \/ direct => word # <<>>
  /\ lock.at <= Len(word)

(***************************************************************************)
(* A word that is not in the preedit is the text right before the caret.   *)
(* Every ReplaceWord deletes a count of characters and relies on it.       *)
(***************************************************************************)
TokenInPlace == ~Composing => EndsIn(client, word)

(***************************************************************************)
(* No character is lost or doubled: what the user typed is what the client *)
(* has plus the preedit, through every handoff, flush, accept, rewrite and *)
(* deletion; only the cancel paths and the kill switch give text up.       *)
(***************************************************************************)
Conserved == typed = client \o Held

(***************************************************************************)
(* A completion on offer extends the word at hand, on a display that is    *)
(* there, and never a word that another party owns: Tab would commit it.   *)
(***************************************************************************)
GhostBelongs == ghost > 0 => display /\ ~native /\ ~direct /\ word # <<>>

\* text ends in a sentence terminator, n closing marks and s spaces.
Boundary(text, s, n) ==
  LET stop == Len(text) - s - n
  IN  /\ stop > 0
      /\ text[stop] = "."
      /\ \A i \in (stop + 1)..(stop + n) : text[i] \in Closers
      /\ \A i \in (stop + n + 1)..Len(text) : text[i] = " "

(***************************************************************************)
(* The sentence hint is a projection of text the core cannot see, and      *)
(* decides whether the next word is capitalised.  It says what is there:   *)
(* the terminator, the counted closers and the counted spaces stand before *)
(* the word, whatever was forwarded, erased, cancelled or committed since. *)
(***************************************************************************)
HintSound ==
  LET before == IF Composing THEN client ELSE Cut(client, Len(word))
  IN  /\ hint.kind = "awaiting" /\ before = client => Boundary(before, 0, hint.tail)
      /\ hint.kind = "start" /\ hint.spaces > 0
           => Boundary(before, hint.spaces, hint.tail)

(***************************************************************************)
(* A word delivered early, or owned by the client's completion, is never   *)
(* learned from: what it became is not observable.                         *)
(***************************************************************************)
OwnedNeverLearned == [][native \/ direct => ~learned']_vars

(***************************************************************************)
(* flush_preedit: "Every exit path that clears state must call this first, *)
(* otherwise the word is destroyed."  Switching the engine off clears it.  *)
(***************************************************************************)
KillSwitchDelivers == [][enabled /\ ~enabled' => client' = client \o Held]_vars

(***************************************************************************)
(* "Only previously-forwarded chars are in the application text": what the *)
(* wrong-layout rewrite deletes is the word whose letters it replaces.     *)
(***************************************************************************)
RewritesForwardedLetters ==
  [][translit' /\ ~translit => Replaced(client, Len(word), word) = client]_vars
=============================================================================
