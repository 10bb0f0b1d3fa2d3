--------------------------- MODULE InputCoreProofs ---------------------------
(***************************************************************************)
(* What InputCore guarantees for every bound on the text and every choice  *)
(* of the environment.  First the operators on text, then the shape of the *)
(* state, which holds whatever the client's text is, then the text, and    *)
(* last the sentence hint.                                                 *)
(***************************************************************************)
EXTENDS InputCore, SequenceTheorems, WellFoundedInduction, TLAPS

-----------------------------------------------------------------------------
(* Text.                                                                   *)

\* Cutting characters off the end of a text keeps the others; cutting off
\* more than there are leaves nothing.
LEMMA CutText ==
  ASSUME NEW S, NEW t \in Seq(S), NEW n \in Nat
  PROVE  /\ Cut(t, n) \in Seq(S)
         /\ Len(Cut(t, n)) = IF n <= Len(t) THEN Len(t) - n ELSE 0
         /\ \A i \in 1..(Len(t) - n) : Cut(t, n)[i] = t[i]
<1>1. Len(t) \in Nat /\ Len(t) - n \in Int
  BY LenProperties
<1>2. \A i \in 1..(Len(t) - n) : t[i] \in S
  BY <1>1, ElementOfSeq
<1>3. /\ SubSeq(t, 1, Len(t) - n) \in Seq(S)
      /\ Len(SubSeq(t, 1, Len(t) - n)) =
           IF 1 <= Len(t) - n THEN Len(t) - n - 1 + 1 ELSE 0
      /\ \A i \in 1..(Len(t) - n - 1 + 1) : SubSeq(t, 1, Len(t) - n)[i] = t[1 + i - 1]
  BY <1>1, <1>2, SubSeqProperties
<1> QED  BY <1>1, <1>3 DEF Cut

\* Every character of a word may stand in the client's text.
LEMMA WordIsText ==
  ASSUME NEW w \in Seq(WordGlyphs)
  PROVE  w \in Seq(Glyphs)
<1>1. WordGlyphs \subseteq Glyphs
  BY DEF WordGlyphs, Glyphs
<1> QED  BY <1>1, SeqMonotonic

LEMMA LettersAreWord ==
  ASSUME NEW n \in Nat
  PROVE  Letters(n) \in Seq(WordGlyphs) /\ Len(Letters(n)) = n
<1>1. Letters(n) \in [1..n -> WordGlyphs]
  BY DEF Letters, WordGlyphs
<1> QED  BY <1>1, SeqDef

\* Text stays text when it turns opaque, loses a character, or is replaced.
LEMMA EditedText ==
  ASSUME NEW t \in Seq(Glyphs), NEW w \in Seq(Glyphs), NEW n \in Nat
  PROVE  /\ Opaque(t) \in Seq(Glyphs)
         /\ Erased(t) \in Seq(Glyphs)
         /\ Replaced(t, n, w) \in Seq(Glyphs)
<1>1. "?" \in Glyphs
  BY DEF Glyphs
<1>2. Append(t, "?") \in Seq(Glyphs)
  BY <1>1, AppendProperties
<1>3. Cut(t, 1) \in Seq(Glyphs) /\ Cut(t, n) \in Seq(Glyphs)
  BY CutText
<1>4. Cut(t, n) \o w \in Seq(Glyphs)
  BY <1>3, ConcatProperties
<1> QED  BY <1>2, <1>3, <1>4 DEF Opaque, Erased, Replaced

LEMMA CommittedText ==
  ASSUME NEW t \in Seq(Glyphs), NEW w \in Seq(WordGlyphs)
  PROVE  PostCommit(t, w) \subseteq Seq(Glyphs)
<1>1. w \in Seq(Glyphs) /\ Len(w) \in Nat
  BY WordIsText, LenProperties
<1>2. Replaced(t, Len(w), w) \in Seq(Glyphs)
  BY <1>1, EditedText
<1> QED  BY <1>2 DEF PostCommit

-----------------------------------------------------------------------------
(* The shape of the state: everything except the text of the client.       *)

\* The seven flags are Boolean.
Flags ==
  /\ enabled \in BOOLEAN /\ layout \in BOOLEAN /\ translit \in BOOLEAN
  /\ native \in BOOLEAN /\ direct \in BOOLEAN /\ display \in BOOLEAN
  /\ learned \in BOOLEAN

Shape ==
  /\ word \in Seq(WordGlyphs) /\ lock \in Locks /\ ghost \in Nat
  /\ Flags
  /\ Ownership
  /\ GhostBelongs

\* The locks a key or a deletion may leave are locks of a composing word,
\* decided by characters the word has.
LEMMA LockSteps ==
  ASSUME NEW l \in Locks, NEW n \in Nat, n > 0
  PROVE  /\ NoLock \in Locks /\ Pinned \in Locks
         /\ NoLock.at = 0 /\ Pinned.at = 0 /\ Pinned # NoLock
         /\ \A m \in AfterPush(l, n) :
              m \in Locks /\ m # NoLock /\ (l.at <= n => m.at <= n)
         /\ \A m \in AfterPop(l, n) : m \in Locks /\ m.at <= n
         /\ l # NoLock => NoLock \notin AfterPop(l, n)
<1> USE DEF Locks, NoLock, Open, Pinned, Inferred
<1>1. /\ l.kind \in {"none", "open", "pinned", "inferred"} /\ l.at \in Nat
      /\ l.kind = "inferred" <=> l.at > 0
      /\ l = [kind |-> l.kind, at |-> l.at]
  OBVIOUS
<1>2. /\ NoLock \in Locks /\ Open \in Locks /\ Pinned \in Locks
      /\ Inferred(n) \in Locks
  OBVIOUS
<1>3. /\ Open # NoLock /\ Pinned # NoLock /\ Inferred(n) # NoLock
      /\ NoLock.at = 0 /\ Open.at = 0 /\ Pinned.at = 0 /\ Inferred(n).at = n
      /\ NoLock.kind = "none"
  OBVIOUS
<1> HIDE DEF Locks, NoLock, Open, Pinned, Inferred
<1>4. \A m \in AfterPush(l, n) :
        m \in Locks /\ m # NoLock /\ (l.at <= n => m.at <= n)
  BY <1>1, <1>2, <1>3 DEF AfterPush
<1>5. l.kind # "inferred" => l.at = 0
  BY <1>1
<1>6. \A m \in AfterPop(l, n) : m \in Locks /\ m.at <= n
  BY <1>1, <1>2, <1>3, <1>5 DEF AfterPop
<1>7. l # NoLock => NoLock \notin AfterPop(l, n)
  BY <1>1, <1>2, <1>3 DEF AfterPop
<1> QED  BY <1>2, <1>3, <1>4, <1>6, <1>7

\* A word that gains or loses one character.
LEMMA WordSteps ==
  ASSUME NEW w \in Seq(WordGlyphs)
  PROVE  /\ Len(w) \in Nat
         /\ w # <<>> => Len(w) > 0
         /\ \A g \in WordGlyphs :
              /\ Append(w, g) \in Seq(WordGlyphs) /\ Append(w, g) # <<>>
              /\ Len(Append(w, g)) = Len(w) + 1
         /\ Cut(w, 1) \in Seq(WordGlyphs)
         /\ w # <<>> => Len(Cut(w, 1)) = Len(w) - 1
         /\ w # <<>> /\ Len(w) # 1 => Cut(w, 1) # <<>>
<1>1. Len(w) \in Nat /\ (w # <<>> => Len(w) > 0)
  BY EmptySeq, LenProperties
<1>2. \A g \in WordGlyphs :
        /\ Append(w, g) \in Seq(WordGlyphs) /\ Append(w, g) # <<>>
        /\ Len(Append(w, g)) = Len(w) + 1
  BY AppendProperties
<1>3. Cut(w, 1) \in Seq(WordGlyphs)
      /\ Len(Cut(w, 1)) = IF 1 <= Len(w) THEN Len(w) - 1 ELSE 0
  BY CutText
<1>4. w # <<>> => Len(Cut(w, 1)) = Len(w) - 1
  BY <1>1, <1>3
<1>5. w # <<>> /\ Len(w) # 1 => Cut(w, 1) # <<>>
  BY <1>1, <1>4, EmptySeq
<1> QED  BY <1>1, <1>2, <1>3, <1>4, <1>5

\* Whatever is offered is offered for an unowned word with a letter in it.
LEMMA OffersBelong ==
  ASSUME NEW w \in Seq(WordGlyphs), NEW owned \in BOOLEAN, NEW g \in Offers(w, owned)
  PROVE  g \in Nat /\ (g > 0 => ~owned /\ display /\ w # <<>>)
<1>1. HasLetter(w) => w # <<>>
  BY EmptySeq DEF HasLetter
<1> QED  BY <1>1, BoundsAssumption DEF Offers

\* The handlers that end the word leave nothing of it behind.
LEMMA ResetShape ==
  ASSUME ResetWord, Flags'
  PROVE  Shape'
<1>1. <<>> \in Seq(WordGlyphs) /\ Len(<<>>) = 0
  BY EmptySeq
<1>2. NoLock \in Locks /\ NoLock.at = 0
  BY DEF NoLock, Locks
<1> QED  BY <1>1, <1>2 DEF ResetWord, Shape, Ownership, GhostBelongs, Composing

\* The handlers that leave the word alone may only withdraw its completion.
LEMMA KeepShape ==
  ASSUME Shape, KeepWord, Flags', ghost' = 0 \/ (ghost' = ghost /\ display' = display)
  PROVE  Shape'
  BY DEF Shape, KeepWord, Ownership, GhostBelongs, Composing

\* A letter or a mark joins the word, composing or delivered.
LEMMA AppendShape ==
  ASSUME Shape, NEW g \in WordGlyphs, word' = Append(word, g), lock' \in Locks,
         lock'.at <= Len(word) + 1, lock' # NoLock => ~layout' /\ ~native' /\ ~direct',
         Flags', ghost' \in Nat, ghost' > 0 => display' /\ ~native' /\ ~direct'
  PROVE  Shape'
  BY WordSteps DEF Shape, Ownership, GhostBelongs, Composing

\* Keys handled while the engine is off, and keys left to the client.
LEMMA PassedKeyShape ==
  ASSUME Shape,
         \/ KillOff \/ KillOn \/ DisabledKey \/ DirectBoundary \/ NativeBoundary
         \/ NativePopupKey \/ Chord \/ ClosingTail
  PROVE  Shape'
<1> USE DEF Flags, KeepModes, KeepWord, EndWord
<1>0. Flags
  BY DEF Shape
<1>1. CASE KillOff
  BY <1>0, <1>1, ResetShape DEF KillOff, ResetWord
<1>2. CASE KillOn
  BY <1>0, <1>2, KeepShape DEF KillOn
<1>3. CASE DisabledKey
  BY <1>0, <1>3, KeepShape DEF DisabledKey
<1>4. CASE DirectBoundary
  BY <1>0, <1>4, ResetShape DEF DirectBoundary, ResetWord
<1>5. CASE NativeBoundary
  BY <1>0, <1>5, ResetShape DEF NativeBoundary, ResetWord
<1>6. CASE NativePopupKey
  BY <1>6 DEF NativePopupKey, Shape, Ownership, GhostBelongs, Composing
<1>7. CASE Chord
  BY <1>0, <1>7, KeepShape DEF Chord
<1>8. CASE ClosingTail
  BY <1>0, <1>8, KeepShape DEF ClosingTail
<1> QED  BY <1>1, <1>2, <1>3, <1>4, <1>5, <1>6, <1>7, <1>8

\* Keys that lengthen the word or end it.
LEMMA TypedKeyShape ==
  ASSUME Shape,
         \/ RawKeyComposing \/ RawKeyDelivered \/ LetterAfterComposing \/ Letter
         \/ WrongLayout \/ MarkAfterComposing \/ Mark \/ AcceptCharacter
  PROVE  Shape'
<1> USE DEF Flags, KeepModes, KeepOwner
<1>0. /\ Flags /\ lock \in Locks /\ word \in Seq(WordGlyphs) /\ Len(word) \in Nat
      /\ ghost \in Nat
  BY WordSteps DEF Shape
<1>1. "a" \in WordGlyphs /\ Marks \subseteq WordGlyphs
  BY DEF WordGlyphs, Marks
<1>2. NoLock \in Locks /\ NoLock.at = 0 /\ Pinned \in Locks /\ Pinned.at = 0
  BY DEF NoLock, Pinned, Locks
<1>3. /\ lock.at <= Len(word) /\ (lock # NoLock => ~layout /\ ~native /\ ~direct)
      /\ word = <<>> => ~layout /\ ~native /\ ~direct
  BY DEF Shape, Ownership, Composing
<1>4. Append(word, "a") \in Seq(WordGlyphs)
  BY <1>0, <1>1, WordSteps
<1>5. CASE RawKeyComposing
  <2>0. lock' \in AfterPush(lock, Len(word) + 1)
    BY <1>5 DEF RawKeyComposing
  <2>1. lock' \in Locks /\ lock'.at <= Len(word) + 1
    <3>1. Len(word) + 1 \in Nat /\ Len(word) + 1 > 0 /\ lock.at <= Len(word) + 1
      BY <1>0, <1>3 DEF Locks
    <3> QED  BY <1>0, <2>0, <3>1, LockSteps
  <2>2. ghost' \in Nat /\ (ghost' > 0 => display)
    BY <1>4, <1>5, OffersBelong DEF RawKeyComposing
  <2> QED  BY <1>0, <1>1, <1>3, <1>5, <2>1, <2>2, AppendShape
           DEF RawKeyComposing, Composing
<1>6. CASE RawKeyDelivered
  <2>1. lock = NoLock
    BY <1>3, <1>6 DEF RawKeyDelivered, Composing
  <2>2. (native \/ direct) \in BOOLEAN
    OBVIOUS
  <2>3. ghost' \in Nat /\ (ghost' > 0 => ~(native \/ direct) /\ display)
    BY <1>4, <1>6, <2>2, OffersBelong DEF RawKeyDelivered
  <2>4. /\ word' = Append(word, "a") /\ lock' = NoLock /\ Flags'
        /\ native' = native /\ direct' = direct /\ display' = display
    BY <1>0, <1>6, <2>1 DEF RawKeyDelivered
  <2> QED  BY <1>0, <1>1, <1>2, <2>3, <2>4, AppendShape
<1>7. CASE LetterAfterComposing
  <2>1. word' = Append(word, "a") /\ lock' = NoLock /\ Flags' /\ ghost' = 0
    BY <1>0, <1>7 DEF LetterAfterComposing
  <2> QED  BY <1>0, <1>1, <1>2, <2>1, AppendShape
<1>8. CASE Letter \/ WrongLayout
  <2>1. lock = NoLock
    BY <1>8 DEF Letter, WrongLayout, Composing
  <2>2. (native \/ direct) \in BOOLEAN
    OBVIOUS
  <2>3. ghost' \in Nat /\ (ghost' > 0 => ~(native \/ direct) /\ display)
    BY <1>4, <1>8, <2>2, OffersBelong DEF Letter, WrongLayout
  <2>4. /\ word' = Append(word, "a") /\ lock' = NoLock /\ Flags'
        /\ native' = native /\ direct' = direct /\ display' = display
    BY <1>0, <1>8, <2>1 DEF Letter, WrongLayout
  <2> QED  BY <1>0, <1>1, <1>2, <2>3, <2>4, AppendShape
<1>9. CASE MarkAfterComposing
  BY <1>0, <1>9, ResetShape DEF MarkAfterComposing, Commit, EndWord, ResetWord
<1>10. CASE Mark
  <2>1. PICK shown \in WordGlyphs : word' = Append(word, shown)
    BY <1>1, <1>10 DEF Mark
  <2>2. ghost' \in Nat /\ (ghost' > 0 => display)
    BY <1>0, <1>10, <2>1, WordSteps, OffersBelong DEF Mark
  <2>3. /\ lock' = NoLock /\ Flags' /\ display' = display
        /\ ~native' /\ ~direct'
    BY <1>0, <1>10 DEF Mark, Composing, Plain
  <2> QED  BY <1>0, <1>2, <2>1, <2>2, <2>3, AppendShape
<1>11. CASE AcceptCharacter
  <2>1. ghost' \in Nat /\ ~native /\ ~direct
    BY <1>0, <1>11 DEF AcceptCharacter, Plain
  <2>2. display
    BY <1>0, <1>11 DEF Shape, GhostBelongs, AcceptCharacter
  <2>3. lock' # NoLock => ~layout
    BY <1>3, <1>11 DEF AcceptCharacter, Composing
  <2>4. lock' \in Locks /\ lock'.at <= Len(word) + 1
    BY <1>0, <1>2, <1>3, <1>11 DEF AcceptCharacter, Locks
  <2> QED  BY <1>0, <1>1, <1>11, <2>1, <2>2, <2>3, <2>4, AppendShape DEF AcceptCharacter
<1> QED  BY <1>5, <1>6, <1>7, <1>8, <1>9, <1>10, <1>11

\* Keys that end a word, take it back, or act on its completion.
LEMMA EditKeyShape ==
  ASSUME Shape,
         \/ Accept \/ SpaceAccept \/ Navigate \/ Tab \/ Delimiter \/ Escape
         \/ BackspaceComposing \/ BackspaceDelivered
  PROVE  Shape'
<1> USE DEF Flags, KeepModes, KeepOwner, EndWord
<1>0. Flags /\ lock \in Locks /\ word \in Seq(WordGlyphs)
  BY DEF Shape
<1>1. CASE Accept \/ SpaceAccept
  BY <1>0, <1>1, ResetShape DEF Accept, SpaceAccept, AcceptWith, ResetWord
<1>2. CASE Navigate
  BY <1>0, <1>2, ResetShape DEF Navigate, CursorMoved, ResetWord
<1>3. CASE Tab
  <2>1. CASE word # <<>>
    BY <1>0, <1>3, <2>1, ResetShape DEF Tab, ResetWord
  <2>2. CASE word = <<>>
    BY <1>0, <1>3, <2>2, KeepShape DEF Tab, KeepWord
  <2> QED  BY <2>1, <2>2
<1>4. CASE Delimiter
  BY <1>0, <1>4, ResetShape DEF Delimiter, Commit, ResetWord
<1>5. CASE Escape
  <2>1. CASE ghost > 0 /\ ghost' = 0 /\ KeepWord
    BY <1>0, <1>5, <2>1, KeepShape DEF Escape, KeepWord
  <2>2. CASE ResetWord
    BY <1>0, <1>5, <2>2, ResetShape DEF Escape, ResetWord
  <2> QED  BY <1>5, <2>1, <2>2 DEF Escape
<1>6. CASE BackspaceComposing
  <2>1. /\ word # <<>> /\ lock # NoLock /\ ~layout /\ ~native /\ ~direct
        /\ lock.at <= Len(word)
    BY <1>6 DEF Shape, Ownership, BackspaceComposing, Composing
  <2>2. word' \in Seq(WordGlyphs) /\ Len(word') \in Nat /\ Len(word') = Len(word) - 1
    BY <1>0, <1>6, <2>1, WordSteps DEF BackspaceComposing
  <2>3. Flags' /\ ~layout' /\ ~native' /\ ~direct' /\ display' = display
    BY <1>0, <1>6, <2>1 DEF BackspaceComposing
  <2>4. CASE word' = <<>>
    <3>1. lock' = NoLock /\ ghost' = 0
      BY <1>6, <2>4 DEF BackspaceComposing
    <3>2. NoLock \in Locks /\ NoLock.at = 0
      BY DEF NoLock, Locks
    <3> QED  BY <2>2, <2>3, <3>1, <3>2 DEF Shape, Ownership, GhostBelongs, Composing
  <2>5. CASE word' # <<>>
    <3>1. Len(word') > 0
      BY <2>2, <2>5, EmptySeq
    <3>2. lock' \in AfterPop(lock, Len(word')) /\ ghost' \in Offers(word', FALSE)
      BY <1>6, <2>5 DEF BackspaceComposing
    <3>3. lock' \in Locks /\ lock'.at <= Len(word')
      BY <1>0, <2>2, <3>1, <3>2, LockSteps
    <3>4. ghost' \in Nat /\ (ghost' > 0 => display)
      BY <2>2, <3>2, OffersBelong
    <3> QED  BY <2>2, <2>3, <2>5, <3>3, <3>4
             DEF Shape, Ownership, GhostBelongs, Composing
  <2> QED  BY <2>4, <2>5
<1>7. CASE BackspaceDelivered
  <2> USE <1>7 DEF BackspaceDelivered, EraseDelivered
  <2>1. /\ lock' = NoLock /\ NoLock \in Locks /\ NoLock.at = 0
    BY DEF Composing, NoLock, Locks
  <2>2. word' \in Seq(WordGlyphs) /\ Len(word') \in Nat
    BY <1>0, WordSteps
  <2>3. Flags' /\ display' = display
    BY <1>0, Zenon
  <2>4. /\ layout' => word' # <<>>
        /\ native' => native /\ word' # <<>>
        /\ direct' => direct /\ word' # <<>>
    BY Zenon
  <2>5. (native \/ direct) \in BOOLEAN
    OBVIOUS
  <2>6. ghost' \in Nat /\ (ghost' > 0 => ~(native \/ direct) /\ display /\ word' # <<>>)
    BY <2>2, <2>5, OffersBelong
  <2> QED  BY <2>1, <2>2, <2>3, <2>4, <2>6 DEF Shape, Ownership, GhostBelongs, Composing
<1> QED  BY <1>1, <1>2, <1>3, <1>4, <1>5, <1>6, <1>7

\* What the adapters call besides handle_key.
LEMMA HostCallShape ==
  ASSUME Shape, HostCall
  PROVE  Shape'
<1> USE DEF Flags, KeepModes, EndWord
<1>0. Flags /\ lock \in Locks /\ word \in Seq(WordGlyphs) /\ Len(word) \in Nat
  BY WordSteps DEF Shape
<1>1. CASE AcceptLanguageChoice \/ CursorMoved \/ FlushPreeditForLayout \/ Reset
  BY <1>0, <1>1, ResetShape
  DEF AcceptLanguageChoice, CursorMoved, FlushPreeditForLayout, Reset, ResetWord
<1>2. CASE FocusLost
  <2>1. (~direct /\ ~native /\ word # <<>>) \in BOOLEAN
    OBVIOUS
  <2> QED  BY <1>0, <1>2, <2>1, ResetShape, Zenon DEF FocusLost, ResetWord
<1>3. CASE FocusGained
  BY <1>0, <1>3, ResetShape, KeepShape DEF FocusGained, ResetWord, KeepWord
<1>4. CASE WithdrawSentenceBoundaryHint \/ ReconcileSentenceBoundaryHint
  BY <1>0, <1>4, KeepShape
  DEF WithdrawSentenceBoundaryHint, ReconcileSentenceBoundaryHint, KeepWord
<1>5. CASE SetCompletionDisplay \/ ClearGhost
  BY <1>0, <1>5
  DEF SetCompletionDisplay, ClearGhost, KeepWord, Shape, Ownership, GhostBelongs,
      Composing
<1>6. CASE ApplyPredictionOverride
  <2>1. ghost' \in Nat
    BY <1>6, BoundsAssumption DEF ApplyPredictionOverride
  <2> QED  BY <1>0, <1>6, <2>1
           DEF ApplyPredictionOverride, KeepWord, Shape, Ownership, GhostBelongs, Composing
<1>7. CASE HandoffForNativeCompletion \/ HandoffForDelivery
  <2> USE <1>7 DEF HandoffForNativeCompletion, HandoffForDelivery, Handoff
  <2>1. /\ lock' = NoLock /\ NoLock \in Locks /\ NoLock.at = 0
        /\ ghost' = 0 /\ word' = word /\ ghost' \in Nat
    BY DEF NoLock, Locks
  <2>2. Flags'
    BY <1>0, Zenon DEF Composing
  <2>3. layout' \/ native' \/ direct' => word # <<>>
    BY Zenon DEF Shape, Ownership, Composing
  <2> QED  BY <1>0, <2>1, <2>2, <2>3 DEF Shape, Ownership, GhostBelongs, Composing
<1> QED  BY <1>1, <1>2, <1>3, <1>4, <1>5, <1>6, <1>7 DEF HostCall

LEMMA InitShape == Init => Shape
<1>1. <<>> \in Seq(WordGlyphs) /\ Len(<<>>) = 0
  BY EmptySeq
<1>2. NoLock \in Locks /\ NoLock.at = 0
  BY DEF NoLock, Locks
<1> SUFFICES ASSUME Init PROVE Shape
  OBVIOUS
<1>3. /\ word = <<>> /\ lock = NoLock /\ ghost = 0 /\ Flags
      /\ ~layout /\ ~native /\ ~direct
  BY DEF Init, Flags
<1> QED  BY <1>1, <1>2, <1>3 DEF Shape, Ownership, GhostBelongs, Composing

LEMMA NextShape == Shape /\ [Next]_vars => Shape'
<1> SUFFICES ASSUME Shape, [Next]_vars PROVE Shape'
  OBVIOUS
<1>1. CASE KeyEvent
  BY <1>1, PassedKeyShape, TypedKeyShape, EditKeyShape DEF KeyEvent
<1>2. CASE HostCall
  BY <1>2, HostCallShape
<1>3. CASE UNCHANGED vars
  BY <1>3 DEF vars, Shape, Flags, Ownership, GhostBelongs, Composing
<1> QED  BY <1>1, <1>2, <1>3 DEF Next

(***************************************************************************)
(* Every word is held in exactly one way: composing, delivered, or owned   *)
(* by another party, whatever keys and host calls are interleaved.         *)
(***************************************************************************)
THEOREM SpecOwnership == Spec => []Ownership
<1>1. Shape => Ownership
  BY DEF Shape
<1> QED  BY <1>1, InitShape, NextShape, PTL DEF Spec

(***************************************************************************)
(* A completion is only ever on offer for a word of one's own, on a        *)
(* display that can show it.                                               *)
(***************************************************************************)
THEOREM SpecGhostBelongs == Spec => []GhostBelongs
<1>1. Shape => GhostBelongs
  BY DEF Shape
<1> QED  BY <1>1, InitShape, NextShape, PTL DEF Spec

\* What was owned by another party has left nothing to learn from.
Unlearned == native \/ direct => ~learned

LEMMA OwnedStep ==
  ASSUME Shape, Unlearned, Next, native \/ direct \/ native' \/ direct'
  PROVE  ~learned'
<1> USE DEF KeepModes, KeepOwner, KeepWord, EndWord, ResetWord, Plain
<1>0. Composing => ~native /\ ~direct
  BY DEF Shape, Ownership
<1>1. CASE \/ KillOff \/ KillOn \/ DisabledKey \/ DirectBoundary \/ NativeBoundary
           \/ NativePopupKey \/ Chord \/ ClosingTail \/ RawKeyComposing
           \/ RawKeyDelivered \/ LetterAfterComposing \/ Letter \/ WrongLayout
           \/ Mark \/ AcceptCharacter \/ Navigate \/ Escape
           \/ BackspaceComposing \/ BackspaceDelivered
  BY <1>1 DEF KillOff, KillOn, DisabledKey, DirectBoundary, NativeBoundary,
     NativePopupKey, Chord, ClosingTail, RawKeyComposing, RawKeyDelivered,
     LetterAfterComposing, Letter, WrongLayout, Mark, AcceptCharacter, Navigate,
     CursorMoved, Escape, BackspaceComposing, BackspaceDelivered, EraseDelivered
<1>2. CASE MarkAfterComposing \/ Accept \/ SpaceAccept \/ Tab \/ Delimiter
  BY <1>2 DEF MarkAfterComposing, Accept, SpaceAccept, AcceptWith, Tab, Delimiter, Commit
<1>3. CASE AcceptLanguageChoice
  BY <1>0, <1>3 DEF AcceptLanguageChoice
<1>4. CASE FocusLost
  BY <1>4 DEF FocusLost
<1>5. CASE \/ ApplyPredictionOverride \/ SetCompletionDisplay \/ ClearGhost
           \/ WithdrawSentenceBoundaryHint \/ ReconcileSentenceBoundaryHint
  BY <1>5 DEF Unlearned, ApplyPredictionOverride, SetCompletionDisplay, ClearGhost,
     WithdrawSentenceBoundaryHint, ReconcileSentenceBoundaryHint
<1>6. CASE \/ HandoffForNativeCompletion \/ HandoffForDelivery
           \/ FlushPreeditForLayout \/ FocusGained \/ CursorMoved \/ Reset
  BY <1>6 DEF HandoffForNativeCompletion, HandoffForDelivery, Handoff,
     FlushPreeditForLayout, FocusGained, CursorMoved, Reset
<1> QED  BY <1>1, <1>2, <1>3, <1>4, <1>5, <1>6 DEF Next, KeyEvent, HostCall

(***************************************************************************)
(* No operation learns a word that was delivered early or belonged to the  *)
(* client's completion.                                                    *)
(***************************************************************************)
THEOREM SpecOwnedNeverLearned == Spec => OwnedNeverLearned
<1>1. Init => Shape /\ Unlearned
  BY InitShape DEF Init, Unlearned
<1>2. Shape /\ Unlearned /\ [Next]_vars => (Shape /\ Unlearned)'
  <2>1. Unlearned /\ UNCHANGED vars => Unlearned'
    BY DEF Unlearned, vars
  <2>2. Shape /\ Unlearned /\ Next => Unlearned'
    BY OwnedStep DEF Unlearned
  <2> QED  BY <2>1, <2>2, NextShape
<1>3. Shape /\ Unlearned /\ [Next]_vars => [native \/ direct => ~learned']_vars
  BY OwnedStep
<1> QED  BY <1>1, <1>2, <1>3, PTL DEF Spec, OwnedNeverLearned

-----------------------------------------------------------------------------
(* The types of the texts and of the sentence hint.                        *)

Texts == client \in Seq(Glyphs) /\ typed \in Seq(Glyphs)

LEMMA JoinedText ==
  ASSUME NEW t \in Seq(Glyphs), NEW u \in Seq(Glyphs), NEW g \in Glyphs
  PROVE  t \o u \in Seq(Glyphs) /\ Append(t, g) \in Seq(Glyphs)
         /\ <<>> \in Seq(Glyphs) /\ <<g>> \in Seq(Glyphs)
  BY ConcatProperties, AppendProperties

\* The text a key or a host call leaves in the client.
LEMMA TextsStep ==
  ASSUME Shape, Texts, Next
  PROVE  Texts'
<1> USE DEF Texts, KeepModes
<1>0. /\ word \in Seq(Glyphs) /\ word \in Seq(WordGlyphs) /\ Held \in Seq(Glyphs)
      /\ Len(word) \in Nat /\ ghost \in Nat
  BY WordIsText, JoinedText, WordSteps DEF Shape, Held
<1>1. /\ {"a", "1", ".", ")", " ", "n", "?"} \subseteq Glyphs
      /\ Marks \subseteq Glyphs /\ Closers \subseteq Glyphs
  BY DEF Glyphs, Marks, Closers
<1>2. /\ <<>> \in Seq(Glyphs) /\ <<"a">> \in Seq(Glyphs) /\ <<"?">> \in Seq(Glyphs)
      /\ <<" ">> \in Seq(Glyphs) /\ \A g \in Glyphs : <<g>> \in Seq(Glyphs)
  BY <1>1, JoinedText
<1>3. /\ client \o Held \in Seq(Glyphs)
      /\ Opaque(client) \in Seq(Glyphs) /\ Opaque(typed) \in Seq(Glyphs)
      /\ Erased(client) \in Seq(Glyphs) /\ Erased(typed) \in Seq(Glyphs)
      /\ Cut(typed, 1) \in Seq(Glyphs)
  <2>1. \A t \in Seq(Glyphs) :
          /\ Opaque(t) \in Seq(Glyphs) /\ Erased(t) \in Seq(Glyphs)
          /\ Cut(t, 1) \in Seq(Glyphs)
    BY <1>2, EditedText, CutText
  <2> QED  BY <1>0, <2>1, JoinedText
<1>4. Shortcut => Texts'
  <2>1. Opaque(client) \o Held \in Seq(Glyphs)
    BY <1>0, <1>3, JoinedText
  <2> QED  BY <1>3, <2>1 DEF Shortcut
<1>5. ASSUME NEW u \in Seq(Glyphs), Forward(u) PROVE Texts'
  BY <1>5, JoinedText DEF Forward
<1>6. ASSUME NEW u \in Seq(Glyphs), NEW h, Commit(u, h) PROVE Texts'
  <2>1. PICK text \in PostCommit(client \o Held, word) : client' = text \o u
    BY <1>6 DEF Commit
  <2>2. text \in Seq(Glyphs)
    BY <1>0, <1>3, <2>1, CommittedText
  <2> QED  BY <1>6, <2>1, <2>2, JoinedText DEF Commit
<1>7. ASSUME NEW u \in Seq(Glyphs), AcceptWith(u) PROVE Texts'
  <2>1. /\ Letters(ghost) \in Seq(WordGlyphs) /\ Letters(ghost) \in Seq(Glyphs)
        /\ word \o Letters(ghost) \in Seq(WordGlyphs)
    BY <1>0, LettersAreWord, WordIsText, ConcatProperties
  <2>2. client \o Held \o Letters(ghost) \in Seq(Glyphs)
    BY <1>3, <2>1, JoinedText
  <2>3. client' \in Seq(Glyphs)
    <3>1. PICK text \in PostCommit(client \o Held \o Letters(ghost),
                                  word \o Letters(ghost)) : client' = text \o u
      BY <1>7 DEF AcceptWith
    <3>2. text \in Seq(Glyphs)
      BY <2>1, <2>2, <3>1, CommittedText
    <3> QED  BY <3>1, <3>2, JoinedText
  <2>4. typed \o Letters(ghost) \o u \in Seq(Glyphs)
    BY <2>1, JoinedText
  <2> QED  BY <1>7, <2>3, <2>4 DEF AcceptWith
<1>8. CASE KillOff \/ KillOn \/ NativePopupKey \/ Escape
  BY <1>8 DEF KillOff, KillOn, NativePopupKey, Escape
<1>9. CASE DisabledKey
  BY <1>2, <1>3, <1>5, <1>9 DEF DisabledKey
<1>10. CASE DirectBoundary \/ NativeBoundary \/ Chord
  BY <1>2, <1>4, <1>5, <1>10 DEF DirectBoundary, NativeBoundary, Chord
<1>11. CASE ClosingTail
  BY <1>1, <1>2, <1>5, <1>11 DEF ClosingTail
<1>12. CASE RawKeyComposing
  BY <1>1, <1>12, JoinedText DEF RawKeyComposing
<1>13. CASE RawKeyDelivered \/ Letter
  BY <1>2, <1>5, <1>13 DEF RawKeyDelivered, Letter
<1>14. CASE LetterAfterComposing
  <2>1. client \o word \in Seq(Glyphs)
    BY <1>0, JoinedText
  <2> QED  BY <1>1, <1>2, <1>14, <2>1, JoinedText DEF LetterAfterComposing
<1>15. CASE WrongLayout
  <2>1. Append(word, "a") \in Seq(Glyphs)
    BY <1>0, <1>1, JoinedText
  <2> QED  BY <1>0, <1>1, <1>15, <2>1, JoinedText, EditedText DEF WrongLayout
<1>16. CASE MarkAfterComposing
  BY <1>1, <1>2, <1>6, <1>16 DEF MarkAfterComposing
<1>17. CASE Mark
  BY <1>1, <1>2, <1>5, <1>17 DEF Mark
<1>18. CASE Accept \/ SpaceAccept
  BY <1>2, <1>7, <1>18 DEF Accept, SpaceAccept
<1>19. CASE AcceptCharacter
  BY <1>1, <1>19, JoinedText DEF AcceptCharacter
<1>20. CASE Navigate \/ CursorMoved
  BY <1>3, <1>20, EditedText DEF Navigate, CursorMoved
<1>21. CASE Tab
  <2>1. client \o Held \o <<"?">> \in Seq(Glyphs)
    BY <1>2, <1>3, ConcatProperties
  <2>2. Append(client, "?") \in Seq(Glyphs) /\ Append(typed, "?") \in Seq(Glyphs)
    BY <1>1, JoinedText
  <2> QED  BY <1>21, <2>1, <2>2 DEF Tab
<1>22. CASE Delimiter
  BY <1>1, <1>2, <1>5, <1>6, <1>22 DEF Delimiter
<1>23. CASE BackspaceComposing
  BY <1>3, <1>23 DEF BackspaceComposing
<1>24. CASE BackspaceDelivered
  BY <1>3, <1>24 DEF BackspaceDelivered, EraseDelivered
<1>25. CASE AcceptLanguageChoice
  BY <1>0, <1>25, JoinedText DEF AcceptLanguageChoice
<1>26. CASE \/ ApplyPredictionOverride \/ SetCompletionDisplay \/ ClearGhost \/ Reset
            \/ WithdrawSentenceBoundaryHint \/ ReconcileSentenceBoundaryHint
  BY <1>26 DEF ApplyPredictionOverride, SetCompletionDisplay, ClearGhost, Reset,
     WithdrawSentenceBoundaryHint, ReconcileSentenceBoundaryHint
<1>27. CASE HandoffForNativeCompletion \/ HandoffForDelivery \/ FlushPreeditForLayout
            \/ FocusLost
  BY <1>3, <1>27 DEF HandoffForNativeCompletion, HandoffForDelivery, Handoff,
     FlushPreeditForLayout, FocusLost
<1>28. CASE FocusGained
  BY <1>3, <1>28 DEF FocusGained
<1> QED  BY <1>8, <1>9, <1>10, <1>11, <1>12, <1>13, <1>14, <1>15, <1>16, <1>17,
            <1>18, <1>19, <1>20, <1>21, <1>22, <1>23, <1>24, <1>25, <1>26, <1>27,
            <1>28
         DEF Next, KeyEvent, HostCall

LEMMA HintForms ==
  ASSUME NEW n \in Nat, NEW t \in Nat
  PROVE  NoHint \in Hints /\ Awaiting(t) \in Hints /\ Start(n, t) \in Hints
  BY DEF Hints, NoHint, Awaiting, Start

\* A set of positions that is not empty has a first and a last one.
LEMMA FirstPosition ==
  ASSUME NEW T \in SUBSET Nat, T # {}
  PROVE  \E i \in T : \A j \in T : i <= j
<1>1. PICK i \in T : \A j \in T : ~(<<j, i>> \in OpToRel(<, Nat))
  BY NatLessThanWellFounded, WFMin
<1>2. \A j \in T : j < i => <<j, i>> \in OpToRel(<, Nat)
  BY DEF OpToRel
<1>3. \A j \in T : ~(j < i)
  BY <1>1, <1>2
<1>4. \A j \in T : i <= j
  BY <1>3
<1> QED  BY <1>4

LEMMA LastPosition ==
  ASSUME NEW n \in Nat, NEW T \in SUBSET (1..n), T # {}
  PROVE  \E i \in T : \A j \in T : j <= i
<1> DEFINE U == {k \in Nat : n - k \in T}
<1>1. PICK t \in T : TRUE
  OBVIOUS
<1>2. n - t \in U
  BY <1>1
<1>3. PICK k \in U : \A j \in U : k <= j
  BY <1>2, FirstPosition
<1>4. \A j \in T : n - j \in U
  OBVIOUS
<1>5. n - k \in T /\ \A j \in T : j <= n - k
  BY <1>3, <1>4
<1> QED  BY <1>5

\* A report of the client's text yields a hint with counts of characters.
LEMMA ReconciledHint ==
  ASSUME NEW text \in Seq(Glyphs)
  PROVE  Reconciled(text) \in Hints
<1> DEFINE inked == {i \in 1..Len(text) : text[i] \notin {" ", "n"}}
           last  == CHOOSE i \in inked : \A j \in inked : j <= i
           stops == {i \in inked : text[i] = "."
                                   /\ \A j \in i..last : text[j] \in Closers}
           first == CHOOSE i \in stops : \A j \in stops : i <= j
<1>1. Len(text) \in Nat
  BY LenProperties
<1>2. inked # {} => last \in 1..Len(text) /\ \A j \in inked : j <= last
  <2>1. inked \in SUBSET (1..Len(text))
    OBVIOUS
  <2> HIDE DEF inked
  <2>2. inked # {} => \E i \in inked : \A j \in inked : j <= i
    BY <1>1, <2>1, LastPosition
  <2>3. inked # {} => last \in inked /\ \A j \in inked : j <= last
    BY <2>2
  <2> QED  BY <2>1, <2>3
<1>3. stops # {} => first \in inked
  <2>1. stops \subseteq inked /\ inked \subseteq 1..Len(text)
    OBVIOUS
  <2>0. stops \in SUBSET Nat
    <3> HIDE DEF stops, inked
    <3> QED  BY <2>1
  <2> HIDE DEF stops, inked
  <2>2. stops # {} => \E i \in stops : \A j \in stops : i <= j
    BY <2>0, FirstPosition
  <2> QED  BY <2>1, <2>2
<1>4. 0 \in Nat /\ NoHint \in Hints /\ Start(0, 0) \in Hints
  BY HintForms
<1>5. inked # {} /\ stops # {} => Len(text) - last \in Nat /\ last - first \in Nat
  <2>1. inked \subseteq 1..Len(text)
    OBVIOUS
  <2> HIDE DEF inked, last, stops, first
  <2> SUFFICES ASSUME inked # {}, stops # {}
               PROVE  Len(text) - last \in Nat /\ last - first \in Nat
    OBVIOUS
  <2>2. first \in 1..Len(text) /\ last \in 1..Len(text) /\ first <= last
    BY <1>2, <1>3, <2>1
  <2> QED  BY <1>1, <2>2
<1>6. Reconciled(text) =
        IF inked = {} \/ \E i \in (last + 1)..Len(text) : text[i] = "n"
        THEN Start(0, 0)
        ELSE IF stops = {} THEN NoHint
        ELSE IF Len(text) - last = 0 THEN Awaiting(last - first)
        ELSE Start(Len(text) - last, last - first)
  BY Zenon DEF Reconciled
<1> HIDE DEF inked, last, stops, first
<1> QED  BY <1>4, <1>5, <1>6, HintForms

\* The hint a key or a host call leaves.
LEMMA HintStep ==
  ASSUME Texts, hint \in Hints, Next
  PROVE  hint' \in Hints
<1> USE DEF KeepModes, EndWord, ResetWord
<1>1. /\ hint.kind \in {"none", "awaiting", "start"}
      /\ hint.spaces \in Nat /\ hint.tail \in Nat
      /\ [hint EXCEPT !.tail = @ + 1] \in Hints
  BY DEF Hints
<1>2. NoHint \in Hints /\ Start(0, 0) \in Hints /\ Awaiting(0) \in Hints
  BY HintForms
<1>3. \A g \in Glyphs : AfterForwarded(g) \in Hints
  BY <1>2 DEF AfterForwarded
<1>4. /\ "." \in Glyphs /\ " " \in Glyphs /\ "n" \in Glyphs
      /\ Glyphs \ {"a"} \subseteq Glyphs
  BY DEF Glyphs
<1>5. Withdrawn \in Hints
  BY <1>2 DEF Withdrawn
<1>6. AfterSpace \in Hints
  BY <1>1, HintForms DEF AfterSpace
<1>7. AfterErase \in Hints
  <2>1. hint.spaces > 1 => hint.spaces - 1 \in Nat
    BY <1>1
  <2>2. hint.tail > 0 => hint.tail - 1 \in Nat
    BY <1>1
  <2> QED  BY <1>1, <1>2, <2>1, <2>2, HintForms DEF AfterErase
<1>8. CASE \/ KillOff \/ KillOn \/ DisabledKey \/ NativePopupKey \/ Chord
           \/ Accept \/ SpaceAccept \/ AcceptCharacter \/ Navigate \/ Escape
           \/ BackspaceComposing
  BY <1>2, <1>8 DEF KillOff, KillOn, DisabledKey, NativePopupKey, Chord, Accept,
     SpaceAccept, AcceptWith, AcceptCharacter, Navigate, CursorMoved, Escape,
     BackspaceComposing
<1>9. CASE DirectBoundary \/ NativeBoundary
  BY <1>2, <1>3, <1>4, <1>9 DEF DirectBoundary, NativeBoundary
<1>10. CASE ClosingTail
  BY <1>1, <1>10 DEF ClosingTail
<1>11. CASE \/ RawKeyComposing \/ RawKeyDelivered \/ LetterAfterComposing
            \/ Letter \/ WrongLayout \/ Mark
  BY <1>5, <1>11 DEF RawKeyComposing, RawKeyDelivered, LetterAfterComposing,
     Letter, WrongLayout, Mark
<1>12. CASE MarkAfterComposing
  BY <1>2, <1>12 DEF MarkAfterComposing, Commit
<1>13. CASE Tab
  BY <1>2, <1>13 DEF Tab
<1>14. CASE Delimiter
  BY <1>3, <1>4, <1>6, <1>14 DEF Delimiter, Commit
<1>15. CASE BackspaceDelivered
  BY <1>2, <1>7, <1>15 DEF BackspaceDelivered
<1>16. CASE ReconcileSentenceBoundaryHint
  BY <1>16, ReconciledHint DEF ReconcileSentenceBoundaryHint, Texts
<1>17. CASE \/ AcceptLanguageChoice \/ ApplyPredictionOverride
            \/ SetCompletionDisplay \/ ClearGhost
            \/ HandoffForNativeCompletion \/ HandoffForDelivery
            \/ FlushPreeditForLayout \/ FocusLost \/ FocusGained \/ CursorMoved
            \/ Reset \/ WithdrawSentenceBoundaryHint
  BY <1>2, <1>17 DEF AcceptLanguageChoice, ApplyPredictionOverride,
     SetCompletionDisplay, ClearGhost, HandoffForNativeCompletion,
     HandoffForDelivery, Handoff,
     FlushPreeditForLayout, FocusLost, FocusGained, CursorMoved, Reset,
     WithdrawSentenceBoundaryHint
<1> QED  BY <1>8, <1>9, <1>10, <1>11, <1>12, <1>13, <1>14, <1>15, <1>16, <1>17
         DEF Next, KeyEvent, HostCall

(***************************************************************************)
(* Types: in particular the counters of the sentence hint never go below   *)
(* zero and a lock's deciding prefix is a number of characters.            *)
(***************************************************************************)
THEOREM SpecTypeOK == Spec => []TypeOK
<1> DEFINE Typed == Shape /\ Texts /\ hint \in Hints
<1>1. Init => Typed
  <2>0. "?" \in Glyphs
    BY DEF Glyphs
  <2>1. <<>> \in Seq(Glyphs) /\ <<"?">> \in Seq(Glyphs)
    BY <2>0, EmptySeq, SeqDef
  <2>2. Init => client \in {<<>>, <<"?">>} /\ typed = client /\ hint = NoHint
    BY DEF Init
  <2> QED  BY <2>1, <2>2, InitShape, HintForms DEF Texts
<1>2. Typed /\ [Next]_vars => Typed'
  <2>1. Typed /\ UNCHANGED vars => Texts' /\ hint' \in Hints
    BY DEF vars, Texts
  <2> QED  BY <2>1, NextShape, TextsStep, HintStep
<1>3. Typed => TypeOK
  BY DEF Shape, Flags, Texts, TypeOK
<1> QED  BY <1>1, <1>2, <1>3, PTL DEF Spec

-----------------------------------------------------------------------------
(* The text of the word, for an environment that edits no open word that   *)
(* was delivered.                                                          *)

\* Cutting off what was appended last gives back what was there.
LEMMA CutJoined ==
  ASSUME NEW u \in Seq(Glyphs), NEW w \in Seq(Glyphs)
  PROVE  Cut(u \o w, Len(w)) = u
<1>1. /\ u \o w \in Seq(Glyphs) /\ Len(u \o w) = Len(u) + Len(w)
      /\ \A i \in 1..Len(u) : (u \o w)[i] = u[i]
      /\ Len(u) \in Nat /\ Len(w) \in Nat
  BY ConcatProperties, LenProperties
<1>2. /\ Cut(u \o w, Len(w)) \in Seq(Glyphs)
      /\ Len(Cut(u \o w, Len(w))) = Len(u)
      /\ \A i \in 1..Len(u) : Cut(u \o w, Len(w))[i] = (u \o w)[i]
  <2>1. Len(u \o w) - Len(w) = Len(u) /\ Len(w) <= Len(u \o w)
    BY <1>1
  <2>2. /\ Cut(u \o w, Len(w)) \in Seq(Glyphs)
        /\ Len(Cut(u \o w, Len(w))) = Len(u \o w) - Len(w)
        /\ \A i \in 1..(Len(u \o w) - Len(w)) : Cut(u \o w, Len(w))[i] = (u \o w)[i]
    BY <1>1, <2>1, CutText
  <2> QED  BY <2>1, <2>2
<1>3. \A i \in 1..Len(u) : Cut(u \o w, Len(w))[i] = u[i]
  BY <1>1, <1>2
<1> QED  BY <1>2, <1>3, SeqEqual

\* A text ends in a word exactly when it is some text followed by the word.
LEMMA EndsInMeaning ==
  ASSUME NEW t \in Seq(Glyphs), NEW w \in Seq(Glyphs)
  PROVE  EndsIn(t, w) <=> \E u \in Seq(Glyphs) : t = u \o w
<1>0. Len(t) \in Nat /\ Len(w) \in Nat
  BY LenProperties
<1>1. ASSUME EndsIn(t, w) PROVE \E u \in Seq(Glyphs) : t = u \o w
  <2>1. Cut(t, Len(w)) \in Seq(Glyphs)
    BY <1>0, CutText
  <2> DEFINE k == Len(t) - Len(w)
  <2>2. k \in 0..Len(t) /\ k + 1 = Len(t) - Len(w) + 1
    BY <1>0, <1>1 DEF EndsIn
  <2>3. SubSeq(t, 1, k) \o SubSeq(t, k + 1, Len(t)) = SubSeq(t, 1, Len(t))
    <3>1. 1 \in 1..(Len(t) + 1) /\ k \in (1 - 1)..Len(t) /\ Len(t) \in k..Len(t)
      BY <1>0, <2>2
    <3> HIDE DEF k
    <3> QED  BY <3>1, ConcatAdjacentSubSeq
  <2>4. SubSeq(t, 1, Len(t)) = t
    BY SubSeqFull
  <2>5. SubSeq(t, 1, k) = Cut(t, Len(w)) /\ SubSeq(t, k + 1, Len(t)) = w
    BY <1>1, <2>2 DEF Cut, EndsIn
  <2> QED  BY <2>1, <2>3, <2>4, <2>5
<1>2. ASSUME NEW u \in Seq(Glyphs), t = u \o w PROVE EndsIn(t, w)
  <2>1. Len(t) = Len(u) + Len(w) /\ Len(u) \in Nat
    BY <1>2, ConcatProperties, LenProperties
  <2>2. Len(t) - Len(w) + 1 = Len(u) + 1 /\ Len(w) <= Len(t)
    BY <1>0, <2>1
  <2>3. CASE w = <<>>
    <3>1. SubSeq(t, Len(t) + 1, Len(t)) = <<>>
      BY <1>0, SubSeqEmpty
    <3>2. Len(w) = 0
      BY <2>3, EmptySeq
    <3> QED  BY <1>0, <2>3, <3>1, <3>2 DEF EndsIn
  <2>4. CASE w # <<>>
    <3>1. Len(w) > 0
      BY <1>0, <2>4, EmptySeq
    <3>2. SubSeq(t, Len(u) + 1, Len(u) + Len(w))
            = SubSeq(w, Len(u) + 1 - Len(u), Len(u) + Len(w) - Len(u))
      BY <1>0, <1>2, <2>1, <3>1, SubSeqOfConcat2
    <3>3. Len(u) + 1 - Len(u) = 1 /\ Len(u) + Len(w) - Len(u) = Len(w)
      BY <1>0, <2>1
    <3>4. SubSeq(w, 1, Len(w)) = w
      BY SubSeqFull
    <3> QED  BY <2>1, <2>2, <3>2, <3>3, <3>4 DEF EndsIn
  <2> QED  BY <2>3, <2>4
<1> QED  BY <1>1, <1>2

\* Rewriting a word in place leaves what stands before it.
LEMMA RewrittenInPlace ==
  ASSUME NEW t \in Seq(Glyphs), NEW w \in Seq(WordGlyphs), EndsIn(t, w)
  PROVE  /\ PostCommit(t, w) = {t}
         /\ Replaced(t, Len(w), Append(w, "a")) = Append(t, "a")
<1>0. w \in Seq(Glyphs) /\ "a" \in Glyphs
  BY WordIsText DEF Glyphs
<1>1. PICK u \in Seq(Glyphs) : t = u \o w
  BY <1>0, EndsInMeaning
<1>2. Cut(t, Len(w)) = u
  BY <1>0, <1>1, CutJoined
<1>3. Replaced(t, Len(w), w) = t
  BY <1>1, <1>2 DEF Replaced
<1>4. u \o Append(w, "a") = Append(u \o w, "a")
  <2>1. <<"a">> \in Seq(Glyphs) /\ u \o w \in Seq(Glyphs)
    BY <1>0, ConcatProperties
  <2>2. /\ Append(w, "a") = w \o <<"a">>
        /\ Append(u \o w, "a") = (u \o w) \o <<"a">>
    BY <1>0, <2>1, AppendIsConcat
  <2> QED  BY <1>0, <2>1, <2>2, ConcatAssociative
<1> QED  BY <1>1, <1>2, <1>3, <1>4 DEF PostCommit, Replaced

\* A word and its text grow and shrink together.
LEMMA GrownInPlace ==
  ASSUME NEW t \in Seq(Glyphs), NEW w \in Seq(WordGlyphs), NEW x \in Seq(WordGlyphs)
  PROVE  /\ EndsIn(t \o w, w)
         /\ EndsIn(t, <<>>)
         /\ EndsIn(t, w) => EndsIn(t \o x, w \o x)
<1>0. w \in Seq(Glyphs) /\ x \in Seq(Glyphs) /\ t \o w \in Seq(Glyphs)
      /\ t \o x \in Seq(Glyphs) /\ w \o x \in Seq(Glyphs) /\ <<>> \in Seq(Glyphs)
  BY WordIsText, ConcatProperties, EmptySeq
<1>1. EndsIn(t \o w, w)
  BY <1>0, EndsInMeaning
<1>2. EndsIn(t, <<>>)
  BY <1>0, EndsInMeaning, ConcatEmptySeq
<1>3. ASSUME EndsIn(t, w) PROVE EndsIn(t \o x, w \o x)
  <2>1. PICK u \in Seq(Glyphs) : t = u \o w
    BY <1>0, <1>3, EndsInMeaning
  <2>2. t \o x = u \o (w \o x)
    BY <1>0, <2>1, ConcatAssociative
  <2> QED  BY <1>0, <2>2, EndsInMeaning
<1> QED  BY <1>1, <1>2, <1>3

\* Deleting the last character of the preedit, or of a delivered word.
LEMMA ShrunkInPlace ==
  ASSUME NEW t \in Seq(Glyphs), NEW w \in Seq(WordGlyphs), w # <<>>
  PROVE  /\ Cut(t \o w, 1) = t \o Cut(w, 1)
         /\ EndsIn(t, w) => EndsIn(Erased(t), Cut(w, 1))
<1>1. PICK v \in Seq(WordGlyphs), g \in WordGlyphs : w = Append(v, g)
  BY SequenceEmptyOrAppend
<1>2. /\ w \in Seq(Glyphs) /\ v \in Seq(Glyphs) /\ g \in Glyphs /\ g # "?"
      /\ <<g>> \in Seq(Glyphs) /\ Len(<<g>>) = 1
  <2>1. w \in Seq(Glyphs) /\ v \in Seq(Glyphs)
    BY <1>1, WordIsText
  <2>2. g \in Glyphs /\ g # "?"
    BY DEF WordGlyphs, Glyphs
  <2>3. <<g>> \in Seq(Glyphs) /\ Len(<<g>>) = 1
    BY <2>2
  <2> QED  BY <2>1, <2>2, <2>3
<1>3. w = v \o <<g>>
  BY <1>1, AppendIsConcat
<1>4. Cut(w, 1) = v
  BY <1>2, <1>3, CutJoined
<1>5. ASSUME NEW u \in Seq(Glyphs)
      PROVE  /\ u \o w = (u \o v) \o <<g>> /\ u \o v \in Seq(Glyphs)
             /\ Cut(u \o w, 1) = u \o v
  <2>1. u \o w = (u \o v) \o <<g>> /\ u \o v \in Seq(Glyphs)
    BY <1>2, <1>3, ConcatAssociative, ConcatProperties
  <2>2. Cut((u \o v) \o <<g>>, Len(<<g>>)) = u \o v
    BY <1>2, <2>1, CutJoined
  <2> QED  BY <1>2, <2>1, <2>2
<1>6. ASSUME EndsIn(t, w) PROVE EndsIn(Erased(t), Cut(w, 1))
  <2>1. PICK u \in Seq(Glyphs) : t = u \o w
    BY <1>2, <1>6, EndsInMeaning
  <2>2. t = (u \o v) \o <<g>> /\ u \o v \in Seq(Glyphs) /\ Cut(t, 1) = u \o v
    BY <1>5, <2>1
  <2>3. t = Append(u \o v, g)
    BY <1>2, <2>2, AppendIsConcat
  <2>4. Len(t) = Len(u \o v) + 1 /\ t # <<>> /\ t[Len(t)] = g
    BY <1>2, <2>2, <2>3, AppendProperties
  <2>5. Erased(t) = u \o v
    BY <1>2, <2>2, <2>4 DEF Erased
  <2> QED  BY <1>2, <1>4, <2>2, <2>5, EndsInMeaning
<1> QED  BY <1>4, <1>5, <1>6

\* A word exists only while the engine is on; its text is where it belongs.
InText ==
  /\ Conserved
  /\ TokenInPlace
  /\ ~enabled => word = <<>>

\* Seen from the user, the word always ends the text.
LEMMA WholeText ==
  ASSUME Shape, Texts, InText
  PROVE  /\ typed = client \o Held
         /\ EndsIn(typed, word)
         /\ Composing => Held = word /\ enabled
         /\ ~Composing => Held = <<>> /\ typed = client
         /\ word = <<>> => ~Composing
<1>1. Composing => typed = client \o word /\ word # <<>>
  BY DEF InText, Conserved, Held, Shape, Ownership
<1>2. ~Composing => Held = <<>> /\ typed = client /\ EndsIn(client, word)
  BY ConcatEmptySeq DEF InText, Conserved, TokenInPlace, Held, Texts
<1>3. Composing => EndsIn(typed, word)
  BY <1>1, GrownInPlace DEF Shape, Texts
<1> QED  BY <1>1, <1>2, <1>3 DEF InText, Conserved, Held

\* A handler that ends the word must leave the client with all of the text.
LEMMA EndedInText ==
  ASSUME Texts', ResetWord, typed' = client'
  PROVE  InText'
<1>1. ~Composing' /\ Held' = <<>> /\ word' = <<>>
  BY DEF ResetWord, Composing, Held
<1>2. client' \o <<>> = client' /\ EndsIn(client', <<>>)
  BY ConcatEmptySeq, GrownInPlace, EmptySeq DEF Texts
<1> QED  BY <1>1, <1>2 DEF InText, Conserved, TokenInPlace

\* A handler that delivers the text and keeps the word outside the preedit.
LEMMA DeliveredInText ==
  ASSUME Texts', lock' = NoLock, typed' = client', EndsIn(client', word'),
         enabled' \/ word' = <<>>
  PROVE  InText'
<1>1. ~Composing' /\ Held' = <<>>
  BY DEF Composing, Held
<1>2. client' \o <<>> = client'
  BY ConcatEmptySeq DEF Texts
<1> QED  BY <1>1, <1>2 DEF InText, Conserved, TokenInPlace

\* A handler that leaves word, preedit and text alone.
LEMMA UntouchedInText ==
  ASSUME InText, UNCHANGED <<word, lock, client, typed>>, enabled' = enabled
  PROVE  InText'
  BY DEF InText, Conserved, TokenInPlace, Composing, Held

\* A handler that changes the preedit only.
LEMMA ComposedInText ==
  ASSUME lock' # NoLock, enabled', typed' = client' \o word'
  PROVE  InText'
  BY DEF InText, Conserved, TokenInPlace, Composing, Held

\* Committing the word, or accepting its completion, rewrites nothing.
LEMMA CommittedInText ==
  ASSUME Shape, Texts, InText, Texts', NEW u, NEW h, Commit(u, h) \/ AcceptWith(u)
  PROVE  InText'
<1>1. /\ typed = client \o Held /\ EndsIn(typed, word)
      /\ typed \in Seq(Glyphs) /\ word \in Seq(WordGlyphs) /\ ghost \in Nat
  BY WholeText DEF Texts, Shape
<1>2. CASE Commit(u, h)
  <2>1. PostCommit(client \o Held, word) = {typed}
    BY <1>1, RewrittenInPlace
  <2>2. ResetWord /\ client' = typed \o u /\ typed' = typed \o u
    BY <1>2, <2>1 DEF Commit, EndWord
  <2> QED  BY <2>2, EndedInText
<1>3. CASE AcceptWith(u)
  <2>1. Letters(ghost) \in Seq(WordGlyphs) /\ Letters(ghost) \in Seq(Glyphs)
    BY <1>1, LettersAreWord, WordIsText
  <2>2. /\ EndsIn(typed \o Letters(ghost), word \o Letters(ghost))
        /\ typed \o Letters(ghost) \in Seq(Glyphs)
        /\ word \o Letters(ghost) \in Seq(WordGlyphs)
    BY <1>1, <2>1, GrownInPlace, ConcatProperties
  <2>3. PostCommit(typed \o Letters(ghost), word \o Letters(ghost))
          = {typed \o Letters(ghost)}
    BY <2>2, RewrittenInPlace
  <2>4. PostCommit(client \o Held \o Letters(ghost), word \o Letters(ghost))
          = {typed \o Letters(ghost)}
    BY <1>1, <2>3
  <2>5. ResetWord /\ client' = typed \o Letters(ghost) \o u /\ typed' = client'
    BY <1>3, <2>4 DEF AcceptWith, EndWord
  <2> QED  BY <2>5, EndedInText
<1> QED  BY <1>2, <1>3

\* One more character at the end of the word and of the text.
LEMMA LengthenedText ==
  ASSUME Shape, Texts, InText, NEW g \in WordGlyphs
  PROVE  /\ typed \o <<g>> = Append(typed, g)
         /\ EndsIn(Append(typed, g), Append(word, g))
         /\ Composing \/ word = <<>> => Append(typed, g) = client \o Append(word, g)
<1>0. /\ typed \in Seq(Glyphs) /\ client \in Seq(Glyphs)
      /\ word \in Seq(WordGlyphs) /\ word \in Seq(Glyphs)
  BY WordIsText DEF Texts, Shape
<1>1. g \in Glyphs /\ <<g>> \in Seq(WordGlyphs) /\ <<g>> \in Seq(Glyphs)
  <2>1. g \in Glyphs
    BY DEF WordGlyphs, Glyphs
  <2> QED  BY <2>1
<1>2. typed \o <<g>> = Append(typed, g) /\ Append(word, g) = word \o <<g>>
  BY <1>0, <1>1, AppendIsConcat
<1>3. EndsIn(typed, word)
  BY WholeText
<1>4. EndsIn(typed \o <<g>>, word \o <<g>>)
  BY <1>0, <1>1, <1>3, GrownInPlace
<1>5. Composing \/ word = <<>> => typed = client \o word
  BY <1>0, WholeText, ConcatEmptySeq
<1>6. (client \o word) \o <<g>> = client \o (word \o <<g>>)
  BY <1>0, <1>1, ConcatAssociative
<1> QED  BY <1>2, <1>4, <1>5, <1>6

LEMMA ShortcutInText ==
  ASSUME ~TokenEdits, Shape, Texts, InText, Texts', enabled, Shortcut,
         UNCHANGED <<word, lock, enabled>>
  PROVE  InText'
<1>1. CASE UNCHANGED <<client, typed>>
  BY <1>1, UntouchedInText
<1>2. CASE word = <<>> /\ ~Composing /\ client' = Opaque(client)
           /\ typed' = Opaque(client) \o Held
  <2>1. Held = <<>> /\ client' \o <<>> = client' /\ EndsIn(client', <<>>)
    BY <1>2, ConcatEmptySeq, GrownInPlace, EmptySeq DEF Held, Texts
  <2> QED  BY <1>2, <2>1, DeliveredInText DEF Composing
<1>3. CASE Composing /\ client' = Opaque(client) /\ typed' = Opaque(client) \o Held
  BY <1>3, ComposedInText DEF Held, Composing
<1> QED  BY <1>1, <1>2, <1>3 DEF Shortcut

LEMMA PassedKeyInText ==
  ASSUME ~TokenEdits, Shape, Texts, InText, Texts',
         \/ KillOff \/ KillOn \/ DisabledKey \/ DirectBoundary \/ NativeBoundary
         \/ NativePopupKey \/ Chord \/ ClosingTail
  PROVE  InText'
<1> USE DEF KeepModes, KeepWord, EndWord
<1>0. /\ ~Composing => typed = client
      /\ word = <<>> => ~Composing
      /\ native \/ direct => ~Composing /\ word # <<>>
  BY WholeText DEF Shape, Ownership
<1>1. EndsIn(client', <<>>)
  BY GrownInPlace, EmptySeq DEF Texts
<1>2. CASE KillOff
  BY <1>2, EndedInText DEF KillOff
<1>3. CASE KillOn
  BY <1>3 DEF KillOn, InText, Conserved, TokenInPlace, Composing, Held
<1>4. CASE DisabledKey
  <2>1. word = <<>> /\ lock' = NoLock /\ word' = <<>>
    BY <1>0, <1>4 DEF DisabledKey, InText, Composing
  <2>2. client' = typed'
    <3>1. typed = client
      BY <1>0, <2>1
    <3> QED  BY <1>4, <3>1 DEF DisabledKey, Forward
  <2> QED  BY <1>1, <2>1, <2>2, DeliveredInText
<1>5. CASE DirectBoundary
  <2>1. Shortcut => UNCHANGED <<client, typed>>
    BY <1>0, <1>5 DEF Shortcut, DirectBoundary
  <2> QED  BY <1>0, <1>5, <2>1, EndedInText DEF DirectBoundary, Forward
<1>6. CASE NativeBoundary
  BY <1>0, <1>6, EndedInText DEF NativeBoundary, Forward
<1>7. CASE NativePopupKey
  BY <1>7, UntouchedInText DEF NativePopupKey
<1>8. CASE Chord
  BY <1>8, ShortcutInText DEF Chord
<1>9. CASE ClosingTail
  <2>1. word' = <<>> /\ lock' = NoLock /\ client' = typed' /\ enabled'
    BY <1>0, <1>9 DEF ClosingTail, Composing, Forward
  <2> QED  BY <1>1, <2>1, DeliveredInText
<1> QED  BY <1>2, <1>3, <1>4, <1>5, <1>6, <1>7, <1>8, <1>9

LEMMA TypedKeyInText ==
  ASSUME Shape, Texts, InText, Texts',
         \/ RawKeyComposing \/ RawKeyDelivered \/ LetterAfterComposing \/ Letter
         \/ WrongLayout \/ MarkAfterComposing \/ Mark \/ AcceptCharacter
  PROVE  InText'
<1> USE DEF KeepModes, KeepOwner
<1>0. /\ typed = client \o Held
      /\ Composing => Held = word
      /\ ~Composing => typed = client
      /\ layout => ~Composing
  BY WholeText DEF Shape, Ownership
<1>1. "a" \in WordGlyphs /\ Marks \subseteq WordGlyphs
  BY DEF WordGlyphs, Marks
<1>2. /\ typed \o <<"a">> = Append(typed, "a")
      /\ EndsIn(Append(typed, "a"), Append(word, "a"))
      /\ Composing \/ word = <<>> => Append(typed, "a") = client \o Append(word, "a")
  BY <1>1, LengthenedText
<1>3. CASE RawKeyComposing
  <2>1. lock \in Locks /\ Len(word) + 1 \in Nat /\ Len(word) + 1 > 0
    BY WordSteps DEF Shape
  <2>2. lock' \in AfterPush(lock, Len(word) + 1)
    BY <1>3 DEF RawKeyComposing
  <2>3. lock' # NoLock
    BY <2>1, <2>2, LockSteps
  <2> QED  BY <1>2, <1>3, <2>3, ComposedInText DEF RawKeyComposing
<1>4. CASE RawKeyDelivered \/ Letter
  <2>1. lock' = NoLock /\ enabled' /\ word' = Append(word, "a")
    BY <1>0, <1>4 DEF RawKeyDelivered, Letter, Composing
  <2>2. client' = Append(typed, "a") /\ typed' = client'
    BY <1>0, <1>2, <1>4 DEF RawKeyDelivered, Letter, Forward
  <2> QED  BY <1>2, <2>1, <2>2, DeliveredInText
<1>5. CASE LetterAfterComposing
  BY <1>0, <1>2, <1>5, DeliveredInText DEF LetterAfterComposing
<1>6. CASE WrongLayout
  <2>1. EndsIn(client, word) /\ typed = client /\ client \in Seq(Glyphs)
    BY <1>0, <1>6 DEF WrongLayout, InText, TokenInPlace, Texts
  <2>2. client' = Append(typed, "a")
    BY <1>6, <2>1, RewrittenInPlace DEF WrongLayout, Shape
  <2> QED  BY <1>2, <1>6, <2>2, DeliveredInText DEF WrongLayout, Composing
<1>7. CASE MarkAfterComposing
  BY <1>7, CommittedInText DEF MarkAfterComposing
<1>8. CASE Mark
  <2>1. PICK shown \in WordGlyphs : word' = Append(word, shown) /\ Forward(<<shown>>)
    BY <1>1, <1>8 DEF Mark
  <2>2. /\ typed \o <<shown>> = Append(typed, shown)
        /\ EndsIn(Append(typed, shown), Append(word, shown))
    BY LengthenedText
  <2> QED  BY <1>0, <1>8, <2>1, <2>2, DeliveredInText DEF Mark, Composing, Forward, Plain
<1>9. CASE AcceptCharacter
  <2>1. CASE Composing
    <3>1. Pinned # NoLock
      BY DEF Pinned, NoLock
    <3> QED  BY <1>2, <1>9, <2>1, <3>1, ComposedInText DEF AcceptCharacter, Plain
  <2>2. CASE ~Composing
    BY <1>0, <1>2, <1>9, <2>2, DeliveredInText DEF AcceptCharacter, Composing, Plain
  <2> QED  BY <2>1, <2>2
<1> QED  BY <1>3, <1>4, <1>5, <1>6, <1>7, <1>8, <1>9

LEMMA EditKeyInText ==
  ASSUME Shape, Texts, InText, Texts',
         \/ Accept \/ SpaceAccept \/ Navigate \/ Tab \/ Delimiter \/ Escape
         \/ BackspaceComposing \/ BackspaceDelivered
  PROVE  InText'
<1> USE DEF KeepModes, KeepWord, EndWord
<1>0. /\ typed = client \o Held
      /\ Composing => Held = word
      /\ ~Composing => typed = client
      /\ word = <<>> => ~Composing
      /\ client \in Seq(Glyphs) /\ typed \in Seq(Glyphs)
      /\ word \in Seq(WordGlyphs) /\ lock \in Locks
  BY WholeText DEF Shape, Texts
<1>1. EndsIn(client', <<>>)
  BY GrownInPlace, EmptySeq DEF Texts
<1>2. CASE Accept \/ SpaceAccept
  <2>1. PICK tail \in {<<>>, <<" ">>} : AcceptWith(tail)
    BY <1>2 DEF Accept, SpaceAccept
  <2>2. Commit(tail, NoHint) \/ AcceptWith(tail)
    BY <2>1
  <2> QED  BY <2>2, CommittedInText
<1>3. CASE Navigate
  BY <1>0, <1>3, EndedInText DEF Navigate, CursorMoved
<1>4. CASE Tab
  <2>1. CASE word # <<>>
    <3>1. "?" \in Glyphs
      BY DEF Glyphs
    <3>2. Append(typed, "?") = typed \o <<"?">>
      BY <1>0, <3>1, AppendIsConcat
    <3> QED  BY <1>0, <1>4, <2>1, <3>2, EndedInText DEF Tab
  <2>2. CASE word = <<>>
    <3>1. word' = <<>> /\ lock' = NoLock /\ client' = typed'
      BY <1>0, <1>4, <2>2 DEF Tab, Composing
    <3> QED  BY <1>1, <3>1, DeliveredInText
  <2> QED  BY <2>1, <2>2
<1>5. CASE Delimiter
  <2>1. ASSUME NEW g, NEW h, Commit(<<g>>, h) PROVE InText'
    BY <2>1, CommittedInText
  <2>2. ASSUME NEW g, word = <<>>, ResetWord, Forward(<<g>>) PROVE InText'
    BY <1>0, <2>2, EndedInText DEF Forward
  <2> QED  BY <1>5, <2>1, <2>2 DEF Delimiter
<1>6. CASE Escape
  <2>1. CASE UNCHANGED typed /\ KeepWord
    BY <1>6, <2>1, UntouchedInText DEF Escape
  <2>2. CASE ResetWord /\ typed' = client
    BY <1>6, <2>2, EndedInText DEF Escape
  <2> QED  BY <1>6, <2>1, <2>2 DEF Escape
<1>7. CASE BackspaceComposing
  <2>1. /\ Composing /\ word # <<>> /\ enabled' /\ client' = client
        /\ word' = Cut(word, 1) /\ typed' = Cut(client \o word, 1)
    BY <1>0, <1>7 DEF BackspaceComposing
  <2>2. typed' = client' \o word'
    BY <1>0, <2>1, ShrunkInPlace
  <2>3. CASE word' = <<>>
    <3>1. lock' = NoLock /\ typed' = client'
      BY <1>0, <1>7, <2>1, <2>2, <2>3, ConcatEmptySeq DEF BackspaceComposing
    <3> QED  BY <1>1, <2>3, <3>1, DeliveredInText
  <2>4. CASE word' # <<>>
    <3>1. Len(word') \in Nat /\ Len(word') > 0
      BY <1>0, <2>1, <2>4, WordSteps
    <3>2. lock' \in AfterPop(lock, Len(word')) /\ lock # NoLock
      BY <1>7, <2>4 DEF BackspaceComposing, Composing
    <3>3. lock' # NoLock
      BY <1>0, <3>1, <3>2, LockSteps
    <3> QED  BY <2>1, <2>2, <3>3, ComposedInText
  <2> QED  BY <2>3, <2>4
<1>8. CASE BackspaceDelivered
  <2>1. /\ lock' = NoLock /\ enabled' /\ client' = Erased(client) /\ typed' = client'
        /\ EndsIn(client, word)
    BY <1>0, <1>8 DEF BackspaceDelivered, EraseDelivered, Composing, InText, TokenInPlace
  <2>2. CASE word = <<>>
    BY <1>1, <1>8, <2>1, <2>2, DeliveredInText DEF BackspaceDelivered, EraseDelivered
  <2>3. CASE word # <<>>
    <3>1. word' = Cut(word, 1)
      BY <1>8, <2>3 DEF BackspaceDelivered, EraseDelivered
    <3>2. EndsIn(client', word')
      BY <1>0, <2>1, <2>3, <3>1, ShrunkInPlace
    <3> QED  BY <2>1, <3>2, DeliveredInText
  <2> QED  BY <2>2, <2>3
<1> QED  BY <1>2, <1>3, <1>4, <1>5, <1>6, <1>7, <1>8

LEMMA HostCallInText ==
  ASSUME Shape, Texts, InText, Texts', HostCall
  PROVE  InText'
<1> USE DEF KeepModes, KeepWord, EndWord
<1>0. /\ typed = client \o Held
      /\ Composing => Held = word
      /\ ~Composing => typed = client
      /\ word = <<>> => ~Composing
      /\ native => ~Composing
      /\ EndsIn(typed, word)
      /\ ~enabled => word = <<>>
  BY WholeText DEF Shape, Ownership, InText
<1>1. EndsIn(client', <<>>)
  BY GrownInPlace, EmptySeq DEF Texts
<1>2. CASE AcceptLanguageChoice \/ CursorMoved \/ FlushPreeditForLayout \/ FocusLost
           \/ Reset
  BY <1>0, <1>2, EndedInText DEF AcceptLanguageChoice, CursorMoved,
     FlushPreeditForLayout, FocusLost, Reset
<1>3. CASE \/ ApplyPredictionOverride \/ SetCompletionDisplay \/ ClearGhost
           \/ WithdrawSentenceBoundaryHint \/ ReconcileSentenceBoundaryHint
  BY <1>3, UntouchedInText DEF ApplyPredictionOverride, SetCompletionDisplay, ClearGhost,
     WithdrawSentenceBoundaryHint, ReconcileSentenceBoundaryHint
<1>4. CASE HandoffForNativeCompletion \/ HandoffForDelivery
  <2>1. /\ lock' = NoLock /\ word' = word /\ enabled' = enabled
        /\ client' = typed /\ typed' = typed
    BY <1>0, <1>4 DEF HandoffForNativeCompletion, HandoffForDelivery, Handoff
  <2> QED  BY <1>0, <2>1, DeliveredInText
<1>5. CASE FocusGained
  <2>1. CASE native
    BY <1>0, <1>5, <2>1, EndedInText DEF FocusGained
  <2>2. CASE ~native /\ UNCHANGED <<client, typed>>
    BY <1>5, <2>2, UntouchedInText DEF FocusGained
  <2>3. CASE /\ ~native /\ word = <<>>
             /\ client' = Opaque(client) /\ typed' = Opaque(typed)
    <3>1. word' = <<>> /\ lock' = NoLock /\ client' = typed'
      BY <1>0, <1>5, <2>3 DEF FocusGained, Composing
    <3> QED  BY <1>1, <3>1, DeliveredInText
  <2> QED  BY <1>5, <2>1, <2>2, <2>3 DEF FocusGained
<1> QED  BY <1>2, <1>3, <1>4, <1>5 DEF HostCall

IInv == Shape /\ Texts /\ InText

LEMMA InitInText == Init => IInv
<1>1. <<>> \in Seq(Glyphs) /\ <<"?">> \in Seq(Glyphs)
  <2>1. "?" \in Glyphs
    BY DEF Glyphs
  <2> QED  BY <2>1, EmptySeq, SeqDef
<1>2. Init => /\ client \in {<<>>, <<"?">>} /\ typed = client
              /\ lock = NoLock /\ word = <<>>
  BY DEF Init
<1>3. Init => Texts
  BY <1>1, <1>2 DEF Texts
<1>4. Texts => client \o <<>> = client /\ EndsIn(client, <<>>)
  BY ConcatEmptySeq, GrownInPlace, EmptySeq DEF Texts
<1> QED  BY <1>2, <1>3, <1>4, InitShape
         DEF IInv, InText, Conserved, TokenInPlace, Composing, Held

LEMMA NextInText ==
  ASSUME ~TokenEdits, IInv, [Next]_vars
  PROVE  IInv'
<1>1. Shape'
  BY NextShape DEF IInv
<1>2. CASE Next
  <2>1. Texts'
    BY <1>2, TextsStep DEF IInv
  <2>2. InText'
    BY <1>2, <2>1, PassedKeyInText, TypedKeyInText, EditKeyInText, HostCallInText
    DEF Next, KeyEvent, IInv
  <2> QED  BY <1>1, <2>1, <2>2 DEF IInv
<1>3. CASE UNCHANGED vars
  BY <1>1, <1>3 DEF vars, IInv, Texts, InText, Conserved, TokenInPlace, Composing, Held
<1> QED  BY <1>2, <1>3

(***************************************************************************)
(* No key, handoff, flush, accept, rewrite or deletion loses or doubles a  *)
(* character, when the environment edits no delivered open word.           *)
(***************************************************************************)
THEOREM SpecConserved == ~TokenEdits => (Spec => []Conserved)
<1> SUFFICES ASSUME ~TokenEdits PROVE Spec => []Conserved
  OBVIOUS
<1>1. IInv /\ [Next]_vars => IInv'
  BY NextInText
<1>2. IInv => Conserved
  BY DEF IInv, InText
<1> QED  BY <1>1, <1>2, InitInText, PTL DEF Spec

(***************************************************************************)
(* A word outside the preedit is the text right before the caret, so the   *)
(* counts of every ReplaceWord are right, under the same condition.        *)
(***************************************************************************)
THEOREM SpecTokenInPlace == ~TokenEdits => (Spec => []TokenInPlace)
<1> SUFFICES ASSUME ~TokenEdits PROVE Spec => []TokenInPlace
  OBVIOUS
<1>1. IInv /\ [Next]_vars => IInv'
  BY NextInText
<1>2. IInv => TokenInPlace
  BY DEF IInv, InText
<1> QED  BY <1>1, <1>2, InitInText, PTL DEF Spec

-----------------------------------------------------------------------------
(* The sentence hint, for an environment that moreover presses no shortcut *)
(* on a delimiter key.                                                     *)

\* Boundary, for any terminator, set of closing marks and blank.
Ended(text, s, n, full, closers, blank) ==
  LET stop == Len(text) - s - n
  IN  /\ stop > 0
      /\ text[stop] = full
      /\ \A i \in (stop + 1)..(stop + n) : text[i] \in closers
      /\ \A i \in (stop + n + 1)..Len(text) : text[i] = blank

\* An end grows by the blanks or the closing marks that follow it, and a
\* longer end ends a text that agrees with a shorter one.
LEMMA EndGrows ==
  ASSUME NEW L \in Nat, NEW t, NEW u, Len(t) = L, Len(u) = L + 1,
         \A i \in 1..L : u[i] = t[i],
         NEW s \in Nat, NEW n \in Nat, NEW full, NEW closers, NEW blank
  PROVE  /\ u[L + 1] = full => Ended(u, 0, 0, full, closers, blank)
         /\ u[L + 1] = blank
              => (Ended(t, s, n, full, closers, blank)
                    <=> Ended(u, s + 1, n, full, closers, blank))
         /\ u[L + 1] \in closers
              => (Ended(t, 0, n, full, closers, blank)
                    <=> Ended(u, 0, n + 1, full, closers, blank))
<1>1. u[L + 1] = full => Ended(u, 0, 0, full, closers, blank)
  BY DEF Ended
<1>2. ASSUME u[L + 1] = blank
      PROVE  Ended(t, s, n, full, closers, blank)
               <=> Ended(u, s + 1, n, full, closers, blank)
  <2>1. Len(u) - (s + 1) - n = L - s - n
    OBVIOUS
  <2>2. L - s - n > 0 => u[L - s - n] = t[L - s - n]
    OBVIOUS
  <2>3. L - s - n > 0
          => \A i \in (L - s - n + 1)..(L - s - n + n) : u[i] = t[i]
    OBVIOUS
  <2>4. L - s - n > 0
          => /\ \A i \in (L - s - n + n + 1)..L : u[i] = t[i]
             /\ \A i \in (L - s - n + n + 1)..(L + 1) :
                  i \in (L - s - n + n + 1)..L \/ i = L + 1
             /\ (L - s - n + n + 1)..L \subseteq (L - s - n + n + 1)..(L + 1)
    OBVIOUS
  <2> QED  BY <1>2, <2>1, <2>2, <2>3, <2>4, Zenon DEF Ended
<1>3. ASSUME u[L + 1] \in closers
      PROVE  Ended(t, 0, n, full, closers, blank)
               <=> Ended(u, 0, n + 1, full, closers, blank)
  <2>1. Len(u) - 0 - (n + 1) = L - 0 - n
    OBVIOUS
  <2>2. L - 0 - n > 0 => u[L - 0 - n] = t[L - 0 - n]
    OBVIOUS
  <2>3. L - 0 - n > 0
          => /\ \A i \in (L - 0 - n + 1)..(L - 0 - n + n) : u[i] = t[i]
             /\ \A i \in (L - 0 - n + 1)..(L - 0 - n + (n + 1)) :
                  i \in (L - 0 - n + 1)..(L - 0 - n + n) \/ i = L + 1
             /\ (L - 0 - n + 1)..(L - 0 - n + n)
                  \subseteq (L - 0 - n + 1)..(L - 0 - n + (n + 1))
    OBVIOUS
  <2>4. /\ \A i \in (L - 0 - n + n + 1)..L : FALSE
        /\ \A i \in (L - 0 - n + (n + 1) + 1)..Len(u) : FALSE
    OBVIOUS
  <2> QED  BY <1>3, <2>1, <2>2, <2>3, <2>4, Zenon DEF Ended
<1> QED  BY <1>1, <1>2, <1>3

\* A sentence end stays one while the spaces or the closing marks after it
\* are typed and erased one by one.
LEMMA BoundarySteps ==
  ASSUME NEW t \in Seq(Glyphs), NEW s \in Nat, NEW n \in Nat
  PROVE  /\ Boundary(Append(t, "."), 0, 0)
         /\ Boundary(t, s, n) => Boundary(Append(t, " "), s + 1, n)
         /\ Boundary(t, 0, n) => \A g \in Closers : Boundary(Append(t, g), 0, n + 1)
         /\ Boundary(t, s, n) /\ s > 0 => Boundary(Erased(t), s - 1, n)
         /\ Boundary(t, 0, n) /\ n > 0 => Boundary(Erased(t), 0, n - 1)
<1>1. \A u, i, j : Boundary(u, i, j) <=> Ended(u, i, j, ".", Closers, " ")
  BY Zenon DEF Boundary, Ended
<1>2. /\ "." \in Glyphs /\ " " \in Glyphs /\ Closers \subseteq Glyphs
      /\ "?" \notin Closers /\ " " # "?"
  BY DEF Glyphs, Closers
<1>3. Len(t) \in Nat
  BY LenProperties
<1>4. ASSUME NEW g \in Glyphs
      PROVE  /\ g = "." => Ended(Append(t, g), 0, 0, ".", Closers, " ")
             /\ g = " " /\ Ended(t, s, n, ".", Closers, " ")
                  => Ended(Append(t, g), s + 1, n, ".", Closers, " ")
             /\ g \in Closers /\ Ended(t, 0, n, ".", Closers, " ")
                  => Ended(Append(t, g), 0, n + 1, ".", Closers, " ")
  <2>1. /\ Len(Append(t, g)) = Len(t) + 1 /\ Append(t, g)[Len(t) + 1] = g
        /\ \A i \in 1..Len(t) : Append(t, g)[i] = t[i]
    BY AppendProperties
  <2>2. /\ g = "." => Ended(Append(t, g), 0, 0, ".", Closers, " ")
        /\ g = " " => (Ended(t, s, n, ".", Closers, " ")
                         <=> Ended(Append(t, g), s + 1, n, ".", Closers, " "))
        /\ g \in Closers => (Ended(t, 0, n, ".", Closers, " ")
                               <=> Ended(Append(t, g), 0, n + 1, ".", Closers, " "))
    <3>1. ASSUME NEW full, NEW closers, NEW blank
          PROVE  /\ g = full => Ended(Append(t, g), 0, 0, full, closers, blank)
                 /\ g = blank => (Ended(t, s, n, full, closers, blank)
                         <=> Ended(Append(t, g), s + 1, n, full, closers, blank))
                 /\ g \in closers => (Ended(t, 0, n, full, closers, blank)
                         <=> Ended(Append(t, g), 0, n + 1, full, closers, blank))
      <4> DEFINE u == Append(t, g)
                 L == Len(t)
      <4>1. /\ L \in Nat /\ Len(t) = L /\ Len(u) = L + 1 /\ u[L + 1] = g
            /\ \A i \in 1..L : u[i] = t[i]
        BY <1>3, <2>1, Zenon
      <4> HIDE DEF u, L
      <4>2. /\ u[L + 1] = full => Ended(u, 0, 0, full, closers, blank)
            /\ u[L + 1] = blank
                 => (Ended(t, s, n, full, closers, blank)
                       <=> Ended(u, s + 1, n, full, closers, blank))
            /\ u[L + 1] \in closers
                 => (Ended(t, 0, n, full, closers, blank)
                       <=> Ended(u, 0, n + 1, full, closers, blank))
        BY <4>1, EndGrows
      <4> QED  BY <4>1, <4>2, Zenon DEF u
    <3> QED  BY <3>1, Zenon
  <2> QED  BY <2>2
<1>5. ASSUME t # <<>>
      PROVE  /\ t[Len(t)] = " " /\ s > 0 /\ Ended(t, s, n, ".", Closers, " ")
                  => Ended(Cut(t, 1), s - 1, n, ".", Closers, " ")
             /\ t[Len(t)] \in Closers /\ n > 0 /\ Ended(t, 0, n, ".", Closers, " ")
                  => Ended(Cut(t, 1), 0, n - 1, ".", Closers, " ")
  <2>1. Len(t) - 1 \in Nat /\ Len(t) = Len(t) - 1 + 1
    BY <1>3, <1>5, EmptySeq
  <2>2. /\ Len(Cut(t, 1)) = Len(t) - 1
        /\ \A i \in 1..(Len(t) - 1) : t[i] = Cut(t, 1)[i]
    <3>1. \A i \in 1..(Len(t) - 1) : Cut(t, 1)[i] = t[i]
      BY CutText
    <3>2. 1 <= Len(t)
      BY <1>3, <2>1
    <3>3. Len(Cut(t, 1)) = IF 1 <= Len(t) THEN Len(t) - 1 ELSE 0
      BY CutText
    <3>4. Len(Cut(t, 1)) = Len(t) - 1
      BY <3>2, <3>3, Zenon
    <3> QED  BY <3>1, <3>4, Zenon
  <2>3. ASSUME NEW a \in Nat, NEW b \in Nat
        PROVE  /\ t[Len(t) - 1 + 1] = " "
                    => (Ended(Cut(t, 1), a, b, ".", Closers, " ")
                          <=> Ended(t, a + 1, b, ".", Closers, " "))
               /\ t[Len(t) - 1 + 1] \in Closers
                    => (Ended(Cut(t, 1), 0, b, ".", Closers, " ")
                          <=> Ended(t, 0, b + 1, ".", Closers, " "))
    <3> DEFINE L == Len(t) - 1
    <3>1. /\ L \in Nat /\ Len(Cut(t, 1)) = L /\ Len(t) = L + 1
          /\ \A i \in 1..L : t[i] = Cut(t, 1)[i]
      BY <2>1, <2>2
    <3> HIDE DEF L
    <3>2. /\ t[L + 1] = " "
               => (Ended(Cut(t, 1), a, b, ".", Closers, " ")
                     <=> Ended(t, a + 1, b, ".", Closers, " "))
          /\ t[L + 1] \in Closers
               => (Ended(Cut(t, 1), 0, b, ".", Closers, " ")
                     <=> Ended(t, 0, b + 1, ".", Closers, " "))
      BY <3>1, EndGrows
    <3> QED  BY <3>2 DEF L
  <2>4. /\ s > 0 => s - 1 \in Nat /\ s - 1 + 1 = s
        /\ n > 0 => n - 1 \in Nat /\ n - 1 + 1 = n
    OBVIOUS
  <2> QED  BY <2>1, <2>3, <2>4, Zenon
<1>6. /\ Ended(t, s, n, ".", Closers, " ") /\ s > 0 => t # <<>> /\ t[Len(t)] = " "
      /\ Ended(t, 0, n, ".", Closers, " ") /\ n > 0 => t # <<>> /\ t[Len(t)] \in Closers
  <2>1. ASSUME NEW full, NEW closers, NEW blank
        PROVE  /\ Ended(t, s, n, full, closers, blank) /\ s > 0
                    => Len(t) > 0 /\ t[Len(t)] = blank
               /\ Ended(t, 0, n, full, closers, blank) /\ n > 0
                    => Len(t) > 0 /\ t[Len(t)] \in closers
    <3>1. /\ Len(t) - s - n > 0 /\ s > 0
               => Len(t) > 0 /\ Len(t) \in (Len(t) - s - n + n + 1)..Len(t)
          /\ Len(t) - 0 - n > 0 /\ n > 0
               => Len(t) > 0 /\ Len(t) \in (Len(t) - 0 - n + 1)..(Len(t) - 0 - n + n)
      BY <1>3
    <3> QED  BY <3>1, Zenon DEF Ended
  <2>2. t = <<>> => ~(Len(t) > 0)
    BY EmptySeq
  <2> QED  BY <2>1, <2>2, Zenon
<1>7. t # <<>> /\ t[Len(t)] # "?" => Erased(t) = Cut(t, 1)
  BY DEF Erased
<1>8. /\ Boundary(t, s, n) /\ s > 0 => Boundary(Erased(t), s - 1, n)
      /\ Boundary(t, 0, n) /\ n > 0 => Boundary(Erased(t), 0, n - 1)
  BY <1>1, <1>2, <1>5, <1>6, <1>7, Zenon
<1>9. Boundary(Append(t, "."), 0, 0)
  BY <1>1, <1>2, <1>4, Zenon
<1>10. Boundary(t, s, n) => Boundary(Append(t, " "), s + 1, n)
  BY <1>1, <1>2, <1>4, Zenon
<1>11. Boundary(t, 0, n) => \A g \in Closers : Boundary(Append(t, g), 0, n + 1)
  BY <1>1, <1>2, <1>4, Zenon
<1> QED  BY <1>8, <1>9, <1>10, <1>11

\* What a report of the text says of a sentence end is there.
LEMMA ReconciledBoundary ==
  ASSUME NEW text \in Seq(Glyphs), NEW h, h = Reconciled(text)
  PROVE  /\ h.kind = "none" => h = NoHint
         /\ h.kind = "awaiting" => h.spaces = 0 /\ Boundary(text, 0, h.tail)
         /\ h.kind = "start" /\ h.spaces > 0
              => Boundary(text, h.spaces, h.tail) /\ text[Len(text)] = " "
<1> DEFINE inked == {i \in 1..Len(text) : text[i] \notin {" ", "n"}}
           last  == CHOOSE i \in inked : \A j \in inked : j <= i
           stops == {i \in inked : text[i] = "."
                                   /\ \A j \in i..last : text[j] \in Closers}
           first == CHOOSE i \in stops : \A j \in stops : i <= j
           blank == Len(text) - last
           broken == \E i \in (last + 1)..Len(text) : text[i] = "n"
<1>1. Len(text) \in Nat
  BY LenProperties
<1>2. inked # {} => last \in 1..Len(text) /\ \A j \in inked : j <= last
  <2>1. inked \in SUBSET (1..Len(text))
    OBVIOUS
  <2> HIDE DEF inked
  <2>2. inked # {} => \E i \in inked : \A j \in inked : j <= i
    BY <1>1, <2>1, LastPosition
  <2>3. inked # {} => last \in inked /\ \A j \in inked : j <= last
    BY <2>2
  <2> QED  BY <2>1, <2>3
<1>3. stops # {} => first \in stops
  <2>1. stops \subseteq inked /\ inked \subseteq 1..Len(text)
    OBVIOUS
  <2>0. stops \in SUBSET Nat
    <3> HIDE DEF stops, inked
    <3> QED  BY <2>1
  <2> HIDE DEF stops, inked
  <2>2. stops # {} => \E i \in stops : \A j \in stops : i <= j
    BY <2>0, FirstPosition
  <2> QED  BY <2>1, <2>2
<1>4. h = IF inked = {} \/ broken THEN Start(0, 0)
          ELSE IF stops = {} THEN NoHint
          ELSE IF blank = 0 THEN Awaiting(last - first)
          ELSE Start(blank, last - first)
  BY Zenon DEF Reconciled
<1>5. ASSUME inked # {}, ~broken, stops # {}
      PROVE  /\ Boundary(text, blank, last - first)
             /\ blank # 0 => text[Len(text)] = " "
  <2>1. ASSUME NEW i \in (last + 1)..Len(text) PROVE text[i] = " "
    <3>1. i \in 1..Len(text) /\ ~(i <= last)
      <4> HIDE DEF last, inked
      <4> QED  BY <1>1, <1>2, <1>5
    <3>2. text[i] \notin {" ", "n"} => i \in inked
      BY <3>1
    <3>3. text[i] # "n"
      BY <1>5
    <3> HIDE DEF last, inked
    <3> QED  BY <1>2, <1>5, <3>1, <3>2, <3>3
  <2>2. first \in inked /\ text[first] = "." /\ \A j \in first..last : text[j] \in Closers
    BY <1>3, <1>5
  <2>3. first \in 1..Len(text) /\ last \in 1..Len(text) /\ first <= last
    <3>1. inked \subseteq 1..Len(text)
      OBVIOUS
    <3> HIDE DEF first, last, inked
    <3> QED  BY <1>2, <1>5, <2>2, <3>1
  <2> HIDE DEF first, last, inked, stops
  <2>4. ASSUME NEW full, NEW closers, NEW gap, text[first] = full,
               \A j \in first..last : text[j] \in closers,
               \A i \in (last + 1)..Len(text) : text[i] = gap
        PROVE  /\ Ended(text, blank, last - first, full, closers, gap)
               /\ blank # 0 => text[Len(text)] = gap
    <3>1. /\ Len(text) - blank - (last - first) = first /\ first > 0
          /\ first + (last - first) = last
          /\ \A i \in (first + 1)..last : i \in first..last
      BY <1>1, <2>3
    <3>2. blank # 0 => Len(text) \in (last + 1)..Len(text)
      BY <1>1, <2>3
    <3> QED  BY <2>4, <3>1, <3>2, Zenon DEF Ended
  <2>5. /\ Ended(text, blank, last - first, ".", Closers, " ")
        /\ blank # 0 => text[Len(text)] = " "
    BY <2>1, <2>2, <2>4
  <2>6. \A u, i, j : Boundary(u, i, j) <=> Ended(u, i, j, ".", Closers, " ")
    BY Zenon DEF Boundary, Ended
  <2> HIDE DEF blank
  <2> QED  BY <2>5, <2>6, Zenon
<1> HIDE DEF inked, last, stops, first, blank, broken
<1>6. /\ NoHint.kind = "none"
      /\ \A n : Awaiting(n).kind = "awaiting" /\ Awaiting(n).spaces = 0
               /\ Awaiting(n).tail = n
  BY DEF NoHint, Awaiting
<1>7. CASE inked = {} \/ broken \/ stops = {}
  <2>1. h \in {Start(0, 0), NoHint}
    BY <1>4, <1>7
  <2>2. CASE h = NoHint
    <3>1. h.kind = "none"
      BY <1>6, <2>2
    <3> QED  BY <2>2, <3>1
  <2>3. CASE h = Start(0, 0)
    <3>1. h.kind = "start"
      BY <2>3 DEF Start
    <3>2. h.spaces = 0
      BY <2>3 DEF Start
    <3>3. ~(h.spaces > 0)
      BY <3>2
    <3> QED  BY <3>1, <3>3
  <2> QED  BY <2>1, <2>2, <2>3
<1>8. CASE ~(inked = {} \/ broken \/ stops = {}) /\ blank = 0
  <2>1. h = Awaiting(last - first) /\ Boundary(text, 0, last - first)
    BY <1>4, <1>5, <1>8
  <2>2. h.kind = "awaiting" /\ h.spaces = 0 /\ h.tail = last - first
    BY <1>6, <2>1, Zenon
  <2>3. h.kind # "none" /\ h.kind # "start"
    BY <2>2
  <2> QED  BY <2>1, <2>2, <2>3, Zenon
<1>9. CASE ~(inked = {} \/ broken \/ stops = {}) /\ blank # 0
  <2>1. h = Start(blank, last - first) /\ Boundary(text, blank, last - first)
        /\ text[Len(text)] = " "
    BY <1>4, <1>5, <1>9, Zenon
  <2>2. h.kind = "start" /\ h.spaces = blank /\ h.tail = last - first
    <3>1. h = Start(blank, last - first)
      BY <2>1
    <3> QED  BY <3>1 DEF Start
  <2>3. h.kind # "none" /\ h.kind # "awaiting"
    <3>1. h.kind = "start"
      BY <2>2, Zenon
    <3> QED  BY <3>1
  <2> QED  BY <2>1, <2>2, <2>3, Zenon
<1> QED  BY <1>7, <1>8, <1>9, Zenon

LEMMA CutNothing ==
  ASSUME NEW t \in Seq(Glyphs)
  PROVE  Cut(t, Len(<<>>)) = t
<1>1. <<>> \in Seq(Glyphs) /\ t \o <<>> = t
  BY EmptySeq, ConcatEmptySeq
<1> QED  BY <1>1, CutJoined

\* The text before the word at hand, as the user sees it.
Before == Cut(typed, Len(word))

LEMMA BeforeWord ==
  ASSUME IInv
  PROVE  /\ Before \in Seq(Glyphs) /\ typed = Before \o word
         /\ Composing => Before = client
         /\ ~Composing => Before = Cut(client, Len(word))
         /\ word = <<>> => Before = typed
<1>1. /\ typed \in Seq(Glyphs) /\ client \in Seq(Glyphs) /\ word \in Seq(Glyphs)
      /\ EndsIn(typed, word)
      /\ Composing => typed = client \o word
      /\ ~Composing => typed = client
  BY WordIsText, WholeText DEF IInv, Shape, Texts, InText
<1>2. PICK u \in Seq(Glyphs) : typed = u \o word
  BY <1>1, EndsInMeaning
<1>3. Before = u
  BY <1>1, <1>2, CutJoined DEF Before
<1>4. Composing => Before = client
  BY <1>1, CutJoined DEF Before
<1>5. ~Composing => Before = Cut(client, Len(word))
  BY <1>1 DEF Before
<1>6. word = <<>> => Before = typed
  BY <1>1, CutNothing DEF Before
<1> QED  BY <1>2, <1>3, <1>4, <1>5, <1>6

\* What stands before the word does not depend on how long the word is.
LEMMA BeforeKept ==
  ASSUME IInv,
         \/ UNCHANGED <<word, typed>>
         \/ \E g \in WordGlyphs : word' = Append(word, g) /\ typed' = Append(typed, g)
         \/ word # <<>> /\ word' = Cut(word, 1) /\ typed' = Cut(typed, 1)
  PROVE  Before' = Before
<1>0. /\ Before \in Seq(Glyphs) /\ typed = Before \o word
      /\ word \in Seq(Glyphs) /\ word \in Seq(WordGlyphs)
  BY BeforeWord, WordIsText DEF IInv, Shape
<1>1. CASE UNCHANGED <<word, typed>>
  BY <1>1 DEF Before
<1>2. ASSUME NEW g \in WordGlyphs, word' = Append(word, g), typed' = Append(typed, g)
      PROVE  Before' = Before
  <2>1. Append(word, g) \in Seq(Glyphs) /\ <<g>> \in Seq(Glyphs) /\ g \in Glyphs
    <3>1. g \in Glyphs
      BY DEF WordGlyphs, Glyphs
    <3> QED  BY <1>0, <3>1
  <2>2. Append(typed, g) = Before \o Append(word, g)
    <3>1. /\ Append(word, g) = word \o <<g>>
          /\ Append(Before \o word, g) = (Before \o word) \o <<g>>
      BY <1>0, <2>1, AppendIsConcat, ConcatProperties
    <3>2. (Before \o word) \o <<g>> = Before \o (word \o <<g>>)
      BY <1>0, <2>1, ConcatAssociative
    <3> QED  BY <1>0, <3>1, <3>2
  <2>3. Cut(Before \o Append(word, g), Len(Append(word, g))) = Before
    BY <1>0, <2>1, CutJoined
  <2> QED  BY <1>2, <2>2, <2>3 DEF Before
<1>3. CASE word # <<>> /\ word' = Cut(word, 1) /\ typed' = Cut(typed, 1)
  <2>1. Cut(typed, 1) = Before \o Cut(word, 1)
    BY <1>0, <1>3, ShrunkInPlace
  <2>2. Cut(word, 1) \in Seq(Glyphs)
    BY <1>0, CutText
  <2>3. Cut(Before \o Cut(word, 1), Len(Cut(word, 1))) = Before
    BY <1>0, <2>2, CutJoined
  <2> QED  BY <1>3, <2>1, <2>3 DEF Before
<1> QED  BY <1>1, <1>2, <1>3

(***************************************************************************)
(* Inductive: what the hint says of the text before the word holds whether *)
(* the word composes or not, once it says anything; only a hint that waits *)
(* for white space says nothing while a delivered word is open.            *)
(***************************************************************************)
HintTells ==
  /\ hint.kind = "none" => hint = NoHint
  /\ hint.kind = "awaiting" => hint.spaces = 0
  /\ ~enabled => hint = NoHint
  /\ hint.kind = "awaiting" /\ (Composing \/ word = <<>>) => Boundary(Before, 0, hint.tail)
  /\ hint.kind = "start" /\ hint.spaces > 0 => Boundary(Before, hint.spaces, hint.tail)

LEMMA HintKinds ==
  ASSUME NEW n, NEW t
  PROVE  /\ NoHint.kind = "none" /\ NoHint.spaces = 0
         /\ Awaiting(t).kind = "awaiting" /\ Awaiting(t).spaces = 0
         /\ Awaiting(t).tail = t
         /\ Start(n, t).kind = "start" /\ Start(n, t).spaces = n
         /\ Start(n, t).tail = t
  BY DEF NoHint, Awaiting, Start

\* A handler that withdraws the hint, or starts a sentence on no evidence
\* but that of a line break or a Tab.
LEMMA PlainHintTells ==
  ASSUME hint' = NoHint \/ (hint' = Start(0, 0) /\ enabled')
  PROVE  HintTells'
<1>1. NoHint.kind = "none" /\ Start(0, 0).kind = "start" /\ Start(0, 0).spaces = 0
  BY HintKinds
<1>2. CASE hint' = NoHint
  <2>1. hint'.kind = "none"
    BY <1>1, <1>2
  <2>2. hint'.kind # "awaiting" /\ hint'.kind # "start"
    BY <2>1
  <2> QED  BY <1>2, <2>2 DEF HintTells
<1>3. CASE hint' = Start(0, 0) /\ enabled'
  <2>1. hint'.kind = "start"
    BY <1>1, <1>3
  <2>2. hint'.kind # "awaiting" /\ hint'.kind # "none"
    BY <2>1
  <2>3. ~(hint'.spaces > 0)
    <3>1. hint'.spaces = 0
      BY <1>3 DEF Start
    <3> QED  BY <3>1
  <2> QED  BY <1>3, <2>2, <2>3 DEF HintTells
<1> QED  BY <1>2, <1>3

\* A handler that keeps the hint and the text before the word.
LEMMA KeptHintTells ==
  ASSUME HintTells, hint' \in {hint, Withdrawn}, Before' = Before,
         enabled \/ enabled' = enabled,
         enabled' \/ enabled' = enabled,
         hint' = hint /\ (Composing' \/ word' = <<>>) => Composing \/ word = <<>>
  PROVE  HintTells'
<1>1. CASE hint' = NoHint
  BY <1>1, PlainHintTells
<1>2. CASE hint' = hint
  BY <1>2 DEF HintTells
<1>3. CASE hint' = Withdrawn
  BY <1>1, <1>2, <1>3 DEF Withdrawn
<1> QED  BY <1>2, <1>3

\* A handler that ends the word and forwards the key that ended it.
LEMMA ForwardedHintTells ==
  ASSUME NEW t \in Seq(Glyphs), NEW g \in Glyphs, Texts', word' = <<>>,
         typed' = t \o <<g>>, hint' = AfterForwarded(g), enabled'
  PROVE  HintTells'
<1>1. CASE g # "."
  BY <1>1, PlainHintTells DEF AfterForwarded
<1>2. CASE g = "."
  <2>1. hint' = Awaiting(0)
    BY <1>2 DEF AfterForwarded
  <2>2. hint'.kind = "awaiting" /\ hint'.spaces = 0 /\ hint'.tail = 0
    BY <2>1, HintKinds
  <2>3. hint'.kind # "start" /\ hint'.kind # "none"
    <3>1. hint'.kind = "awaiting"
      BY <2>2
    <3> QED  BY <3>1
  <2>4. Before' = typed'
    <3>1. typed' \in Seq(Glyphs)
      BY DEF Texts
    <3> QED  BY <3>1, CutNothing DEF Before
  <2>5. typed' = Append(t, ".")
    BY <1>2, AppendIsConcat
  <2>6. Boundary(typed', 0, 0)
    <3>1. 0 \in Nat
      OBVIOUS
    <3> QED  BY <2>5, <3>1, BoundarySteps
  <2> QED  BY <2>2, <2>3, <2>4, <2>6, Zenon DEF HintTells
<1> QED  BY <1>1, <1>2

LEMMA PassedKeyHint ==
  ASSUME ~DelimiterChords, IInv, HintTells, IInv',
         \/ KillOff \/ KillOn \/ DisabledKey \/ DirectBoundary \/ NativeBoundary
         \/ NativePopupKey \/ Chord
  PROVE  HintTells'
<1> USE DEF KeepModes, KeepWord, EndWord, ResetWord
<1>0. typed \in Seq(Glyphs) /\ Texts'
  BY DEF IInv, Texts
<1>1. CASE KillOff \/ Chord
  BY <1>1, PlainHintTells DEF KillOff, Chord
<1>2. CASE KillOn \/ DisabledKey
  BY <1>2, PlainHintTells DEF KillOn, DisabledKey, HintTells
<1>3. ASSUME NEW g \in Glyphs \ {"a"}, Forward(<<g>>), EndWord(AfterForwarded(g), FALSE),
             enabled, enabled' = enabled
      PROVE  HintTells'
  BY <1>0, <1>3, ForwardedHintTells DEF Forward
<1>4. CASE DirectBoundary \/ NativeBoundary
  BY <1>3, <1>4, PlainHintTells DEF DirectBoundary, NativeBoundary
<1>5. CASE NativePopupKey
  BY <1>5, BeforeKept, KeptHintTells DEF NativePopupKey, Composing
<1> QED  BY <1>1, <1>2, <1>4, <1>5

\* A closing mark joins the end it follows.
LEMMA ClosingTailHint ==
  ASSUME IInv, HintTells, hint \in Hints, IInv', ClosingTail
  PROVE  HintTells'
<1>1. PICK g \in Closers : typed' = typed \o <<g>>
  BY DEF ClosingTail, Forward
<1>2. /\ hint.kind = "awaiting" /\ word = <<>> /\ word' = <<>> /\ enabled'
      /\ hint' = [hint EXCEPT !.tail = @ + 1]
  BY DEF ClosingTail, KeepWord, KeepModes
<1>3. /\ hint'.kind = "awaiting" /\ hint'.spaces = hint.spaces
      /\ hint'.tail = hint.tail + 1 /\ hint.tail \in Nat
  BY <1>2 DEF Hints
<1>4. Before = typed /\ Before' = typed' /\ typed \in Seq(Glyphs) /\ g \in Glyphs
  <2>1. typed \in Seq(Glyphs) /\ typed' \in Seq(Glyphs)
    BY DEF IInv, Texts
  <2> QED  BY <1>2, <2>1, CutNothing DEF Before, Closers, Glyphs
<1>5. typed' = Append(typed, g)
  BY <1>1, <1>4, AppendIsConcat
<1>6. Boundary(typed, 0, hint.tail) /\ hint.spaces = 0
  BY <1>2, <1>4 DEF HintTells
<1>7. Boundary(typed', 0, hint.tail + 1)
  <2>1. 0 \in Nat
    OBVIOUS
  <2> QED  BY <1>3, <1>4, <1>5, <1>6, <2>1, BoundarySteps
<1>8. hint'.kind # "none" /\ hint'.kind # "start"
  <2>1. hint'.kind = "awaiting"
    BY <1>3
  <2> QED  BY <2>1
<1> QED  BY <1>2, <1>3, <1>4, <1>6, <1>7, <1>8, Zenon DEF HintTells

LEMMA TypedKeyHint ==
  ASSUME IInv, HintTells, IInv',
         \/ RawKeyComposing \/ RawKeyDelivered \/ LetterAfterComposing \/ Letter
         \/ WrongLayout \/ MarkAfterComposing \/ Mark \/ AcceptCharacter
  PROVE  HintTells'
<1> USE DEF KeepModes, KeepOwner
<1>0. /\ typed \in Seq(Glyphs) /\ Texts' /\ Shape /\ Texts /\ InText
      /\ word \in Seq(WordGlyphs)
  BY DEF IInv, Texts, Shape
<1>1. "a" \in WordGlyphs /\ Marks \subseteq WordGlyphs /\ Marks \subseteq Glyphs
  BY DEF WordGlyphs, Marks, Glyphs
<1>2. \A g \in WordGlyphs : typed \o <<g>> = Append(typed, g)
                            /\ Append(word, g) # <<>>
  BY <1>0, LengthenedText, WordSteps
<1>3. ASSUME NEW g \in WordGlyphs, word' = Append(word, g), typed' = Append(typed, g),
             enabled, enabled' = enabled, hint' \in {hint, Withdrawn},
             Composing' => Composing \/ word = <<>>
      PROVE  HintTells'
  <2>1. Before' = Before
    BY <1>3, BeforeKept
  <2>2. word' # <<>>
    BY <1>2, <1>3
  <2> QED  BY <1>3, <2>1, <2>2, KeptHintTells
<1>4. CASE RawKeyComposing
  BY <1>1, <1>3, <1>4 DEF RawKeyComposing
<1>5. CASE LetterAfterComposing
  BY <1>1, <1>3, <1>5 DEF LetterAfterComposing
<1>6. CASE WrongLayout
  BY <1>1, <1>3, <1>6 DEF WrongLayout, Composing
<1>7. CASE RawKeyDelivered \/ Letter
  <2>1. ~Composing
    BY <1>0, <1>7 DEF RawKeyDelivered, Letter, Shape, Ownership
  <2>2. /\ word' = Append(word, "a") /\ typed' = typed \o <<"a">> /\ lock' = lock
        /\ hint' = Withdrawn /\ enabled /\ enabled' = enabled
    BY <1>7 DEF RawKeyDelivered, Letter, Forward
  <2>3. typed' = Append(typed, "a") /\ (Composing' => Composing)
    BY <1>1, <1>2, <2>2 DEF Composing
  <2> QED  BY <1>1, <1>3, <2>2, <2>3
<1>8. CASE MarkAfterComposing
  <2>1. PICK g \in Marks : Commit(<<g>>, IF g = "." THEN Awaiting(0) ELSE NoHint)
    BY <1>8 DEF MarkAfterComposing
  <2>2. AfterForwarded(g) = IF g = "." THEN Awaiting(0) ELSE NoHint
    BY DEF AfterForwarded, Marks
  <2>3. /\ word' = <<>> /\ typed' = typed \o <<g>> /\ hint' = AfterForwarded(g)
        /\ enabled'
    BY <1>8, <2>1, <2>2 DEF MarkAfterComposing, Commit, EndWord, ResetWord, Plain
  <2> QED  BY <1>0, <1>1, <2>3, ForwardedHintTells
<1>9. CASE Mark
  <2>1. PICK shown \in WordGlyphs : word' = Append(word, shown) /\ Forward(<<shown>>)
    BY <1>1, <1>9 DEF Mark
  <2>2. typed' = Append(typed, shown)
    BY <1>2, <2>1 DEF Forward
  <2>3. /\ hint' = Withdrawn /\ enabled /\ enabled' = enabled /\ lock' = lock
    BY <1>9 DEF Mark, Plain
  <2> QED  BY <1>3, <2>1, <2>2, <2>3 DEF Composing
<1>10. CASE AcceptCharacter
  <2>1. Composing' => Composing
    BY <1>10 DEF AcceptCharacter, Composing
  <2> QED  BY <1>1, <1>3, <1>10, <2>1 DEF AcceptCharacter, Plain
<1> QED  BY <1>4, <1>5, <1>6, <1>7, <1>8, <1>9, <1>10

\* A Space that follows no word, and the Backspace that takes one back.
Spaced == typed' = typed \o <<" ">> /\ hint' = AfterSpace
Unspaced == typed' = Erased(typed) /\ hint' = AfterErase

LEMMA SpaceHint ==
  ASSUME IInv, HintTells, hint \in Hints, IInv', word = <<>>, word' = <<>>, enabled',
         Spaced \/ Unspaced
  PROVE  HintTells'
<1>1. Before = typed /\ Before' = typed' /\ typed \in Seq(Glyphs) /\ " " \in Glyphs
  <2>1. typed \in Seq(Glyphs) /\ typed' \in Seq(Glyphs)
    BY DEF IInv, Texts
  <2> QED  BY <2>1, CutNothing DEF Before, Glyphs
<1>2. hint.spaces \in Nat /\ hint.tail \in Nat /\ 0 \in Nat
  BY DEF Hints
<1>0. hint.kind \in {"none", "awaiting", "start"}
  BY DEF Hints
<1>3. /\ hint.kind = "awaiting" => Boundary(typed, 0, hint.tail) /\ hint.spaces = 0
      /\ hint.kind = "start" /\ hint.spaces > 0
           => Boundary(typed, hint.spaces, hint.tail)
      /\ hint.kind = "none" => hint = NoHint
  BY <1>1 DEF HintTells
<1>4. typed \o <<" ">> = Append(typed, " ")
  BY <1>1, AppendIsConcat
<1>5. ASSUME NEW m \in Nat, NEW s, Boundary(typed', s, m), hint' = Start(s, m)
      PROVE  HintTells'
  <2>1. hint'.kind = "start" /\ hint'.spaces = s /\ hint'.tail = m
    BY <1>5 DEF Start
  <2>2. hint'.kind # "none" /\ hint'.kind # "awaiting"
    <3>1. hint'.kind = "start"
      BY <2>1
    <3> QED  BY <3>1
  <2> QED  BY <1>1, <1>5, <2>1, <2>2, Zenon DEF HintTells
<1>6. ASSUME NEW m \in Nat, Boundary(typed', 0, m), hint' = Awaiting(m)
      PROVE  HintTells'
  <2>1. hint'.kind = "awaiting" /\ hint'.spaces = 0 /\ hint'.tail = m
    BY <1>6 DEF Awaiting
  <2>2. hint'.kind # "none" /\ hint'.kind # "start"
    <3>1. hint'.kind = "awaiting"
      BY <2>1
    <3> QED  BY <3>1
  <2> QED  BY <1>1, <1>6, <2>1, <2>2, Zenon DEF HintTells
<1>7. CASE Spaced
  <2>0. typed' = Append(typed, " ") /\ hint' = AfterSpace
    BY <1>4, <1>7 DEF Spaced
  <2>1. CASE hint.kind = "awaiting"
    <3>1. Boundary(typed, 0, hint.tail) /\ typed' = Append(typed, " ")
      BY <1>3, <2>0, <2>1, Zenon
    <3>2. Boundary(typed', 0 + 1, hint.tail)
      BY <1>1, <1>2, <3>1, BoundarySteps, Zenon
    <3>3. hint' = Start(1, hint.tail)
      BY <2>0, <2>1 DEF AfterSpace
    <3>4. 0 + 1 = 1
      OBVIOUS
    <3> QED  BY <1>2, <1>5, <3>2, <3>3, <3>4
  <2>2. CASE hint.kind = "start" /\ hint.spaces > 0
    <3>1. Boundary(typed', hint.spaces + 1, hint.tail)
      BY <1>1, <1>2, <1>3, <2>0, <2>2, BoundarySteps
    <3>2. hint' = Start(hint.spaces + 1, hint.tail)
      <4>1. hint.kind # "awaiting"
        BY <2>2
      <4> QED  BY <2>0, <2>2, <4>1, Zenon DEF AfterSpace
    <3> QED  BY <1>2, <1>5, <3>1, <3>2
  <2>3. CASE hint.kind # "awaiting" /\ ~(hint.spaces > 0)
    <3>1. hint' = hint
      BY <2>0, <2>3, Zenon DEF AfterSpace
    <3> QED  BY <2>3, <3>1, Zenon DEF HintTells
  <2>4. hint.kind = "none" => ~(hint.spaces > 0)
    <3>1. hint.kind = "none" => hint.spaces = 0
      BY <1>3 DEF NoHint
    <3>2. hint.spaces = 0 => ~(hint.spaces > 0)
      OBVIOUS
    <3> QED  BY <3>1, <3>2, Zenon
  <2> QED  BY <1>0, <2>1, <2>2, <2>3, <2>4, Zenon
<1>8. CASE Unspaced
  <2>0. typed' = Erased(typed) /\ hint' = AfterErase
    BY <1>8 DEF Unspaced
  <2>1. CASE hint.kind = "start" /\ hint.spaces > 0
    <3>1. Boundary(typed', hint.spaces - 1, hint.tail)
      BY <1>1, <1>2, <1>3, <2>0, <2>1, BoundarySteps
    <3>2. CASE hint.spaces > 1
      <4>1. hint' = Start(hint.spaces - 1, hint.tail)
        BY <2>0, <2>1, <3>2, Zenon DEF AfterErase
      <4> QED  BY <1>2, <1>5, <3>1, <4>1
    <3>3. CASE ~(hint.spaces > 1)
      <4>1. hint.spaces = 1 /\ hint.spaces - 1 = 0
        <5>1. hint.spaces > 0
          BY <2>1
        <5> QED  BY <1>2, <3>3, <5>1
      <4>2. hint' = Awaiting(hint.tail)
        BY <2>0, <2>1, <3>3, <4>1, Zenon DEF AfterErase
      <4> QED  BY <1>2, <1>6, <3>1, <4>1, <4>2
    <3> QED  BY <3>2, <3>3
  <2>2. CASE hint.kind = "awaiting" /\ hint.tail > 0
    <3>0. hint.tail > 0 /\ Boundary(typed, 0, hint.tail)
      BY <1>3, <2>2, Zenon
    <3>1. Boundary(typed', 0, hint.tail - 1) /\ hint.tail - 1 \in Nat
      <4>1. Boundary(Erased(typed), 0, hint.tail - 1)
        BY <1>1, <1>2, <3>0, BoundarySteps, Zenon
      <4>2. hint.tail - 1 \in Nat
        BY <1>2, <3>0
      <4> QED  BY <2>0, <4>1, <4>2, Zenon
    <3>2. hint.kind # "start"
      BY <2>2
    <3>3. hint' = Awaiting(hint.tail - 1)
      BY <2>0, <2>2, <3>2, Zenon DEF AfterErase
    <3> QED  BY <1>6, <3>1, <3>3
  <2>3. CASE /\ ~(hint.kind = "start" /\ hint.spaces > 0)
             /\ ~(hint.kind = "awaiting" /\ hint.tail > 0)
    <3>1. ~(hint.spaces > 0) => ~(hint.spaces > 1) /\ hint.spaces # 1
      BY <1>2
    <3>2. hint' = NoHint
      BY <2>0, <2>3, <3>1, Zenon DEF AfterErase
    <3> QED  BY <3>2, PlainHintTells
  <2> QED  BY <2>1, <2>2, <2>3
<1> QED  BY <1>7, <1>8

LEMMA EditKeyHint ==
  ASSUME IInv, HintTells, hint \in Hints, IInv',
         \/ Accept \/ SpaceAccept \/ Navigate \/ Tab \/ Delimiter \/ Escape
         \/ BackspaceComposing \/ BackspaceDelivered
  PROVE  HintTells'
<1> USE DEF KeepModes, KeepWord, EndWord
<1>0. /\ typed \in Seq(Glyphs) /\ Texts'
      /\ {" ", "n"} \subseteq Glyphs
  BY DEF IInv, Texts, Glyphs
<1>1. CASE Accept \/ SpaceAccept \/ Navigate
  BY <1>1, PlainHintTells DEF Accept, SpaceAccept, AcceptWith, Navigate, CursorMoved
<1>2. CASE Tab
  BY <1>2, PlainHintTells DEF Tab, Plain
<1>3. CASE Delimiter
  <2>1. ASSUME NEW g \in {" ", "n"}, Commit(<<g>>, AfterForwarded(g)) PROVE HintTells'
    BY <1>0, <1>3, <2>1, ForwardedHintTells DEF Commit, ResetWord, Delimiter, Plain
  <2>2. ASSUME word = <<>>, EndWord(AfterForwarded("n"), FALSE), Forward(<<"n">>)
        PROVE  HintTells'
    BY <1>0, <1>3, <2>2, ForwardedHintTells DEF ResetWord, Forward, Delimiter, Plain
  <2>3. ASSUME word = <<>>, EndWord(AfterSpace, FALSE), Forward(<<" ">>)
        PROVE  HintTells'
    <3>1. Spaced /\ word' = <<>> /\ enabled'
      BY <1>3, <2>3 DEF Spaced, ResetWord, Forward, Delimiter, Plain
    <3> QED  BY <2>3, <3>1, SpaceHint
  <2> QED  BY <1>3, <2>1, <2>2, <2>3 DEF Delimiter
<1>4. CASE Escape
  <2>1. CASE UNCHANGED typed /\ KeepWord
    BY <1>4, <2>1, BeforeKept, KeptHintTells DEF Escape, Composing
  <2>2. CASE lock = Open /\ ResetWord /\ typed' = client
    <3>1. Composing
      BY <2>2 DEF Composing, Open, NoLock
    <3>2. Before = client
      BY <3>1, BeforeWord
    <3>3. Before' = client
      <4>1. word' = <<>> /\ client \in Seq(Glyphs)
        BY <2>2 DEF ResetWord, IInv, Texts
      <4> QED  BY <2>2, <4>1, CutNothing DEF Before
    <3> QED  BY <1>4, <3>1, <3>2, <3>3, KeptHintTells DEF Escape
  <2> QED  BY <1>4, <2>1, <2>2 DEF Escape
<1>5. CASE BackspaceComposing
  <2>1. Composing /\ word # <<>>
    BY <1>5 DEF BackspaceComposing, IInv, Shape, Ownership
  <2>2. Before' = Before
    BY <1>5, <2>1, BeforeKept DEF BackspaceComposing
  <2> QED  BY <1>5, <2>1, <2>2, KeptHintTells DEF BackspaceComposing
<1>6. CASE BackspaceDelivered
  <2>1. CASE word = <<>>
    <3>1. word' = <<>> /\ enabled' /\ Unspaced
      BY <1>6, <2>1 DEF BackspaceDelivered, EraseDelivered, Unspaced
    <3> QED  BY <2>1, <3>1, SpaceHint
  <2>2. CASE word # <<>>
    BY <1>6, <2>2, PlainHintTells DEF BackspaceDelivered
  <2> QED  BY <2>1, <2>2
<1> QED  BY <1>1, <1>2, <1>3, <1>4, <1>5, <1>6

\* A report of the client's text.  A delivered word still open ends it, so
\* no spaces are counted then.
LEMMA ReconcileHint ==
  ASSUME IInv, ReconcileSentenceBoundaryHint
  PROVE  HintTells'
<1>0. /\ hint' = Reconciled(client) /\ enabled' /\ UNCHANGED <<word, lock, typed>>
      /\ client \in Seq(Glyphs) /\ word \in Seq(WordGlyphs) /\ word \in Seq(Glyphs)
  BY WordIsText
  DEF ReconcileSentenceBoundaryHint, KeepModes, KeepWord, IInv, Texts, Shape
<1>1. /\ hint'.kind = "none" => hint' = NoHint
      /\ hint'.kind = "awaiting" => hint'.spaces = 0 /\ Boundary(client, 0, hint'.tail)
      /\ hint'.kind = "start" /\ hint'.spaces > 0
           => Boundary(client, hint'.spaces, hint'.tail) /\ client[Len(client)] = " "
  BY <1>0, ReconciledBoundary
<1>2. Before' = Before
  BY <1>0, BeforeKept
<1>3. Composing \/ word = <<>> => Before = client
  <2>1. ~Composing => typed = client
    BY WholeText DEF IInv
  <2> QED  BY <2>1, BeforeWord
<1>4. ~Composing /\ word # <<>> => client[Len(client)] # " "
  <2> SUFFICES ASSUME ~Composing, word # <<>> PROVE client[Len(client)] # " "
    OBVIOUS
  <2>1. EndsIn(client, word)
    BY DEF IInv, InText, TokenInPlace
  <2>2. PICK v \in Seq(WordGlyphs), g \in WordGlyphs : word = Append(v, g)
    BY <1>0, SequenceEmptyOrAppend
  <2>3. PICK u \in Seq(Glyphs) : client = u \o word
    BY <1>0, <2>1, EndsInMeaning
  <2>4. v \in Seq(Glyphs) /\ g \in Glyphs
    BY WordIsText DEF WordGlyphs, Glyphs
  <2>5. client = Append(u \o v, g)
    <3>1. <<g>> \in Seq(Glyphs) /\ u \o v \in Seq(Glyphs)
      BY <2>4, ConcatProperties
    <3>2. word = v \o <<g>> /\ Append(u \o v, g) = (u \o v) \o <<g>>
      BY <2>2, <2>4, <3>1, AppendIsConcat
    <3> QED  BY <2>3, <2>4, <3>1, <3>2, ConcatAssociative
  <2>6. client[Len(client)] = g
    <3>1. u \o v \in Seq(Glyphs)
      BY <2>4, ConcatProperties
    <3> QED  BY <2>4, <2>5, <3>1, AppendProperties
  <2> QED  BY <2>6 DEF WordGlyphs
<1>5. (Composing \/ word = <<>>)' => Composing \/ word = <<>>
  BY <1>0 DEF Composing
<1>6. hint'.kind = "start" /\ hint'.spaces > 0 => Before = client
  BY <1>1, <1>3, <1>4, Zenon
<1> QED  BY <1>0, <1>1, <1>2, <1>3, <1>5, <1>6, Zenon DEF HintTells

LEMMA HostCallHint ==
  ASSUME IInv, HintTells, IInv', HostCall
  PROVE  HintTells'
<1> USE DEF KeepModes, KeepWord, EndWord
<1>1. CASE \/ AcceptLanguageChoice \/ FlushPreeditForLayout \/ FocusLost
           \/ FocusGained \/ CursorMoved \/ Reset \/ WithdrawSentenceBoundaryHint
  BY <1>1, PlainHintTells
  DEF AcceptLanguageChoice, FlushPreeditForLayout, FocusLost, FocusGained, CursorMoved,
      Reset, WithdrawSentenceBoundaryHint
<1>2. CASE ApplyPredictionOverride \/ SetCompletionDisplay \/ ClearGhost
  BY <1>2, BeforeKept, KeptHintTells
  DEF ApplyPredictionOverride, SetCompletionDisplay, ClearGhost, Composing
<1>3. CASE HandoffForNativeCompletion \/ HandoffForDelivery
  <2>1. /\ UNCHANGED <<word, typed>> /\ hint' = hint /\ enabled' = enabled
        /\ lock' = NoLock
    BY <1>3 DEF HandoffForNativeCompletion, HandoffForDelivery, Handoff
  <2>2. Before' = Before /\ ~Composing'
    BY <2>1, BeforeKept DEF Composing
  <2> QED  BY <2>1, <2>2, KeptHintTells
<1> QED  BY <1>1, <1>2, <1>3, ReconcileHint DEF HostCall

LEMMA NextHint ==
  ASSUME ~TokenEdits, ~DelimiterChords, IInv, hint \in Hints, HintTells, [Next]_vars
  PROVE  HintTells'
<1>1. IInv'
  BY NextInText
<1>2. CASE Next
  BY <1>1, <1>2, PassedKeyHint, ClosingTailHint, TypedKeyHint, EditKeyHint, HostCallHint
  DEF Next, KeyEvent
<1>3. CASE UNCHANGED vars
  BY <1>3 DEF vars, HintTells, Before, Composing
<1> QED  BY <1>2, <1>3

(***************************************************************************)
(* The sentence hint says what stands before the word: the terminator, the *)
(* closing marks and the spaces it counts are there, through every cancel, *)
(* rewrite, handoff and erasure, unless a shortcut edits a delivered open  *)
(* word or is pressed with a delimiter key.                                *)
(***************************************************************************)
THEOREM SpecHintSound ==
  ~TokenEdits /\ ~DelimiterChords => (Spec => []HintSound)
<1> SUFFICES ASSUME ~TokenEdits, ~DelimiterChords PROVE Spec => []HintSound
  OBVIOUS
<1> DEFINE Told == IInv /\ hint \in Hints /\ HintTells
<1>1. Init => Told
  <2>1. Init => hint = NoHint
    BY DEF Init
  <2>2. hint = NoHint => HintTells
    BY HintKinds DEF HintTells
  <2> QED  BY <2>1, <2>2, InitInText, HintForms
<1>2. Told /\ [Next]_vars => Told'
  <2>1. IInv /\ hint \in Hints /\ [Next]_vars => hint' \in Hints
    BY HintStep DEF IInv, vars
  <2> QED  BY <2>1, NextInText, NextHint
<1>3. Told => HintSound
  <2> SUFFICES ASSUME Told PROVE HintSound
    OBVIOUS
  <2>1. Before = IF Composing THEN client ELSE Cut(client, Len(word))
    BY BeforeWord
  <2>2. ~Composing /\ Before = client => word = <<>>
    <3> SUFFICES ASSUME ~Composing, Before = client PROVE word = <<>>
      OBVIOUS
    <3>1. /\ client = client \o word /\ word \in Seq(Glyphs) /\ client \in Seq(Glyphs)
      BY BeforeWord, WholeText, WordIsText DEF IInv, Shape, Texts
    <3>2. Len(client) = Len(client) + Len(word) /\ Len(client) \in Nat /\ Len(word) \in Nat
      BY <3>1, ConcatProperties, LenProperties
    <3> QED  BY <3>1, <3>2, EmptySeq
  <2> QED  BY <2>1, <2>2, Zenon DEF HintSound, HintTells
<1> QED  BY <1>1, <1>2, <1>3, PTL DEF Spec
=============================================================================
