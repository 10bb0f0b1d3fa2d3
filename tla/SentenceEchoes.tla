---------------------------- MODULE SentenceEchoes ----------------------------
(***************************************************************************)
(* SentenceEchoes: how the master loop keeps its idea of the client's text *)
(* (is the caret at the start of a sentence?) while the client's reports   *)
(* of that text arrive late.                                               *)
(*                                                                         *)
(* The loop projects what it delivers onto the text it last knew: a queue  *)
(* of images, one per state the client passes through.  A report that      *)
(* matches an image is an echo and only acknowledges it; any other report  *)
(* is the client's own edit, and the queue is bound to it afresh.  What a  *)
(* Return or a Tab does to the text is unknown, so nothing is projected    *)
(* past it until a report shows it.                                        *)
(*                                                                         *)
(* Text is what stands before the caret, one of Chars per character: what  *)
(* follows the caret is in every image alike.  The hint is the core's      *)
(* (InputCore) without closing quotes; the reports are an ordered queue,   *)
(* as IBus delivers them, and the last one is what its getter repeats.     *)
(***************************************************************************)
EXTENDS Naturals, Sequences, FiniteSets, SequencesExt

CONSTANTS
  MaxEchoes,     \* MAX_SENTENCE_ECHOES
  MaxInserted,   \* MAX_SENTENCE_ECHO_BYTES, one per character
  MaxLetters,    \* longest word; bounds the model
  MaxText,       \* longest text of the client; bounds the model
  MaxReports     \* longest queue of reports; bounds the model

ASSUME CapsAssumption ==
  MaxEchoes \in Nat \ {0} /\ {MaxInserted, MaxLetters, MaxText, MaxReports} \subseteq Nat

(* Operators named Slip... are wrong variants of the definition after them. *)

VARIABLES
  wordLen,     \* the letters of the word being typed
  composing,   \* they are preedit, not in the client's text
  hint,        \* sentence_boundary of the core
  echoes,      \* sentence_echoes: none, or one [base, images, opaque]
  surrounding, \* the text last reported: none, or one
  client,      \* the client's text
  reports,     \* texts reported and not yet received
  astray,      \* the images are bound to a text the client has left (history)
  ahead        \* a report matched two images alike, and reports are still to
               \* come (history)

echoVars == <<wordLen, composing, hint, echoes, surrounding, client, reports, astray, ahead>>

\* A letter, a space, a line break, a tab, a full stop.
Chars == {"x", "s", "n", "t", "."}
Whitespace == {"s", "n", "t"}

NoHint == [kind |-> "none", spaces |-> 0, tail |-> 0]
Start(s, t) == [kind |-> "start", spaces |-> s, tail |-> t]
Awaiting(t) == [kind |-> "awaiting", spaces |-> 0, tail |-> t]

InitEchoes ==
  /\ wordLen = 0 /\ composing = FALSE /\ hint = NoHint
  /\ echoes = {} /\ surrounding = {}
  /\ client \in {<<>>, <<".">>}
  /\ reports = <<client>> /\ astray = FALSE /\ ahead = FALSE

-----------------------------------------------------------------------------
(* Texts.                                                                  *)

Shortened(t, n) == SubSeq(t, 1, Len(t) - n)
Letters(n) == [i \in 1..n |-> "x"]
Blank(t) == \A i \in DOMAIN t : t[i] \in Whitespace
Spaces(t) == \A i \in DOMAIN t : t[i] = "s"

\* Where the trailing whitespace of a text starts.
Trimmed(t) == CHOOSE n \in 0..Len(t) :
  /\ Blank(SubSeq(t, n + 1, Len(t)))
  /\ n > 0 => t[n] \notin Whitespace

\* The repeated full stops in front of position n, less the first.
Stops(t, n) == CHOOSE m \in 0..(n - 1) :
  /\ \A i \in (n - m)..n : t[i] = "."
  /\ n - m > 1 => t[n - m - 1] # "."

\* reconcile_sentence_boundary_hint: what the text before the caret calls for.
HintOf(t) ==
  LET n == Trimmed(t) space == SubSeq(t, n + 1, Len(t)) IN
  IF n = 0 \/ Contains(space, "n") THEN Start(0, 0)
  ELSE IF t[n] # "." THEN NoHint
  ELSE IF space = <<>> THEN Awaiting(Stops(t, n))
  ELSE Start(IF Spaces(space) THEN Len(space) ELSE 0, Stops(t, n))

-----------------------------------------------------------------------------
(* The images (SentenceEchoes in the source).                              *)

\* An image keeps `left` characters of the base and adds what was inserted.
TextOf(e, image) == SubSeq(e.base, 1, image.left) \o image.inserted
LastText(e) == TextOf(e, Last(e.images))

\* SentenceEchoes::new
Bound(t) ==
  [base |-> t, opaque |-> "none", images |-> <<[left |-> Len(t), inserted |-> <<>>]>>]

\* The characters all images add.
Inserted(images) ==
  Cardinality(UNION {{i} \X DOMAIN images[i].inserted : i \in DOMAIN images})

Full(e, image) ==
  Len(e.images) >= MaxEchoes \/ Inserted(e.images) + Len(image.inserted) > MaxInserted

SlipUncappedPush(e, image) ==
  IF Last(e.images) = image THEN {e} ELSE {[e EXCEPT !.images = Append(@, image)]}

SlipPush(e, image) ==
  IF Last(e.images) = image \/ Full(e, image) THEN {e}
  ELSE {[e EXCEPT !.images = Append(@, image)]}
\* push: at the cap the projection is given up, never truncated.
Push(e, image) ==
  IF Last(e.images) = image THEN {e}
  ELSE IF Full(e, image) THEN {}
  ELSE {[e EXCEPT !.images = Append(@, image)]}

\* An image with n characters less.
Cut(image, n) ==
  IF n <= Len(image.inserted) THEN [image EXCEPT !.inserted = Shortened(@, n)]
  ELSE [left |-> image.left - (n - Len(image.inserted)), inserted |-> <<>>]

\* An edit as the client sees it.
Del(n, t) == [delete |-> n, insert |-> t]
Ins(t)    == Del(0, t)
Nothing   == Del(0, <<>>)

\* edit: a replacement shows the deletion before the insertion.  The result
\* is a set: empty if the projection is lost.
Edit(e, n, t) ==
  LET last == Last(e.images) IN
  IF e.opaque # "none" \/ Len(t) > MaxInserted \/ n > last.left + Len(last.inserted) THEN {}
  ELSE LET cut == Cut(last, n) IN
       UNION {Push(shown, [cut EXCEPT !.inserted = @ \o t])
              : shown \in IF n > 0 THEN Push(e, cut) ELSE {e}}

\* The two edits of a batch of actions, in their order.
Edited(e, d) == IF d = Nothing THEN {e} ELSE Edit(e, d.delete, d.insert)
EditAll(e, edits) == UNION {Edited(f, edits[2]) : f \in Edited(e, edits[1])}

SlipAcknowledge(e, t) == IF LastText(e) = t THEN {Bound(t)} ELSE {}
\* acknowledge: the newest image the report is an echo of, with those after
\* it; or the outcome of the opaque key, which must have added whitespace.
Acknowledge(e, t) ==
  LET matching == {i \in DOMAIN e.images : TextOf(e, e.images[i]) = t} IN
  IF matching # {}
  THEN LET newest == CHOOSE i \in matching : \A j \in matching : j <= i
       IN  {[e EXCEPT !.images = SubSeq(@, newest, Len(@))]}
  ELSE IF e.opaque # "none" /\ IsPrefix(LastText(e), t)
          /\ LET gap == SubSeq(t, Len(LastText(e)) + 1, Len(t))
             IN  Blank(gap) /\ (e.opaque = "return" => Contains(gap, "n"))
  THEN {Bound(t)}
  ELSE {}

-----------------------------------------------------------------------------
(* Keys, by what the core does with them: the edits it delivers, at most   *)
(* two, a forwarded key last; the word and the hint afterwards.            *)

\* The preedit, delivered as it is.
Preedit == IF composing THEN Ins(Letters(wordLen)) ELSE Nothing
\* Autocorrection replaces a word that was delivered.
Rewrites == IF wordLen > 0 /\ ~composing THEN {Del(wordLen, Letters(wordLen))} ELSE {}

\* A delimiter c commits the word.
Delimits(c, h) == {[edits |-> <<w, Ins(c)>>, wordLen |-> 0, composing |-> FALSE, hint |-> h]
                   : w \in {Preedit} \cup Rewrites}
Letter(edit, preedit) ==
  [edits |-> <<edit, Nothing>>, wordLen |-> wordLen + 1, composing |-> preedit,
   hint |-> IF hint.kind = "awaiting" THEN NoHint ELSE hint]
Erased(edit, h) ==
  [edits |-> <<Nothing, edit>>, wordLen |-> IF wordLen > 0 THEN wordLen - 1 ELSE 0,
   composing |-> composing /\ wordLen > 1, hint |-> h]

Deeds(k) ==
  CASE k = "x" /\ wordLen < MaxLetters ->
         (IF wordLen = 0 \/ composing THEN {Letter(Nothing, TRUE)} ELSE {})
         \cup (IF ~composing
               THEN {Letter(Ins(<<"x">>), FALSE),
                     Letter(Del(wordLen, Letters(wordLen + 1)), FALSE)} ELSE {})
    [] k = "." ->
         Delimits(<<".">>, IF wordLen = 0 /\ hint.kind = "awaiting"
                           THEN Awaiting(hint.tail + 1) ELSE Awaiting(0))
    [] k = "s" ->
         Delimits(<<"s">>, IF wordLen > 0 THEN NoHint
                           ELSE IF hint.kind = "awaiting" THEN Start(1, hint.tail)
                           ELSE IF hint.spaces > 0 THEN Start(hint.spaces + 1, hint.tail)
                           ELSE hint)
    [] k = "return" -> Delimits(<<>>, Start(0, 0))
    [] k = "tab"    ->
         Delimits(<<>>, IF wordLen > 0 \/ hint = NoHint THEN NoHint ELSE Start(0, 0))
    [] k = "backspace" /\ composing -> {Erased(Nothing, hint)}
    [] k = "backspace" /\ ~composing ->
         {Erased(Del(1, <<>>),
                 IF wordLen > 0 THEN NoHint
                 ELSE IF hint.kind = "start" /\ hint.spaces > 1
                 THEN Start(hint.spaces - 1, hint.tail)
                 ELSE IF hint.kind = "start" /\ hint.spaces = 1 THEN Awaiting(hint.tail)
                 ELSE IF hint.kind = "awaiting" /\ hint.tail > 0 THEN Awaiting(hint.tail - 1)
                 ELSE NoHint)}
    [] OTHER -> {}

Strokes == {"x", ".", "s", "return", "tab", "backspace"}

\* What an edit makes of a text: one text per change the client sees.
Applied(t, edit) ==
  LET cut == Shortened(t, IF edit.delete < Len(t) THEN edit.delete ELSE Len(t))
  IN  (IF edit.delete > 0 THEN <<cut>> ELSE <<>>) \o
      (IF edit.insert # <<>> THEN <<cut \o edit.insert>> ELSE <<>>)

After(t, texts) == IF texts = <<>> THEN t ELSE Last(texts)
AppliedAll(t, edits) ==
  LET first == Applied(t, edits[1]) IN first \o Applied(After(t, first), edits[2])

\* What a Return or a Tab may do: break the line, send it, or nothing.
Outcomes(k, t) ==
  CASE k = "return" -> {<<>>, <<Append(t, "n")>>, <<(<<>>)>>}
    [] k = "tab"    -> {<<>>, <<Append(t, "t")>>}
    [] OTHER        -> {<<>>}

-----------------------------------------------------------------------------
(* record_sentence_delivery                                                *)

\* record: the edits, then the opaque key; Space is lost in what is opaque.
Record(e, k, deed) ==
  IF k = "s" /\ e.opaque # "none" /\ deed.edits[1] = Nothing THEN {e}
  ELSE {[f EXCEPT !.opaque = IF k = "return" \/ (k = "tab" /\ @ = "none") THEN k ELSE @]
        : f \in EditAll(e, deed.edits)}

\* has_known_linebreak_or_blank_prefix
KnownBlank(e) ==
  /\ e.opaque = "none"
  /\ LET t == LastText(e) space == SubSeq(t, Trimmed(t) + 1, Len(t))
     IN  Contains(space, "n") \/ (Trimmed(t) = 0 /\ Spaces(space))

\* before_cursor: a text put together of base and insertion has a cap.
Readable(e) ==
  LET image == Last(e.images) IN
  0 \in {image.left, Len(image.inserted)} \/ image.left + Len(image.inserted) <= MaxInserted

EndsWord(k, deed) == wordLen > 0 /\ k \in {".", "s", "return", "tab"}

\* A forwarded BackSpace in known whitespace: the image decides the hint.
BlankErased(k) == k = "backspace" /\ wordLen = 0 /\ \E e \in echoes : KnownBlank(e)

Delivered(k, deed) ==
  IF BlankErased(k)
  THEN LET kept == {e \in UNION {Record(f, k, deed) : f \in echoes} :
                      Readable(e) /\ HintOf(LastText(e)) # NoHint}
       IN  /\ echoes' = kept
           /\ hint' = IF kept = {} THEN NoHint ELSE HintOf(LastText(CHOOSE e \in kept : TRUE))
  ELSE IF deed.hint = NoHint
          /\ (EndsWord(k, deed) \/ (k = "backspace" /\ ~composing))
  THEN echoes' = {} /\ hint' = deed.hint
  ELSE LET held == IF echoes = {} /\ hint = NoHint /\ deed.hint # NoHint
                   THEN {Bound(t) : t \in surrounding} ELSE echoes
           recorded == UNION {Record(e, k, deed) : e \in held}
       IN  /\ echoes' = recorded
           /\ hint' = IF held # {} /\ recorded = {} THEN NoHint ELSE deed.hint

\* These are the client's text, with no report on the way of another.
Current(texts, pending) == texts = {client} /\ pending = <<>>

\* handle_key, for the keys that reach record_sentence_delivery.  The client
\* reports every state it passes through, or only where it ends up.
Press(k) ==
  \E deed \in Deeds(k) :
    /\ wordLen' = deed.wordLen /\ composing' = deed.composing
    /\ Delivered(k, deed)
    /\ \E texts \in {AppliedAll(client, deed.edits)} :
       \E outcome \in Outcomes(k, After(client, texts)) :
         LET passed == texts \o outcome IN
         /\ client' = After(client, passed)
         /\ reports' \in {reports \o passed}
                         \cup (IF passed = <<>> THEN {} ELSE {Append(reports, client')})
    /\ astray' = (echoes' # {}
                  /\ IF echoes = {} THEN ~Current(surrounding, reports) ELSE astray)
    /\ ahead' = (ahead /\ echoes' # {})
    /\ UNCHANGED surrounding

\* A chord, a reset, a change of focus or of layout, the choice of a reading:
\* the projection ends with the hint; the preedit stays, goes, or is delivered.
Withdraw ==
  /\ echoes' = {} /\ hint' = NoHint
  /\ \/ UNCHANGED <<wordLen, composing, client, reports>>
     \/ /\ wordLen' = 0 /\ composing' = FALSE
        /\ \/ UNCHANGED <<client, reports>>
           \/ /\ composing
              /\ client' = client \o Letters(wordLen) /\ reports' = Append(reports, client')
  /\ astray' = FALSE /\ ahead' = FALSE
  /\ UNCHANGED surrounding

-----------------------------------------------------------------------------
(* set_surrounding_text                                                    *)

SlipReconcile(t, pending) == UNCHANGED <<echoes, hint, astray>>
\* reconcile_sentence_report
Reconcile(t, pending) ==
  IF echoes = {} THEN hint' = NoHint /\ UNCHANGED <<echoes, astray>>
  ELSE LET known == UNION {Acknowledge(e, t) : e \in echoes} IN
       IF known # {}
       THEN /\ echoes' = known
            /\ astray' = IF \E e \in echoes, f \in known : e.opaque # f.opaque
                         THEN ~Current({t}, pending) ELSE astray
            /\ UNCHANGED hint
       ELSE /\ echoes' = {Bound(t)} /\ hint' = HintOf(t)
            /\ astray' = ~Current({t}, pending)

\* The report fits two images.
Alike(t) == \E e \in echoes : \E i, j \in DOMAIN e.images :
  i # j /\ TextOf(e, e.images[i]) = t /\ TextOf(e, e.images[j]) = t

\* The next report comes in.
Report ==
  /\ reports # <<>>
  /\ surrounding' = {Head(reports)} /\ reports' = Tail(reports)
  /\ Reconcile(Head(reports), Tail(reports))
  /\ ahead' = (Tail(reports) # <<>> /\ (ahead \/ Alike(Head(reports))))
  /\ UNCHANGED <<wordLen, composing, client>>

\* At a key press the adapter reads the report it has once more.
Repeat ==
  /\ \E t \in surrounding :
       /\ Reconcile(t, reports)
       /\ ahead' = (reports # <<>> /\ (ahead \/ Alike(t)))
  /\ UNCHANGED <<wordLen, composing, surrounding, client, reports>>

\* The adapter drops the text it knows.
Unknown ==
  /\ surrounding' = {}
  /\ UNCHANGED <<wordLen, composing, hint, echoes, client, reports, astray, ahead>>

\* The client's own edits: it deletes, or moves the caret into other text.
ClientEdits ==
  /\ client' \in {Shortened(client, IF client = <<>> THEN 0 ELSE 1), <<"x", "s">>} \ {client}
  /\ reports' = Append(reports, client')
  /\ astray' = (echoes # {})
  /\ UNCHANGED <<wordLen, composing, hint, echoes, surrounding, ahead>>

Bounded == Len(client') <= MaxText /\ Len(reports') <= MaxReports

NextEchoes ==
  /\ \/ \E k \in Strokes : Press(k)
     \/ Withdraw \/ Report \/ Repeat \/ Unknown \/ ClientEdits
  /\ Bounded

SpecEchoes == InitEchoes /\ [][NextEchoes]_echoVars

-----------------------------------------------------------------------------
(* Properties.                                                             *)

\* The images stay within the two caps and within their base.
WithinCaps ==
  /\ wordLen \in 0..MaxLetters /\ composing \in BOOLEAN /\ (composing => wordLen > 0)
  /\ hint.kind \in {"none", "awaiting", "start"} /\ {hint.spaces, hint.tail} \subseteq Nat
  /\ client \in Seq(Chars) /\ reports \in Seq(Seq(Chars)) /\ {astray, ahead} \subseteq BOOLEAN
  /\ surrounding \subseteq Seq(Chars)
  /\ \A e \in echoes :
       /\ e.opaque \in {"none", "return", "tab"}
       /\ Len(e.images) \in 1..MaxEchoes /\ Inserted(e.images) <= MaxInserted
       /\ \A i \in DOMAIN e.images : e.images[i].left <= Len(e.base)

\* As long as the images are bound to the text the client really had, the
\* last of them is the client's text, whatever reports are still to come.
TailIsClient ==
  \A e \in echoes : ~astray /\ e.opaque = "none" => LastText(e) = client

\* Once the reports are in, the projection is the client's text again even
\* after edits of its own, and a sentence start hinted at is one.
SettledAgrees ==
  \A e \in echoes : reports = <<>> /\ e.opaque = "none" =>
    /\ LastText(e) = client
    /\ hint.kind = "start" /\ (wordLen = 0 \/ composing) => HintOf(client).kind = "start"

\* A bound projection leaves the client's text only by an edit of the client's
\* own: reports of what was delivered are echoes, however late.
BoundByOwnReports ==
  (\E e \in echoes : e.opaque = "none") /\ echoes' # {} /\ ~astray /\ astray'
  => client' # client

\* ... as long as no report fits two images: it is taken for the newer one, and
\* the echoes of those between are then taken for edits of the client's.
LateReportsAreEchoes == [][~ahead => BoundByOwnReports]_echoVars
=============================================================================
