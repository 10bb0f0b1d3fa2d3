--------------------------- MODULE NativeCompletion ---------------------------
(***************************************************************************)
(* A word the client completes (Ctrl+Space): the IBus adapter delivers the *)
(* prefix typed so far and the core keeps the word open as the client's    *)
(* (native_completion_owned).  Only the client's reports of its text tell  *)
(* whether the word is still there.  Before every press the adapter        *)
(* compares the report in hand with the word and retires the word if they  *)
(* differ, but only after a report that is newer than what was delivered   *)
(* last: _native_report_barrier.                                           *)
(*                                                                         *)
(* A report is a snapshot the client takes at some time and the engine     *)
(* receives later, in order; IBus repeats the last one on request.  Text   *)
(* is the run of word characters before the caret, "x" a letter and "_" a  *)
(* delimiter that belongs to identifiers.                                  *)
(***************************************************************************)
EXTENDS Naturals, Sequences, SequencesExt

CONSTANTS
  Places,    \* where the client may move: the run before the caret, and the caret
  MaxWord,   \* letters of a word; this and the next two bound the model
  MaxRun,    \* characters of a run
  MaxSent    \* reports under way

Carets == {"free", "selection", "inside"}      \* collapsed, not, before a letter

ASSUME BoundsAssumption ==
  /\ {MaxWord, MaxRun, MaxSent} \subseteq Nat \ {0}
  /\ Places \subseteq [run : Seq({"x", "_"}), caret : Carets]

(* Operators named Slip... are wrong variants of the definition after them. *)

VARIABLES
  open,     \* "none", "preedit", "delivered" by this adapter, or the client's: "native"
  word,     \* the letters of the open word
  prefix,   \* native_completion_prefix, empty for None
  wait,     \* _native_report_barrier: "none", "waiting" for a report, or "passed"
  cache,    \* the report IBus repeats: a set of at most one
  known,    \* adapter and core hold it as _surrounding_text
  client,   \* the client: its run before the caret, and the caret
  sent,     \* reports under way
  shows,    \* the client's reports include the preedit; does not change
  astray,   \* the client left the word by itself, or did not have it where
            \* the adapter could see it (history)
  late,     \* a report under way was overtaken by a delivery (history)
  verdict   \* of the last press on a native word: "unchecked", "kept",
            \* "retired"; "none" after any other step (history)

vars == <<open, word, prefix, wait, cache, known, client, sent, shows, astray, late, verdict>>

Letters(n) == [i \in 1..n |-> "x"]
Shortened(t, n) == SubSeq(t, 1, Len(t) - n)
EndsIn(t, w) == w <= Len(t) /\ SubSeq(t, Len(t) - w + 1, Len(t)) = Letters(w)

\* What the client would report now.
Report ==
  [client EXCEPT !.run = @ \o IF shows /\ open = "preedit" THEN Letters(word) ELSE <<>>]

Init ==
  /\ open = "none" /\ word = 0 /\ prefix = <<>>
  /\ wait = "none" /\ cache = {} /\ known = FALSE
  /\ client = [run |-> <<>>, caret |-> "free"] /\ sent = <<>> /\ shows \in BOOLEAN
  /\ astray = FALSE /\ late = FALSE /\ verdict = "none"

-----------------------------------------------------------------------------
(* The check before a press.                                               *)

\* _refresh_surrounding_text: the cached report, unless a barrier is up.
Refreshed == IF wait = "none" THEN cache # {} ELSE known
Seen == IF Refreshed THEN cache ELSE {}

\* _waiting_for_native_report
WaitingForNativeReport == wait = "waiting"

\* reconcile_native_completion_word: the caret is collapsed, directly behind
\* the prefix and the word, and no letter follows.
Describes(r) == r.caret = "free" /\ r.run = prefix \o Letters(word)

Checked == open = "native" /\ ~WaitingForNativeReport
Retired == Checked /\ ~\E r \in Seen : Describes(r)

\* The word a key finds after the check.
Held == [open |-> open, word |-> word]
Found == IF Retired THEN [open |-> "none", word |-> 0] ELSE Held

-----------------------------------------------------------------------------
(* Keys.                                                                   *)

\* A key that leaves the word so and the client's text and caret so.
Leaves(o, w, run, caret) == [open |-> IF w = 0 THEN "none" ELSE o, word |-> w,
                             client |-> [run |-> run, caret |-> caret]]
InClient(f) == f.open \in {"native", "delivered"}
Flushed(f) == client.run \o IF f.open = "preedit" THEN Letters(f.word) ELSE <<>>
AfterDelivery(f) == IF Flushed(f) # client.run THEN "free" ELSE client.caret
Typed(caret) == IF caret = "selection" THEN "free" ELSE caret

Key(k, f) ==
  CASE k = "letter" ->
         IF InClient(f)
         THEN {Leaves(f.open, f.word + 1, Append(client.run, "x"), Typed(client.caret))}
         ELSE {Leaves("preedit", f.word + 1, client.run, client.caret)}
    [] k = "backspace" /\ f.open = "preedit" ->
         {Leaves("preedit", f.word - 1, client.run, client.caret)}
    [] k = "backspace" /\ f.open # "preedit" ->
         {Leaves(f.open, IF f.word = 0 THEN 0 ELSE f.word - 1,
                 IF client.caret = "selection" \/ client.run = <<>> THEN client.run
                 ELSE Front(client.run), Typed(client.caret))}
    [] k = "space"      -> {Leaves("none", 0, <<>>, Typed(client.caret))}
    [] k = "underscore" -> {Leaves("none", 0, Append(Flushed(f), "_"), Typed(client.caret))}
    [] k = "escape" -> IF f.open = "native"
                       THEN {Leaves("delivered", f.word, client.run, client.caret)}
                       ELSE {Leaves("none", 0, client.run, client.caret),
                             Leaves(f.open, f.word, client.run, client.caret)}
    [] k = "popup" /\ f.open = "native" ->        \* Up, Down: the client's popup
         {Leaves(f.open, f.word, client.run, client.caret)}
    [] OTHER ->                                   \* navigation ends the word
         {Leaves("none", 0, Flushed(f), IF f.open = "preedit" THEN Typed(client.caret)
                                        ELSE client.caret)}

Keys == {"letter", "backspace", "space", "underscore", "escape", "popup"}

SlipPrepareNativeDelivery(f, a) ==
  IF a.open # "native" THEN "none" ELSE IF Retired THEN "none" ELSE wait
\* _prepare_native_delivery, before the key is carried out.
PrepareNativeDelivery(f, a) ==
  IF a.open # "native" THEN "none"
  ELSE IF f.open = "native" /\ a.word # f.word THEN "waiting"
  ELSE IF Retired THEN "none" ELSE wait

Judged ==
  verdict' = IF open # "native" THEN "none"
             ELSE IF ~Checked THEN "unchecked" ELSE IF Retired THEN "retired" ELSE "kept"

\* do_process_key_event
Press(k) ==
  \E a \in Key(k, Found) :
    /\ open' = a.open /\ word' = a.word /\ client' = a.client
    /\ prefix' = IF a.open = "native" THEN prefix ELSE <<>>
    /\ wait' = PrepareNativeDelivery(Found, a)
    /\ known' = Refreshed
    /\ astray' = (a.open = "native" /\ astray)
    /\ late' = (a.open = "native" /\ (late \/ (sent # <<>> /\ a.word # Found.word)))
    /\ Judged
    /\ UNCHANGED <<cache, sent, shows>>

SlipObservedPrefix(r, f) ==
  LET start == Len(r.run) IN
  IF r.caret = "selection" \/ start = 0 \/ r.run[start] # "_" THEN <<>>
  ELSE SubSeq(r.run, 1, start)
\* observed_native_identifier_prefix: the identifier in front of the word, if
\* the report shows the word, or leaves the preedit out.
ObservedPrefix(r, f) ==
  LET start == IF EndsIn(r.run, f.word) THEN Len(r.run) - f.word ELSE Len(r.run)
  IN  IF \/ r.caret = "selection" \/ start = 0 \/ r.run[start] # "_"
         \/ ~EndsIn(r.run, f.word) /\ f.open # "preedit"
      THEN <<>> ELSE SubSeq(r.run, 1, start)

\* The word starts a run or follows a delimiter, and nothing follows it.
Anchored(f) ==
  LET at == Len(client.run) - IF f.open = "delivered" THEN f.word ELSE 0 IN
  /\ client.caret = "free"
  /\ f.open = "delivered" => EndsIn(client.run, f.word)
  /\ at > 0 => client.run[at] = "_"

\* Ctrl+Space.  The client may report inside the call that delivers the word.
Handoff ==
  /\ IF Found.open = "native"
     THEN UNCHANGED <<open, word, prefix, wait, cache, known, client, sent, astray, late>>
     ELSE LET given == Found.word > 0 IN
       /\ open' = IF given THEN "native" ELSE "none"
       /\ word' = Found.word
       /\ prefix' = IF given /\ Seen # {}
                    THEN ObservedPrefix(CHOOSE r \in Seen : TRUE, Found) ELSE <<>>
       /\ client' = [run |-> Flushed(Found), caret |-> AfterDelivery(Found)]
       /\ astray' = (given /\ ~(Anchored(Found) /\ Seen = {Report}))
       /\ \/ /\ wait' = IF given THEN "waiting" ELSE "none"
             /\ known' = FALSE                   \* _sync_surrounding_text(None, None)
             /\ late' = (given /\ sent # <<>>)
             /\ UNCHANGED <<cache, sent>>
          \/ /\ Found.open = "preedit"
             /\ wait' = "passed" /\ known' = TRUE
             /\ cache' = {client'} /\ sent' = <<>> /\ late' = FALSE
  /\ Judged
  /\ UNCHANGED shows

-----------------------------------------------------------------------------
(* Reports, the client, and the end of the word from outside.              *)

SlipReceive ==
  /\ sent # <<>>
  /\ cache' = {Head(sent)} /\ known' = TRUE /\ sent' = Tail(sent)
  /\ verdict' = "none"
  /\ UNCHANGED <<open, word, prefix, wait, client, shows, astray, late>>
\* do_set_surrounding_text: a newer report lets the barrier pass.
Receive ==
  /\ sent # <<>>
  /\ cache' = {Head(sent)} /\ known' = TRUE /\ sent' = Tail(sent)
  /\ wait' = IF wait = "none" THEN "none" ELSE "passed"
  /\ verdict' = "none"
  /\ UNCHANGED <<open, word, prefix, client, shows, astray, late>>

\* The client reports, on a change or because a press has asked.
ClientReports ==
  /\ sent' = Append(sent, Report) /\ Len(sent) < MaxSent
  /\ verdict' = "none"
  /\ UNCHANGED <<open, word, prefix, wait, cache, known, client, shows, astray, late>>

\* The client inserts a candidate, pastes, deletes, or moves its caret.
ClientEdits ==
  /\ client' \in Places \cup {[client EXCEPT !.run = Append(@, "x")]}
  /\ client' # client
  /\ astray' = (open = "native")
  /\ verdict' = "none"
  /\ UNCHANGED <<open, word, prefix, wait, cache, known, sent, shows, late>>

Dropped ==
  /\ open' = "none" /\ word' = 0 /\ prefix' = <<>> /\ wait' = "none"
  /\ astray' = FALSE /\ late' = FALSE /\ verdict' = "none"
  /\ UNCHANGED <<cache, sent, shows>>

\* do_reset and do_disable cancel the preedit; do_focus_out and a layout
\* switched by hand deliver it.
Cancel == Dropped /\ known' = FALSE /\ UNCHANGED client
Leave ==
  /\ Dropped /\ known' = FALSE
  /\ client' = [run |-> Flushed(Held), caret |-> AfterDelivery(Held)]

\* do_focus_in: a native word ends, any other goes on.
FocusIn ==
  /\ IF open = "native" THEN Dropped
     ELSE wait' = "none" /\ verdict' = "none"
          /\ UNCHANGED <<open, word, prefix, cache, sent, shows, astray, late>>
  /\ known' = (cache # {}) /\ UNCHANGED client

\* The bounds; a delimiter only begins a run.
Bounded ==
  /\ word' <= MaxWord /\ Len(client'.run) <= MaxRun
  /\ \A i \in DOMAIN client'.run : client'.run[i] = "_" => i = 1

Next ==
  /\ \/ \E k \in Keys : Press(k)
     \/ Handoff \/ Receive \/ ClientReports \/ ClientEdits \/ Cancel \/ Leave \/ FocusIn
  /\ Bounded

\* The client answers requests for its text, and D-Bus delivers the answers.
Fairness == WF_vars(ClientReports) /\ WF_vars(Receive)

Spec == Init /\ [][Next]_vars /\ Fairness

-----------------------------------------------------------------------------
(* Properties.                                                             *)

InPlace == client.caret = "free" /\ client.run = prefix \o Letters(word)

\* As long as the client keeps its hands off, the word the adapter believes
\* the client to have, with the identifier in front, is the client's text.
OwnedIsInPlace == open = "native" /\ ~astray => InPlace

\* A press retires a word only if the client has left it: neither an old
\* report nor the echo of a delivery does, if no report was overtaken.
RetiredOnlyIfLeft == [][verdict' = "retired" => astray \/ late]_vars

\* A word the client has left for good does not stay with the client for
\* ever: as presses go on and reports come in between, one of them retires it.
LeftIsRetired ==
  []<>(verdict # "none") => ~<>[](open = "native" /\ ~InPlace /\ ~late)
=============================================================================
