----------------------------- MODULE ContentType -----------------------------
(***************************************************************************)
(* The content-type stop of the IBus adapter (smartkey_engine.py): while   *)
(* it is armed no key reaches the core.                                    *)
(*                                                                         *)
(* A client context has a declared content type.  The daemon tells the     *)
(* engine of it only when it differs from what it last told, after FocusIn *)
(* and before any key of the field, on one ordered connection.  A context  *)
(* starts as Free and may never declare.                                   *)
(*                                                                         *)
(* The fault is a core that refuses a reset (any exception).  The adapter  *)
(* catches it on a content-type switch, where the stop stays armed and its *)
(* release is owed, and at the end of a direct word; in a cancel it leaves *)
(* the callback.  An interrupt leaves a switch half way.                   *)
(*                                                                         *)
(* Daemon and clients are external: modelled from what the comments of     *)
(* do_set_content_type and do_focus_out state of them.                     *)
(***************************************************************************)
EXTENDS Naturals, Sequences

CONSTANTS
  Fields,     \* the client contexts
  Declared,   \* the content types clients declare
  Free,       \* FREE_FORM without hints: what a context starts with
  Stops,      \* SMARTKEY_SENSITIVE_UNTIL_DECLARED: the initial values of the stop
  Modes,      \* the delivery modes: _direct_delivery, chosen once
  MaxQueue    \* messages in flight; bounds the model

Purposes == {"text", "url", "password", "odd"}    \* "odd": not audited
Hints    == {"plain", "spell", "private", "odd"}
ContentTypes == [purpose : Purposes, hints : Hints]

ASSUME TypesAssumption ==
  /\ Declared \subseteq ContentTypes
  /\ Free = [purpose |-> "text", hints |-> "plain"]
  /\ Free \in Declared
ASSUME ChoicesAssumption ==
  /\ Stops \subseteq BOOLEAN
  /\ Modes \subseteq {"preedit", "direct"}
  /\ MaxQueue \in Nat

(* Operators named Slip... are wrong variants of the definition after them. *)

VARIABLES
  type,       \* the content type of each client context
  focus,      \* the contexts in focus: one or none
  queue,      \* messages on their way to the engine
  sent,       \* what the daemon last told: it tells only what differs
  told,       \* the declaration the engine handled last (history)
  keys,       \* _content_type_key as a set: empty until the first declaration
  sensitive,  \* _sensitive: the stop
  ordinary,   \* _declared_ordinary
  counted,    \* _keys_since_content_type is not 0
  preedit,    \* _preedit_active
  mode,       \* _direct_delivery
  held,       \* _direct_refocus_source: the word waits for a refocus
  word,       \* the keys of the word the core holds: where each was typed and
              \* the decision keys in force when it was read (history)
  kept        \* a reset outside a switch was refused (history)

client == <<type, focus, sent>>
stop   == <<told, keys, sensitive, ordinary>>
core   == <<word, kept>>
engine == <<stop, counted, preedit, mode, held, core>>
vars   == <<client, queue, engine>>

-----------------------------------------------------------------------------
(* _content_type_decision.                                                 *)

Audited(raw) == raw.purpose # "odd" /\ raw.hints # "odd"

\* Whatever is not positively known to be ordinary is sensitive.
Secret(raw) ==
  ~Audited(raw) \/ raw.purpose = "password" \/ raw.hints = "private"

\* Hints the adapter does not act on are projected away.
DecisionKey(raw) ==
  [purpose |-> raw.purpose, hints |-> IF raw.hints = "spell" THEN "plain" ELSE raw.hints]

Remembered(raw) == {DecisionKey(raw)}

Owed == sensitive /\ ordinary

SlipInFlight == preedit
\* _composition_in_flight
InFlight == preedit \/ counted

-----------------------------------------------------------------------------
(* Clients and the daemon.                                                 *)

Note(kind)   == [kind |-> kind]       \* "focus_in", "focus_out", "reset", "disable"
Type(raw)    == [kind |-> "type", raw |-> raw]
Key(k, raw)  == [kind |-> k, raw |-> raw]
Presses      == {"letter", "boundary"}

\* The daemon forwards msg, then the type of the focused context if it is news.
Tell(msg, raw) ==
  /\ Len(queue) < MaxQueue
  /\ queue' = queue \o msg \o (IF raw = sent THEN <<>> ELSE <<Type(raw)>>)
  /\ sent' = raw
  /\ UNCHANGED engine

Enter(f) ==
  /\ focus = {}
  /\ focus' = {f}
  /\ Tell(<<Note("focus_in")>>, type[f])
  /\ UNCHANGED type

Leave ==
  /\ focus # {}
  /\ focus' = {}
  /\ Tell(<<Note("focus_out")>>, sent)
  /\ UNCHANGED type

Declare(f, raw) ==
  /\ raw # type[f]
  /\ type' = [type EXCEPT ![f] = raw]
  /\ IF f \in focus THEN Tell(<<>>, raw) ELSE UNCHANGED <<queue, sent, engine>>
  /\ UNCHANGED focus

PressOrRelease(f, k) ==
  /\ f \in focus
  /\ Tell(<<Key(k, type[f])>>, sent)
  /\ UNCHANGED <<type, focus>>

\* A click, a caret move or an input-method switch.
Cancel(kind) ==
  /\ focus # {}
  /\ Tell(<<Note(kind)>>, sent)
  /\ UNCHANGED <<type, focus>>

Client ==
  \/ \E f \in Fields : Enter(f)
  \/ Leave
  \/ \E f \in Fields, raw \in Declared : Declare(f, raw)
  \/ \E f \in Fields, k \in Presses \cup {"release"} : PressOrRelease(f, k)
  \/ \E kind \in {"reset", "disable"} : Cancel(kind)

-----------------------------------------------------------------------------
(* The engine handles its messages in order.                               *)

Resets == {"accepted", "refused", "interrupted"}

SlipSwitch(s, reset) ==
  /\ sensitive' = s
  /\ word' = IF reset = "accepted" THEN {} ELSE word
  /\ held' = FALSE /\ preedit' = FALSE /\ counted' = FALSE
  /\ UNCHANGED <<mode, kept>>
\* _switch_sensitivity(s): the stop is armed first, and released at the end.
Switch(s, reset) ==
  /\ sensitive' = (s \/ reset # "accepted")
  /\ held' = FALSE
  /\ word' = IF reset = "accepted" THEN {} ELSE word
  /\ preedit' = (reset = "interrupted" /\ preedit)
  /\ counted' = (reset = "interrupted" /\ counted)
  /\ UNCHANGED <<mode, kept>>

Handle(kinds) ==
  /\ queue # <<>>
  /\ Head(queue).kind \in kinds
  /\ queue' = Tail(queue)
  /\ UNCHANGED client

SlipDeclaredOrdinary(raw, halfway) == IF halfway THEN ordinary ELSE ~Secret(raw)
\* A declaration withdraws an owed release before the switch, and is noted as
\* ordinary after it: an interrupted switch leaves nothing owed.
DeclaredOrdinary(raw, halfway) == ~Secret(raw) /\ ~halfway

\* do_set_content_type: a type that changes under an open word arms the stop.
HandleType(reset) ==
  /\ Handle({"type"})
  /\ LET raw == Head(queue).raw
         s == Secret(raw) \/ (keys \notin {{}, {DecisionKey(raw)}} /\ InFlight)
         switches == s # sensitive
     IN /\ told' = raw
        /\ keys' = Remembered(raw)
        /\ ordinary' = DeclaredOrdinary(raw, switches /\ reset = "interrupted")
        /\ IF switches THEN Switch(s, reset)
           ELSE /\ reset = "accepted"
                /\ UNCHANGED <<sensitive, held, word, preedit, counted, mode, kept>>

\* do_focus_in: it comes before the declaration, so it never releases the stop.
HandleFocusIn ==
  /\ Handle({"focus_in"})
  /\ held' = FALSE
  /\ UNCHANGED <<stop, counted, preedit, mode, core>>

\* _direct_end_word: a refusal is logged and the core keeps its word.
EndDirectWord(reset) ==
  /\ reset # "interrupted"
  /\ word' = IF reset = "accepted" THEN {} ELSE word
  /\ kept' = (kept \/ (reset = "refused" /\ word # {}))

\* do_focus_out: under the stop the core is not flushed; a direct word
\* delivered a moment ago may wait for the refocus.
HandleFocusOut(hold, reset) ==
  /\ Handle({"focus_out"})
  /\ counted' = FALSE
  /\ hold => ~sensitive /\ mode = "direct" /\ word # {}
  /\ held' = hold
  /\ CASE sensitive \/ hold -> reset = "accepted" /\ UNCHANGED <<core, preedit>>
       [] mode = "preedit" /\ ~sensitive ->
            reset = "accepted" /\ word' = {} /\ preedit' = FALSE /\ UNCHANGED kept
       [] OTHER -> EndDirectWord(reset) /\ UNCHANGED preedit
  /\ UNCHANGED <<stop, mode>>

\* do_reset and do_disable: the counter goes first; a refusal leaves the callback.
HandleCancel(reset) ==
  /\ Handle({"reset", "disable"})
  /\ counted' = FALSE
  /\ IF reset = "accepted"
     THEN word' = {} /\ preedit' = FALSE /\ held' = FALSE /\ UNCHANGED kept
     ELSE kept' = (kept \/ word # {}) /\ UNCHANGED <<word, preedit, held>>
  /\ UNCHANGED <<stop, mode>>

\* The core reads a key the stop let through.  Shown: the word is composing,
\* or a completion of the next word is on screen.
CoreReads(k, raw, open, shown) ==
  CASE k = "letter" ->
         /\ word' = open \cup {[raw |-> raw, key |-> keys]}
         /\ counted' = TRUE
         /\ preedit' = (shown /\ mode = "preedit")
    [] k = "boundary" ->
         /\ word' = {}
         /\ counted' = FALSE
         /\ preedit' = (shown /\ mode = "preedit")
    [] OTHER -> word' = open /\ UNCHANGED <<counted, preedit>>

\* do_process_key_event without an owed release: the stop forwards the key.
HandleKey(shown) ==
  /\ Handle(Presses \cup {"release"})
  /\ Owed => Head(queue).kind = "release"
  /\ IF sensitive THEN ~shown /\ UNCHANGED <<word, counted, preedit>>
     ELSE CoreReads(Head(queue).kind, Head(queue).raw, word, shown)
  /\ UNCHANGED <<stop, mode, held, kept>>

SlipHandleOwedPress(reset, shown) ==
  /\ Handle(Presses)
  /\ Owed /\ ~shown
  /\ Switch(sensitive, reset)
  /\ UNCHANGED <<told, keys, ordinary>>
\* The first press after a declaration whose release is owed retries it.
HandleOwedPress(reset, shown) ==
  /\ Handle(Presses)
  /\ Owed
  /\ IF reset = "accepted"
     THEN /\ sensitive' = FALSE
          /\ held' = FALSE
          /\ CoreReads(Head(queue).kind, Head(queue).raw, {}, shown)
          /\ UNCHANGED <<mode, kept>>
     ELSE ~shown /\ Switch(FALSE, reset)
  /\ UNCHANGED <<told, keys, ordinary>>

\* _direct_refocus_expire
RefocusExpires(reset) ==
  /\ held
  /\ held' = FALSE
  /\ EndDirectWord(reset)
  /\ UNCHANGED <<client, queue, stop, counted, preedit, mode>>

Engine ==
  \/ \E reset \in Resets : HandleType(reset)
  \/ HandleFocusIn
  \/ \E hold \in BOOLEAN, reset \in Resets : HandleFocusOut(hold, reset)
  \/ \E reset \in Resets : HandleCancel(reset)
  \/ \E shown \in BOOLEAN : HandleKey(shown)
  \/ \E reset \in Resets, shown \in BOOLEAN : HandleOwedPress(reset, shown)

Init ==
  /\ type = [f \in Fields |-> Free]
  /\ focus = {}
  /\ queue = <<>>
  /\ sent = Free
  /\ told = Free
  /\ keys = {}
  /\ sensitive \in Stops
  /\ ordinary = FALSE
  /\ counted = FALSE /\ preedit = FALSE /\ held = FALSE /\ kept = FALSE
  /\ mode \in Modes
  /\ word = {}

Next == Client \/ Engine \/ \E reset \in Resets : RefocusExpires(reset)

\* The main loop dispatches what has arrived; the core does not refuse for ever.
Fairness ==
  /\ WF_vars(Engine)
  /\ SF_vars(\E shown \in BOOLEAN : HandleOwedPress("accepted", shown))

Spec == Init /\ [][Next]_vars /\ Fairness

-----------------------------------------------------------------------------
Messages == {Note(k) : k \in {"focus_in", "focus_out", "reset", "disable"}}
            \cup {Type(raw) : raw \in Declared}
            \cup {Key(k, raw) : k \in Presses \cup {"release"}, raw \in Declared}

DecisionKeys == {DecisionKey(raw) : raw \in Declared}

(* Every variable is of its type. *)
TypeOK ==
  /\ type \in [Fields -> Declared]
  /\ focus \subseteq Fields
  /\ queue \in Seq(Messages)
  /\ sent \in Declared /\ told \in Declared
  /\ keys \in {{}} \cup {{d} : d \in DecisionKeys}
  /\ sensitive \in BOOLEAN /\ ordinary \in BOOLEAN /\ counted \in BOOLEAN
  /\ preedit \in BOOLEAN /\ held \in BOOLEAN /\ kept \in BOOLEAN
  /\ mode \in Modes
  /\ word \subseteq [raw : Declared, key : SUBSET DecisionKeys]

(* The core holds no key that was typed into a field declared secret or of a
   type the adapter has not audited: not after FocusIn overtook the declaration,
   not when the daemon suppressed a repeated one, not when an older ordinary
   declaration is still owed its release (do_process_key_event, do_focus_out). *)
SecretNeverRead == \A k \in word : ~Secret(k.raw)

Carried ==
  \E a, b \in word : a.key # b.key /\ {} \notin {a.key, b.key}

(* While no reset was refused outside a switch, a composed word was typed under
   one declaration: a type that changes under it drops the word (the transition
   guard of do_set_content_type). *)
NoCarryOver == mode = "preedit" /\ ~kept => ~Carried

(* The stop is released only for the latest declaration, when that is ordinary,
   and never with a word in the core that was typed before it. *)
ReleaseAnswersLatest ==
  [][sensitive /\ ~sensitive' =>
       /\ ~Secret(told')
       /\ \A k \in word' : k.key = {DecisionKey(told')}]_vars

PressArrives == queue # <<>> /\ Head(queue).kind \in Presses

(* As long as keys are pressed, an owed release is granted, or withdrawn by the
   next declaration: a refused reset costs the field no more than the refusals. *)
OwedReleaseGranted == []<>PressArrives => (Owed ~> ~Owed)
=============================================================================
