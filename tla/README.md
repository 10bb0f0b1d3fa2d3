# SmartKey: specifications, model checking and proofs

SmartKey is a predictive keyboard for two scripts. A platform adapter feeds key
events to a Rust core; the core answers each with a list of actions (show or hide
a completion, commit text, replace a word, forward the key) which the adapter
carries out on the client application. The client's text is never visible to the
core: everything the core believes about it is a projection of what it sent.
That is what makes the program hard to get right, and what these specifications
are about.

## 1. Inventory

| Component | State | Operations | Talks to |
|---|---|---|---|
| `DualBuffer` (`dual_buffer.rs`) | two readings of the same keys, scores, winner, lock, length that decided the lock, origin of the evidence | push, accept a completion's character, pop, score, lock hint and soft prior, clear | called by the input core, scores come from the ensemble |
| `InputMethodCore` (`input.rs`) | current word, dual buffer, delivery layout, transliteration, the two external owners of a word, completion, sentence hint, kill switch | `handle_key` and some fifteen host calls (focus, reset, handoffs, flush, reports) | returns action lists; learns through the ensemble |
| `MasterLoop` (`master_loop.rs`) | phase, hints, last accept, last shown completion, language-choice offer and revision, queue of sentence echoes, suppression countdown | wraps every core call | core, memories, frustration detector, adapters |
| `FrustrationDetector` | Backspace burst, time of accept, Escape seen, deleted prefix | `feed`, `reset_word` | `MasterLoop` |
| Correction and rejection memory, CVM counters, prediction cache | bounded maps with LRU order, rounds, generations, snapshots | record, check, evict, save and restore | `MasterLoop`, ensemble, profile file |
| Ensemble (`ensemble.rs` and its models) | tries and counts | predict, learn, `score_both` | input core |
| Language detection, typing regime, caps, keymap | statistics and tables | classify, feed | input core |
| IBus adapter (`smartkey_engine.py`) | preedit mode, direct delivery with three one-shot timers, sensitivity, report barrier | D-Bus callbacks, action execution | `MasterLoop` through PyO3, IBus daemon, client |
| TSF adapter (`smartkey-win`) | composition, object and lock counts | COM callbacks, edit sessions | core, Windows |
| IMK adapter (`smartkey-mac`), PyO3 bindings | a handle | copy action lists | core |

Everything inside one core instance is sequential. The hard behaviours are the
long sequences of legal calls, the state that must agree across calls (who holds
the word, what stands before the caret), host callbacks between any two keys
(focus changes, resets, timers, late reports), failing host calls in the
adapters, and persistence in the learning memories.

What makes each component correct:

- dual buffer: its lock never outlives its evidence, context is never taken for
  evidence, and the script on display changes only for a stated reason;
- input core: no character lost or doubled; one owner per word; a rewrite deletes
  the text it means to; a completion that can be accepted is one that is shown;
  the sentence hint describes the text; an unobservable word is not learned;
- master loop: feedback is attributed to the completion that was shown; an offer
  is accepted only under its own revision; a late report is matched to the right
  image of the text;
- memories: bounds hold, eviction drops the least recent, a restart changes
  neither;
- IBus adapter: delivered text is never revised except by the user's own
  Backspace; no timer acts on a word that ended; a release of the content-type
  stop that is owed is granted;
- TSF adapter: a key is consumed exactly when the core did not forward it, and the
  library is unloaded only when nothing of it lives.

`PROJECT.json` lists every component with its status and each hazard at its line.

## 2. Modules

| Module | What it is |
|---|---|
| `LockRules` | the values a word's lock can have and how a push or a deletion may change it; shared |
| `TokenLock` | abstract specification: the lock discipline of one composing word after another |
| `DualBuffer` | `dual_buffer.rs` method by method, called in the order of the handlers in `input.rs`; implements `TokenLock` |
| `InputCore` | `input.rs`: one action per arm of `handle_key` and per host call, composed with a client text |
| `MasterLoop` | `master_loop.rs` around a core whose answers are free: feedback, overrides, suppression, Space, the language-choice lease |
| `SentenceEchoes` | the queue of projected client texts in `master_loop.rs`, against reports that are late, repeated or dropped |
| `ContentType` | the stop for sensitive fields in `smartkey_engine.py`, over an ordered connection and a core that may refuse a reset |
| `DirectDelivery` | delivery without preedit in `smartkey_engine.py`, with its three timers |
| `NativeCompletion` | words handed to the client's completion: the report barrier of `smartkey_engine.py` and the reconciliation of `master_loop.rs` |
| `Learning` | several engines over one personal profile: sample, trusted words, corrections, save, crash, restart |
| `Ensemble` | `ensemble.rs` behind `cache.rs`: what a prediction reads, and which entries of the cache may still be served |
| `AtomicCounters` | abstract specification: counters raised and lowered in one step |
| `ComServer` | the unload counters of the Windows DLL over threads, down to load and compare-and-swap; implements `AtomicCounters` |
| `MC...` | instances for TLC, one per module above that has state and is not abstract |
| `...Proofs` | theorems: `DualBuffer`, `InputCore`, `ContentType`, `DirectDelivery`, `Learning`, `Ensemble`; `MasterLoopProofs` for `MasterLoop` and `SentenceEchoes`; `AdapterProofs` for `NativeCompletion` and `ComServer` |

How they fit together: `DualBuffer` implements the `TokenLock` that `InputCore`
uses; `MasterLoop` leaves free, within types, what `InputCore` says the core may
answer; `SentenceEchoes` and `NativeCompletion` are the two consumers of the
client's reports, each with the client and its reports as part of the model;
`ContentType` and `DirectDelivery` stand in front of all of them and are joined
through the one call they share, the reset of the core; `Learning` has the data
behind corrections and vocabulary that `MasterLoop` and `Ensemble` take as given.

`InputCore` does not repeat the scoring. Where the code calls the dual buffer it
uses `AfterPush` and `AfterPop` of `LockRules`, which are the steps of
`TokenLock`; the theorem that `DualBuffer` implements `TokenLock` is what
justifies that choice.

Operators named `Slip...` are wrong variants of the definition that follows
them, the kind of mistake a property is meant to catch. Nothing uses them.

### DualBuffer

A buffer is a record with a field per field of the struct. The text of a reading
is abstracted to its length (the two readings are pushed and popped together, so
they have one length) and to the corpus support of its prefixes, kept in
`support` because a deletion scores the shorter prefix again. Longer prefixes
never have more support (`Narrower`): `score_both` returns the frequency of the
best word starting with the prefix. Confidence, an `f64` in the code, is an exact
fraction. The evidence-free length-one override, the relaxed thresholds and the
order score, hint, soft prior are the code's.

### InputCore

| Code | Model |
|---|---|
| `current_word` | `word`, a sequence of glyph classes |
| `dual_buffer` | `lock`, `NoLock` for `None` |
| `word_delivery_layout`, `transliteration_active`, `native_completion_owned`, `direct_delivery_owned` | `layout`, `translit`, `native`, `direct` |
| `ghost` | `ghost`, its length; `display` is `completion_display_supported` |
| `sentence_boundary` | `hint` |
| `commit_learning` | `learned`: does the batch of the last call hold a word |
| the application | `client`, the text before the caret; `typed` is a history of what the user asked for |

A glyph is a letter, another printable character, a terminator, a closing mark, a
space, a newline, or `"?"`: text the core cannot know, left by navigation, Tab or
a paste. Action lists are carried out as the adapter contract says: text actions
in order, then the forwarded key. A post-commit correction or capitalisation is a
`ReplaceWord` of the word's own length; whether one happens is a free choice,
which also covers the two rewrite-capability flags. Whether a completion exists
is a free choice within `Offers`.

Choices that bound what the model says:

- Releases and pure modifiers change nothing and are no actions. Super with a
  printable key is handled as that key, as in the code, except in the branch for
  directly delivered words.
- The environment is a parameter. `TokenEdits` says whether a shortcut or unknown
  key may edit the client in the middle of a delivered word; `DelimiterChords`
  whether a shortcut may be pressed on a delimiter key. The runs that pass set
  both to `FALSE`; the findings in section 5 are what happens otherwise.
- A report of the client's text (`ReconcileSentenceBoundaryHint`) is current and
  has no unknown text in it; late reports belong to `SentenceEchoes`, which also drops
  them while the engine is off.
- `FocusGained` without a preceding `FocusLost` on a delivered word that is still
  open leaves the text alone.
- A completion is a run of letters; the space inside a two-word completion is not
  distinguished.
- Not in the model: the anticipatory completion (no caller enables it), casing
  overrides, the text of predictions, and what learning does to the ensemble.

### MasterLoop

| Code | Model |
|---|---|
| `last_shown_ghost` | `shown`, at most one pair of prefix length and completion |
| `last_prediction_accept` | `accept`: none, under 500 ms old, older |
| rejection memory | `rejected`, the pairs recorded often enough to be suppressed |
| `language_choice_supported`, `_dismissed`, `_revision` | `supported`, `dismissed`, and `lease`: the revision of the last offer is still the current one |
| the core | `word` (a length), `owner`, `top`, `ghost`, `display`, `readings` |
| what the user sees | histories: `screen`, `doubt`, `offer`, `lastKey` |

A key is one action, `Ordinary`: the core's answer is chosen from `Answers`, then
processed in the code's order (override, suppression, attribution, note of what is
shown). Which frustration signal a key gives and whether a rejection reaches its
threshold are free. Reports of the client's text are `ContextChanges` here, only
what they do to the lease; what they do to the hint is `SentenceEchoes`.

### SentenceEchoes

An image is how much of the base text is left and what was inserted after it, as
in the code; texts are sequences over a letter, a space, a tab, a line break and a
full stop, counted in characters where the code counts bytes. Keys are modelled by the
edits the core delivers for them, replacements by an autocorrection included. The
client shows every intermediate text or only the last one, reports arrive in
order and at any later time, and `Repeat` is the adapter reading the cached
report again at a key. Return and Tab are opaque: the client may break the line,
send it, or do nothing. Two histories say what the code cannot know: `astray`, the
images are bound to a text the client has already left, and `ahead`, a report
fitted two equal images while others were still under way. Names end in `Echoes`
where `MasterLoop` has one of its own, since the proofs extend both modules.

### ContentType

Messages travel on one ordered queue. The daemon tells the engine a content type
only when it differs from the one it told last; both are external and modelled
from the comments in `do_set_content_type` and `do_focus_out`. The fault is a core
that refuses a reset: a switch then leaves the stop armed and the release owed,
and every key retries it. `word` records for each key in the core where it was
typed, which is what the properties need and the code does not have.

### DirectDelivery

A character is its script. The core answers with readings of the word, of which
the script is free until the dual buffer has decided, and may change after that
only where a lock is taken back. Three one-shot timers are Booleans with an action
for their expiry. `text` is the client, `typed` counts what the user asked for
less what was erased or discarded on purpose. The engine may be destroyed, after
which nothing happens: deadlock checking is off for this instance only.

### NativeCompletion

The client's text is the run of word characters before the caret and the kind of
caret. A report is a snapshot taken at any time and received at any later time,
in order; whether reports include the preedit is a property of the client, both
kinds are in the initial states. The barrier compares a generation of received
reports with the one at the last delivery, which is abstracted to three values:
no barrier, none received since, one received since. That is exact, since the
generation only grows until both are reset together. A press is the check of
`reconcile_native_completion_word` followed by what the key does. Early delivery
(`DirectDelivery`) does not reach this code.

### Learning

An engine's profile is its sample (CVM), the words it trusts, those only proposed,
and its corrections with their counts and stamps. `Save` writes the file whole,
`SaveFails` leaves a part of it, `Crash` ends the process anywhere, also inside a
save; `Start` reads what is there, and a part is read as nothing. All engines
of a process share one file and the last writer wins, as in the code. A thinning
round of the sample may drop any part of it, none included.

### Ensemble

Scores are replaced by the versions of what they were computed from: vocabulary,
profile, session, weights, calibration table. An answer records the versions it
read, so that a cached one can be compared with the one that would be computed
now. The calls arrive in the order `input.rs` makes them. Commits, accepts and
rejections, the decay every so many rejections, the lazy rebuild of the
calibration table, navigation and import are actions.

### ComServer

A thread has one instance and runs one call at a time. Raising a counter is one
step; lowering it is a load followed by compare-and-swaps, each a step of its own
between which the other threads run. A failed exchange reads again.
`DllCanUnloadNow` is three steps: its load of `OBJECT_COUNT`, its load of `LOCK_COUNT`,
and the host having the answer; a load that ends in `S_FALSE` at once changes
nothing. It is called by one thread at a time, which loses nothing: it only reads.
An instance is made in one step and counted in another, because a load may come
between. The history `newer` holds the instances counted since the load of
`OBJECT_COUNT`, `again` the number of second activations.

## 3. What the runs show

| Run | Bounds | States | Result |
|---|---|---|---|
| `dual_buffer` | supports 0, 2, 3, 12; thresholds 85 % and 4 characters (the shipped configuration); words of up to 6 characters | 239,757 | passes |
| `input_core` | text of up to 5 characters, completions of up to 2 | 1,323,248 | passes |
| `content_type` | 2 fields, 3 content types, both modes, both initial stops, 2 messages in flight | 223,656 | passes |
| `direct_delivery` | text 5, words of 3, 2 scripts | 28,308 | passes |
| `native_completion` | words of 2 letters, runs of 3 characters, 1 report under way, 4 places to move to | 392,490 | passes |
| `master_loop` | 2 completions (symmetric), words of 3 | 58,728 | passes |
| `sentence_echoes` | caps of 4 images and 3 inserted characters, words of 2, text 2, 3 reports | 1,229,331 | passes |
| `learning` | 2 engines, 2 pairs (both symmetric), threshold 2, memory of 1, sample of 1 | 900,110 | passes |
| `com_server` | 3 threads (symmetric), no raise begun at a counter of 2, 2 second activations | 832,230 | passes |
| `ensemble` | 2 words, 4 prefixes, cache of 2, decay and rebuild every 2 | 224,135 | passes |
| `kill_switch` | text 3 | | `KillSwitchDelivers` violated |
| `paste_then_rewrite` | text 3, pastes into open words | | `RewritesForwardedLetters` violated |

**dual_buffer.** `LockCoherent`: the three lock fields, the winner and the length
agree. `LockHasEvidence`: an inferred lock rests on corpus support that reached a
threshold, never on context. `NoDeadWinner`: a reading nothing in the corpus
starts with is not kept against one that has support. `ScriptStable`: a locked
word changes script only because its deciding prefix was deleted or its reading
died. `ImplementsTokenLock`: the refinement. The supports give every comparison
that matters: a tie, a majority the prior can overturn, one that locks only with
an agreeing prior (80 %), one that locks at once (86 %). Six characters are two
more than the lock needs, so a lock is taken, outgrown, deleted through and taken
again.

**input_core.** `Conserved`: what was typed is the client's text plus the preedit;
only the documented cancel paths and the kill switch give text up. `TokenInPlace`:
a word outside the preedit is the text right before the caret, which every
`ReplaceWord` relies on. `Ownership`: preedit, delivery layout, client-owned
completion and early delivery exclude each other as the code needs and go with
the word. `GhostBelongs`: no completion can be accepted that is not on display.
`HintSound`: the terminator, closers and spaces the hint counts are in the text
before the word. `OwnedNeverLearned`: no step learns from a word whose outcome is
not observable. Five characters hold a word with a terminator, two closers or two
spaces, and the start of the next word; the first character may be unknown text.
Longer texts add repetitions of the counted classes; the proofs below remove the
bound.

**content_type.** `SecretNeverRead`: no key typed into a field declared secret, or
of a type the adapter has not audited, is in the core, whichever of FocusIn,
declaration and key overtakes the user's move, and whatever the daemon suppresses.
`NoCarryOver`: no composed word spans a change of type, unless a reset was refused
outside a switch. `ReleaseAnswersLatest`: a release belongs to the latest
declaration and finds no older word. `OwedReleaseGranted`: an owed release is
granted. Two fields and three types give every order of secret and ordinary,
the same type again in another field (suppressed) and two ordinary types that
differ; two messages in flight are a declaration behind a FocusIn, or a key
behind a declaration.

**direct_delivery.** `InStep`: what the adapter holds as delivered is what the core
reads. `EachKeyOnce`: a character reaches the client once or is still waiting.
`TimersBelong`: no timer is armed without the state it acts on. `NeverRevised`:
delivered text is continued, or shortened by the user's BackSpace, and no word
has two scripts. `ModesCarryNoWord`, `ModeFollowsCapabilities`: a switch of mode
takes no word along, and happens. Words of three give an undelivered start, a
delivered part and a key after it; text of five holds one word with its
delimiter and the start of the next.

**native_completion.** `OwnedIsInPlace`: while the client keeps its hands off, the
word handed over, behind the identifier it continues, is the client's text.
`RetiredOnlyIfLeft`: a press takes the word from the client's completion only if
the client has left it, or a report under way was overtaken by a delivery.
`LeftIsRetired`: a word the client has left for good is retired. A run of three
is an identifier prefix and two letters: a word handed over, refined and deleted
into. One report under way is enough for it to be overtaken; the four places are
an empty line, an identifier start, a selection and the middle of a word.

**master_loop.** `LeaseSound`: an offer that can be accepted says what the readings
are. `OneAttribution`: what is on record is what is on the screen.
`BlameFollowsAccept`: a Backspace counts against an accept only right after it.
`SpaceTakesWhatIsShown`: Space accepts the completion on the screen, which no
chord or rejection has made doubtful. `SuppressedNotDisplayed`: no step displays a
suppressed completion, not even one that a correction puts in place. Two
completions let one replace the other; three letters let a word grow past a
completion, shrink to another, and end.

**sentence_echoes.** `WithinCaps` has the two caps. `TailIsClient`: the newest image is the
client's text as long as the images are bound to the text it had. `SettledAgrees`:
once reports are in, the projection is right again even after the client's own
edits, and a sentence start hinted at is one. `LateReportsAreEchoes`: a report of
delivered text is not taken for an edit of the client's, unless a report before it
fitted two images alike. Four images are a word delivered, replaced (a deletion
and an insertion) and ended; two letters tell a replacement by a longer word from
one of the same length; three reports leave one under way behind two that are
alike. That last case needs all three: with two, a report that fits two images
has none behind it left to be misread. The caps are met alone and together.

**learning.** `TrustEarned`: a trusted word was typed in its own script or accepted.
`OverrideEarned`: an override rests on as many corrections as the threshold asks,
over all engines and restarts. `RestartKeepsEvidence`: what a save wrote and a start
read is the same evidence. A memory of one entry evicts at the second pair, a
sample of one thins at the second word, two engines overwrite each other's file.

**com_server.** `ImplementsCounters`: the loops lower the counters as if in one
step. `UnloadSpares`: when `DllCanUnloadNow` answers `S_OK`, the instances in use were
counted after its load of `OBJECT_COUNT`, but for one at most per second
activation. It says no more because the code keeps no more: section 5 has the two
ways in which an instance in use meets `S_OK`. Three threads are two decrements
racing a third that raises, or an exchange and a creation between the two loads;
with two second activations the bound is met with one and with two instances
left uncounted.

**ensemble.** `HitsAreCurrent`: what may be served from the cache is what would be
computed now. `LeastRecentFirst`: capacity, one entry per request, eviction in the
order of use. Four prefixes over two places evict; versions up to two give a
stale entry, a rebuilt table and a decay.

Bounds are guards, named in each module (`MaxText`, `MaxGhost`, `MaxLen`, `MaxQueue`,
`MaxWord`, `MaxReports`, `MaxRun`, `MaxSent`, `MaxTaught`, `MaxClock`, `MaxCount`,
`MaxAgain`, `MaxProfile`, `MaxSeen`); nothing else limits the models. Some step that lengthens
nothing is always possible, so deadlock checking stays on, `direct_delivery` apart.

**Fairness.** Three liveness properties are stated, each under fairness of the
program's own steps and of the services it runs on, never of the user.

- `ContentType`: weak fairness of the engine (it handles the messages it has) and
  strong fairness of an accepted reset at a key (`HandleOwedPress("accepted")`): a
  core does not refuse for ever. That keys are pressed is a hypothesis of
  `OwedReleaseGranted`, because the code retries the release only at a key.
- `DirectDelivery`: weak fairness of `SwitchDue` and `RefocusExpires`: a GLib one-shot
  timer that is due and not cancelled fires. The pause timer needs none.
- `NativeCompletion`: weak fairness of `ClientReports` (a client answers IBus when it
  asks for the text, and the adapter asks at every press) and of `Receive`. That
  presses go on is a hypothesis of `LeftIsRetired`.

The other modules only react: a word may stay in the preedit for ever if the user
stops typing, and nothing in the code promises otherwise.

## 4. What is proved

All theorems hold for every value of the constants that satisfies the named
assumptions, so for words, texts, queues, threads and memories of any size:
`SupportAssumption` (supports are naturals, zero is one of them), `LockAssumption` (a
percentage and natural bounds), `ShortcutAssumption`, a `BoundsAssumption` per module
(bounds are naturals), `TypesAssumption` and `ChoicesAssumption` (what is declared is a
content type, and the default is one of them), `WordsAssumption` and `PairsAssumption`
(the corpus is made of words, the pairs are finitely many), `ThreadsAssumption`
(finitely many threads), `CapsAssumption` (natural caps, at least
one image), `CacheAssumption`, `VocabularyAssumption`,
`CalibrationAssumption` (positive capacity and intervals, prefixes reach words).

**DualBufferProofs**: `SpecTypeOK`, `SpecLockCoherent`, `SpecLockHasEvidence`,
`SpecNoDeadWinner`, `SpecScriptStable`, `SpecImplementsTokenLock`.

None of these properties is inductive. `NoDeadWinner`, for example, says nothing
of the shorter prefixes that a deletion will bring back. The invariant `IInv` adds
what is missing: `Sound` (types and coherence), `Evident` (where confidence and
winner come from, per origin of evidence), `Matching` (the recorded support of
the last prefix is what the scores were computed from, where they are fresh),
`LiveThroughout` (along every prefix at least as long as the one that decided an
inferred lock, the locked reading is not dead) and `OpenIsAlive` (an open word's
winner is not dead). One lemma per method says what it preserves and establishes;
one per handler combines them in the handler's order; `NextIInv` joins the
handlers. Arithmetic on fractions is confined to two lemmas on the thresholds.
`SpecScriptStable` is the step property from the same invariant, and
`SpecImplementsTokenLock` maps each handler to a step of `TokenLock`.

**InputCoreProofs**: `SpecTypeOK`, `SpecOwnership`, `SpecGhostBelongs`,
`SpecOwnedNeverLearned`, `SpecConserved`, `SpecTokenInPlace`, `SpecHintSound`.

The invariant has three layers. `Shape` is types, `Ownership` and `GhostBelongs`,
which depend on each other: a completion belongs to the word because ownership
excludes the others. `Unlearned` says that a word with an external owner has left
nothing in the learning batch, which gives `SpecOwnedNeverLearned`. `InText` joins
`Conserved` and `TokenInPlace`, which are only inductive together: what a flush
adds to the client is what was typed because the word was the tail of `typed`,
and a delivered word is in place because nothing typed was lost. The last three
theorems assume `~TokenEdits`: with edits inside an open word they are false, which
is the second finding.

`SpecHintSound` adds `HintTells` to all of that: what the hint counts stands in the
text before the word, composing or delivered, as soon as it counts spaces; a hint
that still waits for white space says nothing while a delivered word is open,
because the word may start inside the closing marks it counts. It also assumes
`~DelimiterChords`, without which it is false (section 5). The lemmas under it are
about `Boundary`: what one more closer, space, letter or erasure makes of it.

**ContentTypeProofs**: `SecretsStayOut`, `WordsDoNotCarryOver`, `ReleaseIsForLatest`. The
invariant is `Connection /\ Stop /\ Word`. `Connection` says what the queue does to the
engine's idea of the field in focus: the declaration in force after the messages
in flight are handled is the field's, which makes the daemon's suppression
harmless. `Stop` ties the stop and the owed release to the latest declaration.
`Word` says under which declaration the keys in the core were read.

**DirectDeliveryProofs**: `TypeCorrect`, `StaysInStep`, `KeysCount`, `TimersAreOwned`,
`ModesAreSeparate`, `DeliveredStays`. The invariant is `Flags /\ Sequences /\ Word /\
TimersBelong /\ Count`: the three copies of the word (core, delivered, pending) are
prefixes of one another in the right modes, and what was typed is the text plus
what waits. `DeliveredStays` adds `Uniform`: a delivered word has one script.

**MasterLoopProofs**: `TypeCorrect`, `LeaseIsSound`, `AttributionIsOne`, `BlameIsImmediate`,
`SpaceIsFaithful`, `RejectedStaysHidden`. The invariant is `Flags /\ Others /\ Relations`;
among the relations are that a completion the core holds is displayed, that it is
beyond doubt while it is on record, and that an accept on record belongs to the
last key. One lemma bounds the processed answers (`Sound`), and every action is
proved from it.

The same module has `SentenceEchoes`: `SpecEchoInv`, `SpecWithinCaps`, `SpecTailIsClient`,
`SpecSettledAgrees`, `SpecLateReportsAreEchoes`, for any caps, texts and number of
reports (`CapsAssumption`: naturals, at least one image). `TailIsClient` and
`SettledAgrees` are far from inductive: they compare the last image with the client's
text, but a report is compared with any image, and what is dropped then decides
what the reports behind it meet. `EchoInv` therefore relates the whole queue of
images to the whole queue of reports (`Fits`): each report is assigned an image, in
order, the last one the last image, and where a report is not its image's text
(the client edited, or showed only the end of a batch) it is no image that could
be taken for it. Around it, `Tracks` says what ties the first image to the text
last reported and the last to the client, and `ToldOf` what the hint says of the
last image, or of what an opaque key leaves open. The argument, bottom up: what
each edit shows (`PushShows`, `EditShows`, `EditAllShows`); how a queue that fits is
extended by the texts of a key (`SkipsFit`, `WayFits`, `BlocksFit`) and cut by a report
(`DropsFit`); which texts the keys make (`ShapedBlocks`: two texts under one batch,
once alike, stay alike); what the hint says before and after a character (`ToldStop`,
`ToldSpace`, `ToldErased`, `HintOfTold`, which proves the reconciled hint against the text);
one lemma per action; the theorems. `SpecLateReportsAreEchoes` uses that without
`ahead` every report is the text of an image (`Echoed`).

**LearningProofs**: `TypeCorrect`, `TrustIsEarned`, `OverrideIsEarned`, `RestartKeeps`. What is
true of an engine must be true of the file before a restart can preserve it, so
the invariant states evidence for both, and that a partial file carries none.

**EnsembleProofs**: `TypeCorrect`, `EvictsLeastRecent`, `ServesWhatIsKnown`. The invariant
has each key once in the history of uses, the cache ordered by it and within its
capacity; with `UseHedge` it adds that every fresh entry rests on the facts as they
are, a cleared session apart. Without the mixer that is false: section 5.

**AdapterProofs**, `NativeCompletion`: `SpecOwnedIsInPlace`, `SpecRetiredOnlyIfLeft`. What the
presses rely on is the report barrier, so the invariant (`Watched`) is about it: it
never comes down while the word is the client's; while the client keeps its hands
off, the word is in place; and if no report was overtaken, every report under way,
and the one held once the barrier has passed, is the text as it is now.

**AdapterProofs**, `ComServer`: `TypeCorrect`, `UnloadIsSafe`, `LoopsAreAtomic`. A thread lowers at
most one counter, and the object counter only for a retired instance. The
instances that count and have not been lowered for are at most the count and the
second activations together; once `OBJECT_COUNT` was read as 0, those among them that
are no newer than that load are at most the second activations, whatever the other
threads do before the load of `LOCK_COUNT`. Both need cardinalities. Each
compare-and-swap that succeeds maps to `Subtract`.

**Only model-checked**: the three liveness properties (`OwedReleaseGranted`,
`ModeFollowsCapabilities`, `LeftIsRetired`), which are beyond this prover. Every
invariant and every action property of a passing run is a theorem.
`HitsAreCurrent` without the mixer is not claimed. The properties of the two
violation runs are refuted.

## 5. Disagreements with the code's own documentation

Two runs show one each:

1. `kill_switch`. Super+Escape clears a composing word without delivering it
   (`input.rs:993`), against the rule on `flush_preedit` (`input.rs:2849`).
2. `paste_then_rewrite`. The wrong-layout rewrite (`input.rs:1612`) assumes that the
   word it counted is still before the caret; a paste in between, which
   `input.rs:1642` expects, makes it delete the pasted text.

What follows was met while modelling. It is in the models where it concerns what
they model, or excluded by a named condition, and is recorded for the team.

Input core and master loop:

- The hint after a directly delivered word (`input.rs:1016`) is computed from the key
  whatever the modifiers: Ctrl+. leaves the hint of a full stop that was never
  typed (`HintSound` with `DelimiterChords` set to `TRUE`).
- The branch at `master_loop.rs:1305` is dead: `learn_from_commit` clears
  `last_accepted_prediction` (line 1479) in the call that sets it.
- The completions under one rejected prefix are not bounded (`rejection_memory.rs:49`).
- Focus loss and reset keep `last_prediction_accept` (`master_loop.rs:716`), so the
  first Backspace in another field within 500 ms rejects.
- `acknowledge` takes the newest image a report fits (`rposition`, `master_loop.rs:133`).
  Where two images are alike (a character typed and erased, a word replaced and
  replaced back), the first of their reports acknowledges the second, and the
  reports of the images in between look like client edits. A cached report that is
  read again does the same. The history `ahead` marks it; without it
  `LateReportsAreEchoes` is false. The projection recovers with the last report
  (`SettledAgrees`).

IBus adapter:

- The report barrier counts reports instead of matching them: a report taken
  before a delivery and received after it lets the barrier pass, and the next
  press retires a word that is still there (history `late` of `NativeCompletion`;
  without it `RetiredOnlyIfLeft` is false).
- `_direct_end_word` with a refused reset delivers the word a second time, and a
  cancel with a refused reset has already zeroed the key counter (`ContentType`
  records it as `kept`).
- A direct word held through a refocus (`smartkey_engine.py:3071`) goes on in a field
  of another type.

Learning and prediction:

- A restored correction memory restarts its access counter below the stamps of its
  entries (`correction_memory.rs:103`): the entry just recorded is evicted first.
- `correction_memory.rs:3-4` speaks of a mapping; `record` counts per context and
  prediction and keeps the last replacement, whatever was counted before.
- A thinning round may keep everything, so the sample may exceed its capacity
  (`cvm.rs:112`).
- The profile is rewritten in place (`input.rs:2203`); a torn file is read as none and
  then overwritten. Several engines write one file and the last one wins. The
  Windows adapter loads it and never saves it.
- `cursor_moved` is documented to keep stale predictions from the new location, but
  `clear_session_cache` (`ensemble.rs:440`) does not touch the cache: the exception in
  `HitsAreCurrent`.
- A rejection hands the mixer three of its five signals
  (`ensemble.rs:671-688`), so the decay described above it never happens. An import
  restores the three weights but not the mixer.
- Without the mixer an Escape leaves cached answers on the old calibration.

Windows adapter:

- A `ReplaceWord` after `ForwardKey` in one list marks the key as consumed (`tsf.rs:201`).
- `DllCanUnloadNow` promises no live objects or server locks (`dll.rs:66`) and loads the
  two counters one after the other (`dll.rs:69`). A client that holds a server lock
  creates and activates an instance after `OBJECT_COUNT` was read as 0, and releases
  the lock before `LOCK_COUNT` is read: `S_OK`, with the instance in use. `UnloadSpares`
  without the exception for `newer` is false for this reason, with no second
  activation at all.
- A second activation is not counted, its Deactivate is (`tsf.rs:257`): the counter
  falls for an instance of another thread, and `S_OK` finds that one in use.
- A deactivated instance that is not released is not counted, as `dll.rs:37` says; one
  released without Deactivate keeps the count, and the library.

## 6. Not modelled

The map covers about a quarter of the code outside test modules. The rest is
left out for these reasons.

- **Floating-point scoring and the language models** (`ngram.rs`, `kneser_ney.rs`, `ppm.rs`,
  `bpe.rs`, `markov.rs`, `reranker.rs`, `hedge.rs`): only the order of their results matters
  to the key handler, and the models leave it free.
- **Language detection and typing regime** (`lang_detect.rs`, `typing_regime.rs`): statistics
  that reach the handler as a prior, which is any language here.
- **Tables and string functions** (`caps.rs`, `keymap.rs`, `tech_vocab.rs`, morphology): glyph
  classes stand for them.
- **Phases, the suppression countdown, bursts and severities of frustration**: they
  change how often completions appear, which is free in the models.
- **Rendering**: preedit attributes, auxiliary text, the language-choice display,
  tracing and logs.
- **Edit sessions and compositions of TSF, registration, the macOS and Python
  bindings**: calls into the platform, without state of their own beyond a handle.
- **JSON, paths, corpus readers**: pure input and output; a file is whole, partial or
  absent.
- **Playground, benchmarks, evaluation, diagnostics and corpus tools**: not part of the
  running program.
