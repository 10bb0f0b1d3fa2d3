------------------------------- MODULE Ensemble -------------------------------
(* The prediction ensemble (ensemble.rs) behind its cache (cache.rs), driven   *)
(* by the calls of InputMethodCore (input.rs) in the order they are made.      *)
(*                                                                             *)
(* Scores are abstracted to what they were computed from. A word stands for    *)
(* itself; a prefix for the words it reaches, exactly or within the edit       *)
(* budget (Matches). Learning, regimes, weights, session words and calibration *)
(* tables are versions: an answer records the versions it read, so a cached    *)
(* answer can be compared with the one that would be computed now. Corpus and  *)
(* tokenizer are loaded before the first key. Decay with time is left out: a   *)
(* hit returns the scores of the moment they were computed.                    *)
EXTENDS Naturals, Sequences, SequencesExt

CONSTANTS
  Words,            \* words the user may type
  Stems,         \* what has been typed of a word
  Scopes,           \* the context and the language hint of a request
  Corpus,           \* the words of the loaded corpora
  Matches,          \* the words each prefix reaches
  Fallback,         \* prefixes the tokenizer or the technical vocabulary completes
  Capacity,         \* of the cache
  UseHedge,         \* the Hedge mixer is on (it is by default)
  DecayInterval,    \* rejections between two decays of the mixer
  MinObservations,  \* observations per rebuild of the calibration table
  MaxProfile,       \* bound on what is learned
  MaxSeen           \* bound on observed outcomes

ASSUME CacheAssumption == Capacity \in Nat \ {0}
ASSUME VocabularyAssumption ==
  /\ Corpus \subseteq Words
  /\ Matches \in [Stems -> SUBSET Words]
ASSUME CalibrationAssumption ==
  /\ DecayInterval \in Nat \ {0}
  /\ MinObservations \in Nat \ {0}

VARIABLES
  facts,  \* what predict() reads: one field per learned component
  cache,  \* PredictionCache.entries, least recently used first
  last,   \* InputMethodCore.last_predictions
  used    \* history: the requested keys, in the order of their last use

vars == <<facts, cache, last, used>>

Keys == Stems \X Scopes
None == [kind |-> "none"]
\* BPE and technical suggestions come from tables that never change.
FromTables == [kind |-> "tables"]

Init ==
  /\ facts = [vocab |-> {}, profile |-> 0, session |-> 0, weights |-> 0,
              feedback |-> 0, seen |-> 0, dirty |-> FALSE, table |-> 0]
  /\ cache = <<>>
  /\ last = None
  /\ used = <<>>

-----------------------------------------------------------------------------
(* cache.rs *)

At(c, k) == CHOOSE i \in DOMAIN c : c[i].key = k /\ \A j \in 1..(i - 1) : c[j].key # k
Holds(c, k) == \E i \in DOMAIN c : c[i].key = k
Without(c, k) == IF Holds(c, k) THEN RemoveAt(c, At(c, k)) ELSE c

\* An entry is fresh while its generation is the cache's.
Hit(c, k) == Holds(c, k) /\ c[At(c, k)].fresh

SlipPromoted(c, k) == c
\* A hit moves its entry to the most recently used end.
Promoted(c, k) == Append(Without(c, k), c[At(c, k)])

Put(c, k, a) ==
  LET others == Without(c, k)
      kept == IF Len(others) >= Capacity THEN Tail(others) ELSE others
  IN  Append(kept, [key |-> k, answer |-> a, fresh |-> TRUE])

SlipInvalidated(c) == IF Len(c) > Capacity \div 2 THEN <<>> ELSE c
\* A new generation makes every entry stale; a cache more than half full is
\* emptied at once.
Invalidated(c) ==
  IF Len(c) > Capacity \div 2 THEN <<>> ELSE [i \in DOMAIN c |-> [c[i] EXCEPT !.fresh = FALSE]]

\* The history without a key.
Forgotten(u, k) ==
  IF \E i \in DOMAIN u : u[i] = k THEN RemoveAt(u, CHOOSE i \in DOMAIN u : u[i] = k) ELSE u

-----------------------------------------------------------------------------
(* predict() *)

Candidates(f, p) == Matches[p] \cap (Corpus \cup f.vocab)

\* The calibration table in force: none before MinObservations, rebuilt at the
\* first use after it was marked.
Table(f) == IF f.dirty THEN f.seen ELSE f.table

Scored(f) == [kind |-> "scored", profile |-> f.profile, session |-> f.session,
              weights |-> f.weights, table |-> Table(f)]

Answer(f, p) ==
  IF Candidates(f, p) # {} THEN Scored(f)
  ELSE IF p \in Fallback THEN FromTables ELSE None

\* Scoring is what asks for the calibration table.
Calibrated(f, p) ==
  IF Candidates(f, p) # {} THEN [f EXCEPT !.dirty = FALSE, !.table = Table(f)] ELSE f

\* compute_ghost_suffix() of a word with a letter while completions can be shown.
Predict(k) ==
  /\ IF Hit(cache, k)
     THEN /\ last' = cache[At(cache, k)].answer
          /\ cache' = Promoted(cache, k)
          /\ UNCHANGED facts
     ELSE /\ last' = Answer(facts, k[1])
          /\ facts' = Calibrated(facts, k[1])
          /\ cache' = IF last' = None THEN Without(cache, k) ELSE Put(cache, k, last')
  /\ used' = Append(Forgotten(used, k), k)

-----------------------------------------------------------------------------
(* What the core learns. No request comes between the calls of one handler, and *)
(* the last of them invalidates the cache, so one invalidation stands for all.  *)

Learned(f) == [f EXCEPT !.profile = @ + 1]
ObservedInSession(f) == [f EXCEPT !.session = @ + 1]
Kept(f, w) == [f EXCEPT !.vocab = @ \cup {w}]

\* commit_word_with_evidence(): the counters and Markov chains, the session, the
\* vocabulary of words of three characters and more, the typing regime.
Committed(f, w, long) ==
  LET observed == ObservedInSession(Learned(f)) IN IF long THEN Kept(observed, w) ELSE observed

Observed(f) ==
  [f EXCEPT !.seen = @ + 1, !.dirty = @ \/ (f.seen + 1) % MinObservations = 0]

Accepted(f) == [f EXCEPT !.weights = @ + 1, !.feedback = (@ + 1) % DecayInterval]

\* With Hedge, a rejection counts towards the next reset of the weights.
Rejected(f) ==
  IF ~UseHedge THEN f
  ELSE [f EXCEPT !.feedback = (@ + 1) % DecayInterval,
                 !.weights = IF (f.feedback + 1) % DecayInterval = 0 THEN @ + 1 ELSE @]

\* A boundary, or a focus loss, commits the word as typed.
Commit(w, long) ==
  /\ facts.profile < MaxProfile
  /\ facts' = Committed(facts, w, long)
  /\ cache' = Invalidated(cache)
  /\ last' = None
  /\ UNCHANGED used

\* accept_ghost_completion(): a completion is shown, so there are predictions.
Accept(w, long) ==
  /\ last # None
  /\ facts.profile < MaxProfile /\ facts.seen < MaxSeen
  /\ facts' = Committed(Accepted(Observed(facts)), w, long)
  /\ cache' = Invalidated(cache)
  /\ last' = None
  /\ UNCHANGED used

\* on_prediction_rejected() invalidates only where it can change the weights.
Escaped(c) == IF UseHedge THEN Invalidated(c) ELSE c

\* Escape dismisses a completion.
Escape ==
  /\ last # None
  /\ facts.seen < MaxSeen
  /\ facts' = Rejected(Observed(facts))
  /\ cache' = Escaped(cache)
  /\ last' = None
  /\ UNCHANGED used

\* reset_word(), or a word no completion is looked up for.
EndWord == last' = None /\ UNCHANGED <<facts, cache, used>>

\* cursor_moved() forgets the session; the cache is not told.
CursorMoved ==
  /\ facts' = [facts EXCEPT !.session = 0]
  /\ last' = None
  /\ UNCHANGED <<cache, used>>

\* import_personal_profile(): another vocabulary, other counters and weights.
Import(vocab, feedback) ==
  /\ facts.profile < MaxProfile
  /\ facts' = [facts EXCEPT !.vocab = vocab, !.profile = @ + 1,
                            !.weights = @ + 1, !.feedback = feedback]
  /\ cache' = Invalidated(cache)
  /\ UNCHANGED <<last, used>>

Next ==
  \/ \E k \in Keys : Predict(k)
  \/ \E w \in Words, long \in BOOLEAN : Commit(w, long) \/ Accept(w, long)
  \/ Escape
  \/ EndWord
  \/ CursorMoved
  \/ \E vocab \in SUBSET Words, feedback \in 0..(DecayInterval - 1) : Import(vocab, feedback)

Spec == Init /\ [][Next]_vars

-----------------------------------------------------------------------------
Answers ==
  {None, FromTables} \cup
    [kind : {"scored"}, profile : Nat, session : Nat, weights : Nat, table : Nat]

\* The types of the state; an empty answer is never cached.
TypeOK ==
  /\ facts \in [vocab : SUBSET Words, profile : Nat, session : Nat, weights : Nat,
                feedback : Nat, seen : Nat, dirty : BOOLEAN, table : Nat]
  /\ cache \in Seq([key : Keys, answer : Answers \ {None}, fresh : BOOLEAN])
  /\ last \in Answers
  /\ used \in Seq(Keys)

\* Two answers rest on the same learning. Session words may be missing from the
\* later one when the cursor moved away since and nothing was committed.
SameEvidence(a, now) ==
  \/ a = now
  \/ /\ a.kind = "scored" /\ now.kind = "scored" /\ now.session = 0
     /\ [a EXCEPT !.session = 0] = now

\* An entry that can still be served says what predict() would compute now: no
\* word learned, accepted or rejected, no profile loaded and no calibration is
\* missed because the answer was cached. The one exception is a session that
\* cursor_moved() has cleared, until the next commit.
HitsAreCurrent ==
  \A i \in DOMAIN cache :
    cache[i].fresh => SameEvidence(cache[i].answer, Answer(facts, cache[i].key[1]))

\* The cache never outgrows its capacity, answers a request from one entry only
\* and gives up the entry that was used longest ago: its entries stand in the
\* order of their last use.
UsedBefore(k, l) == \E m, n \in DOMAIN used : m < n /\ used[m] = k /\ used[n] = l
LeastRecentFirst ==
  /\ Len(cache) <= Capacity
  /\ \A i, j \in DOMAIN cache :
       i < j => cache[i].key # cache[j].key /\ UsedBefore(cache[i].key, cache[j].key)
=============================================================================
