----------------------------- MODULE DualBuffer -----------------------------
(***************************************************************************)
(* The dual-interpretation buffer: the same physical keys read as English  *)
(* and as Bulgarian, scored against the corpus after every key.  The       *)
(* buffer is a record, one operator per method of the Rust struct; the     *)
(* actions are the handlers of InputMethodCore that call those methods, so *)
(* that the order of the calls is the code's.                              *)
(*                                                                         *)
(* The text of a reading is abstracted to its length and to the prefix     *)
(* support the corpus gives it.  Confidence is an exact fraction.          *)
(***************************************************************************)
EXTENDS Integers, Sequences, LockRules

CONSTANTS
  Support,       \* the corpus frequencies score_both may return
  LockPercent,   \* lock_threshold, in percent
  MinLockChars,  \* min_lock_chars
  MaxLen         \* longest word explored; bounds the model

ASSUME SupportAssumption == Support \subseteq Nat /\ 0 \in Support
ASSUME LockAssumption ==
  /\ LockPercent \in 0..100
  /\ MinLockChars \in Nat
  /\ MaxLen \in Nat

(* Operators named Slip... are wrong variants of the definition after them. *)

VARIABLES
  db,       \* the buffer; len = 0 stands for dual_buffer = None
  support   \* support[i]: what the corpus says of the first i characters

vars == <<db, support>>

Langs == {"En", "Bg"}
NoLang == "None"
Origins == {"Initial", "UnsupportedBoth", "PriorOnly", "Corpus"}
Other(lang) == IF lang = "En" THEN "Bg" ELSE "En"

-----------------------------------------------------------------------------
(* Methods of the struct.                                                  *)

New == [len |-> 0, winner |-> "En", lockedLang |-> NoLang, locked |-> FALSE,
        inferred |-> 0,              \* inferred_lock_len, 0 for None
        flip |-> FALSE, origin |-> "Initial",
        en |-> 1, bg |-> 1,          \* the scores, up to their common total
        confNum |-> 1, confDen |-> 2]

ConfidenceAtLeast(d, percent) == 100 * d.confNum >= percent * d.confDen

PushPair(d) == [d EXCEPT !.len = @ + 1]

LockInferred(d) ==
  [d EXCEPT !.locked = TRUE, !.lockedLang = d.winner, !.inferred = d.len]

PushWinnerChar(d) ==
  [d EXCEPT !.len = @ + 1, !.locked = TRUE, !.lockedLang = d.winner,
            !.inferred = 0]

ClearLock(d) == [d EXCEPT !.locked = FALSE, !.lockedLang = NoLang, !.inferred = 0]

SlipPopKeepsLock(d) ==
  IF d.len = 1 THEN New ELSE [d EXCEPT !.len = @ - 1]

SlipPopClearsEveryLock(d) ==
  IF d.len = 1 THEN New ELSE ClearLock([d EXCEPT !.len = @ - 1])

PopPair(d) ==
  LET popped == [d EXCEPT !.len = @ - 1]
  IN  IF popped.len = 0 THEN New
      ELSE IF popped.len < d.inferred THEN ClearLock(popped)
      ELSE popped

ExplicitlyLocked(d) == d.locked /\ d.inferred = 0

\* The branch of update_scores that has corpus support, before locking.
Scored(d, en, bg) ==
  LET winner == IF en >= bg THEN "En" ELSE "Bg"
      flips  == d.locked /\ winner # d.lockedLang
  IN  [d EXCEPT !.en = en, !.bg = bg, !.origin = "Corpus", !.winner = winner,
                !.confNum = IF en >= bg THEN en ELSE bg, !.confDen = en + bg,
                !.flip = @ \/ flips,
                !.lockedLang = IF flips THEN winner ELSE @,
                !.inferred = IF flips /\ @ > 0 THEN d.len ELSE @]

UpdateScores(d, en, bg) ==
  IF en + bg < 1
  THEN [d EXCEPT !.en = 1, !.bg = 1, !.confNum = 1, !.confDen = 2,
                 !.origin = "UnsupportedBoth"]
  ELSE LET scored == Scored(d, en, bg)
       IN  IF /\ ~d.locked
              /\ ConfidenceAtLeast(scored, LockPercent)
              /\ d.len >= MinLockChars
           THEN LockInferred(scored)
           ELSE scored

\* Thresholds of a lock that the surrounding language agrees with.
RelaxedPercent == IF LockPercent - 15 > 55 THEN LockPercent - 15 ELSE 55
RelaxedChars == IF MinLockChars > 1 THEN MinLockChars - 1 ELSE 1

SlipHintLocksFirstCharacter(d, prior) ==
  IF d.locked \/ prior = NoLang THEN d
  ELSE IF d.len = 1 /\ prior # d.winner
  THEN LockInferred([d EXCEPT !.winner = prior, !.confNum = 65, !.confDen = 100,
                              !.origin = "PriorOnly"])
  ELSE d

ApplyPriorLockHint(d, prior) ==
  IF d.locked \/ prior = NoLang THEN d
  ELSE IF d.len = 1 /\ prior # d.winner
  THEN [d EXCEPT !.winner = prior, !.confNum = 65, !.confDen = 100,
                 !.origin = "PriorOnly"]
  ELSE IF /\ prior = d.winner
          /\ ConfidenceAtLeast(d, RelaxedPercent)
          /\ d.len >= RelaxedChars
  THEN LockInferred(d)
  ELSE d

ApplySoftContextPrior(d, prior) ==
  LET en     == d.en * (IF prior = "En" THEN 65 ELSE 35)
      bg     == d.bg * (IF prior = "En" THEN 35 ELSE 65)
      winner == IF en >= bg THEN "En" ELSE "Bg"
  IN  IF d.locked \/ d.len < 2 \/ d.origin # "Corpus" \/ prior = NoLang
         \/ winner = d.winner
      THEN d
      ELSE [d EXCEPT !.winner = winner, !.origin = "PriorOnly",
                     !.confNum = IF en >= bg THEN en ELSE bg,
                     !.confDen = en + bg]

-----------------------------------------------------------------------------
(* Handlers.                                                               *)

\* The reading on display has no corpus support and the other one has.
DeadWinner(d, en, bg) ==
  IF d.winner = "En" THEN en = 0 /\ bg > 0 ELSE bg = 0 /\ en > 0

\* Scoring, then the two uses of the prior, in the order of the handler.
Rescore(d, en, bg, prior) ==
  ApplySoftContextPrior(ApplyPriorLockHint(UpdateScores(d, en, bg), prior), prior)

SlipLockNeverRecovers(d, en, bg, prior) ==
  IF d.locked THEN PushPair(d) ELSE Rescore(PushPair(d), en, bg, prior)

\* handle_dual_buffer_key: the flip flag is consumed by the same call.
AfterKey(d, en, bg, prior) ==
  LET pushed   == PushPair(d)
      rescored == IF /\ ~ExplicitlyLocked(pushed)
                     /\ ~d.locked \/ DeadWinner(pushed, en, bg)
                  THEN Rescore(pushed, en, bg, prior)
                  ELSE pushed
  IN  [rescored EXCEPT !.flip = FALSE]

SlipDeletionRescoresLocked(d, en, bg, prior) ==
  [UpdateScores(PopPair(d), en, bg) EXCEPT !.flip = FALSE]

AfterBackspace(d, en, bg, prior) ==
  LET popped == PopPair(d)
  IN  IF popped.locked THEN popped
      ELSE ApplySoftContextPrior(UpdateScores(popped, en, bg), prior)

\* A longer prefix never has more support than a shorter one.
Narrower(pair) ==
  support # <<>> => /\ pair[1] <= support[Len(support)][1]
                    /\ pair[2] <= support[Len(support)][2]

Key(en, bg, prior) ==
  /\ db.len < MaxLen
  /\ Narrower(<<en, bg>>)
  /\ support' = Append(support, <<en, bg>>)
  /\ db' = AfterKey(db, en, bg, prior)

\* Right arrow: the next character of the shown completion exists on a key.
AcceptCharacter(en, bg) ==
  /\ db.len \in 1..(MaxLen - 1)
  /\ Narrower(<<en, bg>>)
  /\ support' = Append(support, <<en, bg>>)
  /\ db' = PushWinnerChar(db)

Backspace(prior) ==
  /\ db.len > 1
  /\ support' = SubSeq(support, 1, db.len - 1)
  /\ LET pair == support[db.len - 1]
     IN  db' = AfterBackspace(db, pair[1], pair[2], prior)

\* A boundary, a cancel, or a Backspace that empties the word.
Finish ==
  /\ db.len > 0
  /\ support' = <<>>
  /\ db' = New

Init == db = New /\ support = <<>>

Next ==
  \/ \E en, bg \in Support, prior \in Langs \cup {NoLang} : Key(en, bg, prior)
  \/ \E en, bg \in Support : AcceptCharacter(en, bg)
  \/ \E prior \in Langs \cup {NoLang} : Backspace(prior)
  \/ Finish

Spec == Init /\ [][Next]_vars
-----------------------------------------------------------------------------
(* Properties.                                                             *)

Buffers ==
  [len : Nat, winner : Langs, lockedLang : Langs \cup {NoLang}, locked : BOOLEAN,
   inferred : Nat, flip : BOOLEAN, origin : Origins, en : Nat, bg : Nat,
   confNum : Nat, confDen : Nat \ {0}]

\* Types, and the support history matches the buffer.
TypeOK ==
  /\ db \in Buffers
  /\ support \in Seq(Nat \X Nat)
  /\ Len(support) = db.len

(***************************************************************************)
(* The three lock fields and the reading on display never disagree: a      *)
(* locked word shows its locked language, an inferred lock was decided by  *)
(* a prefix the word still has, and no flip outlives its handler.          *)
(***************************************************************************)
LockCoherent ==
  /\ db.locked => db.lockedLang = db.winner
  /\ ~db.locked => db.lockedLang = NoLang /\ db.inferred = 0
  /\ db.inferred <= db.len
  /\ ~db.flip
  /\ db.len = 0 => db = New

(***************************************************************************)
(* Context is a bias and never a lock (comment B9/F1 of                    *)
(* apply_prior_lock_hint): an inferred lock always rests on corpus support *)
(* that reaches the lower of the two lock thresholds.                      *)
(***************************************************************************)
LockFloor == IF LockPercent < RelaxedPercent THEN LockPercent ELSE RelaxedPercent

LockHasEvidence ==
  db.inferred > 0 =>
    /\ db.origin = "Corpus"
    /\ ConfidenceAtLeast(db, LockFloor)

(***************************************************************************)
(* The preedit never keeps a reading that no corpus word starts with while *)
(* the other reading is supported, unless the user pinned it or the word   *)
(* is one character long and follows the surrounding language.             *)
(***************************************************************************)
NoDeadWinner ==
  db.len > 0 /\ ~ExplicitlyLocked(db) /\ ~(db.len = 1 /\ db.origin = "PriorOnly")
    => ~DeadWinner(db, support[db.len][1], support[db.len][2])

(***************************************************************************)
(* A locked word changes script only when its inferred lock loses what it  *)
(* stood on: a deletion below the deciding prefix, or a key that leaves    *)
(* the locked reading dead.  An ordinary deletion or key never turns       *)
(* Cyrillic into Latin mid-word, and nothing overrides an explicit accept. *)
(***************************************************************************)
ScriptStable ==
  [][ (db.locked /\ db'.len > 0 /\ db'.winner # db.winner)
      => /\ db.inferred > 0
         /\ \/ db'.len < db.inferred
            \/ /\ db'.len = db.len + 1
               /\ DeadWinner(db, support'[db'.len][1], support'[db'.len][2])
    ]_vars

LockOf(d) ==
  IF d.len = 0 THEN NoLock
  ELSE IF ~d.locked THEN Open
  ELSE IF d.inferred = 0 THEN Pinned
  ELSE Inferred(d.inferred)

TL == INSTANCE TokenLock WITH len <- db.len, lock <- LockOf(db)

(***************************************************************************)
(* The scoring buffer implements the lock discipline the key handler       *)
(* relies on.                                                              *)
(***************************************************************************)
ImplementsTokenLock == TL!Spec
=============================================================================
