-------------------------- MODULE DualBufferProofs --------------------------
(***************************************************************************)
(* What DualBuffer guarantees for every corpus, threshold and word length. *)
(* The record operators come first, one lemma each; Sound is what all of   *)
(* them preserve, also in the middle of a handler, where the flip flag may *)
(* be up.                                                                  *)
(***************************************************************************)
EXTENDS DualBuffer, SequenceTheorems, TLAPS

Coherent(d) ==
  /\ d.locked => d.lockedLang = d.winner
  /\ ~d.locked => d.lockedLang = NoLang /\ d.inferred = 0
  /\ d.inferred <= d.len

Sound(d) == d \in Buffers /\ Coherent(d)

Priors == Langs \cup {NoLang}

\* A new buffer is sound and open.
LEMMA NewSound == Sound(New) /\ New.len = 0 /\ ~New.flip
  BY DEF New, Sound, Coherent, Buffers, Langs, Origins, NoLang

\* Pushing a pair of characters leaves the lock alone.
LEMMA PushPairSound ==
  ASSUME NEW d, Sound(d)
  PROVE  /\ Sound(PushPair(d))
         /\ PushPair(d).len = d.len + 1
         /\ PushPair(d).locked = d.locked
         /\ PushPair(d).inferred = d.inferred
         /\ PushPair(d).winner = d.winner
         /\ PushPair(d).flip = d.flip
  BY DEF PushPair, Sound, Coherent, Buffers

\* Accepting a character of the completion pins the script.
LEMMA PushWinnerCharSound ==
  ASSUME NEW d, Sound(d)
  PROVE  /\ Sound(PushWinnerChar(d))
         /\ PushWinnerChar(d).len = d.len + 1
         /\ PushWinnerChar(d).locked
         /\ PushWinnerChar(d).inferred = 0
         /\ PushWinnerChar(d).winner = d.winner
         /\ PushWinnerChar(d).flip = d.flip
<1> DEFINE e == PushWinnerChar(d)
<1>1. d.len + 1 \in Nat
  BY DEF Sound, Buffers
<1>2. e \in Buffers
  BY <1>1, Zenon DEF PushWinnerChar, Sound, Buffers
<1>3. /\ e.len = d.len + 1 /\ e.locked = TRUE /\ e.inferred = 0
      /\ e.lockedLang = d.winner /\ e.winner = d.winner /\ e.flip = d.flip
  BY SMT DEF PushWinnerChar, Sound, Buffers
<1> QED  BY <1>1, <1>2, <1>3 DEF Sound, Coherent

\* Deleting keeps a lock exactly when the deciding prefix is still there.
LEMMA PopPairSound ==
  ASSUME NEW d, Sound(d), d.len > 1
  PROVE  /\ Sound(PopPair(d))
         /\ PopPair(d).len = d.len - 1
         /\ PopPair(d).winner = d.winner
         /\ PopPair(d).flip = d.flip
         /\ d.len - 1 < d.inferred => ~PopPair(d).locked
         /\ d.len - 1 >= d.inferred => /\ PopPair(d).locked = d.locked
                                       /\ PopPair(d).inferred = d.inferred
<1> DEFINE e == [d EXCEPT !.len = @ - 1]
<1>1. d.len - 1 \in Nat /\ d.len - 1 # 0
  BY DEF Sound, Buffers
<1>2. e \in Buffers
  BY <1>1, Zenon DEF Sound, Buffers
<1>3. /\ e.len = d.len - 1 /\ e.locked = d.locked /\ e.inferred = d.inferred
      /\ e.lockedLang = d.lockedLang /\ e.winner = d.winner /\ e.flip = d.flip
  BY SMT DEF Sound, Buffers
<1>4. PopPair(d) = IF e.len < d.inferred THEN ClearLock(e) ELSE e
  BY <1>1, <1>3 DEF PopPair
<1>5. CASE d.len - 1 < d.inferred
  <2>1. PopPair(d) = ClearLock(e)
    BY <1>3, <1>4, <1>5
  <2>2. ClearLock(e) \in Buffers
    BY <1>2, Zenon DEF ClearLock, Buffers
  <2>3. /\ ClearLock(e).len = e.len /\ ClearLock(e).locked = FALSE
        /\ ClearLock(e).inferred = 0 /\ ClearLock(e).lockedLang = NoLang
        /\ ClearLock(e).winner = e.winner /\ ClearLock(e).flip = e.flip
    BY <1>2, SMT DEF ClearLock, Buffers
  <2> QED  BY <1>1, <1>3, <1>5, <2>1, <2>2, <2>3 DEF Sound, Coherent, Buffers
<1>6. CASE d.len - 1 >= d.inferred
  BY <1>1, <1>2, <1>3, <1>4, <1>6 DEF Sound, Coherent, Buffers
<1> QED  BY <1>1, <1>5, <1>6 DEF Sound, Buffers

-----------------------------------------------------------------------------
(* Scoring and the prior.                                                  *)

\* An inferred lock rests on the corpus (the body of LockHasEvidence).
Evident(d) ==
  d.inferred > 0 => d.origin = "Corpus" /\ ConfidenceAtLeast(d, LockFloor)

\* Scoring e from d kept the lock, or inferred one from the whole word.
Relocked(d, e) ==
  /\ e.len = d.len
  /\ \/ /\ e.locked <=> d.locked
        /\ e.inferred = d.inferred
        /\ d.locked => e.winner = d.winner
     \/ e.locked /\ e.inferred = d.len /\ ~ExplicitlyLocked(d)

\* d was just scored: it has the scores given, or neither has support.
Fresh(d, en, bg) ==
  \/ d.origin = "Corpus" /\ d.en = en /\ d.bg = bg /\ en + bg >= 1
  \/ d.origin = "UnsupportedBoth" /\ d.confNum = 1 /\ d.confDen = 2

\* Only a first character may show a reading that is dead.
Alive(d, en, bg) == DeadWinner(d, en, bg) => d.len = 1 /\ d.origin = "PriorOnly"

\* The thresholds are percentages, and the floor is below both.
LEMMA Floors ==
  /\ LockFloor \in 0..100 /\ RelaxedPercent \in 55..100
  /\ LockFloor <= LockPercent /\ LockFloor <= RelaxedPercent
  BY LockAssumption DEF LockFloor, RelaxedPercent

\* More confidence than a threshold is more than every lower one.
LEMMA ConfidenceMonotone ==
  ASSUME NEW d, d.confNum \in Nat, d.confDen \in Nat,
         NEW p \in Nat, NEW q \in Nat, q <= p, ConfidenceAtLeast(d, p)
  PROVE  ConfidenceAtLeast(d, q)
<1>1. \A a, b, c \in Nat : a <= b => a * c <= b * c
  OBVIOUS
<1>2. q * d.confDen <= p * d.confDen
  BY <1>1
<1>3. q * d.confDen \in Nat /\ p * d.confDen \in Nat
  OBVIOUS
<1> QED  BY <1>2, <1>3 DEF ConfidenceAtLeast

\* Scoring with corpus support keeps the three lock fields together.
LEMMA ScoredSound ==
  ASSUME NEW d, Sound(d), NEW en \in Nat, NEW bg \in Nat, en + bg >= 1
  PROVE  LET e == Scored(d, en, bg)
         IN  /\ Sound(e)
             /\ e.len = d.len /\ e.locked = d.locked
             /\ e.winner = IF en >= bg THEN "En" ELSE "Bg"
             /\ e.origin = "Corpus"
             /\ e.confNum = IF en >= bg THEN en ELSE bg
             /\ e.confDen = en + bg
             /\ e.en = en /\ e.bg = bg
             /\ e.inferred = d.inferred \/ (e.inferred = d.len /\ d.inferred > 0)
             /\ d.inferred > 0 => \/ e.inferred = d.inferred /\ e.winner = d.winner
                                 \/ e.inferred = d.len
             /\ ~d.locked => e.flip = d.flip
<1> DEFINE w == IF en >= bg THEN "En" ELSE "Bg"
           top == IF en >= bg THEN en ELSE bg
           flips == d.locked /\ w # d.lockedLang
           f == (d.flip \/ flips)
           l == IF flips THEN w ELSE d.lockedLang
           n == IF flips /\ d.inferred > 0 THEN d.len ELSE d.inferred
           e == Scored(d, en, bg)
<1>1. /\ w \in Langs /\ top \in Nat /\ en + bg \in Nat \ {0}
      /\ n \in Nat /\ n <= d.len
      /\ l \in Langs \cup {NoLang}
      /\ n = d.inferred \/ (n = d.len /\ d.inferred > 0)
  BY DEF Sound, Coherent, Buffers, Langs
<1>2. f \in BOOLEAN
  BY Zenon DEF Sound, Buffers
<1>3. e = [d EXCEPT !.en = en, !.bg = bg, !.origin = "Corpus", !.winner = w,
                    !.confNum = top, !.confDen = en + bg,
                    !.flip = f, !.lockedLang = l, !.inferred = n]
  BY Zenon DEF Scored
<1> HIDE DEF f, l, n, top, w, e
<1>4. e \in Buffers
  BY <1>1, <1>2, <1>3, Zenon DEF Sound, Buffers, Origins
<1>5. /\ e.len = d.len /\ e.locked = d.locked /\ e.winner = w
      /\ e.origin = "Corpus" /\ e.confNum = top /\ e.confDen = en + bg
      /\ e.inferred = n /\ e.lockedLang = l /\ e.flip = f
      /\ e.en = en /\ e.bg = bg
  BY <1>3, Zenon DEF Sound, Buffers
<1>6. Coherent(e)
  <2>1. CASE ~d.locked
    <3>1. l = NoLang /\ n = 0
      BY <2>1 DEF l, n, Sound, Coherent
    <3> QED  BY <1>1, <1>5, <2>1, <3>1 DEF Coherent
  <2>2. CASE d.locked
    <3>1. l = w
      BY <2>2 DEF l
    <3> QED  BY <1>1, <1>5, <2>2, <3>1 DEF Coherent
  <2> QED  BY <2>1, <2>2
<1>7. ~d.locked => e.flip = d.flip
  BY <1>5, Zenon DEF f, Sound, Buffers
<1>8. d.inferred > 0 => (n = d.inferred /\ w = d.winner) \/ n = d.len
  BY DEF n, Sound, Coherent
<1> QED  BY <1>1, <1>4, <1>5, <1>6, <1>7, <1>8 DEF Sound, w, top, e

\* An inferred lock is decided by the whole word on display.
LEMMA LockInferredSound ==
  ASSUME NEW d, Sound(d)
  PROVE  LET e == LockInferred(d)
         IN  /\ Sound(e)
             /\ e.len = d.len /\ e.locked /\ e.inferred = d.len
             /\ e.winner = d.winner /\ e.origin = d.origin
             /\ e.confNum = d.confNum /\ e.confDen = d.confDen
             /\ e.flip = d.flip /\ e.en = d.en /\ e.bg = d.bg
<1> DEFINE e == LockInferred(d)
<1>1. e \in Buffers
  BY Zenon DEF LockInferred, Sound, Buffers
<1>2. /\ e.len = d.len /\ e.locked = TRUE /\ e.inferred = d.len
      /\ e.winner = d.winner /\ e.lockedLang = d.winner /\ e.origin = d.origin
      /\ e.confNum = d.confNum /\ e.confDen = d.confDen /\ e.flip = d.flip
      /\ e.en = d.en /\ e.bg = d.bg
  BY Zenon DEF LockInferred, Sound, Buffers
<1> QED  BY <1>1, <1>2 DEF Sound, Coherent, Buffers

\* Scores that leave one reading dead give the other full confidence.
LEMMA DeadGivesConfidence ==
  ASSUME NEW d, Sound(d), NEW en \in Nat, NEW bg \in Nat,
         DeadWinner(d, en, bg)
  PROVE  en + bg >= 1 /\ ConfidenceAtLeast(Scored(d, en, bg), LockFloor)
<1>1. en + bg >= 1 /\ (en = 0 \/ bg = 0)
  BY DEF DeadWinner, Sound, Buffers, Langs
<1> DEFINE e == Scored(d, en, bg)
<1>0. e.confNum = (IF en >= bg THEN en ELSE bg) /\ e.confDen = en + bg
  BY <1>1, ScoredSound
<1> HIDE DEF e
<1>2. e.confNum = en + bg /\ e.confDen = en + bg
  BY <1>0, <1>1
<1>3. ConfidenceAtLeast(e, 100)
  BY <1>1, <1>2 DEF ConfidenceAtLeast
<1>4. LockFloor \in Nat /\ LockFloor <= 100
  BY Floors
<1>5. e.confNum \in Nat /\ e.confDen \in Nat
  BY <1>2
<1>6. ConfidenceAtLeast(e, LockFloor)
  BY <1>3, <1>4, <1>5, ConfidenceMonotone
<1> QED  BY <1>1, <1>6 DEF e

\* update_scores: the lock is kept, or decided by the whole word, on
\* evidence; the reading on display is never the dead one.
LEMMA UpdateScoresSound ==
  ASSUME NEW d, Sound(d), NEW en \in Nat, NEW bg \in Nat,
         ~ExplicitlyLocked(d)
  PROVE  LET u == UpdateScores(d, en, bg)
         IN  /\ Sound(u)
             /\ Relocked(d, u)
             /\ d.inferred = 0 \/ DeadWinner(d, en, bg) => Evident(u)
             /\ ~DeadWinner(u, en, bg)
             /\ ~d.locked => u.flip = d.flip
             /\ Fresh(u, en, bg)
<1> DEFINE u == UpdateScores(d, en, bg)
           e == Scored(d, en, bg)
<1>1. CASE en + bg < 1
  <2>1. u = [d EXCEPT !.en = 1, !.bg = 1, !.confNum = 1, !.confDen = 2,
                      !.origin = "UnsupportedBoth"]
    BY <1>1 DEF UpdateScores
  <2>2. 1 \in Nat /\ 2 \in Nat \ {0}
    OBVIOUS
  <2>3. u \in Buffers
    BY <2>1, <2>2, Zenon DEF Sound, Buffers, Origins
  <2>4. /\ u.len = d.len /\ u.locked = d.locked /\ u.inferred = d.inferred
        /\ u.winner = d.winner /\ u.lockedLang = d.lockedLang /\ u.flip = d.flip
        /\ u.origin = "UnsupportedBoth" /\ u.confNum = 1 /\ u.confDen = 2
    BY <2>1, Zenon DEF Sound, Buffers
  <2> HIDE DEF u
  <2>5. en = 0 /\ bg = 0
    BY <1>1
  <2>6. ~DeadWinner(u, en, bg) /\ ~DeadWinner(d, en, bg)
    BY <2>5 DEF DeadWinner
  <2>7. Relocked(d, u)
    BY <2>4, Zenon DEF Relocked
  <2>8. d.inferred = 0 => Evident(u)
    BY <2>4 DEF Evident
  <2> QED  BY <2>3, <2>4, <2>6, <2>7, <2>8 DEF Sound, Coherent, Fresh, u
<1>2. CASE en + bg >= 1
  <2>1. u = IF ~d.locked /\ ConfidenceAtLeast(e, LockPercent) /\ d.len >= MinLockChars
            THEN LockInferred(e) ELSE e
    BY <1>2 DEF UpdateScores
  <2>2. /\ Sound(e) /\ e.len = d.len /\ e.locked = d.locked
        /\ e.winner = IF en >= bg THEN "En" ELSE "Bg"
        /\ e.origin = "Corpus" /\ e.en = en /\ e.bg = bg
        /\ e.inferred = d.inferred \/ (e.inferred = d.len /\ d.inferred > 0)
        /\ d.inferred > 0 => \/ e.inferred = d.inferred /\ e.winner = d.winner
                            \/ e.inferred = d.len
        /\ ~d.locked => e.flip = d.flip
    BY <1>2, ScoredSound
  <2>3. e.confNum \in Nat /\ e.confDen \in Nat
    BY <2>2 DEF Sound, Buffers
  <2>4. DeadWinner(d, en, bg) => ConfidenceAtLeast(e, LockFloor)
    BY DeadGivesConfidence
  <2> HIDE DEF u, e
  <2>5. CASE u = e
    <3>1. ~DeadWinner(u, en, bg)
      BY <2>2, <2>5, <1>2 DEF DeadWinner
    <3>2. Relocked(d, u)
      <4>1. CASE ~d.locked
        <5>1. d.inferred = 0
          BY <4>1 DEF Sound, Coherent
        <5> QED  BY <2>2, <2>5, <4>1, <5>1 DEF Relocked
      <4>2. CASE d.locked
        <5>1. d.inferred > 0
          BY <4>2 DEF ExplicitlyLocked, Sound, Buffers
        <5> QED  BY <2>2, <2>5, <4>2, <5>1 DEF Relocked
      <4> QED  BY <4>1, <4>2
    <3>3. d.inferred = 0 \/ DeadWinner(d, en, bg) => Evident(u)
      BY <2>2, <2>4, <2>5 DEF Evident
    <3> QED  BY <2>2, <2>5, <3>1, <3>2, <3>3, <1>2 DEF Fresh, u
  <2>6. CASE /\ u = LockInferred(e)
             /\ ~d.locked /\ ConfidenceAtLeast(e, LockPercent)
    <3>1. /\ Sound(u) /\ u.len = e.len /\ u.locked /\ u.inferred = e.len
          /\ u.winner = e.winner /\ u.origin = e.origin
          /\ u.confNum = e.confNum /\ u.confDen = e.confDen
          /\ u.flip = e.flip /\ u.en = e.en /\ u.bg = e.bg
      BY <2>2, <2>6, LockInferredSound
    <3>2. ConfidenceAtLeast(e, LockFloor)
      BY <2>3, <2>6, Floors, LockAssumption, ConfidenceMonotone
    <3>3. Evident(u)
      BY <2>2, <3>1, <3>2 DEF Evident, ConfidenceAtLeast
    <3>4. Relocked(d, u)
      BY <2>2, <2>6, <3>1 DEF Relocked, ExplicitlyLocked
    <3>5. ~DeadWinner(u, en, bg)
      BY <2>2, <3>1, <1>2 DEF DeadWinner
    <3> QED  BY <2>2, <2>6, <3>1, <3>3, <3>4, <3>5, <1>2 DEF Fresh, u
  <2> QED  BY <2>1, <2>5, <2>6 DEF u
<1> QED  BY <1>1, <1>2

\* apply_prior_lock_hint: the prior alone never locks a word; it may turn
\* the reading of a first character.
LEMMA PriorLockHintSound ==
  ASSUME NEW d, Sound(d), NEW en \in Nat, NEW bg \in Nat, NEW prior \in Priors,
         Fresh(d, en, bg), ~DeadWinner(d, en, bg)
  PROVE  LET h == ApplyPriorLockHint(d, prior)
         IN  /\ Sound(h)
             /\ Relocked(d, h)
             /\ d.locked => h = d
             /\ Evident(d) => Evident(h)
             /\ Alive(h, en, bg)
             /\ h.flip = d.flip
             /\ h.origin = "Corpus" => h.en = en /\ h.bg = bg /\ en + bg >= 1
<1> DEFINE h == ApplyPriorLockHint(d, prior)
<1>1. CASE h = d
  <2>1. Relocked(d, d)
    BY Zenon DEF Relocked
  <2>2. Alive(d, en, bg) /\ (d.origin = "Corpus" => d.en = en /\ d.bg = bg /\ en + bg >= 1)
    BY DEF Alive, Fresh
  <2> HIDE DEF h
  <2> QED  BY <1>1, <2>1, <2>2 DEF h
<1>2. CASE /\ ~d.locked /\ prior # NoLang
           /\ d.len = 1
           /\ h = [d EXCEPT !.winner = prior, !.confNum = 65, !.confDen = 100,
                            !.origin = "PriorOnly"]
  <2>1. prior \in Langs /\ 65 \in Nat /\ 100 \in Nat \ {0}
    BY <1>2 DEF Priors
  <2> HIDE DEF h
  <2>2. h \in Buffers
    BY ZenonT(30), <1>2, <2>1 DEF Sound, Buffers, Origins
  <2>3. /\ h.len = d.len /\ h.locked = d.locked /\ h.inferred = d.inferred
        /\ h.lockedLang = d.lockedLang /\ h.flip = d.flip
        /\ h.origin = "PriorOnly"
    BY <1>2, Zenon DEF Sound, Buffers
  <2>4. Relocked(d, h)
    BY <1>2, <2>3, Zenon DEF Relocked
  <2>5. d.inferred = 0
    BY <1>2 DEF Sound, Coherent
  <2> QED  BY <1>2, <2>2, <2>3, <2>4, <2>5 DEF Sound, Coherent, Alive, Evident, h
<1>3. CASE /\ ~d.locked
           /\ ConfidenceAtLeast(d, RelaxedPercent)
           /\ h = LockInferred(d)
  <2> HIDE DEF h
  <2>1. /\ Sound(h) /\ h.len = d.len /\ h.locked /\ h.inferred = d.len
        /\ h.winner = d.winner /\ h.origin = d.origin
        /\ h.confNum = d.confNum /\ h.confDen = d.confDen
        /\ h.flip = d.flip /\ h.en = d.en /\ h.bg = d.bg
    BY <1>3, LockInferredSound
  <2>2. d.origin = "Corpus"
    <3>1. RelaxedPercent \in 55..100
      BY Floors
    <3>2. ~(d.confNum = 1 /\ d.confDen = 2)
      BY <1>3, <3>1 DEF ConfidenceAtLeast
    <3> QED  BY <3>2 DEF Fresh
  <2>3. d.confNum \in Nat /\ d.confDen \in Nat
    BY DEF Sound, Buffers
  <2>4. ConfidenceAtLeast(d, LockFloor)
    BY <1>3, <2>3, Floors, ConfidenceMonotone
  <2>5. Evident(h)
    BY <2>1, <2>2, <2>4 DEF Evident, ConfidenceAtLeast
  <2>6. Relocked(d, h)
    BY <1>3, <2>1 DEF Relocked, ExplicitlyLocked
  <2>7. Alive(h, en, bg)
    BY <2>1 DEF Alive, DeadWinner
  <2> QED  BY <1>3, <2>1, <2>2, <2>5, <2>6, <2>7 DEF Fresh, h
<1> QED  BY <1>1, <1>2, <1>3 DEF ApplyPriorLockHint

\* apply_soft_context_prior: the prior never touches a lock, and it cannot
\* bring back a reading that no corpus word starts with.
LEMMA SoftContextPriorSound ==
  ASSUME NEW d, Sound(d), NEW en \in Nat, NEW bg \in Nat, NEW prior \in Priors,
         Alive(d, en, bg),
         d.origin = "Corpus" => d.en = en /\ d.bg = bg /\ en + bg >= 1
  PROVE  LET s == ApplySoftContextPrior(d, prior)
         IN  /\ Sound(s)
             /\ s.len = d.len /\ s.locked = d.locked /\ s.inferred = d.inferred
             /\ s.flip = d.flip
             /\ d.locked => s = d
             /\ Evident(d) => Evident(s)
             /\ Alive(s, en, bg)
<1> DEFINE a == d.en * (IF prior = "En" THEN 65 ELSE 35)
           b == d.bg * (IF prior = "En" THEN 35 ELSE 65)
           w == IF a >= b THEN "En" ELSE "Bg"
           top == IF a >= b THEN a ELSE b
           s == ApplySoftContextPrior(d, prior)
<1>1. CASE s = d
  <2> HIDE DEF s
  <2> QED  BY <1>1, Zenon DEF s
<1>2. CASE /\ ~d.locked /\ d.len >= 2 /\ d.origin = "Corpus"
           /\ w # d.winner
           /\ s = [d EXCEPT !.winner = w, !.origin = "PriorOnly",
                            !.confNum = top, !.confDen = a + b]
  <2>1. d.en = en /\ d.bg = bg /\ en + bg >= 1
    BY <1>2
  <2>2. /\ a \in Nat /\ b \in Nat /\ a + b \in Nat \ {0}
        /\ en = 0 <=> a = 0
        /\ bg = 0 <=> b = 0
    <3>1. CASE prior = "En"
      BY <2>1, <3>1
    <3>2. CASE prior # "En"
      BY <2>1, <3>2
    <3> QED  BY <3>1, <3>2
  <2> HIDE DEF a, b
  <2>3. /\ w \in Langs /\ top \in Nat
        /\ w = "En" => en # 0 \/ bg = 0
        /\ w = "Bg" => bg # 0
    BY <2>2 DEF Langs
  <2> HIDE DEF w, top, s
  <2>4. s \in Buffers
    BY <1>2, <2>2, <2>3, Zenon DEF Sound, Buffers, Origins
  <2>5. /\ s.len = d.len /\ s.locked = d.locked /\ s.inferred = d.inferred
        /\ s.lockedLang = d.lockedLang /\ s.flip = d.flip /\ s.winner = w
    BY <1>2, Zenon DEF Sound, Buffers
  <2>6. d.inferred = 0 /\ d.lockedLang = NoLang
    BY <1>2 DEF Sound, Coherent
  <2>7. Alive(s, en, bg)
    BY <2>3, <2>5 DEF Alive, DeadWinner, Langs
  <2>8. Coherent(s)
    BY <1>2, <2>5, <2>6 DEF Sound, Coherent
  <2>9. Evident(s)
    BY <2>5, <2>6 DEF Evident
  <2> QED  BY <1>2, <2>4, <2>5, <2>7, <2>8, <2>9, Zenon DEF Sound, s
<1>3. s = IF d.locked \/ d.len < 2 \/ d.origin # "Corpus" \/ prior = NoLang
             \/ w = d.winner
          THEN d
          ELSE [d EXCEPT !.winner = w, !.origin = "PriorOnly",
                         !.confNum = top, !.confDen = a + b]
  BY Zenon DEF ApplySoftContextPrior
<1>4. d.len < 2 \/ d.len >= 2
  BY DEF Sound, Buffers
<1> HIDE DEF s, a, b, w, top
<1> QED  BY <1>1, <1>2, <1>3, <1>4 DEF s, a, b, w, top

-----------------------------------------------------------------------------
(* The handlers.                                                           *)

\* Scoring and then the prior, as both handlers of keys use them.
LEMMA RescoreSound ==
  ASSUME NEW d, Sound(d), NEW en \in Nat, NEW bg \in Nat, NEW prior \in Priors,
         ~d.locked \/ (d.inferred > 0 /\ DeadWinner(d, en, bg))
  PROVE  LET r == Rescore(d, en, bg, prior)
         IN  Sound(r) /\ Relocked(d, r) /\ Evident(r) /\ Alive(r, en, bg)
<1> DEFINE u == UpdateScores(d, en, bg)
           h == ApplyPriorLockHint(u, prior)
           r == ApplySoftContextPrior(h, prior)
<1>1. ~ExplicitlyLocked(d) /\ (d.inferred = 0 \/ DeadWinner(d, en, bg))
  BY DEF ExplicitlyLocked, Sound, Coherent
<1>2. /\ Sound(u) /\ Relocked(d, u) /\ Evident(u) /\ ~DeadWinner(u, en, bg)
      /\ Fresh(u, en, bg)
  BY <1>1, UpdateScoresSound
<1> HIDE DEF u
<1>3. /\ Sound(h) /\ Relocked(u, h) /\ (u.locked => h = u) /\ Evident(h)
      /\ Alive(h, en, bg)
      /\ h.origin = "Corpus" => h.en = en /\ h.bg = bg /\ en + bg >= 1
  BY <1>2, PriorLockHintSound
<1> HIDE DEF h
<1>4. /\ Sound(r) /\ r.len = h.len /\ r.locked = h.locked /\ r.inferred = h.inferred
      /\ (h.locked => r = h) /\ Evident(r) /\ Alive(r, en, bg)
  BY <1>3, SoftContextPriorSound
<1> HIDE DEF r
<1>5. Relocked(d, r)
  <2>1. CASE u.locked
    BY <1>2, <1>3, <1>4, <2>1
  <2>2. CASE ~u.locked
    <3>1. ~d.locked /\ u.inferred = d.inferred /\ u.len = d.len
      BY <1>2, <2>2 DEF Relocked
    <3> QED  BY <1>3, <1>4, <2>2, <3>1 DEF Relocked, ExplicitlyLocked
  <2> QED  BY <2>1, <2>2
<1> QED  BY <1>4, <1>5 DEF Rescore, u, h, r

\* Dropping the flip flag changes nothing else.
LEMMA FlipConsumed ==
  ASSUME NEW d, Sound(d)
  PROVE  LET e == [d EXCEPT !.flip = FALSE]
         IN  /\ Sound(e) /\ ~e.flip
             /\ e.len = d.len /\ e.inferred = d.inferred /\ e.winner = d.winner
             /\ e.origin = d.origin /\ e.locked <=> d.locked
             /\ Evident(d) => Evident(e)
             /\ \A en, bg : DeadWinner(e, en, bg) <=> DeadWinner(d, en, bg)
<1> DEFINE e == [d EXCEPT !.flip = FALSE]
<1>1. e \in Buffers
  BY Zenon DEF Sound, Buffers
<1>2. /\ e.flip = FALSE /\ e.len = d.len /\ e.inferred = d.inferred
      /\ e.winner = d.winner /\ e.lockedLang = d.lockedLang
      /\ e.origin = d.origin /\ e.locked = d.locked
      /\ e.confNum = d.confNum /\ e.confDen = d.confDen
  BY Zenon DEF Sound, Buffers
<1> HIDE DEF e
<1>3. Coherent(e) <=> Coherent(d)
  BY <1>2, Zenon DEF Coherent
<1>4. Evident(d) => Evident(e)
  BY <1>2, Zenon DEF Evident, ConfidenceAtLeast
<1>5. \A en, bg : DeadWinner(e, en, bg) <=> DeadWinner(d, en, bg)
  BY <1>2, Zenon DEF DeadWinner
<1> QED  BY <1>1, <1>2, <1>3, <1>4, <1>5, Zenon DEF Sound, e

\* A key leaves a standing lock alone, or scores the longer word afresh.
LEMMA AfterKeySound ==
  ASSUME NEW d, Sound(d), Evident(d),
         NEW en \in Nat, NEW bg \in Nat, NEW prior \in Priors
  PROVE  LET r == AfterKey(d, en, bg, prior)
         IN  /\ Sound(r) /\ ~r.flip /\ r.len = d.len + 1 /\ Evident(r)
             /\ \/ /\ d.locked /\ r.locked
                   /\ r.inferred = d.inferred /\ r.winner = d.winner
                   /\ d.inferred > 0 => ~DeadWinner(d, en, bg)
                \/ /\ ~d.locked \/ (d.inferred > 0 /\ DeadWinner(d, en, bg))
                   /\ \/ ~d.locked /\ ~r.locked
                      \/ r.locked /\ r.inferred = r.len
                   /\ Alive(r, en, bg)
<1> DEFINE p == PushPair(d)
           live == ~ExplicitlyLocked(p) /\ (~d.locked \/ DeadWinner(p, en, bg))
           q == IF live THEN Rescore(p, en, bg, prior) ELSE p
           r == AfterKey(d, en, bg, prior)
<1>1. /\ Sound(p) /\ p.len = d.len + 1 /\ p.locked = d.locked
      /\ p.inferred = d.inferred /\ p.winner = d.winner
  BY PushPairSound
<1>2. /\ p.origin = d.origin /\ p.confNum = d.confNum /\ p.confDen = d.confDen
  BY DEF PushPair, Sound, Buffers
<1> HIDE DEF p
<1>3. Evident(p)
  BY <1>1, <1>2 DEF Evident, ConfidenceAtLeast
<1>4. DeadWinner(p, en, bg) <=> DeadWinner(d, en, bg)
  BY <1>1 DEF DeadWinner
<1>5. r = [q EXCEPT !.flip = FALSE]
  BY Zenon DEF AfterKey, p
<1>6. d.locked /\ d.inferred = 0 <=> ExplicitlyLocked(p)
  BY <1>1 DEF ExplicitlyLocked
<1>7. d.inferred \in Nat /\ (d.inferred > 0 => d.locked)
  BY DEF Sound, Coherent, Buffers
<1>8. CASE live
  <2>1. ~p.locked \/ (p.inferred > 0 /\ DeadWinner(p, en, bg))
    BY <1>1, <1>6, <1>7, <1>8
  <2>2. Sound(q) /\ Relocked(p, q) /\ Evident(q) /\ Alive(q, en, bg)
    BY <1>1, <1>8, <2>1, RescoreSound
  <2> HIDE DEF q, r, live
  <2>3. \/ ~d.locked /\ ~q.locked
        \/ q.locked /\ q.inferred = q.len
    <3>1. CASE ~p.locked
      BY <1>1, <2>2, <3>1 DEF Relocked
    <3>2. CASE p.inferred > 0 /\ DeadWinner(p, en, bg)
      <4>1. p.locked /\ p.inferred # 0
        BY <1>1, <3>2 DEF Sound, Coherent, Buffers
      <4>2. DeadWinner(q, en, bg) => q.origin = "PriorOnly"
        BY <2>2 DEF Alive
      <4>3. q.locked /\ (q.inferred = q.len \/ q.winner = p.winner)
        BY <2>2, <4>1 DEF Relocked
      <4>4. CASE q.winner = p.winner /\ q.inferred # q.len
        <5>1. DeadWinner(q, en, bg)
          BY <3>2, <4>4 DEF DeadWinner
        <5>2. q.inferred = p.inferred /\ q.origin = "Corpus"
          BY <2>2, <3>2, <4>4 DEF Relocked, Evident
        <5> QED  BY <4>2, <5>1, <5>2
      <4> QED  BY <4>3, <4>4
    <3> QED  BY <2>1, <3>1, <3>2
  <2>4. Sound(r) /\ ~r.flip /\ r.len = q.len /\ Evident(r)
        /\ r.inferred = q.inferred /\ (r.locked <=> q.locked) /\ Alive(r, en, bg)
    BY <1>5, <2>2, FlipConsumed DEF Alive
  <2>5. q.len = d.len + 1
    BY <1>1, <2>2 DEF Relocked
  <2> QED  BY <1>1, <1>4, <1>7, <2>1, <2>3, <2>4, <2>5 DEF r
<1>9. CASE ~live
  <2>1. q = p
    BY <1>9
  <2>2. d.locked /\ (d.inferred > 0 => ~DeadWinner(d, en, bg))
    BY <1>4, <1>6, <1>7, <1>9
  <2> HIDE DEF q, r, live
  <2>3. Sound(r) /\ ~r.flip /\ r.len = p.len /\ Evident(r)
        /\ r.inferred = p.inferred /\ (r.locked <=> p.locked) /\ r.winner = p.winner
    BY <1>1, <1>3, <1>5, <2>1, FlipConsumed
  <2> QED  BY <1>1, <2>2, <2>3 DEF r
<1> QED  BY <1>8, <1>9

\* A deletion keeps what it can of the lock and never turns a kept one.
LEMMA AfterBackspaceSound ==
  ASSUME NEW d, Sound(d), Evident(d), ~d.flip, d.len > 1,
         NEW en \in Nat, NEW bg \in Nat, NEW prior \in Priors
  PROVE  LET r == AfterBackspace(d, en, bg, prior)
         IN  /\ Sound(r) /\ ~r.flip /\ r.len = d.len - 1 /\ Evident(r)
             /\ \/ /\ d.locked /\ r.locked /\ d.inferred <= r.len
                   /\ r.inferred = d.inferred /\ r.winner = d.winner
                \/ /\ ~d.locked \/ r.len < d.inferred
                   /\ ~r.locked \/ r.inferred = r.len
                   /\ Alive(r, en, bg)
<1> DEFINE p == PopPair(d)
           u == UpdateScores(p, en, bg)
           r == AfterBackspace(d, en, bg, prior)
<1>1. /\ Sound(p) /\ p.len = d.len - 1 /\ p.winner = d.winner /\ p.flip = d.flip
      /\ d.len - 1 < d.inferred => ~p.locked
      /\ d.len - 1 >= d.inferred => /\ p.locked = d.locked
                                    /\ p.inferred = d.inferred
  BY PopPairSound
<1>2. p.origin = d.origin /\ p.confNum = d.confNum /\ p.confDen = d.confDen
  BY DEF PopPair, ClearLock, Sound, Buffers
<1>3. r = IF p.locked THEN p ELSE ApplySoftContextPrior(u, prior)
  BY DEF AfterBackspace
<1>4. d.len \in Nat /\ d.inferred \in Nat
  BY DEF Sound, Buffers
<1> HIDE DEF p, u
<1>5. CASE p.locked
  <2>1. d.len - 1 >= d.inferred
    BY <1>1, <1>4, <1>5
  <2>2. Evident(p)
    BY <1>1, <1>2, <2>1 DEF Evident, ConfidenceAtLeast
  <2> QED  BY <1>1, <1>3, <1>5, <2>1, <2>2
<1>6. CASE ~p.locked
  <2>1. p.inferred = 0 /\ ~ExplicitlyLocked(p)
    BY <1>1, <1>6 DEF Sound, Coherent, ExplicitlyLocked
  <2>2. /\ Sound(u) /\ Relocked(p, u) /\ Evident(u) /\ ~DeadWinner(u, en, bg)
        /\ u.flip = p.flip /\ Fresh(u, en, bg)
    BY <1>1, <1>6, <2>1, UpdateScoresSound DEF u
  <2> DEFINE s == ApplySoftContextPrior(u, prior)
  <2>3. /\ Sound(s) /\ s.len = u.len /\ s.locked = u.locked
        /\ s.inferred = u.inferred /\ s.flip = u.flip /\ Evident(s)
        /\ Alive(s, en, bg)
    BY <2>2, SoftContextPriorSound DEF Fresh, Alive
  <2>4. r = s
    BY <1>3, <1>6
  <2> HIDE DEF s, r
  <2>5. ~r.flip
    BY <1>1, <2>2, <2>3, <2>4
  <2>6. r.len = d.len - 1 /\ (~r.locked \/ r.inferred = r.len)
    BY <1>1, <1>6, <2>2, <2>3, <2>4 DEF Relocked
  <2>7. ~d.locked \/ r.len < d.inferred
    BY <1>1, <1>4, <1>6, <2>6
  <2> QED  BY <2>3, <2>4, <2>5, <2>6, <2>7 DEF r
<1> QED  BY <1>5, <1>6

-----------------------------------------------------------------------------
(* The inductive invariant.  What the listed invariants lack is a reason   *)
(* why a deletion cannot expose a dead reading: an inferred lock was alive *)
(* at every length it has stood through, so at each one it may return to.  *)

LiveThroughout ==
  \A i \in db.inferred..db.len :
    db.inferred > 0 => ~DeadWinner(db, support[i][1], support[i][2])

OpenIsAlive ==
  db.len > 0 /\ ~db.locked => Alive(db, support[db.len][1], support[db.len][2])

Matching == support \in Seq(Nat \X Nat) /\ Len(support) = db.len

IInv ==
  /\ Sound(db) /\ ~db.flip /\ Evident(db)
  /\ db.len = 0 => db = New
  /\ Matching
  /\ LiveThroughout
  /\ OpenIsAlive

LEMMA InitIInv == Init => IInv
<1> SUFFICES ASSUME Init PROVE IInv
  OBVIOUS
<1>1. Sound(db) /\ db.len = 0 /\ ~db.flip /\ db.inferred = 0
  BY NewSound DEF Init, New
<1> QED  BY <1>1 DEF Init, IInv, Evident, Matching, LiveThroughout, OpenIsAlive

\* One more pair of supports, and the ones before it unchanged.
LEMMA SupportGrows ==
  ASSUME Matching, NEW en \in Support, NEW bg \in Support,
         support' = Append(support, <<en, bg>>), db'.len = db.len + 1
  PROVE  /\ Matching'
         /\ support'[db'.len][1] = en /\ support'[db'.len][2] = bg
         /\ \A i \in 1..db.len : support'[i] = support[i]
<1>1. <<en, bg>> \in Nat \X Nat
  BY SupportAssumption
<1>2. /\ support' \in Seq(Nat \X Nat) /\ Len(support') = Len(support) + 1
      /\ \A i \in 1..Len(support) : support'[i] = support[i]
      /\ support'[Len(support) + 1] = <<en, bg>>
  BY <1>1, AppendProperties DEF Matching
<1> QED  BY <1>2 DEF Matching

\* The supports of the prefixes that are left.
LEMMA SupportShrinks ==
  ASSUME Matching, db.len \in Nat, db.len > 1,
         support' = SubSeq(support, 1, db.len - 1), db'.len = db.len - 1
  PROVE  Matching' /\ \A i \in 1..db'.len : support'[i] = support[i]
<1>1. \A i \in 1..(db.len - 1) : support[i] \in Nat \X Nat
  BY ElementOfSeq DEF Matching
<1>2. /\ support' \in Seq(Nat \X Nat) /\ Len(support') = db.len - 1
      /\ \A i \in 1..(db.len - 1) : support'[i] = support[i]
  BY <1>1, SubSeqProperties DEF Matching
<1> QED  BY <1>2 DEF Matching

LEMMA KeyIInv ==
  ASSUME IInv, NEW en \in Support, NEW bg \in Support, NEW prior \in Priors,
         Key(en, bg, prior)
  PROVE  IInv'
<1>1. /\ Sound(db') /\ ~db'.flip /\ db'.len = db.len + 1 /\ Evident(db')
      /\ \/ /\ db.locked /\ db'.locked
            /\ db'.inferred = db.inferred /\ db'.winner = db.winner
            /\ db.inferred > 0 => ~DeadWinner(db, en, bg)
         \/ /\ ~db'.locked \/ db'.inferred = db'.len
            /\ Alive(db', en, bg)
  BY ZenonT(30), AfterKeySound, SupportAssumption DEF IInv, Key
<1>2. db.len \in Nat /\ db.inferred \in Nat /\ db'.len \in Nat /\ db'.inferred \in Nat
  BY <1>1 DEF IInv, Sound, Buffers
<1>3. /\ Matching'
      /\ support'[db'.len][1] = en /\ support'[db'.len][2] = bg
      /\ \A i \in 1..db.len : support'[i] = support[i]
  BY <1>1, SupportGrows DEF IInv, Key
<1>4. LiveThroughout'
  <2> SUFFICES ASSUME NEW i \in db'.inferred..db'.len, db'.inferred > 0
               PROVE  ~DeadWinner(db', support'[i][1], support'[i][2])
    BY DEF LiveThroughout
  <2>1. CASE /\ db'.inferred = db.inferred /\ db'.winner = db.winner
             /\ db.inferred > 0 => ~DeadWinner(db, en, bg)
    <3>1. CASE i = db'.len
      BY <1>3, <2>1, <3>1 DEF DeadWinner
    <3>2. CASE i # db'.len
      <4>1. i \in db.inferred..db.len /\ i \in 1..db.len
        BY <1>1, <1>2, <2>1, <3>2
      <4> QED  BY <1>3, <2>1, <4>1 DEF IInv, LiveThroughout, DeadWinner
    <3> QED  BY <3>1, <3>2
  <2>2. CASE (~db'.locked \/ db'.inferred = db'.len) /\ Alive(db', en, bg)
    <3>1. i = db'.len
      BY <1>1, <1>2, <2>2 DEF Sound, Coherent
    <3>2. db'.origin = "Corpus"
      BY <1>1 DEF Evident
    <3> QED  BY <1>3, <2>2, <3>1, <3>2 DEF Alive
  <2> QED  BY <1>1, <2>1, <2>2
<1>5. OpenIsAlive'
  BY <1>1, <1>3 DEF OpenIsAlive
<1>6. db'.len # 0
  BY <1>1, <1>2
<1> QED  BY <1>1, <1>3, <1>4, <1>5, <1>6 DEF IInv

LEMMA AcceptCharacterIInv ==
  ASSUME IInv, NEW en \in Support, NEW bg \in Support, AcceptCharacter(en, bg)
  PROVE  IInv'
<1>1. /\ Sound(db') /\ ~db'.flip /\ db'.len = db.len + 1
      /\ db'.locked /\ db'.inferred = 0
  BY PushWinnerCharSound DEF IInv, AcceptCharacter
<1>2. Matching'
  BY <1>1, SupportGrows DEF IInv, AcceptCharacter
<1>3. db'.len # 0
  BY <1>1 DEF IInv, Sound, Buffers
<1> QED  BY <1>1, <1>2, <1>3 DEF IInv, Evident, LiveThroughout, OpenIsAlive

LEMMA BackspaceIInv ==
  ASSUME IInv, NEW prior \in Priors, Backspace(prior)
  PROVE  IInv'
<1> DEFINE en == support[db.len - 1][1]
           bg == support[db.len - 1][2]
<1>1. db.len \in Nat /\ db.len > 1 /\ db.inferred \in Nat
  BY DEF IInv, Sound, Buffers, Backspace
<1>2. en \in Nat /\ bg \in Nat
  <2>1. support[db.len - 1] \in Nat \X Nat
    BY <1>1, ElementOfSeq DEF IInv, Matching
  <2> QED  BY <2>1
<1>3. db' = AfterBackspace(db, en, bg, prior)
  BY DEF Backspace
<1> HIDE DEF en, bg
<1>4. /\ Sound(db') /\ ~db'.flip /\ db'.len = db.len - 1 /\ Evident(db')
      /\ \/ /\ db.locked /\ db'.locked
            /\ db'.inferred = db.inferred /\ db'.winner = db.winner
         \/ /\ ~db'.locked \/ db'.inferred = db'.len
            /\ Alive(db', en, bg)
  BY <1>1, <1>2, <1>3, AfterBackspaceSound DEF IInv
<1>5. Matching' /\ \A i \in 1..db'.len : support'[i] = support[i]
  BY <1>1, <1>4, SupportShrinks DEF IInv, Backspace
<1>6. support'[db'.len][1] = en /\ support'[db'.len][2] = bg
  BY <1>1, <1>4, <1>5 DEF en, bg
<1>7. LiveThroughout'
  <2> SUFFICES ASSUME NEW i \in db'.inferred..db'.len, db'.inferred > 0
               PROVE  ~DeadWinner(db', support'[i][1], support'[i][2])
    BY DEF LiveThroughout
  <2>1. CASE db'.inferred = db.inferred /\ db'.winner = db.winner
    <3>1. i \in db.inferred..db.len /\ i \in 1..db'.len
      BY <1>1, <1>4, <2>1
    <3> QED  BY <1>5, <2>1, <3>1 DEF IInv, LiveThroughout, DeadWinner
  <2>2. CASE (~db'.locked \/ db'.inferred = db'.len) /\ Alive(db', en, bg)
    <3>1. i = db'.len
      BY <1>1, <1>4, <2>2 DEF Sound, Coherent
    <3>2. db'.origin = "Corpus"
      BY <1>4 DEF Evident
    <3> QED  BY <1>6, <2>2, <3>1, <3>2 DEF Alive
  <2> QED  BY <1>4, <2>1, <2>2
<1>8. OpenIsAlive'
  BY <1>4, <1>6 DEF OpenIsAlive
<1>9. db'.len # 0
  BY <1>1, <1>4
<1> QED  BY <1>4, <1>5, <1>7, <1>8, <1>9 DEF IInv

\* Every step preserves the inductive invariant.
LEMMA NextIInv == IInv /\ [Next]_vars => IInv'
<1> SUFFICES ASSUME IInv, [Next]_vars PROVE IInv'
  OBVIOUS
<1>1. ASSUME NEW en \in Support, NEW bg \in Support, NEW prior \in Priors,
             Key(en, bg, prior)
      PROVE  IInv'
  BY <1>1, KeyIInv
<1>2. ASSUME NEW en \in Support, NEW bg \in Support, AcceptCharacter(en, bg)
      PROVE  IInv'
  BY <1>2, AcceptCharacterIInv
<1>3. ASSUME NEW prior \in Priors, Backspace(prior) PROVE IInv'
  BY <1>3, BackspaceIInv
<1>4. CASE Finish
  <2>1. Init'
    BY <1>4 DEF Finish, Init
  <2>2. Sound(db') /\ db'.len = 0 /\ ~db'.flip /\ db'.inferred = 0
    BY <2>1, NewSound DEF Init, New
  <2> QED  BY <2>1, <2>2 DEF Init, IInv, Evident, Matching, LiveThroughout, OpenIsAlive
<1>5. CASE UNCHANGED vars
  BY <1>5 DEF vars, IInv, Matching, LiveThroughout, OpenIsAlive
<1> QED  BY <1>1, <1>2, <1>3, <1>4, <1>5 DEF Next, Priors

\* The invariant holds in every state of every behaviour.
LEMMA SpecIInv == Spec => []IInv
<1>1. Init => IInv
  BY InitIInv
<1>2. IInv /\ [Next]_vars => IInv'
  BY NextIInv
<1> QED  BY <1>1, <1>2, PTL DEF Spec

-----------------------------------------------------------------------------
(* The listed properties.                                                  *)

(***************************************************************************)
(* The buffer's fields stay in their types and the history of supports has *)
(* one entry per character, whatever the sequence of keys.                 *)
(***************************************************************************)
THEOREM SpecTypeOK == Spec => []TypeOK
<1>1. IInv => TypeOK
  BY DEF IInv, Sound, Matching, TypeOK
<1> QED  BY <1>1, SpecIInv, PTL

(***************************************************************************)
(* locked, locked_lang, inferred_lock_len and the reading on display agree *)
(* after every handler, for every corpus and every pair of thresholds.     *)
(***************************************************************************)
THEOREM SpecLockCoherent == Spec => []LockCoherent
<1>1. IInv => LockCoherent
  BY DEF IInv, Sound, Coherent, LockCoherent
<1> QED  BY <1>1, SpecIInv, PTL

(***************************************************************************)
(* An inferred lock always rests on corpus evidence above the lower        *)
(* threshold: surrounding context alone never locks a word.                *)
(***************************************************************************)
THEOREM SpecLockHasEvidence == Spec => []LockHasEvidence
<1>1. IInv => LockHasEvidence
  BY DEF IInv, Evident, LockHasEvidence
<1> QED  BY <1>1, SpecIInv, PTL

(***************************************************************************)
(* A word never keeps a reading without support while the other reading    *)
(* has some; deletions are the reason for LiveThroughout.                  *)
(***************************************************************************)
THEOREM SpecNoDeadWinner == Spec => []NoDeadWinner
<1>1. IInv => NoDeadWinner
  <2> SUFFICES ASSUME IInv, db.len > 0, ~ExplicitlyLocked(db),
                      ~(db.len = 1 /\ db.origin = "PriorOnly")
               PROVE  ~DeadWinner(db, support[db.len][1], support[db.len][2])
    BY DEF NoDeadWinner
  <2>1. db.len \in Nat /\ db.inferred \in Nat /\ db.inferred <= db.len
    BY DEF IInv, Sound, Coherent, Buffers
  <2>2. CASE db.locked
    <3>1. db.inferred > 0
      BY <2>1, <2>2 DEF ExplicitlyLocked
    <3>2. db.len \in db.inferred..db.len
      BY <2>1
    <3> QED  BY <3>1, <3>2 DEF IInv, LiveThroughout
  <2>3. CASE ~db.locked
    BY <2>3 DEF IInv, OpenIsAlive, Alive
  <2> QED  BY <2>2, <2>3
<1> QED  BY <1>1, SpecIInv, PTL

(***************************************************************************)
(* A locked word changes script only by a deletion below its deciding      *)
(* prefix or a key that leaves the locked reading dead.                    *)
(***************************************************************************)
THEOREM SpecScriptStable == Spec => ScriptStable
<1> DEFINE Stable ==
      (db.locked /\ db'.len > 0 /\ db'.winner # db.winner)
        => /\ db.inferred > 0
           /\ \/ db'.len < db.inferred
              \/ /\ db'.len = db.len + 1
                 /\ DeadWinner(db, support'[db'.len][1], support'[db'.len][2])
<1>1. IInv /\ [Next]_vars => [Stable]_vars
  <2> SUFFICES ASSUME IInv, Next, db.locked, db'.len > 0, db'.winner # db.winner
               PROVE  Stable
    OBVIOUS
  <2>1. db.len \in Nat /\ db.inferred \in Nat
    BY DEF IInv, Sound, Buffers
  <2>2. ASSUME NEW en \in Support, NEW bg \in Support, NEW prior \in Priors,
               Key(en, bg, prior)
        PROVE  Stable
    <3>0. /\ Sound(db) /\ Evident(db) /\ db' = AfterKey(db, en, bg, prior)
          /\ en \in Nat /\ bg \in Nat
      BY <2>2, SupportAssumption DEF IInv, Key
    <3>1. /\ db'.len = db.len + 1
          /\ db.inferred > 0 /\ DeadWinner(db, en, bg)
      BY <3>0, AfterKeySound
    <3>2. support'[db'.len][1] = en /\ support'[db'.len][2] = bg
      BY <2>2, <3>1, SupportGrows DEF IInv, Key
    <3> QED  BY <3>1, <3>2
  <2>3. ASSUME NEW en \in Support, NEW bg \in Support, AcceptCharacter(en, bg)
        PROVE  Stable
    BY <2>3, PushWinnerCharSound DEF IInv, AcceptCharacter
  <2>4. ASSUME NEW prior \in Priors, Backspace(prior) PROVE Stable
    <3>1. db.len - 1 \in 1..Len(support) /\ db.len > 1
      BY SMTT(30), <2>1, <2>4 DEF IInv, Matching, Backspace
    <3>2. support[db.len - 1] \in Nat \X Nat
      BY <3>1, ElementOfSeq DEF IInv, Matching
    <3>3. db'.len < db.inferred
      BY <2>4, <3>1, <3>2, AfterBackspaceSound DEF IInv, Backspace
    <3> QED  BY SMTT(30), <2>1, <3>3, <2>4, <3>1, AfterBackspaceSound, <3>2 DEF IInv, Backspace
  <2>5. CASE Finish
    BY <2>5 DEF Finish, New
  <2> HIDE DEF Stable
  <2> QED  BY <2>2, <2>3, <2>4, <2>5 DEF Next, Priors
<1> QED  BY <1>1, SpecIInv, PTL DEF Spec, ScriptStable

(***************************************************************************)
(* The scoring buffer implements the lock discipline of TokenLock: every   *)
(* handler maps to the abstract operation of its name.                     *)
(***************************************************************************)
THEOREM SpecImplementsTokenLock == Spec => ImplementsTokenLock
<1>1. Init => TL!Init
  BY DEF Init, New, TL!Init, LockOf, NoLock, TL!NoLock
<1>2. IInv /\ [Next]_vars => [TL!Next]_(TL!vars)
  <2> USE DEF LockOf, NoLock, Open, Pinned, Inferred,
              TL!NoLock, TL!Open, TL!Pinned, TL!Inferred
  <2> SUFFICES ASSUME IInv, [Next]_vars PROVE [TL!Next]_(TL!vars)
    OBVIOUS
  <2>1. /\ db.len \in Nat /\ db.inferred \in Nat /\ db.inferred <= db.len
        /\ ~db.locked => db.inferred = 0
        /\ db.len = 0 => ~db.locked
    BY DEF IInv, Sound, Coherent, Buffers, New
  <2>2. ASSUME NEW en \in Support, NEW bg \in Support, NEW prior \in Priors,
               Key(en, bg, prior)
        PROVE  TL!Push
    <3>0. /\ Sound(db) /\ Evident(db) /\ db' = AfterKey(db, en, bg, prior)
          /\ en \in Nat /\ bg \in Nat
      BY <2>2, SupportAssumption DEF IInv, Key
    <3>1. /\ db'.len = db.len + 1
          /\ \/ /\ db.locked /\ db'.locked /\ db'.inferred = db.inferred
             \/ /\ ~db.locked \/ db.inferred > 0
                /\ (~db.locked /\ ~db'.locked) \/ (db'.locked /\ db'.inferred = db'.len)
      BY <3>0, AfterKeySound
    <3> QED  BY <2>1, <3>1 DEF TL!Push, TL!AfterPush
  <2>3. ASSUME NEW en \in Support, NEW bg \in Support, AcceptCharacter(en, bg)
        PROVE  TL!Accept
    <3>1. /\ db'.len = db.len + 1 /\ db'.locked /\ db'.inferred = 0 /\ db.len > 0
      BY <2>1, <2>3, PushWinnerCharSound DEF IInv, AcceptCharacter
    <3> QED  BY <2>1, <3>1 DEF TL!Accept
  <2>4. ASSUME NEW prior \in Priors, Backspace(prior) PROVE TL!Pop
    <3>1. db.len - 1 \in 1..Len(support) /\ db.len > 1
      BY SMTT(30), <2>1, <2>4 DEF IInv, Matching, Backspace
    <3>2. support[db.len - 1] \in Nat \X Nat
      BY <3>1, ElementOfSeq DEF IInv, Matching
    <3>3. /\ Sound(db') /\ db'.len = db.len - 1
          /\ \/ /\ db.locked /\ db'.locked /\ db.inferred <= db'.len
                /\ db'.inferred = db.inferred
             \/ /\ ~db.locked \/ db'.len < db.inferred
                /\ ~db'.locked \/ db'.inferred = db'.len
      BY <2>4, <3>1, <3>2, AfterBackspaceSound DEF IInv, Backspace
    <3> QED  BY <2>1, <3>1, <3>3 DEF TL!Pop, TL!AfterPop
  <2>5. CASE Finish
    BY <2>5 DEF Finish, New, TL!Finish, TL!Next
  <2>6. CASE UNCHANGED vars
    BY <2>6 DEF vars, TL!vars
  <2> QED  BY <2>2, <2>3, <2>4, <2>5, <2>6 DEF Next, TL!Next, Priors
<1> QED  BY <1>1, <1>2, SpecIInv, PTL DEF Spec, ImplementsTokenLock, TL!Spec
=============================================================================
