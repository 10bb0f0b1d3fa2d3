-------------------------- MODULE DirectDeliveryProofs --------------------------
(***************************************************************************)
(* Proofs about DirectDelivery, for any length of texts and words.         *)
(***************************************************************************)
EXTENDS DirectDelivery, SequenceTheorems, TLAPS

(* TypeOK in two parts: the provers treat the Booleans on their own. *)
Flags ==
  /\ direct \in BOOLEAN /\ want \in BOOLEAN /\ switch \in BOOLEAN /\ focused \in BOOLEAN
  /\ alive \in BOOLEAN /\ decided \in BOOLEAN /\ owned \in BOOLEAN /\ recent \in BOOLEAN
  /\ idle \in BOOLEAN /\ refocus \in BOOLEAN /\ erasing \in BOOLEAN

Sequences ==
  /\ word \in Seq(Scripts) /\ delivered \in Seq(Scripts) /\ pending \in Seq(Scripts)
  /\ text \in Texts
  /\ typed \in Nat

(* The word of direct mode that was not handed over is the pending one. *)
Word ==
  /\ InStep
  /\ direct /\ ~owned => pending = word
  /\ owned => direct /\ word # <<>>

(* Nothing waits without the focus: a text left for another loses nothing. *)
Count == EachKeyOnce /\ (~focused => Waiting = 0)

Inv == Flags /\ Sequences /\ Word /\ TimersBelong /\ Count

-----------------------------------------------------------------------------
(* Sequences.                                                              *)

LEMMA ReadingLen ==
  ASSUME NEW s \in Scripts, NEW n \in Nat
  PROVE  /\ Reading(s, n) \in Seq(Scripts) /\ Len(Reading(s, n)) = n
         /\ Reading(s, 0) = <<>>
  BY DEF Reading

LEMMA ErasedLen ==
  ASSUME NEW S, NEW q \in Seq(S)
  PROVE  /\ Erased(q) \in Seq(S) /\ Len(Erased(q)) = OneLess(Len(q))
         /\ (Len(q) <= 1 => Erased(q) = <<>>)
<1>1. CASE q = <<>>
  BY <1>1 DEF Erased, OneLess
<1>2. CASE q # <<>>
  <2>1. Len(q) \in Nat \ {0}
    BY <1>2
  <2>2. Erased(q) = SubSeq(q, 1, Len(q) - 1)
    BY <1>2 DEF Erased
  <2>3. SubSeq(q, 1, Len(q) - 1) \in Seq(S) /\ Len(SubSeq(q, 1, Len(q) - 1)) = Len(q) - 1
    <3>1. Len(q) - 1 \in Int /\ 1 \in Int /\ \A i \in 1..(Len(q) - 1) : q[i] \in S
      BY <2>1
    <3> DEFINE n == Len(q) - 1
    <3>2. n \in Nat /\ 1 \in Int /\ n \in Int /\ \A i \in 1..n : q[i] \in S
      BY <2>1, <3>1
    <3> HIDE DEF n
    <3>3. SubSeq(q, 1, n) \in Seq(S) /\ Len(SubSeq(q, 1, n)) = IF 1 <= n THEN n - 1 + 1 ELSE 0
      BY <3>2, SubSeqProperties
    <3>4. SubSeq(q, 1, n) \in Seq(S) /\ Len(SubSeq(q, 1, n)) = n
      BY <3>2, <3>3
    <3> QED
      BY <3>4 DEF n
  <2>4. Len(q) = 1 => SubSeq(q, 1, Len(q) - 1) = <<>>
    BY <2>3
  <2> QED
    BY <2>1, <2>2, <2>3, <2>4 DEF OneLess
<1> QED
  BY <1>1, <1>2

LEMMA RestLen ==
  ASSUME NEW S, NEW q \in Seq(S), NEW r \in Seq(S), Len(r) <= Len(q)
  PROVE  Rest(q, r) \in Seq(S) /\ Len(Rest(q, r)) = Len(q) - Len(r)
<1>1. Len(q) \in Nat /\ Len(r) \in Nat
  OBVIOUS
<1>2. Rest(q, r) = SubSeq(q, Len(r) + 1, Len(q))
  BY DEF Rest
<1>3. CASE Len(r) = Len(q)
  BY <1>1, <1>2, <1>3, SubSeqProperties
<1>4. CASE Len(r) < Len(q)
  BY <1>1, <1>2, <1>4, SubSeqProperties
<1> QED
  BY <1>1, <1>3, <1>4

LEMMA EmptyExtended ==
  ASSUME NEW S, NEW q \in Seq(S)
  PROVE  Extends(q, <<>>) /\ Rest(q, <<>>) = q
  BY DEF Extends, Rest

LEMMA ConcatExtends ==
  ASSUME NEW S, NEW q \in Seq(S), NEW r \in Seq(S)
  PROVE  Extends(q \o r, q) /\ Extends(q, q) /\ Len(q \o r) = Len(q) + Len(r) /\ q \o r \in Seq(S)
<1>1. q \o r \in Seq(S) /\ Len(q \o r) = Len(q) + Len(r)
  OBVIOUS
<1>2. SubSeq(q \o r, 1, Len(q)) = q
  OBVIOUS
<1>3. SubSeq(q, 1, Len(q)) = q
  OBVIOUS
<1> QED
  BY <1>1, <1>2, <1>3 DEF Extends

LEMMA WordIsText == Seq(Scripts) \subseteq Texts
  BY DEF Texts, Chars

-----------------------------------------------------------------------------
(* The characters that wait.                                               *)

WaitingIs ==
  Sequences /\ Word =>
    Waiting = IF direct /\ (owned \/ delivered # <<>>) THEN 0 ELSE Len(word)

LEMMA WaitingNow == WaitingIs
<1> SUFFICES ASSUME Sequences, Word
             PROVE  Waiting = IF direct /\ (owned \/ delivered # <<>>) THEN 0 ELSE Len(word)
  BY DEF WaitingIs
<1> USE DEF Sequences, Word, InStep
<1>1. CASE ~direct
  BY <1>1 DEF Waiting
<1>2. CASE direct /\ owned
  BY <1>2 DEF Waiting, Undelivered
<1>3. CASE direct /\ ~owned /\ delivered # <<>>
  BY <1>3 DEF Waiting, Undelivered
<1>4. CASE direct /\ ~owned /\ delivered = <<>>
  <2>1. pending = word
    BY <1>4
  <2>2. CASE word = <<>>
    BY <1>4, <2>1, <2>2 DEF Waiting, Undelivered
  <2>3. CASE word # <<>>
    BY <1>4, <2>1, <2>3 DEF Waiting, Undelivered
  <2> QED
    BY <2>2, <2>3
<1> QED
  BY <1>1, <1>2, <1>3, <1>4

LEMMA WaitingNext == WaitingIs'
  BY WaitingNow, PTL

(* The invariant in the form the steps use. *)
LEMMA Facts ==
  ASSUME Inv
  PROVE  /\ Flags /\ Sequences /\ TimersBelong
         /\ Len(word) \in Nat /\ Len(delivered) \in Nat /\ Len(text) \in Nat
         /\ (delivered # <<>> => direct /\ ~owned /\ delivered = word /\ pending = word)
         /\ (pending # <<>> => direct /\ ~owned /\ pending = word)
         /\ (decided /\ direct => pending = delivered)
         /\ (direct /\ ~owned => pending = word) /\ (owned => direct /\ word # <<>>)
         /\ Waiting = (IF direct /\ (owned \/ delivered # <<>>) THEN 0 ELSE Len(word))
         /\ typed = Len(text) + Waiting /\ (~focused => Waiting = 0)
  BY WaitingNow DEF Inv, Sequences, Texts, Word, InStep, Count, EachKeyOnce, WaitingIs

(* A step that ends the word, and leaves a text of the length typed. *)
LEMMA EndedInv ==
  ASSUME EndToken, direct' \in BOOLEAN, want' \in BOOLEAN, switch' \in BOOLEAN,
         focused' \in BOOLEAN, alive' \in BOOLEAN, recent' \in BOOLEAN, erasing' \in BOOLEAN,
         text' \in Texts, typed' = Len(text'),
         switch' => alive' /\ direct' /\ ~want'
  PROVE  Inv'
<1>1. /\ word' = <<>> /\ decided' = FALSE /\ owned' = FALSE /\ delivered' = <<>>
      /\ pending' = <<>> /\ idle' = FALSE /\ refocus' = FALSE
  BY DEF EndToken
<1>2. decided' \in BOOLEAN /\ owned' \in BOOLEAN /\ idle' \in BOOLEAN /\ refocus' \in BOOLEAN
  BY <1>1
<1>3. Flags'
  BY <1>2 DEF Flags
<1>4. Len(text') \in Nat /\ <<>> \in Seq(Scripts) /\ Len(<<>>) = 0
  BY DEF Texts
<1>5. Sequences'
  BY <1>1, <1>4 DEF Sequences
<1>6. Word' /\ TimersBelong'
  BY <1>1 DEF Word, InStep, TimersBelong
<1>7. Waiting' = 0
  BY <1>1, <1>4, <1>5, <1>6, WaitingNext DEF WaitingIs
<1>8. Count'
  BY <1>4, <1>7 DEF Count, EachKeyOnce
<1> QED
  BY <1>3, <1>5, <1>6, <1>8 DEF Inv

(* A step in the word of direct mode, which it leaves with w characters waiting. *)
LEMMA InWordInv ==
  ASSUME direct' = TRUE, focused' = TRUE, alive' = TRUE, switch' = FALSE, want' \in BOOLEAN,
         recent' \in BOOLEAN, erasing' \in BOOLEAN, refocus' = FALSE,
         decided' \in BOOLEAN, owned' \in BOOLEAN, idle' \in BOOLEAN,
         word' \in Seq(Scripts), delivered' \in Seq(Scripts), pending' \in Seq(Scripts),
         text' \in Texts,
         delivered' # <<>> => ~owned' /\ delivered' = word' /\ pending' = word',
         pending' # <<>> => ~owned', ~owned' => pending' = word',
         decided' => pending' = delivered',
         owned' => word' # <<>>,
         idle' => pending' # <<>> /\ pending' # delivered',
         typed' = Len(text') + (IF owned' \/ delivered' # <<>> THEN 0 ELSE Len(word'))
  PROVE  Inv'
<1>1. direct' \in BOOLEAN /\ focused' \in BOOLEAN /\ alive' \in BOOLEAN /\ switch' \in BOOLEAN
      /\ refocus' \in BOOLEAN
  OBVIOUS
<1>2. Flags'
  BY <1>1 DEF Flags
<1>3. Len(text') \in Nat /\ Len(word') \in Nat
  BY DEF Texts
<1>4. Sequences'
  BY <1>3 DEF Sequences
<1>5. Word'
  BY DEF Word, InStep
<1>6. TimersBelong'
  BY DEF TimersBelong, Undelivered
<1>7. Waiting' = IF owned' \/ delivered' # <<>> THEN 0 ELSE Len(word')
  BY <1>4, <1>5, WaitingNext DEF WaitingIs
<1>8. Count'
  BY <1>7 DEF Count, EachKeyOnce
<1> QED
  BY <1>2, <1>4, <1>5, <1>6, <1>8 DEF Inv

-----------------------------------------------------------------------------
(* Key presses in direct mode.                                             *)

LEMMA PressedFacts ==
  ASSUME Inv, Pressed
  PROVE  /\ direct' = TRUE /\ focused' = TRUE /\ alive' = TRUE /\ switch' = FALSE
         /\ direct /\ focused /\ ~switch /\ alive /\ ~refocus
         /\ want' = want /\ want' \in BOOLEAN /\ (refocus' = refocus => refocus' = FALSE)
         /\ direct' \in BOOLEAN /\ focused' \in BOOLEAN /\ alive' \in BOOLEAN /\ switch' \in BOOLEAN
  BY DEF Pressed, mode, KeepModes, Inv, Flags, TimersBelong

LEMMA LetterInv ==
  ASSUME Inv, NEW s \in Scripts, NEW d \in BOOLEAN, Letter(s, d)
  PROVE  Inv'
<1> DEFINE r == Reading(s, Len(word) + 1)
<1>0. /\ Pressed /\ ~owned /\ (decided => d) /\ Composing(r, d, Append(text, s))
      /\ typed' = typed + 1 /\ erasing' = FALSE
  BY DEF Letter
<1>f. /\ Flags /\ Sequences /\ Len(word) \in Nat /\ Len(delivered) \in Nat /\ Len(text) \in Nat
      /\ (delivered # <<>> => delivered = word) /\ direct
      /\ typed = Len(text) + (IF delivered # <<>> THEN 0 ELSE Len(word))
  BY <1>0, Facts, PressedFacts
<1>l. Len(word) + 1 \in Nat
  BY <1>f
<1>r. r \in Seq(Scripts) /\ Len(r) = Len(word) + 1
  BY <1>l, ReadingLen
<1> HIDE DEF r
<1>n. r # <<>>
  <2>1. r = <<>> => Len(r) = 0
    OBVIOUS
  <2> QED
    BY <1>f, <1>r, <2>1
<1>p. /\ direct' = TRUE /\ focused' = TRUE /\ alive' = TRUE /\ switch' = FALSE
      /\ want' \in BOOLEAN /\ (refocus' = refocus => refocus' = FALSE) /\ erasing' \in BOOLEAN
  BY <1>0, PressedFacts
<1>1. CASE MayApply(r) /\ (delivered # <<>> \/ d)
  <2>1. /\ word' = r /\ decided' = d /\ owned' = owned /\ Types(Rest(r, delivered))
        /\ delivered' = r /\ pending' = r /\ recent' = TRUE /\ idle' = FALSE /\ refocus' = refocus
    BY <1>0, <1>1 DEF Composing, Reads, Deliver
  <2>2. recent' \in BOOLEAN /\ idle' \in BOOLEAN /\ owned' \in BOOLEAN /\ ~owned'
    BY <1>0, <1>f, <2>1 DEF Flags
  <2>3. Len(delivered) <= Len(r)
    BY <1>1 DEF MayApply, Extends
  <2>4. Rest(r, delivered) \in Seq(Scripts) /\ Len(Rest(r, delivered)) = Len(r) - Len(delivered)
    BY <1>f, <1>r, <2>3, RestLen DEF Sequences
  <2>5. text' = text \o Rest(r, delivered) /\ text \in Texts /\ Rest(r, delivered) \in Texts
    BY <1>f, <2>1, <2>4, WordIsText DEF Types, Sequences
  <2>6. text' \in Texts /\ Len(text') = Len(text) + (Len(r) - Len(delivered))
    BY <2>4, <2>5, ConcatExtends DEF Texts
  <2>7. Len(r) - Len(delivered) = (IF delivered # <<>> THEN 0 ELSE Len(word)) + 1
    BY <1>f, <1>r
  <2>8. typed' = Len(text')
    BY <1>0, <1>f, <1>r, <2>6, <2>7
  <2>9. typed' = Len(text') + (IF owned' \/ delivered' # <<>> THEN 0 ELSE Len(word'))
    BY <1>n, <2>1, <2>6, <2>8 DEF Texts
  <2>10. /\ delivered' = word' /\ pending' = word' /\ word' \in Seq(Scripts)
         /\ refocus' = FALSE /\ decided' \in BOOLEAN /\ word' # <<>> /\ ~idle'
    BY <1>n, <1>p, <1>r, <2>1
  <2> QED
    BY <1>p, <2>2, <2>6, <2>9, <2>10, InWordInv
<1>2. CASE ~MayApply(r) /\ (delivered # <<>> \/ d)
  <2>1. EndToken /\ text' = Append(text, s) /\ recent' = recent
    BY <1>0, <1>2 DEF Composing, Refuse
  <2>2. delivered # <<>>
    BY <1>2, <1>r, EmptyExtended DEF MayApply
  <2>3. text' \in Texts /\ Len(text') = Len(text) + 1
    BY <1>f, <2>1 DEF Sequences, Texts, Chars
  <2>4. typed' = Len(text')
    BY <1>0, <1>f, <2>2, <2>3
  <2> QED
    BY <1>0, <1>f, <1>p, <2>1, <2>3, <2>4, EndedInv, PressedFacts DEF Flags
<1>3. CASE ~(delivered # <<>> \/ d)
  <2>1. /\ word' = r /\ decided' = d /\ owned' = owned /\ pending' = r /\ idle' = (r # <<>>)
        /\ UNCHANGED <<delivered, text, recent, refocus>>
    BY <1>0, <1>3 DEF Composing, Reads, Hold
  <2>2. /\ recent' \in BOOLEAN /\ idle' \in BOOLEAN /\ owned' \in BOOLEAN /\ ~owned'
        /\ delivered' = <<>> /\ ~decided' /\ decided' \in BOOLEAN
        /\ delivered' \in Seq(Scripts) /\ text' \in Texts
    BY <1>0, <1>3, <1>f, <2>1 DEF Flags, Sequences
  <2>3. typed' = Len(text') + Len(word')
    BY <1>0, <1>3, <1>f, <1>r, <2>1
  <2> QED
    BY <1>n, <1>p, <1>r, <2>1, <2>2, <2>3, InWordInv
<1> QED
  BY <1>1, <1>2, <1>3

LEMMA OwnedLetterInv ==
  ASSUME Inv, OwnedLetter
  PROVE  Inv'
<1>0. /\ Pressed /\ owned /\ Types(<<word[1]>>) /\ word' = Append(word, word[1])
      /\ typed' = typed + 1 /\ recent' = TRUE /\ refocus' = FALSE /\ idle' = FALSE
      /\ erasing' = FALSE /\ UNCHANGED <<decided, owned, delivered, pending>>
  BY DEF OwnedLetter
<1>f. /\ Flags /\ Sequences /\ Len(text) \in Nat /\ word # <<>> /\ delivered = <<>> /\ pending = <<>>
      /\ typed = Len(text)
  BY <1>0, Facts
<1>1. word[1] \in Scripts
  BY <1>f DEF Sequences
<1>2. word' \in Seq(Scripts) /\ word' # <<>>
  BY <1>0, <1>1, <1>f DEF Sequences
<1>3. text' = text \o <<word[1]>> /\ <<word[1]>> \in Texts /\ Len(<<word[1]>>) = 1
  BY <1>0, <1>1 DEF Types, Texts, Chars
<1>4. text' \in Texts /\ Len(text') = Len(text) + 1
  BY <1>3, <1>f, ConcatExtends DEF Sequences, Texts
<1>5. recent' \in BOOLEAN /\ idle' \in BOOLEAN /\ erasing' \in BOOLEAN /\ owned' \in BOOLEAN
      /\ decided' \in BOOLEAN
  BY <1>0, <1>f DEF Flags
<1>6. typed' = Len(text') + 0
  BY <1>0, <1>f, <1>4
<1> QED
  BY <1>0, <1>2, <1>4, <1>5, <1>6, <1>f, PressedFacts, InWordInv DEF Sequences

LEMMA BackspaceInWordInv ==
  ASSUME Inv, NEW s \in Scripts, NEW d \in BOOLEAN, BackspaceInWord(s, d)
  PROVE  Inv'
<1> DEFINE r == Reading(s, Len(word) - 1)
<1>0. /\ Pressed /\ ~owned /\ word # <<>> /\ (d => decided /\ r # <<>> /\ s = word[1])
      /\ typed' = OneLess(typed) /\ erasing' = TRUE
      /\ IF delivered = <<>> \/ r = <<>> \/ s = word[1]
         THEN /\ Erase(r) /\ Reads(r, d)
              /\ recent' = (recent \/ delivered # <<>>)
              /\ idle' = (pending' # delivered')
              /\ UNCHANGED refocus
         ELSE Refuse(Erased(text))
  BY DEF BackspaceInWord
<1>f. /\ Flags /\ Sequences /\ Len(word) \in Nat /\ Len(delivered) \in Nat /\ Len(text) \in Nat
      /\ (delivered # <<>> => delivered = word) /\ pending = word /\ direct
      /\ (decided => pending = delivered)
      /\ typed = Len(text) + (IF delivered # <<>> THEN 0 ELSE Len(word))
  BY <1>0, Facts, PressedFacts
<1>l. Len(word) - 1 \in Nat
  BY <1>0, <1>f DEF Sequences
<1>r. r \in Seq(Scripts) /\ Len(r) = Len(word) - 1
  BY <1>l, ReadingLen
<1> HIDE DEF r
<1>p. /\ direct' = TRUE /\ focused' = TRUE /\ alive' = TRUE /\ switch' = FALSE
      /\ want' \in BOOLEAN /\ (refocus' = refocus => refocus' = FALSE) /\ erasing' \in BOOLEAN
  BY <1>0, PressedFacts
<1>e. Erased(text) \in Texts /\ Len(Erased(text)) = OneLess(Len(text))
  BY <1>f, ErasedLen DEF Sequences, Texts
<1>1. CASE delivered = <<>> \/ r = <<>> \/ s = word[1]
  <2>1. /\ Erase(r) /\ word' = r /\ decided' = d /\ owned' = owned
        /\ recent' = (recent \/ delivered # <<>>) /\ idle' = (pending' # delivered')
        /\ refocus' = refocus
    BY <1>0, <1>1 DEF Reads
  <2>2. /\ text' = (IF delivered = <<>> THEN text ELSE Erased(text))
        /\ delivered' = (IF delivered = <<>> THEN <<>> ELSE r) /\ pending' = r
    BY <2>1 DEF Erase
  <2>3. recent' \in BOOLEAN /\ idle' \in BOOLEAN /\ owned' \in BOOLEAN /\ ~owned'
    BY <1>0, <1>f, <2>1 DEF Flags
  <2>4. text' \in Texts /\ delivered' \in Seq(Scripts)
    BY <1>e, <1>f, <1>r, <2>2 DEF Sequences
  <2>5. d => delivered # <<>>
    BY <1>0, <1>f
  <2>6. typed' = Len(text') + (IF delivered' # <<>> THEN 0 ELSE Len(word'))
    <3>1. CASE delivered = <<>>
      BY <1>0, <1>f, <1>l, <1>r, <2>1, <2>2, <3>1 DEF OneLess
    <3>2. CASE delivered # <<>>
      <4>1. r = <<>> => Len(r) = 0
        BY <1>r
      <4>2. (IF delivered' # <<>> THEN 0 ELSE Len(word')) = 0
        BY <2>1, <2>2, <3>2, <4>1
      <4> QED
        BY <1>0, <1>f, <1>e, <2>2, <3>2, <4>2 DEF OneLess
    <3> QED
      BY <3>1, <3>2
  <2>7. decided' => pending' = delivered'
    BY <2>1, <2>2, <2>5
  <2>8. idle' => pending' # <<>> /\ pending' # delivered'
    BY <2>1, <2>2
  <2>9. decided' \in BOOLEAN /\ refocus' = FALSE
    BY <1>p, <2>1
  <2>10. delivered' # <<>> => delivered' = word' /\ pending' = word'
    BY <2>1, <2>2
  <2> QED
    BY <1>p, <1>r, <2>1, <2>2, <2>3, <2>4, <2>6, <2>7, <2>8, <2>9, <2>10, InWordInv
<1>2. CASE ~(delivered = <<>> \/ r = <<>> \/ s = word[1])
  <2>1. EndToken /\ text' = Erased(text) /\ recent' = recent
    BY <1>0, <1>2 DEF Refuse
  <2>2. typed' = Len(text')
    BY <1>0, <1>2, <1>e, <1>f, <2>1
  <2> QED
    BY <1>e, <1>f, <1>p, <1>0, <2>1, <2>2, EndedInv, PressedFacts DEF Flags
<1> QED
  BY <1>1, <1>2

LEMMA BackspaceForwardedInv ==
  ASSUME Inv, BackspaceForwarded
  PROVE  Inv'
<1>0. /\ Pressed /\ (owned \/ word = <<>>) /\ text' = Erased(text) /\ word' = Erased(word)
      /\ owned' = (owned /\ Len(word) > 1) /\ typed' = OneLess(typed)
      /\ refocus' = FALSE /\ idle' = FALSE /\ erasing' = TRUE
      /\ UNCHANGED <<decided, delivered, pending, recent>>
  BY DEF BackspaceForwarded
<1>f. /\ Flags /\ Sequences /\ Len(word) \in Nat /\ Len(text) \in Nat
      /\ delivered = <<>> /\ pending = <<>> /\ typed = Len(text)
  <2>1. CASE owned
    BY <2>1, Facts
  <2>2. CASE word = <<>>
    <3>1. Len(word) = 0
      BY <2>2
    <3> QED
      BY <2>2, <3>1, Facts
  <2> QED
    BY <1>0, <2>1, <2>2
<1>e. Erased(text) \in Texts /\ Len(Erased(text)) = OneLess(Len(text))
  BY <1>f, ErasedLen DEF Sequences, Texts
<1>w. word' \in Seq(Scripts) /\ Len(word') = OneLess(Len(word)) /\ (Len(word) <= 1 => word' = <<>>)
  BY <1>0, <1>f, ErasedLen DEF Sequences
<1>1. ~owned' => word' = <<>> /\ Len(word') = 0
  <2>1. CASE word = <<>>
    <3>1. Len(word) = 0
      BY <2>1
    <3> QED
      BY <1>w, <3>1
  <2>2. CASE word # <<>>
    <3>1. ~owned' => ~(Len(word) > 1)
      BY <1>0, <2>2
    <3>2. ~owned' => word' = <<>>
      BY <1>f, <1>w, <3>1
    <3> QED
      BY <3>2
  <2> QED
    BY <2>1, <2>2
<1>2. owned' => word' # <<>>
  <2>1. owned' => Len(word) > 1
    BY <1>0
  <2>2. owned' => Len(word') > 0
    BY <1>f, <1>w, <2>1 DEF OneLess
  <2>3. word' = <<>> => Len(word') = 0
    OBVIOUS
  <2> QED
    BY <2>2, <2>3
<1>3. owned' \in BOOLEAN /\ idle' \in BOOLEAN /\ erasing' \in BOOLEAN /\ recent' \in BOOLEAN
      /\ decided' \in BOOLEAN
  BY <1>0, <1>f DEF Flags
<1>4. typed' = Len(text') + (IF owned' THEN 0 ELSE Len(word'))
  <2>1. typed' = Len(text') /\ Len(text') \in Nat
    BY <1>0, <1>e, <1>f DEF OneLess
  <2>2. (IF owned' THEN 0 ELSE Len(word')) = 0
    BY <1>1
  <2> QED
    BY <2>1, <2>2
<1>5. text' \in Texts /\ delivered' = <<>> /\ pending' = <<>>
  BY <1>0, <1>e, <1>f
<1> QED
  BY <1>0, <1>1, <1>2, <1>3, <1>4, <1>5, <1>f, <1>w, PressedFacts, InWordInv DEF Sequences

LEMMA BoundaryInv ==
  ASSUME Inv, NEW s \in Scripts, NEW key \in {<<>>, <<"s">>}, Boundary(s, key)
  PROVE  Inv'
<1> DEFINE r == Reading(s, Len(word))
           rest == IF word # <<>> /\ ~owned /\ MayApply(r) THEN Rest(r, delivered) ELSE <<>>
<1>0. /\ Pressed /\ text' = text \o rest \o key /\ recent' = (recent \/ rest # <<>>)
      /\ EndToken /\ typed' = typed + Len(key) /\ erasing' = FALSE
  BY DEF Boundary
<1>f. /\ Flags /\ Sequences /\ Len(word) \in Nat /\ Len(delivered) \in Nat /\ Len(text) \in Nat
      /\ (delivered # <<>> => delivered = word) /\ direct
      /\ typed = Len(text) + (IF owned \/ delivered # <<>> THEN 0 ELSE Len(word))
  BY <1>0, Facts, PressedFacts
<1>r. r \in Seq(Scripts) /\ Len(r) = Len(word)
  BY <1>f, ReadingLen
<1> HIDE DEF r
<1>1. rest \in Seq(Scripts)
      /\ Len(rest) = IF owned \/ delivered # <<>> THEN 0 ELSE Len(word)
  <2>1. CASE word # <<>> /\ ~owned /\ MayApply(r)
    <3>1. Len(delivered) <= Len(r) /\ rest = Rest(r, delivered)
      BY <2>1 DEF MayApply, Extends
    <3>2. rest \in Seq(Scripts) /\ Len(rest) = Len(r) - Len(delivered)
      BY <1>f, <1>r, <3>1, RestLen DEF Sequences
    <3> QED
      BY <1>f, <1>r, <2>1, <3>2
  <2>2. CASE ~(word # <<>> /\ ~owned /\ MayApply(r))
    <3>1. rest = <<>> /\ Len(rest) = 0 /\ rest \in Seq(Scripts)
      BY <2>2
    <3>2. delivered = <<>> => MayApply(r)
      BY <1>r, EmptyExtended DEF MayApply
    <3>3. word = <<>> => Len(word) = 0
      OBVIOUS
    <3> QED
      BY <2>2, <3>1, <3>2, <3>3
  <2> QED
    BY <2>1, <2>2
<1> HIDE DEF rest
<1>2. key \in Texts /\ Len(key) \in Nat
  <2>1. CASE key = <<>>
    BY <2>1 DEF Texts
  <2>2. CASE key = <<"s">>
    BY <2>2 DEF Texts, Chars
  <2> QED
    BY <2>1, <2>2
<1>3. text \o rest \in Texts /\ Len(text \o rest) = Len(text) + Len(rest)
  BY <1>1, <1>f, WordIsText, ConcatExtends DEF Sequences, Texts
<1>4. text' \in Texts /\ Len(text') = Len(text) + Len(rest) + Len(key)
  BY <1>0, <1>2, <1>3, ConcatExtends DEF Texts
<1>5. typed' = Len(text')
  BY <1>0, <1>1, <1>2, <1>4, <1>f
<1>6. recent' \in BOOLEAN /\ erasing' \in BOOLEAN
  BY <1>0, <1>f DEF Flags
<1> QED
  BY <1>0, <1>4, <1>5, <1>6, EndedInv, PressedFacts

(* What is not yet delivered goes out as r, or there is nothing. *)
LEMMA FlushedText ==
  ASSUME Inv, direct, NEW r \in Seq(Scripts), Len(r) = Len(word),
         text' = IF Undelivered THEN text \o Rest(r, delivered) ELSE text
  PROVE  text' \in Texts /\ typed = Len(text') /\ (Undelivered => delivered = <<>>)
<1>f. /\ Sequences /\ Len(word) \in Nat /\ Len(text) \in Nat
      /\ (delivered # <<>> => pending = word /\ delivered = word)
      /\ (pending # <<>> => pending = word /\ ~owned) /\ (~owned => pending = word)
      /\ typed = Len(text) + (IF owned \/ delivered # <<>> THEN 0 ELSE Len(word))
  BY Facts
<1>1. CASE Undelivered
  <2>1. delivered = <<>> /\ ~owned
    BY <1>1, <1>f DEF Undelivered
  <2>2. text' = text \o r
    BY <1>1, <2>1, EmptyExtended
  <2>3. text' \in Texts /\ Len(text') = Len(text) + Len(r)
    BY <1>f, <2>2, WordIsText, ConcatExtends DEF Sequences, Texts
  <2> QED
    BY <1>f, <2>1, <2>3
<1>2. CASE ~Undelivered
  <2>1. owned \/ delivered # <<>> \/ word = <<>>
    BY <1>2, <1>f DEF Undelivered
  <2>2. word = <<>> => Len(word) = 0
    OBVIOUS
  <2> QED
    BY <1>2, <1>f, <2>1, <2>2 DEF Sequences
<1> QED
  BY <1>1, <1>2

LEMMA PassthroughInv ==
  ASSUME Inv, Passthrough
  PROVE  Inv'
<1>0. /\ Pressed /\ EndToken /\ erasing' = FALSE /\ UNCHANGED <<recent, typed>>
      /\ text' = IF Undelivered THEN text \o Rest(pending, delivered) ELSE text
  BY DEF Passthrough
<1>f. Flags /\ Sequences /\ direct /\ (pending # <<>> => pending = word)
  BY <1>0, Facts, PressedFacts
<1>1. text' = IF Undelivered THEN text \o Rest(word, delivered) ELSE text
  BY <1>0, <1>f DEF Undelivered
<1>2. text' \in Texts /\ typed = Len(text')
  BY <1>1, <1>f, FlushedText DEF Sequences
<1>3. erasing' \in BOOLEAN /\ recent' \in BOOLEAN
  BY <1>0, <1>f DEF Flags
<1> QED
  BY <1>0, <1>2, <1>3, EndedInv, PressedFacts

LEMMA ChordInv ==
  ASSUME Inv, NEW s \in Scripts, Chord(s)
  PROVE  Inv'
<1>0. /\ Pressed /\ EndToken /\ erasing' = FALSE /\ recent' = FALSE /\ UNCHANGED typed
      /\ text' = IF Undelivered THEN text \o Rest(Reading(s, Len(word)), delivered) ELSE text
  BY DEF Chord
<1>f. direct /\ Len(word) \in Nat
  BY <1>0, Facts, PressedFacts
<1>1. Reading(s, Len(word)) \in Seq(Scripts) /\ Len(Reading(s, Len(word))) = Len(word)
  BY <1>f, ReadingLen
<1>2. text' \in Texts /\ typed = Len(text')
  BY <1>0, <1>1, <1>f, FlushedText
<1>3. erasing' \in BOOLEAN /\ recent' \in BOOLEAN
  BY <1>0
<1> QED
  BY <1>0, <1>2, <1>3, EndedInv, PressedFacts

-----------------------------------------------------------------------------
(* Steps outside a word.                                                   *)

(* A step that leaves the word, its count and the mode alone. *)
LEMMA SameWordInv ==
  ASSUME Inv, UNCHANGED <<direct, token, text, typed>>, Flags', TimersBelong',
         ~focused' => ~focused \/ Waiting = 0
  PROVE  Inv'
<1>1. /\ direct' = direct /\ word' = word /\ decided' = decided /\ owned' = owned
      /\ delivered' = delivered /\ pending' = pending /\ text' = text /\ typed' = typed
  BY DEF token
<1>2. Sequences' /\ Word' /\ Waiting' = Waiting
  BY <1>1 DEF Inv, Sequences, Word, InStep, Waiting, Undelivered
<1>3. Count'
  BY <1>1, <1>2 DEF Inv, Count, EachKeyOnce
<1> QED
  BY <1>2, <1>3 DEF Inv

(* What a step that discards the waiting characters leaves to count. *)
LEMMA DiscardCounts ==
  ASSUME Inv
  PROVE  typed - Waiting = Len(text) /\ text \in Texts /\ Waiting \in Nat
  BY Facts DEF Sequences

LEMMA ShortcutModifierInv ==
  ASSUME Inv, ShortcutModifier
  PROVE  Inv'
<1>0. /\ Pressed /\ recent' = FALSE /\ erasing' = FALSE
      /\ UNCHANGED <<token, idle, refocus, text, typed>>
  BY DEF ShortcutModifier
<1>1. /\ direct' = direct /\ focused' = focused /\ alive' = alive /\ switch' = switch
      /\ want' = want /\ focused
  BY <1>0 DEF Pressed, mode, KeepModes
<1>2. recent' \in BOOLEAN /\ erasing' \in BOOLEAN
  BY <1>0
<1>3. Flags'
  BY <1>0, <1>1, <1>2 DEF Inv, Flags, token
<1>4. TimersBelong'
  BY <1>0, <1>1 DEF Inv, TimersBelong, Undelivered, token
<1> QED
  BY <1>0, <1>1, <1>3, <1>4, SameWordInv

LEMMA ApplyInv ==
  ASSUME Inv, NEW d \in BOOLEAN, Apply(d), want' \in BOOLEAN, erasing' \in BOOLEAN,
         UNCHANGED <<focused, alive, recent, text>>
  PROVE  Inv'
<1>0. /\ switch' = FALSE /\ direct' = d
      /\ IF d = direct THEN UNCHANGED <<token, idle, refocus, typed>>
         ELSE EndToken /\ typed' = typed - Waiting
  BY DEF Apply, EndMode
<1>1. switch' \in BOOLEAN /\ direct' \in BOOLEAN
  BY <1>0
<1>2. CASE d = direct
  <2>1. direct' = direct /\ UNCHANGED <<token, idle, refocus, typed>>
    BY <1>0, <1>2
  <2>2. Flags'
    BY <1>1, <2>1 DEF Inv, Flags, token
  <2>3. TimersBelong'
    BY <1>0, <2>1 DEF Inv, TimersBelong, Undelivered, token
  <2> QED
    BY <2>1, <2>2, <2>3, SameWordInv
<1>3. CASE d # direct
  <2>1. EndToken /\ typed' = typed - Waiting
    BY <1>0, <1>3
  <2>2. text' \in Texts /\ typed' = Len(text')
    BY <2>1, DiscardCounts
  <2>3. focused' \in BOOLEAN /\ alive' \in BOOLEAN /\ recent' \in BOOLEAN
    BY DEF Inv, Flags
  <2> QED
    BY <1>0, <1>1, <2>1, <2>2, <2>3, EndedInv
<1> QED
  BY <1>2, <1>3

LEMMA SetCapabilitiesInv ==
  ASSUME Inv, NEW d \in BOOLEAN, SetCapabilities(d)
  PROVE  Inv'
<1>0. /\ alive /\ want' = d /\ erasing' = FALSE /\ UNCHANGED <<focused, alive, recent, text>>
  BY DEF SetCapabilities
<1>1. want' \in BOOLEAN /\ erasing' \in BOOLEAN
  BY <1>0
<1>2. CASE direct /\ ~d /\ (word # <<>> \/ delivered # <<>> \/ pending # <<>>)
  <2>1. switch' = TRUE /\ UNCHANGED <<direct, token, idle, refocus, typed>>
    BY <1>2 DEF SetCapabilities
  <2>2. switch' \in BOOLEAN
    BY <2>1
  <2>3. Flags'
    BY <1>0, <1>1, <2>1, <2>2 DEF Inv, Flags, token
  <2>4. TimersBelong'
    BY <1>0, <1>2, <2>1 DEF Inv, TimersBelong, Undelivered, token
  <2> QED
    BY <1>0, <2>1, <2>3, <2>4, SameWordInv
<1>3. CASE ~(direct /\ ~d /\ (word # <<>> \/ delivered # <<>> \/ pending # <<>>))
  <2>1. Apply(d)
    BY <1>3 DEF SetCapabilities
  <2> QED
    BY <1>0, <1>1, <2>1, ApplyInv
<1> QED
  BY <1>2, <1>3

LEMMA SwitchDueInv ==
  ASSUME Inv, SwitchDue
  PROVE  Inv'
<1>0. /\ Apply(want) /\ erasing' = FALSE /\ UNCHANGED <<want, focused, alive, recent, text>>
  BY DEF SwitchDue
<1>1. want \in BOOLEAN /\ want' \in BOOLEAN /\ erasing' \in BOOLEAN
  BY <1>0 DEF Inv, Flags
<1> QED
  BY <1>0, <1>1, ApplyInv

(* A word of preedit mode, all of which waits. *)
LEMMA PreeditInv ==
  ASSUME direct' = FALSE, switch' = FALSE, focused' = TRUE, alive' \in BOOLEAN,
         want' \in BOOLEAN, recent' \in BOOLEAN, erasing' \in BOOLEAN,
         delivered' = <<>>, pending' = <<>>, owned' = FALSE, decided' = FALSE,
         idle' = FALSE, refocus' = FALSE,
         word' \in Seq(Scripts), text' \in Texts, typed' = Len(text') + Len(word')
  PROVE  Inv'
<1>1. /\ direct' \in BOOLEAN /\ switch' \in BOOLEAN /\ focused' \in BOOLEAN
      /\ owned' \in BOOLEAN /\ decided' \in BOOLEAN /\ idle' \in BOOLEAN /\ refocus' \in BOOLEAN
  OBVIOUS
<1>2. Flags'
  BY <1>1 DEF Flags
<1>3. Len(text') \in Nat /\ Len(word') \in Nat /\ <<>> \in Seq(Scripts)
  BY DEF Texts
<1>4. Sequences'
  BY <1>3 DEF Sequences
<1>5. Word' /\ TimersBelong'
  BY DEF Word, InStep, TimersBelong
<1>6. Waiting' = Len(word')
  BY DEF Waiting
<1>7. Count'
  BY <1>6 DEF Count, EachKeyOnce
<1> QED
  BY <1>2, <1>4, <1>5, <1>7 DEF Inv

LEMMA LandedInv ==
  ASSUME Inv, NEW k \in {"letter", "boundary", "backspace"}, Landed(k)
  PROVE  Inv'
<1> DEFINE base == IF switch THEN <<>> ELSE word
           left == typed - (IF switch THEN Waiting ELSE 0)
<1>0. /\ focused /\ ~(direct /\ ~switch) /\ direct' = FALSE /\ switch' = FALSE
      /\ delivered' = <<>> /\ pending' = <<>> /\ owned' = FALSE /\ decided' = FALSE
      /\ idle' = FALSE /\ refocus' = FALSE /\ erasing' = (k = "backspace")
      /\ UNCHANGED <<want, focused, alive, recent>>
  BY DEF Landed
<1>1. /\ base \in Seq(Scripts) /\ Len(base) \in Nat /\ text \in Texts /\ Len(text) \in Nat
      /\ left = Len(text) + Len(base)
  <2>1. CASE switch
    BY <2>1, Facts DEF Sequences
  <2>2. CASE ~switch
    BY <1>0, <2>2, Facts DEF Sequences
  <2> QED
    BY <2>1, <2>2
<1>2. /\ focused' = TRUE /\ alive' \in BOOLEAN /\ want' \in BOOLEAN /\ recent' \in BOOLEAN
      /\ erasing' \in BOOLEAN
  BY <1>0 DEF Inv, Flags
<1>3. word' \in Seq(Scripts) /\ text' \in Texts /\ typed' = Len(text') + Len(word')
  <2>1. CASE k = "letter"
    <3>1. PICK s \in Scripts : word' = Reading(s, Len(base) + 1) /\ text' = text /\ typed' = left + 1
      BY <2>1 DEF Landed
    <3> HIDE DEF base, left
    <3>2. Len(base) + 1 \in Nat
      BY <1>1
    <3>3. word' \in Seq(Scripts) /\ Len(word') = Len(base) + 1
      BY <3>1, <3>2, ReadingLen
    <3> QED
      BY <1>1, <3>1, <3>3
  <2>2. CASE k = "boundary"
    <3>1. PICK s \in Scripts : /\ text' = text \o Append(Reading(s, Len(base)), "s")
                               /\ word' = <<>> /\ typed' = left + 1
      BY <2>2 DEF Landed, Types
    <3> HIDE DEF base, left
    <3>2. Reading(s, Len(base)) \in Texts /\ Len(Reading(s, Len(base))) = Len(base)
      BY <1>1, ReadingLen, WordIsText
    <3> DEFINE q == Reading(s, Len(base))
    <3> HIDE DEF q
    <3>3. q \in Texts /\ Len(q) = Len(base)
      BY <3>2 DEF q
    <3>4. Append(q, "s") \in Texts /\ Len(Append(q, "s")) = Len(base) + 1
      BY <3>3 DEF Texts, Chars
    <3>5. text' = text \o Append(q, "s")
      BY <3>1 DEF q
    <3>6. text' \in Texts /\ Len(text') = Len(text) + (Len(base) + 1)
      BY <1>1, <3>4, <3>5, ConcatExtends DEF Texts
    <3>7. Len(word') = 0 /\ word' \in Seq(Scripts)
      BY <3>1
    <3> QED
      BY <1>1, <3>1, <3>6, <3>7
  <2>3. CASE k = "backspace"
    <3>1. /\ word' = Erased(base) /\ text' = (IF base = <<>> THEN Erased(text) ELSE text)
          /\ typed' = OneLess(left)
      BY <2>3 DEF Landed
    <3> HIDE DEF base, left
    <3>2. word' \in Seq(Scripts) /\ Len(word') = OneLess(Len(base)) /\ (Len(base) <= 1 => word' = <<>>)
      BY <1>1, <3>1, ErasedLen
    <3>3. Erased(text) \in Texts /\ Len(Erased(text)) = OneLess(Len(text))
      BY <1>1, ErasedLen DEF Texts
    <3>4. CASE base = <<>>
      <4>1. Len(base) = 0 /\ text' = Erased(text)
        BY <3>1, <3>4
      <4> QED
        BY <1>1, <3>1, <3>2, <3>3, <4>1 DEF OneLess
    <3>5. CASE base # <<>>
      <4>1. Len(base) # 0 /\ text' = text
        BY <1>1, <3>1, <3>5
      <4> QED
        BY <1>1, <3>1, <3>2, <4>1 DEF OneLess
    <3> QED
      BY <3>4, <3>5
  <2> QED
    BY <2>1, <2>2, <2>3
<1> QED
  BY <1>0, <1>2, <1>3, PreeditInv

LEMMA IdleFiresInv ==
  ASSUME Inv, NEW s \in Scripts, IdleFires(s)
  PROVE  Inv'
<1> DEFINE r == Reading(s, Len(word))
<1>0. /\ idle /\ idle' = FALSE /\ erasing' = FALSE
      /\ UNCHANGED <<mode, focused, alive, decided, typed>>
      /\ Undelivered => /\ text' = text \o Rest(r, delivered)
                        /\ word' = r /\ owned' = TRUE /\ delivered' = <<>> /\ pending' = <<>>
                        /\ recent' = TRUE /\ refocus' = FALSE
  BY DEF IdleFires, HandOver
<1>1. /\ Undelivered /\ alive /\ direct /\ pending = word /\ delivered = <<>> /\ word # <<>>
      /\ Len(word) \in Nat /\ ~owned /\ Flags /\ Waiting = Len(word) /\ focused /\ ~refocus
  <2>1. Undelivered /\ alive
    BY <1>0 DEF Inv, TimersBelong
  <2>2. direct /\ pending # <<>> /\ pending # delivered
    BY <2>1 DEF Undelivered
  <2>3. pending = word /\ delivered = <<>> /\ word # <<>> /\ ~owned /\ Len(word) \in Nat /\ Flags
    BY <2>2, Facts
  <2>4. Waiting = Len(word) /\ Len(word) # 0
    BY <2>2, <2>3, Facts DEF Sequences
  <2> QED
    BY <2>1, <2>2, <2>3, <2>4, Facts DEF TimersBelong
<1>2. r \in Seq(Scripts) /\ Len(r) = Len(word)
  BY <1>1, ReadingLen
<1>3. r # <<>>
  <2>1. r = <<>> => Len(r) = 0
    OBVIOUS
  <2>2. Len(word) # 0
    BY <1>1, Facts DEF Sequences
  <2> QED
    BY <1>2, <2>1, <2>2
<1>4. /\ text' = text \o Rest(r, delivered) /\ word' = r /\ owned' = TRUE /\ delivered' = <<>>
      /\ pending' = <<>> /\ recent' = TRUE /\ refocus' = FALSE
  BY <1>0, <1>1
<1> HIDE DEF r
<1>5. text' = IF Undelivered THEN text \o Rest(r, delivered) ELSE text
  BY <1>1, <1>4
<1>6. text' \in Texts /\ typed = Len(text')
  BY <1>1, <1>2, <1>5, FlushedText
<1>7. typed' = Len(text') + 0
  BY <1>0, <1>6 DEF Texts
<1>8. /\ recent' \in BOOLEAN /\ erasing' \in BOOLEAN /\ owned' \in BOOLEAN /\ idle' \in BOOLEAN
      /\ decided' \in BOOLEAN /\ want' \in BOOLEAN
  BY <1>0, <1>1, <1>4 DEF Flags, mode
<1>9. direct' = TRUE /\ focused' = TRUE /\ alive' = TRUE
  BY <1>0, <1>1 DEF mode, Flags
<1>10. switch' = switch /\ want' = want
  BY <1>0 DEF mode
<1>11. Sequences'
  BY <1>2, <1>4, <1>6, <1>7 DEF Sequences, Texts
<1>12. Word'
  BY <1>3, <1>4, <1>9 DEF Word, InStep
<1>13. TimersBelong'
  BY <1>0, <1>4, <1>9, <1>10 DEF Inv, TimersBelong
<1>14. Waiting' = 0
  BY <1>4, <1>9, <1>11, <1>12, WaitingNext DEF WaitingIs
<1>15. Flags'
  <2>1. direct' \in BOOLEAN /\ focused' \in BOOLEAN /\ alive' \in BOOLEAN /\ switch' \in BOOLEAN
        /\ refocus' \in BOOLEAN
    BY <1>1, <1>4, <1>9, <1>10 DEF Flags
  <2> QED
    BY <1>8, <2>1 DEF Flags
<1> QED
  BY <1>7, <1>11, <1>12, <1>13, <1>14, <1>15 DEF Inv, Count, EachKeyOnce

LEMMA TimePassesInv ==
  ASSUME Inv, TimePasses
  PROVE  Inv'
<1>0. /\ recent' = FALSE /\ erasing' = FALSE
      /\ UNCHANGED <<mode, focused, alive, token, idle, refocus, text, typed>>
  BY DEF TimePasses
<1>1. recent' \in BOOLEAN /\ erasing' \in BOOLEAN
  BY <1>0
<1>2. Flags'
  BY <1>0, <1>1 DEF Inv, Flags, mode, token
<1>3. TimersBelong'
  BY <1>0 DEF Inv, TimersBelong, Undelivered, mode, token
<1> QED
  BY <1>0, <1>2, <1>3, SameWordInv DEF mode

(* A step that ends the word and discards what waits. *)
LEMMA DiscardInv ==
  ASSUME Inv, EndToken, typed' = typed - Waiting, erasing' = FALSE, focused' \in BOOLEAN,
         UNCHANGED <<mode, alive, recent, text>>
  PROVE  Inv'
<1>1. text' \in Texts /\ typed' = Len(text')
  BY DiscardCounts
<1>2. /\ direct' \in BOOLEAN /\ want' \in BOOLEAN /\ switch' \in BOOLEAN /\ alive' \in BOOLEAN
      /\ recent' \in BOOLEAN /\ erasing' \in BOOLEAN
  BY DEF Inv, Flags, mode
<1>3. switch' => alive' /\ direct' /\ ~want'
  BY DEF Inv, TimersBelong, mode
<1> QED
  BY <1>1, <1>2, <1>3, EndedInv

LEMMA FocusOutInv ==
  ASSUME Inv, FocusOut
  PROVE  Inv'
<1>0. /\ alive /\ focused /\ focused' = FALSE /\ erasing' = FALSE /\ UNCHANGED <<mode, alive, recent>>
  BY DEF FocusOut
<1>1. CASE direct /\ MayHold
  <2>1. refocus' = TRUE /\ UNCHANGED <<token, idle, text, typed>>
    BY <1>1 DEF FocusOut
  <2>2. refocus' \in BOOLEAN /\ erasing' \in BOOLEAN /\ focused' \in BOOLEAN
    BY <1>0, <2>1
  <2>3. Flags'
    BY <1>0, <2>1, <2>2 DEF Inv, Flags, mode, token
  <2>4. TimersBelong'
    BY <1>0, <1>1, <2>1 DEF Inv, TimersBelong, MayHold, Undelivered, mode, token
  <2>5. Waiting = 0
    BY <1>1 DEF MayHold, Waiting
  <2> QED
    BY <1>0, <2>1, <2>3, <2>4, <2>5, SameWordInv DEF mode
<1>2. CASE direct /\ ~MayHold
  <2>1. EndToken /\ typed' = typed - Waiting /\ text' = text
    BY <1>2 DEF FocusOut
  <2> QED
    BY <1>0, <2>1, DiscardInv
<1>3. CASE ~direct
  <2>1. text' = text \o word /\ EndToken /\ typed' = typed
    BY <1>3 DEF FocusOut, Types
  <2>2. Sequences /\ typed = Len(text) + Len(word)
    BY <1>3, Facts
  <2>3. text' \in Texts /\ typed' = Len(text')
    BY <2>1, <2>2, WordIsText, ConcatExtends DEF Sequences, Texts
  <2>4. /\ direct' \in BOOLEAN /\ want' \in BOOLEAN /\ switch' \in BOOLEAN /\ alive' \in BOOLEAN
        /\ recent' \in BOOLEAN /\ erasing' \in BOOLEAN /\ focused' \in BOOLEAN
    BY <1>0 DEF Inv, Flags, mode
  <2>5. switch' => alive' /\ direct' /\ ~want'
    BY <1>0 DEF Inv, TimersBelong, mode
  <2> QED
    BY <2>1, <2>3, <2>4, <2>5, EndedInv
<1> QED
  BY <1>1, <1>2, <1>3

LEMMA FocusInInv ==
  ASSUME Inv, NEW same \in BOOLEAN, FocusIn(same)
  PROVE  Inv'
<1>0. /\ ~focused /\ focused' = TRUE /\ refocus' = FALSE /\ erasing' = FALSE
      /\ UNCHANGED <<mode, alive, token, recent, idle>>
      /\ IF same THEN UNCHANGED <<text, typed>> ELSE text' = <<>> /\ typed' = 0
  BY DEF FocusIn
<1>1. focused' \in BOOLEAN /\ refocus' \in BOOLEAN /\ erasing' \in BOOLEAN
  BY <1>0
<1>2. Flags'
  BY <1>0, <1>1 DEF Inv, Flags, mode, token
<1>3. TimersBelong'
  BY <1>0 DEF Inv, TimersBelong, Undelivered, mode, token
<1>4. /\ direct' = direct /\ word' = word /\ decided' = decided /\ owned' = owned
      /\ delivered' = delivered /\ pending' = pending
  BY <1>0 DEF mode, token
<1>5. Word' /\ Waiting' = Waiting /\ Waiting = 0
  BY <1>0, <1>4 DEF Inv, Count, Word, InStep, Waiting, Undelivered
<1>6. text' \in Texts /\ typed' \in Nat /\ typed' = Len(text') + Waiting'
  <2>1. CASE same
    BY <1>0, <1>5, <2>1 DEF Inv, Sequences, Count, EachKeyOnce
  <2>2. CASE ~same
    <3>1. text' = <<>> /\ typed' = 0 /\ Len(<<>>) = 0
      BY <1>0, <2>2
    <3> QED
      BY <1>5, <3>1 DEF Texts
  <2> QED
    BY <2>1, <2>2
<1>7. Sequences'
  BY <1>4, <1>6 DEF Inv, Sequences
<1>8. Count'
  BY <1>5, <1>6 DEF Count, EachKeyOnce
<1> QED
  BY <1>2, <1>3, <1>5, <1>7, <1>8 DEF Inv

LEMMA RefocusExpiresInv ==
  ASSUME Inv, RefocusExpires
  PROVE  Inv'
<1>1. focused' \in BOOLEAN
  BY DEF RefocusExpires, Inv, Flags
<1> QED
  BY <1>1, DiscardInv DEF RefocusExpires

LEMMA ResetInv ==
  ASSUME Inv, Reset
  PROVE  Inv'
<1>1. focused' \in BOOLEAN
  BY DEF Reset, Inv, Flags
<1> QED
  BY <1>1, DiscardInv DEF Reset

LEMMA DestroyInv ==
  ASSUME Inv, Destroy
  PROVE  Inv'
<1>0. /\ alive' = FALSE /\ idle' = FALSE /\ refocus' = FALSE /\ switch' = FALSE /\ erasing' = FALSE
      /\ UNCHANGED <<direct, want, focused, token, recent, text, typed>>
  BY DEF Destroy
<1>1. /\ alive' \in BOOLEAN /\ idle' \in BOOLEAN /\ refocus' \in BOOLEAN /\ switch' \in BOOLEAN
      /\ erasing' \in BOOLEAN
  BY <1>0
<1>2. Flags'
  BY <1>0, <1>1 DEF Inv, Flags, token
<1>3. TimersBelong'
  BY <1>0 DEF TimersBelong
<1> QED
  BY <1>0, <1>2, <1>3, SameWordInv

LEMMA StutterInv ==
  ASSUME Inv, UNCHANGED vars
  PROVE  Inv'
<1>1. Flags' /\ TimersBelong'
  BY DEF Inv, Flags, TimersBelong, Undelivered, vars, mode, token
<1> QED
  BY <1>1, SameWordInv DEF vars, mode

-----------------------------------------------------------------------------
LEMMA InitInv == Init => Inv
<1> SUFFICES ASSUME Init PROVE Inv
  OBVIOUS
<1>1. Flags
  BY DEF Init, Flags
<1>2. Len(<<>>) = 0 /\ <<>> \in Seq(Scripts) /\ <<>> \in Texts
  BY DEF Texts
<1>3. Sequences /\ Waiting = 0
  BY <1>2 DEF Init, Sequences, Waiting
<1> QED
  BY <1>1, <1>2, <1>3 DEF Init, Inv, Word, InStep, TimersBelong, Count, EachKeyOnce

LEMMA NextInv == Inv /\ [Next]_vars => Inv'
<1> SUFFICES ASSUME Inv, [Next]_vars PROVE Inv'
  OBVIOUS
<1>1. CASE DirectKey
  BY <1>1, LetterInv, OwnedLetterInv, BackspaceInWordInv, BackspaceForwardedInv, BoundaryInv,
     PassthroughInv, ShortcutModifierInv, ChordInv DEF DirectKey
<1>2. CASE \E k \in {"letter", "boundary", "backspace"} : Landed(k)
  BY <1>2, LandedInv
<1>3. CASE \E d \in BOOLEAN : SetCapabilities(d)
  BY <1>3, SetCapabilitiesInv
<1>4. CASE Timers
  BY <1>4, SwitchDueInv, RefocusExpiresInv, IdleFiresInv DEF Timers
<1>5. CASE TimePasses \/ FocusOut \/ Reset \/ Destroy
  BY <1>5, TimePassesInv, FocusOutInv, ResetInv, DestroyInv
<1>6. CASE \E same \in BOOLEAN : FocusIn(same)
  BY <1>6, FocusInInv
<1>7. CASE UNCHANGED vars
  BY <1>7, StutterInv
<1> QED
  BY <1>1, <1>2, <1>3, <1>4, <1>5, <1>6, <1>7 DEF Next

LEMMA InvHolds == Spec => []Inv
  BY InitInv, NextInv, PTL DEF Spec

-----------------------------------------------------------------------------
(* Every variable keeps its type, whatever the lengths. *)
THEOREM TypeCorrect == Spec => []TypeOK
<1>1. Inv => TypeOK
  BY DEF Inv, Flags, Sequences, TypeOK
<1> QED
  BY <1>1, InvHolds, PTL

(* What the adapter tracks as delivered is the word the core reads, and a word
   handed over is tracked by the core alone. *)
THEOREM StaysInStep == Spec => []InStep
<1>1. Inv => InStep
  BY DEF Inv, Word
<1> QED
  BY <1>1, InvHolds, PTL

(* No character is lost, and none delivered twice. *)
THEOREM KeysCount == Spec => []EachKeyOnce
<1>1. Inv => EachKeyOnce
  BY DEF Inv, Count
<1> QED
  BY <1>1, InvHolds, PTL

(* No timer is left behind by the word, the focus or the mode it is for. *)
THEOREM TimersAreOwned == Spec => []TimersBelong
<1>1. Inv => TimersBelong
  BY DEF Inv
<1> QED
  BY <1>1, InvHolds, PTL

(* No word is carried from one delivery mode into the other, by the capabilities,
   by the held switch, or by the key it lands before. *)
THEOREM ModesAreSeparate == Spec => ModesCarryNoWord
<1> DEFINE Fresh == Len(word') <= 1 /\ delivered' = <<>> /\ ~owned' /\ ~refocus'
<1>1. Inv /\ [Next]_vars => [direct # direct' => Fresh]_vars
  <2> SUFFICES ASSUME Inv, [Next]_vars, direct # direct'
               PROVE  Fresh
    OBVIOUS
  <2>0. Len(<<>>) = 0
    OBVIOUS
  <2>1. ASSUME NEW d, Apply(d) PROVE Fresh
    BY <2>0, <2>1 DEF Apply, EndMode, EndToken
  <2>2. ASSUME NEW k \in {"letter", "boundary", "backspace"}, Landed(k) PROVE Fresh
    <3>1. /\ direct' = FALSE /\ switch /\ delivered' = <<>> /\ owned' = FALSE /\ refocus' = FALSE
      BY <2>2 DEF Landed, Inv, Flags
    <3>2. Len(word') <= 1
      <4>1. CASE k = "letter"
        <5>1. PICK s \in Scripts : word' = Reading(s, Len(<<>>) + 1)
          BY <2>2, <3>1, <4>1 DEF Landed
        <5>2. 1 \in Nat /\ word' = Reading(s, 1)
          BY <2>0, <5>1
        <5> QED
          BY <5>2, ReadingLen
      <4>2. CASE k = "boundary"
        BY <2>0, <2>2, <4>2 DEF Landed
      <4>3. CASE k = "backspace"
        BY <2>0, <2>2, <3>1, <4>3 DEF Landed, Erased
      <4> QED
        BY <4>1, <4>2, <4>3
    <3> QED
      BY <3>1, <3>2
  <2>3. \/ \E d \in BOOLEAN : SetCapabilities(d)
        \/ SwitchDue
        \/ \E k \in {"letter", "boundary", "backspace"} : Landed(k)
    BY DEF Next, DirectKey, Timers, vars, mode, Letter, OwnedLetter, BackspaceInWord,
       BackspaceForwarded, Boundary, Passthrough, ShortcutModifier, Chord, Pressed,
       RefocusExpires, IdleFires, TimePasses, FocusOut, FocusIn, Reset, Destroy
  <2>4. ASSUME NEW d \in BOOLEAN, SetCapabilities(d) PROVE Fresh
    BY <2>1, <2>4 DEF SetCapabilities
  <2>5. CASE SwitchDue
    BY <2>1, <2>5 DEF SwitchDue
  <2> QED
    BY <2>2, <2>3, <2>4, <2>5
<1> QED
  BY <1>1, InvHolds, PTL DEF Spec, ModesCarryNoWord

-----------------------------------------------------------------------------
(* A word is in one script: BackSpace leaves a word that the shorter reading in *)
(* the same script is.                                                          *)

Uniform == \A i, j \in 1..Len(word) : word[i] = word[j]

LEMMA ReadingUniform ==
  ASSUME NEW s \in Scripts, NEW n \in Nat, word' = Reading(s, n)
  PROVE  Uniform'
<1>1. Len(word') = n
  BY ReadingLen
<1> QED
  BY <1>1 DEF Uniform, Reading

LEMMA EmptyUniform ==
  ASSUME word' = <<>>
  PROVE  Uniform'
<1>1. Len(word') = 0
  OBVIOUS
<1> QED
  BY <1>1 DEF Uniform

LEMMA ErasedUniform ==
  ASSUME Sequences, Uniform, word' = Erased(word)
  PROVE  Uniform'
<1>1. CASE word = <<>>
  BY <1>1, EmptyUniform DEF Erased
<1>2. CASE word # <<>>
  <2>1. word' = SubSeq(word, 1, Len(word) - 1) /\ Len(word) - 1 \in Nat /\ word \in Seq(Scripts)
    BY <1>2 DEF Erased, Sequences
  <2>2. SubSeq(word, 1, Len(word) - 1) = [i \in 1..(Len(word) - 1) |-> word[i]]
    BY <2>1
  <2>3. Len(word') = Len(word) - 1
    <3>1. word \in Seq(Scripts)
      BY DEF Sequences
    <3>2. Len(Erased(word)) = OneLess(Len(word))
      BY <3>1, ErasedLen
    <3>3. Len(word) # 0
      BY <1>2, <3>1
    <3> QED
      BY <3>2, <3>3 DEF OneLess
  <2>4. \A i \in 1..(Len(word) - 1) : word'[i] = word[i]
    BY <2>1, <2>2
  <2> QED
    BY <2>1, <2>3, <2>4 DEF Uniform
<1> QED
  BY <1>1, <1>2

LEMMA ErasedReading ==
  ASSUME Sequences, Uniform, word # <<>>
  PROVE  Reading(word[1], Len(word) - 1) = Erased(word)
<1>1. Erased(word) = SubSeq(word, 1, Len(word) - 1) /\ Len(word) \in Nat \ {0} /\ word \in Seq(Scripts)
  BY DEF Erased, Sequences
<1>2. SubSeq(word, 1, Len(word) - 1) = [i \in 1..(Len(word) - 1) |-> word[i]]
  BY <1>1
<1>3. \A i \in 1..(Len(word) - 1) : word[i] = word[1]
  BY <1>1 DEF Uniform
<1> QED
  BY <1>1, <1>2, <1>3 DEF Reading

LEMMA UniformStep == Inv /\ Uniform /\ [Next]_vars => Uniform'
<1> SUFFICES ASSUME Inv, Uniform, [Next]_vars PROVE Uniform'
  OBVIOUS
<1>s. Sequences /\ Len(word) \in Nat /\ word \in Seq(Scripts)
  BY Facts DEF Sequences
<1>u. ASSUME word' = word PROVE Uniform'
  BY <1>u DEF Uniform
<1>e. ASSUME EndToken PROVE Uniform'
  BY <1>e, EmptyUniform DEF EndToken
<1>1. ASSUME NEW s \in Scripts, NEW d \in BOOLEAN, Letter(s, d) PROVE Uniform'
  <2>1. Len(word) + 1 \in Nat
    BY <1>s
  <2>2. word' = Reading(s, Len(word) + 1) \/ EndToken
    BY <1>1 DEF Letter, Composing, Reads, Refuse
  <2> QED
    BY <1>e, <2>1, <2>2, ReadingUniform
<1>2. CASE OwnedLetter
  <2>1. word' = Append(word, word[1])
    BY <1>2 DEF OwnedLetter
  <2>2. Len(word') = Len(word) + 1 /\ word'[Len(word) + 1] = word[1]
        /\ \A i \in 1..Len(word) : word'[i] = word[i]
    BY <1>s, <2>1
  <2>3. word # <<>>
    BY <1>2, Facts DEF OwnedLetter
  <2>4. 1 \in 1..Len(word)
    BY <1>s, <2>3
  <2>5. \A i \in 1..(Len(word) + 1) : word'[i] = word[1]
    BY <1>s, <2>2, <2>4 DEF Uniform
  <2> QED
    BY <2>2, <2>5 DEF Uniform
<1>3. ASSUME NEW s \in Scripts, NEW d \in BOOLEAN, BackspaceInWord(s, d) PROVE Uniform'
  <2>1. word # <<>> /\ (word' = Reading(s, Len(word) - 1) \/ EndToken)
    BY <1>3 DEF BackspaceInWord, Reads, Refuse
  <2>2. Len(word) - 1 \in Nat
    BY <1>s, <2>1
  <2> QED
    BY <1>e, <2>1, <2>2, ReadingUniform
<1>4. CASE BackspaceForwarded
  BY <1>4, <1>s, ErasedUniform DEF BackspaceForwarded
<1>5. CASE \/ \E s \in Scripts, key \in {<<>>, <<"s">>} : Boundary(s, key)
           \/ Passthrough \/ \E s \in Scripts : Chord(s)
           \/ RefocusExpires \/ Reset
  BY <1>5, <1>e DEF Boundary, Passthrough, Chord, RefocusExpires, Reset
<1>6. CASE \/ ShortcutModifier \/ TimePasses \/ Destroy \/ UNCHANGED vars
           \/ \E same \in BOOLEAN : FocusIn(same)
  BY <1>6, <1>u DEF ShortcutModifier, TimePasses, Destroy, FocusIn, vars, token
<1>7. ASSUME NEW d, Apply(d) PROVE Uniform'
  BY <1>7, <1>e, <1>u DEF Apply, EndMode, token
<1>8. CASE SwitchDue \/ \E d \in BOOLEAN : SetCapabilities(d)
  BY <1>7, <1>8, <1>u DEF SwitchDue, SetCapabilities, token
<1>9. CASE FocusOut
  BY <1>9, <1>e, <1>u DEF FocusOut, token
<1>10. ASSUME NEW s \in Scripts, IdleFires(s) PROVE Uniform'
  <2>1. word' = Reading(s, Len(word)) \/ word' = word
    BY <1>10 DEF IdleFires, HandOver
  <2> QED
    BY <1>s, <1>u, <2>1, ReadingUniform
<1>11. ASSUME NEW k \in {"letter", "boundary", "backspace"}, Landed(k) PROVE Uniform'
  <2> DEFINE base == IF switch THEN <<>> ELSE word
  <2>1. base \in Seq(Scripts) /\ Len(base) + 1 \in Nat
    BY <1>s
  <2>2. CASE k = "letter"
    <3>1. PICK s \in Scripts : word' = Reading(s, Len(base) + 1)
      BY <1>11, <2>2 DEF Landed
    <3> HIDE DEF base
    <3> QED
      BY <2>1, <3>1, ReadingUniform
  <2>3. CASE k = "boundary"
    <3>1. word' = <<>>
      BY <1>11, <2>3 DEF Landed
    <3> QED
      BY <3>1, EmptyUniform
  <2>4. CASE k = "backspace"
    <3>1. word' = Erased(base)
      BY <1>11, <2>4 DEF Landed
    <3>2. CASE switch
      <4>1. word' = <<>>
        BY <3>1, <3>2 DEF Erased
      <4> QED
        BY <4>1, EmptyUniform
    <3>3. CASE ~switch
      BY <1>s, <3>1, <3>3, ErasedUniform
    <3> QED
      BY <3>2, <3>3
  <2> QED
    BY <2>2, <2>3, <2>4
<1> QED
  BY <1>1, <1>2, <1>3, <1>4, <1>5, <1>6, <1>8, <1>9, <1>10, <1>11 DEF Next, DirectKey, Timers

LEMMA UniformHolds == Spec => [](Inv /\ Uniform)
<1>1. Init => Uniform
  <2>1. Len(<<>>) = 0
    OBVIOUS
  <2> QED
    BY <2>1 DEF Init, Uniform
<1> QED
  BY <1>1, InvHolds, UniformStep, PTL DEF Spec

(* What one step of direct mode does to what was delivered. *)
Kept ==
  /\ Extends(text', text) \/ (erasing' /\ text' = Erased(text))
  /\ delivered # <<>> /\ delivered' # <<>> =>
       Extends(delivered', delivered) \/ delivered' = Erased(delivered)

LEMMA AppendedKept ==
  ASSUME Inv, NEW q \in Texts, text' = text \o q \/ text' = text,
         delivered' = delivered \/ delivered' = <<>>
  PROVE  Kept
<1>1. text \in Seq(Chars) /\ q \in Seq(Chars) /\ delivered \in Seq(Scripts)
  BY DEF Inv, Sequences, Texts
<1>2. Extends(text', text)
  BY <1>1, ConcatExtends
<1>3. Extends(delivered, delivered)
  BY <1>1, ConcatExtends
<1> QED
  BY <1>2, <1>3 DEF Kept

LEMMA SameTextKept ==
  ASSUME Inv, text' = text, delivered' = delivered \/ delivered' = <<>>
  PROVE  Kept
<1>1. <<>> \in Texts
  BY DEF Texts
<1> QED
  BY <1>1, AppendedKept

(* Text once delivered to the client is never revised behind the user's back. *)
THEOREM DeliveredStays == Spec => NeverRevised
<1> DEFINE Still == direct /\ direct' /\ ~(~focused /\ focused')
<1>1. Inv /\ Uniform /\ [Next]_vars => [Still => Kept]_vars
  <2> SUFFICES ASSUME Inv, Uniform, [Next]_vars, Still
               PROVE  Kept
    OBVIOUS
  <2>s. Sequences /\ Len(word) \in Nat /\ text \in Texts /\ delivered \in Seq(Scripts)
        /\ (delivered # <<>> => delivered = word)
    BY Facts DEF Sequences
  <2>e. EndToken => delivered' = <<>>
    BY DEF EndToken
  <2>1. ASSUME NEW s \in Scripts, NEW d \in BOOLEAN, Letter(s, d) PROVE Kept
    <3> DEFINE r == Reading(s, Len(word) + 1)
    <3>0. Composing(r, d, Append(text, s))
      BY <2>1 DEF Letter
    <3>1. Len(word) + 1 \in Nat
      BY <2>s
    <3>2. r \in Seq(Scripts)
      BY <3>1, ReadingLen
    <3> HIDE DEF r
    <3>3. CASE (delivered # <<>> \/ d) /\ MayApply(r)
      <4>1. Extends(r, delivered) /\ text' = text \o Rest(r, delivered) /\ delivered' = r
        BY <3>0, <3>3 DEF Composing, Deliver, MayApply, Types
      <4>2. Rest(r, delivered) \in Texts
        BY <2>s, <3>2, <4>1, RestLen, WordIsText DEF Extends
      <4>3. Extends(text', text)
        BY <2>s, <4>1, <4>2, ConcatExtends DEF Texts
      <4> QED
        BY <4>1, <4>3 DEF Kept
    <3>4. CASE (delivered # <<>> \/ d) /\ ~MayApply(r)
      <4>1. text' = Append(text, s) /\ delivered' = <<>>
        BY <2>e, <3>0, <3>4 DEF Composing, Refuse
      <4>2. <<s>> \in Texts /\ text' = text \o <<s>>
        BY <2>s, <4>1 DEF Texts, Chars
      <4> QED
        BY <4>1, <4>2, AppendedKept
    <3>5. CASE ~(delivered # <<>> \/ d)
      BY <3>0, <3>5, SameTextKept DEF Composing, Hold
    <3> QED
      BY <3>3, <3>4, <3>5
  <2>2. CASE OwnedLetter
    <3>1. owned /\ text' = text \o <<word[1]>> /\ delivered' = delivered
      BY <2>2 DEF OwnedLetter, Types
    <3>2. word # <<>>
      BY <3>1, Facts
    <3>3. word[1] \in Scripts
      BY <2>s, <3>2 DEF Sequences
    <3>4. <<word[1]>> \in Texts
      BY <3>3 DEF Texts, Chars
    <3> QED
      BY <3>1, <3>4, AppendedKept
  <2>3. ASSUME NEW s \in Scripts, NEW d \in BOOLEAN, BackspaceInWord(s, d) PROVE Kept
    <3> DEFINE r == Reading(s, Len(word) - 1)
    <3>0. erasing' = TRUE /\ word # <<>>
      BY <2>3 DEF BackspaceInWord
    <3>1. CASE delivered = <<>> \/ r = <<>> \/ s = word[1]
      <4>1. Erase(r)
        BY <2>3, <3>1 DEF BackspaceInWord
      <4>2. CASE delivered = <<>>
        BY <4>1, <4>2, SameTextKept DEF Erase
      <4>3. CASE delivered # <<>>
        <5>1. text' = Erased(text) /\ delivered' = r
          BY <4>1, <4>3 DEF Erase
        <5>2. delivered' # <<>> => s = word[1]
          BY <3>1, <4>3, <5>1
        <5>3. delivered' # <<>> => delivered' = Erased(word)
          BY <2>s, <3>0, <5>1, <5>2, ErasedReading
        <5> QED
          BY <2>s, <3>0, <4>3, <5>1, <5>3 DEF Kept
      <4> QED
        BY <4>2, <4>3
    <3>2. CASE ~(delivered = <<>> \/ r = <<>> \/ s = word[1])
      <4>1. EndToken /\ text' = Erased(text)
        BY <2>3, <3>2 DEF BackspaceInWord, Refuse
      <4> QED
        BY <2>e, <3>0, <4>1 DEF Kept
    <3> QED
      BY <3>1, <3>2
  <2>4. CASE BackspaceForwarded
    <3>1. erasing' = TRUE /\ text' = Erased(text) /\ delivered' = delivered
      BY <2>4 DEF BackspaceForwarded
    <3>2. Extends(delivered, delivered)
      BY <2>s, ConcatExtends
    <3> QED
      BY <3>1, <3>2 DEF Kept
  <2>5. ASSUME NEW s \in Scripts, NEW key \in {<<>>, <<"s">>}, Boundary(s, key) PROVE Kept
    <3> DEFINE r == Reading(s, Len(word))
               rest == IF word # <<>> /\ ~owned /\ MayApply(r) THEN Rest(r, delivered) ELSE <<>>
    <3>1. text' = text \o rest \o key /\ delivered' = <<>>
      BY <2>5, <2>e DEF Boundary
    <3>2. r \in Seq(Scripts)
      BY <2>s, ReadingLen
    <3> HIDE DEF r
    <3>3. rest \in Texts
      <4>1. CASE MayApply(r)
        <5>1. Rest(r, delivered) \in Texts
          BY <2>s, <3>2, <4>1, RestLen, WordIsText DEF MayApply, Extends
        <5> QED
          BY <5>1 DEF Texts
      <4>2. CASE ~MayApply(r)
        BY <4>2 DEF Texts
      <4> QED
        BY <4>1, <4>2
    <3> HIDE DEF rest
    <3>4. key \in Texts
      <4>1. CASE key = <<>>
        BY <4>1 DEF Texts
      <4>2. CASE key = <<"s">>
        BY <4>2 DEF Texts, Chars
      <4> QED
        BY <4>1, <4>2
    <3>5. rest \o key \in Texts /\ text \o rest \o key = text \o (rest \o key)
      BY SMTT(30), <2>s, <3>3, <3>4 DEF Texts
    <3> QED
      BY <3>1, <3>5, AppendedKept
  <2>6. ASSUME NEW q \in Seq(Scripts), Len(q) = Len(word), delivered' = <<>> \/ delivered' = delivered,
               text' = IF Undelivered THEN text \o Rest(q, delivered) ELSE text
        PROVE  Kept
    <3>0. Len(delivered) <= Len(q)
      <4>1. delivered = <<>> => Len(delivered) = 0
        OBVIOUS
      <4> QED
        BY <2>6, <2>s, <4>1
    <3>1. Rest(q, delivered) \in Texts
      BY <2>6, <2>s, <3>0, RestLen, WordIsText
    <3> QED
      BY <2>6, <3>1, AppendedKept
  <2>7. ASSUME NEW s \in Scripts, IdleFires(s) \/ Chord(s) PROVE Kept
    <3>1. Reading(s, Len(word)) \in Seq(Scripts) /\ Len(Reading(s, Len(word))) = Len(word)
      BY <2>s, ReadingLen
    <3>2. delivered' = <<>> \/ delivered' = delivered
      BY <2>7, <2>e DEF IdleFires, HandOver, Chord
    <3>3. text' = IF Undelivered THEN text \o Rest(Reading(s, Len(word)), delivered) ELSE text
      BY <2>7 DEF IdleFires, Chord
    <3> QED
      BY <2>6, <3>1, <3>2, <3>3
  <2>8. CASE Passthrough
    <3>1. text' = IF Undelivered THEN text \o Rest(word, delivered) ELSE text
      BY <2>8, Facts DEF Passthrough, Undelivered
    <3>2. delivered' = <<>> /\ word \in Seq(Scripts)
      BY <2>8, <2>e, <2>s DEF Passthrough, Sequences
    <3> QED
      BY <2>6, <3>1, <3>2
  <2>9. CASE \/ ShortcutModifier \/ TimePasses \/ Destroy \/ UNCHANGED vars \/ RefocusExpires
             \/ Reset \/ SwitchDue \/ \E d \in BOOLEAN : SetCapabilities(d)
    <3>1. text' = text
      BY <2>9 DEF ShortcutModifier, TimePasses, Destroy, RefocusExpires, Reset, SwitchDue,
         SetCapabilities, vars
    <3>2. delivered' = delivered \/ delivered' = <<>>
      BY <2>9, <2>e DEF ShortcutModifier, TimePasses, Destroy, RefocusExpires, Reset, SwitchDue,
         SetCapabilities, Apply, EndMode, token, vars
    <3> QED
      BY <3>1, <3>2, SameTextKept
  <2>10. CASE FocusOut
    BY <2>10, <2>e, SameTextKept DEF FocusOut, token
  <2>11. ASSUME NEW same \in BOOLEAN PROVE ~FocusIn(same)
    BY DEF FocusIn
  <2>12. ASSUME NEW k \in {"letter", "boundary", "backspace"} PROVE ~Landed(k)
    BY DEF Landed
  <2> QED
    BY <2>1, <2>2, <2>3, <2>4, <2>5, <2>7, <2>8, <2>9, <2>10, <2>11, <2>12
       DEF Next, DirectKey, Timers
<1> QED
  BY <1>1, UniformHolds, PTL DEF Spec, NeverRevised, Kept
=============================================================================
