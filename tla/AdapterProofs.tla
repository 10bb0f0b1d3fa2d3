----------------------------- MODULE AdapterProofs -----------------------------
(***************************************************************************)
(* Proofs about two parts of the adapters: NativeCompletion, for any       *)
(* places, words and runs and any number of reports under way, and         *)
(* ComServer, for any threads and any bound on the counters.               *)
(***************************************************************************)
EXTENDS NativeCompletion, ComServer, SequenceTheorems, FiniteSetTheorems, TLAPS

-----------------------------------------------------------------------------
(* NativeCompletion: the text before the caret, and the word it ends in.   *)

Chars == {"x", "_"}
Snapshots == [run : Seq(Chars), caret : Carets]

LEMMA LettersText ==
  ASSUME NEW n \in Nat
  PROVE  /\ Letters(n) \in Seq(Chars) /\ Len(Letters(n)) = n
         /\ \A i \in 1..n : Letters(n)[i] = "x"
         /\ n = 0 => Letters(n) = <<>>
<1>1. Letters(n) \in [1..n -> Chars]
  BY DEF Letters, Chars
<1>2. Letters(n) \in Seq(Chars) /\ Len(Letters(n)) = n
  BY <1>1, SeqDef
<1>3. \A i \in 1..n : Letters(n)[i] = "x"
  BY DEF Letters
<1>4. n = 0 => Letters(n) = <<>>
  BY <1>2, EmptySeq
<1> QED  BY <1>2, <1>3, <1>4

\* One more letter.
LEMMA LettersGrow ==
  ASSUME NEW n \in Nat
  PROVE  Letters(n + 1) = Append(Letters(n), "x")
<1> DEFINE a == Letters(n + 1)
           b == Letters(n)
           c == Append(b, "x")
<1>1. "x" \in Chars /\ n + 1 \in Nat
  BY DEF Chars
<1>2. /\ a \in Seq(Chars) /\ Len(a) = n + 1 /\ \A i \in 1..(n + 1) : a[i] = "x"
      /\ b \in Seq(Chars) /\ Len(b) = n /\ \A i \in 1..n : b[i] = "x"
  BY <1>1, LettersText
<1>3. /\ c \in Seq(Chars) /\ Len(c) = n + 1 /\ \A i \in 1..n : c[i] = b[i]
      /\ c[n + 1] = "x"
  BY <1>1, <1>2, AppendProperties
<1>4. \A i \in 1..(n + 1) : i \in 1..n \/ i = n + 1
  OBVIOUS
<1> HIDE DEF a, b, c
<1>5. \A i \in 1..(n + 1) : a[i] = c[i]
  BY <1>2, <1>3, <1>4, Zenon
<1>6. a = c
  BY <1>2, <1>3, <1>5, SeqEqual
<1> QED  BY <1>6 DEF a, b, c

\* Taking what was put in front gives it back.
LEMMA Joined ==
  ASSUME NEW t \in Seq(Chars), NEW u \in Seq(Chars)
  PROVE  /\ t \o u \in Seq(Chars) /\ Len(t \o u) = Len(t) + Len(u)
         /\ SubSeq(t \o u, 1, Len(t)) = t
         /\ SubSeq(t \o u, Len(t) + 1, Len(t) + Len(u)) = u
<1>1. /\ t \o u \in Seq(Chars) /\ Len(t \o u) = Len(t) + Len(u)
      /\ \A i \in 1..(Len(t) + Len(u)) :
           (t \o u)[i] = IF i <= Len(t) THEN t[i] ELSE u[i - Len(t)]
      /\ Len(t) \in Nat /\ Len(u) \in Nat
      /\ \A i \in 1..(Len(t) + Len(u)) : (t \o u)[i] \in Chars
  <2>1. t \o u \in Seq(Chars) /\ Len(t \o u) = Len(t) + Len(u)
    BY ConcatProperties
  <2>2. \A i \in 1..(Len(t) + Len(u)) : (t \o u)[i] \in Chars
    BY <2>1, ElementOfSeq
  <2> QED  BY <2>1, <2>2, ConcatProperties, LenProperties
<1> DEFINE v == t \o u
           L == Len(t)
           M == Len(u)
<1>2. /\ Len(v) = L + M /\ L \in Nat /\ M \in Nat
      /\ \A i \in 1..L : v[i] = t[i]
      /\ \A i \in 1..M : v[L + i] = u[i]
      /\ \A i \in 1..(L + M) : v[i] \in Chars
  <2>1. \A i \in 1..L : v[i] = t[i]
    BY <1>1
  <2>2. ASSUME NEW i \in 1..M PROVE v[L + i] = u[i]
    <3>1. L + i \in 1..(L + M) /\ ~(L + i <= L) /\ L + i - L = i
      BY <1>1
    <3> QED  BY <1>1, <3>1
  <2> QED  BY <1>1, <2>1, <2>2
<1> HIDE DEF v
<1>3. SubSeq(v, 1, L) = t
  <2>1. /\ SubSeq(v, 1, L) \in Seq(Chars)
        /\ Len(SubSeq(v, 1, L)) = IF 1 <= L THEN L - 1 + 1 ELSE 0
        /\ \A i \in 1..(L - 1 + 1) : SubSeq(v, 1, L)[i] = v[1 + i - 1]
    BY <1>2, SubSeqProperties
  <2>2. Len(SubSeq(v, 1, L)) = L
    BY <1>2, <2>1
  <2>3. \A i \in 1..L : SubSeq(v, 1, L)[i] = t[i]
    BY <1>2, <2>1
  <2> QED  BY <2>1, <2>2, <2>3, SeqEqual
<1>4. SubSeq(v, L + 1, L + M) = u
  <2>1. /\ SubSeq(v, L + 1, L + M) \in Seq(Chars)
        /\ Len(SubSeq(v, L + 1, L + M)) = IF L + 1 <= L + M THEN L + M - (L + 1) + 1 ELSE 0
        /\ \A i \in 1..(L + M - (L + 1) + 1) :
             SubSeq(v, L + 1, L + M)[i] = v[L + 1 + i - 1]
    <3>1. L + 1 \in Int /\ L + M \in Int /\ \A i \in (L + 1)..(L + M) : v[i] \in Chars
      BY <1>2
    <3> QED  BY <3>1, SubSeqProperties
  <2>2. Len(SubSeq(v, L + 1, L + M)) = M
    BY <1>2, <2>1
  <2>3. \A i \in 1..M : SubSeq(v, L + 1, L + M)[i] = u[i]
    <3> SUFFICES ASSUME NEW i \in 1..M PROVE SubSeq(v, L + 1, L + M)[i] = u[i]
      OBVIOUS
    <3>1. i \in 1..(L + M - (L + 1) + 1) /\ L + 1 + i - 1 = L + i
      BY <1>2
    <3> QED  BY <1>2, <2>1, <3>1
  <2> QED  BY <2>1, <2>2, <2>3, SeqEqual
<1> QED  BY <1>1, <1>3, <1>4 DEF v

\* The word in the client grows and shrinks with the run it ends.
LEMMA WordInRun ==
  ASSUME NEW p \in Seq(Chars), NEW n \in Nat
  PROVE  /\ p \o Letters(n) \in Seq(Chars)
         /\ Append(p \o Letters(n), "x") = p \o Letters(n + 1)
         /\ n > 0 => /\ p \o Letters(n) # <<>>
                     /\ Front(p \o Letters(n)) = p \o Letters(n - 1)
<1>1. /\ Letters(n) \in Seq(Chars) /\ Len(Letters(n)) = n
      /\ "x" \in Chars /\ <<"x">> \in Seq(Chars)
  <2>1. "x" \in Chars
    BY DEF Chars
  <2> QED  BY <2>1, LettersText
<1>2. p \o Letters(n) \in Seq(Chars) /\ Len(p \o Letters(n)) = Len(p) + n /\ Len(p) \in Nat
  BY <1>1, Joined, LenProperties
<1>3. ASSUME NEW m \in Nat
      PROVE  Append(p \o Letters(m), "x") = p \o Letters(m + 1)
  <2>1. Letters(m) \in Seq(Chars) /\ p \o Letters(m) \in Seq(Chars)
    BY LettersText, Joined
  <2>2. Letters(m + 1) = Letters(m) \o <<"x">>
    BY <1>1, <2>1, LettersGrow, AppendIsConcat
  <2>3. Append(p \o Letters(m), "x") = (p \o Letters(m)) \o <<"x">>
    BY <1>1, <2>1, AppendIsConcat
  <2>4. \A u \in Seq(Chars) : (p \o Letters(m)) \o u = p \o (Letters(m) \o u)
    BY <2>1, ConcatAssociative
  <2> QED  BY <1>1, <2>2, <2>3, <2>4, Zenon
<1>4. ASSUME n > 0
      PROVE  p \o Letters(n) # <<>> /\ Front(p \o Letters(n)) = p \o Letters(n - 1)
  <2>1. n - 1 \in Nat /\ n - 1 + 1 = n
    BY <1>4
  <2>2. p \o Letters(n - 1) \in Seq(Chars) /\ Len(p \o Letters(n - 1)) = Len(p) + n - 1
    <3>1. Letters(n - 1) \in Seq(Chars) /\ Len(Letters(n - 1)) = n - 1
      BY <2>1, LettersText
    <3>2. /\ p \o Letters(n - 1) \in Seq(Chars)
          /\ Len(p \o Letters(n - 1)) = Len(p) + Len(Letters(n - 1))
      BY <3>1, Joined
    <3>3. Len(p \o Letters(n - 1)) = Len(p) + (n - 1)
      BY <3>1, <3>2, Zenon
    <3>4. Len(p) + (n - 1) = Len(p) + n - 1
      BY <1>2
    <3> QED  BY <3>2, <3>3, <3>4, Zenon
  <2>3. p \o Letters(n) = Append(p \o Letters(n - 1), "x")
    BY <1>3, <2>1
  <2>4. SubSeq(p \o Letters(n), 1, Len(p \o Letters(n)) - 1) = p \o Letters(n - 1)
    <3>1. p \o Letters(n) = (p \o Letters(n - 1)) \o <<"x">>
      BY <1>1, <2>2, <2>3, AppendIsConcat
    <3>2. SubSeq((p \o Letters(n - 1)) \o <<"x">>, 1, Len(p \o Letters(n - 1)))
            = p \o Letters(n - 1)
      BY <1>1, <2>2, Joined
    <3>3. Len(p \o Letters(n)) - 1 = Len(p \o Letters(n - 1))
      BY <1>2, <2>2
    <3> QED  BY <3>1, <3>2, <3>3
  <2>5. p \o Letters(n) # <<>>
    BY <1>2, <1>4, EmptySeq
  <2> QED  BY <2>4, <2>5 DEF Front
<1> QED  BY <1>2, <1>3, <1>4

\* What EndsIn says of a run, and of one that stops at a delimiter.
LEMMA RunEnds ==
  ASSUME NEW t \in Seq(Chars), NEW n \in Nat
  PROVE  /\ EndsIn(t \o Letters(n), n)
         /\ EndsIn(t, n) => t = SubSeq(t, 1, Len(t) - n) \o Letters(n) /\ n <= Len(t)
         /\ n > 0 /\ (Len(t) > 0 => t[Len(t)] = "_") => ~EndsIn(t, n)
<1>0. /\ Letters(n) \in Seq(Chars) /\ Len(Letters(n)) = n /\ Len(t) \in Nat
      /\ \A i \in 1..n : Letters(n)[i] = "x"
  BY LettersText, LenProperties
<1>1. EndsIn(t \o Letters(n), n)
  <2>1. /\ Len(t \o Letters(n)) = Len(t) + n
        /\ SubSeq(t \o Letters(n), Len(t) + 1, Len(t) + n) = Letters(n)
    BY <1>0, Joined
  <2>2. /\ n <= Len(t) + n /\ Len(t) + n - n + 1 = Len(t) + 1
    BY <1>0
  <2> QED  BY <2>1, <2>2 DEF EndsIn
<1>2. ASSUME EndsIn(t, n)
      PROVE  t = SubSeq(t, 1, Len(t) - n) \o Letters(n) /\ n <= Len(t)
  <2> DEFINE k == Len(t) - n
  <2>1. k \in 0..Len(t) /\ n <= Len(t) /\ SubSeq(t, k + 1, Len(t)) = Letters(n)
    BY <1>0, <1>2 DEF EndsIn
  <2>2. SubSeq(t, 1, k) \o SubSeq(t, k + 1, Len(t)) = SubSeq(t, 1, Len(t))
    <3>1. 1 \in 1..(Len(t) + 1) /\ k \in (1 - 1)..Len(t) /\ Len(t) \in k..Len(t)
      BY <1>0, <2>1
    <3> HIDE DEF k
    <3> QED  BY <3>1, ConcatAdjacentSubSeq
  <2> QED  BY <2>1, <2>2, SubSeqFull
<1>3. ASSUME n > 0, EndsIn(t, n) PROVE Len(t) > 0 /\ t[Len(t)] = "x"
  <2> DEFINE k == Len(t) - n
  <2>1. /\ k + 1 \in Int /\ k + 1 <= Len(t) /\ 1 <= k + 1 /\ Len(t) > 0
        /\ SubSeq(t, k + 1, Len(t)) = Letters(n)
    BY <1>0, <1>3 DEF EndsIn
  <2>2. \A i \in (k + 1)..Len(t) : t[i] \in Chars
    BY <1>0, <2>1, ElementOfSeq
  <2>3. \A i \in 1..(Len(t) - (k + 1) + 1) :
          SubSeq(t, k + 1, Len(t))[i] = t[k + 1 + i - 1]
    BY <1>0, <2>1, <2>2, SubSeqProperties
  <2>4. n \in 1..(Len(t) - (k + 1) + 1) /\ k + 1 + n - 1 = Len(t) /\ n \in 1..n
    BY <1>0, <1>3
  <2>5. Letters(n)[n] = t[Len(t)]
    BY <2>1, <2>3, <2>4
  <2> QED  BY <1>0, <2>1, <2>4, <2>5
<1>4. n > 0 /\ (Len(t) > 0 => t[Len(t)] = "_") => ~EndsIn(t, n)
  BY <1>3
<1> QED  BY <1>1, <1>2, <1>4

-----------------------------------------------------------------------------
(* Types, and the invariant.                                               *)

Opens == {"none", "preedit", "delivered", "native"}

WellTyped ==
  /\ open \in Opens /\ word \in Nat /\ (word = 0 <=> open = "none")
  /\ prefix \in Seq(Chars)
  /\ client \in Snapshots /\ sent \in Seq(Snapshots) /\ cache \in SUBSET Snapshots
  /\ shows \in BOOLEAN

(***************************************************************************)
(* Inductive.  The barrier never comes down while the word is the client's.*)
(* While the client keeps its hands off and no report was overtaken, every *)
(* report under way shows the text as it is now: the reports before the    *)
(* last delivery were received or marked late, and none but a delivery     *)
(* changes the text.  So the report that lets the barrier pass is right.   *)
(***************************************************************************)
Watched ==
  open = "native" =>
    /\ wait \in {"waiting", "passed"}
    /\ wait = "passed" => known
    /\ ~astray => InPlace
    /\ ~astray /\ ~late => /\ \A i \in 1..Len(sent) : sent[i] = client
                           /\ wait = "passed" => cache = {client}

NativeInv == WellTyped /\ Watched

LEMMA SnapshotForm ==
  ASSUME NEW r \in Seq(Chars), NEW c \in Carets
  PROVE  /\ [run |-> r, caret |-> c] \in Snapshots
         /\ [run |-> r, caret |-> c].run = r /\ [run |-> r, caret |-> c].caret = c
  BY DEF Snapshots

LEMMA Flushing ==
  ASSUME WellTyped, NEW f, f.word \in Nat
  PROVE  Flushed(f) \in Seq(Chars) /\ AfterDelivery(f) \in Carets
<1>1. client.run \in Seq(Chars) /\ client.caret \in Carets
  BY DEF WellTyped, Snapshots
<1>2. Letters(f.word) \in Seq(Chars) /\ <<>> \in Seq(Chars)
  BY LettersText, EmptySeq
<1>3. Flushed(f) \in Seq(Chars)
  BY <1>1, <1>2, Joined DEF Flushed
<1>4. "free" \in Carets
  BY DEF Carets
<1> QED  BY <1>1, <1>3, <1>4 DEF AfterDelivery

\* What a key may do to a word that stays the client's.
Kept(f, a) == a.word = f.word /\ a.client.run = client.run /\ a.client.caret = client.caret
Grown(f, a) ==
  /\ a.word = f.word + 1 /\ a.client.run = Append(client.run, "x")
  /\ a.client.caret = Typed(client.caret)
Shrunk(f, a) ==
  /\ a.word = f.word - 1 /\ a.client.caret = Typed(client.caret)
  /\ a.client.run = IF client.caret = "selection" \/ client.run = <<>>
                    THEN client.run ELSE Front(client.run)

LEMMA KeyOutcomes ==
  ASSUME WellTyped, NEW f, f.open \in Opens, f.word \in Nat,
         f.word = 0 <=> f.open = "none", NEW k \in Keys, NEW a \in Key(k, f)
  PROVE  /\ a.open \in Opens /\ a.word \in Nat /\ (a.word = 0 <=> a.open = "none")
         /\ a.client \in Snapshots
         /\ a.open = "native" =>
              f.open = "native" /\ (Kept(f, a) \/ Grown(f, a) \/ Shrunk(f, a))
<1>1. /\ client.run \in Seq(Chars) /\ client.caret \in Carets
      /\ client = [run |-> client.run, caret |-> client.caret]
  BY DEF WellTyped, Snapshots
<1>2. Typed(client.caret) \in Carets /\ "free" \in Carets
  BY <1>1 DEF Typed, Carets
<1>3. /\ Append(client.run, "x") \in Seq(Chars)
      /\ client.run # <<>> => Front(client.run) \in Seq(Chars)
      /\ <<>> \in Seq(Chars)
  <2>1. "x" \in Chars
    BY DEF Chars
  <2>2. client.run # <<>> => Front(client.run) \in Seq(Chars)
    <3>1. /\ Len(client.run) - 1 \in Int /\ 1 \in Int
          /\ \A i \in 1..(Len(client.run) - 1) : client.run[i] \in Chars
      BY <1>1, LenProperties, ElementOfSeq
    <3>2. SubSeq(client.run, 1, Len(client.run) - 1) \in Seq(Chars)
      BY <1>1, <3>1, SubSeqProperties
    <3> QED  BY <3>2 DEF Front
  <2>3. Append(client.run, "x") \in Seq(Chars)
    BY <1>1, <2>1, AppendProperties
  <2> QED  BY <2>2, <2>3, EmptySeq
<1>4. Flushed(f) \in Seq(Chars) /\ Append(Flushed(f), "_") \in Seq(Chars)
  <2>1. "_" \in Chars
    BY DEF Chars
  <2>2. Flushed(f) \in Seq(Chars)
    BY Flushing
  <2> QED  BY <2>1, <2>2, AppendProperties
<1> DEFINE Result(o, w, r, c) ==
      /\ a.open \in Opens /\ a.word \in Nat /\ (a.word = 0 <=> a.open = "none")
      /\ a.client \in Snapshots
      /\ a.word = w /\ a.client.run = r /\ a.client.caret = c
      /\ a.open = "native" => o = "native"
<1>5. ASSUME NEW o \in Opens, NEW w \in Nat, NEW r \in Seq(Chars), NEW c \in Carets,
             w # 0 => o # "none", a = Leaves(o, w, r, c)
      PROVE  Result(o, w, r, c)
  <2>1. /\ a.open = (IF w = 0 THEN "none" ELSE o) /\ a.word = w
        /\ a.client = [run |-> r, caret |-> c]
    BY <1>5 DEF Leaves
  <2>2. "none" \in Opens /\ "none" # "native"
    BY DEF Opens
  <2>3. a.client \in Snapshots /\ a.client.run = r /\ a.client.caret = c
    BY <2>1, SnapshotForm
  <2> QED  BY <1>5, <2>1, <2>2, <2>3, Zenon
<1>6. /\ "none" \in Opens /\ "preedit" \in Opens /\ "delivered" \in Opens
      /\ "preedit" # "none" /\ "preedit" # "native" /\ "delivered" # "none"
      /\ "none" # "native" /\ "delivered" # "native"
  BY DEF Opens
<1>7. 0 \in Nat /\ f.word + 1 \in Nat /\ f.word + 1 # 0 /\ (f.word # 0 => f.word - 1 \in Nat)
  <2> DEFINE n == f.word
  <2>1. n \in Nat
    OBVIOUS
  <2> HIDE DEF n
  <2>2. n + 1 \in Nat /\ n + 1 # 0 /\ (n # 0 => n - 1 \in Nat) /\ 0 \in Nat
    BY <2>1
  <2> QED  BY <2>2 DEF n
<1> DEFINE goal ==
      /\ a.open \in Opens /\ a.word \in Nat /\ (a.word = 0 <=> a.open = "none")
      /\ a.client \in Snapshots
      /\ a.open = "native" =>
           f.open = "native" /\ (Kept(f, a) \/ Grown(f, a) \/ Shrunk(f, a))
<1>8. ASSUME NEW o \in Opens, NEW w \in Nat, NEW r \in Seq(Chars), NEW c \in Carets,
             w # 0 => o # "none", a = Leaves(o, w, r, c), o # "native"
      PROVE  goal
  BY <1>5, <1>8, Zenon
<1>9. CASE k = "letter"
  <2>1. CASE InClient(f)
    <3>1. a = Leaves(f.open, f.word + 1, Append(client.run, "x"), Typed(client.caret))
      BY <1>9, <2>1 DEF Key
    <3>2. f.open # "none"
      BY <2>1 DEF InClient
    <3>3. Result(f.open, f.word + 1, Append(client.run, "x"), Typed(client.caret))
      <4> HIDE DEF Result
      <4> QED  BY <1>2, <1>3, <1>5, <1>7, <3>1, <3>2, Zenon
    <3>4. Grown(f, a)
      BY <3>3, Zenon DEF Grown
    <3> QED  BY <3>3, <3>4, Zenon
  <2>2. CASE ~InClient(f)
    <3>1. a = Leaves("preedit", f.word + 1, client.run, client.caret)
      BY <1>9, <2>2 DEF Key
    <3> QED  BY <1>1, <1>6, <1>7, <1>8, <3>1, Zenon
  <2> QED  BY <2>1, <2>2
<1>10. CASE k = "backspace" /\ f.open = "preedit"
  <2>1. a = Leaves("preedit", f.word - 1, client.run, client.caret)
    BY <1>10 DEF Key
  <2>2. f.word # 0
    BY <1>6, <1>10, Zenon
  <2> QED  BY <1>1, <1>6, <1>7, <1>8, <2>1, <2>2, Zenon
<1>11. CASE k = "backspace" /\ f.open # "preedit"
  <2> DEFINE r == IF client.caret = "selection" \/ client.run = <<>> THEN client.run
                  ELSE Front(client.run)
  <2>1. a = Leaves(f.open, IF f.word = 0 THEN 0 ELSE f.word - 1, r, Typed(client.caret))
    BY <1>11, Zenon DEF Key
  <2>2. r \in Seq(Chars)
    BY <1>1, <1>3, Zenon
  <2>3. CASE f.word = 0
    <3>1. a = Leaves(f.open, 0, r, Typed(client.caret))
      BY <2>1, <2>3, Zenon
    <3>2. f.open # "native"
      BY <1>6, <2>3, Zenon
    <3> HIDE DEF r
    <3> QED  BY <1>2, <1>7, <1>8, <2>2, <3>1, <3>2, Zenon
  <2>4. CASE f.word # 0
    <3>1. a = Leaves(f.open, f.word - 1, r, Typed(client.caret))
      BY <2>1, <2>4, Zenon
    <3>2. f.open # "none"
      BY <2>4, Zenon
    <3> HIDE DEF r
    <3>3. Result(f.open, f.word - 1, r, Typed(client.caret))
      <4> HIDE DEF Result
      <4> QED  BY <1>2, <1>5, <1>7, <2>2, <2>4, <3>1, <3>2, Zenon
    <3>4. Shrunk(f, a)
      BY <3>3, Zenon DEF Shrunk, r
    <3> QED  BY <3>3, <3>4, Zenon
  <2> QED  BY <2>3, <2>4
<1>12. CASE k \in {"space", "underscore"}
  <2>1. \E r \in Seq(Chars) : a = Leaves("none", 0, r, Typed(client.caret))
    BY <1>3, <1>4, <1>12 DEF Key
  <2> QED  BY <1>2, <1>6, <1>7, <1>8, <2>1, Zenon
<1>13. CASE k = "escape"
  <2>1. \/ a = Leaves("delivered", f.word, client.run, client.caret) /\ f.open = "native"
        \/ a = Leaves("none", 0, client.run, client.caret)
        \/ f.open # "native" /\ a = Leaves(f.open, f.word, client.run, client.caret)
    BY <1>13 DEF Key
  <2>2. f.word # 0 => f.open # "none"
    BY Zenon
  <2> QED  BY <1>1, <1>6, <1>7, <1>8, <2>1, <2>2, Zenon
<1>14. CASE k = "popup" /\ f.open = "native"
  <2>1. a = Leaves(f.open, f.word, client.run, client.caret)
    BY <1>14 DEF Key
  <2>2. f.word # 0 => f.open # "none"
    BY Zenon
  <2>3. Result(f.open, f.word, client.run, client.caret)
    <3> HIDE DEF Result
    <3> QED  BY <1>1, <1>5, <2>1, <2>2, Zenon
  <2>4. Kept(f, a)
    BY <2>3, Zenon DEF Kept
  <2> QED  BY <1>14, <2>3, <2>4, Zenon
<1>15. CASE k = "popup" /\ f.open # "native"
  <2>1. \E r \in Seq(Chars), c \in Carets : a = Leaves("none", 0, r, c)
    BY <1>1, <1>2, <1>4, <1>15 DEF Key
  <2> QED  BY <1>6, <1>7, <1>8, <2>1, Zenon
<1> QED  BY <1>9, <1>10, <1>11, <1>12, <1>13, <1>14, <1>15 DEF Keys

-----------------------------------------------------------------------------
(* The steps.                                                              *)

\* The word after the check.
LEMMA FoundWord ==
  ASSUME WellTyped
  PROVE  /\ Found.open \in Opens /\ Found.word \in Nat
         /\ Found.word = 0 <=> Found.open = "none"
         /\ Found.open # "none" => ~Retired /\ Found.open = open /\ Found.word = word
         /\ Found.open # "native" /\ open = "native" => Retired
<1>1. open \in Opens /\ word \in Nat /\ (word = 0 <=> open = "none")
  BY DEF WellTyped
<1>2. CASE Retired
  <2>1. Found.open = "none" /\ Found.word = 0
    BY <1>2 DEF Found
  <2>2. "none" \in Opens /\ 0 \in Nat
    BY DEF Opens
  <2> QED  BY <1>2, <2>1, <2>2, Zenon
<1>3. CASE ~Retired
  <2>1. Found.open = open /\ Found.word = word
    BY <1>3 DEF Found, Held
  <2> QED  BY <1>1, <1>3, <2>1, Zenon
<1> QED  BY <1>2, <1>3

LEMMA SameSnapshot ==
  ASSUME NEW r \in Snapshots, NEW s \in Snapshots, r.run = s.run, r.caret = s.caret
  PROVE  r = s
  BY DEF Snapshots

\* While the client keeps its hands off, the check finds the word.
LEMMA CheckFindsWord ==
  ASSUME NativeInv, Retired, ~astray
  PROVE  late
<1>1. open = "native" /\ wait # "waiting" /\ ~\E r \in Seen : Describes(r)
  BY DEF Retired, Checked, WaitingForNativeReport
<1>2. wait = "passed" /\ known /\ InPlace /\ (~late => cache = {client})
  BY <1>1 DEF NativeInv, Watched
<1>3. wait # "none"
  BY <1>2
<1>4. Seen = cache
  BY <1>2, <1>3, Zenon DEF Seen, Refreshed
<1>5. Describes(client)
  BY <1>2 DEF InPlace, Describes
<1> QED  BY <1>1, <1>2, <1>4, <1>5, Zenon

LEMMA PressKeeps ==
  ASSUME NativeInv, NEW k \in Keys, Press(k)
  PROVE  NativeInv'
<1> USE DEF NativeInv
<1>1. PICK a \in Key(k, Found) :
        /\ open' = a.open /\ word' = a.word /\ client' = a.client
        /\ prefix' = IF a.open = "native" THEN prefix ELSE <<>>
        /\ wait' = PrepareNativeDelivery(Found, a)
        /\ known' = Refreshed
        /\ astray' = (a.open = "native" /\ astray)
        /\ late' = (a.open = "native" /\ (late \/ (sent # <<>> /\ a.word # Found.word)))
        /\ UNCHANGED <<cache, sent, shows>>
  BY DEF Press
<1>2. /\ Found.open \in Opens /\ Found.word \in Nat
      /\ (Found.word = 0 <=> Found.open = "none")
      /\ Found.open = "native" => ~Retired /\ open = "native" /\ Found.word = word
  <2>1. "native" # "none"
    OBVIOUS
  <2> QED  BY <2>1, FoundWord, Zenon
<1>3. /\ a.open \in Opens /\ a.word \in Nat /\ (a.word = 0 <=> a.open = "none")
      /\ a.client \in Snapshots
      /\ a.open = "native" =>
           /\ Found.open = "native"
           /\ Kept(Found, a) \/ Grown(Found, a) \/ Shrunk(Found, a)
  BY <1>2, KeyOutcomes, Zenon
<1>4. WellTyped'
  <2>1. <<>> \in Seq(Chars)
    BY EmptySeq
  <2> QED  BY <1>1, <1>3, <2>1, Zenon DEF WellTyped
<1>5. Watched'
  <2> SUFFICES ASSUME open' = "native"
               PROVE  /\ wait' \in {"waiting", "passed"}
                      /\ wait' = "passed" => known'
                      /\ ~astray' => InPlace'
                      /\ ~astray' /\ ~late' =>
                           /\ \A i \in 1..Len(sent') : sent'[i] = client'
                           /\ wait' = "passed" => cache' = {client'}
    BY DEF Watched
  <2>1. /\ Found.open = "native" /\ ~Retired /\ open = "native" /\ Found.word = word
        /\ Kept(Found, a) \/ Grown(Found, a) \/ Shrunk(Found, a)
        /\ prefix' = prefix /\ (astray' <=> astray)
        /\ late' <=> late \/ (sent # <<>> /\ a.word # word)
        /\ wait' = IF a.word # word THEN "waiting" ELSE wait
    <3>1. a.open = "native"
      BY <1>1
    <3>2. /\ Found.open = "native" /\ ~Retired /\ open = "native" /\ Found.word = word
          /\ Kept(Found, a) \/ Grown(Found, a) \/ Shrunk(Found, a)
      BY <1>2, <1>3, <3>1, Zenon
    <3>3. wait' = IF a.word # word THEN "waiting" ELSE wait
      BY <1>1, <3>1, <3>2, Zenon DEF PrepareNativeDelivery
    <3> QED  BY <1>1, <3>1, <3>2, <3>3, Zenon
  <2>2. /\ wait \in {"waiting", "passed"} /\ (wait = "passed" => known)
        /\ ~astray => InPlace
        /\ ~astray /\ ~late => /\ \A i \in 1..Len(sent) : sent[i] = client
                               /\ wait = "passed" => cache = {client}
    BY <2>1 DEF Watched
  <2>3. client \in Snapshots /\ prefix \in Seq(Chars) /\ word \in Nat /\ word # 0
        /\ client.run \in Seq(Chars) /\ sent \in Seq(Snapshots)
    <3>1. "native" # "none"
      OBVIOUS
    <3> QED  BY <2>1, <3>1 DEF WellTyped, Snapshots
  <2>4. wait' \in {"waiting", "passed"}
    BY <2>1, <2>2
  <2>5. wait' = "passed" => known'
    <3>1. Refreshed = known
      BY <2>2 DEF Refreshed
    <3>2. wait' = "passed" => wait = "passed"
      BY <2>1
    <3> QED  BY <1>1, <2>2, <3>1, <3>2, Zenon
  <2>6. Kept(Found, a) => a.word = word /\ client' = client
    <3>1. Kept(Found, a) => a.client.run = client.run /\ a.client.caret = client.caret
      BY DEF Kept
    <3> QED  BY <1>1, <1>3, <2>1, <2>3, <3>1, SameSnapshot, Zenon DEF Kept
  <2>7. ASSUME ~astray' PROVE InPlace'
    <3>1. client.caret = "free" /\ client.run = prefix \o Letters(word)
      BY <2>1, <2>2, <2>7 DEF InPlace
    <3>2. Typed(client.caret) = "free" /\ client.caret # "selection"
      BY <3>1 DEF Typed
    <3>3. CASE Kept(Found, a)
      BY <1>1, <2>1, <2>6, <3>1, <3>3, Zenon DEF InPlace
    <3>4. CASE Grown(Found, a)
      <4>1. client'.run = Append(client.run, "x") /\ word' = word + 1 /\ client'.caret = "free"
        BY <1>1, <2>1, <3>2, <3>4, Zenon DEF Grown
      <4>2. Append(prefix \o Letters(word), "x") = prefix \o Letters(word + 1)
        BY <2>3, WordInRun
      <4> QED  BY <2>1, <3>1, <4>1, <4>2, Zenon DEF InPlace
    <3>5. CASE Shrunk(Found, a)
      <4>1. /\ prefix \o Letters(word) # <<>>
            /\ Front(prefix \o Letters(word)) = prefix \o Letters(word - 1)
        <5>1. word > 0
          BY <2>3
        <5> QED  BY <2>3, <5>1, WordInRun
      <4>2. client'.run = Front(client.run) /\ word' = word - 1 /\ client'.caret = "free"
        BY <1>1, <2>1, <3>1, <3>2, <3>5, <4>1, Zenon DEF Shrunk
      <4> QED  BY <2>1, <3>1, <4>1, <4>2, Zenon DEF InPlace
    <3> QED  BY <2>1, <3>3, <3>4, <3>5
  <2>8. ASSUME ~astray', ~late'
        PROVE  /\ \A i \in 1..Len(sent') : sent'[i] = client'
               /\ wait' = "passed" => cache' = {client'}
    <3>1. ~astray /\ ~late /\ (sent = <<>> \/ a.word = word)
      BY <2>1, <2>8
    <3>2. a.word = word => client' = client
      <4>1. Grown(Found, a) \/ Shrunk(Found, a) => a.word # word
        <5>1. word + 1 # word /\ word - 1 # word
          BY <2>3
        <5> QED  BY <2>1, <5>1, Zenon DEF Grown, Shrunk
      <4> QED  BY <2>1, <2>6, <4>1, Zenon
    <3>3. \A i \in 1..Len(sent') : sent'[i] = client'
      <4>1. CASE sent = <<>>
        <5>1. Len(sent) = 0
          BY <4>1, EmptySeq
        <5> QED  BY <1>1, <5>1
      <4>2. CASE a.word = word
        BY <1>1, <2>2, <3>1, <3>2, <4>2, Zenon
      <4> QED  BY <3>1, <4>1, <4>2
    <3>4. ASSUME wait' = "passed" PROVE cache' = {client'}
      <4>1. a.word = word /\ wait = "passed"
        BY <2>1, <3>4
      <4> QED  BY <1>1, <2>2, <3>1, <3>2, <4>1, Zenon
    <3> QED  BY <3>3, <3>4
  <2> QED  BY <2>4, <2>5, <2>7, <2>8
<1> QED  BY <1>4, <1>5

\* The identifier observed in front of a word that was delivered where the
\* adapter could see it is what the client has in front of it.
LEMMA ObservedInFront ==
  ASSUME WellTyped, NEW f, f.open \in {"preedit", "delivered"}, f.open = open,
         f.word = word, word # 0, Anchored(f)
  PROVE  /\ Flushed(f) = ObservedPrefix(Report, f) \o Letters(word)
         /\ AfterDelivery(f) = "free"
<1> DEFINE t == client.run
           v == Report.run
<1>1. /\ t \in Seq(Chars) /\ Letters(word) \in Seq(Chars) /\ word \in Nat /\ Len(t) \in Nat
      /\ <<>> \in Seq(Chars) /\ t \o <<>> = t
      /\ Len(Letters(word)) = word /\ <<>> \o Letters(word) = Letters(word)
  <2>1. t \in Seq(Chars) /\ word \in Nat
    BY DEF WellTyped, Snapshots
  <2>2. Letters(word) \in Seq(Chars) /\ Len(Letters(word)) = word
    BY <2>1, LettersText
  <2>3. t \o <<>> = t /\ <<>> \o Letters(word) = Letters(word)
    BY <2>1, <2>2, ConcatEmptySeq
  <2> QED  BY <2>1, <2>2, <2>3, LenProperties, EmptySeq
<1>2. client.caret = "free" /\ Report.caret = "free" /\ AfterDelivery(f) = "free"
  BY DEF Anchored, Report, AfterDelivery, WellTyped, Snapshots
<1>3. v = t \o (IF shows /\ open = "preedit" THEN Letters(word) ELSE <<>>)
  BY DEF Report, WellTyped, Snapshots
<1>4. Report.caret # "selection"
  BY <1>2
<1> DEFINE seen == ObservedPrefix(Report, f)
           start == IF EndsIn(v, word) THEN Len(v) - word ELSE Len(v)
<1>5. seen = IF \/ start = 0 \/ v[start] # "_"
                \/ ~EndsIn(v, word) /\ f.open # "preedit"
             THEN <<>> ELSE SubSeq(v, 1, start)
  <2>1. seen = LET s == IF EndsIn(v, f.word) THEN Len(v) - f.word ELSE Len(v) IN
               IF \/ Report.caret = "selection" \/ s = 0 \/ v[s] # "_"
                  \/ ~EndsIn(v, f.word) /\ f.open # "preedit"
               THEN <<>> ELSE SubSeq(v, 1, s)
    BY Zenon DEF ObservedPrefix
  <2>2. seen = IF \/ Report.caret = "selection" \/ start = 0 \/ v[start] # "_"
                  \/ ~EndsIn(v, word) /\ f.open # "preedit"
               THEN <<>> ELSE SubSeq(v, 1, start)
    BY <2>1, Zenon
  <2> HIDE DEF seen, start
  <2> QED  BY <1>4, <2>2, Zenon
<1> HIDE DEF seen, start
<1>6. CASE open = "preedit"
  <2>1. Flushed(f) = t \o Letters(word)
    BY <1>6 DEF Flushed
  <2>2. Len(t) > 0 => t[Len(t)] = "_"
    <3>1. f.open # "delivered"
      BY <1>6
    <3>2. Len(t) - 0 = Len(t)
      BY <1>1
    <3>3. \A z : z = (IF f.open = "delivered" THEN f.word ELSE 0) =>
                   (Len(t) - z > 0 => t[Len(t) - z] = "_")
      BY Zenon DEF Anchored
    <3>4. (IF f.open = "delivered" THEN f.word ELSE 0) = 0
      BY <3>1, Zenon
    <3> QED  BY <3>2, <3>3, <3>4, Zenon
  <2>3. start = Len(t) /\ SubSeq(v, 1, Len(t)) = t /\ (Len(t) > 0 => v[Len(t)] = t[Len(t)])
    <3>1. CASE shows
      <4>1. v = t \o Letters(word)
        BY <1>3, <1>6, <3>1, Zenon
      <4>2. EndsIn(v, word) /\ Len(v) = Len(t) + word /\ SubSeq(v, 1, Len(t)) = t
        <5>1. EndsIn(t \o Letters(word), word)
          BY <1>1, RunEnds
        <5>2. /\ Len(t \o Letters(word)) = Len(t) + Len(Letters(word))
              /\ SubSeq(t \o Letters(word), 1, Len(t)) = t
          BY <1>1, Joined
        <5> QED  BY <1>1, <4>1, <5>1, <5>2, Zenon
      <4>3. start = Len(t)
        <5>1. start = Len(v) - word
          BY <4>2 DEF start
        <5> QED  BY <1>1, <4>2, <5>1
      <4>4. Len(t) > 0 => v[Len(t)] = t[Len(t)]
        <5>1. \A i \in 1..(Len(t) + Len(Letters(word))) :
                (t \o Letters(word))[i]
                  = IF i <= Len(t) THEN t[i] ELSE Letters(word)[i - Len(t)]
          BY <1>1, ConcatProperties
        <5>2. Len(t) > 0 =>
                Len(t) \in 1..(Len(t) + Len(Letters(word))) /\ Len(t) <= Len(t)
          BY <1>1
        <5> QED  BY <4>1, <5>1, <5>2, Zenon
      <4> QED  BY <4>2, <4>3, <4>4
    <3>2. CASE ~shows
      <4>1. v = t
        BY <1>1, <1>3, <3>2, Zenon
      <4>2. ~EndsIn(t, word)
        <5>1. word > 0
          BY <1>1
        <5> QED  BY <1>1, <2>2, <5>1, RunEnds
      <4>3. start = Len(t)
        BY <4>1, <4>2 DEF start
      <4>4. SubSeq(t, 1, Len(t)) = t
        BY <1>1, SubSeqFull
      <4> QED  BY <4>1, <4>3, <4>4
    <3> QED  BY <3>1, <3>2
  <2>4. f.open = "preedit"
    BY <1>6
  <2>5. seen = t
    <3>1. CASE Len(t) = 0
      <4>1. t = <<>> /\ seen = <<>>
        BY <1>1, <1>5, <2>3, <3>1, EmptySeq, Zenon
      <4> QED  BY <4>1
    <3>2. CASE Len(t) # 0
      <4>1. Len(t) > 0
        BY <1>1, <3>2
      <4>2. v[start] = "_" /\ start # 0
        BY <2>2, <2>3, <3>2, <4>1, Zenon
      <4> QED  BY <1>5, <2>3, <2>4, <4>2, Zenon
    <3> QED  BY <3>1, <3>2
  <2> QED  BY <1>2, <2>1, <2>5 DEF seen
<1>7. CASE open = "delivered"
  <2>1. v = t /\ Flushed(f) = t
    <3>1. open # "preedit" /\ f.open # "preedit"
      BY <1>7
    <3> QED  BY <1>1, <1>3, <3>1, Zenon DEF Flushed
  <2> DEFINE at == Len(t) - word
  <2>2. EndsIn(t, word) /\ (at > 0 => t[at] = "_")
    BY <1>7, Zenon DEF Anchored
  <2>3. start = at
    BY <2>1, <2>2 DEF start
  <2>4. t = SubSeq(t, 1, at) \o Letters(word) /\ at >= 0
    <3>1. t = SubSeq(t, 1, at) \o Letters(word) /\ word <= Len(t)
      BY <1>1, <2>2, RunEnds
    <3> QED  BY <1>1, <3>1
  <2>5. seen = SubSeq(t, 1, at)
    <3>1. CASE at = 0
      <4>1. SubSeq(t, 1, 0) = <<>>
        <5>1. 1 \in Int /\ 0 \in Int /\ 0 < 1
          OBVIOUS
        <5> QED  BY <5>1, SubSeqEmpty, Zenon
      <4> HIDE DEF at
      <4>2. seen = <<>> /\ SubSeq(t, 1, at) = <<>>
        BY <1>5, <2>3, <3>1, <4>1, Zenon
      <4> QED  BY <4>2
    <3>2. CASE at # 0
      <4>1. at > 0
        BY <1>1, <2>4, <3>2
      <4> HIDE DEF at
      <4>2. v[start] = "_" /\ start # 0
        BY <2>1, <2>2, <2>3, <3>2, <4>1, Zenon
      <4> QED  BY <1>5, <2>1, <2>2, <2>3, <4>2, Zenon
    <3> QED  BY <3>1, <3>2
  <2> QED  BY <1>2, <2>1, <2>4, <2>5, Zenon DEF seen
<1> QED  BY <1>6, <1>7

LEMMA ObservedText ==
  ASSUME NEW r \in Snapshots, NEW f, f.word \in Nat
  PROVE  ObservedPrefix(r, f) \in Seq(Chars)
<1>1. r.run \in Seq(Chars) /\ Len(r.run) \in Nat
  BY LenProperties DEF Snapshots
<1> DEFINE start == IF EndsIn(r.run, f.word) THEN Len(r.run) - f.word ELSE Len(r.run)
<1>2. start \in Int /\ start <= Len(r.run)
  BY <1>1
<1>3. SubSeq(r.run, 1, start) \in Seq(Chars)
  <2>1. \A i \in 1..start : r.run[i] \in Chars
    BY <1>1, <1>2, ElementOfSeq
  <2>2. 1 \in Int
    OBVIOUS
  <2> HIDE DEF start
  <2> QED  BY <1>1, <1>2, <2>1, <2>2, SubSeqProperties
<1>4. ObservedPrefix(r, f) = <<>> \/ ObservedPrefix(r, f) = SubSeq(r.run, 1, start)
  BY Zenon DEF ObservedPrefix
<1>5. <<>> \in Seq(Chars)
  BY EmptySeq
<1> QED  BY <1>3, <1>4, <1>5

LEMMA HandoffKeeps ==
  ASSUME NativeInv, Handoff
  PROVE  NativeInv'
<1> USE DEF NativeInv
<1>1. CASE Found.open = "native"
  <2>1. UNCHANGED <<open, word, prefix, wait, cache, known, client, sent, astray, late, shows>>
    BY <1>1 DEF Handoff
  <2> QED  BY <2>1 DEF WellTyped, Watched, InPlace
<1>2. CASE Found.open # "native"
  <2> DEFINE given == Found.word > 0
             sighted == ObservedPrefix(CHOOSE r \in Seen : TRUE, Found)
  <2>1. /\ open' = IF given THEN "native" ELSE "none"
        /\ word' = Found.word
        /\ prefix' = IF given /\ Seen # {} THEN sighted ELSE <<>>
        /\ client' = [run |-> Flushed(Found), caret |-> AfterDelivery(Found)]
        /\ astray' = (given /\ ~(Anchored(Found) /\ Seen = {Report}))
        /\ \/ /\ wait' = IF given THEN "waiting" ELSE "none"
              /\ late' = (given /\ sent # <<>>) /\ cache' = cache /\ sent' = sent
           \/ /\ wait' = "passed" /\ known' = TRUE
              /\ cache' = {client'} /\ sent' = <<>> /\ late' = FALSE
        /\ shows' = shows
    BY <1>2 DEF Handoff
  <2>2. /\ Found.open \in Opens /\ Found.word \in Nat
        /\ (Found.word = 0 <=> Found.open = "none") /\ (given <=> Found.word # 0)
    <3>1. \A n \in Nat : n > 0 <=> n # 0
      OBVIOUS
    <3> QED  BY <3>1, FoundWord, Zenon
  <2>3. Flushed(Found) \in Seq(Chars) /\ AfterDelivery(Found) \in Carets
    BY <2>2, Flushing, Zenon
  <2>4. client' \in Snapshots /\ client'.run = Flushed(Found)
        /\ client'.caret = AfterDelivery(Found)
    BY <2>1, <2>3, SnapshotForm
  <2>5. Seen \in SUBSET Snapshots /\ <<>> \in Seq(Chars) /\ <<>> \in Seq(Snapshots)
    BY EmptySeq DEF Seen, WellTyped
  <2>6. prefix' \in Seq(Chars)
    <3>1. CASE given /\ Seen # {}
      <4>1. (CHOOSE r \in Seen : TRUE) \in Snapshots
        BY <2>5, <3>1
      <4> QED  BY <2>1, <2>2, <3>1, <4>1, ObservedText, Zenon
    <3>2. CASE ~(given /\ Seen # {})
      BY <2>1, <2>5, <3>2, Zenon
    <3> QED  BY <3>1, <3>2
  <2>7. WellTyped'
    <3>1. open' \in Opens /\ (word' = 0 <=> open' = "none") /\ word' \in Nat
      <4>1. "native" \in Opens /\ "none" \in Opens /\ "native" # "none"
        BY DEF Opens
      <4> QED  BY <2>1, <2>2, <4>1, Zenon
    <3>2. cache' \in SUBSET Snapshots /\ sent' \in Seq(Snapshots) /\ shows' \in BOOLEAN
      BY <2>1, <2>4, <2>5 DEF WellTyped
    <3> QED  BY <2>4, <2>6, <3>1, <3>2, Zenon DEF WellTyped
  <2> HIDE DEF given
  <2>8. Watched'
    <3> SUFFICES ASSUME open' = "native"
                 PROVE  /\ wait' \in {"waiting", "passed"}
                        /\ wait' = "passed" => known'
                        /\ ~astray' => InPlace'
                        /\ ~astray' /\ ~late' =>
                             /\ \A i \in 1..Len(sent') : sent'[i] = client'
                             /\ wait' = "passed" => cache' = {client'}
      BY DEF Watched
    <3>1. given /\ Found.word # 0
      BY <2>1, <2>2
    <3>2. Found.open \in {"preedit", "delivered"} /\ Found.open = open /\ Found.word = word
      <4>1. Found.open # "none"
        BY <2>2, <3>1
      <4>2. Found.open = open /\ Found.word = word
        BY <4>1, FoundWord, Zenon
      <4> QED  BY <1>2, <2>2, <4>1, <4>2 DEF Opens
    <3>3. \/ /\ wait' = "waiting" /\ cache' = cache /\ sent' = sent
             /\ late' <=> sent # <<>>
          \/ /\ wait' = "passed" /\ known' /\ cache' = {client'} /\ sent' = <<>>
      BY <2>1, <3>1
    <3>4. ASSUME ~astray' PROVE InPlace'
      <4>1. Anchored(Found) /\ Seen = {Report}
        BY <2>1, <3>1, <3>4, Zenon
      <4>2. (CHOOSE r \in Seen : TRUE) = Report /\ Seen # {}
        BY <4>1
      <4>3. prefix' = ObservedPrefix(Report, Found)
        BY <2>1, <3>1, <4>2, Zenon
      <4>4. /\ Flushed(Found) = ObservedPrefix(Report, Found) \o Letters(word)
            /\ AfterDelivery(Found) = "free"
        <5>1. WellTyped /\ word # 0 /\ Anchored(Found)
          BY <3>1, <3>2, <4>1
        <5> QED  BY <3>2, <5>1, ObservedInFront
      <4>5. word' = word
        BY <2>1, <3>2
      <4> QED  BY <2>4, <4>3, <4>4, <4>5, Zenon DEF InPlace
    <3>5. ~late' => \A i \in 1..Len(sent') : sent'[i] = client'
      <4>1. ~late' => sent' = <<>>
        BY <3>3
      <4>2. sent' = <<>> => Len(sent') = 0
        BY EmptySeq
      <4> QED  BY <4>1, <4>2
    <3>6. /\ wait' \in {"waiting", "passed"} /\ (wait' = "passed" => known')
          /\ wait' = "passed" => cache' = {client'}
      BY <3>3
    <3> QED  BY <3>4, <3>5, <3>6
  <2> QED  BY <2>7, <2>8
<1> QED  BY <1>1, <1>2

LEMMA ReceiveKeeps ==
  ASSUME NativeInv, Receive
  PROVE  NativeInv'
<1> USE DEF NativeInv
<1>1. /\ sent # <<>> /\ sent \in Seq(Snapshots)
      /\ cache' = {Head(sent)} /\ known' /\ sent' = Tail(sent)
      /\ wait' = IF wait = "none" THEN "none" ELSE "passed"
      /\ UNCHANGED <<open, word, prefix, client, shows, astray, late>>
  BY DEF Receive, WellTyped
<1>2. /\ Head(sent) \in Snapshots /\ Tail(sent) \in Seq(Snapshots) /\ Len(sent) > 0
      /\ Head(sent) = sent[1] /\ Len(sent) \in Nat
      /\ Len(Tail(sent)) = Len(sent) - 1
      /\ \A i \in 1..Len(Tail(sent)) : Tail(sent)[i] = sent[i + 1]
  BY <1>1, HeadTailProperties, EmptySeq, LenProperties
<1>3. WellTyped'
  BY <1>1, <1>2 DEF WellTyped
<1>4. (\A i \in 1..Len(sent) : sent[i] = client) =>
        Head(sent) = client /\ \A i \in 1..Len(Tail(sent)) : Tail(sent)[i] = client
  <2>1. 1 \in 1..Len(sent) /\ \A i \in 1..Len(Tail(sent)) : i + 1 \in 1..Len(sent)
    BY <1>2
  <2> QED  BY <1>2, <2>1
<1>5. Watched'
  BY <1>1, <1>4 DEF Watched, InPlace
<1> QED  BY <1>3, <1>5

LEMMA ReportForm ==
  ASSUME WellTyped
  PROVE  Report \in Snapshots /\ (open = "native" => Report = client)
<1>1. client \in Snapshots /\ client.run \in Seq(Chars) /\ word \in Nat
  BY DEF WellTyped, Snapshots
<1> DEFINE tail == IF shows /\ open = "preedit" THEN Letters(word) ELSE <<>>
<1>2. tail \in Seq(Chars)
  BY <1>1, LettersText, EmptySeq
<1>3. client.run \o tail \in Seq(Chars)
  BY <1>1, <1>2, Joined
<1>4. Report = [client EXCEPT !.run = client.run \o tail]
  BY DEF Report
<1>5. open = "native" => tail = <<>>
  OBVIOUS
<1>6. client.run \o <<>> = client.run
  BY <1>1, ConcatEmptySeq
<1> HIDE DEF tail
<1>7. Report \in Snapshots
  BY <1>1, <1>3, <1>4 DEF Snapshots
<1>8. open = "native" => Report = client
  BY <1>1, <1>4, <1>5, <1>6 DEF Snapshots
<1> QED  BY <1>7, <1>8

LEMMA ClientReportsKeeps ==
  ASSUME NativeInv, ClientReports
  PROVE  NativeInv'
<1> USE DEF NativeInv
<1>1. /\ sent' = Append(sent, Report) /\ sent \in Seq(Snapshots)
      /\ UNCHANGED <<open, word, prefix, wait, cache, known, client, shows, astray, late>>
  BY DEF ClientReports, WellTyped
<1>2. Report \in Snapshots /\ (open = "native" => Report = client)
  BY ReportForm
<1>3. /\ sent' \in Seq(Snapshots) /\ Len(sent') = Len(sent) + 1 /\ Len(sent) \in Nat
      /\ \A i \in 1..Len(sent) : sent'[i] = sent[i]
      /\ sent'[Len(sent) + 1] = Report
  BY <1>1, <1>2, AppendProperties, LenProperties
<1>4. WellTyped'
  BY <1>1, <1>3 DEF WellTyped
<1>5. open = "native" /\ (\A i \in 1..Len(sent) : sent[i] = client) =>
        \A i \in 1..Len(sent') : sent'[i] = client
  <2>1. \A i \in 1..Len(sent') : i \in 1..Len(sent) \/ i = Len(sent) + 1
    BY <1>3
  <2> QED  BY <1>2, <1>3, <2>1, Zenon
<1>6. Watched'
  BY <1>1, <1>5 DEF Watched, InPlace
<1> QED  BY <1>4, <1>6

LEMMA ClientEditsKeeps ==
  ASSUME NativeInv, ClientEdits
  PROVE  NativeInv'
<1> USE DEF NativeInv
<1>1. /\ client' \in Places \cup {[client EXCEPT !.run = Append(@, "x")]}
      /\ (astray' <=> open = "native")
      /\ UNCHANGED <<open, word, prefix, wait, cache, known, sent, shows, late>>
  BY DEF ClientEdits
<1>2. client' \in Snapshots
  <2>1. Places \subseteq Snapshots
    BY BoundsAssumption DEF Snapshots, Chars
  <2>2. client \in Snapshots /\ client.run \in Seq(Chars) /\ "x" \in Chars
    BY DEF WellTyped, Snapshots, Chars
  <2>3. Append(client.run, "x") \in Seq(Chars)
    BY <2>2, AppendProperties
  <2>4. [client EXCEPT !.run = Append(client.run, "x")] \in Snapshots
    BY <2>2, <2>3 DEF Snapshots
  <2> QED  BY <1>1, <2>1, <2>4
<1>3. WellTyped'
  BY <1>1, <1>2 DEF WellTyped
<1>4. Watched'
  BY <1>1 DEF Watched
<1> QED  BY <1>3, <1>4

\* The ways in which a word ends from outside.
LEMMA EndKeeps ==
  ASSUME NativeInv, Cancel \/ Leave \/ FocusIn
  PROVE  NativeInv'
<1> USE DEF NativeInv
<1>1. <<>> \in Seq(Chars) /\ 0 \in Nat /\ "none" \in Opens
  BY EmptySeq DEF Opens
<1>2. ASSUME Dropped, client' \in Snapshots PROVE NativeInv'
  <2>1. WellTyped'
    BY <1>1, <1>2 DEF Dropped, WellTyped
  <2>2. Watched'
    BY <1>2 DEF Dropped, Watched
  <2> QED  BY <2>1, <2>2
<1>3. client \in Snapshots
  BY DEF WellTyped
<1>4. CASE Cancel
  BY <1>2, <1>3, <1>4 DEF Cancel
<1>5. CASE Leave
  <2>1. Held.word \in Nat
    BY DEF Held, WellTyped
  <2>2. Flushed(Held) \in Seq(Chars) /\ AfterDelivery(Held) \in Carets
    BY <2>1, Flushing
  <2> QED  BY <1>2, <1>5, <2>2, SnapshotForm DEF Leave
<1>6. CASE FocusIn
  <2>1. CASE open = "native"
    BY <1>2, <1>3, <1>6, <2>1 DEF FocusIn
  <2>2. CASE open # "native"
    <3>1. UNCHANGED <<open, word, prefix, cache, sent, shows, client>>
      BY <1>6, <2>2 DEF FocusIn
    <3> QED  BY <2>2, <3>1 DEF WellTyped, Watched
  <2> QED  BY <2>1, <2>2
<1> QED  BY <1>4, <1>5, <1>6

LEMMA NativeNext ==
  ASSUME NativeInv, Next
  PROVE  NativeInv'
BY PressKeeps, HandoffKeeps, ReceiveKeeps, ClientReportsKeeps, ClientEditsKeeps, EndKeeps
DEF Next

LEMMA NativeStart == Init => NativeInv
<1> SUFFICES ASSUME Init PROVE NativeInv
  OBVIOUS
<1>1. <<>> \in Seq(Chars) /\ <<>> \in Seq(Snapshots) /\ 0 \in Nat /\ "none" \in Opens
  BY EmptySeq DEF Opens
<1>2. client \in Snapshots
  <2>1. "free" \in Carets
    BY DEF Carets
  <2> QED  BY <1>1, <2>1, SnapshotForm DEF Init
<1> QED  BY <1>1, <1>2 DEF Init, NativeInv, WellTyped, Watched

LEMMA NativeAlways == Spec => []NativeInv
<1>1. NativeInv /\ [Next]_vars => NativeInv'
  <2> SUFFICES ASSUME NativeInv, [Next]_vars PROVE NativeInv'
    OBVIOUS
  <2>1. CASE Next
    BY <2>1, NativeNext
  <2>2. CASE UNCHANGED vars
    BY <2>2 DEF vars, NativeInv, WellTyped, Watched, InPlace
  <2> QED  BY <2>1, <2>2
<1> QED  BY <1>1, NativeStart, PTL DEF Spec

\* For any length of words and runs and any number of reports under way, the
\* word the adapter takes for the client's is the text before its caret, unless
\* the client has left it (reconcile_native_completion_word in input.rs and
\* _prepare_native_delivery in smartkey_engine.py).
THEOREM SpecOwnedIsInPlace == Spec => []OwnedIsInPlace
<1>1. NativeInv => OwnedIsInPlace
  BY DEF NativeInv, Watched, OwnedIsInPlace
<1> QED  BY <1>1, NativeAlways, PTL

\* No press retires a word the client still has, whatever reports are under
\* way: only one that was overtaken by a delivery may mislead the check
\* (_native_report_barrier in smartkey_engine.py).
THEOREM SpecRetiredOnlyIfLeft == Spec => RetiredOnlyIfLeft
<1>1. ASSUME NativeInv, Next, verdict' = "retired"
      PROVE  astray \/ late
  <2>1. Retired
    <3>1. Judged => Retired
      BY <1>1 DEF Judged
    <3>2. CASE \E k \in Keys : Press(k)
      BY <3>1, <3>2 DEF Press
    <3>3. CASE Handoff
      BY <3>1, <3>3 DEF Handoff
    <3>4. CASE Receive \/ ClientReports \/ ClientEdits \/ Cancel \/ Leave \/ FocusIn
      BY <1>1, <3>4 DEF Receive, ClientReports, ClientEdits, Cancel, Leave, FocusIn, Dropped
    <3> QED  BY <1>1, <3>2, <3>3, <3>4 DEF Next
  <2> QED  BY <1>1, <2>1, CheckFindsWord
<1>2. NativeInv /\ [Next]_vars => [verdict' = "retired" => astray \/ late]_vars
  BY <1>1
<1> QED  BY <1>2, NativeAlways, PTL DEF Spec, RetiredOnlyIfLeft

-----------------------------------------------------------------------------
(* ComServer.                                                              *)

(* The threads OBJECT_COUNT counts: their instance is not deactivated, or its
   Deactivate has not lowered the counter yet. *)
OnCount == {t \in Threads : instance[t] \in {"new", "active"} \/ "objects" \in lowering[t]}

\* Those it counted when DllCanUnloadNow loaded it.
Elder == OnCount \ newer

ServerInv ==
  /\ TypeOK
  /\ \A t \in Threads : \A c, d \in lowering[t] : c = d
  /\ \A t \in Threads : "objects" \in lowering[t] => instance[t] = "retired"
  /\ Cardinality(OnCount) <= count["objects"] + again
  /\ unload # "idle" => Cardinality(Elder) <= again

-----------------------------------------------------------------------------

\* What is counted is finite, and no larger than what contains it.
LEMMA Sized ==
  ASSUME NEW S \in SUBSET Threads
  PROVE  /\ IsFiniteSet(S) /\ Cardinality(S) \in Nat
         /\ \A R \in SUBSET S : Cardinality(R) \in Nat /\ Cardinality(R) <= Cardinality(S)
         /\ \A t \in Threads : Cardinality(S \cup {t}) <= Cardinality(S) + 1
         /\ \A t \in S : Cardinality(S \ {t}) = Cardinality(S) - 1
<1>1. IsFiniteSet(S) /\ Cardinality(S) \in Nat
  BY ThreadsAssumption, FS_Subset, FS_CardinalityType
<1>2. ASSUME NEW R \in SUBSET S PROVE Cardinality(R) \in Nat /\ Cardinality(R) <= Cardinality(S)
  BY <1>1, FS_Subset, FS_CardinalityType
<1>3. ASSUME NEW t \in Threads PROVE Cardinality(S \cup {t}) <= Cardinality(S) + 1
  <2>1. Cardinality(S \cup {t}) \in {Cardinality(S), Cardinality(S) + 1}
    BY <1>1, FS_AddElement
  <2> QED
    BY <1>1, <2>1
<1>4. ASSUME NEW t \in S PROVE Cardinality(S \ {t}) = Cardinality(S) - 1
  BY <1>1, FS_RemoveElement
<1> QED
  BY <1>1, <1>2, <1>3, <1>4

LEMMA Counts ==
  /\ OnCount \in SUBSET Threads /\ OnCount' \in SUBSET Threads
  /\ Elder \in SUBSET Threads /\ Elder' \in SUBSET Threads
BY DEF OnCount, Elder

LEMMA InitServerInv == InitServer => ServerInv
<1> SUFFICES ASSUME InitServer PROVE ServerInv
  OBVIOUS
<1>1. TypeOK
  BY DEF InitServer, TypeOK
<1>2. OnCount = {} /\ count["objects"] = 0 /\ again = 0 /\ unload = "idle"
  BY DEF InitServer, OnCount, Counters
<1>3. Cardinality(OnCount) = 0
  BY <1>2, FS_EmptySet
<1> QED
  BY <1>1, <1>2, <1>3 DEF InitServer, ServerInv

\* A step that counts no thread more and leaves the rest of it alone.
LEMMA NotMore ==
  ASSUME ServerInv, OnCount' \subseteq OnCount, newer' = newer, again' = again,
         unload' = unload, count'["objects"] = count["objects"]
  PROVE  /\ Cardinality(OnCount') <= count'["objects"] + again'
         /\ unload' # "idle" => Cardinality(Elder') <= again'
<1>1. /\ count["objects"] \in Nat /\ again \in Nat
      /\ Cardinality(OnCount) <= count["objects"] + again
      /\ unload # "idle" => Cardinality(Elder) <= again
  BY DEF ServerInv, TypeOK, Counters
<1>2. Elder' \subseteq Elder
  BY DEF Elder
<1>3. Cardinality(OnCount') \in Nat /\ Cardinality(OnCount) \in Nat
      /\ Cardinality(OnCount') <= Cardinality(OnCount)
  BY Counts, Sized
<1>4. Cardinality(Elder') \in Nat /\ Cardinality(Elder) \in Nat
      /\ Cardinality(Elder') <= Cardinality(Elder)
  BY <1>2, Counts, Sized
<1> QED
  BY <1>1, <1>3, <1>4

\* An exchange that succeeds lowers the counter as it is: every value a thread
\* has read is the same one.
LEMMA ExchangeLowers ==
  ASSUME ServerInv, NEW t \in Threads, NEW c \in Counters, Exchange(t, c)
  PROVE  /\ c \in lowering[t] /\ count[c] \in observed[t]
         /\ count' = [count EXCEPT ![c] = IF count[c] = 0 THEN 0 ELSE count[c] - 1]
         /\ lowering' = [lowering EXCEPT ![t] = {}] /\ observed' = [observed EXCEPT ![t] = {}]
         /\ UNCHANGED <<instance, again, unload, newer>>
<1>1. c \in lowering[t] /\ count[c] \in observed[t] /\ Lowered(t, c)
  BY DEF Exchange
<1>2. PICK n \in observed[t] : count' = [count EXCEPT ![c] = IF n = 0 THEN 0 ELSE n - 1]
  BY <1>1 DEF Lowered
<1>3. n = count[c]
  <2>1. \A m, k \in observed[t] : m = k
    BY DEF ServerInv, TypeOK
  <2> QED
    BY <1>1, <2>1
<1>4. count' = [count EXCEPT ![c] = IF count[c] = 0 THEN 0 ELSE count[c] - 1]
  BY <1>2, <1>3
<1>5. /\ lowering' = [lowering EXCEPT ![t] = {}] /\ observed' = [observed EXCEPT ![t] = {}]
      /\ UNCHANGED <<instance, again, unload, newer>>
  BY <1>1 DEF Lowered, asking
<1> QED
  BY <1>1, <1>4, <1>5

LEMMA NextServerInv == ServerInv /\ [NextServer]_serverVars => ServerInv'
<1> SUFFICES ASSUME ServerInv, [NextServer]_serverVars PROVE ServerInv'
  OBVIOUS
<1> USE DEF ServerInv, TypeOK
<1>0. "objects" \in Counters /\ "locks" \in Counters /\ "objects" # "locks"
  BY DEF Counters
<1>a. /\ count["objects"] \in Nat /\ again \in Nat
      /\ Cardinality(OnCount) \in Nat /\ Cardinality(OnCount') \in Nat
      /\ Cardinality(Elder) \in Nat /\ Cardinality(Elder') \in Nat
  BY <1>0, Counts, Sized
<1>1. ASSUME NEW t \in Threads, CreateInstance(t) PROVE ServerInv'
  <2>1. /\ instance' = [instance EXCEPT ![t] = "made"] /\ instance[t] = "none"
        /\ UNCHANGED <<count, lowering, observed, again, unload, newer>> /\ lowering[t] = {}
    BY <1>1 DEF CreateInstance, Idle, asking
  <2>2. TypeOK' /\ OnCount' \subseteq OnCount
    BY <2>1 DEF OnCount
  <2> QED
    BY <2>1, <2>2, NotMore
<1>2. ASSUME NEW t \in Threads, Counted(t) PROVE ServerInv'
  <2>1. /\ instance' = [instance EXCEPT ![t] = "new"] /\ instance[t] = "made"
        /\ count' = [count EXCEPT !["objects"] = @ + 1]
        /\ newer' = IF unload = "idle" THEN newer ELSE newer \cup {t}
        /\ UNCHANGED <<lowering, observed, unload, again>>
    BY <1>2 DEF Counted, Raise
  <2>2. TypeOK' /\ count'["objects"] = count["objects"] + 1
    BY <1>0, <2>1
  <2>3. OnCount' \subseteq OnCount \cup {t}
    BY <2>1 DEF OnCount
  <2>4. Cardinality(OnCount') <= Cardinality(OnCount) + 1
    <3>1. OnCount \cup {t} \in SUBSET Threads
      BY Counts
    <3>2. /\ Cardinality(OnCount \cup {t}) \in Nat
          /\ Cardinality(OnCount') <= Cardinality(OnCount \cup {t})
      BY <2>3, <3>1, Sized
    <3>3. Cardinality(OnCount \cup {t}) <= Cardinality(OnCount) + 1
      BY Counts, Sized
    <3> QED
      BY <1>a, <3>2, <3>3
  <2>5. unload' # "idle" => Cardinality(Elder') <= again'
    <3> SUFFICES ASSUME unload # "idle" PROVE Cardinality(Elder') <= again
      BY <2>1
    <3>1. Elder' \subseteq Elder
      BY <2>1, <2>3 DEF Elder
    <3>2. Cardinality(Elder') <= Cardinality(Elder)
      BY <3>1, Counts, Sized
    <3> QED
      BY <1>a, <3>2
  <2>6. Cardinality(OnCount') <= count'["objects"] + again'
    BY <1>a, <2>1, <2>2, <2>4
  <2> QED
    BY <2>1, <2>2, <2>5, <2>6
<1>3. ASSUME NEW t \in Threads, ActivateEx(t) PROVE ServerInv'
  <2>1. /\ instance' = [instance EXCEPT ![t] = "active"] /\ instance[t] \in {"new", "retired"}
        /\ IF instance[t] = "new" THEN again' = again ELSE again' = again + 1
        /\ UNCHANGED <<count, lowering, observed, unload, newer>> /\ lowering[t] = {}
    BY <1>3 DEF ActivateEx, Idle, asking
  <2>2. TypeOK'
    BY <2>1
  <2>3. CASE instance[t] = "new"
    <3>1. OnCount' \subseteq OnCount
      BY <2>1, <2>3 DEF OnCount
    <3> QED
      BY <2>1, <2>2, <2>3, <3>1, NotMore
  <2>4. CASE instance[t] # "new"
    <3>1. OnCount' \subseteq OnCount \cup {t} /\ Elder' \subseteq Elder \cup {t}
      BY <2>1 DEF OnCount, Elder
    <3>2. OnCount \cup {t} \in SUBSET Threads /\ Elder \cup {t} \in SUBSET Threads
      BY Counts
    <3>3. /\ Cardinality(OnCount \cup {t}) \in Nat
          /\ Cardinality(OnCount') <= Cardinality(OnCount \cup {t})
      BY <3>1, <3>2, Sized
    <3>4. /\ Cardinality(Elder \cup {t}) \in Nat
          /\ Cardinality(Elder') <= Cardinality(Elder \cup {t})
      BY <3>1, <3>2, Sized
    <3>5. /\ Cardinality(OnCount \cup {t}) <= Cardinality(OnCount) + 1
          /\ Cardinality(Elder \cup {t}) <= Cardinality(Elder) + 1
      BY Counts, Sized
    <3>6. again' = again + 1
      BY <2>1, <2>4
    <3>7. /\ Cardinality(OnCount') <= count'["objects"] + again'
          /\ unload' # "idle" => Cardinality(Elder') <= again'
      BY <1>a, <2>1, <3>3, <3>4, <3>5, <3>6
    <3> QED
      BY <2>1, <2>2, <3>7
  <2> QED
    BY <2>3, <2>4
<1>4. ASSUME NEW t \in Threads, Deactivate(t) PROVE ServerInv'
  <2>1. /\ instance' = [instance EXCEPT ![t] = "retired"]
        /\ lowering' = [lowering EXCEPT ![t] = {"objects"}]
        /\ UNCHANGED <<count, observed, again, unload, newer>> /\ instance[t] = "active"
    BY <1>4 DEF Deactivate, asking
  <2>2. TypeOK' /\ OnCount' \subseteq OnCount
    BY <1>0, <2>1 DEF OnCount
  <2> QED
    BY <2>1, <2>2, NotMore
<1>5. ASSUME NEW t \in Threads, Release(t) PROVE ServerInv'
  <2>1. /\ instance' = [instance EXCEPT ![t] = "none"]
        /\ UNCHANGED <<count, lowering, observed, again, unload, newer>> /\ lowering[t] = {}
    BY <1>5 DEF Release, Idle, asking
  <2>2. TypeOK' /\ OnCount' \subseteq OnCount
    BY <2>1 DEF OnCount
  <2> QED
    BY <2>1, <2>2, NotMore
<1>6. ASSUME NEW t \in Threads, LockServer(t) PROVE ServerInv'
  <2>1. /\ count' = [count EXCEPT !["locks"] = @ + 1]
        /\ UNCHANGED <<instance, lowering, observed, again, unload, newer>>
    BY <1>6 DEF LockServer, Raise, asking
  <2>2. TypeOK' /\ count'["objects"] = count["objects"] /\ OnCount' \subseteq OnCount
    BY <1>0, <2>1 DEF OnCount
  <2> QED
    BY <2>1, <2>2, NotMore
<1>7. ASSUME NEW t \in Threads, UnlockServer(t) PROVE ServerInv'
  <2>1. /\ lowering' = [lowering EXCEPT ![t] = {"locks"}]
        /\ UNCHANGED <<count, instance, observed, again, unload, newer>> /\ lowering[t] = {}
    BY <1>7 DEF UnlockServer, Idle, asking
  <2>2. TypeOK' /\ OnCount' \subseteq OnCount
    BY <1>0, <2>1 DEF OnCount
  <2> QED
    BY <1>0, <2>1, <2>2, NotMore
<1>8. ASSUME NEW t \in Threads, NEW c \in Counters, Load(t, c) PROVE ServerInv'
  <2>1. /\ observed' = [observed EXCEPT ![t] = {count[c]}]
        /\ UNCHANGED <<count, instance, lowering, again, unload, newer>>
    BY <1>8 DEF Load, asking
  <2>2. TypeOK' /\ OnCount' \subseteq OnCount
    BY <2>1 DEF OnCount
  <2> QED
    BY <2>1, <2>2, NotMore
<1>9. ASSUME NEW t \in Threads, NEW c \in Counters, Exchange(t, c) PROVE ServerInv'
  <2>1. /\ c \in lowering[t] /\ count[c] \in observed[t]
        /\ count' = [count EXCEPT ![c] = IF count[c] = 0 THEN 0 ELSE count[c] - 1]
        /\ lowering' = [lowering EXCEPT ![t] = {}] /\ observed' = [observed EXCEPT ![t] = {}]
        /\ UNCHANGED <<instance, again, unload, newer>>
    BY <1>9, ExchangeLowers
  <2>2. TypeOK'
    BY <2>1
  <2>3. CASE c = "objects"
    <3>1. instance[t] = "retired" /\ t \in OnCount
      BY <2>1, <2>3 DEF OnCount
    <3>2. OnCount' = OnCount \ {t}
      BY <2>1, <3>1 DEF OnCount
    <3>3. Cardinality(OnCount') = Cardinality(OnCount) - 1
      BY <3>1, <3>2, Counts, Sized
    <3>4. count'["objects"] = IF count["objects"] = 0 THEN 0 ELSE count["objects"] - 1
      BY <1>0, <2>1, <2>3
    <3>5. Cardinality(OnCount') <= count'["objects"] + again'
      BY <1>a, <2>1, <3>3, <3>4
    <3>6. Elder' \subseteq Elder
      BY <2>1, <3>2 DEF Elder
    <3>7. Cardinality(Elder') <= Cardinality(Elder)
      BY <3>6, Counts, Sized
    <3>8. unload' # "idle" => Cardinality(Elder') <= again'
      BY <1>a, <2>1, <3>7
    <3> QED
      BY <2>1, <2>2, <3>5, <3>8
  <2>4. CASE c = "locks"
    <3>1. "objects" \notin lowering[t]
      BY <1>0, <2>1, <2>4
    <3>2. OnCount' \subseteq OnCount /\ count'["objects"] = count["objects"]
      BY <1>0, <2>1, <2>4, <3>1 DEF OnCount
    <3> QED
      BY <2>1, <2>2, <3>2, NotMore
  <2> QED
    BY <2>3, <2>4 DEF Counters
<1>10. CASE LoadObjects
  <2>1. /\ unload' = "zero" /\ newer' = {} /\ count["objects"] = 0
        /\ UNCHANGED <<count, instance, lowering, observed, again>>
    BY <1>10 DEF LoadObjects
  <2>2. TypeOK' /\ OnCount' = OnCount /\ Elder' = OnCount
    BY <2>1 DEF OnCount, Elder
  <2>3. Cardinality(Elder') <= again' /\ Cardinality(OnCount') <= count'["objects"] + again'
    BY <1>a, <2>1, <2>2
  <2> QED
    BY <2>1, <2>2, <2>3
<1>11. CASE LoadLocks \/ Answered
  <2>1. /\ unload # "idle" /\ unload' \in {"yes", "idle"}
        /\ newer' = IF unload' = "yes" THEN newer ELSE {}
        /\ UNCHANGED <<count, instance, lowering, observed, again>>
    BY <1>11 DEF LoadLocks, Answered
  <2>2. TypeOK' /\ OnCount' = OnCount
    BY <2>1 DEF OnCount
  <2>3. unload' # "idle" => Elder' = Elder
    BY <2>1, <2>2 DEF Elder
  <2>4. unload' # "idle" => Cardinality(Elder') <= again'
    BY <2>1, <2>3
  <2> QED
    BY <2>1, <2>2, <2>4
<1>12. CASE UNCHANGED serverVars
  BY <1>12 DEF serverVars, OnCount, Elder
<1> QED
  BY <1>1, <1>2, <1>3, <1>4, <1>5, <1>6, <1>7, <1>8, <1>9, <1>10, <1>11, <1>12
     DEF NextServer, DllCanUnloadNow

LEMMA ServerInvHolds == SpecServer => []ServerInv
  BY InitServerInv, NextServerInv, PTL DEF SpecServer

-----------------------------------------------------------------------------

\* The counters stay natural numbers, and each thread has read at most one
\* value (saturating_decrement).
THEOREM TypeCorrect == SpecServer => []TypeOK
<1>1. ServerInv => TypeOK
  BY DEF ServerInv
<1> QED
  BY <1>1, ServerInvHolds, PTL

\* However its two loads fall between the steps of the threads: when
\* DllCanUnloadNow answers S_OK, every instance in use was counted after the
\* first of them, but for at most one per second activation.
THEOREM UnloadIsSafe == SpecServer => []UnloadSpares
<1>1. ServerInv => UnloadSpares
  <2> SUFFICES ASSUME ServerInv, unload = "yes" PROVE Cardinality(InUse \ newer) <= again
    BY DEF UnloadSpares
  <2>1. InUse \ newer \subseteq Elder
    BY DEF InUse, Elder, OnCount
  <2>2. /\ Cardinality(InUse \ newer) \in Nat /\ Cardinality(Elder) \in Nat
        /\ Cardinality(InUse \ newer) <= Cardinality(Elder)
    BY <2>1, Counts, Sized
  <2>3. again \in Nat /\ Cardinality(Elder) <= again
    BY DEF ServerInv, TypeOK
  <2> QED
    BY <2>2, <2>3
<1> QED
  BY <1>1, ServerInvHolds, PTL

\* The loops of loads and compare-and-swaps implement counters that are raised
\* and lowered in one step (counter.rs), however many threads run them.
THEOREM LoopsAreAtomic == SpecServer => ImplementsCounters
<1>1. InitServer => Abstract!Init
  BY DEF InitServer, Abstract!Init
<1>2. ServerInv /\ [NextServer]_serverVars => [Abstract!Next]_count
  <2> SUFFICES ASSUME ServerInv, [NextServer]_serverVars, count' # count PROVE Abstract!Next
    OBVIOUS
  <2> USE DEF Abstract!Next, Abstract!Add, Abstract!Subtract
  <2>0. "objects" \in Counters /\ "locks" \in Counters
    BY DEF Counters
  <2>1. ASSUME NEW t \in Threads, Counted(t) PROVE Abstract!Next
    BY <2>0, <2>1 DEF Counted, Raise
  <2>2. ASSUME NEW t \in Threads, LockServer(t) PROVE Abstract!Next
    BY <2>0, <2>2 DEF LockServer, Raise
  <2>3. ASSUME NEW t \in Threads, NEW c \in Counters, Exchange(t, c) PROVE Abstract!Next
    BY <2>3, ExchangeLowers
  <2>4. ASSUME NEW t \in Threads,
               CreateInstance(t) \/ ActivateEx(t) \/ Deactivate(t) \/ Release(t) \/ UnlockServer(t)
        PROVE  FALSE
    BY <2>4 DEF CreateInstance, ActivateEx, Deactivate, Release, UnlockServer
  <2>5. ASSUME NEW t \in Threads, NEW c \in Counters, Load(t, c) PROVE FALSE
    BY <2>5 DEF Load
  <2>6. ASSUME DllCanUnloadNow PROVE FALSE
    BY <2>6 DEF DllCanUnloadNow, LoadObjects, LoadLocks, Answered
  <2> QED
    BY <2>1, <2>2, <2>3, <2>4, <2>5, <2>6 DEF NextServer, serverVars
<1> QED
  BY <1>1, <1>2, ServerInvHolds, PTL DEF SpecServer, ImplementsCounters, Abstract!Spec
===============================================================================
