--------------------------- MODULE ContentTypeProofs ---------------------------
(***************************************************************************)
(* Proofs about ContentType, for any fields, declared types and length of  *)
(* the connection's queue.                                                 *)
(***************************************************************************)
EXTENDS ContentType, SequenceTheorems, TLAPS

KeyKinds == Presses \cup {"release"}

(* A message m between two declarations: only a "type" changes what was last
   declared, and a key is one of the field whose type that is. *)
Link(before, m, after) ==
  /\ after = IF m.kind = "type" THEN m.raw ELSE before
  /\ m.kind \in KeyKinds => m.raw = before

(* The messages q lead from the declaration t to the declaration s. *)
Chain(q, t, s) ==
  \E c \in [0..Len(q) -> Declared] :
    /\ c[0] = t /\ c[Len(q)] = s
    /\ \A i \in 1..Len(q) : Link(c[i-1], q[i], c[i])

(* The client side: what the daemon last told is the type of the field in
   focus, and the queue leads there from what the engine handled last. *)
Connection ==
  /\ queue \in Seq(Messages)
  /\ type \in [Fields -> Declared] /\ focus \subseteq Fields
  /\ sent \in Declared /\ told \in Declared
  /\ \A f, g \in focus : f = g
  /\ \A f \in focus : sent = type[f]
  /\ Chain(queue, told, sent)

(* The stop: it is off, or owed its release, only for an ordinary type. *)
Stop ==
  /\ sensitive \in BOOLEAN /\ ordinary \in BOOLEAN
  /\ ~sensitive => ~Secret(told)
  /\ ordinary => ~Secret(told) /\ keys = {DecisionKey(told)}
  /\ keys \in {{}, {DecisionKey(told)}}

(* The word: of ordinary keys; and one the core may go on with was typed under
   the type in force, with the counter running. *)
Word ==
  /\ counted \in BOOLEAN /\ preedit \in BOOLEAN /\ held \in BOOLEAN /\ kept \in BOOLEAN
  /\ held => mode = "direct"
  /\ SecretNeverRead
  /\ NoCarryOver
  /\ mode = "preedit" /\ ~kept /\ ~sensitive /\ word # {} =>
       counted /\ \A k \in word : k.key \in {{}, keys}

Inv == Connection /\ Stop /\ Word

-----------------------------------------------------------------------------
(* The queue.                                                              *)

LEMMA RawDeclared ==
  ASSUME NEW m \in Messages
  PROVE  m.kind \in KeyKinds \cup {"type"} => m.raw \in Declared
  BY DEF Messages, Note, Type, Key, KeyKinds, Presses

LEMMA ChainAppend ==
  ASSUME NEW q \in Seq(Messages), NEW m \in Messages, NEW t, NEW s, NEW r \in Declared,
         Chain(q, t, s), Link(s, m, r)
  PROVE  Append(q, m) \in Seq(Messages) /\ Chain(Append(q, m), t, r)
<1>1. PICK c \in [0..Len(q) -> Declared] :
        /\ c[0] = t /\ c[Len(q)] = s
        /\ \A i \in 1..Len(q) : Link(c[i-1], q[i], c[i])
  BY DEF Chain
<1> DEFINE p == Append(q, m)
           d == [i \in 0..Len(p) |-> IF i = Len(p) THEN r ELSE c[i]]
<1>2. /\ p \in Seq(Messages) /\ Len(q) \in Nat /\ Len(p) = Len(q) + 1
      /\ p[Len(p)] = m /\ \A i \in 1..Len(q) : p[i] = q[i]
  OBVIOUS
<1> HIDE DEF p
<1>3. d \in [0..Len(p) -> Declared] /\ d[0] = t /\ d[Len(p)] = r
  BY <1>1, <1>2
<1>4. ASSUME NEW i \in 1..Len(p) PROVE Link(d[i-1], p[i], d[i])
  <2>1. CASE i = Len(p)
    <3>1. d[i-1] = s /\ d[i] = r /\ p[i] = m
      BY <1>1, <1>2, <2>1
    <3> QED
      BY <3>1
  <2>2. CASE i # Len(p)
    <3>1. i \in 1..Len(q) /\ d[i-1] = c[i-1] /\ d[i] = c[i] /\ p[i] = q[i]
      BY <1>2, <2>2
    <3> QED
      BY <1>1, <3>1
  <2> QED
    BY <2>1, <2>2
<1>5. Chain(p, t, r)
  <2> HIDE DEF d
  <2> QED
    BY <1>3, <1>4 DEF Chain
<1> QED
  BY <1>2, <1>5 DEF p

LEMMA ChainTail ==
  ASSUME NEW q \in Seq(Messages), q # <<>>, NEW t, NEW s, Chain(q, t, s)
  PROVE  /\ Tail(q) \in Seq(Messages) /\ Head(q) \in Messages
         /\ \E r \in Declared : Link(t, Head(q), r) /\ Chain(Tail(q), r, s)
<1>1. PICK c \in [0..Len(q) -> Declared] :
        /\ c[0] = t /\ c[Len(q)] = s
        /\ \A i \in 1..Len(q) : Link(c[i-1], q[i], c[i])
  BY DEF Chain
<1> DEFINE p == Tail(q)
           d == [i \in 0..Len(p) |-> c[i+1]]
<1>2. /\ p \in Seq(Messages) /\ Len(q) \in Nat \ {0} /\ Len(p) = Len(q) - 1
      /\ \A i \in 1..Len(p) : p[i] = q[i+1]
      /\ Head(q) = q[1] /\ Head(q) \in Messages
  OBVIOUS
<1> HIDE DEF p
<1>3. d \in [0..Len(p) -> Declared] /\ d[0] = c[1] /\ d[Len(p)] = s
  BY <1>1, <1>2
<1>4. ASSUME NEW i \in 1..Len(p) PROVE Link(d[i-1], p[i], d[i])
  <2>1. i + 1 \in 1..Len(q) /\ d[i-1] = c[(i+1)-1] /\ d[i] = c[i+1] /\ p[i] = q[i+1]
    BY <1>2
  <2>2. Link(c[(i+1)-1], q[i+1], c[i+1])
    BY <1>1, <2>1
  <2> QED
    BY <2>1, <2>2
<1>5. Chain(p, c[1], s)
  <2> HIDE DEF d
  <2> QED
    BY <1>3, <1>4 DEF Chain
<1>6. 1 \in 1..Len(q) /\ c[1] \in Declared /\ c[1-1] = t
  BY <1>1, <1>2
<1>7. Link(t, Head(q), c[1])
  BY <1>1, <1>2, <1>6
<1> QED
  BY <1>2, <1>5, <1>6, <1>7 DEF p

(* Forwarding a message, and the type of the field when it is news. *)
LEMMA TellChain ==
  ASSUME Connection, NEW raw \in Declared, NEW msg,
         msg = <<>> \/ \E m \in Messages : msg = <<m>> /\ Link(sent, m, sent),
         Tell(msg, raw)
  PROVE  queue' \in Seq(Messages) /\ sent' = raw /\ Chain(queue', told, raw)
<1> USE DEF Connection
<1>0. /\ queue' = queue \o msg \o (IF raw = sent THEN <<>> ELSE <<Type(raw)>>)
      /\ sent' = raw
  BY DEF Tell
<1> DEFINE q == queue \o msg
<1>1. q \in Seq(Messages) /\ Chain(q, told, sent)
  <2>1. CASE msg = <<>>
    <3>1. q = queue
      BY <2>1
    <3> QED
      BY <3>1
  <2>2. CASE \E m \in Messages : msg = <<m>> /\ Link(sent, m, sent)
    <3>1. PICK m \in Messages : msg = <<m>> /\ Link(sent, m, sent)
      BY <2>2
    <3>2. q = Append(queue, m)
      BY <3>1
    <3> HIDE DEF q
    <3> QED
      BY <3>1, <3>2, ChainAppend
  <2> QED
    BY <2>1, <2>2
<1> HIDE DEF q
<1>2. CASE raw = sent
  <2>1. queue' = q
    BY <1>0, <1>1, <1>2 DEF q
  <2> QED
    BY <1>0, <1>1, <1>2, <2>1
<1>3. CASE raw # sent
  <2>1. queue' = q \o <<Type(raw)>>
    BY <1>0, <1>3 DEF q
  <2>2. Type(raw) \in Messages /\ Link(sent, Type(raw), raw)
    BY DEF Messages, Type, Link, KeyKinds, Presses
  <2>3. q \o <<Type(raw)>> = Append(q, Type(raw))
    BY <1>1, <2>2
  <2> QED
    BY <1>0, <1>1, <2>1, <2>2, <2>3, ChainAppend
<1> QED
  BY <1>2, <1>3

(* The message the engine handles. *)
LEMMA HandleChain ==
  ASSUME Connection, NEW kinds, Handle(kinds)
  PROVE  /\ queue' \in Seq(Messages) /\ Head(queue) \in Messages /\ Head(queue).kind \in kinds
         /\ UNCHANGED client
         /\ Head(queue).kind = "type" =>
              Head(queue).raw \in Declared /\ Chain(queue', Head(queue).raw, sent)
         /\ Head(queue).kind # "type" => Chain(queue', told, sent)
         /\ Head(queue).kind \in KeyKinds => Head(queue).raw = told
<1> USE DEF Connection
<1>1. queue # <<>> /\ Head(queue).kind \in kinds /\ queue' = Tail(queue) /\ UNCHANGED client
  BY DEF Handle
<1>2. Tail(queue) \in Seq(Messages) /\ Head(queue) \in Messages
  BY <1>1, ChainTail
<1>3. PICK r \in Declared : Link(told, Head(queue), r) /\ Chain(Tail(queue), r, sent)
  BY <1>1, ChainTail
<1> QED
  BY <1>1, <1>2, <1>3 DEF Link

-----------------------------------------------------------------------------
(* The inductive invariant.                                                *)

LEMMA FreeOrdinary == ~Secret(Free)
  BY TypesAssumption DEF Secret, Audited

LEMMA InitInv == Init => Inv
<1> SUFFICES ASSUME Init PROVE Inv
  OBVIOUS
<1>1. Chain(<<>>, Free, Free)
  <2> DEFINE c == [i \in 0..0 |-> Free]
  <2>1. c \in [0..Len(<<>>) -> Declared] /\ c[0] = Free /\ c[Len(<<>>)] = Free
    BY TypesAssumption
  <2>2. \A i \in 1..Len(<<>>) : Link(c[i-1], <<>>[i], c[i])
    OBVIOUS
  <2> HIDE DEF c
  <2> QED
    BY <2>1, <2>2 DEF Chain
<1>2. Connection
  BY <1>1, TypesAssumption DEF Init, Connection
<1>3. Stop
  BY FreeOrdinary, ChoicesAssumption DEF Init, Stop
<1>4. Word
  BY DEF Init, Word, SecretNeverRead, NoCarryOver, Carried
<1> QED
  BY <1>2, <1>3, <1>4 DEF Inv

LEMMA ClientInv ==
  ASSUME Inv, Client
  PROVE  Inv'
<1> USE DEF Inv
<1>0. UNCHANGED engine
  BY DEF Client, Enter, Leave, Declare, PressOrRelease, Cancel, Tell
<1>1. Stop' /\ Word'
  BY <1>0 DEF engine, stop, core, Stop, Word, SecretNeverRead, NoCarryOver, Carried
<1>2. told' = told
  BY <1>0 DEF engine, stop
<1>3. \A f \in Fields : type[f] \in Declared
  BY DEF Connection
<1>4. \A kind \in {"focus_in", "focus_out", "reset", "disable"} :
        Note(kind) \in Messages /\ Link(sent, Note(kind), sent)
  BY DEF Messages, Note, Link, KeyKinds, Presses
<1>5. ASSUME NEW f \in Fields, Enter(f) PROVE Connection'
  <2>1. queue' \in Seq(Messages) /\ sent' = type[f] /\ Chain(queue', told, type[f])
    BY <1>3, <1>4, <1>5, TellChain DEF Enter
  <2>2. focus' = {f} /\ type' = type
    BY <1>5 DEF Enter
  <2> QED
    BY <1>2, <1>3, <2>1, <2>2 DEF Connection
<1>6. ASSUME Leave PROVE Connection'
  <2>1. queue' \in Seq(Messages) /\ sent' = sent /\ Chain(queue', told, sent)
    BY <1>4, <1>6, TellChain DEF Leave, Connection
  <2> QED
    BY <1>2, <1>6, <2>1 DEF Connection, Leave
<1>7. ASSUME NEW f \in Fields, NEW raw \in Declared, Declare(f, raw) PROVE Connection'
  <2>1. type' = [type EXCEPT ![f] = raw] /\ focus' = focus
    BY <1>7 DEF Declare
  <2>2. CASE f \in focus
    <3>1. queue' \in Seq(Messages) /\ sent' = raw /\ Chain(queue', told, raw)
      BY <1>7, <2>2, TellChain DEF Declare
    <3> QED
      BY <1>2, <2>1, <2>2, <3>1 DEF Connection
  <2>3. CASE f \notin focus
    BY <1>2, <1>7, <2>1, <2>3 DEF Connection, Declare
  <2> QED
    BY <2>2, <2>3
<1>8. ASSUME NEW f \in Fields, NEW k \in KeyKinds, PressOrRelease(f, k) PROVE Connection'
  <2>1. f \in focus /\ sent = type[f] /\ UNCHANGED <<type, focus>>
    BY <1>8 DEF PressOrRelease, Connection
  <2>2. Key(k, type[f]) \in Messages /\ Link(sent, Key(k, type[f]), sent)
    BY <1>3, <2>1 DEF Messages, Key, Link, KeyKinds, Presses
  <2>3. queue' \in Seq(Messages) /\ sent' = sent /\ Chain(queue', told, sent)
    BY <1>8, <2>2, TellChain DEF PressOrRelease, Connection
  <2> QED
    BY <1>2, <2>1, <2>3 DEF Connection
<1>9. ASSUME NEW kind \in {"reset", "disable"}, Cancel(kind) PROVE Connection'
  <2>1. queue' \in Seq(Messages) /\ sent' = sent /\ Chain(queue', told, sent)
    BY <1>4, <1>9, TellChain DEF Cancel, Connection
  <2> QED
    BY <1>2, <1>9, <2>1 DEF Connection, Cancel
<1> QED
  BY <1>1, <1>5, <1>6, <1>7, <1>8, <1>9 DEF Client, KeyKinds

(* A switch, of a stop that is then on or accepted. *)
LEMMA SwitchWord ==
  ASSUME Word, NEW s \in BOOLEAN, NEW reset \in Resets, Switch(s, reset)
  PROVE  /\ Word' /\ sensitive' = (s \/ reset # "accepted")
         /\ word' \in {word, {}} /\ (reset = "accepted" => word' = {})
         /\ (reset # "interrupted" => counted' = FALSE /\ preedit' = FALSE)
<1>1. /\ sensitive' = (s \/ reset # "accepted") /\ held' = FALSE
      /\ word' = (IF reset = "accepted" THEN {} ELSE word)
      /\ preedit' = (reset = "interrupted" /\ preedit)
      /\ counted' = (reset = "interrupted" /\ counted)
      /\ UNCHANGED <<mode, kept>>
  BY DEF Switch
<1>2. held' \in BOOLEAN /\ preedit' \in BOOLEAN /\ counted' \in BOOLEAN
  BY <1>1
<1>3. word' # {} => reset # "accepted" /\ word' = word /\ sensitive'
  BY <1>1
<1>4. SecretNeverRead' /\ NoCarryOver'
  BY <1>1, <1>3 DEF Word, SecretNeverRead, NoCarryOver, Carried
<1> QED
  BY <1>1, <1>2, <1>3, <1>4 DEF Word

LEMMA TypeInv ==
  ASSUME Inv, NEW reset \in Resets, HandleType(reset)
  PROVE  Inv'
<1> USE DEF Inv
<1> DEFINE raw == Head(queue).raw
           s == Secret(raw) \/ (keys \notin {{}, {DecisionKey(raw)}} /\ InFlight)
<1>1. /\ Handle({"type"}) /\ told' = raw /\ keys' = {DecisionKey(raw)}
      /\ ordinary' = (~Secret(raw) /\ ~(s # sensitive /\ reset = "interrupted"))
      /\ IF s # sensitive THEN Switch(s, reset)
         ELSE /\ reset = "accepted"
              /\ UNCHANGED <<sensitive, held, word, preedit, counted, mode, kept>>
  BY DEF HandleType, Remembered, DeclaredOrdinary
<1>2. /\ queue' \in Seq(Messages) /\ UNCHANGED client
      /\ raw \in Declared /\ Chain(queue', raw, sent)
  BY <1>1, HandleChain
<1>3. Connection'
  BY <1>1, <1>2 DEF Connection, client
<1>4. s \in BOOLEAN /\ (~s => ~Secret(raw)) /\ sensitive \in BOOLEAN
  BY DEF Stop
<1>5. CASE s # sensitive
  <2>1. Switch(s, reset)
    BY <1>1, <1>5
  <2> HIDE DEF s
  <2>2. Word' /\ sensitive' = (s \/ reset # "accepted")
    BY <1>4, <2>1, SwitchWord
  <2>3. Stop'
    BY <1>1, <1>4, <2>2 DEF Stop
  <2> QED
    BY <1>3, <2>2, <2>3
<1>6. CASE s = sensitive
  <2>1. UNCHANGED <<sensitive, held, word, preedit, counted, mode, kept>>
    BY <1>1, <1>6
  <2>2. Stop'
    <3> HIDE DEF s
    <3> QED
      BY <1>1, <1>4, <1>6, <2>1 DEF Stop
  <2>3. ~sensitive => keys \in {{}, {DecisionKey(raw)}} \/ ~counted
    BY <1>6 DEF InFlight
  <2>4. Word'
    BY <1>1, <2>1, <2>3 DEF Word, SecretNeverRead, NoCarryOver, Carried
  <2> QED
    BY <1>3, <2>2, <2>4
<1> QED
  BY <1>5, <1>6

LEMMA OtherMessage ==
  ASSUME Inv, NEW kinds, Handle(kinds), "type" \notin kinds, UNCHANGED told
  PROVE  Connection'
  BY HandleChain DEF Inv, Connection, client

LEMMA UnchangedStop ==
  ASSUME Stop, UNCHANGED stop
  PROVE  Stop'
  BY DEF Stop, stop

LEMMA FocusOutInv ==
  ASSUME Inv, NEW hold \in BOOLEAN, NEW reset \in Resets, HandleFocusOut(hold, reset)
  PROVE  Inv'
<1> USE DEF Inv
<1>1. /\ Handle({"focus_out"}) /\ counted' = FALSE
      /\ (hold => ~sensitive /\ mode = "direct" /\ word # {})
      /\ held' = hold /\ UNCHANGED <<stop, mode>>
  BY DEF HandleFocusOut
<1>2. Connection' /\ Stop'
  BY <1>1, OtherMessage, UnchangedStop DEF stop
<1>3. \/ sensitive /\ UNCHANGED <<core, preedit>>
      \/ mode = "direct" /\ UNCHANGED <<core, preedit>>
      \/ word' = {} /\ preedit' = FALSE /\ UNCHANGED kept
      \/ mode # "preedit" /\ EndDirectWord(reset) /\ UNCHANGED preedit
  BY <1>1 DEF HandleFocusOut
<1>4. counted' \in BOOLEAN /\ held' \in BOOLEAN /\ (held' => mode' = "direct")
  BY <1>1
<1>5. preedit' \in BOOLEAN /\ kept' \in BOOLEAN /\ word' \in {word, {}}
  BY <1>3 DEF core, EndDirectWord, Word
<1>6. SecretNeverRead' /\ NoCarryOver'
  BY <1>1, <1>3, <1>5 DEF Word, SecretNeverRead, NoCarryOver, Carried, core
<1>7. mode' = "preedit" /\ ~sensitive' => word' = {}
  BY <1>1, <1>3 DEF stop
<1> QED
  BY <1>2, <1>4, <1>5, <1>6, <1>7 DEF Word

LEMMA CancelInv ==
  ASSUME Inv, NEW reset \in Resets, HandleCancel(reset)
  PROVE  Inv'
<1> USE DEF Inv
<1>1. /\ Handle({"reset", "disable"}) /\ counted' = FALSE /\ UNCHANGED <<stop, mode>>
      /\ \/ word' = {} /\ preedit' = FALSE /\ held' = FALSE /\ UNCHANGED kept
         \/ kept' = (kept \/ word # {}) /\ UNCHANGED <<word, preedit, held>>
  BY DEF HandleCancel
<1>2. Connection' /\ Stop'
  BY <1>1, OtherMessage, UnchangedStop DEF stop
<1>3. /\ counted' \in BOOLEAN /\ held' \in BOOLEAN /\ preedit' \in BOOLEAN /\ kept' \in BOOLEAN
      /\ (held' => mode' = "direct") /\ word' \in {word, {}} /\ (~kept' => word' = {} /\ ~kept)
  <2>1. counted' \in BOOLEAN
    BY <1>1
  <2>2. CASE word' = {} /\ preedit' = FALSE /\ held' = FALSE /\ UNCHANGED kept
    <3>1. preedit' \in BOOLEAN /\ held' \in BOOLEAN
      BY <2>2
    <3> QED
      BY <2>1, <2>2, <3>1 DEF Word
  <2>3. CASE kept' = (kept \/ word # {}) /\ UNCHANGED <<word, preedit, held>>
    <3>1. kept' \in BOOLEAN /\ (~kept' => ~kept /\ word = {})
      BY <2>3
    <3> QED
      BY <1>1, <2>1, <2>3, <3>1 DEF Word
  <2> QED
    BY <1>1, <2>2, <2>3
<1>4. SecretNeverRead' /\ NoCarryOver'
  BY <1>1, <1>3 DEF Word, SecretNeverRead, NoCarryOver, Carried
<1> QED
  BY <1>2, <1>3, <1>4 DEF Word

(* The core reads an ordinary key; open is the word it reads it into. *)
LEMMA ReadWord ==
  ASSUME Word, NEW k \in KeyKinds, NEW raw, ~Secret(raw), NEW open \in {word, {}},
         NEW shown \in BOOLEAN, CoreReads(k, raw, open, shown),
         UNCHANGED <<mode, kept, keys>>, held' \in BOOLEAN, held' => held,
         ~sensitive \/ open = {}
  PROVE  Word'
<1>0. NoCarryOver /\ SecretNeverRead
      /\ (mode = "preedit" /\ ~kept /\ open # {} => counted /\ \A j \in open : j.key \in {{}, keys})
  BY DEF Word
<1>1. CASE k = "letter"
  <2>1. word' = open \cup {[raw |-> raw, key |-> keys]} /\ counted' = TRUE
        /\ preedit' = (shown /\ mode = "preedit")
    BY <1>1 DEF CoreReads
  <2>2. mode = "preedit" /\ ~kept => \A j \in word' : j.key \in {{}, keys}
    BY <1>0, <2>1
  <2>3. SecretNeverRead' /\ NoCarryOver'
    BY <1>0, <2>1, <2>2 DEF SecretNeverRead, NoCarryOver, Carried
  <2>4. counted' \in BOOLEAN /\ preedit' \in BOOLEAN
    BY <2>1
  <2> QED
    BY <2>1, <2>2, <2>3, <2>4 DEF Word
<1>2. CASE k = "boundary"
  <2>1. word' = {} /\ counted' = FALSE /\ preedit' = (shown /\ mode = "preedit")
    BY <1>2 DEF CoreReads
  <2>2. counted' \in BOOLEAN /\ preedit' \in BOOLEAN
    BY <2>1
  <2> QED
    BY <2>1, <2>2 DEF Word, SecretNeverRead, NoCarryOver, Carried
<1>3. CASE k = "release"
  <2>1. word' = open /\ UNCHANGED <<counted, preedit>>
    BY <1>3 DEF CoreReads
  <2>2. SecretNeverRead' /\ NoCarryOver'
    BY <1>0, <2>1 DEF SecretNeverRead, NoCarryOver, Carried
  <2> QED
    BY <1>0, <2>1, <2>2 DEF Word
<1> QED
  BY <1>1, <1>2, <1>3 DEF KeyKinds, Presses

LEMMA KeyInv ==
  ASSUME Inv, NEW shown \in BOOLEAN, HandleKey(shown)
  PROVE  Inv'
<1> USE DEF Inv
<1>1. Handle(KeyKinds) /\ UNCHANGED <<stop, mode, held, kept>>
  BY DEF HandleKey, KeyKinds
<1>2. Connection' /\ Stop'
  BY <1>1, OtherMessage, UnchangedStop DEF stop, KeyKinds, Presses
<1>3. Head(queue).kind \in KeyKinds /\ Head(queue).raw = told
  BY <1>1, HandleChain
<1>4. CASE sensitive
  <2>1. UNCHANGED <<word, counted, preedit>>
    BY <1>4 DEF HandleKey
  <2> QED
    BY <1>1, <1>2, <2>1 DEF Word, SecretNeverRead, NoCarryOver, Carried, stop
<1>5. CASE ~sensitive
  <2>1. CoreReads(Head(queue).kind, told, word, shown)
    BY <1>3, <1>5 DEF HandleKey
  <2>2. ~Secret(told) /\ held \in BOOLEAN
    BY <1>5 DEF Stop, Word
  <2>3. Word'
    BY <1>1, <1>3, <1>5, <2>1, <2>2, ReadWord DEF stop
  <2> QED
    BY <1>2, <2>3
<1> QED
  BY <1>4, <1>5

LEMMA OwedInv ==
  ASSUME Inv, NEW reset \in Resets, NEW shown \in BOOLEAN, HandleOwedPress(reset, shown)
  PROVE  Inv'
<1> USE DEF Inv
<1>1. Handle(Presses) /\ sensitive /\ ordinary /\ UNCHANGED <<told, keys, ordinary>>
  BY DEF HandleOwedPress, Owed
<1>2. Connection'
  BY <1>1, OtherMessage DEF Presses
<1>3. Head(queue).kind \in KeyKinds /\ Head(queue).raw = told
  BY <1>1, HandleChain DEF KeyKinds
<1>4. ~Secret(told)
  BY <1>1 DEF Stop
<1>5. CASE reset = "accepted"
  <2>1. /\ sensitive' = FALSE /\ held' = FALSE /\ UNCHANGED <<mode, kept>>
        /\ CoreReads(Head(queue).kind, told, {}, shown)
    BY <1>3, <1>5 DEF HandleOwedPress
  <2>2. held' \in BOOLEAN /\ sensitive' \in BOOLEAN
    BY <2>1
  <2>3. Word'
    BY <1>1, <1>3, <1>4, <2>1, <2>2, ReadWord
  <2>4. Stop'
    BY <1>1, <1>4, <2>2 DEF Stop
  <2> QED
    BY <1>2, <2>3, <2>4
<1>6. CASE reset # "accepted"
  <2>1. Switch(FALSE, reset)
    BY <1>6 DEF HandleOwedPress
  <2>2. Word' /\ sensitive' = (FALSE \/ reset # "accepted")
    BY <2>1, SwitchWord
  <2>3. Stop'
    BY <1>1, <1>6, <2>2 DEF Stop
  <2> QED
    BY <1>2, <2>2, <2>3
<1> QED
  BY <1>5, <1>6

LEMMA NextInv == Inv /\ [Next]_vars => Inv'
<1> SUFFICES ASSUME Inv, [Next]_vars PROVE Inv'
  OBVIOUS
<1>1. ASSUME HandleFocusIn PROVE Inv'
  <2>1. Handle({"focus_in"}) /\ held' = FALSE /\ UNCHANGED <<stop, counted, preedit, mode, core>>
    BY <1>1 DEF HandleFocusIn
  <2>2. Connection' /\ Stop'
    BY <2>1, OtherMessage, UnchangedStop DEF stop, Inv
  <2>3. held' \in BOOLEAN
    BY <2>1
  <2>4. Word'
    BY <2>1, <2>3 DEF Inv, Word, SecretNeverRead, NoCarryOver, Carried, stop, core
  <2> QED
    BY <2>2, <2>4 DEF Inv
<1>2. ASSUME NEW reset \in Resets, RefocusExpires(reset) PROVE Inv'
  <2>1. /\ held /\ held' = FALSE /\ UNCHANGED <<client, queue, stop, counted, preedit, mode>>
        /\ word' \in {word, {}} /\ kept' \in BOOLEAN
    BY <1>2 DEF RefocusExpires, EndDirectWord, Inv, Word
  <2>2. Connection' /\ Stop'
    BY <2>1, UnchangedStop DEF Inv, Connection, client, stop
  <2>3. mode = "direct" /\ held' \in BOOLEAN
    BY <2>1 DEF Inv, Word
  <2>4. Word'
    BY <2>1, <2>3 DEF Inv, Word, SecretNeverRead, NoCarryOver, Carried, stop
  <2> QED
    BY <2>2, <2>4 DEF Inv
<1>3. CASE UNCHANGED vars
  BY <1>3 DEF vars, client, engine, stop, core, Inv, Connection, Stop, Word, SecretNeverRead,
     NoCarryOver, Carried
<1> QED
  BY <1>1, <1>2, <1>3, ClientInv, TypeInv, FocusOutInv, CancelInv, KeyInv, OwedInv
     DEF Next, Engine

LEMMA InvHolds == Spec => []Inv
  BY InitInv, NextInv, PTL DEF Spec

-----------------------------------------------------------------------------
(* Theorems.                                                               *)

\* No key typed into a secret or unaudited field is in the core, for any order
\* of focus changes, declarations and refused resets (do_process_key_event).
THEOREM SecretsStayOut == Spec => []SecretNeverRead
<1>1. Inv => SecretNeverRead
  BY DEF Inv, Word
<1> QED
  BY <1>1, InvHolds, PTL

\* A composed word is typed under one declaration, unless a reset was refused
\* outside a switch (do_set_content_type).
THEOREM WordsDoNotCarryOver == Spec => []NoCarryOver
<1>1. Inv => NoCarryOver
  BY DEF Inv, Word
<1> QED
  BY <1>1, InvHolds, PTL

\* The stop ends only for the declaration handled last, and with no earlier
\* word in the core (do_set_content_type, _switch_sensitivity).
THEOREM ReleaseIsForLatest == Spec => ReleaseAnswersLatest
<1> DEFINE Answers == sensitive /\ ~sensitive' =>
                        /\ ~Secret(told')
                        /\ \A k \in word' : k.key = {DecisionKey(told')}
<1>1. Inv /\ Inv' /\ [Next]_vars => [Answers]_vars
  <2> SUFFICES ASSUME Inv, Inv', [Next]_vars, sensitive, ~sensitive'
               PROVE  ~Secret(told') /\ \A k \in word' : k.key = {DecisionKey(told')}
    OBVIOUS
  <2>1. ~Secret(told')
    BY DEF Inv, Stop
  <2>2. ASSUME NEW reset \in Resets, HandleType(reset) PROVE word' = {}
    <3>1. PICK s \in BOOLEAN : Switch(s, reset)
      BY <2>2 DEF HandleType
    <3> QED
      BY <3>1, SwitchWord DEF Inv
  <2>3. ASSUME NEW reset \in Resets, NEW shown \in BOOLEAN, HandleOwedPress(reset, shown)
        PROVE  \A k \in word' : k.key = {DecisionKey(told')}
    <3>1. keys = {DecisionKey(told)} /\ told' = told
      BY <2>3 DEF HandleOwedPress, Owed, Inv, Stop
    <3>2. reset = "accepted"
      BY <2>3 DEF HandleOwedPress, Switch
    <3>3. CoreReads(Head(queue).kind, Head(queue).raw, {}, shown)
      BY <2>3, <3>2 DEF HandleOwedPress
    <3> QED
      BY <3>1, <3>3 DEF CoreReads
  <2>4. \/ \E reset \in Resets : HandleType(reset)
        \/ \E reset \in Resets, shown \in BOOLEAN : HandleOwedPress(reset, shown)
    BY DEF Next, Client, Enter, Leave, Declare, PressOrRelease, Cancel, Tell, Engine,
       HandleFocusIn, HandleFocusOut, HandleCancel, HandleKey, RefocusExpires,
       vars, engine, stop
  <2> QED
    BY <2>1, <2>2, <2>3, <2>4
<1> QED
  BY <1>1, InvHolds, PTL DEF Spec, ReleaseAnswersLatest
=============================================================================
