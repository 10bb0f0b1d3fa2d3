--------------------------- MODULE EnsembleProofs ---------------------------
(***************************************************************************)
(* Proofs about Ensemble, for any vocabulary, requests and capacity.       *)
(***************************************************************************)
EXTENDS Ensemble, SequenceTheorems, TLAPS

CacheEntries == [key : Keys, answer : Answers \ {None}, fresh : BOOLEAN]
Facts == [vocab : SUBSET Words, profile : Nat, session : Nat, weights : Nat,
          feedback : Nat, seen : Nat, dirty : BOOLEAN, table : Nat]

(* A key is in the history once, and every cached key is there; the entries  *)
(* stand in the order of the history.                                        *)
Once(u) == \A m, n \in DOMAIN u : u[m] = u[n] => m = n
Before(u, k, l) == \E m, n \in DOMAIN u : m < n /\ u[m] = k /\ u[n] = l
Known(u, k) == \E m \in DOMAIN u : u[m] = k
Ordered(c, u) ==
  /\ \A i \in DOMAIN c : Known(u, c[i].key)
  /\ \A i, j \in DOMAIN c :
       i < j => c[i].key # c[j].key /\ Before(u, c[i].key, c[j].key)

Typed ==
  /\ facts \in Facts
  /\ cache \in Seq(CacheEntries)
  /\ last \in Answers
  /\ used \in Seq(Keys)

Inv == Typed /\ Once(used) /\ Ordered(cache, used) /\ Len(cache) <= Capacity

-----------------------------------------------------------------------------
(* Removing the element at a position closes the gap.                      *)
LEMMA RemovedAt ==
  ASSUME NEW S, NEW s \in Seq(S), NEW i \in 1..Len(s)
  PROVE  /\ RemoveAt(s, i) \in Seq(S)
         /\ Len(RemoveAt(s, i)) = Len(s) - 1
         /\ \A j \in 1..(Len(s) - 1) : RemoveAt(s, i)[j] = s[IF j < i THEN j ELSE j + 1]
<1> DEFINE a == SubSeq(s, 1, i - 1)
           b == SubSeq(s, i + 1, Len(s))
<1>1. Len(s) \in Nat /\ i \in Int /\ \A j \in 1..Len(s) : s[j] \in S
  BY LenProperties, ElementOfSeq
<1>2. /\ a \in Seq(S) /\ Len(a) = i - 1
      /\ \A j \in 1..(i - 1) : a[j] = s[j]
  <2>1. /\ a \in Seq(S)
        /\ Len(a) = IF 1 <= i - 1 THEN (i - 1) - 1 + 1 ELSE 0
        /\ \A j \in 1..((i - 1) - 1 + 1) : a[j] = s[1 + j - 1]
    BY <1>1, SubSeqProperties
  <2> HIDE DEF a
  <2> QED
    BY <1>1, <2>1
<1>3. /\ b \in Seq(S) /\ Len(b) = Len(s) - i
      /\ \A j \in 1..(Len(s) - i) : b[j] = s[i + j]
  <2>1. /\ b \in Seq(S)
        /\ Len(b) = IF i + 1 <= Len(s) THEN Len(s) - (i + 1) + 1 ELSE 0
        /\ \A j \in 1..(Len(s) - (i + 1) + 1) : b[j] = s[(i + 1) + j - 1]
    BY <1>1, SubSeqProperties
  <2> HIDE DEF b
  <2> QED
    BY <1>1, <2>1
<1>4. /\ a \o b \in Seq(S)
      /\ Len(a \o b) = Len(a) + Len(b)
      /\ \A j \in 1..(Len(a) + Len(b)) :
           (a \o b)[j] = IF j <= Len(a) THEN a[j] ELSE b[j - Len(a)]
  BY <1>2, <1>3, ConcatProperties
<1>5. RemoveAt(s, i) = a \o b
  BY DEF RemoveAt
<1> HIDE DEF a, b
<1>6. ASSUME NEW j \in 1..(Len(s) - 1)
      PROVE  (a \o b)[j] = s[IF j < i THEN j ELSE j + 1]
  <2>1. CASE j < i
    BY <2>1, <1>1, <1>2, <1>3, <1>4
  <2>2. CASE ~(j < i)
    <3>1. j - (i - 1) \in 1..(Len(s) - i) /\ i + (j - (i - 1)) = j + 1
      BY <2>2, <1>1
    <3>2. (a \o b)[j] = b[j - (i - 1)]
      BY <2>2, <1>1, <1>2, <1>3, <1>4
    <3> QED
      BY <3>1, <3>2, <2>2, <1>3
  <2> QED
    BY <2>1, <2>2
<1>7. Len(a \o b) = Len(s) - 1
  BY <1>1, <1>2, <1>3, <1>4
<1> QED
  BY <1>4, <1>5, <1>6, <1>7

(* A removed key leaves the history; the others keep their order.          *)
LEMMA ForgottenKeepsOrder ==
  ASSUME NEW u \in Seq(Keys), Once(u), NEW k \in Keys
  PROVE  /\ Forgotten(u, k) \in Seq(Keys)
         /\ Once(Forgotten(u, k))
         /\ ~Known(Forgotten(u, k), k)
         /\ \A l \in Keys \ {k} : Known(u, l) => Known(Forgotten(u, k), l)
         /\ \A l, m \in Keys \ {k} : Before(u, l, m) => Before(Forgotten(u, k), l, m)
<1>0. DOMAIN u = 1..Len(u) /\ Len(u) \in Nat
  BY LenProperties
<1>1. CASE ~Known(u, k)
  <2>1. Forgotten(u, k) = u
    BY <1>1 DEF Forgotten, Known
  <2> QED
    BY <2>1, <1>1
<1>2. CASE Known(u, k)
  <2> DEFINE i == CHOOSE j \in DOMAIN u : u[j] = k
             v == Forgotten(u, k)
  <2>1. i \in 1..Len(u) /\ u[i] = k
    BY <1>0, <1>2 DEF Known
  <2>2. v = RemoveAt(u, i)
    BY <1>2 DEF Forgotten, Known
  <2> HIDE DEF i, v
  <2>3. /\ v \in Seq(Keys) /\ Len(v) = Len(u) - 1
        /\ \A j \in 1..(Len(u) - 1) : v[j] = u[IF j < i THEN j ELSE j + 1]
    BY <2>1, <2>2, RemovedAt
  <2>4. DOMAIN v = 1..(Len(u) - 1)
    BY <2>3, LenProperties
  <2>5. Once(v)
    <3>1. SUFFICES ASSUME NEW m \in DOMAIN v, NEW n \in DOMAIN v, v[m] = v[n]
                   PROVE  m = n
      BY DEF Once
    <3> DEFINE m1 == IF m < i THEN m ELSE m + 1
               n1 == IF n < i THEN n ELSE n + 1
    <3>2. m1 \in DOMAIN u /\ n1 \in DOMAIN u /\ v[m] = u[m1] /\ v[n] = u[n1]
      BY <1>0, <2>1, <2>3, <2>4
    <3>3. m1 = n1
      BY <3>1, <3>2 DEF Once
    <3> QED
      BY <3>3, <1>0, <2>1, <2>4
  <2>6. ~Known(v, k)
    <3>1. SUFFICES ASSUME NEW m \in DOMAIN v, v[m] = k
                   PROVE  FALSE
      BY DEF Known
    <3> DEFINE m1 == IF m < i THEN m ELSE m + 1
    <3>2. m1 \in DOMAIN u /\ u[m1] = k /\ m1 # i
      BY <1>0, <2>1, <2>3, <2>4, <3>1
    <3> QED
      BY <3>2, <2>1, <1>0 DEF Once
  <2> DEFINE Down(n) == IF n < i THEN n ELSE n - 1
  <2>7. \A n \in DOMAIN u : u[n] # k => Down(n) \in DOMAIN v /\ v[Down(n)] = u[n]
    BY <1>0, <2>1, <2>3, <2>4
  <2>8. \A l \in Keys \ {k} : Known(u, l) => Known(v, l)
    BY <2>7 DEF Known
  <2>9. ASSUME NEW l \in Keys \ {k}, NEW m \in Keys \ {k}, Before(u, l, m)
        PROVE  Before(v, l, m)
    <3>1. PICK a \in DOMAIN u, b \in DOMAIN u : a < b /\ u[a] = l /\ u[b] = m
      BY <2>9 DEF Before
    <3>2. a # i /\ b # i
      BY <3>1, <2>1
    <3>3. Down(a) < Down(b)
      BY <3>1, <3>2, <1>0, <2>1
    <3>4. /\ Down(a) \in DOMAIN v /\ v[Down(a)] = l
          /\ Down(b) \in DOMAIN v /\ v[Down(b)] = m
      BY <3>1, <2>7
    <3> HIDE DEF Down
    <3> QED
      BY <3>3, <3>4 DEF Before
  <2> QED
    BY <2>3, <2>5, <2>6, <2>8, <2>9 DEF v
<1> QED
  BY <1>1, <1>2

(* A key just used is the last of the history.                             *)
LEMMA TouchedKeepsOrder ==
  ASSUME NEW u \in Seq(Keys), Once(u), NEW k \in Keys
  PROVE  LET v == Append(Forgotten(u, k), k) IN
         /\ v \in Seq(Keys)
         /\ Once(v)
         /\ Known(v, k)
         /\ \A l \in Keys \ {k} : Known(u, l) => Known(v, l) /\ Before(v, l, k)
         /\ \A l, m \in Keys \ {k} : Before(u, l, m) => Before(v, l, m)
<1> DEFINE w == Forgotten(u, k)
           v == Append(w, k)
<1>1. /\ w \in Seq(Keys)
      /\ Once(w)
      /\ ~Known(w, k)
      /\ \A l \in Keys \ {k} : Known(u, l) => Known(w, l)
      /\ \A l, m \in Keys \ {k} : Before(u, l, m) => Before(w, l, m)
  BY ForgottenKeepsOrder
<1> HIDE DEF w
<1>2. /\ v \in Seq(Keys)
      /\ Len(v) = Len(w) + 1
      /\ \A i \in 1..Len(w) : v[i] = w[i]
      /\ v[Len(w) + 1] = k
  BY <1>1, AppendProperties
<1> HIDE DEF v
<1>3. DOMAIN w = 1..Len(w) /\ DOMAIN v = 1..(Len(w) + 1) /\ Len(w) \in Nat
  BY <1>1, <1>2, LenProperties
<1>4. Once(v)
  BY <1>1, <1>2, <1>3 DEF Once, Known
<1>5. Known(v, k)
  BY <1>2, <1>3 DEF Known
<1>6. \A l \in Keys \ {k} : Known(w, l) => Known(v, l) /\ Before(v, l, k)
  BY <1>2, <1>3 DEF Known, Before
<1>7. \A l, m \in Keys \ {k} : Before(w, l, m) => Before(v, l, m)
  BY <1>2, <1>3 DEF Before
<1> QED
  BY <1>1, <1>2, <1>4, <1>5, <1>6, <1>7 DEF v, w

-----------------------------------------------------------------------------
(* Thinned(d, c): d is c with entries left out.                            *)
Thinned(d, c) ==
  \E up \in [DOMAIN d -> DOMAIN c] :
    /\ \A i, j \in DOMAIN d : i < j => up[i] < up[j]
    /\ \A j \in DOMAIN d : d[j] = c[up[j]]
Lacks(c, k) == \A i \in DOMAIN c : c[i].key # k
Current(c, f) ==
  \A i \in DOMAIN c :
    c[i].fresh => SameEvidence(c[i].answer, Answer(f, c[i].key[1]))

LEMMA ThinnedKeeps ==
  ASSUME NEW c, NEW d, Thinned(d, c)
  PROVE  /\ \A u : Ordered(c, u) => Ordered(d, u)
         /\ \A k : Lacks(c, k) => Lacks(d, k)
         /\ \A f : Current(c, f) => Current(d, f)
<1>1. PICK up \in [DOMAIN d -> DOMAIN c] :
        /\ \A i, j \in DOMAIN d : i < j => up[i] < up[j]
        /\ \A j \in DOMAIN d : d[j] = c[up[j]]
  BY DEF Thinned
<1>2. \A j \in DOMAIN d : up[j] \in DOMAIN c
  BY <1>1
<1>3. \A u : Ordered(c, u) => Ordered(d, u)
  BY <1>1, <1>2 DEF Ordered
<1>4. \A k : Lacks(c, k) => Lacks(d, k)
  BY <1>1, <1>2 DEF Lacks
<1>5. \A f : Current(c, f) => Current(d, f)
  BY <1>1, <1>2 DEF Current
<1> QED
  BY <1>3, <1>4, <1>5

(* In an ordered cache a key has one entry, so Without leaves none.        *)
LEMMA WithoutThins ==
  ASSUME NEW c \in Seq(CacheEntries), NEW u, Ordered(c, u), NEW k
  PROVE  /\ Without(c, k) \in Seq(CacheEntries)
         /\ Thinned(Without(c, k), c)
         /\ Lacks(Without(c, k), k)
         /\ Len(Without(c, k)) = IF Holds(c, k) THEN Len(c) - 1 ELSE Len(c)
         /\ Holds(c, k) => At(c, k) \in DOMAIN c /\ c[At(c, k)].key = k
<1>0. DOMAIN c = 1..Len(c) /\ Len(c) \in Nat
  BY LenProperties
<1>1. CASE ~Holds(c, k)
  <2>1. Without(c, k) = c
    BY <1>1 DEF Without
  <2>2. Thinned(c, c)
    <3>1. [i \in DOMAIN c |-> i] \in [DOMAIN c -> DOMAIN c]
      OBVIOUS
    <3> QED
      BY <3>1 DEF Thinned
  <2> QED
    BY <1>1, <2>1, <2>2 DEF Lacks, Holds
<1>2. CASE Holds(c, k)
  <2>1. PICK i \in DOMAIN c : c[i].key = k
    BY <1>2 DEF Holds
  <2>2. \A j \in DOMAIN c : c[j].key = k => j = i
    BY <1>0, <2>1 DEF Ordered
  <2>3. \A j \in 1..(i - 1) : c[j].key # k
    BY <1>0, <2>1, <2>2
  <2>4. At(c, k) \in DOMAIN c /\ c[At(c, k)].key = k
    BY <2>1, <2>3 DEF At
  <2>5. At(c, k) = i
    BY <2>2, <2>4
  <2> DEFINE d == Without(c, k)
  <2>6. d = RemoveAt(c, i)
    BY <1>2, <2>5 DEF Without
  <2> HIDE DEF d
  <2>7. /\ d \in Seq(CacheEntries) /\ Len(d) = Len(c) - 1
        /\ \A j \in 1..(Len(c) - 1) : d[j] = c[IF j < i THEN j ELSE j + 1]
    BY <1>0, <2>1, <2>6, RemovedAt
  <2>8. DOMAIN d = 1..(Len(c) - 1)
    BY <2>7, LenProperties
  <2> DEFINE up == [j \in DOMAIN d |-> IF j < i THEN j ELSE j + 1]
  <2>9. /\ up \in [DOMAIN d -> DOMAIN c]
        /\ \A j \in DOMAIN d : up[j] # i /\ d[j] = c[up[j]]
        /\ \A j, m \in DOMAIN d : j < m => up[j] < up[m]
    BY <1>0, <2>1, <2>7, <2>8
  <2> HIDE DEF up
  <2>10. Thinned(d, c)
    BY <2>9 DEF Thinned
  <2>11. Lacks(d, k)
    BY <2>2, <2>9 DEF Lacks
  <2> QED
    BY <1>2, <2>4, <2>7, <2>10, <2>11 DEF d
<1> QED
  BY <1>1, <1>2

LEMMA TailThins ==
  ASSUME NEW c \in Seq(CacheEntries), Len(c) > 0
  PROVE  /\ Tail(c) \in Seq(CacheEntries)
         /\ Thinned(Tail(c), c)
         /\ Len(Tail(c)) = Len(c) - 1
<1>0. DOMAIN c = 1..Len(c) /\ Len(c) \in Nat
  BY LenProperties
<1>1. /\ Tail(c) \in Seq(CacheEntries) /\ Len(Tail(c)) = Len(c) - 1
      /\ \A i \in 1..(Len(c) - 1) : Tail(c)[i] = c[i + 1]
  BY <1>0, HeadTailProperties, EmptySeq
<1>2. DOMAIN Tail(c) = 1..(Len(c) - 1)
  BY <1>1, LenProperties
<1> DEFINE up == [j \in DOMAIN Tail(c) |-> j + 1]
<1>3. /\ up \in [DOMAIN Tail(c) -> DOMAIN c]
      /\ \A j \in DOMAIN Tail(c) : Tail(c)[j] = c[up[j]]
      /\ \A j, m \in DOMAIN Tail(c) : j < m => up[j] < up[m]
  BY <1>0, <1>1, <1>2
<1> HIDE DEF up
<1> QED
  BY <1>1, <1>3 DEF Thinned

(* The entry just used goes last, as its key does in the history.          *)
LEMMA AppendedKeepsOrder ==
  ASSUME NEW c \in Seq(CacheEntries), NEW u \in Seq(Keys), Once(u), Ordered(c, u),
         NEW e \in CacheEntries, Lacks(c, e.key)
  PROVE  /\ Append(c, e) \in Seq(CacheEntries)
         /\ Len(Append(c, e)) = Len(c) + 1
         /\ Ordered(Append(c, e), Append(Forgotten(u, e.key), e.key))
<1> DEFINE k == e.key
           v == Append(Forgotten(u, k), k)
           d == Append(c, e)
<1>0. DOMAIN c = 1..Len(c) /\ Len(c) \in Nat /\ k \in Keys
  BY LenProperties DEF CacheEntries
<1>1. /\ Known(v, k)
      /\ \A l \in Keys \ {k} : Known(u, l) => Known(v, l) /\ Before(v, l, k)
      /\ \A l, m \in Keys \ {k} : Before(u, l, m) => Before(v, l, m)
  BY <1>0, TouchedKeepsOrder
<1>2. /\ d \in Seq(CacheEntries)
      /\ Len(d) = Len(c) + 1
      /\ \A i \in 1..Len(c) : d[i] = c[i]
      /\ d[Len(c) + 1] = e
  BY AppendProperties
<1>3. DOMAIN d = 1..(Len(c) + 1)
  BY <1>2, LenProperties
<1>4. ASSUME NEW i \in 1..Len(c)
      PROVE  c[i].key \in Keys \ {k} /\ Known(u, c[i].key)
  <2>1. c[i] \in CacheEntries
    BY ElementOfSeq
  <2>2. c[i].key \in Keys
    BY <2>1 DEF CacheEntries
  <2> QED
    BY <2>2, <1>0 DEF Lacks, Ordered
<1> HIDE DEF k, v, d
<1>5. \A i \in DOMAIN d : Known(v, d[i].key)
  BY <1>0, <1>1, <1>2, <1>3, <1>4 DEF k
<1>6. ASSUME NEW i \in DOMAIN d, NEW j \in DOMAIN d, i < j
      PROVE  d[i].key # d[j].key /\ Before(v, d[i].key, d[j].key)
  <2>1. i \in 1..Len(c) /\ d[i] = c[i]
    BY <1>0, <1>2, <1>3, <1>6
  <2>2. CASE j \in 1..Len(c)
    <3>1. d[j] = c[j]
      BY <2>2, <1>2
    <3>2. c[i].key # c[j].key /\ Before(u, c[i].key, c[j].key)
      BY <2>1, <2>2, <1>0, <1>6 DEF Ordered
    <3> QED
      BY <3>1, <3>2, <2>1, <2>2, <1>1, <1>4
  <2>3. CASE j = Len(c) + 1
    BY <2>1, <2>3, <1>1, <1>2, <1>4 DEF k
  <2> QED
    BY <2>2, <2>3, <1>0, <1>3
<1>7. Ordered(d, v)
  BY <1>5, <1>6 DEF Ordered
<1> QED
  BY <1>2, <1>7 DEF k, v, d

-----------------------------------------------------------------------------
(* An entry that is current may join the others.                           *)
LEMMA AppendedIsCurrent ==
  ASSUME NEW c \in Seq(CacheEntries), NEW e \in CacheEntries, NEW f, Current(c, f),
         e.fresh => SameEvidence(e.answer, Answer(f, e.key[1]))
  PROVE  Current(Append(c, e), f)
<1>1. /\ Append(c, e) \in Seq(CacheEntries)
      /\ Len(Append(c, e)) = Len(c) + 1
      /\ \A i \in 1..Len(c) : Append(c, e)[i] = c[i]
      /\ Append(c, e)[Len(c) + 1] = e
  BY AppendProperties
<1>2. /\ DOMAIN c = 1..Len(c) /\ Len(c) \in Nat
      /\ DOMAIN Append(c, e) = 1..(Len(c) + 1)
  BY <1>1, LenProperties
<1> DEFINE d == Append(c, e)
<1>3. ASSUME NEW i \in DOMAIN d, d[i].fresh
      PROVE  SameEvidence(d[i].answer, Answer(f, d[i].key[1]))
  <2>1. CASE i \in 1..Len(c)
    BY <2>1, <1>1, <1>2, <1>3 DEF Current
  <2>2. CASE i = Len(c) + 1
    BY <2>2, <1>1, <1>3
  <2> QED
    BY <2>1, <2>2, <1>2
<1> QED
  BY <1>3 DEF Current

(* A hit keeps the number of entries and their order.                      *)
LEMMA PromotedKeeps ==
  ASSUME NEW c \in Seq(CacheEntries), NEW u \in Seq(Keys), Once(u), Ordered(c, u),
         NEW k \in Keys, Holds(c, k)
  PROVE  /\ Promoted(c, k) \in Seq(CacheEntries)
         /\ Len(Promoted(c, k)) = Len(c)
         /\ Ordered(Promoted(c, k), Append(Forgotten(u, k), k))
         /\ c[At(c, k)] \in CacheEntries
         /\ \A f : Current(c, f) => Current(Promoted(c, k), f)
<1> DEFINE d == Without(c, k)
           e == c[At(c, k)]
<1>0. DOMAIN c = 1..Len(c) /\ Len(c) \in Nat
  BY LenProperties
<1>1. /\ d \in Seq(CacheEntries)
      /\ Thinned(d, c)
      /\ Lacks(d, k)
      /\ Len(d) = Len(c) - 1
      /\ At(c, k) \in DOMAIN c /\ e.key = k
  BY WithoutThins
<1>2. e \in CacheEntries
  BY <1>0, <1>1, ElementOfSeq
<1>3. Promoted(c, k) = Append(d, e)
  BY DEF Promoted
<1>4. Ordered(d, u) /\ \A f : Current(c, f) => Current(d, f)
  BY <1>1, ThinnedKeeps
<1>5. ASSUME NEW f, Current(c, f)
      PROVE  Current(Append(d, e), f)
  <2>1. Current(d, f)
    BY <1>4, <1>5
  <2>2. e.fresh => SameEvidence(e.answer, Answer(f, e.key[1]))
    BY <1>1, <1>5 DEF Current
  <2> HIDE DEF d, e
  <2> QED
    BY <1>1, <1>2, <2>1, <2>2, AppendedIsCurrent
<1> HIDE DEF d, e
<1>6. /\ Append(d, e) \in Seq(CacheEntries)
      /\ Len(Append(d, e)) = Len(d) + 1
      /\ Ordered(Append(d, e), Append(Forgotten(u, e.key), e.key))
  BY <1>1, <1>2, <1>4, AppendedKeepsOrder
<1>7. Len(Append(d, e)) = Len(c)
  BY <1>0, <1>1, <1>6
<1> QED
  BY <1>1, <1>2, <1>3, <1>5, <1>6, <1>7 DEF e

(* A new answer takes the last place, and the entry used longest ago goes  *)
(* when the cache is full.                                                 *)
LEMMA PutKeeps ==
  ASSUME NEW c \in Seq(CacheEntries), NEW u \in Seq(Keys), Once(u), Ordered(c, u),
         Len(c) <= Capacity, NEW k \in Keys, NEW a \in Answers \ {None}
  PROVE  /\ Put(c, k, a) \in Seq(CacheEntries)
         /\ Len(Put(c, k, a)) <= Capacity
         /\ Ordered(Put(c, k, a), Append(Forgotten(u, k), k))
         /\ \A f : Current(c, f) /\ a = Answer(f, k[1]) => Current(Put(c, k, a), f)
<1> DEFINE d == Without(c, k)
           kept == IF Len(d) >= Capacity THEN Tail(d) ELSE d
           e == [key |-> k, answer |-> a, fresh |-> TRUE]
<1>0. Len(c) \in Nat /\ Capacity \in Nat \ {0}
  BY LenProperties, CacheAssumption
<1>1. /\ d \in Seq(CacheEntries)
      /\ Thinned(d, c)
      /\ Lacks(d, k)
      /\ Len(d) <= Capacity
  BY <1>0, WithoutThins
<1>2. Ordered(d, u) /\ \A f : Current(c, f) => Current(d, f)
  BY <1>1, ThinnedKeeps
<1>3. e \in CacheEntries /\ e.key = k /\ e.answer = a
  BY DEF CacheEntries
<1>4. Put(c, k, a) = Append(kept, e)
  BY DEF Put
<1> HIDE DEF d, e
<1>5. /\ kept \in Seq(CacheEntries)
      /\ Len(kept) < Capacity
      /\ Lacks(kept, k)
      /\ Ordered(kept, u)
      /\ \A f : Current(c, f) => Current(kept, f)
  <2>0. Len(d) \in Nat
    BY <1>1, LenProperties
  <2>1. CASE Len(d) >= Capacity
    <3>1. /\ Tail(d) \in Seq(CacheEntries)
          /\ Thinned(Tail(d), d)
          /\ Len(Tail(d)) = Len(d) - 1
      BY <1>0, <1>1, <2>0, <2>1, TailThins
    <3>2. Lacks(Tail(d), k) /\ Ordered(Tail(d), u)
      BY <1>1, <1>2, <3>1, ThinnedKeeps
    <3>3. \A f : Current(c, f) => Current(Tail(d), f)
      BY <1>2, <3>1, ThinnedKeeps
    <3> QED
      BY <1>0, <1>1, <2>0, <2>1, <3>1, <3>2, <3>3
  <2>2. CASE ~(Len(d) >= Capacity)
    BY <1>0, <1>1, <1>2, <2>0, <2>2
  <2> QED
    BY <2>1, <2>2
<1> HIDE DEF kept
<1>6. /\ Append(kept, e) \in Seq(CacheEntries)
      /\ Len(Append(kept, e)) = Len(kept) + 1
      /\ Ordered(Append(kept, e), Append(Forgotten(u, k), k))
  BY <1>3, <1>5, AppendedKeepsOrder
<1>7. Len(Append(kept, e)) <= Capacity
  BY <1>0, <1>5, <1>6, LenProperties
<1>8. ASSUME NEW f, Current(c, f), a = Answer(f, k[1])
      PROVE  Current(Append(kept, e), f)
  BY <1>3, <1>5, <1>8, AppendedIsCurrent DEF SameEvidence
<1> QED
  BY <1>4, <1>6, <1>7, <1>8

(* No entry is served once the answers it rests on may have changed.       *)
LEMMA InvalidatedKeeps ==
  ASSUME NEW c \in Seq(CacheEntries), NEW u, Ordered(c, u), Len(c) <= Capacity
  PROVE  /\ Invalidated(c) \in Seq(CacheEntries)
         /\ Len(Invalidated(c)) <= Capacity
         /\ Ordered(Invalidated(c), u)
         /\ \A f : Current(Invalidated(c), f)
<1>0. DOMAIN c = 1..Len(c) /\ Len(c) \in Nat /\ Capacity \in Nat \ {0}
  BY LenProperties, CacheAssumption
<1>1. CASE Len(c) > Capacity \div 2
  <2>1. Invalidated(c) = <<>>
    BY <1>1 DEF Invalidated
  <2> QED
    BY <2>1, <1>0 DEF Ordered, Current
<1>2. CASE ~(Len(c) > Capacity \div 2)
  <2> DEFINE d == [i \in 1..Len(c) |-> [c[i] EXCEPT !.fresh = FALSE]]
  <2>1. Invalidated(c) = d
    BY <1>0, <1>2 DEF Invalidated
  <2>2. ASSUME NEW i \in 1..Len(c)
        PROVE  /\ d[i] \in CacheEntries
               /\ d[i].key = c[i].key /\ ~d[i].fresh
    <3>1. c[i] \in CacheEntries
      BY ElementOfSeq
    <3> QED
      BY <3>1 DEF CacheEntries
  <2> HIDE DEF CacheEntries
  <2>3. d \in [1..Len(c) -> CacheEntries]
    BY <2>2
  <2>4. d \in Seq(CacheEntries) /\ DOMAIN d = 1..Len(c) /\ Len(d) = Len(c)
    BY <1>0, <2>3, SeqDef, LenProperties
  <2> HIDE DEF d
  <2>5. Ordered(d, u)
    BY <1>0, <2>2, <2>4 DEF Ordered
  <2>6. \A f : Current(d, f)
    BY <2>2, <2>4 DEF Current
  <2> QED
    BY <1>0, <2>1, <2>4, <2>5, <2>6
<1> QED
  BY <1>1, <1>2

(* Using a key that is not cached leaves the order of the others.          *)
LEMMA LackingKeepsOrder ==
  ASSUME NEW c \in Seq(CacheEntries), NEW u \in Seq(Keys), Once(u), Ordered(c, u),
         NEW k \in Keys, Lacks(c, k)
  PROVE  Ordered(c, Append(Forgotten(u, k), k))
<1> DEFINE v == Append(Forgotten(u, k), k)
<1>1. /\ \A l \in Keys \ {k} : Known(u, l) => Known(v, l)
      /\ \A l, m \in Keys \ {k} : Before(u, l, m) => Before(v, l, m)
  BY TouchedKeepsOrder
<1>2. ASSUME NEW i \in DOMAIN c
      PROVE  c[i].key \in Keys \ {k}
  <2>1. c[i] \in CacheEntries
    BY LenProperties, ElementOfSeq
  <2>2. c[i].key \in Keys
    BY <2>1 DEF CacheEntries
  <2> QED
    BY <2>2 DEF Lacks
<1> HIDE DEF v
<1>3. Ordered(c, v)
  BY <1>1, <1>2 DEF Ordered
<1> QED
  BY <1>3 DEF v

-----------------------------------------------------------------------------
(* Operators of predict().                                                 *)
LEMMA AnswerTyped ==
  ASSUME NEW f \in Facts, NEW p
  PROVE  Answer(f, p) \in Answers
<1>1. Scored(f) \in Answers
  BY DEF Scored, Answers, Table, Facts
<1> QED
  BY <1>1 DEF Answer, Answers

LEMMA CalibratedTyped ==
  ASSUME NEW f \in Facts, NEW p
  PROVE  Calibrated(f, p) \in Facts
  BY DEF Calibrated, Facts, Table

(* Rebuilding the table changes no answer: asking for it is what rebuilds. *)
LEMMA CalibratedKeepsAnswers ==
  ASSUME NEW f \in Facts, NEW p, NEW q
  PROVE  Answer(Calibrated(f, p), q) = Answer(f, q)
<1> DEFINE g == Calibrated(f, p)
<1>1. /\ g.vocab = f.vocab /\ g.profile = f.profile /\ g.session = f.session
      /\ g.weights = f.weights /\ Table(g) = Table(f)
  BY DEF Calibrated, Facts, Table
<1> HIDE DEF g
<1>2. Scored(g) = Scored(f) /\ Candidates(g, q) = Candidates(f, q)
  BY <1>1 DEF Scored, Candidates
<1> QED
  BY <1>2 DEF Answer, g

(* Forgetting the session keeps what an answer says of everything else.    *)
LEMMA SessionForgotten ==
  ASSUME NEW f \in Facts, NEW p, NEW a, SameEvidence(a, Answer(f, p))
  PROVE  SameEvidence(a, Answer([f EXCEPT !.session = 0], p))
<1> DEFINE g == [f EXCEPT !.session = 0]
<1>1. /\ g.vocab = f.vocab /\ g.profile = f.profile /\ g.session = 0
      /\ g.weights = f.weights /\ Table(g) = Table(f)
  BY DEF Facts, Table
<1>2. Candidates(g, p) = Candidates(f, p)
  BY <1>1 DEF Candidates
<1>3. CASE Candidates(f, p) = {}
  <2>1. Answer(g, p) = Answer(f, p)
    BY <1>2, <1>3 DEF Answer
  <2> QED
    BY <2>1
<1>4. CASE Candidates(f, p) # {}
  <2>1. Answer(g, p) = Scored(g) /\ Answer(f, p) = Scored(f)
    BY <1>2, <1>4 DEF Answer
  <2>2. /\ Scored(g) = [Scored(f) EXCEPT !.session = 0]
        /\ Scored(g).session = 0 /\ Scored(g).kind = "scored" /\ Scored(f).kind = "scored"
        /\ Scored(f).session = 0 => Scored(g) = Scored(f)
    BY <1>1 DEF Scored
  <2> QED
    BY <2>1, <2>2 DEF SameEvidence
<1> QED
  BY <1>3, <1>4

LEMMA LearnedTyped ==
  ASSUME NEW f \in Facts, NEW w \in Words, NEW long \in BOOLEAN
  PROVE  Committed(f, w, long) \in Facts
<1>1. /\ f.vocab \subseteq Words /\ f.profile \in Nat
  BY DEF Facts
<1>2. Learned(f) \in Facts
  BY <1>1 DEF Learned, Facts
<1>3. \A g \in Facts : ObservedInSession(g) \in Facts
  BY DEF ObservedInSession, Facts
<1>4. \A g \in Facts : Kept(g, w) \in Facts
  BY DEF Kept, Facts
<1> QED
  BY <1>2, <1>3, <1>4 DEF Committed

LEMMA ObservedTyped ==
  ASSUME NEW f \in Facts
  PROVE  /\ Observed(f) \in Facts
         /\ Accepted(f) \in Facts
         /\ Rejected(f) \in Facts
<1>1. \A n \in Nat : (n + 1) % DecayInterval \in Nat
  BY CalibrationAssumption
<1>2. /\ f.vocab \subseteq Words /\ f.profile \in Nat /\ f.session \in Nat
      /\ f.weights \in Nat /\ f.feedback \in Nat /\ f.seen \in Nat
      /\ f.dirty \in BOOLEAN /\ f.table \in Nat
  BY DEF Facts
<1>3. Observed(f) \in Facts
  <2>1. (f.dirty \/ (f.seen + 1) % MinObservations = 0) \in BOOLEAN
    OBVIOUS
  <2>2. f.seen + 1 \in Nat
    BY <1>2
  <2> DEFINE d == f.dirty \/ (f.seen + 1) % MinObservations = 0
  <2>3. Observed(f) = [f EXCEPT !.seen = f.seen + 1, !.dirty = d]
    BY <1>2 DEF Observed, Facts
  <2> HIDE DEF d
  <2> QED
    BY <2>1, <2>2, <2>3 DEF Facts, d
<1>4. Accepted(f) \in Facts
  <2>1. f.weights + 1 \in Nat /\ (f.feedback + 1) % DecayInterval \in Nat
    BY <1>1, <1>2
  <2> QED
    BY <2>1 DEF Accepted, Facts
<1>5. Rejected(f) \in Facts
  <2>1. f.weights + 1 \in Nat /\ (f.feedback + 1) % DecayInterval \in Nat
    BY <1>1, <1>2
  <2> QED
    BY <2>1, <1>2 DEF Rejected, Facts
<1> QED
  BY <1>3, <1>4, <1>5

-----------------------------------------------------------------------------
(* Every step keeps the invariant.                                         *)
LEMMA InitInv == Init => Inv /\ Current(cache, facts)
<1> SUFFICES ASSUME Init
             PROVE  Inv /\ Current(cache, facts)
  OBVIOUS
<1>1. facts \in Facts /\ last \in Answers
  BY DEF Init, Facts, Answers
<1>2. /\ cache \in Seq(CacheEntries) /\ used \in Seq(Keys)
      /\ DOMAIN cache = {} /\ DOMAIN used = {} /\ Len(cache) = 0
  BY LenProperties, EmptySeq DEF Init
<1>3. Once(used) /\ Ordered(cache, used) /\ Current(cache, facts)
  BY <1>2 DEF Once, Ordered, Current
<1> QED
  BY <1>1, <1>2, <1>3, CacheAssumption DEF Inv, Typed

(* A request: served from the cache, answered and cached, or not answered. *)
LEMMA PredictInv ==
  ASSUME Inv, NEW k \in Keys, Predict(k)
  PROVE  Inv' /\ (Current(cache, facts) => Current(cache, facts)')
<1> DEFINE v == Append(Forgotten(used, k), k)
<1>0. /\ facts \in Facts /\ cache \in Seq(CacheEntries) /\ used \in Seq(Keys)
      /\ last \in Answers /\ Once(used) /\ Ordered(cache, used) /\ Len(cache) <= Capacity
      /\ Len(cache) \in Nat
  BY LenProperties DEF Inv, Typed
<1>1. used' = v
  BY DEF Predict
<1>2. v \in Seq(Keys) /\ Once(v)
  BY <1>0, TouchedKeepsOrder
<1> HIDE DEF v
<1>3. CASE Hit(cache, k)
  <2>1. /\ last' = cache[At(cache, k)].answer
        /\ cache' = Promoted(cache, k) /\ facts' = facts
    BY <1>3 DEF Predict
  <2>2. Holds(cache, k)
    BY <1>3 DEF Hit
  <2>3. /\ Promoted(cache, k) \in Seq(CacheEntries)
        /\ Len(Promoted(cache, k)) = Len(cache)
        /\ Ordered(Promoted(cache, k), v)
        /\ cache[At(cache, k)] \in CacheEntries
        /\ \A f : Current(cache, f) => Current(Promoted(cache, k), f)
    BY <1>0, <2>2, PromotedKeeps DEF v
  <2>4. last' \in Answers
    BY <2>1, <2>3 DEF CacheEntries
  <2>5. Current(cache, facts) => Current(cache', facts')
    BY <2>1, <2>3
  <2>6. Inv'
    BY <1>0, <1>1, <1>2, <2>1, <2>3, <2>4 DEF Inv, Typed
  <2> QED
    BY <2>5, <2>6 DEF Current
<1>4. CASE ~Hit(cache, k)
  <2> DEFINE a == Answer(facts, k[1])
  <2>1. /\ last' = a
        /\ facts' = Calibrated(facts, k[1])
        /\ cache' = IF a = None THEN Without(cache, k) ELSE Put(cache, k, a)
    BY <1>4 DEF Predict
  <2>2. facts' \in Facts /\ a \in Answers
    BY <1>0, <2>1, AnswerTyped, CalibratedTyped
  <2>3. \A q : Answer(facts', q) = Answer(facts, q)
    BY <1>0, <2>1, CalibratedKeepsAnswers
  <2> HIDE DEF a
  <2>4. CASE a = None
    <3>1. cache' = Without(cache, k)
      BY <2>1, <2>4
    <3>2. /\ Without(cache, k) \in Seq(CacheEntries)
          /\ Thinned(Without(cache, k), cache)
          /\ Lacks(Without(cache, k), k)
          /\ Len(Without(cache, k)) <= Capacity
      BY <1>0, WithoutThins, CacheAssumption
    <3>3. /\ Ordered(Without(cache, k), used)
          /\ Current(cache, facts) => Current(Without(cache, k), facts)
      BY <1>0, <3>2, ThinnedKeeps
    <3>4. Ordered(Without(cache, k), v)
      BY <1>0, <3>2, <3>3, LackingKeepsOrder DEF v
    <3>5. Current(cache, facts) => Current(cache', facts')
      BY <2>3, <3>1, <3>3 DEF Current
    <3>6. Inv'
      BY <1>1, <1>2, <2>1, <2>2, <3>1, <3>2, <3>4 DEF Inv, Typed
    <3> QED
      BY <3>5, <3>6 DEF Current
  <2>5. CASE a # None
    <3>1. cache' = Put(cache, k, a)
      BY <2>1, <2>5
    <3>2. /\ Put(cache, k, a) \in Seq(CacheEntries)
          /\ Len(Put(cache, k, a)) <= Capacity
          /\ Ordered(Put(cache, k, a), v)
          /\ \A f : Current(cache, f) /\ a = Answer(f, k[1]) => Current(Put(cache, k, a), f)
      BY <1>0, <2>2, <2>5, PutKeeps DEF v
    <3>3. Current(cache, facts) => Current(Put(cache, k, a), facts)
      BY <3>2 DEF a
    <3>4. Current(cache, facts) => Current(cache', facts')
      BY <2>3, <3>1, <3>3 DEF Current
    <3>5. Inv'
      BY <1>1, <1>2, <2>1, <2>2, <3>1, <3>2 DEF Inv, Typed
    <3> QED
      BY <3>4, <3>5 DEF Current
  <2> QED
    BY <2>4, <2>5
<1> QED
  BY <1>3, <1>4

(* What is learned, loaded or forgotten.                                   *)
LEMMA InvalidationInv ==
  ASSUME Inv, facts' \in Facts, last' \in Answers, cache' = Invalidated(cache), used' = used
  PROVE  Inv' /\ Current(cache, facts)'
<1>1. /\ cache \in Seq(CacheEntries) /\ used \in Seq(Keys)
      /\ Ordered(cache, used) /\ Len(cache) <= Capacity
  BY DEF Inv, Typed
<1>2. /\ Invalidated(cache) \in Seq(CacheEntries)
      /\ Len(Invalidated(cache)) <= Capacity
      /\ Ordered(Invalidated(cache), used)
      /\ \A f : Current(Invalidated(cache), f)
  BY <1>1, InvalidatedKeeps
<1>3. Current(cache', facts')
  BY <1>2
<1>4. Inv'
  BY <1>1, <1>2 DEF Inv, Typed
<1> QED
  BY <1>3, <1>4 DEF Current

LEMMA StepInv ==
  ASSUME Inv, [Next]_vars
  PROVE  Inv' /\ (UseHedge /\ Current(cache, facts) => Current(cache, facts)')
<1>0. facts \in Facts /\ last \in Answers /\ None \in Answers
  BY DEF Inv, Typed, Answers
<1>1. ASSUME NEW k \in Keys, Predict(k)
      PROVE  Inv' /\ (UseHedge /\ Current(cache, facts) => Current(cache, facts)')
  BY <1>1, PredictInv
<1>2. ASSUME NEW w \in Words, NEW long \in BOOLEAN, Commit(w, long)
      PROVE  Inv' /\ Current(cache, facts)'
  <2>1. facts' = Committed(facts, w, long) /\ cache' = Invalidated(cache)
        /\ last' = None /\ used' = used
    BY <1>2 DEF Commit
  <2>2. facts' \in Facts
    BY <1>0, <2>1, LearnedTyped
  <2> QED
    BY <1>0, <2>1, <2>2, InvalidationInv
<1>3. ASSUME NEW w \in Words, NEW long \in BOOLEAN, Accept(w, long)
      PROVE  Inv' /\ Current(cache, facts)'
  <2>1. /\ facts' = Committed(Accepted(Observed(facts)), w, long)
        /\ cache' = Invalidated(cache) /\ last' = None /\ used' = used
    BY <1>3 DEF Accept
  <2>2. Observed(facts) \in Facts
    BY <1>0, ObservedTyped
  <2>3. Accepted(Observed(facts)) \in Facts
    BY <2>2, ObservedTyped
  <2>4. facts' \in Facts
    BY <2>1, <2>3, LearnedTyped
  <2> QED
    BY <1>0, <2>1, <2>4, InvalidationInv
<1>4. ASSUME Escape
      PROVE  Inv' /\ (UseHedge => Current(cache, facts)')
  <2>1. /\ facts' = Rejected(Observed(facts)) /\ cache' = Escaped(cache)
        /\ last' = None /\ used' = used
    BY <1>4 DEF Escape
  <2>2. facts' \in Facts
    <3>1. Observed(facts) \in Facts
      BY <1>0, ObservedTyped
    <3> QED
      BY <2>1, <3>1, ObservedTyped
  <2>3. CASE UseHedge
    BY <1>0, <2>1, <2>2, <2>3, InvalidationInv DEF Escaped
  <2>4. CASE ~UseHedge
    BY <1>0, <2>1, <2>2, <2>4 DEF Escaped, Inv, Typed
  <2> QED
    BY <2>3, <2>4
<1>5. ASSUME EndWord
      PROVE  Inv' /\ (Current(cache, facts) => Current(cache, facts)')
  BY <1>0, <1>5 DEF EndWord, Inv, Typed, Current
<1>6. ASSUME CursorMoved
      PROVE  Inv' /\ (Current(cache, facts) => Current(cache, facts)')
  <2>1. /\ facts' = [facts EXCEPT !.session = 0] /\ cache' = cache
        /\ last' = None /\ used' = used
    BY <1>6 DEF CursorMoved
  <2>2. facts' \in Facts
    BY <1>0, <2>1 DEF Facts
  <2>3. Inv'
    BY <1>0, <2>1, <2>2 DEF Inv, Typed
  <2>4. \A p, a : SameEvidence(a, Answer(facts, p)) => SameEvidence(a, Answer(facts', p))
    BY <1>0, <2>1, SessionForgotten
  <2>5. Current(cache, facts) => Current(cache', facts')
    BY <2>1, <2>4 DEF Current
  <2> QED
    BY <2>3, <2>5 DEF Current
<1>7. ASSUME NEW vocab \in SUBSET Words, NEW feedback \in 0..(DecayInterval - 1),
             Import(vocab, feedback)
      PROVE  Inv' /\ Current(cache, facts)'
  <2>1. /\ facts' = [facts EXCEPT !.vocab = vocab, !.profile = @ + 1,
                                  !.weights = @ + 1, !.feedback = feedback]
        /\ cache' = Invalidated(cache) /\ last' = last /\ used' = used
    BY <1>7 DEF Import
  <2>2. facts' \in Facts
    <3>1. feedback \in Nat
      BY CalibrationAssumption
    <3>2. facts.profile + 1 \in Nat /\ facts.weights + 1 \in Nat
      BY <1>0 DEF Facts
    <3> QED
      BY <1>0, <2>1, <3>1, <3>2 DEF Facts
  <2> QED
    BY <1>0, <2>1, <2>2, InvalidationInv
<1>8. ASSUME UNCHANGED vars
      PROVE  Inv' /\ (Current(cache, facts) => Current(cache, facts)')
  BY <1>8 DEF vars, Inv, Typed, Current
<1> QED
  BY <1>1, <1>2, <1>3, <1>4, <1>5, <1>6, <1>7, <1>8 DEF Next

LEMMA InvHolds == Spec => []Inv
  BY InitInv, StepInv, PTL DEF Spec

-----------------------------------------------------------------------------
\* The state keeps its types, and an empty answer is never cached (put_scoped is
\* reached only with predictions).
THEOREM TypeCorrect == Spec => []TypeOK
<1>1. Inv => TypeOK
  BY DEF Inv, Typed, TypeOK, Facts, CacheEntries
<1> QED
  BY <1>1, InvHolds, PTL

\* The cache never outgrows its capacity, holds a request once and gives up the
\* entry used longest ago (get_scoped, put_scoped, invalidate).
THEOREM EvictsLeastRecent == Spec => []LeastRecentFirst
<1>1. Inv => LeastRecentFirst
  BY DEF Inv, Ordered, Before, LeastRecentFirst, UsedBefore
<1> QED
  BY <1>1, InvHolds, PTL

\* With the Hedge mixer on, a cached answer that can be served rests on what is
\* known now; only a session that cursor_moved() has cleared may still show in it.
THEOREM ServesWhatIsKnown == ASSUME UseHedge PROVE Spec => []HitsAreCurrent
<1>1. Init => Inv /\ Current(cache, facts)
  BY InitInv
<1>2. Inv /\ Current(cache, facts) /\ [Next]_vars => (Inv /\ Current(cache, facts))'
  BY StepInv
<1>3. Current(cache, facts) <=> HitsAreCurrent
  BY DEF Current, HitsAreCurrent
<1> QED
  BY <1>1, <1>2, <1>3, PTL DEF Spec
=============================================================================
