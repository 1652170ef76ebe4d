------------------------- MODULE StreamLog_proofs -------------------------
(***************************************************************************)
(* Every stream is a RetainedLog, stores a message id once per window,     *)
(* counts its bytes exactly, keeps within its limits and drops the oldest  *)
(* messages first, for every set of streams, subjects and limits.          *)
(***************************************************************************)
EXTENDS StreamLog, FiniteSetTheorems, WellFoundedInduction, TLAPS

----------------------------------------------------------------------------
(* Induction over the naturals, from the least element of a set of them.   *)
LEMMA LeastNatural ==
    ASSUME NEW T \in SUBSET Nat, T # {}
    PROVE  \E x \in T : \A y \in T : x <= y
<1>1. PICK x \in T : \A y \in T : ~ (<<y, x>> \in OpToRel(<, Nat))
  BY NatLessThanWellFounded, WFMin
<1>2. \A y \in T : ~ (y < x)
  BY <1>1 DEF OpToRel
<1>3. \A y \in T : x <= y
  BY <1>2
<1> QED
  BY <1>3

LEMMA Induction ==
    ASSUME NEW G \in SUBSET Nat, 0 \in G, \A n \in Nat : n \in G => n + 1 \in G
    PROVE  G = Nat
<1> SUFFICES ASSUME Nat \ G # {} PROVE FALSE
  OBVIOUS
<1>1. PICK x \in Nat \ G : \A y \in Nat \ G : x <= y
  BY LeastNatural
<1>2. x # 0 /\ x \in Nat
  OBVIOUS
<1>3. x - 1 \in Nat /\ ~ (x <= x - 1) /\ (x - 1) + 1 = x
  BY <1>2
<1>4. x - 1 \in G
  BY <1>1, <1>3
<1> QED
  BY <1>3, <1>4

(* g holds the partial sums of w.                                          *)
Sums(g, w) == g = [q \in 0 .. MaxSeq |-> IF q = 0 THEN 0 ELSE g[q - 1] + w[q]]

LEMMA SumsExist ==
    ASSUME NEW w
    PROVE  \E g : Sums(g, w)
<1> DEFINE Upto(n, g) == g = [q \in 0 .. n |-> IF q = 0 THEN 0 ELSE g[q - 1] + w[q]]
           G == {n \in Nat : \E g : Upto(n, g)}
<1>1. 0 \in G
  <2>1. Upto(0, [q \in 0 .. 0 |-> 0])
    OBVIOUS
  <2> QED
    BY <2>1
<1>2. ASSUME NEW n \in Nat, n \in G PROVE n + 1 \in G
  <2>1. PICK g : Upto(n, g)
    BY <1>2
  <2> DEFINE h == [q \in 0 .. n + 1 |-> IF q = n + 1 THEN g[n] + w[n + 1] ELSE g[q]]
  <2>2. \A q \in 0 .. n : h[q] = g[q]
    OBVIOUS
  <2>3. ASSUME NEW q \in 0 .. n + 1
        PROVE  h[q] = IF q = 0 THEN 0 ELSE h[q - 1] + w[q]
    <3>1. CASE q = n + 1
      BY <2>2, <3>1
    <3>2. CASE q \in 0 .. n
      <4>1. q = 0 \/ q - 1 \in 0 .. n
        BY <3>2
      <4>2. g[q] = IF q = 0 THEN 0 ELSE g[q - 1] + w[q]
        BY <2>1, <3>2
      <4> QED
        BY <2>2, <3>2, <4>1, <4>2
    <3> QED
      BY <3>1, <3>2
  <2>4. Upto(n + 1, h)
    BY <2>3
  <2> HIDE DEF h
  <2>5. \E f : Upto(n + 1, f)
    BY <2>4
  <2> HIDE DEF Upto
  <2> QED
    BY <2>5
<1> HIDE DEF G
<1>3. G \in SUBSET Nat
  BY DEF G
<1>4. MaxSeq \in G
  BY <1>1, <1>2, <1>3, Induction, NumbersAssumption
<1> QED
  BY <1>4 DEF Sums, G

LEMMA SumsAt ==
    ASSUME NEW w, NEW g, Sums(g, w)
    PROVE  /\ g[0] = 0 /\ g = [q \in 0 .. MaxSeq |-> g[q]]
           /\ \A q \in Seqs : g[q] = g[q - 1] + w[q]
<1>1. 0 \in 0 .. MaxSeq /\ \A q \in Seqs : q \in 0 .. MaxSeq /\ q # 0
  BY NumbersAssumption DEF Seqs
<1>2. \A q \in 0 .. MaxSeq : g[q] = IF q = 0 THEN 0 ELSE g[q - 1] + w[q]
  BY DEF Sums
<1>3. g = [q \in 0 .. MaxSeq |-> g[q]]
  BY DEF Sums
<1> QED
  BY <1>1, <1>2, <1>3

(* What holds of 0, and of each sequence after the one before, holds at    *)
(* MaxSeq.                                                                 *)
LEMMA SeqInduction ==
    ASSUME NEW G, 0 \in G, \A q \in Seqs : q - 1 \in G => q \in G
    PROVE  \A q \in 0 .. MaxSeq : q \in G
<1> DEFINE H == {n \in Nat : n \in 0 .. MaxSeq => n \in G}
<1>1. H \in SUBSET Nat /\ 0 \in H
  OBVIOUS
<1>2. ASSUME NEW n \in Nat, n \in H PROVE n + 1 \in H
  <2>1. CASE n + 1 \in 0 .. MaxSeq
    <3>1. n + 1 \in Seqs /\ (n + 1) - 1 = n /\ n \in 0 .. MaxSeq
      BY <2>1, NumbersAssumption DEF Seqs
    <3> QED
      BY <1>2, <3>1
  <2> QED
    BY <2>1
<1>3. H = Nat
  BY <1>1, <1>2, Induction
<1> QED
  BY <1>3, NumbersAssumption

LEMMA SumsType ==
    ASSUME NEW w \in [Seqs -> Nat], NEW g, Sums(g, w)
    PROVE  g \in [0 .. MaxSeq -> Nat]
<1> DEFINE G == {q \in 0 .. MaxSeq : g[q] \in Nat}
<1>1. 0 \in G
  BY SumsAt, NumbersAssumption
<1>2. \A q \in Seqs : q - 1 \in G => q \in G
  <2>1. \A q \in Seqs : q \in 0 .. MaxSeq /\ w[q] \in Nat
    BY NumbersAssumption DEF Seqs
  <2> QED
    BY <2>1, SumsAt
<1> HIDE DEF G
<1>3. \A q \in 0 .. MaxSeq : q \in G
  BY <1>1, <1>2, SeqInduction
<1>4. \A q \in 0 .. MaxSeq : g[q] \in Nat
  BY <1>3 DEF G
<1> QED
  BY <1>4, SumsAt

LEMMA SumsUnique ==
    ASSUME NEW w, NEW g, NEW h, Sums(g, w), Sums(h, w)
    PROVE  g[MaxSeq] = h[MaxSeq]
<1> DEFINE G == {q \in 0 .. MaxSeq : g[q] = h[q]}
<1>1. 0 \in G
  BY SumsAt, NumbersAssumption
<1>2. \A q \in Seqs : q - 1 \in G => q \in G
  <2>1. \A q \in Seqs : q \in 0 .. MaxSeq
    BY NumbersAssumption DEF Seqs
  <2> QED
    BY <2>1, SumsAt
<1> HIDE DEF G
<1>3. MaxSeq \in G
  BY <1>1, <1>2, SeqInduction, NumbersAssumption
<1> QED
  BY <1>3 DEF G

LEMMA TotalIsSum ==
    ASSUME NEW w, NEW g, Sums(g, w)
    PROVE  Total(w) = g[MaxSeq]
<1> DEFINE h == CHOOSE h : h = [q \in 0 .. MaxSeq |->
                                  IF q = 0 THEN 0 ELSE h[q - 1] + w[q]]
<1>1. Sums(h, w)
  BY DEF Sums
<1>2. Total(w) = h[MaxSeq]
  BY DEF Total
<1> HIDE DEF h
<1> QED
  BY <1>1, <1>2, SumsUnique

LEMMA TotalAdds ==
    ASSUME NEW w \in [Seqs -> Nat], NEW u \in [Seqs -> Nat], NEW v \in [Seqs -> Nat],
           \A q \in Seqs : v[q] = w[q] + u[q]
    PROVE  /\ Total(v) = Total(w) + Total(u)
           /\ Total(v) \in Nat /\ Total(w) \in Nat /\ Total(u) \in Nat
<1>1. PICK g : Sums(g, w)
  BY SumsExist
<1>2. PICK h : Sums(h, u)
  BY SumsExist
<1>3. g \in [0 .. MaxSeq -> Nat] /\ h \in [0 .. MaxSeq -> Nat]
  BY <1>1, <1>2, SumsType
<1> DEFINE k == [q \in 0 .. MaxSeq |-> g[q] + h[q]]
<1>4. ASSUME NEW q \in 0 .. MaxSeq
      PROVE  k[q] = IF q = 0 THEN 0 ELSE k[q - 1] + v[q]
  <2>1. CASE q = 0
    BY <1>1, <1>2, <2>1, SumsAt
  <2>2. CASE q # 0
    <3>1. q \in Seqs /\ q - 1 \in 0 .. MaxSeq
      BY <2>2, NumbersAssumption DEF Seqs
    <3>2. g[q] = g[q - 1] + w[q] /\ h[q] = h[q - 1] + u[q]
      BY <1>1, <1>2, <3>1, SumsAt
    <3>3. /\ k[q] = g[q] + h[q] /\ k[q - 1] = g[q - 1] + h[q - 1]
          /\ v[q] = w[q] + u[q] /\ w[q] \in Nat /\ u[q] \in Nat
          /\ g[q - 1] \in Nat /\ h[q - 1] \in Nat
      BY <1>3, <3>1
    <3> HIDE DEF k
    <3> QED
      BY <2>2, <3>2, <3>3
  <2> QED
    BY <2>1, <2>2
<1>5. Sums(k, v)
  BY <1>4 DEF Sums
<1>6. MaxSeq \in 0 .. MaxSeq
  BY NumbersAssumption
<1>7. k[MaxSeq] = g[MaxSeq] + h[MaxSeq] /\ g[MaxSeq] \in Nat /\ h[MaxSeq] \in Nat
  BY <1>3, <1>6
<1> HIDE DEF k
<1> QED
  BY <1>1, <1>2, <1>5, <1>7, TotalIsSum

LEMMA TotalOfOne ==
    ASSUME NEW n \in Seqs, NEW c \in Nat, NEW w \in [Seqs -> Nat],
           \A q \in Seqs : w[q] = IF q = n THEN c ELSE 0
    PROVE  Total(w) = c
<1> DEFINE g == [q \in 0 .. MaxSeq |-> IF q < n THEN 0 ELSE c]
<1>1. n \in Nat /\ 0 < n /\ n <= MaxSeq /\ MaxSeq \in 0 .. MaxSeq
  BY NumbersAssumption DEF Seqs
<1>2. ASSUME NEW q \in 0 .. MaxSeq
      PROVE  g[q] = IF q = 0 THEN 0 ELSE g[q - 1] + w[q]
  <2>1. CASE q = 0
    BY <1>1, <2>1
  <2>2. CASE q # 0
    <3>1. q \in Seqs /\ q - 1 \in 0 .. MaxSeq
      BY <2>2, NumbersAssumption DEF Seqs
    <3>2. g[q] = (IF q < n THEN 0 ELSE c) /\ g[q - 1] = (IF q - 1 < n THEN 0 ELSE c)
      BY <3>1
    <3>3. w[q] = IF q = n THEN c ELSE 0
      BY <3>1
    <3> HIDE DEF g
    <3> QED
      BY <1>1, <2>2, <3>2, <3>3
  <2> QED
    BY <2>1, <2>2
<1>3. Sums(g, w)
  BY <1>2 DEF Sums
<1>4. g[MaxSeq] = c
  BY <1>1
<1> HIDE DEF g
<1> QED
  BY <1>3, <1>4, TotalIsSum

(* The sizes of sets of messages.                                          *)
Weights(l, S) == [q \in Seqs |-> IF q \in S THEN l.msgs[q].size ELSE 0]

LEMMA WeightsType ==
    ASSUME NEW l, l.msgs \in [Seqs -> MsgType], NEW S
    PROVE  /\ Weights(l, S) \in [Seqs -> Nat] /\ SizeOf(l, S) = Total(Weights(l, S))
           /\ \A q \in Seqs : Weights(l, S)[q] = IF q \in S THEN l.msgs[q].size ELSE 0
<1>1. \A q \in Seqs : l.msgs[q].size \in Nat
  BY DEF MsgType
<1> QED
  BY <1>1 DEF Weights, SizeOf

LEMMA SizeSplits ==
    ASSUME NEW l, l.msgs \in [Seqs -> MsgType], NEW A, NEW B, A \cap B = {}
    PROVE  /\ SizeOf(l, A \cup B) = SizeOf(l, A) + SizeOf(l, B)
           /\ SizeOf(l, A) \in Nat /\ SizeOf(l, B) \in Nat
<1>1. \A q \in Seqs : l.msgs[q].size \in Nat
  BY DEF MsgType
<1>2. \A q \in Seqs : Weights(l, A \cup B)[q] = Weights(l, A)[q] + Weights(l, B)[q]
  BY <1>1, WeightsType
<1>3. PICK w \in [Seqs -> Nat], u \in [Seqs -> Nat], v \in [Seqs -> Nat] :
        w = Weights(l, A) /\ u = Weights(l, B) /\ v = Weights(l, A \cup B)
  BY WeightsType
<1>4. \A q \in Seqs : v[q] = w[q] + u[q]
  BY <1>2, <1>3
<1>5. Total(v) = Total(w) + Total(u) /\ Total(w) \in Nat /\ Total(u) \in Nat
  BY <1>4, TotalAdds
<1>6. SizeOf(l, A) = Total(w) /\ SizeOf(l, B) = Total(u) /\ SizeOf(l, A \cup B) = Total(v)
  BY <1>3, WeightsType
<1> QED
  BY <1>5, <1>6

LEMMA SizeGrows ==
    ASSUME NEW l, l.msgs \in [Seqs -> MsgType], NEW A, NEW B, A \subseteq B
    PROVE  SizeOf(l, A) \in Nat /\ SizeOf(l, B) \in Nat /\ SizeOf(l, A) <= SizeOf(l, B)
<1>0. PICK C : C = B \ A
  OBVIOUS
<1>1. A \cup C = B /\ A \cap C = {}
  BY <1>0
<1>2. /\ SizeOf(l, A \cup C) = SizeOf(l, A) + SizeOf(l, C)
      /\ SizeOf(l, A) \in Nat /\ SizeOf(l, C) \in Nat
  BY <1>1, SizeSplits
<1>3. \A i, j \in Nat : i + j \in Nat /\ i <= i + j
  OBVIOUS
<1> QED
  BY <1>1, <1>2, <1>3

LEMMA SizeOfNone ==
    ASSUME NEW l, l.msgs \in [Seqs -> MsgType]
    PROVE  SizeOf(l, {}) = 0
<1>0. PICK e : e = {}
  OBVIOUS
<1>1. e \cup e = e /\ e \cap e = {}
  BY <1>0
<1>2. SizeOf(l, e \cup e) = SizeOf(l, e) + SizeOf(l, e) /\ SizeOf(l, e) \in Nat
  BY <1>1, SizeSplits
<1>3. SizeOf(l, e) = SizeOf(l, e) + SizeOf(l, e)
  BY <1>1, <1>2
<1>4. \A z \in Nat : z = z + z => z = 0
  OBVIOUS
<1>5. SizeOf(l, e) = 0
  BY <1>2, <1>3, <1>4
<1> QED
  BY <1>0, <1>5

LEMMA SizeOfOneMore ==
    ASSUME NEW l, NEW d, NEW n \in Seqs, NEW m \in MsgType, NEW S, n \notin S,
           l.msgs \in [Seqs -> MsgType], d.msgs = [l.msgs EXCEPT ![n] = m]
    PROVE  SizeOf(d, S \cup {n}) = SizeOf(l, S) + m.size
<1>1. d.msgs \in [Seqs -> MsgType] /\ d.msgs[n] = m
      /\ \A q \in Seqs : q # n => d.msgs[q] = l.msgs[q]
  OBVIOUS
<1>2. Weights(d, S) = Weights(l, S)
  BY <1>1 DEF Weights
<1>3. SizeOf(d, S) = SizeOf(l, S)
  BY <1>1, <1>2, WeightsType
<1>4. m.size \in Nat
  BY DEF MsgType
<1>5. \A q \in Seqs : Weights(d, {n})[q] = IF q = n THEN m.size ELSE 0
  BY <1>1, WeightsType
<1>6. SizeOf(d, {n}) = m.size
  BY <1>1, <1>4, <1>5, WeightsType, TotalOfOne
<1> QED
  BY <1>1, <1>3, <1>6, SizeSplits

----------------------------------------------------------------------------
(* What holds of each stream l at time t.                                  *)
Shape(l) ==
    /\ l.lastSeq \in 0 .. MaxSeq
    /\ l.msgs \in [Seqs -> MsgType]
    /\ l.stored \subseteq 1 .. l.lastSeq
    /\ l.dedupe \in [MsgIDs -> 0 .. l.lastSeq]

Stamped(l, t) ==
    \A q \in 1 .. l.lastSeq :
        /\ l.msgs[q].at <= t
        /\ \A r \in 1 .. l.lastSeq : q <= r => l.msgs[q].at <= l.msgs[r].at

Noted(l) ==
    \A q \in 1 .. l.lastSeq :
        l.msgs[q].id # NoID => q <= l.dedupe[l.msgs[q].id]

Once(l) ==
    \A q, r \in 1 .. l.lastSeq :
        (/\ Dedupe > 0 /\ q < r
         /\ l.msgs[q].id # NoID /\ l.msgs[q].id = l.msgs[r].id)
        => l.msgs[r].at - l.msgs[q].at > Dedupe

StreamInv(l, t) == Shape(l) /\ Stamped(l, t) /\ Noted(l) /\ Once(l)

(* d has the messages of l, and perhaps some more.                         *)
Extends(l, d) ==
    /\ l.lastSeq <= d.lastSeq /\ d.lastSeq <= MaxSeq
    /\ \A q \in Seqs : q \notin l.lastSeq + 1 .. d.lastSeq
                         => d.msgs[q].subject = l.msgs[q].subject
    /\ \A q \in l.lastSeq + 1 .. d.lastSeq : d.msgs[q].subject \in Subjects
    /\ d.stored \subseteq l.stored \cup l.lastSeq + 1 .. d.lastSeq

(* d has lost messages of l, and nothing else changed.                     *)
Shrunk(l, d) ==
    /\ d.lastSeq = l.lastSeq /\ d.msgs = l.msgs /\ d.dedupe = l.dedupe
    /\ d.stored \subseteq l.stored

LEMMA RetainShrinks ==
    ASSUME NEW l, NEW S, S \subseteq l.stored
    PROVE  Shrunk(l, Retain(l, S))
  BY DEF Retain, Shrunk

LEMMA ExpireShrinks ==
    ASSUME NEW l
    PROVE  Shrunk(l, Expire(l))
  BY RetainShrinks DEF Expire

LEMMA ShrunkTransitive ==
    ASSUME NEW l, NEW d, NEW e, Shrunk(l, d), Shrunk(d, e)
    PROVE  Shrunk(l, e)
  BY DEF Shrunk

LEMMA TrimShrinks ==
    ASSUME NEW l
    PROVE  Shrunk(l, Trim(l))
<1>0. \A d : Shrunk(d, d)
  BY DEF Shrunk
<1>1. \A d : Shrunk(d, TrimSubjects(d))
  BY <1>0, RetainShrinks DEF TrimSubjects, PerSubjectKept
<1>2. \A d : Shrunk(d, TrimCount(d))
  BY <1>0, RetainShrinks DEF TrimCount
<1>3. \A d : Shrunk(d, TrimBytes(d))
  BY <1>0, RetainShrinks DEF TrimBytes
<1> QED
  BY <1>1, <1>2, <1>3, ShrunkTransitive DEF Trim

LEMMA ShrunkKeepsInv ==
    ASSUME NEW l, NEW d, NEW t, StreamInv(l, t), Shrunk(l, d)
    PROVE  StreamInv(d, t) /\ Extends(l, d)
<1>1. StreamInv(d, t)
  BY DEF StreamInv, Shape, Stamped, Noted, Once, Shrunk
<1>2. l.lastSeq \in 0 .. MaxSeq /\ l.lastSeq + 1 .. l.lastSeq = {}
  BY NumbersAssumption DEF StreamInv, Shape
<1>3. l.lastSeq <= l.lastSeq /\ l.lastSeq <= MaxSeq
  BY <1>2, NumbersAssumption
<1>4. Extends(l, d)
  BY <1>2, <1>3 DEF Extends, Shrunk
<1> QED
  BY <1>1, <1>4

LEMMA ExtendsTransitive ==
    ASSUME NEW l, NEW d, NEW e, Shape(l), Shape(d), Shape(e),
           Extends(l, d), Extends(d, e)
    PROVE  Extends(l, e)
<1>1. /\ l.lastSeq \in Nat /\ d.lastSeq \in Nat /\ e.lastSeq \in Nat
      /\ l.lastSeq <= d.lastSeq /\ d.lastSeq <= e.lastSeq /\ e.lastSeq <= MaxSeq
  BY NumbersAssumption DEF Shape, Extends
<1>2. l.lastSeq <= e.lastSeq
  BY <1>1
<1>3. \A q : q \in l.lastSeq + 1 .. e.lastSeq
              <=> q \in l.lastSeq + 1 .. d.lastSeq \/ q \in d.lastSeq + 1 .. e.lastSeq
  BY <1>1
<1>4. l.lastSeq + 1 .. d.lastSeq \subseteq Seqs
  BY <1>1, NumbersAssumption DEF Seqs
<1>5. \A q \in l.lastSeq + 1 .. d.lastSeq : q \notin d.lastSeq + 1 .. e.lastSeq
  BY <1>1
<1> QED
  BY <1>1, <1>2, <1>3, <1>4, <1>5 DEF Extends

----------------------------------------------------------------------------
(* A message is stored only when its id was not seen inside the window, so *)
(* every earlier message with its id is older than the window.             *)
LEMMA StoreKeepsInv ==
    ASSUME now \in 0 .. MaxTime, NEW l, StreamInv(l, now), NEW r \in Requests,
           ~ Repeat(l, r), l.lastSeq < MaxSeq
    PROVE  StreamInv(Store(l, r), now) /\ Extends(l, Store(l, r))
<1> DEFINE n == l.lastSeq + 1
           d == Store(l, r)
           m == Stamp(r)
<1>1. /\ l.lastSeq \in Nat /\ n \in Seqs /\ n \in Nat /\ l.lastSeq < n
      /\ 1 .. n = (1 .. l.lastSeq) \cup {n} /\ n \notin 1 .. l.lastSeq
      /\ l.lastSeq + 1 .. n = {n} /\ n <= MaxSeq
  BY NumbersAssumption DEF StreamInv, Shape, Seqs
<1>2. /\ m.id = r.id /\ m.at = now /\ m.subject = r.subject /\ m \in MsgType
      /\ r.subject \in Subjects /\ r.id \in MsgIDs \cup {NoID} /\ now \in Nat
  <2>1. /\ r.subject \in Subjects /\ r.size \in Nat /\ r.ttl \in Nat
        /\ r.expect \in Nat /\ r.id \in MsgIDs \cup {NoID}
    BY NumbersAssumption DEF Requests
  <2>2. now \in Nat /\ (IF r.ttl > 0 THEN now + r.ttl ELSE 0) \in Nat
    BY <2>1, NumbersAssumption
  <2> QED
    BY <2>1, <2>2 DEF Stamp, MsgType
<1>3. /\ d.lastSeq = n /\ d.msgs = [l.msgs EXCEPT ![n] = m]
      /\ d.stored = l.stored \cup {n}
      /\ d.dedupe = [i \in MsgIDs |-> IF i = r.id THEN n ELSE l.dedupe[i]]
  BY DEF Store, NextSeq
<1>4. /\ l.msgs \in [Seqs -> MsgType] /\ l.stored \subseteq 1 .. l.lastSeq
      /\ l.dedupe \in [MsgIDs -> 0 .. l.lastSeq] /\ Stamped(l, now)
      /\ Noted(l) /\ Once(l) /\ 1 .. l.lastSeq \subseteq Seqs
  BY <1>1, NumbersAssumption DEF StreamInv, Shape, Seqs
<1> HIDE DEF n, d, m
<1>5. d.msgs[n] = m /\ \A q \in Seqs : q # n => d.msgs[q] = l.msgs[q]
  BY <1>1, <1>3, <1>4
<1>6. Shape(d)
  <2>1. d.msgs \in [Seqs -> MsgType]
    BY <1>1, <1>2, <1>3, <1>4
  <2>2. d.dedupe \in [MsgIDs -> 0 .. d.lastSeq]
    BY <1>1, <1>3, <1>4
  <2> QED
    BY <1>1, <1>3, <1>4, <2>1, <2>2, NumbersAssumption DEF Shape, Seqs
<1>7. \A q \in 1 .. l.lastSeq : l.msgs[q].at \in Nat /\ l.msgs[q].at <= now
  BY <1>4 DEF Stamped, MsgType
<1>8. Stamped(d, now)
  <2>1. \A q \in 1 .. l.lastSeq : d.msgs[q] = l.msgs[q] /\ ~ (n <= q) /\ q \in Nat
    BY <1>1, <1>4, <1>5
  <2> SUFFICES ASSUME NEW q \in 1 .. n, NEW s \in 1 .. n
               PROVE  /\ d.msgs[q].at <= now
                      /\ q <= s => d.msgs[q].at <= d.msgs[s].at
    BY <1>3 DEF Stamped
  <2>2. CASE q = n /\ s = n
    BY <1>2, <1>5, <2>2
  <2>3. CASE q \in 1 .. l.lastSeq /\ s = n
    BY <1>2, <1>5, <1>7, <2>1, <2>3
  <2>4. CASE q = n /\ s \in 1 .. l.lastSeq
    BY <1>2, <1>5, <2>1, <2>4
  <2>5. CASE q \in 1 .. l.lastSeq /\ s \in 1 .. l.lastSeq
    BY <1>4, <2>1, <2>5 DEF Stamped
  <2> QED
    BY <1>1, <2>2, <2>3, <2>4, <2>5
<1>9. Noted(d)
  <2> SUFFICES ASSUME NEW q \in 1 .. n, d.msgs[q].id # NoID
               PROVE  q <= d.dedupe[d.msgs[q].id]
    BY <1>3 DEF Noted
  <2>1. q \in Nat /\ q <= n
    BY <1>1
  <2>2. d.msgs[q].id \in MsgIDs
    <3>1. q \in Seqs
      BY <1>1, NumbersAssumption DEF Seqs
    <3>2. d.msgs[q] \in MsgType
      BY <1>6, <3>1 DEF Shape
    <3> QED
      BY <3>2 DEF MsgType
  <2>3. CASE d.msgs[q].id = r.id
    BY <1>3, <2>1, <2>2, <2>3
  <2>4. CASE d.msgs[q].id # r.id
    <3>1. q \in 1 .. l.lastSeq /\ d.msgs[q] = l.msgs[q]
      BY <1>1, <1>2, <1>4, <1>5, <2>4
    <3> QED
      BY <1>3, <1>4, <2>2, <2>4, <3>1 DEF Noted
  <2> QED
    BY <2>3, <2>4
<1>10. Once(d)
  <2> SUFFICES ASSUME NEW q \in 1 .. n, NEW s \in 1 .. n, Dedupe > 0, q < s,
                      d.msgs[q].id # NoID, d.msgs[q].id = d.msgs[s].id
               PROVE  d.msgs[s].at - d.msgs[q].at > Dedupe
    BY <1>3 DEF Once
  <2>1. q \in 1 .. l.lastSeq /\ d.msgs[q] = l.msgs[q]
    BY <1>1, <1>4, <1>5
  <2>2. CASE s \in 1 .. l.lastSeq
    <3>1. d.msgs[s] = l.msgs[s]
      BY <1>1, <1>4, <1>5, <2>2
    <3> QED
      BY <1>4, <2>1, <2>2, <3>1 DEF Once
  <2>3. CASE s = n
    <3>1. r.id = l.msgs[q].id /\ r.id # NoID /\ r.id \in MsgIDs
      BY <1>2, <1>5, <2>1, <2>3
    <3> DEFINE e == l.dedupe[r.id]
    <3>2. e \in 0 .. l.lastSeq /\ q <= e
      BY <1>4, <2>1, <3>1 DEF Noted
    <3>3. e \in 1 .. l.lastSeq
      BY <1>1, <2>1, <3>2
    <3>4. ~ (now - l.msgs[e].at <= Dedupe)
      BY <1>1, <3>1, <3>3 DEF Repeat
    <3>5. l.msgs[q].at <= l.msgs[e].at
      BY <1>4, <2>1, <3>2, <3>3 DEF Stamped
    <3> HIDE DEF e
    <3>6. l.msgs[e].at \in Nat /\ l.msgs[q].at \in Nat
      BY <1>7, <2>1, <3>3
    <3>7. now - l.msgs[q].at > Dedupe
      BY <1>2, <3>4, <3>5, <3>6, NumbersAssumption
    <3> QED
      BY <1>2, <1>5, <2>1, <2>3, <3>7
  <2> QED
    BY <1>1, <2>2, <2>3
<1>11. Extends(l, d)
  BY <1>1, <1>2, <1>3, <1>5 DEF Extends, n
<1> QED
  BY <1>6, <1>8, <1>9, <1>10, <1>11 DEF StreamInv, d

LEMMA AppendKeepsInv ==
    ASSUME now \in 0 .. MaxTime, NEW l, StreamInv(l, now), NEW r \in Requests,
           l.lastSeq < MaxSeq
    PROVE  /\ StreamInv(Append(l, r), now) /\ Extends(l, Append(l, r))
           /\ Append(l, r).lastSeq \in {l.lastSeq, l.lastSeq + 1}
<1>1. Shrunk(l, Expire(l))
  BY ExpireShrinks
<1>2. StreamInv(Expire(l), now) /\ Extends(l, Expire(l))
  BY <1>1, ShrunkKeepsInv
<1>3. CASE Repeat(l, r)
  BY <1>1, <1>2, <1>3 DEF Append, Shrunk
<1>4. CASE ~ Repeat(l, r)
  <2>1. ~ Repeat(Expire(l), r) /\ Expire(l).lastSeq < MaxSeq
    BY <1>1, <1>4 DEF Repeat, Shrunk
  <2>2. /\ StreamInv(Store(Expire(l), r), now)
        /\ Extends(Expire(l), Store(Expire(l), r))
    BY <1>2, <2>1, StoreKeepsInv
  <2>3. Extends(l, Store(Expire(l), r))
    BY <1>2, <2>2, ExtendsTransitive DEF StreamInv
  <2>4. Store(Expire(l), r).lastSeq = l.lastSeq + 1
    BY <1>1 DEF Store, NextSeq, Shrunk
  <2> QED
    BY <1>4, <2>2, <2>3, <2>4 DEF Append
<1> QED
  BY <1>3, <1>4

LEMMA TrimKeepsInv ==
    ASSUME NEW k, NEW l, StreamInv(k, now), StreamInv(l, now), Extends(k, l)
    PROVE  StreamInv(Trim(l), now) /\ Extends(k, Trim(l))
<1>1. StreamInv(Trim(l), now) /\ Extends(l, Trim(l))
  BY TrimShrinks, ShrunkKeepsInv
<1> QED
  BY <1>1, ExtendsTransitive DEF StreamInv

----------------------------------------------------------------------------
(* The byte count is the size of what is stored, and the limits hold.      *)
Exact(l) == l.bytes = SizeOf(l, l.stored)
Counted(l) == l \in StreamType /\ Exact(l)
OfSubject(l, b) == {q \in l.stored : l.msgs[q].subject = b}
Limited(l) ==
    /\ MaxMsgs > 0 => Cardinality(l.stored) <= MaxMsgs
    /\ MaxBytes > 0 => SizeOf(l, l.stored) <= MaxBytes
    /\ MaxMsgsPerSubject > 0 =>
         \A b \in Subjects : Cardinality(OfSubject(l, b)) <= MaxMsgsPerSubject

LEMMA SeqsFinite ==
    ASSUME NEW S, S \subseteq Seqs
    PROVE  /\ IsFiniteSet(S) /\ Cardinality(S) \in Nat
           /\ \A T \in SUBSET S : /\ IsFiniteSet(T) /\ Cardinality(T) \in Nat
                                  /\ Cardinality(T) <= Cardinality(S)
<1>1. IsFiniteSet(Seqs)
  BY FS_Interval, NumbersAssumption DEF Seqs
<1>2. IsFiniteSet(S)
  BY <1>1, FS_Subset
<1>3. \A T \in SUBSET S : IsFiniteSet(T) /\ Cardinality(T) <= Cardinality(S)
  BY <1>2, FS_Subset
<1> QED
  BY <1>2, <1>3, FS_CardinalityType

LEMMA TypeFields ==
    ASSUME NEW l \in StreamType
    PROVE  /\ l.declared \in BOOLEAN /\ l.lastSeq \in 0 .. MaxSeq
           /\ l.msgs \in [Seqs -> MsgType] /\ l.stored \subseteq Seqs
           /\ l.bytes \in Nat /\ l.dedupe \in [MsgIDs -> 0 .. MaxSeq]
  BY DEF StreamType

(* Whatever Retain drops, it counts.                                       *)
LEMMA RetainCounts ==
    ASSUME NEW l, Counted(l), NEW S, S \subseteq l.stored
    PROVE  Counted(Retain(l, S))
<1>1. /\ l \in StreamType /\ l.bytes = SizeOf(l, l.stored)
      /\ l.declared \in BOOLEAN /\ l.lastSeq \in 0 .. MaxSeq
      /\ l.msgs \in [Seqs -> MsgType] /\ S \subseteq Seqs
      /\ l.dedupe \in [MsgIDs -> 0 .. MaxSeq]
  BY TypeFields DEF Counted, Exact
<1>2. S \cup (l.stored \ S) = l.stored /\ S \cap (l.stored \ S) = {}
  OBVIOUS
<1>3. /\ SizeOf(l, l.stored) = SizeOf(l, S) + SizeOf(l, l.stored \ S)
      /\ SizeOf(l, S) \in Nat /\ SizeOf(l, l.stored \ S) \in Nat
  BY <1>1, <1>2, SizeSplits
<1>4. l.bytes - SizeOf(l, l.stored \ S) = SizeOf(l, S)
  BY <1>1, <1>3
<1>5. Retain(l, S) = [declared |-> l.declared, lastSeq |-> l.lastSeq, msgs |-> l.msgs,
                      stored |-> S, bytes |-> SizeOf(l, S), dedupe |-> l.dedupe]
  BY <1>4 DEF Retain
<1>6. SizeOf(Retain(l, S), S) = SizeOf(l, S)
  BY <1>5 DEF SizeOf
<1>7. Retain(l, S) \in StreamType
  BY <1>1, <1>3, <1>5 DEF StreamType
<1> QED
  BY <1>5, <1>6, <1>7 DEF Counted, Exact

LEMMA StoreCounts ==
    ASSUME NEW l, Counted(l), Shape(l), NEW r \in Requests, now \in 0 .. MaxTime,
           l.lastSeq < MaxSeq
    PROVE  Counted(Store(l, r))
<1> DEFINE n == l.lastSeq + 1
           d == Store(l, r)
<1>1. /\ l.bytes = SizeOf(l, l.stored) /\ l.bytes \in Nat
      /\ l.declared \in BOOLEAN /\ l.lastSeq \in 0 .. MaxSeq
      /\ l.msgs \in [Seqs -> MsgType] /\ l.stored \subseteq Seqs
      /\ l.dedupe \in [MsgIDs -> 0 .. MaxSeq]
  BY TypeFields DEF Counted, Exact
<1>2. n \in Seqs /\ n \in 0 .. MaxSeq /\ n \notin l.stored
  BY <1>1, NumbersAssumption DEF Seqs, Shape
<1>3. r.size \in Nat /\ Stamp(r) \in MsgType /\ Stamp(r).size = r.size
  <2>1. /\ r.subject \in Subjects /\ r.size \in Nat /\ r.ttl \in Nat
        /\ r.expect \in Nat /\ r.id \in MsgIDs \cup {NoID}
    BY NumbersAssumption DEF Requests
  <2>2. (IF r.ttl > 0 THEN now + r.ttl ELSE 0) \in Nat
    BY <2>1, NumbersAssumption
  <2> QED
    BY <2>1, <2>2 DEF Stamp, MsgType
<1>4. d = [declared |-> l.declared, lastSeq |-> n, msgs |-> [l.msgs EXCEPT ![n] = Stamp(r)],
           stored |-> l.stored \cup {n}, bytes |-> l.bytes + r.size,
           dedupe |-> [i \in MsgIDs |-> IF i = r.id THEN n ELSE l.dedupe[i]]]
  BY DEF Store, NextSeq
<1> HIDE DEF n, d
<1>5. d \in StreamType
  <2>1. [l.msgs EXCEPT ![n] = Stamp(r)] \in [Seqs -> MsgType]
    BY <1>1, <1>2, <1>3
  <2>2. [i \in MsgIDs |-> IF i = r.id THEN n ELSE l.dedupe[i]] \in [MsgIDs -> 0 .. MaxSeq]
    BY <1>1, <1>2
  <2>3. l.stored \cup {n} \in SUBSET Seqs /\ l.bytes + r.size \in Nat
    BY <1>1, <1>2, <1>3
  <2> QED
    BY <1>1, <1>2, <1>4, <2>1, <2>2, <2>3 DEF StreamType
<1>6. SizeOf(d, l.stored \cup {n}) = SizeOf(l, l.stored) + Stamp(r).size
  <2>1. d.msgs = [l.msgs EXCEPT ![n] = Stamp(r)]
    BY <1>4
  <2> QED
    BY <1>1, <1>2, <1>3, <2>1, SizeOfOneMore
<1> QED
  BY <1>1, <1>3, <1>4, <1>5, <1>6 DEF Counted, Exact, d

LEMMA ExpireCounts ==
    ASSUME NEW l, Counted(l)
    PROVE  Counted(Expire(l))
  BY RetainCounts DEF Expire

LEMMA AppendCounts ==
    ASSUME NEW l, Counted(l), StreamInv(l, now), NEW r \in Requests,
           now \in 0 .. MaxTime, l.lastSeq < MaxSeq
    PROVE  Counted(Append(l, r))
<1>1. Counted(Expire(l)) /\ Shrunk(l, Expire(l))
  BY ExpireCounts, ExpireShrinks
<1>2. Shape(Expire(l)) /\ Expire(l).lastSeq < MaxSeq
  BY <1>1, ShrunkKeepsInv DEF StreamInv, Shrunk
<1> QED
  BY <1>1, <1>2, StoreCounts DEF Append

(* A set of messages of which each has at most n at or after it has at     *)
(* most n.                                                                 *)
LEMMA NewestFew ==
    ASSUME NEW S, S \subseteq Seqs, NEW n \in Nat, NEW K, K \subseteq S,
           \A q \in K : Cardinality({r \in S : r >= q}) <= n
    PROVE  Cardinality(K) <= n
<1>1. CASE K = {}
  BY <1>1, FS_EmptySet
<1>2. CASE K # {}
  <2>1. K \in SUBSET Nat
    BY NumbersAssumption DEF Seqs
  <2>2. PICK x \in K : \A y \in K : x <= y
    BY <1>2, <2>1, LeastNatural
  <2> DEFINE T == {r \in S : r >= x}
  <2>3. K \in SUBSET T /\ T \subseteq Seqs
    BY <2>1, <2>2
  <2>4. Cardinality(T) <= n
    BY <2>2
  <2> HIDE DEF T
  <2>5. /\ Cardinality(K) \in Nat /\ Cardinality(T) \in Nat
        /\ Cardinality(K) <= Cardinality(T)
    BY <2>3, SeqsFinite
  <2> QED
    BY <2>4, <2>5
<1> QED
  BY <1>1, <1>2

LEMMA CountedShrinks ==
    ASSUME NEW l, Counted(l), NEW d, Shrunk(l, d)
    PROVE  /\ d.stored \subseteq Seqs
           /\ Cardinality(d.stored) \in Nat /\ Cardinality(l.stored) \in Nat
           /\ Cardinality(d.stored) <= Cardinality(l.stored)
           /\ SizeOf(d, d.stored) \in Nat /\ SizeOf(l, l.stored) \in Nat
           /\ SizeOf(d, d.stored) <= SizeOf(l, l.stored)
           /\ \A b : /\ Cardinality(OfSubject(d, b)) \in Nat
                     /\ Cardinality(OfSubject(l, b)) \in Nat
                     /\ Cardinality(OfSubject(d, b)) <= Cardinality(OfSubject(l, b))
<1>1. /\ l.msgs \in [Seqs -> MsgType] /\ l.stored \subseteq Seqs
      /\ d.msgs = l.msgs /\ d.stored \subseteq l.stored
  BY TypeFields DEF Counted, Shrunk
<1>2. SizeOf(d, d.stored) = SizeOf(l, d.stored)
  BY <1>1 DEF SizeOf
<1>3. \A b : OfSubject(d, b) \in SUBSET OfSubject(l, b) /\ OfSubject(l, b) \subseteq Seqs
  BY <1>1 DEF OfSubject
<1> QED
  BY <1>1, <1>2, <1>3, SizeGrows, SeqsFinite

LEMMA ShrunkLimited ==
    ASSUME NEW l, Counted(l), Limited(l), NEW d, Shrunk(l, d)
    PROVE  Limited(d)
<1>1. ASSUME MaxMsgs > 0 PROVE Cardinality(d.stored) <= MaxMsgs
  BY <1>1, CountedShrinks, NumbersAssumption DEF Limited
<1>2. ASSUME MaxBytes > 0 PROVE SizeOf(d, d.stored) <= MaxBytes
  BY <1>2, CountedShrinks, NumbersAssumption DEF Limited
<1>3. ASSUME MaxMsgsPerSubject > 0, NEW b \in Subjects
      PROVE  Cardinality(OfSubject(d, b)) <= MaxMsgsPerSubject
  <2>1. Cardinality(OfSubject(l, b)) <= MaxMsgsPerSubject
    BY <1>3 DEF Limited
  <2> QED
    BY <2>1, CountedShrinks, NumbersAssumption
<1> QED
  BY <1>1, <1>2, <1>3 DEF Limited

(* Each of the three loops of trim establishes its own limit.              *)
LEMMA TrimSubjectsLimits ==
    ASSUME NEW l, Counted(l), MaxMsgsPerSubject > 0, NEW b \in Subjects
    PROVE  Cardinality(OfSubject(TrimSubjects(l), b)) <= MaxMsgsPerSubject
<1> DEFINE S == OfSubject(l, b)
           K == OfSubject(TrimSubjects(l), b)
<1>1. S \subseteq Seqs
  BY TypeFields DEF Counted, OfSubject
<1>2. K = {q \in PerSubjectKept(l) : l.msgs[q].subject = b}
  BY DEF TrimSubjects, Retain, OfSubject
<1>3. K \subseteq S
  BY <1>2 DEF PerSubjectKept, OfSubject
<1>4. ASSUME NEW q \in K
      PROVE  Cardinality({r \in S : r >= q}) <= MaxMsgsPerSubject
  <2>1. l.msgs[q].subject = b /\ q \in PerSubjectKept(l)
    BY <1>2, <1>4
  <2>2. {r \in Since(l, q) : l.msgs[r].subject = l.msgs[q].subject} = {r \in S : r >= q}
    BY <2>1 DEF Since, OfSubject
  <2> QED
    BY <2>1, <2>2 DEF PerSubjectKept
<1> HIDE DEF S, K
<1>5. Cardinality(K) <= MaxMsgsPerSubject
  BY <1>1, <1>3, <1>4, NewestFew, NumbersAssumption
<1> QED
  BY <1>5 DEF K

LEMMA TrimCountLimits ==
    ASSUME NEW l, Counted(l), MaxMsgs > 0
    PROVE  Cardinality(TrimCount(l).stored) <= MaxMsgs
<1> DEFINE S == l.stored
           K == TrimCount(l).stored
<1>1. S \subseteq Seqs
  BY TypeFields DEF Counted
<1>2. K = {q \in S : Cardinality({r \in S : r >= q}) <= MaxMsgs}
  BY DEF TrimCount, Retain, Since
<1> HIDE DEF S, K
<1>3. Cardinality(K) <= MaxMsgs
  BY <1>1, <1>2, NewestFew, NumbersAssumption
<1> QED
  BY <1>3 DEF K

LEMMA TrimBytesLimits ==
    ASSUME NEW l, Counted(l), MaxBytes > 0
    PROVE  SizeOf(TrimBytes(l), TrimBytes(l).stored) <= MaxBytes
<1> DEFINE Before(q) == {r \in l.stored : r < q}
           K == {q \in l.stored : l.bytes - SizeOf(l, Before(q)) <= MaxBytes}
<1>1. /\ l.bytes = SizeOf(l, l.stored) /\ l.stored \subseteq Seqs
      /\ l.msgs \in [Seqs -> MsgType]
  BY TypeFields DEF Counted, Exact
<1>2. TrimBytes(l) = Retain(l, K)
  BY DEF TrimBytes
<1>3. SizeOf(TrimBytes(l), TrimBytes(l).stored) = SizeOf(l, K)
  BY <1>2 DEF Retain, SizeOf
<1>4. CASE K = {}
  <2> HIDE DEF K
  <2>1. SizeOf(l, K) = 0
    BY <1>1, <1>4, SizeOfNone
  <2> QED
    BY <1>3, <2>1, NumbersAssumption
<1>5. CASE K # {}
  <2>1. K \in SUBSET Nat /\ K \subseteq l.stored
    BY <1>1, NumbersAssumption DEF Seqs
  <2>2. PICK x \in K : \A y \in K : x <= y
    BY <1>5, <2>1, LeastNatural
  <2>3. l.bytes - SizeOf(l, Before(x)) <= MaxBytes
    BY <2>2
  <2>4. K \cap Before(x) = {} /\ K \cup Before(x) \subseteq l.stored
    <3>1. \A y : y \in Before(x) => y \in l.stored /\ y < x
      OBVIOUS
    <3> HIDE DEF K, Before
    <3>2. x \in Nat /\ \A y \in K : y \in Nat
      BY <2>1, <2>2
    <3>3. ASSUME NEW y \in K PROVE ~ (y < x)
      <4>1. x <= y /\ y \in Nat
        BY <2>2, <3>2
      <4> QED
        BY <3>2, <4>1
    <3> QED
      BY <2>1, <3>1, <3>3
  <2> HIDE DEF K, Before
  <2>5. /\ SizeOf(l, K \cup Before(x)) = SizeOf(l, K) + SizeOf(l, Before(x))
        /\ SizeOf(l, K) \in Nat /\ SizeOf(l, Before(x)) \in Nat
    BY <1>1, <2>4, SizeSplits
  <2>6. SizeOf(l, K \cup Before(x)) <= SizeOf(l, l.stored) /\ SizeOf(l, l.stored) \in Nat
    BY <1>1, <2>4, SizeGrows
  <2> QED
    BY <1>1, <1>3, <2>3, <2>5, <2>6, NumbersAssumption
<1> QED
  BY <1>4, <1>5

LEMMA TrimLimits ==
    ASSUME NEW l, Counted(l)
    PROVE  Counted(Trim(l)) /\ Limited(Trim(l))
<1> DEFINE a == TrimSubjects(l)
           b == TrimCount(a)
           c == TrimBytes(b)
<1>0. \A d : Shrunk(d, d)
  BY DEF Shrunk
<1>1. Counted(a) /\ Shrunk(l, a)
  BY <1>0, RetainCounts, RetainShrinks DEF TrimSubjects, PerSubjectKept
<1>2. Counted(b) /\ Shrunk(a, b)
  <2> HIDE DEF a
  <2> QED
    BY <1>0, <1>1, RetainCounts, RetainShrinks DEF TrimCount
<1>3. Counted(c) /\ Shrunk(b, c)
  <2> HIDE DEF a, b
  <2> QED
    BY <1>0, <1>2, RetainCounts, RetainShrinks DEF TrimBytes
<1>4. c = Trim(l)
  BY DEF Trim
<1>5. MaxMsgsPerSubject > 0 =>
        \A x \in Subjects : Cardinality(OfSubject(a, x)) <= MaxMsgsPerSubject
  BY TrimSubjectsLimits
<1>6. MaxMsgs > 0 => Cardinality(b.stored) <= MaxMsgs
  BY <1>1, TrimCountLimits
<1>7. MaxBytes > 0 => SizeOf(c, c.stored) <= MaxBytes
  BY <1>2, TrimBytesLimits
<1> HIDE DEF a, b, c
<1>8. Shrunk(a, c)
  BY <1>2, <1>3, ShrunkTransitive
<1>9. ASSUME MaxMsgs > 0 PROVE Cardinality(c.stored) <= MaxMsgs
  BY <1>2, <1>3, <1>6, <1>9, CountedShrinks, NumbersAssumption
<1>10. ASSUME MaxMsgsPerSubject > 0, NEW x \in Subjects
       PROVE  Cardinality(OfSubject(c, x)) <= MaxMsgsPerSubject
  <2>1. Cardinality(OfSubject(a, x)) <= MaxMsgsPerSubject
    BY <1>5, <1>10
  <2> QED
    BY <1>1, <1>8, <2>1, CountedShrinks, NumbersAssumption
<1>11. Limited(c)
  BY <1>7, <1>9, <1>10 DEF Limited
<1> QED
  BY <1>3, <1>4, <1>11

----------------------------------------------------------------------------
(* The store.                                                              *)
Inv ==
    /\ now \in 0 .. MaxTime
    /\ log = [s \in Streams |-> log[s]]
    /\ \A s \in Streams : StreamInv(log[s], now)

LEMMA NewStreamInv ==
    ASSUME NEW t \in Nat, NEW b
    PROVE  StreamInv(NewStream(b), t)
<1> DEFINE l == NewStream(b)
<1>1. /\ l.lastSeq = 0 /\ l.msgs = [q \in Seqs |-> NoMsg] /\ l.stored = {}
      /\ l.dedupe = [i \in MsgIDs |-> 0]
  BY DEF NewStream
<1> HIDE DEF l
<1>2. NoMsg \in MsgType /\ 1 .. 0 = {}
  BY NumbersAssumption DEF NoMsg, MsgType
<1>3. Shape(l)
  BY <1>1, <1>2, NumbersAssumption DEF Shape
<1>4. Stamped(l, t) /\ Noted(l) /\ Once(l)
  BY <1>1, <1>2 DEF Stamped, Noted, Once
<1> QED
  BY <1>3, <1>4 DEF StreamInv, l

(* A stream is left alone, is extended, or starts again.                   *)
StreamStep(l, d) == Extends(l, d) \/ \E b \in BOOLEAN : d = NewStream(b)

LEMMA ExtendsReflexive ==
    ASSUME NEW l, NEW t, StreamInv(l, t)
    PROVE  Extends(l, l)
  BY ShrunkKeepsInv DEF Shrunk

(* Every step treats one stream, or two in a batch.                        *)
LEMMA OneStreamStep ==
    ASSUME Inv, NEW s \in Streams, NEW d, log' = [log EXCEPT ![s] = d],
           now' = now, StreamInv(d, now), StreamStep(log[s], d)
    PROVE  Inv' /\ \A x \in Streams : StreamStep(log[x], log'[x])
<1>1. log' = [x \in Streams |-> IF x = s THEN d ELSE log[x]]
  BY DEF Inv
<1>2. \A x \in Streams : log'[x] = IF x = s THEN d ELSE log[x]
  BY <1>1
<1>3. log' = [x \in Streams |-> log'[x]]
  BY <1>1
<1>4. \A x \in Streams : StreamStep(log[x], log'[x])
  BY <1>2, ExtendsReflexive DEF Inv, StreamStep
<1> QED
  BY <1>2, <1>3, <1>4 DEF Inv

LEMMA ShrinkStep ==
    ASSUME Inv, NEW s \in Streams, NEW d, log' = [log EXCEPT ![s] = d],
           now' = now, Shrunk(log[s], d)
    PROVE  Inv' /\ \A x \in Streams : StreamStep(log[x], log'[x])
<1>1. StreamInv(d, now) /\ Extends(log[s], d)
  BY ShrunkKeepsInv DEF Inv
<1> QED
  BY <1>1, OneStreamStep DEF StreamStep

LEMMA PublishStep ==
    ASSUME Inv, NEW r \in Requests, NEW s \in Routes(r), Publish(s, r)
    PROVE  Inv' /\ \A x \in Streams : StreamStep(log[x], log'[x])
<1> DEFINE d == Trim(Append(log[s], r))
<1>1. /\ s \in Streams /\ log[s].lastSeq < MaxSeq /\ now' = now
      /\ log' = [log EXCEPT ![s] = d] /\ now \in 0 .. MaxTime
      /\ StreamInv(log[s], now)
  BY DEF Publish, Routes, Inv
<1>2. StreamInv(Append(log[s], r), now) /\ Extends(log[s], Append(log[s], r))
  BY <1>1, AppendKeepsInv
<1>3. StreamInv(d, now) /\ Extends(log[s], d)
  BY <1>1, <1>2, TrimKeepsInv
<1> QED
  BY <1>1, <1>3, OneStreamStep DEF StreamStep

LEMMA BatchStep ==
    ASSUME Inv, NEW r1 \in Requests, NEW r2 \in Requests,
           NEW s1 \in Streams, NEW s2 \in Streams, Room(s1), Room(s2),
           PublishBatch(s1, r1, s2, r2)
    PROVE  Inv' /\ \A x \in Streams : StreamStep(log[x], log'[x])
<1> DEFINE first == [log EXCEPT ![s1] = Append(@, r1)]
           both == [first EXCEPT ![s2] = Append(@, r2)]
<1>1. /\ s1 \in Streams /\ s2 \in Streams /\ now' = now /\ now \in 0 .. MaxTime
      /\ log[s1].lastSeq + 1 < MaxSeq /\ log[s2].lastSeq + 1 < MaxSeq
      /\ log' = [s \in Streams |-> IF s \in {s1, s2} THEN Trim(both[s]) ELSE both[s]]
      /\ \A s \in Streams : StreamInv(log[s], now) /\ log[s].lastSeq \in Nat
  BY NumbersAssumption DEF PublishBatch, Room, Inv, StreamInv, Shape
<1>2. \A s \in Streams : first[s] = IF s = s1 THEN Append(log[s1], r1) ELSE log[s]
  BY <1>1 DEF Inv
<1>3. \A s \in Streams : both[s] = IF s = s2 THEN Append(first[s2], r2) ELSE first[s]
  BY <1>1 DEF Inv
<1> HIDE DEF first, both
<1>4. /\ StreamInv(Append(log[s1], r1), now)
      /\ Extends(log[s1], Append(log[s1], r1))
      /\ Append(log[s1], r1).lastSeq \in {log[s1].lastSeq, log[s1].lastSeq + 1}
  <2>1. log[s1].lastSeq < MaxSeq
    BY <1>1, NumbersAssumption
  <2> QED
    BY <1>1, <2>1, AppendKeepsInv
<1>5. \A s \in Streams : StreamInv(first[s], now) /\ Extends(log[s], first[s])
  BY <1>1, <1>2, <1>4, ExtendsReflexive
<1>6. first[s2].lastSeq < MaxSeq
  <2>1. first[s2].lastSeq \in {log[s2].lastSeq, log[s2].lastSeq + 1}
    BY <1>1, <1>2, <1>4
  <2> QED
    BY <1>1, <2>1, NumbersAssumption
<1>7. StreamInv(Append(first[s2], r2), now) /\ Extends(first[s2], Append(first[s2], r2))
  BY <1>1, <1>5, <1>6, AppendKeepsInv
<1>8. \A s \in Streams : StreamInv(both[s], now) /\ Extends(log[s], both[s])
  <2>1. Extends(log[s2], Append(first[s2], r2))
    BY <1>1, <1>5, <1>7, ExtendsTransitive DEF StreamInv
  <2> QED
    BY <1>3, <1>5, <1>7, <2>1
<1>9. \A s \in Streams : StreamInv(log'[s], now) /\ Extends(log[s], log'[s])
  BY <1>1, <1>8, TrimKeepsInv
<1>10. log' = [s \in Streams |-> log'[s]]
  BY <1>1
<1> QED
  BY <1>1, <1>9, <1>10 DEF Inv, StreamStep

LEMMA NextStep ==
    ASSUME Inv, Next
    PROVE  Inv' /\ \A x \in Streams : StreamStep(log[x], log'[x])
<1>1. CASE Tick
  <2>1. /\ now' \in 0 .. MaxTime /\ now \in Nat /\ now <= now' /\ now' \in Nat
        /\ log' = log
    BY <1>1, NumbersAssumption DEF Tick, Inv
  <2>2. ASSUME NEW s \in Streams PROVE StreamInv(log[s], now')
    <3>1. /\ StreamInv(log[s], now) /\ 1 .. log[s].lastSeq \subseteq Seqs
          /\ log[s].msgs \in [Seqs -> MsgType]
      BY NumbersAssumption DEF Inv, StreamInv, Shape, Seqs
    <3>2. \A q \in 1 .. log[s].lastSeq : log[s].msgs[q].at \in Nat
      BY <3>1 DEF MsgType
    <3>3. Stamped(log[s], now')
      BY <2>1, <3>1, <3>2 DEF StreamInv, Stamped
    <3> QED
      BY <3>1, <3>3 DEF StreamInv
  <2> QED
    BY <2>1, <2>2, ExtendsReflexive DEF Inv, StreamStep
<1>2. ASSUME NEW s \in Streams, Declare(s) \/ Delete(s)
      PROVE  Inv' /\ \A x \in Streams : StreamStep(log[x], log'[x])
  <2>1. PICK b \in BOOLEAN : log' = [log EXCEPT ![s] = NewStream(b)] /\ now' = now
    BY <1>2 DEF Declare, Delete
  <2>2. StreamInv(NewStream(b), now)
    BY NewStreamInv, NumbersAssumption DEF Inv
  <2> QED
    BY <2>1, <2>2, OneStreamStep DEF StreamStep
<1>3. ASSUME NEW s \in Streams, PurgeAll(s)
      PROVE  Inv' /\ \A x \in Streams : StreamStep(log[x], log'[x])
  <2> DEFINE d == [[log[s] EXCEPT !.stored = {}] EXCEPT !.bytes = 0]
  <2>1. log' = [log EXCEPT ![s] = d] /\ now' = now
    BY <1>3 DEF PurgeAll, Inv
  <2>2. Shrunk(log[s], d)
    BY DEF Shrunk
  <2> QED
    BY <2>1, <2>2, ShrinkStep
<1>4. ASSUME NEW s \in Streams, Read(s)
      PROVE  Inv' /\ \A x \in Streams : StreamStep(log[x], log'[x])
  BY <1>4, ExpireShrinks, ShrinkStep DEF Read
<1>5. ASSUME NEW s \in Streams, NEW S \in SUBSET Subjects, Purge(s, S)
      PROVE  Inv' /\ \A x \in Streams : StreamStep(log[x], log'[x])
  BY <1>5, RetainShrinks, ShrinkStep DEF Purge
<1>6. ASSUME NEW r \in Requests, NEW s \in Routes(r), PublishConflict(s, r)
      PROVE  Inv' /\ \A x \in Streams : StreamStep(log[x], log'[x])
  BY <1>6, ExpireShrinks, ShrinkStep DEF PublishConflict, Routes
<1> QED
  BY <1>1, <1>2, <1>3, <1>4, <1>5, <1>6, PublishStep, BatchStep DEF Next

LEMMA InitInv == Init => Inv
<1>1. 0 \in 0 .. MaxTime /\ 0 \in Nat
  BY NumbersAssumption
<1> QED
  BY <1>1, NewStreamInv DEF Init, Inv

LEMMA Invariance == Spec => []Inv
<1>1. Inv /\ [Next]_vars => Inv'
  <2>1. ASSUME Inv, UNCHANGED vars PROVE Inv'
    BY <2>1 DEF Inv, vars
  <2> QED
    BY <2>1, NextStep
<1> QED
  BY <1>1, InitInv, PTL DEF Spec

----------------------------------------------------------------------------
(* Between two holds of the lock every stream is counted and limited.      *)
Kept(l) == Counted(l) /\ Limited(l)
LimitsInv == Inv /\ \A s \in Streams : Kept(log[s])

LEMMA NewStreamKept ==
    ASSUME NEW b \in BOOLEAN
    PROVE  Kept(NewStream(b))
<1> DEFINE l == NewStream(b)
<1>1. /\ l.msgs = [q \in Seqs |-> NoMsg] /\ l.stored = {} /\ l.bytes = 0
      /\ \A x : OfSubject(l, x) = {}
  BY DEF NewStream, OfSubject
<1>2. NoMsg \in MsgType
  BY NumbersAssumption DEF NoMsg, MsgType
<1>3. l \in StreamType
  <2>1. /\ [q \in Seqs |-> NoMsg] \in [Seqs -> MsgType]
        /\ [i \in MsgIDs |-> 0] \in [MsgIDs -> 0 .. MaxSeq]
        /\ 0 \in 0 .. MaxSeq /\ {} \in SUBSET Seqs
    BY <1>2, NumbersAssumption
  <2> QED
    BY <2>1 DEF NewStream, StreamType
<1> HIDE DEF l
<1>4. SizeOf(l, {}) = 0 /\ Cardinality({}) = 0
  BY <1>3, TypeFields, SizeOfNone, FS_EmptySet
<1>5. Limited(l)
  BY <1>1, <1>4, NumbersAssumption DEF Limited
<1> QED
  BY <1>1, <1>3, <1>4, <1>5 DEF Kept, Counted, Exact, l

LEMMA OneStreamKept ==
    ASSUME LimitsInv, Inv', NEW s \in Streams, NEW d, Kept(d),
           log' = [log EXCEPT ![s] = d]
    PROVE  LimitsInv'
<1>1. \A x \in Streams : log'[x] = IF x = s THEN d ELSE log[x]
  BY DEF LimitsInv, Inv
<1> QED
  BY <1>1 DEF LimitsInv

LEMMA RetainKept ==
    ASSUME NEW l, Kept(l), NEW S, S \subseteq l.stored
    PROVE  Kept(Retain(l, S))
  BY RetainCounts, RetainShrinks, ShrunkLimited DEF Kept

LEMMA BatchKept ==
    ASSUME LimitsInv, NEW r1 \in Requests, NEW r2 \in Requests,
           NEW s1 \in Streams, NEW s2 \in Streams, Room(s1), Room(s2),
           PublishBatch(s1, r1, s2, r2)
    PROVE  \A s \in Streams : Kept(log'[s])
<1> DEFINE first == [log EXCEPT ![s1] = Append(@, r1)]
           both == [first EXCEPT ![s2] = Append(@, r2)]
<1>1. /\ now \in 0 .. MaxTime /\ log[s1].lastSeq + 1 < MaxSeq
      /\ log[s2].lastSeq + 1 < MaxSeq
      /\ log' = [s \in Streams |-> IF s \in {s1, s2} THEN Trim(both[s]) ELSE both[s]]
      /\ \A s \in Streams : StreamInv(log[s], now) /\ log[s].lastSeq \in Nat
      /\ \A s \in Streams : Kept(log[s])
  BY NumbersAssumption DEF PublishBatch, Room, LimitsInv, Inv, StreamInv, Shape
<1>2. \A s \in Streams : first[s] = IF s = s1 THEN Append(log[s1], r1) ELSE log[s]
  BY <1>1 DEF LimitsInv, Inv
<1>3. \A s \in Streams : both[s] = IF s = s2 THEN Append(first[s2], r2) ELSE first[s]
  BY <1>1 DEF LimitsInv, Inv
<1> HIDE DEF first, both
<1>4. /\ StreamInv(Append(log[s1], r1), now) /\ Counted(Append(log[s1], r1))
      /\ Append(log[s1], r1).lastSeq \in {log[s1].lastSeq, log[s1].lastSeq + 1}
  <2>1. log[s1].lastSeq < MaxSeq
    BY <1>1, NumbersAssumption
  <2> QED
    BY <1>1, <2>1, AppendKeepsInv, AppendCounts DEF Kept
<1>5. first[s2].lastSeq < MaxSeq /\ StreamInv(first[s2], now) /\ Counted(first[s2])
  <2>1. first[s2].lastSeq \in {log[s2].lastSeq, log[s2].lastSeq + 1}
    BY <1>1, <1>2, <1>4
  <2> QED
    BY <1>1, <1>2, <1>4, <2>1, NumbersAssumption DEF Kept
<1>6. Counted(Append(first[s2], r2))
  BY <1>1, <1>5, AppendCounts
<1>7. \A s \in Streams : Counted(both[s])
  BY <1>1, <1>2, <1>3, <1>4, <1>6 DEF Kept
<1>8. \A s \in Streams : s \notin {s1, s2} => both[s] = log[s]
  BY <1>2, <1>3
<1> QED
  BY <1>1, <1>7, <1>8, TrimLimits DEF Kept

LEMMA LimitsStep ==
    ASSUME LimitsInv, [Next]_vars
    PROVE  LimitsInv'
<1>1. CASE UNCHANGED vars
  BY <1>1 DEF vars, LimitsInv, Inv
<1> SUFFICES ASSUME Next PROVE LimitsInv'
  BY <1>1
<1>2. Inv' /\ \A s \in Streams : Kept(log[s])
  BY NextStep DEF LimitsInv
<1>3. CASE Tick
  BY <1>2, <1>3 DEF Tick, LimitsInv
<1>4. ASSUME NEW s \in Streams, Declare(s) \/ Delete(s) PROVE LimitsInv'
  <2>1. PICK b \in BOOLEAN : log' = [log EXCEPT ![s] = NewStream(b)]
    BY <1>4 DEF Declare, Delete
  <2> QED
    BY <1>2, <2>1, NewStreamKept, OneStreamKept
<1>5. ASSUME NEW s \in Streams, PurgeAll(s) PROVE LimitsInv'
  <2> DEFINE d == [[log[s] EXCEPT !.stored = {}] EXCEPT !.bytes = 0]
  <2>1. log' = [log EXCEPT ![s] = d]
    BY <1>5 DEF PurgeAll, LimitsInv, Inv
  <2>2. Shrunk(log[s], d) /\ Counted(log[s]) /\ Limited(log[s])
    BY <1>2 DEF Shrunk, Kept
  <2>3. d \in StreamType /\ d.msgs \in [Seqs -> MsgType]
    BY <2>2 DEF Counted, StreamType
  <2>4. d.stored = {} /\ d.bytes = 0
    BY <2>2 DEF Counted, StreamType
  <2> HIDE DEF d
  <2>5. Counted(d)
    BY <2>3, <2>4, SizeOfNone DEF Counted, Exact
  <2>6. Kept(d)
    BY <2>2, <2>5, ShrunkLimited DEF Kept
  <2> QED
    BY <1>2, <2>1, <2>6, OneStreamKept
<1>6. ASSUME NEW s \in Streams, log' = [log EXCEPT ![s] = Expire(log[s])]
      PROVE  LimitsInv'
  <2>1. Kept(Expire(log[s]))
    BY <1>2, RetainKept DEF Expire
  <2> QED
    BY <1>2, <1>6, <2>1, OneStreamKept
<1>7. ASSUME NEW s \in Streams, NEW S \in SUBSET Subjects, Purge(s, S)
      PROVE  LimitsInv'
  <2> DEFINE K == {q \in log[s].stored : log[s].msgs[q].subject \notin S}
  <2>1. log' = [log EXCEPT ![s] = Retain(log[s], K)]
    BY <1>7 DEF Purge
  <2>2. Kept(Retain(log[s], K))
    BY <1>2, RetainKept
  <2> HIDE DEF K
  <2> QED
    BY <1>2, <2>1, <2>2, OneStreamKept
<1>8. ASSUME NEW r \in Requests, NEW s \in Routes(r), Publish(s, r)
      PROVE  LimitsInv'
  <2>1. /\ s \in Streams /\ log[s].lastSeq < MaxSeq /\ now \in 0 .. MaxTime
        /\ log' = [log EXCEPT ![s] = Trim(Append(log[s], r))]
        /\ StreamInv(log[s], now)
    BY <1>8 DEF Publish, Routes, LimitsInv, Inv
  <2>2. Kept(Trim(Append(log[s], r)))
    BY <1>2, <2>1, AppendCounts, TrimLimits DEF Kept
  <2> QED
    BY <1>2, <2>1, <2>2, OneStreamKept
<1>9. ASSUME NEW r \in Requests, NEW s \in Routes(r), PublishConflict(s, r)
      PROVE  LimitsInv'
  BY <1>6, <1>9 DEF PublishConflict, Routes
<1>10. ASSUME NEW s \in Streams, Read(s) PROVE LimitsInv'
  BY <1>6, <1>10 DEF Read
<1>11. ASSUME NEW r1 \in Requests, NEW r2 \in Requests, NEW s1 \in Streams,
              NEW s2 \in Streams, Room(s1), Room(s2), PublishBatch(s1, r1, s2, r2)
       PROVE  LimitsInv'
  BY <1>2, <1>11, BatchKept DEF LimitsInv
<1> QED
  BY <1>3, <1>4, <1>5, <1>7, <1>8, <1>9, <1>10, <1>11 DEF Next

LEMMA LimitsInvariance == Spec => []LimitsInv
<1>1. Init => LimitsInv
  <2>1. ASSUME Init, NEW s \in Streams PROVE log[s] = NewStream(FALSE)
    BY <2>1 DEF Init
  <2> QED
    BY <2>1, InitInv, NewStreamKept DEF LimitsInv
<1> QED
  BY <1>1, LimitsStep, PTL DEF Spec

(* The byte count that trim decides by is exact whichever of the six       *)
(* places last changed it, and no limit of the declaration is exceeded     *)
(* when the lock is released, for every limit and every size.              *)
THEOREM StreamsStayWithinLimits == Spec => []WithinLimits
<1>1. ASSUME LimitsInv PROVE WithinLimits
  <2>1. /\ now \in 0 .. MaxTime /\ log = [s \in Streams |-> log[s]]
        /\ \A s \in Streams : /\ log[s] \in StreamType /\ Exact(log[s])
                               /\ Limited(log[s]) /\ Shape(log[s])
    BY <1>1 DEF LimitsInv, Inv, StreamInv, Kept, Counted
  <2>2. log \in [Streams -> StreamType]
    BY <2>1
  <2>3. TypeOK
    BY <2>1, <2>2 DEF TypeOK, Shape
  <2>4. BytesExact
    BY <2>1 DEF BytesExact, Exact
  <2>5. LimitsHold
    BY <2>1 DEF LimitsHold, Limited, OfSubject
  <2> QED
    BY <2>3, <2>4, <2>5 DEF WithinLimits
<1> QED
  BY <1>1, LimitsInvariance, PTL

----------------------------------------------------------------------------
(* d keeps every message of l that is newer than one it keeps, of the same *)
(* subject.                                                                *)
KeepsNewer(l, d) ==
    /\ Shrunk(l, d)
    /\ \A q, r \in l.stored :
          q < r /\ l.msgs[q].subject = l.msgs[r].subject /\ q \in d.stored
          => r \in d.stored

(* d has every message of l, and every new one, that has not expired.      *)
KeepsFresh(l, d) ==
    /\ \A q \in 1 .. l.lastSeq : d.msgs[q] = l.msgs[q]
    /\ \A q \in l.stored \cup l.lastSeq + 1 .. d.lastSeq :
          ~ Expired(d.msgs[q]) => q \in d.stored

LEMMA RetainKeepsNewer ==
    ASSUME NEW l, NEW S, S \subseteq l.stored,
           \A q \in S, r \in l.stored :
              q < r /\ l.msgs[q].subject = l.msgs[r].subject => r \in S
    PROVE  KeepsNewer(l, Retain(l, S))
<1>1. Shrunk(l, Retain(l, S)) /\ Retain(l, S).stored = S
  BY RetainShrinks DEF Retain
<1> QED
  BY <1>1 DEF KeepsNewer

LEMMA NewerReflexive ==
    ASSUME NEW l
    PROVE  KeepsNewer(l, l)
  BY DEF KeepsNewer, Shrunk

LEMMA NewerTransitive ==
    ASSUME NEW l, NEW d, NEW e, KeepsNewer(l, d), KeepsNewer(d, e)
    PROVE  KeepsNewer(l, e)
<1>1. Shrunk(l, e) /\ d.msgs = l.msgs /\ e.stored \subseteq d.stored
  BY ShrunkTransitive DEF KeepsNewer, Shrunk
<1> QED
  BY <1>1 DEF KeepsNewer

LEMMA TrimSubjectsNewer ==
    ASSUME NEW l, Counted(l)
    PROVE  KeepsNewer(l, TrimSubjects(l))
<1>1. l.stored \subseteq Seqs /\ Seqs \subseteq Nat
  BY TypeFields, NumbersAssumption DEF Counted, Seqs
<1>2. ASSUME NEW q \in PerSubjectKept(l), NEW r \in l.stored, q < r,
             l.msgs[q].subject = l.msgs[r].subject
      PROVE  r \in PerSubjectKept(l)
  <2> DEFINE Q == {x \in Since(l, q) : l.msgs[x].subject = l.msgs[q].subject}
             R == {x \in Since(l, r) : l.msgs[x].subject = l.msgs[r].subject}
  <2>1. q \in Nat /\ r \in Nat /\ Cardinality(Q) <= MaxMsgsPerSubject
    BY <1>1 DEF PerSubjectKept
  <2>2. Q \subseteq Seqs /\ R \subseteq Q
    <3>1. ASSUME NEW x \in l.stored, x >= r PROVE x >= q
      <4>1. x \in Nat
        BY <1>1
      <4> QED
        BY <1>2, <2>1, <3>1, <4>1
    <3> QED
      BY <1>1, <1>2, <3>1 DEF Since
  <2> HIDE DEF Q, R
  <2>3. /\ Cardinality(R) <= Cardinality(Q)
        /\ Cardinality(R) \in Nat /\ Cardinality(Q) \in Nat
    BY <2>2, SeqsFinite
  <2>4. Cardinality(R) <= MaxMsgsPerSubject
    BY <2>1, <2>3, NumbersAssumption
  <2> QED
    BY <2>4 DEF PerSubjectKept, R
<1>3. PerSubjectKept(l) \subseteq l.stored
  BY DEF PerSubjectKept
<1>4. KeepsNewer(l, Retain(l, PerSubjectKept(l)))
  BY <1>2, <1>3, RetainKeepsNewer
<1> QED
  BY <1>4, NewerReflexive DEF TrimSubjects

LEMMA TrimCountNewer ==
    ASSUME NEW l, Counted(l)
    PROVE  KeepsNewer(l, TrimCount(l))
<1> DEFINE K == {q \in l.stored : Cardinality(Since(l, q)) <= MaxMsgs}
<1>1. l.stored \subseteq Seqs /\ Seqs \subseteq Nat
  BY TypeFields, NumbersAssumption DEF Counted, Seqs
<1>2. ASSUME NEW q \in K, NEW r \in l.stored, q < r
      PROVE  r \in K
  <2>1. q \in Nat /\ r \in Nat /\ Cardinality(Since(l, q)) <= MaxMsgs
    BY <1>1
  <2>2. Since(l, q) \subseteq Seqs /\ Since(l, r) \subseteq Since(l, q)
    <3>1. ASSUME NEW x \in l.stored, x >= r PROVE x >= q
      <4>1. x \in Nat
        BY <1>1
      <4> QED
        BY <1>2, <2>1, <3>1, <4>1
    <3> QED
      BY <1>1, <3>1 DEF Since
  <2>3. /\ Cardinality(Since(l, r)) <= Cardinality(Since(l, q))
        /\ Cardinality(Since(l, r)) \in Nat /\ Cardinality(Since(l, q)) \in Nat
    BY <2>2, SeqsFinite
  <2>4. Cardinality(Since(l, r)) <= MaxMsgs
    BY <2>1, <2>3, NumbersAssumption
  <2> QED
    BY <2>4
<1>3. K \subseteq l.stored /\ TrimCount(l) = IF MaxMsgs > 0 THEN Retain(l, K) ELSE l
  BY DEF TrimCount
<1> HIDE DEF K
<1>4. KeepsNewer(l, Retain(l, K))
  BY <1>2, <1>3, RetainKeepsNewer
<1> QED
  BY <1>3, <1>4, NewerReflexive

LEMMA TrimBytesNewer ==
    ASSUME NEW l, Counted(l)
    PROVE  KeepsNewer(l, TrimBytes(l))
<1> DEFINE Before(q) == {r \in l.stored : r < q}
           K == {q \in l.stored : l.bytes - SizeOf(l, Before(q)) <= MaxBytes}
<1>1. /\ l.stored \subseteq Seqs /\ Seqs \subseteq Nat
      /\ l.msgs \in [Seqs -> MsgType] /\ l.bytes \in Nat
  BY TypeFields, NumbersAssumption DEF Counted, Seqs
<1>2. ASSUME NEW q \in K, NEW r \in l.stored, q < r
      PROVE  r \in K
  <2>1. q \in Nat /\ r \in Nat /\ l.bytes - SizeOf(l, Before(q)) <= MaxBytes
    BY <1>1
  <2>2. Before(q) \subseteq Before(r)
    <3>1. ASSUME NEW x \in l.stored, x < q PROVE x < r
      <4>1. x \in Nat
        BY <1>1
      <4> QED
        BY <1>2, <2>1, <3>1, <4>1
    <3> QED
      BY <3>1
  <2>3. /\ SizeOf(l, Before(q)) <= SizeOf(l, Before(r))
        /\ SizeOf(l, Before(q)) \in Nat /\ SizeOf(l, Before(r)) \in Nat
    <3> HIDE DEF Before
    <3> QED
      BY <1>1, <2>2, SizeGrows
  <2>4. l.bytes - SizeOf(l, Before(r)) <= MaxBytes
    <3> HIDE DEF Before
    <3> QED
      BY <1>1, <2>1, <2>3, NumbersAssumption
  <2> QED
    BY <2>4
<1>3. K \subseteq l.stored /\ TrimBytes(l) = IF MaxBytes > 0 THEN Retain(l, K) ELSE l
  BY DEF TrimBytes
<1> HIDE DEF K
<1>4. KeepsNewer(l, Retain(l, K))
  BY <1>2, <1>3, RetainKeepsNewer
<1> QED
  BY <1>3, <1>4, NewerReflexive

LEMMA TrimNewer ==
    ASSUME NEW l, Counted(l)
    PROVE  KeepsNewer(l, Trim(l))
<1> DEFINE a == TrimSubjects(l)
           b == TrimCount(a)
<1>1. Counted(a) /\ KeepsNewer(l, a)
  BY RetainCounts, TrimSubjectsNewer DEF TrimSubjects, PerSubjectKept
<1>2. Counted(b) /\ KeepsNewer(a, b)
  <2> HIDE DEF a
  <2> QED
    BY <1>1, RetainCounts, TrimCountNewer DEF TrimCount
<1>3. Trim(l) = TrimBytes(b)
  BY DEF Trim
<1> HIDE DEF a, b
<1> QED
  BY <1>1, <1>2, <1>3, TrimBytesNewer, NewerTransitive

LEMMA AppendFresh ==
    ASSUME NEW l, StreamInv(l, now), NEW r \in Requests, now \in 0 .. MaxTime,
           l.lastSeq < MaxSeq
    PROVE  KeepsFresh(l, Append(l, r))
<1> DEFINE e == Expire(l)
           n == l.lastSeq + 1
<1>1. /\ e.msgs = l.msgs /\ e.lastSeq = l.lastSeq
      /\ e.stored = {q \in l.stored : ~ Expired(l.msgs[q])}
  BY DEF Expire, Retain
<1>2. /\ l.lastSeq \in Nat /\ n \in Seqs /\ n \notin 1 .. l.lastSeq
      /\ l.lastSeq + 1 .. l.lastSeq = {} /\ l.lastSeq + 1 .. n = {n}
      /\ l.msgs \in [Seqs -> MsgType] /\ 1 .. l.lastSeq \subseteq Seqs
      /\ l.stored \subseteq 1 .. l.lastSeq
  BY NumbersAssumption DEF StreamInv, Shape, Seqs
<1>3. Store(e, r).msgs = [l.msgs EXCEPT ![n] = Stamp(r)]
      /\ Store(e, r).stored = e.stored \cup {n} /\ Store(e, r).lastSeq = n
  BY <1>1 DEF Store, NextSeq
<1> HIDE DEF e, n
<1>4. KeepsFresh(l, e)
  BY <1>1, <1>2 DEF KeepsFresh
<1>5. KeepsFresh(l, Store(e, r))
  <2>1. \A q \in 1 .. l.lastSeq : Store(e, r).msgs[q] = l.msgs[q]
    BY <1>2, <1>3
  <2> QED
    BY <1>1, <1>2, <1>3, <2>1 DEF KeepsFresh
<1> QED
  BY <1>4, <1>5 DEF Append, e

LEMMA FreshTransitive ==
    ASSUME NEW l, NEW d, NEW e, Shape(l), Shape(d), Shape(e), Extends(l, d),
           Extends(d, e), KeepsFresh(l, d), KeepsFresh(d, e)
    PROVE  KeepsFresh(l, e)
<1>1. /\ l.lastSeq \in Nat /\ d.lastSeq \in Nat /\ e.lastSeq \in Nat
      /\ l.lastSeq <= d.lastSeq /\ d.lastSeq <= e.lastSeq
      /\ l.stored \subseteq 1 .. l.lastSeq
  BY NumbersAssumption DEF Shape, Extends
<1>2. 1 .. l.lastSeq \subseteq 1 .. d.lastSeq
      /\ l.lastSeq + 1 .. d.lastSeq \subseteq 1 .. d.lastSeq
  BY <1>1
<1>3. \A q : q \in l.lastSeq + 1 .. e.lastSeq
              => q \in l.lastSeq + 1 .. d.lastSeq \/ q \in d.lastSeq + 1 .. e.lastSeq
  BY <1>1
<1> QED
  BY <1>1, <1>2, <1>3 DEF KeepsFresh

(* What a publish leaves of a stream.                                      *)
LEMMA TrimmedOldestFirst ==
    ASSUME NEW l, NEW b, Shape(l), Counted(b), KeepsFresh(l, b),
           NEW q \in l.stored, NEW r \in l.stored \cup l.lastSeq + 1 .. Trim(b).lastSeq,
           q < r, l.msgs[q].subject = Trim(b).msgs[r].subject,
           ~ Expired(Trim(b).msgs[r]), q \in Trim(b).stored
    PROVE  r \in Trim(b).stored
<1>1. /\ KeepsNewer(b, Trim(b)) /\ Trim(b).msgs = b.msgs
      /\ Trim(b).lastSeq = b.lastSeq /\ q \in b.stored
  BY TrimNewer DEF KeepsNewer, Shrunk
<1>2. b.msgs[q] = l.msgs[q] /\ r \in b.stored
  BY <1>1 DEF KeepsFresh, Shape
<1> QED
  BY <1>1, <1>2 DEF KeepsNewer

(* A step that assigns sequences in s is a publish or a batch.             *)
Trimmed(l, d) == \E b : Counted(b) /\ KeepsFresh(l, b) /\ d = Trim(b)

LEMMA TakenIsTrimmed ==
    ASSUME LimitsInv, Next, NEW s \in Streams, Taken(s) # {}
    PROVE  Trimmed(log[s], log'[s])
<1>0. /\ log[s].lastSeq \in Nat /\ \A n \in Nat : n <= log[s].lastSeq
                                             => log[s].lastSeq + 1 .. n = {}
      /\ log = [x \in Streams |-> log[x]] /\ now \in 0 .. MaxTime
      /\ \A x \in Streams : StreamInv(log[x], now) /\ Counted(log[x])
                             /\ log[x].lastSeq \in Nat
  BY NumbersAssumption DEF LimitsInv, Inv, StreamInv, Shape, Kept
<1>1. ASSUME log'[s].lastSeq \in {0, log[s].lastSeq} PROVE FALSE
  BY <1>0, <1>1 DEF Taken
<1>2. ASSUME NEW x \in Streams, NEW d, log' = [log EXCEPT ![x] = d],
             d.lastSeq \in {0, log[x].lastSeq}
      PROVE  FALSE
  <2>1. log'[s] = IF s = x THEN d ELSE log[s]
    BY <1>0, <1>2
  <2> QED
    BY <1>1, <1>2, <2>1
<1>3. ASSUME Tick PROVE FALSE
  BY <1>1, <1>3 DEF Tick
<1>4. ASSUME NEW x \in Streams, Declare(x) \/ Delete(x) PROVE FALSE
  BY <1>2, <1>4 DEF Declare, Delete, NewStream
<1>5. ASSUME NEW x \in Streams, PurgeAll(x) PROVE FALSE
  <2> DEFINE d == [[log[x] EXCEPT !.stored = {}] EXCEPT !.bytes = 0]
  <2>1. log' = [log EXCEPT ![x] = d]
    BY <1>5 DEF PurgeAll, LimitsInv, Inv
  <2>2. d.lastSeq = log[x].lastSeq
    OBVIOUS
  <2> QED
    BY <1>2, <2>1, <2>2
<1>6. ASSUME NEW x \in Streams, NEW S, log' = [log EXCEPT ![x] = Retain(log[x], S)]
      PROVE  FALSE
  BY <1>2, <1>6 DEF Retain
<1>7. ASSUME NEW x \in Streams, Read(x) PROVE FALSE
  BY <1>6, <1>7 DEF Read, Expire
<1>8. ASSUME NEW x \in Streams, NEW S \in SUBSET Subjects, Purge(x, S) PROVE FALSE
  BY <1>6, <1>8 DEF Purge
<1>9. ASSUME NEW r \in Requests, NEW x \in Routes(r), PublishConflict(x, r)
      PROVE  FALSE
  BY <1>6, <1>9 DEF PublishConflict, Expire, Routes
<1>10. ASSUME NEW r \in Requests, NEW x \in Routes(r), Publish(x, r)
       PROVE  Trimmed(log[s], log'[s])
  <2>1. /\ x \in Streams /\ log[x].lastSeq < MaxSeq
        /\ log' = [log EXCEPT ![x] = Trim(Append(log[x], r))]
    BY <1>10 DEF Publish, Routes
  <2>2. s = x
    BY <1>0, <1>1, <2>1
  <2>3. Counted(Append(log[s], r)) /\ KeepsFresh(log[s], Append(log[s], r))
    BY <1>0, <2>1, <2>2, AppendCounts, AppendFresh
  <2>4. log'[s] = Trim(Append(log[s], r))
    BY <1>0, <2>1, <2>2
  <2> QED
    BY <2>3, <2>4 DEF Trimmed
<1>11. ASSUME NEW r1 \in Requests, NEW r2 \in Requests, NEW s1 \in Streams,
              NEW s2 \in Streams, Room(s1), Room(s2), PublishBatch(s1, r1, s2, r2)
       PROVE  Trimmed(log[s], log'[s])
  <2> DEFINE first == [log EXCEPT ![s1] = Append(@, r1)]
             both == [first EXCEPT ![s2] = Append(@, r2)]
  <2>1. /\ log[s1].lastSeq + 1 < MaxSeq /\ log[s2].lastSeq + 1 < MaxSeq
        /\ log' = [x \in Streams |-> IF x \in {s1, s2} THEN Trim(both[x]) ELSE both[x]]
    BY <1>11 DEF PublishBatch, Room
  <2>2. \A x \in Streams : first[x] = IF x = s1 THEN Append(log[s1], r1) ELSE log[x]
    BY <1>0
  <2>3. \A x \in Streams : both[x] = IF x = s2 THEN Append(first[s2], r2) ELSE first[x]
    BY <1>0
  <2> HIDE DEF first, both
  <2>4. s \in {s1, s2}
    <3>1. CASE s \notin {s1, s2}
      BY <1>1, <2>1, <2>2, <2>3, <3>1
    <3> QED
      BY <3>1
  <2> DEFINE f == first[s]
             b == both[s]
  <2>5. /\ StreamInv(f, now) /\ Counted(f) /\ KeepsFresh(log[s], f)
        /\ Extends(log[s], f) /\ f.lastSeq \in {log[s].lastSeq, log[s].lastSeq + 1}
        \/ s # s1
    <3>1. log[s1].lastSeq < MaxSeq
      BY <1>0, <2>1, NumbersAssumption
    <3> QED
      BY <1>0, <2>2, <3>1, AppendKeepsInv, AppendCounts, AppendFresh
  <2>6. CASE s = s2
    <3>1. /\ f.lastSeq < MaxSeq /\ StreamInv(f, now) /\ Counted(f)
      <4>1. f.lastSeq \in {log[s].lastSeq, log[s].lastSeq + 1}
        BY <2>2, <2>5
      <4>2. f.lastSeq < MaxSeq
        BY <1>0, <2>1, <2>6, <4>1, NumbersAssumption
      <4> QED
        BY <1>0, <2>2, <2>5, <4>2
    <3>2. b = Append(f, r2)
      BY <2>3, <2>6
    <3>3. /\ Counted(b) /\ KeepsFresh(f, b) /\ StreamInv(b, now) /\ Extends(f, b)
      BY <1>0, <3>1, <3>2, AppendKeepsInv, AppendCounts, AppendFresh
    <3>4. KeepsFresh(log[s], b)
      <4>1. CASE s = s1
        BY <1>0, <2>5, <3>3, <4>1, FreshTransitive DEF StreamInv
      <4>2. CASE s # s1
        BY <2>2, <3>3, <4>2
      <4> QED
        BY <4>1, <4>2
    <3>5. log'[s] = Trim(b)
      BY <2>1, <2>4
    <3> HIDE DEF b
    <3> QED
      BY <3>3, <3>4, <3>5 DEF Trimmed
  <2>7. CASE s # s2
    <3>1. b = f /\ log'[s] = Trim(b) /\ s = s1
      BY <2>1, <2>3, <2>4, <2>7
    <3> HIDE DEF b, f
    <3> QED
      BY <2>5, <3>1 DEF Trimmed
  <2> QED
    BY <2>6, <2>7
<1> QED
  BY <1>3, <1>4, <1>5, <1>7, <1>8, <1>9, <1>10, <1>11 DEF Next

(* trim drops the oldest first, for every combination of limits: a publish *)
(* or a batch that drops a message that has not expired, or does not keep  *)
(* its own, drops every older one of its subject too.                      *)
THEOREM LimitsDropOldestFirst == Spec => OldestFirst
<1> DEFINE Ordered == \A s \in Streams : \A q \in log[s].stored,
                                            r \in log[s].stored \cup Taken(s) :
              (/\ Taken(s) # {}
               /\ q < r /\ log[s].msgs[q].subject = log'[s].msgs[r].subject
               /\ ~ Expired(log'[s].msgs[r])
               /\ r \notin log'[s].stored)
              => q \notin log'[s].stored
<1>1. ASSUME LimitsInv, Next PROVE Ordered
  <2> SUFFICES ASSUME NEW s \in Streams, NEW q \in log[s].stored,
                      NEW r \in log[s].stored \cup Taken(s), Taken(s) # {},
                      q < r, log[s].msgs[q].subject = log'[s].msgs[r].subject,
                      ~ Expired(log'[s].msgs[r]), q \in log'[s].stored
               PROVE  r \in log'[s].stored
    OBVIOUS
  <2>1. PICK b : Counted(b) /\ KeepsFresh(log[s], b) /\ log'[s] = Trim(b)
    BY <1>1, TakenIsTrimmed DEF Trimmed
  <2>2. Shape(log[s]) /\ r \in log[s].stored \cup log[s].lastSeq + 1 .. Trim(b).lastSeq
    BY <1>1, <2>1 DEF LimitsInv, Inv, StreamInv, Taken
  <2> QED
    BY <2>1, <2>2, TrimmedOldestFirst
<1>2. LimitsInv /\ [Next]_vars => [Ordered]_vars
  <2> HIDE DEF Ordered
  <2> QED
    BY <1>1
<1> QED
  BY <1>2, LimitsInvariance, PTL DEF OldestFirst, Spec

(* appendLocked stores a message id once per dedupe window, in batches     *)
(* too, and whatever the limits have dropped in the meantime.              *)
THEOREM IdsStoredOnce == Spec => []StoredOnce
<1>1. Inv => StoredOnce
  BY DEF Inv, StreamInv, Once, StoredOnce
<1> QED
  BY <1>1, Invariance, PTL

(* Every step of the store is, for each stream, a step of RetainedLog.     *)
THEOREM StreamsAreRetainedLogs == Spec => ImplementsLog
<1>1. ASSUME Init, NEW s \in Streams PROVE Retained(s)!Empty
  BY <1>1 DEF Init, NewStream, NoMsg, Subject, Retained!Empty, Seqs
<1>2. ASSUME Inv, Inv', NEW s \in Streams, StreamStep(log[s], log'[s])
      PROVE  Retained(s)!Next \/ UNCHANGED Retained(s)!log
  <2> DEFINE l == log[s]
             d == log'[s]
  <2>1. /\ l.lastSeq \in 0 .. MaxSeq /\ l.msgs \in [Seqs -> MsgType]
    BY <1>2 DEF Inv, StreamInv, Shape
  <2>2. CASE \E b \in BOOLEAN : d = NewStream(b)
    <3>1. d.lastSeq = 0 /\ d.stored = {} /\ d.msgs = [q \in Seqs |-> NoMsg]
      BY <2>2 DEF NewStream
    <3>2. Subject(s)' = [q \in 1 .. MaxSeq |-> NoSubject]
      BY <3>1 DEF Subject, NoMsg, Seqs
    <3>3. Retained(s)!Recreate
      BY <3>1, <3>2 DEF Retained!Recreate
    <3> QED
      BY <3>3 DEF Retained!Next
  <2>3. CASE Extends(l, d)
    <3> DEFINE n == d.lastSeq
               pub == [q \in l.lastSeq + 1 .. n |-> d.msgs[q].subject]
    <3>1. /\ l.lastSeq <= n /\ n <= MaxSeq
          /\ \A q \in Seqs : q \notin l.lastSeq + 1 .. n
                               => d.msgs[q].subject = l.msgs[q].subject
          /\ \A q \in l.lastSeq + 1 .. n : d.msgs[q].subject \in Subjects
          /\ d.stored \subseteq l.stored \cup l.lastSeq + 1 .. n
      BY <2>3 DEF Extends
    <3>2. /\ Subject(s) = [q \in 1 .. MaxSeq |-> l.msgs[q].subject]
          /\ Subject(s)' = [q \in 1 .. MaxSeq |-> d.msgs[q].subject]
      BY DEF Subject, Seqs
    <3>3. CASE n = l.lastSeq
      <4>1. l.lastSeq + 1 .. n = {}
        BY <2>1, <3>3, NumbersAssumption
      <4>2. Subject(s)' = Subject(s) /\ d.stored \in SUBSET l.stored
        BY <3>1, <3>2, <4>1 DEF Seqs
      <4>3. Retained(s)!Remove(d.stored)
        BY <3>3, <4>2 DEF Retained!Remove
      <4> QED
        BY <4>2, <4>3 DEF Retained!Next
    <3>4. CASE n # l.lastSeq
      <4>1. n \in l.lastSeq + 1 .. MaxSeq
        <5>1. n \in Int
          BY <1>2 DEF Inv, StreamInv, Shape
        <5> QED
          BY <2>1, <3>1, <3>4, <5>1, NumbersAssumption
      <4>2. pub \in [l.lastSeq + 1 .. n -> Subjects]
        BY <3>1
      <4>3. Subject(s)' = [q \in 1 .. MaxSeq |-> IF q \in l.lastSeq + 1 .. n
                                                THEN pub[q] ELSE Subject(s)[q]]
        BY <3>1, <3>2 DEF Seqs
      <4>4. d.stored \in SUBSET (l.stored \cup l.lastSeq + 1 .. n)
        BY <3>1
      <4>5. Retained(s)!Append(n, pub, d.stored)
        BY <4>3 DEF Retained!Append
      <4> QED
        BY <4>1, <4>2, <4>4, <4>5 DEF Retained!Next
    <3> QED
      BY <3>3, <3>4
  <2> QED
    BY <1>2, <2>2, <2>3 DEF StreamStep
<1>3. Init => \A s \in Streams : Retained(s)!Empty
  BY <1>1
<1>4. Inv /\ [Next]_vars
      => [\A s \in Streams : Retained(s)!Next \/ UNCHANGED Retained(s)!log]_vars
  BY <1>2, NextStep
<1> QED
  BY <1>3, <1>4, Invariance, PTL DEF ImplementsLog, Spec
=============================================================================
