-------------------------- MODULE KeyValue_proofs --------------------------
(***************************************************************************)
(* A bucket is faithful for every set of clients and keys, every filter,   *)
(* history and number of incarnations: no update is lost, and a watcher's  *)
(* stream is in order, mirrors its bucket and ends with it.                *)
(*                                                                         *)
(* The invariant adds to BucketIsFaithful what a step needs of the state   *)
(* before it: every entry is of its key and of a revision its bucket has   *)
(* reached, an entry a client read is the current one if it still has the  *)
(* revision of the current one, and what a watcher holds or has delivered  *)
(* is of a revision reached by its bucket.                                 *)
(***************************************************************************)
EXTENDS KeyValue, SequenceTheorems, WellFoundedInduction, TLAPS

----------------------------------------------------------------------------
(* Induction over the positions of Keys, from the least natural for which  *)
(* a statement fails.                                                      *)
LEMMA LeastNatural ==
    ASSUME NEW T \in SUBSET Nat, T # {}
    PROVE  \E x \in T : \A y \in T : x <= y
<1>1. PICK x \in T : \A y \in T : ~ (<<y, x>> \in OpToRel(<, Nat))
  BY NatLessThanWellFounded, WFMin
<1>2. \A y \in T : ~ (y < x)
  BY <1>1 DEF OpToRel
<1>3. \A y \in T : x <= y
  BY <1>2
<1> QED
  BY <1>3

LEMMA Induction ==
    ASSUME NEW N \in Nat, NEW G, 0 \in G,
           \A n \in 1 .. N : n - 1 \in G => n \in G
    PROVE  \A n \in 0 .. N : n \in G
<1> DEFINE T == {n \in 0 .. N : n \notin G}
<1> SUFFICES ASSUME T # {} PROVE FALSE
  OBVIOUS
<1>1. PICK x \in T : \A y \in T : x <= y
  <2>1. T \in SUBSET Nat
    OBVIOUS
  <2> QED
    BY <2>1, LeastNatural
<1>2. x \in 1 .. N /\ x \notin G
  BY <1>1
<1>3. x - 1 \in 0 .. N /\ ~ (x <= x - 1)
  BY <1>2
<1> QED
  BY <1>1, <1>2, <1>3

----------------------------------------------------------------------------
(* The last that a stream p after deliveries g says of a key.              *)
Places(p, k) == {i \in DOMAIN p : p[i].key = k}
LastOf(p, g, k) ==
    IF Places(p, k) = {} THEN {e \in g : e.key = k}
    ELSE {p[i] : i \in {i \in Places(p, k) : \A j \in Places(p, k) : j <= i}}

LEMMA LastSaidIsLastOf ==
    ASSUME NEW w, NEW k
    PROVE  LastSaid(w, k) = LastOf(Pending(w), w.got, k)
BY DEF LastSaid, LastOf, Places

(* An entry appended is the last of its key, and of no other.              *)
LEMMA LastOfAppend ==
    ASSUME NEW p \in Seq(Entry), NEW e \in Entry, NEW g, NEW k
    PROVE  LastOf(Append(p, e), g, k) = IF e.key = k THEN {e} ELSE LastOf(p, g, k)
<1> DEFINE n == Len(p)
           q == Append(p, e)
<1>1. /\ n \in Nat /\ DOMAIN p = 1 .. n /\ DOMAIN q = 1 .. n + 1
      /\ q[n + 1] = e /\ \A i \in 1 .. n : q[i] = p[i]
  OBVIOUS
<1> HIDE DEF n, q
<1>2. CASE e.key = k
  <2>1. n + 1 \in Places(q, k) /\ Places(q, k) \subseteq 1 .. n + 1
    BY <1>1, <1>2 DEF Places
  <2>2. {i \in Places(q, k) : \A j \in Places(q, k) : j <= i} = {n + 1}
    <3>1. \A i \in Places(q, k) : i \in Nat /\ i <= n + 1
      BY <2>1, <1>1
    <3>2. \A i \in Places(q, k) : n + 1 <= i => i = n + 1
      BY <3>1, <1>1
    <3> QED
      BY <2>1, <3>1, <3>2
  <2> QED
    BY <1>1, <1>2, <2>1, <2>2 DEF LastOf, q
<1>3. CASE e.key # k
  <2>1. Places(q, k) = Places(p, k)
    <3>1. \A i \in 1 .. n + 1 : i = n + 1 \/ i \in 1 .. n
      BY <1>1
    <3> QED
      BY <1>1, <1>3, <3>1 DEF Places
  <2>2. \A i \in Places(p, k) : q[i] = p[i]
    BY <1>1 DEF Places
  <2> QED
    BY <1>3, <2>1, <2>2 DEF LastOf, q
<1> QED
  BY <1>2, <1>3

(* Delivering the first entry of the stream changes the last of no key.    *)
LEMMA LastOfDelivered ==
    ASSUME NEW q \in Seq(Entry), NEW h \in Entry, NEW g, NEW k
    PROVE  LastOf(q, {x \in g : x.key # h.key} \cup {h}, k) = LastOf(<<h>> \o q, g, k)
<1> DEFINE n == Len(q)
           p == <<h>> \o q
           d == {x \in g : x.key # h.key} \cup {h}
<1>1. /\ n \in Nat /\ DOMAIN q = 1 .. n /\ DOMAIN p = 1 .. n + 1
      /\ p[1] = h /\ \A i \in 1 .. n : p[i + 1] = q[i]
  OBVIOUS
<1> HIDE DEF n, p
<1>2. \A i \in 1 .. n : i \in Places(q, k) <=> i + 1 \in Places(p, k)
  BY <1>1 DEF Places
<1>3. Places(q, k) \subseteq 1 .. n /\ Places(p, k) \subseteq 1 .. n + 1
  BY <1>1 DEF Places
<1>4. \A i \in Places(p, k) : i = 1 \/ (i - 1 \in Places(q, k) /\ (i - 1) + 1 = i)
  <2>1. \A i \in 1 .. n + 1 : i = 1 \/ (i - 1 \in 1 .. n /\ (i - 1) + 1 = i)
    BY <1>1
  <2> QED
    BY <1>2, <1>3, <2>1
<1>5. CASE Places(q, k) = {}
  <2>1. CASE h.key = k
    <3>1. Places(p, k) = {1}
      BY <1>1, <1>4, <1>5, <2>1 DEF Places
    <3>2. LastOf(p, g, k) = {h}
      <4>1. {i \in Places(p, k) : \A j \in Places(p, k) : j <= i} = {1}
        BY <3>1
      <4> QED
        BY <1>1, <3>1, <4>1 DEF LastOf
    <3>3. LastOf(q, d, k) = {h}
      BY <1>5, <2>1 DEF LastOf
    <3> QED
      BY <3>2, <3>3 DEF p
  <2>2. CASE h.key # k
    <3>1. Places(p, k) = {}
      BY <1>1, <1>4, <1>5, <2>2 DEF Places
    <3>2. LastOf(q, d, k) = {x \in g : x.key = k}
      BY <1>5, <2>2 DEF LastOf
    <3> QED
      BY <3>1, <3>2 DEF LastOf, p
  <2> QED
    BY <2>1, <2>2
<1>6. CASE Places(q, k) # {}
  <2> DEFINE A == {i \in Places(q, k) : \A j \in Places(q, k) : j <= i}
             B == {i \in Places(p, k) : \A j \in Places(p, k) : j <= i}
  <2>1. \A i \in A : i \in 1 .. n /\ i + 1 \in B
    <3> SUFFICES ASSUME NEW i \in A PROVE i \in 1 .. n /\ i + 1 \in B
      OBVIOUS
    <3>1. i \in 1 .. n /\ i + 1 \in Places(p, k)
      BY <1>2, <1>3
    <3>2. ASSUME NEW j \in Places(p, k) PROVE j <= i + 1
      <4>1. j = 1 \/ (j - 1 \in Places(q, k) /\ (j - 1) + 1 = j)
        BY <1>4
      <4>2. CASE j = 1
        BY <3>1, <4>2, <1>1
      <4>3. CASE j - 1 \in Places(q, k)
        <5>1. j - 1 <= i
          BY <4>3
        <5>2. j \in Nat /\ i \in Nat
          BY <1>1, <1>3, <3>1
        <5> QED
          BY <5>1, <5>2
      <4> QED
        BY <4>1, <4>2, <4>3
    <3> QED
      BY <3>1, <3>2
  <2>2. \A i \in B : i - 1 \in A /\ (i - 1) + 1 = i
    <3> SUFFICES ASSUME NEW i \in B PROVE i - 1 \in A /\ (i - 1) + 1 = i
      OBVIOUS
    <3>1. i \in Nat /\ \A j \in Places(q, k) : j \in Nat /\ j > 0 /\ j + 1 \in Places(p, k)
      BY <1>1, <1>2, <1>3
    <3>2. \A j \in Places(q, k) : j + 1 <= i
      BY <3>1
    <3>3. i # 1
      <4>1. PICK j \in Places(q, k) : TRUE
        BY <1>6
      <4>2. j \in Nat /\ j > 0 /\ j + 1 <= i
        BY <3>1, <3>2
      <4> QED
        BY <4>2, <3>1
    <3>4. i - 1 \in Places(q, k) /\ (i - 1) + 1 = i
      BY <1>4, <3>3
    <3>5. \A j \in Places(q, k) : j <= i - 1
      BY <3>1, <3>2
    <3> QED
      BY <3>4, <3>5
  <2> HIDE DEF A, B
  <2>3. {q[i] : i \in A} = {p[i] : i \in B}
    <3>1. \A i \in A : q[i] = p[i + 1] /\ i + 1 \in B
      BY <1>1, <2>1
    <3>2. \A i \in B : i - 1 \in A /\ p[i] = q[i - 1]
      BY <2>2, <3>1
    <3> QED
      BY <3>1, <3>2
  <2>4. Places(p, k) # {}
    BY <1>2, <1>3, <1>6
  <2> QED
    BY <1>6, <2>3, <2>4 DEF LastOf, A, B, p
<1> QED
  BY <1>5, <1>6

(* Where keys do not repeat, the entry of a key is the last of it.         *)
LEMMA LastOfDistinct ==
    ASSUME NEW p \in Seq(Entry), \A i, j \in DOMAIN p : p[i].key = p[j].key => i = j, NEW k
    PROVE  /\ \A i \in DOMAIN p : p[i].key = k => LastOf(p, {}, k) = {p[i]}
           /\ (\A i \in DOMAIN p : p[i].key # k) => LastOf(p, {}, k) = {}
<1>1. ASSUME NEW i \in DOMAIN p, p[i].key = k PROVE LastOf(p, {}, k) = {p[i]}
  <2>1. Places(p, k) = {i}
    BY <1>1 DEF Places
  <2>2. i <= i
    <3>1. i \in 1 .. Len(p) /\ Len(p) \in Nat
      OBVIOUS
    <3> QED
      BY <3>1
  <2>3. {x \in Places(p, k) : \A j \in Places(p, k) : j <= x} = {i}
    BY <2>1, <2>2
  <2> QED
    BY <2>1, <2>3 DEF LastOf
<1>2. ASSUME \A i \in DOMAIN p : p[i].key # k PROVE LastOf(p, {}, k) = {}
  BY <1>2 DEF LastOf, Places
<1> QED
  BY <1>1, <1>2

----------------------------------------------------------------------------
(* What Watch queues: the live entries that match, each once.              *)
Good(b, i) == Keys[i] \in Filter /\ Live(b, Keys[i])
Ups(n, b, g) ==
    g = [i \in 0 .. n |->
           IF i = 0 THEN <<>>
           ELSE IF Good(b, i) THEN Append(g[i - 1], Current(b, Keys[i])) ELSE g[i - 1]]

LEMMA KeysAreFinite ==
    Len(Keys) \in Nat /\ DOMAIN Keys = 1 .. Len(Keys) /\ KeySet = {Keys[i] : i \in 1 .. Len(Keys)}
BY KeysAssumption DEF KeySet, Range

LEMMA UpsExist ==
    ASSUME NEW b
    PROVE  \E g : Ups(Len(Keys), b, g)
<1> DEFINE N == Len(Keys)
           G == {n \in 0 .. N : \E g : Ups(n, b, g)}
<1>0. N \in Nat
  BY KeysAreFinite
<1> HIDE DEF N
<1>1. 0 \in G
  <2>1. Ups(0, b, [i \in 0 .. 0 |-> <<>>])
    BY DEF Ups
  <2> QED
    BY <1>0, <2>1
<1>2. ASSUME NEW n \in 1 .. N, n - 1 \in G PROVE n \in G
  <2>1. PICK g : Ups(n - 1, b, g)
    BY <1>2
  <2> DEFINE x == IF Good(b, n) THEN Append(g[n - 1], Current(b, Keys[n])) ELSE g[n - 1]
             h == [i \in 0 .. n |-> IF i = n THEN x ELSE g[i]]
  <2> HIDE DEF x
  <2>2. n \in Nat /\ n # 0 /\ \A i \in 0 .. n - 1 : h[i] = g[i] /\ i \in 0 .. n
    BY <1>0
  <2>3. ASSUME NEW i \in 0 .. n
        PROVE  h[i] = IF i = 0 THEN <<>>
                      ELSE IF Good(b, i) THEN Append(h[i - 1], Current(b, Keys[i])) ELSE h[i - 1]
    <3>1. CASE i = n
      <4>1. h[n] = x /\ n # 0 /\ h[n - 1] = g[n - 1]
        BY <2>2
      <4> QED
        BY <3>1, <4>1 DEF x
    <3>2. CASE i \in 0 .. n - 1
      <4>1. i = 0 \/ i - 1 \in 0 .. n - 1
        BY <2>2, <3>2
      <4>2. g[i] = IF i = 0 THEN <<>>
                   ELSE IF Good(b, i) THEN Append(g[i - 1], Current(b, Keys[i])) ELSE g[i - 1]
        BY <2>1, <3>2 DEF Ups
      <4> QED
        BY <2>2, <3>2, <4>1, <4>2
    <3> QED
      BY <2>2, <3>1, <3>2
  <2>4. Ups(n, b, h)
    BY <2>3 DEF Ups
  <2> HIDE DEF h
  <2>5. \E f : Ups(n, b, f)
    BY <2>4
  <2>6. n \in 0 .. N
    BY <1>0
  <2> QED
    BY <2>5, <2>6
<1> HIDE DEF G
<1>3. \A n \in 0 .. N : n \in G
  BY <1>0, <1>1, <1>2, Induction
<1>4. N \in G
  BY <1>0, <1>3
<1> QED
  BY <1>4 DEF G, N

LEMMA SnapshotIsLastUp ==
    ASSUME NEW b
    PROVE  \E g : Ups(Len(Keys), b, g) /\ Snapshot(b) = g[Len(Keys)]
<1> DEFINE h == CHOOSE h : h = [i \in 0 .. Len(Keys) |->
               IF i = 0 THEN <<>>
               ELSE IF Keys[i] \in Filter /\ Live(b, Keys[i])
                    THEN Append(h[i - 1], Current(b, Keys[i])) ELSE h[i - 1]]
<1>1. Ups(Len(Keys), b, h)
  BY UpsExist DEF Ups, Good
<1>2. Snapshot(b) = h[Len(Keys)]
  BY DEF Snapshot
<1> HIDE DEF h
<1> QED
  BY <1>1, <1>2

(* Every entry of a bucket is of the key it is kept under.                 *)
OwnKeys(b) == \A k \in KeySet : Exists(b, k) => Current(b, k) \in Entry /\ Current(b, k).key = k

LEMMA SnapshotFacts ==
    ASSUME NEW b, OwnKeys(b)
    PROVE  /\ Snapshot(b) \in Seq(Entry)
           /\ \A i \in DOMAIN Snapshot(b) :
                 \E k \in KeySet \cap Filter : Live(b, k) /\ Snapshot(b)[i] = Current(b, k)
           /\ \A k \in KeySet \cap Filter :
                 Live(b, k) => \E i \in DOMAIN Snapshot(b) : Snapshot(b)[i] = Current(b, k)
           /\ \A i, j \in DOMAIN Snapshot(b) : Snapshot(b)[i].key = Snapshot(b)[j].key => i = j
<1> DEFINE N == Len(Keys)
<1>0. N \in Nat /\ (\A i \in 1 .. N : Keys[i] \in KeySet)
      /\ (\A i, j \in 1 .. N : Keys[i] = Keys[j] => i = j)
  BY KeysAreFinite, KeysAssumption
<1>1. PICK g : Ups(N, b, g) /\ Snapshot(b) = g[N]
  BY SnapshotIsLastUp
<1> HIDE DEF N
<1> DEFINE From(s, n) == \A i \in DOMAIN s : \E j \in 1 .. n : Good(b, j) /\ s[i] = Current(b, Keys[j])
           All(s, n) == \A j \in 1 .. n : Good(b, j) => \E i \in DOMAIN s : s[i] = Current(b, Keys[j])
           Once(s) == \A i, j \in DOMAIN s : s[i].key = s[j].key => i = j
           G == {n \in 0 .. N : g[n] \in Seq(Entry) /\ From(g[n], n) /\ All(g[n], n) /\ Once(g[n])}
<1>2. \A n \in 0 .. N :
         g[n] = IF n = 0 THEN <<>>
                ELSE IF Good(b, n) THEN Append(g[n - 1], Current(b, Keys[n])) ELSE g[n - 1]
  BY <1>1 DEF Ups
<1>3. 0 \in G
  <2>1. 0 \in 0 .. N /\ g[0] = <<>>
    BY <1>0, <1>2
  <2>2. <<>> \in Seq(Entry) /\ DOMAIN (<<>>) = {} /\ 1 .. 0 = {}
    OBVIOUS
  <2> QED
    BY <2>1, <2>2
<1>4. ASSUME NEW n \in 1 .. N, n - 1 \in G PROVE n \in G
  <2> DEFINE s == g[n - 1]
             t == g[n]
  <2>1. /\ s \in Seq(Entry) /\ From(s, n - 1) /\ All(s, n - 1) /\ Once(s)
        /\ n \in 0 .. N /\ n # 0 /\ n \in Nat
    BY <1>0, <1>4
  <2>2. t = IF Good(b, n) THEN Append(s, Current(b, Keys[n])) ELSE s
    BY <1>2, <2>1
  <2>3. \A j \in 1 .. n : j = n \/ j \in 1 .. n - 1
    BY <2>1
  <2>4. \A j \in 1 .. n - 1 : j \in 1 .. n /\ j # n /\ j \in 1 .. N
    BY <1>0, <2>1
  <2> HIDE DEF s, t
  <2>5. CASE ~Good(b, n)
    <3>1. From(t, n) /\ All(t, n)
      BY <2>1, <2>2, <2>3, <2>4, <2>5
    <3> QED
      BY <2>1, <2>2, <2>5, <3>1 DEF t
  <2>6. CASE Good(b, n)
    <3> DEFINE e == Current(b, Keys[n])
               m == Len(s)
    <3>1. e \in Entry /\ e.key = Keys[n]
      BY <1>0, <2>6 DEF OwnKeys, Good, Live
    <3> HIDE DEF e
    <3>2. /\ m \in Nat /\ DOMAIN s = 1 .. m /\ t \in Seq(Entry) /\ DOMAIN t = 1 .. m + 1
          /\ t[m + 1] = e /\ \A i \in 1 .. m : t[i] = s[i]
      BY <2>1, <2>2, <2>6, <3>1 DEF e
    <3>3. \A i \in 1 .. m + 1 : i = m + 1 \/ i \in 1 .. m
      BY <3>2
    <3>4. \A i \in 1 .. m : i \in 1 .. m + 1
      BY <3>2
    <3>5. m + 1 \in 1 .. m + 1 /\ n \in 1 .. n
      BY <3>2, <2>1
    <3> HIDE DEF m
    <3>6. From(t, n)
      <4>1. ASSUME NEW i \in DOMAIN t
            PROVE  \E j \in 1 .. n : Good(b, j) /\ t[i] = Current(b, Keys[j])
        <5>1. CASE i = m + 1
          BY <2>6, <3>2, <3>5, <5>1 DEF e
        <5>2. CASE i \in 1 .. m
          BY <2>1, <2>4, <3>2, <5>2
        <5> QED
          BY <3>2, <3>3, <5>1, <5>2
      <4> QED
        BY <4>1
    <3>7. All(t, n)
      <4>1. ASSUME NEW j \in 1 .. n, Good(b, j)
            PROVE  \E i \in DOMAIN t : t[i] = Current(b, Keys[j])
        <5>1. CASE j = n
          BY <3>2, <3>5, <5>1 DEF e
        <5>2. CASE j \in 1 .. n - 1
          <6>1. PICK i \in DOMAIN s : s[i] = Current(b, Keys[j])
            BY <2>1, <4>1, <5>2
          <6> QED
            BY <3>2, <3>4, <6>1
        <5> QED
          BY <2>3, <5>1, <5>2
      <4> QED
        BY <4>1
    <3>8. \A i \in 1 .. m : s[i].key # e.key
      <4> SUFFICES ASSUME NEW i \in 1 .. m PROVE s[i].key # e.key
        OBVIOUS
      <4>1. PICK j \in 1 .. n - 1 : Good(b, j) /\ s[i] = Current(b, Keys[j])
        BY <2>1, <3>2
      <4>2. j \in 1 .. N /\ j # n /\ s[i].key = Keys[j]
        BY <1>0, <2>4, <4>1 DEF OwnKeys, Good, Live
      <4> QED
        BY <1>0, <3>1, <4>2
    <3>9. Once(t)
      <4> SUFFICES ASSUME NEW i \in DOMAIN t, NEW j \in DOMAIN t, t[i].key = t[j].key
                   PROVE  i = j
        OBVIOUS
      <4>1. (i = m + 1 \/ i \in 1 .. m) /\ (j = m + 1 \/ j \in 1 .. m)
        BY <3>2, <3>3
      <4>2. CASE i \in 1 .. m /\ j \in 1 .. m
        BY <2>1, <3>2, <4>2
      <4> QED
        BY <3>2, <3>8, <4>1, <4>2
    <3> QED
      BY <2>1, <3>2, <3>6, <3>7, <3>9 DEF t
  <2> QED
    BY <2>5, <2>6
<1> HIDE DEF G
<1>5. \A n \in 0 .. N : n \in G
  BY <1>0, <1>3, <1>4, Induction
<1>6. N \in G
  BY <1>0, <1>5
<1>7. g[N] \in Seq(Entry) /\ From(g[N], N) /\ All(g[N], N) /\ Once(g[N])
  BY <1>6 DEF G
<1>8. ASSUME NEW k \in KeySet \cap Filter, Live(b, k)
      PROVE  \E i \in DOMAIN Snapshot(b) : Snapshot(b)[i] = Current(b, k)
  <2>1. PICK j \in 1 .. N : Keys[j] = k
    BY KeysAreFinite DEF N
  <2> QED
    BY <1>1, <1>7, <1>8, <2>1 DEF Good
<1>9. ASSUME NEW i \in DOMAIN Snapshot(b)
      PROVE  \E k \in KeySet \cap Filter : Live(b, k) /\ Snapshot(b)[i] = Current(b, k)
  <2>1. PICK j \in 1 .. N : Good(b, j) /\ Snapshot(b)[i] = Current(b, Keys[j])
    BY <1>1, <1>7
  <2> QED
    BY <1>0, <2>1 DEF Good
<1> HIDE DEF From, All
<1> QED
  BY <1>1, <1>7, <1>8, <1>9

----------------------------------------------------------------------------
(* The watcher's steps, by what they do to its stream.                     *)
Loops == {"off", "top", "send", "wait", "exited"}
Watchers ==
    [loop : Loops, queue : Seq(Entry), hand : Seq(Entry), wake : BOOLEAN, stopped : BOOLEAN,
     err : {"none", "withdrawn"}, got : SUBSET Entry]
WatcherType(w) ==
    /\ w \in Watchers
    /\ IF w.loop = "send" THEN Len(w.hand) = 1 ELSE w.hand = <<>>

(* v stands where w stands, but for its stream.                            *)
SameWatch(w, v) == v.got = w.got /\ v.stopped = w.stopped /\ (Running(v) <=> Running(w))

LEMMA PendingType ==
    ASSUME NEW w, WatcherType(w)
    PROVE  Pending(w) \in Seq(Entry) /\ w.got \subseteq Entry /\ w.loop \in Loops
BY DEF WatcherType, Watchers, Pending

LEMMA OfferStep ==
    ASSUME NEW w, WatcherType(w), NEW e \in Entry
    PROVE  /\ WatcherType(Offer(w, e)) /\ SameWatch(w, Offer(w, e))
           /\ Pending(Offer(w, e)) =
                 IF Running(w) /\ ~w.stopped THEN Append(Pending(w), e) ELSE Pending(w)
<1>1. CASE ~Running(w) \/ w.stopped
  BY <1>1 DEF Offer, SameWatch
<1>2. CASE Running(w) /\ ~w.stopped
  <2> DEFINE v == [w EXCEPT !.queue = Append(@, e), !.wake = TRUE]
  <2>1. Offer(w, e) = v
    BY <1>2 DEF Offer
  <2>a. w.queue \in Seq(Entry) /\ Append(w.queue, e) \in Seq(Entry)
    BY DEF WatcherType, Watchers
  <2>b. v \in Watchers
    BY <2>a DEF WatcherType, Watchers
  <2>2. /\ v.loop = w.loop /\ v.hand = w.hand /\ v.got = w.got /\ v.stopped = w.stopped
        /\ v.queue = Append(w.queue, e) /\ v \in Watchers
    BY <2>b DEF WatcherType, Watchers
  <2> HIDE DEF v
  <2>3. WatcherType(v) /\ SameWatch(w, v)
    BY <2>2 DEF WatcherType, SameWatch, Running
  <2>4. w.hand \o Append(w.queue, e) = Append(w.hand \o w.queue, e)
    BY DEF WatcherType, Watchers
  <2> QED
    BY <1>2, <2>1, <2>2, <2>3, <2>4 DEF Pending
<1> QED
  BY <1>1, <1>2

LEMMA StopStep ==
    ASSUME NEW w, WatcherType(w), NEW x \in {"none", "withdrawn"}
    PROVE  LET v == StopWith(w, x) IN
           /\ WatcherType(v) /\ v.got = w.got /\ (Running(v) <=> Running(w))
           /\ Pending(v) = Pending(w)
           /\ (Running(w) \/ w.stopped) => v.stopped
<1>1. CASE ~Running(w) \/ w.stopped
  BY <1>1 DEF StopWith
<1>2. CASE Running(w) /\ ~w.stopped
  <2> DEFINE v == [w EXCEPT !.stopped = TRUE, !.err = x]
  <2>1. StopWith(w, x) = v
    BY <1>2 DEF StopWith
  <2>2. /\ v.loop = w.loop /\ v.hand = w.hand /\ v.got = w.got /\ v.stopped = TRUE
        /\ v.queue = w.queue /\ v \in Watchers
    BY DEF WatcherType, Watchers
  <2> HIDE DEF v
  <2> QED
    BY <1>2, <2>1, <2>2 DEF Pending, WatcherType, Running
<1> QED
  BY <1>1, <1>2

LEMMA TurnStep ==
    ASSUME NEW w, WatcherType(w), NEW v, Pop(w, v) \/ Woken(w, v)
    PROVE  WatcherType(v) /\ SameWatch(w, v) /\ Pending(v) = Pending(w)
<1>1. CASE Woken(w, v)
  <2>1. /\ v.loop = "top" /\ v.hand = w.hand /\ v.got = w.got /\ v.stopped = w.stopped
        /\ v.queue = w.queue /\ v \in Watchers /\ w.loop = "wait"
    BY <1>1 DEF Woken, WatcherType, Watchers, Loops
  <2> QED
    BY <2>1 DEF Pending, WatcherType, Running, SameWatch
<1>2. CASE Pop(w, v) /\ w.queue = <<>>
  <2>1. /\ v.loop = "wait" /\ v.hand = w.hand /\ v.got = w.got /\ v.stopped = w.stopped
        /\ v.queue = w.queue /\ v \in Watchers /\ w.loop = "top"
    BY <1>2 DEF Pop, WatcherType, Watchers, Loops
  <2> QED
    BY <2>1 DEF Pending, WatcherType, Running, SameWatch
<1>3. CASE Pop(w, v) /\ w.queue # <<>>
  <2>1. w.queue \in Seq(Entry) /\ Head(w.queue) \in Entry /\ Tail(w.queue) \in Seq(Entry)
    BY <1>3 DEF WatcherType, Watchers
  <2>2. /\ v.loop = "send" /\ v.hand = <<Head(w.queue)>> /\ v.got = w.got
        /\ v.stopped = w.stopped /\ v.queue = Tail(w.queue) /\ w.loop = "top"
    BY <1>3 DEF Pop, WatcherType, Watchers
  <2>3. v \in Watchers
    <3>1. <<Head(w.queue)>> \in Seq(Entry)
      BY <2>1
    <3> QED
      BY <1>3, <2>1, <3>1 DEF Pop, WatcherType, Watchers, Loops
  <2>4. <<Head(w.queue)>> \o Tail(w.queue) = w.queue /\ <<>> \o w.queue = w.queue
    BY <1>3, <2>1
  <2>5. w.hand = <<>> /\ Len(<<Head(w.queue)>>) = 1
    BY <2>2 DEF WatcherType
  <2> QED
    BY <2>2, <2>3, <2>4, <2>5 DEF Pending, WatcherType, Running, SameWatch
<1> QED
  BY <1>1, <1>2, <1>3

LEMMA HandStep ==
    ASSUME NEW w, WatcherType(w), NEW v, Hand(w, v)
    PROVE  \E h \in Entry :
           /\ WatcherType(v) /\ v.stopped = w.stopped /\ Running(v) /\ Running(w)
           /\ Pending(w) = <<h>> \o Pending(v)
           /\ v.got = {e \in w.got : e.key # h.key} \cup {h}
<1> DEFINE h == w.hand[1]
<1>1. w.loop = "send" /\ w.hand \in Seq(Entry) /\ Len(w.hand) = 1 /\ w.got \subseteq Entry
      /\ w.queue \in Seq(Entry)
  BY DEF WatcherType, Watchers, Hand
<1>2. h \in Entry /\ w.hand = <<h>>
  BY <1>1
<1>3. /\ v.loop = "top" /\ v.hand = <<>> /\ v.queue = w.queue /\ v.stopped = w.stopped
      /\ v.got = {e \in w.got : e.key # h.key} \cup {h}
  BY DEF WatcherType, Watchers, Hand
<1>4. v \in Watchers
  <2>1. {e \in w.got : e.key # h.key} \cup {h} \subseteq Entry /\ <<>> \in Seq(Entry)
    BY <1>1, <1>2
  <2> QED
    BY <2>1 DEF WatcherType, Watchers, Hand, Loops
<1>5. <<>> \o w.queue = w.queue
  BY <1>1
<1> HIDE DEF h
<1>6. Pending(w) = <<h>> \o Pending(v)
  BY <1>2, <1>3, <1>5 DEF Pending
<1> QED
  BY <1>1, <1>2, <1>3, <1>4, <1>6 DEF WatcherType, Running

LEMMA ExitStep ==
    ASSUME NEW w, WatcherType(w), NEW v, Exit(w, v)
    PROVE  /\ WatcherType(v) /\ v.stopped /\ w.stopped /\ v.got = w.got /\ Running(w)
           /\ Pending(v) = Pending(w) \/ \E h \in Entry : Pending(w) = <<h>> \o Pending(v)
<1>1. /\ w.loop \in {"send", "wait"} /\ w.stopped /\ v.loop = "exited" /\ v.hand = <<>>
      /\ v.queue = w.queue /\ v.got = w.got /\ v.stopped = w.stopped /\ v \in Watchers
  BY EmptySeq DEF WatcherType, Watchers, Exit, Loops
<1>2. w.queue \in Seq(Entry) /\ <<>> \o w.queue = w.queue
  BY DEF WatcherType, Watchers
<1>3. WatcherType(v) /\ Running(w) /\ Pending(v) = w.queue
  BY <1>1, <1>2 DEF WatcherType, Running, Pending
<1>4. CASE w.loop = "wait"
  BY <1>1, <1>2, <1>3, <1>4 DEF WatcherType, Pending
<1>5. CASE w.loop = "send"
  <2>1. w.hand \in Seq(Entry) /\ Len(w.hand) = 1
    BY <1>5 DEF WatcherType, Watchers
  <2>2. w.hand[1] \in Entry /\ w.hand = <<w.hand[1]>>
    BY <2>1
  <2>3. Pending(w) = <<w.hand[1]>> \o Pending(v)
    BY <1>3, <2>2 DEF Pending
  <2> QED
    BY <1>1, <1>3, <2>2, <2>3
<1> QED
  BY <1>1, <1>4, <1>5

----------------------------------------------------------------------------
(* The invariant.                                                          *)
BucketTypes ==
    /\ bound \in 0 .. MaxBuckets
    /\ made \in 0 .. MaxBuckets
    /\ rev \in [Buckets -> Nat]
    /\ keys \in [Buckets -> [KeySet -> Seq(Entry)]]
    /\ \A b \in Buckets, k \in KeySet : Len(keys[b][k]) <= Kept
    /\ old \in [Buckets -> SUBSET KeySet]
    /\ updates \in [Buckets -> [KeySet -> Nat]]
ClientTypes ==
    /\ handle \in [Clients -> 0 .. MaxBuckets]
    /\ read \in [Clients -> Seq(Entry)]
    /\ \A c \in Clients : Len(read[c]) <= 1
WatchTypes ==
    /\ WatcherType(watcher)
    /\ of \in 0 .. MaxBuckets
    /\ Running(watcher) => of \in Buckets
Types == BucketTypes /\ ClientTypes /\ WatchTypes

(* The current entry of a key is its own, of a revision that was reached.  *)
EntriesAreOwn ==
    \A b \in Buckets, k \in KeySet :
        Exists(b, k) => Current(b, k).key = k /\ Current(b, k).rev <= rev[b]

(* What a client read is the current entry if it has its revision.         *)
ReadIsCurrent(b, e) ==
    /\ b \in Buckets
    /\ e.rev <= rev[b]
    /\ Exists(b, e.key) /\ Current(b, e.key).rev = e.rev => Current(b, e.key) = e
ReadsAreCurrent == \A c \in Clients : read[c] # <<>> => ReadIsCurrent(handle[c], read[c][1])

(* A stream after deliveries g holds revisions up to n, in order per key.  *)
Reached(p, g, n) == (\A i \in DOMAIN p : p[i].rev <= n) /\ (\A e \in g : e.rev <= n)
InOrder(p, g) ==
    /\ \A i, j \in DOMAIN p : i < j /\ p[i].key = p[j].key => p[i].rev < p[j].rev
    /\ \A e \in g, i \in DOMAIN p : e.key = p[i].key => e.rev < p[i].rev
StreamReached == Running(watcher) => Reached(Pending(watcher), watcher.got, rev[of])

Inv ==
    /\ Types /\ EntriesAreOwn /\ ReadsAreCurrent /\ NoLostUpdate
    /\ StreamReached /\ StreamInOrder /\ MirrorExact /\ DeletedStops

LEMMA StreamInOrderIs == StreamInOrder <=> InOrder(Pending(watcher), watcher.got)
BY DEF StreamInOrder, InOrder

LEMMA KeptIsPositive == Kept \in Nat /\ Kept >= 1
BY NumbersAssumption DEF Kept

LEMMA InvImplies == Inv => BucketIsFaithful
<1> SUFFICES ASSUME Inv PROVE BucketIsFaithful
  OBVIOUS
<1>1. TypeOK
  <2>1. Pending(watcher) \in Seq(Entry) /\ watcher.got \subseteq Entry /\ watcher.loop \in Loops
    BY PendingType DEF Inv, Types, WatchTypes
  <2> QED
    BY <2>1 DEF Inv, Types, BucketTypes, ClientTypes, WatchTypes, TypeOK, Loops
<1> QED
  BY <1>1 DEF Inv, BucketIsFaithful

LEMMA InvInit == Init => Inv
<1> SUFFICES ASSUME Init PROVE Inv
  OBVIOUS
<1>0. 0 \in 0 .. MaxBuckets /\ 0 \notin Buckets
  BY NumbersAssumption DEF Buckets
<1>1. BucketTypes /\ ClientTypes
  <2>1. \A b \in Buckets, k \in KeySet : keys[b][k] = <<>>
    BY DEF Init
  <2>2. <<>> \in Seq(Entry) /\ Len(<<>>) = 0
    BY EmptySeq
  <2>3. keys \in [Buckets -> [KeySet -> Seq(Entry)]] /\ read \in [Clients -> Seq(Entry)]
    BY <2>2 DEF Init
  <2>4. \A b \in Buckets, k \in KeySet : Len(keys[b][k]) <= Kept
    BY <2>1, <2>2, KeptIsPositive
  <2>5. \A c \in Clients : read[c] = <<>>
    BY DEF Init
  <2>6. \A c \in Clients : Len(read[c]) <= 1
    BY <2>2, <2>5
  <2> QED
    BY <1>0, <2>3, <2>4, <2>6 DEF Init, BucketTypes, ClientTypes
<1>2. WatchTypes /\ ~Running(watcher) /\ Pending(watcher) = <<>> /\ watcher.got = {}
  <2>1. Off \in Watchers /\ Off.loop = "off" /\ Off.hand = <<>> /\ Off.queue = <<>> /\ Off.got = {}
    BY EmptySeq DEF Off, Watchers, Loops
  <2>2. <<>> \o <<>> = <<>>
    OBVIOUS
  <2> QED
    BY <1>0, <2>1, <2>2 DEF Init, WatchTypes, WatcherType, Running, Pending
<1>3. \A b \in Buckets, k \in KeySet : ~Exists(b, k)
  BY DEF Init, Exists
<1>4. ReadsAreCurrent
  BY DEF Init, ReadsAreCurrent
<1>5. InOrder(<<>>, {})
  BY DEF InOrder
<1> QED
  BY <1>1, <1>2, <1>3, <1>4, <1>5, StreamInOrderIs
     DEF Inv, Types, EntriesAreOwn, NoLostUpdate, StreamReached, MirrorExact, DeletedStops

----------------------------------------------------------------------------
(* append, and Purge: the entry e is offered, and h is kept of its key.    *)
Stored(b, k, e, h, u) ==
    /\ b \in Buckets /\ k \in KeySet
    /\ e \in Entry /\ e.key = k /\ e.rev = rev[b] + 1
    /\ h \in Seq(Entry) /\ Len(h) <= Kept /\ u \in Nat
    /\ IF h = <<>> THEN e.deleted ELSE Last(h) = e /\ e.value = u
    /\ rev' = [rev EXCEPT ![b] = @ + 1]
    /\ keys' = [keys EXCEPT ![b][k] = h]
    /\ old' = [old EXCEPT ![b] = @ \ {k}]
    /\ updates' = [updates EXCEPT ![b][k] = u]
    /\ watcher' = Offered(b, e)
    /\ UNCHANGED <<bound, made, handle, read, of, late>>

LEMMA StoredTypes ==
    ASSUME Inv, NEW b, NEW k, NEW e, NEW h, NEW u, Stored(b, k, e, h, u)
    PROVE  /\ Types'
           /\ rev[b] \in Nat /\ rev'[b] = rev[b] + 1
           /\ \A c \in Buckets : rev[c] \in Nat /\ rev'[c] \in Nat /\ rev[c] <= rev'[c]
           /\ keys'[b][k] = h /\ updates'[b][k] = u
           /\ \A c \in Buckets, l \in KeySet : c # b \/ l # k =>
                 keys'[c][l] = keys[c][l] /\ updates'[c][l] = updates[c][l]
                 /\ (l \in old[c] => l \in old'[c])
           /\ SameWatch(watcher, watcher')
           /\ Pending(watcher') =
                 IF Running(watcher) /\ ~watcher.stopped /\ of = b /\ k \in Filter
                 THEN Append(Pending(watcher), e) ELSE Pending(watcher)
<1>1. /\ rev \in [Buckets -> Nat] /\ keys \in [Buckets -> [KeySet -> Seq(Entry)]]
      /\ old \in [Buckets -> SUBSET KeySet] /\ updates \in [Buckets -> [KeySet -> Nat]]
      /\ \A c \in Buckets, l \in KeySet : Len(keys[c][l]) <= Kept
  BY DEF Inv, Types, BucketTypes
<1>2. b \in Buckets /\ k \in KeySet /\ h \in Seq(Entry) /\ Len(h) <= Kept /\ u \in Nat /\ e \in Entry /\ e.key = k
  BY DEF Stored
<1>3. rev' \in [Buckets -> Nat] /\ rev[b] \in Nat /\ rev'[b] = rev[b] + 1
      /\ (\A c \in Buckets : rev[c] \in Nat /\ rev'[c] \in Nat /\ rev[c] <= rev'[c])
  <2>1. rev' = [rev EXCEPT ![b] = @ + 1]
    BY DEF Stored
  <2>2. rev' \in [Buckets -> Nat] /\ rev'[b] = rev[b] + 1 /\ (\A c \in Buckets : c # b => rev'[c] = rev[c])
    BY <1>1, <1>2, <2>1
  <2>3. ASSUME NEW c \in Buckets
        PROVE  rev[c] \in Nat /\ rev'[c] \in Nat /\ rev[c] <= rev'[c]
    <3>1. rev[c] \in Nat /\ (rev'[c] = rev[c] \/ rev'[c] = rev[c] + 1)
      BY <1>1, <2>2
    <3> QED
      BY <3>1
  <2> QED
    BY <1>1, <1>2, <2>2, <2>3
<1>4. keys' \in [Buckets -> [KeySet -> Seq(Entry)]] /\ keys'[b][k] = h
      /\ (\A c \in Buckets, l \in KeySet : c # b \/ l # k => keys'[c][l] = keys[c][l])
  <2>1. keys' = [keys EXCEPT ![b][k] = h]
    BY DEF Stored
  <2> QED
    BY <1>1, <1>2, <2>1
<1>5. updates' \in [Buckets -> [KeySet -> Nat]] /\ updates'[b][k] = u
      /\ (\A c \in Buckets, l \in KeySet : c # b \/ l # k => updates'[c][l] = updates[c][l])
  <2>1. updates' = [updates EXCEPT ![b][k] = u]
    BY DEF Stored
  <2> QED
    BY <1>1, <1>2, <2>1
<1>6. old' \in [Buckets -> SUBSET KeySet]
      /\ (\A c \in Buckets, l \in KeySet : c # b \/ l # k => (l \in old[c] => l \in old'[c]))
  <2>1. old' = [old EXCEPT ![b] = @ \ {k}]
    BY DEF Stored
  <2> QED
    BY <1>1, <1>2, <2>1
<1>7. \A c \in Buckets, l \in KeySet : Len(keys'[c][l]) <= Kept
  BY <1>1, <1>2, <1>4
<1>8. BucketTypes'
  <2>1. bound' \in 0 .. MaxBuckets /\ made' \in 0 .. MaxBuckets
    BY DEF Stored, Inv, Types, BucketTypes
  <2> QED
    BY <1>3, <1>4, <1>5, <1>6, <1>7, <2>1 DEF BucketTypes, Kept, Buckets, KeySet, Entry
<1>9. ClientTypes'
  <2>1. handle' = handle /\ read' = read
    BY DEF Stored
  <2> QED
    BY <2>1 DEF Inv, Types, ClientTypes, Entry, KeySet
<1>10. /\ WatcherType(watcher') /\ SameWatch(watcher, watcher')
       /\ Pending(watcher') =
             IF Running(watcher) /\ ~watcher.stopped /\ of = b /\ k \in Filter
             THEN Append(Pending(watcher), e) ELSE Pending(watcher)
  <2>1. WatcherType(watcher) /\ watcher' = Offered(b, e)
    BY DEF Stored, Inv, Types, WatchTypes
  <2>2. CASE of = b /\ k \in Filter
    <3>1. watcher' = Offer(watcher, e)
      BY <1>2, <2>1, <2>2 DEF Offered
    <3> QED
      BY <1>2, <2>1, <2>2, <3>1, OfferStep
  <2>3. CASE ~ (of = b /\ k \in Filter)
    <3>1. watcher' = watcher
      BY <1>2, <2>1, <2>3 DEF Offered
    <3> QED
      BY <2>1, <2>3, <3>1 DEF SameWatch
  <2> QED
    BY <2>2, <2>3
<1>11. WatchTypes'
  <2>1. of' = of /\ of \in 0 .. MaxBuckets /\ (Running(watcher) => of \in Buckets)
    BY DEF Stored, Inv, Types, WatchTypes
  <2>2. Running(watcher') => of' \in Buckets
    BY <1>10, <2>1 DEF SameWatch
  <2> QED
    BY <1>10, <2>1, <2>2 DEF WatchTypes, Buckets
<1> QED
  BY <1>3, <1>4, <1>5, <1>6, <1>8, <1>9, <1>10, <1>11 DEF Types

(* What is appended has the highest revision, so a stream stays in order.  *)
LEMMA AppendInOrder ==
    ASSUME NEW p \in Seq(Entry), NEW g \in SUBSET Entry, NEW e \in Entry, NEW n \in Nat,
           Reached(p, g, n), InOrder(p, g), e.rev = n + 1
    PROVE  Reached(Append(p, e), g, n + 1) /\ InOrder(Append(p, e), g)
<1> DEFINE m == Len(p)
           q == Append(p, e)
<1>1. /\ m \in Nat /\ DOMAIN p = 1 .. m /\ DOMAIN q = 1 .. m + 1
      /\ q[m + 1] = e /\ \A i \in 1 .. m : q[i] = p[i]
  OBVIOUS
<1>2. (\A i \in 1 .. m : p[i] \in Entry /\ p[i].rev \in Nat) /\ (\A x \in g : x.rev \in Nat)
  <2>1. \A x \in Entry : x.rev \in Nat
    BY DEF Entry
  <2>2. \A i \in 1 .. m : p[i] \in Entry
    BY <1>1
  <2> QED
    BY <2>1, <2>2
<1> HIDE DEF m, q
<1>3. (\A i \in 1 .. m : p[i].rev <= n) /\ (\A x \in g : x.rev <= n)
  BY <1>1 DEF Reached
<1>4. (\A i \in 1 .. m : p[i].rev < n + 1) /\ (\A x \in g : x.rev < n + 1)
  BY <1>2, <1>3
<1>5. \A i \in 1 .. m + 1 : i = m + 1 \/ i \in 1 .. m
  BY <1>1
<1>6. Reached(q, g, n + 1)
  <2>1. \A i \in DOMAIN q : q[i].rev <= n + 1
    <3> SUFFICES ASSUME NEW i \in DOMAIN q PROVE q[i].rev <= n + 1
      OBVIOUS
    <3>1. CASE i = m + 1
      BY <1>1, <3>1
    <3>2. CASE i \in 1 .. m
      BY <1>1, <1>2, <1>4, <3>2
    <3> QED
      BY <1>1, <1>5, <3>1, <3>2
  <2>2. \A x \in g : x.rev <= n + 1
    BY <1>2, <1>4
  <2> QED
    BY <2>1, <2>2 DEF Reached
<1>7. ASSUME NEW i \in DOMAIN q, NEW j \in DOMAIN q, i < j, q[i].key = q[j].key
      PROVE  q[i].rev < q[j].rev
  <2>1. i \in 1 .. m
    BY <1>1, <1>5, <1>7
  <2>2. CASE j = m + 1
    BY <1>1, <1>4, <2>1, <2>2
  <2>3. CASE j \in 1 .. m
    BY <1>1, <1>7, <2>1, <2>3 DEF InOrder
  <2> QED
    BY <1>1, <1>5, <2>2, <2>3
<1>8. ASSUME NEW x \in g, NEW i \in DOMAIN q, x.key = q[i].key
      PROVE  x.rev < q[i].rev
  <2>1. CASE i = m + 1
    BY <1>1, <1>4, <2>1
  <2>2. CASE i \in 1 .. m
    BY <1>1, <1>8, <2>2 DEF InOrder
  <2> QED
    BY <1>1, <1>5, <2>1, <2>2
<1> QED
  BY <1>6, <1>7, <1>8 DEF InOrder, q

LEMMA ReachedLater ==
    ASSUME NEW p \in Seq(Entry), NEW g \in SUBSET Entry, NEW n \in Nat, NEW m \in Nat, n <= m,
           Reached(p, g, n)
    PROVE  Reached(p, g, m)
<1>1. \A x \in Entry : x.rev \in Nat
  BY DEF Entry
<1>2. \A i \in DOMAIN p : p[i] \in Entry
  OBVIOUS
<1>3. ASSUME NEW x \in Entry, x.rev <= n PROVE x.rev <= m
  BY <1>1, <1>3
<1> QED
  BY <1>2, <1>3 DEF Reached

LEMMA StoredInv ==
    ASSUME Inv, NEW b, NEW k, NEW e, NEW h, NEW u, Stored(b, k, e, h, u)
    PROVE  Inv'
<1> DEFINE w == watcher
           v == watcher'
<1>1. /\ Types'
      /\ rev[b] \in Nat /\ rev'[b] = rev[b] + 1
      /\ \A c \in Buckets : rev[c] \in Nat /\ rev'[c] \in Nat /\ rev[c] <= rev'[c]
      /\ keys'[b][k] = h /\ updates'[b][k] = u
      /\ \A c \in Buckets, l \in KeySet : c # b \/ l # k =>
            keys'[c][l] = keys[c][l] /\ updates'[c][l] = updates[c][l]
            /\ (l \in old[c] => l \in old'[c])
      /\ SameWatch(w, v)
      /\ Pending(v) =
            IF Running(w) /\ ~w.stopped /\ of = b /\ k \in Filter
            THEN Append(Pending(w), e) ELSE Pending(w)
  BY StoredTypes
<1>2. /\ b \in Buckets /\ k \in KeySet /\ e \in Entry /\ e.key = k /\ e.rev = rev[b] + 1
      /\ IF h = <<>> THEN e.deleted ELSE Last(h) = e /\ e.value = u
      /\ UNCHANGED <<bound, made, handle, read, of, late>>
  BY DEF Stored
<1>3. /\ Types /\ EntriesAreOwn /\ ReadsAreCurrent /\ NoLostUpdate
      /\ StreamReached /\ StreamInOrder /\ MirrorExact /\ DeletedStops
  BY DEF Inv
<1>4. /\ \A x \in Entry : x.rev \in Nat
      /\ \A c \in Buckets, l \in KeySet : Exists(c, l) => Current(c, l) \in Entry
  <2>1. \A c \in Buckets, l \in KeySet : keys[c][l] \in Seq(Entry)
    BY <1>3 DEF Types, BucketTypes
  <2>2. \A s \in Seq(Entry) : s # <<>> => s[Len(s)] \in Entry
    OBVIOUS
  <2> QED
    BY <2>1, <2>2 DEF Entry, Exists, Current, Last
<1>5. /\ \A c \in Buckets, l \in KeySet : c # b \/ l # k =>
            (Exists(c, l)' <=> Exists(c, l)) /\ Current(c, l)' = Current(c, l)
            /\ (Expired(c, l) => Expired(c, l)')
      /\ Exists(b, k)' <=> h # <<>>
      /\ h # <<>> => Current(b, k)' = e
  BY <1>1, <1>2 DEF Exists, Current, Expired
<1>6. EntriesAreOwn'
  <2> SUFFICES ASSUME NEW c \in Buckets, NEW l \in KeySet, Exists(c, l)'
               PROVE  Current(c, l)'.key = l /\ Current(c, l)'.rev <= rev'[c]
    BY DEF EntriesAreOwn, Buckets, KeySet
  <2>1. CASE c = b /\ l = k
    BY <1>1, <1>2, <1>5, <2>1
  <2>2. CASE c # b \/ l # k
    <3>1. Current(c, l)' = Current(c, l) /\ Exists(c, l)
      BY <1>5, <2>2
    <3>2. Current(c, l).key = l /\ Current(c, l).rev <= rev[c] /\ Current(c, l).rev \in Nat
      BY <1>3, <1>4, <3>1 DEF EntriesAreOwn
    <3>3. rev[c] \in Nat /\ rev'[c] \in Nat /\ rev[c] <= rev'[c]
      BY <1>1
    <3> QED
      BY <3>1, <3>2, <3>3
  <2> QED
    BY <2>1, <2>2
<1>7. ReadsAreCurrent'
  <2> SUFFICES ASSUME NEW d \in Clients, read'[d] # <<>>
               PROVE  /\ handle'[d] \in Buckets
                      /\ read'[d][1].rev <= rev'[handle'[d]]
                      /\ LET y == keys'[handle'[d]][read'[d][1].key] IN
                         y # <<>> /\ Last(y).rev = read'[d][1].rev => Last(y) = read'[d][1]
    BY DEF ReadsAreCurrent, ReadIsCurrent, Buckets, Exists, Current
  <2>1. handle' = handle /\ read' = read /\ read[d] # <<>>
    BY <1>2
  <2>2. PICK c, x : c = handle[d] /\ x = read[d][1]
    OBVIOUS
  <2>3. x \in Entry /\ x.key \in KeySet /\ x.rev \in Nat
    <3>1. read[d] \in Seq(Entry)
      BY <1>3 DEF Types, ClientTypes
    <3>2. x \in Entry
      BY <2>1, <2>2, <3>1
    <3> QED
      BY <3>2 DEF Entry
  <2>4. c \in Buckets /\ x.rev <= rev[c]
        /\ (Exists(c, x.key) /\ Current(c, x.key).rev = x.rev => Current(c, x.key) = x)
    BY <1>3, <2>1, <2>2 DEF ReadsAreCurrent, ReadIsCurrent
  <2>5. x.rev <= rev'[c]
    <3>1. rev[c] \in Nat /\ rev'[c] \in Nat /\ rev[c] <= rev'[c]
      BY <1>1, <2>4
    <3> QED
      BY <2>3, <2>4, <3>1
  <2>6. Exists(c, x.key)' /\ Current(c, x.key)'.rev = x.rev => Current(c, x.key)' = x
    <3>1. CASE c = b /\ x.key = k
      <4>1. x.rev <= rev[b] /\ e.rev = rev[b] + 1 /\ rev[b] \in Nat
        BY <1>1, <1>2, <2>4, <3>1
      <4>2. e.rev # x.rev
        BY <4>1, <2>3
      <4> QED
        BY <1>1, <1>2, <3>1, <4>2 DEF Exists, Current
    <3>2. CASE c # b \/ x.key # k
      <4>1. keys'[c][x.key] = keys[c][x.key]
        BY <1>1, <2>3, <2>4, <3>2
      <4> QED
        BY <2>4, <4>1 DEF Exists, Current
    <3> QED
      BY <3>1, <3>2
  <2> QED
    BY <2>1, <2>2, <2>4, <2>5, <2>6 DEF Exists, Current
<1>8. NoLostUpdate'
  <2> SUFFICES ASSUME NEW c \in Buckets, NEW l \in KeySet, Exists(c, l)'
               PROVE  Current(c, l)'.value = updates'[c][l]
    BY DEF NoLostUpdate, Buckets, KeySet
  <2>1. CASE c = b /\ l = k
    BY <1>1, <1>2, <1>5, <2>1
  <2>2. CASE c # b \/ l # k
    BY <1>1, <1>3, <1>5, <2>2 DEF NoLostUpdate
  <2> QED
    BY <2>1, <2>2
<1>9. /\ Pending(w) \in Seq(Entry) /\ w.got \in SUBSET Entry /\ v.got = w.got
      /\ v.stopped = w.stopped /\ (Running(v) <=> Running(w)) /\ of' = of /\ bound' = bound
      /\ late' = late
  BY <1>1, <1>2, <1>3, PendingType DEF Types, WatchTypes, SameWatch
<1>10. ASSUME Running(w) PROVE of \in Buckets /\ Reached(Pending(w), w.got, rev[of])
  BY <1>3, <1>10 DEF Types, WatchTypes, StreamReached
<1>11. StreamReached' /\ StreamInOrder'
  <2>1. InOrder(Pending(w), w.got)
    BY <1>3, StreamInOrderIs
  <2>2. CASE Running(w) /\ ~w.stopped /\ of = b /\ k \in Filter
    <3>1. Reached(Append(Pending(w), e), w.got, rev[b] + 1) /\ InOrder(Append(Pending(w), e), w.got)
      BY <1>1, <1>2, <1>9, <1>10, <2>1, <2>2, AppendInOrder
    <3>2. Pending(v) = Append(Pending(w), e) /\ rev'[of'] = rev[b] + 1
      BY <1>1, <1>9, <2>2
    <3>3. Reached(Pending(v), v.got, rev'[of']) /\ InOrder(Pending(v), v.got)
      BY <1>9, <3>1, <3>2
    <3> QED
      BY <3>3 DEF StreamReached, StreamInOrder, InOrder
  <2>3. CASE ~ (Running(w) /\ ~w.stopped /\ of = b /\ k \in Filter)
    <3>1. Pending(v) = Pending(w)
      BY <1>1, <2>3
    <3>2. ASSUME Running(v) PROVE Reached(Pending(v), v.got, rev'[of'])
      <4>1. of \in Buckets /\ Reached(Pending(w), w.got, rev[of])
        BY <1>9, <1>10, <3>2
      <4>2. rev[of] \in Nat /\ rev'[of] \in Nat /\ rev[of] <= rev'[of]
        BY <1>1, <4>1
      <4> QED
        BY <1>9, <3>1, <4>1, <4>2, ReachedLater
    <3>3. InOrder(Pending(v), v.got)
      BY <1>9, <2>1, <3>1
    <3> QED
      BY <3>2, <3>3 DEF StreamReached, StreamInOrder, InOrder
  <2> QED
    BY <2>2, <2>3
<1>12. MirrorExact'
  <2> SUFFICES ASSUME Running(v), ~v.stopped, NEW l \in Filter \cap KeySet
               PROVE  Mirrored(l)'
    BY DEF MirrorExact, KeySet
  <2>1. Running(w) /\ ~w.stopped /\ of \in Buckets /\ l \in KeySet /\ l \in Filter /\ Mirrored(l)
    BY <1>3, <1>9, <1>10 DEF MirrorExact
  <2>2. LastSaid(v, l) = IF of = b /\ l = k THEN {e} ELSE LastSaid(w, l)
    <3>1. LastSaid(v, l) = LastOf(Pending(v), w.got, l) /\ LastSaid(w, l) = LastOf(Pending(w), w.got, l)
      BY <1>9, LastSaidIsLastOf
    <3>2. CASE of = b /\ k \in Filter
      <4>1. Pending(v) = Append(Pending(w), e)
        BY <1>1, <2>1, <3>2
      <4>2. LastOf(Append(Pending(w), e), w.got, l) =
              IF e.key = l THEN {e} ELSE LastOf(Pending(w), w.got, l)
        <5>1. Pending(w) \in Seq(Entry) /\ e \in Entry
          BY <1>2, <1>9
        <5> QED
          BY <5>1, LastOfAppend
      <4> QED
        BY <1>2, <3>1, <3>2, <4>1, <4>2
    <3>3. CASE ~ (of = b /\ k \in Filter)
      <4>1. Pending(v) = Pending(w)
        BY <1>1, <3>3
      <4> QED
        BY <2>1, <3>1, <3>3, <4>1
    <3> QED
      BY <3>2, <3>3
  <2>3. CASE of = b /\ l = k
    <3>1. LastSaid(v, l) = {e}
      BY <2>2, <2>3
    <3>2. CASE h = <<>>
      <4>1. ~Exists(of, l)' /\ e.deleted
        BY <1>2, <1>5, <1>9, <2>3, <3>2 DEF Exists
      <4> QED
        BY <3>1, <4>1, <1>9 DEF Mirrored, Exists
    <3>3. CASE h # <<>>
      <4>1. keys'[of'][l] # <<>> /\ Last(keys'[of'][l]) = e
        BY <1>5, <1>9, <2>3, <3>3 DEF Exists, Current
      <4> QED
        BY <3>1, <4>1 DEF Mirrored, Exists, Current
    <3> QED
      BY <3>2, <3>3
  <2>4. CASE of # b \/ l # k
    <3>1. LastSaid(v, l) = LastSaid(w, l)
      BY <2>2, <2>4
    <3>2. keys'[of'][l] = keys[of][l] /\ (l \in old[of] => l \in old'[of'])
      BY <1>1, <1>9, <2>1, <2>4
    <3> QED
      BY <2>1, <3>1, <3>2 DEF Mirrored, Exists, Current, Expired
  <2> QED
    BY <2>3, <2>4
<1>13. DeletedStops'
  BY <1>3, <1>9 DEF DeletedStops
<1> QED
  BY <1>1, <1>6, <1>7, <1>8, <1>11, <1>12, <1>13 DEF Inv

(* append keeps the newest entries, the new one the last of them.          *)
LEMMA TrimKeepsNewest ==
    ASSUME NEW s \in Seq(Entry), NEW e \in Entry
    PROVE  LET h == Trim(Append(s, e)) IN
           h \in Seq(Entry) /\ h # <<>> /\ Last(h) = e /\ Len(h) <= Kept
<1> DEFINE a == Append(s, e)
           n == Len(a)
<1>0. Kept \in Nat /\ Kept >= 1
  BY KeptIsPositive
<1>1. a \in Seq(Entry) /\ n \in Nat /\ n >= 1 /\ a[n] = e /\ DOMAIN a = 1 .. n
  OBVIOUS
<1> HIDE DEF a, n
<1>2. CASE n > Kept
  <2>1. PICK m \in Nat : m = n - Kept + 1
    BY <1>0, <1>1, <1>2
  <2>2. m <= n /\ n - m + 1 = Kept /\ Kept \in 1 .. n - m + 1 /\ m + Kept - 1 = n
    BY <1>0, <1>1, <2>1
  <2> DEFINE h == SubSeq(a, m, n)
  <2>3. \A i \in m .. n : a[i] \in Entry
    <3>1. \A i \in m .. n : i \in 1 .. n
      BY <1>0, <1>1, <1>2, <2>1
    <3> QED
      BY <1>1, <3>1, ElementOfSeq DEF n
  <2>4. h \in Seq(Entry) /\ Len(h) = IF m <= n THEN n - m + 1 ELSE 0
    BY <1>1, <2>3, SubSeqProperties
  <2>5. h[Kept] = a[m + Kept - 1]
    BY <1>1, <2>2, <2>3, SubSeqProperties
  <2>6. Trim(a) = h
    BY <1>2, <2>1 DEF Trim, n
  <2> HIDE DEF h
  <2>7. Len(h) = Kept
    BY <2>2, <2>4
  <2>8. h # <<>>
    BY <1>0, <2>7, EmptySeq
  <2>9. Last(h) = e
    BY <1>1, <2>2, <2>5, <2>7 DEF Last
  <2> QED
    BY <1>0, <2>4, <2>6, <2>7, <2>8, <2>9 DEF a
<1>3. CASE ~ (n > Kept)
  <2>1. Trim(a) = a
    BY <1>3 DEF Trim, n
  <2>2. n <= Kept /\ a # <<>>
    BY <1>0, <1>1, <1>3, EmptySeq DEF n
  <2> QED
    BY <1>1, <2>1, <2>2 DEF Last, a, n
<1> QED
  BY <1>2, <1>3

LEMMA WriteStep ==
    ASSUME Inv, NEW b \in Buckets, NEW k \in KeySet, NEW u \in Nat, NEW x \in BOOLEAN,
           Write(b, k, u, x), updates' = [updates EXCEPT ![b][k] = u],
           UNCHANGED <<bound, made, handle, read, of, late>>
    PROVE  Inv'
<1>1. rev[b] \in Nat /\ keys \in [Buckets -> [KeySet -> Seq(Entry)]]
  BY DEF Inv, Types, BucketTypes
<1>2. PICK e, h : e = NewEntry(b, k, u, x) /\ h = Trim(Append(keys[b][k], e))
  OBVIOUS
<1>3. e \in Entry /\ e.key = k /\ e.rev = rev[b] + 1 /\ e.value = u
  BY <1>1, <1>2 DEF NewEntry, Entry
<1>4. h \in Seq(Entry) /\ h # <<>> /\ Last(h) = e /\ Len(h) <= Kept
  BY <1>1, <1>2, <1>3, TrimKeepsNewest
<1>5. /\ rev' = [rev EXCEPT ![b] = @ + 1]
      /\ keys' = [keys EXCEPT ![b][k] = h]
      /\ old' = [old EXCEPT ![b] = @ \ {k}]
      /\ watcher' = Offered(b, e)
  <2>1. keys' = [keys EXCEPT ![b][k] = Trim(Append(@, NewEntry(b, k, u, x)))]
    BY DEF Write
  <2>2. keys' = [keys EXCEPT ![b][k] = h]
    BY <1>1, <1>2, <2>1
  <2> QED
    BY <1>2, <2>2 DEF Write
<1>6. Stored(b, k, e, h, u)
  BY <1>3, <1>4, <1>5 DEF Stored
<1> QED
  BY <1>6, StoredInv

LEMMA ClientWrites ==
    ASSUME Inv, NEW c \in Clients, NEW k \in KeySet,
           Put(c, k) \/ Create(c, k) \/ DeleteKey(c, k)
    PROVE  Inv'
<1>1. PICK x \in BOOLEAN : handle[c] # 0 /\ Write(handle[c], k, 0, x)
  BY DEF Put, Create, DeleteKey
<1>2. PICK b : b = handle[c]
  OBVIOUS
<1>3. b \in Buckets
  BY <1>1, <1>2, NumbersAssumption DEF Inv, Types, ClientTypes, Buckets
<1>4. updates' = [updates EXCEPT ![b][k] = 0] /\ UNCHANGED <<bound, made, handle, read, of, late>>
  BY <1>2 DEF Put, Create, DeleteKey, Fresh
<1> QED
  BY <1>1, <1>2, <1>3, <1>4, WriteStep

(* The entry updated is the current one, which counts the updates so far.  *)
LEMMA UpdateStep ==
    ASSUME Inv, NEW c \in Clients, Update(c)
    PROVE  Inv'
<1>1. PICK e, b : e = read[c][1] /\ b = handle[c]
  OBVIOUS
<1>2. /\ read[c] # <<>> /\ Live(b, e.key) /\ SameRevision(b, e)
      /\ Write(b, e.key, e.value + 1, FALSE)
      /\ updates' = [updates EXCEPT ![b][e.key] = @ + 1]
      /\ UNCHANGED <<bound, made, handle, read, of, late>>
  BY <1>1 DEF Update
<1>3. e \in Entry /\ e.key \in KeySet /\ e.value \in Nat
  <2>1. read[c] \in Seq(Entry)
    BY DEF Inv, Types, ClientTypes
  <2>2. e \in Entry
    BY <1>1, <1>2, <2>1
  <2> QED
    BY <2>2 DEF Entry
<1>4. b \in Buckets /\ Current(b, e.key) = e
  BY <1>1, <1>2 DEF Inv, ReadsAreCurrent, ReadIsCurrent, SameRevision, Live
<1>5. updates[b][e.key] = e.value
  BY <1>2, <1>3, <1>4 DEF Inv, NoLostUpdate, Live
<1>6. updates' = [updates EXCEPT ![b][e.key] = e.value + 1]
  <2>1. updates \in [Buckets -> [KeySet -> Nat]]
    BY DEF Inv, Types, BucketTypes
  <2> QED
    BY <1>2, <1>3, <1>4, <1>5, <2>1
<1>7. e.value + 1 \in Nat
  BY <1>3
<1> QED
  BY <1>2, <1>3, <1>4, <1>6, <1>7, WriteStep

LEMMA PurgeStep ==
    ASSUME Inv, NEW c \in Clients, NEW k \in KeySet, Purge(c, k)
    PROVE  Inv'
<1>1. PICK b, e : b = handle[c] /\ e = NewEntry(b, k, 0, TRUE)
  OBVIOUS
<1>2. b \in Buckets
  BY <1>1 DEF Inv, Types, ClientTypes, Buckets, Purge
<1>3. rev[b] \in Nat
  BY <1>2 DEF Inv, Types, BucketTypes
<1>4. e \in Entry /\ e.key = k /\ e.rev = rev[b] + 1 /\ e.deleted
  BY <1>1, <1>3 DEF NewEntry, Entry
<1>5. <<>> \in Seq(Entry) /\ Len(<<>>) <= Kept
  BY KeptIsPositive, EmptySeq
<1>6. Stored(b, k, e, <<>>, 0)
  BY <1>1, <1>2, <1>4, <1>5 DEF Stored, Purge, Fresh
<1> QED
  BY <1>6, StoredInv

----------------------------------------------------------------------------
(* Steps that write nothing.  A stream without its first entry is in order *)
(* after what was delivered, that entry included.                          *)
LEMMA DeliveredInOrder ==
    ASSUME NEW q \in Seq(Entry), NEW h \in Entry, NEW g \in SUBSET Entry, NEW n \in Nat,
           Reached(<<h>> \o q, g, n), InOrder(<<h>> \o q, g), NEW d \in SUBSET (g \cup {h})
    PROVE  Reached(q, d, n) /\ InOrder(q, d)
<1> DEFINE m == Len(q)
           p == <<h>> \o q
<1>1. /\ m \in Nat /\ DOMAIN q = 1 .. m /\ DOMAIN p = 1 .. m + 1
      /\ p[1] = h /\ \A i \in 1 .. m : p[i + 1] = q[i]
  OBVIOUS
<1> HIDE DEF m, p
<1>2. 1 \in 1 .. m + 1 /\ \A i \in 1 .. m : i + 1 \in 1 .. m + 1 /\ 1 < i + 1
  BY <1>1
<1>3. Reached(p, g, n) /\ InOrder(p, g)
  BY DEF p
<1>4. (\A i \in 1 .. m : q[i].rev <= n) /\ h.rev <= n
  BY <1>1, <1>2, <1>3 DEF Reached
<1>5. Reached(q, d, n)
  BY <1>1, <1>3, <1>4 DEF Reached
<1>6. ASSUME NEW i \in 1 .. m, NEW j \in 1 .. m, i < j, q[i].key = q[j].key
      PROVE  q[i].rev < q[j].rev
  <2>1. i + 1 < j + 1 /\ i + 1 \in DOMAIN p /\ j + 1 \in DOMAIN p
    BY <1>1, <1>2, <1>6
  <2>2. p[i + 1] = q[i] /\ p[j + 1] = q[j]
    BY <1>1
  <2>3. p[i + 1].rev < p[j + 1].rev
    BY <1>3, <1>6, <2>1, <2>2 DEF InOrder
  <2> QED
    BY <2>2, <2>3
<1>7. ASSUME NEW x \in d, NEW i \in 1 .. m, x.key = q[i].key
      PROVE  x.rev < q[i].rev
  <2>1. CASE x \in g
    BY <1>1, <1>2, <1>3, <1>7, <2>1 DEF InOrder
  <2>2. CASE x = h
    BY <1>1, <1>2, <1>3, <1>7, <2>2 DEF InOrder
  <2> QED
    BY <2>1, <2>2
<1> QED
  BY <1>1, <1>5, <1>6, <1>7 DEF InOrder

(* What the watcher's next stream may be.                                  *)
Moves(w, v) ==
    \/ Pending(v) = Pending(w) /\ v.got = w.got
    \/ \E h \in Entry :
          /\ Pending(w) = <<h>> \o Pending(v)
          /\ \/ v.stopped /\ v.got = w.got
             \/ v.got = {e \in w.got : e.key # h.key} \cup {h}

LEMMA QuietStep ==
    ASSUME Inv, UNCHANGED <<rev, keys, updates, of>>,
           Types', ReadsAreCurrent', DeletedStops',
           \A b \in Buckets : old[b] \subseteq old'[b],
           ~Running(watcher) => watcher' = watcher, watcher.stopped => watcher'.stopped,
           Moves(watcher, watcher')
    PROVE  Inv'
<1>1. EntriesAreOwn' /\ NoLostUpdate'
  BY DEF Inv, EntriesAreOwn, NoLostUpdate, Exists, Current
<1>2. PICK w, v : w = watcher /\ v = watcher'
  OBVIOUS
<1>3. /\ Pending(w) \in Seq(Entry) /\ w.got \in SUBSET Entry
      /\ Pending(v) \in Seq(Entry) /\ v.got \in SUBSET Entry
  BY <1>2, PendingType DEF Inv, Types, WatchTypes
<1>4. InOrder(Pending(w), w.got)
  BY <1>2, StreamInOrderIs DEF Inv
<1>5. ASSUME Running(w) PROVE of \in Buckets /\ rev[of] \in Nat /\ Reached(Pending(w), w.got, rev[of])
  BY <1>2, <1>5 DEF Inv, StreamReached, Types, WatchTypes, BucketTypes
<1>6. Moves(w, v)
  BY <1>2
<1>7. \A x \in Entry : x.rev \in Nat
  BY DEF Entry
<1>8. ASSUME NEW n \in Nat, Reached(Pending(w), w.got, n)
      PROVE  Reached(Pending(v), v.got, n) /\ InOrder(Pending(v), v.got)
  <2>1. CASE Pending(v) = Pending(w) /\ v.got = w.got
    BY <1>4, <1>8, <2>1
  <2>2. ASSUME NEW h \in Entry, Pending(w) = <<h>> \o Pending(v),
               v.got = w.got \/ v.got = {e \in w.got : e.key # h.key} \cup {h}
        PROVE  Reached(Pending(v), v.got, n) /\ InOrder(Pending(v), v.got)
    <3>1. v.got \in SUBSET (w.got \cup {h})
      BY <2>2
    <3> QED
      BY <1>3, <1>4, <1>8, <2>2, <3>1, DeliveredInOrder
  <2> QED
    BY <1>6, <2>1, <2>2 DEF Moves
<1>9. StreamInOrder' /\ StreamReached'
  <2>1. CASE Running(w)
    <3>1. Reached(Pending(v), v.got, rev'[of']) /\ InOrder(Pending(v), v.got)
      BY <1>5, <1>8, <2>1
    <3> QED
      BY <1>2, <3>1 DEF StreamReached, StreamInOrder, InOrder
  <2>2. CASE ~Running(w)
    <3>1. watcher' = watcher /\ ~Running(watcher)
      BY <1>2, <2>2
    <3> QED
      BY <3>1 DEF Inv, StreamInOrder, StreamReached
  <2> QED
    BY <2>1, <2>2
<1>10. MirrorExact'
  <2> SUFFICES ASSUME Running(v), ~v.stopped, NEW l \in Filter \cap KeySet
               PROVE  Mirrored(l)'
    BY <1>2 DEF MirrorExact, KeySet
  <2>1. Running(w) /\ ~w.stopped /\ Mirrored(l) /\ of \in Buckets
    BY <1>2, <1>5 DEF Inv, MirrorExact
  <2>2. LastSaid(v, l) = LastSaid(w, l)
    <3>1. LastSaid(v, l) = LastOf(Pending(v), v.got, l) /\ LastSaid(w, l) = LastOf(Pending(w), w.got, l)
      BY LastSaidIsLastOf
    <3>2. CASE Pending(v) = Pending(w) /\ v.got = w.got
      BY <3>1, <3>2
    <3>3. ASSUME NEW h \in Entry, Pending(w) = <<h>> \o Pending(v),
                 v.got = {e \in w.got : e.key # h.key} \cup {h}
          PROVE  LastOf(Pending(v), v.got, l) = LastOf(Pending(w), w.got, l)
      BY <1>3, <3>3, LastOfDelivered
    <3> QED
      BY <1>6, <3>1, <3>2, <3>3 DEF Moves
  <2>3. keys'[of'][l] = keys[of][l] /\ (l \in old[of] => l \in old'[of'])
    BY <2>1
  <2> QED
    BY <1>2, <2>1, <2>2, <2>3 DEF Mirrored, Exists, Current, Expired
<1> QED
  BY <1>1, <1>9, <1>10 DEF Inv

LEMMA WatcherSteps ==
    ASSUME Inv, Run \/ Read \/ Stop \/ CloseConn
    PROVE  Inv'
<1>1. UNCHANGED <<bound, made, rev, keys, old, updates, handle, read, of, late>>
  BY DEF Run, Read, Stop, CloseConn, Rest, bucketVars
<1>2. WatcherType(watcher) /\ (Running(watcher) => of \in Buckets) /\ of \in 0 .. MaxBuckets
  BY DEF Inv, Types, WatchTypes
<1>3. /\ WatcherType(watcher') /\ Running(watcher) /\ Moves(watcher, watcher')
      /\ (watcher.stopped => watcher'.stopped)
  <2>1. CASE Pop(watcher, watcher') \/ Woken(watcher, watcher')
    <3>1. Running(watcher)
      BY <2>1 DEF Pop, Woken, Running
    <3> QED
      BY <1>2, <2>1, <3>1, TurnStep DEF Moves, SameWatch
  <2>2. CASE Exit(watcher, watcher')
    BY <1>2, <2>2, ExitStep DEF Moves
  <2>3. CASE Read
    <3>1. PICK h \in Entry :
            /\ WatcherType(watcher') /\ watcher'.stopped = watcher.stopped /\ Running(watcher)
            /\ Pending(watcher) = <<h>> \o Pending(watcher')
            /\ watcher'.got = {e \in watcher.got : e.key # h.key} \cup {h}
      BY <1>2, <2>3, HandStep DEF Read
    <3> QED
      BY <3>1 DEF Moves
  <2>4. CASE Stop \/ CloseConn
    <3>1. PICK x \in {"none", "withdrawn"} : Running(watcher) /\ watcher' = StopWith(watcher, x)
      BY <2>4 DEF Stop, CloseConn
    <3> QED
      BY <1>2, <3>1, StopStep DEF Moves
  <2> QED
    BY <2>1, <2>2, <2>3, <2>4 DEF Run
<1>4. Types'
  BY <1>1, <1>2, <1>3 DEF Inv, Types, BucketTypes, ClientTypes, WatchTypes
<1>5. ReadsAreCurrent'
  BY <1>1 DEF Inv, ReadsAreCurrent, ReadIsCurrent, Exists, Current
<1>6. DeletedStops'
  BY <1>1, <1>3 DEF Inv, DeletedStops
<1> QED
  BY <1>1, <1>3, <1>4, <1>5, <1>6, QuietStep

LEMMA BucketSteps ==
    ASSUME Inv, Declare \/ DeleteBucket
    PROVE  Inv'
<1>1. UNCHANGED <<rev, keys, old, updates, handle, read, of, late>>
  BY DEF Declare, DeleteBucket
<1>2. WatcherType(watcher) /\ (Running(watcher) => of \in Buckets) /\ of \in 0 .. MaxBuckets
  BY DEF Inv, Types, WatchTypes
<1>3. bound' \in 0 .. MaxBuckets /\ made' \in 0 .. MaxBuckets
  BY NumbersAssumption DEF Declare, DeleteBucket, Inv, Types, BucketTypes
<1>4. /\ WatcherType(watcher') /\ Moves(watcher, watcher') /\ (Running(watcher') <=> Running(watcher))
      /\ (watcher.stopped => watcher'.stopped) /\ (~Running(watcher) => watcher' = watcher)
      /\ (Running(watcher) /\ watcher' # watcher => watcher'.stopped)
  <2>1. CASE watcher' = watcher
    BY <1>2, <2>1 DEF Moves
  <2>2. CASE watcher' = StopWith(watcher, "withdrawn")
    <3>1. ~Running(watcher) => watcher' = watcher
      BY <2>2 DEF StopWith
    <3> QED
      BY <1>2, <2>2, <3>1, StopStep DEF Moves
  <2> QED
    BY <2>1, <2>2 DEF Declare, DeleteBucket
<1>5. Types'
  BY <1>1, <1>2, <1>3, <1>4 DEF Inv, Types, BucketTypes, ClientTypes, WatchTypes
<1>6. ReadsAreCurrent'
  BY <1>1 DEF Inv, ReadsAreCurrent, ReadIsCurrent, Exists, Current
<1>7. DeletedStops'
  <2> SUFFICES ASSUME Running(watcher'), of # bound', ~late PROVE watcher'.stopped
    BY <1>1 DEF DeletedStops
  <2>1. Running(watcher) /\ of # 0
    BY <1>2, <1>4 DEF Buckets
  <2>2. CASE of # bound
    BY <1>4, <2>1, <2>2 DEF Inv, DeletedStops
  <2>3. CASE of = bound
    <3>1. watcher' = StopWith(watcher, "withdrawn")
      BY <2>1, <2>3 DEF Declare, DeleteBucket
    <3> QED
      BY <1>2, <2>1, <3>1, StopStep
  <2> QED
    BY <2>2, <2>3
<1> QED
  BY <1>1, <1>4, <1>5, <1>6, <1>7, QuietStep

LEMMA ClientReads ==
    ASSUME Inv, NEW c \in Clients,
           Open(c) \/ \E k \in KeySet : Get(c, k)
    PROVE  Inv'
<1>1. UNCHANGED <<bound, made, rev, keys, old, updates, watcher, of, late>>
  BY DEF Open, Get, bucketVars
<1>2. handle \in [Clients -> 0 .. MaxBuckets] /\ read \in [Clients -> Seq(Entry)]
      /\ (\A d \in Clients : Len(read[d]) <= 1) /\ bound \in 0 .. MaxBuckets
      /\ <<>> \in Seq(Entry) /\ Len(<<>>) = 0
  BY EmptySeq DEF Inv, Types, ClientTypes, BucketTypes
<1>3. ClientTypes' /\ ReadsAreCurrent'
  <2>1. CASE Open(c)
    <3>1. handle' = [handle EXCEPT ![c] = bound] /\ read' = [read EXCEPT ![c] = <<>>]
      BY <2>1 DEF Open
    <3>2. handle' \in [Clients -> 0 .. MaxBuckets] /\ read' \in [Clients -> Seq(Entry)]
      BY <1>2, <3>1
    <3>3. \A d \in Clients : IF d = c THEN read'[d] = <<>> ELSE read'[d] = read[d] /\ handle'[d] = handle[d]
      BY <1>2, <3>1
    <3>4. \A d \in Clients : Len(read'[d]) <= 1
      BY <1>2, <3>3
    <3>5. ReadsAreCurrent'
      BY <1>1, <3>3 DEF Inv, ReadsAreCurrent, ReadIsCurrent, Exists, Current
    <3> QED
      BY <3>2, <3>4, <3>5 DEF ClientTypes
  <2>2. ASSUME NEW k \in KeySet, Get(c, k) PROVE ClientTypes' /\ ReadsAreCurrent'
    <3>1. PICK b, e : b = handle[c] /\ e = Current(b, k)
      OBVIOUS
    <3>2. read' = [read EXCEPT ![c] = <<e>>] /\ handle' = handle /\ b \in Buckets /\ Exists(b, k)
      BY <1>2, <2>2, <3>1, NumbersAssumption DEF Get, Live, Buckets
    <3>3. keys[b][k] \in Seq(Entry) /\ keys[b][k] # <<>>
      BY <3>2 DEF Exists, Inv, Types, BucketTypes
    <3>4. e \in Entry /\ e.key = k /\ e.rev <= rev[b]
      <4>1. keys[b][k][Len(keys[b][k])] \in Entry
        BY <3>3
      <4> QED
        BY <3>1, <3>2, <4>1 DEF Current, Last, Inv, EntriesAreOwn
    <3>5. <<e>> \in Seq(Entry) /\ Len(<<e>>) = 1 /\ <<e>>[1] = e
      BY <3>4
    <3>6. read' \in [Clients -> Seq(Entry)]
      BY <1>2, <3>2, <3>5
    <3>7. \A d \in Clients : IF d = c THEN read'[d] = <<e>> ELSE read'[d] = read[d]
      BY <1>2, <3>2
    <3>8. ASSUME NEW d \in Clients PROVE Len(read'[d]) <= 1
      <4>1. CASE d = c
        <5>1. Len(read'[d]) = 1
          BY <3>5, <3>7, <4>1
        <5> QED
          BY <5>1
      <4>2. CASE d # c
        BY <1>2, <3>7, <4>2
      <4> QED
        BY <4>1, <4>2
    <3>9. ReadIsCurrent(b, e)
      BY <3>1, <3>2, <3>4 DEF ReadIsCurrent
    <3>10. ASSUME NEW d \in Clients, read'[d] # <<>>
           PROVE  ReadIsCurrent(handle[d], read'[d][1])
      <4>1. CASE d = c
        BY <3>1, <3>5, <3>7, <3>9, <4>1
      <4>2. CASE d # c
        BY <3>7, <3>10, <4>2 DEF Inv, ReadsAreCurrent
      <4> QED
        BY <4>1, <4>2
    <3>11. ReadsAreCurrent'
      BY <1>1, <3>2, <3>10 DEF ReadsAreCurrent, ReadIsCurrent, Exists, Current
    <3> QED
      BY <1>2, <3>2, <3>6, <3>8, <3>11 DEF ClientTypes
  <2> QED
    BY <2>1, <2>2
<1>4. Types' /\ DeletedStops'
  BY <1>1, <1>3 DEF Inv, Types, BucketTypes, WatchTypes, DeletedStops
<1>5. Moves(watcher, watcher')
  BY <1>1 DEF Moves
<1> QED
  BY <1>1, <1>3, <1>4, <1>5, QuietStep

LEMMA ExpireStep ==
    ASSUME Inv, NEW b \in Buckets, NEW k \in KeySet, Expire(b, k)
    PROVE  Inv'
<1>1. UNCHANGED <<bound, made, rev, keys, updates, handle, read, watcher, of, late>>
      /\ old' = [old EXCEPT ![b] = @ \cup {k}]
  BY DEF Expire
<1>2. old' \in [Buckets -> SUBSET KeySet] /\ \A c \in Buckets : old[c] \subseteq old'[c]
  BY <1>1 DEF Inv, Types, BucketTypes
<1>3. Types' /\ DeletedStops'
  BY <1>1, <1>2 DEF Inv, Types, BucketTypes, ClientTypes, WatchTypes, DeletedStops
<1>4. ReadsAreCurrent'
  BY <1>1 DEF Inv, ReadsAreCurrent, ReadIsCurrent, Exists, Current
<1>5. Moves(watcher, watcher')
  BY <1>1 DEF Moves
<1> QED
  BY <1>1, <1>2, <1>3, <1>4, <1>5, QuietStep

(* Watch: the snapshot mirrors the bucket, and holds an entry per key.     *)
LEMMA WatchStep ==
    ASSUME Inv, NEW c \in Clients, Watch(c)
    PROVE  Inv'
<1>1. PICK b, q, v : b = handle[c] /\ q = Snapshot(b) /\ v = watcher'
  OBVIOUS
<1>2. /\ UNCHANGED <<bound, made, rev, keys, old, updates, handle, read>>
      /\ v = Started(q) /\ of' = b /\ (late' <=> b # bound) /\ b # 0
  BY <1>1 DEF Watch, bucketVars
<1>3. b \in Buckets /\ b \in 0 .. MaxBuckets
  BY <1>1, <1>2, NumbersAssumption DEF Inv, Types, ClientTypes, Buckets
<1>4. OwnKeys(b)
  <2> SUFFICES ASSUME NEW k \in KeySet, Exists(b, k)
               PROVE  Current(b, k) \in Entry /\ Current(b, k).key = k
    BY DEF OwnKeys
  <2>1. keys[b][k] \in Seq(Entry) /\ keys[b][k] # <<>>
    BY <1>3 DEF Inv, Types, BucketTypes, Exists
  <2>2. keys[b][k][Len(keys[b][k])] \in Entry
    BY <2>1
  <2> QED
    BY <1>3, <2>2 DEF Current, Last, Inv, EntriesAreOwn
<1>5. /\ q \in Seq(Entry)
      /\ \A i \in DOMAIN q : \E k \in KeySet \cap Filter : Live(b, k) /\ q[i] = Current(b, k)
      /\ \A k \in KeySet \cap Filter : Live(b, k) => \E i \in DOMAIN q : q[i] = Current(b, k)
      /\ \A i, j \in DOMAIN q : q[i].key = q[j].key => i = j
  BY <1>1, <1>4, SnapshotFacts
<1>6. /\ v \in Watchers /\ v.loop = "top" /\ v.hand = <<>> /\ v.queue = q /\ v.got = {}
      /\ v.stopped = FALSE
  <2>1. Off \in Watchers /\ Off.hand = <<>> /\ Off.got = {} /\ Off.stopped = FALSE
    BY EmptySeq DEF Off, Watchers, Loops
  <2> QED
    BY <1>2, <1>5, <2>1 DEF Started, Watchers, Loops
<1>7. WatcherType(v) /\ Running(v) /\ Pending(v) = q
  BY <1>5, <1>6 DEF WatcherType, Running, Pending
<1>8. Types'
  <2>1. WatchTypes'
    BY <1>1, <1>2, <1>3, <1>7 DEF WatchTypes
  <2> QED
    BY <1>2, <2>1 DEF Inv, Types, BucketTypes, ClientTypes
<1>9. EntriesAreOwn' /\ ReadsAreCurrent' /\ NoLostUpdate'
  BY <1>2 DEF Inv, EntriesAreOwn, ReadsAreCurrent, ReadIsCurrent, NoLostUpdate, Exists, Current
<1>10. Reached(q, {}, rev[b])
  <2>1. \A k \in KeySet : Live(b, k) => Current(b, k).rev <= rev[b]
    BY <1>3 DEF Live, Inv, EntriesAreOwn
  <2> QED
    BY <1>5, <2>1 DEF Reached
<1>11. InOrder(q, {})
  <2>1. \A i, j \in DOMAIN q : i < j => i # j
    BY <1>5
  <2> QED
    BY <1>5, <2>1 DEF InOrder
<1>12. StreamReached' /\ StreamInOrder'
  BY <1>1, <1>2, <1>6, <1>7, <1>10, <1>11 DEF StreamReached, StreamInOrder, InOrder
<1>13. MirrorExact'
  <2> SUFFICES ASSUME NEW k \in Filter \cap KeySet PROVE Mirrored(k)'
    BY DEF MirrorExact, KeySet
  <2>1. LastSaid(v, k) = LastOf(q, {}, k)
    BY <1>6, <1>7, LastSaidIsLastOf
  <2>2. CASE Live(b, k)
    <3>1. PICK i \in DOMAIN q : q[i] = Current(b, k)
      BY <1>5, <2>2
    <3>2. q[i].key = k
      BY <1>4, <2>2, <3>1 DEF OwnKeys, Live
    <3>3. LastSaid(v, k) = {Current(b, k)}
      BY <1>5, <2>1, <3>1, <3>2, LastOfDistinct
    <3> QED
      BY <1>1, <1>2, <2>2, <3>3 DEF Mirrored, Live, Exists, Current
  <2>3. CASE ~Live(b, k)
    <3>1. ASSUME NEW i \in DOMAIN q PROVE q[i].key # k
      <4>1. PICK l \in KeySet : Live(b, l) /\ q[i] = Current(b, l)
        BY <1>5
      <4> QED
        BY <1>4, <2>3, <4>1 DEF OwnKeys, Live
    <3>2. LastSaid(v, k) = {}
      BY <1>5, <2>1, <3>1, LastOfDistinct
    <3> QED
      BY <1>1, <1>2, <2>3, <3>2 DEF Mirrored, Live, Exists, Current, Expired
  <2> QED
    BY <2>2, <2>3
<1>14. DeletedStops'
  BY <1>2 DEF DeletedStops
<1> QED
  BY <1>8, <1>9, <1>12, <1>13, <1>14 DEF Inv

----------------------------------------------------------------------------
LEMMA InvStep == Inv /\ [Next]_vars => Inv'
<1> SUFFICES ASSUME Inv, [Next]_vars PROVE Inv'
  OBVIOUS
<1>1. CASE Declare \/ DeleteBucket
  BY <1>1, BucketSteps
<1>2. ASSUME NEW c \in Clients, Open(c) \/ \E k \in KeySet : Get(c, k) PROVE Inv'
  BY <1>2, ClientReads
<1>3. ASSUME NEW c \in Clients, NEW k \in KeySet, Put(c, k) \/ Create(c, k) \/ DeleteKey(c, k)
      PROVE  Inv'
  BY <1>3, ClientWrites
<1>4. ASSUME NEW c \in Clients, NEW k \in KeySet, Purge(c, k) PROVE Inv'
  BY <1>4, PurgeStep
<1>5. ASSUME NEW c \in Clients, Update(c) PROVE Inv'
  BY <1>5, UpdateStep
<1>6. ASSUME NEW c \in Clients, Watch(c) PROVE Inv'
  BY <1>6, WatchStep
<1>7. CASE Run \/ Read \/ Stop \/ CloseConn
  BY <1>7, WatcherSteps
<1>8. ASSUME NEW b \in Buckets, NEW k \in KeySet, Expire(b, k) PROVE Inv'
  BY <1>8, ExpireStep
<1>9. CASE UNCHANGED vars
  BY <1>9 DEF vars, bucketVars, Inv, Types, BucketTypes, ClientTypes, WatchTypes, EntriesAreOwn,
     ReadsAreCurrent, ReadIsCurrent, NoLostUpdate, StreamReached, StreamInOrder, MirrorExact,
     Mirrored, DeletedStops, Exists, Current, Expired
<1> QED
  BY <1>1, <1>2, <1>3, <1>4, <1>5, <1>6, <1>7, <1>8, <1>9 DEF Next

(* Whatever clients write, update, delete, purge, let expire or delete and *)
(* declare again, no update is lost, the watcher's stream is in order,     *)
(* ends with the bucket as it is and stops with it (Update, append, Watch, *)
(* Delete), for every set of clients and keys, filter, history and number  *)
(* of incarnations, and however many writes there are.                     *)
THEOREM BucketsAreFaithful == Spec => []BucketIsFaithful
<1>1. Init => Inv
  BY InvInit
<1>2. Inv /\ [Next]_vars => Inv'
  BY InvStep
<1>3. Inv => BucketIsFaithful
  BY InvImplies
<1> QED
  BY <1>1, <1>2, <1>3, PTL DEF Spec
=============================================================================
