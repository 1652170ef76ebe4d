------------------------ MODULE RequestReply_proofs ------------------------
(***************************************************************************)
(* A call gets the first answer to itself or none, for every set of        *)
(* callers, endpoints and groups and every number of calls, answers and    *)
(* restarts, where no two connections are of one plugin.                   *)
(*                                                                         *)
(* The inductive invariant follows the name of a reply inbox from the call *)
(* that made it to the copies that carry it: a connection has given no     *)
(* name beyond its counter, so the next name is new, and a copy that is    *)
(* addressed to a call in progress is of that call.                        *)
(***************************************************************************)
EXTENDS RequestReply, FiniteSetTheorems, WellFoundedInduction, TLAPS

----------------------------------------------------------------------------
(* Induction over the positions of Endpoints, from the least natural for   *)
(* which a statement fails.                                                *)
LEMMA LeastNatural ==
    ASSUME NEW T \in SUBSET Nat, T # {}
    PROVE  \E x \in T : \A y \in T : x <= y
<1>1. PICK x \in T : \A y \in T : ~ (<<y, x>> \in OpToRel(<, Nat))
  BY NatLessThanWellFounded, WFMin
<1>2. \A y \in T : ~ (y < x)
  BY <1>1 DEF OpToRel
<1>3. \A y \in T : x <= y
  BY <1>2
<1> QED
  BY <1>3

LEMMA Induction ==
    ASSUME NEW N \in Nat, NEW G, 0 \in G,
           \A n \in 1 .. N : n - 1 \in G => n \in G
    PROVE  \A n \in 0 .. N : n \in G
<1> DEFINE T == {n \in 0 .. N : n \notin G}
<1> SUFFICES ASSUME T # {} PROVE FALSE
  OBVIOUS
<1>1. PICK x \in T : \A y \in T : x <= y
  <2>1. T \in SUBSET Nat
    OBVIOUS
  <2> QED
    BY <2>1, LeastNatural
<1>2. x \in 1 .. N /\ x \notin G
  BY <1>1
<1>3. x - 1 \in 0 .. N /\ ~ (x <= x - 1)
  BY <1>2
<1> QED
  BY <1>1, <1>2, <1>3

----------------------------------------------------------------------------
(* matchLocked's list of a group: its live members, each once.             *)
Ups(n, S, f) ==
    f = [i \in 0 .. n |->
           IF i = 0 THEN <<>>
           ELSE IF Endpoints[i] \in S THEN Append(f[i - 1], Endpoints[i]) ELSE f[i - 1]]

LEMMA EndpointsAreFinite ==
    /\ Len(Endpoints) \in Nat /\ DOMAIN Endpoints = 1 .. Len(Endpoints)
    /\ Ends = {Endpoints[i] : i \in 1 .. Len(Endpoints)}
    /\ \A i, j \in 1 .. Len(Endpoints) : Endpoints[i] = Endpoints[j] => i = j
BY EndpointsAssumption DEF Ends, Range

LEMMA UpsExist ==
    ASSUME NEW S
    PROVE  \E f : Ups(Len(Endpoints), S, f)
<1> DEFINE N == Len(Endpoints)
           G == {n \in 0 .. N : \E f : Ups(n, S, f)}
<1>0. N \in Nat
  BY EndpointsAreFinite
<1> HIDE DEF N
<1>1. 0 \in G
  <2>1. Ups(0, S, [i \in 0 .. 0 |-> <<>>])
    BY DEF Ups
  <2> QED
    BY <1>0, <2>1
<1>2. ASSUME NEW n \in 1 .. N, n - 1 \in G PROVE n \in G
  <2>1. PICK f : Ups(n - 1, S, f)
    BY <1>2
  <2> DEFINE x == IF Endpoints[n] \in S THEN Append(f[n - 1], Endpoints[n]) ELSE f[n - 1]
             h == [i \in 0 .. n |-> IF i = n THEN x ELSE f[i]]
  <2> HIDE DEF x
  <2>2. n \in Nat /\ n # 0 /\ \A i \in 0 .. n - 1 : h[i] = f[i] /\ i \in 0 .. n
    BY <1>0
  <2>3. ASSUME NEW i \in 0 .. n
        PROVE  h[i] = IF i = 0 THEN <<>>
                      ELSE IF Endpoints[i] \in S THEN Append(h[i - 1], Endpoints[i]) ELSE h[i - 1]
    <3>1. CASE i = n
      <4>1. h[n] = x /\ n # 0 /\ h[n - 1] = f[n - 1]
        BY <2>2
      <4> QED
        BY <3>1, <4>1 DEF x
    <3>2. CASE i \in 0 .. n - 1
      <4>1. i = 0 \/ i - 1 \in 0 .. n - 1
        BY <2>2, <3>2
      <4>2. f[i] = IF i = 0 THEN <<>>
                   ELSE IF Endpoints[i] \in S THEN Append(f[i - 1], Endpoints[i]) ELSE f[i - 1]
        BY <2>1, <3>2 DEF Ups
      <4> QED
        BY <2>2, <3>2, <4>1, <4>2
    <3> QED
      BY <2>2, <3>1, <3>2
  <2>4. Ups(n, S, h)
    BY <2>3 DEF Ups
  <2> HIDE DEF h
  <2>5. \E y : Ups(n, S, y)
    BY <2>4
  <2>6. n \in 0 .. N
    BY <1>0
  <2> QED
    BY <2>5, <2>6
<1> HIDE DEF G
<1>3. \A n \in 0 .. N : n \in G
  BY <1>0, <1>1, <1>2, Induction
<1>4. N \in G
  BY <1>0, <1>3
<1> QED
  BY <1>4 DEF G, N

LEMMA ListedIsLastUp ==
    ASSUME NEW S
    PROVE  \E f : Ups(Len(Endpoints), S, f) /\ Listed(S) = f[Len(Endpoints)]
<1> DEFINE h == CHOOSE h : h = [i \in 0 .. Len(Endpoints) |->
               IF i = 0 THEN <<>>
               ELSE IF Endpoints[i] \in S THEN Append(h[i - 1], Endpoints[i]) ELSE h[i - 1]]
<1>0. \E g : Ups(Len(Endpoints), S, g)
  BY UpsExist
<1>1. Ups(Len(Endpoints), S, h)
  BY <1>0 DEF Ups
<1>2. Listed(S) = h[Len(Endpoints)]
  BY DEF Listed
<1> HIDE DEF h
<1> QED
  BY <1>1, <1>2

Lists(s, S) ==
    /\ s \in Seq(Ends)
    /\ \A i, j \in DOMAIN s : s[i] = s[j] => i = j
    /\ {s[i] : i \in DOMAIN s} = S

LEMMA ListedFacts ==
    ASSUME NEW S
    PROVE  Lists(Listed(S), Ends \cap S)
<1> DEFINE N == Len(Endpoints)
           E == Endpoints
<1>0. N \in Nat /\ (\A i \in 1 .. N : E[i] \in Ends) /\ (\A i, j \in 1 .. N : E[i] = E[j] => i = j)
      /\ Ends = {E[i] : i \in 1 .. N}
  BY EndpointsAreFinite
<1>1. PICK f : Ups(N, S, f) /\ Listed(S) = f[N]
  BY ListedIsLastUp
<1> HIDE DEF N, E
<1> DEFINE Of(n) == {E[j] : j \in {j \in 1 .. n : E[j] \in S}}
           G == {n \in 0 .. N : Lists(f[n], Of(n))}
<1>2. \A n \in 0 .. N :
         f[n] = IF n = 0 THEN <<>>
                ELSE IF E[n] \in S THEN Append(f[n - 1], E[n]) ELSE f[n - 1]
  BY <1>1 DEF Ups, E
<1>3. 0 \in G
  <2>1. 0 \in 0 .. N /\ f[0] = <<>>
    BY <1>0, <1>2
  <2>2. <<>> \in Seq(Ends) /\ DOMAIN (<<>>) = {} /\ 1 .. 0 = {}
    OBVIOUS
  <2> QED
    BY <2>1, <2>2 DEF Lists
<1>4. ASSUME NEW n \in 1 .. N, n - 1 \in G PROVE n \in G
  <2> DEFINE s == f[n - 1]
             t == f[n]
  <2>1. Lists(s, Of(n - 1)) /\ n \in 0 .. N /\ n # 0 /\ n \in Nat
    BY <1>0, <1>4
  <2>2. t = IF E[n] \in S THEN Append(s, E[n]) ELSE s
    BY <1>2, <2>1
  <2>3. \A j \in 1 .. n : j = n \/ j \in 1 .. n - 1
    BY <2>1
  <2>4. n \in 1 .. n /\ \A j \in 1 .. n - 1 : j \in 1 .. n /\ j # n /\ j \in 1 .. N
    BY <1>0, <2>1
  <2> HIDE DEF s, t
  <2>5. CASE ~E[n] \in S
    <3>1. Of(n) = Of(n - 1)
      BY <2>3, <2>4, <2>5
    <3> QED
      BY <2>1, <2>2, <2>5, <3>1 DEF t
  <2>6. CASE E[n] \in S
    <3>1. Of(n) = Of(n - 1) \cup {E[n]}
      BY <2>3, <2>4, <2>6
    <3>2. E[n] \notin Of(n - 1)
      BY <1>0, <2>4
    <3> DEFINE m == Len(s)
    <3>3. /\ m \in Nat /\ DOMAIN s = 1 .. m /\ t \in Seq(Ends) /\ DOMAIN t = 1 .. m + 1
          /\ t[m + 1] = E[n] /\ \A i \in 1 .. m : t[i] = s[i]
      BY <1>0, <2>1, <2>2, <2>6 DEF Lists
    <3>4. m + 1 \in 1 .. m + 1 /\ (\A i \in 1 .. m : i \in 1 .. m + 1)
          /\ (\A i \in 1 .. m + 1 : i = m + 1 \/ i \in 1 .. m)
      BY <3>3
    <3>5. {s[i] : i \in 1 .. m} = Of(n - 1) /\ (\A i, j \in 1 .. m : s[i] = s[j] => i = j)
      BY <2>1, <3>3 DEF Lists
    <3> HIDE DEF m, Of
    <3>6. {t[i] : i \in 1 .. m + 1} = Of(n)
      BY <3>1, <3>3, <3>4, <3>5
    <3>7. \A i, j \in 1 .. m + 1 : t[i] = t[j] => i = j
      BY <3>2, <3>3, <3>4, <3>5
    <3> QED
      BY <2>1, <3>3, <3>6, <3>7 DEF Lists, t
  <2> QED
    BY <2>5, <2>6
<1> HIDE DEF G
<1>5. \A n \in 0 .. N : n \in G
  BY <1>0, <1>3, <1>4, Induction
<1>6. N \in G
  BY <1>0, <1>5
<1>7. Lists(Listed(S), Of(N))
  BY <1>1, <1>6 DEF G
<1>8. Of(N) = Ends \cap S
  BY <1>0
<1> QED
  BY <1>7, <1>8

----------------------------------------------------------------------------
(* The invariant.  No two connections are of one plugin: with two, the     *)
(* names of their inboxes are the same.                                    *)
OneConnEach == \A c, d \in Conns : PluginOf[c] = PluginOf[d] => c = d

Steps == {"idle", "register", "match", "enqueue", "wait", "cleanup"}
Results == [kind : Outcomes, from : SUBSET Answer]
Sends == [to : Calls, n : Nat, msg : Answer]

StoreTypes ==
    /\ gen \in 0 .. MaxGen
    /\ connGen \in [Conns -> 0 .. MaxGen]
    /\ inboxN \in [Conns -> Nat]
    /\ DOMAIN inboxes \subseteq Names
    /\ \A n \in DOMAIN inboxes : inboxes[n] \in Calls
CallTypes ==
    /\ callerPc \in [Callers -> Steps]
    /\ round \in [Callers -> 0 .. MaxCalls]
    /\ reply \in [Callers -> Names \cup {<<>>}]
    /\ targets \in [Callers -> SUBSET Ends]
    /\ returned \in [Calls -> Results]
    /\ delivered \in [Calls -> SUBSET Ends]
EndTypes ==
    /\ group \in [Ends -> Range(group)]
    /\ rr \in [Range(group) -> Nat]
    /\ ep \in [Ends -> {"live", "unlisted", "finished"}]
    /\ copies \in [Ends -> Seq(Copies)]
    /\ \A e \in Ends : Len(copies[e]) <= PendingLimit
    /\ held \in SUBSET Copies
AnswerTypes ==
    /\ answers \in [Calls \X Ends -> Nat]
    /\ errors \in [Ends -> Nat]
    /\ sending \in SUBSET Sends
    /\ chan \in [Calls -> Seq(Answer)]
    /\ \A x \in Calls : Len(chan[x]) <= 1
    /\ first \in [Calls -> Seq(Answer)]
Types == StoreTypes /\ CallTypes /\ EndTypes /\ AnswerTypes

(* How far a caller is: the call it makes and the ones to come.            *)
Busy(a) == callerPc[a] # "idle"
Unanswered(a, i) == i > round[a] \/ (i = round[a] /\ callerPc[a] \notin {"idle", "cleanup"})
Undelivered(a, i) == i > round[a] \/ (i = round[a] /\ callerPc[a] \in {"register", "match"})
Control ==
    /\ \A a \in Callers : Busy(a) => round[a] >= 1 /\ reply[a] \in Names
    /\ \A a \in Callers : callerPc[a] # "enqueue" => targets[a] = {}
    /\ \A a \in Callers, i \in 1 .. MaxCalls :
          /\ Unanswered(a, i) => returned[<<a, i>>].kind = "none"
          /\ Undelivered(a, i) => delivered[<<a, i>>] = {}

(* The copies of messages in queues and with handlers, and the names that  *)
(* connections have given.                                                 *)
InFlight(m) == m \in held \/ \E e \in Ends : \E i \in DOMAIN copies[e] : copies[e][i] = m
Given(n) ==
    \E c \in Conns :
        /\ n[1] = PluginOf[c] /\ n[2] <= connGen[c]
        /\ n[2] = connGen[c] => n[3] <= inboxN[c]
NamesAreGiven ==
    /\ \A a \in Callers : Busy(a) => Given(reply[a])
    /\ \A m \in Copies : InFlight(m) => Given(m.to)
NamesAreOwn ==
    /\ \A a, b \in Callers : Busy(a) /\ Busy(b) /\ reply[a] = reply[b] => a = b
    /\ \A m \in Copies, a \in Callers : InFlight(m) /\ Busy(a) /\ m.to = reply[a] => m.call = Call(a)

(* Answers are of the call whose channel they are for, and were counted.   *)
Genuine(r, x) ==
    /\ r.call = x
    /\ answers[<<r.call, r.ep>>] > 0
    /\ r.fault => r.ep \in Faulty
AnswersAreGenuine ==
    /\ \A s \in sending : Genuine(s.msg, s.to)
    /\ \A x \in Calls : chan[x] # <<>> => Genuine(chan[x][1], x)
    /\ \A x \in Calls : \A r \in returned[x].from : Genuine(r, x)
FirstIsKept ==
    \A x \in Calls :
        /\ returned[x].kind = "none" => chan[x] = first[x]
        /\ Answered(x) => first[x] # <<>> /\ returned[x].from = {first[x][1]}
Asked(e) == {x \in Calls : answers[<<x, e>>] > 0}
ErrorsCount == \A e \in Ends : e \in Faulty => Cardinality(Asked(e)) <= errors[e]

(* One member of a group, of those reached and those still to be reached.  *)
OnePer(S) == \A e, f \in S : e # f => group[e] = NoGroup \/ group[e] # group[f]
Groupwise ==
    /\ \A x \in Calls : OnePer(delivered[x])
    /\ \A a \in Callers : callerPc[a] = "enqueue" =>
          OnePer(delivered[Call(a)] \cup targets[a]) /\ delivered[Call(a)] \cap targets[a] = {}

(* While nothing ended, the members before the one whose turn it is have   *)
(* one call more than the others.                                          *)
Turned(s, n, q) ==
    \A i \in DOMAIN s : Share(s[i]) = IF i <= n % Len(s) THEN q + 1 ELSE q
SharesFollowTurns ==
    Undisturbed =>
        \A g \in Range(group) \ {NoGroup} :
            Members(g) # <<>> => \E q \in Nat : Turned(Members(g), rr[g], q)

Inv ==
    /\ Types /\ Control /\ NamesAreGiven /\ NamesAreOwn /\ NoInboxLeaks
    /\ AnswersAreGenuine /\ FirstIsKept /\ ErrorsCount /\ Groupwise /\ SharesFollowTurns

LEMMA CallInCalls ==
    ASSUME Inv, NEW a \in Callers, Busy(a)
    PROVE  Call(a) \in Calls /\ round[a] \in 1 .. MaxCalls /\ round[a] \in Nat /\ reply[a] \in Names
BY BoundsAssumption DEF Inv, Types, CallTypes, Control, Calls, Call

----------------------------------------------------------------------------
(* What a step leaves alone.                                               *)

(* Names: no connection takes one back, no caller becomes busy, and a new  *)
(* copy is of the call that makes it.                                      *)
LEMMA NamesKept ==
    ASSUME Inv,
           \A n \in Names : Given(n) => Given(n)',
           \A a \in Callers : Busy(a)' => Busy(a) /\ reply'[a] = reply[a] /\ round'[a] = round[a],
           \A m \in Copies : InFlight(m)' =>
              InFlight(m) \/ \E a \in Callers : Busy(a) /\ m.to = reply[a] /\ m.call = Call(a)
    PROVE  NamesAreGiven' /\ NamesAreOwn'
<1>1. \A a \in Callers : Busy(a) => Given(reply[a]) /\ reply[a] \in Names
  BY DEF Inv, NamesAreGiven, Control
<1>2. \A m \in Copies : m.to \in Names
  BY DEF Copies
<1>3. \A a, b \in Callers : Busy(a) /\ Busy(b) /\ reply[a] = reply[b] => a = b
  BY DEF Inv, NamesAreOwn
<1>4. \A a \in Callers : Busy(a)' => Call(a)' = Call(a)
  BY DEF Call
<1>5. NamesAreGiven'
  <2>1. ASSUME NEW a \in Callers, Busy(a)' PROVE Given(reply[a])'
    <3>1. PICK n \in Names : n = reply[a]
      BY <1>1, <2>1
    <3>2. Given(n)' /\ n = reply'[a]
      BY <1>1, <2>1, <3>1
    <3> QED
      BY <3>2 DEF Given
  <2>2. ASSUME NEW m \in Copies, InFlight(m)' PROVE Given(m.to)'
    <3>1. CASE InFlight(m)
      BY <1>2, <3>1 DEF Inv, NamesAreGiven
    <3>2. CASE \E a \in Callers : Busy(a) /\ m.to = reply[a] /\ m.call = Call(a)
      BY <1>1, <1>2, <3>2
    <3> QED
      BY <2>2, <3>1, <3>2
  <2> QED
    BY <2>1, <2>2 DEF NamesAreGiven
<1>6. NamesAreOwn'
  <2>1. ASSUME NEW m \in Copies, NEW a \in Callers, InFlight(m)', Busy(a)', m.to = reply'[a]
        PROVE  m.call = Call(a)'
    <3>1. m.call = Call(a)
      <4>1. Busy(a) /\ m.to = reply[a]
        BY <2>1
      <4>2. CASE InFlight(m)
        BY <4>1, <4>2 DEF Inv, NamesAreOwn
      <4>3. CASE \E b \in Callers : Busy(b) /\ m.to = reply[b] /\ m.call = Call(b)
        BY <4>1, <4>3, <1>3
      <4> QED
        BY <2>1, <4>2, <4>3
    <3> QED
      BY <2>1, <3>1, <1>4
  <2> QED
    BY <2>1, <1>3 DEF NamesAreOwn
<1> QED
  BY <1>5, <1>6

LEMMA AnswersKept ==
    ASSUME Inv, UNCHANGED <<sending, chan, returned, first, answers, errors>>
    PROVE  AnswersAreGenuine' /\ FirstIsKept' /\ ErrorsCount'
<1>1. \A r, x : Genuine(r, x)' <=> Genuine(r, x)
  BY DEF Genuine
<1>2. \A e : Asked(e)' = Asked(e)
  BY DEF Asked
<1>3. \A x : Answered(x)' <=> Answered(x)
  BY DEF Answered
<1>4. AnswersAreGenuine'
  BY <1>1 DEF Inv, AnswersAreGenuine
<1>5. FirstIsKept'
  BY <1>3 DEF Inv, FirstIsKept
<1>6. ErrorsCount'
  BY <1>2 DEF Inv, ErrorsCount
<1> QED
  BY <1>4, <1>5, <1>6

(* A call that returns without an answer.                                  *)
LEMMA NoAnswerReturned ==
    ASSUME Inv, NEW x \in Calls, NEW k \in {"timeout", "no_responders", "withdrawn"},
           returned' = [returned EXCEPT ![x] = Outcome(k)],
           UNCHANGED <<sending, chan, first, answers, errors>>
    PROVE  /\ AnswersAreGenuine' /\ FirstIsKept' /\ ErrorsCount' /\ returned' \in [Calls -> Results]
           /\ \A y \in Calls : y # x => returned'[y] = returned[y]
<1>1. \A r, y : Genuine(r, y)' <=> Genuine(r, y)
  BY DEF Genuine
<1>2. \A e : Asked(e)' = Asked(e)
  BY DEF Asked
<1>3. returned \in [Calls -> Results]
  BY DEF Inv, Types, CallTypes
<1>4. Outcome(k) \in Results /\ Outcome(k).kind = k /\ Outcome(k).from = {}
  BY DEF Outcome, Results, Outcomes
<1>5. /\ returned'[x] = Outcome(k) /\ returned' \in [Calls -> Results]
      /\ \A y \in Calls : y # x => returned'[y] = returned[y]
  BY <1>3, <1>4
<1>6. AnswersAreGenuine'
  BY <1>1, <1>4, <1>5 DEF Inv, AnswersAreGenuine
<1>7. FirstIsKept'
  BY <1>4, <1>5 DEF Inv, FirstIsKept, Answered
<1>8. ErrorsCount'
  BY <1>2 DEF Inv, ErrorsCount
<1> QED
  BY <1>5, <1>6, <1>7, <1>8

LEMMA GroupsKept ==
    ASSUME Inv, UNCHANGED <<group, delivered, targets>>,
           \A a \in Callers : callerPc'[a] = "enqueue" => callerPc[a] = "enqueue" /\ round'[a] = round[a]
    PROVE  Groupwise'
<1>1. \A S : OnePer(S)' <=> OnePer(S)
  BY DEF OnePer
<1>2. \A a \in Callers : callerPc'[a] = "enqueue" => Call(a)' = Call(a)
  BY DEF Call
<1> QED
  BY <1>1, <1>2 DEF Inv, Groupwise

LEMMA SharesKept ==
    ASSUME Inv, UNCHANGED <<delivered, targets, group, rr, ep, gen>>
    PROVE  SharesFollowTurns'
<1>1. \A e : Share(e)' = Share(e)
  BY DEF Share
<1>2. \A g : Members(g)' = Members(g)
  BY DEF Members
<1>3. \A s, n, q : Turned(s, n, q)' <=> Turned(s, n, q)
  BY <1>1 DEF Turned
<1>4. Undisturbed' <=> Undisturbed
  BY DEF Undisturbed
<1> QED
  BY <1>2, <1>3, <1>4 DEF Inv, SharesFollowTurns

LEMMA InboxesKept ==
    ASSUME Inv, UNCHANGED <<inboxes>>,
           \A a \in Callers : callerPc[a] \notin {"idle", "register"} =>
              callerPc'[a] \notin {"idle", "register"} /\ reply'[a] = reply[a] /\ round'[a] = round[a]
    PROVE  NoInboxLeaks'
BY DEF Inv, NoInboxLeaks, Call

LEMMA ControlKept ==
    ASSUME Inv, UNCHANGED <<callerVars, delivered>>
    PROVE  CallTypes' /\ Control'
BY DEF Inv, Types, CallTypes, Control, Unanswered, Undelivered, Busy, callerVars

(* The copies in flight, when none is made.                                *)
LEMMA FlightKept ==
    ASSUME Inv, UNCHANGED <<copies, held>>
    PROVE  \A m \in Copies : InFlight(m)' => InFlight(m)
BY DEF InFlight

LEMMA GivenKept ==
    ASSUME UNCHANGED <<connGen, inboxN>>
    PROVE  \A n \in Names : Given(n) => Given(n)'
BY DEF Given

(* An endpoint's queue with a message less, or none.                       *)
LEMMA FewerCopies ==
    ASSUME Inv, NEW e \in Ends, NEW q \in Seq(Copies), Len(q) <= Len(copies[e]),
           \A i \in DOMAIN q : \E j \in DOMAIN copies[e] : q[i] = copies[e][j],
           copies' = [copies EXCEPT ![e] = q],
           \A m \in held' : m \in held \/ \E j \in DOMAIN copies[e] : m = copies[e][j],
           held' \in SUBSET Copies
    PROVE  /\ copies' \in [Ends -> Seq(Copies)]
           /\ \A f \in Ends : Len(copies'[f]) <= PendingLimit
           /\ \A m \in Copies : InFlight(m)' => InFlight(m)
<1>1. copies \in [Ends -> Seq(Copies)] /\ (\A f \in Ends : Len(copies[f]) <= PendingLimit)
      /\ PendingLimit \in Nat
  BY BoundsAssumption DEF Inv, Types, EndTypes
<1>2. copies' \in [Ends -> Seq(Copies)] /\ copies'[e] = q
      /\ \A f \in Ends : f # e => copies'[f] = copies[f]
  BY <1>1
<1>3. \A f \in Ends : Len(copies'[f]) <= PendingLimit
  <2>1. Len(q) \in Nat /\ Len(copies[e]) \in Nat /\ Len(copies[e]) <= PendingLimit
    BY <1>1
  <2>2. Len(q) <= PendingLimit
    BY <1>1, <2>1
  <2> QED
    BY <1>1, <1>2, <2>2
<1>4. ASSUME NEW m \in Copies, InFlight(m)' PROVE InFlight(m)
  <2>1. CASE m \in held'
    BY <2>1 DEF InFlight
  <2>2. CASE \E f \in Ends : \E i \in DOMAIN copies'[f] : copies'[f][i] = m
    BY <1>2, <2>2 DEF InFlight
  <2> QED
    BY <1>4, <2>1, <2>2 DEF InFlight
<1> QED
  BY <1>2, <1>3, <1>4

(* Once something ended, nothing is said of the shares.                    *)
LEMMA DisturbedShares ==
    ASSUME ~Undisturbed'
    PROVE  SharesFollowTurns'
BY DEF SharesFollowTurns

----------------------------------------------------------------------------
(* Each action keeps the invariant.  The endpoints first.                  *)

LEMMA TakeKeeps ==
    ASSUME Inv, NEW e \in Ends, Take(e)
    PROVE  Inv'
<1>0. /\ UNCHANGED <<gen, connGen, inboxN, inboxes, chan, callerVars, group, rr, ep, answers,
                     sending, errors, delivered, first>>
      /\ UNCHANGED <<callerPc, round, reply, targets, returned>>
  BY DEF Take, callerVars
<1>1. copies[e] \in Seq(Copies) /\ copies[e] # <<>> /\ held \in SUBSET Copies
  BY DEF Take, Inv, Types, EndTypes
<1> DEFINE q == Tail(copies[e])
           h == Head(copies[e])
<1>2. /\ q \in Seq(Copies) /\ Len(q) <= Len(copies[e]) /\ h \in Copies
      /\ 1 \in DOMAIN copies[e] /\ h = copies[e][1]
      /\ \A i \in DOMAIN q : i + 1 \in DOMAIN copies[e] /\ q[i] = copies[e][i + 1]
  BY <1>1
<1>3. held' = held \cup {h} /\ copies' = [copies EXCEPT ![e] = q]
  BY DEF Take
<1> HIDE DEF q, h
<1>4. /\ copies' \in [Ends -> Seq(Copies)] /\ (\A f \in Ends : Len(copies'[f]) <= PendingLimit)
      /\ \A m \in Copies : InFlight(m)' => InFlight(m)
  <2>1. \A i \in DOMAIN q : \E j \in DOMAIN copies[e] : q[i] = copies[e][j]
    BY <1>2
  <2>2. \A m \in held' : m \in held \/ \E j \in DOMAIN copies[e] : m = copies[e][j]
    BY <1>2, <1>3
  <2>3. held' \in SUBSET Copies
    BY <1>1, <1>2, <1>3
  <2> QED
    BY <1>2, <1>3, <2>1, <2>2, <2>3, FewerCopies
<1>5. Types'
  <2>1. EndTypes'
    BY <1>0, <1>1, <1>2, <1>3, <1>4 DEF Inv, Types, EndTypes
  <2>2. StoreTypes' /\ AnswerTypes'
    BY <1>0 DEF Inv, Types, StoreTypes, AnswerTypes
  <2> QED
    BY <1>0, <2>1, <2>2, ControlKept DEF Types
<1>6. Control' /\ AnswersAreGenuine' /\ FirstIsKept' /\ ErrorsCount' /\ SharesFollowTurns'
  BY <1>0, ControlKept, AnswersKept, SharesKept
<1>7. Groupwise' /\ NoInboxLeaks'
  BY <1>0, GroupsKept, InboxesKept
<1>8. NamesAreGiven' /\ NamesAreOwn'
  BY <1>0, <1>4, NamesKept, GivenKept DEF Busy
<1> QED
  BY <1>5, <1>6, <1>7, <1>8 DEF Inv

LEMMA EndEndpointKeeps ==
    ASSUME Inv, NEW e \in Ends, EndEndpoint(e)
    PROVE  Inv'
<1>0. /\ UNCHANGED <<gen, connGen, inboxN, inboxes, chan, callerVars, group, rr, held, answers,
                     sending, errors, delivered, first>>
      /\ UNCHANGED <<callerPc, round, reply, targets, returned>>
  BY DEF EndEndpoint, callerVars, handlerVars
<1>1. held \in SUBSET Copies /\ copies[e] \in Seq(Copies)
  BY DEF Inv, Types, EndTypes
<1>2. <<>> \in Seq(Copies) /\ Len(<<>>) = 0 /\ DOMAIN (<<>>) = {} /\ Len(<<>>) <= Len(copies[e])
  BY <1>1
<1>3. /\ copies' \in [Ends -> Seq(Copies)] /\ (\A f \in Ends : Len(copies'[f]) <= PendingLimit)
      /\ \A m \in Copies : InFlight(m)' => InFlight(m)
  <2>1. copies' = [copies EXCEPT ![e] = <<>>]
    BY DEF EndEndpoint
  <2>2. \A i \in DOMAIN (<<>>) : \E j \in DOMAIN copies[e] : <<>>[i] = copies[e][j]
    BY <1>2
  <2> QED
    BY <1>0, <1>1, <1>2, <2>1, <2>2, FewerCopies
<1>4. ep' = [ep EXCEPT ![e] = "finished"] /\ ep \in [Ends -> {"live", "unlisted", "finished"}]
  BY DEF EndEndpoint, Inv, Types, EndTypes
<1>5. Types'
  <2>1. EndTypes'
    BY <1>0, <1>1, <1>3, <1>4 DEF Inv, Types, EndTypes
  <2>2. StoreTypes' /\ AnswerTypes'
    BY <1>0 DEF Inv, Types, StoreTypes, AnswerTypes
  <2> QED
    BY <1>0, <2>1, <2>2, ControlKept DEF Types
<1>6. Control' /\ AnswersAreGenuine' /\ FirstIsKept' /\ ErrorsCount'
  BY <1>0, ControlKept, AnswersKept
<1>7. SharesFollowTurns'
  <2>1. ep'[e] = "finished"
    BY <1>4
  <2> QED
    BY <2>1, DisturbedShares DEF Undisturbed
<1>8. Groupwise' /\ NoInboxLeaks'
  BY <1>0, GroupsKept, InboxesKept
<1>9. NamesAreGiven' /\ NamesAreOwn'
  BY <1>0, <1>3, NamesKept, GivenKept DEF Busy
<1> QED
  BY <1>5, <1>6, <1>7, <1>8, <1>9 DEF Inv

LEMMA ServeAgainKeeps ==
    ASSUME Inv, NEW e \in Ends, ServeAgain(e)
    PROVE  Inv'
<1>0. /\ UNCHANGED <<gen, connGen, inboxN, inboxes, chan, callerVars, group, rr, copies, held,
                     answers, sending, errors, delivered, first>>
      /\ UNCHANGED <<callerPc, round, reply, targets, returned>>
  BY DEF ServeAgain, callerVars, handlerVars
<1>1. ep' = [ep EXCEPT ![e] = "live"] /\ ep \in [Ends -> {"live", "unlisted", "finished"}]
  BY DEF ServeAgain, Inv, Types, EndTypes
<1>2. Types'
  <2>1. EndTypes'
    BY <1>0, <1>1 DEF Inv, Types, EndTypes
  <2>2. StoreTypes' /\ AnswerTypes'
    BY <1>0 DEF Inv, Types, StoreTypes, AnswerTypes
  <2> QED
    BY <1>0, <2>1, <2>2, ControlKept DEF Types
<1>3. Control' /\ AnswersAreGenuine' /\ FirstIsKept' /\ ErrorsCount'
  BY <1>0, ControlKept, AnswersKept
<1>4. SharesFollowTurns'
  <2>1. gen' # 0
    BY <1>0 DEF ServeAgain, Inv, Types, StoreTypes
  <2> QED
    BY <2>1, DisturbedShares DEF Undisturbed
<1>5. Groupwise' /\ NoInboxLeaks'
  BY <1>0, GroupsKept, InboxesKept
<1>6. NamesAreGiven' /\ NamesAreOwn'
  BY <1>0, NamesKept, GivenKept, FlightKept DEF Busy
<1> QED
  BY <1>2, <1>3, <1>4, <1>5, <1>6 DEF Inv

LEMMA RestartKeeps ==
    ASSUME Inv, Restart
    PROVE  Inv'
<1>0. /\ UNCHANGED <<connGen, inboxN, chan, callerVars, group, rr, copies, held, answers, sending,
                     errors, delivered, first>>
      /\ UNCHANGED <<callerPc, round, reply, targets, returned>>
  BY DEF Restart, callerVars, handlerVars
<1>1. gen' \in 0 .. MaxGen /\ gen' # 0
  BY BoundsAssumption DEF Restart, Inv, Types, StoreTypes
<1>2. inboxes' = <<>> /\ DOMAIN inboxes' = {}
  BY DEF Restart
<1>3. Types'
  <2>1. EndTypes'
    BY <1>0 DEF Restart, Inv, Types, EndTypes
  <2>2. StoreTypes'
    BY <1>0, <1>1, <1>2 DEF Inv, Types, StoreTypes
  <2>3. AnswerTypes'
    BY <1>0 DEF Inv, Types, AnswerTypes
  <2> QED
    BY <1>0, <2>1, <2>2, <2>3, ControlKept DEF Types
<1>4. Control' /\ AnswersAreGenuine' /\ FirstIsKept' /\ ErrorsCount'
  BY <1>0, ControlKept, AnswersKept
<1>5. SharesFollowTurns'
  BY <1>1, DisturbedShares DEF Undisturbed
<1>6. Groupwise'
  BY <1>0, GroupsKept
<1>7. NoInboxLeaks'
  BY <1>2 DEF NoInboxLeaks
<1>8. NamesAreGiven' /\ NamesAreOwn'
  BY <1>0, NamesKept, GivenKept, FlightKept DEF Busy
<1> QED
  BY <1>3, <1>4, <1>5, <1>6, <1>7, <1>8 DEF Inv

(* A connection that comes back starts to count again, in a generation of  *)
(* which it has given no name.                                             *)
LEMMA ReconnectKeeps ==
    ASSUME Inv, NEW c \in Conns, Reconnect(c)
    PROVE  Inv'
<1>0. /\ UNCHANGED <<gen, inboxes, chan, callerVars, group, rr, ep, copies, held, answers, sending,
                     errors, delivered, first>>
      /\ UNCHANGED <<callerPc, round, reply, targets, returned>>
  BY DEF Reconnect, callerVars, handlerVars
<1>1. /\ connGen \in [Conns -> 0 .. MaxGen] /\ inboxN \in [Conns -> Nat] /\ gen \in 0 .. MaxGen
      /\ connGen[c] < gen /\ connGen' = [connGen EXCEPT ![c] = gen]
      /\ inboxN' = [inboxN EXCEPT ![c] = 0]
  BY DEF Reconnect, Inv, Types, StoreTypes
<1>2. /\ connGen'[c] = gen /\ inboxN'[c] = 0
      /\ \A d \in Conns : d # c => connGen'[d] = connGen[d] /\ inboxN'[d] = inboxN[d]
      /\ connGen' \in [Conns -> 0 .. MaxGen] /\ inboxN' \in [Conns -> Nat]
  BY <1>1
<1>3. ASSUME NEW n \in Names, Given(n) PROVE Given(n)'
  <2>1. PICK d \in Conns : /\ n[1] = PluginOf[d] /\ n[2] <= connGen[d]
                           /\ n[2] = connGen[d] => n[3] <= inboxN[d]
    BY <1>3 DEF Given
  <2>2. CASE d # c
    BY <1>2, <2>1, <2>2 DEF Given
  <2>3. CASE d = c
    <3>1. n[2] \in Nat /\ connGen[c] \in Nat /\ gen \in Nat
      BY <1>1, BoundsAssumption DEF Names
    <3>2. n[2] < gen
      BY <1>1, <2>1, <2>3, <3>1
    <3>3. n[2] <= connGen'[c] /\ n[2] # connGen'[c]
      BY <1>2, <3>1, <3>2
    <3> QED
      BY <2>1, <2>3, <3>3 DEF Given
  <2> QED
    BY <2>2, <2>3
<1>4. Types'
  <2>1. EndTypes' /\ AnswerTypes'
    BY <1>0 DEF Inv, Types, EndTypes, AnswerTypes
  <2>2. StoreTypes'
    BY <1>0, <1>2 DEF Inv, Types, StoreTypes
  <2> QED
    BY <1>0, <2>1, <2>2, ControlKept DEF Types
<1>5. Control' /\ AnswersAreGenuine' /\ FirstIsKept' /\ ErrorsCount' /\ SharesFollowTurns'
  BY <1>0, ControlKept, AnswersKept, SharesKept
<1>6. Groupwise' /\ NoInboxLeaks'
  BY <1>0, GroupsKept, InboxesKept
<1>7. NamesAreGiven' /\ NamesAreOwn'
  <2>1. \A m \in Copies : InFlight(m)' => InFlight(m)
    BY <1>0, FlightKept
  <2> QED
    BY <1>0, <1>3, <2>1, NamesKept DEF Busy
<1> QED
  BY <1>4, <1>5, <1>6, <1>7 DEF Inv

LEMMA CallsAreFinite == IsFiniteSet(Calls)
<1>1. 1 \in Int /\ MaxCalls \in Int
  BY BoundsAssumption
<1>2. IsFiniteSet(1 .. MaxCalls)
  BY <1>1, FS_Interval
<1>3. IsFiniteSet(Callers)
  BY CallersAssumption
<1> QED
  BY <1>2, <1>3, FS_Product DEF Calls

(* An answer finds the inbox of the call it answers, or none.              *)
LEMMA AnswerFindsItsCall ==
    ASSUME Inv, NEW m \in held, m.to \in DOMAIN inboxes
    PROVE  inboxes[m.to] = m.call
<1>1. PICK a \in Callers : /\ callerPc[a] \notin {"idle", "register"}
                           /\ reply[a] = m.to /\ inboxes[m.to] = Call(a)
  BY DEF Inv, NoInboxLeaks
<1>2. m \in Copies /\ InFlight(m) /\ Busy(a)
  BY <1>1 DEF Inv, Types, EndTypes, InFlight, Busy
<1> QED
  BY <1>1, <1>2 DEF Inv, NamesAreOwn

LEMMA RespondKeeps ==
    ASSUME Inv, NEW m \in held, Respond(m)
    PROVE  Inv'
<1>0. /\ UNCHANGED <<gen, connGen, inboxN, inboxes, chan, callerVars, group, rr, ep, copies, held,
                     delivered, first>>
      /\ UNCHANGED <<callerPc, round, reply, targets, returned>>
  BY DEF Respond, callerVars
<1>1. /\ m \in Copies /\ m.call \in Calls /\ m.ep \in Ends /\ <<m.call, m.ep>> \in Calls \X Ends
      /\ answers \in [Calls \X Ends -> Nat] /\ errors \in [Ends -> Nat] /\ sending \in SUBSET Sends
  BY DEF Inv, Types, EndTypes, AnswerTypes, Copies
<1> DEFINE k == <<m.call, m.ep>>
           r == [call |-> m.call, ep |-> m.ep, fault |-> m.ep \in Faulty]
           s == [to |-> m.call, n |-> answers[k], msg |-> r]
<1>2. answers' = [answers EXCEPT ![k] = answers[k] + 1]
  BY DEF Respond
<1>3. /\ answers' \in [Calls \X Ends -> Nat] /\ answers'[k] > 0
      /\ \A j \in Calls \X Ends : answers[j] > 0 => answers'[j] > 0
      /\ \A j \in Calls \X Ends : j # k => answers'[j] = answers[j]
  BY <1>1, <1>2
<1>4. errors' \in [Ends -> Nat] /\ (m.ep \in Faulty => errors'[m.ep] = errors[m.ep] + 1)
      /\ \A e \in Ends : e # m.ep => errors'[e] = errors[e]
  BY <1>1 DEF Respond, CountFault
<1>5. sending' \subseteq sending \cup {s}
  BY AnswerFindsItsCall DEF Respond
<1>6. r \in Answer /\ r.call = m.call /\ r.ep = m.ep /\ (r.fault => m.ep \in Faulty)
  <2>1. (m.ep \in Faulty) \in BOOLEAN
    OBVIOUS
  <2>3. r \in Answer
    BY <1>1, <2>1, Zenon DEF Answer
  <2>4. r.call = m.call /\ r.ep = m.ep /\ r.fault = (m.ep \in Faulty)
    OBVIOUS
  <2> QED
    BY <2>3, <2>4
<1>7. s \in Sends /\ s.msg = r /\ s.to = m.call
  BY <1>1, <1>6 DEF Sends
<1> HIDE DEF k, r, s
<1>8. Types'
  <2>1. StoreTypes' /\ EndTypes'
    BY <1>0 DEF Inv, Types, StoreTypes, EndTypes
  <2>2. AnswerTypes'
    BY <1>0, <1>1, <1>3, <1>4, <1>5, <1>7 DEF Inv, Types, AnswerTypes
  <2> QED
    BY <1>0, <2>1, <2>2, ControlKept DEF Types
<1>9. Control' /\ SharesFollowTurns' /\ Groupwise' /\ NoInboxLeaks'
  BY <1>0, ControlKept, SharesKept, GroupsKept, InboxesKept
<1>10. NamesAreGiven' /\ NamesAreOwn'
  BY <1>0, NamesKept, GivenKept, FlightKept DEF Busy
<1>11. FirstIsKept'
  BY <1>0 DEF Inv, FirstIsKept, Answered
<1>12. AnswersAreGenuine'
  <2>1. ASSUME NEW x \in Calls, NEW y \in Answer, Genuine(y, x) PROVE Genuine(y, x)'
    <3>1. <<y.call, y.ep>> \in Calls \X Ends
      BY DEF Answer
    <3> QED
      BY <2>1, <3>1, <1>3 DEF Genuine
  <2>2. Genuine(r, m.call)'
    BY <1>3, <1>6 DEF Genuine, k
  <2>3. ASSUME NEW z \in sending' PROVE Genuine(z.msg, z.to)'
    <3>1. CASE z = s
      BY <1>7, <2>2, <3>1 DEF Genuine
    <3>2. CASE z \in sending
      <4>1. z.msg \in Answer /\ z.to \in Calls /\ Genuine(z.msg, z.to)
        BY <1>1, <3>2 DEF Inv, AnswersAreGenuine, Sends
      <4> QED
        BY <4>1, <2>1
    <3> QED
      BY <1>5, <2>3, <3>1, <3>2
  <2>4. ASSUME NEW x \in Calls, chan'[x] # <<>> PROVE Genuine(chan[x][1], x)'
    <3>1. PICK y \in Answer : y = chan[x][1] /\ y = chan'[x][1]
      <4>1. chan[x] \in Seq(Answer) /\ chan[x] # <<>>
        BY <1>0, <2>4 DEF Inv, Types, AnswerTypes
      <4>2. chan[x][1] \in Answer
        BY <4>1
      <4> QED
        BY <4>2, <1>0
    <3>2. Genuine(y, x)
      BY <1>0, <2>4, <3>1 DEF Inv, AnswersAreGenuine
    <3> QED
      BY <2>1, <3>1, <3>2 DEF Genuine
  <2>5. ASSUME NEW x \in Calls, NEW y \in returned'[x].from PROVE Genuine(y, x)'
    <3>1. y \in returned[x].from /\ y \in Answer
      BY <1>0 DEF Inv, Types, CallTypes, Results
    <3>2. Genuine(y, x)
      BY <3>1 DEF Inv, AnswersAreGenuine
    <3> QED
      BY <2>1, <3>1, <3>2
  <2> QED
    BY <2>3, <2>4, <2>5 DEF AnswersAreGenuine
<1>13. ErrorsCount'
  <2> SUFFICES ASSUME NEW e \in Ends, e \in Faulty PROVE Cardinality(Asked(e)') <= errors'[e]
    BY DEF ErrorsCount
  <2>1. Cardinality(Asked(e)) <= errors[e] /\ errors[e] \in Nat
    BY <1>1 DEF Inv, ErrorsCount
  <2>2. CASE e # m.ep
    <3>1. \A x \in Calls : <<x, e>> \in Calls \X Ends /\ <<x, e>> # k
      BY <2>2 DEF k
    <3>2. Asked(e)' = Asked(e)
      BY <1>3, <3>1 DEF Asked
    <3> QED
      BY <1>4, <2>1, <2>2, <3>2
  <2>3. CASE e = m.ep
    <3>1. \A x \in Calls : <<x, e>> \in Calls \X Ends /\ (x # m.call => <<x, e>> # k)
      BY <2>3 DEF k
    <3>2. Asked(e)' \subseteq Asked(e) \cup {m.call}
      BY <1>3, <3>1 DEF Asked
    <3>3. IsFiniteSet(Asked(e))
      BY CallsAreFinite, FS_Subset DEF Asked
    <3>4. IsFiniteSet(Asked(e) \cup {m.call}) /\ Cardinality(Asked(e)) \in Nat
          /\ Cardinality(Asked(e) \cup {m.call}) <= Cardinality(Asked(e)) + 1
      <4>1. Cardinality(Asked(e)) \in Nat
        BY <3>3, FS_CardinalityType
      <4>2. IsFiniteSet(Asked(e) \cup {m.call})
            /\ Cardinality(Asked(e) \cup {m.call}) =
                 IF m.call \in Asked(e) THEN Cardinality(Asked(e)) ELSE Cardinality(Asked(e)) + 1
        BY <3>3, FS_AddElement
      <4> QED
        BY <4>1, <4>2
    <3>5. Cardinality(Asked(e)') <= Cardinality(Asked(e) \cup {m.call})
          /\ Cardinality(Asked(e)') \in Nat /\ Cardinality(Asked(e) \cup {m.call}) \in Nat
      BY <3>2, <3>4, FS_Subset, FS_CardinalityType
    <3>6. errors'[e] = errors[e] + 1
      BY <1>4, <2>3
    <3> QED
      BY <2>1, <3>4, <3>5, <3>6
  <2> QED
    BY <2>2, <2>3
<1> QED
  BY <1>8, <1>9, <1>10, <1>11, <1>12, <1>13 DEF Inv

(* The first answer fills the channel; the ones after it are dropped.      *)
LEMMA SendKeeps ==
    ASSUME Inv, NEW z \in sending, Send(z)
    PROVE  Inv'
<1>0. /\ UNCHANGED <<gen, connGen, inboxN, inboxes, callerVars, group, rr, ep, copies, held,
                     answers, errors, delivered>>
      /\ UNCHANGED <<callerPc, round, reply, targets, returned>>
  BY DEF Send, callerVars
<1>1. /\ z.to \in Calls /\ z.msg \in Answer /\ Genuine(z.msg, z.to) /\ sending \in SUBSET Sends
      /\ chan \in [Calls -> Seq(Answer)] /\ first \in [Calls -> Seq(Answer)]
      /\ \A x \in Calls : Len(chan[x]) <= 1
  BY DEF Inv, Types, AnswerTypes, Sends, AnswersAreGenuine
<1>2. PICK w, y : w = z.to /\ y = z.msg
  OBVIOUS
<1>3. <<y>> \in Seq(Answer) /\ Len(<<y>>) = 1 /\ <<y>>[1] = y /\ <<y>> # <<>>
  BY <1>1, <1>2
<1>4. \/ /\ chan[w] = <<>>
         /\ chan' = [chan EXCEPT ![w] = <<y>>]
         /\ first' = [first EXCEPT ![w] = IF first[w] = <<>> THEN <<y>> ELSE first[w]]
      \/ /\ chan' = chan /\ first' = first
  BY <1>2 DEF Send
<1>5. /\ chan' \in [Calls -> Seq(Answer)] /\ first' \in [Calls -> Seq(Answer)]
      /\ \A x \in Calls : x # w => chan'[x] = chan[x] /\ first'[x] = first[x]
      /\ \/ chan'[w] = chan[w] /\ first'[w] = first[w]
         \/ /\ chan[w] = <<>> /\ chan'[w] = <<y>>
            /\ first'[w] = IF first[w] = <<>> THEN <<y>> ELSE first[w]
  <2>1. w \in Calls
    BY <1>1, <1>2
  <2>2. CASE chan' = chan /\ first' = first
    BY <1>1, <2>2
  <2>3. CASE /\ chan[w] = <<>>
             /\ chan' = [chan EXCEPT ![w] = <<y>>]
             /\ first' = [first EXCEPT ![w] = IF first[w] = <<>> THEN <<y>> ELSE first[w]]
    BY <1>1, <1>3, <2>1, <2>3
  <2> QED
    BY <1>4, <2>2, <2>3
<1>6. sending' = sending \ {z}
  BY DEF Send
<1>7. Types'
  <2>1. StoreTypes' /\ EndTypes'
    BY <1>0 DEF Inv, Types, StoreTypes, EndTypes
  <2>2. ASSUME NEW x \in Calls PROVE Len(chan'[x]) <= 1
    <3>1. chan'[x] = chan[x] \/ chan'[x] = <<y>>
      BY <1>5
    <3>2. CASE chan'[x] = chan[x]
      BY <1>1, <3>2
    <3>3. CASE chan'[x] = <<y>>
      BY <3>3
    <3> QED
      BY <3>1, <3>2, <3>3
  <2>3. AnswerTypes'
    BY <1>0, <1>1, <1>5, <1>6, <2>2 DEF Inv, Types, AnswerTypes
  <2> QED
    BY <1>0, <2>1, <2>3, ControlKept DEF Types
<1>8. Control' /\ SharesFollowTurns' /\ Groupwise' /\ NoInboxLeaks'
  BY <1>0, ControlKept, SharesKept, GroupsKept, InboxesKept
<1>9. NamesAreGiven' /\ NamesAreOwn'
  BY <1>0, NamesKept, GivenKept, FlightKept DEF Busy
<1>10. ErrorsCount'
  <2>1. \A e : Asked(e)' = Asked(e)
    BY <1>0 DEF Asked
  <2> QED
    BY <1>0, <2>1 DEF Inv, ErrorsCount
<1>11. AnswersAreGenuine'
  <2>1. \A r, x : Genuine(r, x)' <=> Genuine(r, x)
    BY <1>0 DEF Genuine
  <2>2. \A s \in sending' : Genuine(s.msg, s.to)
    BY <1>6 DEF Inv, AnswersAreGenuine
  <2>3. \A x \in Calls : chan'[x] # <<>> => Genuine(chan'[x][1], x)
    <3>1. \A x \in Calls : chan[x] # <<>> => Genuine(chan[x][1], x)
      BY DEF Inv, AnswersAreGenuine
    <3> QED
      BY <3>1, <1>1, <1>2, <1>3, <1>5
  <2>4. \A x \in Calls : \A r \in returned'[x].from : Genuine(r, x)
    BY <1>0 DEF Inv, AnswersAreGenuine
  <2> QED
    BY <2>1, <2>2, <2>3, <2>4 DEF AnswersAreGenuine
<1>12. FirstIsKept'
  <2>1. \A x \in Calls :
           /\ returned[x].kind = "none" => chan[x] = first[x]
           /\ Answered(x) => first[x] # <<>> /\ returned[x].from = {first[x][1]}
    BY DEF Inv, FirstIsKept
  <2>2. \A x : Answered(x)' <=> Answered(x)
    BY <1>0 DEF Answered
  <2>3. \A x \in Calls : first[x] # <<>> => first'[x] = first[x]
    BY <1>5
  <2>4. \A x \in Calls : returned[x].kind = "none" => chan'[x] = first'[x]
    BY <2>1, <1>5
  <2> QED
    BY <1>0, <2>1, <2>2, <2>3, <2>4 DEF FirstIsKept
<1> QED
  BY <1>7, <1>8, <1>9, <1>10, <1>11, <1>12 DEF Inv

----------------------------------------------------------------------------
(* The callers.  What one caller does leaves the others where they are.    *)

LEMMA OneMoves ==
    ASSUME Inv, NEW a \in Callers,
           \A b \in Callers : b # a => /\ callerPc'[b] = callerPc[b] /\ round'[b] = round[b]
                                       /\ reply'[b] = reply[b] /\ targets'[b] = targets[b],
           \A b \in Callers, i \in 1 .. MaxCalls : b # a =>
              returned'[<<b, i>>] = returned[<<b, i>>] /\ delivered'[<<b, i>>] = delivered[<<b, i>>],
           callerPc'[a] # "idle" => round'[a] >= 1 /\ reply'[a] \in Names,
           callerPc'[a] # "enqueue" => targets'[a] = {},
           \A i \in 1 .. MaxCalls :
              /\ Unanswered(a, i)' => returned'[<<a, i>>].kind = "none"
              /\ Undelivered(a, i)' => delivered'[<<a, i>>] = {}
    PROVE  Control'
<1>1. \A b \in Callers : b # a => /\ Busy(b)' <=> Busy(b)
                                  /\ \A i \in 1 .. MaxCalls : /\ Unanswered(b, i)' <=> Unanswered(b, i)
                                                              /\ Undelivered(b, i)' <=> Undelivered(b, i)
  BY DEF Busy, Unanswered, Undelivered
<1>2. \A b \in Callers : Busy(b)' => round'[b] >= 1 /\ reply'[b] \in Names
  BY <1>1 DEF Inv, Control, Busy
<1>3. \A b \in Callers : callerPc'[b] # "enqueue" => targets'[b] = {}
  BY DEF Inv, Control
<1>4. ASSUME NEW b \in Callers, NEW i \in 1 .. MaxCalls
      PROVE  /\ Unanswered(b, i)' => returned'[<<b, i>>].kind = "none"
             /\ Undelivered(b, i)' => delivered'[<<b, i>>] = {}
  <2>1. CASE b = a
    BY <2>1
  <2>2. CASE b # a
    BY <1>1, <2>2 DEF Inv, Control
  <2> QED
    BY <2>1, <2>2
<1> QED
  BY <1>2, <1>3, <1>4 DEF Control

(* The name of a call that begins is new: its connection is the only one   *)
(* of its plugin and has not counted so far.                               *)
LEMMA BeginKeeps ==
    ASSUME OneConnEach, Inv, NEW a \in Callers, Begin(a)
    PROVE  Inv'
<1>0. /\ UNCHANGED <<gen, connGen, inboxes, chan, targets, returned, group, rr, ep, copies, held,
                     answers, sending, errors, delivered, first>>
      /\ callerPc[a] = "idle"
  BY DEF Begin, handlerVars
<1>1. PICK c, n : c = ConnOf[a] /\ n = <<PluginOf[c], connGen[c], inboxN[c] + 1>>
  OBVIOUS
<1>2. /\ c \in Conns /\ connGen \in [Conns -> 0 .. MaxGen] /\ inboxN \in [Conns -> Nat]
      /\ connGen[c] \in 0 .. MaxGen /\ inboxN[c] \in Nat /\ connGen[c] \in Nat
      /\ callerPc \in [Callers -> Steps] /\ round \in [Callers -> 0 .. MaxCalls]
      /\ reply \in [Callers -> Names \cup {<<>>}] /\ round[a] < MaxCalls
  <2>1. c \in Conns
    BY <1>1, CallersAssumption
  <2>2. connGen \in [Conns -> 0 .. MaxGen] /\ inboxN \in [Conns -> Nat] /\ MaxGen \in Nat
    BY BoundsAssumption DEF Inv, Types, StoreTypes
  <2>3. /\ callerPc \in [Callers -> Steps] /\ round \in [Callers -> 0 .. MaxCalls]
        /\ reply \in [Callers -> Names \cup {<<>>}] /\ round[a] < MaxCalls
    BY DEF Inv, Types, CallTypes, Begin
  <2> QED
    BY <2>1, <2>2, <2>3
<1>3. n \in Names /\ n[1] = PluginOf[c] /\ n[2] = connGen[c] /\ n[3] = inboxN[c] + 1
  BY <1>1, <1>2 DEF Names
<1>4. /\ round' = [round EXCEPT ![a] = round[a] + 1]
      /\ inboxN' = [inboxN EXCEPT ![c] = inboxN[c] + 1]
      /\ reply' = [reply EXCEPT ![a] = n]
      /\ callerPc' = [callerPc EXCEPT ![a] = "register"]
  BY <1>1 DEF Begin, NextInbox, ReplySubject
<1>5. /\ inboxN' \in [Conns -> Nat] /\ inboxN'[c] = inboxN[c] + 1
      /\ \A d \in Conns : d # c => inboxN'[d] = inboxN[d]
  BY <1>2, <1>4
<1>6. /\ round' \in [Callers -> 0 .. MaxCalls] /\ round'[a] = round[a] + 1
      /\ callerPc' \in [Callers -> Steps] /\ callerPc'[a] = "register"
      /\ reply' \in [Callers -> Names \cup {<<>>}] /\ reply'[a] = n
      /\ \A b \in Callers : b # a => /\ callerPc'[b] = callerPc[b] /\ round'[b] = round[b]
                                     /\ reply'[b] = reply[b]
  BY <1>2, <1>3, <1>4, BoundsAssumption DEF Steps
<1>7. Types'
  <2>1. StoreTypes'
    BY <1>0, <1>5 DEF Inv, Types, StoreTypes
  <2>2. CallTypes'
    BY <1>0, <1>6 DEF Inv, Types, CallTypes
  <2>3. EndTypes' /\ AnswerTypes'
    BY <1>0 DEF Inv, Types, EndTypes, AnswerTypes
  <2> QED
    BY <2>1, <2>2, <2>3 DEF Types
<1>8. Control'
  <2>1. round[a] \in Nat /\ round'[a] >= 1
    BY <1>2, <1>6
  <2>2. ASSUME NEW i \in 1 .. MaxCalls
        PROVE  /\ Unanswered(a, i)' => returned'[<<a, i>>].kind = "none"
               /\ Undelivered(a, i)' => delivered'[<<a, i>>] = {}
    <3>1. i >= round'[a] => i > round[a]
      BY <1>6, <2>1
    <3>2. i > round[a] => returned[<<a, i>>].kind = "none" /\ delivered[<<a, i>>] = {}
      BY DEF Inv, Control, Unanswered, Undelivered
    <3>3. Unanswered(a, i)' \/ Undelivered(a, i)' => i >= round'[a]
      BY <1>6, <2>1 DEF Unanswered, Undelivered
    <3> QED
      BY <1>0, <3>1, <3>2, <3>3
  <2>3. targets'[a] = {}
    BY <1>0 DEF Inv, Control
  <2> QED
    BY <1>0, <1>3, <1>6, <2>1, <2>2, <2>3, OneMoves
<1>9. AnswersAreGenuine' /\ FirstIsKept' /\ ErrorsCount' /\ SharesFollowTurns'
  BY <1>0, AnswersKept, SharesKept
<1>10. Groupwise'
  BY <1>0, <1>6, GroupsKept
<1>11. NoInboxLeaks'
  BY <1>0, <1>6, InboxesKept
<1>12. ~Given(n)
  <2> SUFFICES ASSUME NEW d \in Conns, n[1] = PluginOf[d],
                      n[2] = connGen[d] => n[3] <= inboxN[d]
               PROVE  FALSE
    BY DEF Given
  <2>1. d = c
    BY <1>2, <1>3 DEF OneConnEach
  <2> QED
    BY <1>2, <1>3, <2>1
<1>13. ASSUME NEW l \in Names, Given(l) PROVE Given(l)'
  <2>1. PICK d \in Conns : l[1] = PluginOf[d] /\ l[2] <= connGen[d]
                           /\ (l[2] = connGen[d] => l[3] <= inboxN[d])
    BY <1>13 DEF Given
  <2>2. l[3] \in Nat /\ inboxN[d] \in Nat
    BY <1>2 DEF Names
  <2>3. l[2] = connGen'[d] => l[3] <= inboxN'[d]
    BY <1>0, <1>5, <2>1, <2>2
  <2> QED
    BY <1>0, <2>1, <2>3 DEF Given
<1>14. Given(n)'
  <2>1. n[2] <= connGen'[c] /\ n[3] <= inboxN'[c]
    BY <1>0, <1>2, <1>3, <1>5
  <2> QED
    BY <1>2, <1>3, <2>1 DEF Given
<1>15. \A m \in Copies : InFlight(m)' => InFlight(m)
  BY <1>0, FlightKept
<1>16. \A b \in Callers : b # a /\ Busy(b)' => Busy(b) /\ Call(b)' = Call(b) /\ reply[b] # n
  <2>1. \A b \in Callers : Busy(b) => reply[b] # n
    BY <1>12 DEF Inv, NamesAreGiven
  <2> QED
    BY <1>6, <2>1 DEF Busy, Call
<1>17. \A m \in Copies : InFlight(m) => m.to # n /\ m.to \in Names
  BY <1>12 DEF Inv, NamesAreGiven, Copies
<1>18. NamesAreGiven'
  <2>1. ASSUME NEW b \in Callers, Busy(b)' PROVE Given(reply[b])'
    <3>1. CASE b = a
      BY <3>1, <1>6, <1>14 DEF Given
    <3>2. CASE b # a
      <4>1. Busy(b) /\ reply[b] \in Names /\ Given(reply[b]) /\ reply'[b] = reply[b]
        BY <2>1, <3>2, <1>6, <1>16 DEF Inv, NamesAreGiven, Control
      <4>2. PICK l \in Names : l = reply[b] /\ l = reply'[b]
        BY <4>1
      <4>3. Given(l)'
        BY <4>1, <4>2, <1>13
      <4> QED
        BY <4>2, <4>3 DEF Given
    <3> QED
      BY <3>1, <3>2
  <2>2. \A m \in Copies : InFlight(m)' => Given(m.to)'
    BY <1>13, <1>15, <1>17 DEF Inv, NamesAreGiven
  <2> QED
    BY <2>1, <2>2 DEF NamesAreGiven
<1>19. NamesAreOwn'
  <2>1. \A b, d \in Callers : Busy(b)' /\ Busy(d)' /\ reply'[b] = reply'[d] => b = d
    <3>1. \A b, d \in Callers : Busy(b) /\ Busy(d) /\ reply[b] = reply[d] => b = d
      BY DEF Inv, NamesAreOwn
    <3> QED
      BY <1>6, <1>16, <3>1
  <2>2. ASSUME NEW m \in Copies, NEW b \in Callers, InFlight(m)', Busy(b)', m.to = reply'[b]
        PROVE  m.call = Call(b)'
    <3>1. b # a
      BY <2>2, <1>6, <1>15, <1>17
    <3> QED
      BY <2>2, <3>1, <1>6, <1>15, <1>16 DEF Inv, NamesAreOwn
  <2> QED
    BY <2>1, <2>2 DEF NamesAreOwn
<1> QED
  BY <1>7, <1>8, <1>9, <1>10, <1>11, <1>18, <1>19 DEF Inv

LEMMA RefuseKeeps ==
    ASSUME Inv, NEW a \in Callers, Refuse(a)
    PROVE  Inv'
<1>0. /\ UNCHANGED <<gen, connGen, inboxN, inboxes, chan, callerPc, reply, targets, group, rr, ep,
                     copies, held, answers, sending, errors, delivered, first>>
      /\ callerPc[a] = "idle"
  BY DEF Refuse, handlerVars
<1>1. PICK x : x = <<a, round[a] + 1>>
  OBVIOUS
<1>2. round \in [Callers -> 0 .. MaxCalls] /\ round[a] < MaxCalls /\ round[a] \in Nat /\ MaxCalls \in Nat
  BY BoundsAssumption DEF Inv, Types, CallTypes, Refuse
<1>3. x \in Calls
  BY <1>1, <1>2 DEF Calls
<1>4. /\ round' \in [Callers -> 0 .. MaxCalls] /\ round'[a] = round[a] + 1
      /\ \A b \in Callers : b # a => round'[b] = round[b]
  <2>1. round' = [round EXCEPT ![a] = round[a] + 1]
    BY DEF Refuse
  <2> QED
    BY <1>2, <2>1
<1>5. /\ AnswersAreGenuine' /\ FirstIsKept' /\ ErrorsCount' /\ returned' \in [Calls -> Results]
      /\ \A y \in Calls : y # x => returned'[y] = returned[y]
  <2>1. returned' = [returned EXCEPT ![x] = Outcome("withdrawn")]
    BY <1>1 DEF Refuse
  <2> QED
    BY <1>0, <1>3, <2>1, NoAnswerReturned
<1>6. Types'
  <2>1. StoreTypes' /\ EndTypes' /\ AnswerTypes'
    BY <1>0 DEF Inv, Types, StoreTypes, EndTypes, AnswerTypes
  <2>2. CallTypes'
    BY <1>0, <1>4, <1>5 DEF Inv, Types, CallTypes
  <2> QED
    BY <2>1, <2>2 DEF Types
<1>7. Control'
  <2>1. ASSUME NEW i \in 1 .. MaxCalls
        PROVE  /\ Unanswered(a, i)' => returned'[<<a, i>>].kind = "none"
               /\ Undelivered(a, i)' => delivered'[<<a, i>>] = {}
    <3>1. i > round[a] => returned[<<a, i>>].kind = "none" /\ delivered[<<a, i>>] = {}
      BY DEF Inv, Control, Unanswered, Undelivered
    <3>2. Unanswered(a, i)' \/ Undelivered(a, i)' => i > round[a] /\ i # round[a] + 1
      BY <1>0, <1>2, <1>4 DEF Unanswered, Undelivered
    <3>3. i # round[a] + 1 => returned'[<<a, i>>] = returned[<<a, i>>]
      BY <1>1, <1>5 DEF Calls
    <3> QED
      BY <1>0, <3>1, <3>2, <3>3
  <2>2. \A b \in Callers, i \in 1 .. MaxCalls : b # a => returned'[<<b, i>>] = returned[<<b, i>>]
    BY <1>1, <1>5 DEF Calls
  <2>3. targets'[a] = {}
    BY <1>0 DEF Inv, Control
  <2> QED
    BY <1>0, <1>4, <2>1, <2>2, <2>3, OneMoves
<1>8. SharesFollowTurns'
  BY <1>0, SharesKept
<1>9. Groupwise' /\ NoInboxLeaks'
  BY <1>0, <1>4, GroupsKept, InboxesKept
<1>10. NamesAreGiven' /\ NamesAreOwn'
  <2>1. \A b \in Callers : Busy(b)' => Busy(b) /\ reply'[b] = reply[b] /\ round'[b] = round[b]
    BY <1>0, <1>4 DEF Busy
  <2> QED
    BY <1>0, <2>1, NamesKept, GivenKept, FlightKept
<1> QED
  BY <1>5, <1>6, <1>7, <1>8, <1>9, <1>10 DEF Inv

(* A caller moves on and its call, its name and its connection stay.       *)
LEMMA CallMoves ==
    ASSUME Inv, NEW a \in Callers, Busy(a), NEW q \in Steps,
           callerPc' = [callerPc EXCEPT ![a] = q],
           UNCHANGED <<round, reply, connGen, inboxN, copies, held>>
    PROVE  /\ callerPc' \in [Callers -> Steps] /\ callerPc'[a] = q
           /\ \A b \in Callers : b # a => callerPc'[b] = callerPc[b]
           /\ \A b \in Callers : Call(b)' = Call(b)
           /\ NamesAreGiven' /\ NamesAreOwn'
<1>1. callerPc \in [Callers -> Steps]
  BY DEF Inv, Types, CallTypes
<1>2. /\ callerPc' \in [Callers -> Steps] /\ callerPc'[a] = q
      /\ \A b \in Callers : b # a => callerPc'[b] = callerPc[b]
  BY <1>1
<1>3. \A b \in Callers : Busy(b)' => Busy(b)
  BY <1>2 DEF Busy
<1>4. \A b \in Callers : Call(b)' = Call(b)
  BY DEF Call
<1> QED
  BY <1>2, <1>3, <1>4, NamesKept, GivenKept, FlightKept

LEMMA RegisterKeeps ==
    ASSUME Inv, NEW a \in Callers, Register(a)
    PROVE  Inv'
<1>0. /\ UNCHANGED <<gen, connGen, inboxN, chan, round, reply, targets, returned, group, rr, ep,
                     copies, held, answers, sending, errors, delivered, first>>
      /\ callerPc[a] = "register" /\ callerPc' = [callerPc EXCEPT ![a] = "match"]
  BY DEF Register, handlerVars
<1>1. Busy(a) /\ "match" \in Steps
  BY <1>0 DEF Busy, Steps
<1>2. /\ callerPc' \in [Callers -> Steps] /\ callerPc'[a] = "match"
      /\ \A b \in Callers : b # a => callerPc'[b] = callerPc[b]
      /\ \A b \in Callers : Call(b)' = Call(b)
      /\ NamesAreGiven' /\ NamesAreOwn'
  BY <1>0, <1>1, CallMoves
<1>3. Call(a) \in Calls /\ reply[a] \in Names /\ round[a] \in Nat /\ round[a] >= 1
  BY <1>1, CallInCalls, BoundsAssumption
<1>4. /\ DOMAIN inboxes' = DOMAIN inboxes \cup {reply[a]} /\ inboxes'[reply[a]] = Call(a)
      /\ \A n \in DOMAIN inboxes : n # reply[a] => inboxes'[n] = inboxes[n]
  BY DEF Register
<1>5. Types'
  <2>1. StoreTypes'
    BY <1>0, <1>3, <1>4 DEF Inv, Types, StoreTypes
  <2>2. CallTypes'
    BY <1>0, <1>2 DEF Inv, Types, CallTypes
  <2>3. EndTypes' /\ AnswerTypes'
    BY <1>0 DEF Inv, Types, EndTypes, AnswerTypes
  <2> QED
    BY <2>1, <2>2, <2>3 DEF Types
<1>6. Control'
  <2>1. \A i \in 1 .. MaxCalls : /\ Unanswered(a, i)' <=> Unanswered(a, i)
                                 /\ Undelivered(a, i)' <=> Undelivered(a, i)
    BY <1>0, <1>2 DEF Unanswered, Undelivered
  <2>2. \A i \in 1 .. MaxCalls : /\ Unanswered(a, i) => returned[<<a, i>>].kind = "none"
                                 /\ Undelivered(a, i) => delivered[<<a, i>>] = {}
    BY DEF Inv, Control
  <2>3. targets[a] = {}
    BY <1>0 DEF Inv, Control
  <2> QED
    BY <1>0, <1>2, <1>3, <2>1, <2>2, <2>3, OneMoves
<1>7. AnswersAreGenuine' /\ FirstIsKept' /\ ErrorsCount' /\ SharesFollowTurns'
  BY <1>0, AnswersKept, SharesKept
<1>8. Groupwise'
  BY <1>0, <1>2, GroupsKept
<1>9. NoInboxLeaks'
  <2> SUFFICES ASSUME NEW n \in DOMAIN inboxes'
               PROVE  \E b \in Callers : /\ callerPc'[b] \notin {"idle", "register"}
                                         /\ reply'[b] = n /\ inboxes'[n] = Call(b)'
    BY DEF NoInboxLeaks
  <2>1. CASE n = reply[a]
    BY <2>1, <1>0, <1>2, <1>4
  <2>2. CASE n # reply[a]
    <3>1. PICK b \in Callers : /\ callerPc[b] \notin {"idle", "register"}
                               /\ reply[b] = n /\ inboxes[n] = Call(b)
      BY <2>2, <1>4 DEF Inv, NoInboxLeaks
    <3> QED
      BY <3>1, <2>2, <1>0, <1>2, <1>4
  <2> QED
    BY <2>1, <2>2
<1> QED
  BY <1>2, <1>5, <1>6, <1>7, <1>8, <1>9 DEF Inv

(* What a one-place channel holds.                                         *)
LEMMA OnePlace ==
    ASSUME NEW S, NEW s \in Seq(S), s # <<>>, Len(s) <= 1
    PROVE  Head(s) \in S /\ Head(s) = s[1] /\ Tail(s) = <<>>
<1>1. Len(s) \in Nat /\ Len(s) # 0
  OBVIOUS
<1>2. Len(s) = 1
  BY <1>1
<1>3. Tail(s) \in Seq(S) /\ Len(Tail(s)) = 0
  BY <1>2
<1>4. Tail(s) = <<>>
  BY <1>3
<1> QED
  BY <1>2, <1>4

LEMMA TakeReplyKeeps ==
    ASSUME Inv, NEW a \in Callers, TakeReply(a)
    PROVE  Inv'
<1>0. /\ UNCHANGED <<gen, connGen, inboxN, inboxes, round, reply, targets, group, rr, ep, copies,
                     held, answers, sending, errors, delivered, first>>
      /\ callerPc[a] = "wait" /\ callerPc' = [callerPc EXCEPT ![a] = "cleanup"]
  BY DEF TakeReply, handlerVars
<1>1. Busy(a) /\ "cleanup" \in Steps
  BY <1>0 DEF Busy, Steps
<1>2. /\ callerPc' \in [Callers -> Steps] /\ callerPc'[a] = "cleanup"
      /\ \A b \in Callers : b # a => callerPc'[b] = callerPc[b]
      /\ \A b \in Callers : Call(b)' = Call(b)
      /\ NamesAreGiven' /\ NamesAreOwn'
  BY <1>0, <1>1, CallMoves
<1>3. Call(a) \in Calls /\ reply[a] \in Names /\ round[a] \in Nat /\ round[a] \in 1 .. MaxCalls
  BY <1>1, CallInCalls
<1>4. PICK x, r : x = Call(a) /\ r = Head(chan[x])
  OBVIOUS
<1>5. /\ x \in Calls /\ chan \in [Calls -> Seq(Answer)] /\ chan[x] # <<>> /\ Len(chan[x]) <= 1
      /\ returned \in [Calls -> Results]
  BY <1>3, <1>4 DEF TakeReply, Inv, Types, CallTypes, AnswerTypes
<1>6. chan[x] \in Seq(Answer)
  BY <1>5
<1>7. r \in Answer /\ r = chan[x][1] /\ Tail(chan[x]) = <<>>
  BY <1>4, <1>5, <1>6, OnePlace
<1>8. PICK k \in {"fault", "reply"} : k = IF r.fault THEN "fault" ELSE "reply"
  OBVIOUS
<1>9. /\ chan' = [chan EXCEPT ![x] = <<>>]
      /\ returned' = [returned EXCEPT ![x] = [kind |-> k, from |-> {r}]]
  BY <1>4, <1>7, <1>8 DEF TakeReply, Return
<1>10. [kind |-> k, from |-> {r}] \in Results
  BY <1>7, <1>8 DEF Results, Outcomes
<1>11. /\ chan' \in [Calls -> Seq(Answer)] /\ chan'[x] = <<>>
       /\ \A y \in Calls : y # x => chan'[y] = chan[y] /\ returned'[y] = returned[y]
       /\ returned' \in [Calls -> Results] /\ returned'[x].kind = k /\ returned'[x].from = {r}
  <2>1. <<>> \in Seq(Answer)
    OBVIOUS
  <2> QED
    BY <1>5, <1>9, <1>10, <2>1
<1>12. Types'
  <2>1. StoreTypes' /\ EndTypes'
    BY <1>0 DEF Inv, Types, StoreTypes, EndTypes
  <2>2. CallTypes'
    BY <1>0, <1>2, <1>11 DEF Inv, Types, CallTypes
  <2>3. \A y \in Calls : Len(chan'[y]) <= 1
    <3>1. Len(<<>>) <= 1
      OBVIOUS
    <3> QED
      BY <1>11, <3>1 DEF Inv, Types, AnswerTypes
  <2>4. AnswerTypes'
    BY <1>0, <1>11, <2>3 DEF Inv, Types, AnswerTypes
  <2> QED
    BY <2>1, <2>2, <2>4 DEF Types
<1>13. Control'
  <2>1. ASSUME NEW i \in 1 .. MaxCalls
        PROVE  /\ Unanswered(a, i)' => returned'[<<a, i>>].kind = "none"
               /\ Undelivered(a, i)' => delivered'[<<a, i>>] = {}
    <3>1. i > round[a] => returned[<<a, i>>].kind = "none" /\ delivered[<<a, i>>] = {}
      BY DEF Inv, Control, Unanswered, Undelivered
    <3>2. Unanswered(a, i)' \/ Undelivered(a, i)' => i > round[a]
      BY <1>0, <1>2 DEF Unanswered, Undelivered
    <3>3. i > round[a] => returned'[<<a, i>>] = returned[<<a, i>>]
      BY <1>3, <1>4, <1>11 DEF Calls, Call
    <3> QED
      BY <1>0, <3>1, <3>2, <3>3
  <2>2. \A b \in Callers, i \in 1 .. MaxCalls : b # a => returned'[<<b, i>>] = returned[<<b, i>>]
    BY <1>4, <1>11 DEF Calls, Call
  <2>3. targets'[a] = {} /\ round[a] >= 1
    BY <1>0, <1>3, BoundsAssumption DEF Inv, Control
  <2> QED
    BY <1>0, <1>2, <1>3, <2>1, <2>2, <2>3, OneMoves
<1>14. SharesFollowTurns'
  BY <1>0, SharesKept
<1>15. Groupwise' /\ NoInboxLeaks'
  BY <1>0, <1>2, GroupsKept, InboxesKept
<1>16. AnswersAreGenuine'
  <2>1. \A z, y : Genuine(z, y)' <=> Genuine(z, y)
    BY <1>0 DEF Genuine
  <2>2. /\ \A y \in Calls : chan[y] # <<>> => Genuine(chan[y][1], y)
        /\ \A y \in Calls : \A z \in returned[y].from : Genuine(z, y)
        /\ \A s \in sending : Genuine(s.msg, s.to)
    BY DEF Inv, AnswersAreGenuine
  <2>3. \A y \in Calls : chan'[y] # <<>> => Genuine(chan'[y][1], y)
    BY <1>11, <2>2
  <2>4. \A y \in Calls : \A z \in returned'[y].from : Genuine(z, y)
    BY <1>5, <1>7, <1>11, <2>2
  <2> QED
    BY <1>0, <2>1, <2>2, <2>3, <2>4 DEF AnswersAreGenuine
<1>17. FirstIsKept'
  <2>1. returned[x].kind = "none"
    <3>1. Unanswered(a, round[a]) /\ x = <<a, round[a]>>
      BY <1>0, <1>3, <1>4 DEF Unanswered, Call
    <3> QED
      BY <1>3, <3>1 DEF Inv, Control
  <2>2. first[x] = chan[x]
    BY <1>5, <2>1 DEF Inv, FirstIsKept
  <2>3. returned'[x].from = {first[x][1]} /\ first[x] # <<>> /\ returned'[x].kind # "none"
    BY <1>5, <1>7, <1>8, <1>11, <2>2
  <2> QED
    BY <1>0, <1>5, <1>11, <2>3 DEF Inv, FirstIsKept, Answered
<1>18. ErrorsCount'
  <2>1. \A e : Asked(e)' = Asked(e)
    BY <1>0 DEF Asked
  <2> QED
    BY <1>0, <2>1 DEF Inv, ErrorsCount
<1> QED
  BY <1>2, <1>12, <1>13, <1>14, <1>15, <1>16, <1>17, <1>18 DEF Inv

LEMMA TimeOutKeeps ==
    ASSUME Inv, NEW a \in Callers, TimeOut(a)
    PROVE  Inv'
<1>0. /\ UNCHANGED <<gen, connGen, inboxN, inboxes, chan, round, reply, targets, group, rr, ep,
                     copies, held, answers, sending, errors, delivered, first>>
      /\ callerPc[a] = "wait" /\ callerPc' = [callerPc EXCEPT ![a] = "cleanup"]
  BY DEF TimeOut, handlerVars
<1>1. Busy(a) /\ "cleanup" \in Steps
  BY <1>0 DEF Busy, Steps
<1>2. /\ callerPc' \in [Callers -> Steps] /\ callerPc'[a] = "cleanup"
      /\ \A b \in Callers : b # a => callerPc'[b] = callerPc[b]
      /\ \A b \in Callers : Call(b)' = Call(b)
      /\ NamesAreGiven' /\ NamesAreOwn'
  BY <1>0, <1>1, CallMoves
<1>3. Call(a) \in Calls /\ reply[a] \in Names /\ round[a] \in Nat /\ round[a] \in 1 .. MaxCalls
  BY <1>1, CallInCalls
<1>4. PICK x : x = Call(a)
  OBVIOUS
<1>5. /\ AnswersAreGenuine' /\ FirstIsKept' /\ ErrorsCount' /\ returned' \in [Calls -> Results]
      /\ \A y \in Calls : y # x => returned'[y] = returned[y]
  <2>1. returned' = [returned EXCEPT ![x] = Outcome("timeout")] /\ x \in Calls
    BY <1>3, <1>4 DEF TimeOut, Return
  <2> QED
    BY <1>0, <2>1, NoAnswerReturned
<1>6. Types'
  <2>1. StoreTypes' /\ EndTypes' /\ AnswerTypes'
    BY <1>0 DEF Inv, Types, StoreTypes, EndTypes, AnswerTypes
  <2>2. CallTypes'
    BY <1>0, <1>2, <1>5 DEF Inv, Types, CallTypes
  <2> QED
    BY <2>1, <2>2 DEF Types
<1>7. Control'
  <2>1. ASSUME NEW i \in 1 .. MaxCalls
        PROVE  /\ Unanswered(a, i)' => returned'[<<a, i>>].kind = "none"
               /\ Undelivered(a, i)' => delivered'[<<a, i>>] = {}
    <3>1. i > round[a] => returned[<<a, i>>].kind = "none" /\ delivered[<<a, i>>] = {}
      BY DEF Inv, Control, Unanswered, Undelivered
    <3>2. Unanswered(a, i)' \/ Undelivered(a, i)' => i > round[a]
      BY <1>0, <1>2 DEF Unanswered, Undelivered
    <3>3. i > round[a] => returned'[<<a, i>>] = returned[<<a, i>>]
      BY <1>3, <1>4, <1>5 DEF Calls, Call
    <3> QED
      BY <1>0, <3>1, <3>2, <3>3
  <2>2. \A b \in Callers, i \in 1 .. MaxCalls : b # a => returned'[<<b, i>>] = returned[<<b, i>>]
    BY <1>4, <1>5 DEF Calls, Call
  <2>3. targets'[a] = {} /\ round[a] >= 1
    BY <1>0, <1>3, BoundsAssumption DEF Inv, Control
  <2> QED
    BY <1>0, <1>2, <1>3, <2>1, <2>2, <2>3, OneMoves
<1>8. SharesFollowTurns'
  BY <1>0, SharesKept
<1>9. Groupwise' /\ NoInboxLeaks'
  BY <1>0, <1>2, GroupsKept, InboxesKept
<1> QED
  BY <1>2, <1>5, <1>6, <1>7, <1>8, <1>9 DEF Inv

LEMMA CleanupKeeps ==
    ASSUME Inv, NEW a \in Callers, Cleanup(a)
    PROVE  Inv'
<1>0. /\ UNCHANGED <<gen, connGen, inboxN, chan, round, reply, targets, returned, group, rr, ep,
                     copies, held, answers, sending, errors, delivered, first>>
      /\ callerPc[a] = "cleanup" /\ callerPc' = [callerPc EXCEPT ![a] = "idle"]
      /\ inboxes' = [n \in DOMAIN inboxes \ {reply[a]} |-> inboxes[n]]
  BY DEF Cleanup, handlerVars
<1>1. Busy(a) /\ "idle" \in Steps
  BY <1>0 DEF Busy, Steps
<1>2. /\ callerPc' \in [Callers -> Steps] /\ callerPc'[a] = "idle"
      /\ \A b \in Callers : b # a => callerPc'[b] = callerPc[b]
      /\ \A b \in Callers : Call(b)' = Call(b)
      /\ NamesAreGiven' /\ NamesAreOwn'
  BY <1>0, <1>1, CallMoves
<1>3. Types'
  <2>1. StoreTypes'
    BY <1>0 DEF Inv, Types, StoreTypes
  <2>2. CallTypes'
    BY <1>0, <1>2 DEF Inv, Types, CallTypes
  <2>3. EndTypes' /\ AnswerTypes'
    BY <1>0 DEF Inv, Types, EndTypes, AnswerTypes
  <2> QED
    BY <2>1, <2>2, <2>3 DEF Types
<1>4. Control'
  <2>1. \A i \in 1 .. MaxCalls : /\ Unanswered(a, i)' => Unanswered(a, i)
                                 /\ Undelivered(a, i)' => Undelivered(a, i)
    BY <1>0, <1>2 DEF Unanswered, Undelivered
  <2>2. \A i \in 1 .. MaxCalls : /\ Unanswered(a, i) => returned[<<a, i>>].kind = "none"
                                 /\ Undelivered(a, i) => delivered[<<a, i>>] = {}
    BY DEF Inv, Control
  <2>3. targets[a] = {}
    BY <1>0 DEF Inv, Control
  <2> QED
    BY <1>0, <1>2, <2>1, <2>2, <2>3, OneMoves
<1>5. AnswersAreGenuine' /\ FirstIsKept' /\ ErrorsCount' /\ SharesFollowTurns'
  BY <1>0, AnswersKept, SharesKept
<1>6. Groupwise'
  BY <1>0, <1>2, GroupsKept
<1>7. NoInboxLeaks'
  <2> SUFFICES ASSUME NEW n \in DOMAIN inboxes'
               PROVE  \E b \in Callers : /\ callerPc'[b] \notin {"idle", "register"}
                                         /\ reply'[b] = n /\ inboxes'[n] = Call(b)'
    BY DEF NoInboxLeaks
  <2>1. n \in DOMAIN inboxes /\ n # reply[a] /\ inboxes'[n] = inboxes[n]
    BY <1>0
  <2>2. PICK b \in Callers : /\ callerPc[b] \notin {"idle", "register"}
                             /\ reply[b] = n /\ inboxes[n] = Call(b)
    BY <2>1 DEF Inv, NoInboxLeaks
  <2> QED
    BY <1>0, <1>2, <2>1, <2>2
<1> QED
  BY <1>2, <1>3, <1>4, <1>5, <1>6, <1>7 DEF Inv

----------------------------------------------------------------------------
(* The round robin.                                                        *)

LEMMA DivMod ==
    ASSUME NEW n \in Nat, NEW k \in Nat, k # 0
    PROVE  n = (k * (n \div k)) + (n % k) /\ n \div k \in Int
OBVIOUS

LEMMA NextMultiple ==
    ASSUME NEW k \in Nat, NEW p \in Int, NEW q \in Int, p < q
    PROVE  k * p + k <= k * q
OBVIOUS

LEMMA RemainderUnique ==
    ASSUME NEW k \in Nat, NEW p \in Int, NEW q \in Int,
           NEW r \in 0 .. k - 1, NEW s \in 0 .. k - 1, k * p + r = k * q + s
    PROVE  r = s
<1>0. k * p \in Int /\ k * q \in Int
  OBVIOUS
<1>1. CASE p < q
  <2>1. k * p + k <= k * q
    BY <1>1, NextMultiple
  <2> QED
    BY <1>0, <2>1
<1>2. CASE q < p
  <2>1. k * q + k <= k * p
    BY <1>2, NextMultiple
  <2> QED
    BY <1>0, <2>1
<1>3. CASE p = q
  BY <1>0, <1>3
<1> QED
  BY <1>1, <1>2, <1>3

LEMMA ModStep ==
    ASSUME NEW n \in Nat, NEW k \in Nat, k # 0
    PROVE  /\ n % k \in 0 .. k - 1
           /\ (n + 1) % k = IF (n % k) + 1 = k THEN 0 ELSE (n % k) + 1
<1>1. PICK p \in Int, r \in 0 .. k - 1 : p = n \div k /\ r = n % k
  OBVIOUS
<1>2. PICK q \in Int, s \in 0 .. k - 1 : q = (n + 1) \div k /\ s = (n + 1) % k
  OBVIOUS
<1>3. n = k * p + r
  BY <1>1, DivMod
<1>4. n + 1 = k * q + s
  BY <1>2, DivMod
<1>5. CASE r + 1 = k
  <2>1. k * (p + 1) = k * p + k
    OBVIOUS
  <2>2. k * (p + 1) + 0 = k * q + s
    BY <1>3, <1>4, <1>5, <2>1
  <2>3. s = 0
    BY <1>5, <2>2, RemainderUnique
  <2> QED
    BY <1>1, <1>2, <1>5, <2>3
<1>6. CASE r + 1 # k
  <2>1. k * p + (r + 1) = k * q + s /\ r + 1 \in 0 .. k - 1
    BY <1>3, <1>4, <1>6
  <2>2. s = r + 1
    BY <2>1, RemainderUnique
  <2> QED
    BY <1>1, <1>2, <1>6, <2>2
<1> QED
  BY <1>5, <1>6

LEMMA MembersFacts ==
    ASSUME NEW g
    PROVE  /\ Lists(Members(g), {e \in Ends : ep[e] = "live" /\ group[e] = g})
           /\ Len(Members(g)) \in Nat /\ DOMAIN Members(g) = 1 .. Len(Members(g))
           /\ Members(g) # <<>> => Len(Members(g)) # 0
<1>1. PICK S : S = {e \in Ends : ep[e] = "live" /\ group[e] = g}
  OBVIOUS
<1>2. Members(g) = Listed(S) /\ Ends \cap S = S
  BY <1>1 DEF Members
<1>3. Lists(Listed(S), Ends \cap S)
  BY ListedFacts
<1>4. Lists(Members(g), S)
  BY <1>2, <1>3
<1>5. PICK s \in Seq(Ends) : s = Members(g)
  BY <1>4 DEF Lists
<1>6. Len(s) \in Nat /\ DOMAIN s = 1 .. Len(s) /\ (s # <<>> => Len(s) # 0)
  OBVIOUS
<1> QED
  BY <1>1, <1>4, <1>5, <1>6

LEMMA TurnFacts ==
    ASSUME Inv, NEW g \in LiveGroups
    PROVE  /\ rr[g] \in Nat /\ (rr[g] % Len(Members(g))) + 1 \in DOMAIN Members(g)
           /\ Turn(g) \in Ends /\ group[Turn(g)] = g /\ g # NoGroup /\ g \in Range(group)
<1>1. g \in Range(group) /\ g # NoGroup /\ Members(g) # <<>> /\ rr[g] \in Nat
  BY DEF LiveGroups, Inv, Types, EndTypes
<1>2. PICK s, n : s = Members(g) /\ n = rr[g]
  OBVIOUS
<1>3. /\ Lists(s, {e \in Ends : ep[e] = "live" /\ group[e] = g}) /\ Len(s) \in Nat
      /\ DOMAIN s = 1 .. Len(s) /\ Len(s) # 0
  BY <1>1, <1>2, MembersFacts
<1>4. n % Len(s) \in 0 .. Len(s) - 1
  BY <1>1, <1>2, <1>3, ModStep
<1>5. (n % Len(s)) + 1 \in DOMAIN s
  BY <1>3, <1>4
<1>6. s[(n % Len(s)) + 1] \in {e \in Ends : ep[e] = "live" /\ group[e] = g}
  BY <1>3, <1>5 DEF Lists
<1> QED
  BY <1>1, <1>2, <1>5, <1>6 DEF Turn

(* Of a group, only the member whose turn it is.                           *)
LEMMA MatchedFacts ==
    ASSUME Inv
    PROVE  /\ Matched \in SUBSET Ends
           /\ OnePer(Matched)
           /\ \A e \in Matched : group[e] # NoGroup => group[e] \in LiveGroups /\ e = Turn(group[e])
           /\ \A g \in LiveGroups : Turn(g) \in Matched
<1>1. Lists(Members(NoGroup), {e \in Ends : ep[e] = "live" /\ group[e] = NoGroup})
  BY MembersFacts
<1>2. \A e \in Range(Members(NoGroup)) : e \in Ends /\ group[e] = NoGroup
  BY <1>1 DEF Lists, Range
<1>3. \A g \in LiveGroups : Turn(g) \in Ends /\ group[Turn(g)] = g /\ g # NoGroup
  BY TurnFacts
<1>4. \A e \in Matched : e \in Range(Members(NoGroup)) \/ \E g \in LiveGroups : e = Turn(g)
  BY DEF Matched
<1>5. Matched \in SUBSET Ends
  BY <1>2, <1>3, <1>4
<1>6. \A e \in Matched : group[e] # NoGroup => group[e] \in LiveGroups /\ e = Turn(group[e])
  BY <1>2, <1>3, <1>4
<1>7. OnePer(Matched)
  BY <1>6 DEF OnePer
<1>8. \A g \in LiveGroups : Turn(g) \in Matched
  BY DEF Matched
<1> QED
  BY <1>5, <1>6, <1>7, <1>8

LEMMA SharesAreNumbers ==
    /\ \A e : /\ IsFiniteSet({x \in Calls : e \in delivered[x]})
              /\ Cardinality({x \in Calls : e \in delivered[x]}) \in Nat
    /\ \A e : /\ IsFiniteSet({b \in Callers : e \in targets[b]})
              /\ Cardinality({b \in Callers : e \in targets[b]}) \in Nat
    /\ \A e : Share(e) \in Nat
<1>1. ASSUME NEW e
      PROVE  /\ IsFiniteSet({x \in Calls : e \in delivered[x]})
             /\ Cardinality({x \in Calls : e \in delivered[x]}) \in Nat
  <2>1. {x \in Calls : e \in delivered[x]} \subseteq Calls
    OBVIOUS
  <2>2. IsFiniteSet({x \in Calls : e \in delivered[x]})
    BY <2>1, CallsAreFinite, FS_Subset
  <2> QED
    BY <2>2, FS_CardinalityType
<1>2. ASSUME NEW e
      PROVE  /\ IsFiniteSet({b \in Callers : e \in targets[b]})
             /\ Cardinality({b \in Callers : e \in targets[b]}) \in Nat
  <2>1. {b \in Callers : e \in targets[b]} \subseteq Callers
    OBVIOUS
  <2>2. IsFiniteSet({b \in Callers : e \in targets[b]})
    BY <2>1, CallersAssumption, FS_Subset
  <2> QED
    BY <2>2, FS_CardinalityType
<1>3. ASSUME NEW e PROVE Share(e) \in Nat
  <2>1. PICK i, j \in Nat : /\ i = Cardinality({x \in Calls : e \in delivered[x]})
                           /\ j = Cardinality({b \in Callers : e \in targets[b]})
    BY <1>1, <1>2
  <2>2. Share(e) = i + j
    BY <2>1 DEF Share
  <2> QED
    BY <2>2
<1> QED
  BY <1>1, <1>2, <1>3

LEMMA MatchCallKeeps ==
    ASSUME Inv, NEW a \in Callers, MatchCall(a)
    PROVE  Inv'
<1>0. /\ UNCHANGED <<gen, connGen, inboxN, inboxes, chan, round, reply, group, ep, copies, held,
                     answers, sending, errors, delivered, first>>
      /\ callerPc[a] = "match" /\ rr' = NextTurn
  BY DEF MatchCall, handlerVars
<1>a. PICK M : M = Matched
  OBVIOUS
<1>b. PICK q \in {"cleanup", "enqueue"} : callerPc' = [callerPc EXCEPT ![a] = q]
                                          /\ (q = "cleanup" <=> M = {})
  BY <1>a DEF MatchCall
<1>c. targets' = [targets EXCEPT ![a] = M]
      /\ (q = "cleanup" => returned' = [returned EXCEPT ![Call(a)] = Outcome("no_responders")])
      /\ (q = "enqueue" => returned' = returned)
  BY <1>a, <1>b DEF MatchCall, Return
<1>d. M \in SUBSET Ends /\ OnePer(M)
  BY <1>a, MatchedFacts
<1>1. Busy(a) /\ q \in Steps
  BY <1>0 DEF Busy, Steps
<1>2. /\ callerPc' \in [Callers -> Steps] /\ callerPc'[a] = q
      /\ \A b \in Callers : b # a => callerPc'[b] = callerPc[b]
      /\ \A b \in Callers : Call(b)' = Call(b)
      /\ NamesAreGiven' /\ NamesAreOwn'
  BY <1>0, <1>1, <1>b, CallMoves
<1>3. Call(a) \in Calls /\ reply[a] \in Names /\ round[a] \in Nat /\ round[a] \in 1 .. MaxCalls
  BY <1>1, CallInCalls
<1>4. PICK x : x = Call(a) /\ x = <<a, round[a]>>
  BY DEF Call
<1>5. /\ AnswersAreGenuine' /\ FirstIsKept' /\ ErrorsCount' /\ returned' \in [Calls -> Results]
      /\ \A y \in Calls : y # x \/ q = "enqueue" => returned'[y] = returned[y]
  <2>1. CASE q = "cleanup"
    <3>1. returned' = [returned EXCEPT ![x] = Outcome("no_responders")] /\ x \in Calls
      BY <1>3, <1>4, <1>c, <2>1
    <3> QED
      BY <1>0, <2>1, <3>1, NoAnswerReturned
  <2>2. CASE q = "enqueue"
    BY <1>0, <1>c, <2>2, AnswersKept DEF Inv, Types, CallTypes
  <2> QED
    BY <2>1, <2>2
<1>6. /\ targets \in [Callers -> SUBSET Ends] /\ targets[a] = {} /\ delivered[x] = {}
      /\ targets' \in [Callers -> SUBSET Ends] /\ targets'[a] = M
      /\ \A b \in Callers : b # a => targets'[b] = targets[b]
  <2>1. targets \in [Callers -> SUBSET Ends] /\ targets[a] = {}
    BY <1>0 DEF Inv, Types, CallTypes, Control
  <2>2. Undelivered(a, round[a])
    BY <1>0, <1>3 DEF Undelivered
  <2>3. delivered[x] = {}
    BY <1>3, <1>4, <2>2 DEF Inv, Control
  <2> QED
    BY <1>c, <1>d, <2>1, <2>3
<1>7. rr \in [Range(group) -> Nat] /\ rr' \in [Range(group) -> Nat]
      /\ \A g \in LiveGroups : rr'[g] = rr[g] + 1
  BY <1>0 DEF Inv, Types, EndTypes, NextTurn, LiveGroups
<1>8. Types'
  <2>1. StoreTypes' /\ AnswerTypes'
    BY <1>0 DEF Inv, Types, StoreTypes, AnswerTypes
  <2>2. CallTypes'
    BY <1>0, <1>2, <1>5, <1>6 DEF Inv, Types, CallTypes
  <2>3. EndTypes'
    BY <1>0, <1>7 DEF Inv, Types, EndTypes
  <2> QED
    BY <2>1, <2>2, <2>3 DEF Types
<1>9. Control'
  <2>1. ASSUME NEW i \in 1 .. MaxCalls
        PROVE  /\ Unanswered(a, i)' => returned'[<<a, i>>].kind = "none"
               /\ Undelivered(a, i)' => delivered'[<<a, i>>] = {}
    <3>1. Unanswered(a, i) => returned[<<a, i>>].kind = "none"
      BY DEF Inv, Control
    <3>2. i > round[a] => delivered[<<a, i>>] = {}
      BY DEF Inv, Control, Undelivered
    <3>3. Undelivered(a, i)' => i > round[a]
      BY <1>0, <1>2 DEF Undelivered
    <3>4. Unanswered(a, i)' => Unanswered(a, i) /\ (i # round[a] \/ q = "enqueue")
      BY <1>0, <1>2, <1>3 DEF Unanswered
    <3>5. i # round[a] \/ q = "enqueue" => returned'[<<a, i>>] = returned[<<a, i>>]
      BY <1>3, <1>4, <1>5 DEF Calls
    <3> QED
      BY <1>0, <3>1, <3>2, <3>3, <3>4, <3>5
  <2>2. \A b \in Callers, i \in 1 .. MaxCalls : b # a => returned'[<<b, i>>] = returned[<<b, i>>]
    BY <1>4, <1>5 DEF Calls
  <2>3. (q # "enqueue" => targets'[a] = {}) /\ round[a] >= 1
    BY <1>b, <1>3, <1>6, BoundsAssumption
  <2> QED
    BY <1>0, <1>2, <1>3, <1>6, <2>1, <2>2, <2>3, OneMoves
<1>10. NoInboxLeaks'
  BY <1>0, <1>2, InboxesKept
<1>11. Groupwise'
  <2>1. \A S : OnePer(S)' <=> OnePer(S)
    BY <1>0 DEF OnePer
  <2>2. \A y \in Calls : OnePer(delivered'[y])
    BY <1>0 DEF Inv, Groupwise
  <2>3. ASSUME NEW b \in Callers, callerPc'[b] = "enqueue"
        PROVE  OnePer(delivered'[Call(b)'] \cup targets'[b]) /\ delivered'[Call(b)'] \cap targets'[b] = {}
    <3>1. CASE b = a
      <4>1. delivered'[Call(b)'] = {} /\ targets'[b] = M
        BY <3>1, <1>0, <1>2, <1>4, <1>6
      <4> QED
        BY <4>1, <1>d
    <3>2. CASE b # a
      BY <2>3, <3>2, <1>0, <1>2, <1>6 DEF Inv, Groupwise
    <3> QED
      BY <3>1, <3>2
  <2> QED
    BY <2>1, <2>2, <2>3 DEF Groupwise
<1>12. \A e : Share(e)' = IF e \in M THEN Share(e) + 1 ELSE Share(e)
  <2> SUFFICES ASSUME NEW e PROVE Share(e)' = IF e \in M THEN Share(e) + 1 ELSE Share(e)
    OBVIOUS
  <2>1. PICK D, T, U : /\ D = {y \in Calls : e \in delivered[y]} /\ T = {b \in Callers : e \in targets[b]}
                       /\ U = {b \in Callers : e \in targets'[b]}
    OBVIOUS
  <2>2. Share(e) = Cardinality(D) + Cardinality(T) /\ Share(e)' = Cardinality(D) + Cardinality(U)
    BY <1>0, <2>1 DEF Share
  <2>3. a \notin T /\ IsFiniteSet(T) /\ Cardinality(T) \in Nat /\ Cardinality(D) \in Nat
    BY <1>6, <2>1, SharesAreNumbers
  <2>4. CASE e \notin M
    <3>1. U = T
      BY <1>6, <2>1, <2>4
    <3> QED
      BY <2>2, <2>4, <3>1
  <2>5. CASE e \in M
    <3>1. U = T \cup {a}
      BY <1>6, <2>1, <2>5
    <3>2. Cardinality(U) = Cardinality(T) + 1
      BY <2>3, <3>1, FS_AddElement
    <3> QED
      BY <2>2, <2>3, <2>5, <3>2
  <2> QED
    BY <2>4, <2>5
<1>13. SharesFollowTurns'
  <2>1. \A g : Members(g)' = Members(g)
    BY <1>0 DEF Members
  <2>2. Undisturbed' => Undisturbed
    BY <1>0 DEF Undisturbed
  <2> SUFFICES ASSUME Undisturbed, NEW g \in Range(group) \ {NoGroup}, Members(g) # <<>>
               PROVE  \E p \in Nat : Turned(Members(g), rr[g], p)'
    BY <1>0, <2>1, <2>2 DEF SharesFollowTurns
  <2>3. PICK s, n : s = Members(g) /\ n = rr[g]
    OBVIOUS
  <2>4. PICK p \in Nat : Turned(s, n, p)
    BY <2>3 DEF Inv, SharesFollowTurns
  <2>5. g \in LiveGroups /\ rr'[g] = n + 1 /\ n \in Nat
    BY <1>7, <2>3 DEF LiveGroups
  <2>6. /\ Lists(s, {e \in Ends : ep[e] = "live" /\ group[e] = g}) /\ Len(s) \in Nat
        /\ DOMAIN s = 1 .. Len(s) /\ Len(s) # 0
    BY <2>3, MembersFacts
  <2>7. PICK k, t : k = Len(s) /\ t = n % k
    OBVIOUS
  <2>8. k \in Nat /\ k # 0 /\ t \in 0 .. k - 1 /\ (n + 1) % k = IF t + 1 = k THEN 0 ELSE t + 1
    BY <2>5, <2>6, <2>7, ModStep
  <2>9. \A i \in 1 .. k : s[i] \in M <=> i = t + 1
    <3>1. Turn(g) = s[t + 1] /\ t + 1 \in 1 .. k
      BY <2>3, <2>7, <2>8 DEF Turn
    <3>2. \A i \in 1 .. k : s[i] \in Ends /\ group[s[i]] = g
      BY <2>6, <2>7 DEF Lists
    <3>3. \A i \in 1 .. k : s[i] = s[t + 1] => i = t + 1
      BY <3>1, <2>6, <2>7 DEF Lists
    <3>4. s[t + 1] \in M
      BY <1>a, <2>5, <3>1, MatchedFacts
    <3>5. \A i \in 1 .. k : s[i] \in M => s[i] = s[t + 1]
      BY <1>a, <3>1, <3>2, MatchedFacts
    <3> QED
      BY <3>1, <3>3, <3>4, <3>5
  <2>10. \A i \in 1 .. k : Share(s[i]) = IF i <= t THEN p + 1 ELSE p
    BY <2>4, <2>6, <2>7 DEF Turned
  <2>11. \A i \in 1 .. k : Share(s[i])' = IF i <= t + 1 THEN p + 1 ELSE p
    <3> SUFFICES ASSUME NEW i \in 1 .. k PROVE Share(s[i])' = IF i <= t + 1 THEN p + 1 ELSE p
      OBVIOUS
    <3>1. PICK e : e = s[i]
      OBVIOUS
    <3>2. Share(e)' = IF i = t + 1 THEN Share(e) + 1 ELSE Share(e)
      BY <1>12, <2>9, <3>1
    <3>3. Share(e) = IF i <= t THEN p + 1 ELSE p
      BY <2>10, <3>1
    <3>4. i \in Nat /\ t \in Nat
      BY <2>8
    <3> QED
      BY <3>1, <3>2, <3>3, <3>4
  <2>12. CASE t + 1 = k
    <3>1. \A i \in 1 .. k : Share(s[i])' = p + 1 /\ ~(i <= 0)
      BY <2>8, <2>11, <2>12
    <3>2. Turned(s, n + 1, p + 1)'
      BY <2>6, <2>7, <2>8, <2>12, <3>1 DEF Turned
    <3>3. p + 1 \in Nat /\ Turned(Members(g), rr[g], p + 1)'
      BY <2>1, <2>3, <2>5, <3>2 DEF Turned
    <3> QED
      BY <3>3
  <2>13. CASE t + 1 # k
    <3>1. Turned(s, n + 1, p)'
      BY <2>6, <2>7, <2>8, <2>11, <2>13 DEF Turned
    <3> QED
      BY <2>1, <2>3, <2>5, <3>1 DEF Turned
  <2> QED
    BY <2>12, <2>13
<1> QED
  BY <1>2, <1>5, <1>8, <1>9, <1>10, <1>11, <1>13 DEF Inv

(* deliver's step to one endpoint moves it from those still to be reached  *)
(* to those reached, and its share stays.                                  *)
LEMMA EnqueueKeeps ==
    ASSUME Inv, NEW a \in Callers, NEW e \in Ends, Enqueue(a, e)
    PROVE  Inv'
<1>0. /\ UNCHANGED <<gen, connGen, inboxN, inboxes, chan, round, reply, returned, group, rr,
                     held, answers, sending, errors, first>>
      /\ callerPc[a] = "enqueue" /\ e \in targets[a]
      /\ targets' = [targets EXCEPT ![a] = targets[a] \ {e}]
  BY DEF Enqueue, handlerVars
<1>1. Busy(a)
  BY <1>0 DEF Busy
<1>2. PICK q \in {"wait", "enqueue"} : /\ callerPc' = [callerPc EXCEPT ![a] = q]
                                       /\ q = "wait" => targets[a] = {e}
  BY DEF Enqueue
<1>3. /\ callerPc \in [Callers -> Steps] /\ callerPc' \in [Callers -> Steps] /\ callerPc'[a] = q
      /\ \A b \in Callers : b # a => callerPc'[b] = callerPc[b]
  <2>1. callerPc \in [Callers -> Steps] /\ q \in Steps
    BY DEF Inv, Types, CallTypes, Steps
  <2> QED
    BY <1>2, <2>1
<1>4. \A b \in Callers : Call(b)' = Call(b)
  BY <1>0 DEF Call
<1>5. Call(a) \in Calls /\ reply[a] \in Names /\ round[a] \in Nat /\ round[a] \in 1 .. MaxCalls
  BY <1>1, CallInCalls
<1>6. PICK x, m : x = Call(a) /\ x = <<a, round[a]>> /\ m = [call |-> x, to |-> reply[a], ep |-> e]
  BY DEF Call
<1>7. x \in Calls /\ m \in Copies /\ m.call = x /\ m.to = reply[a]
  BY <1>5, <1>6 DEF Copies
<1>8. \/ ep[e] = "finished" /\ UNCHANGED <<ep, copies, delivered>>
      \/ /\ ep' = [ep EXCEPT ![e] = "finished"] /\ copies' = [copies EXCEPT ![e] = <<>>]
         /\ UNCHANGED delivered
      \/ /\ ep' = ep /\ ~(Len(copies[e]) >= PendingLimit)
         /\ copies' = [copies EXCEPT ![e] = Append(copies[e], m)]
         /\ delivered' = [delivered EXCEPT ![x] = delivered[x] \cup {e}]
  BY <1>6 DEF Enqueue, QueueFull
<1>9. /\ copies \in [Ends -> Seq(Copies)] /\ (\A f \in Ends : Len(copies[f]) <= PendingLimit)
      /\ held \in SUBSET Copies /\ PendingLimit \in Nat
      /\ ep \in [Ends -> {"live", "unlisted", "finished"}]
      /\ delivered \in [Calls -> SUBSET Ends] /\ targets \in [Callers -> SUBSET Ends]
  BY BoundsAssumption DEF Inv, Types, EndTypes, CallTypes
<1>10. /\ copies' \in [Ends -> Seq(Copies)] /\ (\A f \in Ends : Len(copies'[f]) <= PendingLimit)
       /\ \A w \in Copies : InFlight(w)' => InFlight(w) \/ w = m
  <2>1. CASE UNCHANGED copies
    BY <1>0, <1>9, <2>1, FlightKept
  <2>2. CASE copies' = [copies EXCEPT ![e] = <<>>]
    <3>1. copies[e] \in Seq(Copies)
      BY <1>9
    <3>2. <<>> \in Seq(Copies) /\ Len(<<>>) <= Len(copies[e]) /\ DOMAIN (<<>>) = {}
      BY <3>1
    <3>3. \A i \in DOMAIN (<<>>) : \E j \in DOMAIN copies[e] : <<>>[i] = copies[e][j]
      BY <3>2
    <3>4. \A w \in held' : w \in held \/ \E j \in DOMAIN copies[e] : w = copies[e][j]
      BY <1>0
    <3>5. held' \in SUBSET Copies
      BY <1>0, <1>9
    <3> QED
      BY <2>2, <3>2, <3>3, <3>4, <3>5, FewerCopies
  <2>3. CASE /\ ~(Len(copies[e]) >= PendingLimit)
             /\ copies' = [copies EXCEPT ![e] = Append(copies[e], m)]
    <3>1. PICK s \in Seq(Copies) : s = copies[e]
      BY <1>9
    <3>2. /\ Append(s, m) \in Seq(Copies) /\ Len(Append(s, m)) = Len(s) + 1 /\ Len(s) \in Nat
          /\ DOMAIN Append(s, m) = 1 .. Len(s) + 1 /\ DOMAIN s = 1 .. Len(s)
          /\ Append(s, m)[Len(s) + 1] = m /\ \A i \in 1 .. Len(s) : Append(s, m)[i] = s[i]
      BY <1>7
    <3>3. Len(Append(s, m)) <= PendingLimit
      BY <1>9, <2>3, <3>1, <3>2
    <3>4. \A i \in DOMAIN Append(s, m) : Append(s, m)[i] = m \/ \E j \in DOMAIN s : Append(s, m)[i] = s[j]
      <4>1. \A i \in 1 .. Len(s) + 1 : i = Len(s) + 1 \/ i \in 1 .. Len(s)
        BY <3>2
      <4> QED
        BY <3>2, <4>1
    <3>5. copies'[e] = Append(s, m) /\ \A f \in Ends : f # e => copies'[f] = copies[f]
      BY <1>9, <2>3, <3>1
    <3>6. copies' \in [Ends -> Seq(Copies)] /\ \A f \in Ends : Len(copies'[f]) <= PendingLimit
      <4>1. copies' \in [Ends -> Seq(Copies)]
        BY <1>9, <2>3, <3>1, <3>2
      <4>2. ASSUME NEW f \in Ends PROVE Len(copies'[f]) <= PendingLimit
        BY <1>9, <3>3, <3>5, <4>2
      <4> QED
        BY <4>1, <4>2
    <3>7. ASSUME NEW w \in Copies, InFlight(w)' PROVE InFlight(w) \/ w = m
      BY <1>0, <3>1, <3>4, <3>5, <3>7 DEF InFlight
    <3> QED
      BY <3>6, <3>7
  <2> QED
    BY <1>8, <2>1, <2>2, <2>3
<1>11. /\ targets' \in [Callers -> SUBSET Ends] /\ targets'[a] = targets[a] \ {e}
       /\ \A b \in Callers : b # a => targets'[b] = targets[b]
  BY <1>0, <1>9
<1>12. /\ delivered' \in [Calls -> SUBSET Ends]
       /\ \A y \in Calls : y # x => delivered'[y] = delivered[y]
       /\ delivered'[x] = delivered[x] \/ delivered'[x] = delivered[x] \cup {e}
  <2>1. CASE UNCHANGED delivered
    BY <1>9, <2>1
  <2>2. CASE delivered' = [delivered EXCEPT ![x] = delivered[x] \cup {e}]
    BY <1>7, <1>9, <2>2
  <2> QED
    BY <1>8, <2>1, <2>2
<1>13. Types'
  <2>1. StoreTypes' /\ AnswerTypes'
    BY <1>0 DEF Inv, Types, StoreTypes, AnswerTypes
  <2>2. CallTypes'
    BY <1>0, <1>3, <1>11, <1>12 DEF Inv, Types, CallTypes
  <2>3. ep' \in [Ends -> {"live", "unlisted", "finished"}]
    BY <1>8, <1>9
  <2>4. EndTypes'
    BY <1>0, <1>10, <2>3 DEF Inv, Types, EndTypes
  <2> QED
    BY <2>1, <2>2, <2>4 DEF Types
<1>14. Control'
  <2>1. ASSUME NEW i \in 1 .. MaxCalls
        PROVE  /\ Unanswered(a, i)' => returned'[<<a, i>>].kind = "none"
               /\ Undelivered(a, i)' => delivered'[<<a, i>>] = {}
    <3>1. Unanswered(a, i) => returned[<<a, i>>].kind = "none"
      BY DEF Inv, Control
    <3>2. i > round[a] => delivered[<<a, i>>] = {}
      BY DEF Inv, Control, Undelivered
    <3>3. Undelivered(a, i)' => i > round[a]
      BY <1>0, <1>3 DEF Undelivered
    <3>4. Unanswered(a, i)' => Unanswered(a, i)
      BY <1>0, <1>3 DEF Unanswered
    <3>5. i > round[a] => delivered'[<<a, i>>] = delivered[<<a, i>>]
      BY <1>5, <1>6, <1>12 DEF Calls
    <3> QED
      BY <1>0, <3>1, <3>2, <3>3, <3>4, <3>5
  <2>2. \A b \in Callers, i \in 1 .. MaxCalls : b # a => delivered'[<<b, i>>] = delivered[<<b, i>>]
    BY <1>6, <1>12 DEF Calls
  <2>3. (q # "enqueue" => targets'[a] = {}) /\ round[a] >= 1
    BY <1>2, <1>5, <1>11, BoundsAssumption
  <2> QED
    BY <1>0, <1>3, <1>5, <1>11, <2>1, <2>2, <2>3, OneMoves
<1>15. AnswersAreGenuine' /\ FirstIsKept' /\ ErrorsCount'
  BY <1>0, AnswersKept
<1>16. NoInboxLeaks'
  BY <1>0, <1>3, InboxesKept
<1>17. NamesAreGiven' /\ NamesAreOwn'
  <2>1. \A b \in Callers : Busy(b)' => Busy(b)
    BY <1>1, <1>3 DEF Busy
  <2>2. \A w \in Copies : InFlight(w)' =>
           InFlight(w) \/ \E b \in Callers : Busy(b) /\ w.to = reply[b] /\ w.call = Call(b)
    BY <1>1, <1>6, <1>7, <1>10
  <2> QED
    BY <1>0, <2>1, <2>2, NamesKept, GivenKept
<1>18. OnePer(delivered[x] \cup targets[a]) /\ delivered[x] \cap targets[a] = {}
  BY <1>0, <1>6 DEF Inv, Groupwise
<1>19. Groupwise'
  <2>1. \A S : OnePer(S)' <=> OnePer(S)
    BY <1>0 DEF OnePer
  <2>2. \A S, T : OnePer(S) /\ T \subseteq S => OnePer(T)
    BY DEF OnePer
  <2>3. /\ delivered'[x] \subseteq delivered[x] \cup targets[a]
        /\ delivered'[x] \cup targets'[a] \subseteq delivered[x] \cup targets[a]
        /\ delivered'[x] \cap targets'[a] = {}
    BY <1>0, <1>11, <1>12, <1>18
  <2>4. \A y \in Calls : OnePer(delivered'[y])
    <3>1. OnePer(delivered'[x])
      BY <1>18, <2>2, <2>3
    <3> QED
      BY <1>12, <3>1 DEF Inv, Groupwise
  <2>5. ASSUME NEW b \in Callers, callerPc'[b] = "enqueue"
        PROVE  OnePer(delivered'[Call(b)'] \cup targets'[b]) /\ delivered'[Call(b)'] \cap targets'[b] = {}
    <3>1. CASE b = a
      BY <3>1, <1>4, <1>6, <1>18, <2>2, <2>3
    <3>2. CASE b # a
      <4>1. callerPc[b] = "enqueue" /\ Busy(b) /\ Call(b) # x
        BY <2>5, <3>2, <1>3, <1>6 DEF Busy, Call
      <4>2. Call(b) \in Calls
        BY <4>1, CallInCalls
      <4>3. delivered'[Call(b)'] = delivered[Call(b)] /\ targets'[b] = targets[b]
        BY <3>2, <4>1, <4>2, <1>4, <1>11, <1>12
      <4> QED
        BY <4>1, <4>3 DEF Inv, Groupwise
    <3> QED
      BY <3>1, <3>2
  <2> QED
    BY <2>1, <2>4, <2>5 DEF Groupwise
<1>20. SharesFollowTurns'
  <2>1. CASE ep[e] = "finished" /\ UNCHANGED ep
    BY <2>1, DisturbedShares DEF Undisturbed
  <2>2. CASE ep' = [ep EXCEPT ![e] = "finished"]
    <3>1. ep'[e] = "finished"
      BY <2>2, <1>9
    <3> QED
      BY <3>1, DisturbedShares DEF Undisturbed
  <2>3. CASE ep' = ep /\ delivered' = [delivered EXCEPT ![x] = delivered[x] \cup {e}]
    <3>1. delivered'[x] = delivered[x] \cup {e} /\ e \notin delivered[x]
      BY <2>3, <1>0, <1>7, <1>9, <1>18
    <3>2. ASSUME NEW f PROVE Share(f)' = Share(f)
      <4>1. PICK C, D, T, U :
               /\ C = {y \in Calls : f \in delivered[y]} /\ D = {y \in Calls : f \in delivered'[y]}
               /\ T = {b \in Callers : f \in targets[b]} /\ U = {b \in Callers : f \in targets'[b]}
        OBVIOUS
      <4>2. Share(f) = Cardinality(C) + Cardinality(T) /\ Share(f)' = Cardinality(D) + Cardinality(U)
        BY <4>1 DEF Share
      <4>3. /\ IsFiniteSet(T) /\ Cardinality(T) \in Nat
            /\ IsFiniteSet(C) /\ Cardinality(C) \in Nat
        BY <4>1, SharesAreNumbers
      <4>4. CASE f # e
        <5>1. C = D
          BY <4>1, <4>4, <3>1, <1>12
        <5>2. T = U
          BY <4>1, <4>4, <1>11
        <5> QED
          BY <4>2, <5>1, <5>2
      <4>5. CASE f = e
        <5>1. D = C \cup {x} /\ x \notin C
          BY <4>1, <4>5, <3>1, <1>7, <1>12
        <5>2. U = T \ {a} /\ a \in T
          BY <4>1, <4>5, <1>0, <1>11
        <5>3. Cardinality(D) = Cardinality(C) + 1
          BY <4>3, <5>1, FS_AddElement
        <5>4. Cardinality(U) = Cardinality(T) - 1
          BY <4>3, <5>2, FS_RemoveElement
        <5> QED
          BY <4>2, <4>3, <5>3, <5>4
      <4> QED
        BY <4>4, <4>5
    <3>3. \A g : Members(g)' = Members(g)
      BY <1>0, <2>3 DEF Members
    <3>4. \A s, n, p : Turned(s, n, p)' <=> Turned(s, n, p)
      BY <3>2 DEF Turned
    <3>5. Undisturbed' => Undisturbed
      BY <1>0, <2>3 DEF Undisturbed
    <3> QED
      BY <1>0, <3>3, <3>4, <3>5 DEF Inv, SharesFollowTurns
  <2> QED
    BY <1>8, <2>1, <2>2, <2>3
<1> QED
  BY <1>13, <1>14, <1>15, <1>16, <1>17, <1>19, <1>20 DEF Inv

----------------------------------------------------------------------------
LEMMA InitInv == CallsInit => Inv
<1> SUFFICES ASSUME CallsInit PROVE Inv
  OBVIOUS
<1>0. /\ 0 \in 0 .. MaxGen /\ 0 \in 0 .. MaxCalls /\ PendingLimit \in Nat
      /\ \A S : <<>> \in Seq(S) /\ Len(<<>>) = 0 /\ DOMAIN (<<>>) = {}
  BY BoundsAssumption
<1>1. StoreTypes
  BY <1>0 DEF CallsInit, StoreTypes
<1>2. CallTypes
  <2>1. Outcome("none") \in Results
    BY DEF Outcome, Results, Outcomes
  <2> QED
    BY <1>0, <2>1 DEF CallsInit, CallTypes, Steps
<1>3. EndTypes
  <2>1. group \in [Ends -> Range(group)]
    BY EndpointsAssumption DEF CallsInit
  <2>2. rr \in [Range(group) -> Nat]
    BY DEF CallsInit
  <2>3. /\ copies \in [Ends -> Seq(Copies)] /\ held \in SUBSET Copies
        /\ \A e \in Ends : copies[e] = <<>>
    BY <1>0 DEF CallsInit
  <2>4. \A e \in Ends : Len(copies[e]) <= PendingLimit
    BY <1>0, <2>3
  <2>5. ep \in [Ends -> {"live", "unlisted", "finished"}]
    BY DEF CallsInit
  <2> QED
    BY <2>1, <2>2, <2>3, <2>4, <2>5 DEF EndTypes
<1>4. AnswerTypes
  <2>1. \A x \in Calls : chan[x] = <<>>
    BY DEF CallsInit
  <2>2. \A x \in Calls : Len(chan[x]) <= 1
    BY <1>0, <2>1
  <2> QED
    BY <1>0, <2>2 DEF CallsInit, AnswerTypes
<1>5. Control
  <2>1. /\ \A a \in Callers : ~Busy(a) /\ targets[a] = {}
        /\ \A x \in Calls : returned[x].kind = "none" /\ delivered[x] = {}
    BY DEF CallsInit, Busy, Outcome
  <2> QED
    BY <2>1 DEF Control, Calls
<1>6. \A m : ~InFlight(m)
  BY <1>0 DEF CallsInit, InFlight
<1>7. \A a \in Callers : ~Busy(a)
  BY DEF CallsInit, Busy
<1>8. NamesAreGiven /\ NamesAreOwn
  BY <1>6, <1>7 DEF NamesAreGiven, NamesAreOwn
<1>9. NoInboxLeaks
  BY <1>0 DEF CallsInit, NoInboxLeaks
<1>10. AnswersAreGenuine /\ FirstIsKept
  BY DEF CallsInit, AnswersAreGenuine, FirstIsKept, Outcome, Answered
<1>11. ErrorsCount
  <2>1. \A e \in Ends : Asked(e) = {} /\ errors[e] = 0
    BY DEF CallsInit, Asked
  <2> QED
    BY <2>1, FS_EmptySet DEF ErrorsCount
<1>12. Groupwise
  BY DEF CallsInit, Groupwise, OnePer
<1>13. SharesFollowTurns
  <2>1. \A e : Share(e) = 0
    <3> SUFFICES ASSUME NEW e PROVE Share(e) = 0
      OBVIOUS
    <3>1. {x \in Calls : e \in delivered[x]} = {} /\ {a \in Callers : e \in targets[a]} = {}
      BY DEF CallsInit
    <3>2. Cardinality({}) = 0
      BY FS_EmptySet
    <3>3. Share(e) = Cardinality({}) + Cardinality({})
      BY <3>1 DEF Share
    <3> QED
      BY <3>2, <3>3
  <2>2. ASSUME NEW g \in Range(group) \ {NoGroup}, Members(g) # <<>>
        PROVE  Turned(Members(g), rr[g], 0)
    <3>1. PICK s : s = Members(g)
      OBVIOUS
    <3>2. rr[g] = 0 /\ Len(s) \in Nat /\ Len(s) # 0 /\ DOMAIN s = 1 .. Len(s)
      BY <2>2, <3>1, MembersFacts DEF CallsInit
    <3>3. 0 % Len(s) = 0
      BY <3>2
    <3>4. \A i \in DOMAIN s : ~(i <= 0 % Len(s))
      BY <3>2, <3>3
    <3> QED
      BY <2>1, <3>1, <3>2, <3>4 DEF Turned
  <2> QED
    BY <2>2 DEF SharesFollowTurns
<1> QED
  BY <1>1, <1>2, <1>3, <1>4, <1>5, <1>8, <1>9, <1>10, <1>11, <1>12, <1>13 DEF Inv, Types

LEMMA NextKeeps ==
    ASSUME OneConnEach, Inv, [CallsNext]_callVars
    PROVE  Inv'
<1>1. CASE \E a \in Callers : Begin(a) \/ Refuse(a) \/ Caller(a)
  BY <1>1, BeginKeeps, RefuseKeeps, RegisterKeeps, MatchCallKeeps, EnqueueKeeps, TakeReplyKeeps,
     TimeOutKeeps, CleanupKeeps DEF Caller
<1>2. CASE \E e \in Ends : Take(e) \/ EndEndpoint(e) \/ ServeAgain(e)
  BY <1>2, TakeKeeps, EndEndpointKeeps, ServeAgainKeeps
<1>3. CASE \E m \in held : Respond(m)
  BY <1>3, RespondKeeps
<1>4. CASE \E x \in sending : Send(x)
  BY <1>4, SendKeeps
<1>5. CASE \E c \in Conns : Reconnect(c)
  BY <1>5, ReconnectKeeps
<1>6. CASE Restart
  BY <1>6, RestartKeeps
<1>7. CASE UNCHANGED callVars
  <2>0. /\ UNCHANGED <<gen, connGen, inboxN, inboxes, chan, callerVars, group, rr, ep, copies, held,
                       answers, sending, errors, delivered, first>>
        /\ UNCHANGED <<callerPc, round, reply, targets, returned>>
    BY <1>7 DEF callVars, callerVars, handlerVars
  <2>1. StoreTypes' /\ EndTypes' /\ AnswerTypes'
    BY <2>0 DEF Inv, Types, StoreTypes, EndTypes, AnswerTypes
  <2>2. CallTypes' /\ Control' /\ AnswersAreGenuine' /\ FirstIsKept' /\ ErrorsCount' /\ SharesFollowTurns'
    BY <2>0, ControlKept, AnswersKept, SharesKept
  <2>3. Groupwise' /\ NoInboxLeaks'
    BY <2>0, GroupsKept, InboxesKept
  <2>4. NamesAreGiven' /\ NamesAreOwn'
    BY <2>0, NamesKept, GivenKept, FlightKept DEF Busy
  <2> QED
    BY <2>1, <2>2, <2>3, <2>4 DEF Inv, Types
<1> QED
  BY <1>1, <1>2, <1>3, <1>4, <1>5, <1>6, <1>7 DEF CallsNext

(* What the turns say of two members of one group.                         *)
LEMMA TurnsAreEven ==
    ASSUME Inv
    PROVE  EvenShares
<1> SUFFICES ASSUME Undisturbed, NEW e \in Ends, NEW f \in Ends, group[e] # NoGroup, group[e] = group[f]
             PROVE  Share(e) <= Share(f) + 1
  BY DEF EvenShares
<1>1. PICK g, s : g = group[e] /\ s = Members(g)
  OBVIOUS
<1>2. Lists(s, {h \in Ends : ep[h] = "live" /\ group[h] = g})
  BY <1>1, MembersFacts
<1>3. e \in {h \in Ends : ep[h] = "live" /\ group[h] = g} /\ f \in {h \in Ends : ep[h] = "live" /\ group[h] = g}
  BY <1>1 DEF Undisturbed
<1>4. PICK i, j \in DOMAIN s : s[i] = e /\ s[j] = f
  BY <1>2, <1>3 DEF Lists
<1>5. s # <<>>
  BY <1>4
<1>6. g \in Range(group) \ {NoGroup}
  BY <1>1 DEF Inv, Types, EndTypes
<1>7. PICK q \in Nat : Turned(s, rr[g], q)
  BY <1>1, <1>5, <1>6 DEF Inv, SharesFollowTurns
<1>8. Share(e) \in {q, q + 1} /\ Share(f) \in {q, q + 1}
  BY <1>4, <1>7 DEF Turned
<1> QED
  BY <1>8

(* A fault that was returned was an answer of a service that counts its    *)
(* faults.                                                                 *)
LEMMA FaultsWereCounted ==
    ASSUME Inv
    PROVE  FaultsAreCounted
<1> SUFFICES ASSUME NEW e \in Ends
             PROVE  Cardinality({x \in Calls : \E r \in returned[x].from : r.ep = e /\ r.fault}) <= errors[e]
  BY DEF FaultsAreCounted
<1>1. PICK F : F = {x \in Calls : \E r \in returned[x].from : r.ep = e /\ r.fault}
  OBVIOUS
<1>2. ASSUME NEW x \in F PROVE e \in Faulty /\ x \in Asked(e)
  <2>1. PICK r \in returned[x].from : r.ep = e /\ r.fault
    BY <1>1
  <2>2. Genuine(r, x) /\ x \in Calls
    BY <1>1 DEF Inv, AnswersAreGenuine
  <2>3. e \in Faulty /\ answers[<<x, e>>] > 0
    BY <2>1, <2>2 DEF Genuine
  <2> QED
    BY <2>2, <2>3 DEF Asked
<1>3. errors[e] \in Nat /\ (e \in Faulty => Cardinality(Asked(e)) <= errors[e])
  BY DEF Inv, Types, AnswerTypes, ErrorsCount
<1>4. CASE e \in Faulty
  <2>1. IsFiniteSet(Asked(e))
    BY CallsAreFinite, FS_Subset DEF Asked
  <2>2. F \subseteq Asked(e)
    BY <1>2
  <2>3. /\ Cardinality(F) <= Cardinality(Asked(e)) /\ Cardinality(F) \in Nat
        /\ Cardinality(Asked(e)) \in Nat
    BY <2>1, <2>2, FS_Subset, FS_CardinalityType
  <2> QED
    BY <1>1, <1>3, <1>4, <2>3
<1>5. CASE e \notin Faulty
  <2>1. F = {}
    BY <1>2, <1>5
  <2>2. Cardinality(F) = 0
    BY <2>1, FS_EmptySet
  <2> QED
    BY <1>1, <1>3, <2>2
<1> QED
  BY <1>4, <1>5

LEMMA InvAnswers == Inv => CallsAnswered
<1> SUFFICES ASSUME Inv PROVE CallsAnswered
  OBVIOUS
<1>1. CallsTypeOK
  <2>1. \A x \in Calls : returned[x].kind \in Outcomes /\ returned[x].from \subseteq Answer
    BY DEF Inv, Types, CallTypes, Results
  <2> QED
    BY <2>1 DEF Inv, Types, StoreTypes, CallTypes, EndTypes, AnswerTypes, CallsTypeOK, Steps
<1>2. AnswerIsOwn
  BY DEF Inv, AnswersAreGenuine, Genuine, AnswerIsOwn
<1>3. FirstAnswerWins
  BY DEF Inv, FirstIsKept, FirstAnswerWins
<1>4. OneMemberPerGroup
  BY DEF Inv, Groupwise, OnePer, OneMemberPerGroup
<1> QED
  BY <1>1, <1>2, <1>3, <1>4, TurnsAreEven, FaultsWereCounted DEF Inv, CallsAnswered

(* Where no two connections are of one plugin, every call gets the first   *)
(* answer to itself or none and leaves no inbox behind, every message      *)
(* reaches one member of a queue group at most, each in its turn, and a    *)
(* service counts the faults its callers see (Request, deliver, respondTo, *)
(* matchLocked, onReply).                                                  *)
THEOREM CallsAreAnswered ==
    ASSUME OneConnEach
    PROVE  CallsSpec => []CallsAnswered
<1>1. CallsInit => Inv
  BY InitInv
<1>2. Inv /\ [CallsNext]_callVars => Inv'
  BY NextKeeps
<1>3. Inv => CallsAnswered
  BY InvAnswers
<1> QED
  BY <1>1, <1>2, <1>3, PTL DEF CallsSpec
=============================================================================
