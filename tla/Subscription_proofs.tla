------------------------ MODULE Subscription_proofs ------------------------
(***************************************************************************)
(* Proofs about Subscription, for any number of publishers and Drain       *)
(* callers, any PendingLimit and any number of messages.                   *)
(***************************************************************************)
EXTENDS Subscription, SequenceTheorems, TLAPS

----------------------------------------------------------------------------
(* Popping the queue keeps handed \o queue as it was.                      *)
LEMMA PopFromQueue ==
    ASSUME NEW S, NEW s \in Seq(S), NEW t \in Seq(S), t # <<>>
    PROVE  s \o t = Append(s, Head(t)) \o Tail(t)
<1>1. Head(t) \in S /\ Tail(t) \in Seq(S) /\ <<Head(t)>> \in Seq(S)
  BY HeadTailProperties
<1>2. Len(t) \in Nat \ {0} /\ Head(t) = t[1]
  BY EmptySeq
<1>3. t = <<Head(t)>> \o Tail(t)
  <2>1. SubSeq(t, 1, Len(t)) = t
    BY SubSeqFull
  <2>2. Tail(t) = SubSeq(t, 2, Len(t))
    BY TailIsSubSeq
  <2>3. 1 \in 1 .. Len(t) /\ Len(t) \in 1 .. Len(t)
    BY <1>2
  <2>4. SubSeq(t, 1, Len(t)) = <<t[1]>> \o SubSeq(t, 1 + 1, Len(t))
    BY <2>3, SubSeqRecursiveFirst
  <2> QED
    BY <2>1, <2>2, <2>4, <1>2
<1>4. s \o (<<Head(t)>> \o Tail(t)) = (s \o <<Head(t)>>) \o Tail(t)
  BY <1>1, ConcatAssociative
<1>5. Append(s, Head(t)) = s \o <<Head(t)>>
  BY <1>1, AppendIsConcat
<1> QED
  BY <1>3, <1>4, <1>5

----------------------------------------------------------------------------
(* finish changes the same fields whoever calls it, and empties the queue. *)
LEMMA FinishType ==
    ASSUME TypeOK, NEW a \in Actors, NEW e \in Faults,
           NEW c \in Labels, NEW l \in Labels, Finish(a, e, c, l)
    PROVE  /\ queue' \in Seq(Msg) /\ Len(queue') <= Limit
           /\ finished' \in BOOLEAN /\ err' \in Faults
           /\ pc' \in [Actors -> Labels]
<1>1. CASE finished
  BY <1>1 DEF TypeOK, Finish, Goto
<1>2. CASE ~finished
  BY <1>2, LimitAssumption DEF TypeOK, Finish, Goto
<1> QED
  BY <1>1, <1>2

(* Every reachable state is well typed and the queue never exceeds         *)
(* SubOptions.PendingLimit.                                                *)
THEOREM Typing == Spec => []TypeOK
<1>1. Init => TypeOK
  <2> SUFFICES ASSUME Init PROVE TypeOK
    OBVIOUS
  <2>1. pc \in [Actors -> Labels]
    BY DEF Init, Labels
  <2>2. /\ queue \in Seq(Msg) /\ accepted \in Seq(Msg) /\ handed \in Seq(Msg)
        /\ Len(queue) <= Limit
    BY LimitAssumption DEF Init
  <2>3. sent \in [Publishers -> Nat] /\ result \in [Drainers -> Results]
    BY DEF Init, Results
  <2> QED
    BY <2>1, <2>2, <2>3 DEF Init, TypeOK, Faults
<1>2. TypeOK /\ [Next]_vars => TypeOK'
  <2> SUFFICES ASSUME TypeOK, [Next]_vars
               PROVE  TypeOK'
    OBVIOUS
  <2> USE DEF Goto
  <2>1. ASSUME NEW p \in Publishers, Publisher(p)
        PROVE  TypeOK'
    <3> p \in Actors
      BY DEF Actors
    <3>1. CASE Match(p)
      <4>1. sent' \in [Publishers -> Nat]
        BY <3>1 DEF Match, TypeOK
      <4>2. pc' \in [Actors -> Labels]
        BY <3>1 DEF Match, TypeOK, Labels
      <4> QED
        BY <3>1, <4>1, <4>2 DEF Match, TypeOK, fields, history
    <3>2. CASE EnqueueRefused(p)
      BY <3>2 DEF EnqueueRefused, TypeOK, Labels, fields, history
    <3>3. CASE EnqueueOverflow(p)
      BY <3>3 DEF EnqueueOverflow, TypeOK, Labels
    <3>4. CASE EnqueueStored(p)
      <4>1. <<p, sent[p]>> \in Msg
        BY DEF TypeOK, Msg
      <4>2. /\ queue' \in Seq(Msg) /\ accepted' \in Seq(Msg)
            /\ Len(queue') = Len(queue) + 1
        BY <3>4, <4>1, AppendProperties DEF EnqueueStored, TypeOK
      <4>3. Len(queue') <= Limit
        BY <3>4, <4>2, LimitAssumption, LenProperties DEF EnqueueStored, Full, TypeOK
      <4> QED
        BY <3>4, <4>2, <4>3 DEF EnqueueStored, TypeOK, Labels
    <3>5. CASE EnqueueWake(p)
      BY <3>5 DEF EnqueueWake, TypeOK, Labels, history
    <3>6. CASE OverflowFinish(p)
      BY <3>6, FinishType DEF OverflowFinish, TypeOK, Labels, Faults
    <3>7. CASE OverflowClose(p)
      BY <3>7 DEF OverflowClose, CloseChannels, TypeOK, Labels, history
    <3> QED
      BY <2>1, <3>1, <3>2, <3>3, <3>4, <3>5, <3>6, <3>7 DEF Publisher
  <2>2. ASSUME NEW d \in Drainers, Drainer(d)
        PROVE  TypeOK'
    <3> d \in Actors
      BY DEF Actors
    <3>1. CASE DrainFinished(d)
      BY <3>1 DEF DrainFinished, TypeOK, Labels, Results, fields, history
    <3>2. CASE DrainBegin(d)
      BY <3>2 DEF DrainBegin, TypeOK, Labels, history
    <3>3. CASE DrainSignal(d)
      BY <3>3 DEF DrainSignal, TypeOK, Labels, history
    <3>4. CASE DrainWake(d)
      BY <3>4 DEF DrainWake, TypeOK, Labels, history
    <3>5. CASE DrainDrained(d)
      BY <3>5, FinishType DEF DrainDrained, TypeOK, Labels, Faults, Results
    <3>6. CASE DrainDone(d)
      BY <3>6 DEF DrainDone, TypeOK, Labels, Results, fields, history
    <3>7. CASE DrainTimeout(d)
      BY <3>7, FinishType DEF DrainTimeout, TypeOK, Labels, Faults, Results
    <3>8. CASE DrainClose(d)
      BY <3>8 DEF DrainClose, CloseChannels, TypeOK, Labels, history
    <3> QED
      BY <2>2, <3>1, <3>2, <3>3, <3>4, <3>5, <3>6, <3>7, <3>8
         DEF Drainer, DrainLoop
  <2>3. CASE RunLoop
    <3> Runner \in Actors
      BY DEF Actors
    <3>1. CASE RunPop
      <4>1. /\ Head(queue) \in Msg /\ Tail(queue) \in Seq(Msg)
            /\ Len(Tail(queue)) = Len(queue) - 1
        BY <3>1, HeadTailProperties DEF RunPop, Rest, TypeOK
      <4>2. Append(handed, Head(queue)) \in Seq(Msg)
        BY <4>1, AppendProperties DEF TypeOK
      <4>3. Len(queue') <= Limit
        BY <3>1, <4>1, LimitAssumption, LenProperties DEF RunPop, Rest, TypeOK
      <4> QED
        BY <3>1, <4>1, <4>2, <4>3 DEF RunPop, Rest, TypeOK, Labels
    <3>2. CASE RunIdle
      BY <3>2 DEF RunIdle, TypeOK, Labels, fields, history
    <3>3. CASE RunSignal
      BY <3>3 DEF RunSignal, TypeOK, Labels, history
    <3>4. CASE RunWake
      BY <3>4 DEF RunWake, TypeOK, Labels, history
    <3>5. CASE RunDone
      BY <3>5 DEF RunDone, TypeOK, Labels, fields, history
    <3>6. CASE RunCtxDone
      BY <3>6, FinishType DEF RunCtxDone, TypeOK, Labels, Faults
    <3>7. CASE RunClose
      BY <3>7 DEF RunClose, CloseChannels, TypeOK, Labels, history
    <3> QED
      BY <2>3, <3>1, <3>2, <3>3, <3>4, <3>5, <3>6, <3>7 DEF RunLoop
  <2>4. CASE HandlerReturns
    BY <2>4 DEF HandlerReturns, Actors, TypeOK, Labels, fields, history
  <2>5. CASE HandlerPanics
    BY <2>5, FinishType DEF HandlerPanics, Actors, TypeOK, Labels, Faults
  <2>6. CASE Cancel
    BY <2>6, FinishType DEF Cancel, Actors, TypeOK, Labels, Faults
  <2>7. CASE HostTake
    BY <2>7 DEF HostTake, Actors, TypeOK, Labels, history
  <2>8. CASE HostFinish
    BY <2>8, FinishType DEF HostFinish, Actors, TypeOK, Labels, Faults
  <2>9. CASE HostClose
    BY <2>9 DEF HostClose, CloseChannels, Actors, TypeOK, Labels, history
  <2>10. CASE CtxCancel
    BY <2>10 DEF CtxCancel, TypeOK, history
  <2>11. CASE DropSub
    BY <2>11 DEF DropSub, TypeOK, history
  <2>12. CASE UNCHANGED vars
    BY <2>12 DEF vars, fields, history, TypeOK
  <2> QED
    BY <2>1, <2>2, <2>3, <2>4, <2>5, <2>6, <2>7, <2>8, <2>9, <2>10, <2>11, <2>12
       DEF Next
<1> QED
  BY <1>1, <1>2, PTL DEF Spec

----------------------------------------------------------------------------
(* What finish does to the control facts.                                  *)
LEMMA FinishControl ==
    ASSUME TypeOK, ControlInv, NEW a \in Actors, NEW e, NEW c, NEW l,
           c # "signal", l \notin {"signal", "close", "closeCtx", "closePanic"},
           Finish(a, e, c, l), draining' = draining, doneCh' = doneCh,
           drained' = drained
    PROVE  ControlInv'
<1>1. finished' /\ (queue = <<>> => queue' = <<>>)
  BY DEF Finish
<1>2. \A b \in Actors : pc'[b] = "signal" => pc[b] = "signal"
  BY DEF Finish, Goto, TypeOK
<1> QED
  BY <1>1, <1>2 DEF ControlInv, DrainedMeansEmpty

LEMMA CloseControl ==
    ASSUME TypeOK, ControlInv, NEW a \in Actors, NEW l,
           pc[a] \in {"close", "closeCtx", "closePanic"},
           l \notin {"signal", "close", "closeCtx", "closePanic"},
           CloseChannels(a, l)
    PROVE  ControlInv'
  BY DEF ControlInv, DrainedMeansEmpty, CloseChannels, Goto, TypeOK

LEMMA ControlInductive == TypeOK /\ ControlInv /\ [Next]_vars => ControlInv'
<1> SUFFICES ASSUME TypeOK, ControlInv, [Next]_vars
             PROVE  ControlInv'
  OBVIOUS
<1> USE DEF Goto
<1>1. ASSUME NEW p \in Publishers, Publisher(p)
      PROVE  ControlInv'
  <2> p \in Actors
    BY DEF Actors
  <2>1. CASE Match(p)
    BY <2>1 DEF Match, TypeOK, ControlInv, DrainedMeansEmpty, fields, history
  <2>2. CASE EnqueueRefused(p)
    BY <2>2 DEF EnqueueRefused, TypeOK, ControlInv, DrainedMeansEmpty, fields, history
  <2>3. CASE EnqueueOverflow(p)
    BY <2>3 DEF EnqueueOverflow, TypeOK, ControlInv, DrainedMeansEmpty
  <2>4. CASE EnqueueStored(p)
    BY <2>4 DEF EnqueueStored, GateShut, TypeOK, ControlInv, DrainedMeansEmpty
  <2>5. CASE EnqueueWake(p)
    BY <2>5 DEF EnqueueWake, TypeOK, ControlInv, DrainedMeansEmpty, history
  <2>6. CASE OverflowFinish(p)
    BY <2>6, FinishControl DEF OverflowFinish
  <2>7. CASE OverflowClose(p)
    BY <2>7, CloseControl DEF OverflowClose
  <2> QED
    BY <1>1, <2>1, <2>2, <2>3, <2>4, <2>5, <2>6, <2>7 DEF Publisher
<1>2. ASSUME NEW d \in Drainers, Drainer(d)
      PROVE  ControlInv'
  <2> d \in Actors
    BY DEF Actors
  <2>1. CASE DrainFinished(d)
    BY <2>1 DEF DrainFinished, TypeOK, ControlInv, DrainedMeansEmpty, fields, history
  <2>2. CASE DrainBegin(d)
    BY <2>2 DEF DrainBegin, TypeOK, ControlInv, DrainedMeansEmpty
  <2>3. CASE DrainSignal(d)
    BY <2>3 DEF DrainSignal, TypeOK, ControlInv, DrainedMeansEmpty
  <2>4. CASE DrainWake(d)
    BY <2>4 DEF DrainWake, TypeOK, ControlInv, DrainedMeansEmpty
  <2>5. CASE DrainDone(d)
    BY <2>5 DEF DrainDone, TypeOK, ControlInv, DrainedMeansEmpty, fields
  <2>6. CASE DrainDrained(d)
    BY <2>6, FinishControl DEF DrainDrained
  <2>7. CASE DrainTimeout(d)
    BY <2>7, FinishControl DEF DrainTimeout
  <2>8. CASE DrainClose(d)
    BY <2>8, CloseControl DEF DrainClose
  <2> QED
    BY <1>2, <2>1, <2>2, <2>3, <2>4, <2>5, <2>6, <2>7, <2>8 DEF Drainer, DrainLoop
<1>3. CASE RunLoop
  <2> Runner \in Actors
    BY DEF Actors
  <2>1. CASE RunPop
    BY <2>1 DEF RunPop, Rest, TypeOK, ControlInv, DrainedMeansEmpty
  <2>2. CASE RunIdle
    BY <2>2 DEF RunIdle, TypeOK, ControlInv, DrainedMeansEmpty, fields
  <2>3. CASE RunSignal
    BY <2>3 DEF RunSignal, TypeOK, ControlInv, DrainedMeansEmpty
  <2>4. CASE RunWake
    BY <2>4 DEF RunWake, TypeOK, ControlInv, DrainedMeansEmpty
  <2>5. CASE RunDone
    BY <2>5 DEF RunDone, TypeOK, ControlInv, DrainedMeansEmpty, fields
  <2>6. CASE RunCtxDone
    BY <2>6, FinishControl DEF RunCtxDone
  <2>7. CASE RunClose
    BY <2>7, CloseControl DEF RunClose
  <2> QED
    BY <1>3, <2>1, <2>2, <2>3, <2>4, <2>5, <2>6, <2>7 DEF RunLoop
<1> Runner \in Actors /\ Host \in Actors
  BY DEF Actors
<1>4. CASE HandlerReturns
  BY <1>4 DEF HandlerReturns, TypeOK, ControlInv, DrainedMeansEmpty, fields
<1>5. CASE HandlerPanics
  BY <1>5, FinishControl DEF HandlerPanics
<1>6. CASE Cancel
  BY <1>6, FinishControl DEF Cancel
<1>7. CASE HostTake
  BY <1>7 DEF HostTake, TypeOK, ControlInv, DrainedMeansEmpty
<1>8. CASE HostFinish
  BY <1>8, FinishControl DEF HostFinish
<1>9. CASE HostClose
  BY <1>9, CloseControl DEF HostClose
<1>10. CASE CtxCancel
  BY <1>10 DEF CtxCancel, ControlInv, DrainedMeansEmpty
<1>11. CASE DropSub
  BY <1>11 DEF DropSub, ControlInv, DrainedMeansEmpty
<1>12. CASE UNCHANGED vars
  BY <1>12 DEF vars, fields, ControlInv, DrainedMeansEmpty
<1> QED
  BY <1>1, <1>2, <1>3, <1>4, <1>5, <1>6, <1>7, <1>8, <1>9, <1>10, <1>11, <1>12
     DEF Next

(* The control invariant of run, Drain, enqueue and finish holds.          *)
LEMMA ControlHolds == Spec => []ControlInv
<1>1. Init => ControlInv
  BY DEF Init, ControlInv, DrainedMeansEmpty
<1> QED
  BY <1>1, Typing, ControlInductive, PTL DEF Spec

(* drained is closed, short of finish, only when the gate is shut and the  *)
(* queue empty: a Drain that ends the subscription itself loses nothing.   *)
THEOREM DrainLosesNothing == Spec => []DrainedMeansEmpty
<1>1. ControlInv => DrainedMeansEmpty
  BY DEF ControlInv
<1> QED
  BY <1>1, ControlHolds, PTL

----------------------------------------------------------------------------
(* A step that neither stores nor hands over a message keeps the history.  *)
LEMMA QuietStep ==
    ASSUME NoSilentLoss, HandedInOrder, accepted' = accepted, handed' = handed,
           (queue' = queue /\ finished' = finished) \/ finished'
    PROVE  NoSilentLoss' /\ HandedInOrder'
  BY DEF NoSilentLoss, HandedInOrder

LEMMA PrefixOfConcat ==
    ASSUME NEW S, NEW h \in Seq(S), NEW q \in Seq(S)
    PROVE  /\ Len(h) <= Len(h \o q)
           /\ \A i \in 1 .. Len(h) : h[i] = (h \o q)[i]
<1>1. /\ Len(h \o q) = Len(h) + Len(q)
      /\ \A i \in 1 .. Len(h) + Len(q) :
           (h \o q)[i] = IF i <= Len(h) THEN h[i] ELSE q[i - Len(h)]
  BY ConcatProperties
<1>2. Len(h) \in Nat /\ Len(q) \in Nat
  BY LenProperties
<1> QED
  BY <1>1, <1>2

LEMMA HistoryInductive ==
    TypeOK /\ TypeOK' /\ NoSilentLoss /\ HandedInOrder /\ [Next]_vars
      => NoSilentLoss' /\ HandedInOrder'
<1> SUFFICES ASSUME TypeOK, TypeOK', NoSilentLoss, HandedInOrder, [Next]_vars
             PROVE  NoSilentLoss' /\ HandedInOrder'
  OBVIOUS
<1> USE DEF Finish, CloseChannels, fields, history
<1>1. ASSUME NEW p \in Publishers, EnqueueStored(p)
      PROVE  NoSilentLoss' /\ HandedInOrder'
  <2> DEFINE m == <<p, sent[p]>>
  <2>1. m \in Msg
    BY DEF TypeOK, Msg
  <2>2. accepted = handed \o queue /\ handed' = handed
        /\ queue' = Append(queue, m) /\ accepted' = Append(accepted, m)
    BY <1>1 DEF EnqueueStored, GateShut, NoSilentLoss
  <2> HIDE DEF m
  <2>3. handed \in Seq(Msg) /\ queue \in Seq(Msg)
    BY DEF TypeOK
  <2>4. Append(handed \o queue, m) = handed \o Append(queue, m)
    <3>1. <<m>> \in Seq(Msg) /\ handed \o queue \in Seq(Msg)
      BY <2>1, <2>3, ConcatProperties
    <3>2. Append(handed \o queue, m) = (handed \o queue) \o <<m>>
      BY <2>1, <3>1, AppendIsConcat
    <3>3. Append(queue, m) = queue \o <<m>>
      BY <2>1, <2>3, AppendIsConcat
    <3>4. (handed \o queue) \o <<m>> = handed \o (queue \o <<m>>)
      BY <2>3, <3>1, ConcatAssociative
    <3> QED
      BY <3>2, <3>3, <3>4
  <2>5. accepted' = handed' \o queue'
    BY <2>2, <2>4
  <2>6. HandedInOrder'
    BY <2>5, PrefixOfConcat DEF HandedInOrder, TypeOK
  <2> QED
    BY <2>5, <2>6 DEF NoSilentLoss
<1>2. CASE RunPop
  <2>1. accepted = handed \o queue
    BY <1>2 DEF RunPop, Rest, NoSilentLoss
  <2>2. accepted' = handed' \o queue'
    BY <1>2, <2>1, PopFromQueue DEF RunPop, Rest, TypeOK
  <2>3. HandedInOrder'
    BY <2>2, PrefixOfConcat DEF HandedInOrder, TypeOK
  <2> QED
    BY <2>2, <2>3 DEF NoSilentLoss
<1>3. ASSUME NEW p \in Publishers, Publisher(p), ~EnqueueStored(p)
      PROVE  NoSilentLoss' /\ HandedInOrder'
  BY <1>3, QuietStep DEF Publisher, Match, EnqueueRefused, EnqueueOverflow,
     EnqueueWake, OverflowFinish, OverflowClose
<1>4. ASSUME NEW d \in Drainers, Drainer(d)
      PROVE  NoSilentLoss' /\ HandedInOrder'
  BY <1>4, QuietStep DEF Drainer, DrainLoop, DrainFinished, DrainBegin,
     DrainSignal, DrainWake, DrainDrained, DrainDone, DrainTimeout, DrainClose
<1>5. CASE RunLoop /\ ~RunPop
  BY <1>5, QuietStep DEF RunLoop, RunIdle, RunSignal, RunWake, RunDone,
     RunCtxDone, RunClose
<1>6. CASE HandlerReturns \/ HandlerPanics
  BY <1>6, QuietStep DEF HandlerReturns, HandlerPanics
<1>7. CASE Cancel \/ HostTake \/ HostFinish \/ HostClose \/ CtxCancel \/ DropSub
  BY <1>7, QuietStep DEF Cancel, HostTake, HostFinish, HostClose, CtxCancel, DropSub
<1>8. CASE UNCHANGED vars
  BY <1>8, QuietStep DEF vars
<1> QED
  BY <1>1, <1>2, <1>3, <1>4, <1>5, <1>6, <1>7, <1>8 DEF Next, Publisher

(* Between enqueue and run nothing is lost, duplicated or reordered while  *)
(* the subscription lives, however publishers, Drain, Cancel and overflow  *)
(* interleave.                                                             *)
THEOREM LiveQueueIsExact == Spec => []NoSilentLoss
<1>1. Init => NoSilentLoss /\ HandedInOrder
  BY DEF Init, NoSilentLoss, HandedInOrder
<1> QED
  BY <1>1, Typing, HistoryInductive, PTL DEF Spec

(* Whatever ends the subscription, the handler has been given an initial   *)
(* part of what was stored, in that order.                                 *)
THEOREM DeliveryInOrder == Spec => []HandedInOrder
<1>1. Init => NoSilentLoss /\ HandedInOrder
  BY DEF Init, NoSilentLoss, HandedInOrder
<1> QED
  BY <1>1, Typing, HistoryInductive, PTL DEF Spec

(* Nothing is stored or handed over, and Err does not change, after Done   *)
(* closes: the publishers still holding a match find the gate shut.        *)
THEOREM DoneStaysDone == Spec => DoneIsFinal
<1>1. ControlInv /\ [Next]_vars
        => [doneCh => accepted' = accepted /\ handed' = handed /\ err' = err]_vars
  <2> SUFFICES ASSUME finished, [Next]_vars
               PROVE  accepted' = accepted /\ handed' = handed /\ err' = err
    BY DEF ControlInv
  <2> USE DEF Finish, CloseChannels, fields, history
  <2>1. ASSUME NEW p \in Publishers, Publisher(p)
        PROVE  accepted' = accepted /\ handed' = handed /\ err' = err
    BY <2>1 DEF Publisher, Match, EnqueueRefused, EnqueueOverflow, EnqueueStored, GateShut,
       EnqueueWake, OverflowFinish, OverflowClose
  <2>2. ASSUME NEW d \in Drainers, Drainer(d)
        PROVE  accepted' = accepted /\ handed' = handed /\ err' = err
    BY <2>2 DEF Drainer, DrainLoop, DrainFinished, DrainBegin, DrainSignal,
       DrainWake, DrainDrained, DrainDone, DrainTimeout, DrainClose
  <2>3. CASE RunLoop \/ HandlerReturns \/ HandlerPanics
    BY <2>3 DEF RunLoop, RunPop, Rest, RunIdle, RunSignal, RunWake, RunDone, RunCtxDone,
       RunClose, HandlerReturns, HandlerPanics
  <2>4. CASE Cancel \/ HostTake \/ HostFinish \/ HostClose \/ CtxCancel \/ DropSub
    BY <2>4 DEF Cancel, HostTake, HostFinish, HostClose, CtxCancel, DropSub
  <2>5. CASE UNCHANGED vars
    BY <2>5 DEF vars
  <2> QED
    BY <2>1, <2>2, <2>3, <2>4, <2>5 DEF Next
<1> QED
  BY <1>1, ControlHolds, PTL DEF Spec, DoneIsFinal
=============================================================================
