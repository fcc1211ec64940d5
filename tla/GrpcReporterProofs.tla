-------------------------- MODULE GrpcReporterProofs --------------------------
(***************************************************************************)
(* The gRPC reporter keeps every item in one place and in order, loses     *)
(* none but in the race of the shutdown, and its receiving tasks end with  *)
(* nothing left, for any items, kinds, capacity and size of the queue.     *)
(*                                                                         *)
(* The inductive invariant is that of the front end and, for each kind,    *)
(* the places and the order of its items and where its task may be. An     *)
(* action of one kind disturbs only the part of that kind.                 *)
(***************************************************************************)
EXTENDS GrpcReporter, CollectLoopProofs, TLAPS

\* The parts of OnePlace and of OrderKept that are about kind k.
Placed(k) ==
  /\ IsInjective(chan[k]) /\ IsInjective(flight[k]) /\ IsInjective(delivered[k])
  /\ \A i \in Items :
       /\ Contains(chan[k], i) <=> KindOf[i] = k /\ fate[i] = "channel"
       /\ Contains(flight[k], i) <=> KindOf[i] = k /\ fate[i] = "flying"
       /\ Contains(delivered[k], i) <=> KindOf[i] = k /\ fate[i] = "delivered"

Ordered(k) ==
  KeepsOrder(delivered[k] \o flight[k] \o chan[k] \o Hand \o queue, produced)

\* Between calls nothing is in flight; is_closed is set only when the channel is
\* empty and its sender gone; and the task returns only once it is set.
RxInv(k) ==
  /\ rx[k] \in {"idle", "done"} => flight[k] = <<>>
  /\ is_closed[k] => Finished /\ chan[k] = <<>>
  /\ rx[k] = "done" => is_closed[k]

IInv ==
  TypeOK /\ LoopInv /\ \A k \in Kinds : Placed(k) /\ Ordered(k) /\ RxInv(k)

------------------------------------------------------------------------------
(* What the invariant says                                                 *)

\* The stages of a kind are sequences of items.
LEMMA ChannelTypes ==
  ASSUME IInv, NEW k \in Kinds
  PROVE  /\ delivered[k] \in Seq(Items) /\ flight[k] \in Seq(Items) /\ chan[k] \in Seq(Items)
         /\ Hand \in Seq(Items) /\ queue \in Seq(Items) /\ produced \in Seq(Items)
         /\ delivered[k] \o flight[k] \o chan[k] \in Seq(Items)
<1>1. delivered[k] \in Seq(Items) /\ flight[k] \in Seq(Items) /\ chan[k] \in Seq(Items)
  BY DEF IInv, TypeOK
<1>2. Hand \in Seq(Items) /\ queue \in Seq(Items) /\ produced \in Seq(Items)
  BY HandType DEF IInv, LoopInv
<1>3. delivered[k] \o flight[k] \o chan[k] \in Seq(Items)
  BY <1>1
<1> QED
  BY <1>1, <1>2, <1>3

\* What the invariant says of the runs' properties.
LEMMA InvImplies ==
  ASSUME IInv
  PROVE  OnePlace /\ OrderKept /\ TaskEndsDrained /\ LostOnlyInRace
<1>1. OnePlace
  BY DEF IInv, LoopInv, QueueInv, ServingInv, Placed, OnePlace
<1>2. OrderKept
  BY DEF IInv, LoopInv, ProducedInv, Ordered, OrderKept
<1>3. TaskEndsDrained
  BY DEF IInv, RxInv, TaskEndsDrained
<1> QED
  BY <1>1, <1>2, <1>3 DEF IInv, LoopInv

\* Before anything is reported.
LEMMA InitInv ==
  ASSUME Init
  PROVE  IInv
<1> USE DEF Init
<1>1. LoopInv
  BY LoopInitInv
<1>2. <<>> \in Seq(Items) /\ Len(<<>>) = 0 /\ <<>> \o <<>> = <<>>
  BY EmptySeq
<1>3. TypeOK
  BY <1>1, <1>2, CapacityAssumption DEF TypeOK, LoopInv, RxPoints
<1>4. ASSUME NEW k \in Kinds PROVE Placed(k) /\ Ordered(k) /\ RxInv(k)
  <2>1. chan[k] = <<>> /\ flight[k] = <<>> /\ delivered[k] = <<>> /\ Hand = <<>> /\ queue = <<>>
    BY DEF LoopInit, Hand
  <2>2. Placed(k)
    BY <2>1, ContainsEmpty DEF Placed, IsInjective, LoopInit
  <2>3. Ordered(k)
    BY <1>2, <2>1 DEF Ordered, KeepsOrder
  <2>4. RxInv(k)
    BY <2>1 DEF RxInv
  <2> QED
    BY <2>2, <2>3, <2>4
<1> QED
  BY <1>1, <1>3, <1>4 DEF IInv

------------------------------------------------------------------------------
(* The loop                                                                *)

\* Once the receiving end of the queue is gone the task does nothing more.
LEMMA FinishedStays ==
  ASSUME LoopNext, Finished
  PROVE  Finished'
  BY DEF LoopNext, Finished, Check, Produce, ProducePanics, DropReporters, Signal, Spawn,
         Consume, LeaveLoop, StoreClosing, FlushEnd, Finish, TaskStep, loopVars

\* The steps of the reporters and of the collect loop alone.
LEMMA LoopPart ==
  ASSUME IInv, LoopNext, UNCHANGED rxVars
  PROVE  IInv'
<1>1. LoopInv'
  BY LoopStep DEF IInv
<1>2. TypeOK'
  BY <1>1 DEF IInv, TypeOK, LoopInv, rxVars
<1>3. ASSUME NEW k \in Kinds PROVE Placed(k)' /\ Ordered(k)' /\ RxInv(k)'
  <2>1. Placed(k)'
    <3>1. \A i \in Items : fate[i] \in Beyond \/ fate'[i] \in Beyond => fate'[i] = fate[i]
      BY LoopBeyond DEF IInv
    <3> QED
      BY <3>1 DEF IInv, Placed, rxVars, Beyond
  <2>2. Ordered(k)'
    <3>1. PICK a \in Seq(Items) : a = delivered[k] \o flight[k] \o chan[k]
      BY ChannelTypes
    <3>2. KeepsOrder(a \o Hand' \o queue', produced')
      BY <3>1, LoopOrder DEF IInv, Ordered
    <3> QED
      BY <3>1, <3>2 DEF Ordered, rxVars
  <2>3. RxInv(k)'
    BY FinishedStays DEF IInv, RxInv, rxVars
  <2> QED
    BY <2>1, <2>2, <2>3
<1> QED
  BY <1>1, <1>2, <1>3 DEF IInv

\* A management item is sent or dropped: it belongs to no channel.
LEMMA ManageStep ==
  ASSUME IInv, Manage
  PROVE  IInv'
<1>1. PICK f \in Beyond : Dispose(f)
  BY DEF Manage, Beyond
<1>2. /\ LoopInv' /\ serving \in Items /\ fate[serving] = "serving"
      /\ \A i \in Items : fate'[i] = IF i = serving THEN f ELSE fate[i]
  BY <1>1, DisposeStep DEF IInv
<1>3. TypeOK'
  BY <1>2 DEF IInv, TypeOK, LoopInv, Manage, rxVars
<1>4. ASSUME NEW k \in Kinds PROVE Placed(k)' /\ Ordered(k)' /\ RxInv(k)'
  <2>1. Placed(k)'
    BY <1>2 DEF IInv, Placed, Manage, rxVars
  <2>2. Ordered(k)'
    <3>1. PICK a \in Seq(Items) : a = delivered[k] \o flight[k] \o chan[k]
      BY ChannelTypes
    <3>2. KeepsOrder(a \o Hand' \o queue', produced')
      BY <1>1, <3>1, DisposeOrder DEF IInv, Ordered
    <3> QED
      BY <3>1, <3>2 DEF Ordered, Manage, rxVars
  <2>3. RxInv(k)'
    BY <1>1 DEF IInv, RxInv, Manage, rxVars, Dispose, Finished
  <2> QED
    BY <2>1, <2>2, <2>3
<1> QED
  BY <1>2, <1>3, <1>4 DEF IInv

\* An item of kind k goes to the end of the channel of k, if there is room; what
\* is in the other channels stays ahead of what the loop has still to do.
LEMMA TrySendStep ==
  ASSUME IInv, NEW k \in Kinds, TrySend(k)
  PROVE  IInv'
<1>1. PICK x \in Items : x = serving /\ KindOf[x] = k
  BY DEF TrySend, IInv, LoopInv, LoopTypeOK
<1>2. UNCHANGED <<flight, rx, is_closed, delivered>>
  BY DEF TrySend
<1>3. ~Finished
  BY DEF TrySend, IInv, LoopInv, ServingInv, Finished
<1>4. CASE /\ Len(chan[k]) < Capacity
           /\ chan' = [chan EXCEPT ![k] = Append(@, x)] /\ Dispose("channel")
  <2>1. /\ LoopInv' /\ fate[x] = "serving"
        /\ \A i \in Items : fate'[i] = IF i = x THEN "channel" ELSE fate[i]
    BY <1>1, <1>4, DisposeStep DEF IInv, Beyond
  <2>2. /\ chan \in [Kinds -> Seq(Items)] /\ \A l \in Kinds : Len(chan[l]) <= Capacity
        /\ chan'[k] = Append(chan[k], x) /\ \A l \in Kinds : l # k => chan'[l] = chan[l]
        /\ chan' \in [Kinds -> Seq(Items)]
    BY <1>4 DEF IInv, TypeOK
  <2>3. \A l \in Kinds : Len(chan'[l]) <= Capacity
    BY <1>4, <2>2, CapacityAssumption
  <2>4. TypeOK'
    BY <1>2, <2>1, <2>2, <2>3 DEF IInv, TypeOK, LoopInv
  <2>5. ASSUME NEW l \in Kinds PROVE Placed(l)'
    <3>1. \A i \in Items : Contains(Append(chan[k], x), i) <=> Contains(chan[k], i) \/ i = x
      BY <2>2, ContainsAppend
    <3>2. IsInjective(Append(chan[k], x))
      BY <2>1, <2>2, InjectiveAppend DEF IInv, Placed
    <3>3. Placed(l) /\ flight'[l] = flight[l] /\ delivered'[l] = delivered[l]
      BY <1>2 DEF IInv
    <3>4. IsInjective(chan'[l]) /\ IsInjective(flight'[l]) /\ IsInjective(delivered'[l])
      BY <2>2, <3>2, <3>3 DEF Placed
    <3>5. ASSUME NEW i \in Items
          PROVE  /\ Contains(flight'[l], i) <=> KindOf[i] = l /\ fate'[i] = "flying"
                 /\ Contains(delivered'[l], i) <=> KindOf[i] = l /\ fate'[i] = "delivered"
      BY <2>1, <3>3 DEF Placed
    <3>6. ASSUME NEW i \in Items
          PROVE  Contains(chan'[l], i) <=> KindOf[i] = l /\ fate'[i] = "channel"
      <4>1. CASE l = k
        BY <1>1, <2>1, <2>2, <3>1, <3>3, <4>1 DEF Placed
      <4>2. CASE l # k
        BY <1>1, <2>1, <2>2, <3>3, <4>2 DEF Placed
      <4> QED
        BY <4>1, <4>2
    <3> QED
      BY <3>4, <3>5, <3>6 DEF Placed
  <2>6. ASSUME NEW l \in Kinds PROVE Ordered(l)'
    <3>1. PICK p \in Seq(Items), c \in Seq(Items) : p = delivered[l] \o flight[l] /\ c = chan[l]
      <4>1. delivered[l] \o flight[l] \in Seq(Items)
        BY DEF IInv, TypeOK
      <4> QED
        BY <4>1, <2>2
    <3>2. p \o c \in Seq(Items)
      OBVIOUS
    <3>3. /\ KeepsOrder(p \o c \o Hand' \o queue', produced')
          /\ KeepsOrder(Append(p \o c, x) \o Hand' \o queue', produced')
      BY <1>1, <1>4, <3>1, <3>2, DisposeOrder DEF IInv, Ordered, Beyond
    <3>4. p \o Append(c, x) = Append(p \o c, x)
      OBVIOUS
    <3>5. CASE l = k
      BY <1>2, <2>2, <3>1, <3>3, <3>4, <3>5 DEF Ordered
    <3>6. CASE l # k
      BY <1>2, <2>2, <3>1, <3>3, <3>6 DEF Ordered
    <3> QED
      BY <3>5, <3>6
  <2>7. \A l \in Kinds : RxInv(l)'
    BY <1>2, <1>3 DEF IInv, RxInv
  <2> QED
    BY <2>1, <2>4, <2>5, <2>6, <2>7 DEF IInv
<1>5. CASE Dispose("full") /\ UNCHANGED chan
  <2>1. /\ LoopInv' /\ fate[x] = "serving"
        /\ \A i \in Items : fate'[i] = IF i = x THEN "full" ELSE fate[i]
    BY <1>1, <1>5, DisposeStep DEF IInv, Beyond
  <2>2. TypeOK'
    BY <1>2, <1>5, <2>1 DEF IInv, TypeOK, LoopInv
  <2>3. \A l \in Kinds : Placed(l)'
    BY <1>2, <1>5, <2>1 DEF IInv, Placed
  <2>4. ASSUME NEW l \in Kinds PROVE Ordered(l)'
    <3>1. PICK a \in Seq(Items) : a = delivered[l] \o flight[l] \o chan[l]
      BY ChannelTypes
    <3>2. KeepsOrder(a \o Hand' \o queue', produced')
      BY <1>5, <3>1, DisposeOrder DEF IInv, Ordered, Beyond
    <3> QED
      BY <1>2, <1>5, <3>1, <3>2 DEF Ordered
  <2>5. \A l \in Kinds : RxInv(l)'
    BY <1>2, <1>3 DEF IInv, RxInv
  <2> QED
    BY <2>1, <2>2, <2>3, <2>4, <2>5 DEF IInv
<1> QED
  BY <1>1, <1>4, <1>5 DEF TrySend

------------------------------------------------------------------------------
(* The receiving tasks                                                     *)

\* A step of the receiving task of k has to be looked at for k only.
LEMMA RxPart ==
  ASSUME IInv, NEW k \in Kinds, RxStep, TypeOK',
         \A i \in Items : \/ fate'[i] = fate[i]
                          \/ KindOf[i] = k /\ fate[i] \in Beyond /\ fate'[i] \in Beyond,
         \A l \in Kinds : l # k =>
           /\ chan'[l] = chan[l] /\ flight'[l] = flight[l] /\ delivered'[l] = delivered[l]
           /\ rx'[l] = rx[l] /\ is_closed'[l] = is_closed[l],
         Placed(k)', Ordered(k)', RxInv(k)'
  PROVE  IInv'
<1>1. UNCHANGED loopVars /\ Hand' = Hand
  BY DEF RxStep, loopVars, Hand
<1>2. LoopInv'
  BY <1>1, BeyondStep DEF IInv, TypeOK, LoopTypeOK
<1>3. ASSUME NEW l \in Kinds, l # k PROVE Placed(l)' /\ Ordered(l)' /\ RxInv(l)'
  <2>1. Placed(l) /\ Ordered(l) /\ RxInv(l)
    BY DEF IInv
  <2>2. \A i \in Items : KindOf[i] = l => fate'[i] = fate[i]
    BY <1>3
  <2>3. Placed(l)'
    BY <1>3, <2>1, <2>2 DEF Placed
  <2>4. Ordered(l)'
    BY <1>1, <1>3, <2>1 DEF Ordered, loopVars
  <2>5. RxInv(l)'
    BY <1>1, <1>3, <2>1 DEF RxInv, Finished, loopVars
  <2> QED
    BY <2>3, <2>4, <2>5
<1> QED
  BY <1>2, <1>3 DEF IInv

\* Steps that move no item.
LEMMA StreamSteps ==
  ASSUME IInv, NEW k \in Kinds, StartStream(k) \/ PollClosed(k) \/ PollTimeout(k)
  PROVE  IInv'
<1> USE DEF StartStream, PollClosed, PollTimeout
<1>1. RxStep /\ UNCHANGED <<fate, chan, flight, delivered, loopVars>>
  BY DEF RxStep
<1>2. /\ rx \in [Kinds -> RxPoints] /\ is_closed \in [Kinds -> BOOLEAN]
      /\ chan \in [Kinds -> Seq(Items)] /\ LoopTypeOK
  BY DEF IInv, TypeOK
<1>3. rx' \in [Kinds -> RxPoints] /\ is_closed' \in [Kinds -> BOOLEAN]
  BY <1>2 DEF RxPoints
<1>4. TypeOK'
  BY <1>1, <1>3 DEF IInv, TypeOK, LoopTypeOK, loopVars
<1>5. \A l \in Kinds : l # k => rx'[l] = rx[l] /\ is_closed'[l] = is_closed[l]
  BY <1>2
<1>6. Placed(k)' /\ Ordered(k)'
  BY <1>1 DEF IInv, Placed, Ordered, Hand, loopVars
<1>7. RxInv(k)'
  <2>1. RxInv(k) /\ Finished' = Finished
    BY <1>1 DEF IInv, Finished, loopVars
  <2>2. CASE StartStream(k)
    BY <1>1, <1>2, <2>1, <2>2 DEF RxInv
  <2>3. CASE PollClosed(k)
    BY <1>1, <1>2, <2>1, <2>3 DEF RxInv
  <2>4. CASE PollTimeout(k)
    BY <1>1, <1>2, <2>1, <2>4 DEF RxInv
  <2> QED
    BY <2>2, <2>3, <2>4
<1> QED
  BY <1>1, <1>4, <1>5, <1>6, <1>7, RxPart

\* The head of the channel joins the call, at its end.
LEMMA PollItemStep ==
  ASSUME IInv, NEW k \in Kinds, PollItem(k)
  PROVE  IInv'
<1>1. PICK x : x = Head(chan[k])
  OBVIOUS
<1>2. /\ RxStep /\ UNCHANGED loopVars /\ UNCHANGED <<rx, is_closed, delivered>>
      /\ rx[k] = "open" /\ chan[k] # <<>>
      /\ flight' = [flight EXCEPT ![k] = Append(@, x)]
      /\ chan' = [chan EXCEPT ![k] = Tail(@)]
      /\ fate' = [fate EXCEPT ![x] = "flying"]
  BY <1>1 DEF PollItem, RxStep
<1>3. /\ chan \in [Kinds -> Seq(Items)] /\ flight \in [Kinds -> Seq(Items)]
      /\ delivered[k] \in Seq(Items) /\ fate \in [Items -> Fates]
      /\ \A l \in Kinds : Len(chan[l]) <= Capacity
  BY DEF IInv, TypeOK, LoopTypeOK
<1>4. /\ x \in Items /\ Tail(chan[k]) \in Seq(Items)
      /\ \A i : Contains(chan[k], i) <=> i = x \/ Contains(Tail(chan[k]), i)
  BY <1>1, <1>2, <1>3, ContainsHeadTail
<1>5. IsInjective(Tail(chan[k])) /\ ~Contains(Tail(chan[k]), x)
  BY <1>1, <1>2, <1>3, InjectiveTail DEF IInv, Placed
<1>6. KindOf[x] = k /\ fate[x] = "channel"
  BY <1>4 DEF IInv, Placed
<1>7. /\ flight'[k] = Append(flight[k], x) /\ chan'[k] = Tail(chan[k])
      /\ \A l \in Kinds : l # k => chan'[l] = chan[l] /\ flight'[l] = flight[l]
      /\ \A i \in Items : fate'[i] = IF i = x THEN "flying" ELSE fate[i]
  BY <1>2, <1>3, <1>4
<1>8. TypeOK'
  <2>1. chan' \in [Kinds -> Seq(Items)] /\ flight' \in [Kinds -> Seq(Items)]
    BY <1>2, <1>3, <1>4
  <2>2. Len(Tail(chan[k])) <= Capacity
    BY <1>2, <1>3, CapacityAssumption
  <2>3. \A l \in Kinds : Len(chan'[l]) <= Capacity
    BY <1>3, <1>7, <2>2
  <2>4. LoopTypeOK'
    BY <1>2, <1>3 DEF IInv, TypeOK, LoopTypeOK, loopVars, Fates
  <2> QED
    BY <1>2, <2>1, <2>3, <2>4 DEF IInv, TypeOK
<1>9. Placed(k)'
  <2>1. Placed(k) /\ delivered'[k] = delivered[k]
    BY <1>2 DEF IInv
  <2>2. /\ \A i \in Items : Contains(flight'[k], i) <=> Contains(flight[k], i) \/ i = x
        /\ IsInjective(flight'[k])
    BY <1>3, <1>4, <1>6, <1>7, <2>1, ContainsAppend, InjectiveAppend DEF Placed
  <2> QED
    BY <1>4, <1>5, <1>6, <1>7, <2>1, <2>2 DEF Placed
<1>10. Ordered(k)'
  <2>1. PICK d \in Seq(Items), f \in Seq(Items), c \in Seq(Items) :
          d = delivered[k] /\ f = flight[k] /\ c = chan[k]
    BY <1>3
  <2>2. d \o f \in Seq(Items) /\ c # <<>> /\ x = Head(c)
    BY <1>1, <1>2, <2>1
  <2>3. d \o Append(f, x) = Append(d \o f, x)
    BY <1>4
  <2>4. Append(d \o f, x) \o Tail(c) = d \o f \o c
    BY <2>2, MoveHead
  <2>5. delivered'[k] \o flight'[k] \o chan'[k] = delivered[k] \o flight[k] \o chan[k]
    BY <1>2, <1>7, <2>1, <2>3, <2>4
  <2> QED
    BY <1>2, <2>5 DEF IInv, Ordered, Hand, loopVars
<1>11. RxInv(k)'
  BY <1>2 DEF IInv, RxInv, Finished, loopVars
<1> QED
  BY <1>2, <1>6, <1>7, <1>8, <1>9, <1>10, <1>11, RxPart DEF Beyond

\* What Settle does to the kind and to the others.
LEMMA SettleEffect ==
  ASSUME IInv, NEW k \in Kinds, NEW f \in {"delivered", "failed"}, Settle(k, f)
  PROVE  /\ fate' \in [Items -> Fates]
         /\ \A i \in Items : fate'[i] = IF KindOf[i] = k /\ fate[i] = "flying" THEN f ELSE fate[i]
         /\ flight' \in [Kinds -> Seq(Items)] /\ flight'[k] = <<>>
         /\ rx' \in [Kinds -> RxPoints] /\ rx'[k] = "idle"
         /\ \A l \in Kinds : l # k => flight'[l] = flight[l] /\ rx'[l] = rx[l]
         /\ RxStep /\ UNCHANGED loopVars /\ is_closed' = is_closed
<1>1. /\ fate \in [Items -> Fates] /\ flight \in [Kinds -> Seq(Items)]
      /\ rx \in [Kinds -> RxPoints] /\ <<>> \in Seq(Items)
  BY DEF IInv, TypeOK, LoopTypeOK
<1>2. \A i \in Items : Contains(flight[k], i) <=> KindOf[i] = k /\ fate[i] = "flying"
  BY DEF IInv, Placed
<1>3. \A i \in Items : fate'[i] = IF KindOf[i] = k /\ fate[i] = "flying" THEN f ELSE fate[i]
  BY <1>2 DEF Settle
<1>4. fate' \in [Items -> Fates]
  BY <1>1 DEF Settle, Fates
<1>5. /\ flight' \in [Kinds -> Seq(Items)] /\ flight'[k] = <<>>
      /\ rx' \in [Kinds -> RxPoints] /\ rx'[k] = "idle"
      /\ \A l \in Kinds : l # k => flight'[l] = flight[l] /\ rx'[l] = rx[l]
  BY <1>1 DEF Settle, RxPoints
<1> QED
  BY <1>3, <1>4, <1>5 DEF Settle, RxStep

\* The server has acknowledged the call: its items follow those of earlier calls.
LEMMA CollectOkStep ==
  ASSUME IInv, NEW k \in Kinds, CollectOk(k)
  PROVE  IInv'
<1>1. /\ fate' \in [Items -> Fates]
      /\ \A i \in Items :
           fate'[i] = IF KindOf[i] = k /\ fate[i] = "flying" THEN "delivered" ELSE fate[i]
      /\ flight' \in [Kinds -> Seq(Items)] /\ flight'[k] = <<>>
      /\ rx' \in [Kinds -> RxPoints] /\ rx'[k] = "idle"
      /\ \A l \in Kinds : l # k => flight'[l] = flight[l] /\ rx'[l] = rx[l]
      /\ RxStep /\ UNCHANGED loopVars /\ is_closed' = is_closed
  BY SettleEffect DEF CollectOk
<1>2. chan' = chan
  BY DEF CollectOk
<1>3. delivered[k] \in Seq(Items) /\ flight[k] \in Seq(Items) /\ chan[k] \in Seq(Items)
  BY DEF IInv, TypeOK
<1>4. /\ delivered'[k] = delivered[k] \o flight[k] /\ delivered' \in [Kinds -> Seq(Items)]
      /\ \A l \in Kinds : l # k => delivered'[l] = delivered[l]
  BY <1>3 DEF IInv, TypeOK, CollectOk
<1>5. TypeOK'
  BY <1>1, <1>2, <1>4 DEF IInv, TypeOK, LoopTypeOK, loopVars
<1>6. Placed(k)'
  <2>1. Placed(k)
    BY DEF IInv
  <2>2. \A i \in Items : Contains(delivered'[k], i) <=>
                           Contains(delivered[k], i) \/ Contains(flight[k], i)
    BY <1>3, <1>4, ContainsConcat
  <2>3. IsInjective(delivered'[k])
    BY <1>3, <1>4, <2>1, InjectiveConcat DEF Placed
  <2>4. IsInjective(flight'[k]) /\ \A i \in Items : ~Contains(flight'[k], i)
    BY <1>1, ContainsEmpty DEF IsInjective
  <2> QED
    BY <1>1, <1>2, <2>1, <2>2, <2>3, <2>4 DEF Placed
<1>7. Ordered(k)'
  <2>1. (delivered[k] \o flight[k]) \o <<>> = delivered[k] \o flight[k]
    BY <1>3
  <2> QED
    BY <1>1, <1>2, <1>4, <2>1 DEF IInv, Ordered, Hand, loopVars
<1>8. RxInv(k)'
  BY <1>1, <1>2 DEF IInv, RxInv, Finished, loopVars
<1> QED
  BY <1>1, <1>2, <1>4, <1>5, <1>6, <1>7, <1>8, RxPart DEF Beyond

\* The call has failed: its items are dropped from the middle.
LEMMA CollectErrStep ==
  ASSUME IInv, NEW k \in Kinds, CollectErr(k)
  PROVE  IInv'
<1>1. /\ fate' \in [Items -> Fates]
      /\ \A i \in Items :
           fate'[i] = IF KindOf[i] = k /\ fate[i] = "flying" THEN "failed" ELSE fate[i]
      /\ flight' \in [Kinds -> Seq(Items)] /\ flight'[k] = <<>>
      /\ rx' \in [Kinds -> RxPoints] /\ rx'[k] = "idle"
      /\ \A l \in Kinds : l # k => flight'[l] = flight[l] /\ rx'[l] = rx[l]
      /\ RxStep /\ UNCHANGED loopVars /\ is_closed' = is_closed
  BY SettleEffect DEF CollectErr
<1>2. chan' = chan /\ delivered' = delivered
  BY DEF CollectErr
<1>3. TypeOK'
  BY <1>1, <1>2 DEF IInv, TypeOK, LoopTypeOK, loopVars
<1>4. Placed(k)'
  <2>1. Placed(k)
    BY DEF IInv
  <2>2. IsInjective(flight'[k]) /\ \A i \in Items : ~Contains(flight'[k], i)
    BY <1>1, ContainsEmpty DEF IsInjective
  <2> QED
    BY <1>1, <1>2, <2>1, <2>2 DEF Placed
<1>5. Ordered(k)'
  <2>1. PICK d \in Seq(Items), f \in Seq(Items), c \in Seq(Items), h \in Seq(Items),
             q \in Seq(Items) :
          d = delivered[k] /\ f = flight[k] /\ c = chan[k] /\ h = Hand /\ q = queue
    BY ChannelTypes
  <2>2. KeepsOrder(d \o f \o c \o h \o q, produced) /\ produced \in Seq(Items)
    BY <2>1, ChannelTypes DEF IInv, Ordered
  <2>3. KeepsOrder(d \o <<>> \o c \o h \o q, produced)
    BY <2>2, OrderDropSecond
  <2> QED
    BY <1>1, <1>2, <2>1, <2>3 DEF Ordered, Hand, loopVars
<1>6. RxInv(k)'
  BY <1>1, <1>2 DEF IInv, RxInv, Finished, loopVars
<1> QED
  BY <1>1, <1>2, <1>3, <1>4, <1>5, <1>6, RxPart DEF Beyond

------------------------------------------------------------------------------
(* The theorems                                                            *)

\* Every step keeps the invariant.
LEMMA StepInv ==
  ASSUME IInv, [Next]_vars
  PROVE  IInv'
<1>1. CASE UNCHANGED vars
  <2>1. LoopInv'
    BY <1>1, BeyondStep DEF IInv, LoopInv, LoopTypeOK, vars, loopVars
  <2>2. TypeOK'
    BY <1>1, <2>1 DEF IInv, TypeOK, LoopInv, vars, rxVars
  <2>3. \A k \in Kinds : Placed(k)' /\ Ordered(k)' /\ RxInv(k)'
    BY <1>1 DEF IInv, Placed, Ordered, RxInv, Hand, Finished, vars, loopVars, rxVars
  <2> QED
    BY <2>1, <2>2, <2>3 DEF IInv
<1> QED
  BY <1>1, LoopPart, ManageStep, TrySendStep, StreamSteps, PollItemStep, CollectOkStep,
     CollectErrStep DEF Next

\* The conjunction of the collect loop's and the reporter's parts holds
\* throughout: from the send into the channel to the hand-over to the streams.
THEOREM Invariance == Spec => []IInv
  BY InitInv, StepInv, PTL DEF Spec

\* Every variable keeps its type, and no channel has more items than it may.
THEOREM TypeCorrect == Spec => []TypeOK
  BY Invariance, PTL DEF IInv

\* Graceful shutdown: an item is lost unnoticed only if it was sent after
\* is_closing had been set.
THEOREM LostCorrect == Spec => []LostOnlyInRace
  BY Invariance, InvImplies, PTL

\* Every item is in one place, the one its fate says, and never twice.
THEOREM OnePlaceCorrect == Spec => []OnePlace
  BY Invariance, InvImplies, PTL

\* Whatever is dropped on the way, items are delivered in the order in which they
\* were reported.
THEOREM OrderCorrect == Spec => []OrderKept
  BY Invariance, InvImplies, PTL

\* A receiving task returns only when the loop has ended and nothing is left.
THEOREM DrainedCorrect == Spec => []TaskEndsDrained
  BY Invariance, InvImplies, PTL

==============================================================================
