------------------------- MODULE KafkaReporterProofs -------------------------
(***************************************************************************)
(* The Kafka reporter delivers in order and settles every item by the time *)
(* its task ends, for any items, any size of the queue and any outcome of  *)
(* the sends. The inductive invariant is that of the front end, the order  *)
(* itself, and that what was sent is what the fates call delivered.        *)
(***************************************************************************)
EXTENDS KafkaReporter, CollectLoopProofs, TLAPS

SentInv ==
  \A i \in Items : /\ fate[i] \notin {"channel", "flying", "full"}
                   /\ Contains(sent, i) <=> fate[i] = "delivered"

IInv == TypeOK /\ LoopInv /\ SentInOrder /\ SentInv

\* Every item has a topic.
LEMMA TopicOfType ==
  ASSUME NEW i \in Items
  PROVE  TopicOf(i) \in Topics
  BY KindAssumption DEF TopicOf, Topics, Variants

\* Nothing is in every order.
LEMMA EmptyOrder ==
  ASSUME NEW t
  PROVE  KeepsOrder(<<>>, t)
  BY DEF KeepsOrder

\* Before anything is reported.
LEMMA InitInv ==
  ASSUME Init
  PROVE  IInv
<1> USE DEF Init
<1>1. LoopInv
  BY LoopInitInv
<1>2. TypeOK
  <2>1. <<>> \in Seq(Items)
    BY EmptySeq
  <2> QED
    BY <1>1, <2>1 DEF TypeOK, LoopInv
<1>3. Hand = <<>> /\ sent = <<>> /\ queue = <<>> /\ <<>> \o <<>> = <<>>
  BY DEF LoopInit, Hand
<1>4. KeepsOrder(sent \o Hand \o queue, produced)
  BY <1>3, EmptyOrder
<1>5. SentInOrder
  BY <1>1, <1>4, EmptyOrder, ContainsEmpty DEF SentInOrder, LoopInv, ProducedInv
<1>6. SentInv
  BY ContainsEmpty DEF SentInv, LoopInit
<1> QED
  BY <1>1, <1>2, <1>5, <1>6 DEF IInv

\* A step of the loop sends nothing.
LEMMA LoopPart ==
  ASSUME IInv, LoopNext, UNCHANGED kafkaVars
  PROVE  IInv'
<1>1. LoopInv'
  BY LoopStep DEF IInv
<1>2. TypeOK'
  BY <1>1 DEF IInv, TypeOK, LoopInv, kafkaVars
<1>3. SentInOrder'
  <2>1. PICK a \in Seq(Items) : a = sent
    BY DEF IInv, TypeOK
  <2>2. KeepsOrder(a \o Hand' \o queue', produced')
    BY <2>1, LoopOrder DEF IInv, SentInOrder
  <2>3. \A t \in Topics : KeepsOrder(topics[t], produced')
    BY LoopBeyond DEF IInv, TypeOK, SentInOrder
  <2>4. sent' = a /\ topics' = topics
    BY <2>1 DEF kafkaVars
  <2> QED
    BY <1>1, <2>1, <2>2, <2>3, <2>4 DEF IInv, SentInOrder, LoopInv, ProducedInv
<1>4. SentInv'
  BY LoopBeyond DEF IInv, SentInv, Beyond, kafkaVars
<1> QED
  BY <1>1, <1>2, <1>3, <1>4 DEF IInv

\* An acknowledged item goes to the end of its topic: all that was sent before
\* was produced before it.
LEMMA SendOkStep ==
  ASSUME IInv, SendOk
  PROVE  IInv'
<1>1. Dispose("delivered") /\ "delivered" \in Beyond /\ LoopInv
  BY DEF SendOk, IInv, Beyond
<1>2. /\ LoopInv' /\ serving \in Items /\ fate[serving] = "serving"
      /\ \A i \in Items : fate'[i] = IF i = serving THEN "delivered" ELSE fate[i]
  BY <1>1, DisposeStep
<1>3. PICK x \in Items, u \in Topics : x = serving /\ u = TopicOf(x)
  BY <1>2, TopicOfType
<1>4. PICK a \in Seq(Items) : a = sent
  BY DEF IInv, TypeOK
<1>5. /\ sent' = Append(a, x)
      /\ topics' = [topics EXCEPT ![u] = Append(@, x)] /\ produced' = produced
  BY <1>3, <1>4 DEF SendOk, Dispose
<1>6. topics \in [Topics -> Seq(Items)] /\ produced \in Seq(Items)
  BY DEF IInv, TypeOK, LoopTypeOK
<1>7. /\ topics'[u] = Append(topics[u], x) /\ \A t \in Topics : t # u => topics'[t] = topics[t]
      /\ topics' \in [Topics -> Seq(Items)]
  BY <1>5, <1>6
<1>8. TypeOK'
  BY <1>2, <1>5, <1>7 DEF TypeOK, LoopInv
<1>9. KeepsOrder(Append(a, x) \o Hand' \o queue', produced')
  BY <1>1, <1>3, <1>4, DisposeOrder DEF IInv, SentInOrder
<1>10. \A i \in Items : Contains(sent', i) <=> Contains(sent, i) \/ i = x
  BY <1>4, <1>5, ContainsAppend
<1>11. ASSUME NEW t \in Topics, NEW i \in Items
       PROVE  Contains(topics'[t], i) <=> Contains(sent', i) /\ TopicOf(i) = t
  <2>1. Contains(topics[t], i) <=> Contains(sent, i) /\ TopicOf(i) = t
    BY DEF IInv, SentInOrder
  <2>2. Contains(Append(topics[u], x), i) <=> Contains(topics[u], i) \/ i = x
    BY <1>6, ContainsAppend
  <2> QED
    BY <1>3, <1>7, <1>10, <2>1, <2>2
<1>12. KeepsOrder(Append(topics[u], x), produced)
  <2>1. \A i \in Items : Contains(topics[u], i) => Contains(a, i)
    BY <1>4 DEF IInv, SentInOrder
  <2>2. KeepsOrder(topics[u], produced) /\ topics[u] \in Seq(Items)
    BY <1>6 DEF IInv, SentInOrder
  <2>3. Hand' = <<>> /\ queue' \in Seq(Items)
    BY <1>1, <1>2 DEF Dispose, Hand, LoopInv, LoopTypeOK
  <2>4. KeepsOrder(Append(a, x) \o queue', produced)
    <3>1. Append(a, x) \o <<>> = Append(a, x)
      OBVIOUS
    <3> QED
      BY <1>5, <1>9, <2>3, <3>1
  <2>5. KeepsOrder(Append(a, x), produced)
    BY <1>6, <2>3, <2>4, OrderFront, Append(a, x) \in Seq(Items)
  <2>6. Contains(produced, x) /\ \A i : Contains(a, i) => Before(produced, i, x)
    BY <1>6, <2>5, OrderAppend
  <2>7. \A i : Contains(topics[u], i) => Before(produced, i, x)
    BY <2>1, <2>2, <2>6, ContainsElement
  <2> QED
    BY <1>6, <2>2, <2>6, <2>7, OrderAppend
<1>13. \A t \in Topics : KeepsOrder(topics'[t], produced')
  BY <1>5, <1>7, <1>12 DEF IInv, SentInOrder
<1>14. SentInOrder'
  BY <1>2, <1>5, <1>9, <1>11, <1>13 DEF SentInOrder, LoopInv, ProducedInv
<1>15. SentInv'
  BY <1>2, <1>3, <1>10 DEF IInv, SentInv
<1> QED
  BY <1>2, <1>8, <1>14, <1>15 DEF IInv

\* A failed send drops the item at hand and keeps everything else.
LEMMA SendErrStep ==
  ASSUME IInv, SendErr
  PROVE  IInv'
<1>1. Dispose("failed") /\ "failed" \in Beyond /\ LoopInv
  BY DEF SendErr, IInv, Beyond
<1>2. /\ LoopInv' /\ serving \in Items /\ fate[serving] = "serving"
      /\ \A i \in Items : fate'[i] = IF i = serving THEN "failed" ELSE fate[i]
  BY <1>1, DisposeStep
<1>3. UNCHANGED <<topics, sent, produced>>
  BY DEF SendErr, Dispose, kafkaVars
<1>4. TypeOK'
  BY <1>2, <1>3 DEF IInv, TypeOK, LoopInv
<1>5. SentInOrder'
  <2>1. PICK a \in Seq(Items) : a = sent
    BY DEF IInv, TypeOK
  <2>2. KeepsOrder(a \o Hand' \o queue', produced')
    BY <1>1, <2>1, DisposeOrder DEF IInv, SentInOrder
  <2> QED
    BY <1>3, <2>1, <2>2 DEF IInv, SentInOrder
<1>6. SentInv'
  BY <1>2, <1>3 DEF IInv, SentInv
<1> QED
  BY <1>2, <1>4, <1>5, <1>6 DEF IInv

\* Every step keeps the invariant.
LEMMA StepInv ==
  ASSUME IInv, [Next]_vars
  PROVE  IInv'
<1>1. CASE UNCHANGED vars
  <2>1. LoopInv'
    BY <1>1, BeyondStep DEF IInv, LoopInv, LoopTypeOK, vars, loopVars
  <2> QED
    BY <1>1, <2>1 DEF IInv, TypeOK, LoopInv, SentInOrder, SentInv, Hand, vars, loopVars, kafkaVars
<1> QED
  BY <1>1, LoopPart, SendOkStep, SendErrStep DEF Next

\* The conjunction of the collect loop's and the producer's parts holds
\* throughout: from the send into the channel to the answer of the producer.
THEOREM Invariance == Spec => []IInv
  BY InitInv, StepInv, PTL DEF Spec

\* Every variable keeps its type.
THEOREM TypeCorrect == Spec => []TypeOK
  BY Invariance, PTL DEF IInv

\* The topics, the item at hand and the queue hold what was reported in the order
\* in which it was reported, each item once.
THEOREM OrderCorrect == Spec => []SentInOrder
  BY Invariance, PTL DEF IInv

\* An item is lost unnoticed only if it was sent after is_closing had been set.
THEOREM LostCorrect == Spec => []LostOnlyInRace
  BY Invariance, PTL DEF IInv, LoopInv

\* When the task has ended, every item that was sent into the queue has been
\* acknowledged or its failure handled, or it is lost in the race of the shutdown.
THEOREM SettledCorrect == Spec => []SettledAtEnd
<1>1. ASSUME IInv PROVE SettledAtEnd
  <2>1. SUFFICES ASSUME Finished, NEW i \in Items, Contains(produced, i)
                 PROVE  \/ fate[i] \in {"delivered", "failed"}
                        \/ fate[i] = "lost" /\ i \in late /\ phase = "done"
    BY DEF SettledAtEnd
  <2>2. fate[i] \in Fates /\ fate[i] \notin NotSent
    BY <1>1, <2>1 DEF IInv, LoopInv, LoopTypeOK, ProducedInv
  <2>3. fate[i] # "queued"
    BY <1>1, <2>1, ContainsEmpty DEF IInv, LoopInv, ClosingInv, QueueInv
  <2>4. fate[i] # "serving"
    <3>1. serving = None
      BY <1>1, <2>1 DEF IInv, LoopInv, ServingInv, Finished
    <3> QED
      BY <1>1, <3>1, ItemsAssumption DEF IInv, LoopInv, ServingInv
  <2>5. fate[i] \notin {"channel", "flying", "full"}
    BY <1>1 DEF IInv, SentInv
  <2> QED
    BY <1>1, <2>2, <2>3, <2>4, <2>5 DEF IInv, LoopInv, LostOnlyInRace, Fates, NotSent
<1> QED
  BY <1>1, Invariance, PTL

==============================================================================
