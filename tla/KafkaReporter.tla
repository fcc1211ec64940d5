----------------------------- MODULE KafkaReporter -----------------------------
(***************************************************************************)
(* The Kafka reporter (src/reporter/kafka.rs): the task of CollectLoop     *)
(* itself sends each item to the topic of its kind and awaits the outcome  *)
(* before it consumes the next. librdkafka and the broker are external: a  *)
(* send ends, with success or an error.                                    *)
(***************************************************************************)
EXTENDS CollectLoop

CONSTANT KindOf     \* the variant of each CollectItem

Variants == {"Trace", "Log", "Meter", "Instance", "Ping"}

\* TopicNames, without the namespace they share.
Topics == {"segments", "meters", "logs", "managements"}

ASSUME KindAssumption == KindOf \in [Items -> Variants]

VARIABLES topics,    \* what the broker has acknowledged, in order
          sent       \* history: the same over all topics

kafkaVars == <<topics, sent>>

vars == <<fate, loopVars, kafkaVars>>

TypeOK ==
  /\ LoopTypeOK
  /\ topics \in [Topics -> Seq(Items)]
  /\ sent \in Seq(Items)

Init ==
  /\ LoopInit
  /\ topics = [t \in Topics |-> <<>>]
  /\ sent = <<>>

TopicOf(i) ==
  CASE KindOf[i] = "Trace" -> "segments"
    [] KindOf[i] = "Log" -> "logs"
    [] KindOf[i] = "Meter" -> "meters"
    [] KindOf[i] = "Instance" -> "managements"
    [] KindOf[i] = "Ping" -> "logs"

\* Defect: the send is not awaited, and overtakes the one before it.
SendOkUnawaited ==
  /\ Dispose("delivered")
  /\ topics' = [topics EXCEPT ![TopicOf(serving)] = <<serving>> \o @]
  /\ sent' = <<serving>> \o sent

SendOk ==
  /\ Dispose("delivered")
  /\ topics' = [topics EXCEPT ![TopicOf(serving)] = Append(@, serving)]
  /\ sent' = Append(sent, serving)

\* err_handle, and the item is gone.
SendErr == Dispose("failed") /\ UNCHANGED kafkaVars

Next ==
  \/ LoopNext /\ UNCHANGED kafkaVars
  \/ SendOk
  \/ SendErr

Spec == Init /\ [][Next]_vars

FairSpec == Spec /\ LoopFairness /\ WF_vars(SendOk \/ SendErr)

------------------------------------------------------------------------------
(* Properties                                                              *)

\* What was sent, what is at hand and what is still queued are in the order in
\* which the items were reported, each of them once, and every topic has its
\* share of what was sent in that order: one item is sent after the other.
SentInOrder ==
  /\ IsInjective(produced)
  /\ KeepsOrder(sent \o Hand \o queue, produced)
  /\ \A t \in Topics :
       /\ KeepsOrder(topics[t], produced)
       /\ \A i \in Items : Contains(topics[t], i) <=> Contains(sent, i) /\ TopicOf(i) = t

\* Every item handed to the queue is acknowledged, or its failure was handled,
\* by the time the task ends, unless it fell into the gap between the last look
\* at the queue and its drop, which a task that ends in an error does not have.
SettledAtEnd ==
  Finished => \A i \in Items : Contains(produced, i) =>
                \/ fate[i] \in {"delivered", "failed"}
                \/ fate[i] = "lost" /\ i \in late /\ phase = "done"

\* "Quit when shutdown_signal received", whatever the broker does.
QuitOnShutdown == signal /\ phase # "unspawned" ~> Finished

==============================================================================
