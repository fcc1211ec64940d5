------------------------------ MODULE CollectLoop ------------------------------
(***************************************************************************)
(* The front end that the gRPC and the Kafka reporter share (GrpcReporter  *)
(* and ReportSender::start in src/reporter/grpc.rs, KafkaReporter and      *)
(* KafkaReporting::spawn in src/reporter/kafka.rs), over either channel    *)
(* that src/reporter/mod.rs makes a producer and a consumer: the unbounded *)
(* one, or a bounded one whose produce() is blocking_send.                 *)
(*                                                                         *)
(* Any thread calls report(): it reads is_closing and then sends into the  *)
(* queue. One task consumes the queue until the shutdown signal arrives or *)
(* every reporter is gone, sets is_closing, flushes what is left and drops *)
(* the receiving end. What the task does with an item it has consumed is   *)
(* said by the module that extends this one.                               *)
(*                                                                         *)
(* is_closing is a relaxed atomic: a load that returns the old value is a  *)
(* load that happened earlier, which the gap between Check and Produce     *)
(* already allows.                                                         *)
(***************************************************************************)
EXTENDS Naturals, SequencesExt

CONSTANTS Items,       \* the CollectItems reported, each by a thread of its own
          AsyncItems,  \* those reported from inside an async runtime
          QueueBound,  \* the size of the channel, 0 for the unbounded one
          None

ASSUME ItemsAssumption ==
  /\ None \notin Items /\ AsyncItems \subseteq Items
  /\ QueueBound \in Nat

VARIABLES fate,        \* where each item is, or what became of it
          queue,       \* the channel
          reporters,   \* does a reporter still exist?
          is_closing,  \* State::is_closing
          signal,      \* has the shutdown signal fired?
          phase,       \* where the consuming task is
          serving,     \* the item it has consumed and not dealt with
          produced,    \* history: the items sent into the queue, in order
          late         \* history: those sent when is_closing was already set

loopVars == <<queue, reporters, is_closing, signal, phase, serving, produced, late>>

\* "skipped" report() saw is_closing; "refused" the receiving end was gone and
\* err_handle was called; "panicked" report() panicked; "lost" dropped with the
\* receiving end, unnoticed. The others belong to the extending modules:
\* "channel", "flying" on the way, "full", "failed" dropped with a handler called.
Fates == {"new", "checked", "skipped", "queued", "refused", "panicked", "lost", "serving",
          "channel", "flying", "delivered", "full", "failed"}

Phases == {"unspawned", "work", "closing", "flush", "ending", "failing", "done", "error"}

LoopTypeOK ==
  /\ fate \in [Items -> Fates]
  /\ queue \in Seq(Items)
  /\ reporters \in BOOLEAN /\ is_closing \in BOOLEAN /\ signal \in BOOLEAN
  /\ phase \in Phases
  /\ serving \in Items \union {None}
  /\ produced \in Seq(Items)
  /\ late \in SUBSET Items

LoopInit ==
  /\ fate = [i \in Items |-> "new"]
  /\ queue = <<>> /\ produced = <<>> /\ late = {}
  /\ reporters = TRUE /\ is_closing = FALSE /\ signal = FALSE
  /\ phase = "unspawned" /\ serving = None

\* The receiving end of the queue has been dropped.
Finished == phase \in {"done", "error"}

------------------------------------------------------------------------------
(* report()                                                                *)

Check(i) ==
  /\ reporters /\ fate[i] = "new"
  /\ fate' = [fate EXCEPT ![i] = IF is_closing THEN "skipped" ELSE "checked"]
  /\ UNCHANGED loopVars

Bounded == QueueBound > 0

\* Defect: a thread that waits for room is not told that the receiver is gone.
ProduceIgnoresEnd(i) ==
  /\ fate[i] = "checked" /\ ~(Bounded /\ i \in AsyncItems)
  /\ ~Finished /\ (Bounded => Len(queue) < QueueBound)
  /\ fate' = [fate EXCEPT ![i] = "queued"]
  /\ queue' = Append(queue, i)
  /\ produced' = Append(produced, i)
  /\ late' = IF is_closing THEN late \union {i} ELSE late
  /\ UNCHANGED <<reporters, is_closing, signal, phase, serving>>

\* producer.produce(item), or err_handle. blocking_send waits while the queue is
\* full, until there is room or the receiver is gone.
Produce(i) ==
  /\ fate[i] = "checked" /\ ~(Bounded /\ i \in AsyncItems)
  /\ \/ /\ Finished
        /\ fate' = [fate EXCEPT ![i] = "refused"]
        /\ UNCHANGED <<queue, produced, late>>
     \/ /\ ~Finished /\ (Bounded => Len(queue) < QueueBound)
        /\ fate' = [fate EXCEPT ![i] = "queued"]
        /\ queue' = Append(queue, i)
        /\ produced' = Append(produced, i)
        /\ late' = IF is_closing THEN late \union {i} ELSE late
  /\ UNCHANGED <<reporters, is_closing, signal, phase, serving>>

\* blocking_send panics in a thread that runs async tasks, full or not.
ProducePanics(i) ==
  /\ fate[i] = "checked" /\ Bounded /\ i \in AsyncItems
  /\ fate' = [fate EXCEPT ![i] = "panicked"]
  /\ UNCHANGED loopVars

\* The last clone of the reporter is dropped; no report() is running on it.
DropReporters ==
  /\ reporters /\ \A i \in Items : fate[i] # "checked"
  /\ reporters' = FALSE
  /\ UNCHANGED <<fate, queue, is_closing, signal, phase, serving, produced, late>>

------------------------------------------------------------------------------
(* The consuming task                                                      *)

TaskStep == UNCHANGED <<fate, reporters, signal, produced, late>>

\* reporting().await.spawn()
Spawn ==
  /\ phase = "unspawned"
  /\ phase' = "work"
  /\ TaskStep /\ UNCHANGED <<queue, is_closing, serving>>

\* The signal fires; shutdown_fut forwards it to the loop.
Signal ==
  /\ ~signal
  /\ signal' = TRUE
  /\ UNCHANGED <<fate, queue, reporters, is_closing, phase, serving, produced, late>>

\* consume() in the loop, try_consume() in the flush: Ok(Some(item)).
Consume ==
  /\ phase \in {"work", "flush"} /\ serving = None /\ queue # <<>>
  /\ serving' = Head(queue)
  /\ queue' = Tail(queue)
  /\ fate' = [fate EXCEPT ![Head(queue)] = "serving"]
  /\ UNCHANGED <<reporters, is_closing, signal, phase, produced, late>>

\* The item at hand is dealt with and the task goes on.
Dispose(f) ==
  /\ serving # None
  /\ serving' = None
  /\ fate' = [fate EXCEPT ![serving] = f]
  /\ UNCHANGED <<queue, reporters, is_closing, signal, phase, produced, late>>

\* Defects: the end of the queue is not noticed; the signal is not noticed.
LeaveLoopOnSignalOnly ==
  /\ phase = "work" /\ serving = None
  /\ signal
  /\ phase' = "closing"
  /\ TaskStep /\ UNCHANGED <<queue, is_closing, serving>>

LeaveLoopOnEndOnly ==
  /\ phase = "work" /\ serving = None
  /\ queue = <<>> /\ ~reporters
  /\ phase' = "closing"
  /\ TaskStep /\ UNCHANGED <<queue, is_closing, serving>>

\* select!: consume() returned None, or shutdown_rx got the signal.
LeaveLoop ==
  /\ phase = "work" /\ serving = None
  /\ signal \/ (queue = <<>> /\ ~reporters)
  /\ phase' = "closing"
  /\ TaskStep /\ UNCHANGED <<queue, is_closing, serving>>

\* Defect: the flush is left out.
StoreClosingNoFlush ==
  /\ phase = "closing"
  /\ is_closing' = TRUE
  /\ phase' = "ending"
  /\ TaskStep /\ UNCHANGED <<queue, serving>>

StoreClosing ==
  /\ phase = "closing"
  /\ is_closing' = TRUE
  /\ phase' = "flush"
  /\ TaskStep /\ UNCHANGED <<queue, serving>>

\* try_consume(): nothing left, or Disconnected when no reporter is left either,
\* which makes the task return an error.
FlushEnd ==
  /\ phase = "flush" /\ serving = None /\ queue = <<>>
  /\ phase' = IF reporters THEN "ending" ELSE "failing"
  /\ TaskStep /\ UNCHANGED <<queue, is_closing, serving>>

\* The future is complete: the receiving end goes, with all that is still in it.
Finish ==
  /\ phase \in {"ending", "failing"}
  /\ phase' = IF phase = "ending" THEN "done" ELSE "error"
  /\ fate' = [i \in Items |-> IF fate[i] = "queued" THEN "lost" ELSE fate[i]]
  /\ queue' = <<>>
  /\ UNCHANGED <<reporters, is_closing, signal, serving, produced, late>>

LoopNext ==
  \/ \E i \in Items : Check(i) \/ Produce(i) \/ ProducePanics(i)
  \/ DropReporters \/ Signal
  \/ Spawn \/ Consume \/ LeaveLoop \/ StoreClosing \/ FlushEnd \/ Finish

(***************************************************************************)
(* The task runs once it is spawned, and select! polls its branches in     *)
(* random order, so a shutdown that has been signalled is noticed. A       *)
(* thread inside report() goes on as soon as it can.                       *)
(***************************************************************************)
frontVars == <<fate, loopVars>>

LoopFairness ==
  /\ WF_frontVars(Consume \/ StoreClosing \/ FlushEnd \/ Finish)
  /\ SF_frontVars(LeaveLoop)
  /\ \A i \in Items : WF_frontVars(Produce(i) \/ ProducePanics(i))

------------------------------------------------------------------------------
(* Properties                                                              *)

\* i comes before j in t; s has only items of t, in the order they have there.
Before(t, i, j) == \E p, q \in DOMAIN t : p < q /\ t[p] = i /\ t[q] = j

KeepsOrder(s, t) ==
  /\ \A j \in DOMAIN s : Contains(t, s[j])
  /\ \A j, k \in DOMAIN s : j < k => Before(t, s[j], s[k])

\* The item at hand, as the stage between the queue and what lies beyond it.
Hand == IF serving = None THEN <<>> ELSE <<serving>>

\* Graceful shutdown: an item is lost unnoticed only if its report() read
\* is_closing before, and sent the item after, the loop set it. Everything sent
\* earlier was flushed, and a task that ends in an error, because the last
\* reporter is gone, has lost nothing at all.
LostOnlyInRace == \A i \in Items : fate[i] = "lost" => i \in late /\ phase = "done"

\* report() does wait for room in a bounded queue (see ReportNeverWaits). The wait
\* has an end, whether the task goes on consuming or ends meanwhile: the item is
\* queued, or refused because the receiver is gone. (A thread of an async runtime
\* does not wait, it panics.)
WaitForRoomEnds ==
  \A i \in Items \ AsyncItems :
    fate[i] = "checked" /\ phase # "unspawned" ~> fate[i] \notin {"checked", "panicked"}

\* "Report provide non-blocking report method", "Produce the collect item
\* non-blocking": a report() that has found the reporter open goes on at once, with
\* a place in the queue or with an error.
ReportNeverWaits ==
  \A i \in Items : fate[i] = "checked" => Finished \/ (Bounded => Len(queue) < QueueBound)

================================================================================
