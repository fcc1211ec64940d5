----------------------------- MODULE GrpcReporter -----------------------------
(***************************************************************************)
(* The gRPC reporter (src/reporter/grpc.rs): the task of CollectLoop hands *)
(* traces, logs and meters to one bounded channel each and calls the       *)
(* management service itself; three more tasks each stream their channel   *)
(* to the OAP server, one call of `collect` after the other.               *)
(*                                                                         *)
(* The transport and the server are external. A call may fail at any       *)
(* moment, before it has asked the stream for anything or after, and       *)
(* succeeds after the stream has ended. What the server received of a call *)
(* that failed is not known: such items count as failed. A server that     *)
(* answers Ok before the stream has ended does to the state of the client  *)
(* what a failure does, apart from status_handle: the stream is dropped    *)
(* with what it had taken, whose fate is not known, and the next call      *)
(* starts. CollectErr stands for both.                                     *)
(***************************************************************************)
EXTENDS CollectLoop

CONSTANTS Kinds,      \* the streamed kinds: traces, logs, meters
          KindOf,     \* the kind of each item; the others are for management
          Capacity    \* of the channel of a kind (255 in the code)

ASSUME CapacityAssumption == Capacity \in Nat \ {0}

VARIABLES chan,       \* the bounded channel of each kind
          flight,     \* the items its current call has taken
          rx,         \* where the receiving task of each kind is
          is_closed,  \* ReceiveFrom::is_closed
          delivered   \* history: what the server has acknowledged, in order

rxVars == <<chan, flight, rx, is_closed, delivered>>

vars == <<fate, loopVars, rxVars>>

\* "idle" between calls, "open" the call may poll the stream, "ended" the stream
\* has ended and the response is awaited, "done" the task has returned.
RxPoints == {"idle", "open", "ended", "done"}

TypeOK ==
  /\ LoopTypeOK
  /\ chan \in [Kinds -> Seq(Items)] /\ (\A k \in Kinds : Len(chan[k]) <= Capacity)
  /\ flight \in [Kinds -> Seq(Items)]
  /\ rx \in [Kinds -> RxPoints]
  /\ is_closed \in [Kinds -> BOOLEAN]
  /\ delivered \in [Kinds -> Seq(Items)]

Init ==
  /\ LoopInit
  /\ chan = [k \in Kinds |-> <<>>] /\ flight = [k \in Kinds |-> <<>>]
  /\ rx = [k \in Kinds |-> "idle"]
  /\ is_closed = [k \in Kinds |-> FALSE]
  /\ delivered = [k \in Kinds |-> <<>>]

------------------------------------------------------------------------------
(* InnerReportSender::report                                               *)

\* Defect: the channel is unbounded.
TrySendUnbounded(k) ==
  /\ serving # None /\ KindOf[serving] = k
  /\ chan' = [chan EXCEPT ![k] = Append(@, serving)]
  /\ Dispose("channel")
  /\ UNCHANGED <<flight, rx, is_closed, delivered>>

\* try_send into the channel of the kind, or err_handle when it is full.
TrySend(k) ==
  /\ serving # None /\ KindOf[serving] = k
  /\ IF Len(chan[k]) < Capacity
     THEN /\ chan' = [chan EXCEPT ![k] = Append(@, serving)]
          /\ Dispose("channel")
     ELSE Dispose("full") /\ UNCHANGED chan
  /\ UNCHANGED <<flight, rx, is_closed, delivered>>

\* The awaited call of the management client, or status_handle.
Manage ==
  /\ serving # None /\ KindOf[serving] \notin Kinds
  /\ Dispose("delivered") \/ Dispose("failed")
  /\ UNCHANGED rxVars

------------------------------------------------------------------------------
(* TraceReceiveReporter, LogReceiveReporter, MeterReceiveReporter          *)

\* These tasks are spawned together with the loop and share nothing else with it.
RxStep == phase # "unspawned" /\ UNCHANGED loopVars

\* rf.stream(): None once the channel is closed, else the next call starts.
StartStream(k) ==
  /\ rx[k] = "idle"
  /\ rx' = [rx EXCEPT ![k] = IF is_closed[k] THEN "done" ELSE "open"]
  /\ RxStep /\ UNCHANGED <<fate, chan, flight, is_closed, delivered>>

\* poll_next: an item is ready.
PollItem(k) ==
  /\ rx[k] = "open" /\ chan[k] # <<>>
  /\ flight' = [flight EXCEPT ![k] = Append(@, Head(chan[k]))]
  /\ chan' = [chan EXCEPT ![k] = Tail(@)]
  /\ fate' = [fate EXCEPT ![Head(chan[k])] = "flying"]
  /\ RxStep /\ UNCHANGED <<rx, is_closed, delivered>>

\* Defect: is_closed is not set.
PollClosedForgets(k) ==
  /\ rx[k] = "open" /\ chan[k] = <<>> /\ Finished
  /\ rx' = [rx EXCEPT ![k] = "ended"]
  /\ RxStep /\ UNCHANGED <<fate, chan, flight, is_closed, delivered>>

\* poll_next: the channel is empty and its sender was dropped with the loop.
PollClosed(k) ==
  /\ rx[k] = "open" /\ chan[k] = <<>> /\ Finished
  /\ rx' = [rx EXCEPT ![k] = "ended"]
  /\ is_closed' = [is_closed EXCEPT ![k] = TRUE]
  /\ RxStep /\ UNCHANGED <<fate, chan, flight, delivered>>

\* Defect: the idle timeout counts as the end of the channel.
PollTimeoutCloses(k) ==
  /\ rx[k] = "open" /\ chan[k] = <<>> /\ ~Finished
  /\ rx' = [rx EXCEPT ![k] = "ended"]
  /\ is_closed' = [is_closed EXCEPT ![k] = TRUE]
  /\ RxStep /\ UNCHANGED <<fate, chan, flight, delivered>>

\* No item for 30 seconds: the stream ends and the next call will go on.
PollTimeout(k) ==
  /\ rx[k] = "open" /\ chan[k] = <<>> /\ ~Finished
  /\ rx' = [rx EXCEPT ![k] = "ended"]
  /\ RxStep /\ UNCHANGED <<fate, chan, flight, is_closed, delivered>>

\* What becomes of the items of a call.
Settle(k, f) ==
  /\ fate' = [i \in Items |-> IF Contains(flight[k], i) THEN f ELSE fate[i]]
  /\ flight' = [flight EXCEPT ![k] = <<>>]
  /\ rx' = [rx EXCEPT ![k] = "idle"]
  /\ RxStep /\ UNCHANGED is_closed

\* The server has seen the end of the stream and answers.
CollectOk(k) ==
  /\ rx[k] = "ended"
  /\ delivered' = [delivered EXCEPT ![k] = @ \o flight[k]]
  /\ Settle(k, "delivered") /\ UNCHANGED chan

\* Defects: a failed call is tried again with what it had taken, though the
\* failure was handled; what a failed call had taken is put back, behind the rest.
CollectErrRetries(k) ==
  /\ rx[k] \in {"open", "ended"}
  /\ fate' = [i \in Items |-> IF Contains(flight[k], i) THEN "failed" ELSE fate[i]]
  /\ rx' = [rx EXCEPT ![k] = "idle"]
  /\ RxStep /\ UNCHANGED <<flight, is_closed, chan, delivered>>

CollectErrRequeues(k) ==
  /\ rx[k] \in {"open", "ended"}
  /\ chan' = [chan EXCEPT ![k] = @ \o flight[k]]
  /\ Settle(k, "channel") /\ UNCHANGED delivered

\* collect() returned an error, or Ok too early: the call's items are settled
\* without being acknowledged, and the next call follows.
CollectErr(k) ==
  /\ rx[k] \in {"open", "ended"}
  /\ Settle(k, "failed") /\ UNCHANGED <<chan, delivered>>

------------------------------------------------------------------------------

Next ==
  \/ LoopNext /\ UNCHANGED rxVars
  \/ Manage
  \/ \E k \in Kinds :
       \/ TrySend(k)
       \/ StartStream(k) \/ PollItem(k) \/ PollClosed(k) \/ PollTimeout(k)
       \/ CollectOk(k) \/ CollectErr(k)

Spec == Init /\ [][Next]_vars

(***************************************************************************)
(* Tasks run, and a call that has something to do goes on or fails.        *)
(* TaskFairness says no more than that: a server that cannot be reached    *)
(* fails every call before the stream is polled. Reachable adds that calls *)
(* started again and again poll the stream now and then.                   *)
(***************************************************************************)
TaskFairness ==
  /\ LoopFairness
  /\ WF_vars(Manage \/ \E k \in Kinds : TrySend(k))
  /\ \A k \in Kinds :
       WF_vars(\/ StartStream(k)
               \/ /\ rx[k] = "open" /\ (chan[k] # <<>> \/ Finished)
                  /\ PollItem(k) \/ PollClosed(k) \/ CollectErr(k)
               \/ rx[k] = "ended" /\ (CollectOk(k) \/ CollectErr(k)))

Reachable == \A k \in Kinds : SF_vars(PollItem(k) \/ PollClosed(k))

FairSpec == Spec /\ TaskFairness

ReachableSpec == FairSpec /\ Reachable

------------------------------------------------------------------------------
(* Properties                                                              *)

\* Every item is in one place, the one its fate says, and never twice: nothing
\* is delivered twice, nothing dropped is still on its way, and a channel has
\* items of its own kind only.
OnePlace ==
  /\ IsInjective(queue)
  /\ \A i \in Items : /\ Contains(queue, i) <=> fate[i] = "queued"
                      /\ serving = i <=> fate[i] = "serving"
  /\ \A k \in Kinds :
       /\ IsInjective(chan[k]) /\ IsInjective(flight[k]) /\ IsInjective(delivered[k])
       /\ \A i \in Items :
            /\ Contains(chan[k], i) <=> KindOf[i] = k /\ fate[i] = "channel"
            /\ Contains(flight[k], i) <=> KindOf[i] = k /\ fate[i] = "flying"
            /\ Contains(delivered[k], i) <=> KindOf[i] = k /\ fate[i] = "delivered"

\* From the server back to the queue, the items of a kind are in the order in
\* which they were reported, whatever was dropped in between, and ahead of all
\* that the loop has still to deal with.
OrderKept ==
  /\ IsInjective(produced)
  /\ \A k \in Kinds :
       KeepsOrder(delivered[k] \o flight[k] \o chan[k] \o Hand \o queue, produced)

\* A receiving task returns only after the loop has ended and everything it had
\* accepted for that kind has been put on a call.
TaskEndsDrained ==
  \A k \in Kinds : rx[k] = "done" => Finished /\ chan[k] = <<>> /\ flight[k] = <<>>

\* "Quit when shutdown_signal received": all four tasks return.
AllDone == Finished /\ \A k \in Kinds : rx[k] = "done"

QuitOnShutdown == signal /\ phase # "unspawned" ~> AllDone

\* The same when every reporter is dropped instead.
QuitWithoutReporters == ~reporters /\ phase # "unspawned" ~> AllDone

==============================================================================
