------------------------------- MODULE Metricer -------------------------------
(***************************************************************************)
(* The meters and the Metricer that reports them in the background         *)
(* (src/metrics/meter.rs and metricer.rs).                                 *)
(*                                                                         *)
(* Meters are registered, then the Metricer is booted. Its task goes       *)
(* through the registered meters, one transform and one report after the   *)
(* other, on a blocking thread; then it awaits the next tick or the end of *)
(* the channel of the Booting handle. Any thread increments counters and   *)
(* adds values to the histogram meanwhile.                                 *)
(*                                                                         *)
(* Values are small numbers; labels and names are the id of a meter. The   *)
(* f64 arithmetic of counters is exact for them.                           *)
(***************************************************************************)
EXTENDS Integers, Sequences, FiniteSets

CONSTANTS Counters,       \* counters, one per call of register
          RateCounters,   \* those in CounterMode::RATE
          Gauge,          \* a gauge, whose getter is the user's
          Histogram,      \* a histogram
          Steps,          \* the steps it may be made with, each a sequence
          Values,         \* the values added to it
          IdOf,           \* the MeterId of each meter
          Amounts,        \* the amounts the user increments each counter by
          MaxCount,       \* bound: the absolute value of a counter
          MaxAdds,        \* bound: calls of add_value
          None

Meters == Counters \union {Gauge, Histogram}

Ids == {IdOf[m] : m \in Meters}

ASSUME MetersAssumption ==
  /\ RateCounters \subseteq Counters
  /\ Gauge # Histogram /\ Gauge \notin Counters /\ Histogram \notin Counters
  /\ None \notin Meters
  /\ IsFiniteSet(Meters) /\ IdOf \in [Meters -> Ids]
  /\ Steps \subseteq Seq(Int) /\ Values \subseteq Int
  /\ Amounts \in [Counters -> SUBSET Int] /\ MaxCount \in Nat /\ MaxAdds \in Nat

VARIABLES count, previous_count,   \* of each Counter
          steps, buckets,          \* Histogram::buckets: bucket and count
          registered,              \* the meters that exist
          meter_map,
          report_interval,         \* is it zero?
          order,                   \* the iteration order of meter_map
          at,                      \* where the task is
          pos,                     \* the meter it is at
          got,                     \* what its transform has read so far
          handle,                  \* the Booting
          panicked,                \* the meter whose panic ended the round, None without
          \* history
          reported,                \* the last value of each counter handed to the reporter,
                                   \* the sum of the values of a RATE counter
          snapshot,                \* the last bucket counts handed to it
          shrunk,                  \* counters incremented by a negative amount
          added                    \* the values added, in order

meterVars == <<count, previous_count, steps, buckets, shrunk, added>>
setupVars == <<registered, meter_map, report_interval, order>>
taskVars == <<at, pos, got, reported, snapshot, panicked>>

vars == <<meterVars, setupVars, taskVars, handle>>

\* steps.sort_by(..); steps.dedup(): the distinct steps in ascending order.
SortDedup(s) ==
  LET S == {s[i] : i \in DOMAIN s}
  IN  [i \in 1 .. Cardinality(S) |-> CHOOSE x \in S : Cardinality({y \in S : y < x}) = i - 1]

Counted == (- MaxCount) .. MaxCount

TypeOK ==
  /\ count \in [Counters -> Counted]
  /\ previous_count \in [Counters -> Counted]
  /\ buckets \in [DOMAIN steps -> Nat]
  /\ registered \subseteq Meters
  /\ meter_map \in [Ids -> Meters \union {None}]
  /\ report_interval \in {"zero", "positive"}
  /\ order \in Seq(Meters)
  /\ at \in {"setup", "round", "select", "ended", "crashed"}
  /\ pos \in Nat /\ got \in Seq(Int)
  /\ handle \in {"none", "held", "shutdown", "dropped", "unwrapped"}
  /\ panicked \in Meters \union {None}
  /\ reported \in [Counters -> Counted]
  /\ snapshot \in [DOMAIN steps -> Nat]
  /\ shrunk \subseteq Counters
  /\ added \in Seq(Values)

Init ==
  /\ count = [c \in Counters |-> 0] /\ previous_count = [c \in Counters |-> 0]
  /\ steps \in {SortDedup(s) : s \in Steps}
  /\ buckets = [i \in DOMAIN steps |-> 0]
  /\ registered = {} /\ meter_map = [id \in Ids |-> None]
  /\ report_interval = "positive" /\ order = <<>>
  /\ at = "setup" /\ pos = 1 /\ got = <<>>
  /\ handle = "none"
  /\ reported = [c \in Counters |-> 0] /\ snapshot = [i \in DOMAIN steps |-> 0]
  /\ shrunk = {} /\ added = <<>>
  /\ panicked = None

------------------------------------------------------------------------------
(* The meters, in any thread                                               *)

\* Any amount may be added, a negative one too.
Increment(c, a) ==
  /\ c \in registered /\ count[c] + a \in Counted
  /\ count' = [count EXCEPT ![c] = @ + a]
  /\ shrunk' = IF a < 0 THEN shrunk \union {c} ELSE shrunk
  /\ UNCHANGED <<previous_count, steps, buckets, added, setupVars, taskVars, handle>>

\* Defect: the insertion point itself is taken.
FindBucketInsertion(v) ==
  IF \E i \in DOMAIN steps : steps[i] = v
  THEN CHOOSE i \in DOMAIN steps : steps[i] = v
  ELSE LET i == Cardinality({j \in DOMAIN steps : steps[j] < v})
       IN  IF i < Len(steps) THEN i + 1 ELSE 0

\* binary_search_by: the bucket that equals v, else the one before the insertion
\* point, none (0) below the first.
FindBucket(v) ==
  IF \E i \in DOMAIN steps : steps[i] = v
  THEN CHOOSE i \in DOMAIN steps : steps[i] = v
  ELSE Cardinality({j \in DOMAIN steps : steps[j] < v})

AddValue(v) ==
  /\ Histogram \in registered
  /\ Len(added) < MaxAdds
  /\ added' = Append(added, v)
  /\ buckets' = IF FindBucket(v) = 0 THEN buckets
                ELSE [buckets EXCEPT ![FindBucket(v)] = @ + 1]
  /\ UNCHANGED <<count, previous_count, steps, shrunk, setupVars, taskVars, handle>>

------------------------------------------------------------------------------
(* Setting up                                                              *)

\* A meter of the same id is displaced; its user keeps the Arc to it.
Register(m) ==
  /\ at = "setup" /\ m \notin registered
  /\ registered' = registered \union {m}
  /\ meter_map' = [meter_map EXCEPT ![IdOf[m]] = m]
  /\ UNCHANGED <<meterVars, report_interval, order, taskVars, handle>>

SetReportInterval(d) ==
  /\ at = "setup" /\ report_interval' = d
  /\ UNCHANGED <<meterVars, registered, meter_map, order, taskVars, handle>>

Mapped == {meter_map[id] : id \in Ids} \ {None}

\* The map is iterated in an order of its own, which does not change any more.
\* interval(0) panics, and the task with it.
Boot ==
  /\ at = "setup"
  /\ at' = IF report_interval = "zero" THEN "crashed" ELSE "round"
  /\ order' \in {f \in [1 .. Cardinality(Mapped) -> Mapped] :
                   \A i, j \in DOMAIN f : f[i] = f[j] => i = j}
  /\ handle' = "held"
  /\ UNCHANGED <<meterVars, registered, meter_map, report_interval,
                 pos, got, reported, snapshot, panicked>>

------------------------------------------------------------------------------
(* A round of reports, on a blocking thread                                *)

AtMeter(m) == at = "round" /\ pos <= Len(order) /\ order[pos] = m

\* A panic on the blocking thread: spawn_blocking returns an error that is ignored,
\* and the meters that come later wait for the next round.
RoundPanics(m) == at' = "select" /\ panicked' = m /\ UNCHANGED pos

\* report(CollectItem::Meter(..)), then the next meter; the user's reporter or its
\* error handler may panic.
Advance(m) ==
  /\ got' = <<>>
  /\ \/ pos' = pos + 1 /\ UNCHANGED <<at, panicked>>
     \/ RoundPanics(m)
  /\ UNCHANGED <<setupVars, handle>>

\* CounterMode::INCREMENT
ReportIncrement(c) ==
  /\ AtMeter(c) /\ c \in Counters \ RateCounters
  /\ reported' = [reported EXCEPT ![c] = count[c]]
  /\ Advance(c) /\ UNCHANGED <<meterVars, snapshot>>

\* CounterMode::RATE: self.get(), then the swap.
ReadRate(c) ==
  /\ AtMeter(c) /\ c \in RateCounters /\ got = <<>>
  /\ got' = <<count[c]>>
  /\ UNCHANGED <<meterVars, setupVars, at, pos, reported, snapshot, panicked, handle>>

\* Defects: the counter to compare with is not updated; it is read again for the
\* swap.
ReportRateNoSwap(c) ==
  /\ AtMeter(c) /\ c \in RateCounters /\ got # <<>>
  /\ reported' = [reported EXCEPT ![c] = @ + (got[1] - previous_count[c])]
  /\ Advance(c) /\ UNCHANGED <<meterVars, snapshot>>

ReportRateReadsTwice(c) ==
  /\ AtMeter(c) /\ c \in RateCounters /\ got # <<>>
  /\ previous_count' = [previous_count EXCEPT ![c] = count[c]]
  /\ reported' = [reported EXCEPT ![c] = @ + (got[1] - previous_count[c])]
  /\ Advance(c) /\ UNCHANGED <<count, steps, buckets, shrunk, added, snapshot>>

ReportRate(c) ==
  /\ AtMeter(c) /\ c \in RateCounters /\ got # <<>>
  /\ previous_count' = [previous_count EXCEPT ![c] = got[1]]
  /\ reported' = [reported EXCEPT ![c] = @ + (got[1] - previous_count[c])]
  /\ Advance(c) /\ UNCHANGED <<count, steps, buckets, shrunk, added, snapshot>>

ReportGauge ==
  /\ AtMeter(Gauge)
  /\ Advance(Gauge) /\ UNCHANGED <<meterVars, reported, snapshot>>

\* Defect: the error of the round ends the task.
GetterPanicsEnds ==
  /\ AtMeter(Gauge)
  /\ at' = "ended" /\ panicked' = Gauge
  /\ UNCHANGED <<meterVars, setupVars, pos, got, reported, snapshot, handle>>

\* The getter panics.
GetterPanics ==
  /\ AtMeter(Gauge)
  /\ RoundPanics(Gauge)
  /\ UNCHANGED <<meterVars, setupVars, got, reported, snapshot, handle>>

\* The buckets are loaded one after the other.
LoadBucket ==
  /\ AtMeter(Histogram) /\ Len(got) < Len(steps)
  /\ got' = Append(got, buckets[Len(got) + 1])
  /\ UNCHANGED <<meterVars, setupVars, at, pos, reported, snapshot, panicked, handle>>

\* Defect: the buckets start again after a report.
ReportHistogramResets ==
  /\ AtMeter(Histogram) /\ Len(got) = Len(steps)
  /\ snapshot' = got
  /\ buckets' = [i \in DOMAIN buckets |-> 0]
  /\ Advance(Histogram) /\ UNCHANGED <<count, previous_count, steps, shrunk, added, reported>>

ReportHistogram ==
  /\ AtMeter(Histogram) /\ Len(got) = Len(steps)
  /\ snapshot' = got
  /\ Advance(Histogram) /\ UNCHANGED <<meterVars, reported>>

EndRound ==
  /\ at = "round" /\ pos > Len(order)
  /\ at' = "select"
  /\ UNCHANGED <<meterVars, setupVars, pos, got, reported, snapshot, panicked, handle>>

------------------------------------------------------------------------------
(* Between the rounds                                                      *)

Tick ==
  /\ at = "select"
  /\ at' = "round" /\ pos' = 1 /\ panicked' = None
  /\ UNCHANGED <<meterVars, setupVars, got, reported, snapshot, handle>>

\* Defect: only a message ends the task, not the end of the channel.
StopOnMessageOnly ==
  /\ at = "select" /\ handle = "shutdown"
  /\ at' = "ended"
  /\ UNCHANGED <<meterVars, setupVars, pos, got, reported, snapshot, panicked, handle>>

\* shutdown_rx.recv(): the message of shutdown(), or None when the handle is gone.
Stop ==
  /\ at = "select" /\ handle \in {"shutdown", "dropped"}
  /\ at' = "ended"
  /\ UNCHANGED <<meterVars, setupVars, pos, got, reported, snapshot, panicked, handle>>

\* send(()).await.unwrap(), then await the task. A task that crashes drops the
\* receiver before or after the message, which decides if the unwrap panics.
Shutdown ==
  /\ handle = "held"
  /\ handle' \in IF at = "crashed" THEN {"unwrapped", "shutdown"} ELSE {"shutdown"}
  /\ UNCHANGED <<meterVars, setupVars, taskVars>>

DropBooting ==
  /\ handle = "held"
  /\ handle' = "dropped"
  /\ UNCHANGED <<meterVars, setupVars, taskVars>>

------------------------------------------------------------------------------

Round ==
  \/ \E c \in Counters : ReportIncrement(c) \/ ReadRate(c) \/ ReportRate(c)
  \/ ReportGauge \/ GetterPanics
  \/ LoadBucket \/ ReportHistogram
  \/ EndRound

Next ==
  \/ \E c \in Counters : \E a \in Amounts[c] : Increment(c, a)
  \/ \E v \in Values : AddValue(v)
  \/ \E m \in Meters : Register(m)
  \/ \E d \in {"zero", "positive"} : SetReportInterval(d)
  \/ Boot \/ Shutdown \/ DropBooting
  \/ Round \/ Tick \/ Stop

Spec == Init /\ [][Next]_vars

(***************************************************************************)
(* The task runs and time passes. select! polls in random order, so the    *)
(* end of the channel is noticed even if ticks are always due. Nothing     *)
(* makes the user call anything.                                           *)
(***************************************************************************)
FairSpec == Spec /\ WF_vars(Round) /\ WF_vars(Tick) /\ SF_vars(Stop)

------------------------------------------------------------------------------
(* Properties                                                              *)

\* The values a RATE counter reported add up to the value it last compared with,
\* and what it has still to report is what was counted since: no increment is
\* reported twice or skipped, whenever it comes. Unless a counter was given a
\* negative amount, it has never reported more than was counted.
RatesAddUp ==
  \A c \in RateCounters :
    /\ reported[c] = previous_count[c]
    /\ c \notin shrunk => previous_count[c] <= count[c]

\* The bucket of v is the last one that is not above it.
InBucket(v, i) == steps[i] <= v /\ \A j \in DOMAIN steps : steps[j] <= v => j <= i

\* A bucket counts the values added in its range, however the steps were given.
BucketsAreExact ==
  \A i \in DOMAIN steps :
    buckets[i] = Cardinality({n \in DOMAIN added : InBucket(added[n], i)})

\* A report never goes back: counters that are never given a negative amount and
\* every bucket only grow from one report to the next, though the buckets are read
\* while values are added.
ReportsGrow ==
  [][/\ \A c \in Counters \ shrunk : reported'[c] >= reported[c]
     /\ \A i \in DOMAIN steps : snapshot[i] <= snapshot'[i] /\ snapshot'[i] <= buckets[i]]_vars

\* c may go unreported: a later meter of its id has displaced it, or the task was
\* shut down or has crashed.
Excused(c) == c \notin Mapped \/ handle \in {"shutdown", "unwrapped"} \/ at = "crashed"

\* The round was ended by the panic of a meter that comes before c in the map.
CutBefore(c) ==
  \E i, j \in DOMAIN order : i < j /\ order[i] = panicked /\ order[j] = c

\* n was handed to the reporter, or c moved on before it could be.
Overtaken(c, n) ==
  reported[c] = n \/ IF c \in shrunk THEN count[c] # n ELSE reported[c] > n

\* What was counted is handed to the reporter in the end, as long as the handle is
\* kept: panics delay the meters behind them to the first round that gets through,
\* and only if they never stop those meters are not reported.
CountsAreReported ==
  \A c \in Counters :
    <>[]~CutBefore(c) =>
      \A n \in Counted :
        at # "setup" /\ count[c] = n ~> Overtaken(c, n) \/ Excused(c) \/ handle = "dropped"

\* "Boot the reporting [...], will be run in background": the same without the handle.
RunsInBackground ==
  \A c \in Counters :
    <>[]~CutBefore(c) =>
      \A n \in Counted :
        at # "setup" /\ count[c] = n ~> Overtaken(c, n) \/ Excused(c)

\* shutdown() returns, and a dropped handle ends the task, unless it has crashed.
TaskEnds == handle \in {"shutdown", "dropped"} /\ at # "crashed" ~> at = "ended"

==============================================================================
