# A TLA+ model of the SkyWalking Rust agent

This directory models the core of `apache/skywalking-rust`: how spans are
recorded and reported by several threads, how reporters carry what was recorded
to the OAP server or to Kafka, how segments are linked into traces, and how
meters, instance properties and heartbeats are reported in the background.
The modules are written from the code under `src/src/`; paths below are relative
to it. `PROJECT.json` maps every definition to the lines it models.

## 1. The system

| Part | State it keeps | Operations | Modelled in |
|---|---|---|---|
| WaitGroup (`common/wait_group.rs`) | counter under a `Mutex`, a `Condvar` | `add`, `done`, `wait` | `WaitGroup`, `WaitGroupSpec` |
| Tracing context and spans (`trace/trace_context.rs`, `trace/span.rs`) | ids, the `SpanStack` (active and finalized spans), the WaitGroup, a weak Tracer | `create_*_span`, `continued`, tags, drop of a `Span`, `prepare_for_async`, drop of an `AsyncSpan`, `last_span`, `wait`, drop of the context | `TracingContext` |
| Tracer (`trace/tracer.rs`) | service, instance, reporter; a global cell | `create_trace_context`, `finalize_context` | inside `TracingContext` |
| Front end of the reporters (`reporter/mod.rs`, and the loop in `grpc.rs` and `kafka.rs`) | `is_closing`, a queue, a shutdown channel | `report`, `spawn`, the `select!` loop, the flush | `CollectLoop` |
| gRPC reporter (`reporter/grpc.rs`) | one channel of 255 items per streamed kind, `is_closed` per kind | `InnerReportSender::report`, `ReceiveFrom::stream`, `poll_next`, `collect` | `GrpcReporter` |
| Kafka reporter (`reporter/kafka.rs`) | topic names | `InnerReporting::report` | `KafkaReporter` |
| Meters (`metrics/meter.rs`) | atomic counters, buckets | `increment`, `add_value`, `transform` | `Metricer` |
| Metricer (`metrics/metricer.rs`) | `meter_map`, `report_interval`, the handle | `register`, `set_report_interval`, `boot`, `shutdown` | `Metricer` |
| Propagation (`trace/propagation/`; `capture`, `continued` of `trace_context.rs`) | headers and snapshots under way | `encode_propagation`, `decode_propagation`, `create_entry_span_with_propagation`, `capture`, `continued` | `TraceLinks` |
| Logging (`logging/`) | a record builder | `with_tracing_context`, `with_span`, `log` | `TraceLinks` |
| Manager (`management/manager.rs`) | the counter of the heartbeat task, its handle | `report_properties`, `keep_alive`, `report_and_keep_alive` | `Manager` |
| Instance properties (`management/instance.rs`) | values per key | `insert`, `update`, `remove`, `insert_os_info`, the conversion | `Manager` |
| Print reporter, errors, ids and clocks, protocol types | none | | not modelled |

How they interact. A `Tracer` makes a `TracingContext`; the context makes
`Span`s, which share its `SpanStack` by a strong reference. A span that is
prepared for async becomes an `AsyncSpan`, which holds the stack weakly and may
be dropped in another thread; the WaitGroup counts those. When the context is
dropped it takes the finalized spans and hands a segment to the reporter of its
Tracer, which it holds weakly. The Metricer's task, the logger and the Manager
call the same `Report::report`. A reporter puts the item into a queue; a task
consumes it and either sends it to Kafka or hands it to one of three streaming
tasks.

What is hard here:

* the lock of the finalized stack is only tried (`try_read`, `try_write`), so
  contention is a panic, and panics happen inside `drop`, where a second one
  aborts the process;
* an `AsyncSpan` fills an entry of the stack that was made before, in any order
  and from any thread, while the owner goes on, waits, or drops the context;
* a reporter is closed while other threads report, while items are in the queue,
  in a bounded channel, or on a call that may time out or fail;
* a link (header, snapshot, log) copies the ids of a context at one moment and is
  used at another, when that context may have taken over a different trace id,
  closed the span, or be gone;
* a RATE counter is read and swapped in two steps, and buckets are read one by
  one, while other threads count;
* everything that has to end (`wait()`, the reporting tasks, the Metricer's
  task) depends on another thread or on the network, and what has to go on (the
  heartbeats) on a handle the user may drop and on a closure that may panic.

`PROJECT.json` lists the hazards with the line where each bites and the
properties that would catch it.

## 2. Modules

### WaitGroupSpec, WaitGroup

`WaitGroupSpec` is the promise the context relies on: the set `pending` of
members added and not done, and `returned`; `wait` returns only when `pending`
is empty. Adding after that is allowed, since `wait()` consumes the context but
not the Spans that may still become AsyncSpans.

`WaitGroup` is the code: `count`, the holder of the `mutex`, the point where the
`owner` is and the point where each `member` is. Each critical section is two
actions (`AddLock`/`AddBody`, `DoneLock`/`DoneBody`, `WaitLock`/`WaitCheck`), and
`Condvar::wait` is falling asleep while releasing the mutex, waking up (when
notified, or spuriously) and `Relock`. `ImplementsPromise` is
`WaitGroupSpec` under the mapping `pending <- Outstanding`.

### TracingContext

One context, its owner thread, and one thread per AsyncSpan. The WaitGroup
appears through its promise (`WG!Add`, `WG!Done`, `WG!Return`), which
`WaitGroup` is proved to keep.

| Code | Action |
|---|---|
| `create_entry_span[_with_propagation]`, `create_local_span`, `create_exit_span[_with_peer]` | `CreateEntrySpan`, `CreateEntrySpanWithPropagation`, `CreateCommonSpan` |
| `continued` | `Continued` |
| `add_tag` through `span_object_mut` | `AddTag` |
| `Drop for Span` → `finalize_span` | `DropInactive` (panic), `DropSpan` then `FinalizePush`, `DropContended` (panic) |
| `prepare_for_async` | `PrepareInactive`, `PrepareForAsync` then `FinalizePush`, `PrepareContended` |
| `Drop for AsyncSpan` → `finalize_async_span`, `wg.done()` | `AsyncUpgrade`, `AsyncLock` or `AsyncContended`, `AsyncWrite`, `AsyncDone` |
| `last_span` | `LastSpan`, `LastSpanEnd` |
| `wait` | `Wait`, `WaitReturn`, then `DropContext` |
| `Drop for TracingContext` → `finalize_context` → `convert_to_segment_object` | `DropContext`, `Convert` |

Whatever runs under the lock is between two actions, so the try-lock of another
thread can fail in between. A panic of the owner sets `mode` to `"unwinding"`:
the locals are dropped youngest first, then the context; a panic while unwinding
sets `"aborted"`. `UserPanic` is a panic of the caller's own code, `DropTracer`
the loss of the last Tracer.

A `SpanObject` keeps its ids, its references (named by the header or the
snapshot they were built from), a number of tags and whether it has ended.
`given` is a history variable with what the user gave to each span.

### CollectLoop, GrpcReporter, KafkaReporter

`CollectLoop` is what both reporters do alike. `report()` is two actions, `Check`
reads `is_closing` and `Produce` sends. The task is `Spawn`, `Consume`,
`LeaveLoop`, `StoreClosing`, `FlushEnd`, `Finish`; `Finish` drops the receiving
end with whatever is still in it. `fate` says where each item is or what became
of it; `produced` and `late` are history. `QueueBound` chooses the channel: 0 is
the unbounded one of `GrpcReporter::new`; with a bound, `Produce` waits for room
(`blocking_send`) and is refused when the receiver goes, and in a thread that
runs async tasks (`AsyncItems`) it panics (`ProducePanics`). That `report()` waits
at all contradicts its documentation (`report_blocks`, section 3).

`GrpcReporter` extends it: `TrySend` into the bounded channel of the kind,
`Manage` for the awaited management calls, and per kind a streaming task:
`StartStream`, `PollItem`, `PollClosed`, `PollTimeout`, `CollectOk`,
`CollectErr`. tonic and the server are external: a call can fail at any time,
before or after it has polled the stream.

`KafkaReporter` extends it too: `SendOk` and `SendErr` on the topic of the item's
variant, awaited before the next item is consumed. librdkafka is external.

### Metricer

Meters and the Metricer together, because what matters is how they overlap:
`Increment`, by any amount, and `AddValue` in any thread; `Register`,
`SetReportInterval`, `Boot`; a round of reports (`ReportIncrement`, `ReadRate` then
`ReportRate`, `ReportGauge` or `GetterPanics`, `LoadBucket` per bucket then
`ReportHistogram`, `EndRound`); `Tick`, `Stop`, `Shutdown`, `DropBooting`.
`Advance` is the call of the reporter, which goes on to the next meter or panics
and so ends the round, as a getter can. `SortDedup` is what the constructor of a
histogram does to its steps, `FindBucket` the binary search. `reported`, `snapshot`,
`shrunk` (counters given a negative amount) and `added` are history.

### TraceLinks

Several contexts that run in any interleaving, and what they hand to one another.
`SendHeader` encodes a header, `CreateEntrySpanWithPropagation` decodes and uses
one, as often as the user likes and in any context; `Capture` makes a snapshot
and `Continued` uses it up, `ContextSnapshot` not being `Clone`. A log record is
built by `WithTracingContext` and `WithSpan`, at any time, in any order and from
different contexts, and `Log` writes it, with a trace context if both were called.
`CreateSpan`, `CloseSpan` and
`DropContext` are reduced to what links need: spans are closed in their turn and
the tracer exists, since `TracingContext` treats the rest.

A header is the sequence of pieces that `split('-')` makes of it. Base64 text has
no `-` and is one piece, a number is one piece, but the sign of a negative number
is a separator too. `Decodes` and `Decode` are the checks and the value of
`decode_propagation`; `Foreign` are headers made elsewhere, malformed ones
included. The history variables say which contexts have handed out their trace
id (`shared`), changed it afterwards (`relinked`), and what they took over
(`adopted`); a record is `stale` if its context changed its trace id between
`with_tracing_context` and `log`. A reference leaves out the endpoint and the address, which are
copied along; service and instance are kept, because `continued` writes those of
its own tracer.

### Manager

`report_and_keep_alive` spawns a task that waits for a tick and then either pings
(`BeatPing`) or calls the closure (`BeatBuild`), which builds its Properties call
by call (`Insert`, `Update`, `Remove`, `InsertOsInfo`) and is reported
(`BeatReport`). The closure or the reporter may panic (`TaskPanics`); the handle
may be dropped, awaited or used to abort the task, which takes effect at the
await (`Cancelled`). `ReportProperties` and `KeepAlive` are the direct calls. The
Properties are values per key; the order of the keys is the HashMap's, and is left
out. `since` and `ops` are history.

### MC modules and proofs

Each `MC*` module gives the constants of one model; a `.cfg` picks one instance.
`*Proofs` modules hold the theorems. Definitions marked "Defect" next to an
action are wrong variants of it, one for each property, that the property must
reject when they are put in its place.

## 3. Runs

| Run | Distinct states | What it shows |
|---|---|---|
| `wait_group` | 950 | With four members, the counter is the number of members outstanding, no wakeup is lost under spurious ones, `WaitGroupSpec` is implemented, `wait()` returns. |
| `tracing_context` | 42 946 | Three spans in every order and thread. After `wait()` the segment is complete; every report holds exactly the recorded spans, each once and ended, and no unfinished one; a parent encloses its children; the youngest span held is the active one, so dropping in reverse order never panics; a context never goes with neither a segment nor a panic; a panic unwinds without a second one as long as the Tracer exists, spans were used in turn and no AsyncSpan is unfinished; entries keep their position; `wait()` returns unless an AsyncSpan's drop panicked. |
| `span_data` | 651 576 | Two spans with a tag, a propagation header and two snapshots: what was given is what is reported, also across `prepare_for_async`. |
| `grpc_reporter` | 250 338 | Two traces and a management item, channels of one slot, the streams of two kinds: no item is in two places or delivered twice, order is kept per kind, an item is lost without an error only in the race described below, and a streaming task ends only with nothing left. All tasks end after the shutdown signal and after the last reporter is gone, with a server that is reached now and then. |
| `kafka_reporter` | 256 617 | One item of every variant through a bounded channel of one slot, one of them reported inside the runtime: items are sent in the order reported, all are settled when the task ends, it ends, and a `report()` that waits for room does not wait for ever. |
| `metricer` | 189 561 | Rates add up, whatever the sign of the increments; buckets are exact; reports never go back unless a counter was given a negative amount; what is counted is reported, after a round that panicked by a later one; the task ends. |
| `trace_links` | 1 162 789 | Two contexts, two spans each, two links or calls on a log record, and headers from elsewhere: a header decodes to what was encoded; nothing is linked to a malformed header; a reference names a span its parent created, and its service; segment, parent and log agree on the trace id unless the user linked too late or twice. |
| `manager` | 493 747 | Factors 0, 1 and 3: properties on the first and every factor-th beat; what is reported is what the closure's calls add up to; the beats go on until an abort or a panic, an abort is obeyed, and an awaited handle tells of both. |

Four runs expect a violation. Each states what a doc or a test says and shows
that the code does something else:

* `wait_hang`: `wait()` is documented to wait until the async spans are dropped.
  Two AsyncSpans dropped at the same moment contend for the try-lock; the loser
  panics before `wg.done()` (`trace/span.rs:248`), and `wait()` never returns.
* `grpc_unreachable`: "Quit when shutdown_signal received" (`reporter/grpc.rs:387`).
  While the server cannot be reached each call fails before it polls the stream,
  so `is_closed` is never set and the streaming tasks call again for ever.
* `report_blocks`: "Report provide non-blocking report method", "Produce the collect
  item non-blocking" (`reporter/mod.rs:69`, `:101`). The producer of a bounded
  channel calls `blocking_send` (`reporter/mod.rs:113`): a full channel makes
  `report()` wait. `WaitForRoomEnds`, checked by `kafka_reporter`, says that this
  wait has an end.
* `metricer_dropped`: `boot()` "will be run in background", and the end-to-end
  program ignores what it returns; but dropping that handle ends the task.

Other behaviour of the code worth knowing, which the models have as it is:

* The documented panic of `prepare_for_async` drops `self`, which is not the active
  span, so its drop panics again and the process aborts (`PrepareInactive`, then
  `DropInactive`).
* A keep-alive ping goes to Kafka's topic of the logs (`TopicOf`), whose messages the
  end-to-end test decodes as logs.
* A header encoded without an active span names span 0, whether there is one or not.
  Without an active span `continued` takes over the trace id and keeps no reference.
* `continued` does not ask `is_from_current`: a context can refer to itself. It
  writes the service of its own tracer, also when the snapshot came from a context
  of another.
* A context that is linked after it has handed its own trace id out splits the
  trace: its children, and a log record that took the id before, keep the old one.
  `TraceIdsAgree` says this, and linking one context to two traces, are the only ways.
* A panic in the caller's code while an AsyncSpan is unfinished aborts the process:
  unwinding drops the context, whose conversion panics again (`trace_context.rs:440`).
  `UnwindingIsSafe` excuses this, a lost Tracer and spans used out of turn, and says
  that there is no other way.
* A reporter that panics in a round of the Metricer loses what it was given: the
  counter of a RATE meter was swapped before, so that difference is not reported
  again. In the model such a value counts as handed to the reporter.
* A meter displaced by another of its id is reported no more, and its owner is not told.
* `do_sample` is decoded and read nowhere.
* `report_and_keep_alive` treats a factor of 0 as 1, and its handle, unlike the one of
  `Metricer::boot`, may be dropped.

The race of `LostOnlyInRace`: `report()` reads `is_closing`, the loop sets it,
flushes and looks at the queue for the last time, and only then the item is sent.
It is dropped with the queue and nobody is told. The property says this is the
only way; everything sent before `is_closing` was set is dealt with.

### Bounds

* `MaxSpans` 3: two AsyncSpans contend while the owner holds a third span; a span
  dropped out of order has one before and one after it. `MaxTags` 1 and two
  snapshots in the data run: enough to lose a tag, to overwrite a snapshot, and
  to take the wrong one.
* `Members` 4: several outstanding while the owner sleeps.
* `Capacity` 1 with two items of a kind: a full channel, an empty one, an item on
  a call with another behind it. The second kind gets no item and has to end too;
  kinds meet only in the loop and the queue.
* `MaxCount` 1, the amounts 1 and -1 for the RATE counter and 1 for the other: an
  increment before, between and after the two steps of a report, and one that is
  taken back. `MaxAdds` 1: a value below, between or on the steps, before, between
  and after the loads of the buckets. The properties speak about one bucket and one
  counter at a time, and are proved for any number of values and any amounts.
* Five items and `QueueBound` 1 for Kafka: one is served, one is queued, others wait
  for room when the task ends.
* Two contexts of two spans and two headers, snapshots or calls on a log record among
  them (`MaxGiven`), next to the headers from elsewhere: chains from elsewhere over one context to the other, links
  to oneself and in a circle, a parent relinked before and after. The contexts are
  symmetric.
* `MaxCalls` 3 on a key that `insert_os_info` uses too, with two addresses and no
  host name: every order of three calls.
* Deadlock is not checked: every one of these programs may come to rest when the
  user has nothing more to do. The temporal properties say what may not come to rest.

### Fairness

* A thread inside an operation goes on (weak fairness of its next step). Every
  AsyncSpan handed out is dropped in the end. Nothing forces the user to call
  anything.
* `DoneLock` is strongly fair: a member blocked in `Mutex::lock` gets the mutex
  even if the owner, waking spuriously, takes it again and again.
* `LeaveLoop` and the Metricer's `Stop` are strongly fair: `tokio::select!` picks a
  random branch first, so a branch that stays ready is taken although the other
  one is ready too.
* The heartbeat task is polled: a tick falls due, the closure returns or panics, an
  abort is noticed, an awaited handle is polled. `BeatsGoOn` needs no more.
* `CountsAreReported` assumes no more of the user's getters and reporter than that
  the meters before the counter do not panic for ever (`<>[]~CutBefore`).
* `Reachable` (only in `grpc_reporter`): a call tried again and again polls its stream
  now and then. This is an assumption about the network, not about the code, and
  `grpc_unreachable` shows what happens without it.

## 4. Proofs

Eight modules are proved with TLAPS for every value of their constants. Every
safety property of the runs that expect to pass, invariant or action property, is
a theorem of the specification the run checks.

**WaitGroupProofs** (assumes `MembersAssumption`: finitely many members, distinct
from the owner and from "no thread"). The inductive invariant adds `MutexHeld` to
the types, `CountIsOutstanding` and `NoLostWakeup`: without it two threads could
be in their critical sections and the decrement of one would be invisible to the
test of the other. Cardinality facts turn `count = 0` into
`Outstanding = {}`, which is what the refinement (`PromiseKept`) needs when
`wait()` returns.

**TracingContextProofs** (assumes `ConstantsAssumption`: natural bounds, a
`None` that is not a value, and headers that are not snapshots). `WaitedContextIsComplete` and `ReportIsExact` are not
inductive. The invariant adds that uids are handed out once (`UnbornNew`), that a
handle to be finalized holds its own object (`HandleHasObj`), that what
`finalize_span` is about to push belongs to a span still held (`ClosingIsHeld`),
that an entry of the stack belongs to one span and tells its state
(`EntriesOnce`, `EntriesTellState`): an entry without an object is known to the
WaitGroup; that every span closed or prepared has its entry while the context
exists (`HasEntry`); and that waiting and dropping come once (`ContextOnce`).
When `wait()` has returned `pending` is empty, so no entry is without an object
(`WaitCorrect`). When a segment is reported every entry has an object, the
entries are the recorded spans by `HasEntry` and `EntriesTellState`, each once by
`EntriesOnce` (`ReportCorrect`), and no AsyncSpan is unfinished
(`FinishedCorrect`). `ReportOnce` (no segment before the context goes, no conversion
in an aborted process) gives the rest of `ReportCorrect`: only a report or a panic
ends a context.

Three more invariants stand on this one. `Effects` first sorts the steps by what
they do to the spans (`Quiet`, `Opened`, `Popped`, `Pushed`, `Filled`,
`Converted` and a few more), so each invariant is kept by effect rather than by
action:

* `SpansInv`: the active stack holds exactly the spans still held, or used out of
  turn, in the order of their uids (`StackInv`); the lock is held where the owner
  or an AsyncSpan is between two steps (`LockInv`); a span inside a
  `prepare_for_async` that panicked is dropped before the context is (`MovedInv`).
  The youngest span held is then on top (`YoungestCorrect`), which unwinding relies
  on (`UnwindingCorrect`). `PositionsCorrect` follows from the effects alone, with
  `EntriesOnce`.
* `ParentInv`: the parent of a span is the one below it for as long as it is on the
  stack, is the new top when it is popped, and so is recorded after it if at all
  (`ParentsCorrect`).
* `GivenInv`: where the tags and the snapshot of a span are at each moment, in the
  object its handle carries, in its active entry, in an entry without an object
  that waits for the AsyncSpan, or in the segment (`GivenCorrect`).

**CollectLoopProofs** (assumes `ItemsAssumption`) is what both reporters rest on, and
states no theorem of its own, since the loop runs only inside them. `LoopInv` says
that the queue, the item at hand and the history agree with the fates, that
`is_closing` is set in exactly the phases after `StoreClosing`, and that in the
phase `ending`, after the last look at the queue, whatever is queued was checked
before and sent after that (`ClosingInv`): this is what `LostOnlyInRace` needs when
`Finish` drops the queue. The lemmas about order (`KeepsOrder`, `Before`) say that
appending to both sides, dropping a stretch and moving an item between neighbouring
stages keep it.

**GrpcReporterProofs** (assumes `CapacityAssumption`: a channel has room for at
least one item). `OnePlace` and `OrderKept` are proved together with the
types: the stages of a kind form one sequence, from what was delivered over the
call and the channel to the hand of the loop and the queue, in which each step
appends at the end, drops a stretch, or moves a boundary. A failed call drops the
stretch in the middle. `RxInv` relates `is_closed` to the channel: it is set only
when the sender is gone and the channel empty, and the task returns only then
(`DrainedCorrect`).

**KafkaReporterProofs** (assumes `KindAssumption`: every item is of a variant). The same with one stage less: `SentInv` says that what was
sent is what was acknowledged, and that no item has a fate that only the gRPC
reporter gives. `SettledCorrect` follows from it, from `LoopInv` and from the loop
having nothing at hand when it has ended.

**MetricerProofs** (assumes `MetersAssumption`). The invariant adds to `RatesAddUp`
what the task has in hand: it was read from the meter it is at (`GotHasMeter`), is
not above the present count and not below the last report (`GotIsOld`), and what
was reported was counted (`ReportedIsCounted`). With it the swap of a RATE
counter adds exactly the difference (`RatesCorrect`), and no report goes back
(`GrowthCorrect`); what is said about growth is said of counters that were given no
negative amount. `BucketsCorrect` is about any steps, in any order and with
repetitions: `SortDedup` puts each at its rank among them, ranks grow with the steps
and leave none out (`Ranks`, from the cardinality of finite sets), so the steps
ascend (`StepsAscend`); in ascending steps the segment below a value is an initial
one, which is why `FindBucket` finds the one bucket that `InBucket` describes.

**ManagerProofs** (assumes `ManagerAssumption`: factors and the bound are natural
numbers, the addresses a sequence). `PropertiesEveryFactor` speaks about beats, the code about a counter:
`CounterTellsBeats` says that the counter is the number of beats since the last
report of the properties, or 0 when they are due, and `BuildingIsDue` that the
closure runs only then. The edge cases (0, 1, the wrap) are in `CounterWraps`.
`BuiltCorrect` compares two views of the closure's calls. The code keeps values per
key and changes them call by call; `ReportedAsBuilt` looks back at all calls and
asks which are still visible. `BuiltInv` says that both agree after every call, and
that there is an entry exactly if a call is visible, which decides what an update
does. Inserts put positions behind the visible ones (`InsertsAreSeen`, from
`ValuesAtConcat`: the values at positions of a concatenation are those of its
parts), update and remove leave one or none (`ClearsAreSeen`), and a call changes
no other key (`OthersAreSeen`).

**TraceLinksProofs** (assumes `LinksAssumption`: natural bounds, at least one span,
and no foreign header names a context of ours; segment ids are random). A link is
made from one context and used by another, later. What stays true of it in between
is the invariant's `Linked` (the parent handed its trace id out and still has it,
unless it was relinked) and `HasSpan` (the parent has created that span): `LinksOK`
says it of headers, snapshots, the log record being built and logs, `RefsKept` of every reference a
context keeps, and `SpansKept` turns "has created" into "reported or left open"
when the context is dropped. `Grows` collects what no step takes back; every action
satisfies it, so `Combine` asks of an action only about the links it makes
and the context it changes. `EncodeDecodes` is the argument for `HeadersCorrect`:
the span id is never negative, so a header has exactly eight pieces.

Only model-checked, because the prover treats neither fairness nor ENABLED: the
liveness properties `WaitReturns`, `WaitReturnsUnlessPanicked`, `QuitOnShutdown`,
`QuitWithoutReporters`, `WaitForRoomEnds`, `CountsAreReported`, `TaskEnds` and
`BeatsGoOn`. For them the bounds of section 3 are what the result rests on.

## 5. Not modelled, and why

* `Span` is `Send`; the model drops Spans on the owner thread only. AsyncSpan is
  the type the docs give for other threads.
* User-defined `CollectItemProduce`/`CollectItemConsume`; `set_global_tracer` and
  `set_global_logger`, each a cell that is set once.
* Time, tags and content of a log record, which are passed through.
* Logs inside spans and span attributes, which are pushed or assigned the way tags
  are; NaN among the steps or values of a histogram.
* The panic of a second `reporting()` (`grpc.rs:181`): it happens in the caller and
  leaves the reporter as it was.
* A server that answers a streaming call with success before the stream has ended
  (`CollectOk` is the answer after the end, as the OAP server gives it).
* What the server got of a call that failed: it is not known to the client, and
  such items count as failed.
* The gRPC interceptor and authentication, TLS, the configuration of Kafka, the
  print reporter, formatting, errors, clock and UUIDs: no control to check.
* `ReceiveFrom`'s `try_lock().unwrap()`, which depends on when tonic drops the
  body of a failed call.

## 6. Plan

Done, in this order: `WaitGroupSpec`, `WaitGroup` and its refinement proof;
`TracingContext`, its runs and proofs; `CollectLoop`, `GrpcReporter`,
`KafkaReporter`; `Metricer` and its proofs; the bounded channel; `TraceLinks`
and its proofs; `Manager` and its proofs.

Then the proofs of the collect loop and of both reporters, of the remaining
properties of `TracingContext`, of the buckets of a histogram and of the Properties.

Next: the parts of the liveness arguments that are not temporal (no reachable state
in which the task of a reporter, the owner in `wait()` or the Metricer's task has
work and no step), as invariants; the refinement of one shared specification of a
reporter by both of them.
