------------------------------ MODULE Manager ------------------------------
(***************************************************************************)
(* The Manager (src/management/manager.rs): instance properties and pings  *)
(* reported on request, and by the task of report_and_keep_alive on every  *)
(* heartbeat; and the Properties its closure builds anew each time         *)
(* (src/management/instance.rs).                                           *)
(*                                                                         *)
(* Time is left out: a tick is due sooner or later. Reporting may panic (a *)
(* bounded channel's blocking_send does, inside the runtime), and so may   *)
(* the closure. The order of the keys in a report is the HashMap's; a      *)
(* report keeps the values of each key in their order.                     *)
(***************************************************************************)
EXTENDS Integers, Sequences, FiniteSets

CONSTANTS Keys, Values,    \* what the user inserts
          OsName, HostName, \* the system's answers, None if it has none
          Ips,             \* the IPv4 addresses, a sequence
          ProcessNo,
          Factors,         \* values of properties_report_period_factor
          UserProperties,  \* Properties given to report_properties
          MaxCalls,        \* bound: calls of the closure on one Properties
          None

ASSUME ManagerAssumption ==
  /\ Factors \subseteq Nat /\ MaxCalls \in Nat
  /\ Ips \in Seq({Ips[i] : i \in DOMAIN Ips})

VARIABLES
  task,      \* "none", "ticking" (at the await), "building" (in the closure),
             \* and how it ended: "panicked", "aborted"
  counter, factor,
  handle,    \* ReportAndKeepAlive: "none", "held", "awaited", "joined", "dropped"
  abort,     \* was the task aborted through its JoinHandle?
  inner,     \* the Properties of the closure
  item,      \* what the reporter was given last, and by whom
  \* history
  since,     \* beats since the properties were reported, that one included
  ops, calls \* what the closure did to its Properties, in order and in calls

taskVars == <<task, counter, factor>>
handleVars == <<handle, abort>>
buildVars == <<inner, ops, calls>>

vars == <<taskVars, handleVars, buildVars, item, since>>

OsKeys == {"OS Name", "hostname", "ipv4", "Process No.", "language"}
AllKeys == Keys \union OsKeys

------------------------------------------------------------------------------
(* Properties. The HashMap has no key without a value: <<>> is no entry.   *)

Empty == [k \in AllKeys |-> <<>>]

InsertIn(p, k, v) == [p EXCEPT ![k] = Append(@, v)]

\* Defect: a key without an entry gets one.
UpdateInserts(p, k, v) == [p EXCEPT ![k] = <<v>>]

UpdateIn(p, k, v) == [p EXCEPT ![k] = IF @ = <<>> THEN @ ELSE <<v>>]

RemoveIn(p, k) == [p EXCEPT ![k] = <<>>]

Optional(k, v) == IF v = None THEN <<>> ELSE <<[key |-> k, value |-> v]>>

BuildOsInfo ==
  Optional("OS Name", OsName) \o Optional("hostname", HostName)
  \o [i \in DOMAIN Ips |-> [key |-> "ipv4", value |-> Ips[i]]]
  \o Optional("Process No.", ProcessNo) \o Optional("language", "rust")

\* The values of s at the positions I, in their order.
ValuesAt(s, I) ==
  [r \in 1 .. Cardinality(I) |->
     s[CHOOSE i \in I : Cardinality({j \in I : j < i}) = r - 1].value]

\* insert_os_info: every pair is inserted, in order.
InsertAll(p, pairs) ==
  [k \in AllKeys |-> p[k] \o ValuesAt(pairs, {i \in DOMAIN pairs : pairs[i].key = k})]

\* convert_to_instance_properties
Convert(p) == [k \in {k \in AllKeys : p[k] # <<>>} |-> p[k]]

------------------------------------------------------------------------------

Init ==
  /\ task = "none" /\ counter = 0 /\ factor = 0
  /\ handle = "none" /\ abort = FALSE
  /\ inner = Empty /\ ops = <<>> /\ calls = 0
  /\ item = None /\ since = 0

Instance(p, by) == [kind |-> "Instance", by |-> by, properties |-> Convert(p)]
Ping(by) == [kind |-> "Ping", by |-> by]

\* report_properties and keep_alive, called by the user at any time.
ReportProperties(p) ==
  /\ item' = Instance(p, "user")
  /\ UNCHANGED <<taskVars, handleVars, buildVars, since>>

KeepAlive ==
  /\ item' = Ping("user")
  /\ UNCHANGED <<taskVars, handleVars, buildVars, since>>

\* The task is spawned; time::interval panics on a period of zero.
ReportAndKeepAlive(n, period) ==
  /\ task = "none"
  /\ task' = IF period = "zero" THEN "panicked" ELSE "ticking"
  /\ counter' = 0 /\ factor' = n
  /\ handle' = "held"
  /\ UNCHANGED <<abort, buildVars, item, since>>

\* Defect: one beat too many.
NextCounterLate == IF counter + 1 > factor THEN 0 ELSE counter + 1

\* The counter after a beat.
NextCounter == IF counter + 1 >= factor THEN 0 ELSE counter + 1

\* A tick with counter # 0. A task that was aborted is not polled any more.
BeatPing ==
  /\ task = "ticking" /\ ~abort /\ counter # 0
  /\ item' = Ping("task")
  /\ counter' = NextCounter
  /\ since' = since + 1
  /\ UNCHANGED <<task, factor, handleVars, buildVars>>

\* A tick with counter = 0: the closure starts on new Properties.
BeatBuild ==
  /\ task = "ticking" /\ ~abort /\ counter = 0
  /\ task' = "building"
  /\ inner' = Empty /\ ops' = <<>> /\ calls' = 0
  /\ UNCHANGED <<counter, factor, handleVars, item, since>>

\* The closure returns, its Properties are reported.
BeatReport ==
  /\ task = "building"
  /\ item' = Instance(inner, "task")
  /\ task' = "ticking"
  /\ counter' = NextCounter
  /\ since' = 1
  /\ inner' = Empty
  /\ UNCHANGED <<factor, handleVars, ops, calls>>

\* One operation of the closure, with what it adds to the history.
Build(p, done) ==
  /\ task = "building" /\ calls < MaxCalls
  /\ calls' = calls + 1
  /\ inner' = p
  /\ ops' = ops \o done
  /\ UNCHANGED <<taskVars, handleVars, item, since>>

Op(name, k, v) == [op |-> name, key |-> k, value |-> v]

Insert(k, v) == Build(InsertIn(inner, k, v), <<Op("insert", k, v)>>)
Update(k, v) == Build(UpdateIn(inner, k, v), <<Op("update", k, v)>>)
Remove(k) == Build(RemoveIn(inner, k), <<Op("remove", k, None)>>)

InsertOsInfo ==
  Build(InsertAll(inner, BuildOsInfo),
        [i \in DOMAIN BuildOsInfo |->
           Op("insert", BuildOsInfo[i].key, BuildOsInfo[i].value)])

\* The closure panics, or the reporter does: the task ends.
TaskPanics ==
  /\ \/ task = "building"
     \/ task = "ticking" /\ ~abort /\ counter # 0
  /\ task' = "panicked"
  /\ UNCHANGED <<counter, factor, handleVars, buildVars, item, since>>

\* handle().abort(), also through an AbortHandle taken before it is awaited.
Abort ==
  /\ handle \in {"held", "awaited"}
  /\ abort' = TRUE
  /\ UNCHANGED <<taskVars, handle, buildVars, item, since>>

\* The abort takes effect at the await.
Cancelled ==
  /\ task = "ticking" /\ abort
  /\ task' = "aborted"
  /\ UNCHANGED <<counter, factor, handleVars, buildVars, item, since>>

\* The handle is a future: the user awaits it, and it resolves with the task.
AwaitHandle ==
  /\ handle = "held"
  /\ handle' = "awaited"
  /\ UNCHANGED <<taskVars, abort, buildVars, item, since>>

Join ==
  /\ handle = "awaited" /\ task \in {"panicked", "aborted"}
  /\ handle' = "joined"
  /\ UNCHANGED <<taskVars, abort, buildVars, item, since>>

\* Defect: a dropped handle ends the task.
DropHandleEnds ==
  /\ handle = "held"
  /\ handle' = "dropped"
  /\ task' = IF task = "ticking" THEN "aborted" ELSE task
  /\ UNCHANGED <<counter, factor, abort, buildVars, item, since>>

\* A dropped JoinHandle detaches the task.
DropHandle ==
  /\ handle = "held"
  /\ handle' = "dropped"
  /\ UNCHANGED <<taskVars, abort, buildVars, item, since>>

TaskStep == BeatPing \/ BeatBuild \/ BeatReport \/ Cancelled

Next ==
  \/ \E p \in UserProperties : ReportProperties(p)
  \/ KeepAlive
  \/ \E n \in Factors, period \in {"zero", "positive"} : ReportAndKeepAlive(n, period)
  \/ TaskStep
  \/ \E k \in Keys, v \in Values : Insert(k, v) \/ Update(k, v)
  \/ \E k \in Keys : Remove(k)
  \/ InsertOsInfo
  \/ TaskPanics
  \/ Abort \/ AwaitHandle \/ Join \/ DropHandle

\* Ticks fall due, the closure returns, and the runtime polls what is ready.
Fairness == WF_vars(BeatPing) /\ WF_vars(BeatBuild) /\ WF_vars(BeatReport)
            /\ WF_vars(Cancelled) /\ WF_vars(Join)

Spec == Init /\ [][Next]_vars /\ Fairness

------------------------------------------------------------------------------
(* Properties                                                              *)

\* Beats from one report of the properties to the next; a factor of 0 acts as 1.
Every == IF factor = 0 THEN 1 ELSE factor

TypeOK ==
  /\ task \in {"none", "ticking", "building", "panicked", "aborted"}
  /\ counter \in Nat /\ factor \in Nat /\ counter < Every
  /\ handle \in {"none", "held", "awaited", "joined", "dropped"}
  /\ abort \in BOOLEAN
  /\ inner = [k \in AllKeys |-> inner[k]] /\ calls \in 0 .. MaxCalls
  /\ since \in 0 .. Every

\* "agent sends the instance properties to the backend every heartbeat_period *
\* properties_report_period_factor seconds": the properties on the first beat
\* and on every factor-th after it, a ping on the others.
PropertiesEveryFactor ==
  [][/\ BeatBuild => since \in {0, Every}
     /\ BeatPing => since \in 1 .. (Every - 1)]_vars

\* Was there an entry for the key after the first n operations?
Existed(k, n) ==
  \E i \in 1 .. n :
    /\ ops[i].op = "insert" /\ ops[i].key = k
    /\ \A j \in i .. n : ~(ops[j].op = "remove" /\ ops[j].key = k)

\* The operations whose value is still there: those on the key, after the last
\* one that removed or overwrote its values.
Visible(k) ==
  {i \in DOMAIN ops :
     /\ ops[i].key = k
     /\ ops[i].op = "insert" \/ (ops[i].op = "update" /\ Existed(k, i - 1))
     /\ \A j \in DOMAIN ops : j > i /\ ops[j].key = k => ops[j].op = "insert"}

\* What the reporter gets on a properties beat is what the closure's calls add
\* up to: inserted values pile up, an update leaves one value and makes no key,
\* a removed key is gone, with the system's own keys treated alike; and nothing
\* is left over from the beat before.
ReportedAsBuilt ==
  item # None /\ item.kind = "Instance" /\ item.by = "task" /\ task = "ticking" =>
    /\ DOMAIN item.properties = {k \in AllKeys : Visible(k) # {}}
    /\ \A k \in DOMAIN item.properties :
         item.properties[k] = ValuesAt(ops, Visible(k))

\* The task runs in the background for good: whether the handle is kept, awaited
\* or dropped, the properties are built again and again, until the task is
\* aborted or panics. The beats never stop unseen by who awaits the handle: it
\* resolves after an abort, which is obeyed, and after a panic in the task.
BeatsGoOn ==
  /\ task = "ticking" ~> task = "building" \/ abort \/ task = "panicked"
  /\ handle = "awaited" /\ (abort \/ task = "panicked") ~> handle = "joined"

==============================================================================
