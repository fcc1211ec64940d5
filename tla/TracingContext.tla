---------------------------- MODULE TracingContext ----------------------------
(***************************************************************************)
(* One TracingContext, the Spans it creates and the AsyncSpans made from   *)
(* them (src/trace/trace_context.rs, span.rs, and the reporting end of     *)
(* tracer.rs).                                                             *)
(*                                                                         *)
(* The owner thread creates spans, drops them, prepares them for async,    *)
(* waits and drops the context. Every AsyncSpan is dropped by a thread of  *)
(* its own. They share the `finalized` stack, whose lock is only ever      *)
(* tried: whoever finds it taken panics. A panic on the owner thread       *)
(* unwinds it, which drops what it still holds, and a second panic while   *)
(* unwinding aborts the process.                                           *)
(*                                                                         *)
(* A SpanObject keeps the fields that the properties tell apart. A segment *)
(* reference, and the trace id that comes with it, is named by the         *)
(* propagation header or the snapshot it was built from. An operation name *)
(* is named by the uid of its span.                                        *)
(***************************************************************************)
EXTENDS Integers, Sequences

CONSTANTS MaxSpans,    \* bound: spans created in the context
          MaxTags,     \* bound: tags added to one span
          Props,       \* decoded PropagationContexts
          Snapshots,   \* valid ContextSnapshots of other contexts
          OwnTrace,    \* the trace id the context was generated with
          None

Uids == 0 .. (MaxSpans - 1)

Refs == Props \union Snapshots

SpanObject ==
  [span_id : Uids, parent_span_id : Uids \union {-1}, refs : Seq(Refs),
   tags : 0 .. MaxTags, ended : BOOLEAN]

ActiveSpan == [uid : Uids, span_id : Uids, ref : Snapshots \union {None}]

FinalizeSpan ==
  [uid : Uids, obj : SpanObject \union {None}, ref : Snapshots \union {None}]

Segment == [trace_id : Refs \union {OwnTrace}, spans : Seq(SpanObject)]

ASSUME ConstantsAssumption ==
  /\ MaxSpans \in Nat /\ MaxTags \in Nat
  /\ Props \cap Snapshots = {}
  /\ None \notin SpanObject /\ None \notin Snapshots
  /\ None \notin FinalizeSpan /\ None \notin Segment

VARIABLES
  \* the TracingContext and its SpanStack
  trace_id, next_span_id, span_uid_generator, primary_endpoint_name,
  active, finalized,
  lock,       \* RwLock of `finalized`: "free", or held by "owner" or "async"
  \* the WaitGroup, through its promise: outstanding members, wait() returned
  pending, waited,
  \* the handles
  state,      \* where each Span or AsyncSpan is
  obj,        \* the SpanObject inside the handle, None once taken
  \* the owner thread
  at,         \* the operation it is inside
  mode,       \* "normal", "unwinding", or the process is "aborted"
  closing,    \* the FinalizeSpan that finalize_span is about to push
  ctx,        \* does the context still exist?
  \* the rest of the program
  tracer,     \* does the Tracer still exist?
  segment,    \* what was reported, None before
  given       \* history: what the user gave each span: link, the last snapshot
              \* continued while it was active, and the number of tags

ctxVars == <<trace_id, next_span_id, span_uid_generator, primary_endpoint_name>>
stackVars == <<active, finalized, lock>>
wgVars == <<pending, waited>>
handleVars == <<state, obj>>
ownerVars == <<at, mode, closing, ctx>>
outVars == <<tracer, segment>>

vars == <<ctxVars, stackVars, wgVars, handleVars, ownerVars, outVars, given>>

WG == INSTANCE WaitGroupSpec WITH Members <- Uids, returned <- waited

\* "open" a Span, "moved" into a prepare_for_async that panics; "closed"
\* finalized. "async" an AsyncSpan; its drop goes
\* through "upgraded", "writing" and "written" to "done", or "panicked". "lost"
\* was dropped in its turn and not recorded, "misused" was dropped or prepared
\* out of turn, "leaked" is an AsyncSpan that is never dropped.
States == {"new", "open", "moved", "closed", "async", "upgraded", "writing", "written",
           "done", "panicked", "lost", "misused", "leaked"}

Points == {"run", "finalizing", "reading", "waiting", "waited", "converting"}

TypeOK ==
  /\ trace_id \in Refs \union {OwnTrace}
  /\ next_span_id \in 0 .. MaxSpans
  /\ span_uid_generator \in 0 .. MaxSpans
  /\ primary_endpoint_name \in Uids \union {-1}
  /\ active \in Seq(ActiveSpan)
  /\ finalized \in Seq(FinalizeSpan)
  /\ lock \in {"free", "owner", "async"}
  /\ pending \in SUBSET Uids /\ waited \in BOOLEAN
  /\ state \in [Uids -> States]
  /\ obj \in [Uids -> SpanObject \union {None}]
  /\ at \in Points
  /\ mode \in {"normal", "unwinding", "aborted"}
  /\ closing \in FinalizeSpan \union {None}
  /\ ctx \in BOOLEAN /\ tracer \in BOOLEAN
  /\ segment \in Segment \union {None}
  /\ given \in [Uids -> [link : Snapshots \union {None}, tags : Nat]]

Init ==
  /\ trace_id = OwnTrace
  /\ next_span_id = 0 /\ span_uid_generator = 0 /\ primary_endpoint_name = -1
  /\ active = <<>> /\ finalized = <<>> /\ lock = "free"
  /\ WG!Init
  /\ state = [u \in Uids |-> "new"] /\ obj = [u \in Uids |-> None]
  /\ at = "run" /\ mode = "normal" /\ closing = None /\ ctx = TRUE
  /\ tracer = TRUE /\ segment = None
  /\ given = [u \in Uids |-> [link |-> None, tags |-> 0]]

Top == active[Len(active)]

IsActive(u) == active # <<>> /\ Top.uid = u

\* Defect: the span created last is the parent, closed or not.
PeekLastCreated == next_span_id - 1

\* peek_active_span_id().unwrap_or(-1)
PeekActiveSpanId == IF active = <<>> THEN -1 ELSE Top.span_id

\* A panic of the owner thread: the first unwinds it, the second aborts.
Panic == mode' = IF mode = "normal" THEN "unwinding" ELSE "aborted"

\* The owner is in user code and may call the API.
Running == at = "run" /\ mode = "normal"

------------------------------------------------------------------------------
(* Creating spans                                                          *)

\* Span::new_obj and push_active_span; the handle is `open` from here on.
OpenSpan(parent, refs) ==
  LET uid == span_uid_generator
  IN  /\ next_span_id < MaxSpans
      /\ next_span_id' = next_span_id + 1
      /\ span_uid_generator' = uid + 1
      /\ primary_endpoint_name' = uid
      /\ active' = Append(active, [uid |-> uid, span_id |-> next_span_id, ref |-> None])
      /\ state' = [state EXCEPT ![uid] = "open"]
      /\ obj' = [obj EXCEPT ![uid] =
                   [span_id |-> next_span_id, parent_span_id |-> parent,
                    refs |-> refs, tags |-> 0, ended |-> FALSE]]
      /\ UNCHANGED <<finalized, lock, wgVars, ownerVars, outVars, given>>

CreateEntrySpan ==
  /\ Running /\ ctx
  /\ OpenSpan(PeekActiveSpanId, <<>>)
  /\ UNCHANGED trace_id

CreateEntrySpanWithPropagation(p) ==
  /\ Running /\ ctx
  /\ OpenSpan(PeekActiveSpanId, <<p>>)
  /\ trace_id' = p

\* create_exit_span and create_local_span.
CreateCommonSpan ==
  /\ Running /\ ctx
  /\ IF next_span_id = 0
     THEN /\ Panic
          /\ UNCHANGED <<ctxVars, stackVars, wgVars, handleVars, at, closing, ctx,
                         outVars, given>>
     ELSE OpenSpan(PeekActiveSpanId, <<>>) /\ UNCHANGED trace_id

\* add_tag, by whoever holds the Span or the AsyncSpan.
AddTag(u) ==
  /\ \/ state[u] = "async" /\ mode # "aborted"
     \/ state[u] = "open" /\ Running
  /\ obj[u].tags < MaxTags
  /\ obj' = [obj EXCEPT ![u].tags = @ + 1]
  /\ given' = [given EXCEPT ![u].tags = @ + 1]
  /\ UNCHANGED <<ctxVars, stackVars, wgVars, state, ownerVars, outVars>>

\* continued: the trace id changes even when the tracer is gone (a panic) or
\* no span is active (no reference is kept).
Continued(s) ==
  /\ Running /\ ctx
  /\ trace_id' = s
  /\ IF tracer
     THEN /\ active' = IF active = <<>> THEN active
                       ELSE [active EXCEPT ![Len(active)].ref = s]
          /\ given' = IF active = <<>> THEN given
                      ELSE [given EXCEPT ![Top.uid].link = s]
          /\ UNCHANGED mode
     ELSE Panic /\ UNCHANGED <<active, given>>
  /\ UNCHANGED <<next_span_id, span_uid_generator, primary_endpoint_name, finalized,
                 lock, wgVars, handleVars, at, closing, ctx, outVars>>

------------------------------------------------------------------------------
(* Dropping a Span: SpanStack::finalize_span                               *)

\* Defects: a missing reference is pushed as well; the end time is forgotten.
EndedPushAlways(o, ref) == [o EXCEPT !.ended = TRUE, !.refs = Append(@, ref)]

EndedNoTime(o, ref) == [o EXCEPT !.refs = IF ref = None THEN @ ELSE Append(@, ref)]

\* The object with its end time and the reference left by `continued`.
Ended(o, ref) ==
  [o EXCEPT !.ended = TRUE, !.refs = IF ref = None THEN @ ELSE Append(@, ref)]

\* Defect: the active span is looked at and not popped.
PopActivePeeks(u, o) ==
  /\ active' = active
  /\ closing' = IF o = None
                THEN [uid |-> u, obj |-> None, ref |-> Top.ref]
                ELSE [uid |-> u, obj |-> Ended(o, Top.ref), ref |-> None]

\* pop_active, and the FinalizeSpan to push.
PopActive(u, o) ==
  /\ active' = SubSeq(active, 1, Len(active) - 1)
  /\ closing' = IF o = None
                THEN [uid |-> u, obj |-> None, ref |-> Top.ref]
                ELSE [uid |-> u, obj |-> Ended(o, Top.ref), ref |-> None]

\* The user drops any span; unwinding drops the `self` of prepare_for_async, then
\* the locals in reverse order of creation.
MayDrop(u) ==
  /\ at = "run"
  /\ \/ mode = "normal" /\ state[u] = "open"
     \/ mode = "unwinding" /\ state[u] = "moved"
     \/ /\ mode = "unwinding" /\ state[u] = "open"
        /\ \A v \in Uids : state[v] # "moved" /\ (state[v] = "open" => v <= u)

\* Dropped out of order: the panic precedes everything, the object is gone.
DropInactive(u) ==
  /\ MayDrop(u) /\ ~IsActive(u)
  /\ Panic
  /\ state' = [state EXCEPT ![u] = "misused"]
  /\ obj' = [obj EXCEPT ![u] = None]
  /\ UNCHANGED <<ctxVars, stackVars, wgVars, at, closing, ctx, outVars, given>>

\* Popped, and the lock of `finalized` obtained.
DropSpan(u) ==
  /\ MayDrop(u) /\ IsActive(u) /\ lock = "free"
  /\ PopActive(u, obj[u])
  /\ obj' = [obj EXCEPT ![u] = None]
  /\ lock' = "owner" /\ at' = "finalizing"
  /\ UNCHANGED <<ctxVars, finalized, wgVars, state, mode, ctx, outVars, given>>

\* Defect: the lock is tried before the span is popped.
DropContendedNoPop(u) ==
  /\ MayDrop(u) /\ IsActive(u) /\ lock # "free"
  /\ Panic
  /\ obj' = [obj EXCEPT ![u] = None]
  /\ state' = [state EXCEPT ![u] = "lost"]
  /\ UNCHANGED <<ctxVars, stackVars, wgVars, at, closing, ctx, outVars, given>>

\* Popped, and the lock was taken: the FinalizeSpan is dropped with the panic.
DropContended(u) ==
  /\ MayDrop(u) /\ IsActive(u) /\ lock # "free"
  /\ Panic
  /\ active' = SubSeq(active, 1, Len(active) - 1)
  /\ obj' = [obj EXCEPT ![u] = None]
  /\ state' = [state EXCEPT ![u] = "lost"]
  /\ UNCHANGED <<ctxVars, finalized, lock, wgVars, at, closing, ctx, outVars, given>>

\* The push that ends finalize_span; an AsyncSpan is in the user's hands now.
FinalizePush ==
  /\ at = "finalizing"
  /\ finalized' = Append(finalized, closing)
  /\ state' = [state EXCEPT ![closing.uid] =
                 IF closing.obj = None THEN "async" ELSE "closed"]
  /\ closing' = None /\ lock' = "free" /\ at' = "run"
  /\ UNCHANGED <<ctxVars, active, wgVars, obj, mode, ctx, outVars, given>>

------------------------------------------------------------------------------
(* prepare_for_async                                                       *)

\* Not the active span: a panic, with `self` still to be dropped.
PrepareInactive(u) ==
  /\ Running /\ state[u] = "open" /\ ~IsActive(u)
  /\ Panic
  /\ state' = [state EXCEPT ![u] = "moved"]
  /\ UNCHANGED <<ctxVars, stackVars, wgVars, obj, at, closing, ctx, outVars, given>>

\* wg.add, the object moves to the AsyncSpan, and `self` is dropped without it.
PrepareForAsync(u) ==
  /\ Running /\ state[u] = "open" /\ IsActive(u) /\ lock = "free"
  /\ WG!Add(u)
  /\ PopActive(u, None)
  /\ lock' = "owner" /\ at' = "finalizing"
  /\ UNCHANGED <<ctxVars, finalized, handleVars, mode, ctx, outVars, given>>

\* `self` cannot be finalized: its panic either leaks the AsyncSpan that was
\* about to be returned or drops it, which panics again. Compilers differ.
PrepareContended(u) ==
  /\ Running /\ state[u] = "open" /\ IsActive(u) /\ lock # "free"
  /\ WG!Add(u)
  /\ mode' \in {"unwinding", "aborted"}
  /\ active' = SubSeq(active, 1, Len(active) - 1)
  /\ state' = [state EXCEPT ![u] = "leaked"]
  /\ UNCHANGED <<ctxVars, finalized, lock, obj, at, closing, ctx, outVars, given>>

------------------------------------------------------------------------------
(* Dropping an AsyncSpan, in any thread                                    *)

\* A strong reference to the SpanStack exists.
StackAlive ==
  ctx \/ \E u \in Uids : state[u] \in {"open", "moved", "upgraded", "writing"}

AsyncStep(u, s) ==
  /\ mode # "aborted"
  /\ state' = [state EXCEPT ![u] = s]
  /\ UNCHANGED <<ctxVars, active, waited, ownerVars, outVars, given>>

\* Defect: wg.done() comes first.
AsyncUpgradeDoneFirst(u) ==
  /\ state[u] = "async"
  /\ AsyncStep(u, IF StackAlive THEN "upgraded" ELSE "panicked")
  /\ WG!Done(u)
  /\ UNCHANGED <<finalized, lock, obj>>

\* Weak::upgrade().expect("TracingContext has dropped")
AsyncUpgrade(u) ==
  /\ state[u] = "async"
  /\ AsyncStep(u, IF StackAlive THEN "upgraded" ELSE "panicked")
  /\ UNCHANGED <<finalized, lock, pending, obj>>

\* finalized_mut() of finalize_async_span.
AsyncLock(u) ==
  /\ state[u] = "upgraded" /\ lock = "free"
  /\ AsyncStep(u, "writing")
  /\ lock' = "async"
  /\ UNCHANGED <<finalized, pending, obj>>

AsyncContended(u) ==
  /\ state[u] = "upgraded" /\ lock # "free"
  /\ AsyncStep(u, "panicked")
  /\ UNCHANGED <<finalized, lock, pending, obj>>

\* Defects: the reference left in the entry is not taken over; the entry is
\* removed and pushed at the end.
AsyncWriteNoRef(u) ==
  /\ state[u] = "writing"
  /\ finalized' = [i \in DOMAIN finalized |->
       IF finalized[i].uid = u
       THEN [uid |-> u, obj |-> Ended(obj[u], None), ref |-> None]
       ELSE finalized[i]]
  /\ AsyncStep(u, "written")
  /\ obj' = [obj EXCEPT ![u] = None]
  /\ lock' = "free"
  /\ UNCHANGED pending

AsyncWriteAtEnd(u) ==
  /\ state[u] = "writing"
  /\ finalized' = Append(SelectSeq(finalized, LAMBDA f : f.uid # u),
                         [uid |-> u, obj |-> Ended(obj[u], None), ref |-> None])
  /\ AsyncStep(u, "written")
  /\ obj' = [obj EXCEPT ![u] = None]
  /\ lock' = "free"
  /\ UNCHANGED pending

\* The loop of finalize_async_span: fill the entry, or unreachable!().
AsyncWrite(u) ==
  /\ state[u] = "writing"
  /\ IF \E i \in DOMAIN finalized : finalized[i].uid = u
     THEN LET i == CHOOSE i \in DOMAIN finalized : finalized[i].uid = u
          IN  /\ finalized' = [finalized EXCEPT
                   ![i] = [uid |-> u, obj |-> Ended(obj[u], @.ref), ref |-> None]]
              /\ AsyncStep(u, "written")
     ELSE AsyncStep(u, "panicked") /\ UNCHANGED finalized
  /\ obj' = [obj EXCEPT ![u] = None]
  /\ lock' = "free"
  /\ UNCHANGED pending

\* Defect: no wg.done().
AsyncDoneForgotten(u) ==
  /\ state[u] = "written"
  /\ AsyncStep(u, "done")
  /\ UNCHANGED <<finalized, lock, pending, obj>>

AsyncDone(u) ==
  /\ state[u] = "written"
  /\ AsyncStep(u, "done")
  /\ WG!Done(u)
  /\ UNCHANGED <<finalized, lock, obj>>

------------------------------------------------------------------------------
(* wait, last_span and the drop of the context                             *)

\* The owner moves on with nothing but its own control state changed.
OwnerStep == UNCHANGED <<ctxVars, active, finalized, pending, handleVars, closing, tracer, given>>

\* last_span reads under the lock.
LastSpan ==
  /\ Running /\ ctx
  /\ IF lock = "free" THEN lock' = "owner" /\ at' = "reading" /\ UNCHANGED mode
                      ELSE Panic /\ UNCHANGED <<lock, at>>
  /\ OwnerStep /\ UNCHANGED <<waited, ctx, segment>>

LastSpanEnd ==
  /\ at = "reading"
  /\ lock' = "free" /\ at' = "run"
  /\ OwnerStep /\ UNCHANGED <<waited, mode, ctx, segment>>

\* wait consumes the context, so the drop follows it at once.
Wait ==
  /\ Running /\ ctx
  /\ at' = "waiting"
  /\ OwnerStep /\ UNCHANGED <<lock, waited, mode, ctx, segment>>

WaitReturn ==
  /\ at = "waiting"
  /\ WG!Return
  /\ at' = "waited"
  /\ OwnerStep /\ UNCHANGED <<lock, mode, ctx, segment>>

\* upgrade_tracer and the try_write of convert_to_segment_object.
DropContext ==
  /\ ctx /\ mode # "aborted"
  /\ \/ at = "waited"
     \/ at = "run" /\ (mode = "unwinding" => \A u \in Uids : state[u] \notin {"open", "moved"})
  /\ IF tracer /\ lock = "free"
     THEN lock' = "owner" /\ at' = "converting" /\ UNCHANGED <<mode, ctx>>
     ELSE Panic /\ at' = "run" /\ ctx' = FALSE /\ UNCHANGED lock
  /\ OwnerStep /\ UNCHANGED <<waited, segment>>

\* Defect: unfinished spans are left out.
ConvertFinishedOnly ==
  /\ at = "converting"
  /\ finalized' = <<>> /\ lock' = "free"
  /\ at' = "run" /\ ctx' = FALSE
  /\ LET filled == SelectSeq(finalized, LAMBDA f : f.obj # None)
     IN  segment' = [trace_id |-> trace_id,
                     spans |-> [i \in DOMAIN filled |-> filled[i].obj]]
  /\ UNCHANGED <<ctxVars, active, wgVars, handleVars, mode, closing, tracer, given>>

\* The spans are taken; an unfinished one is a panic, else they are reported.
Convert ==
  /\ at = "converting"
  /\ finalized' = <<>> /\ lock' = "free"
  /\ at' = "run" /\ ctx' = FALSE
  /\ IF \E i \in DOMAIN finalized : finalized[i].obj = None
     THEN Panic /\ UNCHANGED segment
     ELSE /\ segment' = [trace_id |-> trace_id,
                         spans |-> [i \in DOMAIN finalized |-> finalized[i].obj]]
          /\ UNCHANGED mode
  /\ UNCHANGED <<ctxVars, active, wgVars, handleVars, closing, tracer, given>>

------------------------------------------------------------------------------
(* The rest of the program                                                 *)

\* The user's code on the owner thread panics.
UserPanic ==
  /\ Running
  /\ Panic
  /\ UNCHANGED <<ctxVars, stackVars, wgVars, handleVars, at, closing, ctx, outVars, given>>

\* The last clone of the Tracer goes away. finalize_context runs on a strong
\* reference, so it does not during the drop of the context.
DropTracer ==
  /\ tracer /\ at # "converting" /\ mode # "aborted"
  /\ tracer' = FALSE
  /\ UNCHANGED <<ctxVars, stackVars, wgVars, handleVars, ownerVars, segment, given>>

OwnerNext ==
  \/ CreateEntrySpan
  \/ \E p \in Props : CreateEntrySpanWithPropagation(p)
  \/ CreateCommonSpan
  \/ \E s \in Snapshots : Continued(s)
  \/ \E u \in Uids :
       \/ DropInactive(u) \/ DropSpan(u) \/ DropContended(u)
       \/ PrepareInactive(u) \/ PrepareForAsync(u) \/ PrepareContended(u)
  \/ FinalizePush
  \/ LastSpan \/ LastSpanEnd
  \/ Wait \/ WaitReturn
  \/ DropContext \/ Convert
  \/ UserPanic

AsyncNext(u) ==
  AsyncUpgrade(u) \/ AsyncLock(u) \/ AsyncContended(u) \/ AsyncWrite(u) \/ AsyncDone(u)

Next ==
  \/ OwnerNext
  \/ \E u \in Uids : AsyncNext(u) \/ AddTag(u)
  \/ DropTracer

Spec == Init /\ [][Next]_vars

(***************************************************************************)
(* A thread inside an operation finishes it, every AsyncSpan is dropped in *)
(* the end. Nothing makes the user call anything else.                     *)
(***************************************************************************)
Fairness ==
  /\ \A u \in Uids : WF_vars(AsyncNext(u))
  /\ WF_vars(FinalizePush) /\ WF_vars(LastSpanEnd) /\ WF_vars(Convert)
  /\ WF_vars(WaitReturn)
  /\ WF_vars(at = "waited" /\ DropContext)

FairSpec == Spec /\ Fairness

------------------------------------------------------------------------------
(* Properties                                                              *)

\* Once wait() has returned, no entry of the stack is an unfinished AsyncSpan:
\* the expect("Some async span haven't finished") of the conversion holds.
WaitedContextIsComplete ==
  at \in {"waited", "converting"} /\ waited =>
    \A i \in DOMAIN finalized : finalized[i].obj # None

\* The spans whose object was handed to the stack.
Recorded == {u \in Uids : state[u] \in {"closed", "written", "done"}}

\* The report holds exactly the spans recorded so far, each once and ended: no
\* span that closed is missing, whichever thread closed it. And no segment is lost
\* in silence: the context goes with its report, or with a panic (its Tracer is
\* gone, an AsyncSpan is unfinished, or the stack is in use).
ReportIsExact ==
  [][/\ segment' # segment =>
          /\ Len(segment'.spans) = Len(finalized)
          /\ {segment'.spans[i].span_id : i \in DOMAIN finalized} = Recorded
          /\ \A i, j \in DOMAIN finalized :
               segment'.spans[i].span_id = segment'.spans[j].span_id => i = j
          /\ \A i \in DOMAIN finalized : segment'.spans[i].ended
     /\ ctx' # ctx => segment' # segment \/ mode' # mode]_vars

\* A segment is reported only when every AsyncSpan prepared so far is finished
\* (or its drop has panicked), whether the context was waited for or not.
ReportedMeansFinished ==
  [][segment' # segment =>
       \A u \in Uids : state[u] \notin {"async", "upgraded", "writing"}]_vars

\* o has the tags of g, and the snapshot of g as its last reference and the only
\* one that is a snapshot.
AsGiven(o, g) ==
  /\ o.tags = g.tags
  /\ \A j \in DOMAIN o.refs :
       o.refs[j] \in Snapshots => j = Len(o.refs) /\ o.refs[j] = g.link
  /\ g.link # None => o.refs # <<>> /\ o.refs[Len(o.refs)] = g.link

\* A reported span carries what the user gave it, in whichever thread: every
\* tag, and as its last reference the snapshot it was last continued from, also
\* across prepare_for_async.
ReportedAsGiven ==
  segment # None =>
    \A i \in DOMAIN segment.spans :
      AsGiven(segment.spans[i], given[segment.spans[i].span_id])

\* The parent of a reported span closed after it: it comes later in the same
\* segment, unless its handle is still held at that moment or was lost to a
\* panic.
ParentsEnclose ==
  [][segment' # segment =>
       \A i \in DOMAIN segment'.spans :
         LET p == segment'.spans[i].parent_span_id
         IN  \/ p = -1
             \/ state[p] \in {"open", "lost", "misused", "leaked"}
             \/ \E j \in DOMAIN segment'.spans : j > i /\ segment'.spans[j].span_id = p]_vars

\* Spans dropped in reverse order of creation never meet the "isn't the active
\* span" panics: the youngest one held is the active one, whatever became of
\* the others, as long as none was dropped or prepared out of turn.
YoungestIsActive ==
  at = "run" =>
    \A u \in Uids :
      state[u] = "open" /\ (\A v \in Uids : v > u => state[v] \notin {"open", "moved", "misused"})
        => IsActive(u)

\* A panic, of the user or of the API, unwinds the owner's thread and drops the
\* spans and the context it holds without a second panic, which would abort the
\* process, as long as the Tracer exists, no span was used out of turn before and
\* every AsyncSpan is finished: one that is still alive, or whose drop has panicked,
\* makes the conversion panic, and the process aborts.
UnwindingIsSafe ==
  [][mode # "aborted" /\ mode' = "aborted" =>
       \/ ~tracer
       \/ \E u \in Uids : state[u] \in {"moved", "misused", "async", "upgraded", "writing",
                                        "panicked"}]_vars

\* Entries of the finalized stack keep their position: the stack only grows, an
\* AsyncSpan is filled in where it was prepared, and nothing filled changes,
\* until the context takes all of it.
PositionsKept ==
  [][finalized' # <<>> =>
       /\ Len(finalized') >= Len(finalized)
       /\ \A i \in DOMAIN finalized :
            /\ finalized'[i].uid = finalized[i].uid
            /\ finalized[i].obj # None => finalized'[i] = finalized[i]]_vars

\* wait() returns, unless an AsyncSpan's drop panicked and left the WaitGroup
\* waiting for it.
WaitReturnsUnlessPanicked ==
  at = "waiting" ~>
    \/ at # "waiting" \/ mode = "aborted"
    \/ \E u \in Uids : state[u] \in {"panicked", "leaked"}

\* "Wait all async span dropped": wait() returns once they are.
WaitReturns == at = "waiting" ~> at # "waiting"

==============================================================================
