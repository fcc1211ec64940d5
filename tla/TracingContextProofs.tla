------------------------- MODULE TracingContextProofs -------------------------
(***************************************************************************)
(* Proofs about TracingContext, for any number of spans, snapshots and     *)
(* propagation headers.                                                    *)
(*                                                                         *)
(* IInv ties the finalized stack to the state of the handles: it gives the *)
(* exactness of a report. Three more invariants stand on it, each kept by   *)
(* every kind of step that Effects lists: SpansInv (the active stack, the  *)
(* lock and the panics), ParentInv (where the parent of a span is) and     *)
(* GivenInv (where the tags and the link of a span are).                   *)
(***************************************************************************)
EXTENDS TracingContext, SequenceTheorems, TLAPS

\* uids are handed out once: exactly those below the generator are in use.
UnbornNew ==
  /\ next_span_id = span_uid_generator
  /\ \A u \in Uids : state[u] = "new" <=> u >= span_uid_generator

\* A handle that will be finalized holds its own object.
HasObj(u) == obj[u] \in SpanObject /\ obj[u].span_id = u

HandleHasObj ==
  \A u \in Uids :
    (\/ state[u] \in {"open", "moved"} /\ (at = "finalizing" => closing.uid # u)
     \/ state[u] \in {"async", "upgraded", "writing"}) => HasObj(u)

\* What finalize_span is about to push belongs to a span that is still held.
ClosingIsHeld ==
  at = "finalizing" =>
    /\ closing \in FinalizeSpan
    /\ state[closing.uid] \in {"open", "moved"}
    /\ IF closing.obj = None
       THEN closing.uid \in pending /\ HasObj(closing.uid)
       ELSE closing.obj.span_id = closing.uid /\ closing.obj.ended

\* An entry of the finalized stack belongs to one span, which is no longer held;
\* if it has no object its AsyncSpan is unfinished and the WaitGroup knows it.
EntriesOnce ==
  \A i, j \in DOMAIN finalized : finalized[i].uid = finalized[j].uid => i = j

EntryTellsState(e) ==
  IF e.obj = None
  THEN e.uid \in pending /\ state[e.uid] \in {"async", "upgraded", "writing", "panicked"}
  ELSE state[e.uid] \in {"closed", "written", "done"} /\ e.obj.span_id = e.uid /\ e.obj.ended

EntriesTellState == \A i \in DOMAIN finalized : EntryTellsState(finalized[i])

\* While the context exists, every span closed or prepared has its entry.
HasEntry ==
  ctx => \A u \in Uids :
    state[u] \in {"async", "upgraded", "writing", "closed", "written", "done"} =>
      \E i \in DOMAIN finalized : finalized[i].uid = u

\* wait() and the drop of the context come once.
ContextOnce ==
  /\ at \in {"waiting", "waited", "converting"} => ctx
  /\ waited /\ ctx => at \in {"waited", "converting"}
  /\ at = "waited" => waited
  /\ at \in {"waited", "converting"} /\ waited => pending = {}

\* The inductive invariant.
IInv ==
  /\ TypeOK
  /\ UnbornNew
  /\ HandleHasObj
  /\ ClosingIsHeld
  /\ EntriesOnce
  /\ EntriesTellState
  /\ HasEntry
  /\ ContextOnce

------------------------------------------------------------------------------
(* Types                                                                   *)

\* Closing an object keeps it an object of the same span, and ends it.
LEMMA EndedType ==
  ASSUME NEW o \in SpanObject, NEW ref \in Snapshots \union {None}
  PROVE  Ended(o, ref) \in SpanObject /\ Ended(o, ref).span_id = o.span_id /\ Ended(o, ref).ended
  <1>1. ref # None => Append(o.refs, ref) \in Seq(Refs)
    BY AppendProperties DEF Refs, SpanObject
  <1> QED BY <1>1 DEF Ended, SpanObject

\* Popping the active stack.
LEMMA PopType ==
  ASSUME TypeOK, active # <<>>
  PROVE  /\ SubSeq(active, 1, Len(active) - 1) \in Seq(ActiveSpan)
         /\ Top \in ActiveSpan
  <1>1. Len(active) \in Nat /\ Len(active) # 0 /\ active \in Seq(ActiveSpan)
    BY EmptySeq, LenProperties DEF TypeOK
  <1>2. Top \in ActiveSpan
    BY <1>1, ElementOfSeq DEF Top
  <1>3. SubSeq(active, 1, Len(active) - 1) \in Seq(ActiveSpan)
    BY <1>1, SubSeqProperties
  <1> QED BY <1>2, <1>3

\* The entries of the finalized stack.
LEMMA EntryType ==
  ASSUME TypeOK, NEW i \in DOMAIN finalized
  PROVE  /\ finalized[i] \in FinalizeSpan
         /\ finalized[i].uid \in Uids
         /\ finalized[i].obj \in SpanObject \union {None}
         /\ finalized[i].ref \in Snapshots \union {None}
  <1>1. finalized \in Seq(FinalizeSpan)
    BY DEF TypeOK
  <1>2. finalized[i] \in FinalizeSpan
    BY <1>1, LenProperties, ElementOfSeq
  <1> QED BY <1>2 DEF FinalizeSpan

\* The new context.
LEMMA InitInv == Init => IInv
  <1> SUFFICES ASSUME Init PROVE IInv
    OBVIOUS
  <1> USE ConstantsAssumption DEF Init, WG!Init
  <1>1. TypeOK
    <2>1. active \in Seq(ActiveSpan) /\ finalized \in Seq(FinalizeSpan)
      BY EmptySeq
    <2>2. /\ state \in [Uids -> States] /\ obj \in [Uids -> SpanObject \union {None}]
          /\ given \in [Uids -> [link : Snapshots \union {None}, tags : Nat]]
      BY DEF States
    <2>3. next_span_id \in 0 .. MaxSpans /\ span_uid_generator \in 0 .. MaxSpans
      OBVIOUS
    <2> QED BY <2>1, <2>2, <2>3 DEF TypeOK, Points
  <1>2. UnbornNew /\ HandleHasObj /\ ClosingIsHeld /\ HasEntry /\ ContextOnce
    BY DEF UnbornNew, HandleHasObj, ClosingIsHeld, HasEntry, ContextOnce, Uids
  <1>3. EntriesOnce /\ EntriesTellState
    BY EmptySeq DEF EntriesOnce, EntriesTellState
  <1> QED BY <1>1, <1>2, <1>3 DEF IInv

------------------------------------------------------------------------------
(* Steps that change nothing the invariant is about, apart from types      *)

\* What the conjuncts other than TypeOK read.
coreVars == <<next_span_id, span_uid_generator, state, obj, at, closing, pending,
              finalized, ctx, waited>>

\* Steps that leave spans, handles and WaitGroup alone.
LEMMA CoreUnchanged ==
  ASSUME IInv, UNCHANGED coreVars, TypeOK'
  PROVE  IInv'
  <1>1. UnbornNew' /\ HandleHasObj' /\ ClosingIsHeld' /\ ContextOnce'
    BY DEF IInv, coreVars, UnbornNew, HandleHasObj, HasObj, ClosingIsHeld, ContextOnce
  <1>2. EntriesOnce' /\ EntriesTellState' /\ HasEntry'
    BY DEF IInv, coreVars, EntriesOnce, EntriesTellState, EntryTellsState, HasEntry
  <1> QED BY <1>1, <1>2 DEF IInv

\* A panic of the owner thread, and nothing else.
LEMMA PanicInv ==
  ASSUME IInv, Panic,
         UNCHANGED <<ctxVars, stackVars, wgVars, handleVars, at, closing, ctx, outVars, given>>
  PROVE  IInv'
  <1>1. TypeOK'
    BY DEF IInv, TypeOK, Panic, ctxVars, stackVars, wgVars, handleVars, outVars
  <1>2. UNCHANGED coreVars
    BY DEF coreVars, ctxVars, stackVars, wgVars, handleVars, outVars
  <1> QED BY <1>1, <1>2, CoreUnchanged

\* continued
LEMMA ContinuedInv ==
  ASSUME IInv, NEW s \in Snapshots, Continued(s)
  PROVE  IInv'
  <1>1. UNCHANGED coreVars
    BY DEF Continued, coreVars, ctxVars, stackVars, wgVars, handleVars, outVars
  <1>2. active' \in Seq(ActiveSpan)
    <2>1. CASE active = <<>> \/ ~tracer
      BY <2>1 DEF Continued, IInv, TypeOK
    <2>2. CASE active # <<>> /\ tracer
      <3>1. active \in Seq(ActiveSpan) /\ Len(active) \in Nat \ {0}
        BY <2>2, EmptySeq DEF IInv, TypeOK
      <3>2. [Top EXCEPT !.ref = s] \in ActiveSpan
        BY <2>2, PopType DEF IInv, ActiveSpan
      <3>3. active' = [active EXCEPT ![Len(active)] = [Top EXCEPT !.ref = s]]
        BY <2>2 DEF Continued, Top
      <3> QED BY <3>1, <3>2, <3>3, ExceptSeq
    <2> QED BY <2>1, <2>2
  <1>3. given' \in [Uids -> [link : Snapshots \union {None}, tags : Nat]]
    <2>1. CASE active = <<>> \/ ~tracer
      BY <2>1 DEF Continued, IInv, TypeOK
    <2>2. CASE active # <<>> /\ tracer
      <3>1. Top.uid \in Uids
        BY <2>2, PopType DEF IInv, ActiveSpan
      <3> DEFINE g == [given[Top.uid] EXCEPT !.link = s]
      <3>2. g \in [link : Snapshots \union {None}, tags : Nat]
        BY <3>1 DEF IInv, TypeOK
      <3>3. given' = [given EXCEPT ![Top.uid] = g]
        BY <2>2 DEF Continued
      <3> QED BY <3>1, <3>2, <3>3 DEF IInv, TypeOK
    <2> QED BY <2>1, <2>2
  <1>4. TypeOK'
    BY <1>1, <1>2, <1>3 DEF Continued, Panic, IInv, TypeOK, Refs, coreVars, wgVars, handleVars,
       outVars
  <1> QED BY <1>1, <1>4, CoreUnchanged

\* The tracer goes away.
LEMMA DropTracerInv ==
  ASSUME IInv, DropTracer
  PROVE  IInv'
  <1>1. TypeOK'
    BY DEF DropTracer, IInv, TypeOK, ctxVars, stackVars, wgVars, handleVars, ownerVars
  <1>2. UNCHANGED coreVars
    BY DEF DropTracer, coreVars, ctxVars, stackVars, wgVars, handleVars, ownerVars
  <1> QED BY <1>1, <1>2, CoreUnchanged

------------------------------------------------------------------------------
(* Creating and tagging spans                                              *)

\* push_active_span and the Span made from it.
LEMMA OpenSpanInv ==
  ASSUME IInv, Running, NEW parent \in Uids \union {-1}, NEW refs \in Seq(Refs),
         OpenSpan(parent, refs), trace_id' \in Refs \union {OwnTrace}
  PROVE  IInv'
  <1> DEFINE uid == span_uid_generator
  <1> DEFINE o == [span_id |-> uid, parent_span_id |-> parent, refs |-> refs, tags |-> 0,
                   ended |-> FALSE]
  <1> USE ConstantsAssumption DEF IInv
  <1>1. uid \in Uids /\ next_span_id = uid /\ state[uid] = "new"
    BY DEF OpenSpan, UnbornNew, TypeOK, Uids
  <1>2. o \in SpanObject
    BY <1>1 DEF SpanObject
  <1>3. /\ state' = [state EXCEPT ![uid] = "open"]
        /\ obj' = [obj EXCEPT ![uid] = o]
        /\ next_span_id' = uid + 1 /\ span_uid_generator' = uid + 1
        /\ UNCHANGED <<finalized, lock, pending, waited, at, mode, closing, ctx, tracer,
                       segment, given>>
    BY <1>1 DEF OpenSpan, wgVars, ownerVars, outVars
  <1>4. active' \in Seq(ActiveSpan)
    <2>1. [uid |-> uid, span_id |-> next_span_id, ref |-> None] \in ActiveSpan
      BY <1>1 DEF ActiveSpan
    <2> QED BY <2>1, AppendProperties DEF OpenSpan, TypeOK
  <1>5. TypeOK'
    <2>1. /\ next_span_id' \in 0 .. MaxSpans /\ span_uid_generator' \in 0 .. MaxSpans
          /\ primary_endpoint_name' \in Uids \union {-1}
      BY <1>1, <1>3 DEF OpenSpan, TypeOK, Uids
    <2>2. state' \in [Uids -> States] /\ obj' \in [Uids -> SpanObject \union {None}]
      BY <1>1, <1>2, <1>3 DEF TypeOK, States
    <2> QED BY <1>3, <1>4, <2>1, <2>2 DEF TypeOK
  <1>6. UnbornNew'
    BY <1>1, <1>3 DEF UnbornNew, TypeOK, Uids
  <1>7. HandleHasObj' /\ ClosingIsHeld' /\ ContextOnce'
    BY <1>1, <1>2, <1>3 DEF HandleHasObj, HasObj, ClosingIsHeld, ContextOnce, TypeOK, Running
  <1>8. EntriesOnce' /\ EntriesTellState' /\ HasEntry'
    <2>1. \A i \in DOMAIN finalized : finalized[i].uid # uid
      BY <1>1 DEF EntriesTellState, EntryTellsState
    <2>2. EntriesOnce'
      BY <1>3 DEF EntriesOnce
    <2>3. EntriesTellState'
      <3> SUFFICES ASSUME NEW i \in DOMAIN finalized
                   PROVE  EntryTellsState(finalized[i])'
        BY <1>3 DEF EntriesTellState
      <3>1. finalized[i].uid \in Uids /\ finalized[i].uid # uid
        BY <2>1, EntryType
      <3>2. state'[finalized[i].uid] = state[finalized[i].uid]
        BY <1>3, <3>1 DEF TypeOK
      <3> QED BY <1>3, <3>2 DEF EntriesTellState, EntryTellsState
    <2>4. HasEntry'
      BY <1>1, <1>3 DEF HasEntry, TypeOK
    <2> QED BY <2>2, <2>3, <2>4
  <1> QED BY <1>5, <1>6, <1>7, <1>8

\* create_entry_span, create_entry_span_with_propagation, create_local_span, create_exit_span
LEMMA CreateInv ==
  ASSUME IInv,
         CreateEntrySpan \/ CreateCommonSpan \/ \E p \in Props : CreateEntrySpanWithPropagation(p)
  PROVE  IInv'
  <1>1. PeekActiveSpanId \in Uids \union {-1}
    BY PopType DEF PeekActiveSpanId, IInv, ActiveSpan
  <1>2. <<>> \in Seq(Refs)
    BY EmptySeq
  <1>3. CASE CreateEntrySpan
    BY <1>1, <1>2, <1>3, OpenSpanInv DEF CreateEntrySpan, IInv, TypeOK
  <1>4. CASE CreateCommonSpan
    <2>1. CASE next_span_id = 0
      BY <1>4, <2>1, PanicInv DEF CreateCommonSpan
    <2>2. CASE next_span_id # 0
      BY <1>1, <1>2, <1>4, <2>2, OpenSpanInv DEF CreateCommonSpan, IInv, TypeOK
    <2> QED BY <2>1, <2>2
  <1>5. ASSUME NEW p \in Props, CreateEntrySpanWithPropagation(p) PROVE IInv'
    <2>1. <<p>> \in Seq(Refs) /\ p \in Refs
      BY DEF Refs
    <2> QED BY <1>1, <1>5, <2>1, OpenSpanInv DEF CreateEntrySpanWithPropagation
  <1> QED BY <1>3, <1>4, <1>5

\* add_tag
LEMMA AddTagInv ==
  ASSUME IInv, NEW u \in Uids, AddTag(u)
  PROVE  IInv'
  <1> USE ConstantsAssumption DEF IInv
  <1>1. UNCHANGED <<ctxVars, stackVars, wgVars, state, ownerVars, outVars>>
    BY DEF AddTag
  <1>2. obj[u] \in SpanObject /\ HasObj(u)
    BY DEF AddTag, HandleHasObj, HasObj, Running
  <1> DEFINE o == [obj[u] EXCEPT !.tags = @ + 1]
  <1>3. obj' = [obj EXCEPT ![u] = o]
    BY <1>2 DEF AddTag
  <1>4. o \in SpanObject /\ o.span_id = u
    BY <1>2 DEF AddTag, HasObj, SpanObject
  <1>5. given' \in [Uids -> [link : Snapshots \union {None}, tags : Nat]]
    <2> DEFINE g == [given[u] EXCEPT !.tags = @ + 1]
    <2>1. g \in [link : Snapshots \union {None}, tags : Nat]
      <3>1. given[u] \in [link : Snapshots \union {None}, tags : Nat]
        BY DEF TypeOK
      <3> QED BY ONLY <3>1
    <2>2. given' = [given EXCEPT ![u] = g]
      BY DEF AddTag
    <2> QED BY <2>1, <2>2 DEF TypeOK
  <1> HIDE DEF o
  <1>6. obj' \in [Uids -> SpanObject \union {None}]
    BY <1>3, <1>4 DEF TypeOK
  <1>7. TypeOK'
    BY <1>1, <1>5, <1>6 DEF TypeOK, ctxVars, stackVars, wgVars, ownerVars, outVars
  <1>8. \A v \in Uids : HasObj(v) => HasObj(v)'
    BY <1>3, <1>4 DEF HasObj, TypeOK
  <1>9. UnbornNew' /\ HandleHasObj' /\ ContextOnce'
    BY <1>1, <1>8 DEF UnbornNew, HandleHasObj, ContextOnce, ctxVars, wgVars, ownerVars
  <1>10. ClosingIsHeld'
    BY <1>1, <1>8 DEF ClosingIsHeld, ownerVars, wgVars, FinalizeSpan
  <1>11. EntriesOnce' /\ EntriesTellState' /\ HasEntry'
    BY <1>1 DEF EntriesOnce, EntriesTellState, EntryTellsState, HasEntry, stackVars, wgVars,
       ownerVars
  <1> QED BY <1>7, <1>9, <1>10, <1>11

------------------------------------------------------------------------------
(* Steps that move one handle on and leave the finalized stack alone       *)

\* The span was held and is lost, or its AsyncSpan is on its way to the entry it
\* has, or it is filled in and retires.
LEMMA OneHandleMoves ==
  ASSUME IInv, NEW u \in Uids, NEW s,
         state' = [state EXCEPT ![u] = s], UNCHANGED <<finalized, ctx>>,
         \A v \in pending \ {u} : v \in pending',
         \/ /\ state[u] \in {"open", "moved"}
            /\ s \in {"moved", "lost", "misused", "leaked"}
         \/ /\ state[u] \in {"async", "upgraded"} /\ s \in {"upgraded", "writing", "panicked"}
            /\ UNCHANGED pending
         \/ state[u] = "written" /\ s = "done"
  PROVE  EntriesOnce' /\ EntriesTellState' /\ HasEntry'
  <1> USE DEF IInv
  <1>1. EntriesOnce'
    BY DEF EntriesOnce
  <1>2. EntriesTellState'
    <2> SUFFICES ASSUME NEW i \in DOMAIN finalized
                 PROVE  EntryTellsState(finalized[i])'
      BY DEF EntriesTellState
    <2>1. finalized[i].uid \in Uids /\ EntryTellsState(finalized[i])
      BY EntryType DEF EntriesTellState
    <2>2. CASE finalized[i].uid # u
      <3>1. state'[finalized[i].uid] = state[finalized[i].uid]
        BY <2>1, <2>2 DEF TypeOK
      <3> QED BY <2>1, <2>2, <3>1 DEF EntryTellsState
    <2>3. CASE finalized[i].uid = u
      <3>1. state'[finalized[i].uid] = s
        BY <2>3 DEF TypeOK
      <3> QED BY <2>1, <2>3, <3>1 DEF EntryTellsState
    <2> QED BY <2>2, <2>3
  <1>3. HasEntry'
    BY DEF HasEntry, TypeOK
  <1> QED BY <1>1, <1>2, <1>3

\* DropInactive and PrepareInactive: a panic, and the handle out of use.
LEMMA InactiveInv ==
  ASSUME IInv, NEW u \in Uids, DropInactive(u) \/ PrepareInactive(u)
  PROVE  IInv'
  <1> USE DEF IInv
  <1> PICK s \in {"moved", "misused"} : state' = [state EXCEPT ![u] = s]
    BY DEF DropInactive, PrepareInactive
  <1>1. /\ state[u] \in {"open", "moved"} /\ at = "run" /\ Panic
        /\ UNCHANGED <<ctxVars, stackVars, wgVars, at, closing, ctx, outVars, given>>
        /\ obj' = obj \/ (s = "misused" /\ obj' = [obj EXCEPT ![u] = None])
    BY DEF DropInactive, PrepareInactive, MayDrop, Running, TypeOK
  <1>2. state[u] = "open" \/ s # "moved"
    BY DEF DropInactive, PrepareInactive, TypeOK
  <1>3. TypeOK'
    <2>1. obj' \in [Uids -> SpanObject \union {None}]
      BY <1>1 DEF TypeOK
    <2>2. state' \in [Uids -> States]
      BY DEF TypeOK, States
    <2>3. mode' \in {"normal", "unwinding", "aborted"}
      BY <1>1 DEF Panic
    <2> QED BY <1>1, <2>1, <2>2, <2>3 DEF TypeOK, ctxVars, stackVars, wgVars, outVars
  <1>4. UnbornNew' /\ ClosingIsHeld' /\ ContextOnce'
    BY <1>1 DEF UnbornNew, ClosingIsHeld, ContextOnce, TypeOK, ctxVars, wgVars
  <1>5. HandleHasObj'
    BY <1>1, <1>2 DEF HandleHasObj, HasObj, TypeOK
  <1>6. EntriesOnce' /\ EntriesTellState' /\ HasEntry'
    BY <1>1, OneHandleMoves DEF stackVars, wgVars
  <1> QED BY <1>3, <1>4, <1>5, <1>6

\* DropContended and PrepareContended: popped, and not recorded.
LEMMA ContendedInv ==
  ASSUME IInv, NEW u \in Uids, DropContended(u) \/ PrepareContended(u)
  PROVE  IInv'
  <1> USE DEF IInv
  <1> PICK s \in {"lost", "leaked"} : state' = [state EXCEPT ![u] = s]
    BY DEF DropContended, PrepareContended
  <1>1. /\ state[u] \in {"open", "moved"} /\ at = "run" /\ active # <<>>
        /\ active' = SubSeq(active, 1, Len(active) - 1)
        /\ pending' = pending \/ pending' = pending \union {u}
        /\ UNCHANGED <<ctxVars, finalized, lock, waited, at, closing, ctx, outVars, given>>
        /\ obj' = obj \/ obj' = [obj EXCEPT ![u] = None]
        /\ mode' \in {"unwinding", "aborted"}
    BY DEF DropContended, PrepareContended, MayDrop, Running, IsActive, Panic, WG!Add, wgVars, TypeOK
  <1>2. active' \in Seq(ActiveSpan)
    BY <1>1, PopType
  <1>3. TypeOK'
    <2>1. pending' \in SUBSET Uids /\ obj' \in [Uids -> SpanObject \union {None}]
      BY <1>1 DEF TypeOK
    <2>2. state' \in [Uids -> States]
      BY DEF TypeOK, States
    <2> QED BY <1>1, <1>2, <2>1, <2>2 DEF TypeOK, ctxVars, outVars
  <1>4. UnbornNew' /\ ClosingIsHeld' /\ HandleHasObj'
    BY <1>1 DEF UnbornNew, ClosingIsHeld, HandleHasObj, HasObj, TypeOK, ctxVars
  <1>5. ContextOnce'
    BY <1>1 DEF ContextOnce
  <1>6. EntriesOnce' /\ EntriesTellState' /\ HasEntry'
    BY <1>1, OneHandleMoves
  <1> QED BY <1>3, <1>4, <1>5, <1>6

\* The drop of an AsyncSpan up to the lock, and after the entry is filled.
LEMMA AsyncMovesInv ==
  ASSUME IInv, NEW u \in Uids,
         AsyncUpgrade(u) \/ AsyncLock(u) \/ AsyncContended(u) \/ AsyncDone(u)
  PROVE  IInv'
  <1> USE DEF IInv
  <1> PICK s \in {"upgraded", "writing", "panicked", "done"} : state' = [state EXCEPT ![u] = s]
    BY DEF AsyncUpgrade, AsyncLock, AsyncContended, AsyncDone, AsyncStep
  <1>1. /\ UNCHANGED <<ctxVars, active, finalized, waited, obj, at, mode, closing, ctx, outVars,
                       given>>
        /\ lock' \in {lock, "async"}
        /\ \/ /\ state[u] \in {"async", "upgraded"} /\ s \in {"upgraded", "writing", "panicked"}
              /\ UNCHANGED pending
           \/ state[u] = "written" /\ s = "done" /\ pending' = pending \ {u}
    <2>1. CASE AsyncUpgrade(u)
      BY <2>1 DEF AsyncUpgrade, AsyncStep, ownerVars, TypeOK
    <2>2. CASE AsyncLock(u)
      BY <2>2 DEF AsyncLock, AsyncStep, ownerVars, TypeOK
    <2>3. CASE AsyncContended(u)
      BY <2>3 DEF AsyncContended, AsyncStep, ownerVars, TypeOK
    <2>4. CASE AsyncDone(u)
      BY <2>4 DEF AsyncDone, AsyncStep, ownerVars, TypeOK, WG!Done
    <2> QED BY <2>1, <2>2, <2>3, <2>4
  <1>2. TypeOK'
    BY <1>1 DEF TypeOK, States, ctxVars, outVars
  <1>3. UnbornNew' /\ HandleHasObj' /\ ClosingIsHeld'
    BY <1>1 DEF UnbornNew, ClosingIsHeld, HandleHasObj, HasObj, TypeOK, FinalizeSpan, ctxVars
  <1>4. ContextOnce'
    BY <1>1 DEF ContextOnce
  <1>5. EntriesOnce' /\ EntriesTellState' /\ HasEntry'
    BY <1>1, OneHandleMoves
  <1> QED BY <1>2, <1>3, <1>4, <1>5

------------------------------------------------------------------------------
(* Steps that write the finalized stack, or are about to                   *)

\* DropSpan and PrepareForAsync: popped, the lock obtained, the push to come.
LEMMA FinalizingInv ==
  ASSUME IInv, NEW u \in Uids, DropSpan(u) \/ PrepareForAsync(u)
  PROVE  IInv'
  <1> USE DEF IInv
  <1>1. /\ state[u] \in {"open", "moved"} /\ at = "run" /\ active # <<>> /\ at' = "finalizing"
        /\ HasObj(u) /\ IsActive(u)
        /\ active' = SubSeq(active, 1, Len(active) - 1) /\ lock' = "owner"
        /\ UNCHANGED <<ctxVars, finalized, waited, state, mode, ctx, outVars, given>>
    BY DEF DropSpan, PrepareForAsync, MayDrop, Running, IsActive, PopActive, WG!Add, wgVars,
       handleVars, HandleHasObj
  <1>2. active' \in Seq(ActiveSpan) /\ Top.ref \in Snapshots \union {None}
    BY <1>1, PopType DEF ActiveSpan
  <1>3. /\ closing' \in FinalizeSpan /\ closing'.uid = u
        /\ IF closing'.obj = None
           THEN u \in pending' /\ obj' = obj /\ pending' = pending \union {u}
           ELSE /\ closing'.obj.span_id = u /\ closing'.obj.ended
                /\ pending' = pending /\ obj' = [obj EXCEPT ![u] = None]
    <2>1. CASE DropSpan(u)
      <3>1. obj[u] # None /\ Ended(obj[u], Top.ref) \in SpanObject
        BY <1>1, <1>2, EndedType, ConstantsAssumption DEF HasObj
      <3>2. closing' = [uid |-> u, obj |-> Ended(obj[u], Top.ref), ref |-> None]
        BY <2>1, <3>1 DEF DropSpan, PopActive
      <3> QED BY <1>1, <1>2, <2>1, <3>1, <3>2, EndedType, ConstantsAssumption
              DEF DropSpan, FinalizeSpan, HasObj, wgVars
    <2>2. CASE PrepareForAsync(u)
      <3>1. closing' = [uid |-> u, obj |-> None, ref |-> Top.ref]
        BY <2>2 DEF PrepareForAsync, PopActive
      <3> QED BY <1>2, <2>2, <3>1 DEF PrepareForAsync, FinalizeSpan, WG!Add, handleVars
    <2> QED BY <2>1, <2>2
  <1>4. TypeOK'
    <2>1. pending' \in SUBSET Uids /\ obj' \in [Uids -> SpanObject \union {None}]
      BY <1>3 DEF TypeOK
    <2> QED BY <1>1, <1>2, <1>3, <2>1 DEF TypeOK, Points, ctxVars, outVars
  <1>5. UnbornNew' /\ ClosingIsHeld' /\ HandleHasObj'
    BY <1>1, <1>3 DEF UnbornNew, ClosingIsHeld, HandleHasObj, HasObj, TypeOK, ctxVars
  <1>6. ContextOnce' /\ EntriesOnce' /\ HasEntry'
    BY <1>1 DEF ContextOnce, EntriesOnce, HasEntry
  <1>7. EntriesTellState'
    BY <1>1, <1>3 DEF EntriesTellState, EntryTellsState
  <1> QED BY <1>4, <1>5, <1>6, <1>7

\* The entry of a closed span is pushed.
LEMMA FinalizePushInv ==
  ASSUME IInv, FinalizePush
  PROVE  IInv'
  <1> USE DEF IInv
  <1> DEFINE u == closing.uid
  <1> DEFINE s == IF closing.obj = None THEN "async" ELSE "closed"
  <1> DEFINE n == Len(finalized)
  <1>1. /\ closing \in FinalizeSpan /\ u \in Uids /\ state[u] \in {"open", "moved"}
        /\ IF closing.obj = None THEN u \in pending /\ HasObj(u)
                                 ELSE closing.obj.span_id = u /\ closing.obj.ended
    BY DEF FinalizePush, ClosingIsHeld, FinalizeSpan
  <1>2. /\ state' = [state EXCEPT ![u] = s] /\ at' = "run" /\ closing' = None /\ lock' = "free"
        /\ finalized' = Append(finalized, closing) /\ at = "finalizing"
        /\ UNCHANGED <<ctxVars, active, wgVars, obj, mode, ctx, outVars, given>>
    BY DEF FinalizePush
  <1>3. /\ finalized' \in Seq(FinalizeSpan) /\ n \in Nat
        /\ DOMAIN finalized = 1 .. n /\ DOMAIN finalized' = 1 .. (n + 1)
        /\ \A i \in 1 .. n : finalized'[i] = finalized[i]
        /\ finalized'[n + 1] = closing
    <2>1. finalized \in Seq(FinalizeSpan)
      BY DEF TypeOK
    <2>2. finalized' \in Seq(FinalizeSpan) /\ Len(finalized') = n + 1
      BY <1>1, <1>2, <2>1, AppendProperties
    <2> QED BY <1>1, <1>2, <2>1, <2>2, AppendProperties, LenProperties
  <1> HIDE DEF n
  <1>4. TypeOK'
    BY <1>1, <1>2, <1>3 DEF TypeOK, States, Points, ctxVars, wgVars, outVars
  <1>5. UnbornNew' /\ ClosingIsHeld' /\ ContextOnce'
    BY <1>1, <1>2 DEF UnbornNew, ClosingIsHeld, ContextOnce, TypeOK, ctxVars, wgVars
  <1>6. HandleHasObj'
    BY <1>1, <1>2 DEF HandleHasObj, HasObj, TypeOK
  <1>7. \A i \in 1 .. n : finalized[i].uid \in Uids /\ finalized[i].uid # u
    BY <1>1, <1>3, EntryType DEF EntriesTellState, EntryTellsState
  <1>8. EntriesOnce'
    <2> SUFFICES ASSUME NEW i \in 1 .. (n + 1), NEW j \in 1 .. (n + 1),
                        finalized'[i].uid = finalized'[j].uid
                 PROVE  i = j
      BY <1>3 DEF EntriesOnce
    <2>1. CASE i \in 1 .. n /\ j \in 1 .. n
      BY <1>3, <2>1 DEF EntriesOnce
    <2>2. CASE i = n + 1 \/ j = n + 1
      BY <1>3, <1>7, <2>2
    <2> QED BY <1>3, <2>1, <2>2
  <1>9. EntriesTellState'
    <2> SUFFICES ASSUME NEW i \in 1 .. (n + 1)
                 PROVE  EntryTellsState(finalized[i])'
      BY <1>3 DEF EntriesTellState
    <2>1. CASE i \in 1 .. n
      <3>1. state'[finalized[i].uid] = state[finalized[i].uid]
        BY <1>2, <1>7, <2>1 DEF TypeOK
      <3> QED BY <1>2, <1>3, <2>1, <3>1 DEF EntriesTellState, EntryTellsState, wgVars
    <2>2. CASE i = n + 1
      <3>1. state'[u] = s
        BY <1>1, <1>2 DEF TypeOK
      <3> QED BY <1>1, <1>2, <1>3, <2>2, <3>1 DEF EntryTellsState, wgVars
    <2> QED BY <1>3, <2>1, <2>2
  <1>10. HasEntry'
    <2> SUFFICES ASSUME ctx', NEW v \in Uids,
                        state'[v] \in {"async", "upgraded", "writing", "closed", "written", "done"}
                 PROVE  \E i \in 1 .. (n + 1) : finalized'[i].uid = v
      BY <1>3 DEF HasEntry
    <2>1. CASE v = u
      BY <1>3, <2>1
    <2>2. CASE v # u
      <3>1. \E i \in 1 .. n : finalized[i].uid = v
        BY <1>2, <1>3, <2>2 DEF HasEntry, TypeOK
      <3> QED BY <1>3, <3>1
    <2> QED BY <2>1, <2>2
  <1> QED BY <1>4, <1>5, <1>6, <1>8, <1>9, <1>10

\* The entry of u is filled in where it is, or u panics.
LEMMA AsyncWriteInv ==
  ASSUME IInv, NEW u \in Uids, AsyncWrite(u)
  PROVE  IInv'
  <1> USE DEF IInv
  <1> DEFINE n == Len(finalized)
  <1>1. finalized \in Seq(FinalizeSpan) /\ n \in Nat /\ DOMAIN finalized = 1 .. n
    BY LenProperties DEF TypeOK
  <1>2. /\ state[u] = "writing" /\ obj' = [obj EXCEPT ![u] = None] /\ lock' = "free"
        /\ UNCHANGED <<ctxVars, active, pending, waited, at, mode, closing, ctx, outVars, given>>
        /\ \E s \in {"written", "panicked"} : state' = [state EXCEPT ![u] = s]
    BY DEF AsyncWrite, AsyncStep, ownerVars
  <1>3. HasObj(u) /\ (at = "finalizing" => closing.uid # u /\ closing.uid \in Uids)
    BY <1>2 DEF HandleHasObj, ClosingIsHeld, FinalizeSpan
  <1>4. CASE \E i \in DOMAIN finalized : finalized[i].uid = u
    <2> DEFINE k == CHOOSE i \in DOMAIN finalized : finalized[i].uid = u
    <2> DEFINE e == [uid |-> u, obj |-> Ended(obj[u], finalized[k].ref), ref |-> None]
    <2>1. k \in 1 .. n /\ finalized[k].uid = u
      BY <1>1, <1>4
    <2>2. /\ state' = [state EXCEPT ![u] = "written"]
          /\ finalized' = [finalized EXCEPT ![k] = e]
      BY <1>4 DEF AsyncWrite, AsyncStep
    <2> HIDE DEF k
    <2>3. /\ Ended(obj[u], finalized[k].ref) \in SpanObject
          /\ e.obj.span_id = u /\ e.obj.ended
      BY <1>1, <1>3, <2>1, EntryType, EndedType DEF HasObj
    <2>4. e \in FinalizeSpan /\ e.uid = u /\ e.obj # None
      BY <2>3, ConstantsAssumption DEF FinalizeSpan
    <2> HIDE DEF e
    <2>5. /\ finalized' \in Seq(FinalizeSpan) /\ DOMAIN finalized' = 1 .. n
          /\ \A i \in 1 .. n : finalized'[i] = IF i = k THEN e ELSE finalized[i]
      <3>1. finalized' \in Seq(FinalizeSpan) /\ Len(finalized') = n
        BY <1>1, <2>1, <2>2, <2>4, ExceptSeq
      <3> QED BY <1>1, <2>1, <2>2, <2>4, <3>1, ExceptSeq, LenProperties
    <2> HIDE DEF n
    <2>6. TypeOK'
      BY <1>2, <2>2, <2>5 DEF TypeOK, States, ctxVars, outVars
    <2>7. UnbornNew' /\ ContextOnce'
      BY <1>2, <2>2 DEF UnbornNew, ContextOnce, TypeOK, ctxVars
    <2>8. HandleHasObj' /\ ClosingIsHeld'
      BY <1>2, <1>3, <2>2 DEF HandleHasObj, ClosingIsHeld, HasObj, TypeOK
    <2>9. \A i \in 1 .. n : finalized'[i].uid = finalized[i].uid
      BY <2>1, <2>4, <2>5
    <2>10. EntriesOnce' /\ HasEntry'
      BY <1>1, <1>2, <1>4, <2>2, <2>5, <2>9 DEF EntriesOnce, HasEntry, TypeOK
    <2>11. EntriesTellState'
      <3> SUFFICES ASSUME NEW i \in 1 .. n
                   PROVE  EntryTellsState(finalized[i])'
        BY <2>5 DEF EntriesTellState
      <3>1. CASE i = k
        BY <2>1, <2>2, <2>3, <2>4, <2>5, <3>1 DEF EntryTellsState, TypeOK
      <3>2. CASE i # k
        <4>1. finalized[i].uid # u /\ finalized[i].uid \in Uids
          BY <1>1, <2>1, <3>2, EntryType DEF EntriesOnce
        <4>2. state'[finalized[i].uid] = state[finalized[i].uid]
          BY <2>2, <4>1 DEF TypeOK
        <4> QED BY <1>1, <1>2, <2>5, <3>2, <4>2 DEF EntriesTellState, EntryTellsState
      <3> QED BY <3>1, <3>2
    <2> QED BY <2>6, <2>7, <2>8, <2>10, <2>11
  <1>5. CASE ~\E i \in DOMAIN finalized : finalized[i].uid = u
    <2>1. state' = [state EXCEPT ![u] = "panicked"] /\ finalized' = finalized
      BY <1>5 DEF AsyncWrite, AsyncStep
    <2>2. TypeOK'
      BY <1>2, <2>1 DEF TypeOK, States, ctxVars, outVars
    <2>3. UnbornNew' /\ ContextOnce' /\ HandleHasObj' /\ ClosingIsHeld'
      BY <1>2, <1>3, <2>1
         DEF UnbornNew, ContextOnce, HandleHasObj, ClosingIsHeld, HasObj, TypeOK, ctxVars
    <2>4. EntriesOnce' /\ HasEntry'
      BY <1>2, <2>1 DEF EntriesOnce, HasEntry, TypeOK
    <2>5. EntriesTellState'
      <3> SUFFICES ASSUME NEW i \in DOMAIN finalized
                   PROVE  EntryTellsState(finalized[i])'
        BY <2>1 DEF EntriesTellState
      <3>1. state'[finalized[i].uid] = state[finalized[i].uid]
        BY <1>5, <2>1, EntryType DEF TypeOK
      <3> QED BY <1>2, <2>1, <3>1 DEF EntriesTellState, EntryTellsState
    <2> QED BY <2>2, <2>3, <2>4, <2>5
  <1> QED BY <1>4, <1>5

------------------------------------------------------------------------------
(* The owner's own control, and the end of the context                     *)

\* Nothing but the owner's control state, the lock and the context's life.
LEMMA OwnerStepInv ==
  ASSUME IInv, OwnerStep, at # "finalizing", at' \in Points \ {"finalizing"},
         lock' \in {"free", "owner"} \/ lock' = lock,
         mode' \in {"normal", "unwinding", "aborted"},
         waited' \in BOOLEAN, ctx' \in BOOLEAN, ctx' => ctx, segment' = segment, ContextOnce'
  PROVE  IInv'
  <1> USE DEF IInv
  <1>1. TypeOK'
    BY DEF TypeOK, OwnerStep, ctxVars, handleVars
  <1>2. UnbornNew' /\ HandleHasObj' /\ ClosingIsHeld'
    BY DEF OwnerStep, UnbornNew, HandleHasObj, HasObj, ClosingIsHeld, ctxVars, handleVars
  <1>3. EntriesOnce' /\ EntriesTellState' /\ HasEntry'
    BY DEF OwnerStep, EntriesOnce, EntriesTellState, EntryTellsState, HasEntry, handleVars
  <1> QED BY <1>1, <1>2, <1>3

\* last_span, wait and the begin of the drop.
LEMMA OwnerControlInv ==
  ASSUME IInv, LastSpan \/ LastSpanEnd \/ Wait \/ WaitReturn \/ DropContext
  PROVE  IInv'
  <1> USE DEF IInv
  <1>1. CASE LastSpan
    BY <1>1, OwnerStepInv DEF LastSpan, Running, Panic, ContextOnce, OwnerStep, Points, TypeOK
  <1>2. CASE LastSpanEnd
    BY <1>2, OwnerStepInv DEF LastSpanEnd, ContextOnce, OwnerStep, Points, TypeOK
  <1>3. CASE Wait
    BY <1>3, OwnerStepInv DEF Wait, Running, ContextOnce, OwnerStep, Points, TypeOK
  <1>4. CASE WaitReturn
    BY <1>4, OwnerStepInv DEF WaitReturn, WG!Return, ContextOnce, OwnerStep, Points, TypeOK
  <1>5. CASE DropContext
    BY <1>5, OwnerStepInv DEF DropContext, Panic, ContextOnce, OwnerStep, Points, TypeOK
  <1> QED BY <1>1, <1>2, <1>3, <1>4, <1>5

\* The conversion to a segment.
LEMMA ConvertInv ==
  ASSUME IInv, Convert
  PROVE  IInv'
  <1> USE DEF IInv
  <1>1. segment' \in Segment \union {None}
    <2>1. CASE \E i \in DOMAIN finalized : finalized[i].obj = None
      BY <2>1 DEF Convert, TypeOK
    <2>2. CASE ~\E i \in DOMAIN finalized : finalized[i].obj = None
      <3> DEFINE spans == [i \in DOMAIN finalized |-> finalized[i].obj]
      <3>1. Len(finalized) \in Nat /\ DOMAIN finalized = 1 .. Len(finalized)
        BY LenProperties DEF TypeOK
      <3>2. \A i \in DOMAIN finalized : finalized[i].obj \in SpanObject
        BY <2>2, EntryType
      <3>3. spans \in [1 .. Len(finalized) -> SpanObject]
        BY <3>1, <3>2
      <3>4. spans \in Seq(SpanObject)
        BY <3>1, <3>3, SeqDef
      <3>5. segment' = [trace_id |-> trace_id, spans |-> spans]
        BY <2>2 DEF Convert
      <3>6. trace_id \in Refs \union {OwnTrace}
        BY DEF TypeOK
      <3> HIDE DEF spans
      <3> QED BY ONLY <3>4, <3>5, <3>6 DEF Segment
    <2> QED BY <2>1, <2>2
  <1>2. finalized' = <<>> /\ at = "converting" /\ at' = "run" /\ ctx' = FALSE
    BY DEF Convert
  <1>3. UNCHANGED <<ctxVars, active, wgVars, handleVars, closing, tracer, given>>
    BY DEF Convert
  <1>4. TypeOK'
    BY <1>1, <1>2, <1>3, EmptySeq
       DEF Convert, Panic, TypeOK, Points, ctxVars, wgVars, handleVars
  <1>5. UnbornNew' /\ HandleHasObj' /\ ClosingIsHeld'
    BY <1>2, <1>3 DEF UnbornNew, HandleHasObj, HasObj, ClosingIsHeld, ctxVars, handleVars
  <1>6. ContextOnce' /\ HasEntry'
    BY <1>2 DEF ContextOnce, HasEntry
  <1>7. EntriesOnce' /\ EntriesTellState'
    BY <1>2 DEF EntriesOnce, EntriesTellState
  <1> QED BY <1>4, <1>5, <1>6, <1>7

\* Every step keeps the invariant.
LEMMA NextInv == IInv /\ [Next]_vars => IInv'
  <1> SUFFICES ASSUME IInv, [Next]_vars PROVE IInv'
    OBVIOUS
  <1>1. CASE OwnerNext
    <2>1. CASE UserPanic
      BY <2>1, PanicInv DEF UserPanic
    <2>2. CASE CreateEntrySpan \/ CreateCommonSpan
               \/ \E p \in Props : CreateEntrySpanWithPropagation(p)
      BY <2>2, CreateInv
    <2>3. CASE \E s \in Snapshots : Continued(s)
      BY <2>3, ContinuedInv
    <2>4. ASSUME NEW u \in Uids, DropInactive(u) \/ PrepareInactive(u) PROVE IInv'
      BY <2>4, InactiveInv
    <2>5. ASSUME NEW u \in Uids, DropContended(u) \/ PrepareContended(u) PROVE IInv'
      BY <2>5, ContendedInv
    <2>6. ASSUME NEW u \in Uids, DropSpan(u) \/ PrepareForAsync(u) PROVE IInv'
      BY <2>6, FinalizingInv
    <2>7. CASE FinalizePush
      BY <2>7, FinalizePushInv
    <2>8. CASE LastSpan \/ LastSpanEnd \/ Wait \/ WaitReturn \/ DropContext
      BY <2>8, OwnerControlInv
    <2>9. CASE Convert
      BY <2>9, ConvertInv
    <2> QED BY <1>1, <2>1, <2>2, <2>3, <2>4, <2>5, <2>6, <2>7, <2>8, <2>9 DEF OwnerNext
  <1>2. ASSUME NEW u \in Uids, AsyncNext(u) \/ AddTag(u) PROVE IInv'
    BY <1>2, AsyncMovesInv, AsyncWriteInv, AddTagInv DEF AsyncNext
  <1>3. CASE DropTracer
    BY <1>3, DropTracerInv
  <1>4. CASE UNCHANGED vars
    <2>1. UNCHANGED coreVars /\ TypeOK'
      BY <1>4 DEF vars, coreVars, ctxVars, stackVars, wgVars, handleVars, ownerVars, outVars,
         IInv, TypeOK
    <2> QED BY <2>1, CoreUnchanged
  <1> QED BY <1>1, <1>2, <1>3, <1>4 DEF Next

------------------------------------------------------------------------------
(* Theorems                                                                *)

\* Every behaviour keeps the inductive invariant.
THEOREM Inductive == Spec => []IInv
  BY InitInv, NextInv, PTL DEF Spec

\* The types of the context, its stacks, the handles and the report.
THEOREM TypeCorrect == Spec => []TypeOK
  BY Inductive, PTL DEF IInv

\* After wait() has returned, the conversion of the context never meets an async
\* span that has not finished, in whatever threads and order they were dropped.
THEOREM WaitCorrect == Spec => []WaitedContextIsComplete
  <1>1. IInv => WaitedContextIsComplete
    BY DEF IInv, ContextOnce, EntriesTellState, EntryTellsState, WaitedContextIsComplete
  <1> QED BY <1>1, Inductive, PTL

\* Only the conversion changes the report, and it reports the finalized entries,
\* all of them filled.
LEMMA ReportStep ==
  ASSUME IInv, [Next]_vars, segment' # segment
  PROVE  /\ Convert /\ ctx
         /\ \A i \in DOMAIN finalized : finalized[i].obj # None
         /\ segment'.spans = [i \in DOMAIN finalized |-> finalized[i].obj]
  <1>1. Convert
    <2>1. CASE OwnerNext
      BY <2>1 DEF OwnerNext, CreateEntrySpan, CreateEntrySpanWithPropagation, CreateCommonSpan,
         OpenSpan, Continued, DropInactive, DropSpan, DropContended, PrepareInactive,
         PrepareForAsync, PrepareContended, FinalizePush, LastSpan, LastSpanEnd, Wait, WaitReturn,
         DropContext, UserPanic, outVars
    <2>2. ASSUME NEW u \in Uids, AsyncNext(u) \/ AddTag(u) PROVE FALSE
      BY <2>2 DEF AsyncNext, AsyncUpgrade, AsyncLock, AsyncContended, AsyncWrite, AsyncDone,
         AsyncStep, AddTag, outVars
    <2> QED BY <2>1, <2>2 DEF Next, DropTracer, vars, outVars
  <1>2. ctx
    BY <1>1 DEF Convert, IInv, ContextOnce
  <1> QED BY <1>1, <1>2 DEF Convert

\* A segment is never reported while an AsyncSpan that belongs to it is still at
\* work, whether or not the context was waited for.
THEOREM FinishedCorrect == Spec => ReportedMeansFinished
  <1>1. ASSUME IInv, [Next]_vars, segment' # segment, NEW u \in Uids
        PROVE  state[u] \notin {"async", "upgraded", "writing"}
    BY <1>1, ReportStep DEF IInv, HasEntry, EntriesTellState, EntryTellsState
  <1>2. IInv /\ [Next]_vars =>
          [segment' # segment =>
             \A u \in Uids : state[u] \notin {"async", "upgraded", "writing"}]_vars
    BY <1>1
  <1> QED BY <1>2, Inductive, PTL DEF Spec, ReportedMeansFinished

\* There is no report while the context exists, and no conversion in an aborted
\* process.
ReportOnce ==
  /\ ctx => segment = None
  /\ at = "converting" => ctx /\ mode # "aborted"

\* Every step keeps it, and only a report or a panic ends the context.
LEMMA ReportOnceStep ==
  ASSUME IInv, ReportOnce, [Next]_vars
  PROVE  ReportOnce' /\ (ctx' # ctx => segment' # segment \/ mode' # mode)
  <1> USE DEF ReportOnce
  <1>1. CASE Convert
    <2>1. ctx /\ segment = None /\ mode # "aborted"
      BY <1>1 DEF Convert
    <2>2. CASE \E i \in DOMAIN finalized : finalized[i].obj = None
      BY <1>1, <2>1, <2>2 DEF Convert, Panic
    <2>3. CASE ~(\E i \in DOMAIN finalized : finalized[i].obj = None)
      <3>1. ctx' = FALSE /\ at' = "run"
            /\ segment' = [trace_id |-> trace_id,
                           spans |-> [i \in DOMAIN finalized |-> finalized[i].obj]]
        BY <1>1, <2>3 DEF Convert
      <3>2. segment' \in Segment
        <4>1. trace_id \in Refs \union {OwnTrace}
          BY DEF IInv, TypeOK
        <4>2. Len(finalized) \in Nat /\ DOMAIN finalized = 1 .. Len(finalized)
          BY LenProperties DEF IInv, TypeOK
        <4>3. \A i \in DOMAIN finalized : finalized[i].obj \in SpanObject
          BY <2>3, EntryType DEF IInv, FinalizeSpan
        <4>4. [i \in DOMAIN finalized |-> finalized[i].obj] \in Seq(SpanObject)
          BY <4>2, <4>3
        <4> QED BY <3>1, <4>1, <4>4 DEF Segment
      <3>3. segment' # segment
        BY <2>1, <3>2, ConstantsAssumption
      <3> QED BY <3>1, <3>3
    <2> QED BY <2>2, <2>3
  <1>2. CASE DropContext
    BY <1>2 DEF DropContext, Panic
  <1>3. CASE OwnerNext /\ ~Convert /\ ~DropContext
    <2>1. UNCHANGED <<ctx, segment>> /\ at' # "converting"
      BY <1>3 DEF OwnerNext, CreateEntrySpan, CreateEntrySpanWithPropagation, CreateCommonSpan,
         OpenSpan, Continued, DropInactive, DropSpan, DropContended, PrepareInactive,
         PrepareForAsync, PrepareContended, FinalizePush, LastSpan, LastSpanEnd, Wait, WaitReturn,
         UserPanic, MayDrop, Running, outVars, ownerVars
    <2> QED BY <2>1
  <1>4. CASE ~OwnerNext
    <2>1. ASSUME NEW u \in Uids, AsyncNext(u) \/ AddTag(u) PROVE UNCHANGED <<ctx, segment, at, mode>>
      BY <2>1 DEF AsyncNext, AsyncUpgrade, AsyncLock, AsyncContended, AsyncWrite, AsyncDone,
         AsyncStep, AddTag, outVars, ownerVars
    <2>2. UNCHANGED <<ctx, segment, at, mode>>
      BY <1>4, <2>1 DEF Next, DropTracer, vars, outVars, ownerVars
    <2> QED BY <2>2
  <1> QED BY <1>1, <1>2, <1>3, <1>4

\* The report is exact: each span whose object was handed over, by the owner or
\* by another thread, is in it once and ended, and nothing else is. And the context
\* never goes without either its report or a panic.
THEOREM ReportCorrect == Spec => ReportIsExact
  <1>1. ASSUME IInv, [Next]_vars, segment' # segment
        PROVE  /\ Len(segment'.spans) = Len(finalized)
               /\ {segment'.spans[i].span_id : i \in DOMAIN finalized} = Recorded
               /\ \A i, j \in DOMAIN finalized :
                    segment'.spans[i].span_id = segment'.spans[j].span_id => i = j
               /\ \A i \in DOMAIN finalized : segment'.spans[i].ended
    <2>1. \A i \in DOMAIN finalized :
            /\ segment'.spans[i] = finalized[i].obj
            /\ finalized[i].obj.span_id = finalized[i].uid /\ finalized[i].obj.ended
            /\ finalized[i].uid \in Recorded
      BY <1>1, ReportStep, EntryType DEF IInv, EntriesTellState, EntryTellsState, Recorded
    <2>2. Len(segment'.spans) = Len(finalized)
      <3>1. Len(finalized) \in Nat /\ DOMAIN finalized = 1 .. Len(finalized)
        BY <1>1, LenProperties DEF IInv, TypeOK
      <3>2. segment'.spans = [i \in 1 .. Len(finalized) |-> finalized[i].obj]
        BY <1>1, <3>1, ReportStep
      <3> QED BY <3>1, <3>2
    <2>3. \A u \in Recorded : \E i \in DOMAIN finalized : finalized[i].uid = u
      BY <1>1, ReportStep DEF IInv, HasEntry, Recorded
    <2>4. {segment'.spans[i].span_id : i \in DOMAIN finalized} = Recorded
      BY <2>1, <2>3
    <2>5. \A i, j \in DOMAIN finalized :
            segment'.spans[i].span_id = segment'.spans[j].span_id => i = j
      BY <1>1, <2>1 DEF IInv, EntriesOnce
    <2> QED BY <2>1, <2>2, <2>4, <2>5
  <1>2. IInv /\ ReportOnce /\ [Next]_vars =>
          [/\ segment' # segment =>
                /\ Len(segment'.spans) = Len(finalized)
                /\ {segment'.spans[i].span_id : i \in DOMAIN finalized} = Recorded
                /\ \A i, j \in DOMAIN finalized :
                     segment'.spans[i].span_id = segment'.spans[j].span_id => i = j
                /\ \A i \in DOMAIN finalized : segment'.spans[i].ended
           /\ ctx' # ctx => segment' # segment \/ mode' # mode]_vars
    BY <1>1, ReportOnceStep
  <1>3. Init => ReportOnce
    BY DEF Init, ReportOnce
  <1>4. IInv /\ ReportOnce /\ [Next]_vars => ReportOnce'
    BY ReportOnceStep
  <1> QED BY <1>2, <1>3, <1>4, Inductive, PTL DEF Spec, ReportIsExact

------------------------------------------------------------------------------
(* What a step does to the spans                                           *)

\* Nothing: the owner's control, a panic, the tracer.
Quiet ==
  /\ UNCHANGED <<active, finalized, state, obj, given, segment, span_uid_generator, closing>>
  /\ at = "finalizing" <=> at' = "finalizing"

\* A span is created on top of the active one.
Opened(refs) ==
  LET g == span_uid_generator
  IN  /\ g \in Uids /\ state[g] = "new" /\ g' = g + 1
      /\ at = "run" /\ UNCHANGED <<at, closing, finalized, given, segment>>
      /\ active' = Append(active, [uid |-> g, span_id |-> g, ref |-> None])
      /\ state' = [state EXCEPT ![g] = "open"]
      /\ obj' = [obj EXCEPT ![g] = [span_id |-> g, parent_span_id |-> PeekActiveSpanId,
                                    refs |-> refs, tags |-> 0, ended |-> FALSE]]

\* A span in somebody's hands gets a tag, the active one a link.
Tagged(u) ==
  /\ state[u] \in {"open", "async"} /\ HasObj(u) /\ (state[u] = "open" => at = "run")
  /\ obj' = [obj EXCEPT ![u].tags = @ + 1]
  /\ given' = [given EXCEPT ![u].tags = @ + 1]
  /\ UNCHANGED <<active, finalized, state, segment, span_uid_generator, at, closing>>

Linked(s) ==
  /\ at = "run" /\ active # <<>>
  /\ active' = [active EXCEPT ![Len(active)] = [Top EXCEPT !.ref = s]]
  /\ given' = [given EXCEPT ![Top.uid].link = s]
  /\ UNCHANGED <<finalized, state, obj, segment, span_uid_generator, at, closing>>

\* A span that is not the active one is dropped or prepared.
OutOfTurn(u) ==
  /\ at = "run" /\ state[u] \in {"open", "moved"}
  /\ \/ state' = [state EXCEPT ![u] = "misused"] /\ obj' = [obj EXCEPT ![u] = None]
     \/ state' = [state EXCEPT ![u] = "moved"] /\ obj' = obj
  /\ UNCHANGED <<active, finalized, given, segment, span_uid_generator, at, closing>>

\* The active span is popped: lost, to be pushed with its object, or without.
Popped(u) ==
  /\ at = "run" /\ state[u] \in {"open", "moved"} /\ IsActive(u) /\ HasObj(u)
  /\ active' = SubSeq(active, 1, Len(active) - 1)
  /\ UNCHANGED <<finalized, given, segment, span_uid_generator>>
  /\ \/ /\ \E s \in {"lost", "leaked"} : state' = [state EXCEPT ![u] = s]
        /\ obj' \in {obj, [obj EXCEPT ![u] = None]}
        /\ UNCHANGED <<at, closing>>
     \/ /\ at' = "finalizing" /\ state' = state
        /\ \/ /\ closing' = [uid |-> u, obj |-> Ended(obj[u], Top.ref), ref |-> None]
              /\ obj' = [obj EXCEPT ![u] = None]
           \/ /\ closing' = [uid |-> u, obj |-> None, ref |-> Top.ref]
              /\ obj' = obj

Pushed ==
  /\ at = "finalizing" /\ at' = "run"
  /\ finalized' = Append(finalized, closing)
  /\ state' = [state EXCEPT ![closing.uid] = IF closing.obj = None THEN "async" ELSE "closed"]
  /\ UNCHANGED <<active, obj, given, segment, span_uid_generator>>

\* An AsyncSpan is on its way to its entry, or retires, or fills the entry.
AsyncMoved(u) ==
  /\ \/ /\ state[u] \in {"async", "upgraded"}
        /\ \E s \in {"upgraded", "writing", "panicked"} : state' = [state EXCEPT ![u] = s]
     \/ state[u] = "written" /\ state' = [state EXCEPT ![u] = "done"]
  /\ UNCHANGED <<active, finalized, obj, given, segment, span_uid_generator, at, closing>>

Filled(u) ==
  /\ state[u] = "writing" /\ HasObj(u)
  /\ obj' = [obj EXCEPT ![u] = None]
  /\ \/ \E k \in DOMAIN finalized :
          /\ finalized[k].uid = u
          /\ state' = [state EXCEPT ![u] = "written"]
          /\ finalized' = [finalized EXCEPT
               ![k] = [uid |-> u, obj |-> Ended(obj[u], finalized[k].ref), ref |-> None]]
     \/ /\ \A k \in DOMAIN finalized : finalized[k].uid # u
        /\ state' = [state EXCEPT ![u] = "panicked"] /\ finalized' = finalized
  /\ UNCHANGED <<active, given, segment, span_uid_generator, at, closing>>

Converted ==
  /\ at = "converting" /\ at' = "run" /\ finalized' = <<>>
  /\ \/ segment' = segment
     \/ /\ \A i \in DOMAIN finalized : finalized[i].obj # None
        /\ segment' = [trace_id |-> trace_id,
                       spans |-> [i \in DOMAIN finalized |-> finalized[i].obj]]
  /\ UNCHANGED <<active, state, obj, given, span_uid_generator, closing>>

\* Every step is one of these.
LEMMA Effects ==
  ASSUME IInv, [Next]_vars
  PROVE  \/ Quiet \/ Pushed \/ Converted
         \/ \E refs \in {<<>>} \union {<<p>> : p \in Props} : Opened(refs)
         \/ \E s \in Snapshots : Linked(s)
         \/ \E u \in Uids : Tagged(u) \/ OutOfTurn(u) \/ Popped(u) \/ AsyncMoved(u) \/ Filled(u)
<1> DEFINE Goal == \/ Quiet \/ Pushed \/ Converted
                   \/ \E refs \in {<<>>} \union {<<p>> : p \in Props} : Opened(refs)
                   \/ \E s \in Snapshots : Linked(s)
                   \/ \E u \in Uids : \/ Tagged(u) \/ OutOfTurn(u) \/ Popped(u)
                                      \/ AsyncMoved(u) \/ Filled(u)
<1>0. SUFFICES Goal
  OBVIOUS
<1>1. CASE UNCHANGED vars \/ DropTracer \/ UserPanic
  <2>1. Quiet
    BY <1>1 DEF Quiet, vars, DropTracer, UserPanic, ctxVars, stackVars, wgVars, handleVars,
       ownerVars, outVars
  <2> QED BY <2>1
<1>2. CASE LastSpan \/ LastSpanEnd \/ Wait \/ WaitReturn \/ DropContext
  <2>1. Quiet
    BY <1>2 DEF Quiet, LastSpan, LastSpanEnd, Wait, WaitReturn, DropContext, OwnerStep, Running,
       ctxVars, handleVars
  <2> QED BY <2>1
<1>3. ASSUME NEW refs \in {<<>>} \union {<<p>> : p \in Props},
             Running, OpenSpan(PeekActiveSpanId, refs)
      PROVE  Goal
  <2>1. /\ span_uid_generator \in Uids /\ next_span_id = span_uid_generator
        /\ state[span_uid_generator] = "new"
    BY <1>3, ConstantsAssumption DEF OpenSpan, IInv, UnbornNew, TypeOK, Uids
  <2>2. Opened(refs)
    BY <1>3, <2>1 DEF Opened, OpenSpan, Running, ownerVars, outVars
  <2> QED BY <2>2
<1>4. CASE CreateEntrySpan \/ CreateCommonSpan \/ \E p \in Props : CreateEntrySpanWithPropagation(p)
  <2>1. CASE CreateEntrySpan
    BY <1>3, <2>1 DEF CreateEntrySpan
  <2>2. CASE \E p \in Props : CreateEntrySpanWithPropagation(p)
    BY <1>3, <2>2 DEF CreateEntrySpanWithPropagation
  <2>3. CASE CreateCommonSpan
    <3>1. CASE next_span_id = 0
      <4>1. Quiet
        BY <2>3, <3>1 DEF CreateCommonSpan, Quiet, ctxVars, stackVars, handleVars, outVars
      <4> QED BY <4>1
    <3>2. CASE next_span_id # 0
      BY <1>3, <2>3, <3>2 DEF CreateCommonSpan
    <3> QED BY <3>1, <3>2
  <2> QED BY <1>4, <2>1, <2>2, <2>3
<1>5. ASSUME NEW s \in Snapshots, Continued(s) PROVE Goal
  <2>1. CASE tracer /\ active # <<>>
    <3>1. Linked(s)
      BY <1>5, <2>1 DEF Continued, Linked, Running, Top, handleVars, outVars
    <3> QED BY <3>1
  <2>2. CASE ~tracer \/ active = <<>>
    <3>1. Quiet
      BY <1>5, <2>2 DEF Continued, Quiet, handleVars, outVars
    <3> QED BY <3>1
  <2> QED BY <2>1, <2>2
<1>6. ASSUME NEW u \in Uids, DropInactive(u) \/ PrepareInactive(u) PROVE Goal
  <2>1. OutOfTurn(u)
    BY <1>6 DEF OutOfTurn, DropInactive, PrepareInactive, MayDrop, Running, ctxVars, stackVars,
       outVars
  <2> QED BY <2>1
<1>7. ASSUME NEW u \in Uids,
             DropSpan(u) \/ DropContended(u) \/ PrepareForAsync(u) \/ PrepareContended(u)
      PROVE  Goal
  <2>1. at = "run" /\ state[u] \in {"open", "moved"} /\ IsActive(u)
    BY <1>7 DEF DropSpan, DropContended, PrepareForAsync, PrepareContended, MayDrop, Running
  <2>2. HasObj(u) /\ obj[u] # None
    BY <2>1, ConstantsAssumption DEF IInv, HandleHasObj, HasObj
  <2>3. CASE DropSpan(u)
    <3>1. Popped(u)
      BY <2>1, <2>2, <2>3 DEF DropSpan, PopActive, Popped, ctxVars, outVars
    <3> QED BY <3>1
  <2>4. CASE DropContended(u) \/ PrepareContended(u)
    <3>1. Popped(u)
      BY <2>1, <2>2, <2>4 DEF DropContended, PrepareContended, Popped, ctxVars, outVars
    <3> QED BY <3>1
  <2>5. CASE PrepareForAsync(u)
    <3>1. Popped(u)
      BY <2>1, <2>2, <2>5 DEF PrepareForAsync, PopActive, Popped, ctxVars, handleVars, outVars
    <3> QED BY <3>1
  <2> QED BY <1>7, <2>3, <2>4, <2>5
<1>8. CASE FinalizePush
  <2>1. Pushed
    BY <1>8 DEF FinalizePush, Pushed, ctxVars, outVars
  <2> QED BY <2>1
<1>9. CASE Convert
  <2>1. Converted
    BY <1>9 DEF Convert, Converted, ctxVars, handleVars
  <2> QED BY <2>1
<1>10. ASSUME NEW u \in Uids, AddTag(u) PROVE Goal
  <2>1. Tagged(u)
    BY <1>10 DEF AddTag, Tagged, Running, IInv, HandleHasObj, ctxVars, stackVars, ownerVars, outVars
  <2> QED BY <2>1
<1>11. ASSUME NEW u \in Uids,
              AsyncUpgrade(u) \/ AsyncLock(u) \/ AsyncContended(u) \/ AsyncDone(u)
       PROVE  Goal
  <2>1. AsyncMoved(u)
    BY <1>11 DEF AsyncMoved, AsyncUpgrade, AsyncLock, AsyncContended, AsyncDone, AsyncStep,
       ctxVars, ownerVars, outVars
  <2> QED BY <2>1
<1>12. ASSUME NEW u \in Uids, AsyncWrite(u) PROVE Goal
  <2>1. state[u] = "writing" /\ HasObj(u)
    BY <1>12 DEF AsyncWrite, IInv, HandleHasObj
  <2>2. Filled(u)
    BY <1>12, <2>1 DEF AsyncWrite, AsyncStep, Filled, ctxVars, ownerVars, outVars
  <2> QED BY <2>2
<1> HIDE DEF Goal
<1> QED
  BY <1>1, <1>2, <1>4, <1>5, <1>6, <1>7, <1>8, <1>9, <1>10, <1>11, <1>12
     DEF Next, OwnerNext, AsyncNext

------------------------------------------------------------------------------
(* The active stack                                                        *)

\* A span that is held and has not been popped.
Held(u) == state[u] \in {"open", "moved"} /\ ~(at = "finalizing" /\ closing.uid = u)

\* The stack holds spans in the order of their creation, and every held one: the
\* only others on it are those that were dropped out of turn.
StackInv ==
  /\ \A i \in DOMAIN active :
       /\ active[i].span_id = active[i].uid /\ active[i].uid < span_uid_generator
       /\ Held(active[i].uid) \/ state[active[i].uid] = "misused"
  /\ \A i, j \in DOMAIN active : i < j => active[i].uid < active[j].uid
  /\ \A u \in Uids : Held(u) => \E i \in DOMAIN active : active[i].uid = u

\* The active stack is a sequence of active spans.
LEMMA ActiveType ==
  ASSUME TypeOK
  PROVE  /\ active \in Seq(ActiveSpan) /\ Len(active) \in Nat /\ DOMAIN active = 1 .. Len(active)
         /\ active # <<>> => Len(active) > 0
         /\ \A i \in DOMAIN active : /\ active[i] \in ActiveSpan /\ active[i].uid \in Uids
                                     /\ active[i].span_id \in Uids
                                     /\ active[i].ref \in Snapshots \union {None}
<1>1. active \in Seq(ActiveSpan) /\ Len(active) \in Nat /\ DOMAIN active = 1 .. Len(active)
  BY LenProperties DEF TypeOK
<1>2. active # <<>> => Len(active) > 0
  BY <1>1, EmptySeq
<1>3. \A i \in DOMAIN active : active[i] \in ActiveSpan
  BY <1>1, ElementOfSeq
<1> QED
  BY <1>1, <1>2, <1>3 DEF ActiveSpan

\* The stack as it was: no span becomes held, none of those on it goes.
LEMMA StackSame ==
  ASSUME TypeOK, StackInv, DOMAIN active' = DOMAIN active, span_uid_generator' = span_uid_generator,
         \A i \in DOMAIN active : /\ active'[i].uid = active[i].uid
                                  /\ active'[i].span_id = active[i].span_id,
         \A u \in Uids : /\ Held(u)' => Held(u)
                         /\ Held(u) \/ state[u] = "misused" => Held(u)' \/ state'[u] = "misused"
  PROVE  StackInv'
<1>1. ASSUME NEW i \in DOMAIN active'
      PROVE  /\ active'[i].span_id = active'[i].uid /\ active'[i].uid < span_uid_generator'
             /\ (Held(active[i].uid) \/ state[active[i].uid] = "misused")'
  <2>1. PICK v \in Uids : v = active[i].uid
    BY ActiveType
  <2>2. Held(v) \/ state[v] = "misused"
    BY <2>1 DEF StackInv
  <2>3. Held(v)' \/ state'[v] = "misused"
    BY <2>2
  <2>4. active'[i].uid = v /\ active'[i].span_id = v /\ v < span_uid_generator
    BY <2>1 DEF StackInv
  <2> QED
    BY <2>3, <2>4 DEF Held
<1>2. \A i, j \in DOMAIN active' : i < j => active'[i].uid < active'[j].uid
  BY DEF StackInv
<1>3. \A u \in Uids : Held(u)' => \E i \in DOMAIN active' : active'[i].uid = u
  BY DEF StackInv
<1> QED
  BY <1>1, <1>2, <1>3 DEF StackInv

\* A span opened goes on top, younger than the others.
LEMMA StackOpened ==
  ASSUME IInv, StackInv, NEW refs, Opened(refs)
  PROVE  StackInv'
<1>1. PICK g \in Uids : g = span_uid_generator
  BY DEF Opened
<1>2. PICK n \in Nat : n = Len(active)
  BY ActiveType DEF IInv
<1> DEFINE e == [uid |-> g, span_id |-> g, ref |-> None]
<1>3. /\ DOMAIN active = 1 .. n /\ active \in Seq(ActiveSpan)
      /\ \A i \in 1 .. n : active[i].uid \in Uids /\ active[i].uid < g
  BY <1>1, <1>2, ActiveType DEF IInv, StackInv
<1>4. active' = Append(active, e) /\ e \in ActiveSpan
  BY <1>1 DEF Opened, ActiveSpan
<1>5. /\ DOMAIN active' = 1 .. (n + 1) /\ active'[n + 1] = e
      /\ \A i \in 1 .. n : active'[i] = active[i]
  BY <1>2, <1>3, <1>4
<1>6. active'[n + 1].uid = g /\ active'[n + 1].span_id = g
  BY <1>5
<1> HIDE DEF e
<1>7. /\ span_uid_generator' = g + 1 /\ state[g] = "new" /\ at' = "run" /\ at = "run"
      /\ state' = [state EXCEPT ![g] = "open"] /\ state \in [Uids -> States]
  BY <1>1 DEF Opened, IInv, TypeOK
<1>8. \A u \in Uids : /\ u # g => (Held(u)' <=> Held(u)) /\ state'[u] = state[u]
                      /\ u = g => Held(u)' /\ state'[u] = "open"
  BY <1>7 DEF Held
<1>9. g \in Nat /\ \A u \in Uids : u \in Nat
  BY ConstantsAssumption DEF Uids
<1>10. ASSUME NEW i \in DOMAIN active'
       PROVE  /\ active'[i].span_id = active'[i].uid /\ active'[i].uid < span_uid_generator'
              /\ (Held(active[i].uid) \/ state[active[i].uid] = "misused")'
  <2>1. CASE i = n + 1
    BY <2>1, <1>6, <1>7, <1>8, <1>9 DEF Held
  <2>2. CASE i \in 1 .. n
    <3>1. PICK v \in Uids : v = active[i].uid
      BY <1>3, <2>2
    <3>2. /\ v < g /\ (Held(v) \/ state[v] = "misused") /\ active[i].span_id = v
      BY <1>3, <2>2, <3>1 DEF StackInv
    <3>3. Held(v)' \/ state'[v] = "misused"
      BY <1>8, <1>9, <3>2
    <3> QED
      BY <1>5, <1>7, <1>9, <2>2, <3>1, <3>2, <3>3 DEF Held
  <2> QED BY <1>5, <2>1, <2>2
<1>11. \A i, j \in DOMAIN active' : i < j => active'[i].uid < active'[j].uid
  BY <1>3, <1>5, <1>6 DEF StackInv
<1>12. ASSUME NEW u \in Uids, Held(u)' PROVE \E i \in DOMAIN active' : active'[i].uid = u
  <2>1. CASE u = g
    BY <1>5, <1>6, <2>1
  <2>2. CASE u # g
    <3>1. \E i \in 1 .. n : active[i].uid = u
      BY <1>3, <1>8, <1>12, <2>2 DEF StackInv
    <3> QED BY <1>5, <3>1
  <2> QED BY <2>1, <2>2
<1> QED
  BY <1>10, <1>11, <1>12 DEF StackInv

\* The stack after a pop.
LEMMA PopFacts ==
  ASSUME IInv, NEW u \in Uids, Popped(u)
  PROVE  /\ Len(active) \in Nat /\ Len(active) > 0 /\ DOMAIN active = 1 .. Len(active)
         /\ DOMAIN active' = 1 .. (Len(active) - 1) /\ Len(active') = Len(active) - 1
         /\ \A i \in 1 .. (Len(active) - 1) : active'[i] = active[i]
         /\ active[Len(active)].uid = u /\ Top = active[Len(active)]
         /\ Top.ref \in Snapshots \union {None}
<1>1. /\ active # <<>> /\ Top.uid = u /\ active' = SubSeq(active, 1, Len(active) - 1)
  BY DEF Popped, IsActive
<1>2. /\ active \in Seq(ActiveSpan) /\ Len(active) \in Nat /\ Len(active) > 0
      /\ DOMAIN active = 1 .. Len(active)
  BY <1>1, ActiveType DEF IInv
<1>3. Top.ref \in Snapshots \union {None}
  BY <1>2, ActiveType DEF IInv, Top
<1> QED
  BY <1>1, <1>2, <1>3 DEF Top

\* The youngest is closed.
LEMMA StackPopped ==
  ASSUME IInv, StackInv, NEW u \in Uids, Popped(u)
  PROVE  StackInv'
<1>1. PICK n \in Nat : n = Len(active)
  BY PopFacts
<1>2. /\ n > 0 /\ DOMAIN active = 1 .. n /\ DOMAIN active' = 1 .. (n - 1)
      /\ \A i \in 1 .. (n - 1) : active'[i] = active[i]
      /\ active[n].uid = u
  BY <1>1, PopFacts
<1>3. \A i \in 1 .. (n - 1) : active[i].uid # u /\ active[i].uid \in Uids /\ active[i].uid \in Nat
  <2>1. \A v \in Uids : v \in Nat
    BY ConstantsAssumption DEF Uids
  <2> QED
    BY <1>2, <2>1, ActiveType DEF IInv, StackInv
<1>4. \A v \in Uids : /\ v # u => (Held(v)' <=> Held(v)) /\ state'[v] = state[v]
                      /\ v = u => ~Held(v)'
  <2>1. CASE at' = "finalizing"
    BY <2>1 DEF Popped, Held, IInv, TypeOK
  <2>2. CASE at' # "finalizing"
    BY <2>2 DEF Popped, Held, IInv, TypeOK
  <2> QED BY <2>1, <2>2
<1>5. ASSUME NEW i \in 1 .. (n - 1)
      PROVE  /\ active'[i].span_id = active'[i].uid /\ active'[i].uid < span_uid_generator'
             /\ (Held(active[i].uid) \/ state[active[i].uid] = "misused")'
  <2>1. PICK v \in Uids : v = active[i].uid
    BY <1>3
  <2>2. /\ v # u /\ (Held(v) \/ state[v] = "misused") /\ active[i].span_id = v
        /\ v < span_uid_generator
    BY <1>2, <1>3, <2>1 DEF StackInv
  <2>3. Held(v)' \/ state'[v] = "misused"
    BY <1>4, <2>2
  <2>4. active'[i].uid = v /\ active'[i].span_id = v /\ span_uid_generator' = span_uid_generator
    BY <1>2, <2>1, <2>2 DEF Popped
  <2> QED
    BY <2>2, <2>3, <2>4 DEF Held
<1>6. \A i, j \in 1 .. (n - 1) : i < j => active'[i].uid < active'[j].uid
  BY <1>2 DEF StackInv
<1>7. ASSUME NEW v \in Uids, Held(v)' PROVE \E i \in 1 .. (n - 1) : active'[i].uid = v
  <2>1. v # u /\ Held(v)
    BY <1>4, <1>7
  <2>2. PICK i \in 1 .. n : active[i].uid = v
    BY <1>2, <2>1 DEF StackInv
  <2>3. i \in 1 .. (n - 1)
    BY <1>2, <2>1, <2>2
  <2> QED BY <1>2, <2>2, <2>3
<1> QED
  BY <1>2, <1>5, <1>6, <1>7 DEF StackInv

\* Every step keeps the stack.
LEMMA StackStep ==
  ASSUME IInv, StackInv, [Next]_vars
  PROVE  StackInv'
<1>1. TypeOK /\ state \in [Uids -> States]
  BY DEF IInv, TypeOK
<1>2. CASE Quiet \/ Converted
  <2>1. \A u \in Uids : (Held(u)' <=> Held(u)) /\ state'[u] = state[u]
    BY <1>2 DEF Quiet, Converted, Held
  <2> QED
    BY <1>1, <1>2, <2>1, StackSame DEF Quiet, Converted
<1>3. CASE Pushed
  <2>1. closing.uid \in Uids /\ state[closing.uid] \in {"open", "moved"}
    BY <1>3 DEF Pushed, IInv, ClosingIsHeld, FinalizeSpan
  <2>2. \A u \in Uids : /\ Held(u)' <=> Held(u)
                        /\ state[u] = "misused" => state'[u] = "misused"
    BY <1>1, <1>3, <2>1 DEF Pushed, Held
  <2> QED
    BY <1>1, <1>3, <2>2, StackSame DEF Pushed
<1>4. ASSUME NEW s \in Snapshots, Linked(s) PROVE StackInv'
  <2>1. PICK n \in Nat \ {0} : n = Len(active) /\ DOMAIN active = 1 .. n
    BY <1>1, <1>4, ActiveType DEF Linked
  <2>2. active[n] \in ActiveSpan /\ Top = active[n]
    BY <1>1, <2>1, ActiveType DEF Top
  <2>3. /\ DOMAIN active' = DOMAIN active
        /\ \A i \in DOMAIN active : /\ active'[i].uid = active[i].uid
                                    /\ active'[i].span_id = active[i].span_id
    BY <1>4, <2>1, <2>2 DEF Linked, ActiveSpan
  <2>4. \A u \in Uids : (Held(u)' <=> Held(u)) /\ state'[u] = state[u]
    BY <1>4 DEF Linked, Held
  <2> QED
    BY <1>1, <1>4, <2>3, <2>4, StackSame DEF Linked
<1>5. ASSUME NEW u \in Uids, Tagged(u) \/ OutOfTurn(u) \/ AsyncMoved(u) \/ Filled(u)
      PROVE  StackInv'
  <2>1. \A v \in Uids : /\ Held(v)' => Held(v)
                        /\ Held(v) \/ state[v] = "misused" => Held(v)' \/ state'[v] = "misused"
    <3>1. CASE Tagged(u)
      BY <3>1 DEF Tagged, Held
    <3>2. CASE OutOfTurn(u)
      BY <1>1, <3>2 DEF OutOfTurn, Held
    <3>3. CASE AsyncMoved(u)
      BY <1>1, <3>3 DEF AsyncMoved, Held
    <3>4. CASE Filled(u)
      BY <1>1, <3>4 DEF Filled, Held
    <3> QED BY <1>5, <3>1, <3>2, <3>3, <3>4
  <2>2. UNCHANGED <<active, span_uid_generator>>
    BY <1>5 DEF Tagged, OutOfTurn, AsyncMoved, Filled
  <2> QED
    BY <1>1, <2>1, <2>2, StackSame
<1> QED
  BY <1>2, <1>3, <1>4, <1>5, Effects, StackOpened, StackPopped

------------------------------------------------------------------------------
(* The lock of the finalized stack, and unwinding                          *)

\* The lock is held by the owner inside an operation on the stack, or by the one
\* AsyncSpan that writes.
LockInv ==
  /\ lock = "owner" <=> at \in {"finalizing", "reading", "converting"}
  /\ lock = "async" <=> \E u \in Uids : state[u] = "writing"
  /\ \A u, v \in Uids : state[u] = "writing" /\ state[v] = "writing" => u = v

\* The span inside a prepare_for_async that panicked goes first when the owner
\* unwinds, so none is left when the context is dropped.
MovedInv ==
  /\ \A u \in Uids : state[u] = "moved" =>
       mode # "normal" /\ at \notin {"reading", "waiting", "waited", "converting"}
  /\ at \in {"reading", "waiting", "waited"} => mode = "normal"

\* Every step keeps the lock.
LEMMA LockStep ==
  ASSUME IInv, LockInv, [Next]_vars
  PROVE  LockInv'
<1> USE DEF LockInv
<1>1. state \in [Uids -> States]
  BY DEF IInv, TypeOK
<1>2. CASE UNCHANGED <<lock, at, state>>
  BY <1>2
<1>3. ASSUME NEW u \in Uids, UNCHANGED <<lock, at>>, NEW s \in States \ {"writing"},
             state[u] # "writing", state' = [state EXCEPT ![u] = s]
      PROVE  LockInv'
  <2>1. \A v \in Uids : state'[v] = "writing" <=> state[v] = "writing"
    BY <1>1, <1>3
  <2> QED BY <1>3, <2>1
<1>4. CASE CreateEntrySpan \/ CreateCommonSpan \/ \E p \in Props : CreateEntrySpanWithPropagation(p)
  <2>1. CASE UNCHANGED <<lock, at, state>>
    BY <1>2, <2>1
  <2>2. CASE \E parent, refs : OpenSpan(parent, refs)
    <3>1. PICK g \in Uids : g = span_uid_generator /\ state[g] = "new"
      BY <2>2, ConstantsAssumption DEF OpenSpan, IInv, UnbornNew, TypeOK, Uids
    <3>2. state' = [state EXCEPT ![g] = "open"] /\ UNCHANGED <<lock, at>>
      BY <2>2, <3>1 DEF OpenSpan, ownerVars
    <3> QED BY <1>3, <3>1, <3>2 DEF States
  <2> QED
    BY <1>4, <2>1, <2>2 DEF CreateEntrySpan, CreateCommonSpan, CreateEntrySpanWithPropagation,
       stackVars, handleVars
<1>5. ASSUME NEW u \in Uids, \/ DropInactive(u) \/ PrepareInactive(u)
                              \/ DropContended(u) \/ PrepareContended(u)
      PROVE  LockInv'
  <2>1. PICK s \in States \ {"writing"} : state' = [state EXCEPT ![u] = s]
    BY <1>5 DEF DropInactive, PrepareInactive, DropContended, PrepareContended, States
  <2>2. state[u] \in {"open", "moved"} /\ UNCHANGED <<lock, at>>
    BY <1>5 DEF DropInactive, PrepareInactive, DropContended, PrepareContended, MayDrop, stackVars
  <2> QED BY <1>3, <2>1, <2>2
<1>6. ASSUME NEW u \in Uids, DropSpan(u) \/ PrepareForAsync(u) PROVE LockInv'
  BY <1>6 DEF DropSpan, PrepareForAsync, handleVars
<1>7. CASE FinalizePush
  <2>1. closing.uid \in Uids /\ state[closing.uid] \in {"open", "moved"}
    BY <1>7 DEF FinalizePush, IInv, ClosingIsHeld, FinalizeSpan
  <2>2. \A v \in Uids : state'[v] = "writing" <=> state[v] = "writing"
    BY <1>1, <1>7, <2>1 DEF FinalizePush
  <2> QED BY <1>7, <2>2 DEF FinalizePush
<1>8. CASE LastSpan \/ LastSpanEnd \/ Wait \/ WaitReturn \/ DropContext \/ Convert
  BY <1>8 DEF LastSpan, LastSpanEnd, Wait, WaitReturn, DropContext, Convert, OwnerStep, Running,
     handleVars
<1>9. ASSUME NEW u \in Uids, AsyncUpgrade(u) \/ AsyncContended(u) \/ AsyncDone(u)
      PROVE  LockInv'
  <2>1. PICK s \in States \ {"writing"} : state' = [state EXCEPT ![u] = s]
    BY <1>9 DEF AsyncUpgrade, AsyncContended, AsyncDone, AsyncStep, States
  <2>2. state[u] # "writing" /\ UNCHANGED <<lock, at>>
    BY <1>9 DEF AsyncUpgrade, AsyncContended, AsyncDone, AsyncStep, ownerVars
  <2> QED BY <1>3, <2>1, <2>2
<1>10. ASSUME NEW u \in Uids, AsyncLock(u) PROVE LockInv'
  BY <1>1, <1>10 DEF AsyncLock, AsyncStep, ownerVars
<1>11. ASSUME NEW u \in Uids, AsyncWrite(u) PROVE LockInv'
  <2>1. PICK s \in {"written", "panicked"} : state' = [state EXCEPT ![u] = s]
    BY <1>11 DEF AsyncWrite, AsyncStep
  <2>2. state[u] = "writing" /\ lock' = "free" /\ at' = at
    BY <1>11 DEF AsyncWrite, AsyncStep, ownerVars
  <2> QED BY <1>1, <2>1, <2>2
<1>12. CASE \/ UNCHANGED vars \/ DropTracer \/ UserPanic \/ \E u \in Uids : AddTag(u)
            \/ \E s \in Snapshots : Continued(s)
  BY <1>2, <1>12 DEF vars, DropTracer, UserPanic, AddTag, Continued, stackVars, handleVars,
     ownerVars
<1> QED
  BY <1>4, <1>5, <1>6, <1>7, <1>8, <1>9, <1>10, <1>11, <1>12 DEF Next, OwnerNext, AsyncNext

\* Every step keeps track of the span inside prepare_for_async.
LEMMA MovedStep ==
  ASSUME IInv, MovedInv, [Next]_vars
  PROVE  MovedInv'
<1> USE DEF MovedInv
<1>1. state \in [Uids -> States] /\ mode \in {"normal", "unwinding", "aborted"}
  BY DEF IInv, TypeOK
<1>2. ASSUME NEW u \in Uids, UNCHANGED <<mode, at>>, NEW s \in States \ {"moved"},
             state' = [state EXCEPT ![u] = s]
      PROVE  MovedInv'
  <2>1. \A v \in Uids : state'[v] = "moved" => state[v] = "moved"
    BY <1>1, <1>2
  <2> QED BY <1>2, <2>1
<1>3. CASE CreateEntrySpan \/ CreateCommonSpan \/ \E p \in Props : CreateEntrySpanWithPropagation(p)
  <2>1. CASE at = "run" /\ Panic /\ UNCHANGED <<at, state>>
    BY <1>1, <2>1 DEF Panic
  <2>2. CASE \E parent, refs : OpenSpan(parent, refs)
    <3>1. PICK g \in Uids : g = span_uid_generator /\ state[g] = "new"
      BY <2>2, ConstantsAssumption DEF OpenSpan, IInv, UnbornNew, TypeOK, Uids
    <3>2. state' = [state EXCEPT ![g] = "open"] /\ UNCHANGED <<mode, at>>
      BY <2>2, <3>1 DEF OpenSpan, ownerVars
    <3> QED BY <1>2, <3>1, <3>2 DEF States
  <2> QED
    BY <1>3, <2>1, <2>2 DEF CreateEntrySpan, CreateCommonSpan, CreateEntrySpanWithPropagation,
       Running, handleVars
<1>4. ASSUME NEW u \in Uids, \/ DropInactive(u) \/ PrepareInactive(u)
                              \/ DropContended(u) \/ PrepareContended(u)
      PROVE  MovedInv'
  <2>1. at = "run" /\ at' = "run" /\ mode' # "normal"
    BY <1>1, <1>4 DEF DropInactive, PrepareInactive, DropContended, PrepareContended, MayDrop,
       Running, Panic
  <2> QED BY <2>1
<1>5. ASSUME NEW u \in Uids, DropSpan(u) \/ PrepareForAsync(u) PROVE MovedInv'
  BY <1>5 DEF DropSpan, PrepareForAsync, MayDrop, handleVars
<1>6. CASE FinalizePush
  <2>1. closing.uid \in Uids
    BY <1>6 DEF FinalizePush, IInv, ClosingIsHeld, FinalizeSpan
  <2>2. \A v \in Uids : state'[v] = "moved" => state[v] = "moved"
    BY <1>1, <1>6, <2>1 DEF FinalizePush
  <2> QED BY <1>6, <2>2 DEF FinalizePush
<1>7. CASE LastSpan \/ LastSpanEnd \/ Wait \/ WaitReturn
  BY <1>7 DEF LastSpan, LastSpanEnd, Wait, WaitReturn, OwnerStep, Running, Panic, handleVars
<1>8. CASE DropContext
  <2>1. \A u \in Uids : state[u] # "moved"
    BY <1>1, <1>8 DEF DropContext
  <2>2. state' = state /\ at' \in {"converting", "run"}
    BY <1>8 DEF DropContext, OwnerStep, handleVars
  <2> QED BY <2>1, <2>2
<1>9. CASE Convert
  BY <1>1, <1>9 DEF Convert, Panic, handleVars
<1>10. ASSUME NEW u \in Uids, AsyncNext(u) PROVE MovedInv'
  <2>1. PICK s \in States \ {"moved"} : state' = [state EXCEPT ![u] = s]
    BY <1>10 DEF AsyncNext, AsyncUpgrade, AsyncLock, AsyncContended, AsyncWrite, AsyncDone,
       AsyncStep, States
  <2>2. UNCHANGED <<mode, at>>
    BY <1>10 DEF AsyncNext, AsyncUpgrade, AsyncLock, AsyncContended, AsyncWrite, AsyncDone,
       AsyncStep, ownerVars
  <2> QED BY <1>2, <2>1, <2>2
<1>11. CASE \/ UNCHANGED vars \/ DropTracer \/ UserPanic \/ \E u \in Uids : AddTag(u)
            \/ \E s \in Snapshots : Continued(s)
  <2>1. state' = state /\ at' = at /\ (mode' = mode \/ (Panic /\ Running))
    BY <1>11 DEF vars, DropTracer, UserPanic, AddTag, Continued, handleVars, ownerVars
  <2> QED BY <1>1, <2>1 DEF Panic, Running
<1> QED
  BY <1>3, <1>4, <1>5, <1>6, <1>7, <1>8, <1>9, <1>10, <1>11 DEF Next, OwnerNext

------------------------------------------------------------------------------
(* Theorems about the stacks                                               *)

\* The second inductive invariant.
SpansInv == StackInv /\ LockInv /\ MovedInv

\* The new context has no spans.
LEMMA SpansInit == Init => SpansInv
<1> SUFFICES ASSUME Init PROVE SpansInv
  OBVIOUS
<1>1. active = <<>> /\ state = [u \in Uids |-> "new"] /\ at = "run" /\ lock = "free"
  BY DEF Init
<1> QED
  BY <1>1 DEF SpansInv, StackInv, LockInv, MovedInv, Held

\* The active stack of TracingContext holds the spans still open, oldest first;
\* the write lock is held by the step that took it and by no other; and a span
\* moved into a prepare_for_async that panicked is gone before the context is.
THEOREM SpansInductive == Spec => []SpansInv
<1>1. IInv /\ SpansInv /\ [Next]_vars => SpansInv'
  BY StackStep, LockStep, MovedStep DEF SpansInv
<1> QED
  BY <1>1, SpansInit, Inductive, PTL DEF Spec

\* The youngest span held is the active one.
LEMMA Youngest ==
  ASSUME TypeOK, StackInv
  PROVE  YoungestIsActive
<1>1. SUFFICES ASSUME at = "run", NEW u \in Uids, state[u] = "open",
                      \A v \in Uids : v > u => state[v] \notin {"open", "moved", "misused"}
               PROVE  IsActive(u)
  BY DEF YoungestIsActive
<1>2. PICK n \in Nat : n = Len(active) /\ DOMAIN active = 1 .. n
  BY ActiveType
<1>3. PICK i \in 1 .. n : active[i].uid = u
  BY <1>1, <1>2 DEF StackInv, Held
<1>4. active[n].uid \in Uids /\ (active[n].uid > u => state[active[n].uid] \in {"open", "moved", "misused"})
  BY <1>2, <1>3, ActiveType DEF StackInv, Held
<1>5. i = n
  <2>1. i < n => active[i].uid < active[n].uid
    BY <1>2, <1>3 DEF StackInv
  <2>2. u \in Nat /\ active[n].uid \in Nat
    BY <1>4, ConstantsAssumption DEF Uids
  <2> QED BY <1>1, <1>3, <1>4, <2>1, <2>2
<1>6. active # <<>>
  BY <1>2, <1>3
<1> QED
  BY <1>2, <1>3, <1>5, <1>6 DEF IsActive, Top

\* Whoever drops the spans in the reverse order of their creation never meets the
\* panics for a span that is not the active one.
THEOREM YoungestCorrect == Spec => []YoungestIsActive
<1>1. IInv /\ SpansInv => YoungestIsActive
  BY Youngest DEF IInv, SpansInv
<1> QED
  BY <1>1, Inductive, SpansInductive, PTL

\* Unwinding the owner's thread does not abort the process, as long as the Tracer
\* exists, no span was used out of turn and every AsyncSpan is finished.
THEOREM UnwindingCorrect == Spec => UnwindingIsSafe
<1>1. ASSUME IInv, SpansInv, [Next]_vars, mode # "aborted", mode' = "aborted",
             tracer,
             \A u \in Uids : state[u] \notin {"moved", "misused", "async", "upgraded", "writing",
                                             "panicked"}
      PROVE  FALSE
  <2>1. at = "run" => lock = "free"
    <3>1. lock \in {"free", "owner", "async"}
      BY <1>1 DEF IInv, TypeOK
    <3> QED BY <1>1, <3>1 DEF SpansInv, LockInv
  <2>2. \A u \in Uids : ~DropInactive(u)
    <3>1. SUFFICES ASSUME NEW u \in Uids, DropInactive(u) PROVE FALSE
      OBVIOUS
    <3>2. mode = "unwinding" /\ at = "run" /\ state[u] = "open"
      BY <1>1, <3>1 DEF DropInactive, MayDrop, Panic
    <3>3. \A v \in Uids : state[v] = "open" => v <= u
      BY <3>1, <3>2, <1>1 DEF DropInactive, MayDrop
    <3>4. \A v \in Uids : v > u => state[v] \notin {"open", "moved", "misused"}
      <4>1. \A v \in Uids : v \in Nat
        BY ConstantsAssumption DEF Uids
      <4> QED BY <1>1, <3>3, <4>1
    <3>5. IsActive(u)
      BY <1>1, <3>2, <3>4, Youngest DEF IInv, SpansInv, YoungestIsActive
    <3> QED BY <3>1, <3>5 DEF DropInactive
  <2>3. \A u \in Uids : ~DropContended(u) /\ ~PrepareContended(u) /\ ~PrepareInactive(u)
    BY <1>1, <2>1 DEF DropContended, PrepareContended, PrepareInactive, MayDrop, Running, Panic
  <2>4. ~DropContext
    BY <1>1, <2>1 DEF DropContext, Panic, OwnerStep, SpansInv, LockInv, MovedInv, IInv, TypeOK
  <2>5. ~Convert
    BY <1>1, EntryType DEF Convert, Panic, IInv, EntriesTellState, EntryTellsState
  <2>6. ~(CreateEntrySpan \/ CreateCommonSpan \/ \E p \in Props : CreateEntrySpanWithPropagation(p))
    BY <1>1 DEF CreateEntrySpan, CreateCommonSpan, CreateEntrySpanWithPropagation, OpenSpan,
       Running, Panic, ownerVars
  <2>7. ~(UserPanic \/ \E s \in Snapshots : Continued(s))
    BY <1>1 DEF UserPanic, Continued, Running, Panic
  <2>8. ~(\/ LastSpan \/ LastSpanEnd \/ Wait \/ WaitReturn \/ FinalizePush \/ DropTracer
          \/ UNCHANGED vars)
    BY <1>1 DEF LastSpan, LastSpanEnd, Wait, WaitReturn, FinalizePush, DropTracer, Running, Panic,
       vars, ownerVars
  <2>9. \A u \in Uids : ~(DropSpan(u) \/ PrepareForAsync(u) \/ AsyncNext(u) \/ AddTag(u))
    BY <1>1 DEF DropSpan, PrepareForAsync, AsyncNext, AsyncUpgrade, AsyncLock, AsyncContended,
       AsyncWrite, AsyncDone, AsyncStep, AddTag, ownerVars
  <2> QED
    BY <1>1, <2>2, <2>3, <2>4, <2>5, <2>6, <2>7, <2>8, <2>9 DEF Next, OwnerNext
<1>2. IInv /\ SpansInv /\ [Next]_vars =>
        [mode # "aborted" /\ mode' = "aborted" =>
           \/ ~tracer
           \/ \E u \in Uids : state[u] \in {"moved", "misused", "async", "upgraded", "writing",
                                            "panicked"}]_vars
  BY <1>1
<1> QED
  BY <1>2, Inductive, SpansInductive, PTL DEF Spec, UnwindingIsSafe

\* Entries of the finalized stack keep their place: an AsyncSpan is filled in where
\* it was prepared, and what is filled stays.
THEOREM PositionsCorrect == Spec => PositionsKept
<1> DEFINE Kept == finalized' # <<>> =>
             /\ Len(finalized') >= Len(finalized)
             /\ \A i \in DOMAIN finalized :
                  /\ finalized'[i].uid = finalized[i].uid
                  /\ finalized[i].obj # None => finalized'[i] = finalized[i]
<1>1. ASSUME IInv, [Next]_vars PROVE Kept
  <2>1. finalized \in Seq(FinalizeSpan) /\ Len(finalized) \in Nat
        /\ DOMAIN finalized = 1 .. Len(finalized)
    BY <1>1, LenProperties DEF IInv, TypeOK
  <2>2. CASE UNCHANGED finalized
    BY <2>1, <2>2
  <2>3. CASE finalized' = <<>>
    BY <2>3
  <2>4. CASE Pushed
    <3>1. closing \in FinalizeSpan /\ finalized' = Append(finalized, closing)
      BY <1>1, <2>4 DEF Pushed, IInv, ClosingIsHeld
    <3>2. Len(finalized') = Len(finalized) + 1 /\ \A i \in DOMAIN finalized : finalized'[i] = finalized[i]
      BY <2>1, <3>1
    <3> QED BY <2>1, <3>2
  <2>5. ASSUME NEW u \in Uids, Filled(u) PROVE Kept
    <3>1. SUFFICES ASSUME NEW k \in DOMAIN finalized, finalized[k].uid = u,
                          finalized' = [finalized EXCEPT
                            ![k] = [uid |-> u, obj |-> Ended(obj[u], finalized[k].ref), ref |-> None]]
                   PROVE  Kept
      BY <2>2, <2>5 DEF Filled
    <3>2. finalized[k].obj = None
      BY <1>1, <2>5, <3>1 DEF Filled, IInv, EntriesTellState, EntryTellsState
    <3>3. DOMAIN finalized' = DOMAIN finalized /\ Len(finalized') = Len(finalized)
      BY <2>1, <3>1
    <3> QED BY <2>1, <3>1, <3>2, <3>3
  <2> QED
    BY <1>1, <2>2, <2>3, <2>4, <2>5, Effects
       DEF Quiet, Converted, Opened, Linked, Tagged, OutOfTurn, Popped, AsyncMoved
<1>2. IInv /\ [Next]_vars => [Kept]_vars
  BY <1>1
<1> QED
  BY <1>2, Inductive, PTL DEF Spec, PositionsKept

------------------------------------------------------------------------------
(* Parents                                                                 *)

\* The span below on the active stack; the object of a span that was popped.
Below(i) == IF i = 1 THEN -1 ELSE active[i - 1].uid

ObjOf(e) == IF e.obj = None THEN obj[e.uid] ELSE e.obj

\* Span p is not recorded yet, or its entry comes after entry i.
Unclosed == {"open", "moved", "lost", "misused", "leaked"}

Enclosed(i, p) ==
  \/ p = -1
  \/ p \in Uids /\ state[p] \in Unclosed
  \/ \E j \in DOMAIN finalized : j > i /\ finalized[j].uid = p

\* The parent of a span is the one below it as long as it is on the stack, so it
\* is recorded after it if it is recorded at all.
ParentInv ==
  /\ \A i \in DOMAIN active :
       Held(active[i].uid) => obj[active[i].uid].parent_span_id = Below(i)
  /\ at = "finalizing" => ObjOf(closing).parent_span_id = PeekActiveSpanId
  /\ \A i \in DOMAIN finalized : Enclosed(i, ObjOf(finalized[i]).parent_span_id)

\* Spans whose object still counts.
Living == {"open", "moved", "async", "upgraded", "writing", "panicked"}

\* Ending a span object leaves its parent.
LEMMA EndedParent ==
  ASSUME NEW o \in SpanObject, NEW ref
  PROVE  Ended(o, ref).parent_span_id = o.parent_span_id
  BY DEF Ended, SpanObject

\* Steps that push and pop nothing, and keep the parents of living spans.
LEMMA ParentSame ==
  ASSUME IInv, IInv', ParentInv, UNCHANGED <<finalized, closing>>,
         at = "finalizing" <=> at' = "finalizing",
         DOMAIN active' = DOMAIN active, PeekActiveSpanId' = PeekActiveSpanId,
         \A i \in DOMAIN active : active'[i].uid = active[i].uid,
         \A v \in Uids : /\ Held(v)' => Held(v)
                         /\ state[v] \in Unclosed => state'[v] \in Unclosed
                         /\ state'[v] \in Living =>
                              obj'[v].parent_span_id = obj[v].parent_span_id
  PROVE  ParentInv'
<1>1. ASSUME NEW i \in DOMAIN active'
      PROVE  (Held(active[i].uid) => obj[active[i].uid].parent_span_id = Below(i))'
  <2>1. PICK v \in Uids : v = active[i].uid /\ v = active'[i].uid
    BY ActiveType DEF IInv
  <2>2. Below(i)' = Below(i)
    <3>1. i \in Nat /\ (i # 1 => i - 1 \in DOMAIN active)
      BY ActiveType DEF IInv
    <3> QED BY <3>1 DEF Below
  <2>3. Held(v)' => obj'[v].parent_span_id = Below(i)
    BY <2>1 DEF ParentInv, Held, Living
  <2> QED
    BY <2>1, <2>2, <2>3 DEF Held
<1>2. ASSUME at' = "finalizing" PROVE (ObjOf(closing).parent_span_id = PeekActiveSpanId)'
  <2>1. closing.uid \in Uids /\ state'[closing.uid] \in Living
    BY <1>2 DEF IInv, ClosingIsHeld, FinalizeSpan, Living
  <2>2. ObjOf(closing).parent_span_id = PeekActiveSpanId
    BY <1>2 DEF ParentInv
  <2> QED
    BY <2>1, <2>2 DEF ObjOf
<1>3. ASSUME NEW i \in DOMAIN finalized'
      PROVE  Enclosed(i, ObjOf(finalized[i]).parent_span_id)'
  <2>1. PICK q : q = ObjOf(finalized[i]).parent_span_id
    OBVIOUS
  <2>2. finalized[i].uid \in Uids /\ (finalized[i].obj = None => state'[finalized[i].uid] \in Living)
    <3>1. EntryTellsState(finalized[i])'
      BY <1>3 DEF IInv, EntriesTellState
    <3> QED BY <3>1, EntryType DEF IInv, EntryTellsState, Living
  <2>3. (ObjOf(finalized[i]).parent_span_id)' = q
    BY <2>1, <2>2 DEF ObjOf
  <2>4. Enclosed(i, q)
    BY <2>1 DEF ParentInv
  <2>5. Enclosed(i, q)'
    BY <2>4 DEF Enclosed
  <2> QED
    BY <2>3, <2>5 DEF Enclosed
<1> QED
  BY <1>1, <1>2, <1>3 DEF ParentInv

\* A new span has the one below as its parent.
LEMMA ParentOpened ==
  ASSUME IInv, IInv', StackInv, ParentInv, NEW refs, Opened(refs)
  PROVE  ParentInv'
<1>1. PICK g \in Uids : g = span_uid_generator /\ state[g] = "new"
  BY DEF Opened
<1>2. PICK n \in Nat : n = Len(active) /\ DOMAIN active = 1 .. n /\ active \in Seq(ActiveSpan)
  BY ActiveType DEF IInv
<1>3. PICK par : par = PeekActiveSpanId
  OBVIOUS
<1>4. /\ active' = Append(active, [uid |-> g, span_id |-> g, ref |-> None])
      /\ at' = "run" /\ at = "run" /\ UNCHANGED <<finalized, closing>>
      /\ state' = [state EXCEPT ![g] = "open"]
      /\ obj' = [obj EXCEPT ![g] = [span_id |-> g, parent_span_id |-> par, refs |-> refs,
                                    tags |-> 0, ended |-> FALSE]]
      /\ state \in [Uids -> States] /\ obj \in [Uids -> SpanObject \union {None}]
  BY <1>1, <1>3 DEF Opened, IInv, TypeOK
<1>5. /\ DOMAIN active' = 1 .. (n + 1) /\ active'[n + 1].uid = g
      /\ \A i \in 1 .. n : active'[i] = active[i]
  BY <1>2, <1>4
<1>6. /\ obj'[g].parent_span_id = par /\ state'[g] = "open"
      /\ \A v \in Uids : v # g => obj'[v] = obj[v] /\ state'[v] = state[v]
  BY <1>1, <1>4
<1>7. ASSUME NEW i \in 1 .. (n + 1)
      PROVE  (Held(active[i].uid) => obj[active[i].uid].parent_span_id = Below(i))'
  <2>1. CASE i = n + 1
    <3>1. par = IF n = 0 THEN -1 ELSE active[n].uid
      <4>1. active = <<>> <=> n = 0
        BY <1>2
      <4> QED BY <1>2, <1>3, <4>1 DEF PeekActiveSpanId, Top, StackInv
    <3>2. Below(i)' = par
      BY <1>5, <2>1, <3>1 DEF Below
    <3> QED BY <1>5, <1>6, <2>1, <3>2
  <2>2. CASE i \in 1 .. n
    <3>1. PICK v \in Uids : v = active[i].uid /\ v = active'[i].uid
      BY <1>2, <1>5, <2>2, ActiveType DEF IInv
    <3>2. v # g /\ (Held(v) \/ state[v] = "misused")
      BY <1>1, <1>2, <2>2, <3>1 DEF StackInv, Held
    <3>3. Below(i)' = Below(i)
      BY <1>5, <2>2 DEF Below
    <3>4. Held(v)' => Held(v)
      BY <1>4, <1>6, <3>2 DEF Held
    <3>5. Held(v) => obj[v].parent_span_id = Below(i)
      BY <1>2, <2>2, <3>1 DEF ParentInv
    <3>6. Held(v)' => obj'[v].parent_span_id = Below(i)'
      BY <1>6, <3>2, <3>3, <3>4, <3>5
    <3> QED BY <3>1, <3>6 DEF Held
  <2> QED BY <2>1, <2>2
<1>8. ASSUME NEW i \in DOMAIN finalized PROVE Enclosed(i, ObjOf(finalized[i]).parent_span_id)'
  <2>1. PICK q : q = ObjOf(finalized[i]).parent_span_id
    OBVIOUS
  <2>2. finalized[i].uid \in Uids /\ finalized[i].uid # g
    BY <1>1, EntryType DEF IInv, EntriesTellState, EntryTellsState
  <2>3. (ObjOf(finalized[i]).parent_span_id)' = q
    BY <1>4, <1>6, <2>1, <2>2 DEF ObjOf
  <2>4. Enclosed(i, q)
    BY <2>1 DEF ParentInv
  <2>5. Enclosed(i, q)'
    BY <1>1, <1>4, <1>6, <2>4 DEF Enclosed, Unclosed
  <2> QED BY <2>3, <2>5 DEF Enclosed
<1> QED
  BY <1>4, <1>5, <1>7, <1>8 DEF ParentInv

\* The span being closed has the new top as its parent.
LEMMA ParentPopped ==
  ASSUME IInv, IInv', StackInv, ParentInv, NEW u \in Uids, Popped(u)
  PROVE  ParentInv'
<1>1. PICK n \in Nat : n = Len(active)
  BY PopFacts
<1>2. /\ n > 0 /\ DOMAIN active = 1 .. n /\ DOMAIN active' = 1 .. (n - 1) /\ Len(active') = n - 1
      /\ \A i \in 1 .. (n - 1) : active'[i] = active[i]
      /\ active[n].uid = u
  BY <1>1, PopFacts
<1>3. \A i \in 1 .. (n - 1) : active[i].uid # u /\ active[i].uid \in Uids
  <2>1. \A v \in Uids : v \in Nat
    BY ConstantsAssumption DEF Uids
  <2> QED
    BY <1>2, <2>1, ActiveType DEF IInv, StackInv
<1>4. /\ at = "run" /\ state[u] \in {"open", "moved"} /\ HasObj(u) /\ finalized' = finalized
      /\ \A v \in Uids : v # u => state'[v] = state[v] /\ obj'[v] = obj[v]
      /\ state'[u] \in Unclosed
  BY DEF Popped, IInv, TypeOK, Unclosed
<1>5. ASSUME NEW i \in 1 .. (n - 1)
      PROVE  (Held(active[i].uid) => obj[active[i].uid].parent_span_id = Below(i))'
  <2>1. PICK v \in Uids : v = active[i].uid /\ v = active'[i].uid /\ v # u
    BY <1>2, <1>3
  <2>2. Below(i)' = Below(i)
    BY <1>2 DEF Below
  <2>3. Held(v)' => Held(v)
    BY <1>4, <2>1 DEF Held
  <2>4. Held(v) => obj[v].parent_span_id = Below(i)
    BY <1>2, <2>1 DEF ParentInv
  <2>5. Held(v)' => obj'[v].parent_span_id = Below(i)'
    BY <1>4, <2>1, <2>2, <2>3, <2>4
  <2> QED BY <2>1, <2>5 DEF Held
<1>6. ASSUME at' = "finalizing" PROVE (ObjOf(closing).parent_span_id = PeekActiveSpanId)'
  <2>1. obj[u].parent_span_id = Below(n)
    BY <1>2, <1>4 DEF ParentInv, Held
  <2>2. PeekActiveSpanId' = Below(n)
    <3>1. active' = <<>> <=> n = 1
      <4>1. active' \in Seq(ActiveSpan)
        BY DEF IInv, TypeOK
      <4> QED BY <1>2, <4>1
    <3>2. n # 1 => active'[n - 1] = active[n - 1] /\ active[n - 1].span_id = active[n - 1].uid
      BY <1>2 DEF StackInv
    <3> QED BY <1>2, <3>1, <3>2 DEF PeekActiveSpanId, Top, Below
  <2>3. CASE closing' = [uid |-> u, obj |-> Ended(obj[u], Top.ref), ref |-> None]
    <3>1. closing'.obj = Ended(obj[u], Top.ref) /\ closing'.obj # None
      <4>1. Ended(obj[u], Top.ref) \in SpanObject
        BY <1>4, PopFacts, EndedType DEF HasObj
      <4> QED BY <2>3, <4>1, ConstantsAssumption
    <3>2. closing'.obj.parent_span_id = obj[u].parent_span_id
      BY <1>4, <3>1, EndedParent DEF HasObj
    <3> QED BY <2>1, <2>2, <3>1, <3>2 DEF ObjOf
  <2>4. CASE closing' = [uid |-> u, obj |-> None, ref |-> Top.ref] /\ obj' = obj
    BY <2>1, <2>2, <2>4 DEF ObjOf
  <2> QED
    BY <1>4, <1>6, <2>3, <2>4 DEF Popped
<1>7. ASSUME NEW i \in DOMAIN finalized PROVE Enclosed(i, ObjOf(finalized[i]).parent_span_id)'
  <2>1. PICK q : q = ObjOf(finalized[i]).parent_span_id
    OBVIOUS
  <2>2. finalized[i].uid \in Uids /\ finalized[i].uid # u
    BY <1>4, EntryType DEF IInv, EntriesTellState, EntryTellsState
  <2>3. (ObjOf(finalized[i]).parent_span_id)' = q
    BY <1>4, <2>1, <2>2 DEF ObjOf
  <2>4. Enclosed(i, q)
    BY <2>1 DEF ParentInv
  <2>5. Enclosed(i, q)'
    BY <1>4, <2>4 DEF Enclosed
  <2> QED BY <2>3, <2>5 DEF Enclosed
<1> QED
  BY <1>2, <1>4, <1>5, <1>6, <1>7 DEF ParentInv

\* Its entry is enclosed by the span that is still open.
LEMMA ParentPushed ==
  ASSUME IInv, IInv', StackInv, ParentInv, Pushed
  PROVE  ParentInv'
<1>1. PICK c \in Uids : c = closing.uid
  BY DEF Pushed, IInv, ClosingIsHeld, FinalizeSpan
<1>2. PICK n \in Nat : n = Len(finalized) /\ DOMAIN finalized = 1 .. n
  BY LenProperties DEF IInv, TypeOK
<1>3. /\ finalized' = Append(finalized, closing) /\ finalized \in Seq(FinalizeSpan)
      /\ closing \in FinalizeSpan /\ at = "finalizing" /\ at' = "run" /\ obj' = obj
      /\ active' = active /\ state[c] \in {"open", "moved"}
  BY <1>1 DEF Pushed, IInv, TypeOK, ClosingIsHeld
<1>4. /\ DOMAIN finalized' = 1 .. (n + 1) /\ finalized'[n + 1] = closing
      /\ \A i \in 1 .. n : finalized'[i] = finalized[i]
  BY <1>2, <1>3
<1>5. /\ \A v \in Uids : v # c => state'[v] = state[v]
      /\ state'[c] \in {"async", "closed"}
  BY <1>1, <1>3 DEF Pushed, IInv, TypeOK
<1>6. ASSUME NEW i \in DOMAIN active'
      PROVE  (Held(active[i].uid) => obj[active[i].uid].parent_span_id = Below(i))'
  <2>1. PICK v \in Uids : v = active[i].uid
    BY <1>3, ActiveType DEF IInv
  <2>2. Held(v)' => Held(v)
    BY <1>1, <1>5 DEF Held
  <2>3. Held(v) => obj[v].parent_span_id = Below(i)
    BY <1>3, <2>1 DEF ParentInv
  <2> QED BY <1>3, <2>1, <2>2, <2>3 DEF Held, Below
<1>7. ASSUME NEW i \in 1 .. n PROVE Enclosed(i, ObjOf(finalized[i]).parent_span_id)'
  <2>1. PICK q : q = ObjOf(finalized[i]).parent_span_id
    OBVIOUS
  <2>2. (ObjOf(finalized[i]).parent_span_id)' = q
    BY <1>3, <1>4, <2>1 DEF ObjOf
  <2>3. Enclosed(i, q)
    BY <1>2, <2>1 DEF ParentInv
  <2>4. Enclosed(i, q)'
    <3>1. CASE q = c
      BY <1>1, <1>2, <1>4, <3>1 DEF Enclosed
    <3>2. CASE q # c
      BY <1>2, <1>4, <1>5, <2>3, <3>2 DEF Enclosed
    <3> QED BY <3>1, <3>2
  <2> QED BY <2>2, <2>4 DEF Enclosed
<1>8. Enclosed(n + 1, ObjOf(finalized[n + 1]).parent_span_id)'
  <2>1. PICK q : q = PeekActiveSpanId
    OBVIOUS
  <2>2. (ObjOf(finalized[n + 1]).parent_span_id)' = q
    BY <1>3, <1>4, <2>1 DEF ObjOf, ParentInv
  <2>3. q = -1 \/ (q \in Uids /\ q # c /\ state[q] \in Unclosed)
    <3>1. CASE active = <<>>
      BY <2>1, <3>1 DEF PeekActiveSpanId
    <3>2. CASE active # <<>>
      <4>1. PICK m \in DOMAIN active : m = Len(active)
        BY <3>2, ActiveType DEF IInv
      <4>2. q = active[m].uid /\ q \in Uids /\ (Held(q) \/ state[q] = "misused")
        BY <2>1, <3>2, <4>1, ActiveType DEF IInv, StackInv, PeekActiveSpanId, Top
      <4> QED BY <1>1, <1>3, <4>2 DEF Held, Unclosed
    <3> QED BY <3>1, <3>2
  <2>4. Enclosed(n + 1, q)'
    BY <1>5, <2>3 DEF Enclosed
  <2> QED BY <2>2, <2>4 DEF Enclosed
<1> QED
  BY <1>3, <1>4, <1>6, <1>7, <1>8 DEF ParentInv

\* An AsyncSpan that is dropped fills in its object, parent included.
LEMMA ParentFilled ==
  ASSUME IInv, IInv', ParentInv, NEW u \in Uids, Filled(u)
  PROVE  ParentInv'
<1>1. /\ UNCHANGED <<active, at, closing>> /\ state[u] = "writing" /\ HasObj(u)
      /\ state'[u] \in {"written", "panicked"}
      /\ \A v \in Uids : v # u => state'[v] = state[v] /\ obj'[v] = obj[v]
  BY DEF Filled, IInv, TypeOK
<1>2. ASSUME NEW i \in DOMAIN active'
      PROVE  (Held(active[i].uid) => obj[active[i].uid].parent_span_id = Below(i))'
  <2>1. PICK v \in Uids : v = active[i].uid
    BY <1>1, ActiveType DEF IInv
  <2>2. Held(v)' => Held(v) /\ v # u
    BY <1>1 DEF Held
  <2>3. Held(v) => obj[v].parent_span_id = Below(i)
    BY <1>1, <2>1 DEF ParentInv
  <2>4. Held(v)' => obj'[v].parent_span_id = Below(i)
    BY <1>1, <2>2, <2>3
  <2> QED BY <1>1, <2>1, <2>4 DEF Held, Below
<1>3. ASSUME at' = "finalizing" PROVE (ObjOf(closing).parent_span_id = PeekActiveSpanId)'
  <2>1. closing.uid \in Uids /\ closing.uid # u
    BY <1>1, <1>3 DEF IInv, ClosingIsHeld, FinalizeSpan
  <2> QED
    BY <1>1, <1>3, <2>1 DEF ParentInv, ObjOf, PeekActiveSpanId, Top
<1>4. /\ DOMAIN finalized' = DOMAIN finalized
      /\ \A i \in DOMAIN finalized : finalized'[i].uid = finalized[i].uid
      /\ \A i \in DOMAIN finalized : finalized[i].uid # u => finalized'[i] = finalized[i]
      /\ \A i \in DOMAIN finalized : finalized[i].uid = u =>
           /\ finalized[i].obj = None /\ finalized'[i].obj # None
           /\ finalized'[i].obj.parent_span_id = obj[u].parent_span_id
  <2>1. \A i \in DOMAIN finalized : finalized[i].uid = u => finalized[i].obj = None
    BY <1>1 DEF IInv, EntriesTellState, EntryTellsState
  <2>2. CASE finalized' = finalized /\ \A i \in DOMAIN finalized : finalized[i].uid # u
    BY <2>2
  <2>3. ASSUME NEW k \in DOMAIN finalized, finalized[k].uid = u,
               finalized' = [finalized EXCEPT
                 ![k] = [uid |-> u, obj |-> Ended(obj[u], finalized[k].ref), ref |-> None]]
        PROVE  /\ DOMAIN finalized' = DOMAIN finalized
               /\ \A i \in DOMAIN finalized : i # k => finalized'[i] = finalized[i]
               /\ finalized'[k].uid = u /\ finalized'[k].obj # None
               /\ finalized'[k].obj.parent_span_id = obj[u].parent_span_id
               /\ \A i \in DOMAIN finalized : finalized[i].uid = u => i = k
    <3>1. PICK e : e = Ended(obj[u], finalized[k].ref)
      OBVIOUS
    <3>2. e # None /\ e.parent_span_id = obj[u].parent_span_id
      BY <1>1, <3>1, EntryType, EndedType, EndedParent, ConstantsAssumption DEF IInv, HasObj
    <3>3. finalized' = [finalized EXCEPT ![k] = [uid |-> u, obj |-> e, ref |-> None]]
      BY <2>3, <3>1
    <3>4. \A i \in DOMAIN finalized : finalized[i].uid = u => i = k
      BY <2>3 DEF IInv, EntriesOnce
    <3> QED BY <3>2, <3>3, <3>4
  <2> QED BY <2>1, <2>2, <2>3 DEF Filled
<1>5. ASSUME NEW i \in DOMAIN finalized PROVE Enclosed(i, ObjOf(finalized[i]).parent_span_id)'
  <2>1. PICK q : q = ObjOf(finalized[i]).parent_span_id
    OBVIOUS
  <2>2. (ObjOf(finalized[i]).parent_span_id)' = q
    <3>1. finalized[i].uid \in Uids
      BY EntryType DEF IInv
    <3> QED BY <1>1, <1>4, <2>1, <3>1 DEF ObjOf
  <2>3. Enclosed(i, q)
    BY <2>1 DEF ParentInv
  <2>4. Enclosed(i, q)'
    BY <1>1, <1>4, <2>3 DEF Enclosed, Unclosed
  <2> QED BY <2>2, <2>4 DEF Enclosed
<1> QED
  BY <1>2, <1>3, <1>4, <1>5 DEF ParentInv

\* Every step keeps the parents.
LEMMA ParentStep ==
  ASSUME IInv, IInv', StackInv, ParentInv, [Next]_vars
  PROVE  ParentInv'
<1>1. state \in [Uids -> States] /\ obj \in [Uids -> SpanObject \union {None}]
  BY DEF IInv, TypeOK
<1>2. CASE Quiet
  BY <1>2, ParentSame DEF Quiet, Held, PeekActiveSpanId, Top
<1>3. CASE Converted
  <2>1. \A i \in DOMAIN finalized' : FALSE
    BY <1>3 DEF Converted
  <2>2. at' # "finalizing" /\ at # "finalizing" /\ UNCHANGED <<active, state, obj>>
    BY <1>3 DEF Converted
  <2>3. ASSUME NEW i \in DOMAIN active'
        PROVE  (Held(active[i].uid) => obj[active[i].uid].parent_span_id = Below(i))'
    BY <2>2 DEF ParentInv, Held, Below
  <2> QED BY <2>1, <2>2, <2>3 DEF ParentInv
<1>4. ASSUME NEW s \in Snapshots, Linked(s) PROVE ParentInv'
  <2>1. PICK n \in Nat \ {0} : n = Len(active) /\ DOMAIN active = 1 .. n
    BY <1>4, ActiveType DEF Linked, IInv
  <2>2. active[n] \in ActiveSpan /\ Top = active[n] /\ active \in Seq(ActiveSpan)
    BY <2>1, ActiveType DEF Top, IInv
  <2>3. /\ DOMAIN active' = DOMAIN active /\ Len(active') = n
        /\ \A i \in DOMAIN active : /\ active'[i].uid = active[i].uid
                                    /\ active'[i].span_id = active[i].span_id
    BY <1>4, <2>1, <2>2 DEF Linked, ActiveSpan
  <2>4. PeekActiveSpanId' = PeekActiveSpanId
    <3>1. active # <<>> /\ active' # <<>>
      BY <1>4, <2>1, <2>3 DEF Linked
    <3> QED BY <2>1, <2>3, <3>1 DEF PeekActiveSpanId, Top
  <2> QED
    BY <1>4, <2>3, <2>4, ParentSame DEF Linked, Held
<1>5. ASSUME NEW u \in Uids, Tagged(u) \/ OutOfTurn(u) \/ AsyncMoved(u) PROVE ParentInv'
  <2>1. UNCHANGED <<active, finalized, closing, at>>
    BY <1>5 DEF Tagged, OutOfTurn, AsyncMoved
  <2>2. PeekActiveSpanId' = PeekActiveSpanId
    BY <2>1 DEF PeekActiveSpanId, Top
  <2>3. \A v \in Uids : /\ Held(v)' => Held(v)
                        /\ state[v] \in Unclosed => state'[v] \in Unclosed
                        /\ state'[v] \in Living =>
                             obj'[v].parent_span_id = obj[v].parent_span_id
    <3>1. CASE Tagged(u)
      <4>1. PICK o \in SpanObject : o = obj[u]
        BY <3>1 DEF Tagged, HasObj
      <4>2. [o EXCEPT !.tags = @ + 1].parent_span_id = o.parent_span_id
        BY DEF SpanObject
      <4>3. obj' = [obj EXCEPT ![u] = [o EXCEPT !.tags = @ + 1]]
        BY <3>1, <4>1 DEF Tagged
      <4>4. \A v \in Uids : obj'[v].parent_span_id = obj[v].parent_span_id
        BY <1>1, <4>1, <4>2, <4>3
      <4> QED BY <3>1, <4>4 DEF Tagged, Held
    <3>2. CASE OutOfTurn(u)
      BY <1>1, <3>2 DEF OutOfTurn, Held, Unclosed, Living
    <3>3. CASE AsyncMoved(u)
      BY <1>1, <3>3 DEF AsyncMoved, Held, Unclosed, Living
    <3> QED BY <1>5, <3>1, <3>2, <3>3
  <2> QED
    BY <2>1, <2>2, <2>3, ParentSame
<1> QED
  BY <1>2, <1>3, <1>4, <1>5, Effects, ParentOpened, ParentPopped, ParentPushed, ParentFilled

\* The new context has no parents.
LEMMA ParentInit == Init => ParentInv
  BY DEF Init, ParentInv

\* The parent of a span is the one below it on the active stack while it is
\* open, and the span that encloses it in the finalized ones ever after.
THEOREM ParentInductive == Spec => []ParentInv
<1>1. IInv /\ IInv' /\ SpansInv /\ ParentInv /\ [Next]_vars => ParentInv'
  BY ParentStep DEF SpansInv
<1> QED
  BY <1>1, ParentInit, Inductive, SpansInductive, PTL DEF Spec

\* A reported span lies inside its parent: the parent closed after it, or did not
\* close at all.
THEOREM ParentsCorrect == Spec => ParentsEnclose
<1> DEFINE Nested == segment' # segment =>
             \A i \in DOMAIN segment'.spans :
               LET p == segment'.spans[i].parent_span_id
               IN  \/ p = -1
                   \/ state[p] \in {"open", "lost", "misused", "leaked"}
                   \/ \E j \in DOMAIN segment'.spans :
                        j > i /\ segment'.spans[j].span_id = p
<1>1. ASSUME IInv, SpansInv, ParentInv, [Next]_vars, segment' # segment
      PROVE  Nested
  <2>1. /\ at = "converting" /\ \A i \in DOMAIN finalized : finalized[i].obj # None
        /\ segment'.spans = [i \in DOMAIN finalized |-> finalized[i].obj]
    BY <1>1, ReportStep DEF Convert
  <2>2. /\ DOMAIN segment'.spans = DOMAIN finalized
        /\ \A i \in DOMAIN finalized : /\ segment'.spans[i] = finalized[i].obj
                                       /\ segment'.spans[i].span_id = finalized[i].uid
    BY <1>1, <2>1 DEF IInv, EntriesTellState, EntryTellsState
  <2>3. \A i \in DOMAIN finalized : Enclosed(i, segment'.spans[i].parent_span_id)
    BY <1>1, <2>1, <2>2 DEF ParentInv, ObjOf
  <2>4. \A p \in Uids : state[p] # "moved"
    BY <1>1, <2>1 DEF SpansInv, MovedInv
  <2> QED
    BY <2>2, <2>3, <2>4 DEF Enclosed, Unclosed
<1>2. IInv /\ SpansInv /\ ParentInv /\ [Next]_vars => [Nested]_vars
  BY <1>1
<1> QED
  BY <1>2, Inductive, SpansInductive, ParentInductive, PTL DEF Spec, ParentsEnclose

------------------------------------------------------------------------------
(* What the user gave a span                                               *)

\* o carries the tags of g and no link yet: that comes when the span is ended.
Plain(o, g) == o.tags = g.tags /\ \A j \in DOMAIN o.refs : o.refs[j] \notin Snapshots

\* The handles whose object is still with them, and will be used.
Carried(u) == Held(u) \/ state[u] \in {"async", "upgraded", "writing"}

\* The link of an AsyncSpan is in its entry until the object comes.
EntryAsGiven(e) ==
  IF e.obj = None THEN e.ref = given[e.uid].link ELSE AsGiven(e.obj, given[e.uid])

NewIsPlain == \A u \in Uids : state[u] = "new" => given[u] = [link |-> None, tags |-> 0]

CarriedIsPlain == \A u \in Uids : Carried(u) => Plain(obj[u], given[u])

ActiveHasLink == \A i \in DOMAIN active : active[i].ref = given[active[i].uid].link

ClosingAsGiven ==
  at = "finalizing" =>
    /\ EntryAsGiven(closing)
    /\ closing.obj = None => Plain(obj[closing.uid], given[closing.uid])

EntriesAsGiven == \A i \in DOMAIN finalized : EntryAsGiven(finalized[i])

SegmentAsGiven ==
  segment # None =>
    \A i \in DOMAIN segment.spans :
      /\ segment.spans[i].span_id \in Recorded
      /\ AsGiven(segment.spans[i], given[segment.spans[i].span_id])

GivenInv ==
  /\ NewIsPlain /\ CarriedIsPlain /\ ActiveHasLink /\ ClosingAsGiven
  /\ EntriesAsGiven /\ SegmentAsGiven

\* Ending an object adds the link it was given.
LEMMA EndedGiven ==
  ASSUME NEW o \in SpanObject, NEW g, g.link \in Snapshots \union {None}, Plain(o, g)
  PROVE  AsGiven(Ended(o, g.link), g)
<1>1. PICK r \in Snapshots \union {None} : r = g.link
  OBVIOUS
<1>2. PICK e : e = Ended(o, r)
  OBVIOUS
<1>3. e.tags = o.tags /\ e.refs = IF r = None THEN o.refs ELSE Append(o.refs, r)
  BY <1>2 DEF Ended, SpanObject
<1>4. o.refs \in Seq(Refs) /\ o.tags = g.tags /\ \A j \in DOMAIN o.refs : o.refs[j] \notin Snapshots
  BY DEF SpanObject, Plain
<1>5. CASE r = None
  BY <1>1, <1>2, <1>3, <1>4, <1>5 DEF AsGiven
<1>6. CASE r # None
  <2>1. PICK q : q = o.refs
    OBVIOUS
  <2>2. /\ q \in Seq(Refs) /\ r \in Refs /\ e.refs = Append(q, r)
        /\ \A j \in DOMAIN q : q[j] \notin Snapshots
    BY <1>1, <1>3, <1>4, <1>6, <2>1 DEF Refs
  <2>3. /\ Len(q) \in Nat /\ DOMAIN q = 1 .. Len(q)
        /\ Len(e.refs) = Len(q) + 1 /\ DOMAIN e.refs = 1 .. (Len(q) + 1)
        /\ \A j \in 1 .. Len(q) : e.refs[j] = q[j]
        /\ e.refs[Len(q) + 1] = r
    BY <2>2
  <2>4. e.refs # <<>>
    BY <2>3
  <2> QED
    BY <1>1, <1>2, <1>3, <1>4, <2>2, <2>3, <2>4 DEF AsGiven
<1> QED BY <1>5, <1>6

\* Every field of the history has its type.
LEMMA GivenType ==
  ASSUME TypeOK, NEW u \in Uids
  PROVE  /\ given[u].link \in Snapshots \union {None} /\ given[u].tags \in Nat
         /\ given[u] \in [link : Snapshots \union {None}, tags : Nat]
BY DEF TypeOK

\* Steps that give nothing to a span and record none.
LEMMA GivenSame ==
  ASSUME IInv, GivenInv, UNCHANGED <<given, active, finalized, closing, segment>>,
         at = "finalizing" <=> at' = "finalizing",
         at = "finalizing" => obj'[closing.uid] = obj[closing.uid],
         \A v \in Uids : /\ state'[v] = "new" => state[v] = "new"
                         /\ Carried(v)' => Carried(v) /\ obj'[v] = obj[v],
         Recorded \subseteq Recorded'
  PROVE  GivenInv'
<1>1. NewIsPlain' /\ ActiveHasLink' /\ EntriesAsGiven'
  BY DEF GivenInv, NewIsPlain, ActiveHasLink, EntriesAsGiven, EntryAsGiven
<1>2. CarriedIsPlain'
  <2>1. ASSUME NEW v \in Uids, Carried(v)' PROVE Plain(obj'[v], given[v])
    BY <2>1 DEF GivenInv, CarriedIsPlain
  <2> QED BY <2>1 DEF CarriedIsPlain
<1>3. ClosingAsGiven'
  BY DEF GivenInv, ClosingAsGiven, EntryAsGiven
<1>4. SegmentAsGiven'
  BY DEF GivenInv, SegmentAsGiven
<1> QED BY <1>1, <1>2, <1>3, <1>4 DEF GivenInv

\* An entry, or a recorded span, is not the one in somebody's hands.
LEMMA EntryNotHeld ==
  ASSUME IInv, NEW i \in DOMAIN finalized
  PROVE  /\ finalized[i].uid \in Uids
         /\ state[finalized[i].uid] \notin {"new", "open", "moved", "misused"}
         /\ finalized[i].obj # None => finalized[i].uid \in Recorded
         /\ finalized[i].obj = None => finalized[i].uid \notin Recorded
BY EntryType DEF IInv, EntriesTellState, EntryTellsState, Recorded

\* A new span was given nothing but its reference.
LEMMA GivenOpened ==
  ASSUME IInv, StackInv, GivenInv,
         NEW refs \in {<<>>} \union {<<p>> : p \in Props}, Opened(refs)
  PROVE  GivenInv'
<1>1. PICK g \in Uids : g = span_uid_generator
  BY DEF Opened
<1>2. PICK n \in Nat : n = Len(active) /\ DOMAIN active = 1 .. n
  BY ActiveType DEF IInv
<1>3. /\ state[g] = "new" /\ at = "run" /\ at' = "run"
      /\ UNCHANGED <<closing, finalized, given, segment>>
      /\ given[g] = [link |-> None, tags |-> 0]
      /\ state' = [state EXCEPT ![g] = "open"] /\ state \in [Uids -> States]
  BY <1>1 DEF Opened, IInv, TypeOK, GivenInv, NewIsPlain
<1>4. /\ DOMAIN active' = 1 .. (n + 1) /\ active'[n + 1] = [uid |-> g, span_id |-> g, ref |-> None]
      /\ \A i \in 1 .. n : active'[i] = active[i]
  <2>1. active \in Seq(ActiveSpan) /\ active' = Append(active, [uid |-> g, span_id |-> g, ref |-> None])
    BY <1>1, ActiveType DEF Opened, IInv
  <2> QED BY <1>2, <2>1
<1>5. \A v \in Uids : v # g => state'[v] = state[v] /\ obj'[v] = obj[v]
  BY <1>1 DEF Opened, IInv, TypeOK
<1>6. NewIsPlain'
  BY <1>3 DEF GivenInv, NewIsPlain
<1>7. ActiveHasLink'
  <2>1. active'[n + 1].uid = g /\ active'[n + 1].ref = None
    BY <1>4
  <2> QED BY <1>2, <1>3, <1>4, <2>1 DEF GivenInv, ActiveHasLink
<1>8. CarriedIsPlain'
  <2>1. Plain(obj'[g], given[g])
    <3>1. obj'[g].tags = 0 /\ obj'[g].refs = refs
      BY <1>1 DEF Opened, IInv, TypeOK
    <3>2. \A j \in DOMAIN refs : refs[j] \notin Snapshots
      BY ConstantsAssumption
    <3> QED BY <1>3, <3>1, <3>2 DEF Plain
  <2>2. ASSUME NEW v \in Uids, v # g, Carried(v)' PROVE Plain(obj'[v], given[v])
    <3>1. Carried(v)
      BY <1>3, <1>5, <2>2 DEF Carried, Held
    <3> QED BY <1>5, <2>2, <3>1 DEF GivenInv, CarriedIsPlain
  <2> QED BY <1>3, <2>1, <2>2 DEF CarriedIsPlain
<1>9. ClosingAsGiven' /\ EntriesAsGiven'
  BY <1>3 DEF GivenInv, ClosingAsGiven, EntriesAsGiven, EntryAsGiven
<1>10. SegmentAsGiven'
  BY <1>3 DEF GivenInv, SegmentAsGiven, Recorded
<1> QED BY <1>6, <1>7, <1>8, <1>9, <1>10 DEF GivenInv

\* The link goes to the active span, which is neither recorded nor prepared.
LEMMA GivenLinked ==
  ASSUME IInv, StackInv, GivenInv, NEW s \in Snapshots, Linked(s)
  PROVE  GivenInv'
<1>1. PICK n \in Nat \ {0} : n = Len(active) /\ DOMAIN active = 1 .. n
  BY ActiveType DEF Linked, IInv
<1>2. PICK t \in Uids : t = Top.uid /\ t = active[n].uid
  BY <1>1, ActiveType DEF Top, IInv
<1>3. state[t] \in {"open", "moved", "misused"} /\ at = "run" /\ at' = "run"
  BY <1>1, <1>2 DEF StackInv, Held, Linked
<1>4. /\ given' = [given EXCEPT ![t].link = s]
      /\ UNCHANGED <<finalized, state, obj, segment, closing>>
  BY <1>2 DEF Linked
<1>5. /\ \A v \in Uids : v # t => given'[v] = given[v]
      /\ \A v \in Uids : given'[v].tags = given[v].tags
      /\ given'[t].link = s
  <2>1. given \in [Uids -> [link : Snapshots \union {None}, tags : Nat]]
    BY DEF IInv, TypeOK
  <2> QED BY <1>4, <2>1
<1>6. NewIsPlain'
  BY <1>3, <1>4, <1>5 DEF GivenInv, NewIsPlain
<1>7. CarriedIsPlain'
  BY <1>3, <1>4, <1>5 DEF GivenInv, CarriedIsPlain, Carried, Held, Plain
<1>8. ActiveHasLink'
  <2>1. /\ DOMAIN active' = 1 .. n /\ active'[n].uid = t /\ active'[n].ref = s
        /\ \A i \in 1 .. n : i # n => active'[i] = active[i]
    <3>1. active[n] \in ActiveSpan /\ active \in Seq(ActiveSpan) /\ Top = active[n]
      BY <1>1, ActiveType DEF IInv, Top
    <3> QED BY <1>1, <1>2, <3>1 DEF Linked, ActiveSpan
  <2>2. \A i \in 1 .. n : i # n => active[i].uid # t /\ active[i].uid \in Uids
    <3>1. \A v \in Uids : v \in Nat
      BY ConstantsAssumption DEF Uids
    <3> QED BY <1>1, <1>2, <3>1, ActiveType DEF StackInv, IInv
  <2> QED BY <1>1, <1>5, <2>1, <2>2 DEF GivenInv, ActiveHasLink
<1>9. ClosingAsGiven'
  BY <1>3 DEF ClosingAsGiven
<1>10. EntriesAsGiven'
  <2>1. ASSUME NEW i \in DOMAIN finalized PROVE EntryAsGiven(finalized[i])'
    <3>1. finalized[i].uid \in Uids /\ finalized[i].uid # t
      BY <1>3, EntryNotHeld
    <3>2. EntryAsGiven(finalized[i])
      BY DEF GivenInv, EntriesAsGiven
    <3> QED BY <1>4, <1>5, <3>1, <3>2 DEF EntryAsGiven
  <2> QED BY <1>4, <2>1 DEF EntriesAsGiven
<1>11. SegmentAsGiven'
  <2>1. t \notin Recorded
    BY <1>3 DEF Recorded
  <2>2. Recorded' = Recorded /\ Recorded \subseteq Uids
    BY <1>4 DEF Recorded
  <2> QED BY <1>4, <1>5, <2>1, <2>2 DEF GivenInv, SegmentAsGiven
<1> QED BY <1>6, <1>7, <1>8, <1>9, <1>10, <1>11 DEF GivenInv

\* A tag goes to the object and to the history alike.
LEMMA GivenTagged ==
  ASSUME IInv, GivenInv, NEW u \in Uids, Tagged(u)
  PROVE  GivenInv'
<1>1. /\ state[u] \in {"open", "async"} /\ HasObj(u) /\ (state[u] = "open" => at = "run")
      /\ UNCHANGED <<active, finalized, state, segment, at, closing>>
  BY DEF Tagged
<1>2. /\ \A v \in Uids : v # u => given'[v] = given[v] /\ obj'[v] = obj[v]
      /\ given'[u].tags = given[u].tags + 1
      /\ \A v \in Uids : given'[v].link = given[v].link
  <2>1. given \in [Uids -> [link : Snapshots \union {None}, tags : Nat]]
    BY DEF IInv, TypeOK
  <2>2. given' = [given EXCEPT ![u].tags = @ + 1]
    BY DEF Tagged
  <2>3. \A v \in Uids : v # u => obj'[v] = obj[v]
    BY DEF Tagged, IInv, TypeOK
  <2> QED BY <2>1, <2>2, <2>3
<1>3. obj'[u].tags = obj[u].tags + 1 /\ obj'[u].refs = obj[u].refs
  <2>1. PICK o \in SpanObject : o = obj[u]
    BY <1>1 DEF HasObj
  <2>2. obj'[u] = [o EXCEPT !.tags = @ + 1]
    BY <2>1 DEF Tagged, IInv, TypeOK
  <2> QED BY <2>1, <2>2 DEF SpanObject
<1>4. NewIsPlain' /\ ActiveHasLink'
  <2>1. NewIsPlain'
    BY <1>1, <1>2 DEF GivenInv, NewIsPlain
  <2>2. \A i \in DOMAIN active : active[i].uid \in Uids
    BY ActiveType DEF IInv
  <2> QED BY <1>1, <1>2, <2>1, <2>2 DEF GivenInv, ActiveHasLink
<1>5. CarriedIsPlain'
  <2>1. ASSUME NEW v \in Uids, Carried(v)' PROVE Plain(obj'[v], given'[v])
    <3>1. Plain(obj[v], given[v])
      BY <1>1, <2>1 DEF GivenInv, CarriedIsPlain, Carried, Held
    <3> QED BY <1>2, <1>3, <3>1 DEF Plain
  <2> QED BY <2>1 DEF CarriedIsPlain
<1>6. ClosingAsGiven'
  <2>1. at = "finalizing" => closing.uid \in Uids /\ closing.uid # u
    BY <1>1 DEF IInv, ClosingIsHeld, FinalizeSpan
  <2> QED BY <1>1, <1>2, <2>1 DEF GivenInv, ClosingAsGiven, EntryAsGiven
<1>7. EntriesAsGiven'
  <2>1. ASSUME NEW i \in DOMAIN finalized PROVE EntryAsGiven(finalized[i])'
    <3>1. finalized[i].uid \in Uids /\ (finalized[i].obj # None => finalized[i].uid # u)
      BY <1>1, EntryNotHeld DEF Recorded
    <3>2. EntryAsGiven(finalized[i])
      BY DEF GivenInv, EntriesAsGiven
    <3> QED BY <1>1, <1>2, <3>1, <3>2 DEF EntryAsGiven
  <2> QED BY <1>1, <2>1 DEF EntriesAsGiven
<1>8. SegmentAsGiven'
  <2>1. u \notin Recorded /\ Recorded' = Recorded /\ Recorded \subseteq Uids
    BY <1>1 DEF Recorded
  <2> QED BY <1>1, <1>2, <2>1 DEF GivenInv, SegmentAsGiven
<1> QED BY <1>4, <1>5, <1>6, <1>7, <1>8 DEF GivenInv

\* The link leaves the active stack with the span.
LEMMA GivenPopped ==
  ASSUME IInv, StackInv, GivenInv, NEW u \in Uids, Popped(u)
  PROVE  GivenInv'
<1>1. /\ at = "run" /\ state[u] \in {"open", "moved"} /\ HasObj(u)
      /\ UNCHANGED <<finalized, given, segment>>
  BY DEF Popped
<1>2. /\ Plain(obj[u], given[u]) /\ Top.ref = given[u].link
  BY <1>1, PopFacts DEF GivenInv, CarriedIsPlain, Carried, Held, ActiveHasLink
<1>3. \A v \in Uids : /\ v # u => state'[v] = state[v] /\ obj'[v] = obj[v]
                      /\ Carried(v)' => Carried(v) /\ v # u
                      /\ state'[v] = "new" => state[v] = "new"
                      /\ v \in Recorded <=> v \in Recorded'
  <2>1. state \in [Uids -> States] /\ obj \in [Uids -> SpanObject \union {None}]
    BY DEF IInv, TypeOK
  <2>2. CASE \E s \in {"lost", "leaked"} : state' = [state EXCEPT ![u] = s]
    <3>1. at' = at /\ \A v \in Uids : v # u => obj'[v] = obj[v]
      BY <1>1, <2>1, <2>2 DEF Popped
    <3> QED BY <1>1, <2>1, <2>2, <3>1 DEF Carried, Held, Recorded
  <2>3. CASE at' = "finalizing" /\ state' = state /\ closing'.uid = u
    <3>1. \A v \in Uids : v # u => obj'[v] = obj[v]
      BY <2>1 DEF Popped
    <3> QED BY <1>1, <2>3, <3>1 DEF Carried, Held, Recorded
  <2> QED BY <2>2, <2>3 DEF Popped
<1>4. NewIsPlain' /\ EntriesAsGiven'
  BY <1>1, <1>3 DEF GivenInv, NewIsPlain, EntriesAsGiven, EntryAsGiven
<1>5. CarriedIsPlain'
  <2>1. ASSUME NEW v \in Uids, Carried(v)' PROVE Plain(obj'[v], given[v])
    BY <1>3, <2>1 DEF GivenInv, CarriedIsPlain
  <2> QED BY <1>1, <2>1 DEF CarriedIsPlain
<1>6. ActiveHasLink'
  BY <1>1, PopFacts DEF GivenInv, ActiveHasLink
<1>7. ClosingAsGiven'
  <2>1. CASE /\ closing' = [uid |-> u, obj |-> Ended(obj[u], Top.ref), ref |-> None]
             /\ obj' = [obj EXCEPT ![u] = None]
    <3>1. PICK e : e = Ended(obj[u], given[u].link)
      OBVIOUS
    <3>2. e # None
      BY <1>1, <3>1, GivenType, EndedType, ConstantsAssumption DEF IInv, HasObj
    <3>3. AsGiven(e, given[u])
      BY <1>1, <1>2, <3>1, GivenType, EndedGiven DEF IInv, HasObj
    <3>4. closing'.obj = e /\ closing'.uid = u
      BY <1>2, <2>1, <3>1
    <3> QED BY <1>1, <3>2, <3>3, <3>4 DEF ClosingAsGiven, EntryAsGiven
  <2>2. CASE closing' = [uid |-> u, obj |-> None, ref |-> Top.ref] /\ obj' = obj
    BY <1>1, <1>2, <2>2 DEF ClosingAsGiven, EntryAsGiven
  <2>3. CASE at' # "finalizing"
    BY <2>3 DEF ClosingAsGiven
  <2> QED BY <1>1, <2>1, <2>2, <2>3 DEF Popped
<1>8. SegmentAsGiven'
  <2>1. Recorded' = Recorded
    BY <1>3 DEF Recorded
  <2> QED BY <1>1, <2>1 DEF GivenInv, SegmentAsGiven
<1> QED BY <1>4, <1>5, <1>6, <1>7, <1>8 DEF GivenInv

\* The entry has what its span was given.
LEMMA GivenPushed ==
  ASSUME IInv, GivenInv, Pushed
  PROVE  GivenInv'
<1>1. PICK c \in Uids : c = closing.uid
  BY DEF Pushed, IInv, ClosingIsHeld, FinalizeSpan
<1>2. PICK n \in Nat : n = Len(finalized) /\ DOMAIN finalized = 1 .. n
  BY LenProperties DEF IInv, TypeOK
<1>3. /\ finalized' = Append(finalized, closing) /\ finalized \in Seq(FinalizeSpan)
      /\ closing \in FinalizeSpan /\ at = "finalizing" /\ at' = "run"
      /\ UNCHANGED <<active, obj, given, segment>> /\ state[c] \in {"open", "moved"}
  BY <1>1 DEF Pushed, IInv, TypeOK, ClosingIsHeld
<1>4. /\ DOMAIN finalized' = 1 .. (n + 1) /\ finalized'[n + 1] = closing
      /\ \A i \in 1 .. n : finalized'[i] = finalized[i]
  BY <1>2, <1>3
<1>5. /\ \A v \in Uids : v # c => state'[v] = state[v]
      /\ state'[c] = IF closing.obj = None THEN "async" ELSE "closed"
  BY <1>1, <1>3 DEF Pushed, IInv, TypeOK
<1>6. NewIsPlain' /\ ActiveHasLink'
  BY <1>3, <1>5 DEF GivenInv, NewIsPlain, ActiveHasLink
<1>7. CarriedIsPlain'
  <2>1. ASSUME NEW v \in Uids, Carried(v)' PROVE Plain(obj[v], given[v])
    <3>1. CASE v = c
      <4>1. closing.obj = None
        BY <1>3, <1>5, <2>1, <3>1 DEF Carried, Held
      <4> QED BY <1>1, <1>3, <3>1, <4>1 DEF GivenInv, ClosingAsGiven
    <3>2. CASE v # c
      BY <1>1, <1>3, <1>5, <2>1, <3>2 DEF GivenInv, CarriedIsPlain, Carried, Held
    <3> QED BY <3>1, <3>2
  <2> QED BY <1>3, <2>1 DEF CarriedIsPlain
<1>8. ClosingAsGiven'
  BY <1>3 DEF ClosingAsGiven
<1>9. EntriesAsGiven'
  <2>1. ASSUME NEW i \in 1 .. (n + 1) PROVE EntryAsGiven(finalized[i])'
    <3>1. PICK e : e = finalized'[i]
      OBVIOUS
    <3>2. EntryAsGiven(e)
      BY <1>2, <1>3, <1>4, <3>1 DEF GivenInv, ClosingAsGiven, EntriesAsGiven
    <3> QED BY <1>3, <3>1, <3>2 DEF EntryAsGiven
  <2> QED BY <1>4, <2>1 DEF EntriesAsGiven
<1>10. SegmentAsGiven'
  <2>1. Recorded \subseteq Recorded'
    BY <1>3, <1>5 DEF Recorded
  <2> QED BY <1>3, <2>1 DEF GivenInv, SegmentAsGiven
<1> QED BY <1>6, <1>7, <1>8, <1>9, <1>10 DEF GivenInv

\* The AsyncSpan takes the link over from its entry.
LEMMA GivenFilled ==
  ASSUME IInv, GivenInv, NEW u \in Uids, Filled(u)
  PROVE  GivenInv'
<1>1. /\ UNCHANGED <<active, at, closing, given, segment>> /\ state[u] = "writing" /\ HasObj(u)
      /\ state'[u] \in {"written", "panicked"}
      /\ \A v \in Uids : v # u => state'[v] = state[v] /\ obj'[v] = obj[v]
  BY DEF Filled, IInv, TypeOK
<1>2. Plain(obj[u], given[u])
  BY <1>1 DEF GivenInv, CarriedIsPlain, Carried
<1>3. NewIsPlain' /\ ActiveHasLink'
  BY <1>1 DEF GivenInv, NewIsPlain, ActiveHasLink
<1>4. CarriedIsPlain'
  <2>1. ASSUME NEW v \in Uids, Carried(v)' PROVE Plain(obj'[v], given[v])
    <3>1. v # u /\ Carried(v)
      BY <1>1, <2>1 DEF Carried, Held
    <3> QED BY <1>1, <3>1 DEF GivenInv, CarriedIsPlain
  <2> QED BY <1>1, <2>1 DEF CarriedIsPlain
<1>5. ClosingAsGiven'
  <2>1. at = "finalizing" => closing.uid \in Uids /\ closing.uid # u
    BY <1>1 DEF IInv, ClosingIsHeld, FinalizeSpan
  <2> QED BY <1>1, <2>1 DEF GivenInv, ClosingAsGiven, EntryAsGiven
<1>6. EntriesAsGiven'
  <2>1. CASE finalized' = finalized
    BY <1>1, <2>1 DEF GivenInv, EntriesAsGiven, EntryAsGiven
  <2>2. ASSUME NEW k \in DOMAIN finalized, finalized[k].uid = u,
               finalized' = [finalized EXCEPT
                 ![k] = [uid |-> u, obj |-> Ended(obj[u], finalized[k].ref), ref |-> None]]
        PROVE  EntriesAsGiven'
    <3>1. finalized[k].obj = None /\ finalized[k].ref = given[u].link
      <4>1. finalized[k].obj = None
        BY <1>1, <2>2, EntryNotHeld DEF Recorded
      <4> QED BY <2>2, <4>1 DEF GivenInv, EntriesAsGiven, EntryAsGiven
    <3>2. PICK e : e = Ended(obj[u], given[u].link)
      OBVIOUS
    <3>3. e # None
      BY <1>1, <3>2, GivenType, EndedType, ConstantsAssumption DEF IInv, HasObj
    <3>4. AsGiven(e, given[u])
      BY <1>1, <1>2, <3>2, GivenType, EndedGiven DEF IInv, HasObj
    <3>5. finalized' = [finalized EXCEPT ![k] = [uid |-> u, obj |-> e, ref |-> None]]
      BY <2>2, <3>1, <3>2
    <3>6. /\ DOMAIN finalized' = DOMAIN finalized
          /\ finalized'[k].uid = u /\ finalized'[k].obj = e
          /\ \A i \in DOMAIN finalized : i # k => finalized'[i] = finalized[i]
      BY <3>5
    <3>7. ASSUME NEW i \in DOMAIN finalized PROVE EntryAsGiven(finalized[i])'
      <4>1. CASE i = k
        BY <1>1, <3>3, <3>4, <3>6, <4>1 DEF EntryAsGiven
      <4>2. CASE i # k
        <5>1. EntryAsGiven(finalized[i])
          BY DEF GivenInv, EntriesAsGiven
        <5> QED BY <1>1, <3>6, <4>2, <5>1 DEF EntryAsGiven
      <4> QED BY <4>1, <4>2
    <3> QED BY <3>6, <3>7 DEF EntriesAsGiven
  <2> QED BY <2>1, <2>2 DEF Filled
<1>7. SegmentAsGiven'
  <2>1. Recorded \subseteq Recorded'
    BY <1>1 DEF Recorded
  <2> QED BY <1>1, <2>1 DEF GivenInv, SegmentAsGiven
<1> QED BY <1>3, <1>4, <1>5, <1>6, <1>7 DEF GivenInv

\* What is reported is what the entries hold.
LEMMA GivenConverted ==
  ASSUME IInv, GivenInv, Converted
  PROVE  GivenInv'
<1>1. /\ at = "converting" /\ at' = "run" /\ finalized' = <<>>
      /\ UNCHANGED <<active, state, obj, given, closing>>
  BY DEF Converted
<1>2. NewIsPlain' /\ ActiveHasLink' /\ ClosingAsGiven' /\ EntriesAsGiven'
  BY <1>1 DEF GivenInv, NewIsPlain, ActiveHasLink, ClosingAsGiven, EntriesAsGiven
<1>3. CarriedIsPlain'
  BY <1>1 DEF GivenInv, CarriedIsPlain, Carried, Held
<1>4. Recorded' = Recorded
  BY <1>1 DEF Recorded
<1>5. CASE segment' = segment
  <2>1. SegmentAsGiven'
    BY <1>1, <1>4, <1>5 DEF GivenInv, SegmentAsGiven
  <2> QED BY <1>2, <1>3, <2>1 DEF GivenInv
<1>6. CASE /\ \A i \in DOMAIN finalized : finalized[i].obj # None
           /\ segment' = [trace_id |-> trace_id,
                          spans |-> [i \in DOMAIN finalized |-> finalized[i].obj]]
  <2>1. segment'.spans = [i \in DOMAIN finalized |-> finalized[i].obj]
    BY <1>6
  <2>2. ASSUME NEW i \in DOMAIN finalized
        PROVE  /\ finalized[i].obj.span_id = finalized[i].uid
               /\ finalized[i].uid \in Recorded
               /\ AsGiven(finalized[i].obj, given[finalized[i].uid])
    BY <1>6, EntryNotHeld DEF IInv, EntriesTellState, EntryTellsState, GivenInv, EntriesAsGiven,
       EntryAsGiven
  <2>3. SegmentAsGiven'
    BY <1>1, <1>4, <2>1, <2>2 DEF SegmentAsGiven
  <2> QED BY <1>2, <1>3, <2>3 DEF GivenInv
<1> QED BY <1>5, <1>6 DEF Converted

\* Every step keeps what was given.
LEMMA GivenStep ==
  ASSUME IInv, StackInv, GivenInv, [Next]_vars
  PROVE  GivenInv'
<1>1. state \in [Uids -> States] /\ obj \in [Uids -> SpanObject \union {None}]
  BY DEF IInv, TypeOK
<1>2. CASE Quiet
  BY <1>2, GivenSame DEF Quiet, Carried, Held, Recorded
<1>3. ASSUME NEW u \in Uids, OutOfTurn(u) PROVE GivenInv'
  <2>1. /\ UNCHANGED <<given, active, finalized, closing, segment, at>> /\ at = "run"
    BY <1>3 DEF OutOfTurn
  <2>2. \A v \in Uids : /\ state'[v] = "new" => state[v] = "new"
                        /\ Carried(v)' => Carried(v) /\ obj'[v] = obj[v]
    BY <1>1, <1>3 DEF OutOfTurn, Carried, Held
  <2>3. Recorded \subseteq Recorded'
    BY <1>1, <1>3 DEF OutOfTurn, Recorded
  <2> QED BY <2>1, <2>2, <2>3, GivenSame
<1>4. ASSUME NEW u \in Uids, AsyncMoved(u) PROVE GivenInv'
  <2>1. /\ UNCHANGED <<given, active, finalized, closing, segment, at, obj>>
    BY <1>4 DEF AsyncMoved
  <2>2. \A v \in Uids : /\ state'[v] = "new" => state[v] = "new"
                        /\ Carried(v)' => Carried(v)
    BY <1>1, <1>4 DEF AsyncMoved, Carried, Held
  <2>3. Recorded \subseteq Recorded'
    BY <1>1, <1>4 DEF AsyncMoved, Recorded
  <2> QED BY <2>1, <2>2, <2>3, GivenSame
<1> QED
  BY <1>2, <1>3, <1>4, Effects, GivenOpened, GivenLinked, GivenTagged, GivenPopped, GivenPushed,
     GivenFilled, GivenConverted

\* Nothing was given to a new context.
LEMMA GivenInit == Init => GivenInv
<1> SUFFICES ASSUME Init PROVE GivenInv
  OBVIOUS
<1>1. NewIsPlain /\ ActiveHasLink /\ ClosingAsGiven /\ EntriesAsGiven /\ SegmentAsGiven
  BY DEF Init, NewIsPlain, ActiveHasLink, ClosingAsGiven, EntriesAsGiven, SegmentAsGiven
<1>2. CarriedIsPlain
  BY DEF Init, CarriedIsPlain, Carried, Held
<1> QED BY <1>1, <1>2 DEF GivenInv

\* A reported span has every tag and the last link the user gave it, however many
\* threads it went through and whatever else was given meanwhile.
THEOREM GivenCorrect == Spec => []ReportedAsGiven
<1>1. IInv /\ SpansInv /\ GivenInv /\ [Next]_vars => GivenInv'
  BY GivenStep DEF SpansInv
<1>2. GivenInv => ReportedAsGiven
  BY DEF GivenInv, SegmentAsGiven, ReportedAsGiven
<1> QED
  BY <1>1, <1>2, GivenInit, Inductive, SpansInductive, PTL DEF Spec

==============================================================================
