----------------------------- MODULE TraceLinks -----------------------------
(***************************************************************************)
(* How the segments of several TracingContexts are linked into traces:     *)
(* `sw8` headers between processes (src/trace/propagation), snapshots      *)
(* between threads (capture and continued of src/trace/trace_context.rs),  *)
(* and the trace context of a log (src/logging/record.rs, logger.rs).      *)
(*                                                                         *)
(* The contexts run in any interleaving. A header is delivered never,      *)
(* late, to several contexts or to the one that sent it; a snapshot can be *)
(* continued once, in any context. Spans are closed in their turn and the  *)
(* tracers stay alive; module TracingContext is about the rest.            *)
(*                                                                         *)
(* A header is the sequence of its pieces, what split('-') makes of it.    *)
(***************************************************************************)
EXTENDS Integers, Sequences

CONSTANTS Ctxs,        \* the contexts, each named by its trace_segment_id
          TracerOf,    \* the service and instance names of each context's tracer
          Foreign,     \* headers made elsewhere, malformed ones included
          Endpoint, Address, \* the destination given to encode_propagation
          MaxSpans,    \* bound: spans created in one context
          MaxGiven,    \* bound: headers and snapshots made, calls that give a log
                       \* record its trace context
          None

VARIABLES
  ctx,        \* every TracingContext: its fields and the object of each open span
  headers,    \* headers under way, each with what it was made from
  snapshots,  \* ContextSnapshots nobody has continued yet
  record,     \* the LogRecord being built
  logs,       \* the trace contexts of the logs reported
  segments,   \* what every context reported, None before
  \* history
  given,      \* headers, snapshots and calls on log records made
  shared,     \* contexts whose trace id was handed out
  relinked,   \* ... and changed after that
  adopted,    \* the trace ids every context took over
  unclosed    \* spans still open when the context was dropped

linkVars == <<headers, snapshots, given, shared>>
logVars == <<record, logs>>
endVars == <<segments, unclosed>>
pastVars == <<relinked, adopted>>

vars == <<ctx, linkVars, logVars, endVars, pastVars>>

------------------------------------------------------------------------------
(* The header                                                              *)

\* A generated trace id, named by the context it was generated for.
OwnTrace(c) == <<"trace", c>>

\* The alphabet of BASE64_STANDARD has no '-': one piece.
B64(x) == [b64 |-> x]

Is(p, k) == DOMAIN p = {k}

\* An i32 as format! writes it: the sign of a negative one separates pieces.
Show(n) == IF n < 0 THEN <<[raw |-> ""], [num |-> -n]>> ELSE <<[num |-> n]>>

PropagationContext(sample, trace, segment, span, tracer, endpoint, address) ==
  [do_sample |-> sample, parent_trace_id |-> trace,
   parent_trace_segment_id |-> segment, parent_span_id |-> span,
   parent_service |-> tracer.service, parent_service_instance |-> tracer.instance,
   destination_endpoint |-> endpoint, destination_address |-> address]

\* b64_encoded_into_string; base64 of the empty string is the empty piece.
DecodesB64(p) == Is(p, "b64") \/ p = [raw |-> ""]
FromB64(p) == IF Is(p, "b64") THEN p.b64 ELSE ""

\* try_parse_sample_status and try_parse_parent_span_id
IsSample(p) == Is(p, "num") /\ p.num \in {0, 1}

\* Defect: any number is a sample status.
DecodesAnySample(h) ==
  /\ Len(h) = 8
  /\ Is(h[1], "num") /\ Is(h[4], "num")
  /\ \A i \in {2, 3, 5, 6, 7, 8} : DecodesB64(h[i])

\* decode_propagation returns Ok.
Decodes(h) ==
  /\ Len(h) = 8
  /\ IsSample(h[1]) /\ Is(h[4], "num")
  /\ \A i \in {2, 3, 5, 6, 7, 8} : DecodesB64(h[i])

\* The value decode_propagation returns.
Decode(h) ==
  PropagationContext(h[1].num = 1, FromB64(h[2]), FromB64(h[3]), h[4].num,
                     [service |-> FromB64(h[5]), instance |-> FromB64(h[6])],
                     FromB64(h[7]), FromB64(h[8]))

\* Segment ids are random: no header made elsewhere names a context of ours.
ASSUME LinksAssumption ==
  /\ MaxSpans \in Nat \ {0} /\ MaxGiven \in Nat
  /\ \A h \in Foreign : Decodes(h) => Decode(h).parent_trace_segment_id \notin Ctxs

------------------------------------------------------------------------------
(* The contexts                                                            *)

New(c) == [phase |-> "live", trace_id |-> OwnTrace(c), next_span_id |-> 0,
           active |-> <<>>, finalized |-> <<>>]

Live(c) == ctx[c].phase = "live"

\* LogRecord::new. History: stale, the trace id of the context it was given has
\* changed since.
EmptyRecord == [ids |-> None, span |-> None, stale |-> FALSE]

Init ==
  /\ ctx = [c \in Ctxs |-> New(c)]
  /\ headers = {} /\ snapshots = {} /\ given = 0 /\ shared = {}
  /\ record = EmptyRecord /\ logs = {}
  /\ segments = [c \in Ctxs |-> None] /\ unclosed = [c \in Ctxs |-> {}]
  /\ relinked = {} /\ adopted = [c \in Ctxs |-> {}]

Top(c) == ctx[c].active[Len(ctx[c].active)]

\* Defect: the span to be created next.
PeekNextSpanId(c, default) ==
  IF ctx[c].active = <<>> THEN default ELSE ctx[c].next_span_id

\* peek_active_span_id().unwrap_or(default)
PeekActiveSpanId(c, default) ==
  IF ctx[c].active = <<>> THEN default ELSE Top(c).span_id

\* The context with one more span on its stack.
Pushed(c, refs) ==
  [ctx[c] EXCEPT !.next_span_id = @ + 1,
                 !.active = Append(@, [span_id |-> ctx[c].next_span_id,
                                       refs |-> refs, ref |-> None])]

\* History: the context takes over a trace id.
Adopt(c, trace) ==
  /\ adopted' = [adopted EXCEPT ![c] = @ \union {trace}]
  /\ relinked' = IF c \in shared /\ ctx[c].trace_id # trace
                 THEN relinked \union {c} ELSE relinked
  /\ record' = IF /\ record.ids # None /\ record.ids.trace_segment_id = c
                  /\ ctx[c].trace_id # trace
               THEN [record EXCEPT !.stale = TRUE] ELSE record

\* create_entry_span; after the first span create_exit_span and
\* create_local_span do the same to the state.
CreateSpan(c) ==
  /\ Live(c) /\ ctx[c].next_span_id < MaxSpans
  /\ ctx' = [ctx EXCEPT ![c] = Pushed(c, <<>>)]
  /\ UNCHANGED <<linkVars, logVars, endVars, pastVars>>

\* The SegmentReference of a header; endpoint and address are copied along.
CrossProcess(p) ==
  [ref_type |-> "CrossProcess", trace_id |-> p.parent_trace_id,
   parent_trace_segment_id |-> p.parent_trace_segment_id,
   parent_span_id |-> p.parent_span_id, parent_service |-> p.parent_service,
   parent_service_instance |-> p.parent_service_instance]

\* A header is received; one that does not decode leaves nothing to link.
CreateEntrySpanWithPropagation(c, h) ==
  LET p == Decode(h)
  IN  /\ Live(c) /\ ctx[c].next_span_id < MaxSpans /\ Decodes(h)
      /\ ctx' = [ctx EXCEPT ![c] = [Pushed(c, <<CrossProcess(p)>>) EXCEPT
                                      !.trace_id = p.parent_trace_id]]
      /\ Adopt(c, p.parent_trace_id)
      /\ UNCHANGED <<linkVars, logs, endVars>>

\* The youngest span is dropped: finalize_span.
CloseSpan(c) ==
  /\ Live(c) /\ ctx[c].active # <<>>
  /\ LET s == Top(c)
     IN  ctx' = [ctx EXCEPT
           ![c].active = SubSeq(@, 1, Len(@) - 1),
           ![c].finalized = Append(@, [span_id |-> s.span_id,
              refs |-> IF s.ref = None THEN s.refs ELSE Append(s.refs, s.ref)])]
  /\ UNCHANGED <<linkVars, logVars, endVars, pastVars>>

\* The trace id of c is handed out.
Give(c) ==
  /\ Live(c) /\ given < MaxGiven
  /\ given' = given + 1
  /\ shared' = shared \union {c}

\* Defect: no active span is encoded as -1.
EncodeMinusOne(c) ==
  <<[num |-> 1], B64(ctx[c].trace_id), B64(c)>> \o Show(PeekActiveSpanId(c, -1)) \o
  <<B64(TracerOf[c].service), B64(TracerOf[c].instance), B64(Endpoint), B64(Address)>>

\* encode_propagation
Encode(c) ==
  <<[num |-> 1], B64(ctx[c].trace_id), B64(c)>> \o Show(PeekActiveSpanId(c, 0)) \o
  <<B64(TracerOf[c].service), B64(TracerOf[c].instance), B64(Endpoint), B64(Address)>>

SendHeader(c) ==
  /\ Give(c)
  /\ headers' = headers \union
       {[pieces |-> Encode(c),
         made |-> PropagationContext(TRUE, ctx[c].trace_id, c,
                    IF ctx[c].active = <<>> THEN 0 ELSE Top(c).span_id,
                    TracerOf[c], Endpoint, Address)]}
  /\ UNCHANGED <<ctx, snapshots, logVars, endVars, pastVars>>

\* capture, without the endpoint it copies.
Capture(c) ==
  /\ Give(c)
  /\ snapshots' = snapshots \union
       {[trace_id |-> ctx[c].trace_id, trace_segment_id |-> c,
         span_id |-> PeekActiveSpanId(c, -1)]}
  /\ UNCHANGED <<ctx, headers, logVars, endVars, pastVars>>

\* Defect: the span of the snapshot is not checked.
IsValidAnySpan(s) == s.trace_id # None

\* ContextSnapshot::is_valid; generated ids are never empty.
IsValid(s) == s.span_id > -1

\* The SegmentReference of a snapshot: the service is that of c's own tracer.
CrossThread(c, s) ==
  [ref_type |-> "CrossThread", trace_id |-> s.trace_id,
   parent_trace_segment_id |-> s.trace_segment_id, parent_span_id |-> s.span_id,
   parent_service |-> TracerOf[c].service,
   parent_service_instance |-> TracerOf[c].instance]

\* Defect: the trace id of the snapshot is not taken over.
ContinuedOwnTrace(c, s) ==
  /\ Live(c) /\ s \in snapshots
  /\ snapshots' = snapshots \ {s}
  /\ IF IsValid(s)
     THEN /\ ctx' = [ctx EXCEPT
               ![c].active = IF @ = <<>> THEN @
                             ELSE [@ EXCEPT ![Len(@)].ref = CrossThread(c, s)]]
          /\ Adopt(c, s.trace_id)
     ELSE UNCHANGED <<ctx, record, pastVars>>
  /\ UNCHANGED <<headers, given, shared, logs, endVars>>

\* continued takes the snapshot: it is used up. Without an active span the
\* trace id is taken over and no reference is kept.
Continued(c, s) ==
  /\ Live(c) /\ s \in snapshots
  /\ snapshots' = snapshots \ {s}
  /\ IF IsValid(s)
     THEN /\ ctx' = [ctx EXCEPT
               ![c].trace_id = s.trace_id,
               ![c].active = IF @ = <<>> THEN @
                             ELSE [@ EXCEPT ![Len(@)].ref = CrossThread(c, s)]]
          /\ Adopt(c, s.trace_id)
     ELSE UNCHANGED <<ctx, record, pastVars>>
  /\ UNCHANGED <<headers, given, shared, logs, endVars>>

\* Drop for TracingContext: the finalized spans are reported.
DropContext(c) ==
  /\ Live(c)
  /\ segments' = [segments EXCEPT
       ![c] = [trace_id |-> ctx[c].trace_id, trace_segment_id |-> c,
               spans |-> ctx[c].finalized]]
  /\ unclosed' = [unclosed EXCEPT
       ![c] = {ctx[c].active[i].span_id : i \in DOMAIN ctx[c].active}]
  /\ ctx' = [ctx EXCEPT ![c].phase = "dropped", ![c].active = <<>>, ![c].finalized = <<>>]
  /\ UNCHANGED <<linkVars, logVars, pastVars>>

------------------------------------------------------------------------------
(* A log record                                                            *)

\* Every Span that is held, of any context; one may outlive its context.
Held == UNION {{[span_of |-> c, span_id |-> n] :
                  n \in {ctx[c].active[i].span_id : i \in DOMAIN ctx[c].active}
                        \union unclosed[c]} : c \in Ctxs}

\* The builder copies the ids of a context, and the id of a span of the same or of
\* another one; the two calls may come at different times and in any order.
WithTracingContext(c) ==
  /\ Live(c) /\ given < MaxGiven
  /\ given' = given + 1
  /\ record' = [ids |-> [trace_id |-> ctx[c].trace_id, trace_segment_id |-> c],
                span |-> record.span, stale |-> FALSE]
  /\ UNCHANGED <<ctx, headers, snapshots, shared, logs, endVars, pastVars>>

WithSpan(s) ==
  /\ given < MaxGiven
  /\ given' = given + 1
  /\ record' = [ids |-> record.ids, span |-> s, stale |-> record.stale]
  /\ UNCHANGED <<ctx, headers, snapshots, shared, logs, endVars, pastVars>>

\* The trace context of convert_to_log_data.
TraceContext(r) ==
  [trace_id |-> r.ids.trace_id, trace_segment_id |-> r.ids.trace_segment_id,
   span_id |-> r.span.span_id, span_of |-> r.span.span_of, stale |-> r.stale]

\* Logger::log takes the record; one without all three ids has no trace context.
Log ==
  /\ record' = EmptyRecord
  /\ IF record.ids # None /\ record.span # None
     THEN /\ logs' = logs \union {TraceContext(record)}
          /\ shared' = shared \union {record.ids.trace_segment_id}
     ELSE UNCHANGED <<logs, shared>>
  /\ UNCHANGED <<ctx, headers, snapshots, given, endVars, pastVars>>

------------------------------------------------------------------------------

Received == Foreign \union {h.pieces : h \in headers}

Next ==
  \/ \E c \in Ctxs :
       \/ CreateSpan(c) \/ CloseSpan(c) \/ DropContext(c)
       \/ SendHeader(c) \/ Capture(c)
       \/ \E h \in Received : CreateEntrySpanWithPropagation(c, h)
       \/ \E s \in snapshots : Continued(c, s)
       \/ WithTracingContext(c)
  \/ \E s \in Held : WithSpan(s)
  \/ Log

Spec == Init /\ [][Next]_vars

------------------------------------------------------------------------------
(* Properties                                                              *)

SpanIds == 0 .. (MaxSpans - 1)

\* What headers from elsewhere can bring in.
Incoming == {Decode(h) : h \in {g \in Foreign : Decodes(g)}}
ForeignRefs == {CrossProcess(p) : p \in Incoming}

TraceIds == {OwnTrace(c) : c \in Ctxs} \union {p.parent_trace_id : p \in Incoming}

SegmentReference ==
  ForeignRefs \union
  [ref_type : {"CrossProcess", "CrossThread"}, trace_id : TraceIds,
   parent_trace_segment_id : Ctxs, parent_span_id : SpanIds,
   parent_service : {TracerOf[c].service : c \in Ctxs},
   parent_service_instance : {TracerOf[c].instance : c \in Ctxs}]

ActiveSpan == [span_id : SpanIds, refs : Seq(SegmentReference),
               ref : SegmentReference \union {None}]

SpanObject == [span_id : SpanIds, refs : Seq(SegmentReference)]

Context == [phase : {"live", "dropped"}, trace_id : TraceIds, next_span_id : 0 .. MaxSpans,
            active : Seq(ActiveSpan), finalized : Seq(SpanObject)]

Snapshot == [trace_id : TraceIds, trace_segment_id : Ctxs, span_id : SpanIds \union {-1}]

RecordIds == [trace_id : TraceIds, trace_segment_id : Ctxs]

SpanLink == [span_of : Ctxs, span_id : SpanIds]

LogLink == [trace_id : TraceIds, trace_segment_id : Ctxs, span_id : SpanIds,
            span_of : Ctxs, stale : BOOLEAN]

Segment == [trace_id : TraceIds, trace_segment_id : Ctxs, spans : Seq(SpanObject)]

TypeOK ==
  /\ ctx \in [Ctxs -> Context]
  /\ snapshots \subseteq Snapshot
  /\ record \in [ids : RecordIds \union {None}, span : SpanLink \union {None},
                 stale : BOOLEAN]
  /\ logs \subseteq LogLink
  /\ segments \in [Ctxs -> Segment \union {None}]
  /\ unclosed \in [Ctxs -> SUBSET SpanIds]
  /\ given \in 0 .. MaxGiven
  /\ shared \subseteq Ctxs /\ relinked \subseteq shared
  /\ adopted \in [Ctxs -> SUBSET TraceIds]

Reported == {c \in Ctxs : segments[c] # None}

\* The references in a list of spans.
RefsIn(spans) ==
  UNION {{spans[i].refs[j] : j \in DOMAIN spans[i].refs} : i \in DOMAIN spans}

RefsOf(c) == RefsIn(segments[c].spans)

\* Spans of a dropped context, reported or left open.
SpansOf(c) == {segments[c].spans[i].span_id : i \in DOMAIN segments[c].spans}
              \union unclosed[c]

\* A header that encode_propagation makes is decoded by decode_propagation to
\* what it was made from, whatever the state of the context: the separator of
\* the pieces never appears in one.
HeadersDecode ==
  \A h \in headers : Decodes(h.pieces) /\ Decode(h.pieces) = h.made

\* A reference field has the text of a piece.
Text(p, x) == IF Is(p, "b64") THEN p.b64 = x ELSE p = [raw |-> ""] /\ x = ""

\* What protocol v3 makes of a header: eight pieces, a sample status, a span
\* number, six texts. It carries the reference r.
Says(h, r) ==
  /\ Len(h) = 8
  /\ Is(h[1], "num") /\ h[1].num \in {0, 1}
  /\ Is(h[4], "num") /\ h[4].num = r.parent_span_id
  /\ Text(h[2], r.trace_id) /\ Text(h[3], r.parent_trace_segment_id)
  /\ Text(h[5], r.parent_service) /\ Text(h[6], r.parent_service_instance)
  /\ Text(h[7], FromB64(h[7])) /\ Text(h[8], FromB64(h[8]))

\* A reference of a reported segment names a span that its parent really
\* created and reported, or left open; and the service it ran in. Or it comes
\* from elsewhere, and a well-formed header said all of it: nothing is linked to
\* a malformed one. Two exceptions are the code's: a header sent by a context
\* without any span names span 0, and a context continued under another tracer
\* names that tracer's service.
LinksResolve ==
  \A c \in Reported : \A r \in RefsOf(c) :
    LET p == r.parent_trace_segment_id
    IN  /\ p \notin Ctxs => r.ref_type = "CrossProcess" /\ \E h \in Foreign : Says(h, r)
        /\ p \in Reported =>
             /\ \/ r.parent_span_id \in SpansOf(p)
                \/ r.ref_type = "CrossProcess" /\ r.parent_span_id = 0 /\ SpansOf(p) = {}
             /\ \/ /\ r.parent_service = TracerOf[p].service
                   /\ r.parent_service_instance = TracerOf[p].instance
                \/ r.ref_type = "CrossThread" /\ TracerOf[c] # TracerOf[p]

\* A segment has the trace id of the segments it refers to, and a log that of
\* the segment it belongs to, unless the user linked too late (the parent's
\* trace id changed after it was handed out) or linked one context to two
\* traces. The log names a span of that segment when both came from one context.
TraceIdsAgree ==
  /\ \A c \in Reported : \A r \in RefsOf(c) :
       /\ adopted[c] = {r.trace_id} => segments[c].trace_id = r.trace_id
       /\ r.parent_trace_segment_id \in Reported \ relinked =>
            segments[r.parent_trace_segment_id].trace_id = r.trace_id
  /\ \A l \in logs :
       l.trace_segment_id \in Reported =>
         /\ l.trace_segment_id \notin relinked /\ ~l.stale =>
              segments[l.trace_segment_id].trace_id = l.trace_id
         /\ l.span_of = l.trace_segment_id => l.span_id \in SpansOf(l.span_of)

==============================================================================
