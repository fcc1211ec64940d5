-------------------------- MODULE TraceLinksProofs --------------------------
(***************************************************************************)
(* Headers decode, references resolve and trace ids agree, for any number  *)
(* of contexts, spans, headers and snapshots.                              *)
(*                                                                         *)
(* A link is made from a context p at one moment and used at another. What *)
(* stays true of it in between is Linked and HasSpan: p is known to have   *)
(* given its trace id away, still has that id unless it was relinked, and  *)
(* has created the span named. Every step lets the state grow in a way     *)
(* that keeps both (Grows), so that only new links need an argument.       *)
(***************************************************************************)
EXTENDS TraceLinks, TLAPS

\* The trace id t, given out by p, is still that of p.
Linked(p, t) == p \in shared /\ (p \notin relinked => ctx[p].trace_id = t)

HasSpan(p, n) == n < ctx[p].next_span_id

\* The span a header can name: also span 0 of a context that has none.
HeaderSpan(p, n) == HasSpan(p, n) \/ n = 0

SnapshotOK(s) ==
  Linked(s.trace_segment_id, s.trace_id) /\ HasSpan(s.trace_segment_id, s.span_id)

HeaderOK(h) ==
  /\ Decodes(h.pieces) /\ Decode(h.pieces) = h.made
  /\ \E c \in Ctxs, t \in TraceIds, n \in SpanIds :
       /\ h.made = PropagationContext(TRUE, t, c, n, TracerOf[c], Endpoint, Address)
       /\ Linked(c, t) /\ HeaderSpan(c, n)

LogOK(l) ==
  /\ ~l.stale => Linked(l.trace_segment_id, l.trace_id)
  /\ HasSpan(l.span_of, l.span_id)

\* The record being built has the trace id of its context, unless that changed
\* since, and names a span that was created.
RecordOK ==
  /\ record.ids # None /\ ~record.stale =>
       ctx[record.ids.trace_segment_id].trace_id = record.ids.trace_id
  /\ record.span # None => HasSpan(record.span.span_of, record.span.span_id)

\* A reference that context c can take.
RefGood(c, r) ==
  \/ r \in ForeignRefs
  \/ LET p == r.parent_trace_segment_id
     IN  /\ p \in Ctxs /\ Linked(p, r.trace_id)
         /\ \/ HasSpan(p, r.parent_span_id)
            \/ r.ref_type = "CrossProcess" /\ r.parent_span_id = 0
         /\ \/ /\ r.parent_service = TracerOf[p].service
               /\ r.parent_service_instance = TracerOf[p].instance
            \/ r.ref_type = "CrossThread" /\ TracerOf[c] # TracerOf[p]

\* A reference that it has taken.
RefOK(c, r) == r.trace_id \in adopted[c] /\ RefGood(c, r)

\* The references left by `continued` in open spans.
PendingIn(spans) == {spans[i].ref : i \in DOMAIN spans} \ {None}

\* All references of c, wherever they are.
KeptRefs(c) ==
  RefsIn(ctx[c].active) \union PendingIn(ctx[c].active) \union RefsIn(ctx[c].finalized)
  \union (IF Live(c) THEN {} ELSE RefsOf(c))

RefsKept(c) == \A r \in KeptRefs(c) : RefOK(c, r)

IdsIn(spans) == {spans[i].span_id : i \in DOMAIN spans}

\* Every span created is somewhere, and nothing else is.
SpansKept(c) ==
  /\ Live(c) => IdsIn(ctx[c].active) \union IdsIn(ctx[c].finalized)
                = 0 .. (ctx[c].next_span_id - 1)
  /\ ~Live(c) => ctx[c].active = <<>> /\ SpansOf(c) = 0 .. (ctx[c].next_span_id - 1)

\* A context is reported when it is dropped, with the trace id it has then.
ReportKept(c) ==
  /\ Live(c) => segments[c] = None /\ unclosed[c] = {}
  /\ ~Live(c) => segments[c] \in Segment /\ segments[c].trace_id = ctx[c].trace_id

AdoptedKept(c) == adopted[c] # {} => ctx[c].trace_id \in adopted[c]

ContextOK(c) == SpansKept(c) /\ ReportKept(c) /\ AdoptedKept(c)

LinksOK ==
  /\ \A s \in snapshots : IsValid(s) => SnapshotOK(s)
  /\ \A h \in headers : HeaderOK(h)
  /\ \A l \in logs : LogOK(l)

IInv == TypeOK /\ LinksOK /\ RecordOK /\ \A c \in Ctxs : RefsKept(c) /\ ContextOK(c)

\* What no step takes back.
Grows ==
  \A p \in Ctxs :
    /\ ctx[p].next_span_id <= ctx'[p].next_span_id
    /\ adopted[p] \subseteq adopted'[p]
    /\ p \in shared => p \in shared'
    /\ p \in relinked => p \in relinked'
    /\ p \in shared /\ p \notin relinked' => ctx'[p].trace_id = ctx[p].trace_id

------------------------------------------------------------------------------
(* Lists of spans                                                          *)

\* The items of a list after one is appended.
LEMMA AppendItems ==
  ASSUME NEW S, NEW q \in Seq(S), NEW x \in S
  PROVE  \A j \in DOMAIN Append(q, x) :
           Append(q, x)[j] = x \/ (j \in DOMAIN q /\ Append(q, x)[j] = q[j])
<1> DEFINE t == Append(q, x)
<1>1. /\ Len(q) \in Nat /\ DOMAIN q = 1 .. Len(q) /\ DOMAIN t = 1 .. (Len(q) + 1)
      /\ \A i \in 1 .. Len(q) : t[i] = q[i]
      /\ t[Len(q) + 1] = x
  OBVIOUS
<1> HIDE DEF t
<1>2. ASSUME NEW j \in DOMAIN t PROVE t[j] = x \/ (j \in DOMAIN q /\ t[j] = q[j])
  <2>1. j \in 1 .. Len(q) \/ j = Len(q) + 1
    BY <1>1
  <2> QED
    BY <1>1, <2>1
<1> QED
  BY <1>2 DEF t

\* References after a span is pushed.
LEMMA RefsAppend ==
  ASSUME NEW S, NEW s \in Seq(S), NEW e \in S
  PROVE  /\ RefsIn(Append(s, e)) \subseteq RefsIn(s) \union {e.refs[j] : j \in DOMAIN e.refs}
         /\ PendingIn(Append(s, e)) \subseteq PendingIn(s) \union ({e.ref} \ {None})
         /\ IdsIn(Append(s, e)) = IdsIn(s) \union {e.span_id}
<1> DEFINE t == Append(s, e)
<1>1. /\ Len(s) \in Nat /\ DOMAIN s = 1 .. Len(s) /\ DOMAIN t = 1 .. (Len(s) + 1)
      /\ \A i \in 1 .. Len(s) : t[i] = s[i]
      /\ t[Len(s) + 1] = e
  OBVIOUS
<1> HIDE DEF t
<1>2. RefsIn(t) \subseteq RefsIn(s) \union {e.refs[j] : j \in DOMAIN e.refs}
  <2> SUFFICES ASSUME NEW i \in DOMAIN t, NEW j \in DOMAIN t[i].refs
               PROVE  t[i].refs[j] \in RefsIn(s) \union {e.refs[k] : k \in DOMAIN e.refs}
    BY DEF RefsIn
  <2>1. CASE i \in 1 .. Len(s)
    BY <1>1, <2>1 DEF RefsIn
  <2>2. CASE i = Len(s) + 1
    BY <1>1, <2>2
  <2> QED
    BY <1>1, <2>1, <2>2
<1>3. IdsIn(t) = IdsIn(s) \union {e.span_id}
  <2>1. \A i \in DOMAIN t : t[i].span_id \in IdsIn(s) \union {e.span_id}
    <3> SUFFICES ASSUME NEW i \in DOMAIN t
                 PROVE  t[i].span_id \in IdsIn(s) \union {e.span_id}
      OBVIOUS
    <3>1. CASE i \in 1 .. Len(s)
      BY <1>1, <3>1 DEF IdsIn
    <3>2. CASE i = Len(s) + 1
      BY <1>1, <3>2
    <3> QED
      BY <1>1, <3>1, <3>2
  <2>2. \A i \in DOMAIN s : s[i].span_id \in IdsIn(t)
    BY <1>1 DEF IdsIn
  <2>3. e.span_id \in IdsIn(t)
    BY <1>1 DEF IdsIn
  <2> QED
    BY <2>1, <2>2, <2>3 DEF IdsIn
<1>4. PendingIn(t) \subseteq PendingIn(s) \union ({e.ref} \ {None})
  <2> SUFFICES ASSUME NEW i \in DOMAIN t, t[i].ref # None
               PROVE  t[i].ref \in PendingIn(s) \union ({e.ref} \ {None})
    BY DEF PendingIn
  <2>1. CASE i \in 1 .. Len(s)
    BY <1>1, <2>1 DEF PendingIn
  <2>2. CASE i = Len(s) + 1
    BY <1>1, <2>2
  <2> QED
    BY <1>1, <2>1, <2>2
<1> QED
  BY <1>2, <1>3, <1>4 DEF t

\* ... and after the last one is popped.
LEMMA RefsFront ==
  ASSUME NEW S, NEW s \in Seq(S), s # <<>>
  PROVE  /\ s[Len(s)] \in S
         /\ SubSeq(s, 1, Len(s) - 1) \in Seq(S)
         /\ RefsIn(SubSeq(s, 1, Len(s) - 1)) \subseteq RefsIn(s)
         /\ PendingIn(SubSeq(s, 1, Len(s) - 1)) \subseteq PendingIn(s)
         /\ \A j \in DOMAIN s[Len(s)].refs : s[Len(s)].refs[j] \in RefsIn(s)
         /\ s[Len(s)].ref # None => s[Len(s)].ref \in PendingIn(s)
         /\ IdsIn(s) = IdsIn(SubSeq(s, 1, Len(s) - 1)) \union {s[Len(s)].span_id}
<1> DEFINE n == Len(s)
           t == SubSeq(s, 1, n - 1)
<1>1. n \in Nat \ {0} /\ DOMAIN s = 1 .. n
  OBVIOUS
<1>2. /\ t \in Seq(S) /\ DOMAIN t = 1 .. (n - 1)
      /\ \A i \in 1 .. (n - 1) : t[i] = s[i]
  BY <1>1
<1> HIDE DEF t, n
<1>3. s[n] \in S
  BY <1>1
<1>4. RefsIn(t) \subseteq RefsIn(s)
  <2> SUFFICES ASSUME NEW i \in DOMAIN t, NEW j \in DOMAIN t[i].refs
               PROVE  t[i].refs[j] \in RefsIn(s)
    BY DEF RefsIn
  <2>1. i \in DOMAIN s /\ t[i] = s[i]
    BY <1>1, <1>2
  <2> QED
    BY <2>1 DEF RefsIn
<1>5. IdsIn(s) = IdsIn(t) \union {s[n].span_id}
  <2>1. \A i \in DOMAIN s : s[i].span_id \in IdsIn(t) \union {s[n].span_id}
    <3> SUFFICES ASSUME NEW i \in DOMAIN s
                 PROVE  s[i].span_id \in IdsIn(t) \union {s[n].span_id}
      OBVIOUS
    <3>1. CASE i \in 1 .. (n - 1)
      BY <1>2, <3>1 DEF IdsIn
    <3>2. CASE i = n
      BY <3>2
    <3> QED
      BY <1>1, <3>1, <3>2
  <2>2. \A i \in DOMAIN t : t[i].span_id \in IdsIn(s)
    BY <1>1, <1>2 DEF IdsIn
  <2>3. s[n].span_id \in IdsIn(s)
    BY <1>1 DEF IdsIn
  <2> QED
    BY <2>1, <2>2, <2>3 DEF IdsIn
<1>6. PendingIn(t) \subseteq PendingIn(s)
  BY <1>1, <1>2 DEF PendingIn
<1>7. /\ \A j \in DOMAIN s[n].refs : s[n].refs[j] \in RefsIn(s)
      /\ s[n].ref # None => s[n].ref \in PendingIn(s)
  BY <1>1 DEF RefsIn, PendingIn
<1> QED
  BY <1>2, <1>3, <1>4, <1>5, <1>6, <1>7 DEF t, n

\* A record with one field changed.
LEMMA SetRef ==
  ASSUME NEW A, NEW B, NEW C, NEW e \in [span_id : A, refs : B, ref : C], NEW r,
         r \in C
  PROVE  /\ [e EXCEPT !.ref = r] \in [span_id : A, refs : B, ref : C]
         /\ [e EXCEPT !.ref = r].ref = r
OBVIOUS

\* ... and after `continued` left a reference in the last one.
LEMMA RefsSetLast ==
  ASSUME NEW s \in Seq(ActiveSpan), s # <<>>, NEW r \in SegmentReference, NEW t,
         t = [s EXCEPT ![Len(s)].ref = r]
  PROVE  /\ t \in Seq(ActiveSpan)
         /\ RefsIn(t) = RefsIn(s) /\ IdsIn(t) = IdsIn(s)
         /\ PendingIn(t) \subseteq PendingIn(s) \union {r}
<1> DEFINE n == Len(s)
<1>1. n \in Nat \ {0} /\ DOMAIN s = 1 .. n /\ DOMAIN t = 1 .. n /\ s[n] \in ActiveSpan
  OBVIOUS
<1>2. t[n] = [s[n] EXCEPT !.ref = r] /\ \A i \in 1 .. n : i # n => t[i] = s[i]
  BY <1>1
<1> HIDE DEF n
<1>3. \A i \in 1 .. n : t[i].refs = s[i].refs /\ t[i].span_id = s[i].span_id
  BY <1>1, <1>2 DEF ActiveSpan
<1>4. t[n] \in ActiveSpan /\ t[n].ref = r
  <2> DEFINE e == s[n]
  <2>1. e \in ActiveSpan
    BY <1>1
  <2>2. t[n] = [e EXCEPT !.ref = r]
    BY <1>2
  <2> HIDE DEF e
  <2>3. [e EXCEPT !.ref = r] \in ActiveSpan /\ [e EXCEPT !.ref = r].ref = r
    BY <2>1, SetRef DEF ActiveSpan
  <2> QED
    BY <2>2, <2>3
<1>5. t \in Seq(ActiveSpan)
  <2>1. \A i \in 1 .. n : t[i] \in ActiveSpan
    BY <1>1, <1>2, <1>4
  <2>2. t = [i \in 1 .. n |-> t[i]]
    BY <1>1
  <2> QED
    BY <1>1, <2>1, <2>2
<1>6. RefsIn(t) = RefsIn(s) /\ IdsIn(t) = IdsIn(s)
  BY <1>1, <1>3 DEF RefsIn, IdsIn
<1>7. PendingIn(t) \subseteq PendingIn(s) \union {r}
  BY <1>1, <1>2, <1>4 DEF PendingIn
<1> QED
  BY <1>5, <1>6, <1>7

------------------------------------------------------------------------------
(* What grows keeps links                                                  *)

\* A trace id given out stays valid until the context is relinked.
LEMMA LinkedGrows ==
  ASSUME Grows, NEW p \in Ctxs, NEW t, Linked(p, t)
  PROVE  Linked(p, t)'
BY DEF Grows, Linked

\* A span that was created stays created.
LEMMA HasSpanGrows ==
  ASSUME TypeOK, TypeOK', Grows, NEW p \in Ctxs, NEW n \in Int, HasSpan(p, n)
  PROVE  HasSpan(p, n)'
<1>1. ctx[p].next_span_id \in Int /\ ctx'[p].next_span_id \in Int
  BY LinksAssumption DEF TypeOK, Context
<1>2. ctx[p].next_span_id <= ctx'[p].next_span_id
  BY DEF Grows
<1> QED
  BY <1>1, <1>2 DEF HasSpan

\* The references in well-typed spans.
LEMMA RefsInType ==
  ASSUME NEW S, NEW spans \in Seq(S),
         \A s \in S : s.refs \in Seq(SegmentReference)
  PROVE  RefsIn(spans) \subseteq SegmentReference
<1> SUFFICES ASSUME NEW i \in DOMAIN spans, NEW j \in DOMAIN spans[i].refs
             PROVE  spans[i].refs[j] \in SegmentReference
  BY DEF RefsIn
<1>1. spans[i] \in S
  OBVIOUS
<1> DEFINE R == spans[i].refs
<1>2. R \in Seq(SegmentReference)
  BY <1>1
<1>3. j \in DOMAIN R
  OBVIOUS
<1> HIDE DEF R
<1>4. R[j] \in SegmentReference
  BY <1>2, <1>3
<1> QED
  BY <1>4 DEF R

\* Every reference kept is a SegmentReference.
LEMMA KeptRefsType ==
  ASSUME TypeOK, NEW c \in Ctxs, ContextOK(c), NEW r \in KeptRefs(c)
  PROVE  r \in SegmentReference
<1>1. /\ ctx[c].active \in Seq(ActiveSpan) /\ ctx[c].finalized \in Seq(SpanObject)
      /\ ~Live(c) => segments[c].spans \in Seq(SpanObject)
  BY DEF TypeOK, Context, Segment, ContextOK, ReportKept
<1>2. /\ \A s \in ActiveSpan : s.refs \in Seq(SegmentReference)
      /\ \A s \in SpanObject : s.refs \in Seq(SegmentReference)
  BY DEF ActiveSpan, SpanObject
<1>3. RefsIn(ctx[c].active) \subseteq SegmentReference
  BY <1>1, <1>2, RefsInType
<1>4. RefsIn(ctx[c].finalized) \subseteq SegmentReference
  BY <1>1, <1>2, RefsInType
<1>5. ~Live(c) => RefsOf(c) \subseteq SegmentReference
  BY <1>1, <1>2, RefsInType DEF RefsOf
<1>6. PendingIn(ctx[c].active) \subseteq SegmentReference
  <2> SUFFICES ASSUME NEW i \in DOMAIN ctx[c].active, ctx[c].active[i].ref # None
               PROVE  ctx[c].active[i].ref \in SegmentReference
    BY DEF PendingIn
  <2>1. ctx[c].active[i] \in ActiveSpan
    BY <1>1
  <2> QED
    BY <2>1 DEF ActiveSpan
<1> QED
  BY <1>3, <1>4, <1>5, <1>6 DEF KeptRefs

\* A reference once good stays good.
LEMMA RefGrows ==
  ASSUME TypeOK, TypeOK', Grows, NEW c \in Ctxs, NEW r \in SegmentReference, RefGood(c, r)
  PROVE  RefGood(c, r)'
<1>1. CASE r \in ForeignRefs
  BY <1>1 DEF RefGood
<1>2. CASE r \notin ForeignRefs
  <2> DEFINE p == r.parent_trace_segment_id
  <2>1. p \in Ctxs /\ r.parent_span_id \in Int
    BY <1>2, LinksAssumption DEF SegmentReference, SpanIds
  <2>2. Linked(p, r.trace_id)'
    BY <1>2, <2>1, LinkedGrows DEF RefGood
  <2>3. \/ HasSpan(p, r.parent_span_id)'
        \/ r.ref_type = "CrossProcess" /\ r.parent_span_id = 0
    BY <1>2, <2>1, HasSpanGrows DEF RefGood
  <2>4. \/ /\ r.parent_service = TracerOf[p].service
           /\ r.parent_service_instance = TracerOf[p].instance
        \/ r.ref_type = "CrossThread" /\ TracerOf[c] # TracerOf[p]
    BY <1>2 DEF RefGood
  <2> QED
    BY <2>1, <2>2, <2>3, <2>4 DEF RefGood
<1> QED
  BY <1>1, <1>2

\* A context that a step leaves alone.
LEMMA Frame ==
  ASSUME NEW d \in Ctxs, ctx'[d] = ctx[d], segments'[d] = segments[d],
         unclosed'[d] = unclosed[d], adopted'[d] = adopted[d], ContextOK(d)
  PROVE  ContextOK(d)' /\ KeptRefs(d)' = KeptRefs(d)
BY DEF ContextOK, SpansKept, ReportKept, AdoptedKept, KeptRefs, PendingIn, RefsOf, RefsIn,
       IdsIn, SpansOf, Live

\* Only the new links and the contexts that change need an argument.
LEMMA CombineAll ==
  ASSUME IInv, TypeOK', Grows, RecordOK',
         \A s \in snapshots' : IsValid(s) => s \in snapshots \/ SnapshotOK(s)',
         \A h \in headers' : h \in headers \/ HeaderOK(h)',
         \A l \in logs' : l \in logs \/ LogOK(l)',
         \A d \in Ctxs : ContextOK(d)' /\ \A r \in KeptRefs(d)' : r \in KeptRefs(d) \/ RefOK(d, r)'
  PROVE  IInv'
<1>1. TypeOK /\ TypeOK'
  BY DEF IInv
<1>2. \A d \in Ctxs : ContextOK(d)' /\ \A r \in KeptRefs(d)' : r \in KeptRefs(d) \/ RefOK(d, r)'
  OBVIOUS
<1>3. ASSUME NEW d \in Ctxs PROVE RefsKept(d)'
  <2> SUFFICES ASSUME NEW r \in KeptRefs(d)', r \in KeptRefs(d)
               PROVE  RefOK(d, r)'
    BY <1>2 DEF RefsKept
  <2>1. r \in SegmentReference /\ RefOK(d, r)
    BY <1>1, KeptRefsType DEF IInv, RefsKept
  <2>2. RefGood(d, r)'
    BY <1>1, <2>1, RefGrows DEF RefOK
  <2> QED
    BY <2>1, <2>2 DEF RefOK, Grows
<1>4. ASSUME NEW s \in snapshots', IsValid(s) PROVE SnapshotOK(s)'
  <2> SUFFICES ASSUME s \in snapshots PROVE SnapshotOK(s)'
    BY <1>4
  <2>1. s.trace_segment_id \in Ctxs /\ s.span_id \in Int /\ SnapshotOK(s)
    BY <1>1, <1>4, LinksAssumption DEF IInv, LinksOK, TypeOK, Snapshot, SpanIds
  <2> QED
    BY <1>1, <2>1, LinkedGrows, HasSpanGrows DEF SnapshotOK
<1>5. ASSUME NEW h \in headers' PROVE HeaderOK(h)'
  <2> SUFFICES ASSUME h \in headers PROVE HeaderOK(h)'
    OBVIOUS
  <2>1. HeaderOK(h)
    BY DEF IInv, LinksOK
  <2>2. PICK q \in Ctxs, t \in TraceIds, n \in SpanIds :
          /\ h.made = PropagationContext(TRUE, t, q, n, TracerOf[q], Endpoint, Address)
          /\ Linked(q, t) /\ HeaderSpan(q, n)
    BY <2>1 DEF HeaderOK
  <2>3. n \in Int
    BY LinksAssumption DEF SpanIds
  <2>4. Linked(q, t)' /\ HeaderSpan(q, n)'
    BY <1>1, <2>2, <2>3, LinkedGrows, HasSpanGrows DEF HeaderSpan
  <2> QED
    BY <2>1, <2>2, <2>4 DEF HeaderOK
<1>6. ASSUME NEW l \in logs' PROVE LogOK(l)'
  <2> SUFFICES ASSUME l \in logs PROVE LogOK(l)'
    BY <1>6
  <2>1. l \in LogLink /\ LogOK(l)
    BY <1>1 DEF IInv, LinksOK, TypeOK
  <2>2. l.trace_segment_id \in Ctxs /\ l.span_of \in Ctxs /\ l.span_id \in Int
    BY <2>1, LinksAssumption DEF LogLink, SpanIds
  <2> QED
    BY <1>1, <2>1, <2>2, LinkedGrows, HasSpanGrows DEF LogOK
<1> QED
  BY <1>1, <1>2, <1>3, <1>4, <1>5, <1>6 DEF IInv, LinksOK

\* One context takes the step.
LEMMA Combine ==
  ASSUME IInv, TypeOK', NEW c \in Ctxs,
         \A d \in Ctxs : d # c => /\ ctx'[d] = ctx[d] /\ segments'[d] = segments[d]
                                  /\ unclosed'[d] = unclosed[d] /\ adopted'[d] = adopted[d],
         Grows, RecordOK',
         \A s \in snapshots' : IsValid(s) => s \in snapshots \/ SnapshotOK(s)',
         \A h \in headers' : h \in headers \/ HeaderOK(h)',
         UNCHANGED logs,
         \A r \in KeptRefs(c)' : r \in KeptRefs(c) \/ RefOK(c, r)',
         ContextOK(c)'
  PROVE  IInv'
<1>1. \A d \in Ctxs : ContextOK(d)' /\ \A r \in KeptRefs(d)' : r \in KeptRefs(d) \/ RefOK(d, r)'
  BY Frame DEF IInv
<1> QED
  BY <1>1, CombineAll

\* Nothing grows when no context changes and no trace id is taken over.
LEMMA GrowsIdle ==
  ASSUME IInv, UNCHANGED <<ctx, adopted, relinked>>, shared \subseteq shared'
  PROVE  Grows
<1>1. \A d \in Ctxs : ctx[d].next_span_id \in Int
  BY LinksAssumption DEF IInv, TypeOK, Context
<1> QED
  BY <1>1 DEF Grows

\* No context takes the step.
LEMMA CombineIdle ==
  ASSUME IInv, TypeOK', RecordOK', shared \subseteq shared',
         UNCHANGED <<ctx, snapshots, headers, segments, unclosed, adopted, relinked>>,
         \A l \in logs' : l \in logs \/ LogOK(l)'
  PROVE  IInv'
<1>1. Grows
  BY GrowsIdle
<1>2. \A d \in Ctxs : ContextOK(d)' /\ KeptRefs(d)' = KeptRefs(d)
  BY Frame DEF IInv
<1> QED
  BY <1>1, <1>2, CombineAll

\* The fields of the record.
LEMMA RecordType ==
  ASSUME TypeOK
  PROVE  /\ record.ids # None => /\ record.ids \in RecordIds
                                 /\ record.ids.trace_segment_id \in Ctxs
                                 /\ record.ids.trace_id \in TraceIds
         /\ record.span # None => /\ record.span \in SpanLink /\ record.span.span_of \in Ctxs
                                  /\ record.span.span_id \in SpanIds
                                  /\ record.span.span_id \in Int
         /\ record.ids \in RecordIds \union {None}
         /\ record.span \in SpanLink \union {None}
         /\ record.stale \in BOOLEAN
         /\ record = [ids |-> record.ids, span |-> record.span, stale |-> record.stale]
<1>1. /\ record.ids \in RecordIds \union {None} /\ record.span \in SpanLink \union {None}
      /\ record.stale \in BOOLEAN
      /\ record = [ids |-> record.ids, span |-> record.span, stale |-> record.stale]
  BY DEF TypeOK
<1>2. \A i \in RecordIds : i.trace_segment_id \in Ctxs /\ i.trace_id \in TraceIds
  BY DEF RecordIds
<1>3. \A s \in SpanLink : s.span_of \in Ctxs /\ s.span_id \in SpanIds
  BY DEF SpanLink
<1>4. \A n \in SpanIds : n \in Int
  BY LinksAssumption DEF SpanIds
<1> QED
  BY <1>1, <1>2, <1>3, <1>4

\* The span of the record stays created.
LEMMA RecordSpanKept ==
  ASSUME IInv, TypeOK', Grows, record'.span = record.span
  PROVE  (record.span # None => HasSpan(record.span.span_of, record.span.span_id))'
<1>1. TypeOK /\ RecordOK
  BY DEF IInv
<1>s. PICK s : s = record.span
  OBVIOUS
<1>2. ASSUME s # None PROVE HasSpan(s.span_of, s.span_id)'
  <2>1. s.span_of \in Ctxs /\ s.span_id \in Int /\ HasSpan(s.span_of, s.span_id)
    BY <1>1, <1>2, <1>s, RecordType DEF RecordOK
  <2> QED
    BY <1>1, <2>1, HasSpanGrows
<1> QED
  BY <1>s, <1>2 DEF HasSpan

\* The record is left alone, and so are the trace ids.
LEMMA RecordKept ==
  ASSUME IInv, TypeOK', Grows, UNCHANGED record,
         \A d \in Ctxs : ctx'[d].trace_id = ctx[d].trace_id
  PROVE  RecordOK'
<1>1. TypeOK /\ RecordOK
  BY DEF IInv
<1>2. (record.span # None => HasSpan(record.span.span_of, record.span.span_id))'
  BY RecordSpanKept
<1> QED
  BY <1>1, <1>2, RecordType DEF RecordOK

------------------------------------------------------------------------------
(* Headers                                                                 *)

\* A number that is not negative is one piece.
LEMMA ShowNat ==
  ASSUME NEW n \in Nat
  PROVE  Show(n) = <<[num |-> n]>>
<1>1. ~(n < 0)
  OBVIOUS
<1> QED
  BY <1>1 DEF Show

\* The pieces of a header put together.
LEMMA Concatenated ==
  ASSUME NEW a1, NEW a2, NEW a3, NEW a4, NEW a5, NEW a6, NEW a7, NEW a8, NEW h,
         h = <<a1, a2, a3>> \o <<a4>> \o <<a5, a6, a7, a8>>
  PROVE  /\ Len(h) = 8
         /\ h[1] = a1 /\ h[2] = a2 /\ h[3] = a3 /\ h[4] = a4
         /\ h[5] = a5 /\ h[6] = a6 /\ h[7] = a7 /\ h[8] = a8
OBVIOUS

\* The active span is one that was created.
LEMMA ActiveSpanId ==
  ASSUME TypeOK, NEW c \in Ctxs, ContextOK(c), Live(c), NEW i \in DOMAIN ctx[c].active
  PROVE  /\ ctx[c].active[i].span_id \in SpanIds
         /\ HasSpan(c, ctx[c].active[i].span_id)
<1>1. ctx[c].active \in Seq(ActiveSpan) /\ ctx[c].next_span_id \in Int
  BY LinksAssumption DEF TypeOK, Context
<1>2. ctx[c].active[i] \in ActiveSpan
  BY <1>1
<1>3. ctx[c].active[i].span_id \in 0 .. (ctx[c].next_span_id - 1)
  BY DEF ContextOK, SpansKept, IdsIn
<1> QED
  <2>1. ctx[c].active[i].span_id \in SpanIds
    BY <1>2 DEF ActiveSpan
  <2>2. HasSpan(c, ctx[c].active[i].span_id)
    BY <1>1, <1>3 DEF HasSpan
  <2> QED
    BY <2>1, <2>2

\* The span id that a header or a snapshot gets.
LEMMA PeekedSpanId ==
  ASSUME TypeOK, NEW c \in Ctxs, ContextOK(c), Live(c), NEW default
  PROVE  \/ ctx[c].active = <<>> /\ PeekActiveSpanId(c, default) = default
         \/ /\ ctx[c].active # <<>> /\ PeekActiveSpanId(c, default) = Top(c).span_id
            /\ Top(c).span_id \in SpanIds /\ HasSpan(c, Top(c).span_id)
<1>1. CASE ctx[c].active = <<>>
  BY <1>1 DEF PeekActiveSpanId
<1>2. CASE ctx[c].active # <<>>
  <2>1. ctx[c].active \in Seq(ActiveSpan)
    BY DEF TypeOK, Context
  <2>2. Len(ctx[c].active) \in DOMAIN ctx[c].active
    BY <1>2, <2>1
  <2> QED
    BY <1>2, <2>2, ActiveSpanId DEF PeekActiveSpanId, Top
<1> QED
  BY <1>1, <1>2

\* encode_propagation makes a header that decodes to the state it was made in.
LEMMA EncodeDecodes ==
  ASSUME TypeOK, NEW c \in Ctxs, ContextOK(c), Live(c)
  PROVE  LET n == IF ctx[c].active = <<>> THEN 0 ELSE Top(c).span_id
         IN  /\ n \in SpanIds /\ HeaderSpan(c, n)
             /\ Decodes(Encode(c))
             /\ Decode(Encode(c)) =
                  PropagationContext(TRUE, ctx[c].trace_id, c, n, TracerOf[c], Endpoint, Address)
<1> DEFINE n == IF ctx[c].active = <<>> THEN 0 ELSE Top(c).span_id
<1>1. n \in SpanIds /\ HeaderSpan(c, n) /\ PeekActiveSpanId(c, 0) = n
  BY PeekedSpanId, LinksAssumption DEF HeaderSpan, SpanIds
<1>2. n \in Nat
  BY <1>1, LinksAssumption DEF SpanIds
<1> HIDE DEF n
<1>3. Show(n) = <<[num |-> n]>>
  BY <1>2, ShowNat
<1> DEFINE h == Encode(c)
<1>4. h = <<[num |-> 1], B64(ctx[c].trace_id), B64(c)>> \o <<[num |-> n]>> \o
          <<B64(TracerOf[c].service), B64(TracerOf[c].instance), B64(Endpoint), B64(Address)>>
  BY <1>1, <1>3 DEF Encode
<1> HIDE DEF h
<1>5. /\ Len(h) = 8 /\ h[1] = [num |-> 1] /\ h[2] = B64(ctx[c].trace_id) /\ h[3] = B64(c)
      /\ h[4] = [num |-> n] /\ h[5] = B64(TracerOf[c].service)
      /\ h[6] = B64(TracerOf[c].instance) /\ h[7] = B64(Endpoint) /\ h[8] = B64(Address)
  BY <1>4, Concatenated
<1>6. \A x : DecodesB64(B64(x)) /\ FromB64(B64(x)) = x
  BY DEF DecodesB64, FromB64, B64, Is
<1>7. IsSample(h[1]) /\ h[1].num = 1 /\ Is(h[4], "num") /\ h[4].num = n
  BY <1>5 DEF IsSample, Is
<1>8. Decodes(h)
  BY <1>5, <1>6, <1>7 DEF Decodes
<1>9. Decode(h) = PropagationContext(TRUE, ctx[c].trace_id, c, n, TracerOf[c], Endpoint, Address)
  BY <1>5, <1>6, <1>7 DEF Decode, PropagationContext
<1> QED
  BY <1>1, <1>8, <1>9 DEF n, h

\* The reference that a received header gives.
LEMMA ReceivedRef ==
  ASSUME IInv, NEW c \in Ctxs, NEW h \in Received, Decodes(h)
  PROVE  /\ Decode(h).parent_trace_id \in TraceIds
         /\ CrossProcess(Decode(h)) \in SegmentReference
         /\ RefGood(c, CrossProcess(Decode(h)))
<1> DEFINE p == Decode(h)
           r == CrossProcess(p)
<1>1. CASE h \in Foreign
  BY <1>1 DEF TraceIds, Incoming, ForeignRefs, SegmentReference, RefGood
<1>2. CASE \E g \in headers : h = g.pieces
  <2>1. PICK g \in headers : h = g.pieces
    BY <1>2
  <2>2. Decode(h) = g.made
    BY <2>1 DEF IInv, LinksOK, HeaderOK
  <2>3. PICK q \in Ctxs, t \in TraceIds, n \in SpanIds :
          /\ g.made = PropagationContext(TRUE, t, q, n, TracerOf[q], Endpoint, Address)
          /\ Linked(q, t) /\ HeaderSpan(q, n)
    BY DEF IInv, LinksOK, HeaderOK
  <2>4. /\ p.parent_trace_id = t
        /\ r = [ref_type |-> "CrossProcess", trace_id |-> t, parent_trace_segment_id |-> q,
                parent_span_id |-> n, parent_service |-> TracerOf[q].service,
                parent_service_instance |-> TracerOf[q].instance]
    BY <2>2, <2>3 DEF PropagationContext, CrossProcess
  <2> HIDE DEF p, r
  <2>5. r \in SegmentReference
    BY <2>4 DEF SegmentReference
  <2>6. RefGood(c, r)
    BY <2>3, <2>4 DEF RefGood, HeaderSpan
  <2> QED
    BY <2>4, <2>5, <2>6 DEF p, r
<1> QED
  BY <1>1, <1>2 DEF Received

------------------------------------------------------------------------------
(* The steps                                                               *)

\* The invariant holds at first.
LEMMA InitInv == Init => IInv
<1> SUFFICES ASSUME Init PROVE IInv
  OBVIOUS
<1>1. ASSUME NEW c \in Ctxs PROVE New(c) \in Context
  <2>1. OwnTrace(c) \in TraceIds
    BY DEF TraceIds
  <2>2. 0 \in 0 .. MaxSpans
    BY LinksAssumption
  <2> QED
    BY <2>1, <2>2 DEF New, Context
<1>2. TypeOK
  <2>1. 0 \in 0 .. MaxGiven
    BY LinksAssumption
  <2>2. EmptyRecord \in [ids : RecordIds \union {None}, span : SpanLink \union {None},
                         stale : BOOLEAN]
    BY DEF EmptyRecord
  <2> QED
    BY <1>1, <2>1, <2>2 DEF Init, TypeOK
<1>3. LinksOK /\ RecordOK
  <2>1. RecordOK
    BY DEF Init, RecordOK, EmptyRecord
  <2> QED
    BY <2>1 DEF Init, LinksOK
<1>4. ASSUME NEW c \in Ctxs PROVE RefsKept(c) /\ ContextOK(c)
  <2>1. /\ Live(c) /\ ctx[c].active = <<>> /\ ctx[c].finalized = <<>>
        /\ ctx[c].next_span_id = 0 /\ segments[c] = None /\ adopted[c] = {}
        /\ unclosed[c] = {}
    BY DEF Init, New, Live
  <2>2. KeptRefs(c) = {}
    BY <2>1 DEF KeptRefs, RefsIn, PendingIn
  <2>3. IdsIn(ctx[c].active) \union IdsIn(ctx[c].finalized) = 0 .. (ctx[c].next_span_id - 1)
    BY <2>1 DEF IdsIn
  <2> QED
    BY <2>1, <2>2, <2>3 DEF RefsKept, ContextOK, SpansKept, ReportKept, AdoptedKept
<1> QED
  BY <1>2, <1>3, <1>4 DEF IInv

\* One context is replaced.
LEMMA CtxChange ==
  ASSUME TypeOK, NEW c \in Ctxs, NEW N \in Context, ctx' = [ctx EXCEPT ![c] = N]
  PROVE  /\ ctx' \in [Ctxs -> Context] /\ ctx'[c] = N
         /\ \A d \in Ctxs : d # c => ctx'[d] = ctx[d]
BY DEF TypeOK

\* A span is pushed; the trace id may change with it.
LEMMA PushStep ==
  ASSUME IInv, NEW c \in Ctxs, Live(c), ctx[c].next_span_id < MaxSpans,
         NEW refs \in Seq(SegmentReference), NEW t \in TraceIds, NEW N,
         N = [phase |-> "live", trace_id |-> t, next_span_id |-> ctx[c].next_span_id + 1,
              active |-> Append(ctx[c].active, [span_id |-> ctx[c].next_span_id,
                                                refs |-> refs, ref |-> None]),
              finalized |-> ctx[c].finalized],
         ctx' = [ctx EXCEPT ![c] = N], UNCHANGED endVars
  PROVE  /\ N \in Context
         /\ SpansKept(c)' /\ ReportKept(c)'
         /\ \A r \in KeptRefs(c)' : r \in KeptRefs(c) \union {refs[j] : j \in DOMAIN refs}
<1> DEFINE e == [span_id |-> ctx[c].next_span_id, refs |-> refs, ref |-> None]
           n == ctx[c].next_span_id
<1>1. /\ ctx[c].active \in Seq(ActiveSpan) /\ ctx[c].finalized \in Seq(SpanObject)
      /\ n \in 0 .. MaxSpans /\ n < MaxSpans
  BY DEF IInv, TypeOK, Context
<1>2. n \in SpanIds /\ n + 1 \in 0 .. MaxSpans
  BY <1>1, LinksAssumption DEF SpanIds
<1>3. e \in ActiveSpan
  BY <1>2 DEF ActiveSpan
<1>4. N \in Context
  <2>1. Append(ctx[c].active, e) \in Seq(ActiveSpan)
    BY <1>1, <1>3
  <2> QED
    BY <1>1, <1>2, <2>1 DEF Context
<1>5. ctx'[c] = N
  BY <1>4, CtxChange DEF IInv
<1>6. /\ Live(c)' /\ ctx'[c].active = Append(ctx[c].active, e)
      /\ ctx'[c].finalized = ctx[c].finalized /\ ctx'[c].next_span_id = n + 1
  BY <1>5 DEF Live
<1> HIDE DEF e
<1>7. SpansKept(c)'
  <2>1. IdsIn(ctx'[c].active) = IdsIn(ctx[c].active) \union {n}
    <3>1. e.span_id = n
      BY DEF e
    <3> QED
      BY <1>1, <1>3, <1>6, <3>1, RefsAppend
  <2>2. IdsIn(ctx[c].active) \union IdsIn(ctx[c].finalized) = 0 .. (n - 1)
    BY DEF IInv, ContextOK, SpansKept
  <2>3. 0 .. (n - 1) \union {n} = 0 .. ((n + 1) - 1)
    BY <1>1, LinksAssumption
  <2>4. IdsIn(ctx'[c].active) \union IdsIn(ctx'[c].finalized) = 0 .. (ctx'[c].next_span_id - 1)
    BY <1>6, <2>1, <2>2, <2>3
  <2> QED
    BY <1>6, <2>4 DEF SpansKept, IdsIn
<1>8. ReportKept(c)'
  BY <1>6 DEF ReportKept, IInv, ContextOK, endVars
<1>9. \A r \in KeptRefs(c)' : r \in KeptRefs(c) \union {refs[j] : j \in DOMAIN refs}
  <2>1. e.refs = refs /\ e.ref = None
    BY DEF e
  <2>2. /\ RefsIn(ctx'[c].active) \subseteq RefsIn(ctx[c].active) \union {refs[j] : j \in DOMAIN refs}
        /\ PendingIn(ctx'[c].active) \subseteq PendingIn(ctx[c].active)
    BY <1>1, <1>3, <1>6, <2>1, RefsAppend
  <2>3. KeptRefs(c)' = RefsIn(ctx'[c].active) \union PendingIn(ctx'[c].active)
                       \union RefsIn(ctx'[c].finalized)
    BY <1>6 DEF KeptRefs, RefsIn, PendingIn
  <2> QED
    BY <1>6, <2>2, <2>3 DEF KeptRefs
<1> QED
  BY <1>4, <1>7, <1>8, <1>9

\* What Pushed makes of a live context; the trace id may change with it.
LEMMA PushedIs ==
  ASSUME IInv, NEW c \in Ctxs, Live(c), NEW refs, NEW t
  PROVE  LET P(id) == [phase |-> "live", trace_id |-> id, next_span_id |-> ctx[c].next_span_id + 1,
                       active |-> Append(ctx[c].active, [span_id |-> ctx[c].next_span_id,
                                                         refs |-> refs, ref |-> None]),
                       finalized |-> ctx[c].finalized]
         IN  /\ Pushed(c, refs) = P(ctx[c].trace_id)
             /\ [Pushed(c, refs) EXCEPT !.trace_id = t] = P(t)
<1> DEFINE x == ctx[c]
           e == [span_id |-> ctx[c].next_span_id, refs |-> refs, ref |-> None]
           n == x.next_span_id + 1
           a == Append(x.active, e)
           y == [x EXCEPT !.next_span_id = n]
<1>1. Pushed(c, refs) = [y EXCEPT !.active = a]
  <2>1. Pushed(c, refs) = [x EXCEPT !.next_span_id = n, !.active = a]
    BY Zenon DEF Pushed
  <2> QED
    BY <2>1
<1>2. x = [phase |-> "live", trace_id |-> x.trace_id, next_span_id |-> x.next_span_id,
           active |-> x.active, finalized |-> x.finalized]
  BY DEF IInv, TypeOK, Live, Context
<1> HIDE DEF n, a, x
<1>3. y = [phase |-> "live", trace_id |-> x.trace_id, next_span_id |-> n,
           active |-> x.active, finalized |-> x.finalized]
  BY <1>2
<1> HIDE DEF y
<1> DEFINE z == [y EXCEPT !.active = a]
<1>4. z = [phase |-> "live", trace_id |-> x.trace_id, next_span_id |-> n,
           active |-> a, finalized |-> x.finalized]
  BY <1>3
<1>5. Pushed(c, refs) = z
  BY <1>1
<1> HIDE DEF z
<1>6. [z EXCEPT !.trace_id = t] = [phase |-> "live", trace_id |-> t, next_span_id |-> n,
                                   active |-> a, finalized |-> x.finalized]
  BY <1>4
<1> QED
  BY <1>4, <1>5, <1>6 DEF x, e, n, a

\* create_entry_span, create_exit_span, create_local_span
LEMMA CreateSpanInv ==
  ASSUME IInv, NEW c \in Ctxs, CreateSpan(c)
  PROVE  IInv'
<1> DEFINE N == Pushed(c, <<>>)
<1>1. /\ Live(c) /\ ctx[c].next_span_id < MaxSpans /\ ctx' = [ctx EXCEPT ![c] = N]
      /\ UNCHANGED <<linkVars, logVars, endVars, pastVars>>
  BY DEF CreateSpan
<1>2. N = [phase |-> "live", trace_id |-> ctx[c].trace_id, next_span_id |-> ctx[c].next_span_id + 1,
           active |-> Append(ctx[c].active, [span_id |-> ctx[c].next_span_id,
                                             refs |-> <<>>, ref |-> None]),
           finalized |-> ctx[c].finalized]
  BY <1>1, PushedIs
<1>3. ctx[c].trace_id \in TraceIds /\ <<>> \in Seq(SegmentReference) /\ ctx[c].next_span_id \in Int
  BY LinksAssumption DEF IInv, TypeOK, Context
<1> HIDE DEF N
<1>4. /\ N \in Context /\ SpansKept(c)' /\ ReportKept(c)'
      /\ \A r \in KeptRefs(c)' : r \in KeptRefs(c)
  <2> DEFINE refs == <<>>
  <2>1. refs \in Seq(SegmentReference) /\ {refs[j] : j \in DOMAIN refs} = {}
    BY <1>3
  <2>2. N = [phase |-> "live", trace_id |-> ctx[c].trace_id,
             next_span_id |-> ctx[c].next_span_id + 1,
             active |-> Append(ctx[c].active, [span_id |-> ctx[c].next_span_id,
                                               refs |-> refs, ref |-> None]),
             finalized |-> ctx[c].finalized]
    BY <1>2
  <2> HIDE DEF refs
  <2>3. /\ N \in Context /\ SpansKept(c)' /\ ReportKept(c)'
        /\ \A r \in KeptRefs(c)' : r \in KeptRefs(c) \union {refs[j] : j \in DOMAIN refs}
    BY <1>1, <1>3, <2>1, <2>2, PushStep
  <2> QED
    BY <2>1, <2>3
<1>5. /\ ctx' \in [Ctxs -> Context] /\ ctx'[c] = N
      /\ \A d \in Ctxs : d # c => ctx'[d] = ctx[d]
  BY <1>1, <1>4, CtxChange DEF IInv
<1>6. N.trace_id = ctx[c].trace_id /\ N.next_span_id = ctx[c].next_span_id + 1
  BY <1>2
<1>7. TypeOK'
  BY <1>1, <1>5 DEF IInv, TypeOK, linkVars, logVars, endVars, pastVars
<1>8. Grows
  <2>1. \A d \in Ctxs : ctx[d].next_span_id \in Int
    BY LinksAssumption DEF IInv, TypeOK, Context
  <2>2. \A d \in Ctxs : /\ ctx[d].next_span_id <= ctx'[d].next_span_id
                        /\ ctx'[d].trace_id = ctx[d].trace_id
    BY <1>5, <1>6, <2>1
  <2> QED
    BY <1>1, <2>2 DEF Grows, linkVars, pastVars
<1>9. ContextOK(c)'
  BY <1>1, <1>4, <1>5, <1>6 DEF IInv, ContextOK, AdoptedKept, pastVars
<1>10. RecordOK'
  BY <1>1, <1>5, <1>6, <1>7, <1>8, RecordKept DEF logVars
<1> QED
  BY <1>1, <1>4, <1>5, <1>7, <1>8, <1>9, <1>10, Combine DEF linkVars, logVars, endVars, pastVars

\* A context takes over a trace id.
LEMMA AdoptStep ==
  ASSUME IInv, NEW c \in Ctxs, NEW t \in TraceIds, Adopt(c, t)
  PROVE  /\ adopted' \in [Ctxs -> SUBSET TraceIds] /\ relinked' \subseteq shared
         /\ adopted'[c] = adopted[c] \union {t} /\ relinked \subseteq relinked'
         /\ \A d \in Ctxs : d # c => adopted'[d] = adopted[d]
         /\ c \in shared /\ c \notin relinked' => ctx[c].trace_id = t
         /\ record'.ids = record.ids /\ record'.span = record.span
         /\ record.ids # None /\ ~record'.stale =>
              ~record.stale /\ (record.ids.trace_segment_id = c => ctx[c].trace_id = t)
         /\ record' \in [ids : RecordIds \union {None}, span : SpanLink \union {None},
                         stale : BOOLEAN]
<1>1. /\ adopted \in [Ctxs -> SUBSET TraceIds]
      /\ adopted' = [adopted EXCEPT ![c] = @ \union {t}]
  BY DEF IInv, TypeOK, Adopt
<1>2. /\ relinked \subseteq shared
      /\ relinked' = IF c \in shared /\ ctx[c].trace_id # t
                     THEN relinked \union {c} ELSE relinked
  BY DEF IInv, TypeOK, Adopt
<1>3. /\ record'.ids = record.ids /\ record'.span = record.span
      /\ record.ids # None /\ ~record'.stale =>
           ~record.stale /\ (record.ids.trace_segment_id = c => ctx[c].trace_id = t)
      /\ record' \in [ids : RecordIds \union {None}, span : SpanLink \union {None},
                      stale : BOOLEAN]
  <2>1. PICK i, n, b : record = [ids |-> i, span |-> n, stale |-> b]
                       /\ i \in RecordIds \union {None} /\ n \in SpanLink \union {None}
                       /\ b \in BOOLEAN
    BY DEF IInv, TypeOK
  <2>2. \/ record' = record
           /\ (record.ids # None => (record.ids.trace_segment_id = c => ctx[c].trace_id = t))
        \/ record' = [record EXCEPT !.stale = TRUE]
    BY DEF Adopt
  <2>3. CASE record' = [record EXCEPT !.stale = TRUE]
    <3>1. record' = [ids |-> i, span |-> n, stale |-> TRUE]
      BY <2>1, <2>3
    <3> QED
      BY <2>1, <3>1
  <2> QED
    BY <2>1, <2>2, <2>3
<1> QED
  BY <1>1, <1>2, <1>3

\* The record when c takes over a trace id.
LEMMA RecordAdopts ==
  ASSUME IInv, TypeOK', Grows, NEW c \in Ctxs, NEW t \in TraceIds, Adopt(c, t),
         ctx'[c].trace_id = t, \A d \in Ctxs : d # c => ctx'[d].trace_id = ctx[d].trace_id
  PROVE  RecordOK'
<1>1. TypeOK /\ RecordOK
  BY DEF IInv
<1>2. /\ record'.ids = record.ids /\ record'.span = record.span
      /\ record.ids # None /\ ~record'.stale =>
           ~record.stale /\ (record.ids.trace_segment_id = c => ctx[c].trace_id = t)
  BY AdoptStep
<1>3. (record.span # None => HasSpan(record.span.span_of, record.span.span_id))'
  BY <1>2, RecordSpanKept
<1>4. record'.ids # None /\ ~record'.stale =>
        ctx'[record'.ids.trace_segment_id].trace_id = record'.ids.trace_id
  BY <1>1, <1>2, RecordType DEF RecordOK
<1> QED
  BY <1>3, <1>4 DEF RecordOK

\* create_entry_span_with_propagation
LEMMA CreateEntrySpanInv ==
  ASSUME IInv, NEW c \in Ctxs, NEW h \in Received, CreateEntrySpanWithPropagation(c, h)
  PROVE  IInv'
<1> DEFINE t == Decode(h).parent_trace_id
           r == CrossProcess(Decode(h))
           N == [Pushed(c, <<r>>) EXCEPT !.trace_id = t]
<1>1. /\ Live(c) /\ ctx[c].next_span_id < MaxSpans /\ Decodes(h)
      /\ ctx' = [ctx EXCEPT ![c] = N] /\ Adopt(c, t)
      /\ UNCHANGED <<linkVars, logs, endVars>>
  BY DEF CreateEntrySpanWithPropagation
<1>2. t \in TraceIds /\ r \in SegmentReference /\ RefGood(c, r) /\ r.trace_id = t
  BY <1>1, ReceivedRef DEF CrossProcess
<1> HIDE DEF r, t
<1>3. N = [phase |-> "live", trace_id |-> t, next_span_id |-> ctx[c].next_span_id + 1,
           active |-> Append(ctx[c].active, [span_id |-> ctx[c].next_span_id,
                                             refs |-> <<r>>, ref |-> None]),
           finalized |-> ctx[c].finalized]
  BY <1>1, PushedIs
<1>4. <<r>> \in Seq(SegmentReference) /\ {<<r>>[j] : j \in DOMAIN <<r>>} = {r}
  BY <1>2
<1> HIDE DEF N
<1>5. /\ N \in Context /\ SpansKept(c)' /\ ReportKept(c)'
      /\ \A q \in KeptRefs(c)' : q \in KeptRefs(c) \union {r}
  <2>1. /\ N \in Context /\ SpansKept(c)' /\ ReportKept(c)'
        /\ \A q \in KeptRefs(c)' : q \in KeptRefs(c) \union {<<r>>[j] : j \in DOMAIN <<r>>}
    BY <1>1, <1>2, <1>3, <1>4, PushStep
  <2> QED
    BY <1>4, <2>1
<1>6. /\ ctx' \in [Ctxs -> Context] /\ ctx'[c] = N
      /\ \A d \in Ctxs : d # c => ctx'[d] = ctx[d]
  BY <1>1, <1>5, CtxChange DEF IInv
<1>7. N.trace_id = t /\ N.next_span_id = ctx[c].next_span_id + 1
  BY <1>3
<1>8. /\ adopted' \in [Ctxs -> SUBSET TraceIds] /\ relinked' \subseteq shared
      /\ adopted'[c] = adopted[c] \union {t} /\ relinked \subseteq relinked'
      /\ \A d \in Ctxs : d # c => adopted'[d] = adopted[d]
      /\ c \in shared /\ c \notin relinked' => ctx[c].trace_id = t
      /\ record' \in [ids : RecordIds \union {None}, span : SpanLink \union {None},
                      stale : BOOLEAN]
  BY <1>1, <1>2, AdoptStep
<1>9. TypeOK'
  BY <1>1, <1>6, <1>8 DEF IInv, TypeOK, linkVars, endVars
<1>10. Grows
  <2>1. \A d \in Ctxs : ctx[d].next_span_id \in Int
    BY LinksAssumption DEF IInv, TypeOK, Context
  <2>2. \A d \in Ctxs : /\ ctx[d].next_span_id <= ctx'[d].next_span_id
                        /\ d # c \/ t = ctx[c].trace_id => ctx'[d].trace_id = ctx[d].trace_id
    BY <1>6, <1>7, <2>1
  <2> QED
    BY <1>1, <1>8, <2>2 DEF Grows, linkVars
<1>11. ContextOK(c)'
  BY <1>5, <1>6, <1>7, <1>8 DEF ContextOK, AdoptedKept
<1>12. RefOK(c, r)'
  BY <1>2, <1>8, <1>9, <1>10, RefGrows DEF IInv, RefOK
<1>13. RecordOK'
  BY <1>1, <1>2, <1>6, <1>7, <1>9, <1>10, RecordAdopts
<1> QED
  BY <1>1, <1>5, <1>6, <1>8, <1>9, <1>10, <1>11, <1>12, <1>13, Combine DEF linkVars, endVars

\* The fields that closing a span changes.
LEMMA SetClosed ==
  ASSUME TypeOK, NEW c \in Ctxs, NEW a \in Seq(ActiveSpan), NEW f \in Seq(SpanObject),
         ctx' = [ctx EXCEPT ![c].active = a, ![c].finalized = f]
  PROVE  /\ ctx' \in [Ctxs -> Context]
         /\ ctx'[c].phase = ctx[c].phase /\ ctx'[c].trace_id = ctx[c].trace_id
         /\ ctx'[c].next_span_id = ctx[c].next_span_id
         /\ ctx'[c].active = a /\ ctx'[c].finalized = f
         /\ \A d \in Ctxs : d # c => ctx'[d] = ctx[d]
<1> DEFINE A == {"live", "dropped"}
           C == 0 .. MaxSpans
           D == Seq(ActiveSpan)
           E == Seq(SpanObject)
           Rec == [phase : A, trace_id : TraceIds, next_span_id : C, active : D, finalized : E]
<1>1. ctx \in [Ctxs -> Rec] /\ a \in D /\ f \in E
  BY DEF TypeOK, Context
<1> HIDE DEF A, C, D, E
<1>2. ctx' \in [Ctxs -> Rec]
  BY <1>1
<1>3. Rec = Context
  BY DEF Context, A, C, D, E
<1>4. /\ ctx'[c].phase = ctx[c].phase /\ ctx'[c].trace_id = ctx[c].trace_id
      /\ ctx'[c].next_span_id = ctx[c].next_span_id
      /\ ctx'[c].active = a /\ ctx'[c].finalized = f
      /\ \A d \in Ctxs : d # c => ctx'[d] = ctx[d]
  BY <1>1
<1> QED
  BY <1>2, <1>3, <1>4

\* The fields that `continued` changes.
LEMMA SetContinued ==
  ASSUME TypeOK, NEW c \in Ctxs, NEW t \in TraceIds, NEW a \in Seq(ActiveSpan),
         ctx' = [ctx EXCEPT ![c].trace_id = t, ![c].active = a]
  PROVE  /\ ctx' \in [Ctxs -> Context]
         /\ ctx'[c].phase = ctx[c].phase /\ ctx'[c].trace_id = t
         /\ ctx'[c].next_span_id = ctx[c].next_span_id
         /\ ctx'[c].active = a /\ ctx'[c].finalized = ctx[c].finalized
         /\ \A d \in Ctxs : d # c => ctx'[d] = ctx[d]
<1> DEFINE A == {"live", "dropped"}
           C == 0 .. MaxSpans
           D == Seq(ActiveSpan)
           E == Seq(SpanObject)
           Rec == [phase : A, trace_id : TraceIds, next_span_id : C, active : D, finalized : E]
<1>1. ctx \in [Ctxs -> Rec] /\ a \in D
  BY DEF TypeOK, Context
<1> HIDE DEF A, C, D, E
<1>2. ctx' \in [Ctxs -> Rec]
  BY <1>1
<1>3. Rec = Context
  BY DEF Context, A, C, D, E
<1>4. /\ ctx'[c].phase = ctx[c].phase /\ ctx'[c].trace_id = t
      /\ ctx'[c].next_span_id = ctx[c].next_span_id
      /\ ctx'[c].active = a /\ ctx'[c].finalized = ctx[c].finalized
      /\ \A d \in Ctxs : d # c => ctx'[d] = ctx[d]
  BY <1>1
<1> QED
  BY <1>2, <1>3, <1>4

\* The fields that dropping the context changes.
LEMMA SetDropped ==
  ASSUME TypeOK, NEW c \in Ctxs, NEW a \in Seq(ActiveSpan), NEW f \in Seq(SpanObject),
         ctx' = [ctx EXCEPT ![c].phase = "dropped", ![c].active = a, ![c].finalized = f]
  PROVE  /\ ctx' \in [Ctxs -> Context]
         /\ ctx'[c].phase = "dropped" /\ ctx'[c].trace_id = ctx[c].trace_id
         /\ ctx'[c].next_span_id = ctx[c].next_span_id
         /\ ctx'[c].active = a /\ ctx'[c].finalized = f
         /\ \A d \in Ctxs : d # c => ctx'[d] = ctx[d]
<1> DEFINE A == {"live", "dropped"}
           C == 0 .. MaxSpans
           D == Seq(ActiveSpan)
           E == Seq(SpanObject)
           Rec == [phase : A, trace_id : TraceIds, next_span_id : C, active : D, finalized : E]
<1>1. ctx \in [Ctxs -> Rec] /\ a \in D /\ f \in E /\ "dropped" \in A
  BY DEF TypeOK, Context
<1> HIDE DEF A, C, D, E
<1>2. ctx' \in [Ctxs -> Rec]
  BY <1>1
<1>3. Rec = Context
  BY DEF Context, A, C, D, E
<1>4. /\ ctx'[c].phase = "dropped" /\ ctx'[c].trace_id = ctx[c].trace_id
      /\ ctx'[c].next_span_id = ctx[c].next_span_id
      /\ ctx'[c].active = a /\ ctx'[c].finalized = f
      /\ \A d \in Ctxs : d # c => ctx'[d] = ctx[d]
  BY <1>1
<1> QED
  BY <1>2, <1>3, <1>4

\* Drop for Span: finalize_span.
LEMMA CloseSpanInv ==
  ASSUME IInv, NEW c \in Ctxs, CloseSpan(c)
  PROVE  IInv'
<1> DEFINE act == ctx[c].active
           fin == ctx[c].finalized
           s == act[Len(act)]
           e == [span_id |-> s.span_id,
                 refs |-> IF s.ref = None THEN s.refs ELSE Append(s.refs, s.ref)]
           a == SubSeq(act, 1, Len(act) - 1)
           f == Append(fin, e)
<1>1. /\ Live(c) /\ act # <<>> /\ ctx' = [ctx EXCEPT ![c].active = a, ![c].finalized = f]
      /\ UNCHANGED <<linkVars, logVars, endVars, pastVars>>
  BY DEF CloseSpan, Top, IInv, TypeOK, Context
<1>2. act \in Seq(ActiveSpan) /\ fin \in Seq(SpanObject)
  BY DEF IInv, TypeOK, Context
<1>3. /\ s \in ActiveSpan /\ a \in Seq(ActiveSpan)
      /\ RefsIn(a) \subseteq RefsIn(act) /\ PendingIn(a) \subseteq PendingIn(act)
      /\ \A j \in DOMAIN s.refs : s.refs[j] \in RefsIn(act)
      /\ s.ref # None => s.ref \in PendingIn(act)
      /\ IdsIn(act) = IdsIn(a) \union {s.span_id}
  BY <1>1, <1>2, RefsFront
<1> HIDE DEF act, fin, s, a
<1>4. e \in SpanObject
  BY <1>3 DEF ActiveSpan, SpanObject
<1>5. \A j \in DOMAIN e.refs : e.refs[j] \in RefsIn(act) \union PendingIn(act)
  <2>1. CASE s.ref = None
    BY <1>3, <2>1
  <2>2. CASE s.ref # None
    <3> DEFINE R == s.refs
    <3>1. R \in Seq(SegmentReference) /\ s.ref \in SegmentReference
      BY <1>3, <2>2 DEF ActiveSpan
    <3>2. e.refs = Append(R, s.ref)
      BY <2>2
    <3> HIDE DEF R, e
    <3>3. \A j \in DOMAIN Append(R, s.ref) :
            Append(R, s.ref)[j] = s.ref \/ (j \in DOMAIN R /\ Append(R, s.ref)[j] = R[j])
      BY <3>1, AppendItems
    <3> QED
      BY <1>3, <2>2, <3>2, <3>3 DEF R
  <2> QED
    BY <2>1, <2>2
<1>6. e.span_id = s.span_id
  OBVIOUS
<1> HIDE DEF e
<1>7. /\ f \in Seq(SpanObject)
      /\ RefsIn(f) \subseteq RefsIn(fin) \union RefsIn(act) \union PendingIn(act)
      /\ IdsIn(f) = IdsIn(fin) \union {s.span_id}
  BY <1>2, <1>4, <1>5, <1>6, RefsAppend
<1> HIDE DEF f
<1>8. /\ ctx' \in [Ctxs -> Context]
      /\ ctx'[c].phase = ctx[c].phase /\ ctx'[c].trace_id = ctx[c].trace_id
      /\ ctx'[c].next_span_id = ctx[c].next_span_id
      /\ ctx'[c].active = a /\ ctx'[c].finalized = f
      /\ \A d \in Ctxs : d # c => ctx'[d] = ctx[d]
  BY <1>1, <1>3, <1>7, SetClosed DEF IInv
<1>9. TypeOK'
  BY <1>1, <1>8 DEF IInv, TypeOK, linkVars, logVars, endVars, pastVars
<1>10. Grows
  <2>1. \A d \in Ctxs : ctx[d].next_span_id \in Int
    BY LinksAssumption DEF IInv, TypeOK, Context
  <2>2. \A d \in Ctxs : /\ ctx[d].next_span_id <= ctx'[d].next_span_id
                        /\ ctx'[d].trace_id = ctx[d].trace_id
    BY <1>8, <2>1
  <2> QED
    BY <1>1, <2>2 DEF Grows, linkVars, pastVars
<1>11. ContextOK(c)'
  <2>1. Live(c)'
    BY <1>1, <1>8 DEF Live
  <2>2. IdsIn(act) \union IdsIn(fin) = 0 .. (ctx[c].next_span_id - 1)
    BY <1>1 DEF IInv, ContextOK, SpansKept, act, fin
  <2>3. IdsIn(ctx'[c].active) \union IdsIn(ctx'[c].finalized) = 0 .. (ctx'[c].next_span_id - 1)
    BY <1>3, <1>7, <1>8, <2>2
  <2>4. SpansKept(c)'
    BY <2>1, <2>3 DEF SpansKept, IdsIn
  <2> QED
    BY <1>1, <1>8, <2>1, <2>4
       DEF IInv, ContextOK, ReportKept, AdoptedKept, endVars, pastVars
<1>12. \A r \in KeptRefs(c)' : r \in KeptRefs(c)
  <2>1. Live(c)'
    BY <1>1, <1>8 DEF Live
  <2>2. KeptRefs(c)' = RefsIn(a) \union PendingIn(a) \union RefsIn(f)
    BY <1>8, <2>1 DEF KeptRefs, RefsIn, PendingIn
  <2> QED
    BY <1>1, <1>3, <1>7, <2>2 DEF KeptRefs, act, fin
<1>13. RecordOK'
  BY <1>1, <1>8, <1>9, <1>10, RecordKept DEF logVars
<1> QED
  BY <1>1, <1>8, <1>9, <1>10, <1>11, <1>12, <1>13, Combine
     DEF linkVars, logVars, endVars, pastVars

\* One more link is given out.
LEMMA GivenType ==
  ASSUME TypeOK, NEW c \in Ctxs, given < MaxGiven, given' = given + 1,
         shared' = shared \union {c}
  PROVE  given' \in 0 .. MaxGiven /\ shared' \subseteq Ctxs /\ relinked \subseteq shared'
<1>1. given' \in 0 .. MaxGiven
  BY LinksAssumption DEF TypeOK
<1> QED
  BY <1>1 DEF TypeOK

\* encode_propagation
LEMMA SendHeaderInv ==
  ASSUME IInv, NEW c \in Ctxs, SendHeader(c)
  PROVE  IInv'
<1>n. PICK n : n = IF ctx[c].active = <<>> THEN 0 ELSE Top(c).span_id
  OBVIOUS
<1>t. PICK t : t = ctx[c].trace_id
  OBVIOUS
<1>h. PICK h : h = [pieces |-> Encode(c),
                    made |-> PropagationContext(TRUE, t, c, n, TracerOf[c], Endpoint, Address)]
  OBVIOUS
<1>1. /\ Live(c) /\ given < MaxGiven /\ given' = given + 1 /\ shared' = shared \union {c}
      /\ headers' = headers \union {h}
      /\ UNCHANGED <<ctx, snapshots, logVars, endVars, pastVars>>
  BY <1>n, <1>t, <1>h DEF SendHeader, Give
<1>2. TypeOK'
  BY <1>1, GivenType DEF IInv, TypeOK, logVars, endVars, pastVars
<1>3. Grows
  BY <1>1, GrowsIdle DEF pastVars
<1>4. /\ n \in SpanIds /\ HeaderSpan(c, n) /\ Decodes(Encode(c))
      /\ Decode(Encode(c)) = PropagationContext(TRUE, t, c, n, TracerOf[c], Endpoint, Address)
  BY <1>1, <1>n, <1>t, EncodeDecodes DEF IInv
<1>5. HeaderOK(h)'
  <2>1. /\ h.pieces = Encode(c)
        /\ h.made = PropagationContext(TRUE, t, c, n, TracerOf[c], Endpoint, Address)
    BY <1>h
  <2>2. t \in TraceIds
    BY <1>t DEF IInv, TypeOK, Context
  <2>3. Linked(c, t)' /\ HeaderSpan(c, n)'
    BY <1>1, <1>4, <1>t DEF Linked, HeaderSpan, HasSpan
  <2> QED
    BY <1>4, <2>1, <2>2, <2>3 DEF HeaderOK
<1>6. ContextOK(c)' /\ KeptRefs(c)' = KeptRefs(c)
  BY <1>1, Frame DEF IInv, endVars, pastVars
<1>7. RecordOK'
  BY <1>1, <1>2, <1>3, RecordKept DEF logVars
<1> QED
  BY <1>1, <1>2, <1>3, <1>5, <1>6, <1>7, Combine DEF logVars, endVars, pastVars

\* capture
LEMMA CaptureInv ==
  ASSUME IInv, NEW c \in Ctxs, Capture(c)
  PROVE  IInv'
<1>s. PICK s : s = [trace_id |-> ctx[c].trace_id, trace_segment_id |-> c,
                    span_id |-> PeekActiveSpanId(c, -1)]
  OBVIOUS
<1>1. /\ Live(c) /\ given < MaxGiven /\ given' = given + 1 /\ shared' = shared \union {c}
      /\ snapshots' = snapshots \union {s}
      /\ UNCHANGED <<ctx, headers, logVars, endVars, pastVars>>
  BY <1>s DEF Capture, Give
<1>2. \/ s.span_id = -1
      \/ s.span_id \in SpanIds /\ HasSpan(c, s.span_id)
  <2>1. s.span_id = PeekActiveSpanId(c, -1)
    BY <1>s
  <2> QED
    BY <1>1, <2>1, PeekedSpanId DEF IInv
<1>3. s.trace_segment_id = c /\ s.trace_id = ctx[c].trace_id
  BY <1>s
<1>4. s \in Snapshot
  <2>1. ctx[c].trace_id \in TraceIds
    BY DEF IInv, TypeOK, Context
  <2> QED
    BY <1>2, <1>s, <2>1 DEF Snapshot
<1>5. TypeOK'
  BY <1>1, <1>4, GivenType DEF IInv, TypeOK, logVars, endVars, pastVars
<1>6. Grows
  BY <1>1, GrowsIdle DEF pastVars
<1>7. IsValid(s) => SnapshotOK(s)'
  BY <1>1, <1>2, <1>3 DEF IsValid, SnapshotOK, Linked, HasSpan
<1>8. ContextOK(c)' /\ KeptRefs(c)' = KeptRefs(c)
  BY <1>1, Frame DEF IInv, endVars, pastVars
<1>9. RecordOK'
  BY <1>1, <1>5, <1>6, RecordKept DEF logVars
<1> QED
  BY <1>1, <1>5, <1>6, <1>7, <1>8, <1>9, Combine DEF logVars, endVars, pastVars

\* The bound on the calls is kept.
LEMMA CallType ==
  ASSUME TypeOK, given < MaxGiven, given' = given + 1
  PROVE  given' \in 0 .. MaxGiven
BY LinksAssumption DEF TypeOK

\* A span that is held, possibly after its context, was created in it.
LEMMA HeldSpan ==
  ASSUME IInv, NEW s \in Held
  PROVE  s \in SpanLink /\ HasSpan(s.span_of, s.span_id)
<1>1. PICK d \in Ctxs :
        \E n \in {ctx[d].active[i].span_id : i \in DOMAIN ctx[d].active} \union unclosed[d] :
          s = [span_of |-> d, span_id |-> n]
  BY DEF Held
<1>2. PICK n \in {ctx[d].active[i].span_id : i \in DOMAIN ctx[d].active} \union unclosed[d] :
        s = [span_of |-> d, span_id |-> n]
  BY <1>1
<1>3. n \in SpanIds /\ HasSpan(d, n)
  <2>1. CASE n \in unclosed[d]
    <3>1. ~Live(d)
      BY <2>1 DEF IInv, ContextOK, ReportKept
    <3>2. n \in 0 .. (ctx[d].next_span_id - 1)
      BY <2>1, <3>1 DEF IInv, ContextOK, SpansKept, SpansOf
    <3>3. n \in SpanIds
      BY <2>1 DEF IInv, TypeOK
    <3>4. ctx[d].next_span_id \in Int
      BY LinksAssumption DEF IInv, TypeOK, Context
    <3> QED
      BY <3>2, <3>3, <3>4 DEF HasSpan
  <2>2. CASE n \in {ctx[d].active[i].span_id : i \in DOMAIN ctx[d].active}
    <3>1. PICK i \in DOMAIN ctx[d].active : n = ctx[d].active[i].span_id
      BY <2>2
    <3>2. Live(d)
      BY <3>1 DEF IInv, ContextOK, SpansKept
    <3> QED
      BY <3>1, <3>2, ActiveSpanId DEF IInv
  <2> QED
    BY <1>2, <2>1, <2>2
<1>4. s.span_of = d /\ s.span_id = n
  BY <1>2
<1> QED
  BY <1>2, <1>3, <1>4 DEF SpanLink

\* with_tracing_context
LEMMA WithTracingContextInv ==
  ASSUME IInv, NEW c \in Ctxs, WithTracingContext(c)
  PROVE  IInv'
<1>i. PICK i : i = [trace_id |-> ctx[c].trace_id, trace_segment_id |-> c]
  OBVIOUS
<1>1. /\ given < MaxGiven /\ given' = given + 1
      /\ record' = [ids |-> i, span |-> record.span, stale |-> FALSE]
      /\ UNCHANGED <<ctx, headers, snapshots, shared, logs, endVars, pastVars>>
  BY <1>i DEF WithTracingContext
<1>2. i \in RecordIds /\ i.trace_id = ctx[c].trace_id /\ i.trace_segment_id = c
  <2>1. ctx[c].trace_id \in TraceIds
    BY DEF IInv, TypeOK, Context
  <2> QED
    BY <1>i, <2>1 DEF RecordIds
<1>3. record'.ids = i /\ record'.span = record.span /\ record'.stale = FALSE
  BY <1>1
<1>4. TypeOK /\ RecordOK
  BY DEF IInv
<1>5. record' \in [ids : RecordIds \union {None}, span : SpanLink \union {None}, stale : BOOLEAN]
  BY <1>1, <1>2, <1>4, RecordType
<1>6. TypeOK'
  BY <1>1, <1>4, <1>5, CallType DEF TypeOK, endVars, pastVars
<1>7. RecordOK'
  BY <1>1, <1>2, <1>3, <1>4 DEF RecordOK, HasSpan
<1> QED
  BY <1>1, <1>6, <1>7, CombineIdle DEF endVars, pastVars

\* with_span
LEMMA WithSpanInv ==
  ASSUME IInv, NEW s \in Held, WithSpan(s)
  PROVE  IInv'
<1>1. /\ given < MaxGiven /\ given' = given + 1
      /\ record' = [ids |-> record.ids, span |-> s, stale |-> record.stale]
      /\ UNCHANGED <<ctx, headers, snapshots, shared, logs, endVars, pastVars>>
  BY DEF WithSpan
<1>2. s \in SpanLink /\ HasSpan(s.span_of, s.span_id)
  BY HeldSpan
<1>3. record'.ids = record.ids /\ record'.span = s /\ record'.stale = record.stale
  BY <1>1
<1>4. TypeOK /\ RecordOK
  BY DEF IInv
<1>5. record' \in [ids : RecordIds \union {None}, span : SpanLink \union {None}, stale : BOOLEAN]
  BY <1>1, <1>2, <1>4, RecordType
<1>6. TypeOK'
  BY <1>1, <1>4, <1>5, CallType DEF TypeOK, endVars, pastVars
<1>7. RecordOK'
  BY <1>1, <1>2, <1>3, <1>4 DEF RecordOK, HasSpan
<1> QED
  BY <1>1, <1>6, <1>7, CombineIdle DEF endVars, pastVars

\* Logger::log
LEMMA LogInv ==
  ASSUME IInv, Log
  PROVE  IInv'
<1>1. /\ record' = EmptyRecord
      /\ UNCHANGED <<ctx, headers, snapshots, given, endVars, pastVars>>
  BY DEF Log
<1>2. TypeOK /\ RecordOK
  BY DEF IInv
<1>3. RecordOK' /\ record' \in [ids : RecordIds \union {None}, span : SpanLink \union {None},
                                stale : BOOLEAN]
  BY <1>1 DEF RecordOK, EmptyRecord
<1>4. CASE UNCHANGED <<logs, shared>>
  <2>1. TypeOK'
    BY <1>1, <1>2, <1>3, <1>4 DEF TypeOK, endVars, pastVars
  <2> QED
    BY <1>1, <1>3, <1>4, <2>1, CombineIdle DEF endVars, pastVars
<1>5. CASE /\ record.ids # None /\ record.span # None
           /\ logs' = logs \union {TraceContext(record)}
           /\ shared' = shared \union {record.ids.trace_segment_id}
  <2>l. PICK l : l = TraceContext(record)
    OBVIOUS
  <2>p. PICK p : p = record.ids.trace_segment_id
    OBVIOUS
  <2>1. /\ p \in Ctxs /\ record.ids.trace_id \in TraceIds /\ record.span.span_of \in Ctxs
        /\ record.span.span_id \in SpanIds /\ record.stale \in BOOLEAN
    BY <1>2, <1>5, <2>p, RecordType
  <2>2. /\ l \in LogLink /\ l.trace_segment_id = p /\ l.trace_id = record.ids.trace_id
        /\ l.span_of = record.span.span_of /\ l.span_id = record.span.span_id
        /\ l.stale = record.stale
    BY <2>l, <2>p, <2>1 DEF TraceContext, LogLink
  <2>3. logs' = logs \union {l} /\ shared' = shared \union {p}
    BY <1>5, <2>l, <2>p
  <2>4. TypeOK'
    BY <1>1, <1>2, <1>3, <2>1, <2>2, <2>3 DEF TypeOK, endVars, pastVars
  <2>5. LogOK(l)'
    <3>1. ~record.stale => ctx[p].trace_id = record.ids.trace_id
      BY <1>2, <1>5, <2>p DEF RecordOK
    <3>2. HasSpan(record.span.span_of, record.span.span_id)
      BY <1>2, <1>5 DEF RecordOK
    <3> QED
      BY <1>1, <2>2, <2>3, <3>1, <3>2 DEF LogOK, Linked, HasSpan
  <2> QED
    BY <1>1, <1>3, <2>3, <2>4, <2>5, CombineIdle DEF endVars, pastVars
<1> QED
  BY <1>4, <1>5 DEF Log

\* continued
LEMMA ContinuedInv ==
  ASSUME IInv, NEW c \in Ctxs, NEW s \in snapshots, Continued(c, s)
  PROVE  IInv'
<1>1. /\ Live(c) /\ snapshots' = snapshots \ {s}
      /\ UNCHANGED <<headers, given, shared, logs, endVars>>
  BY DEF Continued
<1>2. CASE ~IsValid(s)
  <2>1. UNCHANGED <<ctx, record, pastVars>>
    BY <1>2 DEF Continued
  <2>2. TypeOK'
    BY <1>1, <2>1 DEF IInv, TypeOK, endVars, pastVars
  <2>3. Grows
    BY <1>1, <2>1, GrowsIdle DEF pastVars
  <2>4. ContextOK(c)' /\ KeptRefs(c)' = KeptRefs(c)
    BY <1>1, <2>1, Frame DEF IInv, endVars, pastVars
  <2>5. RecordOK'
    BY <2>1, <2>2, <2>3, RecordKept
  <2> QED
    BY <1>1, <2>1, <2>2, <2>3, <2>4, <2>5, Combine DEF endVars, pastVars
<1>3. CASE IsValid(s)
  <2>r. PICK r : r = CrossThread(c, s)
    OBVIOUS
  <2>a. PICK a : a = IF ctx[c].active = <<>> THEN ctx[c].active
                     ELSE [ctx[c].active EXCEPT ![Len(ctx[c].active)].ref = r]
    OBVIOUS
  <2>t. PICK t : t = s.trace_id
    OBVIOUS
  <2>1. ctx' = [ctx EXCEPT ![c].trace_id = t, ![c].active = a] /\ Adopt(c, t)
    BY <1>3, <2>r, <2>a, <2>t DEF Continued, IInv, TypeOK, Context
  <2>2. s \in Snapshot /\ SnapshotOK(s)
    BY <1>3 DEF IInv, TypeOK, LinksOK
  <2>3. s.span_id \in SpanIds /\ s.trace_segment_id \in Ctxs /\ t \in TraceIds
    BY <1>3, <2>2, <2>t DEF Snapshot, IsValid
  <2>4. r \in SegmentReference /\ r.trace_id = t
    BY <2>3, <2>r, <2>t DEF CrossThread, SegmentReference
  <2>5. RefGood(c, r)
    <3>1. /\ r.ref_type = "CrossThread" /\ r.parent_trace_segment_id = s.trace_segment_id
          /\ r.parent_span_id = s.span_id /\ r.parent_service = TracerOf[c].service
          /\ r.parent_service_instance = TracerOf[c].instance
      BY <2>r DEF CrossThread
    <3> QED
      BY <2>2, <2>3, <2>4, <2>t, <3>1 DEF RefGood, SnapshotOK
  <2>6. /\ a \in Seq(ActiveSpan) /\ RefsIn(a) = RefsIn(ctx[c].active)
        /\ IdsIn(a) = IdsIn(ctx[c].active)
        /\ PendingIn(a) \subseteq PendingIn(ctx[c].active) \union {r}
    <3>1. ctx[c].active \in Seq(ActiveSpan)
      BY DEF IInv, TypeOK, Context
    <3> QED
      BY <2>4, <2>a, <3>1, RefsSetLast
  <2>7. /\ ctx' \in [Ctxs -> Context]
        /\ ctx'[c].phase = ctx[c].phase /\ ctx'[c].trace_id = t
        /\ ctx'[c].next_span_id = ctx[c].next_span_id
        /\ ctx'[c].active = a /\ ctx'[c].finalized = ctx[c].finalized
        /\ \A d \in Ctxs : d # c => ctx'[d] = ctx[d]
    BY <2>1, <2>3, <2>6, SetContinued DEF IInv
  <2>8. /\ adopted' \in [Ctxs -> SUBSET TraceIds] /\ relinked' \subseteq shared
        /\ adopted'[c] = adopted[c] \union {t} /\ relinked \subseteq relinked'
        /\ \A d \in Ctxs : d # c => adopted'[d] = adopted[d]
        /\ c \in shared /\ c \notin relinked' => ctx[c].trace_id = t
        /\ record' \in [ids : RecordIds \union {None}, span : SpanLink \union {None},
                        stale : BOOLEAN]
    BY <2>1, <2>3, AdoptStep
  <2>9. TypeOK'
    BY <1>1, <2>7, <2>8 DEF IInv, TypeOK, endVars
  <2>10. Grows
    <3>1. \A d \in Ctxs : ctx[d].next_span_id \in Int
      BY LinksAssumption DEF IInv, TypeOK, Context
    <3>2. \A d \in Ctxs : /\ ctx[d].next_span_id <= ctx'[d].next_span_id
                          /\ d # c \/ t = ctx[c].trace_id => ctx'[d].trace_id = ctx[d].trace_id
      BY <2>7, <3>1
    <3> QED
      BY <1>1, <2>8, <3>2 DEF Grows
  <2>11. Live(c)'
    BY <1>1, <2>7 DEF Live
  <2>12. ContextOK(c)'
    <3>1. IdsIn(ctx'[c].active) \union IdsIn(ctx'[c].finalized) = 0 .. (ctx'[c].next_span_id - 1)
      BY <1>1, <2>6, <2>7 DEF IInv, ContextOK, SpansKept
    <3>2. SpansKept(c)'
      BY <2>11, <3>1 DEF SpansKept, IdsIn
    <3> QED
      BY <1>1, <2>7, <2>8, <2>11, <3>2 DEF IInv, ContextOK, ReportKept, AdoptedKept, endVars
  <2>13. RefOK(c, r)'
    BY <2>4, <2>5, <2>8, <2>9, <2>10, RefGrows DEF IInv, RefOK
  <2>14. \A q \in KeptRefs(c)' : q \in KeptRefs(c) \/ q = r
    <3>1. KeptRefs(c)' = RefsIn(a) \union PendingIn(a) \union RefsIn(ctx[c].finalized)
      BY <2>7, <2>11 DEF KeptRefs, RefsIn, PendingIn
    <3> QED
      BY <2>6, <3>1 DEF KeptRefs
  <2>15. RecordOK'
    BY <2>1, <2>3, <2>7, <2>9, <2>10, RecordAdopts
  <2> QED
    BY <1>1, <2>7, <2>8, <2>9, <2>10, <2>12, <2>13, <2>14, <2>15, Combine DEF endVars
<1> QED
  BY <1>2, <1>3

\* Drop for TracingContext
LEMMA DropContextInv ==
  ASSUME IInv, NEW c \in Ctxs, DropContext(c)
  PROVE  IInv'
<1>g. PICK g : g = [trace_id |-> ctx[c].trace_id, trace_segment_id |-> c,
                    spans |-> ctx[c].finalized]
  OBVIOUS
<1>u. PICK u : u = IdsIn(ctx[c].active)
  OBVIOUS
<1>1. /\ Live(c) /\ segments' = [segments EXCEPT ![c] = g] /\ unclosed' = [unclosed EXCEPT ![c] = u]
      /\ UNCHANGED <<linkVars, logVars, pastVars>>
  BY <1>g, <1>u DEF DropContext, IdsIn
<1>2. ctx[c].active \in Seq(ActiveSpan) /\ ctx[c].finalized \in Seq(SpanObject)
      /\ ctx[c].trace_id \in TraceIds
  BY DEF IInv, TypeOK, Context
<1>3. g \in Segment /\ g.trace_id = ctx[c].trace_id /\ g.spans = ctx[c].finalized
  BY <1>2, <1>g DEF Segment
<1>4. u \subseteq SpanIds
  BY <1>1, <1>u, ActiveSpanId DEF IInv, IdsIn
<1>5. segments'[c] = g /\ unclosed'[c] = u
  BY <1>1 DEF IInv, TypeOK
<1>6. \A d \in Ctxs : d # c => segments'[d] = segments[d] /\ unclosed'[d] = unclosed[d]
  BY <1>1 DEF IInv, TypeOK
<1>7. /\ ctx' \in [Ctxs -> Context]
      /\ ctx'[c].phase = "dropped" /\ ctx'[c].trace_id = ctx[c].trace_id
      /\ ctx'[c].next_span_id = ctx[c].next_span_id
      /\ ctx'[c].active = <<>> /\ ctx'[c].finalized = <<>>
      /\ \A d \in Ctxs : d # c => ctx'[d] = ctx[d]
  <2>1. ctx' = [ctx EXCEPT ![c].phase = "dropped", ![c].active = <<>>, ![c].finalized = <<>>]
    BY DEF DropContext
  <2>2. <<>> \in Seq(ActiveSpan) /\ <<>> \in Seq(SpanObject)
    OBVIOUS
  <2> QED
    BY <2>1, <2>2, SetDropped DEF IInv
<1>8. TypeOK'
  <2>1. segments' \in [Ctxs -> Segment \union {None}] /\ unclosed' \in [Ctxs -> SUBSET SpanIds]
    BY <1>1, <1>3, <1>4 DEF IInv, TypeOK
  <2> QED
    BY <1>1, <1>7, <2>1 DEF IInv, TypeOK, linkVars, logVars, pastVars
<1>9. Grows
  <2>1. \A d \in Ctxs : ctx[d].next_span_id \in Int
    BY LinksAssumption DEF IInv, TypeOK, Context
  <2>2. \A d \in Ctxs : /\ ctx[d].next_span_id <= ctx'[d].next_span_id
                        /\ ctx'[d].trace_id = ctx[d].trace_id
    BY <1>7, <2>1
  <2> QED
    BY <1>1, <2>2 DEF Grows, linkVars, pastVars
<1>10. ~Live(c)'
  BY <1>7 DEF Live
<1>11. ContextOK(c)'
  <2>1. SpansOf(c)' = IdsIn(ctx[c].finalized) \union IdsIn(ctx[c].active)
    BY <1>3, <1>5, <1>u DEF SpansOf, IdsIn
  <2>2. IdsIn(ctx[c].active) \union IdsIn(ctx[c].finalized) = 0 .. (ctx[c].next_span_id - 1)
    BY <1>1 DEF IInv, ContextOK, SpansKept
  <2>3. SpansOf(c)' = 0 .. (ctx'[c].next_span_id - 1)
    BY <1>7, <2>1, <2>2
  <2>4. SpansKept(c)'
    BY <1>7, <1>10, <2>3 DEF SpansKept
  <2> QED
    BY <1>1, <1>3, <1>5, <1>7, <1>10, <2>4
       DEF IInv, ContextOK, ReportKept, AdoptedKept, pastVars
<1>12. \A r \in KeptRefs(c)' : r \in KeptRefs(c)
  <2>1. KeptRefs(c)' = RefsIn(<<>>) \union PendingIn(<<>>) \union RefsIn(<<>>)
                       \union RefsIn(ctx[c].finalized)
    BY <1>3, <1>5, <1>7, <1>10 DEF KeptRefs, RefsOf, RefsIn, PendingIn
  <2>2. RefsIn(<<>>) = {} /\ PendingIn(<<>>) = {}
    BY DEF RefsIn, PendingIn
  <2> QED
    BY <2>1, <2>2 DEF KeptRefs
<1>13. RecordOK'
  BY <1>1, <1>7, <1>8, <1>9, RecordKept DEF logVars
<1> QED
  BY <1>1, <1>6, <1>7, <1>8, <1>9, <1>11, <1>12, <1>13, Combine DEF linkVars, logVars, pastVars

\* Every step keeps the invariant.
LEMMA NextInv == IInv /\ [Next]_vars => IInv'
<1> SUFFICES ASSUME IInv, [Next]_vars PROVE IInv'
  OBVIOUS
<1>1. CASE UNCHANGED vars
  <2>1. UNCHANGED <<ctx, headers, snapshots, record, logs, segments, given, shared, relinked,
                    adopted, unclosed>>
    BY <1>1 DEF vars, linkVars, logVars, endVars, pastVars
  <2>2. TypeOK'
    BY <2>1 DEF IInv, TypeOK
  <2>3. RecordOK'
    BY <2>1 DEF IInv, RecordOK, HasSpan
  <2> QED
    BY <2>1, <2>2, <2>3, CombineIdle
<1>2. ASSUME NEW c \in Ctxs,
             \/ CreateSpan(c) \/ CloseSpan(c) \/ DropContext(c)
             \/ SendHeader(c) \/ Capture(c)
             \/ \E h \in Received : CreateEntrySpanWithPropagation(c, h)
             \/ \E s \in snapshots : Continued(c, s)
             \/ WithTracingContext(c)
      PROVE  IInv'
  BY <1>2, CreateSpanInv, CloseSpanInv, DropContextInv, SendHeaderInv, CaptureInv,
     CreateEntrySpanInv, ContinuedInv, WithTracingContextInv
<1>3. ASSUME NEW s \in Held, WithSpan(s) PROVE IInv'
  BY <1>3, WithSpanInv
<1>4. CASE Log
  BY <1>4, LogInv
<1> QED
  BY <1>1, <1>2, <1>3, <1>4 DEF Next

------------------------------------------------------------------------------
(* The theorems                                                            *)

\* The invariant holds in every reachable state.
LEMMA Invariance == Spec => []IInv
BY InitInv, NextInv, PTL DEF Spec

\* Every state is well typed: ids stay in range however contexts are linked, and a
\* snapshot of a context without an active span never leaves a reference.
THEOREM TypeCorrect == Spec => []TypeOK
<1>1. IInv => TypeOK
  BY DEF IInv
<1> QED
  BY <1>1, Invariance, PTL

\* What encode_propagation makes is decoded by decode_propagation to what it was
\* made from, in any state of the sender.
THEOREM HeadersCorrect == Spec => []HeadersDecode
<1>1. IInv => HeadersDecode
  BY DEF IInv, LinksOK, HeaderOK, HeadersDecode
<1> QED
  BY <1>1, Invariance, PTL

\* A reported context is one that was dropped.
LEMMA ReportedFacts ==
  ASSUME IInv, NEW c \in Reported
  PROVE  /\ c \in Ctxs /\ ~Live(c) /\ segments[c].trace_id = ctx[c].trace_id
         /\ SpansOf(c) = 0 .. (ctx[c].next_span_id - 1)
         /\ ctx[c].next_span_id \in Nat
         /\ \A r \in RefsOf(c) : r \in SegmentReference /\ RefOK(c, r)
<1>1. c \in Ctxs /\ ~Live(c)
  BY DEF Reported, IInv, ContextOK, ReportKept
<1>2. \A r \in RefsOf(c) : r \in KeptRefs(c)
  BY <1>1 DEF KeptRefs
<1>3. ctx[c].next_span_id \in Nat
  BY <1>1, LinksAssumption DEF IInv, TypeOK, Context
<1> QED
  BY <1>1, <1>2, <1>3, KeptRefsType DEF IInv, ContextOK, SpansKept, ReportKept, RefsKept

\* A foreign reference names no context of ours.
LEMMA ForeignElsewhere ==
  ASSUME NEW r \in ForeignRefs
  PROVE  r.parent_trace_segment_id \notin Ctxs
<1>1. PICK h \in Foreign : Decodes(h) /\ r = CrossProcess(Decode(h))
  BY DEF ForeignRefs, Incoming
<1>2. r.parent_trace_segment_id = Decode(h).parent_trace_segment_id
  BY <1>1 DEF CrossProcess
<1> QED
  BY <1>1, <1>2, LinksAssumption

\* What decodes is a text.
LEMMA TextDecoded ==
  ASSUME NEW p, DecodesB64(p)
  PROVE  Text(p, FromB64(p))
<1>1. CASE Is(p, "b64")
  BY <1>1 DEF Text, FromB64
<1>2. CASE ~Is(p, "b64")
  BY <1>2 DEF Text, FromB64, DecodesB64
<1> QED
  BY <1>1, <1>2

\* A foreign reference is what a well-formed header says.
LEMMA ForeignSaid ==
  ASSUME NEW r \in ForeignRefs
  PROVE  r.ref_type = "CrossProcess" /\ \E h \in Foreign : Says(h, r)
<1>1. PICK h \in Foreign : Decodes(h) /\ r = CrossProcess(Decode(h))
  BY DEF ForeignRefs, Incoming
<1>2. /\ r.ref_type = "CrossProcess" /\ r.trace_id = FromB64(h[2])
      /\ r.parent_trace_segment_id = FromB64(h[3]) /\ r.parent_span_id = h[4].num
      /\ r.parent_service = FromB64(h[5]) /\ r.parent_service_instance = FromB64(h[6])
  BY <1>1 DEF CrossProcess, Decode, PropagationContext
<1>3. \A i \in {2, 3, 5, 6, 7, 8} : Text(h[i], FromB64(h[i]))
  BY <1>1, TextDecoded DEF Decodes
<1>4. Len(h) = 8 /\ Is(h[1], "num") /\ h[1].num \in {0, 1} /\ Is(h[4], "num")
  BY <1>1 DEF Decodes, IsSample
<1> QED
  BY <1>2, <1>3, <1>4 DEF Says

\* A reference of a reported segment names a span that its parent created, and the
\* service it ran in, apart from the two cases LinksResolve names; one from
\* elsewhere is what a well-formed header says.
THEOREM LinksCorrect == Spec => []LinksResolve
<1>1. IInv => LinksResolve
  <2> SUFFICES ASSUME IInv, NEW c \in Reported, NEW r \in RefsOf(c)
               PROVE  LET p == r.parent_trace_segment_id
                      IN  /\ p \notin Ctxs =>
                               r.ref_type = "CrossProcess" /\ \E h \in Foreign : Says(h, r)
                          /\ p \in Reported =>
                               /\ \/ r.parent_span_id \in SpansOf(p)
                                  \/ /\ r.ref_type = "CrossProcess" /\ r.parent_span_id = 0
                                     /\ SpansOf(p) = {}
                               /\ \/ /\ r.parent_service = TracerOf[p].service
                                     /\ r.parent_service_instance = TracerOf[p].instance
                                  \/ r.ref_type = "CrossThread" /\ TracerOf[c] # TracerOf[p]
    BY DEF LinksResolve
  <2> DEFINE p == r.parent_trace_segment_id
  <2>1. r \in SegmentReference /\ RefGood(c, r)
    BY ReportedFacts DEF RefOK
  <2>2. p \notin Ctxs => r.ref_type = "CrossProcess" /\ \E h \in Foreign : Says(h, r)
    BY <2>1, ForeignSaid DEF RefGood
  <2>3. ASSUME p \in Reported
        PROVE  /\ \/ r.parent_span_id \in SpansOf(p)
                  \/ /\ r.ref_type = "CrossProcess" /\ r.parent_span_id = 0
                     /\ SpansOf(p) = {}
               /\ \/ /\ r.parent_service = TracerOf[p].service
                     /\ r.parent_service_instance = TracerOf[p].instance
                  \/ r.ref_type = "CrossThread" /\ TracerOf[c] # TracerOf[p]
    <3>1. /\ p \in Ctxs /\ SpansOf(p) = 0 .. (ctx[p].next_span_id - 1)
          /\ ctx[p].next_span_id \in Nat
      BY <2>3, ReportedFacts
    <3>2. r \notin ForeignRefs
      BY <3>1, ForeignElsewhere
    <3>3. /\ \/ HasSpan(p, r.parent_span_id)
             \/ r.ref_type = "CrossProcess" /\ r.parent_span_id = 0
          /\ \/ /\ r.parent_service = TracerOf[p].service
                /\ r.parent_service_instance = TracerOf[p].instance
             \/ r.ref_type = "CrossThread" /\ TracerOf[c] # TracerOf[p]
      BY <2>1, <3>2 DEF RefGood
    <3>4. r.parent_span_id \in Nat
      BY <2>1, <3>2, LinksAssumption DEF SegmentReference, SpanIds
    <3>5. HasSpan(p, r.parent_span_id) => r.parent_span_id \in SpansOf(p)
      BY <3>1, <3>4 DEF HasSpan
    <3>6. 0 \in SpansOf(p) \/ SpansOf(p) = {}
      BY <3>1
    <3> QED
      BY <3>3, <3>5, <3>6
  <2> QED
    BY <2>2, <2>3
<1> QED
  BY <1>1, Invariance, PTL

\* Segments and logs have the trace ids of the segments they belong to, unless a
\* context was linked too late or to two traces.
THEOREM TraceIdsCorrect == Spec => []TraceIdsAgree
<1>1. IInv => TraceIdsAgree
  <2> SUFFICES ASSUME IInv PROVE TraceIdsAgree
    OBVIOUS
  <2>1. ASSUME NEW c \in Reported, NEW r \in RefsOf(c)
        PROVE  /\ adopted[c] = {r.trace_id} => segments[c].trace_id = r.trace_id
               /\ r.parent_trace_segment_id \in Reported \ relinked =>
                    segments[r.parent_trace_segment_id].trace_id = r.trace_id
    <3> DEFINE p == r.parent_trace_segment_id
    <3>1. /\ c \in Ctxs /\ segments[c].trace_id = ctx[c].trace_id
          /\ r \in SegmentReference /\ RefOK(c, r)
      BY ReportedFacts
    <3>2. adopted[c] = {r.trace_id} => segments[c].trace_id = r.trace_id
      BY <3>1 DEF IInv, ContextOK, AdoptedKept
    <3>3. ASSUME p \in Reported \ relinked PROVE segments[p].trace_id = r.trace_id
      <4>1. p \in Ctxs /\ segments[p].trace_id = ctx[p].trace_id
        BY <3>3, ReportedFacts
      <4>2. r \notin ForeignRefs
        BY <4>1, ForeignElsewhere
      <4> QED
        BY <3>1, <3>3, <4>1, <4>2 DEF RefOK, RefGood, Linked
    <3> QED
      BY <3>2, <3>3
  <2>2. ASSUME NEW l \in logs, l.trace_segment_id \in Reported
        PROVE  /\ l.trace_segment_id \notin relinked /\ ~l.stale =>
                    segments[l.trace_segment_id].trace_id = l.trace_id
               /\ l.span_of = l.trace_segment_id => l.span_id \in SpansOf(l.span_of)
    <3> DEFINE p == l.trace_segment_id
    <3>1. l \in LogLink /\ LogOK(l)
      BY DEF IInv, TypeOK, LinksOK
    <3>2. /\ p \in Ctxs /\ segments[p].trace_id = ctx[p].trace_id
          /\ SpansOf(p) = 0 .. (ctx[p].next_span_id - 1) /\ ctx[p].next_span_id \in Nat
      BY <2>2, ReportedFacts
    <3>3. l.span_id \in Nat
      BY <3>1, LinksAssumption DEF LogLink, SpanIds
    <3>4. p \notin relinked /\ ~l.stale => segments[p].trace_id = l.trace_id
      BY <3>1, <3>2 DEF LogOK, Linked
    <3>5. l.span_of = p => l.span_id \in SpansOf(l.span_of)
      BY <3>1, <3>2, <3>3 DEF LogOK, HasSpan
    <3> QED
      BY <3>4, <3>5
  <2> QED
    BY <2>1, <2>2 DEF TraceIdsAgree
<1> QED
  BY <1>1, Invariance, PTL

==============================================================================
