--------------------------- MODULE MCTracingContext ---------------------------
(***************************************************************************)
(* Two instances of TracingContext. The first has three spans, so that two *)
(* AsyncSpans and a Span close at once, or one is dropped out of order     *)
(* between two others. The second has two spans, and data in them: a       *)
(* propagation header, two snapshots to be continued from, and a tag.      *)
(***************************************************************************)
EXTENDS TracingContext, TLC

CONSTANTS p1, s1, s2

NoProps == {}
NoSnapshots == {}
MCProps == {p1}
MCSnapshots == {s1, s2}

==============================================================================
