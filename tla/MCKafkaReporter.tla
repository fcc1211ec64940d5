--------------------------- MODULE MCKafkaReporter ---------------------------
(***************************************************************************)
(* An item of every variant and a queue with one place, so that threads    *)
(* wait inside report() when the loop closes, while another item is        *)
(* awaited. One of the items is reported from inside an async runtime.     *)
(***************************************************************************)
EXTENDS KafkaReporter

CONSTANTS i1, i2, i3, i4, i5

MCItems == {i1, i2, i3, i4, i5}
MCAsyncItems == {i4}
MCKindOf ==
  [i \in MCItems |-> CASE i = i1 -> "Trace" [] i = i2 -> "Log" [] i = i3 -> "Instance"
                       [] i = i4 -> "Ping" [] i = i5 -> "Meter"]

==============================================================================
