---------------------------- MODULE MCGrpcReporter ----------------------------
(***************************************************************************)
(* Two traces and a management item, and the streams of two kinds with     *)
(* channels of one slot: the second trace meets a full channel, a stream   *)
(* ends by timeout, failure and close, with and without items in it, and   *)
(* the stream of logs, which never gets an item, has to end as well.       *)
(***************************************************************************)
EXTENDS GrpcReporter

CONSTANTS t1, t2, m1, trace, log, management

MCItems == {t1, t2, m1}
MCKinds == {trace, log}
OneKind == {trace}
MCKindOf == [i \in MCItems |-> IF i = m1 THEN management ELSE trace]

==============================================================================
