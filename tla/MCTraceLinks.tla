---------------------------- MODULE MCTraceLinks ----------------------------
(* Two contexts, each of a service of its own; headers from elsewhere: a    *)
(* good one that asks not to sample, and malformed ones.                    *)
EXTENDS TraceLinks, TLC

CONSTANTS c1, c2, f

NamesOf(x) == [service |-> <<"service", x>>, instance |-> <<"instance", x>>]

MCTracerOf == [c \in {c1, c2} |-> NamesOf(c)]

\* The contexts differ in their names only.
Symmetry == Permutations({c1, c2})

HeaderOf(sample, span) ==
  <<sample, B64(OwnTrace(f)), B64(f)>> \o span \o
  <<B64(NamesOf(f).service), B64(NamesOf(f).instance), [raw |-> ""], B64("peer")>>

\* In turn: well formed; a negative span id; no number; an unknown sample
\* status; a piece short.
MCForeign ==
  {HeaderOf([num |-> 0], Show(0)), HeaderOf([num |-> 1], Show(-1)),
   HeaderOf([num |-> 1], <<[raw |-> "x"]>>), HeaderOf([num |-> 2], Show(1)),
   HeaderOf([num |-> 1], <<>>)}

==============================================================================
