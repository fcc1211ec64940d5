------------------------------ MODULE MCMetricer ------------------------------
(***************************************************************************)
(* Two counters of one id, so that one displaces the other, the gauge and  *)
(* the histogram: three meters in the map, iterated in any order. The      *)
(* steps are given unsorted and with a duplicate, or not at all; values    *)
(* fall below, between and on them.                                        *)
(***************************************************************************)
EXTENDS Metricer

CONSTANTS rate, increment, gauge, histogram

MCCounters == {rate, increment}
MCRates == {rate}
MCSteps == {<<>>, <<3, 1, 3>>}
MCAmounts == [c \in MCCounters |-> IF c = rate THEN {1, -1} ELSE {1}]
MCValues == {0, 2, 3}
MCIdOf == [m \in MCCounters \union {gauge, histogram} |->
             IF m \in MCCounters THEN "counter" ELSE IF m = gauge THEN "gauge" ELSE "histogram"]

==============================================================================
