----------------------------- MODULE MCWaitGroup -----------------------------
(* Four AsyncSpans: several are outstanding while the owner sleeps, and the  *)
(* last done() races the owner falling asleep.                               *)
EXTENDS WaitGroup, TLC

CONSTANTS a1, a2, a3, a4

MCMembers == {a1, a2, a3, a4}

==============================================================================
