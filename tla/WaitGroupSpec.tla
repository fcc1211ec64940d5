---------------------------- MODULE WaitGroupSpec ----------------------------
(***************************************************************************)
(* What a WaitGroup promises its user: `add(1)` registers a member,        *)
(* `done()` retires it, and `wait()` returns only at a moment when every   *)
(* member registered has retired. The user is a TracingContext and the     *)
(* members are its AsyncSpans.                                             *)
(***************************************************************************)

CONSTANT Members

VARIABLES pending,    \* members registered and not retired yet
          returned    \* has `wait()` returned?

wgVars == <<pending, returned>>

TypeOK == pending \in SUBSET Members /\ returned \in BOOLEAN

Init == pending = {} /\ returned = FALSE

\* wg.add(1) on behalf of m: before wait() or after it has returned, never during
\* it, for the thread that adds is the one that waits.
Add(m) ==
  /\ m \notin pending
  /\ pending' = pending \union {m}
  /\ UNCHANGED returned

\* wg.done() by m.
Done(m) ==
  /\ m \in pending
  /\ pending' = pending \ {m}
  /\ UNCHANGED returned

\* wg.wait() returns.
Return ==
  /\ pending = {} /\ ~returned
  /\ returned' = TRUE
  /\ UNCHANGED pending

Next == Return \/ \E m \in Members : Add(m) \/ Done(m)

Spec == Init /\ [][Next]_wgVars

==============================================================================
