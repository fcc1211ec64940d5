------------------------------ MODULE WaitGroup ------------------------------
(***************************************************************************)
(* The WaitGroup of src/common/wait_group.rs: a counter under a Mutex and  *)
(* a Condvar. One thread, the owner, is the thread of the TracingContext:  *)
(* it calls `add(1)` once per AsyncSpan and, at most once, `wait()`, which *)
(* consumes the context but not the Spans that may still become            *)
(* AsyncSpans. Each member is the thread that drops one AsyncSpan and      *)
(* calls `done()`.                                                         *)
(*                                                                         *)
(* Every critical section is two steps, taking the mutex and running the   *)
(* body that ends by releasing it, so other threads run in between.        *)
(* Condvar::wait releases the mutex and falls asleep in one step, may wake *)
(* spuriously, and takes the mutex again before it returns.                *)
(***************************************************************************)
EXTENDS Naturals, FiniteSets

CONSTANTS Members,   \* the AsyncSpans, one per call of add(1)
          NoThread   \* the mutex is free

\* The mutex holder standing for the owner's thread.
OwnerThread == "owner"

ASSUME MembersAssumption ==
  /\ IsFiniteSet(Members)
  /\ NoThread \notin Members \union {OwnerThread}
  /\ OwnerThread \notin Members

VARIABLES count,     \* Inner::count
          mutex,     \* who holds the Mutex around it
          owner,     \* where the owner is
          member     \* where each member is

vars == <<count, mutex, owner, member>>

\* "add", "late" (an add after wait) and "check" hold the mutex; "asleep" is
\* inside Condvar::wait, "woken" has left it and competes for the mutex.
OwnerPoints == {"idle", "add", "check", "asleep", "woken", "returned", "late"}

\* "dec" holds the mutex inside done().
MemberPoints == {"new", "added", "dec", "done"}

TypeOK ==
  /\ count \in Nat
  /\ mutex \in Members \union {OwnerThread, NoThread}
  /\ owner \in OwnerPoints
  /\ member \in [Members -> MemberPoints]

Init ==
  /\ count = 0
  /\ mutex = NoThread
  /\ owner = "idle"
  /\ member = [m \in Members |-> "new"]

------------------------------------------------------------------------------
(* add                                                                     *)

AddLock ==
  /\ owner \in {"idle", "returned"} /\ mutex = NoThread
  /\ \E m \in Members : member[m] = "new"
  /\ mutex' = OwnerThread
  /\ owner' = IF owner = "idle" THEN "add" ELSE "late"
  /\ UNCHANGED <<count, member>>

\* Defect: a second add(1) overwrites the first.
AddBodyOverwrites(m) ==
  /\ owner \in {"add", "late"} /\ member[m] = "new"
  /\ count' = 1
  /\ member' = [member EXCEPT ![m] = "added"]
  /\ mutex' = NoThread
  /\ owner' = IF owner = "add" THEN "idle" ELSE "returned"

\* The increment; m may be handed to another thread from here on.
AddBody(m) ==
  /\ owner \in {"add", "late"} /\ member[m] = "new"
  /\ count' = count + 1
  /\ member' = [member EXCEPT ![m] = "added"]
  /\ mutex' = NoThread
  /\ owner' = IF owner = "add" THEN "idle" ELSE "returned"

------------------------------------------------------------------------------
(* done                                                                    *)

DoneLock(m) ==
  /\ member[m] = "added" /\ mutex = NoThread
  /\ mutex' = m
  /\ member' = [member EXCEPT ![m] = "dec"]
  /\ UNCHANGED <<count, owner>>

\* Defects: the drop of an AsyncSpan runs done() again; the test for zero reads
\* the counter of before the decrement.
DoneBodyTwice(m) ==
  /\ member[m] = "dec"
  /\ count' = count - 1
  /\ owner' = IF count' = 0 /\ owner = "asleep" THEN "woken" ELSE owner
  /\ member' = [member EXCEPT ![m] = "added"]
  /\ mutex' = NoThread

DoneBodyNoNotify(m) ==
  /\ member[m] = "dec"
  /\ count' = count - 1
  /\ owner' = IF count = 0 /\ owner = "asleep" THEN "woken" ELSE owner
  /\ member' = [member EXCEPT ![m] = "done"]
  /\ mutex' = NoThread

\* The decrement, and notify_all when it reaches zero.
DoneBody(m) ==
  /\ member[m] = "dec"
  /\ count' = count - 1
  /\ owner' = IF count' = 0 /\ owner = "asleep" THEN "woken" ELSE owner
  /\ member' = [member EXCEPT ![m] = "done"]
  /\ mutex' = NoThread

------------------------------------------------------------------------------
(* wait                                                                    *)

WaitLock ==
  /\ owner = "idle" /\ mutex = NoThread
  /\ mutex' = OwnerThread
  /\ owner' = "check"
  /\ UNCHANGED <<count, member>>

\* The loop test: sleep while the count is positive, return otherwise.
WaitCheck ==
  /\ owner = "check"
  /\ owner' = IF count > 0 THEN "asleep" ELSE "returned"
  /\ mutex' = NoThread
  /\ UNCHANGED <<count, member>>

SpuriousWakeup ==
  /\ owner = "asleep"
  /\ owner' = "woken"
  /\ UNCHANGED <<count, mutex, member>>

\* Defect: `if *count > 0 { wait }` in place of the loop: whoever wakes returns.
RelockIfNotWhile ==
  /\ owner = "woken" /\ mutex = NoThread
  /\ owner' = "returned"
  /\ UNCHANGED <<count, member, mutex>>

\* Condvar::wait takes the mutex again, then `while` tests once more.
Relock ==
  /\ owner = "woken" /\ mutex = NoThread
  /\ mutex' = OwnerThread
  /\ owner' = "check"
  /\ UNCHANGED <<count, member>>

------------------------------------------------------------------------------

Next ==
  \/ AddLock
  \/ WaitLock
  \/ WaitCheck
  \/ SpuriousWakeup
  \/ Relock
  \/ \E m \in Members : AddBody(m) \/ DoneLock(m) \/ DoneBody(m)

(***************************************************************************)
(* A thread inside the WaitGroup keeps running, and every AsyncSpan that   *)
(* was handed out is dropped in the end. A member that finds the mutex     *)
(* taken blocks in Mutex::lock and gets it in the end even if the owner    *)
(* keeps taking it after spurious wakeups, hence strong fairness. Nothing  *)
(* makes the owner add or start waiting, and no spurious wakeup is         *)
(* promised.                                                               *)
(***************************************************************************)
Fairness ==
  /\ WF_vars(WaitCheck)
  /\ WF_vars(Relock)
  /\ \A m \in Members : WF_vars(AddBody(m)) /\ SF_vars(DoneLock(m)) /\ WF_vars(DoneBody(m))

Spec == Init /\ [][Next]_vars

FairSpec == Spec /\ Fairness

------------------------------------------------------------------------------
(* Properties                                                              *)

Outstanding == {m \in Members : member[m] \in {"added", "dec"}}

\* The counter is the number of members that have been added and have not
\* finished done(): it never underflows (`*count -= 1`) and never forgets one.
CountIsOutstanding == count = Cardinality(Outstanding)

\* Only the thread inside a critical section holds the mutex.
MutexHeld ==
  /\ mutex = OwnerThread <=> owner \in {"add", "late", "check"}
  /\ \A m \in Members : mutex = m <=> member[m] = "dec"

\* A sleeping owner still has somebody to wake it: it never sleeps while the
\* counter is zero (no lost wakeup).
NoLostWakeup == owner = "asleep" => count > 0

\* The WaitGroup keeps the promise of WaitGroupSpec: wait() returns only when
\* no member is outstanding, and a member retires once.
Promise ==
  INSTANCE WaitGroupSpec WITH pending <- Outstanding, returned <- (owner \in {"returned", "late"})

ImplementsPromise == Promise!Spec

\* Once wait() has been entered it returns.
WaitReturns == (owner \in {"check", "asleep", "woken"}) ~> (owner = "returned")

==============================================================================
