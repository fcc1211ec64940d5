--------------------------- MODULE WaitGroupProofs ---------------------------
(***************************************************************************)
(* Proofs about WaitGroup, for any finite set of members: the counter      *)
(* counts the outstanding members, no wakeup is lost, and the mutex and    *)
(* condvar implementation keeps the promise of WaitGroupSpec.              *)
(***************************************************************************)
EXTENDS WaitGroup, FiniteSetTheorems, TLAPS

\* The inductive invariant. Neither NoLostWakeup nor the promise is inductive
\* alone: an owner may fall asleep only because, with the mutex in its hands,
\* the counter it reads is the number of members that will still wake it.
IInv ==
  /\ TypeOK
  /\ MutexHeld
  /\ CountIsOutstanding
  /\ NoLostWakeup

\* The outstanding members are finitely many, so that they can be counted.
LEMMA OutstandingFinite == IsFiniteSet(Outstanding)
  BY MembersAssumption, FS_Subset DEF Outstanding

\* A counter that counts them is zero only when there is none.
LEMMA ZeroMeansNone ==
  ASSUME CountIsOutstanding
  PROVE  count = 0 <=> Outstanding = {}
  BY OutstandingFinite, FS_EmptySet DEF CountIsOutstanding

\* The new WaitGroup.
LEMMA InitInv == Init => IInv
  <1> SUFFICES ASSUME Init PROVE IInv
    OBVIOUS
  <1>1. TypeOK /\ MutexHeld /\ NoLostWakeup
    BY MembersAssumption DEF Init, TypeOK, MutexHeld, NoLostWakeup, OwnerPoints, MemberPoints,
       OwnerThread
  <1>2. Outstanding = {}
    BY DEF Init, Outstanding
  <1>3. CountIsOutstanding
    BY <1>2, FS_EmptySet DEF Init, CountIsOutstanding
  <1> QED
    BY <1>1, <1>3 DEF IInv

\* Steps that leave the outstanding members and the counter alone keep the count.
LEMMA SameCount ==
  ASSUME CountIsOutstanding, Outstanding' = Outstanding, count' = count
  PROVE  CountIsOutstanding'
  BY DEF CountIsOutstanding

\* Every step keeps the invariant.
LEMMA NextInv == IInv /\ [Next]_vars => IInv'
  <1> SUFFICES ASSUME IInv, [Next]_vars PROVE IInv'
    OBVIOUS
  <1> USE MembersAssumption DEF IInv
  <1>1. CASE AddLock
    <2>1. TypeOK' /\ MutexHeld' /\ NoLostWakeup'
      BY <1>1 DEF AddLock, TypeOK, MutexHeld, NoLostWakeup, OwnerPoints, OwnerThread
    <2>2. CountIsOutstanding'
      BY <1>1, SameCount DEF AddLock, Outstanding
    <2> QED BY <2>1, <2>2
  <1>2. CASE WaitLock
    <2>1. TypeOK' /\ MutexHeld' /\ NoLostWakeup'
      BY <1>2 DEF WaitLock, TypeOK, MutexHeld, NoLostWakeup, OwnerPoints, OwnerThread
    <2>2. CountIsOutstanding'
      BY <1>2, SameCount DEF WaitLock, Outstanding
    <2> QED BY <2>1, <2>2
  <1>3. CASE WaitCheck
    <2>1. TypeOK' /\ MutexHeld' /\ NoLostWakeup'
      BY <1>3 DEF WaitCheck, TypeOK, MutexHeld, NoLostWakeup, OwnerPoints, OwnerThread
    <2>2. CountIsOutstanding'
      BY <1>3, SameCount DEF WaitCheck, Outstanding
    <2> QED BY <2>1, <2>2
  <1>4. CASE SpuriousWakeup
    <2>1. TypeOK' /\ MutexHeld' /\ NoLostWakeup'
      BY <1>4 DEF SpuriousWakeup, TypeOK, MutexHeld, NoLostWakeup, OwnerPoints, OwnerThread
    <2>2. CountIsOutstanding'
      BY <1>4, SameCount DEF SpuriousWakeup, Outstanding
    <2> QED BY <2>1, <2>2
  <1>5. CASE Relock
    <2>1. TypeOK' /\ MutexHeld' /\ NoLostWakeup'
      BY <1>5 DEF Relock, TypeOK, MutexHeld, NoLostWakeup, OwnerPoints, OwnerThread
    <2>2. CountIsOutstanding'
      BY <1>5, SameCount DEF Relock, Outstanding
    <2> QED BY <2>1, <2>2
  <1>6. ASSUME NEW m \in Members, AddBody(m) PROVE IInv'
    <2>1. TypeOK' /\ MutexHeld' /\ NoLostWakeup'
      BY <1>6 DEF AddBody, TypeOK, MutexHeld, NoLostWakeup, OwnerPoints, MemberPoints, OwnerThread
    <2>2. Outstanding' = Outstanding \union {m} /\ m \notin Outstanding
      BY <1>6 DEF AddBody, TypeOK, Outstanding
    <2>3. CountIsOutstanding'
      BY <1>6, <2>2, OutstandingFinite, FS_AddElement DEF AddBody, CountIsOutstanding
    <2> QED BY <2>1, <2>3
  <1>7. ASSUME NEW m \in Members, DoneLock(m) PROVE IInv'
    <2>1. TypeOK' /\ MutexHeld' /\ NoLostWakeup'
      BY <1>7 DEF DoneLock, TypeOK, MutexHeld, NoLostWakeup, OwnerPoints, MemberPoints, OwnerThread
    <2>2. Outstanding' = Outstanding
      BY <1>7 DEF DoneLock, TypeOK, Outstanding
    <2>3. CountIsOutstanding'
      BY <1>7, <2>2, SameCount DEF DoneLock
    <2> QED BY <2>1, <2>3
  <1>8. ASSUME NEW m \in Members, DoneBody(m) PROVE IInv'
    <2>1. Outstanding' = Outstanding \ {m} /\ m \in Outstanding
      BY <1>8 DEF DoneBody, TypeOK, Outstanding
    <2>2. CountIsOutstanding' /\ count' \in Nat
      <3>1. /\ IsFiniteSet(Outstanding \ {m})
            /\ Cardinality(Outstanding \ {m}) = Cardinality(Outstanding) - 1
        BY <2>1, OutstandingFinite, FS_RemoveElement
      <3>2. Cardinality(Outstanding \ {m}) \in Nat
        BY <3>1, FS_CardinalityType
      <3> QED BY <1>8, <2>1, <3>1, <3>2 DEF DoneBody, CountIsOutstanding
    <2>3. TypeOK' /\ MutexHeld' /\ NoLostWakeup'
      BY <1>8, <2>2 DEF DoneBody, TypeOK, MutexHeld, NoLostWakeup, OwnerPoints, MemberPoints,
         OwnerThread
    <2> QED BY <2>2, <2>3
  <1>9. CASE UNCHANGED vars
    <2>1. TypeOK' /\ MutexHeld' /\ NoLostWakeup'
      BY <1>9 DEF vars, TypeOK, MutexHeld, NoLostWakeup
    <2>2. CountIsOutstanding'
      BY <1>9, SameCount DEF vars, Outstanding
    <2> QED BY <2>1, <2>2
  <1> QED
    BY <1>1, <1>2, <1>3, <1>4, <1>5, <1>6, <1>7, <1>8, <1>9 DEF Next

\* Spec keeps the inductive invariant.
THEOREM Inductive == Spec => []IInv
  BY InitInv, NextInv, PTL DEF Spec

\* Every variable keeps its type: the counter stays a natural number.
THEOREM TypeCorrect == Spec => []TypeOK
  BY Inductive, PTL DEF IInv

\* The counter never underflows and never loses a member: whatever the order of
\* add(1) and done(), it is the number of AsyncSpans outstanding.
THEOREM CountCorrect == Spec => []CountIsOutstanding
  BY Inductive, PTL DEF IInv

\* No lost wakeup: the owner is never asleep in wait() with the counter at zero,
\* where nobody would notify it any more.
THEOREM WakeupCorrect == Spec => []NoLostWakeup
  BY Inductive, PTL DEF IInv

\* Every step of the mutex and condvar implementation is a step of the promise
\* or changes nothing the promise can see.
LEMMA StepPromise == IInv /\ [Next]_vars => [Promise!Next]_Promise!wgVars
  <1> SUFFICES ASSUME IInv, [Next]_vars PROVE [Promise!Next]_Promise!wgVars
    OBVIOUS
  <1> USE DEF IInv, Promise!wgVars
  <1>1. CASE AddLock \/ WaitLock \/ SpuriousWakeup \/ Relock \/ UNCHANGED vars
    BY <1>1 DEF AddLock, WaitLock, SpuriousWakeup, Relock, vars, Outstanding
  <1>2. CASE WaitCheck
    <2>1. Outstanding' = Outstanding
      BY <1>2 DEF WaitCheck, Outstanding
    <2>2. CASE count > 0
      BY <1>2, <2>1, <2>2 DEF WaitCheck
    <2>3. CASE ~(count > 0)
      <3>1. Outstanding = {}
        BY <2>3, ZeroMeansNone DEF TypeOK
      <3> QED BY <1>2, <2>1, <2>3, <3>1 DEF WaitCheck, Promise!Next, Promise!Return
    <2> QED BY <2>2, <2>3
  <1>3. ASSUME NEW m \in Members, AddBody(m) PROVE [Promise!Next]_Promise!wgVars
    <2>1. Outstanding' = Outstanding \union {m} /\ m \notin Outstanding
      BY <1>3 DEF AddBody, TypeOK, Outstanding
    <2>2. Promise!Add(m)
      BY <1>3, <2>1 DEF AddBody, Promise!Add
    <2> QED BY <2>2 DEF Promise!Next
  <1>4. ASSUME NEW m \in Members, DoneLock(m) PROVE [Promise!Next]_Promise!wgVars
    <2>1. Outstanding' = Outstanding
      BY <1>4 DEF DoneLock, TypeOK, Outstanding
    <2> QED BY <1>4, <2>1 DEF DoneLock
  <1>5. ASSUME NEW m \in Members, DoneBody(m) PROVE [Promise!Next]_Promise!wgVars
    <2>1. Outstanding' = Outstanding \ {m} /\ m \in Outstanding
      BY <1>5 DEF DoneBody, TypeOK, Outstanding
    <2>2. Promise!Done(m)
      BY <1>5, <2>1 DEF DoneBody, Promise!Done
    <2> QED BY <2>2 DEF Promise!Next
  <1> QED
    BY <1>1, <1>2, <1>3, <1>4, <1>5 DEF Next

\* The WaitGroup implements its promise: wait() returns only at a moment when
\* every member added has called done(), and each is retired exactly once.
THEOREM PromiseKept == Spec => ImplementsPromise
  <1>1. Init => Promise!Init
    BY DEF Init, Promise!Init, Outstanding
  <1> QED
    BY <1>1, StepPromise, Inductive, PTL DEF Spec, ImplementsPromise, Promise!Spec

==============================================================================
