---------------------------- MODULE ManagerProofs ----------------------------
(***************************************************************************)
(* The rhythm of the heartbeat for every properties_report_period_factor,  *)
(* and what is reported on it, for every sequence of calls of the closure. *)
(*                                                                         *)
(* The counter the task keeps is the number of beats since the properties  *)
(* were reported, or 0 when they are due: CounterTellsBeats. That the next *)
(* beat is the right one follows from it.                                  *)
(*                                                                         *)
(* While the closure runs, the Properties hold under every key the values  *)
(* of the visible calls, and have an entry exactly if there is one:        *)
(* BuiltInv. The report follows; an update needs the entry to be known.    *)
(***************************************************************************)
EXTENDS Manager, FiniteSetTheorems, TLAPS

CounterTellsBeats == counter = IF since = Every THEN 0 ELSE since

\* Before the task is spawned nothing has been counted.
NotStarted == task = "none" => since = 0

\* The closure runs on a beat of the properties.
BuildingIsDue == task = "building" => counter = 0

IInv == TypeOK /\ CounterTellsBeats /\ NotStarted /\ BuildingIsDue

------------------------------------------------------------------------------

\* The number of beats between two reports is positive.
LEMMA EveryIsPositive ==
  ASSUME factor \in Nat
  PROVE  Every \in Nat \ {0}
BY DEF Every

\* The wrapped counter: 0 when the period is full, one more otherwise.
LEMMA CounterWraps ==
  ASSUME factor \in Nat, counter \in Nat, counter < Every
  PROVE  NextCounter = IF counter + 1 = Every THEN 0 ELSE counter + 1
BY DEF NextCounter, Every

\* Before the first beat.
LEMMA InitInv == Init => IInv
<1> SUFFICES ASSUME Init PROVE IInv
  OBVIOUS
<1>1. counter = 0 /\ factor = 0 /\ since = 0 /\ Every = 1 /\ task = "none"
  BY DEF Init, Every
<1>2. inner = [k \in AllKeys |-> inner[k]]
  BY DEF Init, Empty
<1>3. calls \in 0 .. MaxCalls
  BY ManagerAssumption DEF Init
<1>4. abort \in BOOLEAN /\ handle = "none"
  BY DEF Init
<1>5. TypeOK
  BY <1>1, <1>2, <1>3, <1>4 DEF TypeOK
<1> QED
  BY <1>1, <1>5 DEF IInv, CounterTellsBeats, NotStarted, BuildingIsDue

\* Steps that leave the task and its counter alone.
LEMMA OtherStep ==
  ASSUME IInv, UNCHANGED <<counter, factor, since>>,
         task' = task \/ task' \in {"panicked", "aborted"},
         handle' \in {"none", "held", "awaited", "joined", "dropped"},
         abort' \in BOOLEAN,
         inner' = [k \in AllKeys |-> inner'[k]], calls' \in 0 .. MaxCalls
  PROVE  IInv'
BY DEF IInv, TypeOK, CounterTellsBeats, NotStarted, BuildingIsDue, Every

\* Every step keeps the invariant.
LEMMA StepInv == IInv /\ [Next]_vars => IInv'
<1> SUFFICES ASSUME IInv, [Next]_vars PROVE IInv'
  OBVIOUS
<1> USE ManagerAssumption
<1>t. TypeOK
  BY DEF IInv
<1>1. CASE \E p \in UserProperties : ReportProperties(p)
  BY <1>1, <1>t, OtherStep DEF ReportProperties, taskVars, handleVars, buildVars, TypeOK
<1>2. CASE KeepAlive
  BY <1>2, <1>t, OtherStep DEF KeepAlive, taskVars, handleVars, buildVars, TypeOK
<1>3. ASSUME NEW n \in Factors, NEW period, ReportAndKeepAlive(n, period)
      PROVE  IInv'
  <2>1. since = 0 /\ since' = 0 /\ counter' = 0 /\ factor' = n /\ n \in Nat
    BY <1>3 DEF ReportAndKeepAlive, IInv, NotStarted
  <2>2. Every' \in Nat \ {0}
    BY <2>1 DEF Every
  <2>3. TypeOK'
    BY <1>3, <1>t, <2>1, <2>2 DEF ReportAndKeepAlive, TypeOK, buildVars
  <2>4. CounterTellsBeats' /\ NotStarted' /\ BuildingIsDue'
    BY <1>3, <2>1, <2>2 DEF CounterTellsBeats, NotStarted, BuildingIsDue
  <2> QED
    BY <2>3, <2>4 DEF IInv
<1>4. CASE BeatPing
  <2>1. /\ counter \in Nat /\ since \in 0 .. Every /\ counter < Every /\ factor \in Nat
        /\ counter = IF since = Every THEN 0 ELSE since
    BY <1>t DEF TypeOK, IInv, CounterTellsBeats
  <2>2. /\ counter # 0 /\ counter' = NextCounter /\ since' = since + 1
        /\ task = "ticking" /\ task' = task
    BY <1>4 DEF BeatPing
  <2>3. Every' = Every /\ Every \in Nat \ {0}
    BY <1>4, <2>1, EveryIsPositive DEF BeatPing, Every
  <2>4. since = counter /\ since' \in 1 .. Every
    BY <2>1, <2>2, <2>3
  <2>5. counter' = IF since' = Every THEN 0 ELSE since'
    BY <2>1, <2>2, <2>4, CounterWraps
  <2>6. TypeOK'
    BY <1>4, <1>t, <2>3, <2>4, <2>5 DEF BeatPing, TypeOK, handleVars, buildVars
  <2> QED
    BY <2>2, <2>3, <2>5, <2>6 DEF IInv, CounterTellsBeats, NotStarted, BuildingIsDue
<1>5. CASE BeatBuild
  <2>1. TypeOK'
    BY <1>5, <1>t DEF BeatBuild, TypeOK, handleVars, Empty, Every
  <2>2. CounterTellsBeats' /\ NotStarted' /\ BuildingIsDue'
    BY <1>5 DEF BeatBuild, IInv, CounterTellsBeats, NotStarted, BuildingIsDue, Every
  <2> QED
    BY <2>1, <2>2 DEF IInv
<1>6. CASE BeatReport
  <2>1. counter = 0 /\ counter < Every /\ factor \in Nat /\ since' = 1
    BY <1>6, <1>t DEF BeatReport, TypeOK, IInv, BuildingIsDue
  <2>2. Every' = Every /\ Every \in Nat \ {0}
    BY <1>6, <2>1, EveryIsPositive DEF BeatReport, Every
  <2>3. counter' = IF since' = Every THEN 0 ELSE since'
    BY <1>6, <2>1, CounterWraps DEF BeatReport
  <2>4. TypeOK'
    BY <1>6, <1>t, <2>1, <2>2, <2>3 DEF BeatReport, TypeOK, handleVars, Empty
  <2> QED
    BY <1>6, <2>2, <2>3, <2>4 DEF BeatReport, IInv, CounterTellsBeats, NotStarted,
       BuildingIsDue
<1>7. ASSUME NEW p, NEW done, Build(p, done), p = [k \in AllKeys |-> p[k]]
      PROVE  IInv'
  <2>1. calls' \in 0 .. MaxCalls /\ inner' = [k \in AllKeys |-> inner'[k]]
    BY <1>7, <1>t DEF Build, TypeOK
  <2> QED
    BY <1>7, <2>1, <1>t, OtherStep DEF Build, taskVars, handleVars, TypeOK
<1>8. CASE \E k \in Keys, v \in Values : Insert(k, v) \/ Update(k, v)
  <2>1. PICK k \in Keys, v \in Values : Insert(k, v) \/ Update(k, v)
    BY <1>8
  <2>2. /\ InsertIn(inner, k, v) = [x \in AllKeys |-> InsertIn(inner, k, v)[x]]
        /\ UpdateIn(inner, k, v) = [x \in AllKeys |-> UpdateIn(inner, k, v)[x]]
    BY <1>t DEF InsertIn, UpdateIn, TypeOK
  <2> QED
    BY <2>1, <2>2, <1>7 DEF Insert, Update
<1>9. CASE \E k \in Keys : Remove(k)
  <2>1. PICK k \in Keys : Remove(k)
    BY <1>9
  <2>2. RemoveIn(inner, k) = [x \in AllKeys |-> RemoveIn(inner, k)[x]]
    BY <1>t DEF RemoveIn, TypeOK
  <2> QED
    BY <2>1, <2>2, <1>7 DEF Remove
<1>10. CASE InsertOsInfo
  <2>1. InsertAll(inner, BuildOsInfo) = [x \in AllKeys |-> InsertAll(inner, BuildOsInfo)[x]]
    BY DEF InsertAll
  <2> QED
    BY <1>10, <2>1, <1>7 DEF InsertOsInfo
<1>11. CASE TaskPanics
  BY <1>11, <1>t, OtherStep DEF TaskPanics, handleVars, buildVars, TypeOK
<1>12. CASE Cancelled
  BY <1>12, <1>t, OtherStep DEF Cancelled, handleVars, buildVars, TypeOK
<1>13. CASE Abort \/ AwaitHandle \/ Join \/ DropHandle
  BY <1>13, <1>t, OtherStep DEF Abort, AwaitHandle, Join, DropHandle, taskVars, buildVars, TypeOK
<1>14. CASE UNCHANGED vars
  BY <1>14, <1>t, OtherStep DEF vars, taskVars, handleVars, buildVars, TypeOK
<1> QED
  BY <1>1, <1>2, <1>3, <1>4, <1>5, <1>6, <1>8, <1>9, <1>10, <1>11, <1>12, <1>13, <1>14
  DEF Next, TaskStep

\* The invariant holds throughout.
LEMMA Inductive == Spec => []IInv
<1>1. Init => IInv
  BY InitInv
<1>2. IInv /\ [Next]_vars => IInv'
  BY StepInv
<1> QED
  BY <1>1, <1>2, PTL DEF Spec

\* Types and bounds of the Manager's state: the counter of
\* report_and_keep_alive stays below the period, for every factor.
THEOREM TypeCorrect == Spec => []TypeOK
<1>1. IInv => TypeOK
  BY DEF IInv
<1> QED
  BY <1>1, Inductive, PTL

\* report_and_keep_alive reports the properties on the first beat and on every
\* factor-th after it, and pings in between, for every factor, 0 included.
THEOREM RhythmCorrect == Spec => PropertiesEveryFactor
<1>1. IInv /\ [Next]_vars =>
        [/\ BeatBuild => since \in {0, Every}
         /\ BeatPing => since \in 1 .. (Every - 1)]_vars
  <2> SUFFICES ASSUME IInv
               PROVE  /\ BeatBuild => since \in {0, Every}
                      /\ BeatPing => since \in 1 .. (Every - 1)
    OBVIOUS
  <2>1. /\ counter \in Nat /\ since \in 0 .. Every /\ Every \in Nat
        /\ counter = IF since = Every THEN 0 ELSE since
    BY EveryIsPositive DEF IInv, TypeOK, CounterTellsBeats
  <2>2. ASSUME BeatBuild PROVE since \in {0, Every}
    BY <2>1, <2>2 DEF BeatBuild
  <2>3. ASSUME BeatPing PROVE since \in 1 .. (Every - 1)
    BY <2>1, <2>3 DEF BeatPing
  <2> QED
    BY <2>2, <2>3
<1> QED
  BY <1>1, Inductive, PTL DEF Spec, PropertiesEveryFactor

------------------------------------------------------------------------------
(* The values at some positions of a sequence                              *)

\* A function over 1 .. n is a sequence of length n.
LEMMA FunctionIsSeq ==
  ASSUME NEW n \in Nat, NEW T, NEW f \in [1 .. n -> T]
  PROVE  f \in Seq(T) /\ Len(f) = n
OBVIOUS

\* Where the elements of a concatenation are.
LEMMA ConcatFacts ==
  ASSUME NEW T, NEW s \in Seq(T), NEW t \in Seq(T)
  PROVE  /\ s \o t \in Seq(T) /\ Len(s \o t) = Len(s) + Len(t)
         /\ \A i \in 1 .. Len(s) : (s \o t)[i] = s[i]
         /\ \A i \in 1 .. Len(t) : (s \o t)[Len(s) + i] = t[i]
OBVIOUS

\* How many positions come before i.
Rank(I, i) == Cardinality({j \in I : j < i})

\* Ranks number the members of a set in ascending order, and leave none out.
LEMMA Ranks ==
  ASSUME NEW I \in SUBSET Nat, IsFiniteSet(I)
  PROVE  /\ Cardinality(I) \in Nat
         /\ \A x \in I : Rank(I, x) \in 0 .. (Cardinality(I) - 1)
         /\ \A x, y \in I : x < y => Rank(I, x) < Rank(I, y)
         /\ \A r \in 0 .. (Cardinality(I) - 1) : \E x \in I : Rank(I, x) = r
<1>1. PICK n \in Nat : n = Cardinality(I)
  BY FS_CardinalityType
<1>2. ASSUME NEW x \in I
      PROVE  IsFiniteSet({y \in I : y < x}) /\ Rank(I, x) \in 0 .. (n - 1)
  <2> DEFINE B == {y \in I : y < x}
  <2>1. B \in SUBSET I /\ x \notin B
    OBVIOUS
  <2>2. IsFiniteSet(B) /\ Cardinality(B) <= n /\ (n = Cardinality(B) => I = B)
    BY <1>1, <2>1, FS_Subset
  <2>3. Cardinality(B) \in Nat
    BY <2>2, FS_CardinalityType
  <2>4. Rank(I, x) = Cardinality(B)
    BY DEF Rank
  <2> HIDE DEF B
  <2>5. Rank(I, x) \in 0 .. (n - 1)
    BY <2>1, <2>2, <2>3, <2>4
  <2> QED BY <2>2, <2>5 DEF B
<1>3. ASSUME NEW x \in I, NEW y \in I, x < y PROVE Rank(I, x) < Rank(I, y)
  <2> DEFINE A == {z \in I : z < x}
             B == {z \in I : z < y}
  <2>1. A \in SUBSET B /\ x \in B /\ x \notin A
    <3>1. \A z \in I : z \in Nat
      OBVIOUS
    <3>2. \A z \in I : z < x => z < y
      BY <1>3, <3>1
    <3>3. x \in B /\ x \notin A
      BY <1>3, <3>1
    <3> QED BY <3>2, <3>3
  <2>2. /\ IsFiniteSet(B) /\ Rank(I, x) = Cardinality(A) /\ Rank(I, y) = Cardinality(B)
        /\ Rank(I, x) \in Nat /\ Rank(I, y) \in Nat
    BY <1>2 DEF Rank
  <2> HIDE DEF A, B
  <2>3. Cardinality(A) <= Cardinality(B) /\ (Cardinality(B) = Cardinality(A) => B = A)
    BY <2>1, <2>2, FS_Subset
  <2> QED BY <2>1, <2>2, <2>3
<1>4. PICK f : f = [x \in I |-> Rank(I, x)]
  OBVIOUS
<1>5. f \in Injection(I, 0 .. (n - 1))
  <2>1. f \in [I -> 0 .. (n - 1)]
    BY <1>2, <1>4
  <2>2. \A x, y \in I : f[x] = f[y] => x = y
    <3>1. \A x, y \in I : x < y \/ y < x \/ x = y
      OBVIOUS
    <3>2. ASSUME NEW x \in I, NEW y \in I, x < y PROVE Rank(I, x) # Rank(I, y)
      <4>1. Rank(I, x) < Rank(I, y)
        BY <1>3, <3>2
      <4>2. Rank(I, x) \in 0 .. (n - 1) /\ Rank(I, y) \in 0 .. (n - 1)
        BY <1>2
      <4> QED BY <4>1, <4>2
    <3> QED BY <1>4, <3>1, <3>2
  <2> QED BY <2>1, <2>2 DEF Injection, IsInjective
<1>6. IsFiniteSet(0 .. (n - 1)) /\ Cardinality(0 .. (n - 1)) = n
  <2>1. n - 1 \in Int /\ IF 0 > n - 1 THEN n = 0 ELSE n - 1 - 0 + 1 = n
    OBVIOUS
  <2> QED BY <2>1, FS_Interval
<1>7. f \in Surjection(I, 0 .. (n - 1))
  BY <1>1, <1>5, <1>6, FS_Injection
<1>8. \A r \in 0 .. (n - 1) : \E x \in I : Rank(I, x) = r
  BY <1>4, <1>7 DEF Surjection
<1> QED
  BY <1>1, <1>2, <1>3, <1>8

\* The value at a position stands at the rank of the position.
LEMMA ValuesAtRank ==
  ASSUME NEW s, NEW I \in SUBSET Nat, IsFiniteSet(I), NEW i \in I
  PROVE  Rank(I, i) + 1 \in 1 .. Cardinality(I) /\ ValuesAt(s, I)[Rank(I, i) + 1] = s[i].value
<1>1. PICK r : r = Rank(I, i) + 1
  OBVIOUS
<1>2. Cardinality(I) \in Nat /\ Rank(I, i) \in 0 .. (Cardinality(I) - 1)
  BY Ranks
<1>3. r \in 1 .. Cardinality(I) /\ Rank(I, i) = r - 1
  BY <1>1, <1>2
<1>4. \A j \in I : Rank(I, j) = r - 1 => j = i
  <2>1. \A j \in I : j < i \/ i < j \/ j = i
    OBVIOUS
  <2>2. \A j \in I : Rank(I, j) \in Int
    BY <1>2, Ranks
  <2>3. \A j \in I : j < i \/ i < j => Rank(I, j) # Rank(I, i)
    BY <2>2, Ranks
  <2> QED BY <1>3, <2>1, <2>3
<1>5. (CHOOSE j \in I : Cardinality({x \in I : x < j}) = r - 1) = i
  BY <1>3, <1>4 DEF Rank
<1>6. ValuesAt(s, I)[r] = s[i].value
  BY <1>3, <1>5 DEF ValuesAt
<1> QED BY <1>1, <1>3, <1>6

\* And that is all there is to it.
LEMMA ValuesAtIs ==
  ASSUME NEW s, NEW I \in SUBSET Nat, IsFiniteSet(I), NEW q,
         q = [r \in 1 .. Cardinality(I) |-> q[r]],
         \A i \in I : q[Rank(I, i) + 1] = s[i].value
  PROVE  q = ValuesAt(s, I)
<1>1. PICK n \in Nat : n = Cardinality(I)
  BY FS_CardinalityType
<1>2. PICK w : w = ValuesAt(s, I)
  OBVIOUS
<1>3. w = [r \in 1 .. n |-> w[r]]
  BY <1>1, <1>2 DEF ValuesAt
<1>4. ASSUME NEW r \in 1 .. n PROVE q[r] = w[r]
  <2>1. r - 1 \in 0 .. (n - 1)
    OBVIOUS
  <2>2. PICK i \in I : Rank(I, i) = r - 1
    BY <1>1, <2>1, Ranks
  <2>3. Rank(I, i) + 1 = r
    BY <2>2
  <2> QED BY <1>2, <2>3, ValuesAtRank
<1> QED BY <1>1, <1>2, <1>3, <1>4

\* Only the values at the positions matter.
LEMMA ValuesAtSame ==
  ASSUME NEW s, NEW t, NEW I \in SUBSET Nat, IsFiniteSet(I), \A i \in I : s[i].value = t[i].value
  PROVE  ValuesAt(s, I) = ValuesAt(t, I)
<1>1. PICK q : q = ValuesAt(s, I)
  OBVIOUS
<1>2. q = [r \in 1 .. Cardinality(I) |-> q[r]]
  BY <1>1 DEF ValuesAt
<1>3. \A i \in I : q[Rank(I, i) + 1] = t[i].value
  BY <1>1, ValuesAtRank
<1> QED BY <1>1, <1>2, <1>3, ValuesAtIs

\* No position, no value.
LEMMA ValuesAtNone ==
  ASSUME NEW s
  PROVE  ValuesAt(s, {}) = <<>>
<1>1. Cardinality({}) = 0
  BY FS_EmptySet
<1>2. ValuesAt(s, {}) = [r \in 1 .. 0 |-> s[CHOOSE i \in {} : Cardinality({j \in {} : j < i}) = r - 1].value]
  BY <1>1 DEF ValuesAt
<1> QED BY <1>2

\* One position, one value.
LEMMA ValuesAtOne ==
  ASSUME NEW s, NEW i \in Nat
  PROVE  ValuesAt(s, {i}) = <<s[i].value>>
<1>1. PICK I \in SUBSET Nat : I = {i}
  OBVIOUS
<1>2. IsFiniteSet(I) /\ Cardinality(I) = 1 /\ Rank(I, i) = 0
  <2>1. {j \in I : j < i} = {}
    BY <1>1
  <2> QED BY <1>1, <2>1, FS_Singleton, FS_EmptySet DEF Rank
<1>3. PICK q : q = <<s[i].value>>
  OBVIOUS
<1>4. q = [r \in 1 .. Cardinality(I) |-> q[r]] /\ q[Rank(I, i) + 1] = s[i].value
  BY <1>2, <1>3
<1>5. \A j \in I : q[Rank(I, j) + 1] = s[j].value
  BY <1>1, <1>4
<1>6. q = ValuesAt(s, I)
  BY <1>2, <1>4, <1>5, ValuesAtIs
<1> QED BY <1>1, <1>3, <1>6

\* Positions of two sequences, those of the second moved behind the first.
LEMMA MovedCardinality ==
  ASSUME NEW n \in Nat, NEW I \in SUBSET (1 .. n), NEW J \in SUBSET (Nat \ {0}), IsFiniteSet(J)
  PROVE  /\ IsFiniteSet(I) /\ IsFiniteSet(I \union {n + j : j \in J})
         /\ Cardinality(I \union {n + j : j \in J}) = Cardinality(I) + Cardinality(J)
<1> DEFINE M == {n + j : j \in J}
           f == [j \in J |-> n + j]
<1>1. IsFiniteSet(I)
  <2>1. IsFiniteSet(1 .. n)
    BY FS_Interval
  <2> QED BY <2>1, FS_Subset
<1>2. f \in Bijection(J, M)
  <2>1. f \in [J -> M] /\ \A x \in M : \E j \in J : f[j] = x
    OBVIOUS
  <2>2. \A x, y \in J : f[x] = f[y] => x = y
    OBVIOUS
  <2> QED BY <2>1, <2>2 DEF Bijection, Injection, Surjection, IsInjective
<1>3. ExistsBijection(J, M)
  BY <1>2 DEF ExistsBijection
<1>4. IsFiniteSet(M) /\ Cardinality(M) = Cardinality(J)
  BY <1>3, FS_Bijection
<1>5. I \cap M = {}
  OBVIOUS
<1> HIDE DEF M, f
<1>6. IsFiniteSet(I \union M) /\ Cardinality(I \union M) = Cardinality(I) + Cardinality(M) - Cardinality({})
  BY <1>1, <1>4, <1>5, FS_Union
<1>7. Cardinality({}) = 0 /\ Cardinality(I) \in Nat /\ Cardinality(M) \in Nat
  BY <1>1, <1>4, FS_EmptySet, FS_CardinalityType
<1>8. Cardinality(I \union M) = Cardinality(I) + Cardinality(J)
  BY <1>4, <1>6, <1>7
<1> QED BY <1>1, <1>6, <1>8 DEF M

\* u is made of n elements of s and m of t, K of the positions I and J in them.
Joins(u, s, n, t, m) ==
  /\ n \in Nat /\ m \in Nat
  /\ (\A i \in 1 .. n : u[i] = s[i]) /\ (\A i \in 1 .. m : u[n + i] = t[i])

Collects(K, I, n, J, m) ==
  I \in SUBSET (1 .. n) /\ J \in SUBSET (1 .. m) /\ K = I \union {n + j : j \in J}

\* The values of a concatenation are those of its parts.
LEMMA ValuesAtConcat ==
  ASSUME NEW s, NEW t, NEW u, NEW n, NEW m, NEW I, NEW J, NEW K,
         Joins(u, s, n, t, m), Collects(K, I, n, J, m)
  PROVE  ValuesAt(u, K) = ValuesAt(s, I) \o ValuesAt(t, J)
<1>1. n \in Nat /\ m \in Nat /\ I \in SUBSET (1 .. n) /\ J \in SUBSET (1 .. m)
  BY DEF Joins, Collects
<1> USE <1>1
<1>2. K = I \union {n + j : j \in J}
  BY DEF Collects
<1>3. I \in SUBSET (1 .. n) /\ J \in SUBSET (Nat \ {0}) /\ IsFiniteSet(J) /\ K \in SUBSET Nat
  <2>1. IsFiniteSet(1 .. m)
    BY FS_Interval
  <2>2. IsFiniteSet(J)
    BY <2>1, FS_Subset
  <2>3. J \in SUBSET (Nat \ {0}) /\ I \in SUBSET (1 .. n)
    OBVIOUS
  <2>4. K \in SUBSET Nat
    <3>1. I \subseteq Nat
      BY <2>3
    <3>2. \A j \in J : n + j \in Nat
      BY <2>3
    <3> QED BY <1>2, <3>1, <3>2
  <2> QED BY <2>2, <2>3, <2>4
<1>4. /\ IsFiniteSet(I) /\ IsFiniteSet(K) /\ Cardinality(K) = Cardinality(I) + Cardinality(J)
      /\ Cardinality(I) \in Nat /\ Cardinality(J) \in Nat
  BY <1>2, <1>3, MovedCardinality, FS_CardinalityType
<1>5. PICK a \in Nat : a = Cardinality(I)
  BY <1>4
<1>6. PICK b \in Nat : b = Cardinality(J)
  BY <1>4
<1>7. PICK v, w : v = ValuesAt(s, I) /\ w = ValuesAt(t, J)
  OBVIOUS
<1>8. v = [r \in 1 .. a |-> v[r]] /\ w = [r \in 1 .. b |-> w[r]]
  BY <1>5, <1>6, <1>7 DEF ValuesAt
<1>9. PICK q : q = v \o w
  OBVIOUS
<1>10. /\ q = [r \in 1 .. (a + b) |-> q[r]]
       /\ \A r \in 1 .. a : q[r] = v[r]
       /\ \A r \in 1 .. b : q[a + r] = w[r]
  <2>1. PICK V : V = {v[r] : r \in 1 .. a} \union {w[r] : r \in 1 .. b}
    OBVIOUS
  <2>2. v \in [1 .. a -> V] /\ w \in [1 .. b -> V]
    BY <1>8, <2>1
  <2>3. v \in Seq(V) /\ Len(v) = a /\ w \in Seq(V) /\ Len(w) = b
    BY <2>2, FunctionIsSeq
  <2>4. /\ Len(q) = a + b /\ q \in Seq(V)
        /\ \A r \in 1 .. a : q[r] = v[r]
        /\ \A r \in 1 .. b : q[a + r] = w[r]
    <3>1. v \in Seq(V) /\ w \in Seq(V)
      BY <2>3
    <3>2. /\ v \o w \in Seq(V) /\ Len(v \o w) = Len(v) + Len(w)
          /\ \A r \in 1 .. Len(v) : (v \o w)[r] = v[r]
          /\ \A r \in 1 .. Len(w) : (v \o w)[Len(v) + r] = w[r]
      BY <3>1, ConcatFacts
    <3> QED BY <1>9, <2>3, <3>2
  <2>5. q = [r \in 1 .. (a + b) |-> q[r]]
    BY <2>4
  <2> QED BY <2>4, <2>5
<1>11. ASSUME NEW i \in I PROVE q[Rank(K, i) + 1] = u[i].value
  <2>1. {x \in K : x < i} = {x \in I : x < i}
    BY <1>2, <1>3
  <2>2. Rank(K, i) = Rank(I, i)
    BY <2>1 DEF Rank
  <2>3. Rank(I, i) + 1 \in 1 .. a /\ v[Rank(I, i) + 1] = s[i].value
    BY <1>3, <1>4, <1>5, <1>7, ValuesAtRank
  <2>4. u[i] = s[i]
    BY DEF Joins
  <2> QED BY <1>10, <2>2, <2>3, <2>4
<1>12. ASSUME NEW j \in J PROVE q[Rank(K, n + j) + 1] = u[n + j].value
  <2>1. PICK L \in SUBSET (Nat \ {0}) : L = {y \in J : y < j}
    BY <1>3
  <2>2. IsFiniteSet(L)
    BY <1>3, <2>1, FS_Subset
  <2>3. {x \in K : x < n + j} = I \union {n + y : y \in L}
    <3>1. j \in Nat /\ j > 0 /\ \A y \in J : y \in Nat
      BY <1>3
    <3>2. \A x \in I : x < n + j
      BY <1>3, <3>1
    <3>3. \A y \in J : n + y < n + j <=> y < j
      BY <3>1
    <3> QED BY <1>2, <2>1, <3>2, <3>3
  <2>4. Rank(K, n + j) = a + Cardinality(L)
    <3>1. Cardinality(I \union {n + y : y \in L}) = a + Cardinality(L)
      BY <1>3, <1>5, <2>2, MovedCardinality
    <3> QED BY <2>3, <3>1 DEF Rank
  <2>5. PICK r \in 1 .. b : r = Rank(J, j) + 1 /\ w[r] = t[j].value
    BY <1>3, <1>6, <1>7, ValuesAtRank
  <2>6. Cardinality(L) \in Nat /\ Cardinality(L) + 1 = r
    BY <2>1, <2>2, <2>5, FS_CardinalityType DEF Rank
  <2>7. Rank(K, n + j) + 1 = a + r
    BY <2>4, <2>6
  <2>8. u[n + j] = t[j]
    BY DEF Joins
  <2> QED BY <1>10, <2>5, <2>7, <2>8
<1>13. \A k \in K : q[Rank(K, k) + 1] = u[k].value
  BY <1>2, <1>11, <1>12
<1>14. q = ValuesAt(u, K)
  <2>1. q = [r \in 1 .. Cardinality(K) |-> q[r]]
    BY <1>4, <1>5, <1>6, <1>10
  <2>2. K \in SUBSET Nat /\ IsFiniteSet(K)
    BY <1>3, <1>4
  <2> QED BY <1>13, <2>1, <2>2, ValuesAtIs
<1> QED BY <1>7, <1>9, <1>14

------------------------------------------------------------------------------
(* What the closure's calls add up to                                      *)

\* Every value a call may give.
AnyValue ==
  Values \union {None, OsName, HostName, ProcessNo, "rust"} \union {Ips[i] : i \in DOMAIN Ips}

Calls == [op : {"insert", "update", "remove"}, key : AllKeys, value : AnyValue]

\* There is a value to see exactly if there is an entry.
EntryIsSeen(k) == Existed(k, Len(ops)) <=> Visible(k) # {}

\* The reporter was given Properties by the task last.
FromTask == item # None /\ item.kind = "Instance" /\ item.by = "task"

\* The inductive invariant of the build.
BuiltInv ==
  /\ ops \in Seq(Calls)
  /\ task = "building" =>
       \A k \in AllKeys : inner[k] = ValuesAt(ops, Visible(k)) /\ EntryIsSeen(k)
  /\ task = "none" => ~FromTask
  /\ ReportedAsBuilt

\* Positions that are visible are positions.
LEMMA VisibleFinite ==
  ASSUME ops \in Seq(Calls), NEW k
  PROVE  /\ Visible(k) \in SUBSET (1 .. Len(ops)) /\ Visible(k) \in SUBSET Nat
         /\ IsFiniteSet(Visible(k)) /\ IsFiniteSet(1 .. Len(ops))
<1>1. Visible(k) \in SUBSET (1 .. Len(ops)) /\ Len(ops) \in Nat
  BY DEF Visible
<1>2. IsFiniteSet(1 .. Len(ops))
  BY <1>1, FS_Interval
<1>3. IsFiniteSet(Visible(k))
  BY <1>1, <1>2, FS_Subset
<1> QED BY <1>1, <1>2, <1>3

\* More calls change nothing about the time before them.
LEMMA MoreCalls ==
  ASSUME ops \in Seq(Calls), NEW done \in Seq(Calls), ops' = ops \o done
  PROVE  /\ ops' \in Seq(Calls) /\ Len(ops) \in Nat /\ Len(done) \in Nat
         /\ Len(ops') = Len(ops) + Len(done)
         /\ DOMAIN ops' = 1 .. (Len(ops) + Len(done)) /\ DOMAIN ops = 1 .. Len(ops)
         /\ \A i \in 1 .. Len(ops) : ops'[i] = ops[i]
         /\ \A i \in 1 .. Len(done) : ops'[Len(ops) + i] = done[i]
         /\ \A k : \A m \in 0 .. Len(ops) : Existed(k, m)' <=> Existed(k, m)
<1>1. /\ Len(ops) \in Nat /\ Len(done) \in Nat /\ DOMAIN ops = 1 .. Len(ops)
      /\ ops' \in Seq(Calls) /\ Len(ops') = Len(ops) + Len(done)
      /\ \A i \in 1 .. Len(ops) : ops'[i] = ops[i]
      /\ \A i \in 1 .. Len(done) : ops'[Len(ops) + i] = done[i]
  BY ConcatFacts
<1>2. DOMAIN ops' = 1 .. (Len(ops) + Len(done))
  BY <1>1
<1>3. ASSUME NEW k, NEW m \in 0 .. Len(ops) PROVE Existed(k, m)' <=> Existed(k, m)
  <2>1. \A i \in 1 .. m : ops'[i] = ops[i] /\ \A j \in i .. m : ops'[j] = ops[j]
    BY <1>1
  <2>2. ASSUME Existed(k, m) PROVE Existed(k, m)'
    <3>1. PICK i \in 1 .. m : /\ ops[i].op = "insert" /\ ops[i].key = k
                              /\ \A j \in i .. m : ~(ops[j].op = "remove" /\ ops[j].key = k)
      BY <2>2 DEF Existed
    <3>2. ops'[i] = ops[i] /\ \A j \in i .. m : ops'[j] = ops[j]
      BY <2>1
    <3> QED BY <3>1, <3>2 DEF Existed
  <2>3. ASSUME Existed(k, m)' PROVE Existed(k, m)
    <3>1. PICK i \in 1 .. m : /\ ops'[i].op = "insert" /\ ops'[i].key = k
                              /\ \A j \in i .. m : ~(ops'[j].op = "remove" /\ ops'[j].key = k)
      BY <2>3 DEF Existed
    <3>2. ops'[i] = ops[i] /\ \A j \in i .. m : ops'[j] = ops[j]
      BY <2>1
    <3> QED BY <3>1, <3>2 DEF Existed
  <2> QED BY <2>2, <2>3
<1> QED BY <1>1, <1>2, <1>3

\* The same, of the visible calls before and after a step.
LEMMA ValuesJoin ==
  ASSUME NEW n, NEW d, NEW done, NEW k, NEW D,
         Joins(ops', ops, n, done, d), Collects(Visible(k)', Visible(k), n, D, d)
  PROVE  ValuesAt(ops, Visible(k))' = ValuesAt(ops, Visible(k)) \o ValuesAt(done, D)
<1>1. PICK V, K, s, w : V = Visible(k) /\ K = Visible(k)' /\ s = ops /\ w = ops'
  OBVIOUS
<1>2. Joins(w, s, n, done, d) /\ Collects(K, V, n, D, d)
  BY <1>1
<1>3. ValuesAt(w, K) = ValuesAt(s, V) \o ValuesAt(done, D)
  BY <1>2, ValuesAtConcat
<1>4. ValuesAt(ops, Visible(k))' = ValuesAt(ops', Visible(k)')
  BY DEF ValuesAt
<1> QED BY <1>1, <1>3, <1>4

\* The calls on a key.
CallsOn(done, k) == {i \in DOMAIN done : done[i].key = k}

\* Inserted values come last, each under its key.
LEMMA InsertsAreSeen ==
  ASSUME ops \in Seq(Calls), NEW done \in Seq(Calls), ops' = ops \o done,
         \A i \in DOMAIN done : done[i].op = "insert",
         NEW k \in AllKeys, EntryIsSeen(k)
  PROVE  /\ EntryIsSeen(k)'
         /\ ValuesAt(ops, Visible(k))' =
              ValuesAt(ops, Visible(k)) \o ValuesAt(done, CallsOn(done, k))
<1>1. PICK n \in Nat : n = Len(ops) /\ DOMAIN ops = 1 .. n
  BY MoreCalls
<1>2. PICK d \in Nat : d = Len(done) /\ DOMAIN done = 1 .. d
  OBVIOUS
<1>3. /\ DOMAIN ops' = 1 .. (n + d) /\ Len(ops') = n + d
      /\ \A i \in 1 .. n : ops'[i] = ops[i]
      /\ \A i \in 1 .. d : ops'[n + i] = done[i]
      /\ \A m \in 0 .. n : Existed(k, m)' <=> Existed(k, m)
  BY <1>1, <1>2, MoreCalls
<1>4. PICK D : D = CallsOn(done, k) /\ D = {i \in DOMAIN done : done[i].key = k}
  BY DEF CallsOn
<1>5. \A i \in 1 .. (n + d) : i > n => i - n \in 1 .. d /\ ops'[i] = done[i - n] /\ ops'[i].op = "insert"
  <2>1. ASSUME NEW i \in 1 .. (n + d), i > n
        PROVE  i - n \in 1 .. d /\ ops'[i] = done[i - n] /\ ops'[i].op = "insert"
    <3>1. PICK j \in 1 .. d : j = i - n /\ i = n + j
      BY <2>1
    <3> QED BY <1>2, <1>3, <3>1
  <2> QED BY <2>1
<1>6. Visible(k)' = Visible(k) \union {n + i : i \in D}
  <2>1. ASSUME NEW i \in 1 .. n PROVE i \in Visible(k)' <=> i \in Visible(k)
    <3>1. Existed(k, i - 1)' <=> Existed(k, i - 1)
      BY <1>3
    <3>2. ops'[i] = ops[i] /\ i \in DOMAIN ops /\ i \in DOMAIN ops'
      BY <1>1, <1>3
    <3>3. (\A j \in DOMAIN ops' : j > i /\ ops'[j].key = k => ops'[j].op = "insert")
          <=> (\A j \in DOMAIN ops : j > i /\ ops[j].key = k => ops[j].op = "insert")
      BY <1>1, <1>3, <1>5
    <3> QED BY <3>1, <3>2, <3>3 DEF Visible
  <2>2. ASSUME NEW i \in 1 .. d PROVE n + i \in Visible(k)' <=> i \in D
    <3>1. ops'[n + i] = done[i] /\ ops'[n + i].op = "insert" /\ n + i \in DOMAIN ops'
      BY <1>2, <1>3
    <3>2. \A j \in DOMAIN ops' : j > n + i => ops'[j].op = "insert"
      BY <1>3, <1>5
    <3>3. i \in D <=> ops'[n + i].key = k
      BY <1>2, <1>4, <3>1
    <3> QED BY <3>1, <3>2, <3>3 DEF Visible
  <2>3. Visible(k)' \subseteq 1 .. (n + d) /\ Visible(k) \subseteq 1 .. n /\ D \subseteq 1 .. d
    BY <1>1, <1>2, <1>3, <1>4 DEF Visible
  <2>4. \A x \in 1 .. (n + d) : x \in 1 .. n \/ \E i \in 1 .. d : x = n + i
    <3>1. ASSUME NEW x \in 1 .. (n + d), x \notin 1 .. n PROVE \E i \in 1 .. d : x = n + i
      <4>1. x - n \in 1 .. d /\ x = n + (x - n)
        BY <3>1
      <4> QED BY <4>1
    <3> QED BY <3>1
  <2>5. \A i \in 1 .. d : n + i \notin 1 .. n /\ n + i \in 1 .. (n + d)
    OBVIOUS
  <2>6. \A i, j \in 1 .. d : n + i = n + j => i = j
    OBVIOUS
  <2>7. \A x \in Visible(k)' : x \in Visible(k) \union {n + i : i \in D}
    BY <2>1, <2>2, <2>3, <2>4
  <2>8. \A x \in Visible(k) : x \in Visible(k)'
    BY <2>1, <2>3
  <2>9. \A i \in D : n + i \in Visible(k)'
    BY <2>2, <2>3
  <2> QED BY <2>7, <2>8, <2>9
<1>7. ValuesAt(ops, Visible(k))' = ValuesAt(ops, Visible(k)) \o ValuesAt(done, D)
  <2>1. Visible(k) \in SUBSET (1 .. Len(ops)) /\ D \in SUBSET (1 .. Len(done))
    BY <1>2, <1>4, VisibleFinite
  <2>2. Joins(ops', ops, n, done, d)
    BY <1>3 DEF Joins
  <2>3. Visible(k) \in SUBSET (1 .. n) /\ D \in SUBSET (1 .. d)
    BY <1>1, <1>2, <2>1
  <2>4. Collects(Visible(k)', Visible(k), n, D, d)
    BY <1>6, <2>3 DEF Collects
  <2> QED BY <2>2, <2>4, ValuesJoin
<1>8. Existed(k, n + d)' <=> Existed(k, n) \/ D # {}
  <2>1. ASSUME Existed(k, n) PROVE Existed(k, n + d)'
    <3>1. PICK i \in 1 .. n : /\ ops[i].op = "insert" /\ ops[i].key = k
                              /\ \A j \in i .. n : ~(ops[j].op = "remove" /\ ops[j].key = k)
      BY <2>1 DEF Existed
    <3>2. \A j \in i .. (n + d) : ~(ops'[j].op = "remove" /\ ops'[j].key = k)
      <4>1. ASSUME NEW j \in i .. (n + d) PROVE ~(ops'[j].op = "remove" /\ ops'[j].key = k)
        <5>1. j \in 1 .. (n + d) /\ (j <= n => j \in i .. n /\ j \in 1 .. n) /\ (j > n \/ j <= n)
          OBVIOUS
        <5>2. CASE j <= n
          BY <1>3, <3>1, <5>1, <5>2
        <5>3. CASE j > n
          <6>1. ops'[j].op = "insert"
            BY <1>5, <5>1, <5>3
          <6> QED BY <6>1
        <5> QED BY <5>1, <5>2, <5>3
      <4> QED BY <4>1
    <3>3. i \in 1 .. (n + d) /\ ops'[i] = ops[i]
      BY <1>3
    <3> QED BY <3>1, <3>2, <3>3 DEF Existed
  <2>2. ASSUME NEW i \in D PROVE Existed(k, n + d)'
    <3>1. i \in 1 .. d /\ ops'[n + i].key = k /\ ops'[n + i].op = "insert" /\ n + i \in 1 .. (n + d)
      BY <1>2, <1>3, <1>4
    <3>2. \A j \in (n + i) .. (n + d) : ops'[j].op = "insert"
      <4>1. \A j \in (n + i) .. (n + d) : j \in 1 .. (n + d) /\ j > n
        BY <3>1
      <4> QED BY <1>5, <4>1
    <3> QED BY <3>1, <3>2 DEF Existed
  <2>3. ASSUME Existed(k, n + d)', D = {} PROVE Existed(k, n)
    <3>1. PICK i \in 1 .. (n + d) :
            /\ ops'[i].op = "insert" /\ ops'[i].key = k
            /\ \A j \in i .. (n + d) : ~(ops'[j].op = "remove" /\ ops'[j].key = k)
      BY <2>3 DEF Existed
    <3>2. i \in 1 .. n
      <4>1. CASE i > n
        <5>1. i - n \in 1 .. d /\ ops'[i] = done[i - n]
          BY <1>5, <4>1
        <5>2. i - n \in D
          BY <1>2, <1>4, <3>1, <5>1
        <5> QED BY <2>3, <5>2
      <4> QED BY <4>1
    <3>3. \A j \in i .. n : j \in i .. (n + d) /\ ops'[j] = ops[j]
      BY <1>3, <3>2
    <3>4. ops[i].op = "insert" /\ ops[i].key = k
      BY <1>3, <3>1, <3>2
    <3>5. \A j \in i .. n : ~(ops[j].op = "remove" /\ ops[j].key = k)
      BY <3>1, <3>3
    <3> QED BY <3>2, <3>4, <3>5 DEF Existed
  <2> QED BY <2>1, <2>2, <2>3
<1>9. EntryIsSeen(k)'
  BY <1>1, <1>3, <1>6, <1>8 DEF EntryIsSeen
<1> QED BY <1>4, <1>7, <1>9

\* update and remove clear the key; update leaves its value if there was an entry.
LEMMA ClearsAreSeen ==
  ASSUME ops \in Seq(Calls), NEW o \in Calls, ops' = ops \o <<o>>, o.op # "insert",
         EntryIsSeen(o.key)
  PROVE  /\ EntryIsSeen(o.key)'
         /\ ValuesAt(ops, Visible(o.key))' =
              IF o.op = "update" /\ Visible(o.key) # {} THEN <<o.value>> ELSE <<>>
<1>1. PICK n \in Nat : n = Len(ops) /\ DOMAIN ops = 1 .. n
  BY MoreCalls
<1>2. PICK k \in AllKeys : k = o.key
  BY DEF Calls
<1>3. /\ DOMAIN ops' = 1 .. (n + 1) /\ Len(ops') = n + 1 /\ ops'[n + 1] = o
      /\ \A i \in 1 .. n : ops'[i] = ops[i]
      /\ \A m \in 0 .. n : Existed(k, m)' <=> Existed(k, m)
  <2>1. <<o>> \in Seq(Calls) /\ Len(<<o>>) = 1 /\ <<o>>[1] = o
    OBVIOUS
  <2>2. 1 \in 1 .. Len(<<o>>)
    BY <2>1
  <2> QED BY <1>1, <2>1, <2>2, MoreCalls
<1>4. Visible(k)' = IF o.op = "update" /\ Existed(k, n) THEN {n + 1} ELSE {}
  <2>1. ASSUME NEW i \in 1 .. n PROVE i \notin Visible(k)'
    <3>1. n + 1 \in DOMAIN ops' /\ n + 1 > i /\ ops'[n + 1].key = k /\ ops'[n + 1].op # "insert"
      BY <1>2, <1>3
    <3> QED BY <3>1 DEF Visible
  <2>2. n + 1 \in Visible(k)' <=> o.op = "update" /\ Existed(k, n)
    <3>1. n + 1 - 1 = n /\ n \in 0 .. n
      OBVIOUS
    <3>2. Existed(k, n + 1 - 1)' <=> Existed(k, n)
      BY <1>3, <3>1
    <3>3. \A j \in DOMAIN ops' : ~(j > n + 1)
      BY <1>3
    <3>4. n + 1 \in DOMAIN ops'
      BY <1>3
    <3> QED BY <1>2, <1>3, <3>2, <3>3, <3>4 DEF Visible
  <2>3. Visible(k)' \subseteq 1 .. (n + 1)
    BY <1>3 DEF Visible
  <2>4. \A x \in 1 .. (n + 1) : x \in 1 .. n \/ x = n + 1
    OBVIOUS
  <2> QED BY <2>1, <2>2, <2>3, <2>4
<1>5. Existed(k, n + 1)' <=> o.op # "remove" /\ Existed(k, n)
  <2>1. ASSUME Existed(k, n + 1)' PROVE o.op # "remove" /\ Existed(k, n)
    <3>1. PICK i \in 1 .. (n + 1) :
            /\ ops'[i].op = "insert" /\ ops'[i].key = k
            /\ \A j \in i .. (n + 1) : ~(ops'[j].op = "remove" /\ ops'[j].key = k)
      BY <2>1 DEF Existed
    <3>2. i \in 1 .. n /\ n + 1 \in i .. (n + 1)
      BY <1>3, <3>1
    <3>3. \A j \in i .. n : j \in i .. (n + 1) /\ ops'[j] = ops[j]
      BY <1>3, <3>2
    <3> QED BY <1>2, <1>3, <3>1, <3>2, <3>3 DEF Existed
  <2>2. ASSUME o.op # "remove", Existed(k, n) PROVE Existed(k, n + 1)'
    <3>1. PICK i \in 1 .. n : /\ ops[i].op = "insert" /\ ops[i].key = k
                              /\ \A j \in i .. n : ~(ops[j].op = "remove" /\ ops[j].key = k)
      BY <2>2 DEF Existed
    <3>2. \A j \in i .. (n + 1) : (j \in i .. n /\ ops'[j] = ops[j]) \/ ops'[j] = o
      BY <1>3
    <3>3. i \in 1 .. (n + 1) /\ ops'[i] = ops[i]
      BY <1>3
    <3>4. \A j \in i .. (n + 1) : ~(ops'[j].op = "remove" /\ ops'[j].key = k)
      BY <2>2, <3>1, <3>2
    <3>5. ops'[i].op = "insert" /\ ops'[i].key = k
      BY <3>1, <3>3
    <3> QED BY <3>3, <3>4, <3>5 DEF Existed
  <2> QED BY <2>1, <2>2
<1>6. Existed(k, n) <=> Visible(k) # {}
  BY <1>1, <1>2 DEF EntryIsSeen
<1>7. EntryIsSeen(k)'
  <2>1. o.op \in {"update", "remove"}
    BY DEF Calls
  <2>2. Visible(k)' # {} <=> o.op = "update" /\ Existed(k, n)
    BY <1>4
  <2>3. Existed(k, Len(ops))' <=> o.op = "update" /\ Existed(k, n)
    BY <1>3, <1>5, <2>1
  <2> QED BY <2>2, <2>3 DEF EntryIsSeen
<1>8. ValuesAt(ops, Visible(k))' = IF o.op = "update" /\ Existed(k, n) THEN <<o.value>> ELSE <<>>
  <2>1. ValuesAt(ops, Visible(k))' = ValuesAt(ops', Visible(k)')
    BY DEF ValuesAt
  <2>2. ValuesAt(ops', {n + 1}) = <<ops'[n + 1].value>>
    <3>1. PICK m, s : m \in Nat /\ m = n + 1 /\ s = ops'
      OBVIOUS
    <3>2. ValuesAt(s, {m}) = <<s[m].value>>
      BY <3>1, ValuesAtOne
    <3> QED BY <3>1, <3>2
  <2>3. ValuesAt(ops', {}) = <<>>
    BY ValuesAtNone
  <2> QED BY <1>3, <1>4, <2>1, <2>2, <2>3
<1> QED BY <1>2, <1>6, <1>7, <1>8

\* A call on one key leaves the others alone.
LEMMA OthersAreSeen ==
  ASSUME ops \in Seq(Calls), NEW o \in Calls, ops' = ops \o <<o>>,
         NEW k \in AllKeys, k # o.key, EntryIsSeen(k)
  PROVE  EntryIsSeen(k)' /\ ValuesAt(ops, Visible(k))' = ValuesAt(ops, Visible(k))
<1>1. PICK n \in Nat : n = Len(ops) /\ DOMAIN ops = 1 .. n
  BY MoreCalls
<1>2. /\ DOMAIN ops' = 1 .. (n + 1) /\ Len(ops') = n + 1 /\ ops'[n + 1] = o
      /\ \A i \in 1 .. n : ops'[i] = ops[i]
      /\ \A m \in 0 .. n : Existed(k, m)' <=> Existed(k, m)
  <2>1. <<o>> \in Seq(Calls) /\ Len(<<o>>) = 1 /\ <<o>>[1] = o
    OBVIOUS
  <2>2. 1 \in 1 .. Len(<<o>>)
    BY <2>1
  <2> QED BY <1>1, <2>1, <2>2, MoreCalls
<1>3. \A x \in 1 .. (n + 1) : x \in 1 .. n \/ x = n + 1
  OBVIOUS
<1>4. Visible(k)' = Visible(k)
  <2>1. ASSUME NEW i \in 1 .. n PROVE i \in Visible(k)' <=> i \in Visible(k)
    <3>1. Existed(k, i - 1)' <=> Existed(k, i - 1)
      BY <1>2
    <3>2. ops'[i] = ops[i] /\ i \in DOMAIN ops /\ i \in DOMAIN ops'
      BY <1>1, <1>2
    <3>3. (\A j \in DOMAIN ops' : j > i /\ ops'[j].key = k => ops'[j].op = "insert")
          <=> (\A j \in DOMAIN ops : j > i /\ ops[j].key = k => ops[j].op = "insert")
      BY <1>1, <1>2, <1>3
    <3> QED BY <3>1, <3>2, <3>3 DEF Visible
  <2>2. n + 1 \notin Visible(k)'
    BY <1>2 DEF Visible
  <2>3. Visible(k)' \subseteq 1 .. (n + 1) /\ Visible(k) \subseteq 1 .. n
    BY <1>1, <1>2 DEF Visible
  <2>4. \A x \in 1 .. (n + 1) : x \in Visible(k)' => x \in Visible(k)
    BY <1>3, <2>1, <2>2
  <2>5. \A x \in Visible(k) : x \in Visible(k)'
    BY <2>1, <2>3
  <2> QED BY <2>3, <2>4, <2>5
<1>5. ValuesAt(ops, Visible(k))' = ValuesAt(ops, Visible(k))
  <2>1. PICK V : V = Visible(k)
    OBVIOUS
  <2>2. V \in SUBSET Nat /\ IsFiniteSet(V) /\ \A i \in V : ops'[i].value = ops[i].value
    BY <1>1, <1>2, <2>1, VisibleFinite
  <2>3. ValuesAt(ops', V) = ValuesAt(ops, V)
    BY <2>2, ValuesAtSame
  <2>4. ValuesAt(ops, Visible(k))' = ValuesAt(ops', Visible(k)')
    BY DEF ValuesAt
  <2> QED BY <1>4, <2>1, <2>3, <2>4
<1>6. Existed(k, n + 1)' <=> Existed(k, n)
  <2>1. ASSUME Existed(k, n + 1)' PROVE Existed(k, n)
    <3>1. PICK i \in 1 .. (n + 1) :
            /\ ops'[i].op = "insert" /\ ops'[i].key = k
            /\ \A j \in i .. (n + 1) : ~(ops'[j].op = "remove" /\ ops'[j].key = k)
      BY <2>1 DEF Existed
    <3>2. i \in 1 .. n
      BY <1>2, <1>3, <3>1
    <3>3. \A j \in i .. n : j \in i .. (n + 1) /\ ops'[j] = ops[j]
      BY <1>2, <3>2
    <3> QED BY <1>2, <3>1, <3>2, <3>3 DEF Existed
  <2>2. ASSUME Existed(k, n) PROVE Existed(k, n + 1)'
    <3>1. PICK i \in 1 .. n : /\ ops[i].op = "insert" /\ ops[i].key = k
                              /\ \A j \in i .. n : ~(ops[j].op = "remove" /\ ops[j].key = k)
      BY <2>2 DEF Existed
    <3>2. \A j \in i .. (n + 1) : (j \in i .. n /\ ops'[j] = ops[j]) \/ ops'[j] = o
      BY <1>2
    <3>3. i \in 1 .. (n + 1) /\ ops'[i] = ops[i]
      BY <1>2
    <3>4. \A j \in i .. (n + 1) : ~(ops'[j].op = "remove" /\ ops'[j].key = k)
      BY <1>2, <3>1, <3>2
    <3>5. ops'[i].op = "insert" /\ ops'[i].key = k
      BY <3>1, <3>3
    <3> QED BY <3>3, <3>4, <3>5 DEF Existed
  <2> QED BY <2>1, <2>2
<1>7. EntryIsSeen(k)'
  BY <1>1, <1>2, <1>4, <1>6 DEF EntryIsSeen
<1> QED BY <1>5, <1>7

\* The values at some positions are a sequence, empty if there are none.
LEMMA ValuesAtSeq ==
  ASSUME NEW s, NEW I, IsFiniteSet(I), NEW v
  PROVE  /\ ValuesAt(s, I) \o <<>> = ValuesAt(s, I)
         /\ ValuesAt(s, I) \o <<v>> = Append(ValuesAt(s, I), v)
         /\ ValuesAt(s, I) = <<>> <=> I = {}
<1>1. PICK n, q : n = Cardinality(I) /\ q = ValuesAt(s, I)
  OBVIOUS
<1>2. n \in Nat /\ (n = 0 <=> I = {})
  BY <1>1, FS_CardinalityType, FS_EmptySet
<1>3. q = [r \in 1 .. n |-> q[r]]
  BY <1>1 DEF ValuesAt
<1>4. PICK T : T = {q[r] : r \in 1 .. n} \union {v}
  OBVIOUS
<1>5. q \in [1 .. n -> T] /\ v \in T
  BY <1>3, <1>4
<1>6. q \in Seq(T) /\ Len(q) = n
  BY <1>2, <1>5, FunctionIsSeq
<1>7. q \o <<>> = q /\ q \o <<v>> = Append(q, v) /\ (q = <<>> <=> n = 0)
  BY <1>2, <1>5, <1>6
<1> QED BY <1>1, <1>2, <1>7

------------------------------------------------------------------------------
(* The steps                                                               *)

\* What is visible depends on the calls only.
LEMMA SameCalls ==
  ASSUME ops' = ops
  PROVE  /\ \A k : Visible(k)' = Visible(k) /\ (EntryIsSeen(k)' <=> EntryIsSeen(k))
         /\ \A k : ValuesAt(ops, Visible(k))' = ValuesAt(ops, Visible(k))
<1>1. \A k, n : Existed(k, n)' <=> Existed(k, n)
  BY DEF Existed
<1>2. \A k : Visible(k)' = Visible(k)
  BY <1>1 DEF Visible
<1>3. \A k : EntryIsSeen(k)' <=> EntryIsSeen(k)
  BY <1>1, <1>2 DEF EntryIsSeen
<1>4. ASSUME NEW k PROVE ValuesAt(ops, Visible(k))' = ValuesAt(ops, Visible(k))
  <2>1. ValuesAt(ops, Visible(k))' = ValuesAt(ops', Visible(k)')
    BY DEF ValuesAt
  <2> QED BY <1>2, <2>1
<1> QED BY <1>2, <1>3, <1>4

\* Steps outside the closure.
LEMMA QuietStep ==
  ASSUME BuiltInv, ops' = ops,
         item' = item \/ ~FromTask',
         \/ task' = task /\ inner' = inner
         \/ task' \in {"panicked", "aborted"}
         \/ task = "none" /\ task' = "ticking" /\ item' = item
  PROVE  BuiltInv'
<1>1. ops' \in Seq(Calls)
  BY DEF BuiltInv
<1>2. task' = "building" => \A k \in AllKeys : inner'[k] = ValuesAt(ops, Visible(k))' /\ EntryIsSeen(k)'
  <2>1. ASSUME task' = "building" PROVE task = "building" /\ inner' = inner
    BY <2>1
  <2> QED BY <2>1, SameCalls DEF BuiltInv
<1>3. item' = item => (FromTask' <=> FromTask)
  BY DEF FromTask
<1>4. task' = "none" => ~FromTask'
  BY <1>3 DEF BuiltInv
<1>5. ReportedAsBuilt'
  <2>1. CASE item' = item /\ task = "ticking"
    <3>1. ReportedAsBuilt
      BY DEF BuiltInv
    <3> QED BY <2>1, <3>1, SameCalls DEF ReportedAsBuilt
  <2>2. CASE ~FromTask'
    BY <2>2 DEF ReportedAsBuilt, FromTask
  <2>3. CASE item' = item /\ task = "none"
    <3>1. ~FromTask'
      BY <1>3, <2>3 DEF BuiltInv
    <3> QED BY <3>1 DEF ReportedAsBuilt, FromTask
  <2>4. CASE task' # "ticking"
    BY <2>4 DEF ReportedAsBuilt
  <2> QED BY <2>1, <2>2, <2>3, <2>4
<1> QED BY <1>1, <1>2, <1>4, <1>5 DEF BuiltInv

\* An operation of the closure, if the Properties follow the calls.
LEMMA ClosureStep ==
  ASSUME BuiltInv, NEW p, NEW done \in Seq(Calls), Build(p, done),
         \A k \in AllKeys : p[k] = ValuesAt(ops, Visible(k))' /\ EntryIsSeen(k)'
  PROVE  BuiltInv'
<1>1. ops' \in Seq(Calls)
  <2>1. ops \in Seq(Calls) /\ ops' = ops \o done
    BY DEF BuiltInv, Build
  <2> QED BY <2>1, MoreCalls
<1>2. task' = "building" /\ inner' = p
  BY DEF Build, taskVars
<1>3. ReportedAsBuilt'
  BY <1>2 DEF ReportedAsBuilt
<1> QED BY <1>1, <1>2, <1>3 DEF BuiltInv

\* insert
LEMMA InsertStep ==
  ASSUME TypeOK, BuiltInv, NEW k \in Keys, NEW v \in Values, Insert(k, v)
  PROVE  BuiltInv'
<1>1. PICK done, o : done = <<Op("insert", k, v)>> /\ o = Op("insert", k, v)
  OBVIOUS
<1>2. /\ o \in Calls /\ done = <<o>> /\ o.op = "insert" /\ o.key = k /\ o.value = v
      /\ k \in AllKeys
  BY <1>1 DEF Op, Calls, AllKeys, AnyValue
<1>3. done \in Seq(Calls) /\ DOMAIN done = {1} /\ done[1] = o
  BY <1>2
<1>4. ops \in Seq(Calls) /\ ops' = ops \o done /\ task = "building"
  BY <1>1 DEF Insert, Build, BuiltInv
<1>5. ASSUME NEW x \in AllKeys
      PROVE  InsertIn(inner, k, v)[x] = ValuesAt(ops, Visible(x))' /\ EntryIsSeen(x)'
  <2>1. inner[x] = ValuesAt(ops, Visible(x)) /\ EntryIsSeen(x) /\ IsFiniteSet(Visible(x))
    BY <1>4, VisibleFinite DEF BuiltInv
  <2>2. \A i \in DOMAIN done : done[i].op = "insert"
    BY <1>2, <1>3
  <2>3. EntryIsSeen(x)' /\ ValuesAt(ops, Visible(x))' = inner[x] \o ValuesAt(done, CallsOn(done, x))
    BY <1>3, <1>4, <2>1, <2>2, InsertsAreSeen
  <2>4. CallsOn(done, x) = IF x = k THEN {1} ELSE {}
    BY <1>2, <1>3 DEF CallsOn
  <2>5. ValuesAt(done, CallsOn(done, x)) = IF x = k THEN <<v>> ELSE <<>>
    <3>1. ValuesAt(done, {1}) = <<v>>
      <4>1. ValuesAt(done, {1}) = <<done[1].value>>
        BY ValuesAtOne
      <4> QED BY <1>2, <1>3, <4>1
    <3> QED BY <2>4, <3>1, ValuesAtNone
  <2>6. inner[x] \o <<v>> = Append(inner[x], v) /\ inner[x] \o <<>> = inner[x]
    BY <2>1, ValuesAtSeq
  <2>7. InsertIn(inner, k, v)[x] = IF x = k THEN Append(inner[x], v) ELSE inner[x]
    BY DEF InsertIn, TypeOK
  <2> QED BY <2>3, <2>5, <2>6, <2>7
<1>6. Build(InsertIn(inner, k, v), done)
  BY <1>1 DEF Insert
<1> QED BY <1>3, <1>5, <1>6, ClosureStep

\* A call of update or remove, given what it does to the Properties.
LEMMA ClearStep ==
  ASSUME BuiltInv, NEW o \in Calls, o.op # "insert", NEW p, Build(p, <<o>>),
         \A x \in AllKeys \ {o.key} : p[x] = inner[x],
         p[o.key] = IF o.op = "update" /\ inner[o.key] # <<>> THEN <<o.value>> ELSE <<>>
  PROVE  BuiltInv'
<1>1. PICK k \in AllKeys : k = o.key
  BY DEF Calls
<1>2. ops \in Seq(Calls) /\ ops' = ops \o <<o>> /\ task = "building"
  BY DEF Build, BuiltInv
<1>3. \A x \in AllKeys : inner[x] = ValuesAt(ops, Visible(x)) /\ EntryIsSeen(x)
  BY <1>2 DEF BuiltInv
<1>4. inner[k] = <<>> <=> Visible(k) = {}
  <2>1. IsFiniteSet(Visible(k))
    BY <1>2, VisibleFinite
  <2> QED BY <1>3, <2>1, ValuesAtSeq
<1>5. EntryIsSeen(k)' /\ ValuesAt(ops, Visible(k))' = p[k]
  <2>1. /\ EntryIsSeen(o.key)'
        /\ ValuesAt(ops, Visible(o.key))' =
             IF o.op = "update" /\ Visible(o.key) # {} THEN <<o.value>> ELSE <<>>
    BY <1>1, <1>2, <1>3, ClearsAreSeen
  <2> QED BY <1>1, <1>4, <2>1
<1>6. ASSUME NEW x \in AllKeys, x # k
      PROVE  EntryIsSeen(x)' /\ ValuesAt(ops, Visible(x))' = p[x]
  <2>1. p[x] = inner[x] /\ x # o.key
    BY <1>1, <1>6
  <2> QED BY <1>2, <1>3, <2>1, OthersAreSeen
<1>7. <<o>> \in Seq(Calls)
  OBVIOUS
<1> QED BY <1>5, <1>6, <1>7, ClosureStep

\* update
LEMMA UpdateStep ==
  ASSUME TypeOK, BuiltInv, NEW k \in Keys, NEW v \in Values, Update(k, v)
  PROVE  BuiltInv'
<1>1. PICK o, p : o = Op("update", k, v) /\ p = UpdateIn(inner, k, v)
  OBVIOUS
<1>2. o \in Calls /\ o.op = "update" /\ o.key = k /\ o.value = v /\ k \in AllKeys
  BY <1>1 DEF Op, Calls, AllKeys, AnyValue
<1>3. /\ \A x \in AllKeys \ {k} : p[x] = inner[x]
      /\ p[k] = IF inner[k] # <<>> THEN <<v>> ELSE <<>>
  BY <1>1, <1>2 DEF UpdateIn, TypeOK
<1>4. Build(p, <<o>>)
  BY <1>1 DEF Update
<1> QED BY <1>2, <1>3, <1>4, ClearStep

\* remove
LEMMA RemoveStep ==
  ASSUME TypeOK, BuiltInv, NEW k \in Keys, Remove(k)
  PROVE  BuiltInv'
<1>1. PICK o, p : o = Op("remove", k, None) /\ p = RemoveIn(inner, k)
  OBVIOUS
<1>2. o \in Calls /\ o.op = "remove" /\ o.key = k /\ k \in AllKeys
  BY <1>1 DEF Op, Calls, AllKeys, AnyValue
<1>3. (\A x \in AllKeys \ {k} : p[x] = inner[x]) /\ p[k] = <<>>
  BY <1>1, <1>2 DEF RemoveIn, TypeOK
<1>4. Build(p, <<o>>)
  BY <1>1 DEF Remove
<1> QED BY <1>2, <1>3, <1>4, ClearStep

\* What insert_os_info inserts: pairs of the system's keys and answers.
LEMMA OsInfoPairs == BuildOsInfo \in Seq([key : OsKeys, value : AnyValue])
<1>1. PICK P : P = [key : OsKeys, value : AnyValue]
  OBVIOUS
<1>2. ASSUME NEW k \in OsKeys, NEW v \in AnyValue PROVE Optional(k, v) \in Seq(P)
  <2>1. PICK r \in P : r = [key |-> k, value |-> v]
    BY <1>1
  <2>2. <<r>> \in Seq(P) /\ <<>> \in Seq(P)
    OBVIOUS
  <2> QED BY <2>1, <2>2 DEF Optional
<1>3. OsName \in AnyValue /\ HostName \in AnyValue /\ ProcessNo \in AnyValue /\ "rust" \in AnyValue
  BY DEF AnyValue
<1>4. /\ "OS Name" \in OsKeys /\ "hostname" \in OsKeys /\ "ipv4" \in OsKeys
      /\ "Process No." \in OsKeys /\ "language" \in OsKeys
  BY DEF OsKeys
<1>5. [i \in DOMAIN Ips |-> [key |-> "ipv4", value |-> Ips[i]]] \in Seq(P)
  <2>1. Len(Ips) \in Nat /\ DOMAIN Ips = 1 .. Len(Ips)
    BY ManagerAssumption
  <2>2. \A i \in DOMAIN Ips : [key |-> "ipv4", value |-> Ips[i]] \in P
    BY <1>1, <1>4 DEF AnyValue
  <2>3. [i \in DOMAIN Ips |-> [key |-> "ipv4", value |-> Ips[i]]] \in [1 .. Len(Ips) -> P]
    BY <2>1, <2>2
  <2> QED BY <2>1, <2>3, FunctionIsSeq
<1>6. /\ Optional("OS Name", OsName) \in Seq(P) /\ Optional("hostname", HostName) \in Seq(P)
      /\ Optional("Process No.", ProcessNo) \in Seq(P) /\ Optional("language", "rust") \in Seq(P)
  BY <1>2, <1>3, <1>4
<1>7. \A s, t \in Seq(P) : s \o t \in Seq(P)
  BY ConcatFacts
<1>8. BuildOsInfo \in Seq(P)
  BY <1>5, <1>6, <1>7 DEF BuildOsInfo
<1> QED BY <1>1, <1>8

\* insert_os_info
LEMMA OsInfoStep ==
  ASSUME TypeOK, BuiltInv, InsertOsInfo
  PROVE  BuiltInv'
<1>1. PICK pairs : pairs = BuildOsInfo
  OBVIOUS
<1>2. PICK done : done = [i \in DOMAIN pairs |-> Op("insert", pairs[i].key, pairs[i].value)]
  OBVIOUS
<1>3. pairs \in Seq([key : OsKeys, value : AnyValue])
  BY <1>1, OsInfoPairs
<1>4. PICK n \in Nat : n = Len(pairs) /\ DOMAIN pairs = 1 .. n
  BY <1>3
<1>5. \A i \in 1 .. n : pairs[i].key \in OsKeys /\ pairs[i].value \in AnyValue
  <2>1. PICK P : P = [key : OsKeys, value : AnyValue]
    OBVIOUS
  <2>2. \A i \in 1 .. n : pairs[i] \in P
    <3>1. pairs \in Seq(P)
      BY <1>3, <2>1
    <3> QED BY <1>4, <3>1
  <2>3. \A r \in P : r.key \in OsKeys /\ r.value \in AnyValue
    BY <2>1
  <2> QED BY <2>2, <2>3
<1>6. /\ done \in [1 .. n -> Calls]
      /\ \A i \in 1 .. n : /\ done[i].op = "insert" /\ done[i].key = pairs[i].key
                           /\ done[i].value = pairs[i].value
  <2>1. \A i \in 1 .. n : done[i] = Op("insert", pairs[i].key, pairs[i].value)
    BY <1>2, <1>4
  <2>2. \A i \in 1 .. n : Op("insert", pairs[i].key, pairs[i].value) \in Calls
    <3>1. \A k \in OsKeys, v \in AnyValue : Op("insert", k, v) \in Calls
      BY DEF Op, Calls, AllKeys
    <3> QED BY <1>5, <3>1
  <2>3. \A i \in 1 .. n : /\ done[i].op = "insert" /\ done[i].key = pairs[i].key
                           /\ done[i].value = pairs[i].value
    <3>1. \A k, v : /\ Op("insert", k, v).op = "insert" /\ Op("insert", k, v).key = k
                    /\ Op("insert", k, v).value = v
      BY DEF Op
    <3> QED BY <2>1, <3>1
  <2>4. done \in [1 .. n -> Calls]
    BY <1>2, <1>4, <2>1, <2>2
  <2> QED BY <2>3, <2>4
<1>7. done \in Seq(Calls) /\ DOMAIN done = 1 .. n
  BY <1>6, FunctionIsSeq
<1>8. Build(InsertAll(inner, pairs), done)
  BY <1>1, <1>2 DEF InsertOsInfo
<1>9. ops \in Seq(Calls) /\ ops' = ops \o done /\ task = "building"
  BY <1>8 DEF Build, BuiltInv
<1>10. ASSUME NEW x \in AllKeys
       PROVE  InsertAll(inner, pairs)[x] = ValuesAt(ops, Visible(x))' /\ EntryIsSeen(x)'
  <2>1. inner[x] = ValuesAt(ops, Visible(x)) /\ EntryIsSeen(x)
    BY <1>9 DEF BuiltInv
  <2>2. \A i \in DOMAIN done : done[i].op = "insert"
    BY <1>6, <1>7
  <2>3. EntryIsSeen(x)' /\ ValuesAt(ops, Visible(x))' = inner[x] \o ValuesAt(done, CallsOn(done, x))
    BY <1>7, <1>9, <2>1, <2>2, InsertsAreSeen
  <2>4. PICK I : I = CallsOn(done, x) /\ I = {i \in DOMAIN pairs : pairs[i].key = x}
    BY <1>4, <1>6, <1>7 DEF CallsOn
  <2>5. I \in SUBSET (1 .. n)
    BY <1>4, <2>4
  <2>6. IsFiniteSet(I) /\ I \in SUBSET Nat
    <3>1. IsFiniteSet(1 .. n)
      BY FS_Interval
    <3>2. IsFiniteSet(I)
      BY <2>5, <3>1, FS_Subset
    <3> QED BY <2>5, <3>2
  <2>7. ValuesAt(done, I) = ValuesAt(pairs, I)
    <3>1. \A i \in I : done[i].value = pairs[i].value
      BY <1>6, <2>5
    <3> QED BY <2>6, <3>1, ValuesAtSame
  <2>8. InsertAll(inner, pairs)[x] = inner[x] \o ValuesAt(pairs, I)
    BY <2>4 DEF InsertAll
  <2> QED BY <2>3, <2>4, <2>7, <2>8
<1> QED BY <1>7, <1>8, <1>10, ClosureStep

\* A beat of the properties begins with nothing.
LEMMA BuildStep ==
  ASSUME BuiltInv, BeatBuild
  PROVE  BuiltInv'
<1>1. task' = "building" /\ inner' = Empty /\ ops' = <<>>
  BY DEF BeatBuild
<1>2. ops' \in Seq(Calls)
  BY <1>1
<1>3. ASSUME NEW k \in AllKeys PROVE inner'[k] = ValuesAt(ops, Visible(k))' /\ EntryIsSeen(k)'
  <2>1. DOMAIN ops' = {} /\ Len(ops') = 0
    BY <1>1
  <2>2. Visible(k)' = {}
    BY <2>1 DEF Visible
  <2>3. ~Existed(k, Len(ops))'
    <3>1. ~\E i \in 1 .. Len(ops') : TRUE
      BY <2>1
    <3> QED BY <3>1 DEF Existed
  <2>4. ValuesAt(ops, Visible(k))' = ValuesAt(ops', Visible(k)')
    BY DEF ValuesAt
  <2>5. ValuesAt(ops', {}) = <<>>
    BY ValuesAtNone
  <2>6. inner'[k] = <<>>
    BY <1>1 DEF Empty
  <2> QED BY <2>2, <2>3, <2>4, <2>5, <2>6 DEF EntryIsSeen
<1>4. ReportedAsBuilt'
  BY <1>1 DEF ReportedAsBuilt
<1> QED BY <1>1, <1>2, <1>3, <1>4 DEF BuiltInv

\* And ends with a report of what was built.
LEMMA ReportStep ==
  ASSUME TypeOK, BuiltInv, BeatReport
  PROVE  BuiltInv'
<1>1. /\ task = "building" /\ task' = "ticking" /\ ops' = ops
      /\ item' = Instance(inner, "task")
  BY DEF BeatReport
<1>2. \A k \in AllKeys : inner[k] = ValuesAt(ops, Visible(k)) /\ EntryIsSeen(k)
  BY <1>1 DEF BuiltInv
<1>3. ops \in Seq(Calls)
  BY DEF BuiltInv
<1>4. \A k \in AllKeys : inner[k] = <<>> <=> Visible(k) = {}
  <2>1. ASSUME NEW k \in AllKeys PROVE inner[k] = <<>> <=> Visible(k) = {}
    <3>1. IsFiniteSet(Visible(k))
      BY <1>3, VisibleFinite
    <3>2. ValuesAt(ops, Visible(k)) = <<>> <=> Visible(k) = {}
      BY <3>1, ValuesAtSeq
    <3> QED BY <1>2, <3>2
  <2> QED BY <2>1
<1>5. item'.properties = Convert(inner)
  BY <1>1 DEF Instance
<1>6. /\ DOMAIN Convert(inner) = {k \in AllKeys : Visible(k) # {}}
      /\ \A k \in DOMAIN Convert(inner) : Convert(inner)[k] = ValuesAt(ops, Visible(k))
  BY <1>2, <1>4 DEF Convert
<1>7. /\ DOMAIN item'.properties = {k \in AllKeys : Visible(k)' # {}}
      /\ \A k \in DOMAIN item'.properties : item'.properties[k] = ValuesAt(ops, Visible(k))'
  BY <1>1, <1>5, <1>6, SameCalls
<1>8. ReportedAsBuilt'
  BY <1>7 DEF ReportedAsBuilt
<1> QED BY <1>1, <1>3, <1>8 DEF BuiltInv

\* Before the task is spawned nothing is built.
LEMMA BuiltInit == Init => BuiltInv
<1> SUFFICES ASSUME Init PROVE BuiltInv
  OBVIOUS
<1>1. ops = <<>> /\ task = "none" /\ item = None
  BY DEF Init
<1>2. ops \in Seq(Calls)
  BY <1>1
<1> QED BY <1>1, <1>2 DEF BuiltInv, FromTask, ReportedAsBuilt

\* Every step keeps the Properties what the closure's calls add up to.
LEMMA BuiltStep == IInv /\ BuiltInv /\ [Next]_vars => BuiltInv'
<1> SUFFICES ASSUME IInv, BuiltInv, [Next]_vars PROVE BuiltInv'
  OBVIOUS
<1>t. TypeOK
  BY DEF IInv
<1>1. CASE \E p \in UserProperties : ReportProperties(p)
  <2>1. PICK p \in UserProperties : ReportProperties(p)
    BY <1>1
  <2>2. ~FromTask'
    BY <2>1 DEF ReportProperties, Instance, FromTask
  <2> QED BY <2>1, <2>2, QuietStep DEF ReportProperties, taskVars, buildVars
<1>2. CASE KeepAlive
  <2>1. ~FromTask'
    BY <1>2 DEF KeepAlive, Ping, FromTask
  <2> QED BY <1>2, <2>1, QuietStep DEF KeepAlive, taskVars, buildVars
<1>3. ASSUME NEW n, NEW period, ReportAndKeepAlive(n, period) PROVE BuiltInv'
  BY <1>3, QuietStep DEF ReportAndKeepAlive, buildVars
<1>4. CASE BeatPing
  <2>1. ~FromTask'
    BY <1>4 DEF BeatPing, Ping, FromTask
  <2> QED BY <1>4, <2>1, QuietStep DEF BeatPing, buildVars
<1>5. CASE BeatBuild
  BY <1>5, BuildStep
<1>6. CASE BeatReport
  BY <1>6, <1>t, ReportStep
<1>7. CASE \E k \in Keys, v \in Values : Insert(k, v) \/ Update(k, v)
  BY <1>7, <1>t, InsertStep, UpdateStep
<1>8. CASE \E k \in Keys : Remove(k)
  BY <1>8, <1>t, RemoveStep
<1>9. CASE InsertOsInfo
  BY <1>9, <1>t, OsInfoStep
<1>10. CASE TaskPanics \/ Cancelled
  BY <1>10, QuietStep DEF TaskPanics, Cancelled, buildVars
<1>11. CASE Abort \/ AwaitHandle \/ Join \/ DropHandle
  BY <1>11, QuietStep DEF Abort, AwaitHandle, Join, DropHandle, taskVars, buildVars
<1>12. CASE UNCHANGED vars
  BY <1>12, QuietStep DEF vars, taskVars, buildVars
<1> QED
  BY <1>1, <1>2, <1>3, <1>4, <1>5, <1>6, <1>7, <1>8, <1>9, <1>10, <1>11, <1>12
  DEF Next, TaskStep

\* What report_and_keep_alive hands to the reporter on a properties beat is what
\* the closure's insert, update, remove and insert_os_info calls add up to, for
\* every sequence of calls, every set of keys and every answer of the system.
THEOREM BuiltCorrect == Spec => []ReportedAsBuilt
<1>1. Init => BuiltInv
  BY BuiltInit
<1>2. IInv /\ BuiltInv /\ [Next]_vars => BuiltInv'
  BY BuiltStep
<1>3. BuiltInv => ReportedAsBuilt
  BY DEF BuiltInv
<1> QED
  BY <1>1, <1>2, <1>3, Inductive, PTL DEF Spec

==============================================================================
