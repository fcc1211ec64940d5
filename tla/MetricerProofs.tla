---------------------------- MODULE MetricerProofs ----------------------------
(***************************************************************************)
(* The reports of the Metricer for every set of meters, every steps and    *)
(* every bound: rates add up, no report goes back, and every value is in   *)
(* the bucket it belongs to.                                               *)
(*                                                                         *)
(* Between the load of a counter and the swap the task holds a value that  *)
(* is already old, and between the loads of two buckets it holds a partial *)
(* snapshot. GotIsOld says what such values still are: not above what is   *)
(* counted now and not below what was reported before, unless the counter  *)
(* was given a negative amount.                                            *)
(*                                                                         *)
(* The buckets rest on the steps being in ascending order, which is what   *)
(* SortDedup makes of any steps: each stands at the rank it has among them.*)
(***************************************************************************)
EXTENDS Metricer, FiniteSetTheorems, TLAPS

StepsAreSeq == \E n \in Nat : DOMAIN steps = 1 .. n /\ Len(steps) = n

\* Something has been read only in the middle of a transform that reads twice.
GotHasMeter ==
  got # <<>> => at = "round" /\ \E m \in RateCounters \union {Histogram} : AtMeter(m)

GotIsOld ==
  /\ \A c \in RateCounters :
       AtMeter(c) /\ got # <<>> =>
         /\ got[1] \in Counted
         /\ c \notin shrunk => previous_count[c] <= got[1] /\ got[1] <= count[c]
  /\ AtMeter(Histogram) =>
       \A i \in DOMAIN got :
         i \in DOMAIN steps /\ got[i] \in Nat /\ snapshot[i] <= got[i] /\ got[i] <= buckets[i]

\* What was reported has been counted.
ReportedIsCounted ==
  /\ \A c \in Counters \ shrunk : reported[c] <= count[c]
  /\ \A i \in DOMAIN steps : snapshot[i] <= buckets[i]

IInv == TypeOK /\ StepsAreSeq /\ GotHasMeter /\ GotIsOld /\ ReportedIsCounted /\ RatesAddUp

------------------------------------------------------------------------------

\* A function over 1 .. n is a sequence of length n.
LEMMA FunctionIsSeq ==
  ASSUME NEW n \in Nat, NEW T, NEW f \in [1 .. n -> T]
  PROVE  f \in Seq(T) /\ Len(f) = n
OBVIOUS

\* sort and dedup leave a sequence, whatever the steps were.
LEMMA SortDedupLen ==
  ASSUME NEW s \in Seq(Int)
  PROVE  \E n \in Nat : DOMAIN SortDedup(s) = 1 .. n /\ Len(SortDedup(s)) = n
<1> DEFINE S == {s[i] : i \in DOMAIN s}
           n == Cardinality(S)
           f == [i \in 1 .. n |-> CHOOSE x \in S : Cardinality({y \in S : y < x}) = i - 1]
           T == {f[i] : i \in 1 .. n}
<1>1. IsFiniteSet(DOMAIN s)
  BY FS_Interval
<1>2. s \in Surjection(DOMAIN s, S)
  BY DEF Surjection
<1>3. n \in Nat
  BY <1>1, <1>2, FS_Surjection, FS_CardinalityType
<1>4. f \in [1 .. n -> T]
  OBVIOUS
<1>5. Len(f) = n
  <2> HIDE DEF n, f, T
  <2> QED
    BY <1>3, <1>4, FunctionIsSeq
<1> QED
  BY <1>3, <1>5 DEF SortDedup

\* Before anything was counted or read.
LEMMA InitInv == Init => IInv
<1> SUFFICES ASSUME Init PROVE IInv
  OBVIOUS
<1>1. PICK s \in Steps : steps = SortDedup(s)
  BY DEF Init
<1>2. s \in Seq(Int)
  BY MetersAssumption
<1>3. StepsAreSeq
  BY <1>1, <1>2, SortDedupLen DEF StepsAreSeq
<1>4. TypeOK
  <2>1. /\ count \in [Counters -> Counted]
        /\ previous_count \in [Counters -> Counted]
        /\ reported \in [Counters -> Counted]
    BY MetersAssumption DEF Init, Counted
  <2>2. /\ buckets \in [DOMAIN steps -> Nat]
        /\ snapshot \in [DOMAIN steps -> Nat]
        /\ registered \subseteq Meters
        /\ meter_map \in [Ids -> Meters \union {None}]
    BY DEF Init
  <2>3. /\ report_interval \in {"zero", "positive"}
        /\ at \in {"setup", "round", "select", "ended", "crashed"}
        /\ handle \in {"none", "held", "shutdown", "dropped", "unwrapped"}
        /\ panicked \in Meters \union {None}
    BY DEF Init
  <2>4. /\ order \in Seq(Meters) /\ pos \in Nat /\ got \in Seq(Int) /\ added \in Seq(Values)
        /\ shrunk \subseteq Counters
    BY DEF Init
  <2> QED
    BY <2>1, <2>2, <2>3, <2>4 DEF TypeOK
<1>5. GotHasMeter /\ GotIsOld
  BY DEF Init, GotHasMeter, GotIsOld, AtMeter
<1>6. ReportedIsCounted /\ RatesAddUp
  BY MetersAssumption DEF Init, ReportedIsCounted, RatesAddUp
<1> QED
  BY <1>3, <1>4, <1>5, <1>6 DEF IInv

\* A step that leaves the meters, the task and its reports alone.
LEMMA QuietStep ==
  ASSUME IInv, TypeOK', UNCHANGED <<meterVars, order, at, pos, got, reported, snapshot>>
  PROVE  IInv'
BY DEF IInv, StepsAreSeq, GotHasMeter, GotIsOld, ReportedIsCounted, RatesAddUp, AtMeter, meterVars

\* A step after which the task holds nothing.
LEMMA EmptyHanded ==
  ASSUME got' = <<>>
  PROVE  GotHasMeter' /\ GotIsOld'
BY DEF GotHasMeter, GotIsOld

\* The order is made of registered meters.
LEMMA BootOrder ==
  ASSUME IInv, Boot
  PROVE  order' \in Seq(Meters)
<1>1. Mapped \subseteq Meters
  BY DEF IInv, TypeOK, Mapped
<1>2. Cardinality(Mapped) \in Nat
  BY <1>1, MetersAssumption, FS_Subset, FS_CardinalityType
<1>3. order' \in [1 .. Cardinality(Mapped) -> Meters]
  BY <1>1 DEF Boot
<1> QED
  BY <1>2, <1>3, FunctionIsSeq

\* Counting, in any thread: what the task holds stays old, but not too new.
LEMMA IncrementInv ==
  ASSUME IInv, NEW c \in Counters, NEW a \in Amounts[c], Increment(c, a)
  PROVE  IInv'
<1> USE MetersAssumption
<1>1. TypeOK'
  BY DEF IInv, TypeOK, Increment, setupVars, taskVars
<1>2. GotHasMeter' /\ StepsAreSeq'
  BY DEF IInv, GotHasMeter, StepsAreSeq, AtMeter, Increment, setupVars, taskVars
<1>3. \A d \in Counters :
        /\ count[d] \in Int /\ count'[d] \in Int
        /\ d \notin shrunk' => d \notin shrunk /\ count[d] <= count'[d]
  <2>1. a \in Int
    OBVIOUS
  <2>2. \A d \in Counters : count[d] \in Int /\ count'[d] = IF d = c THEN count[c] + a ELSE count[d]
    BY DEF IInv, TypeOK, Increment, Counted
  <2>3. shrunk \subseteq shrunk' /\ (a < 0 => c \in shrunk')
    BY DEF Increment
  <2> QED
    BY <2>1, <2>2, <2>3
<1>4. GotIsOld'
  <2>1. ASSUME NEW d \in RateCounters, AtMeter(d), got # <<>>
        PROVE  /\ got[1] \in Counted
               /\ d \notin shrunk' => previous_count[d] <= got[1] /\ got[1] <= count'[d]
    <3>1. got[1] \in Int /\ got[1] \in Counted /\ d \in Counters
      BY <2>1 DEF IInv, GotIsOld, Counted
    <3> QED
      BY <1>3, <2>1, <3>1 DEF IInv, GotIsOld
  <2> QED
    BY <2>1 DEF IInv, GotIsOld, AtMeter, Increment, setupVars, taskVars
<1>5. ReportedIsCounted'
  <2>1. \A d \in Counters : reported[d] \in Int
    BY DEF IInv, TypeOK, Counted
  <2> QED
    BY <1>3, <2>1 DEF IInv, ReportedIsCounted, Increment, taskVars
<1>6. RatesAddUp'
  <2>1. \A d \in Counters : previous_count[d] \in Int
    BY DEF IInv, TypeOK, Counted
  <2> QED
    BY <1>3, <2>1 DEF IInv, RatesAddUp, Increment, taskVars
<1> QED
  BY <1>1, <1>2, <1>4, <1>5, <1>6 DEF IInv

\* add_value: a bucket only grows, whichever find_bucket returns.
LEMMA AddValueInv ==
  ASSUME IInv, NEW v \in Values, AddValue(v)
  PROVE  IInv'
<1>1. /\ buckets' \in [DOMAIN steps -> Nat]
      /\ \A i \in DOMAIN steps : buckets[i] <= buckets'[i]
  <2> DEFINE k == FindBucket(v)
  <2>1. buckets' = IF k = 0 THEN buckets ELSE [buckets EXCEPT ![k] = @ + 1]
    BY DEF AddValue
  <2>2. buckets \in [DOMAIN steps -> Nat]
    BY DEF IInv, TypeOK
  <2> HIDE DEF k
  <2>3. CASE k = 0 \/ k \notin DOMAIN steps
    <3>1. buckets' = buckets
      BY <2>1, <2>2, <2>3
    <3> QED
      BY <2>2, <3>1
  <2>4. CASE k # 0 /\ k \in DOMAIN steps
    BY <2>1, <2>2, <2>4
  <2> QED
    BY <2>3, <2>4
<1>2. TypeOK'
  BY <1>1 DEF IInv, TypeOK, AddValue, setupVars, taskVars
<1>3. GotHasMeter' /\ StepsAreSeq' /\ RatesAddUp'
  BY DEF IInv, GotHasMeter, StepsAreSeq, RatesAddUp, AtMeter, AddValue, setupVars, taskVars
<1>4. GotIsOld'
  <2>1. ASSUME AtMeter(Histogram), NEW i \in DOMAIN got
        PROVE  /\ i \in DOMAIN steps /\ got[i] \in Nat
               /\ snapshot[i] <= got[i] /\ got[i] <= buckets'[i]
    <3>1. i \in DOMAIN steps /\ got[i] \in Nat /\ snapshot[i] <= got[i] /\ got[i] <= buckets[i]
      BY <2>1 DEF IInv, GotIsOld
    <3>2. got[i] \in Nat /\ buckets[i] \in Nat /\ buckets'[i] \in Nat
      BY <1>1, <3>1 DEF IInv, TypeOK
    <3> QED
      BY <1>1, <3>1, <3>2
  <2> QED
    BY <2>1 DEF IInv, GotIsOld, AtMeter, AddValue, setupVars, taskVars
<1>5. ReportedIsCounted'
  BY <1>1 DEF IInv, TypeOK, ReportedIsCounted, AddValue, taskVars
<1> QED
  BY <1>2, <1>3, <1>4, <1>5 DEF IInv

\* What a report does to the task, whether or not it panics.
LEMMA AdvanceType ==
  ASSUME TypeOK, NEW m \in Meters, Advance(m)
  PROVE  /\ registered' \subseteq Meters /\ meter_map' \in [Ids -> Meters \union {None}]
         /\ report_interval' \in {"zero", "positive"} /\ order' \in Seq(Meters)
         /\ at' \in {"setup", "round", "select", "ended", "crashed"}
         /\ pos' \in Nat /\ got' \in Seq(Int)
         /\ handle' \in {"none", "held", "shutdown", "dropped", "unwrapped"}
         /\ panicked' \in Meters \union {None}
<1>1. UNCHANGED setupVars /\ UNCHANGED handle /\ got' = <<>>
  BY DEF Advance
<1>2. CASE pos' = pos + 1 /\ UNCHANGED <<at, panicked>>
  BY <1>1, <1>2 DEF TypeOK, setupVars
<1>3. CASE RoundPanics(m)
  BY <1>1, <1>3 DEF TypeOK, setupVars, RoundPanics
<1> QED
  BY <1>2, <1>3 DEF Advance

\* Each step of a round: what was read is still between the last report and now.
LEMMA RoundInv ==
  ASSUME IInv, Round
  PROVE  IInv'
<1> USE MetersAssumption
<1>1. ASSUME NEW c \in Counters, ReportIncrement(c)
      PROVE  IInv'
  <2>1. GotHasMeter' /\ GotIsOld'
    BY <1>1, EmptyHanded DEF ReportIncrement, Advance
  <2>2. TypeOK'
    <3>1. count[c] \in Counted /\ c \in Meters
      BY DEF IInv, TypeOK, Meters
    <3>2. reported' \in [Counters -> Counted]
      BY <1>1, <3>1 DEF IInv, TypeOK, ReportIncrement
    <3> QED
      BY <1>1, <3>1, <3>2, AdvanceType DEF IInv, TypeOK, ReportIncrement, meterVars
  <2>3. StepsAreSeq' /\ RatesAddUp'
    BY <1>1 DEF IInv, TypeOK, StepsAreSeq, RatesAddUp, ReportIncrement, meterVars
  <2>4. ReportedIsCounted'
    <3>1. count[c] \in Int /\ reported' = [reported EXCEPT ![c] = count[c]]
          /\ reported \in [Counters -> Counted]
      BY <1>1 DEF IInv, TypeOK, ReportIncrement, Counted
    <3> QED
      BY <1>1, <3>1 DEF IInv, ReportedIsCounted, ReportIncrement, meterVars
  <2> QED
    BY <2>1, <2>2, <2>3, <2>4 DEF IInv
<1>2. ASSUME NEW c \in Counters, ReadRate(c)
      PROVE  IInv'
  <2>1. TypeOK'
    <3>1. count[c] \in Int
      BY DEF IInv, TypeOK, Counted
    <3>2. got' \in Seq(Int)
      BY <1>2, <3>1 DEF ReadRate
    <3> QED
      BY <1>2, <3>2 DEF IInv, TypeOK, ReadRate, meterVars, setupVars
  <2>2. StepsAreSeq' /\ ReportedIsCounted' /\ RatesAddUp' /\ GotHasMeter'
    BY <1>2 DEF IInv, StepsAreSeq, ReportedIsCounted, RatesAddUp, GotHasMeter, AtMeter,
                ReadRate, meterVars, setupVars
  <2>3. GotIsOld'
    <3>1. got' = <<count[c]>> /\ got'[1] = count[c] /\ count[c] \in Counted /\ count[c] \in Int
      BY <1>2 DEF IInv, TypeOK, ReadRate, Counted
    <3>2. c \notin shrunk => previous_count[c] <= count[c]
      BY <1>2 DEF IInv, RatesAddUp, ReadRate
    <3>3. order[pos] = c /\ c # Histogram
      BY <1>2 DEF ReadRate, AtMeter
    <3> QED
      BY <1>2, <3>1, <3>2, <3>3 DEF GotIsOld, AtMeter, ReadRate, meterVars, setupVars
  <2> QED
    BY <2>1, <2>2, <2>3 DEF IInv
<1>3. ASSUME NEW c \in Counters, ReportRate(c)
      PROVE  IInv'
  <2>1. GotHasMeter' /\ GotIsOld'
    BY <1>3, EmptyHanded DEF ReportRate, Advance
  <2>2. /\ c \in RateCounters /\ got[1] \in Counted /\ got[1] \in Int
        /\ c \notin shrunk => got[1] <= count[c]
        /\ count[c] \in Int /\ previous_count[c] \in Int
        /\ reported[c] = previous_count[c]
    BY <1>3 DEF IInv, TypeOK, GotIsOld, RatesAddUp, ReportRate, Counted
  <2>3. /\ reported' = [reported EXCEPT ![c] = got[1]]
        /\ previous_count' = [previous_count EXCEPT ![c] = got[1]]
    <3>1. reported[c] + (got[1] - previous_count[c]) = got[1]
      BY <2>2
    <3>2. reported' = [reported EXCEPT ![c] = reported[c] + (got[1] - previous_count[c])]
      BY <1>3 DEF ReportRate
    <3> QED
      BY <1>3, <3>1, <3>2 DEF ReportRate
  <2>4. TypeOK'
    <3>1. c \in Meters
      BY DEF Meters
    <3> QED
      BY <1>3, <2>2, <2>3, <3>1, AdvanceType DEF IInv, TypeOK, ReportRate
  <2>5. StepsAreSeq' /\ ReportedIsCounted' /\ RatesAddUp'
    BY <1>3, <2>2, <2>3 DEF IInv, TypeOK, StepsAreSeq, ReportedIsCounted, RatesAddUp, ReportRate
  <2> QED
    BY <2>1, <2>4, <2>5 DEF IInv
<1>4. ASSUME ReportGauge
      PROVE  IInv'
  <2>1. GotHasMeter' /\ GotIsOld'
    BY <1>4, EmptyHanded DEF ReportGauge, Advance
  <2>2. TypeOK'
    <3>1. Gauge \in Meters
      BY DEF Meters
    <3> QED
      BY <1>4, <3>1, AdvanceType DEF IInv, TypeOK, ReportGauge, meterVars
  <2>3. StepsAreSeq' /\ ReportedIsCounted' /\ RatesAddUp'
    BY <1>4 DEF IInv, StepsAreSeq, ReportedIsCounted, RatesAddUp, ReportGauge, meterVars
  <2> QED
    BY <2>1, <2>2, <2>3 DEF IInv
<1>5. ASSUME GetterPanics
      PROVE  IInv'
  <2>1. got = <<>>
    BY <1>5 DEF IInv, GotHasMeter, AtMeter, GetterPanics
  <2>2. GotHasMeter' /\ GotIsOld'
    BY <1>5, <2>1, EmptyHanded DEF GetterPanics
  <2>3. TypeOK' /\ StepsAreSeq' /\ ReportedIsCounted' /\ RatesAddUp'
    BY <1>5 DEF IInv, TypeOK, StepsAreSeq, ReportedIsCounted, RatesAddUp, GetterPanics,
                RoundPanics, Meters, meterVars, setupVars
  <2> QED
    BY <2>2, <2>3 DEF IInv
<1>6. ASSUME LoadBucket
      PROVE  IInv'
  <2> DEFINE k == Len(got) + 1
  <2>1. k \in DOMAIN steps /\ got \in Seq(Int) /\ buckets[k] \in Nat
    BY <1>6 DEF IInv, TypeOK, StepsAreSeq, LoadBucket
  <2>2. got' = Append(got, buckets[k])
    BY <1>6 DEF LoadBucket
  <2>3. TypeOK'
    BY <1>6, <2>1, <2>2 DEF IInv, TypeOK, LoadBucket, meterVars, setupVars
  <2>4. StepsAreSeq' /\ ReportedIsCounted' /\ RatesAddUp' /\ GotHasMeter'
    BY <1>6 DEF IInv, StepsAreSeq, ReportedIsCounted, RatesAddUp, GotHasMeter, AtMeter,
                LoadBucket, meterVars, setupVars
  <2>5. ASSUME NEW i \in DOMAIN got'
        PROVE  /\ i \in DOMAIN steps /\ got'[i] \in Nat
               /\ snapshot[i] <= got'[i] /\ got'[i] <= buckets[i]
    <3>1. CASE i \in DOMAIN got
      BY <1>6, <2>1, <2>2, <3>1 DEF IInv, GotIsOld, LoadBucket
    <3>2. CASE i = k
      BY <2>1, <2>2, <3>2 DEF IInv, ReportedIsCounted
    <3> QED
      BY <2>1, <2>2, <2>5, <3>1, <3>2
  <2>6. GotIsOld'
    BY <1>6, <2>5 DEF GotIsOld, AtMeter, LoadBucket, meterVars, setupVars
  <2> QED
    BY <2>3, <2>4, <2>6 DEF IInv
<1>7. ASSUME ReportHistogram
      PROVE  IInv'
  <2>1. GotHasMeter' /\ GotIsOld'
    BY <1>7, EmptyHanded DEF ReportHistogram, Advance
  <2>2. DOMAIN got = DOMAIN steps /\ snapshot' \in [DOMAIN steps -> Nat]
    <3>1. got \in Seq(Int) /\ Len(got) = Len(steps) /\ snapshot' = got
      BY <1>7 DEF IInv, TypeOK, ReportHistogram
    <3>2. DOMAIN got = DOMAIN steps
      BY <3>1 DEF IInv, StepsAreSeq
    <3>3. \A i \in DOMAIN got : got[i] \in Nat
      BY <1>7 DEF IInv, GotIsOld, ReportHistogram
    <3>4. got \in [DOMAIN got -> Nat]
      BY <3>1, <3>3
    <3> QED
      BY <3>1, <3>2, <3>4
  <2>3. TypeOK'
    <3>1. Histogram \in Meters
      BY DEF Meters
    <3> QED
      BY <1>7, <2>2, <3>1, AdvanceType DEF IInv, TypeOK, ReportHistogram, meterVars
  <2>4. StepsAreSeq' /\ ReportedIsCounted' /\ RatesAddUp'
    BY <1>7, <2>2 DEF IInv, StepsAreSeq, GotIsOld, ReportedIsCounted, RatesAddUp,
                      ReportHistogram, meterVars
  <2> QED
    BY <2>1, <2>3, <2>4 DEF IInv
<1>8. ASSUME EndRound
      PROVE  IInv'
  <2>1. got = <<>>
    BY <1>8 DEF IInv, TypeOK, GotHasMeter, AtMeter, EndRound
  <2>2. GotHasMeter' /\ GotIsOld'
    BY <1>8, <2>1, EmptyHanded DEF EndRound
  <2>3. TypeOK' /\ StepsAreSeq' /\ ReportedIsCounted' /\ RatesAddUp'
    BY <1>8 DEF IInv, TypeOK, StepsAreSeq, ReportedIsCounted, RatesAddUp, EndRound,
                meterVars, setupVars
  <2> QED
    BY <2>2, <2>3 DEF IInv
<1> QED
  BY <1>1, <1>2, <1>3, <1>4, <1>5, <1>6, <1>7, <1>8 DEF Round

\* Every step keeps the invariant.
LEMMA NextInv == IInv /\ [Next]_vars => IInv'
<1> SUFFICES ASSUME IInv, [Next]_vars PROVE IInv'
  OBVIOUS
<1> USE MetersAssumption
<1>1. ASSUME NEW m \in Meters, Register(m)
      PROVE  IInv'
  <2>1. TypeOK'
    BY <1>1 DEF IInv, TypeOK, Register, meterVars, taskVars
  <2> QED
    BY <1>1, <2>1, QuietStep DEF Register, meterVars, taskVars
<1>2. ASSUME NEW d \in {"zero", "positive"}, SetReportInterval(d)
      PROVE  IInv'
  <2>1. TypeOK'
    BY <1>2 DEF IInv, TypeOK, SetReportInterval, meterVars, taskVars
  <2> QED
    BY <1>2, <2>1, QuietStep DEF SetReportInterval, meterVars, taskVars
<1>3. ASSUME Boot
      PROVE  IInv'
  <2>1. got = <<>>
    BY <1>3 DEF IInv, GotHasMeter, Boot
  <2>2. GotHasMeter' /\ GotIsOld'
    BY <1>3, <2>1, EmptyHanded DEF Boot
  <2>3. TypeOK'
    BY <1>3, BootOrder DEF IInv, TypeOK, Boot, meterVars
  <2>4. StepsAreSeq' /\ ReportedIsCounted' /\ RatesAddUp'
    BY <1>3 DEF IInv, StepsAreSeq, ReportedIsCounted, RatesAddUp, Boot, meterVars
  <2> QED
    BY <2>2, <2>3, <2>4 DEF IInv
<1>4. ASSUME Shutdown \/ DropBooting
      PROVE  IInv'
  <2>1. TypeOK'
    BY <1>4 DEF IInv, TypeOK, Shutdown, DropBooting, meterVars, setupVars, taskVars
  <2> QED
    BY <1>4, <2>1, QuietStep DEF Shutdown, DropBooting, meterVars, setupVars, taskVars
<1>5. ASSUME Tick \/ Stop
      PROVE  IInv'
  <2>1. got = <<>>
    BY <1>5 DEF IInv, GotHasMeter, Tick, Stop
  <2>2. GotHasMeter' /\ GotIsOld'
    BY <1>5, <2>1, EmptyHanded DEF Tick, Stop
  <2>3. TypeOK'
    BY <1>5 DEF IInv, TypeOK, Tick, Stop, meterVars, setupVars
  <2>4. StepsAreSeq' /\ ReportedIsCounted' /\ RatesAddUp'
    BY <1>5 DEF IInv, StepsAreSeq, ReportedIsCounted, RatesAddUp, Tick, Stop, meterVars
  <2> QED
    BY <2>2, <2>3, <2>4 DEF IInv
<1>6. CASE UNCHANGED vars
  <2>1. TypeOK'
    BY <1>6 DEF IInv, TypeOK, vars, meterVars, setupVars, taskVars
  <2> QED
    BY <1>6, <2>1, QuietStep DEF vars, meterVars, setupVars, taskVars
<1> QED
  BY <1>1, <1>2, <1>3, <1>4, <1>5, <1>6, IncrementInv, AddValueInv, RoundInv DEF Next

\* The invariant of the meters and their reports holds in every state.
THEOREM Inductive == Spec => []IInv
BY InitInv, NextInv, PTL DEF Spec

\* The types and bounds of meter.rs and metricer.rs.
THEOREM TypeCorrect == Spec => []TypeOK
<1>1. IInv => TypeOK
  BY DEF IInv
<1> QED
  BY <1>1, Inductive, PTL

\* CounterMode::RATE: get, swap and subtract report every increment once.
THEOREM RatesCorrect == Spec => []RatesAddUp
<1>1. IInv => RatesAddUp
  BY DEF IInv
<1> QED
  BY <1>1, Inductive, PTL

\* Counters are loaded, and buckets one after the other, while others count: still
\* no report is below the one before it, nor above what has been counted, except
\* of a counter that was given a negative amount.
THEOREM GrowthCorrect == Spec => ReportsGrow
<1> DEFINE Grow ==
      /\ \A c \in Counters \ shrunk : reported'[c] >= reported[c]
      /\ \A i \in DOMAIN steps : snapshot[i] <= snapshot'[i] /\ snapshot'[i] <= buckets[i]
<1>1. IInv /\ [Next]_vars => [Grow]_vars
  <2> SUFFICES ASSUME IInv, [Next]_vars PROVE Grow
    OBVIOUS
  <2> USE MetersAssumption
  <2>1. CASE UNCHANGED <<reported, snapshot>>
    BY <2>1 DEF IInv, TypeOK, ReportedIsCounted, Counted
  <2>2. ASSUME NEW c \in Counters, ReportIncrement(c)
        PROVE  Grow
    BY <2>2 DEF IInv, TypeOK, ReportedIsCounted, ReportIncrement, Counted
  <2>3. ASSUME NEW c \in Counters, ReportRate(c)
        PROVE  Grow
    <3>1. /\ c \in RateCounters /\ got[1] \in Int
          /\ c \notin shrunk => previous_count[c] <= got[1]
          /\ previous_count[c] \in Int /\ reported[c] = previous_count[c]
      BY <2>3 DEF IInv, TypeOK, GotIsOld, RatesAddUp, ReportRate, Counted
    <3>2. c \notin shrunk => reported[c] + (got[1] - previous_count[c]) >= reported[c]
      BY <3>1
    <3>3. reported' = [reported EXCEPT ![c] = reported[c] + (got[1] - previous_count[c])]
      BY <2>3 DEF ReportRate
    <3>4. \A d \in Counters \ shrunk : reported'[d] >= reported[d]
      BY <3>2, <3>3 DEF IInv, TypeOK, Counted
    <3> QED
      BY <2>3, <3>4 DEF IInv, TypeOK, ReportedIsCounted, ReportRate
  <2>4. ASSUME ReportHistogram
        PROVE  Grow
    <3>1. DOMAIN got = DOMAIN steps
      BY <2>4 DEF IInv, TypeOK, StepsAreSeq, ReportHistogram
    <3> QED
      BY <2>4, <3>1 DEF IInv, TypeOK, GotIsOld, ReportHistogram, Counted
  <2> QED
    BY <2>1, <2>2, <2>3, <2>4
       DEF Next, Round, Increment, AddValue, Register, SetReportInterval, Boot, Shutdown,
           DropBooting, ReadRate, ReportGauge, GetterPanics, LoadBucket, EndRound, Tick, Stop,
           vars, taskVars
<1> QED
  BY <1>1, Inductive, PTL DEF Spec, ReportsGrow

------------------------------------------------------------------------------
(* The buckets of the histogram                                            *)

\* Counting the smaller ones numbers the members of a set in ascending order, and
\* leaves no number out.
LEMMA Ranks ==
  ASSUME NEW S \in SUBSET Int, IsFiniteSet(S), NEW f,
         f = [x \in S |-> Cardinality({y \in S : y < x})]
  PROVE  /\ \A x, y \in S : x < y => f[x] < f[y]
         /\ \A r \in 0 .. (Cardinality(S) - 1) : \E x \in S : f[x] = r
<1>1. PICK n \in Nat : n = Cardinality(S)
  BY FS_CardinalityType
<1>2. ASSUME NEW x \in S
      PROVE  /\ IsFiniteSet({y \in S : y < x}) /\ f[x] \in Nat /\ f[x] < n
             /\ f[x] = Cardinality({y \in S : y < x})
  <2> DEFINE B == {y \in S : y < x}
  <2>1. B \in SUBSET S /\ x \notin B
    OBVIOUS
  <2>2. IsFiniteSet(B) /\ Cardinality(B) <= n /\ (n = Cardinality(B) => S = B)
    BY <1>1, <2>1, FS_Subset
  <2>3. Cardinality(B) \in Nat
    BY <2>2, FS_CardinalityType
  <2>4. f[x] = Cardinality(B)
    OBVIOUS
  <2> HIDE DEF B
  <2>5. f[x] < n
    BY <2>1, <2>2, <2>3, <2>4
  <2> QED BY <2>2, <2>3, <2>4, <2>5 DEF B
<1>3. ASSUME NEW x \in S, NEW y \in S, x < y PROVE f[x] < f[y]
  <2> DEFINE A == {z \in S : z < x}
             B == {z \in S : z < y}
  <2>1. A \in SUBSET B /\ x \in B /\ x \notin A
    <3>1. \A z \in S : z \in Int
      OBVIOUS
    <3>2. x \in B /\ x \notin A
      BY <1>3, <3>1
    <3>3. \A z \in S : z < x => z < y
      BY <1>3, <3>1
    <3> QED BY <3>2, <3>3
  <2>2. IsFiniteSet(B) /\ f[x] = Cardinality(A) /\ f[y] = Cardinality(B) /\ f[x] \in Nat /\ f[y] \in Nat
    BY <1>2
  <2> HIDE DEF A, B
  <2>3. Cardinality(A) <= Cardinality(B) /\ (Cardinality(B) = Cardinality(A) => B = A)
    BY <2>1, <2>2, FS_Subset
  <2> QED BY <2>1, <2>2, <2>3
<1>4. f \in Injection(S, 0 .. (n - 1))
  <2>1. f \in [S -> 0 .. (n - 1)]
    BY <1>2
  <2>2. \A x, y \in S : f[x] = f[y] => x = y
    <3>1. \A x, y \in S : x < y \/ y < x \/ x = y
      OBVIOUS
    <3>2. \A x, y \in S : x < y => f[x] # f[y]
      BY <1>2, <1>3
    <3> QED BY <3>1, <3>2
  <2> QED BY <2>1, <2>2 DEF Injection, IsInjective
<1>5. IsFiniteSet(0 .. (n - 1)) /\ Cardinality(0 .. (n - 1)) = n
  <2>1. n - 1 \in Int /\ IF 0 > n - 1 THEN n = 0 ELSE n - 1 - 0 + 1 = n
    OBVIOUS
  <2> QED BY <2>1, FS_Interval
<1>6. f \in Surjection(S, 0 .. (n - 1))
  BY <1>1, <1>4, <1>5, FS_Injection
<1> QED
  BY <1>1, <1>3, <1>6 DEF Surjection

\* sort and dedup: the distinct steps, ascending.
LEMMA SortDedupSorts ==
  ASSUME NEW s \in Seq(Int), NEW t, t = SortDedup(s)
  PROVE  /\ {t[i] : i \in DOMAIN t} = {s[i] : i \in DOMAIN s}
         /\ \A i \in DOMAIN t : t[i] \in Int
         /\ \A i, j \in DOMAIN t : i < j => t[i] < t[j]
<1>1. PICK S : S = {s[i] : i \in DOMAIN s}
  OBVIOUS
<1>2. S \in SUBSET Int /\ IsFiniteSet(S)
  <2>1. IsFiniteSet(DOMAIN s)
    BY FS_Interval
  <2>2. s \in Surjection(DOMAIN s, S)
    BY <1>1 DEF Surjection
  <2>3. S \in SUBSET Int
    BY <1>1
  <2> QED BY <2>1, <2>2, <2>3, FS_Surjection
<1>3. PICK n \in Nat : n = Cardinality(S)
  BY <1>2, FS_CardinalityType
<1>4. PICK f : f = [x \in S |-> Cardinality({y \in S : y < x})]
  OBVIOUS
<1>5. /\ \A x, y \in S : x < y => f[x] < f[y]
      /\ \A r \in 0 .. (n - 1) : \E x \in S : f[x] = r
  <2>1. \A r \in 0 .. (Cardinality(S) - 1) : \E x \in S : f[x] = r
    BY <1>2, <1>4, Ranks
  <2>2. \A x, y \in S : x < y => f[x] < f[y]
    BY <1>2, <1>4, Ranks
  <2> QED BY <1>3, <2>1, <2>2
<1>6. t = [i \in 1 .. n |-> CHOOSE x \in S : Cardinality({y \in S : y < x}) = i - 1]
  BY <1>1, <1>3 DEF SortDedup
<1>7. ASSUME NEW i \in 1 .. n PROVE t[i] \in S /\ f[t[i]] = i - 1
  <2>1. PICK x \in S : f[x] = i - 1
    BY <1>5
  <2>2. Cardinality({y \in S : y < x}) = i - 1
    BY <1>4, <2>1
  <2>3. t[i] = CHOOSE z \in S : Cardinality({y \in S : y < z}) = i - 1
    BY <1>6
  <2>4. t[i] \in S /\ Cardinality({y \in S : y < t[i]}) = i - 1
    BY <2>2, <2>3
  <2> QED BY <1>4, <2>4
<1>8. DOMAIN t = 1 .. n
  BY <1>6
<1>9. \A i, j \in 1 .. n : i < j => t[i] < t[j]
  <2>1. ASSUME NEW i \in 1 .. n, NEW j \in 1 .. n, i < j PROVE t[i] < t[j]
    <3>1. t[i] \in S /\ t[j] \in S /\ t[i] \in Int /\ t[j] \in Int /\ f[t[i]] = i - 1 /\ f[t[j]] = j - 1
      BY <1>2, <1>7
    <3>2. ~(t[j] < t[i])
      BY <1>5, <2>1, <3>1
    <3>3. t[i] # t[j]
      BY <2>1, <3>1
    <3> QED BY <3>1, <3>2, <3>3
  <2> QED BY <2>1
<1>10. \A x \in S : \E i \in 1 .. n : t[i] = x
  <2>1. ASSUME NEW x \in S PROVE \E i \in 1 .. n : t[i] = x
    <3>1. f[x] \in 0 .. (n - 1)
      <4> DEFINE B == {y \in S : y < x}
      <4>1. B \in SUBSET S /\ x \notin B /\ f[x] = Cardinality(B)
        BY <1>2, <1>4
      <4> HIDE DEF B
      <4>2. IsFiniteSet(B) /\ Cardinality(B) <= n /\ (n = Cardinality(B) => S = B)
        BY <1>2, <1>3, <4>1, FS_Subset
      <4>3. Cardinality(B) \in Nat
        BY <4>2, FS_CardinalityType
      <4> QED BY <4>1, <4>2, <4>3
    <3>2. PICK i \in 1 .. n : i = f[x] + 1
      BY <3>1
    <3>3. t[i] \in S /\ f[t[i]] = f[x]
      BY <1>7, <3>1, <3>2
    <3>4. t[i] \in Int /\ x \in Int /\ f[x] \in Int
      <4>1. \A z \in S : z \in Int
        BY <1>2
      <4>2. f[x] \in Int
        BY <3>1
      <4> QED BY <3>3, <4>1, <4>2
    <3>5. ~(t[i] < x) /\ ~(x < t[i])
      BY <1>5, <3>3, <3>4
    <3> QED BY <3>4, <3>5
  <2> QED BY <2>1
<1>11. {t[i] : i \in DOMAIN t} = S
  BY <1>7, <1>8, <1>10
<1>12. \A i \in DOMAIN t : t[i] \in Int
  BY <1>2, <1>7, <1>8
<1> QED
  BY <1>1, <1>8, <1>9, <1>11, <1>12

\* The steps are ascending, and stay as they are.
StepsAscend ==
  /\ \A i \in DOMAIN steps : steps[i] \in Int
  /\ \A i, j \in DOMAIN steps : i < j => steps[i] < steps[j]

\* An initial segment of the numbers from 1 on is as long as it is large.
LEMMA SegmentLength ==
  ASSUME NEW n \in Nat, NEW J \in SUBSET (1 .. n), \A j \in J : 1 .. j \subseteq J
  PROVE  Cardinality(J) \in 0 .. n /\ J = 1 .. Cardinality(J)
<1>1. IsFiniteSet(1 .. n) /\ Cardinality(1 .. n) = n
  BY FS_Interval
<1>2. IsFiniteSet(J) /\ Cardinality(J) <= n
  BY <1>1, FS_Subset
<1>3. PICK k \in Nat : k = Cardinality(J)
  BY <1>2, FS_CardinalityType
<1>4. ASSUME NEW j \in J PROVE j <= k
  <2>1. j \in Nat /\ j > 0 /\ (1 .. j) \in SUBSET J
    OBVIOUS
  <2>2. Cardinality(1 .. j) = j
    BY <2>1, FS_Interval
  <2>3. Cardinality(1 .. j) <= Cardinality(J)
    BY <1>2, <2>1, FS_Subset
  <2> QED BY <1>3, <2>2, <2>3
<1>5. J \in SUBSET (1 .. k)
  BY <1>4
<1>6. IsFiniteSet(1 .. k) /\ Cardinality(1 .. k) = k
  BY FS_Interval
<1>7. J = 1 .. k
  BY <1>3, <1>5, <1>6, FS_Subset
<1> QED
  BY <1>2, <1>3, <1>7

\* The binary search finds the last step that is not above the value.
LEMMA FindBucketFinds ==
  ASSUME StepsAreSeq, StepsAscend, NEW v \in Int
  PROVE  /\ FindBucket(v) \in {0} \union DOMAIN steps
         /\ \A i \in DOMAIN steps : InBucket(v, i) <=> i = FindBucket(v)
<1>1. PICK n \in Nat : DOMAIN steps = 1 .. n
  BY DEF StepsAreSeq
<1>2. PICK k : k = FindBucket(v)
  OBVIOUS
<1>3. CASE \E i \in DOMAIN steps : steps[i] = v
  <2>1. k \in DOMAIN steps /\ steps[k] = v
    BY <1>2, <1>3 DEF FindBucket
  <2>2. InBucket(v, k)
    BY <1>1, <2>1 DEF InBucket, StepsAscend
  <2>3. \A i \in DOMAIN steps : InBucket(v, i) => i = k
    BY <1>1, <2>1, <2>2 DEF InBucket, StepsAscend
  <2> QED BY <1>2, <2>1, <2>2, <2>3
<1>4. CASE ~\E i \in DOMAIN steps : steps[i] = v
  <2> DEFINE J == {j \in DOMAIN steps : steps[j] < v}
  <2>1. k = Cardinality(J)
    BY <1>2, <1>4 DEF FindBucket
  <2>2. J \in SUBSET (1 .. n)
    BY <1>1
  <2>3. \A j \in J : 1 .. j \subseteq J
    BY <1>1 DEF StepsAscend
  <2>4. \A i \in DOMAIN steps : steps[i] <= v <=> i \in J
    BY <1>4 DEF StepsAscend
  <2> HIDE DEF J
  <2>5. k \in 0 .. n /\ J = 1 .. k
    BY <2>1, <2>2, <2>3, SegmentLength
  <2>6. k \in {0} \union DOMAIN steps
    BY <1>1, <2>5
  <2>7. \A i \in DOMAIN steps : steps[i] <= v <=> i <= k
    BY <1>1, <2>4, <2>5
  <2>8. \A i \in DOMAIN steps : InBucket(v, i) <=> i = k
    BY <1>1, <2>5, <2>7 DEF InBucket
  <2> QED BY <1>2, <2>6, <2>8
<1> QED BY <1>3, <1>4

\* One more value counts in its own bucket and in no other.
LEMMA AddValueExact ==
  ASSUME IInv, StepsAscend, BucketsAreExact, NEW v \in Values, AddValue(v)
  PROVE  BucketsAreExact'
<1>1. PICK k : k = FindBucket(v)
  OBVIOUS
<1>2. v \in Int /\ k \in {0} \union DOMAIN steps /\ \A i \in DOMAIN steps : InBucket(v, i) <=> i = k
  <2>1. v \in Int
    BY MetersAssumption
  <2> QED BY <1>1, <2>1, FindBucketFinds DEF IInv
<1>3. PICK n \in Nat : n = Len(added) /\ DOMAIN added = 1 .. n /\ added \in Seq(Values)
  BY DEF IInv, TypeOK
<1>4. /\ added' = Append(added, v) /\ steps' = steps
      /\ buckets' = IF k = 0 THEN buckets ELSE [buckets EXCEPT ![k] = @ + 1]
      /\ buckets \in [DOMAIN steps -> Nat]
  BY <1>1 DEF AddValue, IInv, TypeOK
<1>5. /\ DOMAIN added' = 1 .. (n + 1) /\ added'[n + 1] = v
      /\ \A m \in 1 .. n : added'[m] = added[m]
  BY <1>3, <1>4
<1>6. ASSUME NEW i \in DOMAIN steps
      PROVE  buckets'[i] = Cardinality({m \in DOMAIN added' : InBucket(added'[m], i)})
  <2> DEFINE A == {m \in DOMAIN added : InBucket(added[m], i)}
             B == {m \in DOMAIN added' : InBucket(added'[m], i)}
  <2>1. buckets[i] = Cardinality(A)
    BY DEF BucketsAreExact
  <2>2. B = IF i = k THEN A \union {n + 1} ELSE A
    BY <1>2, <1>3, <1>5
  <2>3. IsFiniteSet(A) /\ n + 1 \notin A
    <3>1. A \in SUBSET (1 .. n) /\ IsFiniteSet(1 .. n)
      BY <1>3, FS_Interval
    <3>2. IsFiniteSet(A)
      BY <3>1, FS_Subset
    <3> QED BY <3>1, <3>2
  <2> HIDE DEF A, B
  <2>4. Cardinality(A \union {n + 1}) = Cardinality(A) + 1
    BY <2>3, FS_AddElement
  <2>5. k = 0 => i # k
    BY DEF IInv, StepsAreSeq
  <2>6. buckets'[i] = IF i = k THEN buckets[i] + 1 ELSE buckets[i]
    BY <1>2, <1>4, <2>5
  <2>7. buckets'[i] = Cardinality(B)
    BY <2>1, <2>2, <2>4, <2>6
  <2> QED BY <2>7 DEF B
<1> QED
  BY <1>4, <1>6 DEF BucketsAreExact, InBucket

\* However the steps were given, a bucket has counted exactly the values from its
\* step up to the next, whatever was reported meanwhile.
THEOREM BucketsCorrect == Spec => []BucketsAreExact
<1> DEFINE BInv == StepsAscend /\ BucketsAreExact
<1>1. Init => BInv
  <2> SUFFICES ASSUME Init PROVE BInv
    OBVIOUS
  <2>1. PICK s \in Steps : steps = SortDedup(s)
    BY DEF Init
  <2>2. s \in Seq(Int)
    BY MetersAssumption
  <2>3. StepsAscend
    BY <2>1, <2>2, SortDedupSorts DEF StepsAscend
  <2>4. ASSUME NEW i \in DOMAIN steps
        PROVE  buckets[i] = Cardinality({n \in DOMAIN added : InBucket(added[n], i)})
    <3>1. {n \in DOMAIN added : InBucket(added[n], i)} = {}
      BY DEF Init
    <3> QED BY <3>1, FS_EmptySet DEF Init
  <2> QED BY <2>3, <2>4 DEF BucketsAreExact
<1>2. IInv /\ BInv /\ [Next]_vars => BInv'
  <2> SUFFICES ASSUME IInv, BInv, [Next]_vars PROVE BInv'
    OBVIOUS
  <2>1. CASE UNCHANGED <<steps, buckets, added>>
    BY <2>1 DEF StepsAscend, BucketsAreExact, InBucket
  <2>2. ASSUME NEW v \in Values, AddValue(v) PROVE BInv'
    <3>1. StepsAscend'
      BY <2>2 DEF AddValue, StepsAscend
    <3> QED BY <2>2, <3>1, AddValueExact
  <2> QED
    BY <2>1, <2>2 DEF Next, Round, Increment, Register, SetReportInterval, Boot, Shutdown,
       DropBooting, Tick, Stop, ReportIncrement, ReadRate, ReportRate, ReportGauge, GetterPanics,
       LoadBucket, ReportHistogram, EndRound, meterVars, vars
<1> QED
  BY <1>1, <1>2, Inductive, PTL DEF Spec

==============================================================================
