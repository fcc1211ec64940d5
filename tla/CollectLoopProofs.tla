--------------------------- MODULE CollectLoopProofs ---------------------------
(***************************************************************************)
(* Lemmas about the sequences the reporters are made of, and the invariant *)
(* of the front end that the gRPC and the Kafka reporter share.            *)
(***************************************************************************)
EXTENDS CollectLoop, SequenceTheorems, TLAPS

(* Sequences                                                               *)

\* What a sequence contains, after each of the operations on channels.
LEMMA ContainsEmpty ==
  ASSUME NEW e
  PROVE  ~Contains(<<>>, e)
  BY DEF Contains

\* A sent item is contained from then on.
LEMMA ContainsAppend ==
  ASSUME NEW S, NEW s \in Seq(S), NEW x \in S, NEW e
  PROVE  Contains(Append(s, x), e) <=> Contains(s, e) \/ e = x
  BY DEF Contains

\* Receiving splits what is contained.
LEMMA ContainsHeadTail ==
  ASSUME NEW S, NEW s \in Seq(S), s # <<>>, NEW e
  PROVE  /\ Head(s) \in S /\ Tail(s) \in Seq(S)
         /\ Contains(s, e) <=> e = Head(s) \/ Contains(Tail(s), e)
  BY DEF Contains

\* A concatenation contains what its parts contain.
LEMMA ContainsConcat ==
  ASSUME NEW S, NEW s \in Seq(S), NEW t \in Seq(S), NEW e
  PROVE  Contains(s \o t, e) <=> Contains(s, e) \/ Contains(t, e)
<1>1. ASSUME Contains(s, e) PROVE Contains(s \o t, e)
  <2>1. PICK i \in 1..Len(s) : s[i] = e
    BY <1>1 DEF Contains
  <2>2. (s \o t)[i] = e /\ i \in 1..Len(s \o t)
    BY <2>1
  <2> QED
    BY <2>2 DEF Contains
<1>2. ASSUME Contains(t, e) PROVE Contains(s \o t, e)
  <2>1. PICK i \in 1..Len(t) : t[i] = e
    BY <1>2 DEF Contains
  <2>2. (s \o t)[Len(s) + i] = e /\ Len(s) + i \in 1..Len(s \o t)
    BY <2>1
  <2> QED
    BY <2>2 DEF Contains
<1>3. ASSUME Contains(s \o t, e) PROVE Contains(s, e) \/ Contains(t, e)
  <2>1. PICK i \in 1..Len(s \o t) : (s \o t)[i] = e
    BY <1>3 DEF Contains
  <2>2. CASE i <= Len(s)
    BY <2>1, <2>2 DEF Contains
  <2>3. CASE i > Len(s)
    <3>1. i - Len(s) \in 1..Len(t) /\ t[i - Len(s)] = e
      BY <2>1, <2>3
    <3> QED
      BY <3>1 DEF Contains
  <2> QED
    BY <2>2, <2>3
<1> QED
  BY <1>1, <1>2, <1>3

\* What is contained has the type of the elements.
LEMMA ContainsElement ==
  ASSUME NEW S, NEW s \in Seq(S), NEW e, Contains(s, e)
  PROVE  e \in S
  BY DEF Contains

\* No item twice, after each of the operations on channels.
LEMMA InjectiveAppend ==
  ASSUME NEW S, NEW s \in Seq(S), NEW x \in S, IsInjective(s), ~Contains(s, x)
  PROVE  IsInjective(Append(s, x))
  BY DEF Contains, IsInjective

\* A received item is not left behind.
LEMMA InjectiveTail ==
  ASSUME NEW S, NEW s \in Seq(S), s # <<>>, IsInjective(s)
  PROVE  IsInjective(Tail(s)) /\ ~Contains(Tail(s), Head(s))
  BY DEF Contains, IsInjective

\* Parts that share nothing make a whole without repetitions.
LEMMA InjectiveConcat ==
  ASSUME NEW S, NEW s \in Seq(S), NEW t \in Seq(S), IsInjective(s), IsInjective(t),
         \A e \in S : ~(Contains(s, e) /\ Contains(t, e))
  PROVE  IsInjective(s \o t)
<1>1. SUFFICES ASSUME NEW a \in 1..Len(s \o t), NEW b \in 1..Len(s \o t),
                      a < b, (s \o t)[a] = (s \o t)[b]
               PROVE  FALSE
  BY DEF IsInjective
<1>2. CASE b <= Len(s)
  <2>1. a \in DOMAIN s /\ b \in DOMAIN s /\ s[a] = s[b]
    BY <1>1, <1>2
  <2> QED
    BY <2>1, <1>1 DEF IsInjective
<1>3. CASE a > Len(s)
  <2>1. /\ a - Len(s) \in DOMAIN t /\ b - Len(s) \in DOMAIN t
        /\ t[a - Len(s)] = t[b - Len(s)]
    BY <1>1, <1>3
  <2> QED
    BY <2>1, <1>1 DEF IsInjective
<1>4. CASE a <= Len(s) /\ b > Len(s)
  <2>1. /\ a \in 1..Len(s) /\ b - Len(s) \in 1..Len(t)
        /\ s[a] = t[b - Len(s)] /\ s[a] \in S
    BY <1>1, <1>4
  <2> QED
    BY <2>1 DEF Contains
<1> QED
  BY <1>2, <1>3, <1>4

\* The order of a sequence, when both sides grow by the same item and when a
\* stretch is taken out of the middle.
LEMMA BeforeAppend ==
  ASSUME NEW S, NEW t \in Seq(S), NEW x \in S
  PROVE  /\ \A i, j : Before(t, i, j) => Before(Append(t, x), i, j)
         /\ \A i : Contains(t, i) => Before(Append(t, x), i, x)
<1> DEFINE u == Append(t, x)
<1>1. /\ DOMAIN t = 1..Len(t) /\ DOMAIN u = 1..Len(t) + 1 /\ Len(t) \in Nat
      /\ \A p \in 1..Len(t) : u[p] = t[p]
      /\ u[Len(t) + 1] = x
  OBVIOUS
<1> HIDE DEF u
<1>2. ASSUME NEW i, NEW j, Before(t, i, j) PROVE Before(u, i, j)
  <2>1. PICK p \in DOMAIN t, q \in DOMAIN t : p < q /\ t[p] = i /\ t[q] = j
    BY <1>2 DEF Before
  <2>2. p \in DOMAIN u /\ q \in DOMAIN u /\ u[p] = i /\ u[q] = j
    BY <2>1, <1>1
  <2> QED
    BY <2>1, <2>2 DEF Before
<1>3. ASSUME NEW i, Contains(t, i) PROVE Before(u, i, x)
  <2>1. PICK p \in 1..Len(t) : t[p] = i
    BY <1>3 DEF Contains
  <2>2. /\ p \in DOMAIN u /\ Len(t) + 1 \in DOMAIN u /\ p < Len(t) + 1
        /\ u[p] = i /\ u[Len(t) + 1] = x
    BY <2>1, <1>1
  <2> QED
    BY <2>2 DEF Before
<1> QED
  BY <1>2, <1>3 DEF u

\* A later item in t disturbs no order in s.
LEMMA OrderProduced ==
  ASSUME NEW S, NEW s \in Seq(S), NEW t \in Seq(S), NEW x \in S, KeepsOrder(s, t)
  PROVE  KeepsOrder(s, Append(t, x))
  BY BeforeAppend, ContainsAppend DEF KeepsOrder

\* An item sent last may be put last.
LEMMA OrderPush ==
  ASSUME NEW S, NEW s \in Seq(S), NEW t \in Seq(S), NEW x \in S, KeepsOrder(s, t)
  PROVE  KeepsOrder(Append(s, x), Append(t, x))
<1> DEFINE u == Append(t, x)
           r == Append(s, x)
<1>1. /\ DOMAIN s = 1..Len(s) /\ DOMAIN r = 1..Len(s) + 1 /\ Len(s) \in Nat
      /\ \A p \in 1..Len(s) : r[p] = s[p]
      /\ r[Len(s) + 1] = x
  OBVIOUS
<1>2. /\ \A i, j : Before(t, i, j) => Before(u, i, j)
      /\ \A i : Contains(t, i) => Before(u, i, x)
  BY BeforeAppend
<1>3. \A e : Contains(u, e) <=> Contains(t, e) \/ e = x
  BY ContainsAppend
<1> HIDE DEF u, r
<1>4. \A j \in DOMAIN r : Contains(u, r[j])
  BY <1>1, <1>3 DEF KeepsOrder
<1>5. ASSUME NEW j \in DOMAIN r, NEW k \in DOMAIN r, j < k
      PROVE  Before(u, r[j], r[k])
  <2>1. CASE k \in 1..Len(s)
    <3>1. j \in DOMAIN s /\ k \in DOMAIN s /\ r[j] = s[j] /\ r[k] = s[k]
      BY <1>1, <1>5, <2>1
    <3> QED
      BY <3>1, <1>2, <1>5 DEF KeepsOrder
  <2>2. CASE k = Len(s) + 1
    <3>1. j \in DOMAIN s /\ r[j] = s[j] /\ r[k] = x
      BY <1>1, <1>5, <2>2
    <3> QED
      BY <3>1, <1>2 DEF KeepsOrder
  <2> QED
    BY <2>1, <2>2, <1>1
<1> QED
  BY <1>4, <1>5 DEF KeepsOrder, u, r

\* A stretch may be dropped.
LEMMA OrderDrop ==
  ASSUME NEW S, NEW a \in Seq(S), NEW m \in Seq(S), NEW b \in Seq(S), NEW t \in Seq(S),
         KeepsOrder(a \o m \o b, t)
  PROVE  KeepsOrder(a \o b, t)
<1> DEFINE s == a \o m \o b
           r == a \o b
           At(j) == IF j <= Len(a) THEN j ELSE j + Len(m)
<1>1. /\ Len(a) \in Nat /\ Len(m) \in Nat /\ Len(b) \in Nat
      /\ DOMAIN r = 1..Len(a) + Len(b) /\ DOMAIN s = 1..Len(a) + Len(m) + Len(b)
  OBVIOUS
<1>2. ASSUME NEW j \in 1..Len(a) + Len(b) PROVE At(j) \in DOMAIN s /\ s[At(j)] = r[j]
  <2>1. CASE j <= Len(a)
    BY <2>1
  <2>2. CASE j > Len(a)
    <3>1. r[j] = b[j - Len(a)]
      BY <2>2
    <3>2. s[j + Len(m)] = b[j - Len(a)]
      BY <2>2
    <3> QED
      BY <3>1, <3>2, <2>2, <1>1
  <2> QED
    BY <2>1, <2>2, <1>1
<1>3. \A j, k \in 1..Len(a) + Len(b) : j < k => At(j) < At(k)
  BY <1>1
<1> HIDE DEF s, r, At
<1>4. KeepsOrder(s, t)
  BY DEF s
<1>5. ASSUME NEW j \in DOMAIN r PROVE Contains(t, r[j])
  <2>1. At(j) \in DOMAIN s /\ s[At(j)] = r[j]
    BY <1>1, <1>2
  <2> QED
    BY <2>1, <1>4 DEF KeepsOrder
<1>6. ASSUME NEW j \in DOMAIN r, NEW k \in DOMAIN r, j < k
      PROVE  Before(t, r[j], r[k])
  <2>1. At(j) \in DOMAIN s /\ s[At(j)] = r[j] /\ At(k) \in DOMAIN s /\ s[At(k)] = r[k]
    BY <1>1, <1>2
  <2>2. At(j) < At(k)
    BY <1>1, <1>3, <1>6
  <2>3. Before(t, s[At(j)], s[At(k)])
    BY <2>1, <2>2, <1>4 DEF KeepsOrder
  <2> QED
    BY <2>1, <2>3
<1> QED
  BY <1>5, <1>6 DEF KeepsOrder, r

\* An item that moves from one stage to the next stays where it is in the whole.
LEMMA MoveHead ==
  ASSUME NEW S, NEW p \in Seq(S), NEW c \in Seq(S), c # <<>>
  PROVE  Append(p, Head(c)) \o Tail(c) = p \o c
  OBVIOUS

\* The same for the second of five stages.
LEMMA OrderDropSecond ==
  ASSUME NEW S, NEW d \in Seq(S), NEW f \in Seq(S), NEW c \in Seq(S), NEW h \in Seq(S),
         NEW q \in Seq(S), NEW t \in Seq(S), KeepsOrder(d \o f \o c \o h \o q, t)
  PROVE  KeepsOrder(d \o <<>> \o c \o h \o q, t)
<1>1. d \o f \o c \o h \o q = d \o f \o (c \o h \o q)
  BY SMTT(30)
<1>2. d \o <<>> \o c \o h \o q = d \o (c \o h \o q)
  <2>1. d \o <<>> = d
    OBVIOUS
  <2>2. d \o c \o h \o q = d \o (c \o h \o q)
    BY SMTT(30)
  <2> QED
    BY <2>1, <2>2
<1>3. PICK r \in Seq(S) : r = c \o h \o q
  <2>1. c \o h \o q \in Seq(S)
    OBVIOUS
  <2> QED
    BY <2>1
<1>4. KeepsOrder(d \o f \o r, t)
  BY <1>1, <1>3
<1>5. KeepsOrder(d \o r, t)
  BY <1>4, OrderDrop
<1> QED
  BY <1>2, <1>3, <1>5

\* A prefix keeps the order.
LEMMA OrderFront ==
  ASSUME NEW S, NEW a \in Seq(S), NEW b \in Seq(S), NEW t \in Seq(S), KeepsOrder(a \o b, t)
  PROVE  KeepsOrder(a, t)
<1>1. \A j \in DOMAIN a : j \in DOMAIN (a \o b) /\ (a \o b)[j] = a[j]
  OBVIOUS
<1> QED
  BY <1>1 DEF KeepsOrder

\* An item may be put behind s when it comes after all of s in t.
LEMMA OrderAppend ==
  ASSUME NEW S, NEW s \in Seq(S), NEW t \in Seq(S), NEW x \in S
  PROVE  KeepsOrder(Append(s, x), t) <=>
           KeepsOrder(s, t) /\ Contains(t, x) /\ \A i : Contains(s, i) => Before(t, i, x)
<1> DEFINE r == Append(s, x)
<1>1. /\ DOMAIN s = 1..Len(s) /\ DOMAIN r = 1..Len(s) + 1 /\ Len(s) \in Nat
      /\ \A p \in 1..Len(s) : r[p] = s[p]
      /\ r[Len(s) + 1] = x
  OBVIOUS
<1> HIDE DEF r
<1>2. ASSUME KeepsOrder(r, t)
      PROVE  KeepsOrder(s, t) /\ Contains(t, x) /\ \A i : Contains(s, i) => Before(t, i, x)
  BY <1>1, <1>2 DEF KeepsOrder, Contains
<1>3. ASSUME KeepsOrder(s, t), Contains(t, x), \A i : Contains(s, i) => Before(t, i, x)
      PROVE  KeepsOrder(r, t)
  <2>1. \A p \in DOMAIN s : Contains(s, s[p])
    BY <1>1 DEF Contains
  <2> QED
    BY <1>1, <1>3, <2>1 DEF KeepsOrder
<1> QED
  BY <1>2, <1>3 DEF r

------------------------------------------------------------------------------
(* The invariant of the front end                                          *)

\* The fates of an item that has not been sent into the queue, and of one that
\* the task has dealt with: the extending modules move items among the latter.
NotSent == {"new", "checked", "skipped", "refused", "panicked"}
Beyond == {"channel", "flying", "delivered", "full", "failed"}

\* What produced, queue and serving hold is what the fates say.
ProducedInv ==
  /\ IsInjective(produced)
  /\ \A i \in Items : Contains(produced, i) <=> fate[i] \notin NotSent

QueueInv ==
  /\ IsInjective(queue)
  /\ \A i \in Items : Contains(queue, i) <=> fate[i] = "queued"

ServingInv ==
  /\ \A i \in Items : serving = i <=> fate[i] = "serving"
  /\ serving # None => phase \in {"work", "flush"}

\* is_closing is set in one step of the task, and what is in the queue when the
\* task has looked at it for the last time was sent after that step.
ClosingInv ==
  /\ is_closing <=> phase \notin {"unspawned", "work", "closing"}
  /\ ~reporters => \A i \in Items : fate[i] # "checked"
  /\ phase = "ending" => \A i \in Items : fate[i] = "queued" => i \in late
  /\ phase = "failing" => queue = <<>> /\ ~reporters
  /\ Finished => queue = <<>>

LoopInv ==
  LoopTypeOK /\ ProducedInv /\ QueueInv /\ ServingInv /\ ClosingInv /\ LostOnlyInRace

\* The invariant holds at the start.
LEMMA LoopInitInv ==
  ASSUME LoopInit
  PROVE  LoopInv
<1> USE DEF LoopInit
<1>1. LoopTypeOK
  <2>1. fate \in [Items -> Fates] /\ phase \in Phases
    BY DEF Fates, Phases
  <2>2. queue \in Seq(Items) /\ produced \in Seq(Items)
    BY EmptySeq
  <2> QED
    BY <2>1, <2>2 DEF LoopTypeOK
<1>2. ProducedInv /\ QueueInv
  BY ContainsEmpty DEF ProducedInv, QueueInv, IsInjective, NotSent
<1>3. ServingInv /\ ClosingInv /\ LostOnlyInRace
  BY ItemsAssumption DEF ServingInv, ClosingInv, LostOnlyInRace, Finished
<1> QED
  BY <1>1, <1>2, <1>3 DEF LoopInv

\* What the extending modules do to items that are past the loop does not touch
\* it; nor does a step that changes nothing.
LEMMA BeyondStep ==
  ASSUME LoopInv, UNCHANGED loopVars, fate' \in [Items -> Fates],
         \A i \in Items : fate'[i] = fate[i] \/ (fate[i] \in Beyond /\ fate'[i] \in Beyond)
  PROVE  LoopInv'
<1> USE DEF LoopInv, loopVars
<1>1. LoopTypeOK'
  BY DEF LoopTypeOK
<1>2. ProducedInv' /\ QueueInv'
  BY DEF ProducedInv, QueueInv, NotSent, Beyond
<1>3. ServingInv' /\ ClosingInv' /\ LostOnlyInRace'
  BY DEF ServingInv, ClosingInv, LostOnlyInRace, Finished, Beyond
<1> QED
  BY <1>1, <1>2, <1>3

\* The item at hand is passed on or dropped.
LEMMA DisposeStep ==
  ASSUME LoopInv, NEW f \in Beyond, Dispose(f)
  PROVE  /\ LoopInv'
         /\ serving \in Items /\ fate[serving] = "serving" /\ serving' = None
         /\ \A i \in Items : fate'[i] = IF i = serving THEN f ELSE fate[i]
<1> USE DEF LoopInv, Dispose
<1>1. /\ serving \in Items /\ fate[serving] = "serving" /\ serving' = None
      /\ \A i \in Items : fate'[i] = IF i = serving THEN f ELSE fate[i]
  BY DEF LoopTypeOK, ServingInv
<1>2. LoopTypeOK'
  BY DEF LoopTypeOK, Beyond, Fates
<1>3. ProducedInv' /\ QueueInv'
  BY <1>1 DEF ProducedInv, QueueInv, NotSent, Beyond
<1>4. ServingInv' /\ ClosingInv' /\ LostOnlyInRace'
  BY <1>1, ItemsAssumption DEF ServingInv, ClosingInv, LostOnlyInRace, Finished, Beyond
<1> QED
  BY <1>1, <1>2, <1>3, <1>4

\* report(), whichever way it goes.
LEMMA CheckStep ==
  ASSUME LoopInv, NEW i \in Items, Check(i) \/ ProducePanics(i)
  PROVE  LoopInv'
<1> USE DEF LoopInv, Check, ProducePanics, loopVars
<1>1. LoopTypeOK'
  BY DEF LoopTypeOK, Fates
<1>2. /\ fate[i] \in {"new", "checked"} /\ fate'[i] \in {"checked", "skipped", "panicked"}
      /\ \A j \in Items : j # i => fate'[j] = fate[j]
      /\ fate'[i] = "checked" => reporters
  BY DEF LoopTypeOK
<1>3. ProducedInv' /\ QueueInv'
  BY <1>2 DEF ProducedInv, QueueInv, NotSent
<1>4. ServingInv' /\ ClosingInv' /\ LostOnlyInRace'
  BY <1>2 DEF ServingInv, ClosingInv, LostOnlyInRace, Finished
<1> QED
  BY <1>1, <1>3, <1>4

\* The send of report(), after its check.
LEMMA ProduceStep ==
  ASSUME LoopInv, NEW i \in Items, Produce(i)
  PROVE  LoopInv'
<1> USE DEF LoopInv
<1>1. fate[i] = "checked" /\ reporters
  BY DEF Produce, LoopTypeOK, ClosingInv
<1>2. CASE Finished /\ fate' = [fate EXCEPT ![i] = "refused"] /\ UNCHANGED loopVars
  <2>1. fate'[i] = "refused" /\ \A j \in Items : j # i => fate'[j] = fate[j]
    BY <1>2 DEF LoopTypeOK
  <2>2. LoopTypeOK'
    BY <1>2 DEF LoopTypeOK, Fates, loopVars
  <2>3. ProducedInv' /\ QueueInv'
    BY <1>1, <1>2, <2>1 DEF ProducedInv, QueueInv, NotSent, loopVars
  <2>4. ServingInv' /\ ClosingInv' /\ LostOnlyInRace'
    BY <1>1, <1>2, <2>1 DEF ServingInv, ClosingInv, LostOnlyInRace, Finished, loopVars
  <2> QED
    BY <2>2, <2>3, <2>4
<1>3. CASE /\ ~Finished /\ fate' = [fate EXCEPT ![i] = "queued"]
           /\ queue' = Append(queue, i) /\ produced' = Append(produced, i)
           /\ late' = IF is_closing THEN late \union {i} ELSE late
           /\ UNCHANGED <<reporters, is_closing, signal, phase, serving>>
  <2>1. fate'[i] = "queued" /\ \A j \in Items : j # i => fate'[j] = fate[j]
    BY <1>3 DEF LoopTypeOK
  <2>2. LoopTypeOK'
    BY <1>3 DEF LoopTypeOK, Fates
  <2>3. queue \in Seq(Items) /\ produced \in Seq(Items)
    BY DEF LoopTypeOK
  <2>4. ~Contains(queue, i) /\ ~Contains(produced, i)
    BY <1>1 DEF QueueInv, ProducedInv, NotSent
  <2>5. ProducedInv'
    <3>1. IsInjective(produced')
      BY <1>3, <2>3, <2>4, InjectiveAppend DEF ProducedInv
    <3>2. \A j \in Items : Contains(produced', j) <=> Contains(produced, j) \/ j = i
      BY <1>3, <2>3, ContainsAppend
    <3> QED
      BY <3>1, <3>2, <2>1 DEF ProducedInv, NotSent
  <2>6. QueueInv'
    <3>1. IsInjective(queue')
      BY <1>3, <2>3, <2>4, InjectiveAppend DEF QueueInv
    <3>2. \A j \in Items : Contains(queue', j) <=> Contains(queue, j) \/ j = i
      BY <1>3, <2>3, ContainsAppend
    <3> QED
      BY <3>1, <3>2, <2>1 DEF QueueInv
  <2>7. ServingInv' /\ LostOnlyInRace'
    BY <1>1, <1>3, <2>1 DEF ServingInv, LostOnlyInRace
  <2>8. ClosingInv'
    BY <1>1, <1>3, <2>1 DEF ClosingInv, Finished, LoopTypeOK
  <2> QED
    BY <2>2, <2>5, <2>6, <2>7, <2>8
<1> QED
  BY <1>2, <1>3 DEF Produce, loopVars

\* The other steps of the reporters and of the task.
LEMMA ConsumeStep ==
  ASSUME LoopInv, Consume
  PROVE  LoopInv'
<1> USE DEF LoopInv
<1>1. PICK i : i = Head(queue)
  OBVIOUS
<1>2. /\ serving = None /\ serving' = i /\ queue' = Tail(queue) /\ queue # <<>>
      /\ phase \in {"work", "flush"}
      /\ fate' = [fate EXCEPT ![i] = "serving"]
      /\ UNCHANGED <<reporters, is_closing, signal, phase, produced, late>>
  BY <1>1 DEF Consume
<1>3. queue \in Seq(Items) /\ i \in Items /\ Tail(queue) \in Seq(Items)
  BY <1>1, <1>2, ContainsHeadTail DEF LoopTypeOK
<1>4. \A e : Contains(queue, e) <=> e = i \/ Contains(queue', e)
  BY <1>1, <1>2, <1>3, ContainsHeadTail
<1>5. IsInjective(queue') /\ ~Contains(queue', i)
  BY <1>1, <1>2, <1>3, InjectiveTail DEF QueueInv
<1>6. /\ fate[i] = "queued" /\ fate'[i] = "serving"
      /\ \A j \in Items : j # i => fate'[j] = fate[j]
  BY <1>2, <1>3, <1>4 DEF QueueInv, LoopTypeOK
<1>7. LoopTypeOK'
  BY <1>2, <1>3 DEF LoopTypeOK, Fates
<1>8. ProducedInv' /\ QueueInv'
  BY <1>2, <1>4, <1>5, <1>6 DEF ProducedInv, QueueInv, NotSent
<1>9. ServingInv' /\ ClosingInv' /\ LostOnlyInRace'
  BY <1>2, <1>3, <1>6, ItemsAssumption
     DEF ServingInv, ClosingInv, LostOnlyInRace, Finished
<1> QED
  BY <1>7, <1>8, <1>9

\* The collect task ends, and with it the channel.
LEMMA FinishStep ==
  ASSUME LoopInv, Finish
  PROVE  LoopInv'
<1> USE DEF LoopInv, Finish
<1>1. \A i \in Items : fate'[i] = IF fate[i] = "queued" THEN "lost" ELSE fate[i]
  OBVIOUS
<1>2. LoopTypeOK'
  BY DEF LoopTypeOK, Fates, Phases
<1>3. ProducedInv'
  BY <1>1 DEF ProducedInv, NotSent
<1>4. QueueInv'
  BY <1>1, ContainsEmpty DEF QueueInv, IsInjective
<1>5. ServingInv' /\ ClosingInv'
  BY <1>1 DEF ServingInv, ClosingInv, Finished
<1>6. phase = "failing" => \A i \in Items : fate[i] # "queued"
  BY ContainsEmpty DEF ClosingInv, QueueInv
<1>7. LostOnlyInRace'
  BY <1>1, <1>6 DEF LostOnlyInRace, ClosingInv
<1> QED
  BY <1>2, <1>3, <1>4, <1>5, <1>7

\* The steps of the collect task that move no item.
LEMMA TaskSteps ==
  ASSUME LoopInv,
         DropReporters \/ Signal \/ Spawn \/ LeaveLoop \/ StoreClosing \/ FlushEnd
  PROVE  LoopInv'
<1> USE DEF LoopInv, DropReporters, Signal, Spawn, LeaveLoop, StoreClosing, FlushEnd, TaskStep
<1>1. LoopTypeOK'
  BY DEF LoopTypeOK, Phases
<1>2. ProducedInv' /\ QueueInv'
  BY DEF ProducedInv, QueueInv
<1>3. ServingInv'
  BY DEF ServingInv
<1>4. queue = <<>> => \A i \in Items : fate[i] # "queued"
  BY ContainsEmpty DEF QueueInv
<1>5. ClosingInv'
  BY <1>4 DEF ClosingInv, Finished
<1>6. LostOnlyInRace'
  BY DEF LostOnlyInRace
<1> QED
  BY <1>1, <1>2, <1>3, <1>5, <1>6

\* Every step of the front end preserves its invariant.
LEMMA LoopStep ==
  ASSUME LoopInv, LoopNext
  PROVE  LoopInv'
  BY CheckStep, ProduceStep, ConsumeStep, FinishStep, TaskSteps DEF LoopNext

(* The order of the items                                                  *)

\* The item at hand, as a sequence.
LEMMA HandType ==
  ASSUME LoopTypeOK
  PROVE  Hand \in Seq(Items) /\ queue \in Seq(Items) /\ produced \in Seq(Items)
  BY DEF LoopTypeOK, Hand

\* Whatever the task has put in front of the item at hand, a step of the loop
\* keeps the order of all of it.
LEMMA LoopOrder ==
  ASSUME LoopInv, LoopNext, NEW a \in Seq(Items), KeepsOrder(a \o Hand \o queue, produced)
  PROVE  KeepsOrder(a \o Hand' \o queue', produced')
<1>1. Hand \in Seq(Items) /\ queue \in Seq(Items) /\ produced \in Seq(Items)
  BY HandType DEF LoopInv
<1>2. a \o Hand \in Seq(Items)
  BY <1>1
<1>3. CASE UNCHANGED <<serving, queue, produced>>
  BY <1>3 DEF Hand
<1>4. CASE \E i \in Items : /\ queue' = Append(queue, i) /\ produced' = Append(produced, i)
                            /\ UNCHANGED serving
  <2>1. PICK i \in Items : /\ queue' = Append(queue, i) /\ produced' = Append(produced, i)
                           /\ UNCHANGED serving
    BY <1>4
  <2>2. Hand' = Hand
    BY <2>1 DEF Hand
  <2>3. PICK p \in Seq(Items) : p = a \o Hand
    BY <1>2
  <2>4. p \o Append(queue, i) = Append(p \o queue, i)
    BY <1>1
  <2>5. p \o queue \in Seq(Items) /\ KeepsOrder(p \o queue, produced)
    BY <1>1, <2>3
  <2>6. KeepsOrder(Append(p \o queue, i), Append(produced, i))
    BY <1>1, <2>5, OrderPush
  <2> QED
    BY <2>1, <2>2, <2>3, <2>4, <2>6
<1>5. CASE Consume
  <2>1. queue # <<>> /\ Head(queue) \in Items /\ Tail(queue) \in Seq(Items)
    BY <1>1, <1>5, ContainsHeadTail DEF Consume
  <2>2. Hand = <<>> /\ Hand' = <<Head(queue)>> /\ queue' = Tail(queue) /\ produced' = produced
    BY <1>5, <2>1, ItemsAssumption DEF Consume, Hand
  <2>3. (a \o <<Head(queue)>>) \o Tail(queue) = a \o queue
    BY <1>1, <2>1
  <2>4. a \o <<>> = a
    OBVIOUS
  <2> QED
    BY <2>2, <2>3, <2>4
<1>6. CASE Finish
  <2>1. Hand' = Hand /\ queue' = <<>> /\ produced' = produced
    BY <1>6 DEF Finish, Hand
  <2>2. PICK p \in Seq(Items) : p = a \o Hand
    BY <1>2
  <2>3. (p \o queue) \o <<>> = p \o queue /\ p \o <<>> = p /\ <<>> \in Seq(Items)
    BY <1>1
  <2>4. KeepsOrder(p \o queue \o <<>>, produced)
    BY <2>2, <2>3
  <2>5. KeepsOrder(p \o <<>>, produced)
    BY <1>1, <2>3, <2>4, OrderDrop
  <2> QED
    BY <2>1, <2>2, <2>5
<1> QED
  BY <1>3, <1>4, <1>5, <1>6
     DEF LoopNext, Check, Produce, ProducePanics, DropReporters, Signal, Spawn, LeaveLoop,
         StoreClosing, FlushEnd, TaskStep, loopVars

\* The item at hand is passed on, to the end of what lies in front of it, or dropped.
LEMMA DisposeOrder ==
  ASSUME LoopInv, NEW f \in Beyond, Dispose(f), NEW a \in Seq(Items),
         KeepsOrder(a \o Hand \o queue, produced)
  PROVE  /\ KeepsOrder(a \o Hand' \o queue', produced')
         /\ KeepsOrder(Append(a, serving) \o Hand' \o queue', produced')
<1>1. Hand \in Seq(Items) /\ queue \in Seq(Items) /\ produced \in Seq(Items)
  BY HandType DEF LoopInv
<1>2. /\ serving \in Items /\ Hand = <<serving>> /\ Hand' = <<>>
      /\ queue' = queue /\ produced' = produced
  BY DisposeStep DEF Dispose, Hand
<1>3. a \o <<>> = a /\ Append(a, serving) \o <<>> = Append(a, serving)
  BY <1>2
<1>4. Append(a, serving) = a \o <<serving>>
  BY <1>2
<1>5. KeepsOrder(a \o queue, produced)
  BY <1>1, OrderDrop
<1> QED
  BY <1>2, <1>3, <1>4, <1>5

\* What the loop leaves alone: the items that are past it, and their order.
LEMMA LoopBeyond ==
  ASSUME LoopInv, LoopNext
  PROVE  /\ \A i \in Items : fate[i] \in Beyond \/ fate'[i] \in Beyond => fate'[i] = fate[i]
         /\ \A a \in Seq(Items) : KeepsOrder(a, produced) => KeepsOrder(a, produced')
<1>1. fate \in [Items -> Fates] /\ queue \in Seq(Items) /\ produced \in Seq(Items)
  BY DEF LoopInv, LoopTypeOK
<1>2. ASSUME NEW i \in Items, Check(i) \/ Produce(i) \/ ProducePanics(i)
      PROVE  /\ \A j \in Items : j # i => fate'[j] = fate[j]
             /\ fate[i] \notin Beyond /\ fate'[i] \notin Beyond
             /\ produced' \in {produced, Append(produced, i)}
  BY <1>1, <1>2 DEF Check, Produce, ProducePanics, loopVars, Beyond
<1>3. ASSUME Consume
      PROVE  /\ \A j \in Items : j # Head(queue) => fate'[j] = fate[j]
             /\ fate[Head(queue)] \notin Beyond /\ fate'[Head(queue)] \notin Beyond
             /\ produced' = produced
  <2>1. queue # <<>> /\ Head(queue) \in Items /\ fate[Head(queue)] = "queued"
    BY <1>1, <1>3, ContainsHeadTail DEF Consume, LoopInv, QueueInv
  <2>2. fate' = [fate EXCEPT ![Head(queue)] = "serving"] /\ produced' = produced
    BY <1>3 DEF Consume
  <2> QED
    BY <1>1, <2>1, <2>2 DEF Beyond
<1>4. ASSUME Finish
      PROVE  /\ \A i \in Items : fate'[i] = IF fate[i] = "queued" THEN "lost" ELSE fate[i]
             /\ produced' = produced
  BY <1>4 DEF Finish
<1>5. ASSUME DropReporters \/ Signal \/ Spawn \/ LeaveLoop \/ StoreClosing \/ FlushEnd
      PROVE  fate' = fate /\ produced' = produced
  BY <1>5 DEF DropReporters, Signal, Spawn, LeaveLoop, StoreClosing, FlushEnd, TaskStep
<1>6. \A i \in Items : fate[i] \in Beyond \/ fate'[i] \in Beyond => fate'[i] = fate[i]
  <2>1. CASE \E i \in Items : Check(i) \/ Produce(i) \/ ProducePanics(i)
    BY <2>1, <1>2
  <2>2. CASE Consume
    BY <2>2, <1>3
  <2>3. CASE Finish
    BY <2>3, <1>4 DEF Beyond
  <2> QED
    BY <2>1, <2>2, <2>3, <1>5 DEF LoopNext
<1>7. produced' = produced \/ \E i \in Items : produced' = Append(produced, i)
  BY <1>2, <1>3, <1>4, <1>5 DEF LoopNext
<1>8. \A a \in Seq(Items) : KeepsOrder(a, produced) => KeepsOrder(a, produced')
  BY <1>1, <1>7, OrderProduced
<1> QED
  BY <1>6, <1>8

================================================================================
