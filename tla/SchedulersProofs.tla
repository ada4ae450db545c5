-------------------------- MODULE SchedulersProofs --------------------------
(***************************************************************************)
(* Each scheduler is an event list, for any delays and any number of       *)
(* events and of changes of the scheduler.                                 *)
(*                                                                         *)
(* A resize of the calendar computes days of another length and other      *)
(* buckets, and keeps the order because it starts from the same m_lastPrio *)
(* (DoResizeIs).  The inductive invariant says that the structure in use   *)
(* is in order and holds events inserted before, none of them due before   *)
(* the last one returned.                                                  *)
(***************************************************************************)
EXTENDS EventListProofs

-----------------------------------------------------------------------------
(* CalendarScheduler: the resizes. *)

(* A calendar without events whose scan starts at p. *)
IsNew(r, n, w, p, c) ==
    /\ InBuckets(r, c) /\ ScanAt(c) /\ CalendarEvents(c) = {}
    /\ c.nBuckets = n /\ c.width = w /\ c.lastPrio = p

(* Init makes such a calendar. *)
LEMMA NewCalendarIs ==
    ASSUME NEW r, NEW n \in Positive, NEW w \in Positive, NEW p \in Nat
    PROVE  IsNew(r, n, w, p, NewCalendar(n, w, p))
<1> DEFINE B == [i \in 0..n-1 |-> <<>>]
           b == (p \div w) % n
           top == (p \div w + 1) * w
           c == [buckets |-> B, nBuckets |-> n, width |-> w, lastPrio |-> p,
                 lastBucket |-> b, bucketTop |-> top]
<1>1. NewCalendar(n, w, p) = c
  BY Zenon DEF NewCalendar
<1>2. p \div w \in Nat /\ b \in Nat /\ w \in Nat
  <2>1. p \div w \in Nat
    BY DivMod DEF Positive
  <2> QED
    BY <2>1, DivMod DEF Positive
<1>3. top \in Nat
  BY <1>2
<1>4. B \in [0..n-1 -> Seq(Ev)] /\ \A i \in 0..n-1 : B[i] = <<>>
  BY EmptyIs
<1>5. B \in BucketLists
  <2> HIDE DEF B
  <2> QED
    BY <1>4 DEF BucketLists
<1> HIDE DEF B, b, top
<1>6. /\ c.nBuckets = n /\ c.width = w /\ c.lastPrio = p /\ c.lastBucket = b /\ c.bucketTop = top
      /\ c.buckets = B /\ c \in Calendars
  BY <1>2, <1>3, <1>4, <1>5, Zenon DEF Calendars
<1> HIDE DEF c
<1>7. \A i \in 0..n-1 : c.buckets[i] = <<>> /\ Ordered(r, c.buckets[i]) /\ Range(c.buckets[i]) = {}
  BY <1>4, <1>6, EmptyIs, Zenon
<1>8. InBuckets(r, c)
  BY <1>6, <1>7 DEF InBuckets
<1>9. CalendarEvents(c) = {}
  BY <1>6, <1>7 DEF CalendarEvents
<1>10. ScanAt(c)
  BY <1>6 DEF ScanAt, Hash, b, top
<1> QED
  BY <1>1, <1>6, <1>8, <1>9, <1>10, Zenon DEF IsNew

(* Inserting distinct events adds them all. *)
LEMMA InsertAllIs ==
    ASSUME NEW c, InBuckets(m_reverse, c), NEW evs \in Seq(Ev), NoDup(evs),
           \A e \in Range(evs) : e \notin CalendarEvents(c)
    PROVE  /\ InBuckets(m_reverse, InsertAll(c, evs))
           /\ CalendarEvents(InsertAll(c, evs)) = CalendarEvents(c) \union Range(evs)
           /\ SameDays(c, InsertAll(c, evs)) /\ SameScan(c, InsertAll(c, evs))
<1> DEFINE n == Len(evs)
           Kept(d, i) == /\ InBuckets(m_reverse, d) /\ SameDays(c, d) /\ SameScan(c, d)
                         /\ CalendarEvents(d) = CalendarEvents(c) \union Firsts(evs, i)
           Y == [i \in 0..n |-> {d \in Calendars : Kept(d, i)}]
           step == [i \in 1..n |-> [x \in Y[i-1] |-> DoInsert(x, evs[i])]]
           g == CHOOSE g : g = [i \in 0..n |-> IF i = 0 THEN c ELSE DoInsert(g[i-1], evs[i])]
<1>1. n \in Nat /\ 0 \in 0..n /\ \A i \in 1..n : i-1 \in 0..n /\ i \in 0..n /\ i # 0
  OBVIOUS
<1>2. c \in Y[0]
  <2>1. Kept(c, 0)
    BY FirstsStep DEF SameDays, SameScan
  <2> HIDE DEF Kept
  <2> QED
    BY <1>1, <2>1, Zenon DEF InBuckets
<1>3. ASSUME NEW i \in 1..n, NEW d \in Y[i-1] PROVE DoInsert(d, evs[i]) \in Y[i]
  <2>1. /\ evs[i] \in Ev /\ evs[i] \notin Firsts(evs, i-1)
        /\ Firsts(evs, i) = Firsts(evs, i-1) \union {evs[i]}
    BY FirstsStep, Zenon
  <2>2. Kept(d, i-1)
    <3> HIDE DEF Kept
    <3> QED
      BY <1>1
  <2>3. evs[i] \notin CalendarEvents(d)
    BY <2>1, <2>2, RangeIs, Zenon
  <2>4. /\ InBuckets(m_reverse, DoInsert(d, evs[i]))
        /\ CalendarEvents(DoInsert(d, evs[i])) = CalendarEvents(d) \union {evs[i]}
        /\ SameDays(d, DoInsert(d, evs[i])) /\ SameScan(d, DoInsert(d, evs[i]))
    BY <2>1, <2>2, <2>3, DoInsertIs, Zenon
  <2>5. Kept(DoInsert(d, evs[i]), i)
    BY <2>1, <2>2, <2>4, Zenon DEF SameDays, SameScan
  <2>6. DoInsert(d, evs[i]) \in Calendars
    BY <2>4, Zenon DEF InBuckets
  <2> HIDE DEF Kept
  <2> QED
    BY <1>1, <2>5, <2>6
<1>4. InsertAll(c, evs) = g[n]
  BY Zenon DEF InsertAll, Loop
<1>5. Y[n] = {d \in Calendars : Kept(d, n)}
  BY <1>1
<1>6. ASSUME NEW i \in 1..n, NEW x \in Y[i-1]
      PROVE  step[i][x] = DoInsert(x, evs[i]) /\ step[i][x] \in Y[i]
  BY <1>3, Zenon
<1> HIDE DEF Y, step, n, Kept
<1>7. \E f : IsRun(f, Y, c, step, n)
  BY <1>1, <1>2, <1>6, RunExists, Zenon
<1>8. PICK f : IsRun(f, Y, c, step, n)
  BY <1>7
<1>9. f = [i \in 0..n |-> IF i = 0 THEN c ELSE DoInsert(f[i-1], evs[i])]
  <2>1. \A i \in 0..n : i = 0 \/ (i \in 1..n /\ f[i-1] \in Y[i-1])
    BY <1>1, <1>8, RunStates, Zenon
  <2>2. \A i \in 0..n : i = 0 \/ step[i][f[i-1]] = DoInsert(f[i-1], evs[i])
    BY <2>1, <1>6, Zenon
  <2> QED
    BY <1>8, <2>2, Zenon DEF IsRun
<1>10. g = [i \in 0..n |-> IF i = 0 THEN c ELSE DoInsert(g[i-1], evs[i])]
  BY <1>9, Zenon
<1> HIDE DEF g
<1>11. \A i \in 0..n : g[i] \in Y[i]
  <2> DEFINE T == {i \in 0..n : g[i] \in Y[i]}
  <2>1. 0 \in T
    BY <1>1, <1>2, <1>10, Zenon
  <2>2. ASSUME NEW i \in 1..n, i-1 \in T PROVE i \in T
    <3>1. g[i-1] \in Y[i-1] /\ i \in 0..n /\ i # 0
      BY <2>2, <1>1
    <3>2. g[i] = DoInsert(g[i-1], evs[i])
      BY <3>1, <1>10, Zenon
    <3> QED
      BY <3>1, <3>2, <1>3, Zenon
  <2> HIDE DEF T
  <2>3. \A i \in 0..n : i \in T
    BY <1>1, <2>1, <2>2, UpTo
  <2> QED
    BY <2>3 DEF T
<1>12. Kept(InsertAll(c, evs), n)
  BY <1>1, <1>4, <1>5, <1>11, SMTT(60)
<1> QED
  BY <1>12, FirstsStep, Zenon DEF Kept, n

(* The samples are distinct events, and no longer in the calendar. *)
LEMMA SampledIs ==
    ASSUME NEW c, InOrder(m_reverse, c), IsFiniteSet(CalendarEvents(c)),
           NEW n \in Nat, n <= Cardinality(CalendarEvents(c))
    PROVE  /\ InBuckets(m_reverse, Sampled(c, n).cal) /\ SameDays(c, Sampled(c, n).cal)
           /\ Drained(CalendarEvents(c), CalendarEvents(Sampled(c, n).cal), Sampled(c, n).samples)
           /\ Len(Sampled(c, n).samples) = n
<1> DEFINE q == Cardinality(CalendarEvents(c))
           start == [cal |-> c, samples |-> <<>>]
           Kept(s, i) == /\ InOrder(m_reverse, s.cal) /\ SameDays(c, s.cal)
                         /\ IsFiniteSet(CalendarEvents(s.cal))
                         /\ Cardinality(CalendarEvents(s.cal)) = q - i
                         /\ Drained(CalendarEvents(c), CalendarEvents(s.cal), s.samples)
                         /\ Len(s.samples) = i
           Y == [i \in 0..n |-> {s \in [cal : Calendars, samples : Seq(Ev)] : Kept(s, i)}]
           step == [i \in 1..n |-> [x \in Y[i-1] |-> SampledOne(x)]]
           g == CHOOSE g : g = [i \in 0..n |-> IF i = 0 THEN start ELSE SampledOne(g[i-1])]
<1>1. q \in Nat /\ n <= q /\ c \in Calendars /\ CalendarEvents(c) \in SUBSET Ev
  BY FS_CardinalityType, EventsIs, Zenon DEF InOrder, InBuckets
<1>2. n \in Nat /\ 0 \in 0..n /\ \A i \in 1..n : i-1 \in 0..n /\ i \in 0..n /\ i # 0
  OBVIOUS
<1>3. start \in Y[0]
  <2>1. start \in [cal : Calendars, samples : Seq(Ev)] /\ start.cal = c /\ start.samples = <<>>
    BY <1>1, EmptyIs, Zenon
  <2> HIDE DEF start
  <2>2. Kept(start, 0)
    BY <1>1, <2>1, DrainStart, EmptyIs DEF SameDays
  <2> HIDE DEF Kept
  <2> QED
    BY <1>2, <2>1, <2>2, Zenon
<1>4. ASSUME NEW i \in 1..n, NEW s \in Y[i-1] PROVE SampledOne(s) \in Y[i]
  <2> DEFINE d == DoRemoveNext(s.cal)
             x == PeekNext(s.cal)
             out == Append(s.samples, x)
             t == SampledOne(s)
  <2>1. Kept(s, i-1) /\ s \in [cal : Calendars, samples : Seq(Ev)]
    <3> HIDE DEF Kept
    <3> QED
      BY <1>2
  <2>2. CalendarEvents(s.cal) # {}
    <3>1. Cardinality(CalendarEvents(s.cal)) = q - (i-1)
      BY <2>1, Zenon
    <3>2. q - (i-1) # 0
      <4> HIDE DEF q
      <4> QED
        BY <1>1
    <3> QED
      BY <3>1, <3>2, FS_EmptySet, Zenon
  <2>3. /\ InOrder(m_reverse, d) /\ CalendarEvents(d) = CalendarEvents(s.cal) \ {x}
        /\ SameDays(s.cal, d)
    BY <2>1, <2>2, DoRemoveNextIs, Zenon
  <2>4. x \in CalendarEvents(s.cal)
    BY <2>1, <2>2, PeekNextIs, Zenon DEF IsEarliest
  <2> HIDE DEF q
  <2>5. IsFiniteSet(CalendarEvents(d)) /\ Cardinality(CalendarEvents(d)) = q - i
    <3> DEFINE E == CalendarEvents(s.cal)
    <3>1. IsFiniteSet(E) /\ Cardinality(E) = q - (i-1)
      BY <2>1, Zenon
    <3> HIDE DEF E
    <3>2. IsFiniteSet(E \ {x}) /\ Cardinality(E \ {x}) = IF x \in E THEN Cardinality(E) - 1 ELSE Cardinality(E)
      BY <3>1, FS_RemoveElement, Zenon
    <3> QED
      BY <1>1, <2>3, <2>4, <3>1, <3>2, SMTT(60) DEF E
  <2>6. Drained(CalendarEvents(c), CalendarEvents(d), out)
    BY <1>1, <2>1, <2>3, <2>4, DrainStep, Zenon
  <2>7. Len(out) = i
    <3>1. s.samples \in Seq(Ev) /\ Len(s.samples) = i-1
      BY <2>1, Zenon
    <3> HIDE DEF x
    <3>2. Len(Append(s.samples, x)) = Len(s.samples) + 1
      BY <3>1
    <3> QED
      BY <3>1, <3>2
  <2>8. t.cal = d /\ t.samples = out /\ t \in [cal : Calendars, samples : Seq(Ev)]
    BY <2>3, <2>6, Zenon DEF SampledOne, InOrder, InBuckets, Drained
  <2> HIDE DEF d, x, out, t
  <2>9. Kept(t, i)
    BY <2>1, <2>3, <2>5, <2>6, <2>7, <2>8, Zenon DEF SameDays
  <2> HIDE DEF Kept
  <2> QED
    BY <1>2, <2>8, <2>9, Zenon DEF t
<1>5. Sampled(c, n) = g[n]
  BY Zenon DEF Sampled, Loop
<1>6. Y[n] = {s \in [cal : Calendars, samples : Seq(Ev)] : Kept(s, n)}
  BY <1>2
<1>7. ASSUME NEW i \in 1..n, NEW x \in Y[i-1]
      PROVE  step[i][x] = SampledOne(x) /\ step[i][x] \in Y[i]
  BY <1>4, Zenon
<1> HIDE DEF Y, step, start, Kept
<1>8. \E f : IsRun(f, Y, start, step, n)
  BY <1>2, <1>3, <1>7, RunExists, Zenon
<1>9. PICK f : IsRun(f, Y, start, step, n)
  BY <1>8
<1>10. f = [i \in 0..n |-> IF i = 0 THEN start ELSE SampledOne(f[i-1])]
  <2>1. \A i \in 0..n : i = 0 \/ (i \in 1..n /\ f[i-1] \in Y[i-1])
    BY <1>2, <1>9, RunStates, Zenon
  <2>2. \A i \in 0..n : i = 0 \/ step[i][f[i-1]] = SampledOne(f[i-1])
    BY <2>1, <1>7
  <2> QED
    BY <1>9, <2>2, Zenon DEF IsRun
<1>11. g = [i \in 0..n |-> IF i = 0 THEN start ELSE SampledOne(g[i-1])]
  BY <1>10, Zenon
<1> HIDE DEF g
<1>12. \A i \in 0..n : g[i] \in Y[i]
  <2> DEFINE T == {i \in 0..n : g[i] \in Y[i]}
  <2>1. 0 \in T
    BY <1>2, <1>3, <1>11
  <2>2. ASSUME NEW i \in 1..n, i-1 \in T PROVE i \in T
    <3>1. g[i-1] \in Y[i-1] /\ i \in 0..n /\ i # 0
      BY <2>2, <1>2
    <3>2. g[i] = SampledOne(g[i-1])
      BY <3>1, <1>11
    <3> QED
      BY <3>1, <3>2, <1>4
  <2> HIDE DEF T
  <2>3. \A i \in 0..n : i \in T
    BY <1>2, <2>1, <2>2, UpTo
  <2> QED
    BY <2>3, Zenon DEF T
<1>13. Kept(Sampled(c, n), n)
  BY <1>2, <1>5, <1>6, <1>12, SMTT(60)
<1> QED
  BY <1>13 DEF Kept, InOrder

(* The samples are back, and the scan is where it was. *)
LEMMA PutBackIs ==
    ASSUME NEW c, InOrder(m_reverse, c), NEW taken, InBuckets(m_reverse, taken.cal),
           SameDays(c, taken.cal),
           Drained(CalendarEvents(c), CalendarEvents(taken.cal), taken.samples)
    PROVE  /\ InOrder(m_reverse, PutBack(c, taken))
           /\ CalendarEvents(PutBack(c, taken)) = CalendarEvents(c)
           /\ SameDays(c, PutBack(c, taken)) /\ SameScan(c, PutBack(c, taken))
<1> DEFINE a == InsertAll(taken.cal, taken.samples)
           d == PutBack(c, taken)
<1>1. c \in Calendars /\ taken.samples \in Seq(Ev) /\ NoDup(taken.samples)
  BY Zenon DEF InOrder, InBuckets, Drained
<1>2. /\ InBuckets(m_reverse, a) /\ SameDays(taken.cal, a)
      /\ CalendarEvents(a) = CalendarEvents(taken.cal) \union Range(taken.samples)
  BY <1>1, InsertAllIs, Zenon DEF Drained
<1>3. CalendarEvents(a) = CalendarEvents(c)
  BY <1>2 DEF Drained
<1> HIDE DEF a
<1>4. d = [a EXCEPT !.lastBucket = c.lastBucket, !.bucketTop = c.bucketTop, !.lastPrio = c.lastPrio]
  BY DEF PutBack, a
<1> HIDE DEF d
<1>5. a \in Calendars
  BY <1>2, Zenon DEF InBuckets
<1>6. /\ d.buckets = a.buckets /\ d.nBuckets = a.nBuckets /\ d.width = a.width
      /\ d.lastBucket = c.lastBucket /\ d.bucketTop = c.bucketTop /\ d.lastPrio = c.lastPrio
      /\ d \in Calendars
  BY <1>1, <1>4, <1>5, Zenon DEF Calendars
<1>7. InBuckets(m_reverse, d)
  BY <1>2, <1>6, Zenon DEF InBuckets, Hash
<1>8. CalendarEvents(d) = CalendarEvents(c)
  BY <1>3, <1>6, Zenon DEF CalendarEvents
<1>9. SameDays(c, d) /\ SameScan(c, d)
  BY <1>2, <1>6, Zenon DEF SameDays, SameScan
<1>10. ScanAt(d)
  BY <1>9, Zenon DEF InOrder, ScanAt, SameDays, SameScan, Hash
<1>11. NotBehind(d)
  BY <1>6, <1>8, Zenon DEF InOrder, NotBehind
<1> QED
  BY <1>7, <1>8, <1>9, <1>10, <1>11, Zenon DEF InOrder, d

(* CalculateNewWidth never returns zero. *)
LEMMA WidthIs ==
    ASSUME NEW samples \in Seq(Ev), Len(samples) >= 1
    PROVE  WidthOf(samples) \in Positive
<1>0. ASSUME NEW i \in 1..Len(samples)-1 PROVE Diff(samples, i) \in Int
  <2>1. samples[i] \in Ev /\ samples[i+1] \in Ev
    OBVIOUS
  <2>2. samples[i].ts \in Nat /\ samples[i+1].ts \in Nat
    BY <2>1, Zenon DEF Ev
  <2> QED
    BY <2>2 DEF Diff
<1> DEFINE n == Len(samples) - 1
           Pass(x, i) == IF Diff(samples, i) <= TwiceAvg(samples) THEN x + Diff(samples, i) ELSE x
           Y == [i \in 0..n |-> Int]
           step == [i \in 1..n |-> [x \in Y[i-1] |-> Pass(x, i)]]
           g == CHOOSE g : g = [i \in 0..n |-> IF i = 0 THEN 0 ELSE Pass(g[i-1], i)]
<1>1. n \in Nat /\ 0 \in 0..n /\ \A i \in 1..n : i-1 \in 0..n /\ i \in 0..n /\ i # 0
  OBVIOUS
<1>2. 0 \in Y[0]
  BY <1>1
<1>3. ASSUME NEW i \in 1..n, NEW x \in Y[i-1] PROVE Pass(x, i) \in Y[i]
  <2>1. Diff(samples, i) \in Int
    BY <1>0
  <2>2. x \in Int /\ Y[i] = Int
    BY <1>1
  <2> QED
    BY <2>1, <2>2
<1>4. TotalSeparation(samples) = g[n]
  BY DEF TotalSeparation, Loop
<1>5. Y[n] = Int
  BY <1>1
<1>6. ASSUME NEW i \in 1..n, NEW x \in Y[i-1]
      PROVE  step[i][x] = Pass(x, i) /\ step[i][x] \in Y[i]
  BY <1>3, Zenon
<1> HIDE DEF Y, step, n, Pass
<1>7. \E f : IsRun(f, Y, 0, step, n)
  BY <1>1, <1>2, <1>6, RunExists, Zenon
<1>8. PICK f : IsRun(f, Y, 0, step, n)
  BY <1>7
<1>9. f = [i \in 0..n |-> IF i = 0 THEN 0 ELSE Pass(f[i-1], i)]
  <2>1. \A i \in 0..n : i = 0 \/ (i \in 1..n /\ f[i-1] \in Y[i-1])
    BY <1>1, <1>8, RunStates
  <2>2. \A i \in 0..n : i = 0 \/ step[i][f[i-1]] = Pass(f[i-1], i)
    BY <2>1, <1>6
  <2> QED
    BY <1>8, <2>2, Zenon DEF IsRun
<1>10. g = [i \in 0..n |-> IF i = 0 THEN 0 ELSE Pass(g[i-1], i)]
  BY <1>9, Zenon
<1> HIDE DEF g
<1>11. \A i \in 0..n : g[i] \in Y[i]
  <2> DEFINE T == {i \in 0..n : g[i] \in Y[i]}
  <2>1. 0 \in T
    BY <1>1, <1>2, <1>10
  <2>2. ASSUME NEW i \in 1..n, i-1 \in T PROVE i \in T
    <3>1. g[i-1] \in Y[i-1] /\ i \in 0..n /\ i # 0
      BY <2>2, <1>1
    <3>2. g[i] = Pass(g[i-1], i)
      BY <3>1, <1>10, Zenon
    <3> QED
      BY <3>1, <3>2, <1>3
  <2> HIDE DEF T
  <2>3. \A i \in 0..n : i \in T
    BY <1>1, <2>1, <2>2, UpTo
  <2> QED
    BY <2>3 DEF T
<1>12. TotalSeparation(samples) \in Int
  BY <1>1, <1>4, <1>5, <1>11
<1> DEFINE t == 3 * TotalSeparation(samples)
           S == {1, t}
<1>13. WidthOf(samples) = Max(S)
  BY DEF WidthOf
<1>14. t \in Int
  BY <1>12
<1> HIDE DEF t
<1>15. \E x \in S : \A y \in S : x >= y
  <2>1. CASE t >= 1
    BY <1>14, <2>1
  <2>2. CASE ~(t >= 1)
    BY <1>14, <2>2
  <2> QED
    BY <2>1, <2>2
<1>16. Max(S) \in S /\ \A y \in S : Max(S) >= y
  BY <1>15, Zenon DEF Max
<1> QED
  BY <1>13, <1>14, <1>16 DEF Positive

(* There are enough events for the samples. *)
LEMMA SamplesFew ==
    ASSUME NEW q \in Nat, q >= 2
    PROVE  NSamples(q) \in Nat /\ NSamples(q) >= 2 /\ NSamples(q) <= q
<1> DEFINE t == IF q <= 5 THEN q ELSE 5 + q \div 10
           S == {25, t}
<1>1. t \in Nat /\ t >= 2 /\ t <= q
  OBVIOUS
<1>2. NSamples(q) = Min(S)
  BY DEF NSamples
<1> HIDE DEF t
<1>3. S \in SUBSET Nat /\ S # {}
  BY <1>1
<1>4. Min(S) \in S /\ \A m \in S : Min(S) <= m
  <2> HIDE DEF S
  <2> QED
    BY <1>3, MinNat
<1> QED
  BY <1>1, <1>2, <1>4

(* DoResize keeps the events and the position of the scan. *)
LEMMA DoResizeIs ==
    ASSUME NEW c, InOrder(m_reverse, c), NEW size \in Positive, NEW width \in Positive
    PROVE  /\ InOrder(m_reverse, DoResize(c, size, width))
           /\ CalendarEvents(DoResize(c, size, width)) = CalendarEvents(c)
           /\ DoResize(c, size, width).nBuckets = size
           /\ DoResize(c, size, width).lastPrio = c.lastPrio
<1> DEFINE n == c.nBuckets
           new == NewCalendar(size, width, c.lastPrio)
           Seen(i) == UNION {Range(c.buckets[j]) : j \in 0..i-1}
           Kept(d, i) == /\ InBuckets(m_reverse, d) /\ SameDays(new, d) /\ SameScan(new, d)
                         /\ CalendarEvents(d) = Seen(i)
           Y == [i \in 0..n |-> {d \in Calendars : Kept(d, i)}]
           step == [i \in 1..n |-> [x \in Y[i-1] |-> InsertAll(x, c.buckets[i-1])]]
           g == CHOOSE g : g = [i \in 0..n |-> IF i = 0 THEN new ELSE InsertAll(g[i-1], c.buckets[i-1])]
<1>1. c \in Calendars /\ InBuckets(m_reverse, c) /\ n \in Nat /\ c.lastPrio \in Nat
  BY CalendarIs, Zenon DEF InOrder, InBuckets
<1>2. n \in Nat /\ 0 \in 0..n /\ \A i \in 1..n : i-1 \in 0..n /\ i \in 0..n /\ i # 0
  BY <1>1
<1>3. /\ InBuckets(m_reverse, new) /\ ScanAt(new) /\ CalendarEvents(new) = {}
       /\ new.nBuckets = size /\ new.width = width /\ new.lastPrio = c.lastPrio
  <2>1. IsNew(m_reverse, size, width, c.lastPrio, new)
    BY <1>1, NewCalendarIs, Zenon
  <2> QED
    BY <2>1, Zenon DEF IsNew
<1> HIDE DEF new
<1>4. new \in Y[0]
  <2>1. Seen(0) = {}
    BY SMTT(60)
  <2>2. Kept(new, 0)
    BY <1>3, <2>1, Zenon DEF SameDays, SameScan
  <2> HIDE DEF Kept
  <2> QED
    BY <1>2, <1>3, <2>2, Zenon DEF InBuckets
<1>5. ASSUME NEW i \in 1..n, NEW d \in Y[i-1] PROVE InsertAll(d, c.buckets[i-1]) \in Y[i]
  <2> DEFINE s == c.buckets[i-1]
             a == InsertAll(d, s)
  <2>1. Kept(d, i-1)
    <3> HIDE DEF Kept
    <3> QED
      BY <1>2
  <2>2. i-1 \in 0..c.nBuckets-1
    BY <1>1, SMTT(60)
  <2>3. s \in Seq(Ev) /\ Ordered(m_reverse, s)
    BY <1>1, <2>2, CalendarIs, Zenon DEF InBuckets
  <2>4. NoDup(s)
    BY <2>3, OrderedNoDup, Zenon
  <2>5. ASSUME NEW e \in Range(s) PROVE e \notin Seen(i-1)
    <3> SUFFICES ASSUME NEW j \in 0..(i-1)-1, e \in Range(c.buckets[j]) PROVE FALSE
      OBVIOUS
    <3>1. j \in 0..c.nBuckets-1 /\ j # i-1
      BY <1>1, SMTT(60)
    <3>2. Hash(c, e.ts) = j /\ Hash(c, e.ts) = i-1
      BY <1>1, <2>2, <3>1, Zenon DEF InBuckets
    <3> QED
      BY <3>1, <3>2, Zenon
  <2>6. Seen(i) = Seen(i-1) \union Range(s)
    <3>1. \A j \in 0..i-1 : j = i-1 \/ j \in 0..(i-1)-1
      BY SMTT(60)
    <3>2. i-1 \in 0..i-1 /\ \A j \in 0..(i-1)-1 : j \in 0..i-1
      BY SMTT(60)
    <3> QED
      BY <3>1, <3>2
  <2> HIDE DEF s, Seen
  <2>7. /\ InBuckets(m_reverse, a) /\ SameDays(d, a) /\ SameScan(d, a)
        /\ CalendarEvents(a) = CalendarEvents(d) \union Range(s)
    BY <2>1, <2>3, <2>4, <2>5, InsertAllIs, Zenon
  <2> HIDE DEF a
  <2>8. Kept(a, i)
    BY <2>1, <2>6, <2>7, Zenon DEF SameDays, SameScan
  <2> HIDE DEF Kept
  <2>9. a \in Y[i]
    BY <1>2, <2>7, <2>8, Zenon DEF InBuckets
  <2> QED
    BY <2>9, Zenon DEF a, s
<1>6. DoResize(c, size, width) = g[n]
  BY DEF DoResize, Loop, new
<1>7. Y[n] = {d \in Calendars : Kept(d, n)}
  <2> HIDE DEF Kept
  <2> QED
    BY <1>2
<1>8. Seen(n) = CalendarEvents(c)
  BY DEF CalendarEvents
<1>9. ASSUME NEW i \in 1..n, NEW x \in Y[i-1]
      PROVE  step[i][x] = InsertAll(x, c.buckets[i-1]) /\ step[i][x] \in Y[i]
  BY <1>5, Zenon
<1> HIDE DEF Y, step, n, Kept, Seen
<1>10. \E f : IsRun(f, Y, new, step, n)
  BY <1>2, <1>4, <1>9, RunExists, Zenon
<1>11. PICK f : IsRun(f, Y, new, step, n)
  BY <1>10
<1>12. f = [i \in 0..n |-> IF i = 0 THEN new ELSE InsertAll(f[i-1], c.buckets[i-1])]
  <2>1. \A i \in 0..n : i = 0 \/ (i \in 1..n /\ f[i-1] \in Y[i-1])
    BY <1>2, <1>11, RunStates, Zenon
  <2>2. \A i \in 0..n : i = 0 \/ step[i][f[i-1]] = InsertAll(f[i-1], c.buckets[i-1])
    BY <2>1, <1>9, Zenon
  <2> QED
    BY <1>11, <2>2, Zenon DEF IsRun
<1>13. g = [i \in 0..n |-> IF i = 0 THEN new ELSE InsertAll(g[i-1], c.buckets[i-1])]
  BY <1>12, Zenon
<1> HIDE DEF g
<1>14. \A i \in 0..n : g[i] \in Y[i]
  <2> DEFINE T == {i \in 0..n : g[i] \in Y[i]}
  <2>1. 0 \in T
    BY <1>2, <1>4, <1>13
  <2>2. ASSUME NEW i \in 1..n, i-1 \in T PROVE i \in T
    <3>1. g[i-1] \in Y[i-1] /\ i \in 0..n /\ i # 0
      BY <2>2, <1>2
    <3>2. g[i] = InsertAll(g[i-1], c.buckets[i-1])
      BY <3>1, <1>13, Zenon
    <3> QED
      BY <3>1, <3>2, <1>5
  <2> HIDE DEF T
  <2>3. \A i \in 0..n : i \in T
    BY <1>2, <2>1, <2>2, UpTo
  <2> QED
    BY <2>3 DEF T
<1> DEFINE d == DoResize(c, size, width)
<1>15. Kept(d, n)
  BY <1>2, <1>6, <1>7, <1>14, SMTT(60)
<1> HIDE DEF d
<1>16. /\ InBuckets(m_reverse, d) /\ SameDays(new, d) /\ SameScan(new, d)
       /\ CalendarEvents(d) = CalendarEvents(c)
  BY <1>15, <1>8 DEF Kept
<1>17. ScanAt(d)
  BY <1>16, <1>3, Zenon DEF ScanAt, SameDays, SameScan, Hash
<1>18. NotBehind(d)
  BY <1>16, <1>3, Zenon DEF InOrder, NotBehind, SameScan
<1> QED
  BY <1>16, <1>17, <1>18, <1>3, Zenon DEF InOrder, SameDays, SameScan, d

(* The events of a calendar and their number. *)
Holds(c, q) == IsFiniteSet(CalendarEvents(c)) /\ Cardinality(CalendarEvents(c)) = q

(* Resize keeps the events, and has the number of buckets it was given. *)
LEMMA ResizeIs ==
    ASSUME NEW c, InOrder(m_reverse, c), NEW q \in Nat, Holds(c, q), NEW size \in Positive
    PROVE  /\ InOrder(m_reverse, Resize(c, q, size))
           /\ CalendarEvents(Resize(c, q, size)) = CalendarEvents(c)
           /\ Resize(c, q, size).nBuckets = size
           /\ Resize(c, q, size).lastPrio = c.lastPrio
<1>1. CASE q < 2
  <2>1. Resize(c, q, size) = DoResize(c, size, 1) /\ 1 \in Positive
    BY <1>1 DEF Resize, Positive
  <2> QED
    BY <2>1, DoResizeIs
<1>2. CASE q >= 2
  <2> DEFINE n == NSamples(q)
             taken == Sampled(c, n)
             back == PutBack(c, taken)
             w == WidthOf(taken.samples)
  <2>1. n \in Nat /\ n >= 2 /\ n <= Cardinality(CalendarEvents(c))
    BY <1>2, SamplesFew DEF Holds
  <2>2. /\ InBuckets(m_reverse, taken.cal) /\ SameDays(c, taken.cal)
        /\ Drained(CalendarEvents(c), CalendarEvents(taken.cal), taken.samples)
        /\ Len(taken.samples) = n
    <3> HIDE DEF n
    <3> QED
      BY <2>1, SampledIs, Zenon DEF Holds
  <2>3. Resize(c, q, size) = DoResize(back, size, w)
    BY <1>2 DEF Resize
  <2>4. w \in Positive
    BY <2>1, <2>2, WidthIs, SMTT(60) DEF Drained
  <2> HIDE DEF taken
  <2>5. /\ InOrder(m_reverse, back) /\ CalendarEvents(back) = CalendarEvents(c)
        /\ SameScan(c, back)
    BY <2>2, PutBackIs, Zenon
  <2> HIDE DEF back, w
  <2> QED
    BY <2>3, <2>4, <2>5, DoResizeIs, SMTT(60) DEF SameScan
<1> QED
  BY <1>1, <1>2

(* How the number of buckets follows the number of events. *)
Load(n, q) == /\ q <= 2 * n \/ n >= MAX_BUCKETS
              /\ n <= 2 \/ q >= n \div 2

(* c became d in an operation that resizes. *)
Resized(c, d) ==
    /\ InOrder(m_reverse, d) /\ CalendarEvents(d) = CalendarEvents(c) /\ d.lastPrio = c.lastPrio

(* ResizeUp after an insertion. *)
LEMMA ResizeUpIs ==
    ASSUME NEW c, InOrder(m_reverse, c), NEW q \in Nat, Holds(c, q + 1), Load(c.nBuckets, q)
    PROVE  Resized(c, ResizeUp(c, q + 1)) /\ Load(ResizeUp(c, q + 1).nBuckets, q + 1)
<1> DEFINE n == c.nBuckets
<1>1. n \in Nat /\ n >= 1
  BY CalendarIs, Zenon DEF InOrder, InBuckets
<1>2. CASE q + 1 > n * 2 /\ n < MAX_BUCKETS
  <2>1. n * 2 \in Positive /\ q + 1 \in Nat
    BY <1>1 DEF Positive
  <2>2. ResizeUp(c, q + 1) = Resize(c, q + 1, n * 2)
    BY <1>2 DEF ResizeUp
  <2>3. q + 1 <= 2 * (n * 2) /\ q + 1 >= (n * 2) \div 2
    BY <1>1, <1>2 DEF Load, MAX_BUCKETS
  <2> DEFINE p == q + 1
             m == n * 2
  <2>4. Resized(c, Resize(c, p, m)) /\ Resize(c, p, m).nBuckets = m
    <3>1. p \in Nat /\ m \in Positive /\ Holds(c, p)
      BY <2>1
    <3> HIDE DEF p, m
    <3> QED
      BY <3>1, ResizeIs, Zenon DEF Resized
  <2> QED
    BY <2>2, <2>3, <2>4, Zenon DEF Load
<1>3. CASE ~(q + 1 > n * 2 /\ n < MAX_BUCKETS)
  <2>1. ResizeUp(c, q + 1) = c
    BY <1>3 DEF ResizeUp
  <2>2. Load(n, q + 1)
    BY <1>1, <1>3 DEF Load, MAX_BUCKETS
  <2> QED
    BY <2>1, <2>2 DEF Resized
<1> QED
  BY <1>2, <1>3, Zenon

(* ResizeDown after a removal. *)
LEMMA ResizeDownIs ==
    ASSUME NEW c, InOrder(m_reverse, c), NEW q \in Nat, Holds(c, q)
    PROVE  /\ Resized(c, ResizeDown(c, q))
           /\ Load(c.nBuckets, q + 1) => Load(ResizeDown(c, q).nBuckets, q)
<1> DEFINE n == c.nBuckets
<1>1. n \in Nat /\ n >= 1
  BY CalendarIs, Zenon DEF InOrder, InBuckets
<1>2. CASE q < n \div 2
  <2> DEFINE m == n \div 2
  <2>1. m \in Positive
    BY <1>1, <1>2 DEF Positive
  <2>2. ResizeDown(c, q) = Resize(c, q, m)
    BY <1>2 DEF ResizeDown
  <2>3. Load(n, q + 1) => q <= 2 * m /\ (m <= 2 \/ q >= m \div 2)
    BY <1>1, <1>2 DEF Load, MAX_BUCKETS
  <2> HIDE DEF m
  <2>4. Resized(c, Resize(c, q, m)) /\ Resize(c, q, m).nBuckets = m
    BY <2>1, ResizeIs DEF Resized
  <2> QED
    BY <2>2, <2>3, <2>4, Zenon DEF Load
<1>3. CASE ~(q < n \div 2)
  <2>1. ResizeDown(c, q) = c
    BY <1>3 DEF ResizeDown
  <2>2. Load(n, q + 1) => Load(n, q)
    BY <1>1, <1>3 DEF Load, MAX_BUCKETS
  <2> QED
    BY <2>1, <2>2 DEF Resized
<1> QED
  BY <1>2, <1>3

-----------------------------------------------------------------------------
(* CalendarScheduler: the operations. *)

(* A calendar of q events. *)
IsCalendar(c, q) == InOrder(m_reverse, c) /\ Holds(c, q)

(* The size of a finite set without one of its elements. *)
LEMMA WithoutOne ==
    ASSUME NEW S, IsFiniteSet(S), NEW q \in Nat, Cardinality(S) = q, NEW x \in S
    PROVE  IsFiniteSet(S \ {x}) /\ Cardinality(S \ {x}) = q - 1 /\ q >= 1 /\ q - 1 \in Nat
<1>1. IsFiniteSet(S \ {x}) /\ Cardinality(S \ {x}) = IF x \in S THEN Cardinality(S) - 1 ELSE Cardinality(S)
  BY FS_RemoveElement, Zenon
<1>2. Cardinality(S \ {x}) \in Nat
  BY <1>1, FS_CardinalityType
<1> QED
  BY <1>1, <1>2

(* Insert, with the resize that may follow. *)
LEMMA CalendarInsertedIs ==
    ASSUME NEW c, NEW q \in Nat, IsCalendar(c, q), NEW e \in Ev, e \notin CalendarEvents(c),
           c.lastPrio <= e.ts, Load(c.nBuckets, q)
    PROVE  /\ IsCalendar(CalendarInserted(c, q, e), q + 1)
           /\ CalendarEvents(CalendarInserted(c, q, e)) = CalendarEvents(c) \union {e}
           /\ CalendarInserted(c, q, e).lastPrio = c.lastPrio
           /\ Load(CalendarInserted(c, q, e).nBuckets, q + 1)
<1> DEFINE d == DoInsert(c, e)
<1>1. InBuckets(m_reverse, c) /\ ScanAt(c) /\ NotBehind(c) /\ Holds(c, q)
  BY DEF IsCalendar, InOrder
<1>2. /\ InBuckets(m_reverse, d) /\ CalendarEvents(d) = CalendarEvents(c) \union {e}
      /\ SameDays(c, d) /\ SameScan(c, d)
  BY <1>1, DoInsertIs
<1>3. CalendarInserted(c, q, e) = ResizeUp(d, q + 1)
  BY DEF CalendarInserted
<1> HIDE DEF d
<1>4. ScanAt(d)
  BY <1>1, <1>2 DEF ScanAt, SameDays, SameScan, Hash
<1>5. NotBehind(d)
  BY <1>1, <1>2 DEF NotBehind, SameScan
<1>6. Holds(d, q + 1)
  <2>1. /\ IsFiniteSet(CalendarEvents(c) \cup {e})
        /\ Cardinality(CalendarEvents(c) \cup {e}) =
             IF e \in CalendarEvents(c) THEN Cardinality(CalendarEvents(c)) ELSE Cardinality(CalendarEvents(c))+1
    BY <1>1, FS_AddElement, Zenon DEF Holds
  <2> QED
    BY <1>1, <1>2, <2>1 DEF Holds
<1>7. InOrder(m_reverse, d) /\ Load(d.nBuckets, q)
  BY <1>2, <1>4, <1>5 DEF InOrder, SameDays
<1>8. Resized(d, ResizeUp(d, q + 1)) /\ Load(ResizeUp(d, q + 1).nBuckets, q + 1)
  BY <1>6, <1>7, ResizeUpIs, Zenon
<1> QED
  BY <1>2, <1>3, <1>6, <1>8, Zenon DEF Resized, IsCalendar, Holds, SameScan

(* RemoveNext, with the resize that may follow. *)
LEMMA TakenNextIs ==
    ASSUME NEW c, NEW q \in Nat, q # 0, IsCalendar(c, q)
    PROVE  /\ IsEarliest(PeekNext(c), CalendarEvents(c))
           /\ IsCalendar(TakenNext(c, q), q - 1)
           /\ CalendarEvents(TakenNext(c, q)) = CalendarEvents(c) \ {PeekNext(c)}
           /\ TakenNext(c, q).lastPrio = PeekNext(c).ts
           /\ Load(c.nBuckets, q) => Load(TakenNext(c, q).nBuckets, q - 1)
<1> DEFINE x == PeekNext(c)
           d == DoRemoveNext(c)
           p == q - 1
<1>1. InOrder(m_reverse, c) /\ Holds(c, q)
  BY DEF IsCalendar
<1>2. CalendarEvents(c) # {}
  BY <1>1, FS_EmptySet DEF Holds
<1>3. IsEarliest(x, CalendarEvents(c))
  BY <1>1, <1>2, PeekNextIs, Zenon
<1>4. /\ InOrder(m_reverse, d) /\ CalendarEvents(d) = CalendarEvents(c) \ {x} /\ SameDays(c, d)
      /\ d.lastPrio = x.ts
  BY <1>1, <1>2, DoRemoveNextIs, Zenon
<1>5. p \in Nat /\ q = p + 1
  OBVIOUS
<1>6. TakenNext(c, q) = ResizeDown(d, p)
  BY DEF TakenNext
<1> HIDE DEF d, p, x
<1>7. Holds(d, p)
  <2>1. x \in CalendarEvents(c)
    BY <1>3 DEF IsEarliest
  <2> QED
    BY <1>1, <1>4, <2>1, WithoutOne, SMTT(60) DEF Holds, p
<1>8. Resized(d, ResizeDown(d, p)) /\ (Load(d.nBuckets, p + 1) => Load(ResizeDown(d, p).nBuckets, p))
  BY <1>4, <1>5, <1>7, ResizeDownIs, Zenon
<1>9. IsCalendar(ResizeDown(d, p), p)
  BY <1>7, <1>8 DEF Resized, IsCalendar, Holds
<1> QED
  BY <1>3, <1>4, <1>5, <1>6, <1>8, <1>9, Zenon DEF Resized, SameDays, x, p

(* d is c, which holds q events, after Remove of ev, the i-th event of b. *)
IsRemoval(c, q, ev, b, i, d) ==
    /\ q \in Nat /\ IsCalendar(c, q) /\ Load(c.nBuckets, q)
    /\ ev \in CalendarEvents(c) /\ b = Hash(c, ev.ts)
    /\ i \in 1..Len(c.buckets[b]) /\ c.buckets[b][i] = ev
    /\ d = ResizeDown([c EXCEPT !.buckets[b] = RemoveAt(@, i)], q - 1)

(* Remove, with the resize that may follow. *)
LEMMA CalendarRemovedIs ==
    ASSUME NEW c, NEW q, NEW ev, NEW b, NEW i, NEW d, IsRemoval(c, q, ev, b, i, d)
    PROVE  /\ IsCalendar(d, q - 1) /\ CalendarEvents(d) = CalendarEvents(c) \ {ev}
           /\ d.lastPrio = c.lastPrio /\ Load(d.nBuckets, q - 1) /\ q >= 1
<1> USE DEF IsRemoval
<1> DEFINE s == c.buckets[b]
           t == RemoveAt(s, i)
           B == [c.buckets EXCEPT ![b] = t]
           a == [c EXCEPT !.buckets = B]
           p == q - 1
<1>1. /\ InOrder(m_reverse, c) /\ Holds(c, q) /\ InBuckets(m_reverse, c) /\ c \in Calendars
      /\ c.buckets \in [0..c.nBuckets-1 -> Seq(Ev)]
  BY CalendarIs DEF IsCalendar, InOrder, InBuckets
<1>2. b \in 0..c.nBuckets-1 /\ ev \in Range(s)
  BY <1>1, InItsBucket
<1>3. s \in Seq(Ev) /\ Ordered(m_reverse, s) /\ Range(s) \subseteq CalendarEvents(c)
  BY <1>1, <1>2, EventsIs, Zenon DEF InBuckets
<1>4. d = ResizeDown(a, p)
  OBVIOUS
<1>5. t \in Seq(Ev) /\ Ordered(m_reverse, t) /\ Range(t) = Range(s) \ {ev}
  <2> HIDE DEF s
  <2>1. i \in 1..Len(s) /\ s[i] = ev
    BY DEF s
  <2> QED
    BY <1>3, <2>1, RemoveInOrder
<1> HIDE DEF t, s
<1>6. B \in [0..c.nBuckets-1 -> Seq(Ev)] /\ B \in BucketLists
  <2>1. B \in [0..c.nBuckets-1 -> Seq(Ev)]
    BY <1>1, <1>2, <1>5
  <2> HIDE DEF B
  <2> QED
    BY <1>1, <2>1, CalendarIs DEF BucketLists
<1> HIDE DEF B
<1>7. /\ a.nBuckets = c.nBuckets /\ a.width = c.width /\ a.lastPrio = c.lastPrio
      /\ a.lastBucket = c.lastBucket /\ a.bucketTop = c.bucketTop /\ a.buckets = B
      /\ a \in Calendars
  BY <1>1, <1>6 DEF Calendars
<1> HIDE DEF a
<1>8. \A f \in Range(t) : Hash(c, f.ts) = b
  BY <1>1, <1>2, <1>5 DEF InBuckets, s
<1> HIDE DEF IsRemoval
<1>9. InBuckets(m_reverse, a) /\ Exchanged(c, b, t, a)
  <2>1. IsChange(m_reverse, c, b, t, a)
    BY <1>1, <1>2, <1>5, <1>7, <1>8, Zenon DEF IsChange, B
  <2> QED
    BY <2>1, BucketChanged, Zenon
<1>10. CalendarEvents(a) = CalendarEvents(c) \ {ev}
  BY <1>2, <1>3, <1>5, <1>9, Zenon DEF s, Exchanged
<1>11. InOrder(m_reverse, a)
  <2>1. ScanAt(a)
    BY <1>1, <1>7, Zenon DEF InOrder, ScanAt, Hash
  <2>2. NotBehind(a)
    BY <1>1, <1>7, <1>10, Zenon DEF InOrder, NotBehind
  <2> QED
    BY <1>9, <2>1, <2>2 DEF InOrder
<1>12. Holds(a, p) /\ p \in Nat /\ q >= 1 /\ q = p + 1
  <2>1. /\ IsFiniteSet(CalendarEvents(c) \ {ev}) /\ Cardinality(CalendarEvents(c) \ {ev}) = q - 1
        /\ q >= 1 /\ q - 1 \in Nat
    BY <1>1, WithoutOne DEF Holds, IsRemoval
  <2> QED
    BY <1>10, <2>1 DEF Holds, IsRemoval
<1> HIDE DEF p
<1>13. Resized(a, ResizeDown(a, p)) /\ (Load(a.nBuckets, p + 1) => Load(ResizeDown(a, p).nBuckets, p))
  BY <1>11, <1>12, ResizeDownIs, Zenon
<1>14. IsCalendar(ResizeDown(a, p), p)
  BY <1>12, <1>13 DEF Resized, IsCalendar, Holds
<1> QED
  BY <1>4, <1>7, <1>10, <1>12, <1>13, <1>14 DEF Resized, p, IsRemoval

(* Calling RemoveNext until the calendar is empty returns every event once. *)
LEMMA CalendarInTurnIs ==
    ASSUME NEW c, NEW q \in Nat, IsCalendar(c, q)
    PROVE  /\ CalendarInTurn(c, q) \in Seq(Ev) /\ NoDup(CalendarInTurn(c, q))
           /\ Range(CalendarInTurn(c, q)) = CalendarEvents(c) /\ Len(CalendarInTurn(c, q)) = q
<1> DEFINE n == q
           S == CalendarEvents(c)
           start == [cal |-> c, out |-> <<>>]
           Pass(s, i) == [cal |-> TakenNext(s.cal, q - i + 1), out |-> Append(s.out, PeekNext(s.cal))]
           Kept(s, i) == /\ IsCalendar(s.cal, q - i) /\ Drained(S, CalendarEvents(s.cal), s.out)
                         /\ Len(s.out) = i
           Y == [i \in 0..n |-> {s \in [cal : Calendars, out : Seq(Ev)] : Kept(s, i)}]
           step == [i \in 1..n |-> [x \in Y[i-1] |-> Pass(x, i)]]
           g == CHOOSE g : g = [i \in 0..n |-> IF i = 0 THEN start ELSE Pass(g[i-1], i)]
<1>1. c \in Calendars /\ S \in SUBSET Ev
  BY EventsIs, Zenon DEF IsCalendar, InOrder, InBuckets
<1>2. n \in Nat /\ 0 \in 0..n /\ \A i \in 1..n : i-1 \in 0..n /\ i \in 0..n /\ i # 0
  OBVIOUS
<1>3. start \in Y[0]
  <2>1. start \in [cal : Calendars, out : Seq(Ev)] /\ start.cal = c /\ start.out = <<>>
    BY <1>1, EmptyIs, Zenon
  <2>2. q - 0 = q
    OBVIOUS
  <2> HIDE DEF start
  <2>3. Kept(start, 0)
    BY <1>1, <2>1, <2>2, DrainStart, EmptyIs
  <2> HIDE DEF Kept
  <2> QED
    BY <1>2, <2>1, <2>3
<1>4. ASSUME NEW i \in 1..n, NEW s \in Y[i-1] PROVE Pass(s, i) \in Y[i]
  <2> DEFINE m == q - i + 1
             d == TakenNext(s.cal, m)
             x == PeekNext(s.cal)
             out == Append(s.out, x)
             t == Pass(s, i)
  <2>1. Kept(s, i-1) /\ s \in [cal : Calendars, out : Seq(Ev)]
    <3> HIDE DEF Kept
    <3> QED
      BY <1>2
  <2>2. m \in Nat /\ m # 0 /\ q - (i-1) = m /\ m - 1 = q - i
    OBVIOUS
  <2>3. t = [cal |-> d, out |-> out]
    BY Zenon
  <2> HIDE DEF m
  <2>4. /\ IsEarliest(x, CalendarEvents(s.cal)) /\ IsCalendar(d, m - 1)
        /\ CalendarEvents(d) = CalendarEvents(s.cal) \ {x}
    BY <2>1, <2>2, TakenNextIs, Zenon
  <2> HIDE DEF d, x
  <2>5. Drained(S, CalendarEvents(d), out)
    BY <1>1, <2>1, <2>4, DrainStep, Zenon DEF IsEarliest
  <2>6. Len(out) = i
    BY <2>1, SMTT(60)
  <2> HIDE DEF out, t
  <2>7. t.cal = d /\ t.out = out /\ t \in [cal : Calendars, out : Seq(Ev)]
    BY <2>3, <2>4, <2>5, Zenon DEF IsCalendar, InOrder, InBuckets, Drained
  <2>8. Kept(t, i)
    BY <2>2, <2>4, <2>5, <2>6, <2>7, Zenon
  <2> HIDE DEF Kept
  <2> QED
    BY <1>2, <2>7, <2>8, Zenon DEF t
<1>5. CalendarInTurn(c, q) = g[n].out
  BY DEF CalendarInTurn, Loop
<1>6. Y[n] = {s \in [cal : Calendars, out : Seq(Ev)] : Kept(s, n)}
  <2> HIDE DEF Kept
  <2> QED
    BY <1>2, SMTT(60)
<1>7. ASSUME NEW i \in 1..n, NEW x \in Y[i-1]
      PROVE  step[i][x] = Pass(x, i) /\ step[i][x] \in Y[i]
  BY <1>4, Zenon
<1> HIDE DEF Y, step, n, start, S, Pass, Kept
<1>8. \E f : IsRun(f, Y, start, step, n)
  BY <1>2, <1>3, <1>7, RunExists, Zenon
<1>9. PICK f : IsRun(f, Y, start, step, n)
  BY <1>8
<1>10. f = [i \in 0..n |-> IF i = 0 THEN start ELSE Pass(f[i-1], i)]
  <2>1. \A i \in 0..n : i = 0 \/ (i \in 1..n /\ f[i-1] \in Y[i-1])
    BY <1>2, <1>9, RunStates, Zenon
  <2>2. \A i \in 0..n : i = 0 \/ step[i][f[i-1]] = Pass(f[i-1], i)
    BY <2>1, <1>7
  <2> QED
    BY <1>9, <2>2, Zenon DEF IsRun
<1>11. g = [i \in 0..n |-> IF i = 0 THEN start ELSE Pass(g[i-1], i)]
  BY <1>10, Zenon
<1> HIDE DEF g
<1>12. \A i \in 0..n : g[i] \in Y[i]
  <2> DEFINE T == {i \in 0..n : g[i] \in Y[i]}
  <2>1. 0 \in T
    BY <1>2, <1>3, <1>11
  <2>2. ASSUME NEW i \in 1..n, i-1 \in T PROVE i \in T
    <3>1. g[i-1] \in Y[i-1] /\ i \in 0..n /\ i # 0
      BY <2>2, <1>2
    <3>2. g[i] = Pass(g[i-1], i)
      BY <3>1, <1>11, Zenon
    <3> QED
      BY <3>1, <3>2, <1>4
  <2> HIDE DEF T
  <2>3. \A i \in 0..n : i \in T
    BY <1>2, <2>1, <2>2, UpTo
  <2> QED
    BY <2>3 DEF T
<1>13. Kept(g[n], n)
  BY <1>2, <1>6, <1>12
<1>14. CalendarEvents(g[n].cal) = {}
  BY <1>13, FS_EmptySet DEF Kept, n, IsCalendar, Holds
<1>15. Drained(S, {}, g[n].out) /\ Len(g[n].out) = q
  BY <1>13, <1>14 DEF Kept, n
<1> QED
  BY <1>1, <1>5, <1>15, DrainEnd DEF S

(* The calendar that a CalendarScheduler is constructed with. *)
LEMMA StartIs ==
    /\ IsCalendar(NewCalendar(2, 1, 0), 0) /\ Load(NewCalendar(2, 1, 0).nBuckets, 0)
    /\ CalendarEvents(NewCalendar(2, 1, 0)) = {} /\ NewCalendar(2, 1, 0).lastPrio = 0
<1>1. ASSUME NEW n \in Positive, NEW w \in Positive, NEW p \in Nat
      PROVE  /\ IsCalendar(NewCalendar(n, w, p), 0)
             /\ CalendarEvents(NewCalendar(n, w, p)) = {}
             /\ NewCalendar(n, w, p).nBuckets = n /\ NewCalendar(n, w, p).lastPrio = p
  <2> DEFINE new == NewCalendar(n, w, p)
  <2>1. /\ InBuckets(m_reverse, new) /\ ScanAt(new) /\ CalendarEvents(new) = {}
        /\ new.nBuckets = n /\ new.width = w /\ new.lastPrio = p
    <3>1. IsNew(m_reverse, n, w, p, new)
      BY NewCalendarIs, Zenon
    <3> QED
      BY <3>1, Zenon DEF IsNew
  <2> HIDE DEF new
  <2>2. IsCalendar(new, 0)
    BY <2>1, FS_EmptySet, Zenon DEF IsCalendar, InOrder, Holds, NotBehind
  <2> QED
    BY <2>1, <2>2, Zenon DEF new
<1>2. PICK n \in Positive, w \in Positive, p \in Nat : n = 2 /\ w = 1 /\ p = 0
  BY DEF Positive
<1>3. NewCalendar(n, w, p) = NewCalendar(2, 1, 0)
  BY <1>2
<1>4. /\ IsCalendar(NewCalendar(n, w, p), 0)
      /\ CalendarEvents(NewCalendar(n, w, p)) = {}
      /\ NewCalendar(n, w, p).nBuckets = n /\ NewCalendar(n, w, p).lastPrio = p
  BY <1>1
<1>5. Load(n, 0)
  BY <1>2 DEF Load
<1> QED
  BY <1>2, <1>3, <1>4, <1>5

(* The calendar that SetScheduler fills holds the events it was given. *)
LEMMA CalendarOfIs ==
    ASSUME NEW evs \in Seq(Ev), NoDup(evs)
    PROVE  /\ IsCalendar(CalendarOf(evs), Len(evs)) /\ Load(CalendarOf(evs).nBuckets, Len(evs))
           /\ CalendarEvents(CalendarOf(evs)) = Range(evs) /\ CalendarOf(evs).lastPrio = 0
<1> DEFINE n == Len(evs)
           new == NewCalendar(2, 1, 0)
           Kept(c, i) == /\ IsCalendar(c, i) /\ Load(c.nBuckets, i) /\ c.lastPrio = 0
                         /\ CalendarEvents(c) = Firsts(evs, i)
           Y == [i \in 0..n |-> {c \in Calendars : Kept(c, i)}]
           step == [i \in 1..n |-> [x \in Y[i-1] |-> CalendarInserted(x, i - 1, evs[i])]]
           g == CHOOSE g : g = [i \in 0..n |-> IF i = 0 THEN new ELSE CalendarInserted(g[i-1], i - 1, evs[i])]
<1>1. n \in Nat /\ 0 \in 0..n /\ \A i \in 1..n : i-1 \in 0..n /\ i \in 0..n /\ i # 0
  OBVIOUS
<1>2. new \in Y[0]
  <2>1. /\ IsCalendar(new, 0) /\ Load(new.nBuckets, 0) /\ CalendarEvents(new) = {}
        /\ new.lastPrio = 0
    BY StartIs
  <2> HIDE DEF new
  <2>2. new \in Calendars
    BY <2>1, Zenon DEF IsCalendar, InOrder, InBuckets
  <2>3. Kept(new, 0)
    BY <2>1, FirstsStep
  <2> HIDE DEF Kept
  <2> QED
    BY <1>1, <2>2, <2>3
<1>3. ASSUME NEW i \in 1..n, NEW c \in Y[i-1] PROVE CalendarInserted(c, i - 1, evs[i]) \in Y[i]
  <2> DEFINE d == CalendarInserted(c, i - 1, evs[i])
             q == i - 1
             e == evs[i]
  <2>1. /\ evs[i] \in Ev /\ evs[i] \notin Firsts(evs, i-1)
        /\ Firsts(evs, i) = Firsts(evs, i-1) \union {evs[i]}
    BY FirstsStep
  <2>2. Kept(c, q)
    <3> HIDE DEF Kept
    <3> QED
      BY <1>1
  <2>3. q \in Nat /\ q + 1 = i /\ c.lastPrio <= evs[i].ts
    BY <2>1, <2>2, SMTT(60) DEF Ev
  <2>4. d = CalendarInserted(c, q, evs[i]) /\ evs[i] \notin CalendarEvents(c)
    BY <2>1, <2>2
  <2>5. CalendarEvents(c) = Firsts(evs, i-1) /\ IsCalendar(c, q) /\ Load(c.nBuckets, q) /\ c.lastPrio = 0
    BY <2>2
  <2> HIDE DEF q, d
  <2>6. /\ IsCalendar(d, q + 1) /\ CalendarEvents(d) = CalendarEvents(c) \union {evs[i]}
        /\ d.lastPrio = c.lastPrio /\ Load(d.nBuckets, q + 1)
    <3>1. /\ q \in Nat /\ e \in Ev /\ e \notin CalendarEvents(c) /\ c.lastPrio <= e.ts
          /\ d = CalendarInserted(c, q, e)
      BY <2>1, <2>3, <2>4, Zenon
    <3> HIDE DEF e
    <3>2. /\ IsCalendar(d, q + 1) /\ CalendarEvents(d) = CalendarEvents(c) \union {e}
          /\ d.lastPrio = c.lastPrio /\ Load(d.nBuckets, q + 1)
      BY <2>5, <3>1, CalendarInsertedIs, Zenon
    <3> QED
      BY <3>2, Zenon DEF e
  <2>7. Kept(d, i)
    BY <2>1, <2>3, <2>5, <2>6, Zenon
  <2>8. d \in Calendars
    BY <2>6, Zenon DEF IsCalendar, InOrder, InBuckets
  <2> HIDE DEF Kept
  <2> QED
    BY <1>1, <2>7, <2>8 DEF d
<1>4. CalendarOf(evs) = g[n]
  BY DEF CalendarOf, Loop
<1>5. Y[n] = {c \in Calendars : Kept(c, n)}
  <2> HIDE DEF Kept
  <2> QED
    BY <1>1
<1>6. ASSUME NEW i \in 1..n, NEW x \in Y[i-1]
      PROVE  step[i][x] = CalendarInserted(x, i - 1, evs[i]) /\ step[i][x] \in Y[i]
  BY <1>3, Zenon
<1> HIDE DEF Y, step, n, new, Kept
<1>7. \E f : IsRun(f, Y, new, step, n)
  BY <1>1, <1>2, <1>6, RunExists, Zenon
<1>8. PICK f : IsRun(f, Y, new, step, n)
  BY <1>7
<1>9. f = [i \in 0..n |-> IF i = 0 THEN new ELSE CalendarInserted(f[i-1], i - 1, evs[i])]
  <2>1. \A i \in 0..n : i = 0 \/ (i \in 1..n /\ f[i-1] \in Y[i-1])
    BY <1>1, <1>8, RunStates, Zenon
  <2>2. \A i \in 0..n : i = 0 \/ step[i][f[i-1]] = CalendarInserted(f[i-1], i - 1, evs[i])
    BY <2>1, <1>6, Zenon
  <2> QED
    BY <1>8, <2>2, Zenon DEF IsRun
<1>10. g = [i \in 0..n |-> IF i = 0 THEN new ELSE CalendarInserted(g[i-1], i - 1, evs[i])]
  BY <1>9, Zenon
<1> HIDE DEF g
<1>11. \A i \in 0..n : g[i] \in Y[i]
  <2> DEFINE T == {i \in 0..n : g[i] \in Y[i]}
  <2>1. 0 \in T
    BY <1>1, <1>2, <1>10
  <2>2. ASSUME NEW i \in 1..n, i-1 \in T PROVE i \in T
    <3>1. g[i-1] \in Y[i-1] /\ i \in 0..n /\ i # 0
      BY <2>2, <1>1
    <3>2. g[i] = CalendarInserted(g[i-1], i - 1, evs[i])
      BY <3>1, <1>10, Zenon
    <3> QED
      BY <3>1, <3>2, <1>3
  <2> HIDE DEF T
  <2>3. \A i \in 0..n : i \in T
    BY <1>1, <2>1, <2>2, UpTo
  <2> QED
    BY <2>3, Zenon DEF T
<1>12. Kept(CalendarOf(evs), n)
  BY <1>1, <1>4, <1>5, <1>11, SMTT(60)
<1> QED
  BY <1>12, FirstsStep, Zenon DEF Kept, n

-----------------------------------------------------------------------------
(* The event list of the engine. *)

(* The schedulers, of which one is in use and the others hold nothing. *)
Structures ==
    /\ scheduler \in Types
    /\ m_map \in SUBSET Ev /\ IsFiniteSet(m_map)
    /\ IsHeap(m_heap)
    /\ IsList(m_events)
    /\ m_qSize \in Nat /\ IsCalendar(cal, m_qSize) /\ Load(cal.nBuckets, m_qSize)
    /\ scheduler # "Map" => m_map = {}
    /\ scheduler # "Heap" => m_heap = <<>>
    /\ scheduler # "List" => m_events = <<>>
    /\ scheduler # "Calendar" => CalendarEvents(cal) = {}

(* The engine: no event is before the one that runs, and uids are unique. *)
Engine ==
    /\ last \in Ev /\ inserted \in Nat
    /\ cal.lastPrio <= last.ts
    /\ \A e \in Events : last.ts <= e.ts /\ e.uid <= inserted
    /\ \A e, f \in Events : e.uid = f.uid => e = f

Inv == Structures /\ Engine

(* The events are those of the scheduler in use. *)
LEMMA Contents ==
    ASSUME Structures
    PROVE  /\ Events \in SUBSET Ev
           /\ scheduler = "Map" => Events = m_map
           /\ scheduler = "Heap" => Events = Range(m_heap)
           /\ scheduler = "List" => Events = Range(m_events)
           /\ scheduler = "Calendar" => Events = CalendarEvents(cal)
<1>1. /\ scheduler = "Map" => Events = m_map
      /\ scheduler = "Heap" => Events = Range(m_heap)
      /\ scheduler = "List" => Events = Range(m_events)
      /\ scheduler = "Calendar" => Events = CalendarEvents(cal)
  BY EmptyIs DEF Structures, Events
<1>2. m_map \in SUBSET Ev /\ Range(m_heap) \in SUBSET Ev /\ Range(m_events) \in SUBSET Ev
  BY RangeIs DEF Structures, IsHeap, IsList
<1>3. CalendarEvents(cal) \in SUBSET Ev
  BY EventsIs, Zenon DEF Structures, IsCalendar, InOrder, InBuckets
<1> QED
  BY <1>1, <1>2, <1>3, Zenon DEF Events

(* Insert of an event that is new, into the scheduler in use. *)
LEMMA InsertStep ==
    ASSUME Inv, Insert
    PROVE  Structures' /\ \E delay \in Delays :
             /\ NewEvent(delay) \in Ev /\ last.ts <= NewEvent(delay).ts
             /\ Events' = Events \union {NewEvent(delay)}
             /\ EngineInsert /\ cal'.lastPrio = cal.lastPrio
<1>1. ASSUME NEW delay \in Delays
      PROVE  /\ NewEvent(delay) \in Ev /\ last.ts <= NewEvent(delay).ts
             /\ NewEvent(delay) \notin Events
  <2>1. delay \in Nat /\ last.ts \in Nat /\ inserted \in Nat
    BY SchedulersAssumption DEF Inv, Engine, Ev
  <2>2. NewEvent(delay) = [ts |-> last.ts + delay, uid |-> inserted + 1]
    BY DEF NewEvent
  <2>3. ~(NewEvent(delay).uid <= inserted)
    BY <2>1, <2>2
  <2> QED
    BY <2>1, <2>2, <2>3, SMTT(60) DEF Inv, Engine, Ev
<1>2. Structures /\ scheduler' = scheduler
  BY DEF Inv, Insert, Using
<1>3. CASE scheduler = "Map"
  <2>1. /\ Map!Insert /\ UNCHANGED <<m_heap, m_events, cal, m_qSize, m_reverse>>
    BY <1>3 DEF Insert, Using, calendarVars
  <2>2. PICK delay \in Delays : EngineInsert /\ m_map' = m_map \union {NewEvent(delay)}
    BY <2>1 DEF Map!Insert, Map!EngineInsert, Map!NewEvent, EngineInsert, NewEvent
  <2>3. Events = m_map
    BY <1>2, <1>3, Contents
  <2>4. m_map' \in SUBSET Ev /\ IsFiniteSet(m_map')
    BY <1>1, <1>2, <2>2, FS_AddElement DEF Structures
  <2>5. Structures'
    BY <1>2, <1>3, <2>1, <2>4 DEF Structures, IsCalendar
  <2>6. Events' = Events \union {NewEvent(delay)}
    BY <2>1, <2>2 DEF Events
  <2> QED
    BY <1>1, <2>1, <2>2, <2>5, <2>6
<1>4. CASE scheduler = "Heap"
  <2>1. /\ HeapInsert /\ UNCHANGED <<m_map, m_events, cal, m_qSize, m_reverse>>
    BY <1>4 DEF Insert, Using, calendarVars
  <2>2. PICK delay \in Delays : EngineInsert /\ m_heap' = HeapInserted(m_heap, NewEvent(delay))
    BY <2>1 DEF HeapInsert
  <2>3. Events = Range(m_heap)
    BY <1>2, <1>4, Contents
  <2>4. IsHeap(m_heap') /\ Range(m_heap') = Range(m_heap) \union {NewEvent(delay)}
    BY <1>1, <1>2, <2>2, <2>3, HeapInsertedIs DEF Structures
  <2>5. Structures'
    BY <1>2, <1>4, <2>1, <2>4 DEF Structures, IsCalendar
  <2>6. Events' = Events \union {NewEvent(delay)}
    BY <2>1, <2>4 DEF Events
  <2> QED
    BY <1>1, <2>1, <2>2, <2>5, <2>6
<1>5. CASE scheduler = "List"
  <2>1. /\ ListInsert /\ UNCHANGED <<m_map, m_heap, cal, m_qSize, m_reverse>>
    BY <1>5 DEF Insert, Using, calendarVars
  <2>2. PICK delay \in Delays : EngineInsert /\ m_events' = ListInserted(m_events, NewEvent(delay))
    BY <2>1 DEF ListInsert
  <2>3. Events = Range(m_events)
    BY <1>2, <1>5, Contents
  <2>4. IsList(m_events') /\ Range(m_events') = Range(m_events) \union {NewEvent(delay)}
    BY <1>1, <1>2, <2>2, <2>3, ListInsertedIs DEF Structures
  <2>5. Structures'
    BY <1>2, <1>5, <2>1, <2>4 DEF Structures, IsCalendar
  <2>6. Events' = Events \union {NewEvent(delay)}
    BY <2>1, <2>4 DEF Events
  <2> QED
    BY <1>1, <2>1, <2>2, <2>5, <2>6
<1>6. CASE scheduler = "Calendar"
  <2>1. /\ CalendarInsert /\ UNCHANGED <<m_map, m_heap, m_events>>
    BY <1>6 DEF Insert, Using
  <2>2. PICK delay \in Delays : EngineInsert /\ cal' = CalendarInserted(cal, m_qSize, NewEvent(delay))
    BY <2>1 DEF CalendarInsert
  <2>3. Events = CalendarEvents(cal)
    BY <1>2, <1>6, Contents
  <2>4. m_qSize' = m_qSize + 1 /\ m_reverse' = m_reverse
    BY <2>1 DEF CalendarInsert
  <2>5. m_qSize \in Nat /\ IsCalendar(cal, m_qSize) /\ Load(cal.nBuckets, m_qSize)
    BY <1>2 DEF Structures
  <2>6. cal.lastPrio <= NewEvent(delay).ts
    <3>1. cal.lastPrio \in Nat /\ cal.lastPrio <= last.ts /\ last.ts <= NewEvent(delay).ts
      BY <1>1, <2>5, CalendarIs, Zenon DEF Inv, Engine, IsCalendar, InOrder, InBuckets
    <3> QED
      BY <3>1, <1>1 DEF Inv, Engine, Ev
  <2>7. /\ IsCalendar(cal', m_qSize + 1) /\ Load(cal'.nBuckets, m_qSize + 1)
        /\ CalendarEvents(cal') = CalendarEvents(cal) \union {NewEvent(delay)}
        /\ cal'.lastPrio = cal.lastPrio
    BY <1>1, <2>2, <2>3, <2>5, <2>6, CalendarInsertedIs, Zenon
  <2>8. IsCalendar(cal, m_qSize)'
    BY <2>4, <2>7 DEF IsCalendar
  <2>9. Structures'
    BY <1>2, <1>6, <2>1, <2>4, <2>5, <2>7, <2>8, SMTT(60) DEF Structures
  <2>10. Events' = Events \union {NewEvent(delay)}
    BY <2>1, <2>7 DEF Events
  <2> QED
    BY <1>1, <2>2, <2>7, <2>9, <2>10
<1> QED
  BY <1>2, <1>3, <1>4, <1>5, <1>6, Zenon DEF Structures, Types

(* RemoveNext of the scheduler in use: it returns the earliest event. *)
LEMMA RemoveNextStep ==
    ASSUME Inv, RemoveNext
    PROVE  Structures' /\ \E next \in Events :
             /\ IsEarliest(next, Events) /\ Events' = Events \ {next}
             /\ EngineRuns(next) /\ (cal'.lastPrio = cal.lastPrio \/ cal'.lastPrio = next.ts)
<1>1. Structures /\ scheduler' = scheduler
  BY DEF Inv, RemoveNext, Using
<1>2. CASE scheduler = "Map"
  <2>1. /\ Map!RemoveNext /\ UNCHANGED <<m_heap, m_events, cal, m_qSize, m_reverse>>
    BY <1>2 DEF RemoveNext, Using, calendarVars
  <2>2. PICK next \in m_map : /\ \A e \in m_map : e = next \/ Before(next, e)
                              /\ m_map' = m_map \ {next} /\ EngineRuns(next)
    BY <2>1 DEF Map!RemoveNext, Map!TakeOut, Map!EngineRuns, Map!Before, EngineRuns, Before
  <2>3. Events = m_map
    BY <1>1, <1>2, Contents
  <2>4. m_map' \in SUBSET Ev /\ IsFiniteSet(m_map')
    BY <1>1, <2>2, FS_RemoveElement DEF Structures
  <2>5. Structures'
    BY <1>1, <1>2, <2>1, <2>4 DEF Structures, IsCalendar
  <2>6. Events' = Events \ {next}
    <3>1. Range(m_heap) = {} /\ Range(m_events) = {} /\ CalendarEvents(cal) = {}
      BY <1>1, <1>2, EmptyIs DEF Structures
    <3> QED
      BY <2>1, <2>2, <3>1 DEF Events
  <2> QED
    BY <2>1, <2>2, <2>3, <2>5, <2>6, Zenon DEF IsEarliest
<1>3. CASE scheduler = "Heap"
  <2>1. /\ HeapRemoveNext /\ UNCHANGED <<m_map, m_events, cal, m_qSize, m_reverse>>
    BY <1>3 DEF RemoveNext, Using, calendarVars
  <2>2. m_heap # <<>> /\ EngineRuns(m_heap[1]) /\ m_heap' = TakenOut(m_heap, 1)
    BY <2>1 DEF HeapRemoveNext
  <2>3. Events = Range(m_heap)
    BY <1>1, <1>3, Contents
  <2>4. /\ IsEarliest(m_heap[1], Range(m_heap))
        /\ IsHeap(m_heap') /\ Range(m_heap') = Range(m_heap) \ {m_heap[1]}
    BY <1>1, <2>2, RootIsEarliest, TakenOutIs DEF Structures
  <2>5. Structures'
    BY <1>1, <1>3, <2>1, <2>4, Zenon DEF Structures, IsCalendar
  <2>6. Events' = Events \ {m_heap[1]}
    <3>1. m_map = {} /\ Range(m_events) = {} /\ CalendarEvents(cal) = {}
      BY <1>1, <1>3, EmptyIs DEF Structures
    <3> QED
      BY <2>1, <2>4, <3>1 DEF Events
  <2> QED
    BY <2>1, <2>2, <2>3, <2>4, <2>5, <2>6, Zenon DEF IsEarliest
<1>4. CASE scheduler = "List"
  <2>1. /\ ListRemoveNext /\ UNCHANGED <<m_map, m_heap, cal, m_qSize, m_reverse>>
    BY <1>4 DEF RemoveNext, Using, calendarVars
  <2>2. m_events # <<>> /\ EngineRuns(m_events[1]) /\ m_events' = RemoveAt(m_events, 1)
    BY <2>1 DEF ListRemoveNext
  <2>3. Events = Range(m_events)
    BY <1>1, <1>4, Contents
  <2>4. /\ IsEarliest(m_events[1], Range(m_events))
        /\ IsList(m_events') /\ Range(m_events') = Range(m_events) \ {m_events[1]}
    <3> DEFINE r == FALSE
               p == 1
    <3>1. m_events \in Seq(Ev) /\ Ordered(r, m_events) /\ ~r /\ (IsList(m_events') <=> m_events' \in Seq(Ev) /\ Ordered(r, m_events'))
      BY <1>1, Zenon DEF Structures, IsList
    <3> HIDE DEF r
    <3>2. IsEarliest(m_events[1], Range(m_events)) /\ p \in 1..Len(m_events)
      BY <2>2, <3>1, EndIsEarliest
    <3>3. m_events' = RemoveAt(m_events, p) /\ m_events[p] = m_events[1]
      BY <2>2
    <3> HIDE DEF p
    <3> QED
      BY <3>1, <3>2, <3>3, RemoveInOrder
  <2>5. Structures'
    BY <1>1, <1>4, <2>1, <2>4, Zenon DEF Structures, IsCalendar
  <2>6. Events' = Events \ {m_events[1]}
    <3>1. m_map = {} /\ Range(m_heap) = {} /\ CalendarEvents(cal) = {}
      BY <1>1, <1>4, EmptyIs DEF Structures
    <3> QED
      BY <2>1, <2>4, <3>1 DEF Events
  <2> QED
    BY <2>1, <2>2, <2>3, <2>4, <2>5, <2>6, Zenon DEF IsEarliest
<1>5. CASE scheduler = "Calendar"
  <2> DEFINE next == PeekNext(cal)
  <2>1. /\ CalendarRemoveNext /\ UNCHANGED <<m_map, m_heap, m_events>>
    BY <1>5 DEF RemoveNext, Using
  <2>2. /\ m_qSize # 0 /\ EngineRuns(next) /\ cal' = TakenNext(cal, m_qSize)
        /\ m_qSize' = m_qSize - 1 /\ m_reverse' = m_reverse
    BY <2>1 DEF CalendarRemoveNext
  <2>3. Events = CalendarEvents(cal)
    BY <1>1, <1>5, Contents
  <2>4. m_qSize \in Nat /\ IsCalendar(cal, m_qSize) /\ Load(cal.nBuckets, m_qSize)
    BY <1>1 DEF Structures
  <2>5. /\ IsEarliest(next, CalendarEvents(cal)) /\ IsCalendar(cal', m_qSize - 1)
        /\ CalendarEvents(cal') = CalendarEvents(cal) \ {next}
        /\ cal'.lastPrio = next.ts /\ Load(cal'.nBuckets, m_qSize - 1)
    BY <2>2, <2>4, TakenNextIs, Zenon
  <2>6. IsCalendar(cal, m_qSize)' /\ m_qSize' \in Nat
    <3>1. m_qSize' \in Nat
      BY <2>2, <2>4
    <3>2. IsCalendar(cal, m_qSize)'
      BY <2>2, <2>5, Zenon DEF IsCalendar
    <3> QED
      BY <3>1, <3>2
  <2>7. Structures'
    BY <1>1, <1>5, <2>1, <2>2, <2>5, <2>6, Zenon DEF Structures
  <2>8. Events' = Events \ {next}
    <3>1. m_map = {} /\ Range(m_heap) = {} /\ Range(m_events) = {}
      BY <1>1, <1>5, EmptyIs DEF Structures
    <3> QED
      BY <2>1, <2>5, <3>1, Zenon DEF Events
  <2> QED
    BY <2>2, <2>3, <2>5, <2>7, <2>8, Zenon DEF IsEarliest
<1> QED
  BY <1>1, <1>2, <1>3, <1>4, <1>5, Zenon DEF Structures, Types

(* Remove of a queued event: the uid identifies it, and in the calendar it  *)
(* is found in the bucket of its time.                                      *)
LEMMA RemoveStep ==
    ASSUME Inv, NEW ev \in Events, RemoveEvent(ev)
    PROVE  /\ Structures' /\ Events' = Events \ {ev}
           /\ UNCHANGED <<last, inserted>> /\ cal'.lastPrio = cal.lastPrio
<1>1. \A e \in Events : e.uid = ev.uid => e = ev
  BY DEF Inv, Engine
<1>2. Structures /\ scheduler' = scheduler
  BY DEF Inv, RemoveEvent, Using
<1>3. CASE scheduler = "Map"
  <2>1. /\ Map!Remove(ev) /\ UNCHANGED <<m_heap, m_events, cal, m_qSize, m_reverse>>
    BY <1>3 DEF RemoveEvent, Using, calendarVars
  <2>2. m_map' = m_map \ {ev} /\ UNCHANGED <<last, inserted>>
    BY <2>1 DEF Map!Remove
  <2>3. m_map' \in SUBSET Ev /\ IsFiniteSet(m_map')
    BY <1>2, <2>2, FS_RemoveElement DEF Structures
  <2>4. Structures'
    BY <1>2, <1>3, <2>1, <2>3 DEF Structures, IsCalendar
  <2>5. Events' = Events \ {ev}
    <3>1. Range(m_heap) = {} /\ Range(m_events) = {} /\ CalendarEvents(cal) = {}
      BY <1>2, <1>3, EmptyIs DEF Structures
    <3> QED
      BY <2>1, <2>2, <3>1 DEF Events
  <2> QED
    BY <2>1, <2>2, <2>4, <2>5
<1>4. CASE scheduler = "List"
  <2>1. /\ ListRemove(ev) /\ UNCHANGED <<m_map, m_heap, cal, m_qSize, m_reverse>>
    BY <1>4 DEF RemoveEvent, Using, calendarVars
  <2>2. PICK i \in 1..Len(m_events) : m_events[i].uid = ev.uid /\ m_events' = RemoveAt(m_events, i)
    BY <2>1, Zenon DEF ListRemove
  <2>3. Events = Range(m_events) /\ m_events \in Seq(Ev)
    BY <1>2, <1>4, Contents, Zenon DEF Structures, IsList
  <2>4. m_events[i] = ev
    BY <1>1, <2>2, <2>3, RangeIs
  <2>5. IsList(m_events') /\ Range(m_events') = Range(m_events) \ {ev}
    <3> DEFINE r == FALSE
    <3>1. /\ Ordered(r, m_events)
          /\ IsList(m_events') <=> m_events' \in Seq(Ev) /\ Ordered(r, m_events')
      BY <1>2, Zenon DEF Structures, IsList
    <3> HIDE DEF r
    <3> QED
      BY <2>2, <2>3, <2>4, <3>1, RemoveInOrder
  <2>6. Structures'
    BY <1>2, <1>4, <2>1, <2>5, Zenon DEF Structures, IsCalendar
  <2>7. Events' = Events \ {ev}
    <3>1. m_map = {} /\ Range(m_heap) = {} /\ CalendarEvents(cal) = {}
      BY <1>2, <1>4, EmptyIs DEF Structures
    <3> QED
      BY <2>1, <2>5, <3>1 DEF Events
  <2> QED
    BY <2>1, <2>6, <2>7, Zenon DEF ListRemove
<1>5. CASE scheduler = "Calendar"
  <2> DEFINE b == Hash(cal, ev.ts)
  <2>1. /\ CalendarRemove(ev) /\ UNCHANGED <<m_map, m_heap, m_events>>
    BY <1>5 DEF RemoveEvent, Using
  <2>2. PICK i \in 1..Len(cal.buckets[b]) :
          /\ cal.buckets[b][i].uid = ev.uid
          /\ cal' = ResizeDown([cal EXCEPT !.buckets[b] = RemoveAt(@, i)], m_qSize - 1)
    BY <2>1 DEF CalendarRemove
  <2>3. m_qSize' = m_qSize - 1 /\ UNCHANGED <<m_reverse, last, inserted>>
    BY <2>1 DEF CalendarRemove
  <2>4. Events = CalendarEvents(cal) /\ ev \in Ev
    BY <1>2, <1>5, Contents
  <2>5. m_qSize \in Nat /\ IsCalendar(cal, m_qSize) /\ Load(cal.nBuckets, m_qSize)
    BY <1>2 DEF Structures
  <2>6. cal.buckets[b][i] = ev
    <3>1. cal \in Calendars /\ ev.ts \in Nat
      BY <2>4, <2>5, Zenon DEF IsCalendar, InOrder, InBuckets, Ev
    <3>2. b \in 0..cal.nBuckets-1
      BY <3>1, HashIs, Zenon
    <3>3. cal.buckets[b] \in Seq(Ev)
      BY <3>1, <3>2, Zenon DEF Calendars
    <3>4. cal.buckets[b][i] \in CalendarEvents(cal)
      BY <3>1, <3>2, <3>3, RangeIs, EventsIs, Zenon
    <3> QED
      BY <1>1, <2>2, <2>4, <3>4
  <2>7. /\ IsCalendar(cal', m_qSize - 1) /\ CalendarEvents(cal') = CalendarEvents(cal) \ {ev}
        /\ cal'.lastPrio = cal.lastPrio /\ Load(cal'.nBuckets, m_qSize - 1) /\ m_qSize >= 1
    <3> DEFINE d == ResizeDown([cal EXCEPT !.buckets[b] = RemoveAt(@, i)], m_qSize - 1)
    <3>1. b = Hash(cal, ev.ts) /\ ev \in CalendarEvents(cal)
      BY <2>4
    <3>2. cal' = d
      BY <2>2
    <3> HIDE DEF b
    <3>3. d = ResizeDown([cal EXCEPT !.buckets[b] = RemoveAt(@, i)], m_qSize - 1)
      OBVIOUS
    <3> HIDE DEF d
    <3>4. IsRemoval(cal, m_qSize, ev, b, i, d)
      BY <2>2, <2>5, <2>6, <3>1, <3>3, Zenon DEF IsRemoval
    <3>5. /\ IsCalendar(d, m_qSize - 1) /\ CalendarEvents(d) = CalendarEvents(cal) \ {ev}
          /\ d.lastPrio = cal.lastPrio /\ Load(d.nBuckets, m_qSize - 1) /\ m_qSize >= 1
      BY <3>4, CalendarRemovedIs, Zenon
    <3> QED
      BY <3>2, <3>5
  <2>8. IsCalendar(cal, m_qSize)' /\ m_qSize' \in Nat
    BY <2>3, <2>5, <2>7 DEF IsCalendar
  <2>9. Structures'
    BY <1>2, <1>5, <2>1, <2>3, <2>7, <2>8, Zenon DEF Structures
  <2>10. Events' = Events \ {ev}
    <3>1. m_map = {} /\ Range(m_heap) = {} /\ Range(m_events) = {}
      BY <1>2, <1>5, EmptyIs DEF Structures
    <3> QED
      BY <2>1, <2>7, <3>1, Zenon DEF Events
  <2> QED
    BY <2>3, <2>7, <2>9, <2>10
<1> QED
  BY <1>2, <1>3, <1>4, <1>5, Zenon DEF Structures, Types, RemoveEvent, Using

(* The events in the order in which SetScheduler moves them. *)
LEMMA InTurnIs ==
    ASSUME Structures
    PROVE  /\ InTurn \in Seq(Ev) /\ NoDup(InTurn) /\ Range(InTurn) = Events
<1>1. CASE scheduler = "Map"
  <2>1. InTurn = MapInTurn(m_map) /\ Events = m_map
    BY <1>1, Contents DEF InTurn
  <2> QED
    BY <2>1, MapInTurnIs DEF Structures
<1>2. CASE scheduler = "Heap"
  <2>1. InTurn = HeapInTurn(m_heap) /\ Events = Range(m_heap)
    BY <1>2, Contents DEF InTurn
  <2> QED
    BY <2>1, HeapInTurnIs DEF Structures
<1>3. CASE scheduler = "List"
  <2>1. InTurn = m_events /\ Events = Range(m_events)
    BY <1>3, Contents DEF InTurn
  <2> DEFINE r == FALSE
  <2>2. m_events \in Seq(Ev) /\ Ordered(r, m_events)
    BY Zenon DEF Structures, IsList
  <2> HIDE DEF r
  <2> QED
    BY <2>1, <2>2, OrderedNoDup
<1>4. CASE scheduler = "Calendar"
  <2>1. InTurn = CalendarInTurn(cal, m_qSize) /\ Events = CalendarEvents(cal)
    BY <1>4, Contents DEF InTurn
  <2> QED
    BY <2>1, CalendarInTurnIs DEF Structures
<1> QED
  BY <1>1, <1>2, <1>3, <1>4 DEF Structures, Types

(* SetScheduler: the new scheduler holds what the old one held. *)
LEMMA SetSchedulerStep ==
    ASSUME Inv, NEW type \in Types, SetScheduler(type)
    PROVE  /\ Structures' /\ Events' = Events
           /\ UNCHANGED <<last, inserted>> /\ cal'.lastPrio = 0
<1> DEFINE evs == InTurn
           put == IF type = "Calendar" THEN evs ELSE <<>>
<1>1. evs \in Seq(Ev) /\ NoDup(evs) /\ Range(evs) = Events
  BY InTurnIs DEF Inv
<1>2. Events \in SUBSET Ev /\ IsFiniteSet(Events)
  <2>1. Events \in SUBSET Ev
    BY Contents DEF Inv
  <2>2. IsFiniteSet(Range(evs))
    <3> DEFINE n == Len(evs)
    <3>1. n \in Nat /\ 1 \in Int /\ n \in Int /\ evs \in [1..n -> Ev]
      BY <1>1
    <3>2. evs \in Surjection(1..n, Range(evs))
      BY <1>1, RangeIs DEF Surjection
    <3> HIDE DEF n
    <3>3. IsFiniteSet(1..n)
      BY <3>1, FS_Interval
    <3> QED
      BY <3>2, <3>3, FS_Surjection
  <2> QED
    BY <1>1, <2>1, <2>2
<1>3. /\ scheduler' = type
      /\ m_map' = IF type = "Map" THEN Range(evs) ELSE {}
      /\ m_heap' = IF type = "Heap" THEN HeapOf(evs) ELSE <<>>
      /\ m_events' = IF type = "List" THEN ListOf(evs) ELSE <<>>
      /\ cal' = CalendarOf(put)
      /\ m_qSize' = Len(put)
      /\ UNCHANGED <<m_reverse, last, inserted>>
  BY DEF SetScheduler
<1> HIDE DEF evs
<1>4. put \in Seq(Ev) /\ NoDup(put) /\ Len(put) \in Nat
  BY <1>1 DEF NoDup
<1>5. /\ Range(put) = IF type = "Calendar" THEN Events ELSE {}
  BY <1>1, EmptyIs, Zenon
<1> HIDE DEF put
<1>6. /\ IsCalendar(cal', m_qSize') /\ Load(cal'.nBuckets, m_qSize') /\ m_qSize' \in Nat
      /\ CalendarEvents(cal') = Range(put) /\ cal'.lastPrio = 0
  BY <1>3, <1>4, CalendarOfIs, Zenon
<1>7. IsCalendar(cal, m_qSize)'
  BY <1>3, <1>6 DEF IsCalendar
<1>8. /\ m_map' \in SUBSET Ev /\ IsFiniteSet(m_map')
      /\ m_map' = IF type = "Map" THEN Events ELSE {}
  BY <1>1, <1>2, <1>3, FS_EmptySet
<1>9. IsHeap(m_heap') /\ Range(m_heap') = IF type = "Heap" THEN Events ELSE {}
  <2>1. IsHeap(HeapOf(evs)) /\ Range(HeapOf(evs)) = Events
    BY <1>1, HeapOfIs
  <2>2. IsHeap(<<>>) /\ Range(<<>>) = {}
    BY EmptyIs DEF IsHeap, HeapOrdered
  <2> QED
    BY <1>3, <2>1, <2>2, Zenon
<1>10. IsList(m_events') /\ Range(m_events') = IF type = "List" THEN Events ELSE {}
  <2>1. IsList(ListOf(evs)) /\ Range(ListOf(evs)) = Events
    BY <1>1, ListOfIs
  <2>2. IsList(<<>>) /\ Range(<<>>) = {}
    BY EmptyIs, Zenon DEF IsList
  <2> QED
    BY <1>3, <2>1, <2>2
<1>11. Structures'
  BY <1>3, <1>5, <1>6, <1>7, <1>8, <1>9, <1>10, Zenon DEF Structures
<1>12. Events' = Events
  BY <1>5, <1>6, <1>8, <1>9, <1>10, Zenon DEF Events, Types
<1> QED
  BY <1>3, <1>6, <1>11, <1>12

-----------------------------------------------------------------------------
(* The inductive invariant. *)

(* The invariant holds at the start, without events. *)
LEMMA InitIsInv ==
    ASSUME Init
    PROVE  Inv /\ Events = {}
<1>1. /\ scheduler \in Types /\ m_map = {} /\ EngineInit /\ m_heap = <<>> /\ m_events = <<>>
      /\ cal = NewCalendar(2, 1, 0) /\ m_qSize = 0
  BY DEF Init, Map!Init, Map!EngineInit, EngineInit, HeapInit, ListInit, CalendarInit
<1>2. IsHeap(m_heap) /\ Range(m_heap) = {} /\ Range(m_events) = {}
  BY <1>1, EmptyIs DEF IsHeap, HeapOrdered
<1>3. IsList(m_events)
  BY <1>1, EmptyIs, Zenon DEF IsList
<1>4. /\ IsCalendar(cal, m_qSize) /\ Load(cal.nBuckets, m_qSize) /\ CalendarEvents(cal) = {}
      /\ cal.lastPrio = 0
  BY <1>1, StartIs
<1>5. Structures
  BY <1>1, <1>2, <1>3, <1>4, FS_EmptySet, Zenon DEF Structures
<1>6. Events = {}
  BY <1>1, <1>2, <1>4 DEF Events
<1>7. Engine
  BY <1>1, <1>4, <1>6 DEF Engine, EngineInit, Ev
<1> QED
  BY <1>5, <1>6, <1>7 DEF Inv

(* Insert keeps the invariant and is Insert of the event list. *)
LEMMA InsertIs ==
    ASSUME Inv, Insert
    PROVE  Inv' /\ List!Insert
<1>1. PICK delay \in Delays :
        /\ NewEvent(delay) \in Ev /\ last.ts <= NewEvent(delay).ts
        /\ Events' = Events \union {NewEvent(delay)}
        /\ EngineInsert /\ cal'.lastPrio = cal.lastPrio
  BY InsertStep
<1>2. /\ last' = last /\ inserted' = inserted + 1 /\ NewEvent(delay).uid = inserted + 1
      /\ inserted < MaxInserts
  BY <1>1 DEF EngineInsert, NewEvent
<1>3. List!Insert
  BY <1>1, Zenon DEF List!Insert, List!EngineInsert, List!NewEvent, EngineInsert, NewEvent
<1>4. /\ last \in Ev /\ inserted \in Nat /\ cal.lastPrio <= last.ts
      /\ \A e \in Events : last.ts <= e.ts /\ e.uid <= inserted
      /\ \A e, f \in Events : e.uid = f.uid => e = f
      /\ Events \in SUBSET Ev
  BY Contents DEF Inv, Engine
<1>5. \A e \in Events : e.uid \in Nat /\ e.uid <= inserted + 1 /\ e.uid # inserted + 1
  BY <1>4 DEF Ev
<1>6. \A e \in Events' : last.ts <= e.ts /\ e.uid <= inserted + 1
  BY <1>1, <1>2, <1>4, <1>5
<1>7. \A e, f \in Events' : e.uid = f.uid => e = f
  BY <1>1, <1>2, <1>4, <1>5
<1>8. Engine'
  BY <1>1, <1>2, <1>4, <1>6, <1>7 DEF Engine
<1> QED
  BY <1>3, <1>8, InsertStep DEF Inv

(* RemoveNext keeps it and is RemoveNext of the event list. *)
LEMMA RemoveNextIs ==
    ASSUME Inv, RemoveNext
    PROVE  Inv' /\ List!RemoveNext
<1>1. PICK next \in Events :
        /\ IsEarliest(next, Events) /\ Events' = Events \ {next}
        /\ EngineRuns(next) /\ (cal'.lastPrio = cal.lastPrio \/ cal'.lastPrio = next.ts)
  BY RemoveNextStep
<1>2. last' = next /\ inserted' = inserted
  BY <1>1 DEF EngineRuns
<1>3. List!RemoveNext
  BY <1>1, <1>2 DEF List!RemoveNext, List!TakeOut, List!EngineRuns, List!Before, Before, IsEarliest
<1>4. /\ last \in Ev /\ inserted \in Nat /\ cal.lastPrio <= last.ts
      /\ \A e \in Events : last.ts <= e.ts /\ e.uid <= inserted
      /\ \A e, f \in Events : e.uid = f.uid => e = f
      /\ Events \in SUBSET Ev
  BY Contents DEF Inv, Engine
<1>5. cal.lastPrio \in Nat
  BY CalendarIs, Zenon DEF Inv, Structures, IsCalendar, InOrder, InBuckets
<1>6. \A e \in Events' : next.ts <= e.ts /\ e.uid <= inserted
  BY <1>1, <1>4 DEF IsEarliest, Before, Ev
<1>7. cal'.lastPrio <= next.ts
  BY <1>1, <1>4, <1>5 DEF Ev
<1>8. Engine'
  BY <1>1, <1>2, <1>4, <1>6, <1>7 DEF Engine
<1> QED
  BY <1>3, <1>8, RemoveNextStep DEF Inv

(* Remove keeps it and is Remove of the event list. *)
LEMMA RemoveIs ==
    ASSUME Inv, NEW ev \in Events, RemoveEvent(ev)
    PROVE  Inv' /\ List!Remove(ev)
<1>1. /\ Events' = Events \ {ev} /\ UNCHANGED <<last, inserted>>
      /\ cal'.lastPrio = cal.lastPrio /\ Structures'
  BY RemoveStep, Zenon
<1>2. List!Remove(ev)
  BY <1>1, Zenon DEF List!Remove
<1>3. Engine'
  BY <1>1 DEF Inv, Engine
<1> QED
  BY <1>1, <1>2, <1>3 DEF Inv

(* SetScheduler keeps it and does not change the event list. *)
LEMMA SetSchedulerIs ==
    ASSUME Inv, NEW type \in Types, SetScheduler(type)
    PROVE  Inv' /\ UNCHANGED <<Events, last, inserted>>
<1>1. /\ Events' = Events /\ UNCHANGED <<last, inserted>> /\ cal'.lastPrio = 0 /\ Structures'
  BY SetSchedulerStep
<1>2. Engine'
  BY <1>1 DEF Inv, Engine, Ev
<1> QED
  BY <1>1, <1>2 DEF Inv

(* Every step keeps the invariant and is a step of the event list, or none. *)
LEMMA NextIs ==
    ASSUME Inv, [Next]_vars
    PROVE  Inv' /\ [List!Next]_<<Events, last, inserted>>
<1>1. CASE Insert
  BY <1>1, InsertIs DEF List!Next
<1>2. CASE RemoveNext
  BY <1>2, RemoveNextIs DEF List!Next
<1>3. ASSUME NEW ev \in Events, RemoveEvent(ev)
      PROVE  Inv' /\ [List!Next]_<<Events, last, inserted>>
  BY <1>3, RemoveIs DEF List!Next
<1>4. ASSUME NEW type \in Types, SetScheduler(type)
      PROVE  Inv' /\ [List!Next]_<<Events, last, inserted>>
  BY <1>4, SetSchedulerIs
<1>5. CASE UNCHANGED vars
  <2>1. UNCHANGED <<scheduler, m_map, m_heap, m_events, cal, m_qSize, m_reverse, last, inserted>>
    BY <1>5 DEF vars, calendarVars
  <2>2. Events' = Events
    BY <2>1 DEF Events
  <2>3. IsCalendar(cal, m_qSize)' = IsCalendar(cal, m_qSize)
    BY <2>1 DEF IsCalendar
  <2> QED
    BY <2>1, <2>2, <2>3, Zenon DEF Inv, Structures, Engine
<1> QED
  BY <1>1, <1>2, <1>3, <1>4, <1>5 DEF Next

(* The invariant implies the two properties of the calendar. *)
LEMMA InvMeans ==
    ASSUME Inv
    PROVE  BucketsConsistent /\ ScanNotAhead
<1>1. /\ InOrder(m_reverse, cal) /\ Load(cal.nBuckets, m_qSize) /\ cal.lastPrio <= last.ts
      /\ cal \in Calendars /\ InBuckets(m_reverse, cal) /\ ScanAt(cal)
  BY Zenon DEF Inv, Structures, Engine, IsCalendar, InOrder, InBuckets
<1>2. cal.nBuckets >= 1 /\ cal.width >= 1
  BY <1>1, CalendarIs, Zenon
<1>3. BucketsConsistent
  BY <1>1, <1>2, Zenon DEF BucketsConsistent, InBuckets, Load
<1> QED
  BY <1>1, <1>3 DEF ScanNotAhead, ScanAt

-----------------------------------------------------------------------------
(* Every queued event is in the bucket that CalendarScheduler::Hash names,  *)
(* where Remove looks for it, after any sequence of Insert, RemoveNext,     *)
(* Remove, resizes and SetScheduler; and the number of buckets follows the  *)
(* number of events within the limits of ResizeUp and ResizeDown.           *)
THEOREM BucketsStayConsistent == Spec => []BucketsConsistent
<1>1. Init => Inv
  BY InitIsInv
<1>2. Inv /\ [Next]_vars => Inv'
  BY NextIs
<1>3. Inv => BucketsConsistent
  BY InvMeans
<1> QED
  BY <1>1, <1>2, <1>3, PTL DEF Spec

(* The position that CalendarScheduler keeps between two calls is the day   *)
(* of m_lastPrio, and that is never after the event that RemoveNext         *)
(* returned last.                                                           *)
THEOREM ScanStaysBehind == Spec => []ScanNotAhead
<1>1. Init => Inv
  BY InitIsInv
<1>2. Inv /\ [Next]_vars => Inv'
  BY NextIs
<1>3. Inv => ScanNotAhead
  BY InvMeans
<1> QED
  BY <1>1, <1>2, <1>3, PTL DEF Spec

(* Whatever scheduler the engine uses, and however often SetScheduler       *)
(* replaces it: the std::map, the sorted list, the binary heap with its     *)
(* sifts and the calendar queue with its resizes all behave as one set of   *)
(* events from which RemoveNext takes the earliest.                         *)
THEOREM SchedulersAreEventLists == Spec => IsEventList
<1>1. Init => Inv /\ List!Init
  BY InitIsInv DEF Init, Map!Init, Map!EngineInit, List!Init, List!EngineInit
<1>2. Inv /\ [Next]_vars => Inv' /\ [List!Next]_(List!vars)
  BY NextIs DEF List!vars
<1> QED
  BY <1>1, <1>2, PTL DEF Spec, IsEventList, List!Spec
=============================================================================
