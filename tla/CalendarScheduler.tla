-------------------------- MODULE CalendarScheduler --------------------------
(***************************************************************************)
(* The calendar queue of ns3::CalendarScheduler: an array of buckets, each *)
(* a sorted list, where a bucket holds the events of one "day" of every    *)
(* "year"; the number of buckets and the length of a day follow the load.  *)
(*                                                                         *)
(* The members that the private helpers change together are one record,    *)
(* so that a helper is a function from calendars to calendars and the      *)
(* public operations compose them as the code does.                        *)
(***************************************************************************)
EXTENDS EventKey, Containers

VARIABLES
    cal,         \* m_buckets, m_nBuckets, m_width, m_lastPrio, m_lastBucket, m_bucketTop
    m_qSize,
    m_reverse    \* attribute Reverse: the buckets are sorted latest first

MAX_BUCKETS == 32768

CalendarEvents(c) == UNION {Range(c.buckets[i]) : i \in 0..c.nBuckets-1}

(* NextEvent, Order and Pop, the three functions SetReverse chooses. *)
NextEvent(bucket) == IF m_reverse THEN bucket[Len(bucket)] ELSE bucket[1]
Order(a, b) == IF m_reverse THEN Before(b, a) ELSE Before(a, b)
Pop(bucket) == IF m_reverse THEN RemoveAt(bucket, Len(bucket)) ELSE RemoveAt(bucket, 1)

Hash(c, ts) == (ts \div c.width) % c.nBuckets

(* Mutant: the first bucket of a new calendar ends one day late. *)
NewCalendarLate(nBuckets, width, startPrio) ==
    [buckets |-> [i \in 0..nBuckets-1 |-> <<>>],
     nBuckets |-> nBuckets, width |-> width, lastPrio |-> startPrio,
     lastBucket |-> (startPrio \div width) % nBuckets,
     bucketTop |-> (startPrio \div width + 2) * width]

NewCalendar(nBuckets, width, startPrio) ==
    [buckets |-> [i \in 0..nBuckets-1 |-> <<>>],
     nBuckets |-> nBuckets, width |-> width, lastPrio |-> startPrio,
     lastBucket |-> (startPrio \div width) % nBuckets,
     bucketTop |-> (startPrio \div width + 1) * width]

(* Before the first element the event must precede, or at the end. *)
DoInsert(c, ev) ==
    LET bucket == c.buckets[Hash(c, ev.ts)]
        later == {i \in 1..Len(bucket) : Order(ev, bucket[i])}
        place == Min(later \union {Len(bucket) + 1})
    IN  [c EXCEPT !.buckets[Hash(c, ev.ts)] = InsertAt(bucket, place, ev)]

InsertAll(c, evs) == Loop(LAMBDA d, i : DoInsert(d, evs[i]), c, Len(evs))

(* The scan visits the buckets from lastBucket, one day later at each; an   *)
(* event of the day being visited is returned, and after a whole year       *)
(* without one the earliest event of all.                                   *)
Visited(c, k) == (c.lastBucket + k) % c.nBuckets
TopAt(c, k) == c.bucketTop + k * c.width
Due(c, k) ==
    LET bucket == c.buckets[Visited(c, k)]
    IN  bucket # <<>> /\ NextEvent(bucket).ts < TopAt(c, k)
DueVisits(c) == {k \in 0..c.nBuckets-1 : Due(c, k)}

EarliestBucket(c) ==
    CHOOSE i \in 0..c.nBuckets-1 :
        /\ c.buckets[i] # <<>>
        /\ \A j \in 0..c.nBuckets-1 :
             c.buckets[j] = <<>> \/ ~Before(NextEvent(c.buckets[j]), NextEvent(c.buckets[i]))

PeekNext(c) ==
    IF DueVisits(c) # {} THEN NextEvent(c.buckets[Visited(c, Min(DueVisits(c)))])
                         ELSE NextEvent(c.buckets[EarliestBucket(c)])

DoRemoveNext(c) ==
    LET ts == PeekNext(c).ts
        k == Min(DueVisits(c))
        i == IF DueVisits(c) # {} THEN Visited(c, k) ELSE EarliestBucket(c)
    IN  [c EXCEPT !.lastPrio = ts,
                  !.lastBucket = IF DueVisits(c) # {} THEN i ELSE Hash(c, ts),
                  !.bucketTop = IF DueVisits(c) # {} THEN TopAt(c, k)
                                ELSE (ts \div c.width + 1) * c.width,
                  !.buckets[i] = Pop(@)]

-----------------------------------------------------------------------------
(* CalculateNewWidth takes samples out with DoRemoveNext, puts them back    *)
(* and restores the position of the scan.                                   *)
NSamples(qSize) == Min({25, IF qSize <= 5 THEN qSize ELSE 5 + qSize \div 10})

SampledOne(taken) ==
    [cal |-> DoRemoveNext(taken.cal), samples |-> Append(taken.samples, PeekNext(taken.cal))]

Sampled(c, n) ==
    Loop(LAMBDA taken, i : SampledOne(taken), [cal |-> c, samples |-> <<>>], n)

(* Mutant: the samples are not inserted again. *)
PutBackNothing(c, taken) ==
    [taken.cal EXCEPT
        !.lastBucket = c.lastBucket, !.bucketTop = c.bucketTop, !.lastPrio = c.lastPrio]

PutBack(c, taken) ==
    [InsertAll(taken.cal, taken.samples) EXCEPT
        !.lastBucket = c.lastBucket, !.bucketTop = c.bucketTop, !.lastPrio = c.lastPrio]

(* The separations of the samples, and three times the total of those that  *)
(* are not outliers.                                                        *)
Diff(samples, i) == samples[i+1].ts - samples[i].ts
TwiceAvg(samples) ==
    LET total == Loop(LAMBDA sum, i : sum + Diff(samples, i), 0, Len(samples) - 1)
    IN  (total \div (Len(samples) - 1)) * 2
TotalSeparation(samples) ==
    Loop(LAMBDA sum, i : IF Diff(samples, i) <= TwiceAvg(samples)
                         THEN sum + Diff(samples, i) ELSE sum,
         0, Len(samples) - 1)

WidthOf(samples) == Max({1, 3 * TotalSeparation(samples)})

(* Mutant: the old buckets are kept, and only the new ones are empty. *)
DoResizeInPlace(c, newSize, newWidth) ==
    LET new == NewCalendar(newSize, newWidth, c.lastPrio)
    IN  [new EXCEPT !.buckets =
           [i \in 0..newSize-1 |-> IF i < c.nBuckets THEN c.buckets[i] ELSE <<>>]]

DoResize(c, newSize, newWidth) ==
    Loop(LAMBDA d, i : InsertAll(d, c.buckets[i-1]),
         NewCalendar(newSize, newWidth, c.lastPrio), c.nBuckets)

Resize(c, qSize, newSize) ==
    IF qSize < 2 THEN DoResize(c, newSize, 1)
    ELSE LET taken == Sampled(c, NSamples(qSize))
         IN  DoResize(PutBack(c, taken), newSize, WidthOf(taken.samples))

ResizeUp(c, qSize) ==
    IF qSize > c.nBuckets * 2 /\ c.nBuckets < MAX_BUCKETS
    THEN Resize(c, qSize, c.nBuckets * 2) ELSE c

ResizeDown(c, qSize) ==
    IF qSize < c.nBuckets \div 2 THEN Resize(c, qSize, c.nBuckets \div 2) ELSE c

(* Insert and RemoveNext on a calendar of qSize events. *)
CalendarInserted(c, qSize, ev) == ResizeUp(DoInsert(c, ev), qSize + 1)
TakenNext(c, qSize) == ResizeDown(DoRemoveNext(c), qSize - 1)

-----------------------------------------------------------------------------
CalendarInit ==
    /\ cal = NewCalendar(2, 1, 0)
    /\ m_qSize = 0
    /\ m_reverse \in BOOLEAN

CalendarInsert ==
    /\ EngineInsert
    /\ m_qSize' = m_qSize + 1
    /\ \E delay \in Delays : cal' = CalendarInserted(cal, m_qSize, NewEvent(delay))
    /\ UNCHANGED m_reverse

CalendarRemoveNext ==
    /\ m_qSize # 0
    /\ EngineRuns(PeekNext(cal))
    /\ m_qSize' = m_qSize - 1
    /\ cal' = TakenNext(cal, m_qSize)
    /\ UNCHANGED m_reverse

(* The event is looked for in the bucket of its time only. *)
CalendarRemove(ev) ==
    /\ LET b == Hash(cal, ev.ts)
       IN  \E i \in 1..Len(cal.buckets[b]) :
             /\ cal.buckets[b][i].uid = ev.uid
             /\ cal' = ResizeDown([cal EXCEPT !.buckets[b] = RemoveAt(@, i)], m_qSize - 1)
    /\ m_qSize' = m_qSize - 1
    /\ UNCHANGED <<m_reverse, last, inserted>>

-----------------------------------------------------------------------------
(* Remove looks for an event in the bucket of its time only, and asserts    *)
(* that it finds it: every event stays where Hash says, also after the      *)
(* number of buckets or the width changed.  That number follows the number  *)
(* of events, up to MAX_BUCKETS, and never reaches zero, where Hash would   *)
(* divide by it.                                                            *)
BucketsConsistent ==
    /\ \A i \in 0..cal.nBuckets-1 : \A ev \in Range(cal.buckets[i]) : Hash(cal, ev.ts) = i
    /\ cal.nBuckets >= 1 /\ cal.width >= 1
    /\ m_qSize <= 2 * cal.nBuckets \/ cal.nBuckets >= MAX_BUCKETS
    /\ cal.nBuckets <= 2 \/ m_qSize >= cal.nBuckets \div 2

(* The scan never starts after an event: the day it starts with is that of  *)
(* the last event returned, or an earlier one, so that nothing queued is a  *)
(* year behind.                                                             *)
ScanNotAhead ==
    /\ cal.lastPrio <= last.ts
    /\ cal.bucketTop = (cal.lastPrio \div cal.width + 1) * cal.width
    /\ cal.lastBucket = Hash(cal, cal.lastPrio)
=============================================================================
