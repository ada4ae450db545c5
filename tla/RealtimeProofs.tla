--------------------------- MODULE RealtimeProofs ---------------------------
(***************************************************************************)
(* Proofs about the realtime engine, for any number of threads and events, *)
(* any delays and any clock.                                               *)
(*                                                                         *)
(* That no event runs early rests on what the main thread knows while it   *)
(* waits: an event that is due by the deadline stays in the queue, because *)
(* the other threads only add events.  That nothing is scheduled in the    *)
(* past rests on the simulation time staying behind the wall clock, which  *)
(* holds in the first Run and fails in the second (run realtime_restart).  *)
(***************************************************************************)
EXTENDS RealtimeSimulator, WellFoundedInduction, FiniteSetTheorems, TLAPS

-----------------------------------------------------------------------------
(* Least and greatest elements. *)

(* A set of times has a least one. *)
LEMMA LeastNatural ==
    ASSUME NEW S \in SUBSET Nat, S # {}
    PROVE  \E n \in S : \A m \in S : n <= m
<1>1. PICK n \in S : \A m \in S : ~ (<<m, n>> \in OpToRel(<, Nat))
  BY NatLessThanWellFounded, WFMin
<1>2. \A a, b \in Nat : a < b => <<a, b>> \in OpToRel(<, Nat)
  BY SMT DEF OpToRel
<1>3. \A m \in S : ~(m < n)
  BY <1>1, <1>2, Zenon
<1> QED
  BY <1>3

LEMMA MinNat ==
    ASSUME NEW S \in SUBSET Nat, S # {}
    PROVE  Min(S) \in S /\ \A m \in S : Min(S) <= m
BY LeastNatural DEF Min

(* The greatest element of a bounded set. *)
LEMMA MaxNat ==
    ASSUME NEW S \in SUBSET Nat, S # {}, NEW b \in Nat, \A m \in S : m <= b
    PROVE  Max(S) \in S /\ \A m \in S : Max(S) >= m
<1> DEFINE D == {d \in Nat : \E m \in S : d = b - m}
<1>1. D # {}
  <2>1. PICK m \in S : TRUE
    OBVIOUS
  <2>2. b - m \in Nat
    OBVIOUS
  <2> QED
    BY <2>2
<1>2. PICK x \in D : \A y \in D : x <= y
  BY <1>1, LeastNatural
<1>3. PICK n \in S : x = b - n
  OBVIOUS
<1>4. ASSUME NEW m \in S PROVE n >= m
  <2>1. b - m \in D
    OBVIOUS
  <2>2. b - n <= b - m
    BY <1>2, <1>3, <2>1
  <2> QED
    BY <2>2
<1> QED
  BY <1>4 DEF Max

-----------------------------------------------------------------------------


Waiting == pc \in {"synchronize", "timedWait", "sleep", "refused", "spin"}

(* Every uid handed out is below the next one. *)
QueueInv ==
    /\ TypeOK /\ runs \in Nat
    /\ IsFiniteSet(m_events)
    /\ \A e \in m_events : e.uid < m_uid

(* What the main thread waits for is in the queue, and due when it is taken. *)
DueInv ==
    /\ pc = "prepare" => m_events # {}
    /\ Waiting /\ ~idle => \E e \in m_events : e.ts <= deadline
    /\ pc = "take" => \E e \in m_events : e.ts <= Realtime
    /\ pc \in {"handler", "fatal"} => m_currentTs <= Realtime

(* In the first Run the simulation time is behind the wall clock and behind *)
(* every event.                                                             *)
FirstRunInv ==
    /\ runs = 0 => pc = "outside"
    /\ runs <= 1 =>
         /\ NothingInThePast
         /\ m_currentTs <= Realtime
         /\ runs = 0 \/ pc = "setOrigin" => m_currentTs = 0

RealtimeInv == QueueInv /\ DueInv /\ NoOversleep /\ FirstRunInv
-----------------------------------------------------------------------------
(* NextTs is the time of an event, and no event is earlier. *)
LEMMA NextTsFacts ==
    ASSUME QueueInv, m_events # {}
    PROVE  /\ NextTs \in Nat
           /\ \E e \in m_events : e.ts = NextTs
           /\ \A e \in m_events : e.ts >= NextTs
<1> DEFINE S == {e.ts : e \in m_events}
<1>1. S \in SUBSET Nat /\ S # {}
  BY DEF QueueInv, TypeOK, EventType
<1>2. Min(S) \in S /\ \A t \in S : Min(S) <= t
  <2> HIDE DEF S
  <2> QED
    BY <1>1, MinNat
<1> QED
  BY <1>1, <1>2 DEF NextTs

(* The greater of two times. *)
LEMMA MaxPair ==
    ASSUME NEW a \in Nat, NEW b \in Nat
    PROVE  /\ Max({a, b}) \in {a, b}
           /\ Max({a, b}) >= a /\ Max({a, b}) >= b
<1>1. {a, b} \in SUBSET Nat /\ {a, b} # {} /\ a + b \in Nat /\ \A m \in {a, b} : m <= a + b
  OBVIOUS
<1>2. Max({a, b}) \in {a, b} /\ \A m \in {a, b} : Max({a, b}) >= m
  BY <1>1, MaxNat
<1> QED
  BY <1>2

LEMMA RealtimeNat ==
    ASSUME TypeOK
    PROVE  Realtime \in Nat
BY DEF TypeOK, Realtime

(* The initial state. *)
LEMMA InitRealtime == Init => RealtimeInv
<1> SUFFICES ASSUME Init PROVE RealtimeInv
  OBVIOUS
<1> USE RealtimeAssumption
<1>1. QueueInv
  <2>1. IsFiniteSet(m_events) /\ Cardinality(m_events) = 0
    BY FS_EmptySet, Zenon DEF Init
  <2>2. {m_condition, m_stop, m_running, idle} \subseteq BOOLEAN
    BY Zenon DEF Init
  <2> QED
    BY <2>1, <2>2 DEF Init, QueueInv, TypeOK, EventType
<1>2. DueInv /\ NoOversleep /\ FirstRunInv
  BY DEF Init, DueInv, NoOversleep, FirstRunInv, NothingInThePast, Waiting, Realtime
<1> QED
  BY <1>1, <1>2 DEF RealtimeInv

(* An insertion, by any thread, of an event that is not in the past. *)
LEMMA InsertKeeps ==
    ASSUME RealtimeInv, NEW ts \in Nat, Insert(ts), runs <= 1 => ts >= m_currentTs
    PROVE  RealtimeInv'
<1> USE DEF RealtimeInv
<1> DEFINE ev == [ts |-> ts, uid |-> m_uid]
<1>1. ev \in EventType /\ ev.uid = m_uid /\ ev.ts = ts
  BY DEF QueueInv, TypeOK, EventType
<1>2. /\ m_events' = m_events \union {ev} /\ m_uid' = m_uid + 1
      /\ m_unscheduledEvents' = m_unscheduledEvents + 1 /\ m_condition' = TRUE
      /\ UNCHANGED <<wall, m_realtimeOriginNano, m_currentTs, m_currentUid, m_stop, m_running,
                     m_synchronizationMode, runs, pc, deadline, timeout, idle>>
  BY DEF Insert, Signal, clockVars, runVars, waitVars
<1> HIDE DEF ev
<1>3. ev \notin m_events
  BY <1>1 DEF QueueInv, TypeOK
<1>4. IsFiniteSet(m_events') /\ Cardinality(m_events') = Cardinality(m_events) + 1
  BY <1>2, <1>3, FS_AddElement DEF QueueInv
<1>5. QueueInv'
  BY <1>1, <1>2, <1>4 DEF QueueInv, TypeOK, EventType
<1>6. DueInv'
  BY <1>2 DEF DueInv, Waiting, Realtime
<1>7. NoOversleep'
  BY <1>2 DEF NoOversleep
<1>8. FirstRunInv'
  BY <1>1, <1>2 DEF FirstRunInv, NothingInThePast, Realtime
<1> QED
  BY <1>5, <1>6, <1>7, <1>8

(* The three ways to schedule. *)
LEMMA SchedulesKeep ==
    ASSUME RealtimeInv,
           \/ Schedule
           \/ \E t \in Foreign : ScheduleWithContextForeign(t) \/ ScheduleRealtimeWithContext(t)
    PROVE  RealtimeInv'
<1>1. /\ m_currentTs \in Nat /\ Realtime \in Nat
      /\ runs <= 1 => Realtime >= m_currentTs
      /\ \A delay \in Delays : delay \in Nat
  BY RealtimeNat, RealtimeAssumption DEF RealtimeInv, QueueInv, TypeOK, FirstRunInv
<1>2. PICK delay \in Delays : Insert(m_currentTs + delay) \/ Insert(Realtime + delay)
  BY Zenon DEF Schedule, ScheduleWithContextForeign, ScheduleRealtimeWithContext
<1>3. CASE Insert(m_currentTs + delay)
  <2>1. m_currentTs + delay \in Nat /\ m_currentTs + delay >= m_currentTs
    BY <1>1
  <2> QED
    BY <1>3, <2>1, InsertKeeps
<1>4. CASE Insert(Realtime + delay)
  <2>1. Realtime + delay \in Nat /\ (runs <= 1 => Realtime + delay >= m_currentTs)
    BY <1>1 DEF RealtimeInv, QueueInv
  <2> QED
    BY <1>4, <2>1, InsertKeeps
<1> QED
  BY <1>2, <1>3, <1>4

(* Remove: the main thread is not in Run, or a handler is executing. *)
LEMMA RemoveKeeps ==
    ASSUME RealtimeInv, NEW ev \in m_events, RemoveEvent(ev)
    PROVE  RealtimeInv'
<1> USE DEF RealtimeInv
<1>1. /\ pc \in {"outside", "handler"}
      /\ m_events' = m_events \ {ev}
      /\ m_unscheduledEvents' = m_unscheduledEvents - 1
      /\ UNCHANGED <<wall, m_realtimeOriginNano, m_condition, m_uid, m_currentTs, m_currentUid,
                     m_stop, m_running, m_synchronizationMode, runs, pc, deadline, timeout, idle>>
  BY DEF RemoveEvent, InUserCode, syncVars, clockVars, runVars, waitVars
<1>2. IsFiniteSet(m_events') /\ Cardinality(m_events') = Cardinality(m_events) - 1
  BY <1>1, FS_RemoveElement DEF QueueInv
<1>3. QueueInv'
  BY <1>1, <1>2 DEF QueueInv, TypeOK, EventType
<1>4. DueInv' /\ NoOversleep' /\ FirstRunInv'
  BY <1>1 DEF DueInv, NoOversleep, FirstRunInv, NothingInThePast, Waiting, Realtime
<1> QED
  BY <1>3, <1>4

(* Taking the earliest event, which is due because some event is. *)
LEMMA TakeKeeps ==
    ASSUME RealtimeInv, TakeNext
    PROVE  RealtimeInv'
<1> USE DEF RealtimeInv
<1>1. PICK next \in m_events :
         /\ \A e \in m_events : e = next \/ Before(next, e)
         /\ m_events' = m_events \ {next}
         /\ m_currentTs' = next.ts /\ m_currentUid' = next.uid
         /\ pc' \in {"fatal", "handler"}
  BY Zenon DEF TakeNext
<1>2. /\ pc = "take" /\ m_unscheduledEvents' = m_unscheduledEvents - 1
      /\ UNCHANGED <<wall, m_realtimeOriginNano, m_condition, m_uid, m_stop, m_running,
                     m_synchronizationMode, runs, deadline, timeout, idle>>
  BY DEF TakeNext, syncVars, runVars, waitVars
<1>3. IsFiniteSet(m_events') /\ Cardinality(m_events') = Cardinality(m_events) - 1
  BY <1>1, FS_RemoveElement DEF QueueInv
<1>4. \A e \in m_events : e.ts \in Nat /\ e.uid \in Nat /\ next.ts <= e.ts
  BY <1>1 DEF QueueInv, TypeOK, EventType, Before
<1>5. next.ts <= Realtime
  BY <1>2, <1>4, RealtimeNat DEF DueInv, QueueInv
<1>6. QueueInv'
  BY <1>1, <1>2, <1>3, <1>4 DEF QueueInv, TypeOK, EventType
<1>7. DueInv' /\ NoOversleep'
  BY <1>1, <1>2, <1>5 DEF DueInv, NoOversleep, Waiting, Realtime
<1>8. FirstRunInv'
  BY <1>1, <1>2, <1>4, <1>5 DEF FirstRunInv, NothingInThePast, Realtime
<1> QED
  BY <1>6, <1>7, <1>8

(* Deciding how long to wait: the deadline is that of the earliest event,  *)
(* or it has passed.                                                       *)
LEMMA PrepareKeeps ==
    ASSUME RealtimeInv, Prepare
    PROVE  RealtimeInv'
<1> USE DEF RealtimeInv
<1>1. /\ pc = "prepare" /\ deadline' = Max({NextTs, Realtime})
      /\ idle' = FALSE /\ m_condition' = FALSE /\ pc' = "synchronize"
      /\ UNCHANGED <<wall, m_realtimeOriginNano, m_events, m_uid, m_unscheduledEvents,
                     m_currentTs, m_currentUid, m_stop, m_running, m_synchronizationMode, runs,
                     timeout>>
  BY DEF Prepare, queueVars, clockVars, runVars
<1>2. /\ NextTs \in Nat
      /\ \E e \in m_events : e.ts = NextTs
      /\ \A e \in m_events : e.ts >= NextTs
  BY <1>1, NextTsFacts DEF DueInv
<1>3. Realtime \in Nat /\ Realtime' = Realtime
  BY <1>1, RealtimeNat DEF QueueInv, Realtime
<1>4. deadline' \in {NextTs, Realtime} /\ deadline' >= NextTs /\ deadline' >= Realtime
  BY <1>1, <1>2, <1>3, MaxPair
<1>5. QueueInv'
  BY <1>1, <1>2, <1>3, <1>4 DEF QueueInv, TypeOK
<1>6. DueInv'
  BY <1>1, <1>2, <1>4 DEF DueInv, Waiting
<1>7. NoOversleep'
  BY <1>1, <1>2, <1>3, <1>4 DEF NoOversleep
<1>8. FirstRunInv'
  BY <1>1, <1>3 DEF FirstRunInv, NothingInThePast
<1> QED
  BY <1>5, <1>6, <1>7, <1>8

(* The other steps of the main thread, and the clock. *)
LEMMA OthersKeep ==
    ASSUME RealtimeInv,
           \/ SetOrigin \/ RunLoop \/ RunReturns \/ DoSynchronize \/ TimedWait
           \/ SleepWaitInterrupted \/ SleepWaitTimedOut \/ SpinWait \/ HandlerReturns \/ Run \/ Tick \/ Stop
           \/ UNCHANGED vars
    PROVE  RealtimeInv'
<1> USE RealtimeAssumption, RealtimeNat
<1> USE DEF RealtimeInv, QueueInv, DueInv, NoOversleep, FirstRunInv, NothingInThePast, TypeOK,
            EventType, Waiting, Realtime, syncVars, queueVars, clockVars, runVars, waitVars
<1>1. CASE SetOrigin
  BY <1>1 DEF SetOrigin
<1>2. CASE RunLoop
  <2>1. {m_condition', m_stop', m_running', idle'} \subseteq BOOLEAN
    BY <1>2, Zenon DEF RunLoop
  <2> QED
    BY <1>2, <2>1 DEF RunLoop
<1>3. CASE RunReturns
  BY <1>3 DEF RunReturns
<1>4. CASE DoSynchronize
  BY <1>4 DEF DoSynchronize
<1>5. CASE SleepWaitInterrupted
  <2>1. {m_condition', m_stop', m_running', idle'} \subseteq BOOLEAN
    BY <1>5, Zenon DEF SleepWaitInterrupted, SynchronizeReturns
  <2> QED
    BY <1>5, <2>1 DEF SleepWaitInterrupted, SynchronizeReturns
<1>6. CASE SleepWaitTimedOut
  BY <1>6 DEF SleepWaitTimedOut
<1>7. CASE SpinWait
  <2>1. {m_condition', m_stop', m_running', idle'} \subseteq BOOLEAN
    BY <1>7, Zenon DEF SpinWait, SynchronizeReturns
  <2> QED
    BY <1>7, <2>1 DEF SpinWait, SynchronizeReturns
<1>8. CASE HandlerReturns
  BY <1>8 DEF HandlerReturns
<1>9. CASE Run
  <2>1. {m_condition', m_stop', m_running', idle'} \subseteq BOOLEAN
    BY <1>9, Zenon DEF Run
  <2> QED
    BY <1>9, <2>1 DEF Run
<1>10. CASE Tick
  BY <1>10 DEF Tick
<1>11. CASE Stop
  BY <1>11 DEF Stop, InUserCode
<1>12. CASE TimedWait
  BY <1>12 DEF TimedWait
<1>13. CASE UNCHANGED vars
  BY <1>13 DEF vars
<1> QED
  BY <1>1, <1>2, <1>3, <1>4, <1>5, <1>6, <1>7, <1>8, <1>9, <1>10, <1>11, <1>12,
     <1>13

LEMMA NextRealtime == RealtimeInv /\ [Next]_vars => RealtimeInv'
<1> SUFFICES ASSUME RealtimeInv, [Next]_vars PROVE RealtimeInv'
  OBVIOUS
<1>1. CASE TakeNext
  BY <1>1, TakeKeeps
<1>2. CASE Prepare
  BY <1>2, PrepareKeeps
<1>3. ASSUME NEW ev \in m_events, RemoveEvent(ev) PROVE RealtimeInv'
  BY <1>3, RemoveKeeps
<1>4. CASE \/ Schedule
           \/ \E t \in Foreign : ScheduleWithContextForeign(t) \/ ScheduleRealtimeWithContext(t)
  BY <1>4, SchedulesKeep
<1>5. CASE \/ SetOrigin \/ RunLoop \/ RunReturns \/ DoSynchronize \/ TimedWait
           \/ SleepWaitInterrupted \/ SleepWaitTimedOut \/ SpinWait \/ HandlerReturns \/ Run \/ Tick \/ Stop
           \/ UNCHANGED vars
  BY <1>5, OthersKeep
<1> QED
  BY <1>1, <1>2, <1>3, <1>4, <1>5 DEF Next, Engine, Ended

-----------------------------------------------------------------------------
(* The inductive invariant holds in every reachable state. *)
THEOREM RealtimeInvariant == Spec => []RealtimeInv
BY InitRealtime, NextRealtime, PTL DEF Spec

(* m_unscheduledEvents counts the queue and the members have their types    *)
(* in every state of every behaviour: the assertion at the end of Run.      *)
THEOREM RealtimeTypeCorrect == Spec => []TypeOK
<1>1. RealtimeInv => TypeOK
  BY DEF RealtimeInv, QueueInv
<1> QED
  BY <1>1, RealtimeInvariant, PTL

(* ProcessOneEvent and the Schedule functions of the other threads: no      *)
(* event is overslept, whatever the number of threads and events.           *)
THEOREM NothingOverslept == Spec => []NoOversleep
<1>1. RealtimeInv => NoOversleep
  BY DEF RealtimeInv
<1> QED
  BY <1>1, RealtimeInvariant, PTL

(* ProcessOneEvent starts no handler before the time of its event, although *)
(* the queue may have changed since it decided to wait.                     *)
THEOREM NothingEarly == Spec => []NeverEarly
<1>1. RealtimeInv => NeverEarly
  BY DEF RealtimeInv, DueInv, NeverEarly
<1> QED
  BY <1>1, RealtimeInvariant, PTL

(* In the first Run the assertion of ProcessOneEvent, that the event taken  *)
(* is not before the current time, holds: other threads go by the wall      *)
(* clock, which is ahead of the simulation time.  In a second Run it fails. *)
THEOREM FirstRunAssertionHolds == Spec => [](runs <= 1 => NothingInThePast)
<1>1. RealtimeInv => (runs <= 1 => NothingInThePast)
  BY DEF RealtimeInv, FirstRunInv
<1> QED
  BY <1>1, RealtimeInvariant, PTL

(* ProcessOneEvent never sets the simulation time back in the first Run. *)
THEOREM FirstRunTimeForward == Spec => [][runs' <= 1 => m_currentTs' >= m_currentTs]_vars
<1>1. RealtimeInv /\ [Next]_vars => [runs' <= 1 => m_currentTs' >= m_currentTs]_vars
  <2> SUFFICES ASSUME RealtimeInv, Next, runs' <= 1 PROVE m_currentTs' >= m_currentTs
    OBVIOUS
  <2>1. m_currentTs \in Nat /\ runs \in Nat
    BY DEF RealtimeInv, QueueInv, TypeOK
  <2>2. CASE TakeNext
    BY <2>2 DEF RealtimeInv, FirstRunInv, NothingInThePast, TakeNext, runVars
  <2>3. CASE ~TakeNext
    <3>1. m_currentTs' = m_currentTs
      BY <2>3 DEF Next, Engine, SetOrigin, RunLoop, RunReturns, Prepare, DoSynchronize,
                  TimedWait, SleepWaitInterrupted, SleepWaitTimedOut, SpinWait, SynchronizeReturns,
                  HandlerReturns, Run, Tick, Ended, Schedule, ScheduleWithContextForeign,
                  ScheduleRealtimeWithContext, Insert, Stop, RemoveEvent, clockVars, vars
    <3> QED
      BY <2>1, <3>1
  <2> QED
    BY <2>2, <2>3
<1> QED
  BY <1>1, RealtimeInvariant, PTL DEF Spec
=============================================================================
