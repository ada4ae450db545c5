----------------------- MODULE DefaultSimulatorProofs -----------------------
(***************************************************************************)
(* Proofs about the sequential engine, for any set of delays, contexts and *)
(* threads and any number of events.                                       *)
(*                                                                         *)
(* First what holds with or without wrap-around of the uid counter: type   *)
(* correctness, and the hand-over of the events that other threads submit. *)
(* Then the inductive invariant, one lemma per conjunct, for a counter     *)
(* that does not wrap around: uids, the queue and the EventIds, on which   *)
(* the others rest; the destroy list, the events that were revoked or have *)
(* run, and the order of submissions; the count of the queue. The theorems *)
(* that follow from it are at the end.                                     *)
(***************************************************************************)
EXTENDS DefaultSimulator, FiniteSetTheorems, TLAPS

(* A time plus a delay is a time. *)
LEMMA DelaySum == ASSUME NEW t \in Nat, NEW d \in Delays PROVE t + d \in Nat
  BY DelaysAssumption

(* What Insert does: the variables it changes keep their types. *)
LEMMA InsertType ==
    ASSUME TypeOK, NEW ts \in Nat, NEW ctx \in Contexts \union {NO_CONTEXT},
           NEW fn \in {"user", "stop"}, NEW sub \in Nat,
           Insert(ts, ctx, fn, sub)
    PROVE  /\ m_events' \subseteq EventType
           /\ m_uid' \in 0..UidRange-1
           /\ m_unscheduledEvents' \in Int
           /\ created' \in Nat
<1>1. [ts |-> ts, uid |-> m_uid, ctx |-> ctx, impl |-> created + 1, fn |-> fn, sub |-> sub]
         \in EventType
  BY UidRangeAssumption DEF TypeOK, EventType
<1>2. m_uid' \in 0..UidRange-1
  BY UidRangeAssumption DEF TypeOK, Insert, NextUid
<1> QED
  BY <1>1, <1>2 DEF TypeOK, Insert

(* Every variable keeps its type. *)
LEMMA TypeStep == TypeOK /\ [Next]_vars => TypeOK'
<1> SUFFICES ASSUME TypeOK, [Next]_vars PROVE TypeOK'
  OBVIOUS
<1> USE DEF TypeOK, vars, queueVars, clockVars, foreignVars, idVars
<1>1. CASE Schedule
  <2>1. PICK delay \in Delays :
          \/ /\ Insert(m_currentTs + delay, m_currentContext, "user", 0)
             /\ Keep([ts |-> m_currentTs + delay, uid |-> m_uid, impl |-> created + 1])
          \/ Insert(m_currentTs + delay, m_currentContext, "stop", 0) /\ UNCHANGED ids
    BY <1>1 DEF Schedule
  <2>2. m_currentTs + delay \in Nat
    BY DelaysAssumption
  <2>3. /\ m_events' \subseteq EventType /\ m_uid' \in 0..UidRange-1
        /\ m_unscheduledEvents' \in Int /\ created' \in Nat
    BY <2>1, <2>2, InsertType, Zenon
  <2>4. [ts |-> m_currentTs + delay, uid |-> m_uid, impl |-> created + 1] \in IdType
    BY <2>2, UidRangeAssumption DEF IdType
  <2>5. ids' \subseteq IdType
    BY <2>1, <2>4 DEF Keep
  <2> QED
    BY <1>1, <2>3, <2>5 DEF Schedule
<1>2. CASE ScheduleNow
  <2>1. /\ m_events' \subseteq EventType /\ m_uid' \in 0..UidRange-1
        /\ m_unscheduledEvents' \in Int /\ created' \in Nat
    BY <1>2, InsertType DEF ScheduleNow
  <2>2. [ts |-> m_currentTs, uid |-> m_uid, impl |-> created + 1] \in IdType
    BY UidRangeAssumption DEF IdType
  <2> QED
    BY <1>2, <2>1, <2>2 DEF ScheduleNow, Keep
<1>3. CASE ScheduleWithContext
  <2>1. PICK delay \in Delays, ctx \in Contexts :
          Insert(m_currentTs + delay, ctx, "user", 0)
    BY <1>3 DEF ScheduleWithContext
  <2>2. m_currentTs + delay \in Nat
    BY DelaysAssumption
  <2>3. /\ m_events' \subseteq EventType /\ m_uid' \in 0..UidRange-1
        /\ m_unscheduledEvents' \in Int /\ created' \in Nat
    BY <2>1, <2>2, InsertType
  <2> QED
    BY <1>3, <2>3 DEF ScheduleWithContext
<1>4. CASE ScheduleDestroy
  <2> DEFINE id == [ts |-> m_currentTs, uid |-> DESTROY, impl |-> created + 1]
  <2>1. id \in IdType
    BY DEF IdType, DESTROY
  <2>2. m_destroyEvents' \in Seq(IdType) /\ ids' \subseteq IdType
    BY <1>4, <2>1 DEF ScheduleDestroy, Keep
  <2>3. m_uid' \in 0..UidRange-1 /\ created' \in Nat
    BY <1>4, UidRangeAssumption DEF ScheduleDestroy, NextUid
  <2> QED
    BY <1>4, <2>2, <2>3 DEF ScheduleDestroy
<1>5. CASE Stop
  BY <1>5 DEF Stop
<1>6. ASSUME NEW id \in ids, Cancel(id) PROVE TypeOK'
  BY <1>6, Zenon DEF Cancel, IdType
<1>7. ASSUME NEW id \in ids, RemoveEvent(id) PROVE TypeOK'
  <2>1. m_events' \subseteq EventType /\ m_unscheduledEvents' \in Int
    BY <1>7 DEF RemoveEvent
  <2>2. cancelled' \subseteq Nat /\ revoked' \subseteq Nat
    BY <1>7, Zenon DEF RemoveEvent, IdType
  <2> QED
    BY <1>7, <2>1, <2>2 DEF RemoveEvent
<1>8. ASSUME NEW id \in ids, RemoveDestroy(id) PROVE TypeOK'
  <2>1. PICK i \in 1..Len(m_destroyEvents) : m_destroyEvents' = Erase(m_destroyEvents, i)
    BY <1>8 DEF RemoveDestroy
  <2>2. m_destroyEvents' \in Seq(IdType)
    BY <2>1 DEF Erase
  <2> QED
    BY <1>8, <2>2, Zenon DEF RemoveDestroy, IdType
<1>9. CASE Swap
  BY <1>9 DEF Swap
<1>10. CASE Drain
  <2> DEFINE event == Head(eventsWithContext)
  <2>1. event \in SubmissionType /\ eventsWithContext' \in Seq(SubmissionType)
    BY <1>10 DEF Drain
  <2>2. Insert(m_currentTs + event.timestamp, event.context, "user", event.sub)
    BY <1>10 DEF Drain
  <2> HIDE DEF event
  <2>5. event.timestamp \in Delays /\ event.context \in Contexts /\ event.sub \in Nat
    BY <2>1 DEF SubmissionType
  <2>3. m_currentTs + event.timestamp \in Nat
    BY <2>5, DelaySum, Zenon
  <2>4. /\ m_events' \subseteq EventType /\ m_uid' \in 0..UidRange-1
        /\ m_unscheduledEvents' \in Int /\ created' \in Nat
    BY <2>2, <2>5, <2>3, InsertType
  <2> QED
    BY <1>10, <2>1, <2>4 DEF Drain
<1>11. CASE ProcessOneEvent
  <2>1. PICK next \in m_events :
          /\ m_events' = m_events \ {next}
          /\ m_currentTs' = next.ts /\ m_currentUid' = next.uid
          /\ m_currentContext' = next.ctx
          /\ invoked' \in {invoked, invoked \union {next.impl}}
          /\ m_stop' \in {m_stop, TRUE}
          /\ pc' \in {"readFlag", "handler"}
    BY <1>11, Zenon DEF ProcessOneEvent
  <2>2. /\ next.ts \in Nat /\ next.uid \in Nat /\ next.impl \in Nat
        /\ next.ctx \in Contexts \union {NO_CONTEXT}
    BY DEF EventType
  <2>3. m_events' \subseteq EventType /\ invoked' \subseteq Nat
    BY <2>1, <2>2
  <2>4. m_unscheduledEvents' \in Int
    BY <1>11 DEF ProcessOneEvent
  <2> QED
    BY <1>11, <2>1, <2>2, <2>3, <2>4, Zenon DEF ProcessOneEvent
<1>12. CASE DestroyOne
  <2>1. Head(m_destroyEvents) \in IdType /\ m_destroyEvents' \in Seq(IdType)
    BY <1>12 DEF DestroyOne
  <2>2. Head(m_destroyEvents).impl \in Nat
    BY <2>1 DEF IdType
  <2>3. /\ invoked' \in {invoked, invoked \union {Head(m_destroyEvents).impl}}
        /\ pc' \in {pc, "destroyHandler"}
    BY <1>12 DEF DestroyOne
  <2> QED
    BY <1>12, <2>1, <2>2, <2>3 DEF DestroyOne
<1>13. CASE DoDispose
  BY <1>13 DEF DoDispose
<1>14. ASSUME NEW t \in Foreign, ScheduleWithContextForeign(t) PROVE TypeOK'
  <2>1. PICK delay \in Delays, ctx \in Contexts :
          m_eventsWithContext' = Append(m_eventsWithContext,
              [timestamp |-> delay, context |-> ctx, sub |-> submitted + 1])
    BY <1>14 DEF ScheduleWithContextForeign
  <2>2. [timestamp |-> delay, context |-> ctx, sub |-> submitted + 1] \in SubmissionType
    BY DEF SubmissionType
  <2>3. m_eventsWithContext' \in Seq(SubmissionType)
    BY <2>1, <2>2
  <2>4. m_eventsWithContextEmpty' \in BOOLEAN
    BY <1>14, Zenon DEF ScheduleWithContextForeign
  <2> QED
    BY <1>14, <2>3, <2>4 DEF ScheduleWithContextForeign
<1>15. CASE ReadFlag \/ Drained \/ HandlerReturns \/ RunReturns
            \/ DestroyHandlerReturns \/ Run \/ Destroy
  BY <1>15, Zenon DEF ReadFlag, Drained, HandlerReturns, RunReturns, DestroyHandlerReturns, Run, Destroy
<1>16. CASE Exited \/ UNCHANGED vars
  BY <1>16, Zenon DEF Exited
<1> QED
  BY <1>1, <1>2, <1>3, <1>4, <1>5, <1>6, <1>7, <1>8, <1>9, <1>10, <1>11, <1>12, Zenon,
     <1>13, <1>14, <1>15, <1>16 DEF Next, Call, Engine

(* Type correctness of the engine, with or without uid wrap-around. *)
THEOREM TypeCorrect == Spec => []TypeOK
<1>1. Init => TypeOK
  <2> SUFFICES ASSUME Init PROVE TypeOK
    OBVIOUS
  <2>1. m_uid \in 0..UidRange-1
    BY UidRangeAssumption DEF Init, FIRST_UID
  <2>2. m_stop \in BOOLEAN /\ m_eventsWithContextEmpty \in BOOLEAN
    BY Zenon DEF Init
  <2> QED
    BY <2>1, <2>2 DEF Init, TypeOK
<1> QED
  BY <1>1, TypeStep, PTL DEF Spec

-----------------------------------------------------------------------------
(* The flag that is read without the mutex says whether the hand-over list  *)
(* is empty.                                                                *)
FlagInv == m_eventsWithContextEmpty <=> m_eventsWithContext = <<>>

LEMMA FlagStep == ASSUME TypeOK, FlagInv, [Next]_vars PROVE FlagInv'
<1>1. CASE \E t \in Foreign : ScheduleWithContextForeign(t)
  <2>1. PICK delay \in Delays, ctx \in Contexts :
          m_eventsWithContext' = Append(m_eventsWithContext,
              [timestamp |-> delay, context |-> ctx, sub |-> submitted + 1])
    BY <1>1 DEF ScheduleWithContextForeign
  <2>2. m_eventsWithContext' # <<>>
    BY <2>1 DEF TypeOK
  <2>3. m_eventsWithContextEmpty' = FALSE
    BY <1>1 DEF ScheduleWithContextForeign
  <2> QED
    BY <2>2, <2>3 DEF FlagInv
<1>2. CASE Swap \/ DoDispose
  <2>1. m_eventsWithContext' = <<>> /\ m_eventsWithContextEmpty' = TRUE
    BY <1>2 DEF Swap, DoDispose
  <2> QED
    BY <2>1 DEF FlagInv
<1>3. CASE UNCHANGED <<m_eventsWithContext, m_eventsWithContextEmpty>>
  BY <1>3 DEF FlagInv
<1>4. ASSUME ~(\E t \in Foreign : ScheduleWithContextForeign(t)), ~Swap, ~DoDispose
      PROVE  UNCHANGED <<m_eventsWithContext, m_eventsWithContextEmpty>>
  BY <1>4, Zenon DEF Next, Call, Engine, vars, foreignVars, Schedule, ScheduleNow, ScheduleWithContext,
     ScheduleDestroy, Stop, Cancel, RemoveEvent, RemoveDestroy, ReadFlag, Drain, Drained,
     ProcessOneEvent, HandlerReturns, RunReturns, DestroyOne, DestroyHandlerReturns,
     Run, Destroy, Exited
<1> QED
  BY <1>1, <1>2, <1>3, <1>4

(* The early return of ProcessEventsWithContext never leaves a submission   *)
(* behind, with any number of threads, and also when the uids wrap around.  *)
THEOREM HandOver == Spec => SubmissionTakenOver
<1>1. Init => FlagInv
  BY DEF Init, FlagInv
<1>2. ASSUME FlagInv, [Next]_vars
      PROVE  [pc = "readFlag" /\ pc' = "loop" => m_eventsWithContext = <<>>]_vars
  <2>1. CASE ReadFlag
    <3>1. pc' = "loop" => m_eventsWithContextEmpty
      BY <2>1 DEF ReadFlag
    <3> QED
      BY <1>2, <3>1 DEF FlagInv
  <2>2. CASE ~ReadFlag
    <3>1. pc = "readFlag" => pc' = pc
      BY <1>2, <2>2, Zenon DEF Next, Call, Engine, vars, Schedule, ScheduleNow, ScheduleWithContext,
         ScheduleWithContextForeign, ScheduleDestroy, Stop, Cancel, RemoveEvent, RemoveDestroy,
         Swap, Drain, Drained, ProcessOneEvent, HandlerReturns, RunReturns, DestroyOne,
         DestroyHandlerReturns, DoDispose, Run, Destroy, Exited, InUserCode
    <3> QED
      BY <3>1
  <2> QED
    BY <2>1, <2>2
<1> QED
  BY <1>1, <1>2, FlagStep, TypeCorrect, PTL DEF Spec, SubmissionTakenOver
-----------------------------------------------------------------------------

NoUidWrap == FIRST_UID + MaxCreated <= UidRange

(* The uid counter follows the number of events created. *)
UidInv ==
    /\ created < MaxCreated => m_uid = FIRST_UID + created
    /\ created + Len(m_eventsWithContext) + Len(eventsWithContext) <= MaxCreated
    /\ m_currentUid < FIRST_UID + created

(* What is queued is ahead of the clock, and uids and EventImpls match. *)
QueueInv ==
    /\ \A e \in m_events :
         /\ Before(Current, e)
         /\ e.impl \in 1..created
         /\ e.uid = e.impl + 3
    /\ \A e, f \in m_events : e.impl = f.impl => e = f

(* Of the EventIds: they agree with the queue; an ordinary one that is not  *)
(* cancelled is ahead of the clock exactly when its event is queued.        *)
IdInv ==
    /\ \A id \in ids :
         /\ id.impl \in 1..created
         /\ id.uid = DESTROY \/ id.uid = id.impl + 3
         /\ \A e \in m_events : id.impl = e.impl => id.uid = e.uid /\ id.ts = e.ts
         /\ (pc # "disposed" /\ id.uid # DESTROY /\ id.impl \notin cancelled)
               => (Before(Current, id) <=> \E e \in m_events : e.impl = id.impl)
    /\ cancelled \subseteq 1..created

(* Of the destroy list: its EventImpls differ from one another and from     *)
(* those in the queue.                                                      *)
DestroyInv ==
    /\ \A i \in 1..Len(m_destroyEvents) :
         /\ m_destroyEvents[i] \in ids
         /\ m_destroyEvents[i].uid = DESTROY
    /\ \A i, j \in 1..Len(m_destroyEvents) :
         m_destroyEvents[i].impl = m_destroyEvents[j].impl => i = j
    /\ \A id, jd \in ids : id.impl = jd.impl => id = jd

(* Which EventImpls can still be invoked. *)
RunInv ==
    /\ invoked \subseteq 1..created /\ revoked \subseteq 1..created
    /\ \A e \in m_events : e.impl \notin invoked
    /\ \A i \in 1..Len(m_destroyEvents) : m_destroyEvents[i].impl \notin invoked
    /\ \A r \in revoked : r \notin cancelled =>
         /\ \A e \in m_events : e.impl # r
         /\ \A i \in 1..Len(m_destroyEvents) : m_destroyEvents[i].impl # r
    /\ revoked \intersect invoked = {}

CountInv ==
    /\ IsFiniteSet(m_events)
    /\ pc # "disposed" => m_unscheduledEvents = Cardinality(m_events)

(* Submission numbers grow along the queue, the list being drained and the  *)
(* hand-over list.                                                          *)
OrderInv ==
    /\ pc # "drain" => eventsWithContext = <<>>
    /\ \A i \in 1..Len(m_eventsWithContext) :
         m_eventsWithContext[i].sub \in 1..submitted
    /\ \A i \in 1..Len(eventsWithContext) :
         /\ eventsWithContext[i].sub \in 1..submitted
         /\ \A j \in 1..Len(m_eventsWithContext) :
              eventsWithContext[i].sub < m_eventsWithContext[j].sub
    /\ \A i, j \in 1..Len(m_eventsWithContext) :
         i < j => m_eventsWithContext[i].sub < m_eventsWithContext[j].sub
    /\ \A i, j \in 1..Len(eventsWithContext) :
         i < j => eventsWithContext[i].sub < eventsWithContext[j].sub
    /\ \A e \in m_events :
         /\ e.sub \in 0..submitted
         /\ \A i \in 1..Len(m_eventsWithContext) : e.sub < m_eventsWithContext[i].sub
         /\ \A i \in 1..Len(eventsWithContext) : e.sub < eventsWithContext[i].sub
    /\ SubmissionOrder

Inv == TypeOK /\ UidInv /\ QueueInv /\ IdInv /\ DestroyInv /\ RunInv /\ CountInv /\ OrderInv

-----------------------------------------------------------------------------
(* The remainder of a small number. *)
LEMMA ModSmall == ASSUME NEW a \in Nat, NEW b \in Nat, a < b PROVE a % b = a
  OBVIOUS

(* While events may still be created, the counter has not wrapped. *)
LEMMA UidNext ==
    ASSUME NoUidWrap, TypeOK, UidInv, created < MaxCreated
    PROVE  /\ m_uid = FIRST_UID + created
           /\ created + 1 < MaxCreated => NextUid(m_uid) = FIRST_UID + (created + 1)
<1>1. m_uid = FIRST_UID + created
  BY DEF UidInv
<1>2. ASSUME created + 1 < MaxCreated PROVE NextUid(m_uid) = FIRST_UID + (created + 1)
  <2>1. m_uid + 1 \in Nat /\ UidRange \in Nat /\ m_uid + 1 < UidRange
    BY <1>1, <1>2, UidRangeAssumption, MaxCreatedAssumption DEF NoUidWrap, TypeOK, FIRST_UID
  <2>2. (m_uid + 1) % UidRange = m_uid + 1
    BY <2>1, ModSmall
  <2> QED
    BY <1>1, <2>2 DEF NextUid, TypeOK, FIRST_UID
<1> QED
  BY <1>1, <1>2

(* A call that creates an event stays within the bound. *)
LEMMA MayCreateFacts ==
    ASSUME TypeOK, MayCreate
    PROVE  created < MaxCreated
  BY MaxCreatedAssumption DEF TypeOK, MayCreate

(* The uid counter follows the events created. *)
LEMMA UidStep ==
    ASSUME NoUidWrap, TypeOK, UidInv, QueueInv, OrderInv, [Next]_vars
    PROVE  UidInv'
<1> USE DEF vars, queueVars, clockVars, foreignVars, idVars
<1>1. ASSUME MayCreate, created' = created + 1, m_uid' = NextUid(m_uid),
             UNCHANGED <<m_eventsWithContext, eventsWithContext, m_currentUid>>
      PROVE  UidInv'
  <2>1. created < MaxCreated
    BY <1>1, MayCreateFacts
  <2>2. created' < MaxCreated => m_uid' = FIRST_UID + created'
    BY <1>1, <2>1, UidNext
  <2>3. created' + Len(m_eventsWithContext) + Len(eventsWithContext) <= MaxCreated
    BY <1>1, MaxCreatedAssumption DEF MayCreate, TypeOK
  <2>4. m_currentUid < FIRST_UID + created'
    BY <1>1 DEF UidInv, TypeOK, FIRST_UID
  <2> QED
    BY <1>1, <2>2, <2>3, <2>4 DEF UidInv
<1>2. CASE Schedule
  BY <1>1, <1>2 DEF Schedule, Insert
<1>3. CASE ScheduleNow
  BY <1>1, <1>3 DEF ScheduleNow, Insert
<1>4. CASE ScheduleWithContext
  BY <1>1, <1>4 DEF ScheduleWithContext, Insert
<1>5. CASE ScheduleDestroy
  BY <1>1, <1>5 DEF ScheduleDestroy
<1>6. CASE Swap
  <2>1. eventsWithContext = <<>>
    BY <1>6 DEF Swap, OrderInv
  <2> QED
    BY <1>6, <2>1 DEF Swap, UidInv, TypeOK
<1>7. CASE Drain
  <2>1. /\ created' = created + 1 /\ m_uid' = NextUid(m_uid)
        /\ UNCHANGED <<m_eventsWithContext, m_currentUid>>
    BY <1>7 DEF Drain, Insert
  <2>2. Len(eventsWithContext') = Len(eventsWithContext) - 1 /\ Len(eventsWithContext) > 0
    BY <1>7 DEF Drain, TypeOK
  <2>3. created < MaxCreated
    BY <2>2, MaxCreatedAssumption DEF UidInv, TypeOK
  <2>4. created' < MaxCreated => m_uid' = FIRST_UID + created'
    BY <2>1, <2>3, UidNext
  <2>5. created' + Len(m_eventsWithContext') + Len(eventsWithContext') <= MaxCreated
    BY <2>1, <2>2 DEF UidInv, TypeOK
  <2>6. m_currentUid' < FIRST_UID + created'
    BY <2>1 DEF UidInv, TypeOK, FIRST_UID
  <2> QED
    BY <2>4, <2>5, <2>6 DEF UidInv
<1>8. CASE ProcessOneEvent
  <2>1. PICK next \in m_events : m_currentUid' = next.uid
    BY <1>8 DEF ProcessOneEvent
  <2>2. next.uid < FIRST_UID + created
    BY DEF QueueInv, TypeOK, FIRST_UID
  <2> QED
    BY <1>8, <2>1, <2>2 DEF ProcessOneEvent, UidInv
<1>9. CASE DoDispose
  <2>1. Len(m_eventsWithContext') = 0
    BY <1>9 DEF DoDispose
  <2> QED
    BY <1>9, <2>1, MaxCreatedAssumption DEF DoDispose, UidInv, TypeOK
<1>10. ASSUME NEW t \in Foreign, ScheduleWithContextForeign(t) PROVE UidInv'
  <2>1. Len(m_eventsWithContext') = Len(m_eventsWithContext) + 1
    BY <1>10 DEF ScheduleWithContextForeign, TypeOK
  <2> QED
    BY <1>10, <2>1, MaxCreatedAssumption DEF ScheduleWithContextForeign, UidInv, TypeOK, MayCreate
<1>11. CASE UNCHANGED <<m_uid, created, m_eventsWithContext, eventsWithContext, m_currentUid>>
  BY <1>11 DEF UidInv
<1> QED
  BY <1>2, <1>3, <1>4, <1>5, <1>6, <1>7, <1>8, <1>9, <1>10, <1>11, Zenon
     DEF Next, Call, Engine, Stop, Cancel, RemoveEvent, RemoveDestroy, ReadFlag, Drained,
         HandlerReturns, RunReturns, DestroyOne, DestroyHandlerReturns, Run, Destroy, Exited

-----------------------------------------------------------------------------
(* The steps of the engine, seen from the invariants: four actions create   *)
(* an event in the queue, and nine only move the program counter.           *)

CreatesEvent(e) ==
    /\ m_events' = m_events \union {e}
    /\ e.ts \in Nat /\ e.ts >= m_currentTs
    /\ e.uid = FIRST_UID + created /\ e.impl = created + 1
    /\ created' = created + 1
    /\ m_unscheduledEvents' = m_unscheduledEvents + 1
    /\ \/ ids' = ids
       \/ ids' = ids \union {[ts |-> e.ts, uid |-> e.uid, impl |-> e.impl]}
    /\ UNCHANGED <<m_currentTs, m_currentUid, cancelled, revoked, invoked,
                   m_destroyEvents, m_eventsWithContext, submitted, pc>>
    /\ pc # "disposed"
    /\ \/ e.sub = 0 /\ UNCHANGED eventsWithContext
       \/ /\ eventsWithContext # <<>>
          /\ e.sub = eventsWithContext[1].sub
          /\ eventsWithContext' = Tail(eventsWithContext)

QuietStep ==
    /\ UNCHANGED <<m_events, created, m_unscheduledEvents, ids, m_currentTs, m_currentUid,
                   cancelled, revoked, invoked, m_destroyEvents, m_eventsWithContext,
                   submitted, eventsWithContext>>
    /\ \/ pc' = pc
       \/ eventsWithContext = <<>> /\ pc # "disposed" /\ pc' # "disposed"

(* A record that Insert puts in the queue is the event CreatesEvent names. *)
LEMMA InsertCreates ==
    ASSUME NoUidWrap, TypeOK, UidInv, created < MaxCreated, pc # "disposed",
           NEW ts \in Nat, ts >= m_currentTs,
           NEW ctx, NEW fn, NEW sub \in Nat,
           Insert(ts, ctx, fn, sub),
           \/ ids' = ids
           \/ ids' = ids \union {[ts |-> ts, uid |-> m_uid, impl |-> created + 1]},
           UNCHANGED <<m_currentTs, m_currentUid, cancelled, revoked, invoked,
                       m_destroyEvents, m_eventsWithContext, submitted, pc>>,
           \/ sub = 0 /\ UNCHANGED eventsWithContext
           \/ /\ eventsWithContext # <<>>
              /\ sub = eventsWithContext[1].sub
              /\ eventsWithContext' = Tail(eventsWithContext)
    PROVE  \E e : CreatesEvent(e)
<1> DEFINE e == [ts |-> ts, uid |-> m_uid, ctx |-> ctx, impl |-> created + 1,
                 fn |-> fn, sub |-> sub]
<1>1. m_uid = FIRST_UID + created
  BY UidNext
<1>2. CreatesEvent(e)
  BY <1>1 DEF CreatesEvent, Insert
<1> QED
  BY <1>2

(* Every step is one of these, or an action with an effect of its own. *)
LEMMA StepCases ==
    ASSUME NoUidWrap, TypeOK, UidInv, OrderInv, [Next]_vars
    PROVE  \/ \E e : CreatesEvent(e)
           \/ QuietStep
           \/ ScheduleDestroy
           \/ \E id \in ids : Cancel(id) \/ RemoveEvent(id) \/ RemoveDestroy(id)
           \/ Swap \/ ProcessOneEvent \/ DestroyOne \/ DoDispose
           \/ \E t \in Foreign : ScheduleWithContextForeign(t)
<1> USE DEF vars, queueVars, clockVars, foreignVars, idVars
<1>1. CASE Schedule
  <2>1. created < MaxCreated /\ pc # "disposed"
    BY <1>1, MayCreateFacts DEF Schedule, InUserCode
  <2>2. PICK delay \in Delays :
          \/ /\ Insert(m_currentTs + delay, m_currentContext, "user", 0)
             /\ Keep([ts |-> m_currentTs + delay, uid |-> m_uid, impl |-> created + 1])
          \/ Insert(m_currentTs + delay, m_currentContext, "stop", 0) /\ UNCHANGED ids
    BY <1>1 DEF Schedule
  <2>3. m_currentTs + delay \in Nat /\ m_currentTs + delay >= m_currentTs
    BY DelaysAssumption DEF TypeOK
  <2> QED
    BY <1>1, <2>1, <2>2, <2>3, InsertCreates DEF Schedule, Keep
<1>2. CASE ScheduleNow
  <2>1. created < MaxCreated /\ pc # "disposed"
    BY <1>2, MayCreateFacts DEF ScheduleNow, InUserCode
  <2>2. m_currentTs \in Nat /\ m_currentTs >= m_currentTs
    BY DEF TypeOK
  <2> QED
    BY <1>2, <2>1, <2>2, InsertCreates DEF ScheduleNow, Keep
<1>3. CASE ScheduleWithContext
  <2>1. created < MaxCreated /\ pc # "disposed"
    BY <1>3, MayCreateFacts DEF ScheduleWithContext, InUserCode
  <2>2. PICK delay \in Delays, ctx \in Contexts :
          Insert(m_currentTs + delay, ctx, "user", 0)
    BY <1>3 DEF ScheduleWithContext
  <2>3. m_currentTs + delay \in Nat /\ m_currentTs + delay >= m_currentTs
    BY DelaysAssumption DEF TypeOK
  <2> QED
    BY <1>3, <2>1, <2>2, <2>3, InsertCreates DEF ScheduleWithContext
<1>4. CASE Drain
  <2> DEFINE event == Head(eventsWithContext)
  <2>1. /\ event \in SubmissionType /\ event = eventsWithContext[1]
        /\ Len(eventsWithContext) > 0
        /\ eventsWithContext # <<>>
        /\ eventsWithContext' = Tail(eventsWithContext)
        /\ Insert(m_currentTs + event.timestamp, event.context, "user", event.sub)
    BY <1>4, SMTT(60) DEF Drain, TypeOK
  <2> HIDE DEF event
  <2>2. event.timestamp \in Delays /\ event.sub \in Nat
    BY <2>1 DEF SubmissionType
  <2>3. event.timestamp \in Nat
    BY <2>2, DelaysAssumption, Zenon
  <2>4. m_currentTs + event.timestamp \in Nat /\ m_currentTs + event.timestamp >= m_currentTs
    BY <2>3 DEF TypeOK
  <2>5. created < MaxCreated
    BY <2>1, MaxCreatedAssumption DEF UidInv, TypeOK
  <2> QED
    BY <1>4, <2>1, <2>2, <2>4, <2>5, InsertCreates DEF Drain
<1>5. CASE Stop \/ Exited \/ UNCHANGED vars
  BY <1>5 DEF Stop, Exited, QuietStep
<1>6. CASE Drained
  BY <1>6 DEF Drained, QuietStep
<1>7. CASE ReadFlag \/ HandlerReturns \/ RunReturns \/ DestroyHandlerReturns \/ Run \/ Destroy
  <2>1. eventsWithContext = <<>>
    BY <1>7 DEF ReadFlag, HandlerReturns, RunReturns, DestroyHandlerReturns, Run, Destroy,
                OrderInv
  <2> QED
    BY <1>7, <2>1 DEF ReadFlag, HandlerReturns, RunReturns, DestroyHandlerReturns, Run,
                      Destroy, QuietStep
<1> QED
  BY <1>1, <1>2, <1>3, <1>4, <1>5, <1>6, <1>7 DEF Next, Call, Engine

-----------------------------------------------------------------------------
(* The queue stays ahead of the clock. *)
LEMMA QueueStep ==
    ASSUME NoUidWrap, TypeOK, UidInv, QueueInv, OrderInv, [Next]_vars
    PROVE  QueueInv'
<1> USE DEF vars, queueVars, clockVars, foreignVars, idVars
<1>1. ASSUME NEW e, CreatesEvent(e) PROVE QueueInv'
  <2>1. /\ m_events' = m_events \union {e} /\ created' = created + 1
        /\ Current' = Current
        /\ e.ts \in Nat /\ e.ts >= m_currentTs
        /\ e.uid = FIRST_UID + created /\ e.impl = created + 1
    BY <1>1 DEF CreatesEvent, Current
  <2>2. Before(Current, e)
    BY <2>1 DEF Before, Current, UidInv, TypeOK, FIRST_UID
  <2>3. e.impl \in 1..created' /\ e.uid = e.impl + 3
    BY <2>1 DEF TypeOK, FIRST_UID
  <2>4. \A f \in m_events : f.impl \in 1..created' /\ f.impl # e.impl
    BY <2>1 DEF QueueInv, TypeOK
  <2>5. \A f \in m_events' : Before(Current', f) /\ f.impl \in 1..created' /\ f.uid = f.impl + 3
    BY <2>1, <2>2, <2>3, <2>4 DEF QueueInv
  <2>6. \A f, g \in m_events' : f.impl = g.impl => f = g
    BY <2>1, <2>4 DEF QueueInv
  <2> QED
    BY <2>5, <2>6 DEF QueueInv, Before, Current
<1>2. CASE QuietStep
  BY <1>2 DEF QuietStep, QueueInv, Current
<1>3. CASE ScheduleDestroy
  BY <1>3 DEF ScheduleDestroy, QueueInv, Current, TypeOK
<1>4. ASSUME NEW id \in ids, Cancel(id) \/ RemoveEvent(id) \/ RemoveDestroy(id)
      PROVE  QueueInv'
  <2>1. m_events' \subseteq m_events /\ created' = created /\ Current' = Current
    BY <1>4, Zenon DEF Cancel, RemoveEvent, RemoveDestroy, Current
  <2> QED
    BY <2>1 DEF QueueInv, Before, Current
<1>5. CASE Swap \/ DestroyOne
  BY <1>5 DEF Swap, DestroyOne, QueueInv, Current
<1>6. CASE ProcessOneEvent
  <2>1. PICK next \in m_events :
          /\ \A e \in m_events : e = next \/ Before(next, e)
          /\ m_events' = m_events \ {next}
          /\ m_currentTs' = next.ts /\ m_currentUid' = next.uid
    BY <1>6 DEF ProcessOneEvent
  <2>2. \A e \in m_events' : Before(Current', e)
    BY <2>1 DEF Before, Current
  <2> QED
    BY <1>6, <2>1, <2>2 DEF ProcessOneEvent, QueueInv
<1>7. CASE DoDispose
  BY <1>7 DEF DoDispose, QueueInv
<1>8. ASSUME NEW t \in Foreign, ScheduleWithContextForeign(t) PROVE QueueInv'
  BY <1>8 DEF ScheduleWithContextForeign, QueueInv, Current
<1> QED
  BY <1>1, <1>2, <1>3, <1>4, <1>5, <1>6, <1>7, <1>8, StepCases

(* The EventIds agree with the queue. *)
LEMMA IdStep ==
    ASSUME NoUidWrap, TypeOK, UidInv, QueueInv, IdInv, OrderInv, [Next]_vars
    PROVE  IdInv'
<1> USE DEF vars, queueVars, clockVars, foreignVars, idVars
<1> DEFINE Queued(id) == \E e \in m_events : e.impl = id.impl
           IdOK(id) ==
             /\ id.impl \in 1..created
             /\ id.uid = DESTROY \/ id.uid = id.impl + 3
             /\ \A e \in m_events : id.impl = e.impl => id.uid = e.uid /\ id.ts = e.ts
             /\ (pc # "disposed" /\ id.uid # DESTROY /\ id.impl \notin cancelled)
                   => (Before(Current, id) <=> Queued(id))
<1>0. /\ \A id \in ids : IdOK(id)
      /\ cancelled \subseteq 1..created
  BY Zenon DEF IdInv
<1>1. ASSUME NEW e, CreatesEvent(e) PROVE IdInv'
  <2> DEFINE new == [ts |-> e.ts, uid |-> e.uid, impl |-> e.impl]
  <2>1. /\ m_events' = m_events \union {e} /\ created' = created + 1
        /\ m_currentTs' = m_currentTs /\ m_currentUid' = m_currentUid
        /\ e.ts \in Nat /\ e.ts >= m_currentTs
        /\ e.uid = FIRST_UID + created /\ e.impl = created + 1
        /\ ids' \subseteq ids \union {new}
        /\ cancelled' = cancelled /\ pc' = pc
    BY <1>1 DEF CreatesEvent
  <2>2. ASSUME NEW id \in ids PROVE IdOK(id)'
    <3>1. id.impl \in 1..created' /\ id.impl # e.impl
      BY <1>0, <2>1 DEF TypeOK
    <3>2. Queued(id)' <=> Queued(id)
      BY <2>1, <3>1
    <3>3. Before(Current, id)' <=> Before(Current, id)
      BY <2>1 DEF Before, Current
    <3> QED
      BY <1>0, <2>1, <3>1, <3>2, <3>3
  <2>3. IdOK(new)'
    <3>1. new.impl \in 1..created' /\ new.uid = new.impl + 3
      BY <2>1 DEF TypeOK, FIRST_UID
    <3>2. \A f \in m_events' : f.impl = new.impl => f = e
      BY <2>1 DEF QueueInv, TypeOK
    <3>3. Queued(new)'
      BY <2>1
    <3>4. Before(Current, new)'
      BY <2>1 DEF Before, Current, UidInv, TypeOK, FIRST_UID
    <3> QED
      BY <3>1, <3>2, <3>3, <3>4
  <2>4. \A id \in ids' : IdOK(id)'
    BY <2>1, <2>2, <2>3, SMTT(60)
  <2>5. cancelled' \subseteq 1..created'
    BY <1>0, <2>1, SMTT(60) DEF TypeOK
  <2> QED
    BY <2>4, <2>5 DEF IdInv
<1>2. CASE QuietStep
  <2>1. /\ UNCHANGED <<m_events, created, ids, m_currentTs, m_currentUid, cancelled>>
        /\ pc' # "disposed" => pc # "disposed"
    BY <1>2 DEF QuietStep
  <2> QED
    BY <2>1 DEF IdInv, Before, Current
<1>3. CASE ScheduleDestroy
  <2>0. PICK new : new = [ts |-> m_currentTs, uid |-> DESTROY, impl |-> created + 1]
    BY Zenon
  <2>1. /\ UNCHANGED <<m_events, m_currentTs, m_currentUid, cancelled, pc>>
        /\ created' = created + 1
        /\ ids' = ids \union {new}
    BY <1>3, <2>0 DEF ScheduleDestroy, Keep
  <2>2. ASSUME NEW id \in ids PROVE IdOK(id)'
    BY <1>0, <2>1 DEF Before, Current, TypeOK
  <2>3. IdOK(new)'
    <3>1. new.impl \in 1..created' /\ new.uid = DESTROY
      BY <2>0, <2>1 DEF TypeOK
    <3>2. \A e \in m_events' : e.impl # new.impl
      BY <2>0, <2>1, SMTT(60) DEF QueueInv, TypeOK
    <3> QED
      BY <3>1, <3>2, Zenon
  <2>4. \A id \in ids' : IdOK(id)'
    BY <2>1, <2>2, <2>3, SMTT(60)
  <2>5. cancelled' \subseteq 1..created'
    BY <1>0, <2>1, SMTT(60) DEF TypeOK
  <2> QED
    BY <2>4, <2>5 DEF IdInv
<1>4. ASSUME NEW id \in ids, Cancel(id) PROVE IdInv'
  BY <1>0, <1>4, Zenon DEF Cancel, IdInv, Before, Current
<1>5. ASSUME NEW id \in ids, RemoveEvent(id) PROVE IdInv'
  <2>1. /\ UNCHANGED <<created, ids, m_currentTs, m_currentUid, pc>>
        /\ m_events' = {e \in m_events : e.impl # id.impl}
        /\ cancelled' = cancelled \union {id.impl}
    BY <1>5 DEF RemoveEvent
  <2>2. ASSUME NEW jd \in ids PROVE IdOK(jd)'
    BY <1>0, <2>1 DEF Before, Current
  <2> QED
    BY <1>0, <2>1, <2>2, Zenon DEF IdInv
<1>6. ASSUME NEW id \in ids, RemoveDestroy(id) PROVE IdInv'
  BY <1>6 DEF RemoveDestroy, IdInv, Before, Current
<1>7. CASE Swap \/ DestroyOne
  <2>1. /\ UNCHANGED <<m_events, created, ids, m_currentTs, m_currentUid, cancelled>>
        /\ pc # "disposed"
    BY <1>7 DEF Swap, DestroyOne
  <2> QED
    BY <2>1 DEF IdInv, Before, Current
<1>8. CASE ProcessOneEvent
  <2>1. PICK next \in m_events :
          /\ \A e \in m_events : e = next \/ Before(next, e)
          /\ m_events' = m_events \ {next}
          /\ m_currentTs' = next.ts /\ m_currentUid' = next.uid
    BY <1>8 DEF ProcessOneEvent
  <2>2. UNCHANGED <<created, ids, cancelled>> /\ pc # "disposed"
    BY <1>8 DEF ProcessOneEvent
  <2>3. ASSUME NEW id \in ids PROVE IdOK(id)'
    <3>1. /\ next.ts \in Nat /\ next.uid \in Nat /\ id.ts \in Nat /\ id.uid \in Nat
          /\ m_currentTs \in Nat /\ m_currentUid \in Nat
      BY DEF TypeOK, EventType, IdType
    <3>2. Before(Current, next)
      BY DEF QueueInv
    <3>3. CASE id.impl = next.impl
      <4>1. ~Before(Current, id)'
        BY <1>0, <2>1, <3>1, <3>3 DEF Before, Current
      <4>2. ~Queued(id)'
        BY <2>1, <3>3 DEF QueueInv
      <4> QED
        BY <1>0, <2>1, <2>2, <4>1, <4>2
    <3>4. CASE id.impl # next.impl
      <4>1. Queued(id)' <=> Queued(id)
        BY <2>1, <3>4
      <4>2. ASSUME Queued(id) PROVE Before(Current, id)'
        <5>1. PICK e \in m_events : e.impl = id.impl
          BY <4>2
        <5>2. Before(next, e) /\ id.uid = e.uid /\ id.ts = e.ts
          BY <1>0, <2>1, <3>4, <5>1
        <5> QED
          BY <2>1, <5>2 DEF Before, Current
      <4>3. ASSUME Before(Current, id)' PROVE Before(Current, id)
        BY <2>1, <3>1, <3>2, <4>3 DEF Before, Current
      <4> QED
        BY <1>0, <2>1, <2>2, <4>1, <4>2, <4>3
    <3> QED
      BY <3>3, <3>4
  <2> QED
    BY <1>0, <2>2, <2>3, Zenon DEF IdInv
<1>9. CASE DoDispose
  BY <1>9 DEF DoDispose, IdInv
<1>10. ASSUME NEW t \in Foreign, ScheduleWithContextForeign(t) PROVE IdInv'
  BY <1>10, Zenon DEF ScheduleWithContextForeign, IdInv, Before, Current
<1> QED
  BY <1>1, <1>2, <1>3, <1>4, <1>5, <1>6, <1>7, <1>8, <1>9, <1>10, StepCases
-----------------------------------------------------------------------------

(* What Erase leaves: the elements before the position, then those after *)
(* it, one place earlier.                                                   *)
LEMMA EraseFacts ==
    ASSUME NEW S, NEW s \in Seq(S), NEW i \in 1..Len(s)
    PROVE  /\ Len(Erase(s, i)) = Len(s) - 1
           /\ \A j \in 1..Len(s)-1 : Erase(s, i)[j] = IF j < i THEN s[j] ELSE s[j+1]
<1> DEFINE a == SubSeq(s, 1, i-1)
           b == SubSeq(s, i+1, Len(s))
<1>1. /\ a \in Seq(S) /\ Len(a) = i - 1
      /\ \A j \in 1..i-1 : a[j] = s[j]
  OBVIOUS
<1>2. /\ b \in Seq(S) /\ Len(b) = Len(s) - i
      /\ \A j \in 1..Len(s)-i : b[j] = s[i+j]
  <2>1. \A j \in i+1..Len(s) : s[j] \in S
    OBVIOUS
  <2>2. /\ b \in Seq(S)
        /\ Len(b) = IF i + 1 <= Len(s) THEN Len(s) - (i + 1) + 1 ELSE 0
        /\ \A j \in 1..Len(s)-(i+1)+1 : b[j] = s[i+1+j-1]
    BY <2>1
  <2> QED
    BY <2>2
<1> HIDE DEF a, b
<1>3. /\ Len(a \o b) = Len(s) - 1
      /\ \A j \in 1..Len(s)-1 : (a \o b)[j] = IF j <= i - 1 THEN a[j] ELSE b[j - (i - 1)]
  <2>1. /\ Len(a \o b) = Len(a) + Len(b)
        /\ \A j \in 1..Len(a)+Len(b) : (a \o b)[j] = IF j <= Len(a) THEN a[j] ELSE b[j - Len(a)]
    <3>1. a \in Seq(S) /\ b \in Seq(S)
      BY <1>1, <1>2
    <3>2. Len(a \o b) = Len(a) + Len(b)
      BY <3>1
    <3>3. ASSUME NEW j \in 1..Len(a)+Len(b)
          PROVE  (a \o b)[j] = IF j <= Len(a) THEN a[j] ELSE b[j - Len(a)]
      BY <3>1
    <3> QED
      BY <3>2, <3>3
  <2>2. Len(a) + Len(b) = Len(s) - 1
    BY <1>1, <1>2
  <2> QED
    BY <1>1, <2>1, <2>2
<1>4. \A j \in 1..Len(s)-1 : (a \o b)[j] = IF j < i THEN s[j] ELSE s[j+1]
  <2> SUFFICES ASSUME NEW j \in 1..Len(s)-1
               PROVE  (a \o b)[j] = IF j < i THEN s[j] ELSE s[j+1]
    BY Zenon
  <2>1. CASE j < i
    BY <1>1, <1>3, <2>1
  <2>2. CASE ~(j < i)
    <3>1. j - (i - 1) \in 1..Len(s)-i /\ i + (j - (i - 1)) = j + 1
      BY <2>2
    <3> QED
      BY <1>2, <1>3, <2>2, <3>1
  <2> QED
    BY <2>1, <2>2, Zenon
<1> QED
  BY <1>3, <1>4, Zenon DEF Erase, a, b

(* IsExpired is exact for the EventIds: the core of ExpiredExact. *)
LEMMA NotExpired ==
    ASSUME IdInv, NEW id \in ids, pc # "disposed"
    PROVE  /\ (id.uid # DESTROY /\ ~IsExpired(id)) => \E e \in m_events : e.impl = id.impl
           /\ (id.uid = DESTROY /\ ~IsExpired(id)) => InDestroyList(id)
           /\ (id.uid # DESTROY /\ id.impl \notin cancelled
                 /\ \E e \in m_events : e.impl = id.impl) => ~IsExpired(id)
  BY Zenon DEF IdInv, IsExpired

(* The destroy list holds distinct EventIds that callers hold too. *)
LEMMA DestroyStep ==
    ASSUME NoUidWrap, TypeOK, UidInv, OrderInv, IdInv, DestroyInv, [Next]_vars
    PROVE  DestroyInv'
<1> USE DEF vars, queueVars, clockVars, foreignVars, idVars
<1> DEFINE new(e) == [ts |-> e.ts, uid |-> e.uid, impl |-> e.impl]
<1>0. \A id \in ids : id.impl \in 1..created
  BY Zenon DEF IdInv
<1>1. ASSUME NEW e, CreatesEvent(e) PROVE DestroyInv'
  <2>1. /\ m_destroyEvents' = m_destroyEvents
        /\ \/ ids' = ids
           \/ ids' = ids \union {new(e)}
        /\ e.impl = created + 1
    BY <1>1 DEF CreatesEvent
  <2>2. \A id \in ids : id.impl # new(e).impl
    BY <1>0, <2>1 DEF TypeOK
  <2> HIDE DEF new
  <2>3. \A id, jd \in ids' : id.impl = jd.impl => id = jd
    BY <2>1, <2>2 DEF DestroyInv
  <2> QED
    BY <2>1, <2>3 DEF DestroyInv
<1>2. CASE QuietStep
  BY <1>2 DEF QuietStep, DestroyInv
<1>3. CASE ScheduleDestroy
  <2>0. PICK d : d = [ts |-> m_currentTs, uid |-> DESTROY, impl |-> created + 1]
    BY Zenon
  <2>1. m_destroyEvents' = Append(m_destroyEvents, d) /\ ids' = ids \union {d}
    BY <1>3, <2>0 DEF ScheduleDestroy, Keep
  <2>2. d.impl = created + 1 /\ d.uid = DESTROY
    BY <2>0
  <2>3. \A id \in ids : id.impl # d.impl
    BY <1>0, <2>2 DEF TypeOK
  <2>4. \A id, jd \in ids' : id.impl = jd.impl => id = jd
    BY <2>1, <2>3 DEF DestroyInv
  <2>5. /\ Len(m_destroyEvents') = Len(m_destroyEvents) + 1
        /\ \A i \in 1..Len(m_destroyEvents) : m_destroyEvents'[i] = m_destroyEvents[i]
        /\ m_destroyEvents'[Len(m_destroyEvents) + 1] = d
        /\ Len(m_destroyEvents) \in Nat
    BY <2>1 DEF TypeOK
  <2>6. \A i \in 1..Len(m_destroyEvents') :
          /\ m_destroyEvents'[i] \in ids' /\ m_destroyEvents'[i].uid = DESTROY
          /\ i # Len(m_destroyEvents) + 1 => m_destroyEvents'[i].impl # d.impl
    BY <2>1, <2>2, <2>3, <2>5, SMTT(60) DEF DestroyInv
  <2>7. \A i, j \in 1..Len(m_destroyEvents') :
          m_destroyEvents'[i].impl = m_destroyEvents'[j].impl => i = j
    BY <2>5, <2>6 DEF DestroyInv
  <2> QED
    BY <2>4, <2>6, <2>7 DEF DestroyInv
<1>4. ASSUME NEW id \in ids, Cancel(id) \/ RemoveEvent(id) PROVE DestroyInv'
  BY <1>4, Zenon DEF Cancel, RemoveEvent, DestroyInv
<1>5. ASSUME NEW id \in ids, RemoveDestroy(id) PROVE DestroyInv'
  <2>1. PICK k \in 1..Len(m_destroyEvents) : m_destroyEvents' = Erase(m_destroyEvents, k)
    BY <1>5 DEF RemoveDestroy
  <2>2. /\ Len(m_destroyEvents') = Len(m_destroyEvents) - 1
        /\ Len(m_destroyEvents) \in Nat
        /\ \A j \in 1..Len(m_destroyEvents)-1 :
             m_destroyEvents'[j] = IF j < k THEN m_destroyEvents[j] ELSE m_destroyEvents[j+1]
    <3>1. m_destroyEvents \in Seq(IdType) /\ m_destroyEvents' = Erase(m_destroyEvents, k)
      BY <2>1 DEF TypeOK
    <3> QED
      BY <3>1, EraseFacts
  <2>3. ids' = ids
    BY <1>5 DEF RemoveDestroy
  <2> DEFINE old(j) == IF j < k THEN j ELSE j + 1
  <2>4. \A j \in 1..Len(m_destroyEvents') :
          old(j) \in 1..Len(m_destroyEvents) /\ m_destroyEvents'[j] = m_destroyEvents[old(j)]
    BY <2>2
  <2>5. \A i, j \in 1..Len(m_destroyEvents') : old(i) = old(j) => i = j
    BY <2>2, SMTT(60)
  <2> HIDE DEF old
  <2>6. \A i \in 1..Len(m_destroyEvents') :
          m_destroyEvents'[i] \in ids /\ m_destroyEvents'[i].uid = DESTROY
    BY <2>4, SMTT(60) DEF DestroyInv
  <2>7. \A i, j \in 1..Len(m_destroyEvents') :
          m_destroyEvents'[i].impl = m_destroyEvents'[j].impl => i = j
    <3> SUFFICES ASSUME NEW i \in 1..Len(m_destroyEvents'), NEW j \in 1..Len(m_destroyEvents'),
                        m_destroyEvents'[i].impl = m_destroyEvents'[j].impl
                 PROVE  i = j
      BY Zenon
    <3>1. /\ old(i) \in 1..Len(m_destroyEvents) /\ old(j) \in 1..Len(m_destroyEvents)
          /\ m_destroyEvents[old(i)].impl = m_destroyEvents[old(j)].impl
      BY <2>4, Zenon
    <3>2. old(i) = old(j)
      BY <3>1, Zenon DEF DestroyInv
    <3> QED
      BY <2>5, <3>2, Zenon
  <2> QED
    BY <2>3, <2>6, <2>7 DEF DestroyInv
<1>6. CASE DestroyOne
  <2>1. /\ Len(m_destroyEvents') = Len(m_destroyEvents) - 1
        /\ Len(m_destroyEvents) \in Nat
        /\ \A j \in 1..Len(m_destroyEvents)-1 : m_destroyEvents'[j] = m_destroyEvents[j+1]
        /\ ids' = ids
    BY <1>6, SMTT(60) DEF DestroyOne, TypeOK
  <2>2. \A j \in 1..Len(m_destroyEvents') :
          j + 1 \in 1..Len(m_destroyEvents) /\ m_destroyEvents'[j] = m_destroyEvents[j+1]
    BY <2>1
  <2>3. \A i \in 1..Len(m_destroyEvents') :
          m_destroyEvents'[i] \in ids /\ m_destroyEvents'[i].uid = DESTROY
    BY <2>2 DEF DestroyInv
  <2>4. \A i, j \in 1..Len(m_destroyEvents') :
          m_destroyEvents'[i].impl = m_destroyEvents'[j].impl => i = j
    <3> SUFFICES ASSUME NEW i \in 1..Len(m_destroyEvents'), NEW j \in 1..Len(m_destroyEvents'),
                        m_destroyEvents'[i].impl = m_destroyEvents'[j].impl
                 PROVE  i = j
      BY Zenon
    <3>1. /\ i + 1 \in 1..Len(m_destroyEvents) /\ j + 1 \in 1..Len(m_destroyEvents)
          /\ m_destroyEvents[i+1].impl = m_destroyEvents[j+1].impl
      BY <2>2, Zenon
    <3>2. i + 1 = j + 1
      BY <3>1, Zenon DEF DestroyInv
    <3> QED
      BY <2>1, <3>2
  <2> QED
    BY <2>1, <2>3, <2>4 DEF DestroyInv
<1>7. CASE Swap \/ ProcessOneEvent \/ DoDispose
  BY <1>7, Zenon DEF Swap, ProcessOneEvent, DoDispose, DestroyInv
<1>8. ASSUME NEW t \in Foreign, ScheduleWithContextForeign(t) PROVE DestroyInv'
  BY <1>8 DEF ScheduleWithContextForeign, DestroyInv
<1> QED
  BY <1>1, <1>2, <1>3, <1>4, <1>5, <1>6, <1>7, <1>8, StepCases

(* What was revoked, has run, or is still to run. *)
LEMMA RunStep ==
    ASSUME NoUidWrap, TypeOK, UidInv, OrderInv, QueueInv, IdInv, DestroyInv, RunInv,
           [Next]_vars
    PROVE  RunInv'
<1> USE DEF vars, queueVars, clockVars, foreignVars, idVars
<1>0. /\ \A e \in m_events : \A i \in 1..Len(m_destroyEvents) : e.impl # m_destroyEvents[i].impl
      /\ \A e \in m_events : e.impl \in 1..created
      /\ \A i \in 1..Len(m_destroyEvents) : m_destroyEvents[i].impl \in 1..created
  <2>1. \A e \in m_events : e.impl \in 1..created /\ e.uid # DESTROY
    BY DEF QueueInv, TypeOK, DESTROY
  <2>2. \A i \in 1..Len(m_destroyEvents) :
          m_destroyEvents[i] \in ids /\ m_destroyEvents[i].uid = DESTROY
    BY Zenon DEF DestroyInv
  <2>3. \A id \in ids : /\ id.impl \in 1..created
                        /\ \A e \in m_events : id.impl = e.impl => id.uid = e.uid
    BY Zenon DEF IdInv
  <2> QED
    BY <2>1, <2>2, <2>3, Zenon
<1>1. ASSUME NEW e, CreatesEvent(e) PROVE RunInv'
  <2>1. /\ m_events' = m_events \union {e} /\ created' = created + 1
        /\ e.impl = created + 1
        /\ UNCHANGED <<m_destroyEvents, invoked, revoked, cancelled>>
    BY <1>1 DEF CreatesEvent
  <2>2. e.impl \notin invoked /\ e.impl \notin revoked
    BY <2>1, SMTT(60) DEF RunInv, TypeOK
  <2>3. invoked \subseteq 1..created' /\ revoked \subseteq 1..created'
    BY <2>1, SMTT(60) DEF RunInv, TypeOK
  <2> QED
    BY <2>1, <2>2, <2>3 DEF RunInv
<1>2. CASE QuietStep
  BY <1>2 DEF QuietStep, RunInv
<1>3. CASE ScheduleDestroy
  <2>0. PICK d : d = [ts |-> m_currentTs, uid |-> DESTROY, impl |-> created + 1]
    BY Zenon
  <2>1. /\ m_destroyEvents' = Append(m_destroyEvents, d)
        /\ created' = created + 1
        /\ UNCHANGED <<m_events, invoked, revoked, cancelled>>
    BY <1>3, <2>0 DEF ScheduleDestroy
  <2>2. \A i \in 1..Len(m_destroyEvents') :
          \/ m_destroyEvents'[i] = d
          \/ i \in 1..Len(m_destroyEvents) /\ m_destroyEvents'[i] = m_destroyEvents[i]
    BY <2>1 DEF TypeOK
  <2>3. d.impl \notin invoked /\ d.impl \notin revoked
    BY <2>0, SMTT(60) DEF RunInv, TypeOK
  <2>4. invoked \subseteq 1..created' /\ revoked \subseteq 1..created'
    BY <2>1 DEF RunInv, TypeOK
  <2>5. \A i \in 1..Len(m_destroyEvents') :
          /\ m_destroyEvents'[i].impl \notin invoked
          /\ \A r \in revoked : r \notin cancelled => m_destroyEvents'[i].impl # r
    BY <2>2, <2>3, Zenon DEF RunInv
  <2> QED
    BY <2>1, <2>4, <2>5, Zenon DEF RunInv
<1>4. ASSUME NEW id \in ids, Cancel(id) \/ RemoveEvent(id) PROVE RunInv'
  <2>1. /\ ~IsExpired(id) /\ pc # "disposed"
        /\ m_events' \subseteq m_events
        /\ cancelled' = cancelled \union {id.impl}
        /\ revoked' = revoked \union {id.impl}
        /\ UNCHANGED <<m_destroyEvents, invoked, created>>
    BY <1>4, Zenon DEF Cancel, RemoveEvent, InUserCode
  <2>2. id.impl \notin invoked
    <3>1. CASE id.uid = DESTROY
      BY <2>1, <3>1, NotExpired, Zenon DEF InDestroyList, RunInv
    <3>2. CASE id.uid # DESTROY
      BY <2>1, <3>2, NotExpired, Zenon DEF RunInv
    <3> QED
      BY <3>1, <3>2
  <2>3. id.impl \in 1..created
    BY DEF IdInv
  <2> QED
    BY <2>1, <2>2, <2>3, Zenon DEF RunInv
<1>5. ASSUME NEW id \in ids, RemoveDestroy(id) PROVE RunInv'
  <2>1. PICK k \in 1..Len(m_destroyEvents) :
          m_destroyEvents[k] = id /\ m_destroyEvents' = Erase(m_destroyEvents, k)
    BY <1>5 DEF RemoveDestroy
  <2>2. /\ Len(m_destroyEvents') = Len(m_destroyEvents) - 1
        /\ Len(m_destroyEvents) \in Nat
        /\ \A j \in 1..Len(m_destroyEvents)-1 :
             m_destroyEvents'[j] = IF j < k THEN m_destroyEvents[j] ELSE m_destroyEvents[j+1]
    <3>1. m_destroyEvents \in Seq(IdType) /\ m_destroyEvents' = Erase(m_destroyEvents, k)
      BY <2>1 DEF TypeOK
    <3> QED
      BY <3>1, EraseFacts
  <2>3. /\ revoked' = revoked \union {id.impl}
        /\ UNCHANGED <<m_events, invoked, created, cancelled>>
    BY <1>5 DEF RemoveDestroy
  <2>4. \A j \in 1..Len(m_destroyEvents') :
          \E i \in 1..Len(m_destroyEvents) : i # k /\ m_destroyEvents'[j] = m_destroyEvents[i]
    <3> SUFFICES ASSUME NEW j \in 1..Len(m_destroyEvents')
                 PROVE  \E i \in 1..Len(m_destroyEvents) :
                           i # k /\ m_destroyEvents'[j] = m_destroyEvents[i]
      OBVIOUS
    <3>1. CASE j < k
      <4>1. j \in 1..Len(m_destroyEvents) /\ j # k /\ m_destroyEvents'[j] = m_destroyEvents[j]
        BY <2>2, <3>1
      <4> QED
        BY <4>1
    <3>2. CASE ~(j < k)
      <4>1. /\ j + 1 \in 1..Len(m_destroyEvents) /\ j + 1 # k
            /\ m_destroyEvents'[j] = m_destroyEvents[j+1]
        BY <2>2, <3>2
      <4> QED
        BY <4>1
    <3> QED
      BY <3>1, <3>2
  <2>5. \A j \in 1..Len(m_destroyEvents') :
          m_destroyEvents'[j].impl # id.impl /\ m_destroyEvents'[j].impl \notin invoked
    BY <2>1, <2>4, SMTT(60) DEF DestroyInv, RunInv
  <2>6. id.impl \in 1..created /\ id.impl \notin invoked
    BY <2>1, <1>0 DEF RunInv
  <2>7. \A e \in m_events : e.impl # id.impl
    BY <1>0, <2>1
  <2> QED
    BY <2>3, <2>4, <2>5, <2>6, <2>7, Zenon DEF RunInv
<1>6. CASE ProcessOneEvent
  <2>1. PICK next \in m_events :
          /\ m_events' = m_events \ {next}
          /\ \/ invoked' = invoked
             \/ invoked' = invoked \union {next.impl} /\ next.impl \notin cancelled
    BY <1>6 DEF ProcessOneEvent
  <2>2. UNCHANGED <<created, cancelled, revoked, m_destroyEvents>>
    BY <1>6 DEF ProcessOneEvent
  <2>3. \A e \in m_events' : e.impl # next.impl
    BY <2>1 DEF QueueInv
  <2>4. next.impl \notin cancelled => next.impl \notin revoked
    BY Zenon DEF RunInv
  <2>5. /\ invoked' \subseteq 1..created
        /\ revoked \intersect invoked' = {}
    BY <1>0, <2>1, <2>4, Zenon DEF RunInv
  <2>6. /\ \A e \in m_events' : e.impl \notin invoked'
        /\ \A i \in 1..Len(m_destroyEvents) : m_destroyEvents[i].impl \notin invoked'
    BY <1>0, <2>1, <2>3 DEF RunInv
  <2>7. m_events' \subseteq m_events
    BY <2>1
  <2> QED
    BY <2>2, <2>5, <2>6, <2>7, Zenon DEF RunInv
<1>7. CASE DestroyOne
  <2>0. PICK d : d = Head(m_destroyEvents).impl
    OBVIOUS
  <2>1. /\ Len(m_destroyEvents') = Len(m_destroyEvents) - 1
        /\ Len(m_destroyEvents) \in Nat \ {0}
        /\ \A j \in 1..Len(m_destroyEvents)-1 : m_destroyEvents'[j] = m_destroyEvents[j+1]
        /\ d = m_destroyEvents[1].impl
    BY <1>7, <2>0 DEF DestroyOne, TypeOK
  <2>2. /\ \/ invoked' = invoked
           \/ invoked' = invoked \union {d} /\ d \notin cancelled
        /\ UNCHANGED <<created, cancelled, revoked, m_events>>
    BY <1>7, <2>0, Zenon DEF DestroyOne
  <2>3. \A j \in 1..Len(m_destroyEvents') :
          /\ m_destroyEvents'[j].impl # d
          /\ m_destroyEvents'[j].impl \notin invoked
          /\ \E i \in 1..Len(m_destroyEvents) : m_destroyEvents'[j] = m_destroyEvents[i]
    BY <2>1, SMTT(60) DEF DestroyInv, RunInv
  <2>4. /\ \A e \in m_events : e.impl # d
        /\ d \in 1..created
        /\ d \notin cancelled => d \notin revoked
    BY <1>0, <2>1, SMTT(60) DEF RunInv
  <2> QED
    BY <2>2, <2>3, <2>4, Zenon DEF RunInv
<1>8. CASE DoDispose
  BY <1>8 DEF DoDispose, RunInv
<1>9. CASE Swap
  BY <1>9 DEF Swap, RunInv
<1>10. ASSUME NEW t \in Foreign, ScheduleWithContextForeign(t) PROVE RunInv'
  BY <1>10, Zenon DEF ScheduleWithContextForeign, RunInv
<1> QED
  BY <1>1, <1>2, <1>3, <1>4, <1>5, <1>6, <1>7, <1>8, <1>9, <1>10, StepCases

LEMMA AppendFacts ==
    ASSUME NEW S, NEW q \in Seq(S), NEW x
    PROVE  /\ Len(q) \in Nat /\ Len(Append(q, x)) = Len(q) + 1
           /\ Append(q, x)[Len(q) + 1] = x
           /\ \A i \in 1..Len(q) : Append(q, x)[i] = q[i]
OBVIOUS

(* Submission numbers grow along the queue and the two lists. *)
LEMMA OrderStep ==
    ASSUME NoUidWrap, TypeOK, UidInv, QueueInv, OrderInv, [Next]_vars
    PROVE  OrderInv'
<1> USE DEF vars, queueVars, clockVars, foreignVars, idVars
<1>1. ASSUME NEW e, CreatesEvent(e), e.sub = 0, UNCHANGED eventsWithContext PROVE OrderInv'
  <2>1. /\ m_events' = m_events \union {e}
        /\ UNCHANGED <<m_eventsWithContext, eventsWithContext, submitted, pc>>
    BY <1>1 DEF CreatesEvent
  <2>2. /\ submitted \in Nat
        /\ \A f \in m_events : f.sub \in Nat /\ f.uid \in Nat
    BY DEF TypeOK, EventType
  <2>3. e.uid \in Nat /\ \A f \in m_events : f.uid < e.uid
    BY <1>1, SMTT(60) DEF CreatesEvent, QueueInv, TypeOK, FIRST_UID
  <2>4. \A f, g \in m_events' : 0 < f.sub /\ f.sub < g.sub => f.uid < g.uid
    <3>1. \A f, g \in m_events : 0 < f.sub /\ f.sub < g.sub => f.uid < g.uid
      BY Zenon DEF OrderInv, SubmissionOrder
    <3> QED
      BY <1>1, <2>1, <2>2, <2>3, <3>1
  <2>5. \A f \in m_events' :
          /\ f.sub \in 0..submitted
          /\ \A i \in 1..Len(m_eventsWithContext) : f.sub < m_eventsWithContext[i].sub
          /\ \A i \in 1..Len(eventsWithContext) : f.sub < eventsWithContext[i].sub
    <3>1. /\ \A i \in 1..Len(m_eventsWithContext) : m_eventsWithContext[i].sub \in 1..submitted
          /\ \A i \in 1..Len(eventsWithContext) : eventsWithContext[i].sub \in 1..submitted
      BY Zenon DEF OrderInv
    <3>2. /\ 0 \in 0..submitted
          /\ \A i \in 1..submitted : 0 < i
      BY <2>2
    <3>3. /\ e.sub \in 0..submitted
          /\ \A i \in 1..Len(m_eventsWithContext) : e.sub < m_eventsWithContext[i].sub
          /\ \A i \in 1..Len(eventsWithContext) : e.sub < eventsWithContext[i].sub
      BY <1>1, <3>1, <3>2, Zenon
    <3> QED
      BY <2>1, <3>3, Zenon DEF OrderInv
  <2> QED
    BY <2>1, <2>4, <2>5, Zenon DEF OrderInv, SubmissionOrder
<1>2. ASSUME NEW e, CreatesEvent(e), eventsWithContext # <<>>,
             e.sub = eventsWithContext[1].sub, eventsWithContext' = Tail(eventsWithContext)
      PROVE  OrderInv'
  <2>1. /\ m_events' = m_events \union {e}
        /\ UNCHANGED <<m_eventsWithContext, submitted, pc>>
    BY <1>2 DEF CreatesEvent
  <2>2. /\ submitted \in Nat
        /\ \A f \in m_events : f.sub \in Nat /\ f.uid \in Nat
    BY DEF TypeOK, EventType
  <2>3. e.uid \in Nat /\ \A f \in m_events : f.uid < e.uid
    BY <1>2, SMTT(60) DEF CreatesEvent, QueueInv, TypeOK, FIRST_UID
  <2>4. /\ Len(eventsWithContext) \in Nat \ {0}
        /\ Len(eventsWithContext') = Len(eventsWithContext) - 1
        /\ \A i \in 1..Len(eventsWithContext') : eventsWithContext'[i] = eventsWithContext[i+1]
    BY <1>2 DEF TypeOK
  <2>5. /\ 1 \in 1..Len(eventsWithContext)
        /\ \A i \in 1..Len(eventsWithContext') :
             i + 1 \in 1..Len(eventsWithContext) /\ 1 < i + 1
        /\ \A i, j \in 1..Len(eventsWithContext') : i < j => i + 1 < j + 1
    BY <2>4
  <2>6. /\ e.sub \in 1..submitted /\ \A f \in m_events : f.sub < e.sub
        /\ \A j \in 1..Len(m_eventsWithContext) : e.sub < m_eventsWithContext[j].sub
        /\ \A i \in 1..Len(eventsWithContext') : e.sub < eventsWithContext'[i].sub
    BY <1>2, <2>4, <2>5, Zenon DEF OrderInv
  <2>7. \A f, g \in m_events' : 0 < f.sub /\ f.sub < g.sub => f.uid < g.uid
    <3>1. \A f, g \in m_events : 0 < f.sub /\ f.sub < g.sub => f.uid < g.uid
      BY Zenon DEF OrderInv, SubmissionOrder
    <3>2. \A f \in m_events : f.sub < e.sub /\ f.sub \in Nat /\ f.uid < e.uid
      BY <2>2, <2>3, <2>6
    <3>3. e.sub \in Nat
      BY <2>2, <2>6
    <3> QED
      BY <2>1, <3>1, <3>2, <3>3
  <2>8. \A f \in m_events :
          /\ f.sub \in 0..submitted
          /\ \A i \in 1..Len(m_eventsWithContext) : f.sub < m_eventsWithContext[i].sub
          /\ \A i \in 1..Len(eventsWithContext') : f.sub < eventsWithContext'[i].sub
    BY <2>4, <2>5, Zenon DEF OrderInv
  <2>9. \A f \in m_events' :
          /\ f.sub \in 0..submitted
          /\ \A i \in 1..Len(m_eventsWithContext) : f.sub < m_eventsWithContext[i].sub
          /\ \A i \in 1..Len(eventsWithContext') : f.sub < eventsWithContext'[i].sub
    <3>1. e.sub \in 0..submitted
      BY <2>2, <2>6
    <3> QED
      BY <2>1, <2>6, <2>8, <3>1
  <2>10. \A i \in 1..Len(eventsWithContext') :
          /\ eventsWithContext'[i].sub \in 1..submitted
          /\ \A j \in 1..Len(m_eventsWithContext) :
               eventsWithContext'[i].sub < m_eventsWithContext[j].sub
    BY <2>4, <2>5, Zenon DEF OrderInv
  <2>11. \A i, j \in 1..Len(eventsWithContext') :
          i < j => eventsWithContext'[i].sub < eventsWithContext'[j].sub
    BY <2>4, <2>5, Zenon DEF OrderInv
  <2>12. pc' # "drain" => eventsWithContext' = <<>>
    BY <1>2, <2>1 DEF OrderInv
  <2> QED
    BY <2>1, <2>7, <2>9, <2>10, <2>11, <2>12, Zenon DEF OrderInv, SubmissionOrder
<1>3. CASE QuietStep
  BY <1>3, Zenon DEF QuietStep, OrderInv, SubmissionOrder
<1>4. CASE ScheduleDestroy \/ DestroyOne
  <2>1. UNCHANGED <<m_events, m_eventsWithContext, eventsWithContext, submitted>>
    BY <1>4, Zenon DEF ScheduleDestroy, DestroyOne
  <2>2. pc' = pc \/ pc = "destroy"
    BY <1>4 DEF ScheduleDestroy, DestroyOne
  <2>3. eventsWithContext' = <<>> \/ pc' = pc
    BY <2>1, <2>2, Zenon DEF OrderInv
  <2> QED
    BY <2>1, <2>3, Zenon DEF OrderInv, SubmissionOrder
<1>5. ASSUME NEW id \in ids, Cancel(id) \/ RemoveEvent(id) \/ RemoveDestroy(id)
      PROVE  OrderInv'
  <2>1. /\ m_events' \subseteq m_events
        /\ UNCHANGED <<m_eventsWithContext, eventsWithContext, submitted, pc>>
    BY <1>5, Zenon DEF Cancel, RemoveEvent, RemoveDestroy
  <2> QED
    BY <2>1, Zenon DEF OrderInv, SubmissionOrder
<1>6. CASE Swap
  <2>1. /\ eventsWithContext' = m_eventsWithContext /\ m_eventsWithContext' = <<>>
        /\ Len(m_eventsWithContext') = 0
        /\ pc' = "drain" /\ UNCHANGED <<m_events, submitted>>
    BY <1>6 DEF Swap
  <2>2. \A i : i \notin 1..Len(m_eventsWithContext')
    BY <2>1
  <2> QED
    BY <2>1, <2>2, Zenon DEF OrderInv, SubmissionOrder
<1>7. CASE ProcessOneEvent
  <2>1. /\ m_events' \subseteq m_events
        /\ UNCHANGED <<m_eventsWithContext, eventsWithContext, submitted>>
        /\ pc # "drain"
    BY <1>7 DEF ProcessOneEvent
  <2> QED
    BY <2>1, Zenon DEF OrderInv, SubmissionOrder
<1>8. CASE DoDispose
  <2>1. /\ m_events' = {} /\ m_eventsWithContext' = <<>> /\ Len(m_eventsWithContext') = 0
        /\ UNCHANGED <<eventsWithContext, submitted>>
        /\ pc # "drain"
    BY <1>8 DEF DoDispose
  <2>2. \A i : i \notin 1..Len(m_eventsWithContext')
    BY <2>1
  <2> QED
    BY <2>1, <2>2, Zenon DEF OrderInv, SubmissionOrder
<1>9. ASSUME NEW t \in Foreign, ScheduleWithContextForeign(t) PROVE OrderInv'
  <2>1. PICK s : m_eventsWithContext' = Append(m_eventsWithContext, s) /\ s.sub = submitted + 1
    BY <1>9 DEF ScheduleWithContextForeign
  <2>2. /\ submitted' = submitted + 1 /\ submitted \in Nat
        /\ UNCHANGED <<m_events, eventsWithContext, pc>>
    BY <1>9 DEF ScheduleWithContextForeign, TypeOK
  <2>3. /\ Len(m_eventsWithContext) \in Nat
        /\ Len(m_eventsWithContext') = Len(m_eventsWithContext) + 1
        /\ m_eventsWithContext'[Len(m_eventsWithContext) + 1] = s
        /\ \A i \in 1..Len(m_eventsWithContext) :
             m_eventsWithContext'[i] = m_eventsWithContext[i]
    <3>1. PICK S : m_eventsWithContext \in Seq(S)
      BY Zenon DEF TypeOK
    <3> QED
      BY <2>1, <3>1, AppendFacts, ZenonT(60)
  <2>4. \A i \in 1..Len(m_eventsWithContext') :
          \/ i \in 1..Len(m_eventsWithContext) /\ m_eventsWithContext'[i] = m_eventsWithContext[i]
          \/ i = Len(m_eventsWithContext) + 1 /\ m_eventsWithContext'[i] = s
    BY <2>3
  <2>5. /\ \A k \in 1..submitted : k \in 1..submitted' /\ k < s.sub
        /\ \A k \in 0..submitted : k \in 0..submitted' /\ k < s.sub
        /\ s.sub \in 1..submitted'
    BY <2>1, <2>2
  <2>6. /\ \A i \in 1..Len(m_eventsWithContext) : m_eventsWithContext[i].sub \in 1..submitted
        /\ \A i \in 1..Len(eventsWithContext) : eventsWithContext[i].sub \in 1..submitted
        /\ \A e \in m_events : e.sub \in 0..submitted
    BY Zenon DEF OrderInv
  <2>7. \A i \in 1..Len(m_eventsWithContext') : m_eventsWithContext'[i].sub \in 1..submitted'
    BY <2>4, <2>5, <2>6, Zenon
  <2>8. \A i, j \in 1..Len(m_eventsWithContext') :
          i < j => m_eventsWithContext'[i].sub < m_eventsWithContext'[j].sub
    <3>1. \A i, j \in 1..Len(m_eventsWithContext') : i < j => i \in 1..Len(m_eventsWithContext)
      BY <2>3
    <3>2. \A i \in 1..Len(m_eventsWithContext) : m_eventsWithContext'[i] = m_eventsWithContext[i]
      BY <2>3
    <3> QED
      BY <2>4, <2>5, <2>6, <3>1, <3>2, Zenon DEF OrderInv
  <2>9. \A i \in 1..Len(eventsWithContext) :
          /\ eventsWithContext[i].sub \in 1..submitted'
          /\ \A j \in 1..Len(m_eventsWithContext') :
               eventsWithContext[i].sub < m_eventsWithContext'[j].sub
    BY <2>4, <2>5, <2>6, Zenon DEF OrderInv
  <2>10. \A e \in m_events :
          /\ e.sub \in 0..submitted'
          /\ \A j \in 1..Len(m_eventsWithContext') : e.sub < m_eventsWithContext'[j].sub
    BY <2>4, <2>5, <2>6, Zenon DEF OrderInv
  <2> QED
    BY <2>2, <2>7, <2>8, <2>9, <2>10, Zenon DEF OrderInv, SubmissionOrder
<1>10. ASSUME NEW e, CreatesEvent(e) PROVE OrderInv'
  BY <1>1, <1>2, <1>10, Zenon DEF CreatesEvent
<1> QED
  BY <1>3, <1>4, <1>5, <1>6, <1>7, <1>8, <1>9, <1>10, StepCases
-----------------------------------------------------------------------------

(* m_unscheduledEvents counts the queue. *)
LEMMA CountStep ==
    ASSUME NoUidWrap, TypeOK, UidInv, OrderInv, QueueInv, IdInv, CountInv, [Next]_vars
    PROVE  CountInv'
<1> USE DEF vars, queueVars, clockVars, foreignVars, idVars
<1>1. ASSUME NEW e, CreatesEvent(e) PROVE CountInv'
  <2>1. e \notin m_events
    <3>1. e.impl = created + 1 /\ \A f \in m_events : f.impl \in 1..created
      BY <1>1, Zenon DEF CreatesEvent, QueueInv
    <3>2. created \in Nat
      BY Zenon DEF TypeOK
    <3> QED
      BY <3>1, <3>2
  <2>2. IsFiniteSet(m_events') /\ Cardinality(m_events') = Cardinality(m_events) + 1
    BY <1>1, <2>1, FS_AddElement, Zenon DEF CreatesEvent, CountInv
  <2> QED
    BY <1>1, <2>2, Zenon DEF CreatesEvent, CountInv
<1>2. CASE QuietStep
  BY <1>2 DEF QuietStep, CountInv
<1>3. CASE ScheduleDestroy \/ Swap \/ DestroyOne
  BY <1>3, Zenon DEF ScheduleDestroy, Swap, DestroyOne, CountInv, InUserCode
<1>4. ASSUME NEW id \in ids, Cancel(id) \/ RemoveDestroy(id) PROVE CountInv'
  BY <1>4 DEF Cancel, RemoveDestroy, CountInv
<1>5. ASSUME NEW id \in ids, RemoveEvent(id) PROVE CountInv'
  <2>1. pc # "disposed" /\ id.uid # DESTROY /\ ~IsExpired(id)
    BY <1>5, Zenon DEF RemoveEvent, InUserCode
  <2>2. PICK e \in m_events : e.impl = id.impl
    BY <2>1, NotExpired, Zenon
  <2>3. m_events' = m_events \ {e}
    BY <1>5, <2>2 DEF RemoveEvent, QueueInv
  <2>4. IsFiniteSet(m_events') /\ Cardinality(m_events') = Cardinality(m_events) - 1
    BY <2>2, <2>3, FS_RemoveElement, Zenon DEF CountInv
  <2> QED
    BY <1>5, <2>1, <2>4, Zenon DEF RemoveEvent, CountInv
<1>6. CASE ProcessOneEvent
  <2>1. PICK next \in m_events : m_events' = m_events \ {next}
    BY <1>6 DEF ProcessOneEvent
  <2>2. IsFiniteSet(m_events') /\ Cardinality(m_events') = Cardinality(m_events) - 1
    BY <2>1, FS_RemoveElement DEF CountInv
  <2> QED
    BY <1>6, <2>2 DEF ProcessOneEvent, CountInv
<1>7. CASE DoDispose
  BY <1>7, FS_EmptySet DEF DoDispose, CountInv
<1>8. ASSUME NEW t \in Foreign, ScheduleWithContextForeign(t) PROVE CountInv'
  BY <1>8, Zenon DEF ScheduleWithContextForeign, CountInv
<1> QED
  BY <1>1, <1>2, <1>3, <1>4, <1>5, <1>6, <1>7, <1>8, StepCases

-----------------------------------------------------------------------------
(* The inductive invariant holds initially and after every step. *)
LEMMA InvInit == Init => Inv
<1> SUFFICES ASSUME Init PROVE Inv
  OBVIOUS
<1> USE DEF Init
<1>1. TypeOK
  <2>1. m_uid \in 0..UidRange-1
    BY UidRangeAssumption DEF FIRST_UID
  <2>2. m_stop \in BOOLEAN /\ m_eventsWithContextEmpty \in BOOLEAN
    BY Zenon
  <2> QED
    BY <2>1, <2>2 DEF TypeOK
<1>2. Len(m_eventsWithContext) = 0 /\ Len(eventsWithContext) = 0 /\ Len(m_destroyEvents) = 0
  OBVIOUS
<1>3. UidInv
  BY <1>2, MaxCreatedAssumption DEF UidInv, FIRST_UID
<1>4. QueueInv /\ IdInv
  BY DEF QueueInv, IdInv
<1>5. DestroyInv /\ RunInv
  BY <1>2 DEF DestroyInv, RunInv
<1>6. CountInv
  BY FS_EmptySet DEF CountInv
<1>7. OrderInv
  BY <1>2 DEF OrderInv, SubmissionOrder
<1> QED
  BY <1>1, <1>3, <1>4, <1>5, <1>6, <1>7 DEF Inv

(* Every step keeps the inductive invariant. *)
LEMMA InvStep == ASSUME NoUidWrap, Inv, [Next]_vars PROVE Inv'
  BY TypeStep, UidStep, QueueStep, IdStep, DestroyStep, RunStep, CountStep, OrderStep DEF Inv

(* The inductive invariant holds in every reachable state. *)
THEOREM Invariance == ASSUME NoUidWrap PROVE Spec => []Inv
<1>1. Inv /\ [Next]_vars => Inv'
  BY InvStep
<1> QED
  BY <1>1, InvInit, PTL DEF Spec

(* What the invariant says of IsExpired. *)
LEMMA InvExpired == Inv => ExpiredExact
<1> SUFFICES ASSUME Inv, pc # "disposed", NEW id \in ids PROVE IsExpired(id) <=> ~Pending(id)
  BY DEF ExpiredExact
<1>1. CASE id.uid = DESTROY
  <2>1. \A e \in m_events : e.impl # id.impl
    BY <1>1 DEF Inv, IdInv, QueueInv, TypeOK, DESTROY
  <2> QED
    BY <1>1, <2>1 DEF IsExpired, Pending, Impls
<1>2. CASE id.uid # DESTROY
  <2>1. ~InDestroyList(id)
    BY <1>2 DEF Inv, DestroyInv, InDestroyList
  <2>2. (id.impl \notin cancelled /\ \E e \in m_events : e.impl = id.impl) <=> ~IsExpired(id)
    BY <1>2, NotExpired, Zenon DEF Inv, IsExpired
  <2> QED
    BY <2>1, <2>2 DEF Pending, Impls
<1> QED
  BY <1>1, <1>2

(* The queue is always ahead of the clock (the assertion of                 *)
(* ProcessOneEvent), IsExpired is exact, m_unscheduledEvents counts the     *)
(* queue, revoked events never run, and submissions keep their order.       *)
THEOREM EngineSafety ==
    ASSUME NoUidWrap
    PROVE  Spec => [](QueueAhead /\ ExpiredExact /\ UnscheduledCount
                        /\ RevokedNeverRuns /\ SubmissionOrder)
<1>1. Inv => QueueAhead /\ UnscheduledCount /\ RevokedNeverRuns /\ SubmissionOrder
  BY Zenon DEF Inv, QueueInv, CountInv, RunInv, OrderInv, QueueAhead, UnscheduledCount,
         RevokedNeverRuns
<1> QED
  BY <1>1, InvExpired, Invariance, PTL

(* Each of the five invariants by itself. *)

(* No event that is queued is behind the clock: the assertion of            *)
(* ProcessOneEvent holds in every run of the loop.                          *)
THEOREM EngineQueue == ASSUME NoUidWrap PROVE Spec => []QueueAhead
  BY EngineSafety, PTL

(* IsExpired agrees with the queue for every EventId ever given out.        *)
THEOREM EngineExpired == ASSUME NoUidWrap PROVE Spec => []ExpiredExact
  BY EngineSafety, PTL

(* m_unscheduledEvents counts the queue through Schedule, Remove, Cancel    *)
(* and the hand-over: the assertion at the end of Run holds.                *)
THEOREM EngineCount == ASSUME NoUidWrap PROVE Spec => []UnscheduledCount
  BY EngineSafety, PTL

(* What Cancel or Remove revoked before it ran never runs.                  *)
THEOREM EngineRevoked == ASSUME NoUidWrap PROVE Spec => []RevokedNeverRuns
  BY EngineSafety, PTL

(* Submissions of other threads that are due at the same time run in the    *)
(* order in which ScheduleWithContext took them.                            *)
THEOREM EngineSubmissions == ASSUME NoUidWrap PROVE Spec => []SubmissionOrder
  BY EngineSafety, PTL

(* A step never moves the clock back and runs equal times in uid order. *)
THEOREM EngineClock == ASSUME NoUidWrap PROVE Spec => ClockForward
<1>1. ASSUME Inv, [Next]_vars
      PROVE  [\/ UNCHANGED <<m_currentTs, m_currentUid>>
              \/ m_currentTs' > m_currentTs
              \/ m_currentTs' = m_currentTs /\ m_currentUid' > m_currentUid]_vars
  <2> USE DEF vars, queueVars, clockVars, foreignVars, idVars
  <2>1. CASE ProcessOneEvent
    <3>1. PICK next \in m_events : m_currentTs' = next.ts /\ m_currentUid' = next.uid
      BY <2>1 DEF ProcessOneEvent
    <3>2. Before(Current, next)
      BY <1>1 DEF Inv, QueueInv
    <3>3. /\ next.ts \in Nat /\ next.uid \in Nat
          /\ m_currentTs \in Nat /\ m_currentUid \in Nat
      BY <1>1 DEF Inv, TypeOK, EventType
    <3> QED
      BY <3>1, <3>2, <3>3 DEF Before, Current
  <2>2. CASE ~ProcessOneEvent
    <3>1. UNCHANGED <<m_currentTs, m_currentUid>>
      BY <1>1, <2>2, StepCases, Zenon
         DEF Inv, CreatesEvent, QuietStep, ScheduleDestroy, Cancel, RemoveEvent, RemoveDestroy,
             Swap, DestroyOne, DoDispose, ScheduleWithContextForeign
    <3> QED
      BY <3>1
  <2> QED
    BY <2>1, <2>2
<1> QED
  BY <1>1, Invariance, PTL DEF Spec, ClockForward
=============================================================================
