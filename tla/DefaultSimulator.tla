-------------------------- MODULE DefaultSimulator --------------------------
(***************************************************************************)
(* The sequential simulation engine, ns3::DefaultSimulatorImpl: the event  *)
(* loop of Run, the Schedule* family, Cancel, Remove and IsExpired on the  *)
(* EventIds that callers keep, Stop, the destroy list, and the hand-over   *)
(* of events that other threads submit with ScheduleWithContext.           *)
(*                                                                         *)
(* The event queue is the set of its events; which data structure holds it *)
(* is the subject of the modules EventList, ListScheduler, HeapScheduler   *)
(* and CalendarScheduler.                                                  *)
(*                                                                         *)
(* An event handler is arbitrary code, so while a handler runs (and while  *)
(* the main program is outside Run) the main thread may make any call of   *)
(* the API.  Time is in time steps; an EventImpl is the number of the      *)
(* event it was created for, which stands for its address.                 *)
(***************************************************************************)
EXTENDS Integers, Sequences, FiniteSets

CONSTANTS
    Delays,        \* the delays callers pass to Schedule
    Contexts,      \* the contexts (node ids) callers pass
    Foreign,       \* the threads other than the main one
    UidRange,      \* number of values of m_uid: 2^32 in the code
    MaxCreated,    \* bound: events created in a behaviour
    MaxSubmitted   \* bound: events submitted by the foreign threads

ASSUME DelaysAssumption == Delays \subseteq Nat
ASSUME UidRangeAssumption == UidRange \in Nat /\ UidRange > 4
ASSUME MaxCreatedAssumption == MaxCreated \in Nat
ASSUME MaxSubmittedAssumption == MaxSubmitted \in Nat

NO_CONTEXT == "NO_CONTEXT"
DESTROY == 2      \* the uid shared by all the destroy events
FIRST_UID == 4

VARIABLES
    m_events,                 \* the event queue
    m_uid,                    \* next event uid
    m_currentUid, m_currentTs, m_currentContext,
    m_stop,
    m_unscheduledEvents,
    m_destroyEvents,          \* list of EventIds
    m_eventsWithContext,      \* events submitted by other threads
    m_eventsWithContextEmpty, \* flag that is read without the mutex
    eventsWithContext,        \* the local list ProcessEventsWithContext drains
    pc,                       \* where the main thread is
    cancelled,                \* EventImpls whose m_cancel is set
    created,                  \* number of EventImpls put in a queue so far
    submitted,                \* number of events submitted by other threads
    ids,                      \* EventIds callers hold
    invoked,                  \* EventImpls whose function has been called
    revoked                   \* EventImpls successfully cancelled or removed

queueVars == <<m_events, m_uid, m_unscheduledEvents, created>>
clockVars == <<m_currentUid, m_currentTs, m_currentContext>>
foreignVars == <<m_eventsWithContext, m_eventsWithContextEmpty, submitted>>
idVars == <<cancelled, ids, revoked>>
vars == <<queueVars, clockVars, foreignVars, idVars, m_stop, m_destroyEvents,
          eventsWithContext, pc, invoked>>

(* Mutant: events compared by uid alone. *)
BeforeUidOnly(a, b) == a.uid < b.uid

-----------------------------------------------------------------------------
(* Scheduler::EventKey: events are ordered by time, then by uid. *)
Before(a, b) == a.ts < b.ts \/ (a.ts = b.ts /\ a.uid < b.uid)

Current == [ts |-> m_currentTs, uid |-> m_currentUid]

Impls(S) == {e.impl : e \in S}

InDestroyList(id) == \E i \in 1..Len(m_destroyEvents) : m_destroyEvents[i] = id

(* Mutant: the uid is not compared among events due at the current time. *)
IsExpiredByTimeOnly(id) ==
    \/ id.impl \in cancelled
    \/ IF id.uid = DESTROY THEN ~InDestroyList(id)
                           ELSE id.ts < m_currentTs

IsExpired(id) ==
    \/ id.impl \in cancelled
    \/ IF id.uid = DESTROY THEN ~InDestroyList(id)
                           ELSE ~Before(Current, id)

NextUid(u) == (u + 1) % UidRange

(* The bound on the events of a behaviour; events other threads submitted   *)
(* but that are not in the queue yet are counted.                           *)
MayCreate == created + Len(m_eventsWithContext) + Len(eventsWithContext) < MaxCreated

Init ==
    /\ m_events = {}
    /\ m_uid = FIRST_UID
    /\ m_currentUid = 0 /\ m_currentTs = 0 /\ m_currentContext = NO_CONTEXT
    /\ m_stop = FALSE
    /\ m_unscheduledEvents = 0
    /\ m_destroyEvents = <<>>
    /\ m_eventsWithContext = <<>> /\ m_eventsWithContextEmpty = TRUE
    /\ eventsWithContext = <<>>
    /\ pc = "outside"
    /\ cancelled = {} /\ ids = {} /\ invoked = {} /\ revoked = {}
    /\ created = 0 /\ submitted = 0

-----------------------------------------------------------------------------
(* The calls a handler, or the main program outside Run, can make. *)

InUserCode == pc \in {"outside", "handler", "destroyHandler"}

(* What every Schedule does with the queue: the event gets the next uid.    *)
(* fn is what the handler does: "user" code, or Simulator::Stop; sub is the *)
(* submission number of an event of another thread, 0 for the main thread. *)
Insert(ts, ctx, fn, sub) ==
    /\ m_events' = m_events \union {[ts |-> ts, uid |-> m_uid, ctx |-> ctx,
                                     impl |-> created + 1, fn |-> fn, sub |-> sub]}
    /\ m_uid' = NextUid(m_uid)
    /\ m_unscheduledEvents' = m_unscheduledEvents + 1
    /\ created' = created + 1

Keep(id) == ids' = ids \union {id}

(* Schedule (fn = "user") and Stop (delay), which schedules Simulator::Stop *)
(* and drops the EventId.                                                   *)
Schedule ==
    /\ InUserCode /\ MayCreate
    /\ \E delay \in Delays :
         LET ts == m_currentTs + delay
         IN  \/ /\ Insert(ts, m_currentContext, "user", 0)
                /\ Keep([ts |-> ts, uid |-> m_uid, impl |-> created + 1])
             \/ Insert(ts, m_currentContext, "stop", 0) /\ UNCHANGED ids
    /\ UNCHANGED <<clockVars, foreignVars, cancelled, revoked, m_stop,
                   m_destroyEvents, eventsWithContext, pc, invoked>>

ScheduleNow ==
    /\ InUserCode /\ MayCreate
    /\ Insert(m_currentTs, m_currentContext, "user", 0)
    /\ Keep([ts |-> m_currentTs, uid |-> m_uid, impl |-> created + 1])
    /\ UNCHANGED <<clockVars, foreignVars, cancelled, revoked, m_stop,
                   m_destroyEvents, eventsWithContext, pc, invoked>>

(* ScheduleWithContext called on the main thread. *)
ScheduleWithContext ==
    /\ InUserCode /\ MayCreate
    /\ \E delay \in Delays, ctx \in Contexts :
          Insert(m_currentTs + delay, ctx, "user", 0)
    /\ UNCHANGED <<clockVars, foreignVars, idVars, m_stop, m_destroyEvents,
                   eventsWithContext, pc, invoked>>

(* A destroy event takes a uid from the counter but does not carry it. *)
ScheduleDestroy ==
    /\ InUserCode /\ MayCreate
    /\ LET id == [ts |-> m_currentTs, uid |-> DESTROY, impl |-> created + 1]
       IN  m_destroyEvents' = Append(m_destroyEvents, id) /\ Keep(id)
    /\ m_uid' = NextUid(m_uid)
    /\ created' = created + 1
    /\ UNCHANGED <<m_events, m_unscheduledEvents, clockVars, foreignVars,
                   cancelled, revoked, m_stop, eventsWithContext, pc, invoked>>

Cancel(id) ==
    /\ InUserCode
    /\ ~IsExpired(id)
    /\ cancelled' = cancelled \union {id.impl}
    /\ revoked' = revoked \union {id.impl}
    /\ UNCHANGED <<queueVars, clockVars, foreignVars, ids, m_stop,
                   m_destroyEvents, eventsWithContext, pc, invoked>>

(* Mutant: Remove forgets to decrement m_unscheduledEvents. *)
RemoveEventUncounted(id) ==
    /\ InUserCode
    /\ id.uid # DESTROY
    /\ ~IsExpired(id)
    /\ m_events' = {e \in m_events : e.impl # id.impl}
    /\ cancelled' = cancelled \union {id.impl}
    /\ revoked' = revoked \union {id.impl}
    /\ UNCHANGED <<m_uid, created, m_unscheduledEvents, clockVars, foreignVars, ids,
                   m_stop, m_destroyEvents, eventsWithContext, pc, invoked>>

(* Remove of an ordinary event: out of the queue, and cancelled. *)
RemoveEvent(id) ==
    /\ InUserCode
    /\ id.uid # DESTROY
    /\ ~IsExpired(id)
    /\ m_events' = {e \in m_events : e.impl # id.impl}
    /\ cancelled' = cancelled \union {id.impl}
    /\ revoked' = revoked \union {id.impl}
    /\ m_unscheduledEvents' = m_unscheduledEvents - 1
    /\ UNCHANGED <<m_uid, created, clockVars, foreignVars, ids, m_stop,
                   m_destroyEvents, eventsWithContext, pc, invoked>>

(* Mutant: Remove of a destroy event does nothing. *)
RemoveDestroyKeepsEntry(id) ==
    /\ InUserCode
    /\ id.uid = DESTROY
    /\ InDestroyList(id)
    /\ revoked' = revoked \union {id.impl}
    /\ UNCHANGED <<queueVars, clockVars, foreignVars, cancelled, ids, m_stop,
                   m_destroyEvents, eventsWithContext, pc, invoked>>

(* std::list::erase at a position of the destroy list. *)
Erase(s, i) == SubSeq(s, 1, i-1) \o SubSeq(s, i+1, Len(s))

(* Remove of a destroy event: out of the list, not cancelled. *)
RemoveDestroy(id) ==
    /\ InUserCode
    /\ id.uid = DESTROY
    /\ \E i \in 1..Len(m_destroyEvents) :
         /\ m_destroyEvents[i] = id
         /\ m_destroyEvents' = Erase(m_destroyEvents, i)
    /\ revoked' = revoked \union {id.impl}
    /\ UNCHANGED <<queueVars, clockVars, foreignVars, cancelled, ids, m_stop,
                   eventsWithContext, pc, invoked>>

Stop ==
    /\ InUserCode
    /\ m_stop' = TRUE
    /\ UNCHANGED <<queueVars, clockVars, foreignVars, idVars, m_destroyEvents,
                   eventsWithContext, pc, invoked>>

-----------------------------------------------------------------------------
(* The main thread in Run. *)

(* Run starts with ProcessEventsWithContext; m_stop is reset after it, and  *)
(* nothing reads or writes m_stop in between.                               *)
Run ==
    /\ pc = "outside"
    /\ pc' = "readFlag"
    /\ m_stop' = FALSE
    /\ UNCHANGED <<queueVars, clockVars, foreignVars, idVars, m_destroyEvents,
                   eventsWithContext, invoked>>

(* The early return of ProcessEventsWithContext reads the flag without the  *)
(* mutex; another thread may set it right after.                            *)
ReadFlag ==
    /\ pc = "readFlag"
    /\ pc' = IF m_eventsWithContextEmpty THEN "loop" ELSE "swap"
    /\ UNCHANGED <<queueVars, clockVars, foreignVars, idVars, m_stop,
                   m_destroyEvents, eventsWithContext, invoked>>

(* Mutant: the current time is not added to the submitted delay. *)
DrainAbsolute ==
    /\ pc = "drain"
    /\ eventsWithContext # <<>>
    /\ LET event == Head(eventsWithContext)
       IN  Insert(event.timestamp, event.context, "user", event.sub)
    /\ eventsWithContext' = Tail(eventsWithContext)
    /\ UNCHANGED <<clockVars, foreignVars, idVars, m_stop, m_destroyEvents, pc, invoked>>

(* Mutant: the list is drained from its back. *)
DrainLastFirst ==
    /\ pc = "drain"
    /\ eventsWithContext # <<>>
    /\ LET event == eventsWithContext[Len(eventsWithContext)]
       IN  Insert(m_currentTs + event.timestamp, event.context, "user", event.sub)
    /\ eventsWithContext' = SubSeq(eventsWithContext, 1, Len(eventsWithContext) - 1)
    /\ UNCHANGED <<clockVars, foreignVars, idVars, m_stop, m_destroyEvents, pc, invoked>>

Swap ==
    /\ pc = "swap"
    /\ eventsWithContext' = m_eventsWithContext
    /\ m_eventsWithContext' = <<>>
    /\ m_eventsWithContextEmpty' = TRUE
    /\ pc' = "drain"
    /\ UNCHANGED <<queueVars, clockVars, submitted, idVars, m_stop,
                   m_destroyEvents, invoked>>

Drain ==
    /\ pc = "drain"
    /\ eventsWithContext # <<>>
    /\ LET event == Head(eventsWithContext)
       IN  Insert(m_currentTs + event.timestamp, event.context, "user", event.sub)
    /\ eventsWithContext' = Tail(eventsWithContext)
    /\ UNCHANGED <<clockVars, foreignVars, idVars, m_stop, m_destroyEvents, pc, invoked>>

Drained ==
    /\ pc = "drain"
    /\ eventsWithContext = <<>>
    /\ pc' = "loop"
    /\ UNCHANGED <<queueVars, clockVars, foreignVars, idVars, m_stop,
                   m_destroyEvents, eventsWithContext, invoked>>

(* ProcessOneEvent up to the call of the event's function, which            *)
(* EventImpl::Invoke skips for a cancelled event.                           *)
ProcessOneEvent ==
    /\ pc = "loop"
    /\ ~m_stop
    /\ \E next \in m_events :
         /\ \A e \in m_events : e = next \/ Before(next, e)
         /\ m_events' = m_events \ {next}
         /\ m_currentTs' = next.ts
         /\ m_currentUid' = next.uid
         /\ m_currentContext' = next.ctx
         /\ \/ /\ next.impl \in cancelled
               /\ pc' = "readFlag"
               /\ UNCHANGED <<invoked, m_stop>>
            \/ /\ next.impl \notin cancelled
               /\ invoked' = invoked \union {next.impl}
               /\ \/ next.fn = "stop" /\ m_stop' = TRUE /\ pc' = "readFlag"
                  \/ next.fn = "user" /\ m_stop' = m_stop /\ pc' = "handler"
    /\ m_unscheduledEvents' = m_unscheduledEvents - 1
    /\ UNCHANGED <<m_uid, created, foreignVars, idVars, m_destroyEvents, eventsWithContext>>

HandlerReturns ==
    /\ pc = "handler"
    /\ pc' = "readFlag"
    /\ UNCHANGED <<queueVars, clockVars, foreignVars, idVars, m_stop,
                   m_destroyEvents, eventsWithContext, invoked>>

RunReturns ==
    /\ pc = "loop"
    /\ m_events = {} \/ m_stop
    /\ pc' = "outside"
    /\ UNCHANGED <<queueVars, clockVars, foreignVars, idVars, m_stop,
                   m_destroyEvents, eventsWithContext, invoked>>

-----------------------------------------------------------------------------
(* Simulator::Destroy: the destroy events in turn (they may schedule more), *)
(* then the engine is disposed of, dropping what is still queued.           *)

Destroy ==
    /\ pc = "outside"
    /\ pc' = "destroy"
    /\ UNCHANGED <<queueVars, clockVars, foreignVars, idVars, m_stop,
                   m_destroyEvents, eventsWithContext, invoked>>

DestroyOne ==
    /\ pc = "destroy"
    /\ m_destroyEvents # <<>>
    /\ LET ev == Head(m_destroyEvents).impl
       IN  IF ev \in cancelled
           THEN UNCHANGED <<invoked, pc>>
           ELSE invoked' = invoked \union {ev} /\ pc' = "destroyHandler"
    /\ m_destroyEvents' = Tail(m_destroyEvents)
    /\ UNCHANGED <<queueVars, clockVars, foreignVars, idVars, m_stop, eventsWithContext>>

DestroyHandlerReturns ==
    /\ pc = "destroyHandler"
    /\ pc' = "destroy"
    /\ UNCHANGED <<queueVars, clockVars, foreignVars, idVars, m_stop,
                   m_destroyEvents, eventsWithContext, invoked>>

DoDispose ==
    /\ pc = "destroy"
    /\ m_destroyEvents = <<>>
    /\ m_events' = {}
    /\ m_eventsWithContext' = <<>>
    /\ m_eventsWithContextEmpty' = TRUE
    /\ pc' = "disposed"
    /\ UNCHANGED <<m_uid, m_unscheduledEvents, created, submitted, clockVars,
                   idVars, m_stop, m_destroyEvents, eventsWithContext, invoked>>

(* Mutant: the flag is computed from the list before the event is appended. *)
ForeignStaleFlag(t) ==
    /\ pc # "disposed"
    /\ MayCreate /\ submitted < MaxSubmitted
    /\ \E delay \in Delays, ctx \in Contexts :
          m_eventsWithContext' = Append(m_eventsWithContext,
              [timestamp |-> delay, context |-> ctx, sub |-> submitted + 1])
    /\ m_eventsWithContextEmpty' = (m_eventsWithContext = <<>>)
    /\ submitted' = submitted + 1
    /\ UNCHANGED <<queueVars, clockVars, idVars, m_stop, m_destroyEvents,
                   eventsWithContext, pc, invoked>>

-----------------------------------------------------------------------------
(* ScheduleWithContext called on a thread other than the main one: the      *)
(* event goes to the hand-over list, under the mutex.                       *)
ScheduleWithContextForeign(t) ==
    /\ pc # "disposed"
    /\ MayCreate /\ submitted < MaxSubmitted
    /\ \E delay \in Delays, ctx \in Contexts :
          m_eventsWithContext' = Append(m_eventsWithContext,
              [timestamp |-> delay, context |-> ctx, sub |-> submitted + 1])
    /\ m_eventsWithContextEmpty' = FALSE
    /\ submitted' = submitted + 1
    /\ UNCHANGED <<queueVars, clockVars, idVars, m_stop, m_destroyEvents,
                   eventsWithContext, pc, invoked>>

(* The program ends after Simulator::Destroy. *)
Exited == pc = "disposed" /\ UNCHANGED vars

Call ==
    \/ Schedule \/ ScheduleNow \/ ScheduleWithContext \/ ScheduleDestroy \/ Stop
    \/ \E id \in ids : Cancel(id) \/ RemoveEvent(id) \/ RemoveDestroy(id)

Engine ==
    \/ ReadFlag \/ Swap \/ Drain \/ Drained \/ ProcessOneEvent
    \/ HandlerReturns \/ RunReturns
    \/ DestroyOne \/ DestroyHandlerReturns \/ DoDispose

Next ==
    \/ Call \/ Engine \/ Run \/ Destroy \/ Exited
    \/ \E t \in Foreign : ScheduleWithContextForeign(t)

Spec == Init /\ [][Next]_vars

-----------------------------------------------------------------------------
(* Properties. *)

EventType ==
    [ts : Nat, uid : Nat, ctx : Contexts \union {NO_CONTEXT},
     impl : Nat, fn : {"user", "stop"}, sub : Nat]
IdType == [ts : Nat, uid : Nat, impl : Nat]
SubmissionType == [timestamp : Delays, context : Contexts, sub : Nat]

(* Type invariant: every variable holds what its C++ declaration allows. *)
TypeOK ==
    /\ m_events \subseteq EventType
    /\ m_uid \in 0..UidRange-1
    /\ m_currentUid \in Nat /\ m_currentTs \in Nat
    /\ m_currentContext \in Contexts \union {NO_CONTEXT}
    /\ m_stop \in BOOLEAN
    /\ m_unscheduledEvents \in Int
    /\ m_destroyEvents \in Seq(IdType)
    /\ m_eventsWithContext \in Seq(SubmissionType)
    /\ m_eventsWithContextEmpty \in BOOLEAN
    /\ eventsWithContext \in Seq(SubmissionType)
    /\ pc \in {"outside", "readFlag", "swap", "drain", "loop", "handler",
               "destroy", "destroyHandler", "disposed"}
    /\ cancelled \subseteq Nat /\ invoked \subseteq Nat /\ revoked \subseteq Nat
    /\ created \in Nat /\ submitted \in Nat
    /\ ids \subseteq IdType

(* Nothing in the queue is at or before the current event in (time, uid)    *)
(* order, whatever handlers and other threads schedule: the assertion       *)
(* next.key.m_ts >= m_currentTs of ProcessOneEvent can never fail, and      *)
(* GetDelayLeft never subtracts a larger time from a smaller one.           *)
QueueAhead == \A e \in m_events : Before(Current, e)

(* An event is still to run when it is in the queue or in the destroy list  *)
(* and has not been cancelled.                                              *)
Pending(id) ==
    /\ id.impl \notin cancelled
    /\ \/ id.impl \in Impls(m_events)
       \/ InDestroyList(id)

(* IsExpired looks only at the clock, the cancel flag and the destroy list, *)
(* never at the queue; still it says of every EventId a caller may hold     *)
(* exactly whether the event is still to run.  Remove relies on it to only  *)
(* take out of the queue what is in it.                                     *)
ExpiredExact == pc # "disposed" => \A id \in ids : IsExpired(id) <=> ~Pending(id)

(* m_unscheduledEvents counts the queue, so the consistency test at the end *)
(* of Run ("we didn't lose any events along the way") never fails.          *)
UnscheduledCount == pc # "disposed" => m_unscheduledEvents = Cardinality(m_events)

(* The function of an event that was successfully cancelled or removed is   *)
(* never called, for ordinary events and for destroy events.                *)
RevokedNeverRuns == revoked \intersect invoked = {}

(* Events that other threads submit enter the queue in the order of their   *)
(* submission, across every swap of the hand-over list: those due at the    *)
(* same time run first in, first out.                                       *)
SubmissionOrder ==
    \A a, b \in m_events : 0 < a.sub /\ a.sub < b.sub => a.uid < b.uid

(* A step never moves the clock back, and two events with the same time     *)
(* run in the order of their uids.                                          *)
ClockForward ==
    [][\/ UNCHANGED <<m_currentTs, m_currentUid>>
       \/ m_currentTs' > m_currentTs
       \/ m_currentTs' = m_currentTs /\ m_currentUid' > m_currentUid]_vars

(* ProcessEventsWithContext never returns early while an event that another *)
(* thread submitted is waiting: although the flag is read without the       *)
(* mutex, at the end of every handler all the earlier submissions are taken *)
(* over, before the next event is chosen and before Run can find the queue  *)
(* empty and return.                                                        *)
SubmissionTakenOver ==
    [][pc = "readFlag" /\ pc' = "loop" => m_eventsWithContext = <<>>]_vars
=============================================================================
