-------------------------- MODULE RealtimeSimulator --------------------------
(***************************************************************************)
(* ns3::RealtimeSimulatorImpl with its WallClockSynchronizer: the main     *)
(* thread waits until the wall clock reaches the time of the next event,   *)
(* and other threads schedule events meanwhile and interrupt the wait.     *)
(*                                                                         *)
(* Every CriticalSection of the code is one step, and so is each read of a *)
(* member outside one.  The condition the wait rests on is detailed in     *)
(* SystemCondition; here it is a flag that the wait looks at, and a wait   *)
(* that the operating system may refuse.  An event's handler is arbitrary  *)
(* code.  A jiffy is one unit of time.                                     *)
(***************************************************************************)
EXTENDS Integers, FiniteSetsExt

CONSTANTS
    Delays,
    Foreign,       \* the threads other than the main one
    Epoch,         \* what gettimeofday returns at the start of the program
    SpinJiffies,   \* how long before the deadline sleeping ends: 3 in the code
    Second,        \* the jiffies of a second, for which an idle Run sleeps
    HardLimit,     \* attribute HardLimit
    MaxWall,       \* bound: wall clock time
    MaxEvents,     \* bound: events scheduled in a behaviour
    MaxRuns        \* bound: calls of Run

ASSUME RealtimeAssumption ==
    /\ Delays \subseteq Nat
    /\ Epoch \in Nat \ {0} /\ SpinJiffies \in Nat /\ Second \in Nat \ {0} /\ HardLimit \in Nat
    /\ MaxWall \in Nat /\ MaxWall >= Epoch /\ MaxEvents \in Nat /\ MaxRuns \in Nat

VARIABLES
    wall,                    \* the wall clock
    m_realtimeOriginNano,
    m_condition,             \* the flag of the synchronizer's SystemCondition
    m_events, m_uid, m_unscheduledEvents,
    m_currentTs, m_currentUid,
    m_stop, m_running,
    m_synchronizationMode,
    pc,                      \* where the main thread is
    deadline,                \* nsCurrent + nsDelay of the Synchronize call
    timeout,                 \* the argument of TimedWait, then the time it ends at
    idle,                    \* Synchronize was called by Run on an empty queue
    runs                     \* calls of Run, for the bound

syncVars == <<m_realtimeOriginNano, m_condition>>
queueVars == <<m_events, m_uid, m_unscheduledEvents>>
clockVars == <<m_currentTs, m_currentUid>>
runVars == <<m_stop, m_running, m_synchronizationMode, runs>>
waitVars == <<deadline, timeout, idle>>
vars == <<wall, syncVars, queueVars, clockVars, runVars, pc, waitVars>>

Before(a, b) == a.ts < b.ts \/ (a.ts = b.ts /\ a.uid < b.uid)

(* GetCurrentRealtime *)
Realtime == wall - m_realtimeOriginNano

NextTs == Min({e.ts : e \in m_events})

Init ==
    /\ wall = Epoch
    /\ m_realtimeOriginNano = 0 /\ m_condition = FALSE
    /\ m_events = {} /\ m_uid = 4 /\ m_unscheduledEvents = 0
    /\ m_currentTs = 0 /\ m_currentUid = 0
    /\ m_stop = FALSE /\ m_running = FALSE
    /\ m_synchronizationMode \in {"SYNC_BEST_EFFORT", "SYNC_HARD_LIMIT"}
    /\ pc = "outside"
    /\ deadline = 0 /\ timeout = 0 /\ idle = FALSE
    /\ runs = 0

-----------------------------------------------------------------------------
(* Scheduling. *)

(* Mutant: the wait is interrupted only if the queue was empty. *)
SignalIfEmpty == m_condition' = (m_condition \/ m_events = {})

(* Synchronizer::Signal *)
Signal == m_condition' = TRUE

(* Building and inserting an event, whose context is left out. *)
Insert(ts) ==
    /\ m_uid < 4 + MaxEvents
    /\ m_events' = m_events \union {[ts |-> ts, uid |-> m_uid]}
    /\ m_uid' = m_uid + 1
    /\ m_unscheduledEvents' = m_unscheduledEvents + 1
    /\ Signal
    /\ UNCHANGED <<wall, m_realtimeOriginNano, clockVars, runVars, pc, waitVars>>

InUserCode == pc \in {"outside", "handler"}

(* Schedule, ScheduleNow (delay 0) and ScheduleWithContext on the main      *)
(* thread: relative to the simulation time.                                 *)
Schedule ==
    /\ InUserCode
    /\ \E delay \in Delays : Insert(m_currentTs + delay)

(* Mutant: the real time is not added to the delay. *)
ForeignAbsolute(t) ==
    /\ pc # "fatal"
    /\ \E delay \in Delays : Insert(delay)

(* ScheduleWithContext on another thread, and ScheduleRealtimeNowWithContext *)
(* (delay 0): relative to real time while the simulator is running.          *)
ScheduleWithContextForeign(t) ==
    /\ pc # "fatal"
    /\ \E delay \in Delays :
         Insert((IF m_running THEN Realtime ELSE m_currentTs) + delay)

(* ScheduleRealtimeWithContext: relative to real time in any case. *)
ScheduleRealtimeWithContext(t) ==
    /\ pc # "fatal"
    /\ \E delay \in Delays : Insert(Realtime + delay)

(* Mutant: the event is not counted out. *)
RemoveEventUncounted(ev) ==
    /\ InUserCode
    /\ ev.ts > m_currentTs \/ (ev.ts = m_currentTs /\ ev.uid > m_currentUid)
    /\ m_events' = m_events \ {ev}
    /\ UNCHANGED <<wall, syncVars, m_uid, m_unscheduledEvents, clockVars, runVars, pc, waitVars>>

(* Remove, on the main thread, of an event that IsExpired says is queued. *)
RemoveEvent(ev) ==
    /\ InUserCode
    /\ ev.ts > m_currentTs \/ (ev.ts = m_currentTs /\ ev.uid > m_currentUid)
    /\ m_events' = m_events \ {ev}
    /\ m_unscheduledEvents' = m_unscheduledEvents - 1
    /\ UNCHANGED <<wall, syncVars, m_uid, clockVars, runVars, pc, waitVars>>

Stop ==
    /\ InUserCode
    /\ m_stop' = TRUE
    /\ UNCHANGED <<wall, syncVars, queueVars, clockVars, m_running,
                   m_synchronizationMode, runs, pc, waitVars>>

-----------------------------------------------------------------------------
(* The main thread in Run. *)

Run ==
    /\ pc = "outside" /\ runs < MaxRuns
    /\ runs' = runs + 1
    /\ m_stop' = FALSE
    /\ m_running' = TRUE
    /\ pc' = "setOrigin"
    /\ UNCHANGED <<wall, syncVars, queueVars, clockVars, m_synchronizationMode, waitVars>>

(* Synchronizer::SetOrigin (m_currentTs): WallClockSynchronizer does not    *)
(* use the simulation time it is given.                                     *)
SetOrigin ==
    /\ pc = "setOrigin"
    /\ m_realtimeOriginNano' = wall
    /\ pc' = "loop"
    /\ UNCHANGED <<wall, m_condition, queueVars, clockVars, runVars, waitVars>>

RunLoop ==
    /\ pc = "loop" /\ ~m_stop
    /\ \/ /\ m_events # {}
          /\ pc' = "prepare"
          /\ UNCHANGED waitVars
       \/ /\ m_events = {}
          /\ pc' = "synchronize"
          /\ deadline' = Realtime + Second
          /\ idle' = TRUE
          /\ UNCHANGED timeout
    /\ UNCHANGED <<wall, syncVars, queueVars, clockVars, runVars>>

RunReturns ==
    /\ pc = "loop" /\ m_stop
    /\ m_running' = FALSE
    /\ pc' = "outside"
    /\ UNCHANGED <<wall, syncVars, queueVars, clockVars, m_stop,
                   m_synchronizationMode, runs, waitVars>>

(* The first critical section of ProcessOneEvent. *)
Prepare ==
    /\ pc = "prepare"
    /\ deadline' = Max({NextTs, Realtime})
    /\ idle' = FALSE
    /\ m_condition' = FALSE
    /\ pc' = "synchronize"
    /\ UNCHANGED <<wall, m_realtimeOriginNano, queueVars, clockVars, runVars, timeout>>

(* DoSynchronize with DriftCorrect: sleep if the deadline is far ahead. *)
DoSynchronize ==
    /\ pc = "synchronize"
    /\ \/ /\ deadline - Realtime > SpinJiffies
          /\ timeout' = deadline - Realtime - SpinJiffies
          /\ pc' = "timedWait"
       \/ /\ deadline - Realtime <= SpinJiffies
          /\ pc' = "spin"
          /\ UNCHANGED timeout
    /\ UNCHANGED <<wall, syncVars, queueVars, clockVars, runVars, deadline, idle>>

(* SleepWait: TimedWait adds the wall clock to its argument, seconds and    *)
(* parts of a second apart.  When the parts make up a whole second exactly, *)
(* there is no carry, and pthread_cond_timedwait refuses the time at once   *)
(* and whenever the loop calls it again (run condition_timeout).            *)
TimedWait ==
    /\ pc = "timedWait"
    /\ timeout' = wall + timeout
    /\ pc' = IF (timeout % Second) + (wall % Second) = Second THEN "refused" ELSE "sleep"
    /\ UNCHANGED <<wall, syncVars, queueVars, clockVars, runVars, deadline, idle>>

(* The return of Synchronize, where its locals end. *)
SynchronizeReturns(completed) ==
    /\ pc' = IF idle THEN "loop" ELSE IF completed THEN "take" ELSE "prepare"
    /\ deadline' = 0 /\ timeout' = 0 /\ idle' = FALSE
    /\ UNCHANGED <<wall, syncVars, queueVars, clockVars, runVars>>

(* The loop of TimedWait looks at the flag, also when the wait is refused. *)
SleepWaitInterrupted ==
    /\ pc \in {"sleep", "refused"} /\ m_condition
    /\ SynchronizeReturns(FALSE)

(* Mutant: the sleep ends only when it is interrupted. *)
SleepWaitForever ==
    /\ pc = "sleep" /\ m_condition
    /\ pc' = "spin"
    /\ timeout' = 0
    /\ UNCHANGED <<wall, syncVars, queueVars, clockVars, runVars, deadline, idle>>

(* A wait that was refused never times out. *)
SleepWaitTimedOut ==
    /\ pc = "sleep" /\ wall >= timeout
    /\ pc' = "spin"
    /\ timeout' = 0
    /\ UNCHANGED <<wall, syncVars, queueVars, clockVars, runVars, deadline, idle>>

(* Mutant: the wait ends within a jiffy of the deadline. *)
SpinWaitEarly ==
    /\ pc = "spin"
    /\ \/ Realtime + 1 >= deadline /\ SynchronizeReturns(TRUE)
       \/ Realtime < deadline /\ m_condition /\ SynchronizeReturns(FALSE)

(* The test of the drift after the sleep, and SpinWait, which looks at the  *)
(* clock first.                                                             *)
SpinWait ==
    /\ pc = "spin"
    /\ \/ Realtime >= deadline /\ SynchronizeReturns(TRUE)
       \/ Realtime < deadline /\ m_condition /\ SynchronizeReturns(FALSE)

(* The second critical section of ProcessOneEvent, up to the call of the    *)
(* handler.  The event is the earliest of the queue now, not the one the    *)
(* wait was for.                                                            *)
TakeNext ==
    /\ pc = "take"
    /\ \E next \in m_events :
         /\ \A e \in m_events : e = next \/ Before(next, e)
         /\ m_events' = m_events \ {next}
         /\ m_currentTs' = next.ts
         /\ m_currentUid' = next.uid
         /\ \/ /\ m_synchronizationMode = "SYNC_HARD_LIMIT"
               /\ Realtime - next.ts > HardLimit \/ next.ts - Realtime > HardLimit
               /\ pc' = "fatal"
            \/ /\ \/ m_synchronizationMode = "SYNC_BEST_EFFORT"
                  \/ Realtime - next.ts \in -HardLimit..HardLimit
               /\ pc' = "handler"
    /\ m_unscheduledEvents' = m_unscheduledEvents - 1
    /\ UNCHANGED <<wall, syncVars, m_uid, runVars, waitVars>>

HandlerReturns ==
    /\ pc = "handler"
    /\ pc' = "loop"
    /\ UNCHANGED <<wall, syncVars, queueVars, clockVars, runVars, waitVars>>

(* The bound lets a sleep for an event that began before it end. *)
Tick ==
    /\ wall < MaxWall \/ (pc = "sleep" /\ ~idle /\ wall < timeout)
    /\ wall' = wall + 1
    /\ UNCHANGED <<syncVars, queueVars, clockVars, runVars, pc, waitVars>>

(* The bound on the wall clock ends a behaviour, and so does a fatal error. *)
Ended == (wall >= MaxWall \/ pc = "fatal") /\ UNCHANGED vars

Engine ==
    \/ SetOrigin \/ RunLoop \/ RunReturns \/ Prepare \/ DoSynchronize \/ TimedWait
    \/ SleepWaitInterrupted \/ SleepWaitTimedOut \/ SpinWait \/ TakeNext \/ HandlerReturns

Next ==
    \/ Engine \/ Run \/ Tick \/ Ended
    \/ Schedule \/ Stop \/ \E ev \in m_events : RemoveEvent(ev)
    \/ \E t \in Foreign : ScheduleWithContextForeign(t) \/ ScheduleRealtimeWithContext(t)

Spec == Init /\ [][Next]_vars

(* The main thread keeps running, handlers return, and the clock ticks. *)
FairSpec == Spec /\ WF_vars(Engine) /\ WF_vars(Tick)

-----------------------------------------------------------------------------
(* Properties. *)

EventType == [ts : Nat, uid : Nat]

(* Type invariant; m_unscheduledEvents counts the queue in every state in   *)
(* which the mutex is free, as the assertion at the end of Run requires.    *)
TypeOK ==
    /\ wall \in Nat /\ m_realtimeOriginNano \in 0..wall /\ m_condition \in BOOLEAN
    /\ m_events \subseteq EventType /\ m_uid \in Nat
    /\ m_unscheduledEvents = Cardinality(m_events)
    /\ m_currentTs \in Nat /\ m_currentUid \in Nat
    /\ m_stop \in BOOLEAN /\ m_running \in BOOLEAN
    /\ pc \in {"outside", "setOrigin", "loop", "prepare", "synchronize", "timedWait", "sleep",
               "refused", "spin", "take", "handler", "fatal"}
    /\ deadline \in Nat /\ timeout \in Nat /\ idle \in BOOLEAN

(* While the main thread waits, it waits for the earliest event or has been *)
(* told to look again: an event another thread schedules, at any point      *)
(* between the decision how long to wait and the sleep, is never overslept. *)
NoOversleep ==
    pc \in {"synchronize", "timedWait", "sleep", "refused", "spin"} /\ ~m_condition
        => Realtime >= deadline \/ \A e \in m_events : ~idle /\ e.ts >= deadline

(* No handler starts before the wall clock reached the time of its event,   *)
(* also when the event taken is not the one the wait was for.               *)
NeverEarly ==
    pc = "handler" => m_currentTs <= Realtime

(* The assertion of the Schedule functions and of ProcessOneEvent: nothing  *)
(* is scheduled before the current simulation time, although other threads  *)
(* go by the wall clock and the main thread by the simulation time.         *)
NothingInThePast == \A e \in m_events : e.ts >= m_currentTs

(* An event that is due while Run executes runs, however many events other  *)
(* threads schedule before and after it.  There is one exception: a wait    *)
(* that the operating system refuses (unix-system-condition.cc:187-204)     *)
(* lasts until somebody interrupts it, and the event runs only if another   *)
(* thread ever schedules something again.                                   *)
DueEventRuns ==
    \A u \in 4..4 + MaxEvents :
        (m_running /\ \E e \in m_events : e.uid = u /\ pc # "setOrigin" /\ e.ts <= Realtime)
            ~> \/ ~m_running \/ pc = "fatal" \/ \A e \in m_events : e.uid # u
               \/ [](pc = "refused" /\ ~m_condition)
=============================================================================
