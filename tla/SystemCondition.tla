--------------------------- MODULE SystemCondition ---------------------------
(***************************************************************************)
(* ns3::SystemCondition on Unix: one thread in Wait or TimedWait, another  *)
(* that sets the condition and signals, over a pthread mutex and condition *)
(* variable.  The members' accesses outside the mutex are steps of their   *)
(* own; the pthread functions are external and do what POSIX says.         *)
(***************************************************************************)
EXTENDS Integers

CONSTANTS
    NS_PER_SEC,    \* 10^9 in the code
    NS_PER_USEC,   \* 1000 in the code; gettimeofday is that coarse
    Timeouts,      \* what callers pass to TimedWait
    MaxClock,      \* bound: wall clock time, in nanoseconds
    MaxCalls       \* bound: calls of Wait and TimedWait

ASSUME ConditionAssumption ==
    /\ NS_PER_SEC \in Nat \ {0} /\ NS_PER_USEC \in Nat \ {0}
    /\ NS_PER_SEC % NS_PER_USEC = 0
    /\ Timeouts \subseteq Nat /\ MaxClock \in Nat /\ MaxCalls \in Nat

FREE == "none"     \* nobody holds the mutex
FOREVER == [tv_sec |-> MaxClock, tv_nsec |-> 0]   \* no timeout: Wait

VARIABLES
    clock,        \* the wall clock, in nanoseconds
    m_condition, m_mutex,
    ts,           \* the absolute time TimedWait hands to pthread_cond_timedwait
    due,          \* when the call should time out
    waiter, signaller,   \* where the two threads are
    calls

conditionVars == <<clock, m_condition, m_mutex, ts, due, waiter, signaller, calls>>

(* Mutant: the carry is dropped. *)
TimespecNoCarry(ns) ==
    LET usec == (clock % NS_PER_SEC) \div NS_PER_USEC
    IN  [tv_sec |-> (ns \div NS_PER_SEC) + (clock \div NS_PER_SEC),
         tv_nsec |-> ((ns % NS_PER_SEC) + usec * NS_PER_USEC) % NS_PER_SEC]

(* The absolute time ns after now: the sum is carried over to the seconds   *)
(* when it is more than a second.                                           *)
Timespec(ns) ==
    LET usec == (clock % NS_PER_SEC) \div NS_PER_USEC
        nsec == (ns % NS_PER_SEC) + usec * NS_PER_USEC
        sec == (ns \div NS_PER_SEC) + (clock \div NS_PER_SEC)
    IN  IF nsec > NS_PER_SEC
        THEN [tv_sec |-> sec + 1, tv_nsec |-> nsec % NS_PER_SEC]
        ELSE [tv_sec |-> sec, tv_nsec |-> nsec]

Nanoseconds(t) == t.tv_sec * NS_PER_SEC + t.tv_nsec

ConditionInit ==
    /\ clock = 0
    /\ m_condition = FALSE /\ m_mutex = FREE
    /\ ts = FOREVER /\ due = 0
    /\ waiter = "idle" /\ signaller = "idle"
    /\ calls = 0

-----------------------------------------------------------------------------
(* The waiting thread. *)

(* SetCondition (false), as the realtime engine calls it before it waits. *)
Reset ==
    /\ waiter = "idle" /\ m_condition
    /\ m_condition' = FALSE
    /\ UNCHANGED <<clock, m_mutex, ts, due, waiter, signaller, calls>>

TimedWait(ns) ==
    /\ waiter = "idle" /\ calls < MaxCalls
    /\ clock + ns + NS_PER_SEC <= MaxClock
    /\ calls' = calls + 1
    /\ ts' = Timespec(ns)
    /\ due' = clock + ns
    /\ waiter' = "lock"
    /\ UNCHANGED <<clock, m_condition, m_mutex, signaller>>

Wait ==
    /\ waiter = "idle" /\ calls < MaxCalls
    /\ calls' = calls + 1
    /\ ts' = FOREVER
    /\ waiter' = "lock"
    /\ UNCHANGED <<clock, m_condition, m_mutex, due, signaller>>

(* Wait, but not TimedWait, resets the condition once it has the mutex. *)
Lock ==
    /\ waiter = "lock" /\ m_mutex = FREE
    /\ m_mutex' = "waiter"
    /\ m_condition' = (m_condition /\ ts # FOREVER)
    /\ waiter' = "test"
    /\ UNCHANGED <<clock, ts, due, signaller, calls>>

(* Mutant: the loop has no exit for a condition that is set. *)
TestNoExit ==
    /\ waiter = "test"
    /\ waiter' = IF m_condition THEN "test" ELSE "wait"
    /\ UNCHANGED <<clock, m_condition, m_mutex, ts, due, signaller, calls>>

(* The loop condition. *)
Test ==
    /\ waiter = "test"
    /\ \/ m_condition /\ waiter' = "idle" /\ m_mutex' = FREE
       \/ ~m_condition /\ waiter' = "wait" /\ UNCHANGED m_mutex
    /\ UNCHANGED <<clock, m_condition, ts, due, signaller, calls>>

(* External: pthread_cond_wait and pthread_cond_timedwait give up the mutex *)
(* and block in one step; a time that is not normalised is refused at once  *)
(* (EINVAL), with the mutex held.                                           *)
Block ==
    /\ waiter = "wait"
    /\ \/ /\ ts.tv_nsec < NS_PER_SEC
          /\ waiter' = "blocked" /\ m_mutex' = FREE
       \/ /\ ts.tv_nsec >= NS_PER_SEC
          /\ waiter' = "test" /\ UNCHANGED m_mutex
    /\ UNCHANGED <<clock, m_condition, ts, due, signaller, calls>>

(* External: pthread_cond_timedwait returns ETIMEDOUT, with the mutex. *)
TimesOut ==
    /\ waiter = "blocked" /\ ts # FOREVER
    /\ clock >= Nanoseconds(ts)
    /\ waiter' = "timedOut"
    /\ UNCHANGED <<clock, m_condition, m_mutex, ts, due, signaller, calls>>

ReturnTimedOut ==
    /\ waiter = "timedOut" /\ m_mutex = FREE
    /\ waiter' = "idle"
    /\ UNCHANGED <<clock, m_condition, m_mutex, ts, due, signaller, calls>>

(* External: a signalled waiter gets the mutex back. *)
Relock ==
    /\ waiter = "woken" /\ m_mutex = FREE
    /\ m_mutex' = "waiter"
    /\ waiter' = "test"
    /\ UNCHANGED <<clock, m_condition, ts, due, signaller, calls>>

(* External: POSIX allows a wakeup without a signal. *)
SpuriousWakeup ==
    /\ waiter = "blocked"
    /\ waiter' = "woken"
    /\ UNCHANGED <<clock, m_condition, m_mutex, ts, due, signaller, calls>>

-----------------------------------------------------------------------------
(* The signalling thread: SetCondition (true), then Signal. *)

SetCondition ==
    /\ signaller = "idle"
    /\ m_condition' = TRUE
    /\ signaller' = "signal"
    /\ UNCHANGED <<clock, m_mutex, ts, due, waiter, calls>>

(* Mutant: the signal is sent without the mutex. *)
SignalUnlocked ==
    /\ signaller = "signal"
    /\ waiter' = IF waiter = "blocked" THEN "woken" ELSE waiter
    /\ signaller' = "idle"
    /\ UNCHANGED <<clock, m_condition, m_mutex, ts, due, calls>>

(* Lock, pthread_cond_signal, unlock. *)
Signal ==
    /\ signaller = "signal" /\ m_mutex = FREE
    /\ waiter' = IF waiter = "blocked" THEN "woken" ELSE waiter
    /\ signaller' = "idle"
    /\ UNCHANGED <<clock, m_condition, m_mutex, ts, due, calls>>

Tick ==
    /\ clock < MaxClock
    /\ clock' = clock + 1
    /\ UNCHANGED <<m_condition, m_mutex, ts, due, waiter, signaller, calls>>

WaiterStep == Lock \/ Test \/ Block \/ TimesOut \/ ReturnTimedOut \/ Relock

ConditionNext ==
    \/ WaiterStep \/ Reset \/ Wait \/ \E ns \in Timeouts : TimedWait(ns)
    \/ SpuriousWakeup \/ SetCondition \/ Signal \/ Tick

ConditionSpec == ConditionInit /\ [][ConditionNext]_conditionVars

(* Both threads keep running: pthread gives the mutex to a thread that      *)
(* waits for it, also when it is free only now and then, and a waiter that  *)
(* blocks again and again after its time does time out.  Time passes.       *)
ConditionFairSpec ==
    /\ ConditionSpec
    /\ SF_conditionVars(WaiterStep) /\ SF_conditionVars(TimesOut) /\ SF_conditionVars(Signal) /\ WF_conditionVars(Tick)

-----------------------------------------------------------------------------
(* Properties. *)

InWait == waiter \in {"test", "wait", "blocked", "woken", "timedOut"}

(* The mutex is held exactly between the lock and the loop's next wait, and *)
(* a blocked waiter whose condition was set is about to be signalled: the   *)
(* condition is written without the mutex, and still no wakeup is lost.     *)
NoLostWakeup ==
    /\ m_mutex = "waiter" <=> waiter \in {"test", "wait"}
    /\ waiter = "blocked" /\ m_condition => signaller = "signal"

(* TimedWait does not time out before its time, but for what gettimeofday   *)
(* rounds off.                                                              *)
NotBeforeTime == waiter = "timedOut" => clock > due - NS_PER_USEC

(* A waiter returns once the condition is set and signalled, with or        *)
(* without a timeout.                                                       *)
SignalledReturns == (InWait /\ m_condition) ~> (waiter = "idle")

(* "wait for a limited amount of wall-clock time": TimedWait returns when   *)
(* the time is over, whether or not anybody signals.                        *)
LimitedWait == (InWait /\ ts # FOREVER) ~> (waiter = "idle")
=============================================================================
