--------------------------- MODULE ThreadsProofs ---------------------------
(***************************************************************************)
(* Safety of the two places where a thread waits for another.  Of the      *)
(* condition: for every length of a second and of a microsecond, and all   *)
(* timeouts.  Of the reader and the device: for every set of frames, every *)
(* size of the kernel's queue and every limit of the device's queue.       *)
(***************************************************************************)
EXTENDS SystemCondition, FdNetDevice, SequenceTheorems, TLAPS

-----------------------------------------------------------------------------
(* The condition: no wakeup is lost. *)

(* NoLostWakeup speaks of a blocked waiter.  A waiter that has tested the   *)
(* condition and not yet blocked holds the mutex, which keeps the signal    *)
(* back until it has.                                                       *)
WakeupInvariant ==
    /\ m_condition \in BOOLEAN
    /\ m_mutex = "waiter" <=> waiter \in {"test", "wait"}
    /\ waiter \in {"wait", "blocked"} /\ m_condition => signaller = "signal"

LEMMA WakeupStep == WakeupInvariant /\ [ConditionNext]_conditionVars => WakeupInvariant'
<1> SUFFICES ASSUME WakeupInvariant, [ConditionNext]_conditionVars PROVE WakeupInvariant'
    OBVIOUS
<1> USE DEF WakeupInvariant
<1>1. CASE Lock
    BY <1>1 DEF Lock
<1>2. CASE Test
    BY <1>2 DEF Test, FREE
<1>3. CASE Block
    BY <1>3 DEF Block, FREE
<1>4. CASE TimesOut \/ ReturnTimedOut \/ SpuriousWakeup
    BY <1>4 DEF TimesOut, ReturnTimedOut, SpuriousWakeup
<1>5. CASE Relock
    BY <1>5 DEF Relock
<1>6. CASE Reset \/ Wait \/ \E ns \in Timeouts : TimedWait(ns)
    BY <1>6 DEF Reset, Wait, TimedWait
<1>7. CASE SetCondition
    BY <1>7 DEF SetCondition
<1>8. CASE Signal
    BY <1>8 DEF Signal, FREE
<1>9. CASE Tick \/ UNCHANGED conditionVars
    BY <1>9 DEF Tick, conditionVars
<1> QED
    BY <1>1, <1>2, <1>3, <1>4, <1>5, <1>6, <1>7, <1>8, <1>9 DEF ConditionNext, WaiterStep

(* SetCondition writes without the mutex, and still no wakeup is lost: a    *)
(* waiter that blocks with the condition set is about to be signalled.      *)
THEOREM WakeupSafe == ConditionSpec => []NoLostWakeup
<1>1. ConditionInit => WakeupInvariant
    BY DEF ConditionInit, WakeupInvariant, FREE
<1>2. WakeupInvariant => NoLostWakeup
    BY DEF WakeupInvariant, NoLostWakeup
<1> QED
    BY <1>1, <1>2, WakeupStep, PTL DEF ConditionSpec

-----------------------------------------------------------------------------
(* The condition: no timeout is early. *)

LEMMA Division ==
    ASSUME NEW a \in Nat, NEW b \in Nat \ {0}
    PROVE  /\ a \div b \in Nat /\ a % b \in 0..b-1
           /\ (a \div b) * b \in Nat
           /\ a = (a \div b) * b + (a % b)
OBVIOUS

LEMMA CarryOnce ==
    ASSUME NEW a \in Nat, NEW b \in Nat \ {0}, b < a, a < b + b
    PROVE  a % b = a - b
<1>1. a = 1 * b + (a - b) /\ a - b \in 0..b-1
    OBVIOUS
<1>2. a \div b = 1
  <2> DEFINE q == a \div b
  <2>1. q \in Nat /\ a % b \in 0..b-1 /\ a = q * b + (a % b) /\ q * b \in Nat
      BY Division
  <2>2. q # 0
      BY <2>1
  <2>3. ASSUME q >= 2 PROVE FALSE
    <3>1. PICK p \in Nat : q = p + 2
        BY <2>1, <2>3
    <3>2. q * b = p * b + b + b /\ p * b \in Nat
        BY <3>1
    <3> QED
        BY <2>1, <3>2
  <2> QED
      BY <2>1, <2>2, <2>3
<1> QED
    BY <1>2, Division

(* The absolute time is the sum, but for the part of a microsecond that     *)
(* gettimeofday leaves out.                                                 *)
LEMMA TimespecSum ==
    ASSUME NEW ns \in Nat, clock \in Nat
    PROVE  /\ Timespec(ns) \in [tv_sec : Nat, tv_nsec : Nat]
           /\ Nanoseconds(Timespec(ns)) > (clock + ns) - NS_PER_USEC
<1> DEFINE S == NS_PER_SEC
           U == NS_PER_USEC
           c == clock % S
           usec == c \div U
           nsec == (ns % S) + usec * U
           sec == (ns \div S) + (clock \div S)
<1>1. S \in Nat \ {0} /\ U \in Nat \ {0}
    BY ConditionAssumption
<1>2. /\ clock \div S \in Nat /\ c \in 0..S-1 /\ (clock \div S) * S \in Nat
      /\ clock = (clock \div S) * S + c
    BY <1>1, Division
<1>3. /\ ns \div S \in Nat /\ ns % S \in 0..S-1 /\ (ns \div S) * S \in Nat
      /\ ns = (ns \div S) * S + (ns % S)
    BY <1>1, Division
<1>4. usec \in Nat /\ usec * U \in Nat /\ usec * U <= c /\ c < usec * U + U
  <2>1. c \in Nat
      BY <1>1, <1>2
  <2>2. usec \in Nat /\ c % U \in 0..U-1 /\ usec * U \in Nat /\ c = usec * U + (c % U)
      BY <1>1, <2>1, Division
  <2> HIDE DEF usec, c
  <2> QED
      BY <1>1, <2>1, <2>2
<1>5. sec \in Nat /\ nsec \in Nat /\ nsec < S + S /\ sec * S = (ns \div S) * S + (clock \div S) * S
  <2> DEFINE n == ns \div S
             k == clock \div S
             m == ns % S
             p == usec * U
  <2>1. (n + k) * S = n * S + k * S
    <3> HIDE DEF n, k, S
    <3> QED
        BY <1>1, <1>2, <1>3 DEF n, k
  <2>2. m \in 0..S-1 /\ p \in Nat /\ p <= c /\ c \in 0..S-1
      BY <1>2, <1>3, <1>4
  <2>3. m + p \in Nat /\ m + p < S + S
    <3> HIDE DEF m, p, c, S
    <3> QED
        BY <1>1, <2>2 DEF S
  <2> QED
      BY <1>2, <1>3, <2>1, <2>3
<1>6. sec * S + nsec > (clock + ns) - U /\ sec * S \in Nat
  <2> DEFINE n == (ns \div S) * S
             k == (clock \div S) * S
             m == ns % S
             p == usec * U
             t == sec * S
  <2>1. /\ n \in Nat /\ k \in Nat /\ m \in Nat /\ p \in Nat /\ c \in Nat
        /\ ns = n + m /\ clock = k + c /\ c < p + U /\ t = n + k
      BY <1>1, <1>2, <1>3, <1>4, <1>5
  <2>2. t + (m + p) > (clock + ns) - U /\ t \in Nat
    <3> HIDE DEF n, k, m, p, t, c
    <3> QED
        BY <1>1, <2>1
  <2> QED
      BY <2>2
<1>7. CASE nsec > S
  <2>1. Timespec(ns) = [tv_sec |-> sec + 1, tv_nsec |-> nsec % S]
      BY <1>7 DEF Timespec
  <2>2. nsec % S = nsec - S /\ nsec - S \in Nat
      BY <1>1, <1>5, <1>7, CarryOnce
  <2>3. Nanoseconds(Timespec(ns)) = (sec + 1) * S + (nsec - S)
      BY <2>1, <2>2 DEF Nanoseconds
  <2>4. (sec + 1) * S = sec * S + S
    <3> HIDE DEF sec, S
    <3> QED
        BY <1>1, <1>5 DEF S
  <2>5. (sec + 1) * S + (nsec - S) = sec * S + nsec
    <3> DEFINE t == sec * S
               x == (sec + 1) * S
    <3>1. x = t + S /\ t \in Nat /\ nsec \in Nat /\ S \in Nat
        BY <1>1, <1>5, <1>6, <2>4
    <3> HIDE DEF t, x, nsec, S
    <3>2. x + (nsec - S) = t + nsec
        BY <3>1
    <3> QED
        BY <3>2 DEF t, x
  <2> QED
      BY <1>5, <1>6, <2>1, <2>2, <2>3, <2>5
<1>8. CASE ~(nsec > S)
  <2>1. Timespec(ns) = [tv_sec |-> sec, tv_nsec |-> nsec]
      BY <1>8 DEF Timespec
  <2> QED
      BY <1>5, <1>6, <2>1 DEF Nanoseconds
<1> QED
    BY <1>7, <1>8

(* What TimedWait hands to pthread_cond_timedwait is not early. *)
TimeInvariant ==
    /\ clock \in Nat /\ due \in Nat
    /\ ts \in [tv_sec : Nat, tv_nsec : Nat]
    /\ ts # FOREVER => Nanoseconds(ts) > due - NS_PER_USEC
    /\ waiter = "timedOut" => clock > due - NS_PER_USEC

LEMMA TimeStep == TimeInvariant /\ [ConditionNext]_conditionVars => TimeInvariant'
<1> SUFFICES ASSUME TimeInvariant, [ConditionNext]_conditionVars PROVE TimeInvariant'
    OBVIOUS
<1>0. NS_PER_SEC \in Nat \ {0} /\ NS_PER_USEC \in Nat \ {0} /\ Timeouts \subseteq Nat /\ MaxClock \in Nat
    BY ConditionAssumption
<1>1. CASE \E ns \in Timeouts : TimedWait(ns)
  <2>1. PICK ns \in Timeouts : TimedWait(ns)
      BY <1>1
  <2>2. ns \in Nat /\ clock \in Nat
      BY <1>0, <2>1 DEF TimeInvariant
  <2>3. /\ Timespec(ns) \in [tv_sec : Nat, tv_nsec : Nat]
        /\ Nanoseconds(Timespec(ns)) > (clock + ns) - NS_PER_USEC
      BY <2>2, TimespecSum
  <2>4. /\ ts' = Timespec(ns) /\ due' = clock + ns /\ clock' = clock /\ waiter' = "lock"
      BY <2>1 DEF TimedWait
  <2>5. Nanoseconds(ts)' = Nanoseconds(Timespec(ns))
      BY <2>4, Zenon DEF Nanoseconds
  <2>6. Nanoseconds(ts)' > due' - NS_PER_USEC
      BY <2>3, <2>4, <2>5, Zenon
  <2> QED
      BY <2>2, <2>3, <2>4, <2>6 DEF TimeInvariant
<1>2. CASE Wait
    BY <1>0, <1>2 DEF TimeInvariant, Wait, FOREVER
<1>3. CASE TimesOut
  <2>1. /\ ts # FOREVER /\ clock >= Nanoseconds(ts) /\ waiter' = "timedOut"
        /\ UNCHANGED <<clock, ts, due>>
      BY <1>3 DEF TimesOut
  <2>2. Nanoseconds(ts) \in Nat
      BY <1>0 DEF TimeInvariant, Nanoseconds
  <2>3. clock > due - NS_PER_USEC
      BY <1>0, <2>1, <2>2 DEF TimeInvariant
  <2> QED
      BY <2>1, <2>3 DEF TimeInvariant, Nanoseconds, FOREVER
<1>4. CASE Tick
    BY <1>0, <1>4 DEF TimeInvariant, Tick, Nanoseconds, FOREVER
<1>5. CASE Lock \/ Test \/ Block \/ ReturnTimedOut \/ Relock \/ Reset \/ SpuriousWakeup
    BY <1>5 DEF TimeInvariant, Lock, Test, Block, ReturnTimedOut, Relock, Reset, SpuriousWakeup,
                Nanoseconds, FOREVER
<1>6. CASE SetCondition \/ Signal
    BY <1>6 DEF TimeInvariant, SetCondition, Signal, Nanoseconds, FOREVER
<1>7. CASE UNCHANGED conditionVars
    BY <1>7 DEF TimeInvariant, conditionVars, Nanoseconds, FOREVER
<1> QED
    BY <1>1, <1>2, <1>3, <1>4, <1>5, <1>6, <1>7 DEF ConditionNext, WaiterStep

(* TimedWait does not time out before its time, but for the part of a       *)
(* microsecond that gettimeofday leaves out: for every timeout the two      *)
(* divisions and the carry make up the sum.                                 *)
THEOREM TimeoutNotEarly == ConditionSpec => []NotBeforeTime
<1>1. ConditionInit => TimeInvariant
    BY ConditionAssumption DEF ConditionInit, TimeInvariant, FOREVER
<1>2. TimeInvariant => NotBeforeTime
    BY DEF TimeInvariant, NotBeforeTime
<1> QED
    BY <1>1, <1>2, TimeStep, PTL DEF ConditionSpec

-----------------------------------------------------------------------------
(* The reader and the device. *)

(* What connects the threads: the pipe is there while the thread is, the    *)
(* descriptor while the reader is, and Stop is called with a reader only.   *)
Connected ==
    /\ m_stop <=> main # "idle"
    /\ thread # "none" => m_evpipe # CLOSED
    /\ m_evpipe # CLOSED => m_fdReader
    /\ m_fdReader => m_fd
    /\ main # "idle" => m_fdReader
    /\ destroyed /\ main = "idle" => thread = "none"
    /\ destroyed /\ ~m_fdReader => main = "idle"
    /\ caller = "DestroyEvent" => destroyed
    /\ main = "idle" /\ thread = "none" => m_evpipe = CLOSED
    /\ thread = "callback" => hand \in Frames
    /\ hand # NONE => thread = "callback"

DeviceInvariant ==
    /\ TypeOK /\ Connected
    /\ NoLostStop /\ OneEventPerFrame /\ ThreadContained

-----------------------------------------------------------------------------
LEMMA InitialState ==
    ASSUME m_maxPendingReads \in Nat, Init
    PROVE  DeviceInvariant
<1>1. <<>> \in Seq(Frames) /\ Len(<<>>) = 0
  OBVIOUS
<1>2. TypeOK
  <2>1. kernel \in Seq(Frames) /\ m_pendingQueue \in Seq(Frames)
    BY <1>1 DEF Init, ReaderInit
  <2>2. Len(m_pendingQueue) <= m_maxPendingReads /\ forwards \in Nat
    BY <1>1 DEF Init
  <2>3. main \in {"idle", "write", "join"} /\ thread \in Running \union {"none", "done"}
    BY DEF Init, ReaderInit
  <2>4. m_evpipe \in Nat \union {CLOSED} /\ readfds \subseteq {"pipe", "fd"}
    BY DEF Init, ReaderInit
  <2> QED
    BY <2>1, <2>2, <2>3, <2>4 DEF Init, ReaderInit, TypeOK
<1>3. Connected /\ NoLostStop /\ ThreadContained
  BY DEF Init, ReaderInit, Connected, NoLostStop, ThreadContained, Running, CLOSED
<1>4. OneEventPerFrame
  BY <1>1 DEF Init, ReaderInit, OneEventPerFrame
<1> QED
  BY <1>2, <1>3, <1>4 DEF DeviceInvariant

(* Each of the main thread's steps. *)
LEMMA MainKeeps ==
    ASSUME DeviceInvariant,
           \/ SetFileDescriptor \/ StartDevice \/ StopDevice
           \/ StopDeviceUnstarted \/ DestroyEvent \/ MainStep
    PROVE  DeviceInvariant'
<1> USE DEF DeviceInvariant
<1>0. <<>> \in Seq(Frames)
  OBVIOUS
<1>1. CASE SetFileDescriptor
  <2>1. TypeOK'
    BY <1>0, <1>1 DEF TypeOK, SetFileDescriptor, readerVars, CLOSED, Running
  <2>2. Connected'
    BY <1>1 DEF TypeOK, Connected, SetFileDescriptor, readerVars, CLOSED, Running
  <2>3. NoLostStop'
    BY <1>1 DEF TypeOK, Connected, NoLostStop, SetFileDescriptor, readerVars, CLOSED, Running
  <2>4. OneEventPerFrame'
    BY <1>1 DEF TypeOK, Connected, OneEventPerFrame, SetFileDescriptor, readerVars, CLOSED, Running
  <2>5. ThreadContained'
    BY <1>1 DEF TypeOK, Connected, ThreadContained, SetFileDescriptor, readerVars, CLOSED, Running
  <2> QED
    BY <2>1, <2>2, <2>3, <2>4, <2>5
<1>2. CASE StartDevice
  <2>1. TypeOK'
    BY <1>0, <1>2 DEF TypeOK, StartDevice, Start, CLOSED, Running
  <2>2. Connected'
    BY <1>2 DEF TypeOK, Connected, StartDevice, Start, CLOSED, Running
  <2>3. NoLostStop'
    BY <1>2 DEF TypeOK, Connected, NoLostStop, StartDevice, Start, CLOSED, Running
  <2>4. OneEventPerFrame'
    BY <1>2 DEF TypeOK, Connected, OneEventPerFrame, StartDevice, Start, CLOSED, Running
  <2>5. ThreadContained'
    BY <1>2 DEF TypeOK, Connected, ThreadContained, StartDevice, Start, CLOSED, Running
  <2> QED
    BY <2>1, <2>2, <2>3, <2>4, <2>5
<1>3. CASE StopDevice
  <2>1. TypeOK'
    BY <1>0, <1>3 DEF TypeOK, StopDevice, StopFlag, CLOSED, Running
  <2>2. Connected'
    BY <1>3 DEF TypeOK, Connected, StopDevice, StopFlag, CLOSED, Running
  <2>3. NoLostStop'
    BY <1>3 DEF TypeOK, Connected, NoLostStop, StopDevice, StopFlag, CLOSED, Running
  <2>4. OneEventPerFrame'
    BY <1>3 DEF TypeOK, Connected, OneEventPerFrame, StopDevice, StopFlag, CLOSED, Running
  <2>5. ThreadContained'
    BY <1>3 DEF TypeOK, Connected, ThreadContained, StopDevice, StopFlag, CLOSED, Running
  <2> QED
    BY <2>1, <2>2, <2>3, <2>4, <2>5
<1>4. CASE StopDeviceUnstarted
  <2>1. TypeOK'
    BY <1>0, <1>4 DEF TypeOK, StopDeviceUnstarted, CLOSED, Running
  <2>2. Connected'
    BY <1>4 DEF TypeOK, Connected, StopDeviceUnstarted, CLOSED, Running
  <2>3. NoLostStop'
    BY <1>4 DEF TypeOK, Connected, NoLostStop, StopDeviceUnstarted, CLOSED, Running
  <2>4. OneEventPerFrame'
    BY <1>4 DEF TypeOK, Connected, OneEventPerFrame, StopDeviceUnstarted, CLOSED, Running
  <2>5. ThreadContained'
    BY <1>4 DEF TypeOK, Connected, ThreadContained, StopDeviceUnstarted, CLOSED, Running
  <2> QED
    BY <2>1, <2>2, <2>3, <2>4, <2>5
<1>5. CASE DestroyEvent
  <2>1. TypeOK'
    BY <1>0, <1>5 DEF TypeOK, DestroyEvent, StopFlag, CLOSED, Running
  <2>2. Connected'
    BY <1>5 DEF TypeOK, Connected, DestroyEvent, StopFlag, CLOSED, Running
  <2>3. NoLostStop'
    BY <1>5 DEF TypeOK, Connected, NoLostStop, DestroyEvent, StopFlag, CLOSED, Running
  <2>4. OneEventPerFrame'
    BY <1>5 DEF TypeOK, Connected, OneEventPerFrame, DestroyEvent, StopFlag, CLOSED, Running
  <2>5. ThreadContained'
    BY <1>5 DEF TypeOK, Connected, ThreadContained, DestroyEvent, StopFlag, CLOSED, Running
  <2> QED
    BY <2>1, <2>2, <2>3, <2>4, <2>5
<1>6. CASE WakeThread
  <2>1. TypeOK'
    BY <1>0, <1>6 DEF TypeOK, WakeThread, StopWrite, CLOSED, Running
  <2>2. Connected'
    BY <1>6 DEF TypeOK, Connected, WakeThread, StopWrite, CLOSED, Running
  <2>3. NoLostStop'
    BY <1>6 DEF TypeOK, Connected, NoLostStop, WakeThread, StopWrite, CLOSED, Running
  <2>4. OneEventPerFrame'
    BY <1>6 DEF TypeOK, Connected, OneEventPerFrame, WakeThread, StopWrite, CLOSED, Running
  <2>5. ThreadContained'
    BY <1>6 DEF TypeOK, Connected, ThreadContained, WakeThread, StopWrite, CLOSED, Running
  <2> QED
    BY <2>1, <2>2, <2>3, <2>4, <2>5
<1>7. CASE StopDeviceReturns
  <2>1. TypeOK'
    BY <1>0, <1>7 DEF TypeOK, StopDeviceReturns, Stopped, CLOSED, Running
  <2>2. Connected'
    BY <1>7 DEF TypeOK, Connected, StopDeviceReturns, Stopped, CLOSED, Running
  <2>3. NoLostStop'
    BY <1>7 DEF TypeOK, Connected, NoLostStop, StopDeviceReturns, Stopped, CLOSED, Running
  <2>4. OneEventPerFrame'
    BY <1>7 DEF TypeOK, Connected, OneEventPerFrame, StopDeviceReturns, Stopped, CLOSED, Running
  <2>5. ThreadContained'
    BY <1>7 DEF TypeOK, Connected, ThreadContained, StopDeviceReturns, Stopped, CLOSED, Running
  <2> QED
    BY <2>1, <2>2, <2>3, <2>4, <2>5
<1>8. CASE DestroyEventReturns
  <2>1. TypeOK'
    BY <1>0, <1>8 DEF TypeOK, DestroyEventReturns, Stopped, CLOSED, Running
  <2>2. Connected'
    BY <1>8 DEF TypeOK, Connected, DestroyEventReturns, Stopped, CLOSED, Running
  <2>3. NoLostStop'
    BY <1>8 DEF TypeOK, Connected, NoLostStop, DestroyEventReturns, Stopped, CLOSED, Running
  <2>4. OneEventPerFrame'
    BY <1>8 DEF TypeOK, Connected, OneEventPerFrame, DestroyEventReturns, Stopped, CLOSED, Running
  <2>5. ThreadContained'
    BY <1>8 DEF TypeOK, Connected, ThreadContained, DestroyEventReturns, Stopped, CLOSED, Running
  <2> QED
    BY <2>1, <2>2, <2>3, <2>4, <2>5
<1> QED
  BY <1>1, <1>2, <1>3, <1>4, <1>5, <1>6, <1>7, <1>8 DEF MainStep

(* Each of the read thread's steps that leave the queue alone. *)
LEMMA ReaderKeeps ==
    ASSUME DeviceInvariant,
           ReaderProceeds \/ ReaderDisturbed
    PROVE  DeviceInvariant'
<1> USE DEF DeviceInvariant
<1>1. CASE ReaderProceeds /\ SelectReturns
  <2>0. UNCHANGED <<m_fd, m_fdReader, m_pendingQueue, forwards, handed, caller, destroyed>>
    BY <1>1 DEF ReaderProceeds
  <2>1. TypeOK'
    BY <2>0, <1>1 DEF TypeOK, SelectReturns, CLOSED, Running
  <2>2. Connected'
    BY <2>0, <1>1 DEF TypeOK, Connected, SelectReturns, CLOSED, Running
  <2>3. NoLostStop'
    BY <2>0, <1>1 DEF TypeOK, Connected, NoLostStop, SelectReturns, CLOSED, Running
  <2>4. OneEventPerFrame' /\ ThreadContained'
    BY <2>0, <1>1 DEF TypeOK, Connected, OneEventPerFrame, ThreadContained, SelectReturns, CLOSED, Running
  <2> QED
    BY <2>1, <2>2, <2>3, <2>4
<1>2. CASE ReaderProceeds /\ Drain
  <2>0. UNCHANGED <<m_fd, m_fdReader, m_pendingQueue, forwards, handed, caller, destroyed>>
    BY <1>2 DEF ReaderProceeds
  <2>1. TypeOK'
    BY <2>0, <1>2 DEF TypeOK, Drain, CLOSED, Running
  <2>2. Connected'
    BY <2>0, <1>2 DEF TypeOK, Connected, Drain, CLOSED, Running
  <2>3. NoLostStop'
    BY <2>0, <1>2 DEF TypeOK, Connected, NoLostStop, Drain, CLOSED, Running
  <2>4. OneEventPerFrame' /\ ThreadContained'
    BY <2>0, <1>2 DEF TypeOK, Connected, OneEventPerFrame, ThreadContained, Drain, CLOSED, Running
  <2> QED
    BY <2>1, <2>2, <2>3, <2>4
<1>3. CASE ReaderProceeds /\ TestStop
  <2>0. UNCHANGED <<m_fd, m_fdReader, m_pendingQueue, forwards, handed, caller, destroyed>>
    BY <1>3 DEF ReaderProceeds
  <2>1. TypeOK'
    BY <2>0, <1>3 DEF TypeOK, TestStop, CLOSED, Running
  <2>2. Connected'
    BY <2>0, <1>3 DEF TypeOK, Connected, TestStop, CLOSED, Running
  <2>3. NoLostStop'
    BY <2>0, <1>3 DEF TypeOK, Connected, NoLostStop, TestStop, CLOSED, Running
  <2>4. OneEventPerFrame' /\ ThreadContained'
    BY <2>0, <1>3 DEF TypeOK, Connected, OneEventPerFrame, ThreadContained, TestStop, CLOSED, Running
  <2> QED
    BY <2>1, <2>2, <2>3, <2>4
<1>4. CASE ReaderProceeds /\ DoRead
  <2>0. UNCHANGED <<m_fd, m_fdReader, m_pendingQueue, forwards, handed, caller, destroyed>>
    BY <1>4 DEF ReaderProceeds
  <2>1. TypeOK'
    BY <2>0, <1>4 DEF TypeOK, DoRead, CLOSED, Running
  <2>2. Connected'
    BY <2>0, <1>4 DEF TypeOK, Connected, DoRead, CLOSED, Running
  <2>3. NoLostStop'
    BY <2>0, <1>4 DEF TypeOK, Connected, NoLostStop, DoRead, CLOSED, Running
  <2>4. OneEventPerFrame' /\ ThreadContained'
    BY <2>0, <1>4 DEF TypeOK, Connected, OneEventPerFrame, ThreadContained, DoRead, CLOSED, Running
  <2> QED
    BY <2>1, <2>2, <2>3, <2>4
<1>5. CASE ReaderDisturbed /\ WokenWithoutData
  <2>0. UNCHANGED <<m_fd, m_fdReader, m_pendingQueue, forwards, handed, caller, destroyed>>
    BY <1>5 DEF ReaderDisturbed
  <2>1. TypeOK'
    BY <2>0, <1>5 DEF TypeOK, WokenWithoutData, CLOSED, Running
  <2>2. Connected'
    BY <2>0, <1>5 DEF TypeOK, Connected, WokenWithoutData, CLOSED, Running
  <2>3. NoLostStop'
    BY <2>0, <1>5 DEF TypeOK, Connected, NoLostStop, WokenWithoutData, CLOSED, Running
  <2>4. OneEventPerFrame' /\ ThreadContained'
    BY <2>0, <1>5 DEF TypeOK, Connected, OneEventPerFrame, ThreadContained, WokenWithoutData, CLOSED, Running
  <2> QED
    BY <2>1, <2>2, <2>3, <2>4
<1>6. CASE ReaderDisturbed /\ DoReadEnds
  <2>0. UNCHANGED <<m_fd, m_fdReader, m_pendingQueue, forwards, handed, caller, destroyed>>
    BY <1>6 DEF ReaderDisturbed
  <2>1. TypeOK'
    BY <2>0, <1>6 DEF TypeOK, DoReadEnds, CLOSED, Running
  <2>2. Connected'
    BY <2>0, <1>6 DEF TypeOK, Connected, DoReadEnds, CLOSED, Running
  <2>3. NoLostStop'
    BY <2>0, <1>6 DEF TypeOK, Connected, NoLostStop, DoReadEnds, CLOSED, Running
  <2>4. OneEventPerFrame' /\ ThreadContained'
    BY <2>0, <1>6 DEF TypeOK, Connected, OneEventPerFrame, ThreadContained, DoReadEnds, CLOSED, Running
  <2> QED
    BY <2>1, <2>2, <2>3, <2>4
<1> QED
  BY <1>1, <1>2, <1>3, <1>4, <1>5, <1>6 DEF ReaderProceeds, ReaderDisturbed

(* The steps that change the queue or its events, and the frames. *)
LEMMA QueueKeeps ==
    ASSUME m_maxPendingReads \in Nat, DeviceInvariant,
           ForwardUp \/ ReceiveCallback \/ ScheduleForwardUp \/ \E frame \in Frames : Arrive(frame)
    PROVE  DeviceInvariant'
<1> USE DEF DeviceInvariant
<1>1. CASE ForwardUp
  <2>1. TypeOK'
    BY <1>1 DEF TypeOK, Connected, OneEventPerFrame, ForwardUp, readerVars, CLOSED, Running
  <2>2. Connected' /\ NoLostStop' /\ ThreadContained'
    BY <1>1 DEF TypeOK, Connected, NoLostStop, ThreadContained, ForwardUp, readerVars, CLOSED, Running
  <2>3. OneEventPerFrame'
    BY <1>1 DEF TypeOK, OneEventPerFrame, ForwardUp, readerVars, CLOSED, Running
  <2> QED
    BY <2>1, <2>2, <2>3
<1>2. CASE ReceiveCallback
  <2>a. hand \in Frames /\ m_pendingQueue \in Seq(Frames) /\ thread' \in Running
    BY <1>2 DEF TypeOK, Connected, ReceiveCallback, Running
  <2>b. m_pendingQueue' \in Seq(Frames) /\ Len(m_pendingQueue') <= m_maxPendingReads
    BY <1>2, <2>a, AppendProperties, LenProperties DEF TypeOK, ReceiveCallback
  <2>1. TypeOK'
    BY <1>2, <2>a, <2>b DEF TypeOK, ReceiveCallback
  <2>2. Connected' /\ NoLostStop' /\ ThreadContained'
    BY <1>2 DEF TypeOK, Connected, NoLostStop, ThreadContained, ReceiveCallback, CLOSED, Running
  <2>3. OneEventPerFrame'
    BY <1>2 DEF TypeOK, OneEventPerFrame, ReceiveCallback, CLOSED, Running
  <2> QED
    BY <2>1, <2>2, <2>3
<1>3. CASE ScheduleForwardUp
  <2>1. TypeOK'
    BY <1>3 DEF TypeOK, Connected, OneEventPerFrame, ScheduleForwardUp, CLOSED, Running
  <2>2. Connected' /\ NoLostStop' /\ ThreadContained'
    BY <1>3 DEF TypeOK, Connected, NoLostStop, ThreadContained, ScheduleForwardUp, CLOSED, Running
  <2>3. OneEventPerFrame'
    BY <1>3 DEF TypeOK, OneEventPerFrame, ScheduleForwardUp, CLOSED, Running
  <2> QED
    BY <2>1, <2>2, <2>3
<1>4. CASE \E frame \in Frames : Arrive(frame)
  <2>1. TypeOK'
    BY <1>4 DEF TypeOK, Connected, OneEventPerFrame, Arrive, CLOSED, Running
  <2>2. Connected' /\ NoLostStop' /\ ThreadContained'
    BY <1>4 DEF TypeOK, Connected, NoLostStop, ThreadContained, Arrive, CLOSED, Running
  <2>3. OneEventPerFrame'
    BY <1>4 DEF TypeOK, OneEventPerFrame, Arrive, CLOSED, Running
  <2> QED
    BY <2>1, <2>2, <2>3
<1> QED
  BY <1>1, <1>2, <1>3, <1>4

-----------------------------------------------------------------------------
LEMMA Inductive ==
    ASSUME m_maxPendingReads \in Nat, DeviceInvariant, [Next]_vars
    PROVE  DeviceInvariant'
<1>1. CASE UNCHANGED vars
  BY <1>1 DEF DeviceInvariant, TypeOK, Connected, NoLostStop, OneEventPerFrame,
              ThreadContained, vars, readerVars
<1>2. CASE Next
  BY <1>1, <1>2, MainKeeps, ReaderKeeps, QueueKeeps DEF Next, ReaderStep, Disposed
<1> QED
  BY <1>1, <1>2

(* The inductive invariant, for every size of the queues. *)
THEOREM DeviceSafety ==
    ASSUME m_maxPendingReads \in Nat
    PROVE  Spec => []DeviceInvariant
<1>1. Init => DeviceInvariant
  BY InitialState
<1>2. DeviceInvariant /\ [Next]_vars => DeviceInvariant'
  BY Inductive
<1> QED
  BY <1>1, <1>2, PTL DEF Spec

(* Stop never waits for a read thread that nothing will wake up.            *)
THEOREM StopWakes ==
    ASSUME m_maxPendingReads \in Nat
    PROVE  Spec => []NoLostStop
<1>1. DeviceInvariant => NoLostStop
  BY DEF DeviceInvariant
<1> QED
  BY <1>1, DeviceSafety, PTL

(* ForwardUp finds a frame for each of its events, also after StopDevice    *)
(* and a new start.                                                         *)
THEOREM EventForEachFrame ==
    ASSUME m_maxPendingReads \in Nat
    PROVE  Spec => []OneEventPerFrame
<1>1. DeviceInvariant => OneEventPerFrame
  BY DEF DeviceInvariant
<1> QED
  BY <1>1, DeviceSafety, PTL

(* The read thread never outlives the descriptor and the pipe it uses.      *)
THEOREM ThreadOutlived ==
    ASSUME m_maxPendingReads \in Nat
    PROVE  Spec => []ThreadContained
<1>1. DeviceInvariant => ThreadContained
  BY DEF DeviceInvariant
<1> QED
  BY <1>1, DeviceSafety, PTL

-----------------------------------------------------------------------------
(* The device as a lossy FIFO. *)

LEMMA Associative ==
    \A s, t, u \in Seq(Frames) : (s \o t) \o u = s \o (t \o u)
<1> TAKE s, t, u \in Seq(Frames)
<1> QED
  BY ConcatAssociative

(* A frame that leaves the front of the first of two sequences leaves the   *)
(* front of both.                                                           *)
LEMMA Leaves ==
    ASSUME NEW q \in Seq(Frames), NEW r \in Seq(Frames), q # <<>>
    PROVE  q \o r # <<>> /\ Head(q \o r) = Head(q) /\ Tail(q \o r) = Tail(q) \o r
<1>1. q \o r \in Seq(Frames) /\ Len(q \o r) = Len(q) + Len(r) /\ Len(q) \in Nat \ {0} /\ Len(r) \in Nat
  BY ConcatProperties, EmptySeq, LenProperties
<1>2. q \o r # <<>>
  BY <1>1, EmptySeq
<1>3. Head(q \o r) = Head(q)
  BY <1>1, ConcatProperties
<1>4. Tail(q) \in Seq(Frames) /\ Len(Tail(q)) = Len(q) - 1
  BY HeadTailProperties
<1>5. Tail(q \o r) \in Seq(Frames) /\ Len(Tail(q \o r)) = Len(q) + Len(r) - 1
  BY <1>1, <1>2, HeadTailProperties
<1>6. Tail(q) \o r \in Seq(Frames) /\ Len(Tail(q) \o r) = Len(q) - 1 + Len(r)
  BY <1>1, <1>4, ConcatProperties
<1>7. ASSUME NEW i \in 1..(Len(q) + Len(r) - 1) PROVE Tail(q \o r)[i] = (Tail(q) \o r)[i]
  <2>1. Tail(q \o r)[i] = (q \o r)[i + 1]
    BY <1>1, <1>2, <1>5, HeadTailProperties
  <2>2. (q \o r)[i + 1] = IF i + 1 <= Len(q) THEN q[i + 1] ELSE r[i + 1 - Len(q)]
    BY <1>1, ConcatProperties
  <2>3. (Tail(q) \o r)[i] = IF i <= Len(q) - 1 THEN Tail(q)[i] ELSE r[i - (Len(q) - 1)]
    BY <1>1, <1>4, ConcatProperties
  <2>4. i <= Len(q) - 1 => Tail(q)[i] = q[i + 1]
    BY <1>1, <1>4, HeadTailProperties
  <2> QED
    BY <1>1, <2>1, <2>2, <2>3, <2>4
<1>8. Tail(q \o r) = Tail(q) \o r
  BY <1>1, <1>5, <1>6, <1>7, SeqEqual
<1> QED
  BY <1>2, <1>3, <1>8

(* A frame that moves from the front of one sequence to the end of the one  *)
(* before it.                                                               *)
LEMMA Moves ==
    ASSUME NEW q \in Seq(Frames), NEW k \in Seq(Frames), k # <<>>
    PROVE  (q \o <<Head(k)>>) \o Tail(k) = q \o k
<1>1. PICK f \in Frames : f = Head(k)
  BY HeadTailProperties
<1>2. PICK t \in Seq(Frames) : t = Tail(k)
  BY HeadTailProperties
<1>a. <<f>> \in Seq(Frames) /\ Len(<<f>>) = 1 /\ <<f>>[1] = f
  OBVIOUS
<1>3. PICK e \in Seq(Frames) : e = <<f>> /\ Len(e) = 1 /\ e[1] = f
  BY <1>a
<1>4. e \o t = k
  BY <1>1, <1>2, <1>3, SeqEqual, ConcatProperties, HeadTailProperties
<1>5. (q \o e) \o t = q \o (e \o t)
  BY Associative, ZenonT(60)
<1> QED
  BY <1>1, <1>2, <1>3, <1>4, <1>5

(* A frame that enters at the end of the last sequence. *)
LEMMA Enters ==
    ASSUME NEW r \in Seq(Frames), NEW k \in Seq(Frames), NEW f \in Frames
    PROVE  r \o Append(k, f) = Append(r \o k, f)
<1>a. <<f>> \in Seq(Frames)
  OBVIOUS
<1>1. PICK e \in Seq(Frames) : e = <<f>>
  BY <1>a
<1>2. PICK s \in Seq(Frames) : s = r \o k
  BY ConcatProperties
<1>3. Append(k, f) = k \o e /\ Append(s, f) = s \o e
  BY <1>1, AppendIsConcat
<1>4. (r \o k) \o e = r \o (k \o e)
  BY Associative, Zenon
<1> QED
  BY <1>2, <1>3, <1>4

(* The frame in the hand of the read thread. *)
Held == IF hand = NONE THEN <<>> ELSE <<hand>>

LEMMA Flight ==
    ASSUME DeviceInvariant
    PROVE  /\ m_pendingQueue \in Seq(Frames) /\ Held \in Seq(Frames) /\ kernel \in Seq(Frames)
           /\ InFlight = (m_pendingQueue \o Held) \o kernel
<1>1. <<>> \in Seq(Frames)
  BY EmptySeq
<1>2. hand # NONE => <<hand>> \in Seq(Frames)
  BY DEF DeviceInvariant, TypeOK
<1> QED
  BY <1>1, <1>2 DEF DeviceInvariant, TypeOK, Held, InFlight

(* A step that loses the frames m between q and k. *)
LEMMA LosingStep ==
    ASSUME NEW q \in Seq(Frames), NEW m \in Seq(Frames), NEW k \in Seq(Frames),
           InFlight = (q \o m) \o k, InFlight' = q \o k, UNCHANGED handed
    PROVE  Fifo!Lose
<1>1. PICK s : s = InFlight
  OBVIOUS
<1>2. Len(q) \in Nat /\ Len(m) \in Nat /\ Len(k) \in Nat
  BY LenProperties
<1>3. q \o m \in Seq(Frames) /\ Len(q \o m) = Len(q) + Len(m)
  BY ConcatProperties
<1>4. s \in Seq(Frames) /\ Len(s) = Len(q) + Len(m) + Len(k)
  BY <1>1, <1>3, ConcatProperties
<1>5. (\A i \in 1..Len(q) : s[i] = q[i]) /\ (\A i \in 1..Len(k) : s[Len(q) + Len(m) + i] = k[i])
  BY <1>1, <1>2, <1>3, ConcatProperties
<1>6. \A i \in 1..Len(s) : s[i] \in Frames
  BY <1>4, ElementOfSeq
<1>7. SubSeq(s, 1, Len(q)) = q
  <2> DEFINE t == SubSeq(s, 1, Len(q))
  <2>1. t \in Seq(Frames) /\ Len(t) = Len(q) /\ \A i \in 1..Len(q) : t[i] = s[i]
    BY <1>2, <1>4, <1>6, SubSeqProperties
  <2> QED
    BY <1>5, <2>1, SeqEqual
<1> DEFINE b == Len(q) + Len(m)
<1>8. SubSeq(s, b + 1, Len(s)) = k
  <2> DEFINE t == SubSeq(s, b + 1, Len(s))
  <2>1. /\ b + 1 \in Int /\ Len(s) \in Int /\ Len(s) - (b + 1) + 1 = Len(k)
        /\ \A i \in (b + 1)..Len(s) : s[i] \in Frames
    BY <1>2, <1>4, <1>6
  <2>2. /\ t \in Seq(Frames) /\ Len(t) = (IF b + 1 <= Len(s) THEN Len(s) - (b + 1) + 1 ELSE 0)
        /\ \A i \in 1..(Len(s) - (b + 1) + 1) : t[i] = s[b + 1 + i - 1]
    BY <2>1, SubSeqProperties
  <2>3. Len(t) = Len(k)
    BY <1>2, <1>4, <2>1, <2>2
  <2>4. \A i \in 1..Len(k) : t[i] = k[i]
    BY <1>2, <1>5, <2>1, <2>2
  <2> QED
    BY <2>2, <2>3, <2>4, SeqEqual
<1>9. Len(q) \in 0..Len(s) /\ b \in 0..Len(s) /\ Len(q) <= b
  BY <1>2, <1>4
<1>10. InFlight' = SubSeq(s, 1, Len(q)) \o SubSeq(s, b + 1, Len(s))
  BY <1>7, <1>8
<1> HIDE DEF b
<1> QED
  BY <1>1, <1>9, <1>10 DEF Fifo!Lose

LEMMA FifoStep ==
    ASSUME NONE \notin Frames, DeviceInvariant, DeviceInvariant', [Next]_vars
    PROVE  [Fifo!Next]_<<InFlight, handed>>
<1> DEFINE q == m_pendingQueue
           k == kernel
<1>0. /\ q \in Seq(Frames) /\ Held \in Seq(Frames) /\ k \in Seq(Frames)
      /\ InFlight = (q \o Held) \o k
  BY Flight
<1>a. InFlight' = (q' \o Held') \o k'
  BY Flight DEF Held, InFlight
<1>b. <<>> \in Seq(Frames) /\ q \o <<>> = q /\ k \o <<>> = k
  BY <1>0, EmptySeq, ConcatEmptySeq
<1>1. CASE UNCHANGED <<m_pendingQueue, hand, kernel, handed>>
  BY <1>1 DEF InFlight
<1>2. CASE ForwardUp
  <2>1. q # <<>> /\ q' = Tail(q) /\ handed' = Head(q) /\ Held' = Held /\ k' = k
    BY <1>2, EmptySeq DEF ForwardUp, readerVars, DeviceInvariant, OneEventPerFrame, TypeOK, Held
  <2>2. PICK r \in Seq(Frames) : r = q \o Held
    BY <1>0, ConcatProperties
  <2>3. r # <<>> /\ Head(r) = Head(q) /\ Tail(r) = Tail(q) \o Held
    BY <1>0, <2>1, <2>2, Leaves
  <2>4. r \o k # <<>> /\ Head(r \o k) = Head(r) /\ Tail(r \o k) = Tail(r) \o k
    BY <1>0, <2>3, Leaves
  <2> QED
    BY <1>0, <1>a, <2>1, <2>2, <2>3, <2>4 DEF Fifo!Next, Fifo!Leave
<1>3. CASE ReaderProceeds /\ DoRead
  <2>1. thread = "read" /\ k # <<>> /\ q' = q /\ hand' = Head(k) /\ k' = Tail(k) /\ handed' = handed
    BY <1>3 DEF ReaderProceeds, DoRead
  <2>2. Held = <<>> /\ Head(k) \in Frames /\ Tail(k) \in Seq(Frames)
    BY <1>0, <2>1, HeadTailProperties DEF DeviceInvariant, Connected, Held
  <2>3. Held' = <<Head(k)>> /\ <<Head(k)>> \in Seq(Frames)
    BY <2>1, <2>2 DEF Held
  <2>4. (q \o <<Head(k)>>) \o Tail(k) = q \o k
    BY <1>0, <2>1, Moves
  <2>5. InFlight' = q \o k
    BY <1>a, <2>1, <2>3, <2>4
  <2> QED
    BY <1>0, <1>b, <2>1, <2>2, <2>5
<1>4. CASE ReceiveCallback
  <2>1. thread = "callback" /\ hand \in Frames /\ hand' = NONE /\ k' = k /\ handed' = handed
    BY <1>4 DEF ReceiveCallback, DeviceInvariant, Connected
  <2>2. Held = <<hand>> /\ Held' = <<>>
    BY <2>1 DEF Held
  <2>3. CASE q' = Append(q, hand)
    <3>1. q' = q \o Held /\ q' \in Seq(Frames)
      BY <1>0, <2>1, <2>2, <2>3, AppendIsConcat, AppendProperties
    <3>2. InFlight' = InFlight
      BY <1>0, <1>a, <2>1, <2>2, <3>1, ConcatEmptySeq
    <3> QED
      BY <2>1, <3>2
  <2>4. CASE q' = q
    <3>1. InFlight' = q \o k
      BY <1>a, <1>b, <2>1, <2>2, <2>4
    <3> QED
      BY <1>0, <2>1, <3>1, LosingStep DEF Fifo!Next
  <2> QED
    BY <1>4, <2>3, <2>4 DEF ReceiveCallback
<1>5. CASE \E frame \in Frames : Arrive(frame)
  <2>1. PICK frame \in Frames : Arrive(frame)
    BY <1>5
  <2>2. q' = q /\ Held' = Held /\ handed' = handed /\ (k' = k \/ k' = Append(k, frame))
    BY <2>1 DEF Arrive, Held
  <2>3. CASE k' = k
    BY <1>0, <1>a, <2>2, <2>3
  <2>4. CASE k' = Append(k, frame)
    <3>1. PICK r \in Seq(Frames) : r = q \o Held
      BY <1>0, ConcatProperties
    <3>2. r \o Append(k, frame) = Append(r \o k, frame)
      BY <1>0, Enters
    <3>3. InFlight' = Append(InFlight, frame)
      BY <1>0, <1>a, <2>2, <2>4, <3>1, <3>2
    <3> QED
      BY <2>2, <3>3 DEF Fifo!Next, Fifo!Enter
  <2> QED
    BY <2>2, <2>3, <2>4
<1>6. CASE StopDeviceReturns \/ StopDeviceUnstarted
  <2>1. thread # "callback" /\ q' = q /\ hand' = hand /\ k' = <<>> /\ handed' = handed
    BY <1>6 DEF StopDeviceReturns, StopDeviceUnstarted, Stopped, DeviceInvariant, Connected
  <2>2. Held = <<>> /\ Held' = <<>>
    BY <2>1 DEF DeviceInvariant, Connected, Held
  <2>3. InFlight' = q \o <<>>
    BY <1>a, <1>b, <2>1, <2>2
  <2>4. InFlight = (q \o k) \o <<>>
    BY <1>0, <1>b, <2>2, ConcatProperties, ConcatEmptySeq
  <2> QED
    BY <1>0, <1>b, <2>1, <2>3, <2>4, LosingStep DEF Fifo!Next
<1>7. CASE SetFileDescriptor \/ StartDevice \/ StopDevice \/ DestroyEvent \/ WakeThread
  BY <1>1, <1>7 DEF SetFileDescriptor, StartDevice, StopDevice, DestroyEvent, WakeThread,
                    Start, StopFlag, StopWrite, readerVars
<1>8. CASE DestroyEventReturns \/ ScheduleForwardUp \/ ReaderDisturbed
  BY <1>1, <1>8 DEF DestroyEventReturns, Stopped, ScheduleForwardUp, ReaderDisturbed,
                    WokenWithoutData, DoReadEnds
<1>9. CASE ReaderProceeds /\ ~DoRead
  BY <1>1, <1>9 DEF ReaderProceeds, SelectReturns, Drain, TestStop
<1>10. CASE UNCHANGED vars
  BY <1>1, <1>10 DEF vars, readerVars
<1> QED
  BY <1>2, <1>3, <1>4, <1>5, <1>6, <1>7, <1>8, <1>9, <1>10
     DEF Next, MainStep, ReaderStep, Disposed

(* The device implements a lossy FIFO: every step of either thread is one   *)
(* of its steps or changes nothing it shows.                                *)
THEOREM ImplementsLossyFifo ==
    ASSUME m_maxPendingReads \in Nat, NONE \notin Frames
    PROVE  Spec => IsLossyFifo
<1>1. Init => Fifo!Init
  <2>1. (<<>> \o <<>>) \o <<>> = <<>>
    BY EmptySeq, ConcatEmptySeq
  <2> QED
    BY <2>1 DEF Init, ReaderInit, Fifo!Init, InFlight
<1>2. DeviceInvariant /\ DeviceInvariant' /\ [Next]_vars => [Fifo!Next]_<<InFlight, handed>>
  BY FifoStep
<1> QED
  BY <1>1, <1>2, DeviceSafety, PTL DEF Spec, IsLossyFifo, Fifo!Spec
=============================================================================
