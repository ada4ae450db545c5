---------------------------- MODULE FdNetDevice ----------------------------
(***************************************************************************)
(* ns3::FdNetDevice, the receiving side: the read thread of its FdReader   *)
(* puts the frames into a queue and schedules an event for each, and the   *)
(* main thread takes them out in those events.                             *)
(***************************************************************************)
EXTENDS FdReader

CONSTANTS
    KernelSize,    \* frames the operating system keeps for the descriptor
    m_maxPendingReads

VARIABLES
    m_fd,          \* whether the device has a descriptor
    m_fdReader,    \* whether it has a reader
    m_pendingQueue,
    forwards,      \* the events ForwardUp that are scheduled
    handed,        \* history: the last frame handed up
    caller,        \* who called Stop last: "StopDevice" or "DestroyEvent"
    destroyed      \* whether the reader's DestroyEvent ran

vars == <<readerVars, m_fd, m_fdReader, m_pendingQueue, forwards, handed, caller, destroyed>>

Init ==
    /\ ReaderInit
    /\ m_fd = FALSE /\ m_fdReader = FALSE
    /\ m_pendingQueue = <<>> /\ forwards = 0
    /\ handed = NONE
    /\ caller = "StopDevice" /\ destroyed = FALSE

-----------------------------------------------------------------------------
(* The main thread, in events and in Simulator::Destroy. *)

SetFileDescriptor ==
    /\ main = "idle" /\ ~destroyed
    /\ ~m_fd
    /\ m_fd' = TRUE
    /\ UNCHANGED <<readerVars, m_fdReader, m_pendingQueue, forwards, handed, caller, destroyed>>

(* The program starts a device only once before it stops it. *)
StartDevice ==
    /\ main = "idle" /\ ~destroyed
    /\ m_fd /\ ~m_fdReader
    /\ m_fdReader' = TRUE
    /\ Start
    /\ UNCHANGED <<m_fd, m_pendingQueue, forwards, handed, caller, destroyed>>

(* Mutant: the descriptor is closed before the reader is stopped. *)
StopDeviceCloses ==
    /\ main = "idle" /\ m_fdReader
    /\ StopFlag
    /\ caller' = "StopDevice" /\ m_fd' = FALSE
    /\ UNCHANGED <<m_fdReader, m_pendingQueue, forwards, handed, destroyed>>

(* StopDevice, in an event or in DoDispose, with a reader. *)
StopDevice ==
    /\ main = "idle" /\ m_fdReader
    /\ StopFlag
    /\ caller' = "StopDevice"
    /\ UNCHANGED <<m_fd, m_fdReader, m_pendingQueue, forwards, handed, destroyed>>

(* StopDevice of a device that was not started. *)
StopDeviceUnstarted ==
    /\ main = "idle" /\ ~m_fdReader /\ m_fd
    /\ m_fd' = FALSE /\ kernel' = <<>>
    /\ UNCHANGED <<main, thread, m_stop, m_evpipe, readfds, hand, m_fdReader,
                   m_pendingQueue, forwards, handed, caller, destroyed>>

(* FdReader::DestroyEvent stops the reader, before or after the device. *)
DestroyEvent ==
    /\ main = "idle" /\ m_fdReader /\ ~destroyed
    /\ destroyed' = TRUE /\ caller' = "DestroyEvent"
    /\ StopFlag
    /\ UNCHANGED <<m_fd, m_fdReader, m_pendingQueue, forwards, handed>>

WakeThread ==
    /\ StopWrite
    /\ UNCHANGED <<m_fd, m_fdReader, m_pendingQueue, forwards, handed, caller, destroyed>>

(* Mutant: what was read is thrown away with the reader. *)
StopDeviceReturnsClean ==
    /\ caller = "StopDevice"
    /\ Stopped(<<>>)
    /\ m_fd' = FALSE /\ m_fdReader' = FALSE
    /\ m_pendingQueue' = <<>>
    /\ UNCHANGED <<forwards, handed, caller, destroyed>>

(* StopDevice closes the descriptor; what was read stays in the queue, with *)
(* the events that take it out.                                             *)
StopDeviceReturns ==
    /\ caller = "StopDevice"
    /\ Stopped(<<>>)
    /\ m_fd' = FALSE /\ m_fdReader' = FALSE
    /\ UNCHANGED <<m_pendingQueue, forwards, handed, caller, destroyed>>

(* DestroyEvent leaves the descriptor open and the device's pointer set:    *)
(* DoDispose will stop the reader again.                                    *)
DestroyEventReturns ==
    /\ caller = "DestroyEvent"
    /\ Stopped(kernel)
    /\ UNCHANGED <<m_fd, m_fdReader, m_pendingQueue, forwards, handed, caller, destroyed>>

(* The engine runs no event any more once Simulator::Destroy was called. *)
ForwardUp ==
    /\ main = "idle" /\ ~destroyed /\ forwards > 0
    /\ forwards' = forwards - 1
    /\ handed' = Head(m_pendingQueue)
    /\ m_pendingQueue' = Tail(m_pendingQueue)
    /\ UNCHANGED <<readerVars, m_fd, m_fdReader, caller, destroyed>>

-----------------------------------------------------------------------------
(* The read thread. *)

ReaderProceeds ==
    /\ SelectReturns \/ Drain \/ TestStop \/ DoRead
    /\ UNCHANGED <<m_fd, m_fdReader, m_pendingQueue, forwards, handed, caller, destroyed>>

ReaderDisturbed ==
    /\ WokenWithoutData \/ DoReadEnds
    /\ UNCHANGED <<m_fd, m_fdReader, m_pendingQueue, forwards, handed, caller, destroyed>>

(* Mutant: a full queue makes the thread wait. *)
ReceiveCallbackWaits ==
    /\ thread = "callback"
    /\ Len(m_pendingQueue) < m_maxPendingReads
    /\ m_pendingQueue' = Append(m_pendingQueue, hand)
    /\ thread' = "schedule"
    /\ hand' = NONE
    /\ UNCHANGED <<main, m_stop, m_evpipe, readfds, kernel, m_fd, m_fdReader,
                   forwards, handed, caller, destroyed>>

(* Mutant: the newest frame goes to the front. *)
ReceiveCallbackLifo ==
    /\ thread = "callback"
    /\ \/ /\ Len(m_pendingQueue) >= m_maxPendingReads
          /\ thread' = "select" /\ UNCHANGED m_pendingQueue
       \/ /\ Len(m_pendingQueue) < m_maxPendingReads
          /\ m_pendingQueue' = <<hand>> \o m_pendingQueue
          /\ thread' = "schedule"
    /\ hand' = NONE
    /\ UNCHANGED <<main, m_stop, m_evpipe, readfds, kernel, m_fd, m_fdReader,
                   forwards, handed, caller, destroyed>>

(* ReceiveCallback, with the mutex of the queue: a frame that finds the     *)
(* queue full is dropped.                                                   *)
ReceiveCallback ==
    /\ thread = "callback"
    /\ \/ /\ Len(m_pendingQueue) >= m_maxPendingReads
          /\ thread' = "select" /\ UNCHANGED m_pendingQueue
       \/ /\ Len(m_pendingQueue) < m_maxPendingReads
          /\ m_pendingQueue' = Append(m_pendingQueue, hand)
          /\ thread' = "schedule"
    /\ hand' = NONE
    /\ UNCHANGED <<main, m_stop, m_evpipe, readfds, kernel, m_fd, m_fdReader,
                   forwards, handed, caller, destroyed>>

(* ReceiveCallback, after the mutex: ScheduleWithContext. *)
ScheduleForwardUp ==
    /\ thread = "schedule"
    /\ forwards' = forwards + 1
    /\ thread' = "select"
    /\ UNCHANGED <<main, m_stop, m_evpipe, readfds, kernel, hand, m_fd, m_fdReader,
                   m_pendingQueue, handed, caller, destroyed>>

-----------------------------------------------------------------------------
(* The frames on their way up, oldest first. *)
InFlight == m_pendingQueue \o (IF hand = NONE THEN <<>> ELSE <<hand>>) \o kernel

(* A frame arrives; a full descriptor drops it. *)
Arrive(frame) ==
    /\ m_fd
    /\ \A i \in DOMAIN InFlight : InFlight[i] # frame
    /\ kernel' = IF Len(kernel) < KernelSize THEN Append(kernel, frame) ELSE kernel
    /\ UNCHANGED <<main, thread, m_stop, m_evpipe, readfds, hand, m_fd, m_fdReader,
                   m_pendingQueue, forwards, handed, caller, destroyed>>

ReaderStep == ReaderProceeds \/ ReceiveCallback \/ ScheduleForwardUp
MainStep == WakeThread \/ StopDeviceReturns \/ DestroyEventReturns

(* The device is disposed of. *)
Disposed == destroyed /\ ~m_fd /\ UNCHANGED vars

Next ==
    \/ SetFileDescriptor \/ StartDevice
    \/ StopDevice \/ StopDeviceUnstarted \/ DestroyEvent
    \/ MainStep \/ ForwardUp
    \/ ReaderStep \/ ReaderDisturbed
    \/ \E frame \in Frames : Arrive(frame)
    \/ Disposed

Spec == Init /\ [][Next]_vars

(* Both threads keep running.  Nothing is said of the outside: signals and  *)
(* the end of the input come or do not come.                                *)
FairSpec ==
    /\ Spec
    /\ WF_vars(MainStep)
    /\ WF_vars(ReaderStep)

-----------------------------------------------------------------------------
(* Properties. *)

(* Type invariant of the reader and the device; the queue keeps its limit.  *)
TypeOK ==
    /\ main \in {"idle", "write", "join"}
    /\ thread \in Running \union {"none", "done"}
    /\ m_stop \in BOOLEAN /\ m_evpipe \in Nat \union {CLOSED}
    /\ readfds \subseteq {"pipe", "fd"}
    /\ kernel \in Seq(Frames) /\ hand \in Frames \union {NONE}
    /\ m_fd \in BOOLEAN /\ m_fdReader \in BOOLEAN /\ destroyed \in BOOLEAN
    /\ caller \in {"StopDevice", "DestroyEvent"}
    /\ m_pendingQueue \in Seq(Frames) /\ Len(m_pendingQueue) <= m_maxPendingReads
    /\ forwards \in Nat

(* Stop sets m_stop before it writes to the pipe, and Run tests m_stop      *)
(* after it has emptied the pipe: the thread is never left in select while  *)
(* Stop waits for it with nothing in the pipe to wake it up.                *)
NoLostStop ==
    main = "join" /\ thread \in Running =>
        m_stop /\ (m_evpipe > 0 \/ thread = "test" \/ (thread = "drain" /\ "pipe" \in readfds))

(* There is one event for every frame in the queue, also across StopDevice  *)
(* and a new start: ForwardUp never takes from an empty queue, and no frame *)
(* stays behind in it.                                                      *)
OneEventPerFrame ==
    Len(m_pendingQueue) = forwards + (IF thread = "schedule" THEN 1 ELSE 0)

(* The thread runs only while the device has a reader, with its descriptor  *)
(* and its pipe open and before the reader's DestroyEvent is over: it never *)
(* uses a descriptor that was closed and may belong to somebody else by     *)
(* then.                                                                    *)
ThreadContained ==
    thread \in Running =>
        /\ m_fd /\ m_fdReader /\ m_evpipe # CLOSED
        /\ destroyed => main # "idle"

(* What the device hands up are frames from the descriptor in their order,  *)
(* none of them twice, though some may be lost.                             *)
Fifo == INSTANCE LossyFifo WITH flight <- InFlight, out <- handed

IsLossyFifo == Fifo!Spec

(* Stop returns, however many frames arrive and whether or not the queue is *)
(* full.  The exception is a thread that was woken without data: it is in a *)
(* read that blocks until the next frame.                                   *)
StopReturns ==
    (main = "join") ~> (main = "idle" \/ (thread = "read" /\ kernel = <<>>))
=============================================================================
