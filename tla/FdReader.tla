------------------------------ MODULE FdReader ------------------------------
(***************************************************************************)
(* ns3::FdReader on Unix: a thread that waits in select for a descriptor   *)
(* and for the event pipe, over which Stop wakes it up.  The operators are *)
(* the reader's part of the actions of FdNetDevice.                        *)
(*                                                                         *)
(* m_stop is a bool that both threads use without a lock.  The system      *)
(* calls between its accesses order them, so that each access is a step.   *)
(***************************************************************************)
EXTENDS Integers, Sequences

CONSTANTS
    Frames,        \* names for the frames; a name is used again later
    NONE           \* no frame

VARIABLES
    main,          \* where the main thread is in Stop
    thread,        \* where the read thread is in Run
    m_stop,
    m_evpipe,      \* bytes in the event pipe; CLOSED while there is none
    readfds,       \* what select reported
    kernel,        \* the frames that wait in the descriptor
    hand           \* the frame the read thread has read

readerVars == <<main, thread, m_stop, m_evpipe, readfds, kernel, hand>>

CLOSED == -1
Running == {"select", "drain", "test", "read", "callback", "schedule"}

ReaderInit ==
    /\ main = "idle" /\ thread = "none"
    /\ m_stop = FALSE /\ m_evpipe = CLOSED
    /\ readfds = {} /\ kernel = <<>> /\ hand = NONE

-----------------------------------------------------------------------------
(* The main thread. *)

(* Start: a pipe, and a thread. *)
Start ==
    /\ m_evpipe' = 0
    /\ thread' = "select"
    /\ UNCHANGED <<main, m_stop, readfds, kernel, hand>>

(* Stop, up to its wait for the thread: the flag, then a byte for the pipe. *)
StopFlag ==
    /\ m_stop' = TRUE
    /\ main' = "write"
    /\ UNCHANGED <<thread, m_evpipe, readfds, kernel, hand>>

(* Mutant: the thread is not woken up. *)
StopWriteNothing ==
    /\ main = "write"
    /\ main' = "join"
    /\ UNCHANGED <<thread, m_stop, m_evpipe, readfds, kernel, hand>>

StopWrite ==
    /\ main = "write"
    /\ m_evpipe' = IF m_evpipe = CLOSED THEN CLOSED ELSE m_evpipe + 1
    /\ main' = "join"
    /\ UNCHANGED <<thread, m_stop, readfds, kernel, hand>>

(* The rest of Stop, after the join.  What is left in the descriptor goes   *)
(* when its owner closes it.                                                *)
Stopped(left) ==
    /\ main = "join" /\ thread \in {"none", "done"}
    /\ thread' = "none" /\ m_evpipe' = CLOSED /\ m_stop' = FALSE
    /\ main' = "idle"
    /\ kernel' = left
    /\ UNCHANGED <<readfds, hand>>

-----------------------------------------------------------------------------
(* The read thread, in Run. *)

SelectReturns ==
    /\ thread = "select" /\ (m_evpipe > 0 \/ kernel # <<>>)
    /\ readfds' = (IF m_evpipe > 0 THEN {"pipe"} ELSE {})
                  \union (IF kernel # <<>> THEN {"fd"} ELSE {})
    /\ thread' = "drain"
    /\ UNCHANGED <<main, m_stop, m_evpipe, kernel, hand>>

(* A signal interrupts select, and Run goes on with both descriptors in the *)
(* set; or the input is at its end, and its descriptor is reported.         *)
WokenWithoutData ==
    /\ thread = "select"
    /\ readfds' \in {{"pipe", "fd"}, {"fd"}}
    /\ thread' = "drain"
    /\ UNCHANGED <<main, m_stop, m_evpipe, kernel, hand>>

(* The pipe is read until it is empty; its read end does not block. *)
Drain ==
    /\ thread = "drain"
    /\ m_evpipe' = IF "pipe" \in readfds THEN 0 ELSE m_evpipe
    /\ thread' = "test"
    /\ UNCHANGED <<main, m_stop, readfds, kernel, hand>>

TestStop ==
    /\ thread = "test"
    /\ thread' = IF m_stop THEN "done" ELSE IF "fd" \in readfds THEN "read" ELSE "select"
    /\ UNCHANGED <<main, m_stop, m_evpipe, readfds, kernel, hand>>

(* DoRead blocks as long as there is nothing to read. *)
DoRead ==
    /\ thread = "read" /\ kernel # <<>>
    /\ hand' = Head(kernel) /\ kernel' = Tail(kernel)
    /\ thread' = "callback"
    /\ UNCHANGED <<main, m_stop, m_evpipe, readfds>>

(* The end of the input, or an error, which DoRead reports as the end. *)
DoReadEnds ==
    /\ thread = "read"
    /\ thread' = "done"
    /\ UNCHANGED <<main, m_stop, m_evpipe, readfds, kernel, hand>>
=============================================================================
