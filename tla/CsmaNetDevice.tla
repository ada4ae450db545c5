--------------------------- MODULE CsmaNetDevice ---------------------------
(***************************************************************************)
(* ns3::CsmaNetDevice with its Backoff and its DropTailQueue, any number   *)
(* of them on one CsmaChannel.                                             *)
(*                                                                         *)
(* The events a device schedules are counted per kind.  Their delays (the  *)
(* backoff, the time to write a frame, the interframe gap) are left out:   *)
(* an event that is scheduled may run at any later point.  What follows    *)
(* therefore holds for all data rates, slot times and random numbers.      *)
(***************************************************************************)
EXTENDS CsmaChannel

CONSTANTS
    Own,           \* per device: the frames it may send
    Dest,          \* the device a frame is for, or BROADCAST
    BROADCAST,
    QueueSize,     \* the queue's MaxSize, in packets
    m_maxRetries,  \* of the class Backoff
    Unsettled      \* the devices that are detached, disabled and so on

ASSUME DeviceAssumption ==
    /\ Own \in [Devices -> SUBSET Frames]
    /\ Dest \in [Frames -> Devices \union {BROADCAST}]
    /\ QueueSize \in Nat \ {0} /\ m_maxRetries \in Nat
    /\ Unsettled \subseteq Devices

VARIABLES
    dev,           \* the devices
    heard,         \* who handed the current frame up (history)
    troubled       \* who was ever detached or disabled (history)

csmaVars == <<channelVars, dev, heard, troubled>>

DeviceType ==
    [m_txMachineState : {"READY", "BUSY", "GAP", "BACKOFF"},
     m_currentPkt : Frames \union {NONE},
     m_queue : Seq(Frames),
     m_numBackoffRetries : Nat,
     m_sendEnable : BOOLEAN, m_receiveEnable : BOOLEAN,
     starts : Nat, completes : Nat, readies : Nat]   \* events scheduled

CsmaInit ==
    /\ ChannelInit
    /\ dev = [d \in Devices |->
                [m_txMachineState |-> "READY", m_currentPkt |-> NONE, m_queue |-> <<>>,
                 m_numBackoffRetries |-> 0, m_sendEnable |-> TRUE, m_receiveEnable |-> TRUE,
                 starts |-> 0, completes |-> 0, readies |-> 0]]
    /\ heard = {} /\ troubled = {}

-----------------------------------------------------------------------------
(* The transmitter.  dv is the device as it is when the function is called. *)

Dequeued(dv) == [dv EXCEPT !.m_currentPkt = Head(dv.m_queue), !.m_queue = Tail(dv.m_queue)]

(* Mutant: the retries are not counted. *)
BackedOffUncounted(dv) ==
    [dv EXCEPT !.m_txMachineState = "BACKOFF", !.starts = @ + 1]

(* Channel busy: TransmitStart is scheduled again. *)
BackedOff(dv) ==
    [dv EXCEPT !.m_txMachineState = "BACKOFF",
               !.m_numBackoffRetries = @ + 1,
               !.starts = @ + 1]

(* Mutant: the next packet is left in the queue. *)
TransmitAbortIdle(dv) ==
    [dv EXCEPT !.m_currentPkt = NONE, !.m_numBackoffRetries = 0, !.m_txMachineState = "READY"]

(* TransmitAbort: the packet is dropped, and the next one of the queue is   *)
(* tried at once.  The channel is still busy: that one backs off or, if     *)
(* there are no retries at all, it is aborted too, and so on.               *)
TransmitAbort(dv) ==
    LET aborted == [dv EXCEPT !.m_currentPkt = NONE,
                              !.m_numBackoffRetries = 0,
                              !.m_txMachineState = "READY"]
    IN  IF dv.m_queue = <<>> \/ m_maxRetries = 0
        THEN [aborted EXCEPT !.m_queue = <<>>]
        ELSE BackedOff(Dequeued(aborted))

(* TransmitStart, called with m_currentPkt set.  A device that may not send *)
(* drops the packet and returns, whatever state it is in.                   *)
TransmitStart(d, dv) ==
    \/ /\ ~dv.m_sendEnable
       /\ dev' = [dev EXCEPT ![d] = [dv EXCEPT !.m_currentPkt = NONE]]
       /\ UNCHANGED <<channelVars, heard>>
    \/ /\ dv.m_sendEnable /\ m_state # IDLE /\ dv.m_numBackoffRetries >= m_maxRetries
       /\ dev' = [dev EXCEPT ![d] = TransmitAbort(dv)]
       /\ UNCHANGED <<channelVars, heard>>
    \/ /\ dv.m_sendEnable /\ m_state # IDLE /\ dv.m_numBackoffRetries < m_maxRetries
       /\ dev' = [dev EXCEPT ![d] = BackedOff(dv)]
       /\ UNCHANGED <<channelVars, heard>>
    \/ /\ dv.m_sendEnable /\ m_state = IDLE /\ ~CanTransmit(d)
       /\ dev' = [dev EXCEPT ![d] = [dv EXCEPT !.m_currentPkt = NONE,
                                               !.m_txMachineState = "READY"]]
       /\ UNCHANGED <<channelVars, heard>>
    \/ /\ dv.m_sendEnable
       /\ ChannelTransmitStart(d, dv.m_currentPkt)
       /\ dev' = [dev EXCEPT ![d] = [dv EXCEPT !.m_numBackoffRetries = 0,
                                               !.m_txMachineState = "BUSY",
                                               !.completes = @ + 1]]
       /\ heard' = {}

(* Mutant: the transmitter is started also while it backs off. *)
CanStartAlways(dv) == dv.m_txMachineState \in {"READY", "BACKOFF"}

CanStart(dv) == dv.m_txMachineState = "READY"

(* Queue::DoEnqueue: a full queue drops the packet. *)
Accepts(queue) == Len(queue) < QueueSize

(* SendFrom: the packet goes to the end of the queue; an idle transmitter   *)
(* starts with the packet at its front.  A send that returns false changes  *)
(* nothing.                                                                 *)
SendFrom(d, frame) ==
    LET dv == [dev[d] EXCEPT !.m_queue = Append(@, frame)]
    IN  /\ dev[d].m_sendEnable
        /\ Accepts(dev[d].m_queue)
        /\ \/ /\ CanStart(dv)
              /\ TransmitStart(d, Dequeued(dv))
           \/ /\ ~CanStart(dv)
              /\ dev' = [dev EXCEPT ![d] = dv]
              /\ UNCHANGED <<channelVars, heard>>
        /\ UNCHANGED troubled

TransmitStartEvent(d) ==
    /\ dev[d].starts > 0
    /\ TransmitStart(d, [dev[d] EXCEPT !.starts = @ - 1])
    /\ UNCHANGED troubled

TransmitCompleteEvent(d) ==
    /\ dev[d].completes > 0
    /\ ChannelTransmitEnd
    /\ dev' = [dev EXCEPT ![d].completes = @ - 1,
                          ![d].m_txMachineState = "GAP",
                          ![d].m_currentPkt = NONE,
                          ![d].readies = @ + 1]
    /\ UNCHANGED <<heard, troubled>>

TransmitReadyEvent(d) ==
    LET dv == [dev[d] EXCEPT !.readies = @ - 1, !.m_txMachineState = "READY"]
    IN  /\ dev[d].readies > 0
        /\ \/ /\ dv.m_queue = <<>>
              /\ dev' = [dev EXCEPT ![d] = dv]
              /\ UNCHANGED <<channelVars, heard>>
           \/ /\ dv.m_queue # <<>>
              /\ TransmitStart(d, Dequeued(dv))
        /\ UNCHANGED troubled

-----------------------------------------------------------------------------
(* The receiver. *)

(* How a device classifies a frame.  Group addresses other than broadcast   *)
(* are left out.                                                            *)
PacketType(d, frame) ==
    CASE Dest[frame] = BROADCAST -> "PACKET_BROADCAST"
      [] Dest[frame] = d -> "PACKET_HOST"
      [] OTHER -> "PACKET_OTHERHOST"

(* Receive: a device ignores its own frame.  A frame that the error model   *)
(* or the checksum rejects, or that comes while the receiver is disabled,   *)
(* is dropped.  The rest goes up if it is for this device.                  *)
Receive(e) ==
    /\ e \in arriving
    /\ arriving' = arriving \ {e}
    /\ \/ UNCHANGED heard
       \/ /\ e.from # e.to /\ dev[e.to].m_receiveEnable
          /\ PacketType(e.to, e.frame) # "PACKET_OTHERHOST"
          /\ heard' = heard \union {e.to}
    /\ UNCHANGED <<m_state, m_currentPkt, m_currentSrc, active, completions, dev, troubled>>

Propagated == PropagationCompleteEvent /\ UNCHANGED <<dev, heard, troubled>>

-----------------------------------------------------------------------------
(* The user takes a device off the network and puts it back. *)

SetSendEnable(d, enable) ==
    /\ dev[d].m_sendEnable # enable
    /\ dev' = [dev EXCEPT ![d].m_sendEnable = enable]
    /\ troubled' = troubled \union {d}
    /\ UNCHANGED <<channelVars, heard>>

SetReceiveEnable(d, enable) ==
    /\ dev[d].m_receiveEnable # enable
    /\ dev' = [dev EXCEPT ![d].m_receiveEnable = enable]
    /\ UNCHANGED <<channelVars, heard, troubled>>

Detach(d) ==
    /\ ChannelDetach(d)
    /\ troubled' = troubled \union {d}
    /\ UNCHANGED <<dev, heard>>

Reattach(d) == ChannelReattach(d) /\ UNCHANGED <<dev, heard, troubled>>

-----------------------------------------------------------------------------
(* The packets a device has accepted and not yet begun to write. *)
Backlog(d) ==
    IF dev[d].m_currentPkt # NONE /\ dev[d].m_txMachineState # "BUSY"
    THEN <<dev[d].m_currentPkt>> \o dev[d].m_queue
    ELSE dev[d].m_queue

Holds(d, frame) == \E i \in DOMAIN Backlog(d) : Backlog(d)[i] = frame

(* A name of a frame is used again once the frame is gone. *)
Unused(d, frame) == ~Holds(d, frame) /\ ~(m_state # IDLE /\ m_currentPkt = frame)

DeviceEvent(d) == TransmitStartEvent(d) \/ TransmitCompleteEvent(d) \/ TransmitReadyEvent(d)

CsmaNext ==
    \/ \E d \in Devices :
         \/ \E frame \in Own[d] : Unused(d, frame) /\ SendFrom(d, frame)
         \/ DeviceEvent(d)
    \/ \E e \in arriving : Receive(e)
    \/ Propagated
    \/ \E d \in Unsettled :
         \/ \E enable \in BOOLEAN : SetSendEnable(d, enable) \/ SetReceiveEnable(d, enable)
         \/ Detach(d) \/ Reattach(d)

CsmaSpec == CsmaInit /\ [][CsmaNext]_csmaVars

(* The engine runs every scheduled event. *)
CsmaFairSpec ==
    /\ CsmaSpec
    /\ \A d \in Devices : WF_csmaVars(DeviceEvent(d))
    /\ WF_csmaVars(\E e \in arriving : Receive(e))
    /\ WF_csmaVars(Propagated)

-----------------------------------------------------------------------------
(* Properties. *)

(* Type invariant of the channel and the devices; a queue keeps its limit.  *)
CsmaTypeOK ==
    /\ m_state \in {IDLE, TRANSMITTING, PROPAGATING}
    /\ m_currentPkt \in Frames \union {NONE} /\ m_currentSrc \in Devices \union {NONE}
    /\ active \in [Devices -> BOOLEAN]
    /\ arriving \subseteq Reception
    /\ completions \in Nat
    /\ dev \in [Devices -> DeviceType]
    /\ \A d \in Devices : Len(dev[d].m_queue) <= QueueSize
    /\ heard \subseteq Devices /\ troubled \subseteq Devices

(* The wire belongs to the device that is BUSY, and to nobody else: carrier *)
(* sense and the start of the transmission are one event, so two devices    *)
(* never write at a time, and the assertions of TransmitCompleteEvent and   *)
(* of PropagationCompleteEvent on the channel's state hold.                 *)
WireOwned ==
    /\ \A d \in Devices :
         /\ dev[d].completes = (IF m_state = TRANSMITTING /\ m_currentSrc = d THEN 1 ELSE 0)
         /\ dev[d].m_txMachineState = "BUSY" <=> dev[d].completes = 1
         /\ dev[d].m_txMachineState = "BUSY" => dev[d].m_currentPkt = m_currentPkt
    /\ completions = (IF m_state = PROPAGATING THEN 1 ELSE 0)

(* A device has at most one event of its transmitter scheduled, the one     *)
(* that takes it out of the state it is in, so that the assertions on       *)
(* m_txMachineState and m_currentPkt hold.  The exception is a device that  *)
(* was disabled while it backed off.                                        *)
OneTransmitterEvent ==
    \A d \in Devices :
        LET dv == dev[d]
        IN  /\ dv.starts = (IF dv.m_txMachineState = "BACKOFF" /\ dv.m_currentPkt # NONE
                            THEN 1 ELSE 0)
            /\ dv.readies = (IF dv.m_txMachineState = "GAP" THEN 1 ELSE 0)
            /\ dv.m_txMachineState \in {"READY", "GAP"} => dv.m_currentPkt = NONE
            /\ dv.m_txMachineState = "BACKOFF" /\ dv.m_currentPkt = NONE => d \in troubled

(* A device that was neither detached nor disabled is never READY with a    *)
(* packet in its queue, and starts every packet with all of its retries.    *)
ReadyMeansDone ==
    \A d \in Devices \ troubled :
        dev[d].m_txMachineState \in {"READY", "BUSY", "GAP"} =>
            /\ dev[d].m_numBackoffRetries = 0
            /\ dev[d].m_txMachineState = "READY" => dev[d].m_queue = <<>>

(* The devices and the channel implement a medium that carries one frame at *)
(* a time, in the order of each device's SendFrom calls.                    *)
Medium == INSTANCE SharedMedium WITH
    Stations <- Devices,
    backlog <- [d \in Devices |-> Backlog(d)],
    phase <- m_state, onAir <- m_currentPkt, sender <- m_currentSrc,
    listeners <- {e.to : e \in arriving}

IsSharedMedium == Medium!Spec

(* No packet is starved: whatever the others send, a packet that SendFrom   *)
(* accepted is written to the wire or dropped after m_maxRetries backoffs.  *)
PacketLeaves ==
    \A d \in Devices : \A frame \in Own[d] :
        Holds(d, frame) ~> (~Holds(d, frame) \/ d \in troubled)
=============================================================================
