---------------------------- MODULE CsmaChannel ----------------------------
(***************************************************************************)
(* ns3::CsmaChannel: the wire.  It is IDLE, TRANSMITTING while a device    *)
(* writes a frame to it, and PROPAGATING until the frame has reached all   *)
(* devices.  The operators are the channel's part of the actions of        *)
(* CsmaNetDevice.                                                          *)
(***************************************************************************)
EXTENDS Integers, Sequences, FiniteSets

CONSTANTS
    Devices,
    Frames,
    NONE           \* no frame, no device

ASSUME ChannelAssumption == NONE \notin Frames /\ NONE \notin Devices

VARIABLES
    m_state,
    m_currentPkt, m_currentSrc,   \* not cleared when the channel gets free
    active,        \* per device: CsmaDeviceRec::active
    arriving,      \* the events CsmaNetDevice::Receive that are scheduled
    completions    \* how many PropagationCompleteEvents are scheduled

channelVars == <<m_state, m_currentPkt, m_currentSrc, active, arriving, completions>>

IDLE == "IDLE"
TRANSMITTING == "TRANSMITTING"
PROPAGATING == "PROPAGATING"

Reception == [to : Devices, frame : Frames, from : Devices]

ChannelInit ==
    /\ m_state = IDLE
    /\ m_currentPkt = NONE /\ m_currentSrc = NONE
    /\ active = [d \in Devices |-> TRUE]
    /\ arriving = {} /\ completions = 0

(* Mutant: the channel is not sensed. *)
CanTransmitAlways(d) == active[d]

(* TransmitStart refuses a frame when the channel is in use or the source   *)
(* is detached.                                                             *)
CanTransmit(d) == m_state = IDLE /\ active[d]

ChannelTransmitStart(d, frame) ==
    /\ CanTransmit(d)
    /\ m_currentPkt' = frame /\ m_currentSrc' = d
    /\ m_state' = TRANSMITTING
    /\ UNCHANGED <<active, arriving, completions>>

(* Mutant: the channel is free as soon as the frame is written. *)
ChannelTransmitEndFree ==
    /\ m_state' = IDLE
    /\ arriving' = arriving \union
         {[to |-> d, frame |-> m_currentPkt, from |-> m_currentSrc] : d \in {e \in Devices : active[e]}}
    /\ UNCHANGED <<m_currentPkt, m_currentSrc, active, completions>>

(* TransmitEnd: one reception for every attached device, the sender's own   *)
(* included, and after them the end of the propagation.  All are scheduled  *)
(* for the same time, so that the engine runs the receptions first.  That   *)
(* the source was detached meanwhile only changes the result, which the     *)
(* device ignores.                                                          *)
ChannelTransmitEnd ==
    /\ m_state' = PROPAGATING
    /\ arriving' = arriving \union
         {[to |-> d, frame |-> m_currentPkt, from |-> m_currentSrc] : d \in {e \in Devices : active[e]}}
    /\ completions' = completions + 1
    /\ UNCHANGED <<m_currentPkt, m_currentSrc, active>>

PropagationCompleteEvent ==
    /\ completions > 0 /\ arriving = {}
    /\ completions' = completions - 1
    /\ m_state' = IDLE
    /\ UNCHANGED <<m_currentPkt, m_currentSrc, active, arriving>>

(* Detach and Reattach mark a device; a frame it is writing goes on.        *)
ChannelDetach(d) ==
    /\ active[d]
    /\ active' = [active EXCEPT ![d] = FALSE]
    /\ UNCHANGED <<m_state, m_currentPkt, m_currentSrc, arriving, completions>>

ChannelReattach(d) ==
    /\ ~active[d]
    /\ active' = [active EXCEPT ![d] = TRUE]
    /\ UNCHANGED <<m_state, m_currentPkt, m_currentSrc, arriving, completions>>
=============================================================================
