--------------------------- MODULE NetworkProofs ---------------------------
(***************************************************************************)
(* Safety of the network's protocols: the CSMA network and ARP.            *)
(***************************************************************************)
EXTENDS CsmaNetDevice, ArpL3Protocol, TLAPS

-----------------------------------------------------------------------------
(***************************************************************************)
(* The CSMA network is safe and implements SharedMedium, for any number of *)
(* devices, frames and retries and any size of the queues.                 *)
(*                                                                         *)
(* The inductive invariant says of each device, seen from the channel, in  *)
(* which states its transmitter may be (CsmaGood). An action changes one   *)
(* device or the channel. Most of them end in TransmitStart, which gets a  *)
(* lemma of its own: it takes a device that has a packet and no event      *)
(* (Starting) back to a good one.                                          *)
(*                                                                         *)
(* For the refinement, the packets a device has accepted and not begun to  *)
(* write are its backlog. TransmitStart drops some of the oldest ones      *)
(* (none, one, or all if there are no retries) and perhaps puts the next   *)
(* on the wire, which is an Advance of the device. The events of the       *)
(* channel are Carried, Reach and Free.                                    *)
(***************************************************************************)

(* The device d, whose fields are dv. *)
Transmitter(d, dv) ==
    /\ dv.completes = (IF m_state = TRANSMITTING /\ m_currentSrc = d THEN 1 ELSE 0)
    /\ dv.m_txMachineState = "BUSY" <=> dv.completes = 1
    /\ dv.m_txMachineState = "BUSY" => dv.m_currentPkt = m_currentPkt /\ m_currentPkt # NONE
    /\ dv.starts = (IF dv.m_txMachineState = "BACKOFF" /\ dv.m_currentPkt # NONE THEN 1 ELSE 0)
    /\ dv.readies = (IF dv.m_txMachineState = "GAP" THEN 1 ELSE 0)
    /\ dv.m_txMachineState \in {"READY", "GAP"} => dv.m_currentPkt = NONE

(* A device that was neither detached nor disabled. *)
Undisturbed(d, dv) ==
    d \notin troubled =>
        /\ dv.m_sendEnable /\ active[d]
        /\ dv.m_txMachineState = "BACKOFF" => dv.m_currentPkt # NONE
        /\ dv.m_txMachineState # "BACKOFF" => dv.m_numBackoffRetries = 0
        /\ dv.m_txMachineState = "READY" => dv.m_queue = <<>>

CsmaGood(d, dv) ==
    /\ dv \in DeviceType /\ Len(dv.m_queue) <= QueueSize
    /\ Transmitter(d, dv)
    /\ Undisturbed(d, dv)

(* The channel: frames arrive only while the last one propagates. *)
ChannelInv ==
    /\ m_state \in {IDLE, TRANSMITTING, PROPAGATING}
    /\ m_currentPkt \in Frames \union {NONE} /\ m_currentSrc \in Devices \union {NONE}
    /\ active \in [Devices -> BOOLEAN]
    /\ arriving \subseteq Reception
    /\ completions = (IF m_state = PROPAGATING THEN 1 ELSE 0)
    /\ m_state # PROPAGATING => arriving = {}
    /\ \A e \in arriving : e.frame = m_currentPkt /\ e.from = m_currentSrc
    /\ heard \subseteq Devices /\ troubled \subseteq Devices

CsmaInv ==
    /\ ChannelInv
    /\ dev \in [Devices -> DeviceType]
    /\ \A d \in Devices : CsmaGood(d, dev[d])

(* What TransmitStart expects: a packet and no event. *)
Starting(d, dv) ==
    /\ dv \in DeviceType /\ Len(dv.m_queue) <= QueueSize
    /\ dv.m_currentPkt \in Frames
    /\ dv.m_txMachineState \in {"READY", "BACKOFF"}
    /\ dv.starts = 0 /\ dv.completes = 0 /\ dv.readies = 0
    /\ d \notin troubled =>
         /\ dv.m_sendEnable /\ active[d]
         /\ dv.m_txMachineState = "READY" => dv.m_numBackoffRetries = 0

-----------------------------------------------------------------------------
(* The inductive invariant implies the invariants the runs check. *)
LEMMA CsmaInvImplies == CsmaInv => CsmaTypeOK /\ WireOwned /\ OneTransmitterEvent /\ ReadyMeansDone
<1> SUFFICES ASSUME CsmaInv PROVE CsmaTypeOK /\ WireOwned /\ OneTransmitterEvent /\ ReadyMeansDone
    OBVIOUS
<1>1. CsmaTypeOK
    <2>1. completions \in Nat
        BY DEF CsmaInv, ChannelInv
    <2>2. \A d \in Devices : Len(dev[d].m_queue) <= QueueSize
        BY DEF CsmaInv, CsmaGood
    <2> QED BY <2>1, <2>2 DEF CsmaInv, ChannelInv, CsmaTypeOK
<1>2. WireOwned
    BY DEF CsmaInv, ChannelInv, CsmaGood, Transmitter, WireOwned
<1>3. OneTransmitterEvent
    BY DEF CsmaInv, CsmaGood, Transmitter, Undisturbed, OneTransmitterEvent
<1>4. ReadyMeansDone
    BY DEF CsmaInv, CsmaGood, Undisturbed, ReadyMeansDone
<1> QED BY <1>1, <1>2, <1>3, <1>4

(* A device that is not the one that changes stays good, as long as the     *)
(* channel does not become free or taken for it.                            *)
LEMMA OthersGood ==
    ASSUME NEW d \in Devices, CsmaGood(d, dev[d]), dev'[d] = dev[d],
           active'[d] = active[d], d \in troubled => d \in troubled',
           \/ m_state' = m_state /\ m_currentSrc' = m_currentSrc /\ m_currentPkt' = m_currentPkt
           \/ m_currentSrc # d /\ m_currentSrc' # d
           \/ m_state # TRANSMITTING /\ m_state' # TRANSMITTING
    PROVE  CsmaGood(d, dev[d])'
<1>1. Transmitter(d, dev[d])'
    BY DEF CsmaGood, Transmitter, DeviceType
<1>2. Undisturbed(d, dev[d])'
    BY DEF CsmaGood, Undisturbed
<1> QED BY <1>1, <1>2 DEF CsmaGood

(* A step that changes one device into a good one, and not the channel. *)
LEMMA DeviceChanges ==
    ASSUME CsmaInv, NEW d \in Devices, NEW nv, CsmaGood(d, nv), dev' = [dev EXCEPT ![d] = nv],
           UNCHANGED <<channelVars, heard, troubled>>
    PROVE  CsmaInv'
<1> USE DEF CsmaInv
<1>1. dev' \in [Devices -> DeviceType] /\ dev'[d] = nv
    BY DEF CsmaGood
<1>2. ChannelInv'
    BY DEF ChannelInv, channelVars
<1>3. CsmaGood(d, dev[d])'
    BY <1>1 DEF CsmaGood, Transmitter, Undisturbed, channelVars
<1>4. ASSUME NEW e \in Devices, e # d PROVE CsmaGood(e, dev[e])'
    <2>1. dev'[e] = dev[e] /\ active'[e] = active[e]
        BY <1>4 DEF channelVars
    <2> QED BY <2>1, OthersGood DEF channelVars
<1> QED BY <1>1, <1>2, <1>3, <1>4

LEMMA CsmaInitInv == CsmaInit => CsmaInv
BY DeviceAssumption DEF CsmaInit, ChannelInit, CsmaInv, ChannelInv, CsmaGood, Transmitter, Undisturbed,
    DeviceType, IDLE, TRANSMITTING, PROPAGATING

-----------------------------------------------------------------------------
(* TransmitStart and what it is made of. *)

(* The packet at the front of the queue becomes the current one. *)
LEMMA DequeuedType ==
    ASSUME NEW dv \in DeviceType, dv.m_queue # <<>>, Len(dv.m_queue) <= QueueSize
    PROVE  /\ Dequeued(dv) \in DeviceType
           /\ Dequeued(dv).m_currentPkt \in Frames
           /\ Len(Dequeued(dv).m_queue) <= QueueSize
<1>1. dv.m_queue \in Seq(Frames) /\ Len(dv.m_queue) \in Nat \ {0}
    BY DEF DeviceType
<1>2. Head(dv.m_queue) \in Frames /\ Tail(dv.m_queue) \in Seq(Frames)
    BY <1>1
<1>3. Len(Tail(dv.m_queue)) <= QueueSize
    BY <1>1, DeviceAssumption
<1> QED BY <1>2, <1>3 DEF Dequeued, DeviceType

(* A packet that cannot be sent now waits, with one event. *)
LEMMA BackedOffGood ==
    ASSUME NEW d \in Devices, NEW dv, Starting(d, dv), m_state # IDLE,
           ~(m_state = TRANSMITTING /\ m_currentSrc = d)
    PROVE  CsmaGood(d, BackedOff(dv))
<1> DEFINE nv == BackedOff(dv)
<1>a. dv.m_numBackoffRetries + 1 \in Nat /\ dv.starts + 1 \in Nat
    BY DEF Starting, DeviceType
<1>b. nv \in DeviceType
    BY <1>a DEF Starting, BackedOff, DeviceType
<1>1. /\ nv.m_txMachineState = "BACKOFF" /\ nv.starts = 1
      /\ nv.completes = 0 /\ nv.readies = 0
      /\ nv.m_currentPkt = dv.m_currentPkt /\ nv.m_queue = dv.m_queue
      /\ nv.m_sendEnable = dv.m_sendEnable
    BY DEF Starting, BackedOff, DeviceType
<1> HIDE DEF nv
<1>2. Transmitter(d, nv)
    BY <1>1, ChannelAssumption DEF Starting, Transmitter
<1>3. Undisturbed(d, nv)
    BY <1>1, ChannelAssumption DEF Starting, Undisturbed
<1> QED BY <1>b, <1>1, <1>2, <1>3 DEF Starting, CsmaGood, nv

LEMMA TransmitAbortGood ==
    ASSUME NEW d \in Devices, NEW dv, Starting(d, dv), m_state # IDLE,
           ~(m_state = TRANSMITTING /\ m_currentSrc = d)
    PROVE  CsmaGood(d, TransmitAbort(dv))
<1> DEFINE aborted == [dv EXCEPT !.m_currentPkt = NONE, !.m_numBackoffRetries = 0,
                                 !.m_txMachineState = "READY"]
<1>1. CASE dv.m_queue = <<>> \/ m_maxRetries = 0
    <2>1. TransmitAbort(dv) = [aborted EXCEPT !.m_queue = <<>>]
        BY <1>1 DEF TransmitAbort
    <2> DEFINE nv == TransmitAbort(dv)
    <2>a. aborted \in DeviceType
        BY DEF Starting, DeviceType
    <2>b. <<>> \in Seq(Frames)
        OBVIOUS
    <2>c. nv \in DeviceType
        BY <2>1, <2>a, <2>b DEF DeviceType
    <2>2. /\ nv.m_txMachineState = "READY" /\ nv.m_currentPkt = NONE /\ nv.m_queue = <<>>
          /\ nv.starts = 0 /\ nv.completes = 0 /\ nv.readies = 0
          /\ nv.m_numBackoffRetries = 0 /\ nv.m_sendEnable = dv.m_sendEnable
        BY <2>1 DEF Starting, DeviceType
    <2> HIDE DEF nv
    <2>3. Transmitter(d, nv) /\ Undisturbed(d, nv)
        BY <2>2 DEF Starting, Transmitter, Undisturbed
    <2> QED BY <2>c, <2>2, <2>3, DeviceAssumption DEF CsmaGood, nv
<1>2. CASE ~(dv.m_queue = <<>> \/ m_maxRetries = 0)
    <2>1. TransmitAbort(dv) = BackedOff(Dequeued(aborted))
        BY <1>2 DEF TransmitAbort
    <2>2. aborted \in DeviceType /\ aborted.m_queue = dv.m_queue
        BY DEF Starting, DeviceType
    <2>3. Starting(d, Dequeued(aborted))
        <3>1. /\ Dequeued(aborted) \in DeviceType
              /\ Dequeued(aborted).m_currentPkt \in Frames
              /\ Len(Dequeued(aborted).m_queue) <= QueueSize
            BY <1>2, <2>2, DequeuedType DEF Starting
        <3> QED BY <3>1 DEF Starting, Dequeued, DeviceType
    <2> QED BY <2>1, <2>3, BackedOffGood
<1> QED BY <1>1, <1>2

(* TransmitStart keeps the invariant. *)
LEMMA TransmitStartInv ==
    ASSUME CsmaInv, NEW d \in Devices, NEW dv, Starting(d, dv),
           ~(m_state = TRANSMITTING /\ m_currentSrc = d),
           TransmitStart(d, dv), UNCHANGED troubled
    PROVE  CsmaInv'
<1> USE DEF CsmaInv
<1>1. CASE ~dv.m_sendEnable
    <2> DEFINE nv == [dv EXCEPT !.m_currentPkt = NONE]
    <2>1. /\ nv \in DeviceType
          /\ nv.m_txMachineState = dv.m_txMachineState /\ nv.m_currentPkt = NONE
          /\ nv.starts = 0 /\ nv.completes = 0 /\ nv.readies = 0 /\ nv.m_queue = dv.m_queue
        BY DEF Starting, DeviceType
    <2>2. dev' = [dev EXCEPT ![d] = nv] /\ UNCHANGED <<channelVars, heard>>
        BY <1>1 DEF TransmitStart
    <2> HIDE DEF nv
    <2>3. CsmaGood(d, nv)
        BY <1>1, <2>1 DEF Starting, CsmaGood, Transmitter, Undisturbed
    <2> QED BY <2>2, <2>3, DeviceChanges
<1>2. CASE dv.m_sendEnable /\ m_state # IDLE /\ dv.m_numBackoffRetries >= m_maxRetries
    <2>1. dev' = [dev EXCEPT ![d] = TransmitAbort(dv)] /\ UNCHANGED <<channelVars, heard>>
        BY <1>2, DeviceAssumption DEF TransmitStart, ChannelTransmitStart, CanTransmit, Starting, DeviceType
    <2> QED BY <1>2, <2>1, TransmitAbortGood, DeviceChanges
<1>3. CASE dv.m_sendEnable /\ m_state # IDLE /\ dv.m_numBackoffRetries < m_maxRetries
    <2>1. dev' = [dev EXCEPT ![d] = BackedOff(dv)] /\ UNCHANGED <<channelVars, heard>>
        BY <1>3, DeviceAssumption DEF TransmitStart, ChannelTransmitStart, CanTransmit, Starting, DeviceType
    <2> QED BY <1>3, <2>1, BackedOffGood, DeviceChanges
<1>4. CASE dv.m_sendEnable /\ m_state = IDLE /\ ~CanTransmit(d)
    <2> DEFINE nv == [dv EXCEPT !.m_currentPkt = NONE, !.m_txMachineState = "READY"]
    <2>1. /\ nv \in DeviceType
          /\ nv.m_txMachineState = "READY" /\ nv.m_currentPkt = NONE
          /\ nv.starts = 0 /\ nv.completes = 0 /\ nv.readies = 0 /\ nv.m_queue = dv.m_queue
        BY DEF Starting, DeviceType
    <2>2. dev' = [dev EXCEPT ![d] = nv] /\ UNCHANGED <<channelVars, heard>>
        BY <1>4 DEF TransmitStart, ChannelTransmitStart
    <2>3. d \in troubled
        BY <1>4 DEF Starting, CanTransmit
    <2> HIDE DEF nv
    <2>4. CsmaGood(d, nv)
        BY <2>1, <2>3 DEF Starting, CsmaGood, Transmitter, Undisturbed
    <2> QED BY <2>2, <2>4, DeviceChanges
<1>5. CASE dv.m_sendEnable /\ m_state = IDLE /\ CanTransmit(d)
    <2> DEFINE nv == [dv EXCEPT !.m_numBackoffRetries = 0, !.m_txMachineState = "BUSY",
                                !.completes = @ + 1]
    <2>1. /\ dev' = [dev EXCEPT ![d] = nv] /\ heard' = {}
          /\ ChannelTransmitStart(d, dv.m_currentPkt)
        BY <1>5 DEF TransmitStart
    <2>a. dv.completes + 1 \in Nat
        BY DEF Starting
    <2>b. nv \in DeviceType
        BY <2>a DEF Starting, DeviceType
    <2>2. /\ nv.m_txMachineState = "BUSY" /\ nv.m_currentPkt = dv.m_currentPkt
          /\ nv.starts = 0 /\ nv.completes = 1 /\ nv.readies = 0 /\ nv.m_queue = dv.m_queue
          /\ nv.m_numBackoffRetries = 0 /\ nv.m_sendEnable = dv.m_sendEnable
        BY DEF Starting, DeviceType
    <2> HIDE DEF nv
    <2>3. dev' \in [Devices -> DeviceType] /\ dev'[d] = nv
        BY <2>1, <2>b
    <2>4. ChannelInv'
        BY <1>5, <2>1 DEF ChannelInv, ChannelTransmitStart, Starting, IDLE, TRANSMITTING, PROPAGATING
    <2>5. CsmaGood(d, dev[d])'
        BY <2>1, <2>b, <2>2, <2>3, ChannelAssumption
        DEF Starting, CsmaGood, Transmitter, Undisturbed, ChannelTransmitStart
    <2>6. ASSUME NEW e \in Devices, e # d PROVE CsmaGood(e, dev[e])'
        <3>1. /\ dev'[e] = dev[e] /\ active'[e] = active[e]
              /\ m_currentSrc' # e /\ m_state' = TRANSMITTING /\ m_state = IDLE
            BY <1>5, <2>1, <2>6 DEF ChannelTransmitStart
        <3>2. Transmitter(e, dev[e])'
            BY <3>1 DEF CsmaGood, Transmitter, DeviceType, IDLE, TRANSMITTING
        <3> QED BY <3>1, <3>2 DEF CsmaGood, Undisturbed
    <2> QED BY <2>3, <2>4, <2>5, <2>6
<1>6. dv.m_sendEnable \in BOOLEAN /\ dv.m_numBackoffRetries \in Nat
    BY DEF Starting, DeviceType
<1>7. dv.m_numBackoffRetries >= m_maxRetries \/ dv.m_numBackoffRetries < m_maxRetries
    BY <1>6, DeviceAssumption
<1> QED BY <1>1, <1>2, <1>3, <1>4, <1>5, <1>7

-----------------------------------------------------------------------------
(* One lemma per action. *)

LEMMA SendFromInv ==
    ASSUME CsmaInv, NEW d \in Devices, NEW frame \in Frames, SendFrom(d, frame)
    PROVE  CsmaInv'
<1> DEFINE dv == [dev[d] EXCEPT !.m_queue = Append(@, frame)]
<1>1. CsmaGood(d, dev[d]) /\ dev[d] \in DeviceType
    BY DEF CsmaInv, CsmaGood
<1>2. dev[d].m_queue \in Seq(Frames) /\ Len(dev[d].m_queue) < QueueSize
    BY <1>1 DEF SendFrom, Accepts, DeviceType
<1>3. /\ Append(dev[d].m_queue, frame) \in Seq(Frames)
      /\ Append(dev[d].m_queue, frame) # <<>>
      /\ Len(Append(dev[d].m_queue, frame)) <= QueueSize
    <2> DEFINE q == dev[d].m_queue
    <2>1. q \in Seq(Frames) /\ Len(q) \in Nat /\ Len(q) + 1 <= QueueSize
        BY <1>2, DeviceAssumption
    <2> HIDE DEF q
    <2>2. Append(q, frame) \in Seq(Frames) /\ Len(Append(q, frame)) = Len(q) + 1
        BY <2>1
    <2>3. Append(q, frame) # <<>>
        BY <2>1, <2>2
    <2> QED BY <2>1, <2>2, <2>3 DEF q
<1>4. dv \in DeviceType
    BY <1>1, <1>3 DEF DeviceType
<1>5. /\ dv.m_queue = Append(dev[d].m_queue, frame)
      /\ dv.m_txMachineState = dev[d].m_txMachineState
      /\ dv.m_currentPkt = dev[d].m_currentPkt
      /\ dv.m_numBackoffRetries = dev[d].m_numBackoffRetries
      /\ dv.m_sendEnable = dev[d].m_sendEnable
      /\ dv.starts = dev[d].starts /\ dv.completes = dev[d].completes
      /\ dv.readies = dev[d].readies
    BY <1>1 DEF DeviceType
<1>6. UNCHANGED troubled
    BY DEF SendFrom
<1>7. /\ CanStart(dv) => TransmitStart(d, Dequeued(dv))
      /\ ~CanStart(dv) => dev' = [dev EXCEPT ![d] = dv] /\ UNCHANGED <<channelVars, heard>>
    BY DEF SendFrom
<1> HIDE DEF dv
<1>8. CASE CanStart(dv)
    <2>1. /\ Dequeued(dv) \in DeviceType
          /\ Dequeued(dv).m_currentPkt \in Frames
          /\ Len(Dequeued(dv).m_queue) <= QueueSize
        BY <1>3, <1>4, <1>5, DequeuedType
    <2>2. Starting(d, Dequeued(dv)) /\ ~(m_state = TRANSMITTING /\ m_currentSrc = d)
        BY <1>1, <1>4, <1>5, <1>8, <2>1
        DEF CsmaGood, Transmitter, Undisturbed, Starting, Dequeued, CanStart, DeviceType
    <2> QED BY <1>6, <1>7, <1>8, <2>2, TransmitStartInv
<1>9. CASE ~CanStart(dv)
    <2>1. CsmaGood(d, dv)
        BY <1>1, <1>3, <1>4, <1>5, <1>9 DEF CsmaGood, Transmitter, Undisturbed, CanStart
    <2>2. dev' = [dev EXCEPT ![d] = dv] /\ UNCHANGED <<channelVars, heard, troubled>>
        BY <1>6, <1>7, <1>9
    <2> QED BY <2>1, <2>2, DeviceChanges
<1> QED BY <1>8, <1>9

LEMMA TransmitStartEventInv ==
    ASSUME CsmaInv, NEW d \in Devices, TransmitStartEvent(d)
    PROVE  CsmaInv'
<1> DEFINE dv == [dev[d] EXCEPT !.starts = @ - 1]
<1>1. CsmaGood(d, dev[d]) /\ dev[d] \in DeviceType
    BY DEF CsmaInv, CsmaGood
<1>2. /\ dev[d].m_txMachineState = "BACKOFF" /\ dev[d].m_currentPkt # NONE
      /\ dev[d].starts = 1 /\ dev[d].completes = 0 /\ dev[d].readies = 0
      /\ ~(m_state = TRANSMITTING /\ m_currentSrc = d)
    BY <1>1 DEF CsmaGood, Transmitter, TransmitStartEvent, DeviceType
<1>3. dev[d].starts - 1 = 0
    BY <1>2
<1>4. dv \in DeviceType
    BY <1>1, <1>3 DEF DeviceType
<1>5. /\ dv.starts = 0 /\ dv.completes = 0 /\ dv.readies = 0
      /\ dv.m_txMachineState = "BACKOFF" /\ dv.m_queue = dev[d].m_queue
      /\ dv.m_currentPkt = dev[d].m_currentPkt /\ dv.m_sendEnable = dev[d].m_sendEnable
    BY <1>1, <1>2, <1>3 DEF DeviceType
<1>6. TransmitStart(d, dv) /\ UNCHANGED troubled
    BY DEF TransmitStartEvent
<1> HIDE DEF dv
<1>7. Starting(d, dv)
    BY <1>1, <1>2, <1>4, <1>5 DEF CsmaGood, Undisturbed, Starting, DeviceType
<1> QED BY <1>2, <1>6, <1>7, TransmitStartInv

LEMMA TransmitReadyEventInv ==
    ASSUME CsmaInv, NEW d \in Devices, TransmitReadyEvent(d)
    PROVE  CsmaInv'
<1> DEFINE dv == [dev[d] EXCEPT !.readies = @ - 1, !.m_txMachineState = "READY"]
<1>1. CsmaGood(d, dev[d]) /\ dev[d] \in DeviceType
    BY DEF CsmaInv, CsmaGood
<1>2. /\ dev[d].m_txMachineState = "GAP" /\ dev[d].m_currentPkt = NONE
      /\ dev[d].starts = 0 /\ dev[d].completes = 0 /\ dev[d].readies = 1
      /\ ~(m_state = TRANSMITTING /\ m_currentSrc = d)
    BY <1>1 DEF CsmaGood, Transmitter, TransmitReadyEvent, DeviceType
<1>3. dev[d].readies - 1 = 0 /\ dev[d].readies - 1 \in Nat
    BY <1>2
<1>4. dv \in DeviceType
    BY <1>1, <1>3 DEF DeviceType
<1>5. /\ dv.starts = 0 /\ dv.completes = 0 /\ dv.readies = 0
      /\ dv.m_txMachineState = "READY" /\ dv.m_queue = dev[d].m_queue
      /\ dv.m_currentPkt = NONE /\ dv.m_sendEnable = dev[d].m_sendEnable
      /\ dv.m_numBackoffRetries = dev[d].m_numBackoffRetries
    BY <1>1, <1>2, <1>3 DEF DeviceType
<1>6. /\ dv.m_queue # <<>> => TransmitStart(d, Dequeued(dv))
      /\ dv.m_queue = <<>> => dev' = [dev EXCEPT ![d] = dv] /\ UNCHANGED <<channelVars, heard>>
      /\ UNCHANGED troubled
    BY DEF TransmitReadyEvent
<1> HIDE DEF dv
<1>7. CASE dv.m_queue # <<>>
    <2>1. /\ Dequeued(dv) \in DeviceType
          /\ Dequeued(dv).m_currentPkt \in Frames
          /\ Len(Dequeued(dv).m_queue) <= QueueSize
        BY <1>1, <1>4, <1>5, <1>7, DequeuedType DEF CsmaGood
    <2>2. Starting(d, Dequeued(dv))
        BY <1>1, <1>2, <1>4, <1>5, <2>1 DEF CsmaGood, Undisturbed, Starting, Dequeued, DeviceType
    <2> QED BY <1>2, <1>6, <1>7, <2>2, TransmitStartInv
<1>8. CASE dv.m_queue = <<>>
    <2>1. CsmaGood(d, dv)
        BY <1>1, <1>2, <1>4, <1>5, <1>8 DEF CsmaGood, Transmitter, Undisturbed
    <2> QED BY <1>6, <1>8, <2>1, DeviceChanges
<1> QED BY <1>7, <1>8

LEMMA TransmitCompleteEventInv ==
    ASSUME CsmaInv, NEW d \in Devices, TransmitCompleteEvent(d)
    PROVE  CsmaInv'
<1>1. CsmaGood(d, dev[d]) /\ dev[d] \in DeviceType
    BY DEF CsmaInv, CsmaGood
<1>2. /\ m_state = TRANSMITTING /\ m_currentSrc = d
      /\ dev[d].m_txMachineState = "BUSY" /\ dev[d].completes = 1
      /\ dev[d].starts = 0 /\ dev[d].readies = 0
    BY <1>1 DEF CsmaGood, Transmitter, TransmitCompleteEvent, DeviceType
<1>3. m_currentPkt \in Frames
    BY <1>1, <1>2 DEF CsmaGood, Transmitter, CsmaInv, ChannelInv
<1>4. ChannelInv'
    <2>1. /\ m_state' = PROPAGATING /\ completions' = completions + 1
          /\ arriving' = arriving \union
               {[to |-> e, frame |-> m_currentPkt, from |-> m_currentSrc] :
                  e \in {x \in Devices : active[x]}}
          /\ UNCHANGED <<m_currentPkt, m_currentSrc, active, heard, troubled>>
        BY DEF TransmitCompleteEvent, ChannelTransmitEnd
    <2>2. arriving = {} /\ completions = 0
        BY <1>2 DEF CsmaInv, ChannelInv, TRANSMITTING, PROPAGATING
    <2>3. arriving' \subseteq Reception
        BY <1>2, <1>3, <2>1, <2>2 DEF Reception
    <2>4. \A e \in arriving' : e.frame = m_currentPkt /\ e.from = m_currentSrc
        BY <2>1, <2>2
    <2> QED BY <2>1, <2>2, <2>3, <2>4 DEF CsmaInv, ChannelInv, TRANSMITTING, PROPAGATING
<1> DEFINE nv == [dev[d] EXCEPT !.completes = @ - 1, !.m_txMachineState = "GAP",
                                !.m_currentPkt = NONE, !.readies = @ + 1]
<1>5. dev' = [dev EXCEPT ![d] = nv]
    BY DEF TransmitCompleteEvent, CsmaInv
<1>6. dev[d].completes - 1 \in Nat /\ dev[d].readies + 1 \in Nat
    BY <1>2
<1>7. nv \in DeviceType
    BY <1>1, <1>6 DEF DeviceType
<1>8. /\ nv.completes = 0 /\ nv.readies = 1 /\ nv.starts = 0
      /\ nv.m_txMachineState = "GAP" /\ nv.m_currentPkt = NONE
      /\ nv.m_queue = dev[d].m_queue /\ nv.m_sendEnable = dev[d].m_sendEnable
      /\ nv.m_numBackoffRetries = dev[d].m_numBackoffRetries
    BY <1>1, <1>2 DEF DeviceType
<1> HIDE DEF nv
<1>9. dev' \in [Devices -> DeviceType] /\ dev'[d] = nv
    BY <1>5, <1>7 DEF CsmaInv
<1>10. m_state' = PROPAGATING /\ UNCHANGED <<m_currentSrc, m_currentPkt, active, troubled>>
    BY DEF TransmitCompleteEvent, ChannelTransmitEnd
<1>11. CsmaGood(d, dev[d])'
    BY <1>1, <1>2, <1>7, <1>8, <1>9, <1>10
    DEF CsmaGood, Transmitter, Undisturbed, TRANSMITTING, PROPAGATING
<1>12. ASSUME NEW e \in Devices, e # d PROVE CsmaGood(e, dev[e])'
    <2>1. dev'[e] = dev[e] /\ CsmaGood(e, dev[e]) /\ m_currentSrc # e /\ m_currentSrc' # e
        BY <1>2, <1>5, <1>10, <1>12 DEF CsmaInv
    <2> QED BY <1>10, <2>1, OthersGood
<1> QED BY <1>4, <1>9, <1>11, <1>12 DEF CsmaInv

LEMMA ReceiveInv ==
    ASSUME CsmaInv, NEW e \in arriving, Receive(e)
    PROVE  CsmaInv'
<1>1. /\ arriving' = arriving \ {e} /\ heard' \subseteq heard \union {e.to}
      /\ UNCHANGED <<m_state, m_currentPkt, m_currentSrc, active, completions, dev, troubled>>
    BY DEF Receive
<1>2. ChannelInv'
    BY <1>1 DEF CsmaInv, ChannelInv, Reception
<1>3. ASSUME NEW d \in Devices PROVE CsmaGood(d, dev[d])'
    BY <1>1, OthersGood DEF CsmaInv
<1> QED BY <1>1, <1>2, <1>3 DEF CsmaInv

LEMMA PropagatedInv ==
    ASSUME CsmaInv, Propagated
    PROVE  CsmaInv'
<1>1. /\ m_state = PROPAGATING /\ completions = 1
      /\ m_state' = IDLE /\ completions' = completions - 1 /\ arriving = {}
      /\ UNCHANGED <<m_currentPkt, m_currentSrc, active, arriving, dev, heard, troubled>>
    BY DEF Propagated, PropagationCompleteEvent, CsmaInv, ChannelInv
<1>2. ChannelInv'
    BY <1>1 DEF CsmaInv, ChannelInv, IDLE, PROPAGATING
<1>3. ASSUME NEW d \in Devices PROVE CsmaGood(d, dev[d])'
    BY <1>1, OthersGood DEF CsmaInv, IDLE, TRANSMITTING, PROPAGATING
<1> QED BY <1>1, <1>2, <1>3 DEF CsmaInv

(* The calls that take a device off the network and put it back. *)
LEMMA CsmaUserCallsInv ==
    ASSUME CsmaInv, NEW d \in Devices,
           \/ \E enable \in BOOLEAN : SetSendEnable(d, enable) \/ SetReceiveEnable(d, enable)
           \/ Detach(d) \/ Reattach(d)
    PROVE  CsmaInv'
<1> USE DEF CsmaInv
<1>0. CsmaGood(d, dev[d]) /\ dev[d] \in DeviceType
    BY DEF CsmaGood
<1>1. ASSUME NEW enable \in BOOLEAN, SetSendEnable(d, enable) PROVE CsmaInv'
    <2> DEFINE nv == [dev[d] EXCEPT !.m_sendEnable = enable]
    <2>1. dev' = [dev EXCEPT ![d] = nv] /\ troubled' = troubled \union {d}
          /\ UNCHANGED <<channelVars, heard>>
        BY <1>1 DEF SetSendEnable
    <2>2. nv \in DeviceType
        BY <1>0 DEF DeviceType
    <2>3. /\ nv.completes = dev[d].completes /\ nv.readies = dev[d].readies
          /\ nv.starts = dev[d].starts /\ nv.m_txMachineState = dev[d].m_txMachineState
          /\ nv.m_currentPkt = dev[d].m_currentPkt /\ nv.m_queue = dev[d].m_queue
        BY <1>0 DEF DeviceType
    <2> HIDE DEF nv
    <2>4. dev' \in [Devices -> DeviceType] /\ dev'[d] = nv
        BY <2>1, <2>2
    <2>5. ChannelInv'
        BY <2>1 DEF ChannelInv, channelVars
    <2>6. CsmaGood(d, dev[d])'
        <3>1. Transmitter(d, nv)
            BY <1>0, <2>3, Zenon DEF CsmaGood, Transmitter
        <3>2. m_state' = m_state /\ m_currentPkt' = m_currentPkt /\ m_currentSrc' = m_currentSrc
            BY <2>1 DEF channelVars
        <3>3. Transmitter(d, dev[d])'
            BY <2>4, <3>1, <3>2, Zenon DEF Transmitter
        <3>4. Undisturbed(d, dev[d])'
            BY <2>1 DEF Undisturbed
        <3>5. (dev[d] \in DeviceType /\ Len(dev[d].m_queue) <= QueueSize)'
            BY <1>0, <2>2, <2>3, <2>4, Zenon DEF CsmaGood, DeviceType
        <3> QED BY <3>3, <3>4, <3>5, Zenon DEF CsmaGood
    <2>7. ASSUME NEW e \in Devices, e # d PROVE CsmaGood(e, dev[e])'
        <3>1. dev'[e] = dev[e] /\ active'[e] = active[e]
            BY <2>1, <2>7 DEF channelVars
        <3> QED BY <2>1, <3>1, OthersGood DEF channelVars
    <2> QED BY <2>4, <2>5, <2>6, <2>7
<1>2. ASSUME NEW enable \in BOOLEAN, SetReceiveEnable(d, enable) PROVE CsmaInv'
    <2> DEFINE nv == [dev[d] EXCEPT !.m_receiveEnable = enable]
    <2>1. dev' = [dev EXCEPT ![d] = nv] /\ UNCHANGED <<channelVars, heard, troubled>>
        BY <1>2 DEF SetReceiveEnable
    <2>2. nv \in DeviceType
        BY <1>0 DEF DeviceType
    <2>3. /\ nv.completes = dev[d].completes /\ nv.readies = dev[d].readies
          /\ nv.starts = dev[d].starts /\ nv.m_txMachineState = dev[d].m_txMachineState
          /\ nv.m_currentPkt = dev[d].m_currentPkt /\ nv.m_queue = dev[d].m_queue
          /\ nv.m_sendEnable = dev[d].m_sendEnable
          /\ nv.m_numBackoffRetries = dev[d].m_numBackoffRetries
        BY <1>0 DEF DeviceType
    <2> HIDE DEF nv
    <2>4. CsmaGood(d, nv)
        <3>1. Transmitter(d, nv)
            BY <1>0, <2>3, Zenon DEF CsmaGood, Transmitter
        <3>2. Undisturbed(d, nv)
            BY <1>0, <2>3, Zenon DEF CsmaGood, Undisturbed
        <3> QED BY <1>0, <2>2, <2>3, <3>1, <3>2, Zenon DEF CsmaGood
    <2> QED BY <2>1, <2>4, DeviceChanges
<1>3. ASSUME Detach(d) \/ Reattach(d) PROVE CsmaInv'
    <2>1. /\ active' \in [Devices -> BOOLEAN] /\ troubled' \subseteq Devices
          /\ troubled \subseteq troubled'
          /\ \A e \in Devices : e \notin troubled' => active'[e]
          /\ UNCHANGED <<m_state, m_currentPkt, m_currentSrc, arriving, completions, dev, heard>>
        BY <1>3 DEF Detach, Reattach, ChannelDetach, ChannelReattach, ChannelInv, CsmaGood, Undisturbed
    <2>2. ChannelInv'
        BY <2>1 DEF ChannelInv
    <2>3. ASSUME NEW e \in Devices PROVE CsmaGood(e, dev[e])'
        <3>1. CsmaGood(e, dev[e])
            OBVIOUS
        <3> QED BY <2>1, <3>1 DEF CsmaGood, Transmitter, Undisturbed
    <2> QED BY <2>1, <2>2, <2>3
<1> QED BY <1>1, <1>2, <1>3

-----------------------------------------------------------------------------
(* Every step keeps the invariant. *)
LEMMA CsmaNextInv == CsmaInv /\ [CsmaNext]_csmaVars => CsmaInv'
<1> SUFFICES ASSUME CsmaInv, [CsmaNext]_csmaVars PROVE CsmaInv'
    OBVIOUS
<1>1. ASSUME NEW d \in Devices, NEW frame \in Own[d], SendFrom(d, frame) PROVE CsmaInv'
    BY <1>1, SendFromInv, DeviceAssumption
<1>2. ASSUME NEW d \in Devices, DeviceEvent(d) PROVE CsmaInv'
    BY <1>2, TransmitStartEventInv, TransmitCompleteEventInv, TransmitReadyEventInv DEF DeviceEvent
<1>3. ASSUME NEW e \in arriving, Receive(e) PROVE CsmaInv'
    BY <1>3, ReceiveInv
<1>4. CASE Propagated
    BY <1>4, PropagatedInv
<1>5. ASSUME NEW d \in Unsettled,
             \/ \E enable \in BOOLEAN : SetSendEnable(d, enable) \/ SetReceiveEnable(d, enable)
             \/ Detach(d) \/ Reattach(d)
      PROVE  CsmaInv'
    BY <1>5, CsmaUserCallsInv, DeviceAssumption
<1>6. CASE UNCHANGED csmaVars
    <2>1. ChannelInv'
        BY <1>6 DEF CsmaInv, ChannelInv, csmaVars, channelVars
    <2>2. \A d \in Devices : CsmaGood(d, dev[d])'
        BY <1>6 DEF CsmaInv, CsmaGood, Transmitter, Undisturbed, csmaVars, channelVars
    <2> QED BY <1>6, <2>1, <2>2 DEF CsmaInv, csmaVars
<1> QED BY <1>1, <1>2, <1>3, <1>4, <1>5, <1>6 DEF CsmaNext

(* The inductive invariant holds in every behaviour of the devices and the  *)
(* channel.                                                                 *)
THEOREM CsmaInvHolds == CsmaSpec => []CsmaInv
BY CsmaInitInv, CsmaNextInv, PTL DEF CsmaSpec

(* On a network of any size the wire belongs to at most one device at a     *)
(* time, the one that is BUSY.                                              *)
THEOREM WireSafety == CsmaSpec => []WireOwned
BY CsmaInvHolds, CsmaInvImplies, PTL

(* Every transmitter has exactly the event that takes it out of its state.  *)
THEOREM TransmitterSafety == CsmaSpec => []OneTransmitterEvent
BY CsmaInvHolds, CsmaInvImplies, PTL

(* An undisturbed device that is READY has nothing left to send. *)
THEOREM ReadySafety == CsmaSpec => []ReadyMeansDone
BY CsmaInvHolds, CsmaInvImplies, PTL

(* Types, and the limit of the queues. *)
THEOREM CsmaTypes == CsmaSpec => []CsmaTypeOK
BY CsmaInvHolds, CsmaInvImplies, PTL
-----------------------------------------------------------------------------

(* Backlog of a device whose fields are dv. *)
BacklogOf(dv) ==
    IF dv.m_currentPkt # NONE /\ dv.m_txMachineState # "BUSY"
    THEN <<dv.m_currentPkt>> \o dv.m_queue
    ELSE dv.m_queue

(* The backlogs of all devices, as the refinement mapping has them. *)
Backlogs == [d \in Devices |-> Backlog(d)]

-----------------------------------------------------------------------------
(* Sequences. *)

LEMMA DropNone == ASSUME NEW q \in Seq(Frames) PROVE SubSeq(q, 1, Len(q)) = q
OBVIOUS

LEMMA DropOne ==
    ASSUME NEW q \in Seq(Frames), q # <<>> PROVE SubSeq(q, 2, Len(q)) = Tail(q)
OBVIOUS

LEMMA DropAll ==
    ASSUME NEW q \in Seq(Frames) PROVE SubSeq(q, Len(q) + 1, Len(q)) = <<>>
OBVIOUS

LEMMA HeadAndTail ==
    ASSUME NEW q \in Seq(Frames), q # <<>> PROVE <<Head(q)>> \o Tail(q) = q
OBVIOUS

LEMMA OneMore ==
    ASSUME NEW q \in Seq(Frames), NEW x \in Frames
    PROVE  LET s == <<x>> \o q
           IN  s \in Seq(Frames) /\ s # <<>> /\ Head(s) = x /\ Tail(s) = q /\ Len(s) = Len(q) + 1
OBVIOUS

LEMMA AppendAfter ==
    ASSUME NEW q \in Seq(Frames), NEW x \in Frames, NEW y \in Frames
    PROVE  Append(<<x>> \o q, y) = <<x>> \o Append(q, y)
OBVIOUS

-----------------------------------------------------------------------------
(* Steps of a device. *)

(* The backlogs after the device d has become nv. *)
LEMMA BacklogsChange ==
    ASSUME dev \in [Devices -> DeviceType], NEW d \in Devices, NEW nv,
           dev' = [dev EXCEPT ![d] = nv]
    PROVE  Backlogs' = [Backlogs EXCEPT ![d] = BacklogOf(nv)]
<1>1. Backlogs' = [e \in Devices |-> BacklogOf(dev'[e])]
    BY DEF Backlogs, Backlog, BacklogOf
<1>2. Backlogs = [e \in Devices |-> BacklogOf(dev[e])]
    BY DEF Backlogs, Backlog, BacklogOf
<1>3. \A e \in Devices : dev'[e] = IF e = d THEN nv ELSE dev[e]
    OBVIOUS
<1> HIDE DEF Backlogs
<1> QED BY <1>1, <1>2, <1>3

(* A device that accepts at most one frame and gives up its n oldest ones. *)
LEMMA GivesUp ==
    ASSUME NEW d \in Devices, NEW queue,
           queue \in {Backlogs[d]} \union {Append(Backlogs[d], f) : f \in Frames},
           NEW n \in 0..Len(queue),
           Backlogs' = [Backlogs EXCEPT ![d] = SubSeq(queue, n + 1, Len(queue))],
           UNCHANGED <<m_state, m_currentPkt, m_currentSrc, arriving, heard>>
    PROVE  Medium!Advance(d)
BY DEF Medium!Advance, Backlogs

(* A device that puts its oldest frame on the wire. *)
LEMMA PutsOnWire ==
    ASSUME NEW d \in Devices, NEW queue \in Seq(Frames), queue # <<>>,
           queue \in {Backlogs[d]} \union {Append(Backlogs[d], f) : f \in Frames},
           m_state = IDLE, m_state' = TRANSMITTING,
           m_currentPkt' = Head(queue), m_currentSrc' = d, heard' = {}, UNCHANGED arriving,
           Backlogs' = [Backlogs EXCEPT ![d] = Tail(queue)]
    PROVE  Medium!Advance(d)
<1>1. 0 \in 0..Len(queue)
    OBVIOUS
<1>2. SubSeq(queue, 0 + 1, Len(queue)) = queue
    BY DropNone
<1> QED BY <1>1, <1>2 DEF Medium!Advance, Backlogs, IDLE, TRANSMITTING

(* TransmitStart on a device that has a packet. *)
LEMMA TransmitStartAdvances ==
    ASSUME CsmaInv, NEW d \in Devices, NEW dv, Starting(d, dv), TransmitStart(d, dv),
           <<dv.m_currentPkt>> \o dv.m_queue \in
               {Backlogs[d]} \union {Append(Backlogs[d], f) : f \in Frames}
    PROVE  Medium!Advance(d)
<1> DEFINE queue == <<dv.m_currentPkt>> \o dv.m_queue
<1>1. /\ dv.m_queue \in Seq(Frames) /\ dv.m_currentPkt \in Frames
      /\ dv \in DeviceType /\ dev \in [Devices -> DeviceType]
    BY DEF Starting, DeviceType, CsmaInv
<1>2. /\ queue \in Seq(Frames) /\ queue # <<>> /\ Head(queue) = dv.m_currentPkt
      /\ Tail(queue) = dv.m_queue /\ Len(queue) = Len(dv.m_queue) + 1
      /\ Len(queue) \in Nat \ {0}
    BY <1>1, OneMore
<1>3. /\ SubSeq(queue, 0 + 1, Len(queue)) = queue
      /\ SubSeq(queue, 1 + 1, Len(queue)) = dv.m_queue
      /\ SubSeq(queue, Len(queue) + 1, Len(queue)) = <<>>
      /\ 0 \in 0..Len(queue) /\ 1 \in 0..Len(queue) /\ Len(queue) \in 0..Len(queue)
    BY <1>2, DropNone, DropOne, DropAll
<1> HIDE DEF queue
<1>4. ASSUME NEW nv, NEW n \in 0..Len(queue), dev' = [dev EXCEPT ![d] = nv],
             UNCHANGED <<channelVars, heard>>,
             BacklogOf(nv) = SubSeq(queue, n + 1, Len(queue))
      PROVE  Medium!Advance(d)
    <2>1. Backlogs' = [Backlogs EXCEPT ![d] = SubSeq(queue, n + 1, Len(queue))]
        BY <1>1, <1>4, BacklogsChange
    <2> QED BY <1>4, <2>1, GivesUp DEF queue, channelVars
<1>5. CASE ~dv.m_sendEnable
    <2>1. BacklogOf([dv EXCEPT !.m_currentPkt = NONE]) = dv.m_queue
        BY <1>1 DEF BacklogOf, DeviceType
    <2> QED BY <1>3, <1>4, <1>5, <2>1 DEF TransmitStart
<1>6. CASE dv.m_sendEnable /\ m_state # IDLE /\ dv.m_numBackoffRetries >= m_maxRetries
    <2>1. dev' = [dev EXCEPT ![d] = TransmitAbort(dv)] /\ UNCHANGED <<channelVars, heard>>
        BY <1>6, DeviceAssumption DEF TransmitStart, ChannelTransmitStart, CanTransmit, Starting, DeviceType
    <2>2. CASE dv.m_queue = <<>> \/ m_maxRetries = 0
        <3>1. BacklogOf(TransmitAbort(dv)) = <<>>
            BY <1>1, <2>2 DEF TransmitAbort, BacklogOf, DeviceType
        <3> QED BY <1>3, <1>4, <2>1, <3>1
    <2>3. CASE ~(dv.m_queue = <<>> \/ m_maxRetries = 0)
        <3>1. BacklogOf(TransmitAbort(dv)) = <<Head(dv.m_queue)>> \o Tail(dv.m_queue)
            <4>1. Head(dv.m_queue) \in Frames /\ Head(dv.m_queue) # NONE
                BY <1>1, <2>3, ChannelAssumption
            <4>2. TransmitAbort(dv).m_currentPkt = Head(dv.m_queue)
                BY <1>1, <2>3 DEF TransmitAbort, BackedOff, Dequeued, DeviceType
            <4>3. /\ TransmitAbort(dv).m_queue = Tail(dv.m_queue)
                  /\ TransmitAbort(dv).m_txMachineState = "BACKOFF"
                BY <1>1, <2>3 DEF TransmitAbort, BackedOff, Dequeued, DeviceType
            <4> QED BY <4>1, <4>2, <4>3 DEF BacklogOf
        <3>2. BacklogOf(TransmitAbort(dv)) = dv.m_queue
            BY <1>1, <2>3, <3>1, HeadAndTail
        <3> QED BY <1>3, <1>4, <2>1, <3>2
    <2> QED BY <2>2, <2>3
<1>7. CASE dv.m_sendEnable /\ m_state # IDLE /\ dv.m_numBackoffRetries < m_maxRetries
    <2>1. dev' = [dev EXCEPT ![d] = BackedOff(dv)] /\ UNCHANGED <<channelVars, heard>>
        BY <1>7, DeviceAssumption DEF TransmitStart, ChannelTransmitStart, CanTransmit, Starting, DeviceType
    <2>2. BacklogOf(BackedOff(dv)) = queue
        BY <1>1, ChannelAssumption DEF BackedOff, BacklogOf, DeviceType, queue
    <2> QED BY <1>3, <1>4, <2>1, <2>2
<1>8. CASE dv.m_sendEnable /\ m_state = IDLE /\ ~CanTransmit(d)
    <2> DEFINE nv == [dv EXCEPT !.m_currentPkt = NONE, !.m_txMachineState = "READY"]
    <2>1. dev' = [dev EXCEPT ![d] = nv] /\ UNCHANGED <<channelVars, heard>>
        BY <1>8 DEF TransmitStart, ChannelTransmitStart
    <2>2. BacklogOf(nv) = dv.m_queue
        BY <1>1 DEF BacklogOf, DeviceType
    <2> QED BY <1>3, <1>4, <2>1, <2>2
<1>9. CASE dv.m_sendEnable /\ m_state = IDLE /\ CanTransmit(d)
    <2> DEFINE nv == [dv EXCEPT !.m_numBackoffRetries = 0, !.m_txMachineState = "BUSY",
                                !.completes = @ + 1]
    <2>1. /\ dev' = [dev EXCEPT ![d] = nv] /\ heard' = {}
          /\ ChannelTransmitStart(d, dv.m_currentPkt)
        BY <1>9 DEF TransmitStart
    <2>2. BacklogOf(nv) = dv.m_queue
        BY <1>1 DEF BacklogOf, DeviceType
    <2>3. Backlogs' = [Backlogs EXCEPT ![d] = Tail(queue)]
        BY <1>1, <1>2, <2>1, <2>2, BacklogsChange
    <2>4. /\ m_state' = TRANSMITTING /\ m_currentPkt' = Head(queue) /\ m_currentSrc' = d
          /\ UNCHANGED arriving
        BY <1>2, <2>1 DEF ChannelTransmitStart
    <2>5. queue \in {Backlogs[d]} \union {Append(Backlogs[d], f) : f \in Frames}
        BY DEF queue
    <2> QED BY <1>2, <1>9, <2>1, <2>3, <2>4, <2>5, PutsOnWire
<1> QED
    BY <1>5, <1>6, <1>7, <1>8, <1>9, <1>1, DeviceAssumption DEF DeviceType

-----------------------------------------------------------------------------
(* One lemma per action. *)

LEMMA SendFromAdvances ==
    ASSUME CsmaInv, NEW d \in Devices, NEW frame \in Frames, SendFrom(d, frame)
    PROVE  Medium!Advance(d)
<1> DEFINE dv == [dev[d] EXCEPT !.m_queue = Append(@, frame)]
<1>1. /\ CsmaGood(d, dev[d]) /\ dev[d] \in DeviceType /\ dev \in [Devices -> DeviceType]
      /\ dev[d].m_queue \in Seq(Frames) /\ Len(dev[d].m_queue) < QueueSize
      /\ Backlogs[d] = BacklogOf(dev[d])
    BY DEF CsmaInv, CsmaGood, SendFrom, Accepts, DeviceType, Backlogs, Backlog, BacklogOf
<1>2. /\ Append(dev[d].m_queue, frame) \in Seq(Frames)
      /\ Append(dev[d].m_queue, frame) # <<>>
      /\ Len(Append(dev[d].m_queue, frame)) <= QueueSize
    <2> DEFINE q == dev[d].m_queue
    <2>1. q \in Seq(Frames) /\ Len(q) \in Nat /\ Len(q) + 1 <= QueueSize
        BY <1>1, DeviceAssumption
    <2> HIDE DEF q
    <2>2. Append(q, frame) \in Seq(Frames) /\ Len(Append(q, frame)) = Len(q) + 1
        BY <2>1
    <2>3. Append(q, frame) # <<>>
        BY <2>1, <2>2
    <2> QED BY <2>1, <2>2, <2>3 DEF q
<1>3. dv \in DeviceType
    BY <1>1, <1>2 DEF DeviceType
<1>4. /\ dv.m_queue = Append(dev[d].m_queue, frame)
      /\ dv.m_txMachineState = dev[d].m_txMachineState
      /\ dv.m_currentPkt = dev[d].m_currentPkt
      /\ dv.m_numBackoffRetries = dev[d].m_numBackoffRetries
      /\ dv.m_sendEnable = dev[d].m_sendEnable
      /\ dv.starts = dev[d].starts /\ dv.completes = dev[d].completes
      /\ dv.readies = dev[d].readies
    BY <1>1 DEF DeviceType
<1>5. /\ CanStart(dv) => TransmitStart(d, Dequeued(dv))
      /\ ~CanStart(dv) => dev' = [dev EXCEPT ![d] = dv] /\ UNCHANGED <<channelVars, heard>>
    BY DEF SendFrom
<1> HIDE DEF dv
<1>6. CASE CanStart(dv)
    <2>1. /\ Dequeued(dv) \in DeviceType
          /\ Dequeued(dv).m_currentPkt \in Frames
          /\ Len(Dequeued(dv).m_queue) <= QueueSize
        BY <1>2, <1>3, <1>4, DequeuedType
    <2>2. Starting(d, Dequeued(dv))
        BY <1>1, <1>3, <1>4, <1>6, <2>1
        DEF CsmaGood, Transmitter, Undisturbed, Starting, Dequeued, CanStart, DeviceType
    <2>3. Dequeued(dv).m_currentPkt = Head(dv.m_queue) /\ Dequeued(dv).m_queue = Tail(dv.m_queue)
        BY <1>3 DEF Dequeued, DeviceType
    <2>4. <<Dequeued(dv).m_currentPkt>> \o Dequeued(dv).m_queue = Append(dev[d].m_queue, frame)
        BY <1>2, <1>4, <2>3, HeadAndTail
    <2>5. Backlogs[d] = dev[d].m_queue
        BY <1>1, <1>4, <1>6 DEF CsmaGood, Transmitter, CanStart, BacklogOf
    <2> QED BY <1>5, <1>6, <2>2, <2>4, <2>5, TransmitStartAdvances
<1>7. CASE ~CanStart(dv)
    <2> DEFINE queue == Append(Backlogs[d], frame)
    <2>1. Backlogs[d] \in Seq(Frames)
        BY <1>1, OneMore DEF BacklogOf, DeviceType
    <2>2. queue \in Seq(Frames)
        BY <2>1
    <2>3. SubSeq(queue, 0 + 1, Len(queue)) = queue /\ 0 \in 0..Len(queue)
        BY <2>2, DropNone
    <2>4. BacklogOf(dv) = queue
        <3>1. CASE dev[d].m_currentPkt # NONE /\ dev[d].m_txMachineState # "BUSY"
            <4>1. dev[d].m_currentPkt \in Frames
                BY <1>1, <3>1 DEF DeviceType
            <4>2. Append(<<dev[d].m_currentPkt>> \o dev[d].m_queue, frame)
                    = <<dev[d].m_currentPkt>> \o Append(dev[d].m_queue, frame)
                BY <1>1, <4>1, AppendAfter
            <4> QED BY <1>1, <1>4, <3>1, <4>2 DEF BacklogOf
        <3>2. CASE ~(dev[d].m_currentPkt # NONE /\ dev[d].m_txMachineState # "BUSY")
            BY <1>1, <1>4, <3>2 DEF BacklogOf
        <3> QED BY <3>1, <3>2
    <2>5. Backlogs' = [Backlogs EXCEPT ![d] = SubSeq(queue, 0 + 1, Len(queue))]
        BY <1>1, <1>5, <1>7, <2>3, <2>4, BacklogsChange
    <2>6. queue \in {Backlogs[d]} \union {Append(Backlogs[d], f) : f \in Frames}
        OBVIOUS
    <2> HIDE DEF queue
    <2> QED BY <1>5, <1>7, <2>3, <2>5, <2>6, GivesUp DEF channelVars
<1> QED BY <1>6, <1>7

LEMMA TransmitStartEventAdvances ==
    ASSUME CsmaInv, NEW d \in Devices, TransmitStartEvent(d)
    PROVE  Medium!Advance(d)
<1> DEFINE dv == [dev[d] EXCEPT !.starts = @ - 1]
<1>1. CsmaGood(d, dev[d]) /\ dev[d] \in DeviceType /\ Backlogs[d] = BacklogOf(dev[d])
    BY DEF CsmaInv, CsmaGood, Backlogs, Backlog, BacklogOf
<1>2. /\ dev[d].m_txMachineState = "BACKOFF" /\ dev[d].m_currentPkt # NONE
      /\ dev[d].starts = 1 /\ dev[d].completes = 0 /\ dev[d].readies = 0
    BY <1>1 DEF CsmaGood, Transmitter, TransmitStartEvent, DeviceType
<1>3. dev[d].starts - 1 = 0
    BY <1>2
<1>4. dv \in DeviceType
    BY <1>1, <1>3 DEF DeviceType
<1>5. /\ dv.starts = 0 /\ dv.completes = 0 /\ dv.readies = 0
      /\ dv.m_txMachineState = "BACKOFF" /\ dv.m_queue = dev[d].m_queue
      /\ dv.m_currentPkt = dev[d].m_currentPkt /\ dv.m_sendEnable = dev[d].m_sendEnable
    BY <1>1, <1>2, <1>3 DEF DeviceType
<1>6. TransmitStart(d, dv)
    BY DEF TransmitStartEvent
<1> HIDE DEF dv
<1>7. Starting(d, dv)
    BY <1>1, <1>2, <1>4, <1>5 DEF CsmaGood, Undisturbed, Starting, DeviceType
<1>8. <<dv.m_currentPkt>> \o dv.m_queue = Backlogs[d]
    BY <1>1, <1>2, <1>5 DEF BacklogOf
<1> QED BY <1>6, <1>7, <1>8, TransmitStartAdvances

LEMMA TransmitReadyEventAdvances ==
    ASSUME CsmaInv, NEW d \in Devices, TransmitReadyEvent(d)
    PROVE  Medium!Advance(d)
<1> DEFINE dv == [dev[d] EXCEPT !.readies = @ - 1, !.m_txMachineState = "READY"]
<1>1. /\ CsmaGood(d, dev[d]) /\ dev[d] \in DeviceType /\ dev \in [Devices -> DeviceType]
      /\ Backlogs[d] = BacklogOf(dev[d]) /\ dev[d].m_queue \in Seq(Frames)
    BY DEF CsmaInv, CsmaGood, Backlogs, Backlog, BacklogOf, DeviceType
<1>2. /\ dev[d].m_txMachineState = "GAP" /\ dev[d].m_currentPkt = NONE
      /\ dev[d].starts = 0 /\ dev[d].completes = 0 /\ dev[d].readies = 1
    BY <1>1 DEF CsmaGood, Transmitter, TransmitReadyEvent, DeviceType
<1>3. dev[d].readies - 1 = 0 /\ dev[d].readies - 1 \in Nat
    BY <1>2
<1>4. dv \in DeviceType
    BY <1>1, <1>3 DEF DeviceType
<1>5. /\ dv.starts = 0 /\ dv.completes = 0 /\ dv.readies = 0
      /\ dv.m_txMachineState = "READY" /\ dv.m_queue = dev[d].m_queue
      /\ dv.m_currentPkt = NONE /\ dv.m_sendEnable = dev[d].m_sendEnable
      /\ dv.m_numBackoffRetries = dev[d].m_numBackoffRetries
    BY <1>1, <1>2, <1>3 DEF DeviceType
<1>6. /\ dv.m_queue # <<>> => TransmitStart(d, Dequeued(dv))
      /\ dv.m_queue = <<>> => dev' = [dev EXCEPT ![d] = dv] /\ UNCHANGED <<channelVars, heard>>
    BY DEF TransmitReadyEvent
<1>7. Backlogs[d] = dv.m_queue
    BY <1>1, <1>2, <1>5 DEF BacklogOf
<1> HIDE DEF dv
<1>8. CASE dv.m_queue # <<>>
    <2>1. /\ Dequeued(dv) \in DeviceType
          /\ Dequeued(dv).m_currentPkt \in Frames
          /\ Len(Dequeued(dv).m_queue) <= QueueSize
        BY <1>1, <1>4, <1>5, <1>8, DequeuedType DEF CsmaGood
    <2>2. Starting(d, Dequeued(dv))
        BY <1>1, <1>2, <1>4, <1>5, <2>1 DEF CsmaGood, Undisturbed, Starting, Dequeued, DeviceType
    <2>3. Dequeued(dv).m_currentPkt = Head(dv.m_queue) /\ Dequeued(dv).m_queue = Tail(dv.m_queue)
        BY <1>4 DEF Dequeued, DeviceType
    <2>4. <<Dequeued(dv).m_currentPkt>> \o Dequeued(dv).m_queue = Backlogs[d]
        BY <1>1, <1>5, <1>7, <1>8, <2>3, HeadAndTail
    <2> QED BY <1>6, <1>8, <2>2, <2>4, TransmitStartAdvances
<1>9. CASE dv.m_queue = <<>>
    <2>1. BacklogOf(dv) = Backlogs[d]
        BY <1>5, <1>7 DEF BacklogOf
    <2>2. SubSeq(Backlogs[d], 0 + 1, Len(Backlogs[d])) = Backlogs[d] /\ 0 \in 0..Len(Backlogs[d])
        BY <1>1, <1>5, <1>7, DropNone
    <2>3. Backlogs' = [Backlogs EXCEPT ![d] = SubSeq(Backlogs[d], 0 + 1, Len(Backlogs[d]))]
        BY <1>1, <1>6, <1>9, <2>1, <2>2, BacklogsChange
    <2>4. UNCHANGED <<m_state, m_currentPkt, m_currentSrc, arriving, heard>>
        BY <1>6, <1>9 DEF channelVars
    <2>5. Backlogs[d] \in {Backlogs[d]} \union {Append(Backlogs[d], f) : f \in Frames}
        OBVIOUS
    <2> QED BY <2>2, <2>3, <2>4, <2>5, GivesUp
<1> QED BY <1>8, <1>9

LEMMA TransmitCompleteEventCarries ==
    ASSUME CsmaInv, NEW d \in Devices, TransmitCompleteEvent(d)
    PROVE  Medium!Carried
<1>1. /\ CsmaGood(d, dev[d]) /\ dev[d] \in DeviceType /\ dev \in [Devices -> DeviceType]
      /\ Backlogs[d] = BacklogOf(dev[d]) /\ Backlogs = [Backlogs EXCEPT ![d] = Backlogs[d]]
    BY DEF CsmaInv, CsmaGood, Backlogs, Backlog, BacklogOf
<1>2. m_state = TRANSMITTING /\ dev[d].m_txMachineState = "BUSY"
    BY <1>1 DEF CsmaGood, Transmitter, TransmitCompleteEvent, DeviceType
<1> DEFINE nv == [dev[d] EXCEPT !.completes = @ - 1, !.m_txMachineState = "GAP",
                                !.m_currentPkt = NONE, !.readies = @ + 1]
<1>3. dev' = [dev EXCEPT ![d] = nv]
    BY <1>1 DEF TransmitCompleteEvent
<1>4. BacklogOf(nv) = Backlogs[d]
    BY <1>1, <1>2 DEF BacklogOf, DeviceType
<1> HIDE DEF nv
<1>5. Backlogs' = Backlogs
    BY <1>1, <1>3, <1>4, BacklogsChange
<1>6. {e.to : e \in arriving'} \subseteq Devices
    <2>1. arriving' \subseteq Reception
        BY TransmitCompleteEventInv DEF CsmaInv, ChannelInv
    <2> QED BY <2>1 DEF Reception
<1>7. m_state' = PROPAGATING /\ UNCHANGED <<m_currentPkt, m_currentSrc, heard>>
    BY DEF TransmitCompleteEvent, ChannelTransmitEnd
<1> QED BY <1>2, <1>5, <1>6, <1>7 DEF Medium!Carried, Backlogs, TRANSMITTING, PROPAGATING

LEMMA ReceiveReaches ==
    ASSUME CsmaInv, NEW e \in arriving, Receive(e)
    PROVE  e.to \in Devices /\ Medium!Reach(e.to)
<1>1. e \in Reception /\ \A x \in arriving : x \in Reception /\ x.frame = e.frame /\ x.from = e.from
    BY DEF CsmaInv, ChannelInv
<1>2. e.frame = m_currentPkt /\ e.from = m_currentSrc /\ e.to \in Devices
    BY <1>1 DEF CsmaInv, ChannelInv, Reception
<1>3. \A x \in arriving : x.to = e.to => x = e
    BY <1>1 DEF Reception
<1>4. /\ arriving' = arriving \ {e}
      /\ UNCHANGED <<m_state, m_currentPkt, m_currentSrc, dev>>
    BY DEF Receive
<1>5. {x.to : x \in arriving'} = {x.to : x \in arriving} \ {e.to}
    BY <1>3, <1>4
<1>6. \/ UNCHANGED heard
      \/ /\ e.to # m_currentSrc /\ Dest[m_currentPkt] \in {e.to, BROADCAST}
         /\ heard' = heard \union {e.to}
    BY <1>2 DEF Receive, PacketType
<1>7. Backlogs' = Backlogs
    BY <1>4 DEF Backlogs, Backlog
<1> QED BY <1>2, <1>4, <1>5, <1>6, <1>7 DEF Medium!Reach, Backlogs

LEMMA PropagatedFrees ==
    ASSUME CsmaInv, Propagated
    PROVE  Medium!Free
<1>1. /\ m_state = PROPAGATING /\ m_state' = IDLE /\ arriving = {}
      /\ UNCHANGED <<m_currentPkt, m_currentSrc, arriving, dev, heard>>
    BY DEF Propagated, PropagationCompleteEvent, CsmaInv, ChannelInv
<1>2. Backlogs' = Backlogs
    BY <1>1 DEF Backlogs, Backlog
<1> QED BY <1>1, <1>2 DEF Medium!Free, Backlogs, IDLE, PROPAGATING

(* Taking a device off the network does not touch the medium. *)
LEMMA UserCallsStutter ==
    ASSUME CsmaInv, NEW d \in Devices,
           \/ \E enable \in BOOLEAN : SetSendEnable(d, enable) \/ SetReceiveEnable(d, enable)
           \/ Detach(d) \/ Reattach(d)
    PROVE  UNCHANGED Medium!vars
<1>0. dev \in [Devices -> DeviceType] /\ dev[d] \in DeviceType
      /\ Backlogs = [Backlogs EXCEPT ![d] = BacklogOf(dev[d])]
    BY DEF CsmaInv, Backlogs, Backlog, BacklogOf
<1>1. UNCHANGED <<m_state, m_currentPkt, m_currentSrc, arriving, heard>>
    BY DEF SetSendEnable, SetReceiveEnable, Detach, Reattach, ChannelDetach, ChannelReattach,
           channelVars
<1>2. Backlogs' = Backlogs
    <2>1. ASSUME NEW enable \in BOOLEAN, SetSendEnable(d, enable) PROVE Backlogs' = Backlogs
        <3>1. BacklogOf([dev[d] EXCEPT !.m_sendEnable = enable]) = BacklogOf(dev[d])
            BY <1>0 DEF BacklogOf, DeviceType
        <3>2. dev' = [dev EXCEPT ![d] = [dev[d] EXCEPT !.m_sendEnable = enable]]
            BY <2>1, <1>0 DEF SetSendEnable
        <3> QED BY <1>0, <3>1, <3>2, BacklogsChange
    <2>2. ASSUME NEW enable \in BOOLEAN, SetReceiveEnable(d, enable) PROVE Backlogs' = Backlogs
        <3>1. BacklogOf([dev[d] EXCEPT !.m_receiveEnable = enable]) = BacklogOf(dev[d])
            BY <1>0 DEF BacklogOf, DeviceType
        <3>2. dev' = [dev EXCEPT ![d] = [dev[d] EXCEPT !.m_receiveEnable = enable]]
            BY <2>2, <1>0 DEF SetReceiveEnable
        <3> QED BY <1>0, <3>1, <3>2, BacklogsChange
    <2>3. CASE Detach(d) \/ Reattach(d)
        BY <2>3 DEF Detach, Reattach, Backlogs, Backlog
    <2> QED BY <2>1, <2>2, <2>3
<1> QED BY <1>1, <1>2 DEF Medium!vars, Backlogs

-----------------------------------------------------------------------------
LEMMA InitRefines == CsmaInit => Medium!Init
<1> SUFFICES ASSUME CsmaInit PROVE Medium!Init
    OBVIOUS
<1>1. \A d \in Devices : Backlog(d) = <<>>
    BY DEF CsmaInit, Backlog
<1>2. m_state = IDLE /\ arriving = {} /\ heard = {}
    BY DEF CsmaInit, ChannelInit
<1> QED BY <1>1, <1>2 DEF Medium!Init, IDLE

(* Every step is a step of the medium, or leaves it alone. *)
LEMMA NextRefines == CsmaInv /\ [CsmaNext]_csmaVars => [Medium!Next]_(Medium!vars)
<1> SUFFICES ASSUME CsmaInv, [CsmaNext]_csmaVars PROVE Medium!Next \/ UNCHANGED Medium!vars
    OBVIOUS
<1>1. ASSUME NEW d \in Devices, NEW frame \in Own[d], SendFrom(d, frame) PROVE Medium!Next
    BY <1>1, SendFromAdvances, DeviceAssumption DEF Medium!Next
<1>2. ASSUME NEW d \in Devices, DeviceEvent(d) PROVE Medium!Next
    BY <1>2, TransmitStartEventAdvances, TransmitCompleteEventCarries, TransmitReadyEventAdvances
    DEF DeviceEvent, Medium!Next
<1>3. ASSUME NEW e \in arriving, Receive(e) PROVE Medium!Next
    BY <1>3, ReceiveReaches DEF Medium!Next
<1>4. CASE Propagated
    BY <1>4, PropagatedFrees DEF Medium!Next
<1>5. ASSUME NEW d \in Unsettled,
             \/ \E enable \in BOOLEAN : SetSendEnable(d, enable) \/ SetReceiveEnable(d, enable)
             \/ Detach(d) \/ Reattach(d)
      PROVE  UNCHANGED Medium!vars
    BY <1>5, UserCallsStutter, DeviceAssumption
<1>6. CASE UNCHANGED csmaVars
    BY <1>6 DEF csmaVars, channelVars, Medium!vars, Backlog
<1> QED BY <1>1, <1>2, <1>3, <1>4, <1>5, <1>6 DEF CsmaNext

(* A CSMA network of any size implements a medium that carries one frame at *)
(* a time, keeps the order of each device's SendFrom calls, and delivers a  *)
(* frame at most once to each device that it is addressed to.               *)
THEOREM Refinement == CsmaSpec => IsSharedMedium
<1>1. CsmaSpec => []CsmaInv
    BY CsmaInvHolds
<1>2. CsmaInit => Medium!Init
    BY InitRefines
<1>3. CsmaInv /\ [CsmaNext]_csmaVars => [Medium!Next]_(Medium!vars)
    BY NextRefines
<1> QED BY <1>1, <1>2, <1>3, PTL DEF CsmaSpec, IsSharedMedium, Medium!Spec

-----------------------------------------------------------------------------
(***************************************************************************)
(* The safety properties of ARP, for any number of nodes and packets and   *)
(* all values of the timeouts, the retries and the queue's limit.          *)
(*                                                                         *)
(* The inductive invariant is a relation between an entry and the timer of *)
(* its cache (ArpGood).  For an entry that waits it says that the time it  *)
(* has waited and the time the timer has still to run make up more than    *)
(* its retries, and at most one wait more.  Time that passes keeps the sum *)
(* and a timeout that starts the timer again adds a retry and a wait.      *)
(***************************************************************************)

W == WaitReplyTimeout

(* An entry that waits, and the timer t of its cache. *)
InTime(e, t) ==
    /\ t \in 0..W
    /\ e.age + t <= W
    /\ e.m_retries <= MaxRetries
    /\ e.m_retries * W <= e.waited + t
    /\ e.waited + t <= e.m_retries * W + W

(* The entry for d, in a cache whose timer is t. *)
ArpGood(d, e, t) ==
    /\ e \in Entry
    /\ Len(e.m_pending) <= PendingQueueSize
    /\ e.m_state # PERMANENT => (e.m_pending # <<>> <=> e.m_state = WAIT_REPLY)
    /\ e.m_state = WAIT_REPLY => InTime(e, t)
    /\ e.m_state # WAIT_REPLY => e.m_retries = 0 /\ e.waited = 0
    /\ e.m_state = ALIVE => e.m_macAddress = Hardware[d]
    /\ e.given # UNKNOWN => e.m_state = PERMANENT /\ e.m_macAddress = e.given

ArpInv ==
    /\ m_arpCache \in [Nodes -> [Nodes -> Entry]]
    /\ m_waitReplyTimer \in [Nodes -> 0..WaitReplyTimeout \union {OFF}]
    /\ requests \in [Nodes -> SUBSET RequestEvent]
    /\ link \in [Message -> 0..Copies]
    /\ \A n, d \in Nodes : ArpGood(d, m_arpCache[n][d], m_waitReplyTimer[n])

-----------------------------------------------------------------------------
(* The operators of ArpCache. *)

LEMMA WFact == W \in Nat \ {0} /\ W = WaitReplyTimeout
BY CacheAssumption DEF W

(* Arithmetic. *)
LEMMA TimesMonotonic ==
    ASSUME NEW a \in Nat, NEW b \in Nat, NEW c \in Nat, a <= b
    PROVE  a * c <= b * c /\ a * c \in Nat /\ b * c \in Nat
OBVIOUS

LEMMA TwoMore ==
    ASSUME NEW a \in Nat, NEW c \in Nat
    PROVE  (a + 2) * c = a * c + c + c /\ (a + 1) * c = a * c + c
OBVIOUS

LEMMA NoEntryGood == \A d, t : ArpGood(d, NoEntry, t)
<1>1. <<>> \in Seq(Packets) /\ Len(<<>>) = 0
    OBVIOUS
<1>2. NoEntry \in Entry
    BY <1>1 DEF NoEntry, Entry
<1> QED
    BY <1>1, <1>2, CacheAssumption DEF ArpGood, NoEntry, ABSENT, WAIT_REPLY, ALIVE, PERMANENT

(* The first packet of an entry that did not wait. *)
LEMMA MarkWaitReplyGood ==
    ASSUME NEW d \in Nodes, NEW e, NEW t \in 0..W \union {OFF}, NEW packet \in Packets,
           ArpGood(d, e, t), e.m_state \notin {WAIT_REPLY, PERMANENT}
    PROVE  ArpGood(d, MarkWaitReply(e, packet), StartWaitReplyTimer(t))
<1> DEFINE ne == MarkWaitReply(e, packet)
<1>1. /\ e \in Entry /\ e.m_pending = <<>> /\ e.m_retries = 0 /\ e.waited = 0
      /\ e.given = UNKNOWN
    BY DEF ArpGood
<1>2. <<packet>> \in Seq(Packets) /\ Append(<<>>, packet) = <<packet>>
      /\ Len(<<packet>>) = 1 /\ <<packet>> # <<>>
    OBVIOUS
<1>3. ne = [[e EXCEPT !.m_state = WAIT_REPLY, !.m_pending = <<packet>>] EXCEPT !.age = 0]
    BY <1>1, <1>2 DEF MarkWaitReply, UpdateSeen, Entry
<1>4. ne \in Entry
    <2> DEFINE me == [e EXCEPT !.m_state = WAIT_REPLY, !.m_pending = <<packet>>]
    <2>1. me \in Entry
        BY <1>1, <1>2 DEF Entry
    <2>2. ne = [me EXCEPT !.age = 0]
        BY <1>3
    <2> HIDE DEF me, ne
    <2> QED BY <2>1, <2>2 DEF Entry
<1>5. /\ ne.m_state = WAIT_REPLY /\ ne.m_pending = <<packet>> /\ ne.age = 0
      /\ ne.m_retries = 0 /\ ne.waited = 0 /\ ne.given = UNKNOWN
    BY <1>1, <1>3 DEF Entry
<1>6. StartWaitReplyTimer(t) \in 0..W
    BY WFact DEF StartWaitReplyTimer
<1> HIDE DEF ne
<1>7. InTime(ne, StartWaitReplyTimer(t))
    <2>1. 0 * W = 0 /\ 0 <= MaxRetries
        BY WFact, CacheAssumption
    <2> QED BY <1>5, <1>6, <2>1, WFact DEF InTime
<1>8. Len(ne.m_pending) <= PendingQueueSize /\ ne.m_pending # <<>>
    BY <1>2, <1>5, CacheAssumption
<1> QED BY <1>4, <1>5, <1>7, <1>8 DEF ArpGood, ne, WAIT_REPLY, ALIVE, PERMANENT

(* The other entries of the cache whose timer is started. *)
LEMMA TimerStartedGood ==
    ASSUME NEW d \in Nodes, NEW e, NEW t \in 0..W \union {OFF}, ArpGood(d, e, t)
    PROVE  ArpGood(d, e, StartWaitReplyTimer(t))
<1>1. CASE t = OFF
    <2>1. e.m_state # WAIT_REPLY
        BY <1>1, WFact DEF ArpGood, InTime, OFF
    <2> QED BY <2>1 DEF ArpGood
<1>2. CASE t # OFF
    BY <1>2 DEF StartWaitReplyTimer
<1> QED BY <1>1, <1>2

(* One packet more. *)
LEMMA UpdateWaitReplyGood ==
    ASSUME NEW d \in Nodes, NEW e, NEW t, NEW packet \in Packets,
           ArpGood(d, e, t), e.m_state = WAIT_REPLY
    PROVE  ArpGood(d, UpdateWaitReply(e, packet), t)
<1>1. e \in Entry /\ e.m_pending \in Seq(Packets) /\ Len(e.m_pending) \in Nat
    BY DEF ArpGood, Entry
<1>2. CASE Len(e.m_pending) >= PendingQueueSize
    BY <1>2 DEF UpdateWaitReply
<1>3. CASE ~(Len(e.m_pending) >= PendingQueueSize)
    <2> DEFINE q == Append(e.m_pending, packet)
    <2>1. q \in Seq(Packets) /\ Len(q) = Len(e.m_pending) + 1 /\ q # <<>>
        BY <1>1
    <2> HIDE DEF q
    <2>2. Len(q) <= PendingQueueSize
        BY <1>1, <1>3, <2>1, CacheAssumption
    <2> DEFINE ne == [e EXCEPT !.m_pending = q]
    <2>3. UpdateWaitReply(e, packet) = ne
        BY <1>3 DEF UpdateWaitReply, q
    <2>4. ne \in Entry
        BY <1>1, <2>1 DEF Entry
    <2>5. /\ ne.m_state = e.m_state /\ ne.m_pending = q /\ ne.age = e.age
          /\ ne.m_retries = e.m_retries /\ ne.waited = e.waited
          /\ ne.m_macAddress = e.m_macAddress /\ ne.given = e.given
        BY <1>1 DEF Entry
    <2> HIDE DEF ne
    <2>6. InTime(ne, t)
        BY <2>5 DEF ArpGood, InTime
    <2> QED BY <2>1, <2>2, <2>3, <2>4, <2>5, <2>6 DEF ArpGood
<1> QED BY <1>2, <1>3

(* Entries that stop waiting. *)
LEMMA MarkAliveGood ==
    ASSUME NEW d \in Nodes, NEW e \in Entry, NEW t, e.given = UNKNOWN
    PROVE  ArpGood(d, MarkAlive(e, Hardware[d]), t)
<1> DEFINE mac == Hardware[d]
           ne == MarkAlive(e, mac)
<1>0. mac \in Macs
    BY ProtocolAssumption
<1>1. <<>> \in Seq(Packets) /\ Len(<<>>) = 0
    OBVIOUS
<1> HIDE DEF mac
<1> DEFINE me == [e EXCEPT !.m_state = ALIVE, !.m_macAddress = mac, !.m_retries = 0,
                           !.m_pending = <<>>, !.waited = 0]
<1>2. me \in Entry
    BY <1>0, <1>1 DEF Entry
<1>3. ne = [me EXCEPT !.age = 0]
    BY DEF MarkAlive, UpdateSeen
<1>4. ne \in Entry
    BY <1>2, <1>3 DEF Entry
<1>5. /\ ne.m_state = ALIVE /\ ne.m_pending = <<>> /\ ne.m_macAddress = mac
      /\ ne.m_retries = 0 /\ ne.waited = 0 /\ ne.given = UNKNOWN
    BY <1>2, <1>3 DEF Entry
<1> HIDE DEF ne
<1>6. ArpGood(d, ne, t)
    BY <1>1, <1>4, <1>5, CacheAssumption DEF ArpGood, WAIT_REPLY, ALIVE, mac
<1> QED BY <1>6 DEF ne, mac

LEMMA MarkDeadGood ==
    ASSUME NEW d \in Nodes, NEW e \in Entry, NEW t, e.given = UNKNOWN
    PROVE  ArpGood(d, MarkDead(e), t) /\ MarkDead(e).m_state = DEAD
<1> DEFINE ne == MarkDead(e)
<1>1. <<>> \in Seq(Packets) /\ Len(<<>>) = 0
    OBVIOUS
<1> DEFINE me == [e EXCEPT !.m_state = DEAD, !.m_retries = 0, !.m_pending = <<>>, !.waited = 0]
<1>2. me \in Entry
    BY <1>1 DEF Entry
<1>3. ne = [me EXCEPT !.age = 0]
    BY DEF MarkDead, UpdateSeen
<1>4. ne \in Entry
    BY <1>2, <1>3 DEF Entry
<1>5. /\ ne.m_state = DEAD /\ ne.m_pending = <<>> /\ ne.m_retries = 0 /\ ne.waited = 0
      /\ ne.given = UNKNOWN
    BY <1>2, <1>3 DEF Entry
<1> HIDE DEF ne
<1>6. ArpGood(d, ne, t)
    BY <1>1, <1>4, <1>5, CacheAssumption DEF ArpGood, WAIT_REPLY, ALIVE, DEAD, PERMANENT
<1> QED BY <1>5, <1>6 DEF ne

(* A packet from the destination keeps the entry alive. *)
LEMMA UpdateSeenGood ==
    ASSUME NEW d \in Nodes, NEW e, NEW t, ArpGood(d, e, t), e.m_state = ALIVE
    PROVE  ArpGood(d, UpdateSeen(e), t)
<1> DEFINE ne == UpdateSeen(e)
<1>1. e \in Entry
    BY DEF ArpGood
<1>2. ne \in Entry
    BY <1>1 DEF UpdateSeen, Entry
<1>3. /\ ne.m_state = e.m_state /\ ne.m_pending = e.m_pending
      /\ ne.m_retries = e.m_retries /\ ne.waited = e.waited
      /\ ne.m_macAddress = e.m_macAddress /\ ne.given = e.given
    BY <1>1 DEF UpdateSeen, Entry
<1> HIDE DEF ne
<1> QED BY <1>2, <1>3 DEF ArpGood, ne, ALIVE, WAIT_REPLY

(* The user makes an entry permanent. *)
LEMMA MarkPermanentGood ==
    ASSUME NEW d \in Nodes, NEW e, NEW t, NEW mac \in Macs, ArpGood(d, e, t)
    PROVE  ArpGood(d, MarkPermanent(e, mac), t)
<1> DEFINE ne == MarkPermanent(e, mac)
           me == [e EXCEPT !.m_state = PERMANENT, !.m_macAddress = mac, !.m_retries = 0,
                           !.waited = 0, !.given = mac]
<1>1. e \in Entry /\ Len(e.m_pending) <= PendingQueueSize
    BY DEF ArpGood
<1>2. me \in Entry
    BY <1>1 DEF Entry
<1>3. ne = [me EXCEPT !.age = 0]
    BY DEF MarkPermanent, UpdateSeen
<1>4. ne \in Entry
    BY <1>2, <1>3 DEF Entry
<1>5. /\ ne.m_state = PERMANENT /\ ne.m_pending = e.m_pending /\ ne.m_macAddress = mac
      /\ ne.m_retries = 0 /\ ne.waited = 0 /\ ne.given = mac
    BY <1>1, <1>2, <1>3 DEF Entry
<1> HIDE DEF ne, me
<1>6. ArpGood(d, ne, t)
    BY <1>1, <1>4, <1>5 DEF ArpGood, WAIT_REPLY, ALIVE, PERMANENT
<1> QED BY <1>6 DEF ne

(* An entry that is tried once more, and the timer that is started again. *)
LEMMA IncrementRetriesGood ==
    ASSUME NEW d \in Nodes, NEW e, ArpGood(d, e, 0), e.m_state = WAIT_REPLY, RetriesLeft(e)
    PROVE  ArpGood(d, IncrementRetries(e), W)
<1> DEFINE ne == IncrementRetries(e)
           r == e.m_retries
<1>1. e \in Entry /\ r \in Nat /\ e.waited \in Nat /\ e.age \in Nat /\ r < MaxRetries
    BY DEF ArpGood, Entry, RetriesLeft
<1>2. r + 1 \in Nat /\ r + 1 <= MaxRetries
    BY <1>1, CacheAssumption
<1>3. r * W <= e.waited /\ e.waited <= r * W + W
    <2>1. InTime(e, 0)
        BY Zenon DEF ArpGood
    <2>2. r * W <= e.waited + 0 /\ e.waited + 0 <= r * W + W
        BY <2>1, Zenon DEF InTime
    <2>3. e.waited + 0 = e.waited
        BY <1>1
    <2> QED BY <2>2, <2>3, Zenon
<1> DEFINE me == [e EXCEPT !.m_retries = @ + 1]
<1>4. me \in Entry
    BY <1>1, <1>2 DEF Entry
<1>5. ne = [me EXCEPT !.age = 0]
    BY DEF IncrementRetries, UpdateSeen
<1>6. /\ ne.m_state = WAIT_REPLY /\ ne.m_pending = e.m_pending /\ ne.age = 0
      /\ ne.m_retries = r + 1 /\ ne.waited = e.waited
      /\ ne.m_macAddress = e.m_macAddress /\ ne.given = e.given
    BY <1>1, <1>5 DEF Entry
<1> HIDE DEF me, ne
<1>7. ne \in Entry
    BY <1>4, <1>5 DEF Entry
<1>8. (r + 1) * W = r * W + W /\ r * W \in Nat
    BY <1>1, WFact
<1>9. InTime(ne, W)
    <2> DEFINE p == r * W
    <2>1. p \in Nat /\ p <= e.waited /\ e.waited <= p + W /\ (r + 1) * W = p + W
        BY <1>3, <1>8
    <2> HIDE DEF p
    <2>2. ne.m_retries * W <= ne.waited + W /\ ne.waited + W <= ne.m_retries * W + W
        BY <1>1, <1>6, <2>1, WFact
    <2>3. W \in 0..W /\ ne.age + W <= W /\ ne.m_retries <= MaxRetries
        BY <1>2, <1>6, WFact
    <2> QED BY <2>2, <2>3 DEF InTime
<1> QED BY <1>6, <1>7, <1>9 DEF ArpGood, ne, WAIT_REPLY, ALIVE, PERMANENT

(* An entry that does not wait does not depend on the timer. *)
LEMMA IdleGood ==
    ASSUME NEW d, NEW e, NEW t, NEW u, ArpGood(d, e, t), e.m_state # WAIT_REPLY
    PROVE  ArpGood(d, e, u)
BY DEF ArpGood

(* Time passes. *)
LEMMA OlderGood ==
    ASSUME NEW d \in Nodes, NEW e, NEW t \in 0..W \union {OFF}, t # 0, ArpGood(d, e, t)
    PROVE  ArpGood(d, Older(e), IF t = OFF THEN OFF ELSE t - 1)
<1> DEFINE ne == Older(e)
           cap == (MaxRetries + 2) * WaitReplyTimeout
           age == IF e.m_state \in {ABSENT, PERMANENT} \/ IsExpired(e) THEN e.age ELSE e.age + 1
           waited == IF e.m_state = WAIT_REPLY /\ e.waited < cap THEN e.waited + 1 ELSE e.waited
<1>1. /\ e \in Entry /\ e.m_retries \in Nat /\ e.waited \in Nat /\ e.age \in Nat
      /\ cap \in Int
    BY CacheAssumption DEF ArpGood, Entry
<1>2. age \in Nat /\ waited \in Nat /\ age <= e.age + 1 /\ waited <= e.waited + 1
    BY <1>1
<1>3. ne = [e EXCEPT !.age = age, !.waited = waited]
    BY <1>1 DEF Older
<1>4. e.m_state # WAIT_REPLY => waited = e.waited
    OBVIOUS
<1>5. e.m_state = WAIT_REPLY /\ e.waited < cap => waited = e.waited + 1
    OBVIOUS
<1> HIDE DEF age, waited, ne, cap
<1>6. ne \in Entry
    BY <1>1, <1>2, <1>3 DEF Entry
<1>7. /\ ne.m_state = e.m_state /\ ne.m_pending = e.m_pending /\ ne.age = age
      /\ ne.m_retries = e.m_retries /\ ne.waited = waited
      /\ ne.m_macAddress = e.m_macAddress /\ ne.given = e.given
    BY <1>1, <1>3 DEF Entry
<1>8. CASE e.m_state = WAIT_REPLY
    <2> DEFINE p == e.m_retries * W
               u == t - 1
    <2>1. /\ t \in 1..W /\ e.age + t <= W /\ e.m_retries <= MaxRetries
          /\ p <= e.waited + t /\ e.waited + t <= p + W
        BY <1>8, WFact DEF ArpGood, InTime, OFF
    <2>2. p \in Nat /\ p <= MaxRetries * W /\ MaxRetries * W \in Nat
        BY <1>1, <2>1, WFact, CacheAssumption, TimesMonotonic
    <2>3. cap = MaxRetries * W + W + W
        BY WFact, CacheAssumption, TwoMore DEF cap
    <2> HIDE DEF p
    <2>4. e.waited < cap
        BY <1>1, <2>1, <2>2, <2>3, WFact
    <2>5. waited = e.waited + 1
        BY <1>5, <1>8, <2>4
    <2>6. u \in 0..W /\ t # OFF
        BY <2>1, WFact DEF OFF
    <2>7. age + u <= W /\ p <= waited + u /\ waited + u <= p + W
        BY <1>1, <1>2, <2>1, <2>2, <2>5, WFact
    <2> HIDE DEF u
    <2>8. InTime(ne, u)
        BY <1>7, <2>1, <2>6, <2>7 DEF InTime, p
    <2> QED BY <1>6, <1>7, <1>8, <2>6, <2>8 DEF ArpGood, ne, u, WAIT_REPLY, ALIVE, PERMANENT
<1>9. CASE e.m_state # WAIT_REPLY
    <2>1. ArpGood(d, ne, t)
        BY <1>4, <1>6, <1>7, <1>9 DEF ArpGood
    <2> QED BY <1>7, <1>9, <2>1, IdleGood DEF ne
<1> QED BY <1>8, <1>9

-----------------------------------------------------------------------------
(* The inductive invariant implies the invariants the runs check. *)
LEMMA ArpInvImplies == ArpInv => ArpTypeOK /\ PendingWhileWaiting /\ NoFatalLookup /\ RightAddress
<1> SUFFICES ASSUME ArpInv PROVE ArpTypeOK /\ PendingWhileWaiting /\ NoFatalLookup /\ RightAddress
    OBVIOUS
<1>1. ArpTypeOK
    <2>1. \A n, d \in Nodes : Len(m_arpCache[n][d].m_pending) <= PendingQueueSize
        BY DEF ArpInv, ArpGood
    <2> QED BY <2>1 DEF ArpInv, ArpTypeOK
<1>2. PendingWhileWaiting
    BY DEF ArpInv, ArpGood, PendingWhileWaiting
<1>3. NoFatalLookup
    <2> SUFFICES ASSUME NEW n \in Nodes, NEW d \in Nodes, m_arpCache[n][d].m_state = WAIT_REPLY
                 PROVE  /\ m_waitReplyTimer[n] # OFF
                        /\ m_arpCache[n][d].age + m_waitReplyTimer[n] <= WaitReplyTimeout
        BY DEF NoFatalLookup
    <2>1. InTime(m_arpCache[n][d], m_waitReplyTimer[n])
        BY Zenon DEF ArpInv, ArpGood
    <2> QED BY <2>1, WFact, SMTT(30) DEF InTime, OFF
<1>4. RightAddress
    BY DEF ArpInv, ArpGood, RightAddress
<1> QED BY <1>1, <1>2, <1>3, <1>4

LEMMA ArpInitInv == ArpInit => ArpInv
<1> SUFFICES ASSUME ArpInit PROVE ArpInv
    OBVIOUS
<1>1. NoEntry \in Entry
    BY NoEntryGood DEF ArpGood
<1>2. m_arpCache \in [Nodes -> [Nodes -> Entry]]
    BY <1>1 DEF ArpInit
<1>3. \A n, d \in Nodes : ArpGood(d, m_arpCache[n][d], m_waitReplyTimer[n])
    BY NoEntryGood DEF ArpInit
<1>4. link \in [Message -> 0..Copies]
    BY ProtocolAssumption DEF ArpInit
<1> QED BY <1>2, <1>3, <1>4 DEF ArpInv, ArpInit

(* A step that changes one entry into a good one, and no timer. *)
LEMMA EntryChanges ==
    ASSUME ArpInv, NEW n \in Nodes, NEW d \in Nodes, NEW e,
           ArpGood(d, e, m_waitReplyTimer[n]), SetEntry(n, d, e), UNCHANGED m_waitReplyTimer,
           requests' \in [Nodes -> SUBSET RequestEvent], link' \in [Message -> 0..Copies]
    PROVE  ArpInv'
<1>1. e \in Entry
    BY DEF ArpGood
<1>2. m_arpCache' \in [Nodes -> [Nodes -> Entry]]
    BY <1>1 DEF ArpInv, SetEntry
<1>3. ASSUME NEW x \in Nodes, NEW y \in Nodes
      PROVE  ArpGood(y, m_arpCache'[x][y], m_waitReplyTimer'[x])
    <2>1. m_arpCache'[x][y] = IF x = n /\ y = d THEN e ELSE m_arpCache[x][y]
        BY DEF ArpInv, SetEntry
    <2>2. ArpGood(y, m_arpCache'[x][y], m_waitReplyTimer[x])
        BY <2>1, Zenon DEF ArpInv
    <2> QED BY <2>2, Zenon
<1> QED BY <1>2, <1>3 DEF ArpInv

(* A step that changes the cache of one node, and its timer. *)
LEMMA CacheChanges ==
    ASSUME ArpInv, NEW n \in Nodes, NEW entries \in [Nodes -> Entry],
           NEW t \in 0..WaitReplyTimeout \union {OFF},
           \A d \in Nodes : ArpGood(d, entries[d], t),
           m_arpCache' = [m_arpCache EXCEPT ![n] = entries],
           m_waitReplyTimer' = [m_waitReplyTimer EXCEPT ![n] = t],
           requests' \in [Nodes -> SUBSET RequestEvent], link' \in [Message -> 0..Copies]
    PROVE  ArpInv'
<1>1. m_arpCache' \in [Nodes -> [Nodes -> Entry]]
    BY DEF ArpInv
<1>2. m_waitReplyTimer' \in [Nodes -> 0..WaitReplyTimeout \union {OFF}]
    BY DEF ArpInv
<1>3. ASSUME NEW x \in Nodes, NEW y \in Nodes
      PROVE  ArpGood(y, m_arpCache'[x][y], m_waitReplyTimer'[x])
    <2>1. CASE x = n
        <3>1. m_arpCache'[x] = entries /\ m_waitReplyTimer'[x] = t
            BY <2>1 DEF ArpInv
        <3> QED BY <3>1
    <2>2. CASE x # n
        <3>1. m_arpCache'[x] = m_arpCache[x] /\ m_waitReplyTimer'[x] = m_waitReplyTimer[x]
            BY <2>2 DEF ArpInv
        <3> QED BY <3>1 DEF ArpInv
    <2> QED BY <2>1, <2>2
<1> QED BY <1>1, <1>2, <1>3 DEF ArpInv

(* The link keeps its bound. *)
LEMMA SentType ==
    ASSUME ArpInv, NEW ms PROVE Sent(ms) \in [Message -> 0..Copies]
BY ProtocolAssumption DEF ArpInv, Sent

LEMMA TakenType ==
    ASSUME ArpInv, NEW m \in Message, link[m] > 0
    PROVE  Taken(m) \in [Message -> 0..Copies]
BY ProtocolAssumption DEF ArpInv, Taken

-----------------------------------------------------------------------------
(* One lemma per action. *)

LEMMA LookupStartsInv ==
    ASSUME ArpInv, NEW n \in Nodes, NEW d \in Nodes, NEW packet \in Packets,
           LookupStarts(n, d, packet)
    PROVE  ArpInv'
<1> DEFINE e == m_arpCache[n][d]
           t == m_waitReplyTimer[n]
           u == StartWaitReplyTimer(t)
           entries == [m_arpCache[n] EXCEPT ![d] = MarkWaitReply(e, packet)]
<1>1. /\ \A x \in Nodes : ArpGood(x, m_arpCache[n][x], t)
      /\ t \in 0..W \union {OFF} /\ m_arpCache[n] \in [Nodes -> Entry]
    BY WFact DEF ArpInv
<1>2. e.m_state \notin {WAIT_REPLY, PERMANENT}
    BY DEF LookupStarts, ABSENT, ALIVE, DEAD, WAIT_REPLY, PERMANENT
<1>3. ArpGood(d, MarkWaitReply(e, packet), u)
    BY <1>1, <1>2, MarkWaitReplyGood
<1>4. \A x \in Nodes : ArpGood(x, m_arpCache[n][x], u)
    BY <1>1, TimerStartedGood
<1>5. MarkWaitReply(e, packet) \in Entry
    BY <1>3 DEF ArpGood
<1>6. entries \in [Nodes -> Entry] /\ \A x \in Nodes : ArpGood(x, entries[x], u)
    BY <1>1, <1>3, <1>4, <1>5
<1>7. u \in 0..WaitReplyTimeout \union {OFF}
    <2>1. u = t \/ u = WaitReplyTimeout
        BY Zenon DEF StartWaitReplyTimer
    <2>2. t \in 0..W \union {OFF} /\ W = WaitReplyTimeout
        BY <1>1, WFact, Zenon
    <2> HIDE DEF u, t, e, entries
    <2>3. W \in 0..W
        BY WFact
    <2> QED BY <2>1, <2>2, <2>3, Zenon
<1>8. m_arpCache' = [m_arpCache EXCEPT ![n] = entries]
    BY DEF LookupStarts, SetEntry, ArpInv
<1>9. m_waitReplyTimer' = [m_waitReplyTimer EXCEPT ![n] = u] /\ link' \in [Message -> 0..Copies]
    BY DEF LookupStarts, ArpInv
<1>10. requests' \in [Nodes -> SUBSET RequestEvent]
    <2>1. PICK delay \in 0..Jitter :
            requests' = [requests EXCEPT ![n] = @ \union {[delay |-> delay, to |-> d]}]
        BY DEF LookupStarts
    <2>2. [delay |-> delay, to |-> d] \in RequestEvent
        BY DEF RequestEvent
    <2> QED BY <2>1, <2>2 DEF ArpInv
<1> HIDE DEF entries, u
<1> QED BY <1>6, <1>7, <1>8, <1>9, <1>10, CacheChanges

LEMMA LookupInv ==
    ASSUME ArpInv, NEW n \in Nodes, NEW packet \in Packets, Lookup(n, packet)
    PROVE  ArpInv'
<1> DEFINE d == Target[packet]
<1>1. d \in Nodes
    BY ProtocolAssumption
<1>2. LookupStarts(n, d, packet) \/ LookupWaits(n, d, packet)
    BY DEF Lookup
<1> HIDE DEF d
<1>3. CASE LookupStarts(n, d, packet)
    BY <1>1, <1>3, LookupStartsInv
<1>4. CASE LookupWaits(n, d, packet)
    <2>1. ArpGood(d, UpdateWaitReply(m_arpCache[n][d], packet), m_waitReplyTimer[n])
        BY <1>1, <1>4, UpdateWaitReplyGood DEF LookupWaits, ArpInv
    <2> QED BY <1>1, <1>4, <2>1, EntryChanges DEF LookupWaits, ArpInv
<1> QED BY <1>2, <1>3, <1>4

LEMMA SendArpRequestInv ==
    ASSUME ArpInv, NEW n \in Nodes, NEW r \in requests[n], SendArpRequest(n, r)
    PROVE  ArpInv'
<1>1. requests' \in [Nodes -> SUBSET RequestEvent]
    BY DEF SendArpRequest, ArpInv
<1>2. link' \in [Message -> 0..Copies]
    BY SentType DEF SendArpRequest
<1> QED BY <1>1, <1>2 DEF SendArpRequest, ArpInv

LEMMA HandleWaitReplyTimeoutInv ==
    ASSUME ArpInv, NEW n \in Nodes, HandleWaitReplyTimeout(n)
    PROVE  ArpInv'
<1> DEFINE old == m_arpCache[n]
           entries == AfterTimeout(old)
           t == IF Retried(old) # {} THEN WaitReplyTimeout ELSE OFF
<1>1. old \in [Nodes -> Entry] /\ \A d \in Nodes : ArpGood(d, old[d], 0)
    BY DEF ArpInv, HandleWaitReplyTimeout
<1>2. entries = [d \in Nodes |-> IF d \notin Waiting(old) THEN old[d]
                                 ELSE IF RetriesLeft(old[d]) THEN IncrementRetries(old[d])
                                 ELSE MarkDead(old[d])]
    BY <1>1 DEF AfterTimeout
<1>3. ASSUME NEW d \in Nodes PROVE ArpGood(d, entries[d], t)
    <2>1. CASE d \notin Waiting(old)
        <3>1. old[d].m_state # WAIT_REPLY /\ entries[d] = old[d]
            BY <1>1, <1>2, <2>1 DEF Waiting
        <3> QED BY <1>1, <3>1, IdleGood
    <2>2. CASE d \in Waiting(old) /\ RetriesLeft(old[d])
        <3>1. t = W /\ entries[d] = IncrementRetries(old[d]) /\ old[d].m_state = WAIT_REPLY
            BY <1>2, <2>2, WFact DEF Retried, Waiting
        <3> QED BY <1>1, <2>2, <3>1, IncrementRetriesGood
    <2>3. CASE d \in Waiting(old) /\ ~RetriesLeft(old[d])
        <3>1. entries[d] = MarkDead(old[d]) /\ old[d] \in Entry
            BY <1>1, <1>2, <2>3
        <3>2. old[d].given = UNKNOWN
            BY <1>1, <2>3 DEF ArpGood, Waiting, WAIT_REPLY, PERMANENT
        <3> QED BY <3>1, <3>2, MarkDeadGood
    <2> QED BY <2>1, <2>2, <2>3
<1>4. entries \in [Nodes -> Entry]
    BY <1>2, <1>3 DEF ArpGood
<1>5. t \in 0..WaitReplyTimeout \union {OFF}
    BY CacheAssumption
<1>6. /\ m_arpCache' = [m_arpCache EXCEPT ![n] = entries]
      /\ m_waitReplyTimer' = [m_waitReplyTimer EXCEPT ![n] = t]
      /\ requests' \in [Nodes -> SUBSET RequestEvent]
    BY DEF HandleWaitReplyTimeout, ArpInv
<1>7. link' \in [Message -> 0..Copies]
    BY SentType DEF HandleWaitReplyTimeout
<1> HIDE DEF entries, t
<1> QED BY <1>3, <1>4, <1>5, <1>6, <1>7, CacheChanges

(* What is on the link was built by Request or Reply: it carries the        *)
(* hardware address of the node that sent it.                               *)
LEMMA MessageFacts ==
    ASSUME NEW m \in Message
    PROVE  /\ m.m_ipv4Source \in Nodes /\ m.m_ipv4Dest \in Nodes
           /\ m.m_macSource = Hardware[m.m_ipv4Source]
<1>1. ASSUME NEW r \in Requests
      PROVE  /\ r.m_ipv4Source \in Nodes /\ r.m_ipv4Dest \in Nodes
             /\ r.m_macSource = Hardware[r.m_ipv4Source]
    <2>1. PICK n \in Nodes, d \in Nodes : r = Request(n, d)
        BY DEF Requests
    <2> QED BY <2>1 DEF Request
<1>2. CASE m \in Requests
    BY <1>1, <1>2
<1>3. CASE m \in Replies
    <2>1. PICK r \in Requests : m = Reply(r)
        BY <1>3 DEF Replies
    <2>2. r.m_ipv4Source \in Nodes /\ r.m_ipv4Dest \in Nodes
        BY <1>1
    <2> QED BY <2>1, <2>2 DEF Reply
<1> QED BY <1>2, <1>3 DEF Message

LEMMA MessagesInv ==
    ASSUME ArpInv, NEW m \in Message, ReceiveRequest(m) \/ ReceiveReply(m) \/ Lose(m)
    PROVE  ArpInv'
<1>1. link[m] > 0 /\ m.m_ipv4Source \in Nodes /\ m.m_ipv4Dest \in Nodes
    BY MessageFacts DEF ReceiveRequest, ReceiveReply, Lose
<1>2. CASE ReceiveRequest(m)
    <2>1. link' \in [Message -> 0..Copies]
        <3>1. Taken(m) \in [Message -> 0..Copies]
            BY <1>1, TakenType
        <3> DEFINE f == Taken(m)
                   r == Reply(m)
        <3>2. r \in Message
            BY <1>2, Zenon DEF ReceiveRequest, Message, Replies
        <3>3. link' = [f EXCEPT ![r] = IF f[r] < Copies THEN f[r] + 1 ELSE f[r]]
            BY <1>2 DEF ReceiveRequest
        <3> HIDE DEF f, r
        <3>4. f[r] \in 0..Copies
            BY <3>1, <3>2 DEF f
        <3>5. (IF f[r] < Copies THEN f[r] + 1 ELSE f[r]) \in 0..Copies
            BY <3>4, ProtocolAssumption
        <3> QED BY <3>1, <3>3, <3>5 DEF f
    <2> QED BY <1>2, <2>1 DEF ReceiveRequest, ArpInv
<1>3. CASE ReceiveReply(m)
    <2>1. link' \in [Message -> 0..Copies] /\ UNCHANGED <<m_waitReplyTimer, requests>>
        BY <1>1, <1>3, TakenType DEF ReceiveReply
    <2>2. CASE UNCHANGED m_arpCache
        BY <2>1, <2>2 DEF ArpInv
    <2> DEFINE n == m.m_ipv4Dest
               d == m.m_ipv4Source
               e == m_arpCache[n][d]
    <2>3. CASE e.m_state = WAIT_REPLY /\ SetEntry(n, d, MarkAlive(e, m.m_macSource))
        <3>1. e \in Entry /\ ArpGood(d, e, m_waitReplyTimer[n])
            BY <1>1 DEF ArpInv
        <3>2. e.given = UNKNOWN
            BY <2>3, <3>1 DEF ArpGood, WAIT_REPLY, PERMANENT
        <3>3. m.m_macSource = Hardware[d]
            BY <1>3, MessageFacts DEF ReceiveReply
        <3> HIDE DEF e
        <3>4. ArpGood(d, MarkAlive(e, m.m_macSource), m_waitReplyTimer[n])
            BY <1>1, <3>1, <3>2, <3>3, MarkAliveGood
        <3>5. requests' \in [Nodes -> SUBSET RequestEvent] /\ UNCHANGED m_waitReplyTimer
            BY <2>1 DEF ArpInv
        <3> QED BY <1>1, <2>1, <2>3, <3>4, <3>5, EntryChanges
    <2> QED BY <1>3, <2>2, <2>3 DEF ReceiveReply
<1>4. CASE Lose(m)
    <2>1. link' \in [Message -> 0..Copies]
        BY <1>1, <1>4, TakenType DEF Lose
    <2> QED BY <1>4, <2>1 DEF Lose, ArpInv
<1> QED BY <1>2, <1>3, <1>4

LEMMA SeePacketInv ==
    ASSUME ArpInv, NEW n \in Nodes, NEW d \in Nodes, SeePacket(n, d)
    PROVE  ArpInv'
<1>1. ArpGood(d, UpdateSeen(m_arpCache[n][d]), m_waitReplyTimer[n])
    BY UpdateSeenGood DEF SeePacket, ArpInv
<1> QED BY <1>1, EntryChanges DEF SeePacket, ArpInv

LEMMA SeeRoutedInv ==
    ASSUME ArpInv, NEW n \in Nodes, NEW mac \in Macs, SeeRouted(n, mac)
    PROVE  ArpInv'
<1> DEFINE t == m_waitReplyTimer[n]
           seen == {d \in Nodes : /\ m_arpCache[n][d].m_macAddress = mac
                                  /\ m_arpCache[n][d].m_state = ALIVE}
           entries == [d \in Nodes |-> IF d \in seen THEN UpdateSeen(m_arpCache[n][d])
                                       ELSE m_arpCache[n][d]]
<1>1. ASSUME NEW d \in Nodes PROVE ArpGood(d, entries[d], t)
    BY UpdateSeenGood DEF ArpInv
<1>2. entries \in [Nodes -> Entry]
    BY <1>1 DEF ArpGood
<1>3. t \in 0..WaitReplyTimeout \union {OFF}
    BY DEF ArpInv
<1>4. m_arpCache' = [m_arpCache EXCEPT ![n] = entries]
    BY DEF SeeRouted, ArpInv
<1>5. /\ m_waitReplyTimer' = [m_waitReplyTimer EXCEPT ![n] = t]
      /\ requests' \in [Nodes -> SUBSET RequestEvent] /\ link' \in [Message -> 0..Copies]
    BY DEF SeeRouted, ArpInv
<1> HIDE DEF entries, t
<1> QED BY <1>1, <1>2, <1>3, <1>4, <1>5, CacheChanges

(* The user's calls. *)
LEMMA ArpUserCallsInv ==
    ASSUME ArpInv, NEW n \in Nodes, NEW d \in Nodes,
           Flush(n) \/ Remove(n, d) \/ \E mac \in Given : SetPermanent(n, d, mac)
    PROVE  ArpInv'
<1>1. CASE Flush(n)
    <2> DEFINE entries == [x \in Nodes |-> NoEntry]
    <2>1. entries \in [Nodes -> Entry] /\ \A x \in Nodes : ArpGood(x, entries[x], OFF)
        BY NoEntryGood DEF ArpGood
    <2>2. /\ m_arpCache' = [m_arpCache EXCEPT ![n] = entries]
          /\ m_waitReplyTimer' = [m_waitReplyTimer EXCEPT ![n] = OFF]
          /\ requests' \in [Nodes -> SUBSET RequestEvent] /\ link' \in [Message -> 0..Copies]
        BY <1>1 DEF Flush, ArpInv
    <2> HIDE DEF entries
    <2> QED BY <2>1, <2>2, CacheChanges
<1>2. CASE Remove(n, d)
    <2>1. /\ SetEntry(n, d, NoEntry) /\ UNCHANGED m_waitReplyTimer
          /\ requests' \in [Nodes -> SUBSET RequestEvent] /\ link' \in [Message -> 0..Copies]
        BY <1>2 DEF Remove, ArpInv
    <2>2. ArpGood(d, NoEntry, m_waitReplyTimer[n])
        BY NoEntryGood
    <2> QED BY <2>1, <2>2, EntryChanges
<1>3. ASSUME NEW mac \in Given, SetPermanent(n, d, mac) PROVE ArpInv'
    <2> DEFINE e == MarkPermanent(m_arpCache[n][d], mac)
    <2>1. /\ SetEntry(n, d, e) /\ UNCHANGED m_waitReplyTimer
          /\ requests' \in [Nodes -> SUBSET RequestEvent] /\ link' \in [Message -> 0..Copies]
        BY <1>3 DEF SetPermanent, ArpInv
    <2>2. ArpGood(d, e, m_waitReplyTimer[n])
        BY ProtocolAssumption, MarkPermanentGood DEF ArpInv
    <2> HIDE DEF e
    <2> QED BY <2>1, <2>2, EntryChanges
<1> QED BY <1>1, <1>2, <1>3

LEMMA TickInv == ASSUME ArpInv, Tick PROVE ArpInv'
<1>1. ASSUME NEW n \in Nodes, NEW d \in Nodes
      PROVE  ArpGood(d, m_arpCache'[n][d], m_waitReplyTimer'[n])
    <2>1. /\ m_waitReplyTimer[n] \in 0..W \union {OFF} /\ m_waitReplyTimer[n] # 0
          /\ ArpGood(d, m_arpCache[n][d], m_waitReplyTimer[n])
        BY WFact DEF ArpInv, Tick
    <2>2. /\ m_arpCache'[n][d] = Older(m_arpCache[n][d])
          /\ m_waitReplyTimer'[n] = IF m_waitReplyTimer[n] = OFF THEN OFF
                                    ELSE m_waitReplyTimer[n] - 1
        BY DEF Tick
    <2> QED BY <2>1, <2>2, OlderGood
<1>2. m_arpCache' \in [Nodes -> [Nodes -> Entry]]
    <2>1. \A n, d \in Nodes : m_arpCache'[n][d] \in Entry
        BY <1>1 DEF ArpGood
    <2>2. m_arpCache' = [n \in Nodes |-> [d \in Nodes |-> m_arpCache'[n][d]]]
        BY DEF Tick
    <2> QED BY <2>1, <2>2
<1>3. m_waitReplyTimer' \in [Nodes -> 0..WaitReplyTimeout \union {OFF}]
    <2>1. ASSUME NEW n \in Nodes
          PROVE  m_waitReplyTimer'[n] \in 0..WaitReplyTimeout \union {OFF}
        <3>1. m_waitReplyTimer[n] \in 0..WaitReplyTimeout \union {OFF} /\ m_waitReplyTimer[n] # 0
            BY DEF ArpInv, Tick
        <3>2. m_waitReplyTimer'[n] = IF m_waitReplyTimer[n] = OFF THEN OFF
                                     ELSE m_waitReplyTimer[n] - 1
            BY DEF Tick
        <3> QED BY <3>1, <3>2, CacheAssumption
    <2>2. m_waitReplyTimer' = [n \in Nodes |-> m_waitReplyTimer'[n]]
        BY DEF Tick
    <2> QED BY <2>1, <2>2
<1>4. requests' \in [Nodes -> SUBSET RequestEvent]
    <2>1. ASSUME NEW n \in Nodes, NEW r \in requests[n]
          PROVE  [r EXCEPT !.delay = @ - 1] \in RequestEvent
        <3>1. r \in RequestEvent /\ r.delay > 0
            BY DEF ArpInv, Tick
        <3>2. r.delay - 1 \in 0..Jitter
            BY <3>1, ProtocolAssumption DEF RequestEvent
        <3> QED BY <3>1, <3>2 DEF RequestEvent
    <2> QED BY <2>1 DEF Tick
<1> QED BY <1>1, <1>2, <1>3, <1>4 DEF ArpInv, Tick

-----------------------------------------------------------------------------
(* Every step keeps the invariant. *)
LEMMA ArpNextInv == ArpInv /\ [ArpNext]_arpVars => ArpInv'
<1> SUFFICES ASSUME ArpInv, [ArpNext]_arpVars PROVE ArpInv'
    OBVIOUS
<1>1. ASSUME NEW n \in Senders, NEW packet \in Packets, Lookup(n, packet) PROVE ArpInv'
    BY <1>1, LookupInv, ProtocolAssumption
<1>2. ASSUME NEW n \in Nodes, DueEvent(n) PROVE ArpInv'
    BY <1>2, HandleWaitReplyTimeoutInv, SendArpRequestInv DEF DueEvent
<1>3. ASSUME NEW n \in Nodes, \/ \E d \in Nodes : SeePacket(n, d)
                                \/ \E mac \in Macs : SeeRouted(n, mac)
      PROVE  ArpInv'
    BY <1>3, SeePacketInv, SeeRoutedInv
<1>4. ASSUME NEW m \in Message, ReceiveRequest(m) \/ ReceiveReply(m) \/ Lose(m) PROVE ArpInv'
    BY <1>4, MessagesInv
<1>5. ASSUME NEW n \in Senders, NEW d \in Managed,
             Flush(n) \/ Remove(n, d) \/ \E mac \in Given : SetPermanent(n, d, mac)
      PROVE  ArpInv'
    BY <1>5, ArpUserCallsInv, ProtocolAssumption
<1>6. CASE Tick
    BY <1>6, TickInv
<1>7. CASE UNCHANGED arpVars
    BY <1>7 DEF ArpInv, arpVars
<1> QED BY <1>1, <1>2, <1>3, <1>4, <1>5, <1>6, <1>7 DEF ArpNext

(* The inductive invariant holds in every behaviour of the nodes and the    *)
(* link.                                                                    *)
THEOREM ArpInvHolds == ArpSpec => []ArpInv
BY ArpInitInv, ArpNextInv, PTL DEF ArpSpec

(* Types, and the limit of the pending queues. *)
THEOREM ArpTypes == ArpSpec => []ArpTypeOK
BY ArpInvHolds, ArpInvImplies, PTL

(* Packets wait in an entry exactly as long as it waits for a reply, unless *)
(* MarkPermanent left them behind.                                          *)
THEOREM Pending == ArpSpec => []PendingWhileWaiting
BY ArpInvHolds, ArpInvImplies, PTL

(* Whatever the timeouts, the fatal error of Lookup cannot be reached. *)
THEOREM LookupNeverFatal == ArpSpec => []NoFatalLookup
BY ArpInvHolds, ArpInvImplies, PTL

(* Lost, late and repeated replies: an address that ARP resolved is that of *)
(* the destination, and the user's permanent addresses stay as they are.    *)
THEOREM Addresses == ArpSpec => []RightAddress
BY ArpInvHolds, ArpInvImplies, PTL

-----------------------------------------------------------------------------
(* What a step may do to an entry that waits. *)

LEMMA OneEntry ==
    ASSUME ArpInv, NEW x \in Nodes, NEW y \in Nodes, NEW e, SetEntry(x, y, e),
           NEW n \in Nodes, NEW d \in Nodes
    PROVE  m_arpCache'[n][d] = IF x = n /\ y = d THEN e ELSE m_arpCache[n][d]
BY DEF SetEntry, ArpInv

(* Only the timer gives an entry up, and only when it has no retries left. *)
LEMMA GivesUpStep ==
    ASSUME ArpInv, ArpNext, NEW n \in Nodes, NEW d \in Nodes,
           m_arpCache[n][d].m_state = WAIT_REPLY, m_arpCache'[n][d].m_state = DEAD
    PROVE  m_waitReplyTimer[n] = 0 /\ ~RetriesLeft(m_arpCache[n][d])
<1>0. \A x, y \in Nodes : m_arpCache[x][y] \in Entry
    BY DEF ArpInv
<1>set. ASSUME NEW x \in Nodes, NEW y \in Nodes, NEW e, SetEntry(x, y, e), e.m_state # DEAD
        PROVE  FALSE
    <2>1. m_arpCache'[n][d] = IF x = n /\ y = d THEN e ELSE m_arpCache[n][d]
        BY <1>set DEF SetEntry, ArpInv
    <2> QED BY <1>set, <2>1 DEF WAIT_REPLY, DEAD
<1>1. ASSUME NEW x \in Senders, NEW packet \in Packets, Lookup(x, packet) PROVE FALSE
    <2> DEFINE y == Target[packet]
               e == m_arpCache[x][y]
    <2>1. x \in Nodes /\ y \in Nodes /\ e \in Entry
        BY <1>0, ProtocolAssumption
    <2>2. MarkWaitReply(e, packet).m_state = WAIT_REPLY
        BY <2>1 DEF MarkWaitReply, UpdateSeen, Entry
    <2>3. UpdateWaitReply(e, packet).m_state = e.m_state
        BY <2>1 DEF UpdateWaitReply, Entry
    <2>4. CASE LookupStarts(x, y, packet)
        <3>1. SetEntry(x, y, MarkWaitReply(e, packet))
            BY <2>4 DEF LookupStarts
        <3> QED BY <2>1, <2>2, <3>1, <1>set DEF WAIT_REPLY, DEAD
    <2>5. CASE LookupWaits(x, y, packet)
        <3>1. SetEntry(x, y, UpdateWaitReply(e, packet)) /\ e.m_state = WAIT_REPLY
            BY <2>5 DEF LookupWaits
        <3> QED BY <2>1, <2>3, <3>1, <1>set DEF WAIT_REPLY, DEAD
    <2> QED BY <1>1, <2>4, <2>5 DEF Lookup
<1>2. ASSUME NEW x \in Nodes, HandleWaitReplyTimeout(x)
      PROVE  m_waitReplyTimer[n] = 0 /\ ~RetriesLeft(m_arpCache[n][d])
    <2>1. m_arpCache' = [m_arpCache EXCEPT ![x] = AfterTimeout(m_arpCache[x])]
          /\ m_waitReplyTimer[x] = 0 /\ m_arpCache \in [Nodes -> [Nodes -> Entry]]
        BY <1>2 DEF HandleWaitReplyTimeout, ArpInv
    <2>2. x = n
        BY <2>1 DEF WAIT_REPLY, DEAD
    <2>3. m_arpCache'[n][d] = IF d \notin Waiting(m_arpCache[n]) THEN m_arpCache[n][d]
                              ELSE IF RetriesLeft(m_arpCache[n][d])
                                   THEN IncrementRetries(m_arpCache[n][d])
                                   ELSE MarkDead(m_arpCache[n][d])
        BY <2>1, <2>2 DEF AfterTimeout
    <2>4. IncrementRetries(m_arpCache[n][d]).m_state = WAIT_REPLY
        BY <1>0 DEF IncrementRetries, UpdateSeen, Entry
    <2>5. d \in Waiting(m_arpCache[n])
        BY <2>1 DEF Waiting
    <2> QED BY <2>1, <2>2, <2>3, <2>4, <2>5 DEF WAIT_REPLY, DEAD
<1>3. ASSUME NEW x \in Nodes, NEW r \in requests[x], SendArpRequest(x, r) PROVE FALSE
    BY <1>3 DEF SendArpRequest, WAIT_REPLY, DEAD
<1>4. ASSUME NEW x \in Nodes, \/ \E y \in Nodes : SeePacket(x, y)
                                \/ \E mac \in Macs : SeeRouted(x, mac)
      PROVE  FALSE
    <2>1. ASSUME NEW y \in Nodes, SeePacket(x, y) PROVE FALSE
        BY <2>1, OneEntry, SMTT(30) DEF SeePacket, WAIT_REPLY, DEAD, ALIVE
    <2>2. ASSUME NEW mac \in Macs, SeeRouted(x, mac) PROVE FALSE
        <3>1. m_arpCache'[n][d] \in {m_arpCache[n][d], UpdateSeen(m_arpCache[n][d])}
            BY <2>2 DEF SeeRouted, ArpInv
        <3>2. UpdateSeen(m_arpCache[n][d]).m_state = m_arpCache[n][d].m_state
            BY <1>0 DEF UpdateSeen, Entry
        <3> QED BY <3>1, <3>2 DEF WAIT_REPLY, DEAD
    <2> QED BY <1>4, <2>1, <2>2
<1>5. ASSUME NEW m \in Message, ReceiveRequest(m) \/ ReceiveReply(m) \/ Lose(m) PROVE FALSE
    <2> DEFINE x == m.m_ipv4Dest
               y == m.m_ipv4Source
               e == MarkAlive(m_arpCache[x][y], m.m_macSource)
    <2>1. x \in Nodes /\ y \in Nodes
        BY MessageFacts
    <2>2. e.m_state = ALIVE
        BY <1>0, <2>1 DEF MarkAlive, UpdateSeen, Entry
    <2>3. CASE ReceiveReply(m)
        <3>1. SetEntry(x, y, e) \/ m_arpCache' = m_arpCache
            BY <2>3 DEF ReceiveReply
        <3>2. m_arpCache' # m_arpCache
            BY DEF WAIT_REPLY, DEAD
        <3> QED BY <2>1, <2>2, <3>1, <3>2, <1>set DEF ALIVE, DEAD
    <2>4. CASE ReceiveRequest(m) \/ Lose(m)
        BY <2>4 DEF ReceiveRequest, Lose, WAIT_REPLY, DEAD
    <2> QED BY <1>5, <2>3, <2>4
<1>6. ASSUME NEW x \in Senders, NEW y \in Managed,
             Flush(x) \/ Remove(x, y) \/ \E mac \in Given : SetPermanent(x, y, mac)
      PROVE  FALSE
    <2>1. x \in Nodes /\ y \in Nodes
        BY ProtocolAssumption
    <2>2. CASE Flush(x)
        <3>1. m_arpCache'[n][d] = IF x = n THEN NoEntry ELSE m_arpCache[n][d]
            BY <2>1, <2>2 DEF Flush, ArpInv
        <3>2. NoEntry.m_state = ABSENT
            BY DEF NoEntry
        <3> QED BY <3>1, <3>2 DEF ABSENT, WAIT_REPLY, DEAD
    <2>3. CASE Remove(x, y)
        BY <2>1, <2>3, <1>set DEF Remove, NoEntry, ABSENT, DEAD
    <2>4. ASSUME NEW mac \in Given, SetPermanent(x, y, mac) PROVE FALSE
        <3>1. MarkPermanent(m_arpCache[x][y], mac).m_state = PERMANENT
            BY <1>0, <2>1 DEF MarkPermanent, UpdateSeen, Entry
        <3> QED BY <2>1, <2>4, <3>1, <1>set DEF SetPermanent, PERMANENT, DEAD
    <2> QED BY <1>6, <2>2, <2>3, <2>4
<1>7. ASSUME Tick PROVE FALSE
    <2>1. m_arpCache'[n][d] = Older(m_arpCache[n][d])
        BY <1>7 DEF Tick
    <2>2. Older(m_arpCache[n][d]).m_state = m_arpCache[n][d].m_state
        BY <1>0 DEF Older, Entry
    <2> QED BY <2>1, <2>2 DEF WAIT_REPLY, DEAD
<1> QED BY <1>1, <1>2, <1>3, <1>4, <1>5, <1>6, <1>7 DEF ArpNext, DueEvent

(* An address that cannot be resolved is given up after MaxRetries whole    *)
(* waits and before one more is over, whoever started the shared timer.     *)
THEOREM GivingUp == ArpSpec => GivenUpInTime
<1> DEFINE Step ==
        \A n, d \in Nodes :
            m_arpCache[n][d].m_state = WAIT_REPLY /\ m_arpCache'[n][d].m_state = DEAD =>
                m_arpCache[n][d].waited \in
                    MaxRetries * WaitReplyTimeout .. (MaxRetries + 1) * WaitReplyTimeout
<1>1. ArpInv /\ [ArpNext]_arpVars => [Step]_arpVars
    <2> SUFFICES ASSUME ArpInv, ArpNext, NEW n \in Nodes, NEW d \in Nodes,
                        m_arpCache[n][d].m_state = WAIT_REPLY, m_arpCache'[n][d].m_state = DEAD
                 PROVE  m_arpCache[n][d].waited \in
                            MaxRetries * WaitReplyTimeout .. (MaxRetries + 1) * WaitReplyTimeout
        OBVIOUS
    <2> DEFINE e == m_arpCache[n][d]
    <2>1. m_waitReplyTimer[n] = 0 /\ ~RetriesLeft(e)
        BY GivesUpStep
    <2>2. e \in Entry /\ InTime(e, 0)
        BY <2>1 DEF ArpInv, ArpGood
    <2>3. e.m_retries \in Nat /\ e.waited \in Nat
        BY <2>2 DEF Entry
    <2> HIDE DEF e
    <2>4. e.m_retries = MaxRetries
        BY <2>1, <2>2, <2>3, CacheAssumption, SMTT(30) DEF RetriesLeft, InTime
    <2> DEFINE p == MaxRetries * WaitReplyTimeout
    <2>5. p \in Nat /\ (MaxRetries + 1) * WaitReplyTimeout = p + WaitReplyTimeout
        BY CacheAssumption, TwoMore, TimesMonotonic
    <2>6. p <= e.waited + 0 /\ e.waited + 0 <= p + WaitReplyTimeout
        BY <2>2, <2>4, WFact DEF InTime
    <2> HIDE DEF p
    <2>7. e.waited \in p .. p + WaitReplyTimeout
        BY <2>3, <2>5, <2>6, CacheAssumption, SMTT(30)
    <2> QED BY <2>5, <2>7 DEF e, p
<1>2. ArpSpec => [][Step]_arpVars
    BY ArpInvHolds, <1>1, PTL DEF ArpSpec
<1> QED BY <1>2 DEF GivenUpInTime
=============================================================================
