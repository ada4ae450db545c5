----------------------------- MODULE NullMessage -----------------------------
(***************************************************************************)
(* The conservative parallel engine ns3::NullMessageSimulatorImpl, with    *)
(* NullMessageMpiInterface, RemoteChannelBundle and the manager of the     *)
(* bundles: every rank runs its own event loop and may process an event    *)
(* only up to its safe time, the least of the guarantees its neighbours    *)
(* gave it in packet messages and null messages.                           *)
(*                                                                         *)
(* The events that matter are told apart by kind: "user" (arbitrary model  *)
(* code, and the reception of a packet), "null" (the null message event of *)
(* a bundle), "complete" (TransmitComplete of a device), "stop", and       *)
(* "cancelled" events, which stay in the queue.  A queue is the sequence   *)
(* of its events, earliest first and first in, first out among equals.     *)
(*                                                                         *)
(* The devices are point-to-point devices on a link to another rank; their *)
(* transmit state is part of the model because the guarantees rest on it.  *)
(* MPI messages between two ranks arrive in the order they are sent.       *)
(***************************************************************************)
EXTENDS EventQueue

CONSTANT Networks   \* a network is a partition of the simulation over ranks

(* What a program that runs on several ranks is told before it starts:      *)
(* the ranks, the devices on links between ranks (From and To are the ranks *)
(* of a device and of its peer, the other device of the channel), the delay *)
(* of each channel, the time to transmit a packet and the gap between two,  *)
(* the attribute SchedulerTune in percent, when each rank's program asked   *)
(* to stop, the delays user code passes to Schedule, and bounds on the user *)
(* events a rank schedules and the packets it sends.                        *)
IsNetwork(n) ==
    /\ n.ranks \subseteq Nat /\ n.ranks # {} /\ IsFiniteSet(n.ranks)
    /\ n.devices \subseteq Nat /\ IsFiniteSet(n.devices)
    /\ n.from \in [n.devices -> n.ranks] /\ n.to \in [n.devices -> n.ranks]
    /\ \A d \in n.devices : n.from[d] # n.to[d]
    /\ \A d \in n.devices : \E e \in n.devices : n.from[e] = n.to[d] /\ n.to[e] = n.from[d]
    /\ \A r \in n.ranks : \E d \in n.devices : n.from[d] = r
    /\ n.delay \in [n.devices -> Nat \ {0}] /\ n.txTime \in [n.devices -> Nat]
    /\ n.interframeGap \in [n.devices -> Nat]
    /\ n.tune \in 1..100
    /\ n.stopTime \in [n.ranks -> Nat]
    /\ n.userDelays \subseteq Nat
    /\ n.maxScheduled \in Nat /\ n.maxSent \in [n.ranks -> Nat]

ASSUME NetworksAssumption == \A n \in Networks : IsNetwork(n)

VARIABLES
    network,            \* the network of this run
    m_events, m_currentTs, m_safeTime, m_stop,
    m_guaranteeTime,    \* [rank][neighbour]
    toInit,             \* bundles InitializeNullMessageEvents has still to visit
    net,                \* [from][to]: messages in transit
    busy, queued,       \* per device: transmitting, and packets waiting
    pc,
    scheduled, sent     \* per rank, for the bounds

engineVars == <<m_events, m_currentTs, m_safeTime, m_stop, m_guaranteeTime, toInit, net, pc>>
vars == <<network, engineVars, busy, queued, scheduled, sent>>

Ranks == network.ranks
Devices == network.devices
From == network.from
To == network.to
Delay == network.delay
TxTime == network.txTime
TxCompleteTime(d) == network.txTime[d] + network.interframeGap[d]

-----------------------------------------------------------------------------
Bundles(r) == {To[d] : d \in {e \in Devices : From[e] = r}}

(* AddChannel: the delay of a bundle is the least of its channels. *)
BundleDelay(r, s) == Min({Delay[d] : d \in {e \in Devices : From[e] = r /\ To[e] = s}})

(* Time between null messages: SchedulerTune times the delay, rounded. *)
Period(r, s) == (2 * network.tune * BundleDelay(r, s) + 100) \div 200

Event(ts, kind, peer) == [ts |-> ts, kind |-> kind, peer |-> peer]

(* CalculateGuaranteeTime, where q is the queue at the call. *)
Guarantee(r, s, q) ==
    Min({Head(q).ts, m_safeTime[r]}) + BundleDelay(r, s)

ScheduleNull(r, s, q) ==
    InsertEvent(q, Event(m_currentTs[r] + Period(r, s), "null", s))

CancelNull(q, s) ==
    [i \in DOMAIN q |->
        IF q[i].kind = "null" /\ q[i].peer = s THEN [q[i] EXCEPT !.kind = "cancelled"]
                                              ELSE q[i]]

(* A message: a packet with its receive time, or a null message (rx = 0);   *)
(* both carry a guarantee.                                                  *)
Send(r, s, rx, guarantee) ==
    net' = [net EXCEPT ![r][s] = Append(@, [rx |-> rx, guarantee |-> guarantee])]

Init ==
    /\ network \in Networks
    /\ m_events = [r \in Ranks |->
                     InsertEvent(<<Event(0, "user", r)>>, Event(network.stopTime[r], "stop", r))]
    /\ m_currentTs = [r \in Ranks |-> 0]
    /\ m_safeTime = [r \in Ranks |-> 0]
    /\ m_stop = [r \in Ranks |-> FALSE]
    /\ m_guaranteeTime = [r \in Ranks |-> [s \in Ranks |-> 0]]
    /\ toInit = [r \in Ranks |-> Bundles(r)]
    /\ net = [r \in Ranks |-> [s \in Ranks |-> <<>>]]
    /\ busy = [d \in Devices |-> FALSE]
    /\ queued = [d \in Devices |-> 0]
    /\ pc = [r \in Ranks |-> "start"]
    /\ scheduled = [r \in Ranks |-> 0]
    /\ sent = [r \in Ranks |-> 0]

(* InitializeNullMessageEvents, one bundle: a first guarantee, and the      *)
(* first null message event.  The bundles are visited in rank order.        *)
InitializeNullMessageEvents(r) ==
    /\ pc[r] = "start"
    /\ \E s \in toInit[r] :
         /\ \A t \in toInit[r] : s <= t
         /\ Send(r, s, 0, BundleDelay(r, s))
         /\ m_events' = [m_events EXCEPT ![r] = ScheduleNull(r, s, @)]
         /\ toInit' = [toInit EXCEPT ![r] = @ \ {s}]
    /\ UNCHANGED <<network, m_currentTs, m_safeTime, m_stop, m_guaranteeTime, pc,
                   busy, queued, scheduled, sent>>

RunLoop(r) ==
    /\ pc[r] = "start" /\ toInit[r] = {}
    /\ pc' = [pc EXCEPT ![r] = "loop"]
    /\ UNCHANGED <<network, m_events, m_currentTs, m_safeTime, m_stop, m_guaranteeTime,
                   toInit, net, busy, queued, scheduled, sent>>

-----------------------------------------------------------------------------
(* NullMessageMpiInterface::SendPacket, called when the queue is q and the  *)
(* time is t: the packet carries a guarantee computed now, in the middle of *)
(* the event, and the null message is put off.                              *)
SendPacket(r, s, rx, q, t) ==
    /\ Send(r, s, rx, Guarantee(r, s, q))
    /\ m_events' = [m_events EXCEPT ![r] =
                      InsertEvent(CancelNull(q, s), Event(t + Period(r, s), "null", s))]

(* PointToPointRemoteChannel::TransmitStart: the receive time. *)
RxTime(d, t) == t + TxTime[d] + Delay[d]

(* Mutant: TransmitComplete is scheduled after the packet is sent. *)
TransmitStartCompleteLate(r, d, q, t) ==
    LET s == To[d]
        new == InsertEvent(q, Event(t + TxCompleteTime(d), "complete", d))
    IN  /\ Send(r, s, RxTime(d, t), Guarantee(r, s, q))
        /\ m_events' = [m_events EXCEPT ![r] =
                          InsertEvent(CancelNull(new, s), Event(t + Period(r, s), "null", s))]
        /\ busy' = [busy EXCEPT ![d] = TRUE]

(* PointToPointNetDevice::TransmitStart on a remote channel: the device is  *)
(* busy and TransmitComplete is scheduled, then the packet is sent.         *)
TransmitStart(r, d, q, t) ==
    /\ busy' = [busy EXCEPT ![d] = TRUE]
    /\ SendPacket(r, To[d], RxTime(d, t),
                  InsertEvent(q, Event(t + TxCompleteTime(d), "complete", d)), t)

(* TransmitComplete: the next packet of the queue, if there is one. *)
TransmitComplete(r, d, q, t) ==
    \/ /\ queued[d] > 0
       /\ queued' = [queued EXCEPT ![d] = @ - 1]
       /\ TransmitStart(r, d, q, t)
    \/ /\ queued[d] = 0
       /\ busy' = [busy EXCEPT ![d] = FALSE]
       /\ m_events' = [m_events EXCEPT ![r] = q]
       /\ UNCHANGED <<queued, net>>

(* Mutant: the null message event is not scheduled again. *)
NullMessageEventHandlerOnce(r, s, q, t) ==
    /\ Send(r, s, 0, Guarantee(r, s, q))
    /\ m_events' = [m_events EXCEPT ![r] = q]
    /\ UNCHANGED <<busy, queued>>

(* A null message, and the next null message event. *)
NullMessageEventHandler(r, s, q, t) ==
    /\ Send(r, s, 0, Guarantee(r, s, q))
    /\ m_events' = [m_events EXCEPT ![r] =
                      InsertEvent(q, Event(t + Period(r, s), "null", s))]
    /\ UNCHANGED <<busy, queued>>

Process(r, next, q) ==
    \/ /\ next.kind = "null"
       /\ NullMessageEventHandler(r, next.peer, q, next.ts)
       /\ pc' = [pc EXCEPT ![r] = "receive"]
       /\ UNCHANGED m_stop
    \/ /\ next.kind = "complete"
       /\ TransmitComplete(r, next.peer, q, next.ts)
       /\ pc' = [pc EXCEPT ![r] = "receive"]
       /\ UNCHANGED m_stop
    \/ /\ next.kind = "user"
       /\ pc' = [pc EXCEPT ![r] = "handler"]
       /\ m_events' = [m_events EXCEPT ![r] = q]
       /\ UNCHANGED <<m_stop, net, busy, queued>>
    \/ /\ next.kind \in {"stop", "cancelled"}
       /\ m_stop' = [m_stop EXCEPT ![r] = @ \/ next.kind = "stop"]
       /\ pc' = [pc EXCEPT ![r] = "receive"]
       /\ m_events' = [m_events EXCEPT ![r] = q]
       /\ UNCHANGED <<net, busy, queued>>

IsFinished(r) == m_events[r] = <<>> \/ m_stop[r]

(* Mutant: events are processed without looking at the safe time. *)
IsSafeAlways(r) == TRUE

IsSafe(r) == Head(m_events[r]).ts <= m_safeTime[r]

ProcessOneEvent(r) ==
    /\ pc[r] = "loop" /\ ~IsFinished(r)
    /\ IsSafe(r)
    /\ m_currentTs' = [m_currentTs EXCEPT ![r] = Head(m_events[r]).ts]
    /\ Process(r, Head(m_events[r]), Tail(m_events[r]))
    /\ UNCHANGED <<network, m_safeTime, m_guaranteeTime, toInit, scheduled, sent>>

RunReturns(r) ==
    /\ pc[r] = "loop" /\ IsFinished(r)
    /\ pc' = [pc EXCEPT ![r] = "done"]
    /\ UNCHANGED <<network, m_events, m_currentTs, m_safeTime, m_stop, m_guaranteeTime,
                   toInit, net, busy, queued, scheduled, sent>>

-----------------------------------------------------------------------------
(* What user code does while it handles an event. *)

HandlerSchedule(r) ==
    /\ pc[r] = "handler" /\ scheduled[r] < network.maxScheduled
    /\ \E delay \in network.userDelays :
         m_events' = [m_events EXCEPT ![r] =
                        InsertEvent(@, Event(m_currentTs[r] + delay, "user", r))]
    /\ scheduled' = [scheduled EXCEPT ![r] = @ + 1]
    /\ UNCHANGED <<network, m_currentTs, m_safeTime, m_stop, m_guaranteeTime, toInit, net, pc,
                   busy, queued, sent>>

HandlerSend(r, d) ==
    /\ pc[r] = "handler" /\ From[d] = r /\ sent[r] < network.maxSent[r]
    /\ sent' = [sent EXCEPT ![r] = @ + 1]
    /\ \/ /\ ~busy[d]
          /\ TransmitStart(r, d, m_events[r], m_currentTs[r])
          /\ UNCHANGED queued
       \/ /\ busy[d]
          /\ queued' = [queued EXCEPT ![d] = @ + 1]
          /\ UNCHANGED <<m_events, net, busy>>
    /\ UNCHANGED <<network, m_currentTs, m_safeTime, m_stop, m_guaranteeTime, toInit, pc, scheduled>>

HandlerReturns(r) ==
    /\ pc[r] = "handler"
    /\ pc' = [pc EXCEPT ![r] = "receive"]
    /\ UNCHANGED <<network, m_events, m_currentTs, m_safeTime, m_stop, m_guaranteeTime,
                   toInit, net, busy, queued, scheduled, sent>>

-----------------------------------------------------------------------------
(* Mutant: the latest of the guarantees is taken for the safe time. *)
SafeTimeLatest(r, guarantee) == Max({guarantee[s] : s \in Bundles(r)})

(* ReceiveMessages, one message from s. *)
Receive(r, s) ==
    LET msg == Head(net[s][r])
    IN  /\ s \in Bundles(r) /\ net[s][r] # <<>>
        /\ net' = [net EXCEPT ![s][r] = Tail(@)]
        /\ m_guaranteeTime' = [m_guaranteeTime EXCEPT ![r][s] = msg.guarantee]
        /\ m_events' = IF msg.rx > 0
                       THEN [m_events EXCEPT ![r] = InsertEvent(@, Event(msg.rx, "user", r))]
                       ELSE m_events

SafeTime(r, guarantee) == Min({guarantee[s] : s \in Bundles(r)})

(* The non-blocking receive after an event takes some of the messages; it   *)
(* may end while there is one in transit that has not arrived.              *)
ReceiveNonBlocking(r, s) ==
    /\ pc[r] = "receive"
    /\ Receive(r, s)
    /\ UNCHANGED <<network, m_currentTs, m_safeTime, m_stop, toInit, pc, busy, queued, scheduled, sent>>

CalculateSafeTime(r) ==
    /\ pc[r] = "receive"
    /\ m_safeTime' = [m_safeTime EXCEPT ![r] = SafeTime(r, m_guaranteeTime[r])]
    /\ pc' = [pc EXCEPT ![r] = "loop"]
    /\ UNCHANGED <<network, m_events, m_currentTs, m_stop, m_guaranteeTime, toInit, net,
                   busy, queued, scheduled, sent>>

(* The blocking receive waits for one message. *)
ReceiveBlocking(r, s) ==
    /\ pc[r] = "loop" /\ ~IsFinished(r)
    /\ ~IsSafe(r)
    /\ Receive(r, s)
    /\ m_safeTime' = [m_safeTime EXCEPT ![r] = SafeTime(r, m_guaranteeTime'[r])]
    /\ UNCHANGED <<network, m_currentTs, m_stop, toInit, pc, busy, queued, scheduled, sent>>

(* MPI_Waitany polls as long as nothing has arrived. *)
Wait(r) ==
    /\ pc[r] = "loop" /\ ~IsFinished(r) /\ ~IsSafe(r)
    /\ \A s \in Bundles(r) : net[s][r] = <<>>
    /\ UNCHANGED vars

AllDone == \A r \in Ranks : pc[r] = "done"

Terminated == AllDone /\ UNCHANGED vars

Step(r) ==
    \/ InitializeNullMessageEvents(r) \/ RunLoop(r)
    \/ ProcessOneEvent(r) \/ RunReturns(r)
    \/ HandlerSchedule(r) \/ HandlerReturns(r)
    \/ \E d \in Devices : HandlerSend(r, d)
    \/ CalculateSafeTime(r)
    \/ \E s \in Ranks : ReceiveNonBlocking(r, s) \/ ReceiveBlocking(r, s)

Next ==
    \/ \E r \in Ranks : Step(r) \/ Wait(r)
    \/ Terminated

Spec == Init /\ [][Next]_vars

(* Every rank is a process that keeps running, and MPI delivers. *)
FairSpec ==
    /\ Spec
    /\ \A r \in UNION {n.ranks : n \in Networks} :
          WF_vars(r \in Ranks /\ Step(r))

-----------------------------------------------------------------------------
(* Properties. *)

(* A packet in transit is never for a time its receiver has already passed: *)
(* the assertion of ScheduleWithContext that the event is not in the past   *)
(* holds for every message, however the ranks interleave.                   *)
NoStraggler ==
    \A r, s \in Ranks : \A i \in DOMAIN net[s][r] :
        net[s][r][i].rx > 0 => net[s][r][i].rx >= m_currentTs[r]

(* RemoteChannelBundle::m_guaranteeTime: "No PacketMessage will ever arrive *)
(* on any incoming channel in this bundle with a ReceiveTime less than      *)
(* this."  Also of the guarantees that are still in transit.                *)
GuaranteeHolds ==
    \A r, s \in Ranks : \A i \in DOMAIN net[s][r] :
        /\ net[s][r][i].rx > 0 => net[s][r][i].rx >= m_guaranteeTime[r][s]
        /\ \A j \in DOMAIN net[s][r] :
             i < j /\ net[s][r][j].rx > 0 => net[s][r][j].rx >= net[s][r][i].guarantee

(* The guarantee a rank holds never goes back, so that the assertions of    *)
(* SetGuaranteeTime and CalculateSafeTime hold: a rank is never ahead of    *)
(* its safe time.                                                           *)
SafeTimeForward ==
    [][\A r \in Ranks : /\ m_safeTime'[r] >= m_safeTime[r]
                        /\ m_currentTs'[r] <= m_safeTime[r]
                        /\ \A s \in Ranks : m_guaranteeTime'[r][s] >= m_guaranteeTime[r][s]]_vars

(* When all ranks stop at the same time, all of them get there: the null    *)
(* messages keep every rank going, and no rank is left waiting for one that *)
(* has returned from Run.                                                   *)
AllStop == <>AllDone
=============================================================================
