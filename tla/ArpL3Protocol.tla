--------------------------- MODULE ArpL3Protocol ---------------------------
(***************************************************************************)
(* ns3::ArpL3Protocol on the nodes of a link, with the ArpCache of each    *)
(* node's interface, and the parts of Ipv4Interface and Ipv4L3Protocol     *)
(* that use them.  The link loses, delays and reorders what is sent.       *)
(***************************************************************************)
EXTENDS ArpCache

CONSTANTS
    Hardware,           \* the hardware address of each node's device
    Senders,            \* the nodes that send IP packets
    Target,             \* the node a packet is for
    Jitter,             \* the largest value of RequestJitter
    Copies,             \* bound: equal ARP messages on the link
    Managed,            \* destinations whose entries the user changes
    Given               \* hardware addresses the user makes permanent

ASSUME ProtocolAssumption ==
    /\ Hardware \in [Nodes -> Macs]
    /\ Senders \subseteq Nodes /\ Managed \subseteq Nodes
    /\ Target \in [Packets -> Nodes]
    /\ Given \subseteq Macs
    /\ Jitter \in Nat /\ Copies \in Nat \ {0}

VARIABLES
    m_arpCache,         \* per node and destination: the entry
    m_waitReplyTimer,   \* per node: time the timer has still to run, or OFF
    requests,           \* per node: the SendArpRequest events that are scheduled
    link                \* the number of copies of each message on the link

arpVars == <<m_arpCache, m_waitReplyTimer, requests, link>>

RequestEvent == [delay : 0..Jitter, to : Nodes]

GetBroadcast == "broadcast"   \* the device's broadcast address

(* The message that asks for d, and the answer to m by the node it asks for: *)
(* the hardware address is that of the device that sends.                    *)
Request(n, d) ==
    [type |-> "request", m_ipv4Source |-> n, m_macSource |-> Hardware[n],
     m_ipv4Dest |-> d, m_macDest |-> GetBroadcast]

Reply(m) ==
    [type |-> "reply", m_ipv4Source |-> m.m_ipv4Dest, m_macSource |-> Hardware[m.m_ipv4Dest],
     m_ipv4Dest |-> m.m_ipv4Source, m_macDest |-> m.m_macSource]

Requests == {Request(n, d) : n, d \in Nodes}
Replies == {Reply(m) : m \in Requests}
Message == Requests \union Replies

ArpInit ==
    /\ m_arpCache = [n \in Nodes |-> [d \in Nodes |-> NoEntry]]
    /\ m_waitReplyTimer = [n \in Nodes |-> OFF]
    /\ requests = [n \in Nodes |-> {}]
    /\ link = [m \in Message |-> 0]

(* The link after the messages ms are sent; it keeps a bounded number. *)
Sent(ms) ==
    [m \in Message |-> IF m \in ms /\ link[m] < Copies THEN link[m] + 1 ELSE link[m]]

Taken(m) == [link EXCEPT ![m] = @ - 1]

SetEntry(n, d, e) == m_arpCache' = [m_arpCache EXCEPT ![n][d] = e]

-----------------------------------------------------------------------------
(* Lookup of the destination d of a packet, called by Ipv4Interface::Send.  *)

(* No entry, or an alive or dead one that has expired: an ARP request will  *)
(* be sent after a random time.  (Equal events of a node are one: the link  *)
(* may lose the second message as well.)                                    *)
LookupStarts(n, d, packet) ==
    LET e == m_arpCache[n][d]
    IN  /\ e.m_state = ABSENT \/ (e.m_state \in {ALIVE, DEAD} /\ IsExpired(e))
        /\ SetEntry(n, d, MarkWaitReply(e, packet))
        /\ m_waitReplyTimer' = [m_waitReplyTimer EXCEPT ![n] = StartWaitReplyTimer(@)]
        /\ \E delay \in 0..Jitter :
             requests' = [requests EXCEPT ![n] = @ \union {[delay |-> delay, to |-> d]}]
        /\ UNCHANGED link

(* The packet waits for the reply, or is dropped. *)
LookupWaits(n, d, packet) ==
    LET e == m_arpCache[n][d]
    IN  /\ e.m_state = WAIT_REPLY /\ ~IsExpired(e)
        /\ SetEntry(n, d, UpdateWaitReply(e, packet))
        /\ UNCHANGED <<m_waitReplyTimer, requests, link>>

(* With a valid alive or permanent entry the packet is sent, with a valid   *)
(* dead one it is dropped; the caches do not change.  A waiting entry that  *)
(* has expired is a fatal error.                                            *)
Lookup(n, packet) ==
    LET d == Target[packet]
    IN  d # n /\ (LookupStarts(n, d, packet) \/ LookupWaits(n, d, packet))

SendArpRequest(n, r) ==
    /\ r \in requests[n] /\ r.delay = 0
    /\ requests' = [requests EXCEPT ![n] = @ \ {r}]
    /\ link' = Sent({Request(n, r.to)})
    /\ UNCHANGED <<m_arpCache, m_waitReplyTimer>>

(* The timer of a cache: all entries that wait are tried again or given up, *)
(* and the timer is started again if one was tried.                         *)
HandleWaitReplyTimeout(n) ==
    LET entries == m_arpCache[n]
    IN  /\ m_waitReplyTimer[n] = 0
        /\ link' = Sent({Request(n, d) : d \in Retried(entries)})
        /\ m_arpCache' = [m_arpCache EXCEPT ![n] = AfterTimeout(entries)]
        /\ m_waitReplyTimer' = [m_waitReplyTimer EXCEPT ![n] =
                                  IF Retried(entries) # {} THEN WaitReplyTimeout ELSE OFF]
        /\ UNCHANGED requests

-----------------------------------------------------------------------------
(* Receive. *)

(* A request for our address is answered; the cache does not learn. *)
ReceiveRequest(m) ==
    /\ m \in Requests /\ link[m] > 0
    /\ link' = [Taken(m) EXCEPT ![Reply(m)] = IF @ < Copies THEN @ + 1 ELSE @]
    /\ UNCHANGED <<m_arpCache, m_waitReplyTimer, requests>>

(* Mutant: a reply is taken whatever the state of the entry. *)
ReceiveReplyAnyState(m) ==
    LET n == m.m_ipv4Dest
        e == m_arpCache[n][m.m_ipv4Source]
        accepted == e.m_state # ABSENT /\ m.m_macDest = Hardware[n]
    IN  /\ m \in Replies /\ link[m] > 0
        /\ link' = Taken(m)
        /\ \/ accepted /\ SetEntry(n, m.m_ipv4Source, MarkAlive(e, m.m_macSource))
           \/ ~accepted /\ UNCHANGED m_arpCache
        /\ UNCHANGED <<m_waitReplyTimer, requests>>

(* A reply for our two addresses is taken by an entry that waits for it; by *)
(* now the entry may be gone, alive, given up or permanent.                 *)
ReceiveReply(m) ==
    LET n == m.m_ipv4Dest
        e == m_arpCache[n][m.m_ipv4Source]
        accepted == e.m_state = WAIT_REPLY /\ m.m_macDest = Hardware[n]
    IN  /\ m \in Replies /\ link[m] > 0
        /\ link' = Taken(m)
        /\ \/ accepted /\ SetEntry(n, m.m_ipv4Source, MarkAlive(e, m.m_macSource))
           \/ ~accepted /\ UNCHANGED m_arpCache
        /\ UNCHANGED <<m_waitReplyTimer, requests>>

Lose(m) ==
    /\ link[m] > 0
    /\ link' = Taken(m)
    /\ UNCHANGED <<m_arpCache, m_waitReplyTimer, requests>>

(* Ipv4L3Protocol::Receive: an IP packet from d keeps its entry alive. *)
SeePacket(n, d) ==
    /\ m_arpCache[n][d].m_state = ALIVE
    /\ SetEntry(n, d, UpdateSeen(m_arpCache[n][d]))
    /\ UNCHANGED <<m_waitReplyTimer, requests, link>>

(* A packet of another source, which came through the router with the       *)
(* hardware address mac: all its entries are kept alive (LookupInverse).    *)
SeeRouted(n, mac) ==
    LET seen == {d \in Nodes : /\ m_arpCache[n][d].m_macAddress = mac
                               /\ m_arpCache[n][d].m_state = ALIVE}
    IN  /\ seen # {}
        /\ m_arpCache' = [m_arpCache EXCEPT ![n] =
             [d \in Nodes |-> IF d \in seen THEN UpdateSeen(@[d]) ELSE @[d]]]
        /\ UNCHANGED <<m_waitReplyTimer, requests, link>>

-----------------------------------------------------------------------------
(* The user's calls. *)

(* Flush, also when the link of the device changes. *)
Flush(n) ==
    /\ m_arpCache' = [m_arpCache EXCEPT ![n] = [d \in Nodes |-> NoEntry]]
    /\ m_waitReplyTimer' = [m_waitReplyTimer EXCEPT ![n] = OFF]
    /\ UNCHANGED <<requests, link>>

(* Remove: the timer goes on. *)
Remove(n, d) ==
    /\ m_arpCache[n][d].m_state # ABSENT
    /\ SetEntry(n, d, NoEntry)
    /\ UNCHANGED <<m_waitReplyTimer, requests, link>>

(* The user looks an entry up, or adds it, and makes it permanent, with the *)
(* hardware address of the node or with another one.                        *)
SetPermanent(n, d, mac) ==
    /\ SetEntry(n, d, MarkPermanent(m_arpCache[n][d], mac))
    /\ UNCHANGED <<m_waitReplyTimer, requests, link>>

-----------------------------------------------------------------------------
(* Time passes when no event is due. *)
Tick ==
    /\ \A n \in Nodes : m_waitReplyTimer[n] # 0 /\ \A r \in requests[n] : r.delay > 0
    /\ m_waitReplyTimer' = [n \in Nodes |->
         IF m_waitReplyTimer[n] = OFF THEN OFF ELSE m_waitReplyTimer[n] - 1]
    /\ requests' = [n \in Nodes |-> {[r EXCEPT !.delay = @ - 1] : r \in requests[n]}]
    /\ m_arpCache' = [n \in Nodes |-> [d \in Nodes |-> Older(m_arpCache[n][d])]]
    /\ UNCHANGED link

Pends(n, packet) ==
    LET e == m_arpCache[n][Target[packet]]
    IN  \E i \in DOMAIN e.m_pending : e.m_pending[i] = packet

DueEvent(n) == HandleWaitReplyTimeout(n) \/ \E r \in requests[n] : SendArpRequest(n, r)

ArpNext ==
    \/ \E n \in Senders : \E packet \in Packets : ~Pends(n, packet) /\ Lookup(n, packet)
    \/ \E n \in Nodes : \/ DueEvent(n)
                         \/ \E d \in Nodes : SeePacket(n, d)
                         \/ \E mac \in Macs : SeeRouted(n, mac)
    \/ \E m \in Message : ReceiveRequest(m) \/ ReceiveReply(m) \/ Lose(m)
    \/ \E n \in Senders : \E d \in Managed : Flush(n) \/ Remove(n, d)
    \/ \E n \in Senders : \E d \in Managed : \E mac \in Given : SetPermanent(n, d, mac)
    \/ Tick

ArpSpec == ArpInit /\ [][ArpNext]_arpVars

(* Time goes on without end: nobody fills an instant with calls.  (Tick      *)
(* passes over no event that is due.)                                       *)
ArpFairSpec == ArpSpec /\ []<><<Tick>>_arpVars

-----------------------------------------------------------------------------
(* Properties. *)

(* Type invariant of the caches, the timers and the link; a pending queue   *)
(* keeps its limit.                                                         *)
ArpTypeOK ==
    /\ m_arpCache \in [Nodes -> [Nodes -> Entry]]
    /\ \A n, d \in Nodes : Len(m_arpCache[n][d].m_pending) <= PendingQueueSize
    /\ m_waitReplyTimer \in [Nodes -> 0..WaitReplyTimeout \union {OFF}]
    /\ requests \in [Nodes -> SUBSET RequestEvent]
    /\ link \in [Message -> 0..Copies]

(* Packets wait in an entry exactly as long as it waits for a reply: the    *)
(* assertion of MarkWaitReply holds, a packet that is sent at once never    *)
(* overtakes one that waits, and none is left behind in an entry that was   *)
(* given up.  The exception is an entry the user made permanent:            *)
(* MarkPermanent leaves behind what was waiting.                            *)
PendingWhileWaiting ==
    \A n, d \in Nodes :
        m_arpCache[n][d].m_state # PERMANENT =>
            (m_arpCache[n][d].m_pending # <<>> <=> m_arpCache[n][d].m_state = WAIT_REPLY)

(* An entry that waits has the timer running, whichever entry started it,   *)
(* and the timer ends before the entry expires: the "possibly unreachable"  *)
(* fatal error of Lookup is unreachable.                                    *)
NoFatalLookup ==
    \A n, d \in Nodes :
        LET e == m_arpCache[n][d]
        IN  e.m_state = WAIT_REPLY =>
                /\ m_waitReplyTimer[n] # OFF
                /\ e.age + m_waitReplyTimer[n] <= WaitReplyTimeout

(* An address that cannot be resolved is given up after MaxRetries whole    *)
(* waits, and before one more is over, although the entries of a cache      *)
(* share a timer that somebody else may have started.                       *)
GivenUpInTime ==
    [][\A n, d \in Nodes :
         m_arpCache[n][d].m_state = WAIT_REPLY /\ m_arpCache'[n][d].m_state = DEAD =>
            m_arpCache[n][d].waited \in
                MaxRetries * WaitReplyTimeout .. (MaxRetries + 1) * WaitReplyTimeout]_arpVars

(* Lost, late, repeated and reordered replies do no harm: an entry that was *)
(* resolved has the hardware address of its destination, and an entry the   *)
(* user made permanent keeps the user's address, also when the reply to a   *)
(* request of the time before arrives, until the user takes it back.        *)
RightAddress ==
    \A n, d \in Nodes :
        LET e == m_arpCache[n][d]
        IN  /\ e.m_state = ALIVE => e.m_macAddress = Hardware[d]
            /\ e.given # UNKNOWN => e.m_state = PERMANENT /\ e.m_macAddress = e.given

(* A packet that waits is sent or dropped in the end, even if no reply ever *)
(* comes, unless the user makes its entry permanent meanwhile.              *)
PacketResolved ==
    \A n \in Senders : \A packet \in Packets :
        Pends(n, packet) ~>
            ~Pends(n, packet) \/ m_arpCache[n][Target[packet]].m_state = PERMANENT
=============================================================================
