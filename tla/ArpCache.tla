------------------------------ MODULE ArpCache ------------------------------
(***************************************************************************)
(* ns3::ArpCache and its entries: operators on the caches of the nodes.    *)
(*                                                                         *)
(* Times are relative, so that no bound on the simulated time is needed:   *)
(* an entry has its age (Simulator::Now () - m_lastSeen, which stops       *)
(* counting once it exceeds every timeout), the timer the time it has      *)
(* still to run.                                                           *)
(***************************************************************************)
EXTENDS Integers, Sequences

CONSTANTS
    Nodes,              \* nodes on one link, named by their IP addresses
    Macs,               \* hardware addresses
    Packets,            \* IP packets
    AliveTimeout, DeadTimeout, WaitReplyTimeout,
    MaxRetries, PendingQueueSize

UNKNOWN == "unknown"    \* no hardware address

ASSUME CacheAssumption ==
    /\ AliveTimeout \in Nat /\ DeadTimeout \in Nat
    /\ WaitReplyTimeout \in Nat \ {0}
    /\ MaxRetries \in Nat /\ PendingQueueSize \in Nat \ {0}
    /\ UNKNOWN \notin Macs

OFF == -1               \* the timer does not run

ALIVE == "ALIVE"
WAIT_REPLY == "WAIT_REPLY"
DEAD == "DEAD"
PERMANENT == "PERMANENT"
ABSENT == "ABSENT"      \* no entry in the map

Entry ==
    [m_state : {ALIVE, WAIT_REPLY, DEAD, PERMANENT, ABSENT},
     m_retries : Nat, age : Nat,
     m_macAddress : Macs \union {UNKNOWN},
     m_pending : Seq(Packets),
     waited : Nat,                      \* history: time since MarkWaitReply
     given : Macs \union {UNKNOWN}]     \* history: the address the user made permanent

NoEntry ==
    [m_state |-> ABSENT, m_retries |-> 0, age |-> 0, m_macAddress |-> UNKNOWN,
     m_pending |-> <<>>, waited |-> 0, given |-> UNKNOWN]

-----------------------------------------------------------------------------
GetTimeout(e) ==
    CASE e.m_state = WAIT_REPLY -> WaitReplyTimeout
      [] e.m_state = DEAD -> DeadTimeout
      [] OTHER -> AliveTimeout

(* Strictly later than the timeout; a permanent entry never expires. *)
IsExpired(e) == e.m_state # PERMANENT /\ e.age > GetTimeout(e)

UpdateSeen(e) == [e EXCEPT !.age = 0]

(* Mutant: the packets that wait are kept. *)
MarkDeadKeepPending(e) ==
    UpdateSeen([e EXCEPT !.m_state = DEAD, !.m_retries = 0, !.waited = 0])

(* MarkDead as HandleWaitReplyTimeout uses it: the packets that waited are  *)
(* dropped.                                                                 *)
MarkDead(e) ==
    UpdateSeen([e EXCEPT !.m_state = DEAD, !.m_retries = 0,
                         !.m_pending = <<>>, !.waited = 0])

(* MarkAlive as Receive uses it: the packets that waited are sent, in their *)
(* order.  Ipv4Interface::Send looks each of them up again and finds the    *)
(* entry alive.                                                             *)
MarkAlive(e, mac) ==
    UpdateSeen([e EXCEPT !.m_state = ALIVE, !.m_macAddress = mac, !.m_retries = 0,
                         !.m_pending = <<>>, !.waited = 0])

MarkWaitReply(e, packet) ==
    UpdateSeen([e EXCEPT !.m_state = WAIT_REPLY, !.m_pending = Append(@, packet)])

(* SetMacAddress and MarkPermanent, which has no test of the state: packets *)
(* that wait stay where they are.                                           *)
MarkPermanent(e, mac) ==
    UpdateSeen([e EXCEPT !.m_state = PERMANENT, !.m_macAddress = mac, !.m_retries = 0,
                         !.waited = 0, !.given = mac])

(* Mutant: the retry does not count as a sign of life. *)
IncrementRetriesUnseen(e) == [e EXCEPT !.m_retries = @ + 1]

(* Mutant: the retries are not counted. *)
IncrementRetriesNot(e) == UpdateSeen(e)

IncrementRetries(e) == UpdateSeen([e EXCEPT !.m_retries = @ + 1])

(* UpdateWaitReply: a packet that finds the queue full is dropped. *)
UpdateWaitReply(e, packet) ==
    IF Len(e.m_pending) >= PendingQueueSize
    THEN e
    ELSE [e EXCEPT !.m_pending = Append(@, packet)]

(* All entries of a cache share one timer. *)
StartWaitReplyTimer(timer) == IF timer = OFF THEN WaitReplyTimeout ELSE timer

(* Entries of one cache that HandleWaitReplyTimeout tries again, or gives up *)
Waiting(entries) == {d \in DOMAIN entries : entries[d].m_state = WAIT_REPLY}

(* Mutant: one retry more. *)
RetriesLeftOneMore(e) == e.m_retries <= MaxRetries

RetriesLeft(e) == e.m_retries < MaxRetries

Retried(entries) == {d \in Waiting(entries) : RetriesLeft(entries[d])}

AfterTimeout(entries) ==
    [d \in DOMAIN entries |->
        IF d \notin Waiting(entries) THEN entries[d]
        ELSE IF RetriesLeft(entries[d]) THEN IncrementRetries(entries[d])
        ELSE MarkDead(entries[d])]

(* The passing of time. *)
Older(e) ==
    [e EXCEPT !.age = IF e.m_state \in {ABSENT, PERMANENT} \/ IsExpired(e) THEN @ ELSE @ + 1,
              !.waited = IF e.m_state = WAIT_REPLY /\ @ < (MaxRetries + 2) * WaitReplyTimeout
                         THEN @ + 1 ELSE @]
=============================================================================
