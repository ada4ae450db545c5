-------------------------- MODULE GrantedTimeWindow --------------------------
(***************************************************************************)
(* The conservative parallel engine ns3::DistributedSimulatorImpl with     *)
(* GrantedTimeWindowMpiInterface.  A rank runs events up to its granted    *)
(* time, then takes part in an MPI_Allgather of lower bounds on time       *)
(* stamps (LBTS messages); the counts of sent and received packets tell    *)
(* whether a packet is still on its way.                                   *)
(*                                                                         *)
(* MPI receives any of the messages that arrived, in any order.  The       *)
(* collective operation is one step: a rank that has joined it does        *)
(* nothing until all have.                                                 *)
(***************************************************************************)
EXTENDS EventQueue, Functions

CONSTANTS
    Ranks,
    Topologies,     \* networks to choose from: for each pair of ranks joined by
                    \* a point-to-point link, both ways, the least delay
    Bound,          \* argument of BoundLookAhead on a rank, or MaxTime
    MaxTime,        \* GetMaximumSimulationTime
    TxTimes,        \* times to transmit a packet
    UserDelays,     \* delays user code passes to Schedule
    StopTime,       \* ranks that call Stop (delay), and when
    MaxScheduled,   \* bound: user events a rank schedules
    MaxSent         \* bound: packets a rank sends

ASSUME GtwRanks == Ranks # {} /\ IsFiniteSet(Ranks)
ASSUME GtwTopologies == \A net \in Topologies :
    /\ DOMAIN net \subseteq Ranks \X Ranks
    /\ \A l \in DOMAIN net :
         /\ net[l] \in Nat \ {0}
         /\ l[1] # l[2] /\ <<l[2], l[1]>> \in DOMAIN net /\ net[<<l[2], l[1]>>] = net[l]
ASSUME GtwTimes ==
    /\ MaxTime \in Nat /\ Bound \in [Ranks -> 1..MaxTime]
    /\ TxTimes \subseteq Nat /\ UserDelays \subseteq Nat
    /\ DOMAIN StopTime \subseteq Ranks /\ \A r \in DOMAIN StopTime : StopTime[r] \in Nat

VARIABLES
    topology,           \* the network of this program
    m_events, m_currentTs, m_grantedTime, m_stop,
    pc,
    m_pLBTS,            \* the LBTS message a rank brings to the collective operation
    transit, arrived,   \* packets for a rank, on their way and delivered by MPI
    g_txCount, g_rxCount,
    scheduled           \* per rank, for the bound

vars == <<topology, m_events, m_currentTs, m_grantedTime, m_stop, pc, m_pLBTS,
          transit, arrived, g_txCount, g_rxCount, scheduled>>

-----------------------------------------------------------------------------
(* CalculateLookAhead: nothing in a sequential simulation, else the fastest *)
(* link of the rank; a rank without links takes the largest value of the    *)
(* others.                                                                  *)
OwnLookAhead(r) ==
    IF Cardinality(Ranks) <= 1 THEN 0
    ELSE Min({Bound[r]} \union {topology[l] : l \in {k \in DOMAIN topology : k[1] = r}})

LookAhead(r) ==
    LET largest == Max({0} \union {OwnLookAhead(s) : s \in {t \in Ranks : OwnLookAhead(t) # MaxTime}})
    IN  IF OwnLookAhead(r) = MaxTime /\ largest # 0 THEN largest ELSE OwnLookAhead(r)

Event(ts, fn) == [ts |-> ts, fn |-> fn]

IsLocalFinished(r) == m_events[r] = <<>> \/ m_stop[r]

(* Mutant: a rank that was stopped still reports its next event. *)
NextIgnoringStop(r) == IF m_events[r] = <<>> THEN MaxTime ELSE Head(m_events[r]).ts

NextTime(r) == IF IsLocalFinished(r) THEN MaxTime ELSE Head(m_events[r]).ts

Init ==
    /\ topology \in Topologies
    /\ m_events = [r \in Ranks |->
                     IF r \in DOMAIN StopTime
                     THEN InsertEvent(<<Event(0, "user")>>, Event(StopTime[r], "stop"))
                     ELSE <<Event(0, "user")>>]
    /\ m_currentTs = [r \in Ranks |-> 0]
    /\ m_grantedTime = [r \in Ranks |-> LookAhead(r)]
    /\ m_stop = [r \in Ranks |-> FALSE]
    /\ pc = [r \in Ranks |-> "loop"]
    /\ m_pLBTS = [r \in Ranks |-> [rx |-> 0, tx |-> 0, finished |-> FALSE, time |-> 0]]
    /\ transit = [r \in Ranks |-> {}] /\ arrived = [r \in Ranks |-> {}]
    /\ g_txCount = [r \in Ranks |-> 0] /\ g_rxCount = [r \in Ranks |-> 0]
    /\ scheduled = [r \in Ranks |-> 0]

-----------------------------------------------------------------------------
(* The top of the loop when there is nothing to do in the granted window. *)
Synchronize(r) ==
    /\ pc[r] = "loop"
    /\ NextTime(r) > m_grantedTime[r] \/ IsLocalFinished(r)
    /\ pc' = [pc EXCEPT ![r] = "receive"]
    /\ UNCHANGED <<topology, m_events, m_currentTs, m_grantedTime, m_stop, m_pLBTS,
                   transit, arrived, g_txCount, g_rxCount, scheduled>>

(* ReceiveMessages, one message. *)
ReceiveMessage(r) ==
    /\ pc[r] = "receive"
    /\ \E msg \in arrived[r] :
         /\ arrived' = [arrived EXCEPT ![r] = @ \ {msg}]
         /\ m_events' = [m_events EXCEPT ![r] = InsertEvent(@, Event(msg.rx, "user"))]
    /\ g_rxCount' = [g_rxCount EXCEPT ![r] = @ + 1]
    /\ UNCHANGED <<topology, m_currentTs, m_grantedTime, m_stop, pc, m_pLBTS, transit,
                   g_txCount, scheduled>>

(* No more messages: the rank joins the collective operation. *)
JoinAllgather(r) ==
    /\ pc[r] = "receive" /\ arrived[r] = {}
    /\ m_pLBTS' = [m_pLBTS EXCEPT ![r] =
                     [rx |-> g_rxCount[r], tx |-> g_txCount[r],
                      finished |-> IsLocalFinished(r), time |-> NextTime(r)]]
    /\ pc' = [pc EXCEPT ![r] = "allgather"]
    /\ UNCHANGED <<topology, m_events, m_currentTs, m_grantedTime, m_stop, transit, arrived,
                   g_txCount, g_rxCount, scheduled>>

TotalRx == SumFunction([r \in Ranks |-> m_pLBTS[r].rx])
TotalTx == SumFunction([r \in Ranks |-> m_pLBTS[r].tx])
SmallestTime == Min({m_pLBTS[r].time : r \in Ranks})

(* Mutants: packets on their way are ignored, when the granted time is      *)
(* updated and when the end is decided.                                     *)
NoTransientsIgnored == TRUE
GlobalFinishedIgnoringTransients == \A r \in Ranks : m_pLBTS[r].finished

(* totRx == totTx *)
NoTransients == TotalRx = TotalTx

GlobalFinished == (\A r \in Ranks : m_pLBTS[r].finished) /\ TotalRx = TotalTx

NewGrantedTime(r) ==
    IF ~NoTransients THEN m_grantedTime[r]
    ELSE IF LookAhead(r) = MaxTime THEN MaxTime
    ELSE SmallestTime + LookAhead(r)

Allgather ==
    /\ \A r \in Ranks : pc[r] = "allgather"
    /\ m_grantedTime' = [r \in Ranks |-> NewGrantedTime(r)]
    /\ pc' = [r \in Ranks |-> IF GlobalFinished THEN "done" ELSE "window"]
    /\ UNCHANGED <<topology, m_events, m_currentTs, m_stop, m_pLBTS, transit, arrived,
                   g_txCount, g_rxCount, scheduled>>

InWindow(r) == NextTime(r) <= m_grantedTime[r] /\ ~IsLocalFinished(r)

OutsideWindow(r) ==
    /\ pc[r] = "window" /\ ~InWindow(r)
    /\ pc' = [pc EXCEPT ![r] = "loop"]
    /\ UNCHANGED <<topology, m_events, m_currentTs, m_grantedTime, m_stop, m_pLBTS,
                   transit, arrived, g_txCount, g_rxCount, scheduled>>

ProcessOneEvent(r) ==
    /\ pc[r] \in {"loop", "window"} /\ InWindow(r)
    /\ LET next == Head(m_events[r])
       IN  /\ m_currentTs' = [m_currentTs EXCEPT ![r] = next.ts]
           /\ m_stop' = [m_stop EXCEPT ![r] = @ \/ next.fn = "stop"]
           /\ pc' = [pc EXCEPT ![r] = IF next.fn = "stop" THEN "loop" ELSE "handler"]
    /\ m_events' = [m_events EXCEPT ![r] = Tail(@)]
    /\ UNCHANGED <<topology, m_grantedTime, m_pLBTS, transit, arrived, g_txCount, g_rxCount, scheduled>>

-----------------------------------------------------------------------------
(* What user code does while it handles an event. *)

HandlerSchedule(r) ==
    /\ pc[r] = "handler" /\ scheduled[r] < MaxScheduled
    /\ \E delay \in UserDelays :
         m_events' = [m_events EXCEPT ![r] =
                        InsertEvent(@, Event(m_currentTs[r] + delay, "user"))]
    /\ scheduled' = [scheduled EXCEPT ![r] = @ + 1]
    /\ UNCHANGED <<topology, m_currentTs, m_grantedTime, m_stop, pc, m_pLBTS, transit,
                   arrived, g_txCount, g_rxCount>>

(* A device transmits on a remote channel: SendPacket. *)
SendPacket(r) ==
    /\ pc[r] = "handler" /\ g_txCount[r] < MaxSent
    /\ \E l \in DOMAIN topology, txTime \in TxTimes :
         /\ l[1] = r
         /\ transit' = [transit EXCEPT ![l[2]] =
              @ \union {[rx |-> m_currentTs[r] + txTime + topology[l],
                         from |-> r, seq |-> g_txCount[r]]}]
    /\ g_txCount' = [g_txCount EXCEPT ![r] = @ + 1]
    /\ UNCHANGED <<topology, m_events, m_currentTs, m_grantedTime, m_stop, pc, m_pLBTS,
                   arrived, g_rxCount, scheduled>>

HandlerReturns(r) ==
    /\ pc[r] = "handler"
    /\ pc' = [pc EXCEPT ![r] = "loop"]
    /\ UNCHANGED <<topology, m_events, m_currentTs, m_grantedTime, m_stop, m_pLBTS,
                   transit, arrived, g_txCount, g_rxCount, scheduled>>

(* MPI delivers a packet. *)
Arrive(r) ==
    /\ \E msg \in transit[r] :
         /\ transit' = [transit EXCEPT ![r] = @ \ {msg}]
         /\ arrived' = [arrived EXCEPT ![r] = @ \union {msg}]
    /\ UNCHANGED <<topology, m_events, m_currentTs, m_grantedTime, m_stop, pc, m_pLBTS,
                   g_txCount, g_rxCount, scheduled>>

Terminated == (\A r \in Ranks : pc[r] = "done") /\ UNCHANGED vars

Step(r) ==
    \/ Synchronize(r) \/ ReceiveMessage(r) \/ JoinAllgather(r) \/ OutsideWindow(r)
    \/ ProcessOneEvent(r) \/ HandlerSchedule(r) \/ SendPacket(r) \/ HandlerReturns(r)

Next == Allgather \/ (\E r \in Ranks : Step(r) \/ Arrive(r)) \/ Terminated

Spec == Init /\ [][Next]_vars

(* The ranks keep running, the collective operation ends once all joined,   *)
(* and MPI delivers every message.                                          *)
FairSpec ==
    /\ Spec
    /\ WF_vars(Allgather)
    /\ \A r \in Ranks : WF_vars(Step(r)) /\ WF_vars(Arrive(r))

-----------------------------------------------------------------------------
(* Properties. *)

(* No packet, on its way or delivered, is for a time its receiver has       *)
(* passed: however the windows of the ranks interleave with the messages,   *)
(* the engine processes all events in time stamp order.                     *)
NoStraggler ==
    \A r \in Ranks : \A msg \in transit[r] \union arrived[r] : msg.rx >= m_currentTs[r]

(* "Global halting condition is all nodes have empty queue's and no         *)
(* messages are in-flight": when Run returns, on every rank there is        *)
(* nothing left to process and nothing left to receive.                     *)
HaltedClean ==
    \A r \in Ranks : pc[r] = "done" =>
        \A s \in Ranks : IsLocalFinished(s) /\ transit[s] = {} /\ arrived[s] = {}

(* The time windows always move on: the ranks do not exchange LBTS messages *)
(* forever, and Run returns on all of them.                                 *)
AllFinish == <>(\A r \in Ranks : pc[r] = "done")
=============================================================================
