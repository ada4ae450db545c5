# Verification of the ns-3 simulation core

This directory holds TLA+ specifications of the parts of ns-3 on which every
simulation rests: the engines that run events (sequential, realtime and the two
parallel ones), the event lists they use, the condition variable the realtime
engine waits on and the reader thread of an emulated device. Three models of the
network run on them: CSMA devices on their channel, ARP, and the receiving
side of the emulated device. TLC checks the specifications on small instances;
TLAPS checks proofs about all four engines, the event lists, the condition, CSMA, ARP
and the emulated device for all instances.

Paths below are relative to `src/src/` of the repository unless they begin with
`src/`.

## 1. Inventory of the system

ns-3 is a discrete event simulator. A program builds nodes, devices and
applications, schedules first events and calls `Simulator::Run`. The engine then
takes the earliest event, sets the clock to its time and calls its function,
which may schedule, cancel and remove further events. Everything else in ns-3
(protocols, devices, channels) is code that runs inside such events.

| Part | State | Operations | What is hard |
|---|---|---|---|
| Sequential engine, `core/model/default-simulator-impl.cc` | event queue, clock (time, uid, context), uid counter, stop flag, destroy list, hand-over list with its flag | Schedule family, Cancel, Remove, IsExpired, Stop, Run, Destroy | handlers call anything; other threads submit events; the hand-over flag is read without the mutex; IsExpired never looks at the queue; uids wrap |
| Event lists, `core/model/{map,priority-queue,list,heap,calendar}-scheduler.cc` | the events in a map, heap, list or array of buckets | Insert, PeekNext, RemoveNext, Remove, and SetScheduler of the engine | order among equal times, removal from the middle, resizing |
| Realtime engine, `core/model/realtime-simulator-impl.cc`, `wall-clock-synchronizer.cc` | the same, with a wall clock origin, a condition flag and a deadline | Run, the wait in its stages, scheduling from other threads | a submission between the decision to wait and the wait; two notions of time |
| SystemCondition, `core/model/unix-system-condition.cc` | condition flag, mutex, waiters | Wait, TimedWait, SetCondition, Signal | the flag is written outside the mutex; the absolute time |
| Null message engine, `mpi/model/null-message-*.cc`, `remote-channel-bundle*.cc` | per rank: queue, clock, safe time, guarantees | Run, null message events, SendPacket, ReceiveMessages | ranks run asynchronously; guarantees about the future; ranks that wait for each other |
| Granted time window engine, `mpi/model/distributed-simulator-impl.cc`, `granted-time-window-mpi-interface.cc` | per rank: queue, clock, granted time, packet counts | Run with its collective operation, SendPacket, ReceiveMessages | packets in transit while the ranks agree on a time; termination |
| Point-to-point devices, `point-to-point/model/` | transmit state, queue | Send, TransmitStart, TransmitComplete | the guarantees of the null message engine rest on them |
| CSMA, `csma/model/` | channel state; per device: transmitter state, back-off, queue | SendFrom, TransmitStart, TransmitAbort, the end of a frame and of the gap, Receive, Detach, Reattach, enable | carrier sense against propagation; a transmitter driven by events it schedules itself; devices that leave in the middle of a frame |
| ARP, `internet/model/arp-*.cc` | per node: entries with state, age, retries and pending packets; one timer | Lookup, requests, replies, timeout, Flush, Remove | one timer for all entries; replies that are lost, late or for an entry that was given up |
| FdReader and emulated device, `core/model/unix-fd-reader.cc`, `fd-net-device/model/fd-net-device.cc` | reader thread, pipe, descriptor, queue between the threads | Start, Stop, the reader's loop; StartDevice, StopDevice, ReceiveCallback, ForwardUp | stopping a thread that is blocked in select; a descriptor closed under it |
| Queues, packets, sockets, `network/` | packets and byte counts | Enqueue, Dequeue | limits, byte queue limits |
| Timer, Watchdog, `core/model/` | event id, state | Schedule, Suspend, Resume, Ping | re-arming in the handler |
| Bridge, TCP, IP, UDP, routing, `bridge/`, `internet/` | tables, socket states, buffers | packets and timers | timers racing packets, wrap-around of sequence numbers |
| Ad hoc routing (AODV, OLSR, DSDV, DSR) | routing tables | control packets, timers | stale routes, loops |
| Wi-Fi, LTE, WiMAX, LR-WPAN, UAN, WAVE, mesh, 6LoWPAN | MAC and PHY state machines | frames, timers | size; block acknowledgement windows |
| Traffic control | queue disciplines | Enqueue, Dequeue, Run | stopped device queues |
| Propagation, mobility, spectrum, energy, antenna, buildings | numbers | formulas | floating point |
| Applications, statistics, flow monitor, animation, configuration, emulation | counters, files, descriptors | input and output | none for a model checker |

The first ten rows are modelled, wholly or in part. `PROJECT.json` lists
the status of every part, the hazards of the modelled parts at their lines, and
the lines each definition translates.

How the modelled parts interact: an engine owns one event list, and the realtime
engine owns a synchronizer that owns a SystemCondition. The parallel engines own an event
list per rank and talk to the others by MPI; point-to-point devices on a link
between two ranks hand their packets to the engine's MPI interface. Foreign
threads talk to an engine by `ScheduleWithContext` only; the one ns-3 itself starts
is that of an FdReader, whose device schedules `ForwardUp` from it. Devices and
protocols (CSMA, ARP) are state machines whose steps are events of the engine:
their models say what those events do, and `DefaultSimulator` shows that events run
in the order of their times and never after they were cancelled.

## 2. Modules

Each component is a module; `MC*` modules hold the constants of its instances.
Operators that begin with a comment "Mutant" are deliberately wrong variants of
the definition that follows or of one named like it. They are used in no
specification; replacing the definition by the variant shows that a property
notices the bug.

### DefaultSimulator
Variables keep the names of the members. The queue is the set of its events
(the data structures are a matter of the next modules). An event handler is
arbitrary code, so while `pc` is `"handler"`, `"destroyHandler"` or `"outside"`
(of Run) the main thread may make any call. `Run`, `ReadFlag`, `Swap`, `Drain`,
`Drained`, `ProcessOneEvent`, `HandlerReturns`, `RunReturns` are the steps of the
loop, split where another thread can come in: the read of
`m_eventsWithContextEmpty` outside the mutex is a step of its own. `Cancel` and
`RemoveEvent` work on any EventId a caller ever got (`ids`). `invoked`, `revoked`
and `sub` are history that the properties need. uids are taken modulo
`UidRange`, 2^32 in the code.

### EventKey, EventList, ListScheduler, HeapScheduler, CalendarScheduler, Schedulers
`EventKey` has the order of events and the engine that calls a scheduler: it schedules
nothing before the event it runs. `EventList` is what a Scheduler promises, and also
the model of `MapScheduler` and `PriorityQueueScheduler`, which leave the order to
the standard library. `ListScheduler`, `HeapScheduler` and `CalendarScheduler` model the
data structures: the place search of the list; the exchanges of the heap (`BottomUp`,
`TopDown`); buckets, scan, resize and sampled width of the calendar in both bucket
orders. `Containers` has what they are made of: insertion into a list and
erasure, and `Loop`, a loop of the code as a function of the number of its passes.
`Schedulers` composes them: the program picks one, and `SetScheduler` takes the
events out of it in turn and inserts them into a new one, in the middle of a
simulation. Its refinement mapping takes the events of the scheduler in use to those of
`EventList`, whose specification is the property `IsEventList`.

### RealtimeSimulator
Each critical section is a step: `Prepare` and `TakeNext` are the two of
`ProcessOneEvent`, with `DoSynchronize`, the sleep and `SpinWait` between them. `TimedWait`
reads the clock again, after `DoSynchronize` did, to compute when the sleep ends; if
that is the end of a second, to the nanosecond, as the sum of two parts of a second, the operating system refuses
the wait (`"refused"`), which then ends only when it is interrupted.
`Tick` moves the wall clock at any point. Other threads schedule at any point,
relative to the real time; the main thread schedules relative to the
simulation time. The condition is a flag here, and SystemCondition shows that
it can be waited for and how a wait is refused. The hard limit mode ends in `"fatal"`.

### SystemCondition
One waiting thread (for which Broadcast is Signal) and one signalling thread.
`SetCondition` writes the flag without the mutex, as the code does, and is a step of its own before
`Signal`. The pthread functions are external and do what POSIX says, spurious
wakeups and EINVAL included. `Timespec` is the computation of the absolute time,
with its carry.

### EventQueue
The queue of a rank of a parallel engine, as a sequence: earliest first, and first in,
first out among equal times. `InsertEvent` is what the Schedule functions of the two
parallel engines do to it.

### NullMessage
Per rank: the start (a guarantee for every neighbour), the loop, handlers that
schedule and send, the non-blocking receive after each event and the blocking
one when the next event is not safe. `TransmitStart` is that of the device:
TransmitComplete is scheduled, after the transmit time and the interframe gap, and the
remote channel calls `SendPacket`, which sends the packet with a guarantee computed at
that moment and puts off the null message event.
Messages between two ranks arrive in order, and when one arrives is up to MPI.
A behaviour picks its `network` (links, delays, limits) from the set `Networks`.

### GrantedTimeWindow
Per rank: events inside the granted window, reception, and the collective
operation, which is one step of all ranks (`Allgather`). Packets are delivered
at any time in any order. The network is picked from a set of topologies, so
that one run covers ranks with different look-aheads and a rank without links.

### SharedMedium, CsmaChannel, CsmaNetDevice
`CsmaChannel` has the wire (`m_state`, the frame on it and its source), the flag
`active` of each attached device, and the receptions that are scheduled.
`CsmaNetDevice` has the devices: transmitter state, current packet, queue,
retries and the two enable flags, and for each kind of event it schedules for itself
(`starts`, `completes`, `readies`) how many are pending. `TransmitStart` is the whole
function, with the back-off, the abort and the failure of the channel; `SendFrom`,
`TransmitStartEvent` and `TransmitReadyEvent` call it as the code does. An event may run at any later time, so the results do not
depend on data rates, slot times or random numbers. `heard` and `troubled` (who was
ever detached or disabled) are history. `SharedMedium` is what the two promise: one
frame at a time, frames of a station in the order it accepted them, each either
carried or dropped, and heard by a station at most once. The refinement mapping
takes the queue and the packet not yet on the wire to the backlog of the station.

### ArpCache, ArpL3Protocol
`ArpCache` has the operators on an entry (`MarkWaitReply`, `UpdateWaitReply`,
`MarkAlive`, `MarkDead`, `MarkPermanent`, `IsExpired`...) and the work of a timeout on all entries of
a cache; `ArpL3Protocol` has the nodes, with one cache, one timer and the jittered
requests of each, and the link between them, which loses, delays and reorders.
IP and hardware addresses are different things: a message has the four fields of an ARP
header, `Hardware` gives each device its address, and the user may make an entry
permanent with any address of `Given`, in any state the entry is in (`SetPermanent`). A
reply is for the node whose IP and hardware address it carries. An IP packet keeps
the entry of its source alive, or, when there is none, the entries with the hardware
address it came from (`SeePacket`, `SeeRouted`).
The time an entry was last seen is kept as its age, and `Tick` lets a unit of time
pass when no event is due. Request events of a node that agree in destination and
delay are one event: the second one sends a message that the link may lose as well.
`waited` and `given` are history: how long the entry has waited, and the address the
user made permanent.

### FdReader, FdNetDevice, LossyFifo
Two threads. `FdReader` has the steps of the reader's loop (select, emptying the pipe,
the test of `m_stop`, the read) and those of Start and Stop; `FdNetDevice` adds what
the device does in its callback, in `ForwardUp` and around Stop. Steps are split where
the other thread can come in: Stop writes the flag, then the pipe, then joins.
`select` and `read` are external and may be interrupted or find the end of the input.
`LossyFifo` is what the device promises: frames come out in the order they went
in, none twice.

### Threads
SystemCondition and FdNetDevice side by side, for one run: a behaviour is one of
the one or one of the other (`unit`). They share no state.

## 3. Runs

| Run | Expected | Question |
|---|---|---|
| `engine` | pass | Is the queue always ahead of the clock; is IsExpired exact for every id ever given out; does the count match; do cancelled and removed events stay silent; are submissions in order and never passed over by the unlocked early return; does the clock never go back? |
| `event_lists` | pass | Does every scheduler, and a change of schedulers, implement the event list; does the calendar keep its structure? |
| `heap_remove` | violation | Does RemoveNext of the heap return the earliest event after a Remove? |
| `null_message` | pass | With one link, and over two hops with different delays: are the guarantees kept, do safe times only grow, does no packet arrive in the past of its receiver, and do all ranks reach their stop time? |
| `null_two_links` | violation | Are the guarantees kept when two links join the same ranks? |
| `time_windows` | pass | No packet in the past of its receiver, nothing in flight at the end, and does Run return everywhere? |
| `realtime` | pass | Is no event overslept, none early, none in the past, and does what is due run, unless the wait for it is refused? |
| `realtime_restart` | violation | Is nothing scheduled in the past in a second Run? |
| `threads` | pass | Condition: is no wakeup lost, no timeout early, and does a signalled waiter return? Reader: is no Stop lost, does it return, does the thread never outlive its descriptor, has every frame its event, and is the device a lossy FIFO? |
| `condition_timeout` | violation | Does TimedWait return when its time is over? |
| `csma` | pass | Has the wire one owner; has each transmitter exactly one event; is a READY device done; is the whole a shared medium; does every packet leave or get dropped? |
| `arp` | pass | Do packets wait exactly as long as their entry; is the fatal branch of Lookup unreachable; has a resolved entry the address of its node, and a permanent one the user's, whatever replies come late; is an address given up neither too early nor too late; is every packet resolved? |

What the four violations show:

* `heap_remove`: `HeapScheduler::Remove` fills the hole with the last element and
  moves it down only; if it belongs above its new parent, the heap is out of order,
  and a later RemoveNext returns an event that is not the earliest.
* `null_two_links`: `SendPacket` computes a guarantee in the middle of an event. The
  same event can then send on a second link to the same rank with a shorter
  transmission time, and that packet is earlier than the guarantee.
* `realtime_restart`: `WallClockSynchronizer::DoSetOrigin` ignores the simulation time
  it is given. In a second Run the real time is behind `m_currentTs`, and what other
  threads schedule fails the assertion `ts >= m_currentTs`.
* `condition_timeout`: the carry of the nanoseconds is tested with `>` instead of `>=`.
  At exactly 10^9 `pthread_cond_timedwait` refuses the time, and the loop spins
  until somebody sets the condition. In the realtime engine that somebody is another
  thread that schedules; without one an event that is due does not run, and
  `DueEventRuns` states the exception.

Observations without a run of their own, most of them made while translating:

* Engine. `m_uid` is a 32-bit counter without a check. Past its wrap an event due
  now can have a uid below the current one, and IsExpired takes it for
  expired; the proofs state this limit as the assumption `NoUidWrap`. Events due exactly at the
  stop time that were scheduled before `Stop (delay)` still run, while
  `core/model/simulator.h:161` says Run returns at "greater than or equal to the stop
  time".
* Realtime engine. `ScheduleRealtimeWithContext` never sets the context of the event.
  Run sets `m_running` before the origin of the real time, so a thread that
  schedules in between gets an event decades ahead; and Run returns only after Stop,
  never for lack of events, as `simulator.h:140` has it.
* CSMA. `SetSendEnable (false)` while a device backs off leaves it in BACKOFF without an
  event for good (`csma-net-device.cc:456`). When the channel refuses a frame
  because the device was detached, the packets behind it stay in the queue of a READY
  device until the next SendFrom (`:509`). The test in `Reattach (uint32_t)` is inverted
  (`csma-channel.cc:110`); nothing calls it. `OneTransmitterEvent`, `ReadyMeansDone` and
  `PacketLeaves` state the first two as exceptions (`troubled`).
* ARP. The comment at `arp-cache.cc:428` says that the previous packet is replaced
  when the queue is full; the code drops the new one. `MarkPermanent` on a waiting entry
  leaves its packets there, neither sent nor dropped, until the entry is removed
  (`PendingWhileWaiting` and `PacketResolved` state the exception), and `Flush` drops packets without the drop trace. With
  MaxRetries 0 an entry may be given up before its jittered request is sent.
* FdReader. A `select` that a signal interrupts leaves the descriptors set, and the read that
  follows may block until the next frame, with Stop waiting for it
  (`unix-fd-reader.cc:183`; `StopReturns` states the exception). A read error counts as
  the end of the input. `ReceiveCallback` does not free the buffer of a frame it
  drops. StartDevice twice without a stop leaves the first thread running.

### Bounds and why they are enough

* `engine`: four events, two of them from the other thread, delays 0 and 1: equal
  and different times, a submission during the drain of an earlier one, cancel
  and remove before, during and after the event, destroy events that schedule
  and remove others. uids just fit (`UidRange` 8) and do not wrap. The properties are also proved
  without these bounds.
* `event_lists`: five events, one change of scheduler, delays 0, 1 and 5. The
  calendar grows at the fifth event and shrinks again. Days begin as one time step
  and two make a year, so a delay of 5 is more than a year ahead; after the growth days
  can be longer and the same delay falls into the same day or the next. A heap of
  five has elements with two, one and no children. `heap_remove` needs seven.
* `null_message`: one link with delay 4, transmit time 1, a gap of 1 at one end, stop at 7, two packets from
  one rank and one from the other: two null message periods, a packet that is queued
  behind another one, a user event; and three ranks in a line, delays 1 and 2, ranks
  0 and 1 sending a packet each, stop at 3.
* `time_windows`: three ranks, one packet and one further event each, one rank
  stopped early; delays 1 and 3, so that windows differ in length.
* `realtime`: three events, a clock from 1 to 5, which goes on only until a sleep for an
  event ends, delays 0 and 3; one jiffy of spinning and three to a second, so that each wait
  sleeps, spins, is interrupted, times out or is refused. `realtime_restart` allows a second Run.
* `threads`: condition: a second has six nanoseconds and a microsecond two; timeouts
  below, at and above a second, two calls. Device: five frames whose names are
  used again once they are gone, one frame in the kernel, two in the
  queue: a full queue, a frame in the thread's hand, and starts after stops.
* `csma`: three devices, one of them detached, disabled and back at any time, four frames
  of two senders (names used again, one of them broadcast), queues of one, two retries: a device that finds
  the wire busy three times, a full queue, an abort with and without a packet behind it.
* `arp`: three nodes of which one sends, to two destinations, one of which the user
  removes, flushes or makes permanent with an address that is not its own; three packets, two of them for
  one destination, two places in each pending queue, one retry, a wait of two units, a jitter of one, an
  alive timeout of two and a dead timeout of one: entries that share the timer and
  started at different times, late replies for entries that were given up, removed or
  made permanent. The full queue is left to the proofs.

`CHECK_DEADLOCK` is off only for the event lists, which stop when the bound on
insertions is reached. In the other models a stuttering step stands for the end of the
program, or some input is always possible. Where that hides a deadlock (the other
thread may always set the condition, a frame may always arrive, a rank that waits for a message
polls with `Wait`), the liveness properties do the work: ranks that wait for each
other violate `AllStop`, a Stop that nobody wakes violates `StopReturns`.

### Fairness

* `null_message`: weak fairness of every rank's step: a rank is a process, handlers
  return, and MPI delivers. All ranks stop at the same simulated time; the code has
  no message that says a rank has ended, and with different stop times a rank is
  left in `MPI_Waitany`.
* `time_windows`: weak fairness of every rank, of the collective operation and of
  the delivery of each packet.
* `realtime`: weak fairness of the main thread and of the clock, none of the
  foreign threads.
* `threads`, `condition_timeout`: strong fairness of the waiter, its timeout and
  the signal, since each needs a mutex that is free only now and then; POSIX
  mutexes do not starve a thread in practice, though POSIX leaves it to the
  scheduling policy. Weak fairness of the clock. In `threads` also weak fairness of the
  reader thread and of a Stop that is in progress; interrupted calls, new frames and calls of the
  program are not fair.
* `csma`: weak fairness of the events of each device, of the receptions and of the
  end of the propagation: the engine runs every scheduled event. Sending, detaching and
  disabling are not fair.
* `arp`: time goes on for ever. Time cannot pass an event that is due, so the timer and
  the requests run; the link may lose everything.

Without fairness every one of these systems may stop; the safety runs need none.

## 4. Proofs

### The sequential engine

`DefaultSimulatorProofs`, for every set of delays, contexts and foreign threads and
every bound on the number of events. It begins with what needs no
assumption on the uids (`TypeCorrect`, `HandOver`); then come the inductive
invariant, the step lemmas for uids, queue and EventIds, those for the destroy list,
revoked events and the order of submissions, the one for the count, and the theorems:

* `TypeCorrect`: the type invariant.
* `Invariance`: the inductive invariant `Inv`, from which the next six follow.
* `EngineQueue`, `EngineExpired`, `EngineCount`, `EngineRevoked`, `EngineSubmissions`:
  `QueueAhead`, `ExpiredExact`, `UnscheduledCount`, `RevokedNeverRuns` and
  `SubmissionOrder` are invariants.
* `EngineClock`: no step moves the (time, uid) clock back (`ClockForward`).
* `HandOver`: `ProcessEventsWithContext` never returns early while a
  submission is waiting (`SubmissionTakenOver`).

`TypeCorrect` and `HandOver` use only the assumptions on the constants (delays
are natural numbers, bounds are natural numbers, more than four uids). The others
assume `NoUidWrap`: the uid range is not exhausted.

The argument. `ExpiredExact` is not inductive: IsExpired compares an EventId
with the clock, so one must know that ids agree with the queue, that the queue
is ahead of the clock and that uids identify events. The inductive invariant
`Inv` is the conjunction of

* `UidInv`: the uid counter is 4 plus the number of events created, so a new
  event is after the current one also at the same time;
* `QueueInv`: what is queued is ahead of the clock, and uids and events match;
* `IdInv`: an id that is not cancelled is ahead of the clock exactly when its event
  is queued;
* `DestroyInv`: the destroy list has distinct events, all of them known;
* `RunInv`: what is queued has not been invoked, and what was removed is nowhere;
* `CountInv`: the queue is finite and counted;
* `OrderInv`: submission numbers grow along the queue, the list being drained and
  the hand-over list;
* `TypeOK`.

Each conjunct has its own step lemma, with one case per action that can disturb
it; `StepCases` sorts the actions by what they do to the queue. `HandOver` has an
inductive invariant of its own: the flag says whether the list is empty.

### The event lists

`SchedulersProofs`, for any delays, any number of events and any number of changes of
the scheduler, from the lemmas of `EventListProofs` (loops, sequences, the list, the heap, the
map, and the calendar between two resizes):

* `SchedulersAreEventLists`: the map, the sorted list, the heap and the calendar implement
  `EventList`, alone and when `SetScheduler` replaces one by another (`IsEventList`).
* `BucketsStayConsistent`: the structure of the calendar (`BucketsConsistent`).
* `ScanStaysBehind`: the position of the calendar's scan (`ScanNotAhead`).

All rest on the inductive invariant `Inv`: the list is sorted, the heap is ordered, the calendar
has its events in the right buckets, sorted, and nothing before `m_lastPrio`; the schedulers
not in use are empty (`Structures`); events are not before the last one that ran and
have uids already given (`Engine`).

The operations are loops. A lemma about `Loop` takes the place of an induction: given a
set of states for each number of passes, such that the start is in the first set and a pass
leads from each to the next, the loop ends in the last set. For `BottomUp` the states
after some passes are the heaps in which only the element that rises may be before its
parent, and its children are not before its parent (`RisingTo`); for `TopDown` the same
downwards (`SinkingTo`); with each pass the element has moved by a level or is in
place. For the loops over events they are the structures with the first i events (`Firsts`, `Drained`).

The core for the calendar is `PeekNextIs`, that PeekNext returns the earliest event. If
the scan finds an event on the day it visits, the days before it were visited in vain, and
an earlier event would have been in one of their buckets, since none is before the day of
`m_lastPrio`, with which the scan starts; if a whole year is empty, the earliest of the
buckets' first events is taken. `CalculateNewWidth` removes events and so moves the scan,
and puts both back; `DoResize` computes other days and buckets from the same `m_lastPrio`.

The load that `BucketsConsistent` states (at most two events per bucket) is an invariant
only up to the limit of 32768 buckets, at which ResizeUp stops; the proof asked for this
exception, which no instance of the run reaches. `Remove` is not called on a heap, for there the order is lost, as
`heap_remove` shows. Times are natural numbers: that `m_bucketTop` and widths, of 64
bits, could wrap is not modelled.

### The realtime engine

`RealtimeProofs`, for any number of threads and events, any delays, any clock, any time
of spinning, any length of a second, and any hard limit:

* `RealtimeTypeCorrect`: `TypeOK`, with `m_unscheduledEvents` the size of the queue.
* `NothingOverslept`: `NoOversleep`.
* `NothingEarly`: `NeverEarly`.
* `FirstRunAssertionHolds`: `NothingInThePast` as long as Run was called once. The
  restriction is the code's: `realtime_restart` shows the assertion fail in a second Run.
* `FirstRunTimeForward`: no step of the first Run sets the simulation time back.

All follow from `RealtimeInv`. `NoOversleep` is inductive beside the types. `NeverEarly` is
not: `TakeNext` takes the first event of the queue, which need not be the one the wait was
for. `DueInv` says that the event waited for is still there, since other threads only add
events and Remove is the main thread's: hence the first one, being no later, is due too.
`NothingInThePast` needs `FirstRunInv`: the simulation time is not ahead of the real time,
by which the other threads go, and it is 0 until the origin is set.

### The granted time window engine

`GrantedTimeWindowProofs`, for any finite set of ranks, any set of topologies whose links
have a positive delay, the same in both directions, and any bound, delays, stop times
and packets: `GtwNoStraggler` (`NoStraggler`), `GtwHaltedClean` (`HaltedClean`) and
`GtwTimeForward`, the assertion of ProcessOneEvent that time does not go back.

The invariant speaks of a time b that no variable holds, the least time in the last
exchange that found no packet under way (`WindowInv`). No rank that goes on has an event
before b, so no packet arrives before b plus the receiver's look-ahead, and no rank has
gone past that. A new b is found when the sums of the packets sent and
received agree. That nothing is then under way is `CountInv`: the packets sent are those
received, arrived and in transit, summed over all ranks, and it is preserved because a
send adds one to both sides. The sums are `SumFunction` over an arbitrary finite set;
the lemmas about it (changing one value changes the sum by the difference; if one
function is nowhere above another and their sums are equal, so are the functions) are proved by looking at a smallest counterexample with the
library's theorem on well-founded relations, which, unlike the induction
rules, can be cited here. `AheadFacts` is the lemma about CalculateLookAhead: no link of a rank is
faster than its look-ahead, which is 0 when there is only one rank.

### The null message engine

`NullMessageProofs`, for any number of ranks, any delays, transmit times, gaps, tuning,
stop times and numbers of events and packets: `NullGuaranteeHolds` (`GuaranteeHolds`),
`NullNoStraggler` (`NoStraggler`) and `NullSafeTimeForward` (the action property
`SafeTimeForward`). `NetworksAssumption` says what a network is: channels join two
devices of different ranks, every rank has a link, delays are positive.

The three assume `OneLinkPerPair`, at most one link between two ranks. Without it
they are not theorems: `null_two_links` shows a guarantee broken with two parallel links.
The networks of `null_message` satisfy it.

A guarantee is computed from the state of the sender when it is given, and must hold when a packet is
sent much later. The invariant `NullInv` therefore keeps, for every link, what backs the
last guarantee given on it, be it still in transit or not (`Backed`): it is not beyond the
safe time of the sender plus the delay, nor beyond the end of the transmission under way plus the delay;
and either the device is busy or it is not beyond any event that may send, plus the
delay. In the first case user events before the end of the transmission do no harm, for
their packets wait. With this go: guarantees travel in order (`InOrder`), so that the
latest is the last; every bundle has one null message event in the queue from its
initialisation on; a rank is not past its safe time, nor the safe time past any guarantee
held (`RankInv`). Each action has a step lemma; the lemmas `Backed...` say, for each thing that
can happen to a rank's queue or device, that the link is still backed.

`RealtimeProofs`, `GrantedTimeWindowProofs` and this module begin with lemmas about the
sorted queue: what `InsertEvent` and `Tail` keep of it, and that `Min` of a set of
naturals is its least element.

### CSMA

`NetworkProofs` (its first part), for any number of devices and frames, any queue size
of at least one and any number of retries, from the assumptions of `CsmaChannel` and
`CsmaNetDevice` on their constants: `CsmaTypes` (`CsmaTypeOK`, with the queues'
limit), `WireSafety` (`WireOwned`), `TransmitterSafety` (`OneTransmitterEvent`), `ReadySafety`
(`ReadyMeansDone`) and `Refinement` (`IsSharedMedium`).

None of these is inductive alone: whether a device may put a frame on the wire depends on
who owns it, and that the end of the frame frees it depends on the one event
`completes` being there. The invariant `CsmaInv` therefore says of each device, seen from the
channel, which events it has in which transmitter state (`Transmitter`) and, if it was
never detached or disabled, that nothing is left behind (`Undisturbed`), and of the
channel that receptions are scheduled only while a frame propagates (`ChannelInv`). Most
actions end in `TransmitStart`; one lemma takes a device that has a packet and no event
back to a good one, and the refinement has a lemma of the same shape, in which
TransmitStart is an `Advance` of the station.

### ARP

`NetworkProofs` (its second part), for any number of nodes and packets and all timeouts, retries and limits
(a wait of at least one unit, pending queues of at least one): `ArpTypes` (`ArpTypeOK`, with the
limit of the pending queues), `Pending` (`PendingWhileWaiting`), `LookupNeverFatal` (`NoFatalLookup`),
`Addresses` (`RightAddress`) and `GivingUp` (the action property `GivenUpInTime`).

The core is a relation between a waiting entry and the shared timer (`InTime`):
the age of the entry and the time the timer has to run make up at most one wait, so the
timer ends before the entry expires; and the time it has waited plus what the timer has
to run lies between its retries and one more, in waits. `Tick` keeps the
sums, and a timeout that starts the timer again adds a retry and a wait.

`Addresses` needs two facts beside: a reply on the link carries the hardware address of
the node it is from (`MessageFacts`), and only a waiting entry takes one. The second is what
keeps a permanent entry as the user made it: without the test of the state, the reply to a
request sent before would make the entry alive with another address.

### The two waiting threads

`ThreadsProofs` proves four things of the emulated device, for every set of frames, every
bound `KernelSize` and every limit `m_maxPendingReads` that is a natural number: `StopWakes`
(`NoLostStop`), `EventForEachFrame` (`OneEventPerFrame`), `ThreadOutlived` (`ThreadContained`)
and `ImplementsLossyFifo` (`IsLossyFifo`). The inductive invariant is the conjunction of
the three invariants, the type invariant (with the limit of the queue) and `Connected`,
which relates the pipe, the reader and the descriptor to where the two threads are. The
refinement is shown action by action on the sequence of frames in flight: queue,
hand of the thread, kernel.

Of the condition it proves `WakeupSafe` (`NoLostWakeup`) and `TimeoutNotEarly` (`NotBeforeTime`), for
all timeouts and every length of a second and a microsecond, the real ones included.
`NoLostWakeup` speaks of a blocked waiter only; the inductive form adds the waiter that
has tested the condition and holds the mutex, which keeps the signal back until it
blocks. `TimeoutNotEarly` rests on a lemma about `Timespec`: the two divisions and the carry
make up the sum of clock and timeout, but for the part of a microsecond that
gettimeofday leaves out. (That the sum may not be normalised is what `condition_timeout`
shows.)

### Only model-checked

Every safety property and every refinement of a passing run is a theorem. Left to TLC are:

* All liveness properties (`AllStop`, `AllFinish`, `DueEventRuns`, `SignalledReturns`,
  `StopReturns`, `PacketLeaves`, `PacketResolved`): they rest on fairness, which these
  provers do not reason about.
* The violations, which are counterexamples.

## 5. What is not modelled

* In the sequential engine: GetDelayLeft, GetEventCount and the other readers;
  a second engine after Destroy, which old EventIds would meet.
* In the realtime engine: the contexts of events, Cancel and the destroy list (the
  same code as in the sequential engine), Remove and Stop from other threads
  (Stop does not signal, so an idle Run notices after up to a second).
* In the parallel engines: Cancel, Remove and the destroy list, as above; the MPI
  buffers; ranks without links, ranks that never stop and different stop times in
  the null message engine; delays so short that the period of null messages rounds
  to zero, with which the engine does not progress; the device queue's limit.
* A wall clock that is set back. Broadcast with several waiters.
* In CSMA: Attach after the start, sizes and encapsulations of frames, the error model,
  times. In ARP: traces, several interfaces of a node, a device whose hardware
  address changes. In the emulated device: sending, headers, a device that is
  started twice.
* Timer and Watchdog, the point-to-point device with a local channel, the bridge, TCP,
  byte queue limits and traffic control: within reach, see the plan.
* All other parts of ns-3, for the reasons `PROJECT.json` gives: floating point
  formulas, input and output, generated bindings, and technology models (Wi-Fi, LTE, WiMAX
  and others) each of which is larger than everything modelled here.

## 6. Plan

1. Done: the engines, the event lists, the condition and the reader thread; CSMA, ARP and the
   emulated device, the first and the last of them as implementations of an abstract
   specification; the proofs of section 4.
2. Next modules, in this order: Timer and Watchdog on top of the engine's ids;
   the point-to-point device with its queue and local channel; the learning bridge; the
   TCP connection state machine (two sockets over a lossy channel), then its
   transmit and receive buffers against a byte stream; the device queue with traffic
   control.
3. Compositions: ARP over CSMA; TCP over a lossy link.
4. Proofs: the uniqueness of uids beyond their wrap, under a bound on how long an event
   can stay queued.
