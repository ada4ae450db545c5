------------------------------ MODULE EventKey ------------------------------
(***************************************************************************)
(* The events of a scheduler and the engine that calls it: the engine      *)
(* schedules nothing before the event it is running, which is the last one *)
(* RemoveNext returned, and gives every event a new uid.                   *)
(***************************************************************************)
EXTENDS Integers

CONSTANTS
    Delays,       \* delays between the running event and a new one
    MaxInserts    \* bound: events inserted in a behaviour

VARIABLES
    last,         \* the last event RemoveNext returned
    inserted      \* number of events inserted, and the last uid given

(* Scheduler::EventKey: events are ordered by time, then by uid. *)
Before(a, b) == a.ts < b.ts \/ (a.ts = b.ts /\ a.uid < b.uid)

(* The event the engine schedules next, delay after the running one. *)
NewEvent(delay) == [ts |-> last.ts + delay, uid |-> inserted + 1]

EngineInit ==
    /\ last = [ts |-> 0, uid |-> 0]
    /\ inserted = 0

EngineInsert ==
    /\ inserted < MaxInserts
    /\ inserted' = inserted + 1
    /\ UNCHANGED last

EngineRuns(ev) == last' = ev /\ UNCHANGED inserted
=============================================================================
