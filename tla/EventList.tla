------------------------------ MODULE EventList ------------------------------
(***************************************************************************)
(* What a Scheduler (the event list of an engine) promises, whatever its   *)
(* data structure: RemoveNext returns the earliest event, Remove takes out *)
(* one given event, and nothing else disappears.                           *)
(*                                                                         *)
(* This is also the model of MapScheduler and PriorityQueueScheduler,      *)
(* which leave the order to std::map and to std::priority_queue.           *)
(***************************************************************************)
EXTENDS EventKey

VARIABLE events   \* the events in the list

vars == <<events, last, inserted>>

Init == events = {} /\ EngineInit

Insert ==
    /\ EngineInsert
    /\ \E delay \in Delays : events' = events \union {NewEvent(delay)}

TakeOut(next) ==
    /\ events' = events \ {next}
    /\ EngineRuns(next)

RemoveNext ==
    \E next \in events :
        /\ \A e \in events : e = next \/ Before(next, e)
        /\ TakeOut(next)

Remove(ev) ==
    /\ ev \in events
    /\ events' = events \ {ev}
    /\ UNCHANGED <<last, inserted>>

Next == Insert \/ RemoveNext \/ \E ev \in events : Remove(ev)

Spec == Init /\ [][Next]_vars
=============================================================================
