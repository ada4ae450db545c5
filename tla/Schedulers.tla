----------------------------- MODULE Schedulers -----------------------------
(***************************************************************************)
(* The event list of an engine with the schedulers it can be made of: the  *)
(* program picks one, and SetScheduler moves the events to another one in  *)
(* the middle of a simulation.                                             *)
(*                                                                         *)
(* The schedulers that are not in use hold nothing.  Remove is called on   *)
(* all of them but the heap, whose Remove does not keep the order (see     *)
(* HeapEarliest in HeapScheduler).                                         *)
(***************************************************************************)
EXTENDS ListScheduler, HeapScheduler, CalendarScheduler

CONSTANT MaxChanges    \* bound: calls of SetScheduler

ASSUME SchedulersAssumption ==
    Delays \subseteq Nat /\ MaxInserts \in Nat /\ MaxChanges \in Nat

VARIABLES
    scheduler,     \* the type of m_events, the engine's scheduler
    m_map,         \* the std::map of a MapScheduler
    changes

Types == {"Map", "Heap", "List", "Calendar"}

calendarVars == <<cal, m_qSize, m_reverse>>
vars == <<scheduler, m_map, m_heap, m_events, calendarVars, last, inserted, changes>>

Map == INSTANCE EventList WITH events <- m_map

Events == m_map \union Range(m_heap) \union Range(m_events) \union CalendarEvents(cal)

List == INSTANCE EventList WITH events <- Events

Init ==
    /\ scheduler \in Types
    /\ Map!Init /\ HeapInit /\ ListInit /\ CalendarInit
    /\ changes = 0

(* One operation of the scheduler in use. *)
Using(map, heap, list, calendar) ==
    /\ \/ scheduler = "Map" /\ map /\ UNCHANGED <<m_heap, m_events, calendarVars>>
       \/ scheduler = "Heap" /\ heap /\ UNCHANGED <<m_map, m_events, calendarVars>>
       \/ scheduler = "List" /\ list /\ UNCHANGED <<m_map, m_heap, calendarVars>>
       \/ scheduler = "Calendar" /\ calendar /\ UNCHANGED <<m_map, m_heap, m_events>>
    /\ UNCHANGED <<scheduler, changes>>

Insert == Using(Map!Insert, HeapInsert, ListInsert, CalendarInsert)

RemoveNext == Using(Map!RemoveNext, HeapRemoveNext, ListRemoveNext, CalendarRemoveNext)

RemoveEvent(ev) ==
    Using(Map!Remove(ev), FALSE, ListRemove(ev), CalendarRemove(ev))

(* RemoveNext until the list is empty: the events in the order in which it  *)
(* returns them.                                                            *)
Earliest(map) == CHOOSE e \in map : \A f \in map : e = f \/ Before(e, f)

MapInTurn(map) ==
    Loop(LAMBDA s, i : [map |-> s.map \ {Earliest(s.map)}, out |-> Append(s.out, Earliest(s.map))],
         [map |-> map, out |-> <<>>], Cardinality(map)).out

HeapInTurn(h) ==
    Loop(LAMBDA s, i : [heap |-> TakenOut(s.heap, 1), out |-> Append(s.out, s.heap[1])],
         [heap |-> h, out |-> <<>>], Len(h)).out

CalendarInTurn(c, qSize) ==
    Loop(LAMBDA s, i : [cal |-> TakenNext(s.cal, qSize - i + 1),
                        out |-> Append(s.out, PeekNext(s.cal))],
         [cal |-> c, out |-> <<>>], qSize).out

InTurn ==
    CASE scheduler = "Map" -> MapInTurn(m_map)
      [] scheduler = "Heap" -> HeapInTurn(m_heap)
      [] scheduler = "List" -> m_events
      [] scheduler = "Calendar" -> CalendarInTurn(cal, m_qSize)

(* Insert of one event after the other, into a new scheduler. *)
HeapOf(evs) == Loop(LAMBDA h, i : HeapInserted(h, evs[i]), <<>>, Len(evs))
ListOf(evs) == Loop(LAMBDA s, i : ListInserted(s, evs[i]), <<>>, Len(evs))
CalendarOf(evs) ==
    Loop(LAMBDA c, i : CalendarInserted(c, i - 1, evs[i]),
         NewCalendar(2, 1, 0), Len(evs))

(* SetScheduler: a new scheduler, into which the events of the old one are  *)
(* inserted in turn.                                                        *)
SetScheduler(type) ==
    /\ changes < MaxChanges
    /\ changes' = changes + 1
    /\ scheduler' = type
    /\ m_map' = IF type = "Map" THEN Range(InTurn) ELSE {}
    /\ m_heap' = IF type = "Heap" THEN HeapOf(InTurn) ELSE <<>>
    /\ m_events' = IF type = "List" THEN ListOf(InTurn) ELSE <<>>
    /\ cal' = CalendarOf(IF type = "Calendar" THEN InTurn ELSE <<>>)
    /\ m_qSize' = IF type = "Calendar" THEN Len(InTurn) ELSE 0
    /\ UNCHANGED <<m_reverse, last, inserted>>

Next ==
    \/ Insert \/ RemoveNext \/ \E ev \in Events : RemoveEvent(ev)
    \/ \E type \in Types : SetScheduler(type)

Spec == Init /\ [][Next]_vars

-----------------------------------------------------------------------------
(* Properties. *)

(* Whichever scheduler the engine uses, and when it is replaced in the      *)
(* middle of a simulation, RemoveNext returns the earliest event, first in, *)
(* first out among those due at the same time, Remove takes out the event   *)
(* it was given, and no event is lost or duplicated: through every sift of  *)
(* the heap and every resize, year and bucket order of the calendar.        *)
IsEventList == List!Spec
=============================================================================
