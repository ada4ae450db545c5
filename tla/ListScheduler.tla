---------------------------- MODULE ListScheduler ----------------------------
(***************************************************************************)
(* The sorted std::list of ns3::ListScheduler.                             *)
(***************************************************************************)
EXTENDS EventKey, Containers

VARIABLE m_events

ListInit == m_events = <<>>

(* Where the search for a later event stops: before the first element that  *)
(* is later than ev, or at the end.                                         *)
IsPlace(s, ev, i) ==
    /\ \A j \in 1..i-1 : ~Before(ev, s[j])
    /\ i <= Len(s) => Before(ev, s[i])

ListInserted(s, ev) == InsertAt(s, CHOOSE i \in 1..Len(s) + 1 : IsPlace(s, ev, i), ev)

ListInsert ==
    /\ EngineInsert
    /\ \E delay \in Delays : m_events' = ListInserted(m_events, NewEvent(delay))

ListRemoveNext ==
    /\ m_events # <<>>
    /\ EngineRuns(m_events[1])
    /\ m_events' = RemoveAt(m_events, 1)

ListRemove(ev) ==
    /\ \E i \in 1..Len(m_events) :
         /\ m_events[i].uid = ev.uid
         /\ m_events' = RemoveAt(m_events, i)
    /\ UNCHANGED <<last, inserted>>
=============================================================================
