---------------------------- MODULE HeapScheduler ----------------------------
(***************************************************************************)
(* The binary heap of ns3::HeapScheduler.  The code keeps a dummy element  *)
(* at index 0, so its indices are those of a TLA+ sequence.                *)
(***************************************************************************)
EXTENDS EventKey, Containers

VARIABLE m_heap

Parent(i) == i \div 2
LeftChild(i) == 2 * i
RightChild(i) == 2 * i + 1
IsBottom(h, i) == i > Len(h)
Exch(h, a, b) == [h EXCEPT ![a] = h[b], ![b] = h[a]]
IsLessStrictly(h, a, b) == Before(h[a], h[b])
Smallest(h, a, b) == IF IsLessStrictly(h, a, b) THEN a ELSE b

(* The loops of BottomUp and TopDown: one pass for each element is enough,  *)
(* and a pass after the end of the loop changes nothing.                    *)
BottomUpPass(s) ==
    IF s.index # 1 /\ IsLessStrictly(s.heap, s.index, Parent(s.index))
    THEN [heap |-> Exch(s.heap, s.index, Parent(s.index)), index |-> Parent(s.index)]
    ELSE s

BottomUp(h) ==
    Loop(LAMBDA s, i : BottomUpPass(s), [heap |-> h, index |-> Len(h)], Len(h)).heap

(* With two children the element is exchanged with the smaller one; the     *)
(* code ends its loop at an element with one child or none.                 *)
TopDownPass(s) ==
    LET left == LeftChild(s.index)
        right == RightChild(s.index)
        child == IF IsBottom(s.heap, right) THEN left ELSE Smallest(s.heap, left, right)
    IN  IF IsBottom(s.heap, left) \/ IsLessStrictly(s.heap, s.index, child) THEN s
        ELSE [heap |-> Exch(s.heap, s.index, child), index |-> child]

TopDown(h, start) ==
    Loop(LAMBDA s, i : TopDownPass(s), [heap |-> h, index |-> start], Len(h)).heap

HeapInserted(h, ev) == BottomUp(Append(h, ev))

(* The last element takes the place of element i and moves down. *)
TakenOut(h, i) == TopDown(RemoveAt(Exch(h, i, Len(h)), Len(h)), i)

HeapInit == m_heap = <<>>

HeapInsert ==
    /\ EngineInsert
    /\ \E delay \in Delays : m_heap' = HeapInserted(m_heap, NewEvent(delay))

HeapRemoveNext ==
    /\ m_heap # <<>>
    /\ EngineRuns(m_heap[1])
    /\ m_heap' = TakenOut(m_heap, 1)

(* The element that fills the hole is moved down, but not up. *)
HeapRemove(ev) ==
    /\ \E i \in 1..Len(m_heap) :
         /\ m_heap[i].uid = ev.uid
         /\ m_heap' = TakenOut(m_heap, i)
    /\ UNCHANGED <<last, inserted>>

-----------------------------------------------------------------------------
(* The heap on its own, with Remove. *)
HeapNext == HeapInsert \/ HeapRemoveNext \/ \E ev \in Range(m_heap) : HeapRemove(ev)

HeapSpec == HeapInit /\ EngineInit /\ [][HeapNext]_<<m_heap, last, inserted>>

(* Scheduler::RemoveNext: "Remove the earliest event from the event list."  *)
(* Also after Remove.                                                       *)
HeapEarliest ==
    [][last' # last => \A e \in Range(m_heap) : e = last' \/ Before(last', e)]_<<m_heap, last, inserted>>
=============================================================================
