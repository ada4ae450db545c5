----------------------------- MODULE EventQueue -----------------------------
(***************************************************************************)
(* The event queue of a rank of a parallel simulation, as a sequence of    *)
(* events: earliest first, and first in, first out among equals.           *)
(***************************************************************************)
EXTENDS Integers, Sequences, FiniteSetsExt

(* Insert: the events that are not later keep their places, the event goes *)
(* after them, and the later ones move up by one.                           *)
InsertEvent(q, ev) ==
    LET notAfter(i) == i \in DOMAIN q /\ q[i].ts <= ev.ts
    IN  [i \in 1..Len(q)+1 |->
            IF notAfter(i) THEN q[i]
            ELSE IF i = 1 \/ notAfter(i-1) THEN ev
            ELSE q[i-1]]

Sorted(q) == \A i, j \in DOMAIN q : i <= j => q[i].ts <= q[j].ts
=============================================================================
