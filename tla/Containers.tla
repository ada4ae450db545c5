----------------------------- MODULE Containers -----------------------------
(***************************************************************************)
(* The containers and loops of the schedulers' code: a std::list or        *)
(* std::vector is a sequence, a loop that runs n times a recursive         *)
(* function.                                                               *)
(***************************************************************************)
EXTENDS Integers, Sequences, FiniteSetsExt

(* insert before position p, which may be one after the last, and erase. *)
InsertAt(s, p, e) == SubSeq(s, 1, p-1) \o <<e>> \o SubSeq(s, p, Len(s))
RemoveAt(s, p) == SubSeq(s, 1, p-1) \o SubSeq(s, p+1, Len(s))

(* start, after Pass(s, i) for i from 1 to n. *)
Loop(Pass(_, _), start, n) ==
    LET after[i \in 0..n] == IF i = 0 THEN start ELSE Pass(after[i-1], i)
    IN  after[n]
=============================================================================
