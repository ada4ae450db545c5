----------------------------- MODULE LossyFifo -----------------------------
(***************************************************************************)
(* What a receiving device promises: frames come out in the order in which *)
(* they went in, each at most once; frames on their way may be lost.       *)
(***************************************************************************)
EXTENDS Naturals, Sequences

CONSTANTS Frames, NONE

VARIABLES
    flight,        \* the frames on their way, oldest first
    out            \* the last frame that came out

Init == flight = <<>> /\ out = NONE

Enter == (\E f \in Frames : flight' = Append(flight, f)) /\ UNCHANGED out

Leave == flight # <<>> /\ out' = Head(flight) /\ flight' = Tail(flight)

(* Some frames in a row are lost. *)
Lose ==
    /\ \E i, j \in 0..Len(flight) :
          /\ i <= j
          /\ flight' = SubSeq(flight, 1, i) \o SubSeq(flight, j + 1, Len(flight))
    /\ UNCHANGED out

Next == Enter \/ Leave \/ Lose

Spec == Init /\ [][Next]_<<flight, out>>
=============================================================================
