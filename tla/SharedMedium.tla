---------------------------- MODULE SharedMedium ----------------------------
(***************************************************************************)
(* What a CSMA network promises the layers above it: a medium that carries *)
(* one frame at a time.  Every station puts its frames on the medium in    *)
(* the order it accepted them, and may give up the oldest ones.  When a    *)
(* frame has left its sender it reaches some of the stations, each at most *)
(* once, before the medium is free for the next one.                       *)
(***************************************************************************)
EXTENDS Integers, Sequences

CONSTANTS
    Stations, Frames,
    Dest,           \* the station a frame is for, or BROADCAST
    BROADCAST

VARIABLES
    backlog,        \* per station: the frames it has accepted, oldest first
    phase,          \* "IDLE", "TRANSMITTING" or "PROPAGATING"
    onAir, sender,  \* the frame on the medium and who sent it
    listeners,      \* the stations it has still to reach
    heard           \* the stations that took it

vars == <<backlog, phase, onAir, sender, listeners, heard>>

Init ==
    /\ backlog = [s \in Stations |-> <<>>]
    /\ phase = "IDLE" /\ listeners = {} /\ heard = {}

(* A station accepts a frame or none, gives up its n oldest frames, and     *)
(* puts the next one on the medium or not.                                  *)
Advance(s) ==
    \E queue \in {backlog[s]} \union {Append(backlog[s], f) : f \in Frames} :
        \E n \in 0..Len(queue) :
            LET rest == SubSeq(queue, n + 1, Len(queue))
            IN  \/ /\ backlog' = [backlog EXCEPT ![s] = rest]
                   /\ UNCHANGED <<phase, onAir, sender, listeners, heard>>
                \/ /\ phase = "IDLE" /\ rest # <<>>
                   /\ phase' = "TRANSMITTING"
                   /\ onAir' = Head(rest) /\ sender' = s /\ heard' = {}
                   /\ backlog' = [backlog EXCEPT ![s] = Tail(rest)]
                   /\ UNCHANGED listeners

(* The end of the frame has left its sender. *)
Carried ==
    /\ phase = "TRANSMITTING"
    /\ phase' = "PROPAGATING"
    /\ listeners' \in SUBSET Stations
    /\ UNCHANGED <<backlog, onAir, sender, heard>>

(* The frame reaches a station, which takes it only if it is addressed.     *)
Reach(s) ==
    /\ s \in listeners
    /\ listeners' = listeners \ {s}
    /\ \/ UNCHANGED heard
       \/ s # sender /\ Dest[onAir] \in {s, BROADCAST} /\ heard' = heard \union {s}
    /\ UNCHANGED <<backlog, phase, onAir, sender>>

Free ==
    /\ phase = "PROPAGATING" /\ listeners = {}
    /\ phase' = "IDLE"
    /\ UNCHANGED <<backlog, onAir, sender, listeners, heard>>

Next == (\E s \in Stations : Advance(s) \/ Reach(s)) \/ Carried \/ Free

Spec == Init /\ [][Next]_vars
=============================================================================
