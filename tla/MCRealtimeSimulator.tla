------------------------- MODULE MCRealtimeSimulator -------------------------
(* Small instances of the realtime engine. *)
EXTENDS RealtimeSimulator

MCDelays == {0, 3}
=============================================================================
