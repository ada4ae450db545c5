------------------------- MODULE MCDefaultSimulator -------------------------
(* Small instances of the sequential engine. *)
EXTENDS DefaultSimulator

MCDelays == {0, 1}
=============================================================================
