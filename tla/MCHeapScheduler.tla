--------------------------- MODULE MCHeapScheduler ---------------------------
(* Small instances of the binary heap. *)
EXTENDS HeapScheduler

MCDelays == {0, 1, 2}
=============================================================================
