---------------------------- MODULE MCSchedulers ----------------------------
(* Small instances of the event lists. *)
EXTENDS Schedulers

MCDelays == {0, 1, 5}
=============================================================================
