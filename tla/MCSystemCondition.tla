-------------------------- MODULE MCSystemCondition --------------------------
(* Small instances of the condition: a second has six nanoseconds, and a    *)
(* microsecond two.                                                         *)
EXTENDS SystemCondition

MCTimeouts == {1, 2, 6, 9}
=============================================================================
