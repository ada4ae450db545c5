------------------------------ MODULE MCThreads ------------------------------
(* Small instances of the condition (a second has six nanoseconds, and a    *)
(* microsecond two) and of the device.                                      *)
EXTENDS Threads

CONSTANTS f1, f2, f3, f4, f5

MCTimeouts == {1, 2, 6, 9}
MCFrames == {f1, f2, f3, f4, f5}
=============================================================================
