------------------------------- MODULE MCCsma -------------------------------
(* Small networks for the CSMA model. *)
EXTENDS CsmaNetDevice

CONSTANTS d1, d2, d3, a1, a2, a3, b1

MCDevices == {d1, d2, d3}
MCFrames == {a1, a2, a3, b1}
MCOwn == [d \in MCDevices |->
            CASE d = d1 -> {a1, a2, a3} [] d = d2 -> {b1} [] d = d3 -> {}]
MCDest == [f \in MCFrames |->
             CASE f = a1 -> d2 [] f = a2 -> BROADCAST [] f = a3 -> d3
                          [] f = b1 -> d1]
MCUnsettled == {d1}
=============================================================================
