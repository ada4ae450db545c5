-------------------------------- MODULE MCArp --------------------------------
(* A node that talks to two others on its link. *)
EXTENDS ArpL3Protocol, TLC

CONSTANTS n1, n2, n3, h1, h2, h3, p1, p2, p3

MCNodes == {n1, n2, n3}
MCMacs == {h1, h2, h3}
MCHardware == (n1 :> h1) @@ (n2 :> h2) @@ (n3 :> h3)
MCPackets == {p1, p2, p3}
MCSenders == {n1}
MCTarget == [p \in MCPackets |-> IF p = p3 THEN n3 ELSE n2]
MCManaged == {n2}
MCGiven == {h3}
=============================================================================
