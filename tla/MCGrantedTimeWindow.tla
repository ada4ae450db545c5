------------------------- MODULE MCGrantedTimeWindow -------------------------
(* Small networks for the granted time window engine. *)
EXTENDS GrantedTimeWindow

MCRanks == {1, 2, 3}

(* Ranks 1 - 2 - 3 in a line, with a fast and a slow link. *)
LineLinks == {<<1, 2>>, <<2, 1>>, <<2, 3>>, <<3, 2>>}
Line == [l \in LineLinks |-> IF 1 \in {l[1], l[2]} THEN 1 ELSE 3]

(* Ranks 1 - 2, and rank 3 without links. *)
Isolated == [l \in {<<1, 2>>, <<2, 1>>} |-> 2]

MCTopologies == {Line, Isolated}
NoBound == [r \in MCRanks |-> MaxTime]
MCStopTime == [r \in {2} |-> 3]
MCTxTimes == {0}
MCUserDelays == {2}
=============================================================================
