---------------------------- MODULE MCNullMessage ----------------------------
(* Small networks for the null message engine. *)
EXTENDS NullMessage

(* Two ranks and one link between them: rank 0 sends up to two packets      *)
(* with a gap between them, rank 1 one.                                     *)
OneLink ==
    [ranks |-> {0, 1}, devices |-> {10, 11},
     from |-> [d \in {10, 11} |-> d - 10], to |-> [d \in {10, 11} |-> 11 - d],
     delay |-> [d \in {10, 11} |-> 4], txTime |-> [d \in {10, 11} |-> 1],
     interframeGap |-> [d \in {10, 11} |-> 11 - d],
     tune |-> 100, stopTime |-> [r \in {0, 1} |-> 7],
     userDelays |-> {0, 1}, maxScheduled |-> 1, maxSent |-> [r \in {0, 1} |-> 2 - r]]

(* Three ranks in a line, with links of different delays. *)
LineDevices == {10, 11, 20, 21}
Line ==
    [ranks |-> {0, 1, 2}, devices |-> LineDevices,
     from |-> [d \in LineDevices |-> CASE d = 10 -> 0 [] d \in {11, 20} -> 1 [] d = 21 -> 2],
     to |-> [d \in LineDevices |-> CASE d = 20 -> 2 [] d \in {10, 21} -> 1 [] d = 11 -> 0],
     delay |-> [d \in LineDevices |-> IF d \in {10, 11} THEN 1 ELSE 2],
     txTime |-> [d \in LineDevices |-> 1], interframeGap |-> [d \in LineDevices |-> 0],
     tune |-> 100, stopTime |-> [r \in {0, 1, 2} |-> 3],
     userDelays |-> {}, maxScheduled |-> 0,
     maxSent |-> [r \in {0, 1, 2} |-> IF r = 2 THEN 0 ELSE 1]]

(* Two ranks and two links between them, a slow and a fast one. *)
TwoLinksDevices == {10, 11, 12, 13}
TwoLinks ==
    [ranks |-> {0, 1}, devices |-> TwoLinksDevices,
     from |-> [d \in TwoLinksDevices |-> d % 2],
     to |-> [d \in TwoLinksDevices |-> 1 - (d % 2)],
     delay |-> [d \in TwoLinksDevices |-> 4],
     txTime |-> [d \in TwoLinksDevices |-> IF d \in {10, 11} THEN 3 ELSE 1],
     interframeGap |-> [d \in TwoLinksDevices |-> 0],
     tune |-> 100, stopTime |-> [r \in {0, 1} |-> 9],
     userDelays |-> {1}, maxScheduled |-> 1, maxSent |-> [r \in {0, 1} |-> 2]]

SingleLinks == {OneLink, Line}
DoubleLink == {TwoLinks}
=============================================================================
