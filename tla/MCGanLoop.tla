----------------------------- MODULE MCGanLoop -----------------------------
(* The configurations of GanLoop that TLC examines.                        *)
EXTENDS GanLoop

(* One round per outer, so that three starts and a death fit.              *)
RestartLimits == {[rounds |-> 1, branch |-> 2, depth |-> 3]}

(* With three children a failed benchmark can have two measured siblings;  *)
(* with two below the root only, the third round finds no candidate.       *)
FaultLimits == {[rounds |-> 3, branch |-> 3, depth |-> 3],
                [rounds |-> 3, branch |-> 2, depth |-> 1]}
=============================================================================
