---------------------------- MODULE MCTotalPower ----------------------------
(* Instances of TotalPower for TLC. *)
EXTENDS TotalPower

CONSTANTS d1, d2, d3, d4

(* The first device is a feed, the others may be anything.                 *)
MCSubtypes == {f \in [Devices -> {"epdu", "ups", "other"}] : f[d1] = "other"}

(* A network without a cycle has its devices in such an order.  The second *)
(* and third device may be outside too, and power the last from there.     *)
MCForward == {<<d1, d2>>, <<d1, d3>>, <<d2, d3>>, <<d2, d4>>, <<d3, d4>>}
WalkInit == Init /\ d1 \notin inside
WalkSpec == WalkInit /\ [][Next]_vars /\ WF_vars(Step)

MCLoop == {<<d1, d2>>, <<d2, d3>>, <<d3, d2>>}
=============================================================================
