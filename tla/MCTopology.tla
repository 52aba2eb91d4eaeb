------------------------------ MODULE MCTopology ------------------------------
(* Three devices that may feed each other in a circle, in a datacenter (5)  *)
(* or in one another, and a group (4).                                      *)
EXTENDS Locations

Wire(a, o, b) == [src |-> a, out |-> o, dst |-> b, in |-> 1]
MCWires == {Wire(1, 1, 2), Wire(2, 0, 3), Wire(3, 2, 1)}
MCParents == {[a \in 1..5 |-> CASE a \in {1, 4} -> 5 [] a = 2 -> 1 [] a = 3 -> 2 [] a = 5 -> 0],
              [a \in 1..5 |-> IF a = 3 THEN 5 ELSE 0]}
MCMoves == {<<1, 2>>, <<2, 5>>}
MCMembers == {<<4, 1>>, <<4, 2>>}
MCType == [a \in 1..5 |-> CASE a \in 1..3 -> 6 [] a = 4 -> 1 [] a = 5 -> 2]
MCOptions == [recursive : {TRUE}, filter : {0, 1, 6}, feed : {0, 1}]
               \cup [recursive : {FALSE}, filter : {0, 6}, feed : {0}]
=============================================================================
