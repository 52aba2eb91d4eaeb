---------------------------- MODULE MCAssetAgent ----------------------------
(* Instances of AssetAgent for TLC. *)
EXTENDS AgentRegistry, TLC

CONSTANTS dc1, dc2, rack, grp, dev1, dev2, vm, rc0, ng, old, srr

MCKind ==
  [a \in Assets |->
     CASE a \in {dc1, dc2} -> "datacenter" [] a = rack -> "container" [] a = grp -> "group"
       [] a \in {dev1, dev2, rc0} -> "device" [] a = vm -> "virtual"]

MCDeep == {<<"datacenter", "container">>, <<"container", "device">>}
MCWires == {<<dev1, dev2>>}
MCNoWires == {}

(* One thread starts on every consistent database whose locations are      *)
(* active, as the user interface creates them.                             *)
OneInit == Init /\ \A a \in rows : Device(a) \/ status[a] = "active"
OneSpec == OneInit /\ [][Next]_vars /\ \A t \in Threads : WF_vars(Step(t))

(* The three threads start on a database that holds nothing but the two    *)
(* datacenters, active: three requests then build all that they need,      *)
(* remove one or try to remove both, and interleave.                       *)
ThreadsInit == Init /\ rows = {dc1, dc2} /\ \A d \in rows : status[d] = "active"
ThreadsSpec == ThreadsInit /\ [][Next]_vars

(* The two datacenters are interchangeable.                                *)
Datacenters == Permutations({dc1, dc2})
=============================================================================
