--------------------------- MODULE MCSaveRestore ---------------------------
(* Instances of SaveRestore for TLC. *)
EXTENDS SaveRestore

CONSTANTS dc1, rack, dev1, dev2, vm

MCKind ==
  [a \in Assets |->
     CASE a = dc1 -> "datacenter" [] a = rack -> "container"
       [] a \in {dev1, dev2} -> "device" [] a = vm -> "virtual"]

MCInside == {<<"datacenter", "container">>, <<"container", "device">>}
MCWires == {<<dev1, dev2>>}
MCNoWires == {}
MCOrder == <<dc1, dev1, dev2, rack>>
MCShort == <<dc1, dev1, rack>>

(* Locations are active, as the user interface creates them.               *)
ActiveInit ==
  /\ Init /\ \A a \in rows : Device(a) \/ status[a] = "active"
  /\ \A a \in DOMAIN payload : Device(a) \/ payload[a].status = "active"
ActiveSpec == ActiveInit /\ [][Next]_vars /\ WF_vars(Step)

(* A payload with its datacenter, on an empty database or on one that has  *)
(* the datacenter and at most a device in it.                              *)
SharedInit ==
  /\ ActiveInit
  /\ dc1 \in DOMAIN payload
  /\ \A a \in {dev1, rack} \cap DOMAIN payload : payload[a].parent # None
  /\ rows = {} \/ rows = {dc1} \/ (rows = {dc1, dev2} /\ parent[dev2] = None)
SharedSpec == SharedInit /\ [][Next]_vars /\ WF_vars(Step)
=============================================================================
