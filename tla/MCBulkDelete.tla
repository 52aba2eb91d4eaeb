---------------------------- MODULE MCBulkDelete ----------------------------
(* Instances of BulkDelete for TLC. *)
EXTENDS BulkDelete

CONSTANTS dc1, dc2, rack, ups, epdu, sensor, feed1, feed2

MCKind ==
  [a \in Assets |->
     CASE a \in {dc1, dc2} -> "datacenter" [] a = rack -> "container"
       [] a \in {ups, epdu, sensor, feed1, feed2} -> "device"]

MCInside == {<<"datacenter", "container">>, <<"datacenter", "device">>, <<"container", "device">>,
             <<"device", "device">>}
MCSensors == {sensor}
MCFeeds == {feed1, feed2}
MCFastTrack == {dc1}
MCWires == {<<ups, epdu>>}
MCCredentials == {ups, sensor}
MCRefs == {<<sensor, ups>>}
MCOrder == <<dc1, dc2, epdu, rack, ups, sensor, feed1, feed2>>
MCById == [S \in SUBSET Assets |-> SelectSeq(MCOrder, LAMBDA a : a \in S)]

(* Calls about power and sensors, and about the last of their kind.        *)
MCLists ==
  {{ups, epdu}, {rack, epdu, ups}, {rack, sensor, ups}, {dc1, dc2}, {dc1, feed1, feed2}}
MCOnes == {ups, dc1, feed1}
MCMoves ==
  {<<sensor, ups, "nonactive">>, <<epdu, ups, "nonactive">>, <<ups, None, "nonactive">>,
   <<ups, rack, "active">>, <<feed1, dc2, "nonactive">>}

Database(S, up, on) ==
  /\ rows = S /\ parent = [a \in Assets |-> up[a]]
  /\ status = [a \in Assets |-> IF a \in on THEN "active" ELSE "nonactive"]

(* A UPS, on its own and nonactive, or active in a rack and feeding an     *)
(* ePDU; a sensor in the rack or in a device, or none.                     *)
Power ==
  \E p \in {None, rack}, q \in {None, rack, ups, epdu} :
    /\ q = epdu => p = None
    /\ links = IF p = rack THEN Wires ELSE {}
    /\ Database({dc1, rack, ups, epdu} \cup IF q = None THEN {} ELSE {sensor},
                [a \in Assets |-> CASE a = rack -> dc1 [] a = epdu -> rack [] a = ups -> p
                                 [] a = sensor -> q [] OTHER -> None],
                {dc1, rack} \cup IF p = rack THEN {ups} ELSE {})

(* Two datacenters, both empty or the first device centric with two feeds. *)
LastOnes ==
  \E feeds \in {{}, {feed1, feed2}} :
    /\ links = {}
    /\ Database({dc1, dc2} \cup feeds, [a \in Assets |-> IF a \in feeds THEN dc1 ELSE None],
                {dc1, dc2, feed1} \cap ({dc1, dc2} \cup feeds))

Scenario == Power \/ LastOnes

CallsInit == Scenario /\ Init
CallsSpec == CallsInit /\ [][Next]_vars /\ \A t \in Threads : WF_vars(Step(t))
=============================================================================
