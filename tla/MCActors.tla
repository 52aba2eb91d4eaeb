------------------------------ MODULE MCActors ------------------------------
(* Instances of Actors for TLC. *)
EXTENDS Actors

CONSTANTS rc1, rc2, room, dev, v1, v2, v6, u1, u2, u3, u4

MCFlat == [a \in Assets |-> None]
MCRoom == [a \in Assets |-> IF a = dev THEN room ELSE None]

(* Two addresses, or another one, on the network ports of a rack           *)
(* controller; or a machine without LAN1.                                  *)
Ports == [i \in {"LAN1", "LAN2", "lo"} |->
            CASE i = "LAN1" -> <<v1>> [] i = "LAN2" -> <<v6>> [] i = "lo" -> <<>>]
Plain == [i \in {"eth0", "lo"} |-> IF i = "eth0" THEN <<v2>> ELSE <<v1>>]
MCInterfaces == {Ports, Plain}
MCKeys == {<<"ip", 1>>, <<"ipv6", 1>>}
MCKey == {<<"ip", 1>>}
MCDns == [v \in Values |-> IF v = v2 THEN rc2 ELSE None]

MCAlike == [a \in Assets |-> u1]
MCIdentified == [a \in Assets |-> IF a = room THEN u1 ELSE None]

MCReports == {[k \in {<<"ip", 1>>} |-> v2], [k \in MCKeys |-> IF k[1] = "ip" THEN v1 ELSE v6]}
MCEdits == {<<<<"ip", 1>>, v2>>}
MCEdit == {<<<<"ip", 1>>, v1>>}
MCNoReports == {}

MCNoQuestions == {}
MCQuestions == {Request("REPUBLISH", None, {All}), Request("ASSET_DETAIL", None, {dev}),
                BadRequest("ASSET_DETAIL", None), BadRequest("ASSETS_IN_CONTAINER", None),
                Request("ASSETS", None, {}), Request("TOPOLOGY", None, {dev}),
                Request("ENAME_FROM_INAME", None, {room})}

(* A machine with its rack controller; a room with its device, or nothing. *)
AddressesInit == Init /\ elements = {rc1} /\ interfaces = Ports
AddressesSpec == AddressesInit /\ [][Next]_vars /\ Fairness
PublishInit == Init /\ elements \in {{}, {room, dev}} /\ interfaces = Plain
PublishSpec == PublishInit /\ [][Next]_vars /\ Fairness
=============================================================================
