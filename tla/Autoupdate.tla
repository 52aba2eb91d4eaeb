----------------------------- MODULE Autoupdate -----------------------------
(***************************************************************************)
(* The autoupdate actor (fty_asset_autoupdate.cc): every five minutes it   *)
(* asks the agent for the rack controllers, finds out which one this       *)
(* machine is, and publishes its network addresses as inventory of it.     *)
(* Answers carry nothing that ties them to a request.                      *)
(***************************************************************************)
EXTENDS AssetStream, SequencesExt

CONSTANTS
  Interfaces,       \* values of local_addresses(): addresses of each interface, in order
  Ipv6,             \* addresses with a colon
  DnsName           \* the rack controller an address resolves to, None if to another name

VARIABLES
  interfaces,       \* the machine's addresses now
  rcs               \* rack controllers of the last answer

autoupdateVars == <<rcs>>

ASSUME AutoupdateAssumption == Ipv6 \subseteq Values

(* Addresses of interfaces, in the order of their names.                   *)
LanNames == <<"LAN1", "LAN2", "LAN3">>
Present(names) == SelectSeq(names, LAMBDA i : i \in DOMAIN interfaces)
Addresses(names) == FlattenSeq([n \in DOMAIN Present(names) |-> interfaces[Present(names)[n]]])
AllNames == <<"LAN1", "LAN2", "LAN3", "eth0", "lo">>

(* LAN1 to LAN3 on a rack controller, whatever there is but lo elsewhere.  *)
Published ==
  IF "LAN1" \in DOMAIN interfaces
  THEN Addresses(LanNames)
  ELSE Addresses(SelectSeq(AllNames, LAMBDA i : i # "lo"))

(* ip.1, ip.2 ... and ipv6.1, ipv6.2 ... count each family.                *)
OwnInventory ==
  LET four == SelectSeq(Published, LAMBDA v : v \notin Ipv6)
      six == SelectSeq(Published, LAMBDA v : v \in Ipv6)
  IN  [k \in {<<"ip", n>> : n \in DOMAIN four} \cup {<<"ipv6", n>> : n \in DOMAIN six} |->
         IF k[1] = "ip" THEN four[k[2]] ELSE six[k[2]]]

(* The only rack controller is this machine; of several, the first one     *)
(* that one of its addresses resolves to.                                  *)
Resolved(names) == SelectSeq(Addresses(AllNames), LAMBDA v : DnsName[v] \in names)
Self(names) ==
  IF Cardinality(names) = 1 THEN CHOOSE r \in names : TRUE
  ELSE IF Resolved(names) = <<>> THEN None ELSE DnsName[Head(Resolved(names))]

(* WAKEUP.                                                                 *)
RequestAllRcs ==
  mailbox' = Append(mailbox, [subject |-> "ASSETS_IN_CONTAINER", command |-> "GET",
                              client |-> "autoupdate", names |-> {}])

Accumulate ==
  /\ autoBox # <<>> /\ Room(inventoryBox)
  /\ autoBox' = Tail(autoBox)
  /\ rcs' = rcs \cup Head(autoBox).names
  /\ LET self == Self(rcs')
     IN  inventoryBox' = IF self = None THEN inventoryBox
                         ELSE Append(inventoryBox, Report(self, OwnInventory))
  /\ UNCHANGED <<tables, agentBox, mailbox, faults, interfaces>>

(* An answer: the list is replaced, and is empty unless the answer is OK.  *)
HandleMessage ==
  /\ autoBox # <<>> /\ Room(inventoryBox)
  /\ autoBox' = Tail(autoBox)
  /\ rcs' = IF Head(autoBox).status = "OK" THEN Head(autoBox).names ELSE {}
  /\ LET self == Self(rcs')
     IN  inventoryBox' = IF self = None THEN inventoryBox
                         ELSE Append(inventoryBox, Report(self, OwnInventory))
  /\ UNCHANGED <<tables, agentBox, mailbox, faults, interfaces>>
=============================================================================
