---------------------------- MODULE AssetStream ----------------------------
(***************************************************************************)
(* What the actors of fty-asset.cc share: the asset tables, the ASSETS     *)
(* stream and the mailboxes of Malamute.  The stream is kept as one queue  *)
(* for each actor that subscribes, with the messages the actor acts on;    *)
(* Malamute gives no actor its own messages back.                          *)
(***************************************************************************)
EXTENDS Naturals, Sequences, FiniteSets

CONSTANTS
  Assets,           \* internal names
  None,
  RackControllers,  \* names whose subtype is "rack controller"
  Container,        \* id_parent of each name
  Keys,             \* keytags an inventory message may carry
  Values,           \* their values
  Uuids,            \* values of the keytag uuid
  MaxQueue,         \* bound on a queue
  MaxFaults         \* bound on failing statements and on crashes

ASSUME StreamAssumption ==
  /\ None \notin Assets \cup Values \cup Uuids
  /\ RackControllers \subseteq Assets
  /\ Container \in [Assets -> Assets \cup {None}]
  /\ MaxQueue \in Nat \ {0} /\ MaxFaults \in Nat

VARIABLES
  elements,         \* names in t_bios_asset_element
  ext,              \* t_bios_asset_ext_attributes: value of each keytag, None if no row
  uuid,             \* the same for the keytag uuid
  inventoryBox,     \* inventory and delete messages for asset-inventory
  agentBox,         \* names in the update messages for asset-agent
  mailbox,          \* requests for asset-agent
  autoBox,          \* answers for asset-autoupdate
  faults            \* faults so far

tables == <<elements, ext, uuid>>

Room(q) == Len(q) < MaxQueue
Fault == faults < MaxFaults /\ faults' = faults + 1

(* v_bios_asset_element_super_parent has ten levels of parents.            *)
Ancestors(a) ==
  LET up[n \in 1..10] == IF n = 1 THEN Container[a]
                         ELSE IF up[n-1] = None THEN None ELSE Container[up[n-1]]
  IN  {up[n] : n \in 1..10} \ {None}
Contents(c) == {a \in elements : c \in Ancestors(a)}

(* An inventory message is a function from keytags to values.              *)
Inventories == UNION {[D -> Values] : D \in SUBSET Keys}
Report(a, values) == [op |-> "inventory", name |-> a, ext |-> values]
Deletion(a) == [op |-> "delete", name |-> a, ext |-> [k \in {} |-> None]]
=============================================================================
