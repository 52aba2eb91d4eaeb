---------------------------- MODULE AssetTables ----------------------------
(***************************************************************************)
(* The asset database (asset-db.cc, DB) and the licensing agent, as the    *)
(* handlers of the agent see them: t_bios_asset_element with id_parent and *)
(* status, t_bios_asset_link, and the devices that hold a credit.          *)
(***************************************************************************)
EXTENDS Naturals, FiniteSets

CONSTANTS
  Assets,       \* internal names
  None,         \* no asset
  Kind,         \* the type of each name
  MaxActive     \* credits of the licence

Kinds == {"datacenter", "container", "group", "device", "virtual", "other"}
Statuses == {"active", "nonactive"}

ASSUME TablesAssumption ==
  /\ IsFiniteSet(Assets) /\ None \notin Assets
  /\ Kind \in [Assets -> Kinds]
  /\ MaxActive \in Nat

Device(a) == Kind[a] = "device"

VARIABLES
  rows,         \* names in t_bios_asset_element
  parent,       \* their id_parent
  status,       \* their status
  links,        \* t_bios_asset_link, as <<source, destination>>
  licensed      \* devices that hold a credit of the licensing agent

db == <<rows, parent, status, links>>

-----------------------------------------------------------------------------
(* Foreign keys keep a parent and both ends of a link.                     *)

Children(a) == {c \in rows : parent[c] = a}
HasLinkedAssets(a) == \E l \in links : l[1] = a
LinksTo(a) == {l \in links : l[2] = a}
CountsItself(a) == \A d \in rows : Kind[d] # "datacenter"
IsLastDataCenter(a) == \A d \in rows \ {a} : Kind[d] # "datacenter"

(* The assets above a: what every set closed under parent holds.           *)
Above(a) == {b \in rows : \A S \in SUBSET rows :
               (parent[a] \in S /\ \A x \in S : parent[x] = None \/ parent[x] \in S) => b \in S}
SubTree(a) == {b \in rows : parent[b] # None /\ a \in Above(b)}

(* What remove() lets go: no source of a link, no parent, no group (the    *)
(* statement that empties a group names a column the table does not have), *)
(* and no location unless another datacenter is there.                     *)
Location(d) == Kind[d] \in {"datacenter", "container"}
Deletable(d) ==
  /\ d \in rows /\ Children(d) = {} /\ ~HasLinkedAssets(d)
  /\ Kind[d] # "group" /\ (Location(d) => ~IsLastDataCenter(d))

(* DB::update refuses a missing asset, a missing parent and a self parent. *)
AnyParent(a, p) == a \in rows /\ p # a
CanWrite(a, p) == a \in rows /\ p # a /\ p \in rows \cup {None}
WriteUnknown(a, p, s) ==
  /\ parent' = [parent EXCEPT ![a] = p]
  /\ status' = [status EXCEPT ![a] = IF s = "active" THEN s ELSE "unknown"]
Write(a, p, s) ==
  /\ parent' = [parent EXCEPT ![a] = p]
  /\ status' = [status EXCEPT ![a] = s]

(* saveLinkedAssets makes the links that end at a those of the object.     *)
SaveLinks(a, s) == links' = (links \ LinksTo(a)) \cup {<<x, a>> : x \in s}

(* The licensing agent grants a credit to a device that has one already,   *)
(* or while one is left.                                                   *)
HasCredit(a) == a \in licensed \/ Cardinality(licensed) < MaxActive

(* The database of an earlier run: every parent and link has its row, and  *)
(* the credits are those of the rows.                                      *)
ActiveDevices == {a \in rows : Device(a) /\ status[a] = "active"}
Consistent(Inside, Wires) ==
  /\ rows \in SUBSET Assets
  /\ parent \in [Assets -> Assets \cup {None}]
  /\ \A a \in Assets : parent[a] # None =>
       {a, parent[a]} \subseteq rows /\ <<Kind[parent[a]], Kind[a]>> \in Inside
  /\ status \in [Assets -> Statuses]
  /\ \A a \in Assets \ rows : status[a] = "nonactive"
  /\ links \in SUBSET {l \in Wires : {l[1], l[2]} \subseteq rows}
  /\ licensed = ActiveDevices
  /\ Cardinality(licensed) <= MaxActive
=============================================================================
