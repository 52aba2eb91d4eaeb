----------------------------- MODULE PowerChains -----------------------------
(***************************************************************************)
(* The power chains of an asset (topology_processor.cc, topology_power.cc, *)
(* topology_input_powerchain.cc, persist/assettopology.cc): requests of    *)
(* the REST API that the legacy actor answers one after the other, with    *)
(* one statement of the database after the other and no transaction, while *)
(* the other threads link, unlink and delete assets.                       *)
(*                                                                         *)
(* Assets are their ids, which order the sets of the code.  Links are of   *)
(* the one type there is, INPUT_POWER_CHAIN.                               *)
(***************************************************************************)
EXTENDS Naturals, FiniteSetsExt

CONSTANTS
  Assets,       \* ids
  Devices,      \* those that are devices
  Groups,       \* those that are groups
  Parents,      \* bound: what id_parent may be, 0 at the top
  Moves,        \* bound: <<a, p>> when a may be moved under p
  InputPower,   \* groups whose attribute type is input_power
  Members,      \* bound: <<g, d>> when d may be a member of group g
  Wires,        \* bound: the links clients may make
  Commands,     \* bound: what is asked
  MaxChanges    \* bound on what the other threads do

ASSUME ChainAssumption ==
  /\ Assets \subseteq Nat \ {0} /\ IsFiniteSet(Assets)
  /\ Devices \subseteq Assets /\ Groups \subseteq Assets \ Devices /\ InputPower \subseteq Groups
  /\ Parents \subseteq [Assets -> Assets \cup {0}] /\ Moves \subseteq Assets \X Assets
  /\ Members \subseteq Groups \X Assets
  /\ \A w \in Wires : {w.src, w.dst} \subseteq Devices
  /\ Commands \subseteq {"from", "to", "filter_dc", "filter_group", "POWER_TO", "input"}
  /\ MaxChanges \in Nat

VARIABLES
  elements, parent, links, members,     \* the database; parent is id_parent
  at,                           \* the statement that is next
  request,                      \* its command and asset
  newdevices, current,          \* devices found by the walk; the one it is at, or the group
  devices, powers,              \* resultdevices, resultpowers
  unnamed, unread,              \* those whose names are not read yet
  answer,
  calm,                         \* history: nothing changed since the request
  changes

database == <<elements, parent, links, members>>
result == <<newdevices, current, devices, powers, unnamed, unread>>
vars == <<database, at, request, result, answer, calm, changes>>

Error == [status |-> "ERROR", devices |-> {}, powers |-> {}]
OK(D, P) == [status |-> "OK", devices |-> D, powers |-> P]
Waiting == [status |-> "waiting", devices |-> {}, powers |-> {}]

-----------------------------------------------------------------------------
(* What the statements select.                                             *)

(* v_bios_asset_element_super_parent has ten levels of parents.            *)
Under(c) ==
  LET up[a \in Assets, n \in 1..10] ==
        IF parent[a] = 0 THEN FALSE
        ELSE parent[a] = c \/ (n > 1 /\ up[parent[a], n - 1])
  IN  {a \in elements : up[a, 10]}
InGroup(g) == {a \in elements : <<g, a>> \in members}
Among(S) == {l \in links : l.src \in S /\ l.dst \in S}
Into(d) == {l \in links : l.dst = d}
OutOf(d) == {l \in links : l.src = d}
Ends(L) == {l.src : l \in L} \cup {l.dst : l \in L}

(* get_input_power_group_id: 0 when there is none.                         *)
InputPowerGroup(dc) ==
  LET G == {g \in elements \cap InputPower : parent[g] = dc} IN IF G = {} THEN 0 ELSE Min(G)
DevicesOf(dc) == {d \in elements \cap Devices : parent[d] = dc}

-----------------------------------------------------------------------------
Same == UNCHANGED <<database, request, calm, changes>>
Refuse == at' = "done" /\ answer' = Error /\ UNCHANGED result /\ Same
Goto(next) == at' = next /\ UNCHANGED answer /\ Same
Found(D, P) == devices' = D /\ powers' = P

(* The result is turned into JSON, each name read from the database.       *)
Serialise(next) ==
  /\ unnamed' = devices' /\ unread' = powers'
  /\ Goto(next)

NoRequest == [command |-> "none", asset |-> 0]
Fresh ==
  /\ newdevices' = {} /\ current' = 0 /\ devices' = {} /\ powers' = {} /\ unnamed' = {} /\ unread' = {}
Ask ==
  /\ at = "idle"
  /\ \E c \in Commands, a \in Assets : request' = [command |-> c, asset |-> a]
  /\ at' = "resolve" /\ calm' = TRUE
  /\ UNCHANGED <<database, result, answer, changes>>
(* The answer goes to the client.                                          *)
Send ==
  /\ at = "done"
  /\ at' = "idle" /\ request' = NoRequest /\ answer' = Waiting /\ Fresh
  /\ calm' = TRUE /\ UNCHANGED <<database, changes>>

(* topology_power: the name of the asset is turned into its id.            *)
Resolve ==
  /\ at = "resolve"
  /\ \/ /\ request.asset \in elements
        /\ UNCHANGED result
        /\ CASE request.command \in {"from", "to", "POWER_TO"} -> Goto("info")
             [] request.command = "filter_group" -> Goto("group links")
             [] request.command = "filter_dc" -> Goto("dc devices")
             [] request.command = "input" -> Goto("input")
     \/ Refuse

(* select_add_device_info, and what its callers make of it.                *)
AddDeviceInfo ==
  /\ at = "info"
  /\ \/ /\ request.asset \in elements \cap Devices
        /\ Found({request.asset}, {}) /\ newdevices' = {request.asset}
        /\ current' = request.asset /\ UNCHANGED <<unnamed, unread>>
        /\ IF request.command = "from" THEN Goto("from") ELSE Goto("to")
     \/ Refuse

(* Only the first links of the chain.                                      *)
From ==
  /\ at = "from"
  /\ \/ /\ Found(devices \cup Ends(OutOf(request.asset)), OutOf(request.asset))
        /\ UNCHANGED <<newdevices, current>> /\ Serialise("names")
     \/ Refuse

WalkAgain ==
  /\ at = "to"
  /\ newdevices' = newdevices \cup {l.src : l \in Into(current)}
  /\ current' = IF newdevices' = {current} THEN current ELSE Min(newdevices' \ {current})
  /\ Found(devices \cup {current'}, powers \cup Into(current))
  /\ IF current' = current THEN Serialise("names") ELSE Goto("to") /\ UNCHANGED <<unnamed, unread>>
WalkOnce ==
  /\ at = "to" /\ UNCHANGED <<newdevices, current>>
  /\ Found(devices \cup Ends(Into(current)), powers \cup Into(current)) /\ Serialise("names")
WalkShort ==
  /\ at = "to"
  /\ newdevices' = newdevices \cup {l.src : l \in Into(current)}
  /\ LET left == newdevices' \ devices
     IN  IF Cardinality(left) <= 1
         THEN /\ Found(devices, powers \cup Into(current)) /\ UNCHANGED current
              /\ Serialise("names")
         ELSE /\ current' = Min(left)
              /\ Found(devices \cup {Min(left)}, powers \cup Into(current))
              /\ UNCHANGED <<unnamed, unread>> /\ Goto("to")
(* A turn of select_power_topology_to: the links into the current device,  *)
(* then the first device that is not in the result yet.                    *)
Walk ==
  /\ at = "to"
  /\ \/ /\ newdevices' = newdevices \cup {l.src : l \in Into(current)}
        /\ LET left == newdevices' \ devices
           IN  IF left = {}
               THEN /\ Found(devices, powers \cup Into(current)) /\ UNCHANGED current
                    /\ Serialise("names")
               ELSE /\ current' = Min(left)
                    /\ Found(devices \cup {Min(left)}, powers \cup Into(current))
                    /\ UNCHANGED <<unnamed, unread>> /\ Goto("to")
     \/ Refuse

(* A group: the links among its members, then those that are devices.      *)
GroupLinks ==
  /\ at = "group links"
  /\ \/ /\ Found({}, Among(InGroup(request.asset)))
        /\ UNCHANGED <<newdevices, current, unnamed, unread>> /\ Goto("group devices")
     \/ Refuse
GroupDevices ==
  /\ at = "group devices"
  /\ \/ /\ Found(InGroup(request.asset) \cap Devices, powers)
        /\ UNCHANGED <<newdevices, current>> /\ Serialise("names")
     \/ Refuse

(* A datacenter: the devices in it, then the links among what is in it.    *)
DatacenterDevices ==
  /\ at = "dc devices"
  /\ \/ /\ Found(Under(request.asset) \cap Devices, {})
        /\ UNCHANGED <<newdevices, current, unnamed, unread>> /\ Goto("dc links")
     \/ Refuse
DatacenterLinks ==
  /\ at = "dc links"
  /\ \/ /\ Found(devices, Among(Under(request.asset)))
        /\ UNCHANGED <<newdevices, current>> /\ Serialise("names")
     \/ Refuse

(* input_power_group_response: a group below the datacenter says what      *)
(* powers it; without one, all devices right below it are taken.           *)
ChooseInputGroup ==
  /\ at = "input"
  /\ \/ /\ current' = InputPowerGroup(request.asset)
        /\ UNCHANGED <<newdevices, devices, powers, unnamed, unread>>
        /\ IF current' # 0 THEN Goto("input links") ELSE Goto("child devices")
     \/ Refuse

(* get_power_topology_group: ends of links are devices of the answer.      *)
InputLinks ==
  /\ at = "input links"
  /\ \/ /\ Found(Ends(Among(InGroup(current))), Among(InGroup(current)))
        /\ UNCHANGED <<newdevices, current, unnamed, unread>> /\ Goto("input devices")
     \/ Refuse
InputDevices ==
  /\ at = "input devices"
  /\ \/ /\ Found(devices \cup (InGroup(current) \cap Devices), powers)
        /\ UNCHANGED <<newdevices, current>> /\ Serialise("fill")
     \/ Refuse

(* construct_input_power_group: links are kept when both ends are known.   *)
ChildDevices ==
  /\ at = "child devices"
  /\ \/ /\ Found(DevicesOf(request.asset), {})
        /\ UNCHANGED <<newdevices, current, unnamed, unread>> /\ Goto("child links")
     \/ Refuse
ChildLinks ==
  /\ at = "child links"
  /\ \/ /\ Found(devices, Among(devices))
        /\ UNCHANGED <<newdevices, current>> /\ Serialise("fill")
     \/ Refuse

-----------------------------------------------------------------------------
(* A device or an end of a link that is gone ends the request in an error. *)
ReadNames ==
  \E d \in unnamed :
    \/ d \in elements /\ unnamed' = unnamed \ {d}
       /\ UNCHANGED <<newdevices, current, devices, powers, unread>> /\ Goto(at)
    \/ Refuse
ReadEnds ==
  /\ unnamed = {}
  /\ \E l \in unread :
       \/ {l.src, l.dst} \subseteq elements /\ unread' = unread \ {l}
          /\ UNCHANGED <<newdevices, current, devices, powers, unnamed>> /\ Goto(at)
       \/ Refuse
Name == at = "names" /\ (ReadNames \/ ReadEnds)     \* topology_power
Fill == at = "fill" /\ (ReadNames \/ ReadEnds)      \* topology_input_powerchain

(* topology_power_to keeps the links into the asset whose source socket is *)
(* known.                                                                  *)
Closest(P, a) == {l \in P : l.dst = a /\ l.out # 0}

Respond ==
  /\ at \in {"names", "fill"} /\ unnamed = {} /\ unread = {}
  /\ at' = "done"
  /\ answer' = IF request.command = "POWER_TO" THEN OK({}, Closest(powers, request.asset))
                                               ELSE OK(devices, powers)
  /\ UNCHANGED result /\ Same

-----------------------------------------------------------------------------
(* The other threads.  An asset goes when nothing is in it, and its links  *)
(* before it does.  Only a parent that is the asset itself is refused.     *)
Change ==
  /\ changes < MaxChanges /\ changes' = changes + 1 /\ calm' = FALSE
  /\ \/ \E w \in Wires : /\ {w.src, w.dst} \subseteq elements
                          /\ links' \in {links \cup {w}, links \ {w}}
                          /\ UNCHANGED <<elements, parent, members>>
     \/ \E m \in Members : /\ {m[1], m[2]} \subseteq elements
                            /\ members' \in {members \cup {m}, members \ {m}}
                            /\ UNCHANGED <<elements, parent, links>>
     \/ \E m \in Moves : /\ {m[1], m[2]} \subseteq elements /\ m[1] # m[2]
                          /\ parent' = [parent EXCEPT ![m[1]] = m[2]]
                          /\ UNCHANGED <<elements, links, members>>
     \/ \E a \in elements : /\ \A b \in elements : parent[b] # a
                             /\ elements' = elements \ {a}
                             /\ links' = {l \in links : a \notin {l.src, l.dst}}
                             /\ members' = {m \in members : a \notin {m[1], m[2]}}
                             /\ UNCHANGED parent
  /\ UNCHANGED <<at, request, result, answer>>

Init ==
  /\ elements = Assets /\ parent \in Parents
  /\ links \in SUBSET Wires /\ members \in {{}, Members}
  /\ at = "idle" /\ request = NoRequest /\ answer = Waiting
  /\ newdevices = {} /\ current = 0 /\ devices = {} /\ powers = {} /\ unnamed = {} /\ unread = {}
  /\ calm = TRUE /\ changes = 0

Answering ==
  \/ Resolve \/ AddDeviceInfo \/ From \/ Walk \/ GroupLinks \/ GroupDevices
  \/ DatacenterDevices \/ DatacenterLinks \/ ChooseInputGroup \/ InputLinks \/ InputDevices
  \/ ChildDevices \/ ChildLinks \/ Name \/ Fill \/ Respond
Next == Ask \/ Answering \/ Send \/ Change

Spec == Init /\ [][Next]_vars

-----------------------------------------------------------------------------
(* What is upstream of a device: each set that holds it, and holds what    *)
(* feeds its members, holds that.                                          *)
Upstream(a) ==
  {d \in Devices : \A S \in SUBSET Devices :
     a \in S /\ (\A l \in links : l.dst \in S => l.src \in S) => d \in S}

(* When nothing changed during a request, its answer is what it should be: *)
(* for "to", all that is upstream of the asset and all links on the way,   *)
(* also when devices feed each other in a circle; for POWER_TO the named   *)
(* sockets that feed the asset; otherwise, the links among the devices     *)
(* that are listed, no more and no less.                                   *)
CalmAnswerIsExact ==
  at = "done" /\ answer.status = "OK" /\ calm =>
    CASE request.command = "to" ->
           answer = OK(Upstream(request.asset), {l \in links : l.dst \in Upstream(request.asset)})
      [] request.command = "POWER_TO" ->
           answer.powers = {l \in links : l.dst = request.asset /\ l.out # 0}
      [] request.command = "from" -> answer = OK({request.asset} \cup Ends(answer.powers), OutOf(request.asset))
      [] request.command \in {"filter_dc", "filter_group", "input"} ->
           answer.powers = Among(answer.devices)
      [] OTHER -> TRUE

(* Whatever changes during the request, an answer to "from", to "to" and   *)
(* about the input power lists both ends of each of its links (the answers *)
(* about a group or a datacenter do not: they select twice).               *)
EndsAreListed ==
  answer.status = "OK" /\ request.command \in {"from", "to", "input"} =>
    Ends(answer.powers) \subseteq answer.devices
=============================================================================
