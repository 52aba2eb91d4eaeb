--------------------------- MODULE TopologyProofs ---------------------------
(* The answers about power chains are right, for every database.           *)
EXTENDS Locations, FiniteSetTheorems, TLAPS

(* Where the request is fits its command; nothing is answered before the   *)
(* end of it.                                                              *)
Powers == {"from", "to", "filter_dc", "filter_group", "POWER_TO", "input"}
Placed ==
  /\ at = "resolve" => request.command \in Powers
  /\ at = "info" => request.command \in {"from", "to", "POWER_TO"}
  /\ at = "from" => request.command = "from"
  /\ at = "to" => request.command \in {"to", "POWER_TO"}
  /\ at \in {"group links", "group devices"} => request.command = "filter_group"
  /\ at \in {"dc devices", "dc links"} => request.command = "filter_dc"
  /\ at \in {"input", "input links", "input devices", "child devices", "child links"} => request.command = "input"
  /\ at \in {"names", "fill"} => request.command \in Powers
  /\ at \in {"type", "parents", "containers"} => request.command = "location to"
  /\ at \in {"options", "feeds", "below", "groups", "contents", "roots"} => request.command = "location from"
  /\ at # "done" => answer = Waiting
Tables == elements \subseteq Assets /\ links \subseteq Wires
Walking == at = "to" =>
  /\ devices \subseteq newdevices /\ newdevices \subseteq Assets
  /\ current \in devices /\ request.asset \in devices
  /\ \A l \in powers : l.dst \in devices /\ l.src \in newdevices
  /\ calm => /\ newdevices \subseteq Upstream(request.asset)
             /\ powers = {l \in links : l.dst \in devices \ {current}}
Between ==
  /\ at = "from" => devices = {request.asset}
  /\ calm /\ at = "group devices" => powers = Among(InGroup(request.asset))
  /\ calm /\ at = "dc links" => devices = Under(request.asset) \cap Devices
  /\ at = "input devices" =>
       /\ Ends(powers) \subseteq devices
       /\ calm => devices = Ends(powers) /\ powers = Among(InGroup(current))
Selected == at \in {"names", "fill"} =>
  /\ request.command \in {"from", "to", "input"} => Ends(powers) \subseteq devices
  /\ calm /\ request.command \in {"to", "POWER_TO"} =>
       /\ devices = Upstream(request.asset)
       /\ powers = {l \in links : l.dst \in Upstream(request.asset)}
  /\ calm /\ request.command = "from" =>
       devices = {request.asset} \cup Ends(powers) /\ powers = OutOf(request.asset)
  /\ calm /\ request.command \in {"filter_dc", "filter_group", "input"} => powers = Among(devices)

TInv == Placed /\ Tables /\ Walking /\ Between /\ Selected

-----------------------------------------------------------------------------
(* A set of numbers has a smallest one (the sets of the walk are finite).  *)
LEMMA Smallest ==
  ASSUME NEW S \in SUBSET Nat, IsFiniteSet(S), S # {}
  PROVE  Min(S) \in S /\ \A x \in S : Min(S) <= x
<1> DEFINE Lower(k) == {x \in S : x < k}
           F == {Lower(k) : k \in S}
<1>1. IsWellFoundedOn(StrictSubsetOrdering(S), SUBSET S)
  BY FS_StrictSubsetOrderingWellFounded, FS_FiniteSubsetsOfFinite
<1>2. F \subseteq SUBSET S /\ F # {}
  OBVIOUS
<1>3. PICK U \in F : \A V \in F : <<V, U>> \notin StrictSubsetOrdering(S)
  <2> HIDE DEF F
  <2> QED
    BY <1>1, <1>2, WFMin
<1>4. PICK k \in S : U = Lower(k)
  OBVIOUS
<1>5. ASSUME NEW x \in S, x < k
      PROVE  FALSE
  <2>1. Lower(x) \in F /\ Lower(x) \subseteq Lower(k)
    <3>1. Lower(x) \in F
      OBVIOUS
    <3>2. ASSUME NEW y \in S, y < x
          PROVE  y < k
      <4>1. k \in Nat /\ x \in Nat /\ y \in Nat
        OBVIOUS
      <4> QED
        BY <1>5, <3>2, <4>1
    <3> QED
      BY <3>1, <3>2
  <2>2. x \in Lower(k) /\ x \notin Lower(x)
    BY <1>5
  <2>3. <<Lower(x), U>> \notin StrictSubsetOrdering(S)
    <3> HIDE DEF Lower, F
    <3> QED
      BY <2>1, <1>3
  <2>4. Lower(x) \in SUBSET S /\ Lower(k) \in SUBSET S
    OBVIOUS
  <2> HIDE DEF Lower, F
  <2> QED
    BY <2>1, <2>2, <2>3, <2>4, <1>4 DEF StrictSubsetOrdering
<1>6. \A x \in S : k <= x
  BY <1>5
<1> QED
  BY <1>6 DEF Min

-----------------------------------------------------------------------------
LEMMA ClosedUpstream ==
  ASSUME NEW a \in Devices, Tables
  PROVE  /\ a \in Upstream(a) /\ Upstream(a) \subseteq Devices
         /\ \A l \in links : l.dst \in Upstream(a) => l.src \in Upstream(a)
<1>1. \A l \in links : l.src \in Devices /\ l.dst \in Devices
  BY ChainAssumption DEF Tables
<1> QED
  BY <1>1 DEF Upstream

(* What is closed under its sources holds all that is upstream.            *)
LEMMA LeastUpstream ==
  ASSUME NEW a, NEW S, S \subseteq Devices, a \in S, \A l \in links : l.dst \in S => l.src \in S
  PROVE  Upstream(a) \subseteq S
  BY DEF Upstream

LEMMA AmongDevices ==
  ASSUME Tables, NEW S
  PROVE  Among(S) = Among(S \cap Devices) /\ Ends(Among(S)) \subseteq S \cap Devices
<1>1. \A l \in links : l.src \in Devices /\ l.dst \in Devices
  BY ChainAssumption DEF Tables
<1> QED
  BY <1>1 DEF Among, Ends

LEMMA SameDatabase ==
  ASSUME UNCHANGED database
  PROVE  /\ Tables' <=> Tables
         /\ \A a : Upstream(a)' = Upstream(a) /\ OutOf(a)' = OutOf(a) /\ InGroup(a)' = InGroup(a)
         /\ \A a : Into(a)' = Into(a)
         /\ \A S : Among(S)' = Among(S)
         /\ \A c : Under(c)' = Under(c)
  BY DEF database, Tables, Upstream, OutOf, InGroup, Into, Among, Under

-----------------------------------------------------------------------------
(* What the statements of a request leave alone.                           *)
LEMMA AnsweringKeeps ==
  ASSUME Placed, Answering
  PROVE  UNCHANGED <<database, request, calm>>
<1>1. CASE Resolve
  <2>1. request.command \in Powers
    BY <1>1 DEF Resolve, Placed
  <2> QED
    BY <1>1, <2>1 DEF Resolve, Powers, Refuse, Goto, Same
<1>2. CASE AddDeviceInfo \/ From \/ Walk \/ GroupLinks \/ GroupDevices
  BY <1>2 DEF AddDeviceInfo, From, Walk, GroupLinks, GroupDevices, Refuse, Goto, Serialise, Same
<1>3. CASE DatacenterDevices \/ DatacenterLinks \/ ChooseInputGroup \/ InputLinks
  BY <1>3 DEF DatacenterDevices, DatacenterLinks, ChooseInputGroup, InputLinks, Refuse, Goto,
     Serialise, Same
<1>4. CASE InputDevices \/ ChildDevices \/ ChildLinks \/ Name \/ Fill \/ Respond
  BY <1>4 DEF InputDevices, ChildDevices, ChildLinks, Name, Fill, ReadNames, ReadEnds, Respond,
     Refuse, Goto, Serialise, Same
<1> QED
  BY <1>1, <1>2, <1>3, <1>4 DEF Answering

LEMMA LocateKeeps ==
  ASSUME Locate
  PROVE  UNCHANGED <<database, request, calm>>
<1>1. CASE ReadType \/ SelectParents \/ WriteContainers \/ SelectRoots \/ WriteRoots
  BY <1>1 DEF ReadType, SelectParents, WriteContainers, SelectRoots, WriteRoots, Locating, Reject,
     Die, Proceed
<1>2. CASE CheckOptions \/ CheckNone \/ SelectFeeds \/ SelectBelow \/ SelectGroups
  BY <1>2 DEF CheckOptions, CheckNone, SelectFeeds, SelectBelow, SelectGroups, Locating, Reject,
     Die, Proceed
<1>3. CASE SelectContents \/ WriteTree
  BY <1>3 DEF SelectContents, WriteTree, Locating, Reject, Die, Proceed
<1> QED
  BY <1>1, <1>2, <1>3 DEF Locate

LEMMA Ended ==
  ASSUME TInv, UNCHANGED database, at' = "done"
  PROVE  TInv'
<1>1. Tables'
  BY SameDatabase DEF TInv
<1> QED
  BY <1>1 DEF TInv, Placed, Walking, Between, Selected

LEMMA LocateStep ==
  ASSUME TInv, Locate
  PROVE  TInv'
<1>1. UNCHANGED <<database, request, calm>> /\ Tables'
  BY LocateKeeps, SameDatabase DEF TInv
<1>2. CASE at' = "done"
  BY <1>1, <1>2, Ended
<1>3. CASE at' # "done"
  <2>1. /\ at \in {"type", "parents"} /\ at' \in {"parents", "containers"}
        \/ /\ at \in {"options", "feeds", "below", "groups", "contents", "roots"}
           /\ at' \in {"feeds", "below", "groups", "contents", "roots"}
    BY <1>3 DEF Locate, ReadType, SelectParents, WriteContainers, CheckOptions, CheckNone,
       SelectFeeds, SelectBelow, SelectGroups, SelectContents, WriteTree, SelectRoots, WriteRoots,
       Reject, Die, Proceed
  <2>2. UNCHANGED answer
    BY <1>3 DEF Locate, ReadType, SelectParents, WriteContainers, CheckOptions, CheckNone,
       SelectFeeds, SelectBelow, SelectGroups, SelectContents, WriteTree, SelectRoots, WriteRoots,
       Reject, Die, Proceed
  <2>3. Placed'
    BY <1>1, <2>1, <2>2 DEF TInv, Placed
  <2> QED
    BY <1>1, <2>1, <2>3 DEF TInv, Walking, Between, Selected
<1> QED
  BY <1>2, <1>3

LEMMA ClientStep ==
  ASSUME TInv, AskPower \/ AskLocation \/ SendAnswer \/ ChangeTables \/ UNCHANGED topologyVars
  PROVE  TInv'
<1>1. CASE AskPower
  <2>1. Tables' /\ at' = "resolve" /\ request'.command \in Commands /\ UNCHANGED answer /\ at = "idle"
    BY <1>1, SameDatabase DEF AskPower, Ask, TInv
  <2> QED
    BY <2>1, ChainAssumption DEF TInv, Placed, Powers, Walking, Between, Selected
<1>2. CASE AskLocation
  <2>1. /\ Tables' /\ UNCHANGED answer /\ at = "idle"
        /\ \/ at' = "type" /\ request'.command = "location to"
           \/ at' = "options" /\ request'.command = "location from"
    <3>1. Tables' /\ UNCHANGED answer /\ at = "idle"
      BY <1>2, SameDatabase DEF AskLocation, TInv
    <3>2. \/ request'.command = "location to"
          \/ request'.command = "location from"
      <4>1. \/ \E a \in Assets : request' = [command |-> "location to", asset |-> a]
            \/ \E a \in Assets \cup {0} : request' = [command |-> "location from", asset |-> a]
        BY <1>2, Zenon DEF AskLocation
      <4>2. \A c, a, r : r = [command |-> c, asset |-> a] => r.command = c
        OBVIOUS
      <4> QED
        BY <4>1, <4>2, Zenon
    <3>3. at' = IF request'.command = "location to" THEN "type" ELSE "options"
      BY <1>2 DEF AskLocation
    <3> QED
      BY <3>1, <3>2, <3>3
  <2>2. Placed'
    BY <2>1 DEF TInv, Placed
  <2> QED
    BY <2>1, <2>2 DEF TInv, Walking, Between, Selected
<1>3. CASE SendAnswer
  <2>1. Tables' /\ at' = "idle" /\ answer' = Waiting
    BY <1>3, SameDatabase DEF SendAnswer, Send, TInv
  <2> QED
    BY <2>1 DEF TInv, Placed, Walking, Between, Selected
<1>4. CASE ChangeTables
  <2>1. Tables' /\ UNCHANGED <<at, request, result, answer>> /\ calm' = FALSE
    BY <1>4, ChainAssumption DEF ChangeTables, Change, TInv, Tables
  <2> QED
    BY <2>1 DEF TInv, Placed, Walking, Between, Selected, result
<1>5. CASE UNCHANGED topologyVars
  <2>1. UNCHANGED <<database, at, request, result, answer, calm>>
    BY <1>5 DEF topologyVars, vars
  <2>2. Placed' /\ Tables'
    BY <2>1, SameDatabase DEF TInv, Placed
  <2>3. Walking'
    BY <2>1, SameDatabase DEF TInv, Walking, database, result
  <2>4. Between'
    BY <2>1, SameDatabase DEF TInv, Between, Ends, database, result
  <2>5. Selected'
    BY <2>1, SameDatabase DEF TInv, Selected, Ends, database, result
  <2> QED
    BY <2>2, <2>3, <2>4, <2>5 DEF TInv
<1> QED
  BY <1>1, <1>2, <1>3, <1>4, <1>5

-----------------------------------------------------------------------------
(* The statements of a request about power chains.                         *)
LEMMA EarlyStep ==
  ASSUME TInv, at' # "done", Resolve \/ AddDeviceInfo \/ GroupLinks \/ DatacenterDevices
                             \/ ChooseInputGroup \/ InputLinks \/ ChildDevices
  PROVE  TInv'
<1>1. UNCHANGED <<database, request, calm>> /\ Tables'
  BY AnsweringKeeps, SameDatabase DEF TInv, Answering
<1>2. CASE Resolve
  <2>1. request.command \in Powers
    BY <1>2 DEF Resolve, TInv, Placed
  <2>2. /\ UNCHANGED answer /\ at = "resolve"
        /\ \/ at' = "info" /\ request.command \in {"from", "to", "POWER_TO"}
           \/ at' = "group links" /\ request.command = "filter_group"
           \/ at' = "dc devices" /\ request.command = "filter_dc"
           \/ at' = "input" /\ request.command = "input"
    BY <1>2, <2>1 DEF Resolve, Powers, Refuse, Goto
  <2> QED
    BY <1>1, <2>2 DEF TInv, Placed, Walking, Between, Selected
<1>3. CASE AddDeviceInfo
  <2>1. /\ UNCHANGED answer /\ at = "info" /\ request.asset \in elements \cap Devices
        /\ devices' = {request.asset} /\ powers' = {} /\ newdevices' = {request.asset}
        /\ current' = request.asset
        /\ at' = IF request.command = "from" THEN "from" ELSE "to"
    BY <1>3 DEF AddDeviceInfo, Refuse, Goto, Found
  <2>2. request.asset \in Assets /\ request.asset \in Upstream(request.asset)
    BY <2>1, ClosedUpstream, ChainAssumption DEF TInv
  <2>3. Walking'
    BY <1>1, <2>1, <2>2, SameDatabase DEF Walking
  <2> QED
    BY <1>1, <2>1, <2>3 DEF TInv, Placed, Between, Selected
<1>4. CASE GroupLinks
  <2>1. UNCHANGED answer /\ at = "group links" /\ at' = "group devices" /\ powers' = Among(InGroup(request.asset))
    BY <1>4 DEF GroupLinks, Refuse, Goto, Found
  <2>2. powers' = Among(InGroup(request.asset))'
    BY <1>1, <2>1, SameDatabase
  <2> QED
    BY <1>1, <2>1, <2>2 DEF TInv, Placed, Walking, Between, Selected
<1>5. CASE DatacenterDevices
  <2>1. UNCHANGED answer /\ at = "dc devices" /\ at' = "dc links" /\ devices' = Under(request.asset) \cap Devices
    BY <1>5 DEF DatacenterDevices, Refuse, Goto, Found
  <2>2. devices' = Under(request.asset)' \cap Devices
    BY <1>1, <2>1, SameDatabase
  <2> QED
    BY <1>1, <2>1, <2>2 DEF TInv, Placed, Walking, Between, Selected
<1>6. CASE ChooseInputGroup \/ ChildDevices
  <2>1. /\ UNCHANGED answer /\ at \in {"input", "child devices"}
        /\ at' \in {"input links", "child devices", "child links"}
    BY <1>6 DEF ChooseInputGroup, ChildDevices, Refuse, Goto
  <2> QED
    BY <1>1, <2>1 DEF TInv, Placed, Walking, Between, Selected
<1>7. CASE InputLinks
  <2>1. /\ UNCHANGED <<answer, current>> /\ at = "input links" /\ at' = "input devices"
        /\ powers' = Among(InGroup(current)) /\ devices' = Ends(powers')
    BY <1>7 DEF InputLinks, Refuse, Goto, Found
  <2>2. powers' = Among(InGroup(current))' /\ devices' = Ends(powers)'
    BY <1>1, <2>1, SameDatabase DEF Ends
  <2> QED
    BY <1>1, <2>1, <2>2 DEF TInv, Placed, Walking, Between, Selected
<1> QED
  BY <1>2, <1>3, <1>4, <1>5, <1>6, <1>7

LEMMA SelectedStep ==
  ASSUME TInv, UNCHANGED <<database, request, calm, answer>>, request.command \in Powers,
         at # "done", at' \in {"names", "fill"}, Selected'
  PROVE  TInv'
<1>1. Tables'
  BY SameDatabase DEF TInv
<1> QED
  BY <1>1 DEF TInv, Placed, Walking, Between

LEMMA LateStep ==
  ASSUME TInv, at' # "done", From \/ GroupDevices \/ DatacenterLinks \/ InputDevices \/ ChildLinks
  PROVE  TInv'
<1>1. UNCHANGED <<database, request, calm>> /\ Tables'
  BY AnsweringKeeps, SameDatabase DEF TInv, Answering
<1>2. UNCHANGED answer /\ at' \in {"names", "fill"} /\ at # "done"
  BY DEF From, GroupDevices, DatacenterLinks, InputDevices, ChildLinks, Refuse, Serialise, Goto
<1>3. CASE From
  <2>1. /\ request.command = "from" /\ devices = {request.asset}
        /\ powers' = OutOf(request.asset) /\ devices' = devices \cup Ends(powers')
    BY <1>3 DEF From, Refuse, Found, TInv, Placed, Between
  <2>2. Selected'
    BY <1>1, <2>1, SameDatabase DEF Selected, Ends
  <2> QED
    BY <1>1, <1>2, <2>1, <2>2, SelectedStep DEF Powers
<1>4. CASE GroupDevices
  <2>1. /\ request.command = "filter_group" /\ (calm => powers = Among(InGroup(request.asset)))
        /\ powers' = powers /\ devices' = InGroup(request.asset) \cap Devices
    BY <1>4 DEF GroupDevices, Refuse, Found, TInv, Placed, Between
  <2>2. calm => powers' = Among(devices')
    BY <1>1, <2>1, AmongDevices DEF TInv
  <2>3. Selected'
    BY <1>1, <2>1, <2>2 DEF Selected, Among, database
  <2> QED
    BY <1>1, <1>2, <2>1, <2>3, SelectedStep DEF Powers
<1>5. CASE DatacenterLinks
  <2>1. /\ request.command = "filter_dc" /\ (calm => devices = Under(request.asset) \cap Devices)
        /\ powers' = Among(Under(request.asset)) /\ devices' = devices
    BY <1>5 DEF DatacenterLinks, Refuse, Found, TInv, Placed, Between
  <2>2. calm => powers' = Among(devices')
    BY <1>1, <2>1, AmongDevices DEF TInv
  <2>3. Selected'
    BY <1>1, <2>1, <2>2 DEF Selected, Among, database
  <2> QED
    BY <1>1, <1>2, <2>1, <2>3, SelectedStep DEF Powers
<1>6. CASE InputDevices
  <2>1. /\ request.command = "input" /\ Ends(powers) \subseteq devices
        /\ calm => devices = Ends(powers) /\ powers = Among(InGroup(current))
        /\ powers' = powers /\ devices' = devices \cup (InGroup(current) \cap Devices)
    BY <1>6 DEF InputDevices, Refuse, Found, TInv, Placed, Between
  <2>2. ASSUME calm
        PROVE  powers' = Among(devices')
    <3>1. devices' = InGroup(current) \cap Devices
      BY <2>1, <2>2, AmongDevices DEF TInv
    <3> QED
      BY <2>1, <2>2, <3>1, AmongDevices DEF TInv
  <2>3. Ends(powers)' \subseteq devices'
    BY <2>1 DEF Ends
  <2>4. Selected'
    BY <1>1, <2>1, <2>2, <2>3 DEF Selected, Among, database
  <2> QED
    BY <1>1, <1>2, <2>1, <2>4, SelectedStep DEF Powers
<1>7. CASE ChildLinks
  <2>1. request.command = "input" /\ powers' = Among(devices) /\ devices' = devices
    BY <1>7 DEF ChildLinks, Refuse, Found, TInv, Placed
  <2>2. Ends(powers)' \subseteq devices'
    BY <2>1, AmongDevices DEF TInv, Ends
  <2>3. Selected'
    BY <1>1, <2>1, <2>2 DEF Selected, Among, database
  <2> QED
    BY <1>1, <1>2, <2>1, <2>3, SelectedStep DEF Powers
<1> QED
  BY <1>3, <1>4, <1>5, <1>6, <1>7

(* A turn of the walk: what is taken is upstream, and the links into all   *)
(* that was taken before are in the result.  When nothing is left to take, *)
(* what was taken is closed under its sources, so it is all of upstream.   *)
LEMMA WalkStep ==
  ASSUME TInv, at' # "done", Walk
  PROVE  TInv'
<1>1. UNCHANGED <<database, request, calm>> /\ Tables'
  BY AnsweringKeeps, SameDatabase DEF TInv, Answering
<1>2. /\ Walking /\ at = "to" /\ request.command \in {"to", "POWER_TO"}
      /\ devices \subseteq newdevices /\ newdevices \subseteq Assets
      /\ current \in devices /\ request.asset \in devices
      /\ \A l \in powers : l.dst \in devices /\ l.src \in newdevices
  BY DEF Walk, TInv, Placed, Walking
<1>3. calm => /\ newdevices \subseteq Upstream(request.asset)
              /\ powers = {l \in links : l.dst \in devices \ {current}}
  BY <1>2 DEF Walking
<1>4. PICK new : new = newdevices \cup {l.src : l \in Into(current)}
  OBVIOUS
<1>5. \A l \in links : l.src \in Devices /\ l.dst \in Devices
  BY ChainAssumption DEF TInv, Tables
<1>6. new \subseteq Assets /\ devices \subseteq new
  BY <1>2, <1>4, <1>5, ChainAssumption DEF Into
<1>7. \A l \in powers \cup Into(current) : l.dst \in devices /\ l.src \in new
  BY <1>2, <1>4 DEF Into
<1>8. calm => powers \cup Into(current) = {l \in links : l.dst \in devices}
  BY <1>2, <1>3 DEF Into
<1>9. CASE new \ devices = {}
  <2>1. /\ UNCHANGED answer /\ at' = "names" /\ devices' = devices
        /\ powers' = powers \cup Into(current)
    BY <1>4, <1>9 DEF Walk, Refuse, Found, Serialise, Goto
  <2>2. new = devices
    BY <1>6, <1>9
  <2>3. Ends(powers)' \subseteq devices'
    BY <1>7, <2>1, <2>2 DEF Ends
  <2>4. ASSUME calm
        PROVE  devices = Upstream(request.asset)
    <3>1. devices \subseteq Upstream(request.asset) /\ request.asset \in devices
      BY <1>2, <1>3, <2>4
    <3>2. \A l \in links : l.dst \in devices => l.src \in devices
      BY <1>7, <1>8, <2>2, <2>4
    <3>3. Upstream(request.asset) \subseteq Devices
      BY DEF Upstream
    <3> QED
      BY <3>1, <3>2, <3>3, LeastUpstream
  <2>5. Selected'
    <3>1. calm => devices' = Upstream(request.asset)' /\ powers' = {l \in links : l.dst \in Upstream(request.asset)'}
      BY <1>1, <1>8, <2>1, <2>4, SameDatabase
    <3> QED
      BY <1>1, <1>2, <2>3, <3>1 DEF Selected, database
  <2> QED
    BY <1>1, <1>2, <2>1, <2>5, SelectedStep DEF Powers
<1>10. CASE new \ devices # {}
  <2>1. PICK next : next = Min(new \ devices)
    OBVIOUS
  <2>2. next \in new \ devices
    <3>1. new \ devices \subseteq Assets
      BY <1>6
    <3>2. IsFiniteSet(new \ devices) /\ new \ devices \subseteq Nat
      BY <3>1, ChainAssumption, FS_Subset
    <3> QED
      BY <1>10, <2>1, <3>2, Smallest
  <2>3. /\ UNCHANGED answer /\ at' = "to" /\ newdevices' = new /\ current' = next
        /\ devices' = devices \cup {next} /\ powers' = powers \cup Into(current)
    BY <1>4, <1>10, <2>1 DEF Walk, Refuse, Found, Goto
  <2>4. calm => new \subseteq Upstream(request.asset)
    <3>1. ASSUME calm, NEW l \in links, l.dst = current
          PROVE  l.src \in Upstream(request.asset)
      <4>1. l.dst \in Upstream(request.asset)
        BY <1>2, <1>3, <3>1
      <4>2. request.asset \in Devices
        BY <1>2, <1>3, <3>1 DEF Upstream
      <4> QED
        BY <3>1, <4>1, <4>2, ClosedUpstream DEF TInv
    <3> QED
      BY <1>3, <1>4, <3>1 DEF Into
  <2>5. devices' \ {current'} = devices
    BY <2>2, <2>3
  <2>6. calm => powers' = {l \in links' : l.dst \in devices' \ {current'}}
    BY <1>1, <1>8, <2>3, <2>5 DEF database
  <2>7. Walking'
    <3>1. devices' \subseteq newdevices' /\ current' \in devices' /\ request.asset \in devices'
      BY <1>2, <1>6, <2>2, <2>3
    <3>2. \A l \in powers' : l.dst \in devices' /\ l.src \in newdevices'
      BY <1>7, <2>3
    <3>3. calm => newdevices' \subseteq Upstream(request.asset)'
      BY <1>1, <2>3, <2>4, SameDatabase
    <3> QED
      BY <1>1, <1>6, <2>3, <2>6, <3>1, <3>2, <3>3 DEF Walking
  <2> QED
    BY <1>1, <1>2, <2>3, <2>7 DEF TInv, Placed, Between, Selected
<1> QED
  BY <1>9, <1>10

LEMMA NameStep ==
  ASSUME TInv, at' # "done", Name \/ Fill
  PROVE  TInv'
<1>1. UNCHANGED <<database, request, calm>> /\ Tables'
  BY AnsweringKeeps, SameDatabase DEF TInv, Answering
<1>2. UNCHANGED <<answer, at, devices, powers>> /\ at \in {"names", "fill"}
  BY DEF Name, Fill, ReadNames, ReadEnds, Refuse, Goto
<1>3. request.command \in Powers
  BY <1>2 DEF TInv, Placed
<1>4. Selected'
  BY <1>1, <1>2, SameDatabase DEF TInv, Selected, Ends, database
<1> QED
  BY <1>1, <1>2, <1>3, <1>4, SelectedStep

LEMMA TopologyStep ==
  ASSUME TInv, [TopologyNext]_topologyVars
  PROVE  TInv'
<1>1. ASSUME Answering
      PROVE  TInv'
  <2>1. CASE at' = "done"
    BY <1>1, <2>1, AnsweringKeeps, Ended DEF TInv
  <2>2. CASE at' # "done"
    <3>1. ~Respond
      BY <2>2 DEF Respond
    <3> QED
      BY <1>1, <2>2, <3>1, EarlyStep, LateStep, WalkStep, NameStep DEF Answering
  <2> QED
    BY <2>1, <2>2
<1> QED
  BY <1>1, ClientStep, LocateStep DEF TopologyNext, AnsweringPower

LEMMA TopologyStarts == TopologyInit => TInv
  BY DEF TopologyInit, Init, TInv, Placed, Tables, Walking, Between, Selected

-----------------------------------------------------------------------------
(* The answers.  What is written into one is what was selected.            *)
LEMMA Responds ==
  ASSUME TInv, Respond
  PROVE  EndsAreListed' /\ CalmAnswerIsExact'
<1>1. /\ Selected /\ request.command \in Powers
      /\ UNCHANGED <<database, request, calm>> /\ at' = "done"
  BY DEF TInv, Placed, Respond, Same
<1>2. CASE request.command = "POWER_TO"
  <2>1. answer' = OK({}, Closest(powers, request.asset))
    BY <1>2 DEF Respond
  <2>2. ASSUME calm
        PROVE  Closest(powers, request.asset) = {l \in links : l.dst = request.asset /\ l.out # 0}
    <3>1. powers = {l \in links : l.dst \in Upstream(request.asset)}
      BY <1>1, <1>2, <2>2 DEF Selected, Respond
    <3>2. \A l \in links : l.dst = request.asset => l.dst \in Upstream(request.asset)
      <4>1. \A l \in links : l.dst \in Devices
        BY ChainAssumption DEF TInv, Tables
      <4> QED
        BY <4>1, ClosedUpstream DEF TInv
    <3> QED
      BY <3>1, <3>2 DEF Closest
  <2>3. EndsAreListed'
    BY <1>1, <1>2 DEF EndsAreListed
  <2>4. calm' => answer'.powers = {l \in links' : l.dst = request'.asset /\ l.out # 0}
    BY <1>1, <2>1, <2>2 DEF database, OK
  <2> QED
    BY <1>1, <1>2, <2>3, <2>4 DEF CalmAnswerIsExact
<1>3. CASE request.command # "POWER_TO"
  <2>1. answer' = OK(devices, powers)
    BY <1>3 DEF Respond
  <2>2. answer'.devices = devices /\ answer'.powers = powers
    BY <2>1 DEF OK
  <2>3. EndsAreListed'
    BY <1>1, <2>2 DEF EndsAreListed, Selected, Respond, Ends
  <2>4. CASE request.command = "to"
    <3>1. calm' => answer' = OK(Upstream(request.asset)', {l \in links' : l.dst \in Upstream(request.asset)'})
      BY <1>1, <2>1, <2>4, SameDatabase DEF Selected, Respond, database
    <3> QED
      BY <1>1, <2>3, <2>4, <3>1 DEF CalmAnswerIsExact
  <2>5. CASE request.command = "from"
    <3>1. calm' => answer' = OK({request'.asset} \cup Ends(answer'.powers), OutOf(request.asset)')
      BY <1>1, <2>1, <2>2, <2>5, SameDatabase DEF Selected, Respond
    <3> QED
      BY <1>1, <2>3, <2>5, <3>1 DEF CalmAnswerIsExact, Ends, OK
  <2>6. CASE request.command \in {"filter_dc", "filter_group", "input"}
    <3>1. calm' => answer'.powers = Among(answer.devices)'
      BY <1>1, <2>2, <2>6 DEF Selected, Respond, Among, database
    <3> QED
      BY <1>1, <2>3, <2>6, <3>1 DEF CalmAnswerIsExact
  <2> QED
    BY <1>1, <1>3, <2>4, <2>5, <2>6 DEF Powers
<1> QED
  BY <1>2, <1>3

LEMMA NotAnswered ==
  ASSUME answer.status # "OK" \/ request.command \in {"location to", "location from"}
  PROVE  EndsAreListed /\ CalmAnswerIsExact
  BY DEF EndsAreListed, CalmAnswerIsExact

LEMMA AnswersStep ==
  ASSUME TInv, TInv', EndsAreListed, CalmAnswerIsExact, [TopologyNext]_topologyVars
  PROVE  EndsAreListed' /\ CalmAnswerIsExact'
<1>1. CASE at' # "done"
  <2>1. answer' = Waiting
    BY <1>1 DEF TInv, Placed
  <2>2. answer'.status # "OK"
    BY <2>1 DEF Waiting
  <2> QED
    BY <1>1, <2>2 DEF EndsAreListed, CalmAnswerIsExact
<1>2. CASE ChangeTables
  BY <1>2 DEF ChangeTables, Change, EndsAreListed, CalmAnswerIsExact, Ends
<1>3. CASE UNCHANGED topologyVars
  <2>1. UNCHANGED <<database, at, request, answer, calm>>
    BY <1>3 DEF topologyVars, vars
  <2> QED
    BY <2>1, SameDatabase DEF EndsAreListed, CalmAnswerIsExact, Ends, Among, OutOf, Upstream, database
<1>4. CASE Locate
  <2>1. request'.command \in {"location to", "location from"}
    BY <1>4, LocateKeeps DEF TInv, Placed, Locate, ReadType, SelectParents, WriteContainers,
       CheckOptions, CheckNone, SelectFeeds, SelectBelow, SelectGroups, SelectContents, WriteTree,
       SelectRoots, WriteRoots
  <2> QED
    BY <2>1 DEF EndsAreListed, CalmAnswerIsExact
<1>5. CASE Answering /\ at' = "done"
  <2>1. Respond \/ answer' = Error
    <3>1. CASE Resolve
      BY <1>5, <3>1 DEF Resolve, TInv, Placed, Powers, Refuse, Goto
    <3>2. CASE ~Resolve
      BY <1>5, <3>2 DEF Answering, AddDeviceInfo, From, Walk, GroupLinks, GroupDevices,
         DatacenterDevices, DatacenterLinks, ChooseInputGroup, InputLinks, InputDevices,
         ChildDevices, ChildLinks, Name, Fill, ReadNames, ReadEnds, Refuse, Goto, Serialise
    <3> QED
      BY <3>1, <3>2
  <2> QED
    BY <2>1, Responds DEF Error, EndsAreListed, CalmAnswerIsExact
<1> QED
  BY <1>1, <1>2, <1>3, <1>4, <1>5 DEF TopologyNext, AskPower, Ask, AskLocation, AnsweringPower,
     SendAnswer, Send

(* Whatever the tables hold and the other threads do to them meanwhile, an *)
(* answer to "from", to "to" and about the input power lists both ends of  *)
(* each of its links.                                                      *)
THEOREM EndsStayListed == TopologySpec => []EndsAreListed
<1>1. TopologyInit => TInv /\ EndsAreListed /\ CalmAnswerIsExact
  BY TopologyStarts DEF TopologyInit, Init, Waiting, EndsAreListed, CalmAnswerIsExact
<1>2. TInv /\ EndsAreListed /\ CalmAnswerIsExact /\ [TopologyNext]_topologyVars
        => (TInv /\ EndsAreListed /\ CalmAnswerIsExact)'
  BY TopologyStep, AnswersStep
<1> QED
  BY <1>1, <1>2, PTL DEF TopologySpec

(* An answer that nothing has disturbed is exact, for any devices and links*)
(* between them: all that is upstream when the walk was asked for, circles *)
(* or not; else the links right after the asset, the sockets that feed it, *)
(* or all links among the devices that are listed.                         *)
THEOREM CalmAnswersStayExact == TopologySpec => []CalmAnswerIsExact
<1>1. TopologyInit => TInv /\ EndsAreListed /\ CalmAnswerIsExact
  BY TopologyStarts DEF TopologyInit, Init, Waiting, EndsAreListed, CalmAnswerIsExact
<1>2. TInv /\ EndsAreListed /\ CalmAnswerIsExact /\ [TopologyNext]_topologyVars
        => (TInv /\ EndsAreListed /\ CalmAnswerIsExact)'
  BY TopologyStep, AnswersStep
<1> QED
  BY <1>1, <1>2, PTL DEF TopologySpec

-----------------------------------------------------------------------------
(* Induction up to a number, for sets.                                     *)
LEMMA Upward ==
  ASSUME NEW N \in Nat, NEW T, 0 \in T, \A n \in 0 .. N : n + 1 \in 0 .. N /\ n \in T => n + 1 \in T
  PROVE  0 .. N \subseteq T
<1> DEFINE S == (0 .. N) \ T
<1> SUFFICES ASSUME S # {} PROVE FALSE
  OBVIOUS
<1>1. S \in SUBSET Nat /\ IsFiniteSet(S)
  <2>1. IsFiniteSet(0 .. N)
    BY FS_Interval
  <2> QED
    BY <2>1, FS_Subset
<1>2. PICK k \in S : \A x \in S : k <= x
  <2> HIDE DEF S
  <2> QED
    BY <1>1, Smallest
<1>3. k # 0 /\ k - 1 \in 0 .. N /\ k - 1 \notin S /\ (k - 1) + 1 = k
  BY <1>2
<1> QED
  BY <1>2, <1>3

(* What is applied again and again.                                        *)
Runs(f, a, m, N) == m = [n \in 0 .. N |-> IF n = 0 THEN a ELSE f[m[n - 1]]]
Iterates(f, a, m) == m = [n \in Nat |-> IF n = 0 THEN a ELSE f[m[n - 1]]]

LEMMA RunsAgree ==
  ASSUME NEW f, NEW a, NEW m, NEW k, NEW M \in Nat, NEW N \in Nat, M <= N,
         Runs(f, a, m, M), Runs(f, a, k, N)
  PROVE  \A n \in 0 .. M : m[n] = k[n]
<1> DEFINE T == {n \in 0 .. M : m[n] = k[n]}
<1>1. 0 \in T
  BY DEF Runs
<1>2. ASSUME NEW n \in 0 .. M, n + 1 \in 0 .. M, n \in T
      PROVE  n + 1 \in T
  <2>1. n + 1 \in 0 .. N /\ n + 1 # 0 /\ (n + 1) - 1 = n
    BY <1>2
  <2>2. m[n + 1] = f[m[n]]
    BY <1>2, <2>1 DEF Runs
  <2>3. k[n + 1] = f[k[n]]
    BY <2>1 DEF Runs
  <2> QED
    BY <1>2, <2>2, <2>3
<1>3. 0 .. M \subseteq T
  <2> HIDE DEF T
  <2> QED
    BY <1>1, <1>2, Upward
<1> QED
  BY <1>3

LEMMA RunsExist ==
  ASSUME NEW f, NEW a, NEW N \in Nat
  PROVE  \E m : Runs(f, a, m, N)
<1> DEFINE T == {n \in 0 .. N : \E m : Runs(f, a, m, n)}
<1>1. 0 \in T
  <2>1. Runs(f, a, [n \in 0 .. 0 |-> a], 0)
    BY DEF Runs
  <2> QED
    BY <2>1
<1>2. ASSUME NEW k \in 0 .. N, k + 1 \in 0 .. N, k \in T
      PROVE  k + 1 \in T
  <2>1. PICK m : Runs(f, a, m, k)
    BY <1>2
  <2> DEFINE g == [n \in 0 .. k + 1 |-> IF n = k + 1 THEN f[m[k]] ELSE m[n]]
  <2>2. ASSUME NEW n \in 0 .. k + 1
        PROVE  g[n] = IF n = 0 THEN a ELSE f[g[n - 1]]
    <3>1. CASE n = k + 1
      <4>1. g[n] = f[m[k]] /\ n - 1 = k /\ n # 0 /\ g[k] = m[k]
        BY <1>2, <3>1
      <4> QED
        BY <4>1
    <3>2. CASE n # k + 1
      <4>1. n \in 0 .. k
        BY <1>2, <3>2
      <4>2. g[n] = m[n] /\ m[n] = IF n = 0 THEN a ELSE f[m[n - 1]]
        BY <1>2, <2>1, <3>2, <4>1 DEF Runs
      <4>3. n # 0 => g[n - 1] = m[n - 1]
        BY <1>2, <4>1
      <4> QED
        BY <4>2, <4>3
    <3> QED
      BY <3>1, <3>2
  <2>3. Runs(f, a, g, k + 1)
    <3>1. g = [n \in 0 .. k + 1 |-> g[n]]
      OBVIOUS
    <3> HIDE DEF g
    <3> QED
      BY <2>2, <3>1 DEF Runs
  <2> QED
    BY <1>2, <2>3
<1>3. 0 .. N \subseteq T
  <2> HIDE DEF T
  <2> QED
    BY <1>1, <1>2, Upward
<1> QED
  BY <1>3

LEMMA IteratesExist ==
  ASSUME NEW f, NEW a
  PROVE  \E m : Iterates(f, a, m)
<1> DEFINE c(n) == CHOOSE m : Runs(f, a, m, n)
           m == [n \in Nat |-> c(n)[n]]
<1>1. \A n \in Nat : Runs(f, a, c(n), n)
  <2> SUFFICES ASSUME NEW n \in Nat PROVE Runs(f, a, c(n), n)
    OBVIOUS
  <2>1. \E k : Runs(f, a, k, n)
    BY RunsExist
  <2> QED
    BY <2>1, Zenon
<1> HIDE DEF c
<1>2. ASSUME NEW n \in Nat
      PROVE  m[n] = IF n = 0 THEN a ELSE f[m[n - 1]]
  <2>1. c(n)[n] = IF n = 0 THEN a ELSE f[c(n)[n - 1]]
    <3>1. Runs(f, a, c(n), n) /\ n \in 0 .. n
      BY <1>1
    <3> QED
      BY <3>1 DEF Runs
  <2>2. CASE n # 0
    <3>1. n - 1 \in Nat /\ n - 1 <= n /\ n - 1 \in 0 .. n - 1
      BY <2>2
    <3>2. Runs(f, a, c(n - 1), n - 1) /\ Runs(f, a, c(n), n)
      BY <1>1, <3>1
    <3>3. c(n - 1)[n - 1] = c(n)[n - 1]
      <4>1. \A i \in 0 .. n - 1 : c(n - 1)[i] = c(n)[i]
        BY <3>1, <3>2, RunsAgree
      <4> QED
        BY <3>1, <4>1
    <3> QED
      BY <2>1, <2>2, <3>1, <3>3
  <2> QED
    BY <2>1, <2>2
<1>3. Iterates(f, a, m)
  <2>1. m = [n \in Nat |-> m[n]]
    OBVIOUS
  <2> HIDE DEF m
  <2> QED
    BY <1>2, <2>1 DEF Iterates
<1> QED
  BY <1>3

-----------------------------------------------------------------------------
(* What is above an asset, level after level.                              *)
Parented == parent \in [Assets -> Assets \cup {0}]

LEMMA AboveClimbs ==
  ASSUME Parented, NEW x \in Assets \cup {0}
  PROVE  /\ Above(x)[0] = x
         /\ \A n \in Nat :
              /\ Above(x)[n] \in Assets \cup {0}
              /\ Above(x)[n + 1] = IF Above(x)[n] = 0 THEN 0 ELSE parent[Above(x)[n]]
<1> DEFINE f == [a \in Assets \cup {0} |-> IF a = 0 THEN 0 ELSE parent[a]]
           Is(u) == u = [n \in Nat |-> IF n = 0 THEN x
                                       ELSE IF u[n - 1] = 0 THEN 0 ELSE parent[u[n - 1]]]
           c == CHOOSE u : Is(u)
<1>1. PICK m : Iterates(f, x, m)
  BY IteratesExist
<1>2. m[0] = x /\ \A n \in Nat : m[n + 1] = f[m[n]]
  BY <1>1 DEF Iterates
<1>3. \A a \in Assets \cup {0} : f[a] \in Assets \cup {0} /\ f[a] = IF a = 0 THEN 0 ELSE parent[a]
  BY DEF Parented
<1> HIDE DEF f
<1>4. ASSUME NEW N \in Nat
      PROVE  m[N] \in Assets \cup {0}
  <2> DEFINE T == {n \in 0 .. N : m[n] \in Assets \cup {0}}
  <2>1. 0 \in T
    BY <1>2
  <2>2. \A n \in 0 .. N : n + 1 \in 0 .. N /\ n \in T => n + 1 \in T
    BY <1>2, <1>3
  <2>3. 0 .. N \subseteq T
    <3> HIDE DEF T
    <3> QED
      BY <2>1, <2>2, Upward
  <2> QED
    BY <2>3
<1>5. Is(m)
  <2>1. ASSUME NEW n \in Nat
        PROVE  m[n] = IF n = 0 THEN x ELSE IF m[n - 1] = 0 THEN 0 ELSE parent[m[n - 1]]
    <3>1. CASE n = 0
      BY <1>2, <3>1
    <3>2. CASE n # 0
      <4>1. n - 1 \in Nat /\ (n - 1) + 1 = n
        BY <3>2
      <4>2. m[n] = f[m[n - 1]] /\ m[n - 1] \in Assets \cup {0}
        BY <1>2, <1>4, <4>1
      <4> QED
        BY <1>3, <3>2, <4>2
    <3> QED
      BY <3>1, <3>2
  <2>2. m = [n \in Nat |-> m[n]]
    BY <1>1 DEF Iterates
  <2> QED
    BY <2>1, <2>2
<1>6. Is(c)
  <2> HIDE DEF Is
  <2> QED
    BY <1>5, Zenon
<1>7. Above(x) = c
  BY DEF Above
<1>8. c[0] = x /\ \A n \in Nat : c[n + 1] = IF c[n] = 0 THEN 0 ELSE parent[c[n]]
  <2>1. \A n \in Nat : n + 1 \in Nat /\ n + 1 # 0 /\ (n + 1) - 1 = n
    OBVIOUS
  <2> HIDE DEF c
  <2> QED
    BY <1>6, <2>1
<1> HIDE DEF c, Is
<1>9. ASSUME NEW N \in Nat
      PROVE  c[N] \in Assets \cup {0}
  <2> DEFINE T == {n \in 0 .. N : c[n] \in Assets \cup {0}}
  <2>1. 0 \in T
    BY <1>8
  <2>2. \A n \in 0 .. N : n + 1 \in 0 .. N /\ n \in T => n + 1 \in T
    BY <1>8 DEF Parented
  <2>3. 0 .. N \subseteq T
    <3> HIDE DEF T
    <3> QED
      BY <2>1, <2>2, Upward
  <2> QED
    BY <2>3
<1> QED
  BY <1>7, <1>8, <1>9

LEMMA AboveAbove ==
  ASSUME Parented, NEW x \in Assets \cup {0}, NEW j \in Nat, NEW k \in Nat
  PROVE  Above(Above(x)[j])[k] = Above(x)[j + k]
<1> DEFINE y == Above(x)[j]
           T == {n \in 0 .. k : Above(y)[n] = Above(x)[j + n]}
<1>1. y \in Assets \cup {0}
  BY AboveClimbs
<1>2. 0 \in T
  <2>1. Above(y)[0] = y /\ j + 0 = j
    BY <1>1, AboveClimbs
  <2> QED
    BY <2>1
<1>3. ASSUME NEW n \in 0 .. k, n + 1 \in 0 .. k, n \in T
      PROVE  n + 1 \in T
  <2>1. Above(y)[n] = Above(x)[j + n] /\ n \in Nat /\ j + n \in Nat /\ j + (n + 1) = (j + n) + 1
    BY <1>3
  <2>2. Above(y)[n + 1] = IF Above(y)[n] = 0 THEN 0 ELSE parent[Above(y)[n]]
    <3> HIDE DEF y
    <3> QED
      BY <1>1, <2>1, AboveClimbs
  <2>3. Above(x)[(j + n) + 1] = IF Above(x)[j + n] = 0 THEN 0 ELSE parent[Above(x)[j + n]]
    BY <2>1, AboveClimbs
  <2> HIDE DEF y
  <2> QED
    BY <1>3, <2>1, <2>2, <2>3
<1>4. 0 .. k \subseteq T
  <2> HIDE DEF T
  <2> QED
    BY <1>2, <1>3, Upward
<1> QED
  BY <1>4

(* Parents of assets that are there are there.                             *)
Rooted == Parented /\ \A a \in elements : parent[a] \in elements \cup {0}

LEMMA AboveThere ==
  ASSUME Rooted, Tables, NEW x \in elements, NEW N \in Nat
  PROVE  \A n \in 0 .. N : Above(x)[n] \in elements \cup {0}
<1> DEFINE T == {n \in 0 .. N : Above(x)[n] \in elements \cup {0}}
<1>1. x \in Assets /\ Parented
  BY DEF Rooted, Tables
<1>2. 0 \in T
  BY <1>1, AboveClimbs
<1>3. ASSUME NEW n \in 0 .. N, n + 1 \in 0 .. N, n \in T
      PROVE  n + 1 \in T
  <2>1. n \in Nat
    BY <1>3
  <2>2. Above(x)[n + 1] = IF Above(x)[n] = 0 THEN 0 ELSE parent[Above(x)[n]]
    BY <1>1, <2>1, AboveClimbs
  <2> QED
    BY <1>3, <2>2 DEF Rooted
<1>4. 0 .. N \subseteq T
  <2> HIDE DEF T
  <2> QED
    BY <1>2, <1>3, Upward
<1> QED
  BY <1>4

(* Nothing is above nothing.                                               *)
LEMMA AboveNothing ==
  ASSUME Parented, NEW x \in Assets \cup {0}, NEW j \in Nat, NEW k \in Nat, j <= k, Above(x)[k] # 0
  PROVE  Above(x)[j] \in Assets
<1>1. SUFFICES ASSUME Above(x)[j] = 0 PROVE FALSE
  BY AboveClimbs
<1> DEFINE T == {n \in 0 .. k - j : Above(x)[j + n] = 0}
<1>2. 0 \in T
  BY <1>1
<1>3. ASSUME NEW n \in 0 .. k - j, n + 1 \in 0 .. k - j, n \in T
      PROVE  n + 1 \in T
  <2>1. j + n \in Nat /\ j + (n + 1) = (j + n) + 1 /\ Above(x)[j + n] = 0
    BY <1>3
  <2>2. Above(x)[(j + n) + 1] = IF Above(x)[j + n] = 0 THEN 0 ELSE parent[Above(x)[j + n]]
    BY <2>1, AboveClimbs
  <2> QED
    BY <1>3, <2>1, <2>2
<1>4. 0 .. k - j \subseteq T
  <2> HIDE DEF T
  <2>1. k - j \in Nat
    OBVIOUS
  <2> QED
    BY <1>2, <1>3, <2>1, Upward
<1>5. k - j \in T /\ j + (k - j) = k
  BY <1>4
<1> QED
  BY <1>5

-----------------------------------------------------------------------------
(* What a device feeds: as many turns as there are devices find it all.    *)
Fed(S) == S \cup {l.dst : l \in {k \in links : k.src \in S}}

LEMMA FeedByTurns ==
  ASSUME Tables, NEW d \in Devices
  PROVE  \E m : /\ FeedBy(d) = m[Cardinality(Devices)] /\ m[0] = {d}
                /\ \A n \in 0 .. Cardinality(Devices) : m[n] \subseteq Devices
                /\ \A n \in 0 .. Cardinality(Devices) : n + 1 \in 0 .. Cardinality(Devices) => m[n + 1] = Fed(m[n])
<1> DEFINE N == Cardinality(Devices)
           f == [S \in SUBSET Devices |-> Fed(S)]
           Is(u) == u = [n \in 0 .. N |-> IF n = 0 THEN {d} ELSE u[n - 1] \cup {l.dst : l \in {k \in links : k.src \in u[n - 1]}}]
           c == CHOOSE u : Is(u)
<1>1. N \in Nat
  <2>1. IsFiniteSet(Devices)
    BY ChainAssumption, FS_Subset
  <2> QED
    BY <2>1, FS_CardinalityType
<1>2. FeedBy(d) = c[N]
  BY DEF FeedBy
<1> HIDE DEF N
<1>3. \A S \in SUBSET Devices : Fed(S) \in SUBSET Devices
  BY ChainAssumption DEF Tables, Fed
<1>4. PICK m : Runs(f, {d}, m, N)
  BY <1>1, RunsExist
<1>5. \A n \in 0 .. N : n # 0 => m[n] = f[m[n - 1]]
  BY <1>4 DEF Runs
<1>6. m[0] = {d}
  BY <1>1, <1>4 DEF Runs
<1>7. \A S \in SUBSET Devices : f[S] = Fed(S)
  OBVIOUS
<1> HIDE DEF f
<1>8. 0 .. N \subseteq {n \in 0 .. N : m[n] \in SUBSET Devices}
  <2> DEFINE T == {n \in 0 .. N : m[n] \in SUBSET Devices}
  <2>1. 0 \in T
    BY <1>1, <1>6
  <2>2. ASSUME NEW n \in 0 .. N, n + 1 \in 0 .. N, n \in T
        PROVE  n + 1 \in T
    <3>1. n + 1 # 0 /\ (n + 1) - 1 = n
      BY <1>1
    <3>2. m[n + 1] = f[m[n]]
      BY <1>5, <2>2, <3>1
    <3> QED
      BY <1>3, <1>7, <2>2, <3>2
  <2>3. 0 .. N \subseteq T
    <3> HIDE DEF T
    <3> QED
      BY <1>1, <2>1, <2>2, Upward
  <2> QED
    BY <2>3
<1>9. Is(m)
  <2>1. ASSUME NEW n \in 0 .. N, n # 0
        PROVE  m[n] = m[n - 1] \cup {l.dst : l \in {k \in links : k.src \in m[n - 1]}}
    <3>1. n - 1 \in 0 .. N
      BY <1>1, <2>1
    <3>2. m[n] = Fed(m[n - 1])
      BY <1>5, <1>7, <1>8, <2>1, <3>1
    <3> QED
      BY <3>2 DEF Fed
  <2>2. m = [n \in 0 .. N |-> m[n]]
    BY <1>4 DEF Runs
  <2>3. ASSUME NEW n \in 0 .. N
        PROVE  m[n] = IF n = 0 THEN {d} ELSE m[n - 1] \cup {l.dst : l \in {k \in links : k.src \in m[n - 1]}}
    BY <1>6, <2>1, <2>3
  <2> QED
    BY <2>2, <2>3, Zenon
<1>10. Is(c)
  <2> HIDE DEF Is
  <2> QED
    BY <1>9, Zenon
<1> HIDE DEF c
<1>11. c[0] = {d}
  BY <1>1, <1>10
<1>12. ASSUME NEW n \in 0 .. N, n + 1 \in 0 .. N
       PROVE  c[n + 1] = Fed(c[n])
  <2>1. n + 1 # 0 /\ (n + 1) - 1 = n
    BY <1>1
  <2> QED
    BY <1>10, <1>12, <2>1 DEF Fed
<1>13. 0 .. N \subseteq {n \in 0 .. N : c[n] \in SUBSET Devices}
  <2> DEFINE T == {n \in 0 .. N : c[n] \in SUBSET Devices}
  <2>1. 0 \in T
    BY <1>1, <1>11
  <2>2. \A n \in 0 .. N : n + 1 \in 0 .. N /\ n \in T => n + 1 \in T
    BY <1>3, <1>12
  <2>3. 0 .. N \subseteq T
    <3> HIDE DEF T
    <3> QED
      BY <1>1, <2>1, <2>2, Upward
  <2> QED
    BY <2>3
<1> QED
  <2>1. \A n \in 0 .. N : c[n] \subseteq Devices
    BY <1>13
  <2> QED
    BY <1>2, <1>11, <1>12, <2>1 DEF N

LEMMA FeedByIsClosed ==
  ASSUME Tables, NEW d \in Devices
  PROVE  d \in FeedBy(d) /\ FeedBy(d) \subseteq Devices /\ Fed(FeedBy(d)) = FeedBy(d)
<1> DEFINE N == Cardinality(Devices)
<1>1. IsFiniteSet(Devices) /\ N \in Nat
  <2>1. IsFiniteSet(Devices)
    BY ChainAssumption, FS_Subset
  <2> QED
    BY <2>1, FS_CardinalityType
<1>2. PICK m : /\ FeedBy(d) = m[N] /\ m[0] = {d}
               /\ \A n \in 0 .. N : m[n] \subseteq Devices
               /\ \A n \in 0 .. N : n + 1 \in 0 .. N => m[n + 1] = Fed(m[n])
  BY FeedByTurns
<1> HIDE DEF N
<1>3. d \in m[N]
  <2> DEFINE T == {n \in 0 .. N : d \in m[n]}
  <2>1. 0 \in T
    BY <1>1, <1>2
  <2>2. \A n \in 0 .. N : n + 1 \in 0 .. N /\ n \in T => n + 1 \in T
    BY <1>2 DEF Fed
  <2>3. 0 .. N \subseteq T
    <3> HIDE DEF T
    <3> QED
      BY <1>1, <2>1, <2>2, Upward
  <2> QED
    BY <1>1, <2>3
<1>4. ASSUME Fed(m[N]) # m[N]
      PROVE  FALSE
  <2>1. ASSUME NEW n \in 0 .. N, Fed(m[n]) = m[n]
        PROVE  FALSE
    <3> DEFINE T == {k \in 0 .. N - n : m[n + k] = m[n]}
    <3>1. 0 \in T /\ N - n \in Nat
      BY <1>1
    <3>2. ASSUME NEW k \in 0 .. N - n, k + 1 \in 0 .. N - n, k \in T
          PROVE  k + 1 \in T
      <4>1. n + k \in 0 .. N /\ n + (k + 1) = (n + k) + 1 /\ (n + k) + 1 \in 0 .. N
        BY <1>1, <3>2
      <4>2. m[(n + k) + 1] = Fed(m[n + k])
        BY <1>2, <4>1
      <4> QED
        BY <2>1, <3>2, <4>1, <4>2
    <3>3. 0 .. N - n \subseteq T
      <4> HIDE DEF T
      <4> QED
        BY <3>1, <3>2, Upward
    <3>4. N - n \in T /\ n + (N - n) = N
      BY <1>1, <3>1, <3>3
    <3> QED
      BY <1>4, <2>1, <3>4
  <2> DEFINE T == {n \in 0 .. N : Cardinality(m[n]) > n}
  <2>2. 0 \in T
    <3>1. Cardinality(m[0]) = 1
      BY <1>2, FS_Singleton
    <3> QED
      BY <1>1, <3>1
  <2>3. ASSUME NEW n \in 0 .. N, n + 1 \in 0 .. N, n \in T
        PROVE  n + 1 \in T
    <3>1. m[n] \subseteq m[n + 1] /\ m[n] # m[n + 1] /\ m[n + 1] \subseteq Devices
      BY <1>2, <2>1, <2>3 DEF Fed
    <3>2. IsFiniteSet(m[n + 1]) /\ IsFiniteSet(m[n])
      BY <1>1, <3>1, FS_Subset
    <3>3. /\ Cardinality(m[n]) <= Cardinality(m[n + 1])
          /\ Cardinality(m[n + 1]) = Cardinality(m[n]) => m[n + 1] = m[n]
      BY <3>1, <3>2, FS_Subset
    <3>4. Cardinality(m[n]) \in Nat /\ Cardinality(m[n + 1]) \in Nat
      BY <3>2, FS_CardinalityType
    <3> QED
      BY <2>3, <3>1, <3>3, <3>4
  <2>4. 0 .. N \subseteq T
    <3> HIDE DEF T
    <3> QED
      BY <1>1, <2>2, <2>3, Upward
  <2>5. Cardinality(m[N]) > N
    BY <1>1, <2>4
  <2>6. m[N] \subseteq Devices
    BY <1>1, <1>2
  <2>7. Cardinality(m[N]) <= N /\ Cardinality(m[N]) \in Nat
    BY <1>1, <2>6, FS_Subset, FS_CardinalityType DEF N
  <2> QED
    BY <1>1, <2>5, <2>7
<1>5. m[N] \subseteq Devices
  BY <1>1, <1>2
<1> QED
  BY <1>2, <1>3, <1>4, <1>5

(* A device is fed by another one when the other one is upstream of it.    *)
LEMMA FedFromUpstream ==
  ASSUME Tables, NEW d \in Devices, NEW x \in Devices
  PROVE  x \in FeedBy(d) <=> d \in Upstream(x)
<1>1. d \in FeedBy(d) /\ FeedBy(d) \subseteq Devices /\ Fed(FeedBy(d)) = FeedBy(d)
  BY FeedByIsClosed
<1>2. ASSUME x \in FeedBy(d)
      PROVE  d \in Upstream(x)
  <2> DEFINE N == Cardinality(Devices)
  <2>1. N \in Nat
    <3>1. IsFiniteSet(Devices)
      BY ChainAssumption, FS_Subset
    <3> QED
      BY <3>1, FS_CardinalityType
  <2>2. PICK m : /\ FeedBy(d) = m[N] /\ m[0] = {d}
                 /\ \A n \in 0 .. N : m[n] \subseteq Devices
                 /\ \A n \in 0 .. N : n + 1 \in 0 .. N => m[n + 1] = Fed(m[n])
    BY FeedByTurns
  <2> HIDE DEF N
  <2> DEFINE T == {n \in 0 .. N : \A y \in m[n] : d \in Upstream(y)}
  <2>3. 0 \in T
    BY <2>1, <2>2, ClosedUpstream
  <2>4. ASSUME NEW n \in 0 .. N, n + 1 \in 0 .. N, n \in T
        PROVE  n + 1 \in T
    <3>1. ASSUME NEW y \in m[n + 1], y \notin m[n]
          PROVE  d \in Upstream(y)
      <4>1. PICK l \in links : l.src \in m[n] /\ l.dst = y
        BY <2>2, <2>4, <3>1 DEF Fed
      <4>2. y \in Devices /\ l.src \in Devices /\ d \in Upstream(l.src)
        BY <2>2, <2>4, <3>1, <4>1
      <4>3. /\ y \in Upstream(y) /\ Upstream(y) \subseteq Devices
            /\ \A k \in links : k.dst \in Upstream(y) => k.src \in Upstream(y)
        BY <4>2, ClosedUpstream
      <4>4. l.src \in Upstream(y)
        BY <4>1, <4>3
      <4>5. Upstream(l.src) \subseteq Upstream(y)
        BY <4>3, <4>4, LeastUpstream
      <4> QED
        BY <4>2, <4>5
    <3> QED
      BY <2>4, <3>1
  <2>5. 0 .. N \subseteq T
    <3> HIDE DEF T
    <3> QED
      BY <2>1, <2>3, <2>4, Upward
  <2> QED
    BY <1>2, <2>1, <2>2, <2>5
<1>3. ASSUME x \notin FeedBy(d), d \in Upstream(x)
      PROVE  FALSE
  <2> DEFINE S == Devices \ FeedBy(d)
  <2>1. S \subseteq Devices /\ x \in S
    BY <1>3
  <2>2. \A l \in links : l.dst \in S => l.src \in S
    <3>1. \A l \in links : l.src \in FeedBy(d) => l.dst \in Fed(FeedBy(d))
      BY DEF Fed
    <3> QED
      BY <1>1, <3>1, ChainAssumption DEF Tables
  <2>3. Upstream(x) \subseteq S
    <3> HIDE DEF S
    <3> QED
      BY <2>1, <2>2, LeastUpstream
  <2> QED
    BY <1>1, <1>3, <2>3
<1> QED
  BY <1>2, <1>3

-----------------------------------------------------------------------------
(* What is below the asset of a request, down to the last level.           *)
IsBelow(x) == \E k \in 0 .. Levels - 1 : Above(x)[k] = request.asset
Listed ==
  /\ request.asset \in elements
  /\ DOMAIN below = {x \in elements : IsBelow(x)} /\ \A x \in DOMAIN below : below[x] = parent[x]

LEMMA AboveParent ==
  ASSUME Rooted, Tables, NEW x \in elements, NEW n \in Nat
  PROVE  /\ parent[x] = Above(x)[1] /\ Above(parent[x])[n] = Above(x)[n + 1]
<1>1. x \in Assets /\ x # 0 /\ Parented
  BY ChainAssumption DEF Tables, Rooted
<1>2. Above(x)[0] = x /\ Above(x)[0 + 1] = IF Above(x)[0] = 0 THEN 0 ELSE parent[Above(x)[0]]
  BY <1>1, AboveClimbs
<1>3. parent[x] = Above(x)[1]
  BY <1>1, <1>2
<1>4. Above(Above(x)[1])[n] = Above(x)[1 + n]
  BY <1>1, AboveAbove
<1> QED
  BY <1>3, <1>4

LEMMA SelectsLevels ==
  ASSUME Rooted, Tables, SelectBelow, at' = "groups"
  PROVE  /\ request.asset \in elements /\ below' = [x \in {y \in elements : IsBelow(y)} |-> parent[x]]
         /\ UNCHANGED <<chain, fed, toRead, found>>
<1> DEFINE N == Levels - 1
           q == request.asset
           f == [S \in SUBSET elements |-> {x \in elements : parent[x] \in S}]
           Is(u) == u = [n \in 0 .. N |-> IF n = 0 THEN {q} ELSE {x \in elements : parent[x] \in u[n - 1]}]
           c == CHOOSE u : Is(u)
<1>1. N \in Nat
  BY LocationAssumption
<1>2. /\ q \in elements /\ UNCHANGED <<chain, fed, toRead, found>>
      /\ below' = [x \in UNION {c[n] : n \in DOMAIN c} |-> parent[x]]
  BY DEF SelectBelow, Reject, Die
<1> HIDE DEF N, q
<1>3. PICK m : Runs(f, {q}, m, N)
  BY <1>1, RunsExist
<1>5. \A S \in SUBSET elements : f[S] = {x \in elements : parent[x] \in S}
  OBVIOUS
<1> HIDE DEF f
<1>4. m[0] = {q} /\ \A n \in 0 .. N : n # 0 => m[n] = f[m[n - 1]]
  <2> HIDE DEF Is, c
  <2>1. m[0] = {q} /\ 0 \in 0 .. N
    BY <1>1, <1>3 DEF Runs
  <2>2. ASSUME NEW n \in 0 .. N, n # 0
        PROVE  m[n] = f[m[n - 1]]
    BY <1>3, <2>2 DEF Runs
  <2> QED
    BY <2>1, <2>2
<1>6. 0 .. N \subseteq {n \in 0 .. N : m[n] \in SUBSET elements}
  <2> DEFINE T == {n \in 0 .. N : m[n] \in SUBSET elements}
  <2>1. 0 \in T
    BY <1>1, <1>2, <1>4
  <2>2. ASSUME NEW n \in 0 .. N, n + 1 \in 0 .. N, n \in T
        PROVE  n + 1 \in T
    <3>1. n + 1 # 0 /\ (n + 1) - 1 = n
      BY <1>1
    <3>2. m[n + 1] = f[m[n]]
      BY <1>4, <2>2, <3>1
    <3> QED
      BY <1>5, <2>2, <3>2
  <2>3. 0 .. N \subseteq T
    <3> HIDE DEF T
    <3> QED
      BY <1>1, <2>1, <2>2, Upward
  <2> QED
    BY <2>3
<1>7. Is(m)
  <2>1. ASSUME NEW n \in 0 .. N, n # 0
        PROVE  m[n] = {x \in elements : parent[x] \in m[n - 1]}
    <3>1. n - 1 \in 0 .. N
      BY <1>1, <2>1
    <3> QED
      BY <1>4, <1>5, <1>6, <2>1, <3>1
  <2>2. m = [n \in 0 .. N |-> m[n]]
    BY <1>3 DEF Runs
  <2>3. ASSUME NEW n \in 0 .. N
        PROVE  m[n] = IF n = 0 THEN {q} ELSE {x \in elements : parent[x] \in m[n - 1]}
    BY <1>4, <2>1, <2>3
  <2> QED
    BY <2>2, <2>3, Zenon
<1>8. Is(c)
  <2> HIDE DEF Is
  <2> QED
    BY <1>7, Zenon
<1> HIDE DEF c
<1>9. DOMAIN c = 0 .. N /\ c[0] = {q}
  BY <1>1, <1>8
<1>10. ASSUME NEW n \in 0 .. N, n + 1 \in 0 .. N
       PROVE  c[n + 1] = {x \in elements : parent[x] \in c[n]}
  <2>1. n + 1 # 0 /\ (n + 1) - 1 = n
    BY <1>1
  <2> QED
    BY <1>8, <1>10, <2>1
<1> HIDE DEF Is
<1> DEFINE T == {n \in 0 .. N : c[n] = {x \in elements : Above(x)[n] = q}}
<1>11. 0 \in T
  <2>1. \A x \in elements : Above(x)[0] = x
    BY AboveClimbs DEF Rooted, Tables
  <2>2. c[0] = {x \in elements : Above(x)[0] = q}
    BY <1>2, <1>9, <2>1 DEF q
  <2> QED
    BY <1>1, <2>2
<1>12. ASSUME NEW n \in 0 .. N, n + 1 \in 0 .. N, n \in T
       PROVE  n + 1 \in T
  <2>1. ASSUME NEW x \in elements
        PROVE  parent[x] \in c[n] <=> Above(x)[n + 1] = q
    <3>1. n \in Nat /\ c[n] = {y \in elements : Above(y)[n] = q}
      BY <1>12
    <3>2. Above(parent[x])[n] = Above(x)[n + 1] /\ parent[x] \in elements \cup {0}
      BY <2>1, <3>1, AboveParent DEF Rooted
    <3>3. Above(0)[n] = 0
      <4>1. Parented /\ 0 \in Assets \cup {0}
        BY DEF Rooted
      <4>2. Above(0)[0] = 0
        BY <4>1, AboveClimbs
      <4> QED
        BY <3>1, <4>1, <4>2, AboveNothing, ChainAssumption
    <3>4. q # 0
      BY <1>2, ChainAssumption DEF Tables, q
    <3> QED
      BY <3>1, <3>2, <3>3, <3>4
  <2>2. c[n + 1] = {x \in elements : Above(x)[n + 1] = q}
    BY <1>10, <1>12, <2>1
  <2> QED
    BY <1>12, <2>2
<1>13. 0 .. N \subseteq T
  <2> HIDE DEF T
  <2> QED
    BY <1>1, <1>11, <1>12, Upward
<1>14. UNION {c[n] : n \in DOMAIN c} = {y \in elements : IsBelow(y)}
  <2>1. \A n \in 0 .. N : c[n] = {x \in elements : Above(x)[n] = q}
    BY <1>13
  <2> QED
    BY <1>9, <2>1 DEF IsBelow, N, q
<1> QED
  BY <1>2, <1>14 DEF q

-----------------------------------------------------------------------------
(* What is wanted of an asset is what is to be shown.                      *)
FedRight == options \in Options /\ fed = IF options.feed = 0 THEN {} ELSE FeedBy(options.feed)

LEMMA WantedIsShown ==
  ASSUME Tables, FedRight, NEW x \in elements
  PROVE  Wanted(x) <=> Shown(x)
<1>1. /\ x \in Assets /\ Type[x] \in 1 .. 6 /\ (Type[x] = 6 <=> x \in Devices)
      /\ options.filter \in {0, 1, 3, 4, 5, 6} /\ options.feed \in Devices \cup {0}
  BY LocationAssumption DEF Tables, FedRight
<1>2. (Type[x] = 6 /\ fed # {} => x \in fed)
        <=> (x \in Devices /\ options.feed # 0 => options.feed \in Upstream(x))
  <2>1. CASE options.feed = 0
    BY <2>1 DEF FedRight
  <2>2. CASE options.feed # 0
    <3>1. fed = FeedBy(options.feed) /\ options.feed \in Devices
      BY <1>1, <2>2 DEF FedRight
    <3>2. options.feed \in fed
      BY <3>1, FeedByIsClosed
    <3>3. x \in Devices => (x \in fed <=> options.feed \in Upstream(x))
      BY <3>1, FedFromUpstream
    <3> QED
      BY <1>1, <2>2, <3>2, <3>3
  <2> QED
    BY <2>1, <2>2
<1>3. (CASE options.filter = 0 -> TRUE
         [] options.filter = 1 -> Type[x] = 1
         [] OTHER -> Type[x] <= options.filter /\ Type[x] # 1)
        <=> Type[x] \in Types(options.filter)
  <2>1. CASE options.filter = 0
    BY <1>1, <2>1 DEF Types
  <2>2. CASE options.filter = 1
    BY <1>1, <2>2 DEF Types
  <2>3. CASE options.filter \in {3, 4, 5, 6}
    <3>1. Types(options.filter) = 2 .. options.filter
      BY <2>3 DEF Types
    <3> QED
      BY <1>1, <2>3, <3>1
  <2> QED
    BY <1>1, <2>1, <2>2, <2>3
<1> QED
  BY <1>2, <1>3 DEF Wanted, Shown

-----------------------------------------------------------------------------
(* The tree that is written, level after level.                            *)
Grown(lv, n) ==
  /\ n \in Nat /\ lv[0] = {request.asset}
  /\ \A i \in 0 .. n : lv[i + 1] = {x \in DOMAIN below : below[x] \in lv[i] /\ Wanted(x)}

LEMMA ReachedGrows ==
  ASSUME Tables, Listed
  PROVE  \E lv, n : /\ Grown(lv, n)
                    /\ Reached = [assets |-> UNION {lv[i] : i \in 1 .. n}, endless |-> lv[n + 1] # {}]
<1> DEFINE n == Cardinality(DOMAIN below)
           M == n + 1
           f == [S \in SUBSET elements |-> {x \in DOMAIN below : below[x] \in S /\ Wanted(x)}]
           Is(u) == u = [i \in 0 .. M |-> IF i = 0 THEN {request.asset}
                                          ELSE {x \in DOMAIN below : below[x] \in u[i - 1] /\ Wanted(x)}]
           c == CHOOSE u : Is(u)
<1>1. n \in Nat /\ M \in Nat
  <2>1. DOMAIN below \subseteq Assets
    BY DEF Listed, Tables
  <2>2. IsFiniteSet(DOMAIN below)
    BY <2>1, ChainAssumption, FS_Subset
  <2> QED
    BY <2>2, FS_CardinalityType
<1>2. Reached = [assets |-> UNION {c[i] : i \in 1 .. n}, endless |-> c[n + 1] # {}]
  BY DEF Reached
<1>3. DOMAIN below \subseteq elements /\ request.asset \in elements
  BY DEF Listed
<1> HIDE DEF M
<1>4. PICK m : Runs(f, {request.asset}, m, M)
  BY <1>1, RunsExist
<1>5. \A S \in SUBSET elements : f[S] = {x \in DOMAIN below : below[x] \in S /\ Wanted(x)}
  OBVIOUS
<1> HIDE DEF f
<1>6. m[0] = {request.asset} /\ \A i \in 0 .. M : i # 0 => m[i] = f[m[i - 1]]
  <2> HIDE DEF Is, c
  <2>1. m[0] = {request.asset} /\ 0 \in 0 .. M
    BY <1>1, <1>4 DEF Runs
  <2>2. ASSUME NEW i \in 0 .. M, i # 0
        PROVE  m[i] = f[m[i - 1]]
    BY <1>4, <2>2 DEF Runs
  <2> QED
    BY <2>1, <2>2
<1>7. 0 .. M \subseteq {i \in 0 .. M : m[i] \in SUBSET elements}
  <2> DEFINE T == {i \in 0 .. M : m[i] \in SUBSET elements}
  <2>1. 0 \in T
    BY <1>1, <1>3, <1>6
  <2>2. ASSUME NEW i \in 0 .. M, i + 1 \in 0 .. M, i \in T
        PROVE  i + 1 \in T
    <3>1. i + 1 # 0 /\ (i + 1) - 1 = i
      BY <1>1
    <3>2. m[i + 1] = f[m[i]]
      BY <1>6, <2>2, <3>1
    <3> QED
      BY <1>3, <1>5, <2>2, <3>2
  <2>3. 0 .. M \subseteq T
    <3> HIDE DEF T
    <3> QED
      BY <1>1, <2>1, <2>2, Upward
  <2> QED
    BY <2>3
<1>8. Is(m)
  <2>1. ASSUME NEW i \in 0 .. M, i # 0
        PROVE  m[i] = {x \in DOMAIN below : below[x] \in m[i - 1] /\ Wanted(x)}
    <3>1. i - 1 \in 0 .. M
      BY <1>1, <2>1
    <3> QED
      BY <1>5, <1>6, <1>7, <2>1, <3>1
  <2>2. m = [i \in 0 .. M |-> m[i]]
    BY <1>4 DEF Runs
  <2>3. ASSUME NEW i \in 0 .. M
        PROVE  m[i] = IF i = 0 THEN {request.asset}
                      ELSE {x \in DOMAIN below : below[x] \in m[i - 1] /\ Wanted(x)}
    BY <1>6, <2>1, <2>3
  <2> QED
    BY <2>2, <2>3, Zenon
<1>9. Is(c)
  <2> HIDE DEF Is
  <2> QED
    BY <1>8, Zenon
<1> HIDE DEF c
<1>10. c[0] = {request.asset}
  BY <1>1, <1>9
<1>11. ASSUME NEW i \in 0 .. n
       PROVE  c[i + 1] = {x \in DOMAIN below : below[x] \in c[i] /\ Wanted(x)}
  <2>1. i + 1 \in 0 .. M /\ i + 1 # 0 /\ (i + 1) - 1 = i
    BY <1>1, <1>11 DEF M
  <2> QED
    BY <1>9, <2>1
<1>12. Grown(c, n)
  BY <1>1, <1>10, <1>11 DEF Grown
<1> QED
  BY <1>2, <1>12

(* Everything between an asset on a level and the asset of the request is  *)
(* wanted, and on the levels in between.                                   *)
LEMMA GrownFrom ==
  ASSUME Rooted, Tables, Listed, NEW lv, NEW n, Grown(lv, n), NEW i \in 0 .. n + 1, NEW x \in lv[i]
  PROVE  /\ x \in elements /\ Above(x)[i] = request.asset
         /\ \A j \in 0 .. i : j < i => Above(x)[j] \in DOMAIN below /\ Wanted(Above(x)[j])
<1> DEFINE T == {j \in 0 .. i : /\ Above(x)[j] \in lv[i - j]
                                /\ \A k \in 0 .. i : k < j => Above(x)[k] \in DOMAIN below /\ Wanted(Above(x)[k])}
<1>1. n \in Nat /\ i \in Nat /\ lv[0] = {request.asset} /\ DOMAIN below \subseteq elements
  BY DEF Grown, Listed
<1>2. \A k \in 0 .. n + 1 : k # 0 => lv[k] = {y \in DOMAIN below : below[y] \in lv[k - 1] /\ Wanted(y)}
  <2> SUFFICES ASSUME NEW k \in 0 .. n + 1, k # 0
               PROVE  lv[k] = {y \in DOMAIN below : below[y] \in lv[k - 1] /\ Wanted(y)}
    OBVIOUS
  <2>1. k - 1 \in 0 .. n /\ (k - 1) + 1 = k
    BY <1>1
  <2>2. lv[(k - 1) + 1] = {y \in DOMAIN below : below[y] \in lv[k - 1] /\ Wanted(y)}
    BY <2>1 DEF Grown
  <2> QED
    BY <2>1, <2>2
<1>3. x \in elements
  <2>1. CASE i = 0
    BY <1>1, <2>1 DEF Listed
  <2>2. CASE i # 0
    BY <1>1, <1>2, <2>2
  <2> QED
    BY <2>1, <2>2
<1>4. x \in Assets /\ Parented /\ Above(x)[0] = x
  BY <1>3, AboveClimbs DEF Rooted, Tables
<1>5. 0 \in T
  BY <1>1, <1>4
<1>6. ASSUME NEW j \in 0 .. i, j + 1 \in 0 .. i, j \in T
      PROVE  j + 1 \in T
  <2>1. j \in Nat /\ i - j \in 0 .. n + 1 /\ i - j # 0 /\ (i - j) - 1 = i - (j + 1)
    BY <1>1, <1>6
  <2>2. PICK y : y = Above(x)[j]
    OBVIOUS
  <2>3. y \in DOMAIN below /\ below[y] \in lv[i - (j + 1)] /\ Wanted(y)
    BY <1>2, <1>6, <2>1, <2>2
  <2>4. below[y] = Above(x)[j + 1]
    <3>1. y \in elements /\ y \in Assets /\ y # 0 /\ below[y] = parent[y]
      BY <1>1, <2>3, ChainAssumption DEF Listed, Tables
    <3> QED
      BY <1>4, <2>1, <2>2, <3>1, AboveClimbs
  <2>5. \A k \in 0 .. i : k < j + 1 => k < j \/ k = j
    BY <1>1, <1>6
  <2> QED
    BY <1>6, <2>2, <2>3, <2>4, <2>5
<1>7. i \in T
  <2>1. 0 .. i \subseteq T
    <3> HIDE DEF T
    <3> QED
      BY <1>1, <1>5, <1>6, Upward
  <2> QED
    BY <1>1, <2>1
<1>8. i - i = 0
  BY <1>1
<1> QED
  BY <1>1, <1>3, <1>7, <1>8

(* An asset that is on a level deeper than the last one is below a circle, *)
(* and then no level is empty.                                             *)
LEMMA GrownDeep ==
  ASSUME Rooted, Tables, Listed, NEW lv, NEW n, Grown(lv, n), NEW i \in 1 .. n, NEW x \in lv[i],
         i > Levels - 1
  PROVE  lv[n + 1] # {}
<1>1. n \in Nat /\ lv[0] = {request.asset} /\ DOMAIN below \subseteq elements /\ Levels - 1 \in Nat
  BY LocationAssumption DEF Grown, Listed
<1>2. /\ x \in elements /\ Above(x)[i] = request.asset
      /\ \A j \in 0 .. i : j < i => Above(x)[j] \in DOMAIN below /\ Wanted(Above(x)[j])
  <2>1. i \in 0 .. n + 1
    BY <1>1
  <2> QED
    BY <2>1, GrownFrom
<1>3. x \in Assets /\ Parented /\ Above(x)[0] = x
  BY <1>2, AboveClimbs DEF Rooted, Tables
<1>4. PICK k \in 0 .. Levels - 1 : Above(x)[k] = request.asset
  <2>1. x \in DOMAIN below
    BY <1>1, <1>2, <1>3
  <2> QED
    BY <2>1 DEF Listed, IsBelow
<1>5. k \in Nat /\ i \in Nat /\ k < i
  BY <1>1, <1>4
<1> DEFINE C == {Above(x)[j] : j \in k + 1 .. i}
           T == {m \in 0 .. n + 1 : \E y \in C : y \in lv[m]}
<1>6. 0 \in T
  <2>1. i \in k + 1 .. i /\ 0 \in 0 .. n + 1
    BY <1>1, <1>5
  <2>2. Above(x)[i] \in C
    BY <2>1
  <2>3. Above(x)[i] \in lv[0]
    BY <1>1, <1>2
  <2> HIDE DEF C
  <2> QED
    BY <2>1, <2>2, <2>3
<1>7. ASSUME NEW m \in 0 .. n + 1, m + 1 \in 0 .. n + 1, m \in T
      PROVE  m + 1 \in T
  <2>1. PICK j \in k + 1 .. i : Above(x)[j] \in lv[m]
    BY <1>7
  <2>2. /\ j - 1 \in Nat /\ j - 1 \in 0 .. i /\ j - 1 < i /\ (j - 1) + 1 = j
        /\ j - 1 = k \/ j - 1 \in k + 1 .. i
    BY <1>5
  <2>3. PICK z : z = Above(x)[j - 1]
    OBVIOUS
  <2>4. z \in DOMAIN below /\ Wanted(z)
    BY <1>2, <2>2, <2>3
  <2>5. z \in C
    <3>1. CASE j - 1 = k
      <4>1. z = Above(x)[i] /\ i \in k + 1 .. i
        BY <1>2, <1>4, <1>5, <2>3, <3>1
      <4> QED
        BY <4>1
    <3>2. CASE j - 1 \in k + 1 .. i
      BY <2>3, <3>2
    <3> QED
      BY <2>2, <3>1, <3>2
  <2>6. below[z] = Above(x)[j]
    <3>1. z \in Assets /\ z # 0 /\ below[z] = parent[z]
      BY <1>1, <2>4, ChainAssumption DEF Listed, Tables
    <3>2. Above(x)[(j - 1) + 1] = parent[z]
      BY <1>3, <2>2, <2>3, <3>1, AboveClimbs
    <3> QED
      BY <2>2, <3>1, <3>2
  <2>7. z \in lv[m + 1]
    <3>1. m \in 0 .. n
      BY <1>1, <1>7
    <3> QED
      BY <2>1, <2>4, <2>6, <3>1 DEF Grown
  <2> HIDE DEF C
  <2> QED
    BY <1>7, <2>5, <2>7
<1>8. n + 1 \in T
  <2>1. 0 .. n + 1 \subseteq T
    <3> HIDE DEF T
    <3>1. n + 1 \in Nat
      BY <1>1
    <3> QED
      BY <1>6, <1>7, <3>1, Upward
  <2> QED
    BY <1>1, <2>1
<1> QED
  BY <1>8

(* What is wanted, with all between it and the asset, is on its level.     *)
LEMMA GrownTo ==
  ASSUME Rooted, Tables, Listed, NEW lv, NEW n, Grown(lv, n), lv[n + 1] = {},
         NEW x \in elements, NEW m \in 1 .. Levels - 1, Above(x)[m] = request.asset,
         \A j \in 0 .. m - 1 : Above(x)[j] \in elements => Wanted(Above(x)[j])
  PROVE  m \in 1 .. n /\ x \in lv[m]
<1>1. /\ n \in Nat /\ m \in Nat /\ lv[0] = {request.asset} /\ request.asset \in elements
      /\ Levels - 1 \in Nat
  BY LocationAssumption DEF Grown, Listed
<1>2. x \in Assets /\ Parented /\ Above(x)[0] = x /\ request.asset # 0
  BY <1>1, AboveClimbs, ChainAssumption DEF Rooted, Tables
<1>3. ASSUME NEW j \in 0 .. m - 1
      PROVE  Above(x)[j] \in DOMAIN below /\ Wanted(Above(x)[j]) /\ below[Above(x)[j]] = Above(x)[j + 1]
  <2>1. j \in Nat /\ j <= m /\ m - j \in 0 .. Levels - 1 /\ j + (m - j) = m /\ m - j \in Nat
    BY <1>1
  <2>2. Above(x)[j] \in Assets
    BY <1>1, <1>2, <2>1, AboveNothing
  <2>3. Above(x)[j] # 0
    BY <2>2, ChainAssumption
  <2>4. Above(x)[j] \in elements
    <3>1. Above(x)[j] \in elements \cup {0}
      <4>1. j \in 0 .. j
        BY <2>1
      <4> QED
        BY <2>1, <4>1, AboveThere
    <3> QED
      BY <2>3, <3>1
  <2>5. Above(Above(x)[j])[m - j] = request.asset
    BY <1>2, <2>1, AboveAbove
  <2>6. Above(x)[j] \in DOMAIN below
    BY <2>1, <2>4, <2>5 DEF Listed, IsBelow
  <2>7. Above(x)[j + 1] = parent[Above(x)[j]]
    BY <1>2, <2>1, <2>3, AboveClimbs
  <2> QED
    BY <1>3, <2>4, <2>6, <2>7 DEF Listed
<1> DEFINE T == {i \in 0 .. n + 1 : i <= m => Above(x)[m - i] \in lv[i]}
<1>4. 0 \in T
  BY <1>1
<1>5. ASSUME NEW i \in 0 .. n + 1, i + 1 \in 0 .. n + 1, i \in T, i + 1 <= m
      PROVE  Above(x)[m - (i + 1)] \in lv[i + 1]
  <2>1. /\ i \in 0 .. n /\ i <= m /\ m - (i + 1) \in 0 .. m - 1
        /\ (m - (i + 1)) + 1 = m - i
    BY <1>1, <1>5
  <2>2. PICK z : z = Above(x)[m - (i + 1)]
    OBVIOUS
  <2>3. z \in DOMAIN below /\ Wanted(z) /\ below[z] = Above(x)[m - i]
    BY <1>3, <2>1, <2>2
  <2>4. below[z] \in lv[i]
    BY <1>5, <2>1, <2>3
  <2> QED
    BY <2>1, <2>2, <2>3, <2>4 DEF Grown
<1>6. 0 .. n + 1 \subseteq T
  <2>1. \A i \in 0 .. n + 1 : i + 1 \in 0 .. n + 1 /\ i \in T => i + 1 \in T
    BY <1>5
  <2> HIDE DEF T
  <2>2. n + 1 \in Nat
    BY <1>1
  <2> QED
    BY <1>4, <2>1, <2>2, Upward
<1>7. m <= n
  <2>1. n + 1 \in T
    BY <1>1, <1>6
  <2>2. ~(n + 1 <= m)
    BY <2>1
  <2> QED
    BY <1>1, <2>2
<1>8. m \in T /\ m - m = 0
  BY <1>1, <1>6, <1>7
<1> QED
  BY <1>1, <1>2, <1>7, <1>8

-----------------------------------------------------------------------------
(* What the statements of a request about locations leave for the next.    *)
Asked == {t \in {1, 3, 4, 5, 6} : t <= options.filter \/ options.filter = 0}
OnTop(T) == {y \in elements : parent[y] = 0 /\ Type[y] \in T /\ options.filter \in {0, Type[y]}}

Untouched == at \in {"idle", "options"} => fed = {} /\ found = {}
Climbing == at \in {"parents", "containers"} =>
  /\ chain \in Seq(Assets) /\ chain # <<>> /\ request.asset \in Assets
  /\ calm => /\ \A i \in DOMAIN chain : chain[i] = Above(request.asset)[i - 1]
             /\ at = "containers" => Above(request.asset)[Len(chain)] = 0
Chosen ==
  /\ at \in {"options", "feeds", "below", "groups", "contents", "roots"} => options \in Options
  /\ at \in {"feeds", "below", "groups", "contents"} => request.asset # 0
  /\ at = "feeds" => options.feed # 0
  /\ calm /\ at \in {"below", "groups", "contents"} => FedRight
  /\ calm /\ at \in {"groups", "contents"} => Listed
Topmost == at = "roots" =>
  /\ request.asset = 0 /\ toRead \subseteq Asked
  /\ calm => found = {<<0, x>> : x \in OnTop(Asked \ toRead)}

LInv == Rooted /\ Untouched /\ Climbing /\ Chosen /\ Topmost

LEMMA SameAbove ==
  ASSUME UNCHANGED database
  PROVE  /\ Rooted' <=> Rooted
         /\ \A x : Above(x)' = Above(x) /\ FeedBy(x)' = FeedBy(x)
  BY DEF database, Rooted, Parented, Above, FeedBy

LEMMA RootedStep ==
  ASSUME TInv, Rooted, [TopologyNext]_topologyVars
  PROVE  Rooted'
<1>1. CASE ChangeTables
  <2>1. CASE UNCHANGED <<elements, parent>>
    BY <2>1 DEF Rooted, Parented
  <2>2. ASSUME NEW m \in Moves, {m[1], m[2]} \subseteq elements,
               parent' = [parent EXCEPT ![m[1]] = m[2]], UNCHANGED elements
        PROVE  Rooted'
    <3>1. m[1] \in Assets /\ m[2] \in Assets
      BY <2>2 DEF TInv, Tables
    <3> QED
      BY <2>2, <3>1 DEF Rooted, Parented
  <2>3. ASSUME NEW a \in elements, \A b \in elements : parent[b] # a, elements' = elements \ {a},
               UNCHANGED parent
        PROVE  Rooted'
    BY <2>3 DEF Rooted, Parented
  <2> QED
    BY <1>1, <2>1, <2>2, <2>3 DEF ChangeTables, Change
<1>2. CASE ~ChangeTables
  <2>1. UNCHANGED database
    BY <1>2, AnsweringKeeps, LocateKeeps DEF TInv, TopologyNext, AskPower, Ask, AskLocation,
       AnsweringPower, SendAnswer, Send, topologyVars, vars
  <2> QED
    BY <2>1, SameAbove
<1> QED
  BY <1>1, <1>2

LEMMA LInvStarts == TopologyInit => LInv
<1>1. SUFFICES ASSUME TopologyInit PROVE LInv
  OBVIOUS
<1>2. Rooted
  BY <1>1, ChainAssumption DEF TopologyInit, Init, Rooted, Parented
<1> QED
  BY <1>1, <1>2 DEF TopologyInit, Init, LInv, Untouched, Climbing, Chosen, Topmost

(* Steps of the others, and of the requests about power.                   *)
LEMMA OthersLocate ==
  ASSUME TInv, LInv, AskPower \/ AskLocation \/ AnsweringPower \/ SendAnswer \/ ChangeTables
  PROVE  LInv'
<1>1. Rooted'
  BY RootedStep DEF LInv, TopologyNext
<1>2. CASE AskPower
  <2>1. at' = "resolve"
    BY <1>2 DEF AskPower, Ask
  <2> QED
    BY <1>1, <2>1 DEF LInv, Untouched, Climbing, Chosen, Topmost
<1>3. CASE AskLocation
  <2>1. at = "idle" /\ at' \in {"type", "options"} /\ UNCHANGED <<fed, found>>
    BY <1>3 DEF AskLocation
  <2>2. at' = "options" => options' \in Options
    <3>1. \A c, a, r : r = [command |-> c, asset |-> a] => r.command = c
      OBVIOUS
    <3>2. \/ request'.command = "location to"
          \/ options' \in Options
      <4>1. \/ \E a \in Assets : request' = [command |-> "location to", asset |-> a]
            \/ options' \in Options
        BY <1>3, Zenon DEF AskLocation
      <4> QED
        BY <3>1, <4>1, Zenon
    <3>3. at' = IF request'.command = "location to" THEN "type" ELSE "options"
      BY <1>3 DEF AskLocation
    <3> QED
      BY <3>2, <3>3
  <2> QED
    BY <1>1, <2>1, <2>2 DEF LInv, Untouched, Climbing, Chosen, Topmost
<1>4. CASE AnsweringPower
  <2>1. /\ at' \notin {"idle", "options", "type", "parents", "containers", "feeds", "below",
                        "groups", "contents", "roots"}
    <3>1. CASE Resolve
      <4>1. request.command \in Powers
        BY <3>1 DEF Resolve, TInv, Placed
      <4> QED
        BY <3>1, <4>1 DEF Resolve, Powers, Refuse, Goto
    <3>2. CASE ~Resolve
      BY <1>4, <3>2 DEF AnsweringPower, Answering, AddDeviceInfo, From, Walk, GroupLinks, GroupDevices,
         DatacenterDevices, DatacenterLinks, ChooseInputGroup, InputLinks, InputDevices,
         ChildDevices, ChildLinks, Name, Fill, ReadNames, ReadEnds, Refuse, Goto, Serialise, Respond
    <3> QED
      BY <3>1, <3>2
  <2> QED
    BY <1>1, <2>1 DEF LInv, Untouched, Climbing, Chosen, Topmost
<1>5. CASE SendAnswer
  <2>1. at' = "idle" /\ fed' = {} /\ found' = {}
    BY <1>5 DEF SendAnswer, Send, LocationFresh
  <2> QED
    BY <1>1, <2>1 DEF LInv, Untouched, Climbing, Chosen, Topmost
<1>6. CASE ChangeTables
  <2>1. UNCHANGED <<at, request, options, chain, fed, below, toRead, found>> /\ calm' = FALSE
    BY <1>6 DEF ChangeTables, Change
  <2> QED
    BY <1>1, <2>1 DEF LInv, Untouched, Climbing, Chosen, Topmost, Asked
<1> QED
  BY <1>2, <1>3, <1>4, <1>5, <1>6

(* Up the parents.                                                         *)
LEMMA ClimbStep ==
  ASSUME TInv, LInv, at' # "done", ReadType \/ SelectParents \/ WriteContainers
  PROVE  LInv'
<1>1. UNCHANGED <<database, request, calm>> /\ Rooted'
  BY LocateKeeps, SameAbove DEF Locate, LInv
<1>2. at' \in {"parents", "containers"}
  BY DEF ReadType, SelectParents, WriteContainers, Reject, Die, Proceed
<1>3. Rooted /\ Parented /\ elements \subseteq Assets
  BY DEF LInv, Rooted, TInv, Tables
<1>4. SUFFICES Climbing'
  BY <1>1, <1>2 DEF LInv, Untouched, Chosen, Topmost
<1>5. CASE ReadType
  <2>1. request.asset \in elements /\ chain' = <<request.asset>> /\ at' = "parents"
    BY <1>5 DEF ReadType, Reject, Proceed
  <2>2. Above(request.asset)[1 - 1] = request.asset
    <3>1. Above(request.asset)[0] = request.asset
      BY <1>3, <2>1, AboveClimbs
    <3> QED
      BY <3>1
  <2>3. Above(request.asset)' = Above(request.asset)
    BY <1>1, SameAbove
  <2>4. request.asset \in Assets /\ DOMAIN <<request.asset>> = {1} /\ <<request.asset>>[1] = request.asset
    BY <1>3, <2>1
  <2>5. \A i \in DOMAIN chain' : chain'[i] = Above(request.asset)[i - 1]
    BY <2>1, <2>2, <2>4
  <2> QED
    BY <1>1, <2>1, <2>3, <2>4, <2>5 DEF Climbing
<1>6. CASE SelectParents
  <2>1. PICK a, n : a = chain[Len(chain)] /\ n = Len(chain)
    OBVIOUS
  <2>2. /\ chain \in Seq(Assets) /\ chain # <<>> /\ request.asset \in Assets
        /\ calm => \A i \in DOMAIN chain : chain[i] = Above(request.asset)[i - 1]
    BY <1>6 DEF SelectParents, LInv, Climbing
  <2>3. n \in Nat /\ n # 0 /\ DOMAIN chain = 1 .. n /\ n \in DOMAIN chain /\ a \in Assets
        /\ n - 1 \in Nat /\ (n - 1) + 1 = n
    BY <2>1, <2>2
  <2>4. calm => Above(request.asset)[n] = parent[a]
    <3>1. ASSUME calm
          PROVE  Above(request.asset)[n] = parent[a]
      <4>1. a = Above(request.asset)[n - 1] /\ a # 0
        BY <2>1, <2>2, <2>3, <3>1, ChainAssumption
      <4>2. Above(request.asset)[(n - 1) + 1] = parent[a]
        BY <1>3, <2>2, <2>3, <4>1, AboveClimbs
      <4> QED
        BY <2>3, <4>2
    <3> QED
      BY <3>1
  <2>5. Above(request.asset)' = Above(request.asset)
    BY <1>1, SameAbove
  <2>6. CASE at' = "parents"
    <3>1. parent[a] # 0 /\ chain' = Append(chain, parent[a])
      BY <1>6, <2>1, <2>6 DEF SelectParents, Reject, Die, Proceed
    <3>2. parent[a] \in Assets
      BY <1>3, <2>3, <3>1 DEF Parented
    <3>3. /\ chain' \in Seq(Assets) /\ chain' # <<>> /\ DOMAIN chain' = 1 .. n + 1
          /\ chain'[n + 1] = parent[a] /\ \A i \in 1 .. n : chain'[i] = chain[i]
      BY <2>1, <2>2, <2>3, <3>1, <3>2
    <3>4. ASSUME calm, NEW i \in DOMAIN chain'
          PROVE  chain'[i] = Above(request.asset)[i - 1]
      <4>1. CASE i = n + 1
        <5>1. i - 1 = n
          BY <2>3, <4>1
        <5> QED
          BY <2>4, <3>3, <3>4, <4>1, <5>1
      <4>2. CASE i # n + 1
        <5>1. i \in 1 .. n
          BY <2>3, <3>3, <3>4, <4>2
        <5> QED
          BY <2>2, <2>3, <3>3, <3>4, <5>1
      <4> QED
        BY <4>1, <4>2
    <3> QED
      BY <1>1, <2>2, <2>5, <2>6, <3>3, <3>4 DEF Climbing
  <2>7. CASE at' = "containers"
    <3>1. parent[a] = 0 /\ chain' = chain
      BY <1>6, <2>1, <2>7 DEF SelectParents, Reject, Die, Proceed
    <3> QED
      BY <1>1, <2>1, <2>2, <2>4, <2>5, <2>7, <3>1 DEF Climbing
  <2> QED
    BY <1>2, <2>6, <2>7
<1>7. CASE WriteContainers
  BY <1>7 DEF WriteContainers, Reject
<1> QED
  BY <1>5, <1>6, <1>7

(* Down from an asset, or from the top.                                    *)
LEMMA NextIsAsked ==
  ASSUME toRead \subseteq Asked, toRead # {}
  PROVE  NextType \in toRead
<1>1. CASE toRead = {1}
  BY <1>1 DEF NextType
<1>2. CASE toRead # {1}
  <2>1. toRead \subseteq {1, 3, 4, 5, 6}
    BY DEF Asked
  <2>2. toRead \ {1} \subseteq Nat /\ toRead \ {1} # {}
    BY <1>2, <2>1
  <2>3. IsFiniteSet(toRead \ {1})
    <3>1. 1 \in Int /\ 6 \in Int
      OBVIOUS
    <3>3. IsFiniteSet(1 .. 6)
      BY <3>1, FS_Interval, Zenon
    <3>2. toRead \ {1} \subseteq 1 .. 6
      BY <2>1
    <3> QED
      BY <3>2, <3>3, FS_Subset, Zenon
  <2>4. Min(toRead \ {1}) \in toRead \ {1}
    BY <2>2, <2>3, Smallest
  <2> QED
    BY <1>2, <2>4 DEF NextType
<1> QED
  BY <1>1, <1>2

LEMMA LookStep ==
  ASSUME TInv, LInv, at' # "done",
         CheckOptions \/ CheckNone \/ SelectFeeds \/ SelectBelow \/ SelectGroups \/ SelectContents
  PROVE  LInv'
<1>1. UNCHANGED <<database, request, calm, options>> /\ Rooted'
  <2>1. UNCHANGED options
    BY DEF CheckOptions, CheckNone, SelectFeeds, SelectBelow, SelectGroups, SelectContents, Reject,
       Die, Proceed, Locating
  <2> QED
    BY <2>1, LocateKeeps, SameAbove DEF Locate, LInv
<1>2. at' \in {"feeds", "below", "groups", "contents", "roots"} /\ options \in Options
  BY DEF CheckOptions, CheckNone, SelectFeeds, SelectBelow, SelectGroups, SelectContents, Reject,
     Die, Proceed, LInv, Chosen
<1>3. FedRight /\ UNCHANGED fed => FedRight'
  BY <1>1, SameAbove DEF FedRight
<1>4. Listed /\ UNCHANGED below => Listed'
  <2>1. UNCHANGED <<elements, parent>>
    BY <1>1 DEF database
  <2> QED
    BY <1>1, <2>1, SameAbove DEF Listed, IsBelow
<1>5. SUFFICES Chosen' /\ Topmost'
  BY <1>1, <1>2 DEF LInv, Untouched, Climbing
<1>6. CASE CheckOptions
  <2>1. /\ request.asset # 0 /\ at = "options" /\ UNCHANGED fed
        /\ at' = IF options.feed = 0 THEN "below" ELSE "feeds"
    BY <1>6 DEF CheckOptions, Reject, Die, Proceed
  <2>2. fed = {}
    BY <2>1 DEF LInv, Untouched
  <2>3. at' = "below" => FedRight'
    BY <1>1, <1>2, <2>1, <2>2 DEF FedRight
  <2> QED
    BY <1>1, <1>2, <2>1, <2>3 DEF Chosen, Topmost
<1>7. CASE CheckNone
  <2>1. request.asset = 0 /\ at = "options" /\ at' = "roots" /\ UNCHANGED found /\ toRead' = Asked
    BY <1>7 DEF CheckNone, Reject, Die, Proceed, Asked
  <2>2. found' = {} /\ Asked' \ toRead' = {} /\ toRead' = Asked'
    BY <1>1, <2>1 DEF LInv, Untouched, Asked
  <2>3. OnTop({})' = {}
    BY DEF OnTop
  <2> QED
    BY <1>1, <1>2, <2>1, <2>2, <2>3 DEF Chosen, Topmost
<1>8. CASE SelectFeeds
  <2>1. at = "feeds" /\ at' = "below" /\ fed' = FeedBy(options.feed)
    BY <1>8 DEF SelectFeeds, Die, Proceed
  <2>2. options.feed # 0 /\ request.asset # 0
    BY <2>1 DEF LInv, Chosen
  <2>3. FedRight'
    BY <1>1, <1>2, <2>1, <2>2, SameAbove DEF FedRight
  <2> QED
    BY <1>1, <1>2, <2>1, <2>2, <2>3 DEF Chosen, Topmost
<1>9. CASE SelectBelow
  <2>1. at = "below" /\ at' = "groups"
    BY <1>9 DEF SelectBelow, Reject, Die, Proceed
  <2>2. /\ request.asset \in elements /\ below' = [x \in {y \in elements : IsBelow(y)} |-> parent[x]]
        /\ UNCHANGED fed
    BY <1>9, <2>1, SelectsLevels DEF LInv, TInv
  <2>3. Listed'
    <3>1. UNCHANGED <<elements, parent>>
      BY <1>1 DEF database
    <3>2. \A y : IsBelow(y)' <=> IsBelow(y)
      BY <1>1, SameAbove DEF IsBelow
    <3>3. {y \in elements : IsBelow(y)}' = {y \in elements : IsBelow(y)}
      BY <3>1, <3>2
    <3> QED
      BY <1>1, <2>2, <3>1, <3>3 DEF Listed
  <2> QED
    BY <1>1, <1>2, <1>3, <2>1, <2>2, <2>3 DEF Chosen, Topmost, LInv
<1>10. CASE SelectGroups \/ SelectContents
  <2>1. at \in {"groups", "contents"} /\ at' = "contents" /\ UNCHANGED <<fed, below>>
    BY <1>10 DEF SelectGroups, SelectContents, Die, Proceed
  <2> QED
    BY <1>1, <1>2, <1>3, <1>4, <2>1 DEF Chosen, Topmost, LInv
<1> QED
  BY <1>6, <1>7, <1>8, <1>9, <1>10

LEMMA RootsStep ==
  ASSUME TInv, LInv, at' # "done", WriteTree \/ SelectRoots \/ WriteRoots
  PROVE  LInv'
<1>1. SelectRoots
  BY DEF WriteTree, WriteRoots, Reject, Die
<1>2. UNCHANGED <<database, request, calm, options>> /\ Rooted'
  <2>1. UNCHANGED options
    BY <1>1 DEF SelectRoots, Reject, Proceed, Locating
  <2> QED
    BY <1>1, <2>1, LocateKeeps, SameAbove DEF Locate, LInv
<1>3. PICK t : t = NextType
  OBVIOUS
<1>4. /\ at = "roots" /\ at' = "roots" /\ toRead # {} /\ toRead' = toRead \ {t}
      /\ found' = found \cup {<<0, x>> : x \in {y \in elements : /\ parent[y] = 0
                                                             /\ Type[y] = t
                                                             /\ options.filter \in {0, t}}}
  BY <1>1, <1>3 DEF SelectRoots, Reject, Proceed
<1>5. /\ options \in Options /\ request.asset = 0 /\ toRead \subseteq Asked
      /\ calm => found = {<<0, x>> : x \in OnTop(Asked \ toRead)}
  BY <1>4 DEF LInv, Chosen, Topmost
<1>6. t \in toRead
  BY <1>3, <1>4, <1>5, NextIsAsked
<1>7. Asked' = Asked /\ toRead' \subseteq Asked
  BY <1>2, <1>4, <1>5 DEF Asked
<1>8. \A S : OnTop(S)' = OnTop(S)
  BY <1>2 DEF OnTop, database
<1>9. calm => found' = {<<0, x>> : x \in OnTop(Asked \ toRead')}
  <2>1. OnTop(Asked \ toRead') = OnTop(Asked \ toRead) \cup OnTop({t})
    BY <1>4, <1>5, <1>6 DEF OnTop
  <2>2. OnTop({t}) = {y \in elements : parent[y] = 0 /\ Type[y] = t /\ options.filter \in {0, t}}
    BY DEF OnTop
  <2> QED
    BY <1>4, <1>5, <2>1, <2>2
<1>10. Topmost'
  BY <1>2, <1>5, <1>7, <1>8, <1>9 DEF Topmost
<1> QED
  BY <1>2, <1>4, <1>5, <1>10 DEF LInv, Untouched, Climbing, Chosen

LEMMA LInvStep ==
  ASSUME TInv, LInv, [TopologyNext]_topologyVars
  PROVE  LInv'
<1>1. CASE Locate
  <2>1. CASE at' = "done"
    <3>1. Rooted'
      BY RootedStep DEF LInv
    <3> QED
      BY <2>1, <3>1 DEF LInv, Untouched, Climbing, Chosen, Topmost
  <2>2. CASE at' # "done"
    BY <1>1, <2>2, ClimbStep, LookStep, RootsStep DEF Locate
  <2> QED
    BY <2>1, <2>2
<1>2. CASE UNCHANGED topologyVars
  <2>1. /\ UNCHANGED <<database, at, request, calm>> /\ UNCHANGED <<elements, parent>>
        /\ UNCHANGED <<options, chain, fed, below, toRead, found>>
    BY <1>2 DEF topologyVars, vars, database, locationVars
  <2>2. Rooted' /\ Untouched' /\ Climbing'
    BY <2>1, SameAbove DEF LInv, Untouched, Climbing
  <2>3. (FedRight => FedRight') /\ (Listed => Listed')
    <3>1. FedRight => FedRight'
      BY <2>1, SameAbove DEF FedRight
    <3>2. Listed => Listed'
      BY <2>1, SameAbove DEF Listed, IsBelow
    <3> QED
      BY <3>1, <3>2
  <2>4. Chosen'
    BY <2>1, <2>3 DEF LInv, Chosen
  <2>5. Topmost'
    BY <2>1 DEF LInv, Topmost, OnTop, Asked
  <2> QED
    BY <2>2, <2>4, <2>5 DEF LInv
<1> QED
  BY <1>1, <1>2, OthersLocate DEF TopologyNext

-----------------------------------------------------------------------------
(* What is written is what the reference definition says.                  *)
LEMMA TreeIsExact ==
  ASSUME TInv, LInv, at = "contents", calm, ~Reached.endless
  PROVE  Reached.assets =
           {x \in elements : \E n \in 1 .. (Levels - 1) : /\ Above(x)[n] = request.asset
                                                     /\ \A i \in 0 .. (n - 1) : Shown(Above(x)[i])}
<1>1. Rooted /\ Tables /\ Listed /\ FedRight
  BY DEF TInv, LInv, Chosen
<1>2. PICK lv, n : /\ Grown(lv, n)
                   /\ Reached = [assets |-> UNION {lv[i] : i \in 1 .. n}, endless |-> lv[n + 1] # {}]
  BY <1>1, ReachedGrows
<1>3. Reached.assets = UNION {lv[i] : i \in 1 .. n} /\ lv[n + 1] = {}
  BY <1>2
<1>4. n \in Nat /\ Levels - 1 \in Nat
  BY <1>2, LocationAssumption DEF Grown
<1>5. ASSUME NEW i \in 1 .. n, NEW x \in lv[i]
      PROVE  x \in elements /\ \E k \in 1 .. (Levels - 1) : /\ Above(x)[k] = request.asset
                                                         /\ \A j \in 0 .. (k - 1) : Shown(Above(x)[j])
  <2>1. i <= Levels - 1
    BY <1>1, <1>2, <1>3, <1>4, <1>5, GrownDeep
  <2>2. /\ x \in elements /\ Above(x)[i] = request.asset
        /\ \A j \in 0 .. i : j < i => Above(x)[j] \in DOMAIN below /\ Wanted(Above(x)[j])
    <3>1. i \in 0 .. n + 1
      BY <1>4
    <3> QED
      BY <1>1, <1>2, <1>5, <3>1, GrownFrom
  <2>3. ASSUME NEW j \in 0 .. (i - 1)
        PROVE  Shown(Above(x)[j])
    <3>1. j \in 0 .. i /\ j < i
      OBVIOUS
    <3>2. Above(x)[j] \in elements /\ Wanted(Above(x)[j])
      BY <1>1, <2>2, <3>1 DEF Listed
    <3> QED
      BY <1>1, <3>2, WantedIsShown
  <2>4. i \in 1 .. (Levels - 1)
    BY <1>4, <2>1
  <2> QED
    BY <2>2, <2>3, <2>4
<1>6. ASSUME NEW x \in elements, NEW m \in 1 .. (Levels - 1), Above(x)[m] = request.asset,
             \A i \in 0 .. (m - 1) : Shown(Above(x)[i])
      PROVE  \E i \in 1 .. n : x \in lv[i]
  <2>1. \A j \in 0 .. m - 1 : Above(x)[j] \in elements => Wanted(Above(x)[j])
    BY <1>1, <1>6, WantedIsShown
  <2> QED
    BY <1>1, <1>2, <1>3, <1>6, <2>1, GrownTo
<1> QED
  BY <1>3, <1>5, <1>6

LEMMA RootsAreExact ==
  ASSUME TInv, LInv, at = "roots", calm, toRead = {}
  PROVE  {p[2] : p \in found} =
           {x \in elements : parent[x] = 0 /\ Type[x] # 2 /\ options.filter \in {0, Type[x]}}
<1>1. found = {<<0, x>> : x \in OnTop(Asked)} /\ options.filter \in {0, 1, 3, 4, 5, 6}
  <2>1. options \in Options /\ found = {<<0, x>> : x \in OnTop(Asked \ toRead)}
    BY DEF LInv, Chosen, Topmost
  <2>2. Asked \ toRead = Asked
    OBVIOUS
  <2> QED
    BY <2>1, <2>2, LocationAssumption
<1>2. {p[2] : p \in found} = OnTop(Asked)
  <2>1. ASSUME NEW x \in OnTop(Asked)
        PROVE  x \in {p[2] : p \in found}
    <3>1. <<0, x>> \in found /\ <<0, x>>[2] = x
      BY <1>1
    <3> QED
      BY <3>1
  <2>2. ASSUME NEW p \in found
        PROVE  p[2] \in OnTop(Asked)
    <3>1. PICK x \in OnTop(Asked) : p = <<0, x>>
      BY <1>1
    <3> QED
      BY <3>1
  <2> QED
    BY <2>1, <2>2
<1>3. ASSUME NEW x \in elements, options.filter \in {0, Type[x]}
      PROVE  Type[x] \in Asked <=> Type[x] # 2
  <2>1. Type[x] \in 1 .. 6
    BY LocationAssumption DEF TInv, Tables
  <2> QED
    BY <1>1, <1>3, <2>1 DEF Asked
<1> QED
  BY <1>2, <1>3 DEF OnTop

LEMMA ContainersAnswered ==
  ASSUME TInv, LInv, WriteContainers
  PROVE  CalmLocationIsExact'
<1>1. UNCHANGED <<database, request, calm>> /\ request.command = "location to"
      /\ (answer' = Chain(chain) \/ answer' = Error)
  BY LocateKeeps DEF Locate, WriteContainers, Reject, TInv, Placed
<1>2. CASE answer' = Error
  BY <1>2 DEF Error, CalmLocationIsExact
<1>3. CASE answer' = Chain(chain)
  <2>1. answer'.chain = chain
    BY <1>3 DEF Chain
  <2>2. Above(request.asset)' = Above(request.asset)
    BY <1>1, SameAbove
  <2>3. calm => /\ \A i \in DOMAIN chain : chain[i] = Above(request.asset)[i - 1]
                /\ Above(request.asset)[Len(chain)] = 0
    BY DEF WriteContainers, LInv, Climbing
  <2> QED
    BY <1>1, <2>1, <2>2, <2>3 DEF CalmLocationIsExact
<1> QED
  BY <1>1, <1>2, <1>3

LEMMA TreeAnswered ==
  ASSUME TInv, LInv, WriteTree
  PROVE  CalmLocationIsExact'
<1>1. UNCHANGED <<database, request, calm>> /\ UNCHANGED options
      /\ request.command = "location from" /\ request.asset # 0 /\ at = "contents"
  <2>1. at = "contents" /\ UNCHANGED options
    BY DEF WriteTree, Die, Locating
  <2> QED
    BY <2>1, LocateKeeps DEF Locate, TInv, Placed, LInv, Chosen
<1>2. CASE answer' = Lost
  BY <1>2 DEF Lost, CalmLocationIsExact
<1>3. CASE ~options.recursive
  BY <1>1, <1>3 DEF CalmLocationIsExact
<1>4. CASE answer' # Lost /\ options.recursive
  <2>1. ~Reached.endless /\ \E groups, shown :
          answer' = Tree([x \in Reached.assets |-> below[x]], groups, shown)
    BY <1>4 DEF WriteTree, Die
  <2>2. DOMAIN answer'.in = Reached.assets
    BY <2>1 DEF Tree
  <2>3. \A x : Above(x)' = Above(x) /\ (Shown(x)' <=> Shown(x))
    <3>1. \A x : Above(x)' = Above(x) /\ Upstream(x)' = Upstream(x)
      BY <1>1, SameAbove, SameDatabase
    <3> QED
      BY <1>1, <3>1 DEF Shown
  <2>4. elements' = elements
    BY <1>1 DEF database
  <2>5. calm => DOMAIN answer'.in =
          {x \in elements : \E n \in 1 .. (Levels - 1) : /\ Above(x)[n] = request.asset
                                                    /\ \A i \in 0 .. (n - 1) : Shown(Above(x)[i])}
    BY <1>1, <2>1, <2>2, TreeIsExact
  <2> QED
    BY <1>1, <2>3, <2>4, <2>5 DEF CalmLocationIsExact
<1> QED
  BY <1>2, <1>3, <1>4

LEMMA RootsAnswered ==
  ASSUME TInv, LInv, SelectRoots \/ WriteRoots, at' = "done"
  PROVE  CalmLocationIsExact'
<1>1. /\ UNCHANGED <<database, request, calm>> /\ UNCHANGED options
      /\ request.command = "location from" /\ request.asset = 0 /\ at = "roots"
  <2>1. at = "roots" /\ UNCHANGED options
    BY DEF SelectRoots, WriteRoots, Reject, Proceed, Locating
  <2> QED
    BY <2>1, LocateKeeps DEF Locate, TInv, Placed, LInv, Topmost
<1>2. CASE answer' = Error
  BY <1>2 DEF Error, CalmLocationIsExact
<1>3. CASE answer' # Error
  <2>1. toRead = {} /\ answer' = Tree([x \in {p[2] : p \in found} |-> 0], {}, {})
    BY <1>3 DEF SelectRoots, WriteRoots, Reject, Proceed
  <2>2. DOMAIN answer'.in = {p[2] : p \in found}
    BY <2>1 DEF Tree
  <2>3. UNCHANGED <<elements, parent>>
    BY <1>1 DEF database
  <2>4. calm => DOMAIN answer'.in =
          {x \in elements : parent[x] = 0 /\ Type[x] # 2 /\ options.filter \in {0, Type[x]}}
    BY <1>1, <2>1, <2>2, RootsAreExact
  <2> QED
    BY <1>1, <2>3, <2>4 DEF CalmLocationIsExact
<1> QED
  BY <1>2, <1>3

LEMMA LocationStep ==
  ASSUME TInv, LInv, CalmLocationIsExact, [TopologyNext]_topologyVars
  PROVE  CalmLocationIsExact'
<1>1. CASE at' # "done"
  BY <1>1 DEF CalmLocationIsExact
<1>2. CASE Locate /\ at' = "done"
  <2>1. CASE ReadType \/ SelectParents \/ CheckOptions \/ CheckNone \/ SelectFeeds \/ SelectBelow
             \/ SelectGroups \/ SelectContents
    <3>1. answer' = Error \/ answer' = Lost
      BY <1>2, <2>1 DEF ReadType, SelectParents, CheckOptions, CheckNone, SelectFeeds, SelectBelow,
         SelectGroups, SelectContents, Reject, Die, Proceed
    <3>2. answer'.status # "OK"
      BY <3>1 DEF Error, Lost
    <3> QED
      BY <3>2 DEF CalmLocationIsExact
  <2> QED
    BY <1>2, <2>1, ContainersAnswered, TreeAnswered, RootsAnswered DEF Locate
<1>3. CASE AnsweringPower /\ at' = "done"
  <2>1. request'.command \in Powers
    <3>1. request.command \in Powers
      BY <1>3 DEF AnsweringPower, Answering, AddDeviceInfo, From, Walk, GroupLinks, GroupDevices,
         DatacenterDevices, DatacenterLinks, ChooseInputGroup, InputLinks, InputDevices,
         ChildDevices, ChildLinks, Name, Fill, Resolve, Respond, TInv, Placed, Powers
    <3>2. UNCHANGED request
      BY <1>3, AnsweringKeeps DEF AnsweringPower, TInv
    <3> QED
      BY <3>1, <3>2
  <2> QED
    BY <2>1 DEF Powers, CalmLocationIsExact
<1>4. CASE ChangeTables
  BY <1>4 DEF ChangeTables, Change, CalmLocationIsExact
<1>5. CASE UNCHANGED topologyVars
  <2>1. /\ UNCHANGED <<database, at, request, answer, calm, options>>
        /\ UNCHANGED <<elements, parent>>
    BY <1>5 DEF topologyVars, vars, database, locationVars
  <2>2. \A x : Above(x)' = Above(x) /\ (Shown(x)' <=> Shown(x))
    <3>1. \A x : Above(x)' = Above(x) /\ Upstream(x)' = Upstream(x)
      BY <2>1, SameAbove, SameDatabase
    <3> QED
      BY <2>1, <3>1 DEF Shown
  <2> QED
    BY <2>1, <2>2 DEF CalmLocationIsExact
<1>6. AskPower \/ AskLocation \/ SendAnswer => at' # "done"
  BY DEF AskPower, Ask, AskLocation, SendAnswer, Send
<1> QED
  BY <1>1, <1>2, <1>3, <1>4, <1>5, <1>6 DEF TopologyNext

(* Whatever the tables hold, assets above themselves and devices that feed *)
(* each other in circles included, an answer about locations that nothing  *)
(* has disturbed is exact: the chain of "to" is all that is above the      *)
(* asset, "from" without an asset lists what has no parent, and "from" of  *)
(* all levels lists, of all that is below the asset, what is wanted and    *)
(* has only what is wanted in between.                                     *)
THEOREM CalmLocationsStayExact == TopologySpec => []CalmLocationIsExact
<1>1. TopologyInit => TInv /\ LInv /\ CalmLocationIsExact
  <2>1. TopologyInit => CalmLocationIsExact
    BY DEF TopologyInit, Init, CalmLocationIsExact
  <2> QED
    BY <2>1, TopologyStarts, LInvStarts
<1>2. TInv /\ LInv /\ CalmLocationIsExact /\ [TopologyNext]_topologyVars
        => (TInv /\ LInv /\ CalmLocationIsExact)'
  BY TopologyStep, LInvStep, LocationStep
<1> QED
  BY <1>1, <1>2, PTL DEF TopologySpec
=============================================================================
