------------------------------ MODULE Locations ------------------------------
(***************************************************************************)
(* Where an asset is, and what is in it (topology_location.cc,             *)
(* db/topology2.cc, select_parents of persist/assettopology.cc), answered  *)
(* by the same actor as the power chains, over the same tables.            *)
(*                                                                         *)
(* "to" walks up the parents, one connection and statement for each.       *)
(* "from" selects the links (for feed_by), then all levels below the asset *)
(* at once, then the groups and what is in them.  It catches no exception  *)
(* of the database: that one, like a stack that overflows, ends the        *)
(* process, which is started again.                                        *)
(***************************************************************************)
EXTENDS PowerChains, Sequences

CONSTANTS
  Type,         \* persist::asset_type of each asset: 1 group, 2 datacenter, 3 room,
                \* 4 row, 5 rack, 6 device
  Options,      \* bound: the options of "from" that clients choose
  Levels,       \* PARENT_LEVEL_COUNT, 10 in the code
  StackDepth    \* bound: how many calls of select_parents the stack holds

ASSUME LocationAssumption ==
  /\ Type \in [Assets -> 1..6]
  /\ \A a \in Assets : (Type[a] = 6 <=> a \in Devices) /\ (Type[a] = 1 <=> a \in Groups)
  /\ Options \subseteq [recursive : BOOLEAN, filter : {0, 1, 3, 4, 5, 6}, feed : Devices \cup {0}]
  /\ Levels \in Nat \ {0} /\ StackDepth \in Nat \ {0}

VARIABLES
  options,      \* of the request
  chain,        \* "to": the assets select_parents has been called for
  fed,          \* "from": feeded_by, empty when it is not asked for
  below,        \* the rows of topology2_from: the parent of each asset in them
  toRead,       \* groups to look into; or types of assets to select
  found,        \* pairs of a group and what is in it; or of 0 and an asset
  cyclic        \* history: an asset was above itself during the request

locationVars == <<options, chain, fed, below, toRead, found, cyclic>>
topologyVars == <<vars, locationVars>>

Lost == [status |-> "lost"]
Chain(c) == [status |-> "OK", chain |-> c]
Tree(in, groups, contents) ==
  [status |-> "OK", in |-> in, groups |-> groups, contents |-> contents]

-----------------------------------------------------------------------------
Locating == UNCHANGED <<database, request, result, calm, changes, options, cyclic>>
Reject == at' = "done" /\ answer' = Error /\ UNCHANGED <<chain, fed, below, toRead, found>> /\ Locating
Die == at' = "done" /\ answer' = Lost /\ UNCHANGED <<chain, fed, below, toRead, found>> /\ Locating
Proceed(next) == at' = next /\ UNCHANGED answer /\ Locating

AboveItself(a) ==
  LET up[n \in 1..Cardinality(Assets)] ==
        IF n = 1 THEN parent[a] ELSE IF up[n - 1] = 0 THEN 0 ELSE parent[up[n - 1]]
  IN  \E n \in DOMAIN up : up[n] = a
Cyclic == \E a \in elements : AboveItself(a)

AskLocation ==
  /\ at = "idle"
  /\ \/ \E a \in Assets : request' = [command |-> "location to", asset |-> a] /\ UNCHANGED options
     \/ \E a \in Assets \cup {0} : /\ request' = [command |-> "location from", asset |-> a]
                                  /\ options' \in Options
  /\ at' = IF request'.command = "location to" THEN "type" ELSE "options"
  /\ calm' = TRUE /\ cyclic' = Cyclic
  /\ UNCHANGED <<database, result, answer, chain, fed, below, toRead, found, changes>>

-----------------------------------------------------------------------------
(* "to".  The name is turned into an id, whose type is read.               *)
ReadType ==
  /\ at = "type"
  /\ \/ /\ request.asset \in elements
        /\ chain' = <<request.asset>> /\ UNCHANGED <<fed, below, toRead, found>> /\ Proceed("parents")
     \/ Reject

(* A call of select_parents: what it is called for is read with its parent.*)
SelectParents ==
  /\ at = "parents"
  /\ LET a == chain[Len(chain)]
     IN  \/ /\ a \in elements /\ parent[a] # 0 /\ Len(chain) < StackDepth
            /\ chain' = Append(chain, parent[a])
            /\ UNCHANGED <<fed, below, toRead, found>> /\ Proceed("parents")
         \/ a \in elements /\ parent[a] # 0 /\ Len(chain) = StackDepth /\ Die
         \/ /\ a \in elements /\ parent[a] = 0
            /\ UNCHANGED <<chain, fed, below, toRead, found>> /\ Proceed("containers")
         \/ Reject

(* The containers are written from the outside in, each name read again.   *)
WriteContainers ==
  /\ at = "containers"
  /\ \/ /\ \A i \in DOMAIN chain : chain[i] \in elements
        /\ at' = "done" /\ answer' = Chain(chain)
        /\ UNCHANGED <<chain, fed, below, toRead, found>> /\ Locating
     \/ Reject

-----------------------------------------------------------------------------
(* "from" an asset, or from "none", which is 0 here.                       *)

(* What a device feeds, NodeMap::feed_by; loops of sources end the search. *)
FeedBy(d) ==
  LET reach[n \in 0..Cardinality(Devices)] ==
        IF n = 0 THEN {d} ELSE reach[n - 1] \cup {l.dst : l \in {k \in links : k.src \in reach[n - 1]}}
  IN  reach[Cardinality(Devices)]

(* feed_by must be a power device, and the filter "devices".               *)
CheckOptions ==
  /\ at = "options" /\ request.asset # 0
  /\ IF options.feed # 0 /\ options.filter # 6 THEN Reject
     ELSE \/ /\ options.feed \in elements \cup {0} /\ UNCHANGED <<chain, fed, below, toRead, found>>
             /\ Proceed(IF options.feed = 0 THEN "below" ELSE "feeds")
          \/ options.feed # 0 /\ options.feed \notin elements /\ Reject
          \/ Die

(* From "none": feed_by is refused, and all levels are not for the asking. *)
CheckNone ==
  /\ at = "options" /\ request.asset = 0
  /\ \/ options.feed # 0 /\ Reject
     \/ /\ options.feed = 0
        /\ toRead' = {t \in {1, 3, 4, 5, 6} : t <= options.filter \/ options.filter = 0}
        /\ UNCHANGED <<chain, fed, below, found>> /\ Proceed("roots")
     \/ Die

SelectFeeds ==
  /\ at = "feeds"
  /\ \/ fed' = FeedBy(options.feed) /\ UNCHANGED <<chain, below, toRead, found>> /\ Proceed("below")
     \/ Die

(* topology2_from: the asset and the levels below it, with their parents.  *)
SelectBelow ==
  /\ at = "below"
  /\ LET level[n \in 0..(Levels - 1)] ==
           IF n = 0 THEN {request.asset} ELSE {x \in elements : parent[x] \in level[n - 1]}
     IN  \/ /\ request.asset \in elements
            /\ below' = [x \in UNION {level[n] : n \in DOMAIN level} |-> parent[x]]
            /\ UNCHANGED <<chain, fed, toRead, found>> /\ Proceed("groups")
         \/ request.asset \notin elements /\ Reject
         \/ Die

(* s_should_filter_recursive, and the devices that must be fed.            *)
WantedAnyGroup(x) ==
  /\ Type[x] = 6 /\ fed # {} => x \in fed
  /\ options.filter = 0 \/ (options.filter = 1 /\ Type[x] = 1) \/ Type[x] <= options.filter
Wanted(x) ==
  /\ Type[x] = 6 /\ fed # {} => x \in fed
  /\ CASE options.filter = 0 -> TRUE
       [] options.filter = 1 -> Type[x] = 1
       [] OTHER -> Type[x] <= options.filter /\ Type[x] # 1

(* The groups the asset is in; then, if all levels are asked for, what is  *)
(* in these groups and in those below the asset.                           *)
SelectGroups ==
  /\ at = "groups"
  /\ \/ LET groups == {g \in Groups : <<g, request.asset>> \in members}
        IN  /\ found' = {<<0, g>> : g \in groups}
            /\ toRead' = IF options.recursive
                         THEN groups \cup {x \in DOMAIN below : Type[x] = 1 /\ Wanted(x)} ELSE {}
            /\ UNCHANGED <<chain, fed, below>> /\ Proceed("contents")
     \/ Die
SelectContents ==
  /\ at = "contents"
  /\ \E g \in toRead :
       \/ /\ found' = found \cup {m \in members : m[1] = g} /\ toRead' = toRead \ {g}
          /\ UNCHANGED <<chain, fed, below>> /\ Proceed("contents")
       \/ Die

(* s_topo_recursive: what is not wanted hides what is in it.  An asset     *)
(* above itself makes the recursion endless.                               *)
Reached ==
  LET n == Cardinality(DOMAIN below)
      level[i \in 0..(n + 1)] ==
        IF i = 0 THEN {request.asset}
        ELSE {x \in DOMAIN below : below[x] \in level[i - 1] /\ Wanted(x)}
  IN  [assets |-> UNION {level[i] : i \in 1..n}, endless |-> level[n + 1] # {}]

(* topology2_from_json: what is right below the asset.                     *)
RightBelow ==
  {x \in DOMAIN below \ {request.asset} :
     /\ below[x] = request.asset
     /\ fed # {} => x \in fed
     /\ options.filter \in {0, Type[x]}}

WriteTree ==
  /\ at = "contents" /\ toRead = {}
  /\ LET assets == IF options.recursive THEN Reached.assets ELSE RightBelow
         groups == IF options.recursive /\ options.filter # 1 THEN {}
                   ELSE {p[2] : p \in {q \in found : q[1] = 0}}
         shown == {p \in found : p[1] \in groups \/ (p[1] \in assets /\ options.recursive)}
     IN  IF options.recursive /\ Reached.endless THEN Die
         ELSE /\ at' = "done" /\ answer' = Tree([x \in assets |-> below[x]], groups, shown)
              /\ UNCHANGED <<chain, fed, below, toRead, found>> /\ Locating

(* get_return_topology_from 0: what has no parent, type after type.        *)
NextType == IF toRead = {1} THEN 1 ELSE Min(toRead \ {1})
SelectRoots ==
  /\ at = "roots" /\ toRead # {}
  /\ \/ /\ found' = found \cup {<<0, x>> : x \in {y \in elements : /\ parent[y] = 0
                                                              /\ Type[y] = NextType
                                                              /\ options.filter \in {0, NextType}}}
        /\ toRead' = toRead \ {NextType}
        /\ UNCHANGED <<chain, fed, below>> /\ Proceed("roots")
     \/ Reject
WriteRoots ==
  /\ at = "roots" /\ toRead = {}
  /\ \/ /\ \A p \in found : p[2] \in elements
        /\ at' = "done" /\ answer' = Tree([x \in {p[2] : p \in found} |-> 0], {}, {})
        /\ UNCHANGED <<chain, fed, below, toRead, found>> /\ Locating
     \/ Reject

-----------------------------------------------------------------------------
NoOptions == [recursive |-> FALSE, filter |-> 0, feed |-> 0]
LocationFresh ==
  /\ options' = NoOptions /\ chain' = <<>> /\ fed' = {} /\ below' = <<>> /\ toRead' = {} /\ found' = {}
  /\ cyclic' = FALSE
TopologyInit ==
  /\ Init
  /\ options = NoOptions
  /\ chain = <<>> /\ fed = {} /\ below = <<>> /\ toRead = {} /\ found = {} /\ cyclic = FALSE

Locate ==
  \/ ReadType \/ SelectParents \/ WriteContainers
  \/ CheckOptions \/ CheckNone \/ SelectFeeds \/ SelectBelow \/ SelectGroups \/ SelectContents \/ WriteTree
  \/ SelectRoots \/ WriteRoots
AnsweringPower == Answering /\ UNCHANGED locationVars
AskPower == Ask /\ UNCHANGED locationVars
SendAnswer == Send /\ LocationFresh
ChangeTables ==
  /\ Change /\ cyclic' = (cyclic \/ Cyclic')
  /\ UNCHANGED <<options, chain, fed, below, toRead, found>>

TopologyNext == AskPower \/ AskLocation \/ AnsweringPower \/ Locate \/ SendAnswer \/ ChangeTables
TopologySpec ==
  TopologyInit /\ [][TopologyNext]_topologyVars /\ WF_topologyVars(AnsweringPower \/ Locate \/ SendAnswer)

-----------------------------------------------------------------------------
(* Above[i] is i levels above the asset, 0 when there is nothing.          *)
Above(x) ==
  LET up[n \in Nat] == IF n = 0 THEN x ELSE IF up[n - 1] = 0 THEN 0 ELSE parent[up[n - 1]]
  IN  up

(* The types of a filter: groups are one of their own.  A device must have *)
(* feed_by upstream.                                                       *)
Types(filter) == CASE filter = 0 -> 1..6 [] filter = 1 -> {1} [] OTHER -> 2..filter
Shown(x) ==
  Type[x] \in Types(options.filter)
  /\ (x \in Devices /\ options.feed # 0 => options.feed \in Upstream(x))

(* When nothing changed during a request, the containers of "to" are those *)
(* above the asset, to the top; and "from" lists, of all that is below the *)
(* asset, what is wanted and has only what is wanted in between.           *)
CalmLocationIsExact ==
  at = "done" /\ answer.status = "OK" /\ calm =>
    /\ request.command = "location to" =>
         /\ \A i \in DOMAIN answer.chain : answer.chain[i] = Above(request.asset)[i - 1]
         /\ Above(request.asset)[Len(answer.chain)] = 0
    /\ request.command = "location from" /\ request.asset = 0 =>
         DOMAIN answer.in = {x \in elements : parent[x] = 0 /\ Type[x] # 2 /\ options.filter \in {0, Type[x]}}
    /\ request.command = "location from" /\ request.asset # 0 /\ options.recursive =>
         DOMAIN answer.in =
           {x \in elements : \E n \in 1..(Levels - 1) : /\ Above(x)[n] = request.asset
                                                     /\ \A i \in 0..(n - 1) : Shown(Above(x)[i])}

(* The actor gets to the end of each request, although devices may feed    *)
(* each other in a circle and the tables change while it walks along them. *)
(* Only an asset above itself, or an exception during "from", can make     *)
(* that end the end of the process.                                        *)
EachRequestEnds ==
  (at # "idle") ~>
    (at = "done" /\ (answer.status = "lost" => cyclic \/ request.command = "location from"))
=============================================================================
