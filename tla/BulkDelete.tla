----------------------------- MODULE BulkDelete -----------------------------
(***************************************************************************)
(* AssetManager::deleteAsset of the asset library, for one asset and for a *)
(* map of them (asset/src/manager/delete.cpp).  The library serves several *)
(* threads of its users, takes no lock to delete, and works on the tables  *)
(* the agent writes.  A step is a read of one asset, a statement that      *)
(* decides or writes, or a request to the licensing agent or to the        *)
(* credential mappings (CAM).                                              *)
(***************************************************************************)
EXTENDS AssetTables, Sequences

CONSTANTS
  RC0,          \* rackcontroller-0 (or None when it is not modelled)
  Sensors,      \* devices of subtype sensor
  Feeds,        \* devices of subtype feed
  FastTrack,    \* datacenters whose attribute fast_track is "true"
  ById,         \* the assets of each set in the order of their ids
  SendNotify,   \* the parameter sendNotify, TRUE unless a test says otherwise
  Threads,      \* threads that call the library
  LicenceFaults,\* TRUE if a request to the licensing agent may go unanswered
  CamFaults,    \* TRUE if a request to the credential mappings may fail
  Inside,       \* bound: <<k, l>> when clients put an asset of kind l into one of kind k
  Wires,        \* bound: <<a, b>> when clients may feed device b from device a
  Credentials,  \* bound: assets that were given credentials
  Refs,         \* bound: <<s, a>> when sensor s may name a as its logical_asset
  Lists, Ones,  \* bound: the sets of assets, and the assets, that are deleted in one call
  Moves,        \* bound: <<a, p, w>> when another user puts a into p with status w
  MaxEvents     \* bound on the calls, and the writes of other users, together

Elements(s) == {s[n] : n \in DOMAIN s}

ASSUME DeleteAssumption ==
  /\ ById \in [SUBSET Assets -> Seq(Assets)]
  /\ \A S \in SUBSET Assets : Elements(ById[S]) = S
  /\ RC0 \in Assets \cup {None}
  /\ Sensors \cup Feeds \cup FastTrack \subseteq Assets
  /\ Sensors \cap Feeds = {} /\ RC0 \notin Sensors /\ \A s \in Sensors : Device(s)
  /\ Credentials \subseteq Assets /\ Refs \subseteq Assets \X Assets /\ Wires \subseteq Assets \X Assets
  /\ \A l \in Wires : Device(l[1]) /\ Device(l[2])
  /\ SendNotify \in BOOLEAN /\ LicenceFaults \in BOOLEAN /\ CamFaults \in BOOLEAN
  /\ Lists \subseteq SUBSET Assets /\ Ones \subseteq Assets /\ MaxEvents \in Nat
  /\ Moves \subseteq Assets \X (Assets \cup {None}) \X Statuses

VARIABLES
  refers,       \* <<s, a>>: the attribute logical_asset of sensor s names a
  mapped,       \* assets that have credential mappings
  pc, job,      \* what each thread is doing
  events,
  calm, clean,  \* history: see the properties
  unheard       \* history: assets whose mappings the last request about them left

vars == <<rows, parent, status, links, licensed, refers, mapped, pc, job, events, calm,
          clean, unheard>>
tables == <<db, refers>>
history == <<events, calm, unheard>>

PCs == {"idle", "examine", "collect", "next", "descend", "guard", "refer", "deactivate", "count",
        "drop", "reactivate", "unmap", "endless"}

-----------------------------------------------------------------------------
(* The locals of a call.  todo holds the ids not yet examined, then the    *)
(* elements not yet collected, then the roots not yet deleted; was and top *)
(* are what the elements remember of their rows (status, no parent); fed   *)
(* and kids are links and chidren; the stack is the recursion of           *)
(* deleteAssetRec, innermost first.                                        *)

NoJob ==
  [ids |-> {}, todo |-> <<>>, toDel |-> <<>>, was |-> [a \in Assets |-> "nonactive"], top |-> {},
   fed |-> [a \in Assets |-> {}], kids |-> [a \in Assets |-> {}], stack |-> <<>>,
   deleted |-> {}, sensors |-> {}, ok |-> TRUE, named |-> {},
   result |-> [a \in Assets |-> "none"]]

Jobs ==
  [ids : SUBSET Assets, todo : Seq(Assets), toDel : Seq(Assets), was : [Assets -> Statuses],
   top : SUBSET Assets, fed : [Assets -> SUBSET Assets], kids : [Assets -> SUBSET Assets],
   stack : Seq(Assets), deleted : SUBSET Assets, sensors : SUBSET Assets, ok : BOOLEAN,
   named : SUBSET Assets, result : [Assets -> {"none", "deleted", "refused"}]]

Goto(t, l) == pc' = [pc EXCEPT ![t] = l]
Set(t, j) == job' = [job EXCEPT ![t] = j]

Unreferred(a) == FALSE
Referred(a) == \E r \in refers : r[2] = a
Busy == \E t \in Threads : pc[t] # "idle"

(* What an element remembers of its row.                                   *)
Loaded(j, S) ==
  [j EXCEPT !.was = [a \in Assets |-> IF a \in S THEN status[a] ELSE @[a]],
            !.top = @ \cup {a \in S : parent[a] = None}]

(* A nonactive device without parent takes its nonactive sensors along.    *)
Detached(j, a) == Device(a) /\ a \in j.top /\ j.was[a] = "nonactive"
Idling(S) == {s \in S \cap Sensors : status[s] = "nonactive"}

-----------------------------------------------------------------------------
(* A call for a map of ids, and one for a single asset.  named is history. *)

Receive(t, j) ==
  /\ pc[t] = "idle" /\ events < MaxEvents
  /\ Set(t, [j EXCEPT !.named = {a \in Assets : Referred(a)}])
  /\ events' = events + 1
  /\ clean' = (clean /\ ~Busy)
  /\ UNCHANGED <<tables, licensed, mapped, calm, unheard>>

DeleteList(t, S) ==
  /\ Receive(t, [NoJob EXCEPT !.ids = S, !.todo = ById[S]])
  /\ Goto(t, "examine")

DeleteOne(t, a) ==
  /\ a \in rows
  /\ Receive(t, [Loaded(NoJob, {a}) EXCEPT !.ids = {a}, !.todo = <<a>>, !.stack = <<a>>])
  /\ Goto(t, "guard")

(* The first loop: an asset is refused when there is an asset below it, or *)
(* one that it feeds, that is not in the map; the sensors that go along    *)
(* join the list on their own, before that is known.                       *)
Examine(t) ==
  /\ pc[t] = "examine" /\ job[t].todo # <<>>
  /\ LET a == Head(job[t].todo)
         j == [job[t] EXCEPT !.todo = Tail(@)]
         outside == SubTree(a) \ j.ids
         fed == {l[2] : l \in {x \in links : x[1] = a}} \ j.ids
         along == IF Detached(Loaded(NoJob, {a}), a) THEN Idling(outside) ELSE {}
         refused == outside # along \/ fed # {}
     IN \/ a \notin rows /\ Set(t, [j EXCEPT !.result[a] = "refused"])
        \/ /\ a \in rows /\ refused
           /\ Set(t, [Loaded(j, along) EXCEPT !.toDel = @ \o ById[along],
                                              !.result[a] = "refused"])
        \/ /\ a \in rows /\ ~refused
           /\ Set(t, [Loaded(j, along \cup {a}) EXCEPT !.toDel = @ \o Append(ById[along], a)])
  /\ UNCHANGED <<pc, tables, licensed, mapped, history, clean>>

StartCollect(t) ==
  /\ pc[t] = "examine" /\ job[t].todo = <<>>
  /\ Set(t, [job[t] EXCEPT !.todo = @ \o job[t].toDel])
  /\ Goto(t, "collect")
  /\ UNCHANGED <<tables, licensed, mapped, history, clean>>

(* The second loop: the children and the fed devices that are in the list. *)
Collect(t) ==
  /\ pc[t] = "collect" /\ job[t].todo # <<>>
  /\ LET e == Head(job[t].todo)
         list == Elements(job[t].toDel)
     IN Set(t, [job[t] EXCEPT !.todo = Tail(@), !.kids[e] = Children(e) \cap list,
                              !.fed[e] = {d \in list : <<e, d>> \in links}])
  /\ UNCHANGED <<pc, tables, licensed, mapped, history, clean>>

StartDelete(t) ==
  /\ pc[t] = "collect" /\ job[t].todo = <<>>
  /\ Set(t, [job[t] EXCEPT !.todo = @ \o job[t].toDel])
  /\ Goto(t, "next")
  /\ UNCHANGED <<tables, licensed, mapped, history, clean>>

-----------------------------------------------------------------------------
(* deleteAssetRec.  What an element feeds goes first, then its children,   *)
(* then the element; an error goes up to the root, and an element on which *)
(* it failed is tried again when it is met again.  An element that is met  *)
(* below itself is a recursion that does not end.                          *)

NothingFirst(j, e) == {}
First(j, e) == IF j.fed[e] \ j.deleted # {} THEN j.fed[e] \ j.deleted ELSE j.kids[e] \ j.deleted

NeverMarked(j, a) == [j EXCEPT !.stack = Tail(@)]
Deleted(j, a) == [j EXCEPT !.stack = Tail(@), !.deleted = @ \cup {a}]

(* The result of the root, which std::map::emplace never overwrites.       *)
Optimist(j, r) ==
  [j EXCEPT !.todo = Tail(@), !.stack = <<>>,
            !.result[Head(j.todo)] = IF @ = "none" THEN "deleted" ELSE @]
Emplace(j, r) ==
  [j EXCEPT !.todo = Tail(@), !.stack = <<>>,
            !.result[Head(j.todo)] = IF @ = "none" THEN r ELSE @]

(* One asset is done: up one level, or all the way.                        *)
Return(t, j, a, ok) ==
  IF ~ok THEN Set(t, Emplace(j, "refused")) /\ Goto(t, "next")
  ELSE IF Len(j.stack) > 1 THEN Set(t, Deleted(j, a)) /\ Goto(t, "descend")
  ELSE Set(t, Emplace(Deleted(j, a), "deleted")) /\ Goto(t, "next")

NextRoot(t) ==
  /\ pc[t] = "next" /\ job[t].todo # <<>>
  /\ LET root == Head(job[t].todo)
     IN \/ /\ root \in job[t].deleted
           /\ Set(t, Emplace(job[t], "deleted"))
           /\ UNCHANGED pc
        \/ /\ root \notin job[t].deleted
           /\ Set(t, [job[t] EXCEPT !.stack = <<root>>])
           /\ Goto(t, "descend")
  /\ UNCHANGED <<tables, licensed, mapped, history, clean>>

Descend(t) ==
  /\ pc[t] = "descend"
  /\ LET j == job[t]
         e == Head(j.stack)
     IN \/ \E x \in First(j, e) :
             /\ Set(t, [j EXCEPT !.stack = <<x>> \o @])
             /\ Goto(t, IF x \in Elements(j.stack) THEN "endless" ELSE "descend")
        \/ First(j, e) = {} /\ Goto(t, "guard") /\ UNCHANGED job
  /\ UNCHANGED <<tables, licensed, mapped, history, clean>>

-----------------------------------------------------------------------------
(* deleteAsset of one element, of which a is the asset.                    *)

Current(t) == Head(job[t].stack)

(* checkFeed: the only feed of a datacenter that is device centric.        *)
FeedsIn(d) == SubTree(d) \cap Feeds
NeverLast(a) == FALSE
LastFeed(a) == \E d \in FastTrack : FeedsIn(d) = {a}

Guard(t) ==
  /\ pc[t] = "guard"
  /\ LET j == job[t]
         a == Current(t)
     IN \/ /\ a = RC0 \/ LastFeed(a)
           /\ Return(t, j, a, FALSE)
        \/ /\ a # RC0 /\ ~LastFeed(a)
           /\ Set(t, [j EXCEPT !.sensors = IF Detached(j, a) THEN Idling(Children(a)) ELSE {}])
           /\ Goto(t, "refer")
  /\ UNCHANGED <<tables, licensed, mapped, history, clean>>

(* The transaction of deleteDevice, deleteGroup and deleteDcRoomRowRack:   *)
(* the links that end at the asset, then its row.  Foreign keys keep a     *)
(* parent and a source; a row that is gone is no error.                    *)
Free(a) == a \notin rows \/ (Children(a) = {} /\ ~HasLinkedAssets(a))
Erase(a) ==
  /\ rows' = rows \ {a}
  /\ Write(a, None, "nonactive")
  /\ links' = links \ LinksTo(a)
  /\ refers' = {r \in refers : r[1] # a}

(* deleteMappings swallows whatever goes wrong: when it fails before the   *)
(* last mapping is removed, nobody will ever ask again.                    *)
StillMapped(S) == mapped
Unmapped(S) == mapped \ S
DeleteMappings(a) ==
  \/ mapped' = Unmapped({a}) /\ unheard' = unheard \ {a}
  \/ CamFaults /\ mapped' = mapped /\ unheard' = unheard \cup (mapped \cap {a})

(* deleteAsset of a sensor that goes along; its errors are not looked at.  *)
DeleteSensor(t) ==
  /\ pc[t] = "refer"
  /\ \E s \in job[t].sensors :
       /\ Set(t, [job[t] EXCEPT !.sensors = @ \ {s}])
       /\ IF ~Referred(s) /\ Free(s) THEN Erase(s) ELSE UNCHANGED tables
       /\ IF Referred(s) THEN UNCHANGED <<mapped, unheard>> ELSE DeleteMappings(s)
  /\ UNCHANGED <<pc, licensed, events, calm, clean>>

Cleanup(a) == IF Location(a) THEN "count" ELSE "drop"
Quietly(j, a) == FALSE
Deactivates(j, a) == SendNotify /\ j.was[a] = "active"

(* countKeytag: no sensor may stand for the asset.                         *)
Refer(t) ==
  /\ pc[t] = "refer" /\ job[t].sensors = {}
  /\ LET j == job[t]
         a == Current(t)
     IN \/ Referred(a) /\ Return(t, j, a, FALSE)
        \/ /\ ~Referred(a)
           /\ Goto(t, IF Deactivates(j, a) THEN "deactivate" ELSE Cleanup(a))
           /\ UNCHANGED job
  /\ UNCHANGED <<tables, licensed, mapped, history, clean>>

(* The request describes the asset by its row; a lost answer is an error,  *)
(* whatever the licensing agent did, and so may be a row that is gone.     *)
Deactivate(t) ==
  /\ pc[t] = "deactivate"
  /\ LET a == Current(t)
     IN \/ /\ licensed' = IF a \in rows THEN licensed \ {a} ELSE licensed
           /\ Goto(t, Cleanup(a))
           /\ UNCHANGED <<job, clean>>
        \/ /\ LicenceFaults \/ a \notin rows
           /\ licensed' = licensed \/ (a \in rows /\ licensed' = licensed \ {a})
           /\ Return(t, job[t], a, FALSE)
           /\ clean' = FALSE
  /\ UNCHANGED <<tables, mapped, history>>

Failed(t, a) ==
  /\ Set(t, [job[t] EXCEPT !.ok = FALSE])
  /\ Goto(t, IF Deactivates(job[t], a) THEN "reactivate" ELSE "unmap")

(* The datacenters are counted by a plain read of the transaction.         *)
Count(t) ==
  /\ pc[t] = "count"
  /\ LET a == Current(t)
     IN \/ IsLastDataCenter(a) /\ Failed(t, a)
        \/ ~IsLastDataCenter(a) /\ Goto(t, "drop") /\ UNCHANGED job
  /\ UNCHANGED <<tables, licensed, mapped, history, clean>>

Drop(t) ==
  /\ pc[t] = "drop"
  /\ LET a == Current(t)
     IN \/ Free(a) /\ Erase(a) /\ Goto(t, "unmap") /\ UNCHANGED job
        \/ ~Free(a) /\ Failed(t, a) /\ UNCHANGED tables
  /\ UNCHANGED <<licensed, mapped, history, clean>>

(* "in case of error we need to try to activate the asset again"           *)
Reactivate(t) ==
  /\ pc[t] = "reactivate"
  /\ LET a == Current(t)
     IN \/ /\ a \in rows /\ Device(a) /\ HasCredit(a)
           /\ licensed' = licensed \cup {a}
           /\ UNCHANGED clean
        \/ /\ LicenceFaults \/ a \notin rows \/ ~Device(a) \/ ~HasCredit(a)
           /\ clean' = (clean /\ a \in rows /\ ~Device(a))
           /\ UNCHANGED licensed
  /\ Goto(t, "unmap")
  /\ UNCHANGED <<job, tables, mapped, history>>

(* The mappings of the asset go, whether or not the asset went.            *)
Unmap(t) ==
  /\ pc[t] = "unmap"
  /\ IF SendNotify THEN DeleteMappings(Current(t)) ELSE UNCHANGED <<mapped, unheard>>
  /\ Return(t, [job[t] EXCEPT !.ok = TRUE], Current(t), job[t].ok)
  /\ UNCHANGED <<tables, licensed, events, calm, clean>>

(* The results are returned.                                               *)
Report(t) ==
  /\ pc[t] = "next" /\ job[t].todo = <<>>
  /\ Goto(t, "idle") /\ Set(t, NoJob)
  /\ UNCHANGED <<tables, licensed, mapped, history, clean>>

-----------------------------------------------------------------------------
(* The other users of the tables move assets, change their status, feed    *)
(* devices and name logical assets; an id is never used twice.             *)

Update(a, p, w) ==
  /\ CanWrite(a, p)
  /\ Device(a) /\ w = "active" => HasCredit(a)
  /\ Write(a, p, w)
  /\ licensed' = IF ~Device(a) THEN licensed
                 ELSE IF w = "active" THEN licensed \cup {a} ELSE licensed \ {a}
  /\ UNCHANGED <<rows, links, refers>>

Wire(l) ==
  /\ l[1] \in rows /\ l[2] \in rows /\ links' = links \cup {l}
  /\ UNCHANGED <<rows, parent, status, refers, licensed>>

Name(r) ==
  /\ r[1] \in rows /\ r[2] \in rows /\ refers' = refers \cup {r}
  /\ UNCHANGED <<db, licensed>>

Change ==
  /\ events < MaxEvents
  /\ events' = events + 1
  /\ calm' = (calm /\ ~Busy) /\ clean' = (clean /\ ~Busy)
  /\ \/ \E m \in Moves : Update(m[1], m[2], m[3])
     \/ \E l \in Wires : Wire(l)
     \/ \E r \in Refs : Name(r)
  /\ UNCHANGED <<mapped, pc, job, unheard>>

-----------------------------------------------------------------------------
Init ==
  /\ Consistent(Inside, Wires)
  /\ RC0 # None => RC0 \in rows
  /\ refers \in SUBSET {r \in Refs : r[1] \in rows /\ r[2] \in rows}
  /\ mapped = rows \cap Credentials
  /\ pc = [t \in Threads |-> "idle"] /\ job = [t \in Threads |-> NoJob]
  /\ events = 0
  /\ calm = TRUE /\ clean = TRUE /\ unheard = {}

Step(t) ==
  \/ Examine(t) \/ StartCollect(t) \/ Collect(t) \/ StartDelete(t) \/ NextRoot(t) \/ Descend(t)
  \/ Guard(t) \/ DeleteSensor(t) \/ Refer(t) \/ Deactivate(t) \/ Count(t) \/ Drop(t)
  \/ Reactivate(t) \/ Unmap(t) \/ Report(t)

Request(t) ==
  \/ \E S \in Lists : DeleteList(t, S)
  \/ \E a \in Ones : DeleteOne(t, a)

Next == Change \/ \E t \in Threads : Request(t) \/ Step(t)

Spec == Init /\ [][Next]_vars

(* A thread that holds a request keeps running: requests to the licensing  *)
(* agent and to the mappings time out.                                     *)
FairSpec == Spec /\ \A t \in Threads : WF_vars(Step(t))

-----------------------------------------------------------------------------
(* Properties.  A history is calm when nobody changed the tables while a   *)
(* call was running, and clean when moreover no two calls overlapped, each *)
(* request to the licensing agent was granted and answered.                *)

(* The tables and the locals of the calls are well formed.                 *)
TypeOK ==
  /\ rows \in SUBSET Assets /\ parent \in [Assets -> Assets \cup {None}]
  /\ status \in [Assets -> Statuses] /\ links \in SUBSET (Assets \X Assets)
  /\ licensed \in SUBSET Assets /\ refers \in SUBSET (Assets \X Assets)
  /\ mapped \in SUBSET Assets
  /\ pc \in [Threads -> PCs] /\ job \in [Threads -> Jobs]
  /\ events \in Nat /\ calm \in BOOLEAN /\ clean \in BOOLEAN /\ unheard \in SUBSET Assets

Idle == ~Busy

(* A sensor never stands for an asset that is gone, even when several      *)
(* calls delete the sensor, the asset and what is around them at once.     *)
LogicalAssetsExist == calm => \A r \in refers : r[2] \in rows

(* What a call reports as deleted is gone, whatever the other calls and    *)
(* users do meanwhile.                                                     *)
DeletedAreGone ==
  \A t \in Threads, a \in Assets : job[t].result[a] = "deleted" => a \notin rows

(* After clean calls, refused ones included, the licensing agent holds a   *)
(* credit for exactly the active devices (deactivate, reactivate).         *)
CreditsAgree == (Idle /\ clean /\ SendNotify) => licensed = ActiveDevices

(* A credential mapping outlives its asset only when the request to remove *)
(* it failed, which deleteMappings logs and forgets: every other way out   *)
(* of deleteAsset, for the asset or a sensor it takes along, removes it.   *)
MappingsFollowAssets == (Idle /\ SendNotify) => mapped \ rows \subseteq unheard

(* A clean call removes all it can: children and fed devices go before     *)
(* what holds or feeds them, so that what is refused still has a reason    *)
(* when the call returns.  Only sensors may hide the reason: those that    *)
(* stand for an asset, which are listed in any order with it, and those    *)
(* that a device takes along, which refuse what is between it and them.    *)
Explained(a) ==
  \/ a \notin rows \/ a = RC0 \/ LastFeed(a)
  \/ Location(a) /\ IsLastDataCenter(a)
  \/ Children(a) # {} \/ HasLinkedAssets(a)
Reports(t) == pc[t] = "next" /\ pc'[t] = "idle"
NoSensors(j) == j.named = {} /\ Elements(j.toDel) \subseteq j.ids
RefusalsAreExplained ==
  [][\A t \in Threads : (Reports(t) /\ clean /\ NoSensors(job[t])) =>
       \A a \in Assets : job[t].result[a] = "refused" => Explained(a)]_vars

(* Calls one after the other leave a datacenter, and a feed in each        *)
(* datacenter that is device centric, where there was one.                 *)
LastOnesStay ==
  [][(clean' /\ events' = events) =>
       /\ (\E d \in rows : Kind[d] = "datacenter") => \E d \in rows' : Kind[d] = "datacenter"
       /\ \A d \in FastTrack : FeedsIn(d) # {} => FeedsIn(d)' # {}]_vars

(* Every call returns, for it meets no cycle of links and parents.         *)
CallReturns == \A t \in Threads : pc[t] # "idle" ~> pc[t] = "idle"
=============================================================================
