---------------------------- MODULE SaveRestore ----------------------------
(***************************************************************************)
(* Save and restore of the assets (asset-server.cc: handleAssetSrrReq,     *)
(* handleSave, handleRestore, saveAssets, buildRestoreTree, restoreAssets; *)
(* asset.cc: AssetImpl::restore), while the other threads of the agent     *)
(* serve their own requests.                                               *)
(*                                                                         *)
(* The interface has a thread of its own and serves one request at a time; *)
(* a step is a load, a database transaction or a request to the licensing  *)
(* agent.  The handlers of the other threads are whole here: AssetAgent    *)
(* has their steps.  A restore replays a payload saved any time before.    *)
(***************************************************************************)
EXTENDS AssetTables, Sequences

CONSTANTS
  Inside,       \* bound: <<k, l>> when clients put an asset of kind l into one of kind k
  Wires,        \* bound: <<a, b>> when clients may feed device b from device a
  NameOrder,    \* the names in the order of std::map<std::string, ...>
  MaxRequests,  \* bound on the requests received
  MaxChanges    \* bound on what the other threads do

ASSUME RestoreAssumption ==
  /\ MaxRequests \in Nat /\ MaxChanges \in Nat
  /\ Wires \subseteq Assets \X Assets
  /\ NameOrder \in Seq(Assets) /\ \A a \in Assets : \E i \in DOMAIN NameOrder : NameOrder[i] = a

(* An asset as it is saved: parent, status and the sources of its links.   *)
Saved == [parent : Assets \cup {None}, status : Statuses, sources : SUBSET Assets]
NoPayload == [a \in {} |-> None]

VARIABLES
  payload,      \* the file the client keeps
  pc, op,       \* what the interface is doing, for which request
  todo,         \* names listed and not yet loaded, or objects not yet restored
  loaded,       \* what saveAssets has collected
  held,         \* the AssetImpl objects of restoreAssets
  matrix,       \* ancestorMatrix of buildRestoreTree
  order,        \* the objects restored, first to last
  current,      \* the object being restored
  reply,        \* the answer to the last request; "lost" if there is none
  requests, changes,
  calm, fresh   \* history: see the properties

vars == <<rows, parent, status, links, licensed, payload, pc, op, todo, loaded, held, matrix,
          order, current, reply, requests, changes, calm, fresh>>
local == <<op, payload, held, matrix, requests, changes, calm, fresh>>

Object(a) == [parent |-> parent[a], status |-> status[a], sources |-> {l[1] : l \in LinksTo(a)}]
Extended(f, a, x) == [b \in DOMAIN f \cup {a} |-> IF b = a THEN x ELSE f[b]]

-----------------------------------------------------------------------------
(* saveAssets lists the names, then loads each asset; virtual assets are   *)
(* left out.  A row deleted in between throws: a save then answers FAILED, *)
(* but a restore, which makes a backup first, outside of its try block,    *)
(* does not answer at all.                                                 *)

Receive(o) ==
  /\ pc = "idle" /\ requests < MaxRequests
  /\ pc' = "load" /\ op' = o /\ todo' = rows /\ loaded' = NoPayload
  /\ reply' = "none" /\ requests' = requests + 1
  /\ UNCHANGED <<db, licensed, payload, held, matrix, order, current, changes, calm, fresh>>

Answer(r) == pc' = "idle" /\ reply' = r

Load ==
  /\ pc = "load"
  /\ \E a \in todo :
       /\ todo' = todo \ {a}
       /\ \/ /\ a \in rows
             /\ loaded' = IF Kind[a] = "virtual" THEN loaded ELSE Extended(loaded, a, Object(a))
             /\ UNCHANGED <<pc, reply>>
          \/ /\ a \notin rows
             /\ Answer(IF op = "save" THEN "FAILED" ELSE "lost")
             /\ UNCHANGED loaded
  /\ UNCHANGED <<db, licensed, local, order, current>>

FinishSave ==
  /\ pc = "load" /\ todo = {} /\ op = "save"
  /\ payload' = loaded
  /\ Answer("SUCCESS")
  /\ UNCHANGED <<db, licensed, op, todo, loaded, held, matrix, order, current, requests, changes,
                 calm, fresh>>

-----------------------------------------------------------------------------
(* buildRestoreTree: for each name in turn, whoever has it among its own   *)
(* inherits all that it has.  No name comes twice: each has one parent.    *)

NoChildren(p) == [x \in DOMAIN p \cup ({p[a].parent : a \in DOMAIN p} \ {None}) |-> {}]
Own(p) == [x \in DOMAIN p \cup ({p[a].parent : a \in DOMAIN p} \ {None}) |->
             {a \in DOMAIN p : p[a].parent = x}]
ChildrenOnly(m, k) == m
Inherit(m, k) == [x \in DOMAIN m |-> IF k \in m[x] THEN m[x] \cup m[k] ELSE m[x]]

Closure(p) ==
  LET m[n \in 0 .. Len(NameOrder)] ==
        IF n = 0 THEN Own(p)
        ELSE IF NameOrder[n] \in DOMAIN m[n - 1] THEN Inherit(m[n - 1], NameOrder[n])
        ELSE m[n - 1]
  IN m[Len(NameOrder)]

BuildRestoreTree ==
  /\ pc = "load" /\ todo = {} /\ op = "restore"
  /\ held' = payload /\ matrix' = Closure(payload)
  /\ todo' = DOMAIN payload /\ order' = <<>>
  /\ fresh' = (fresh /\ DOMAIN payload \cap rows = {})
  /\ pc' = "check"
  /\ UNCHANGED <<db, licensed, payload, op, loaded, current, reply, requests, changes, calm>>

-----------------------------------------------------------------------------
(* restoreAssets, one object after the other, the one with the most assets *)
(* below it first: std::sort may leave equal ones in any order.            *)

StillActive(a) == held
Downgraded(a) == [held EXCEPT ![a].status = "nonactive"]

Check ==
  /\ pc = "check"
  /\ \E a \in todo :
       /\ \A b \in todo : Cardinality(matrix[b]) <= Cardinality(matrix[a])
       /\ todo' = todo \ {a} /\ current' = a /\ order' = Append(order, a)
       /\ held' = IF Device(a) /\ held[a].status = "active" /\ ~HasCredit(a)
                  THEN Downgraded(a) ELSE held
       /\ pc' = "insert"
  /\ UNCHANGED <<db, licensed, payload, op, loaded, matrix, reply, requests, changes, calm, fresh>>

(* AssetImpl::restore.  An asset that is there already is an error that is *)
(* logged; a parent that is not there is a string thrown past every        *)
(* handler of exceptions but the last, and the request is not answered.    *)
Insert ==
  /\ pc = "insert"
  /\ LET o == held[current]
     IN \/ /\ current \in rows
           /\ pc' = "check"
           /\ UNCHANGED <<db, reply>>
        \/ /\ current \notin rows /\ o.parent \notin rows \cup {None}
           /\ Answer("lost")
           /\ UNCHANGED db
        \/ /\ current \notin rows /\ o.parent \in rows \cup {None}
           /\ rows' = rows \cup {current}
           /\ Write(current, o.parent, "nonactive")
           /\ pc' = IF o.status = "nonactive" THEN "check"
                    ELSE IF Device(current) THEN "activate" ELSE "markActive"
           /\ UNCHANGED <<links, reply>>
  /\ UNCHANGED <<licensed, local, todo, loaded, order, current>>

(* activate(): a device that gets no credit is skipped.                    *)
Activate ==
  /\ pc = "activate"
  /\ \/ HasCredit(current) /\ licensed' = licensed \cup {current} /\ pc' = "markActive"
     \/ ~HasCredit(current) /\ pc' = "check" /\ UNCHANGED licensed
  /\ UNCHANGED <<db, local, todo, loaded, order, current, reply>>

(* A row that cannot be written is skipped for a device; another asset is  *)
(* given up with deleteList, which unlinks it first and may refuse it.     *)
GiveUp(a) ==
  /\ links' = links \ LinksTo(a)
  /\ IF Deletable(a) THEN rows' = rows \ {a} /\ Write(a, None, "nonactive")
                     ELSE UNCHANGED <<rows, parent, status>>

MarkActive ==
  /\ pc = "markActive"
  /\ \/ /\ CanWrite(current, held[current].parent)
        /\ Write(current, held[current].parent, "active")
        /\ UNCHANGED <<rows, links>>
     \/ /\ ~CanWrite(current, held[current].parent)
        /\ IF Device(current) THEN UNCHANGED db ELSE GiveUp(current)
  /\ pc' = "check"
  /\ UNCHANGED <<licensed, local, todo, loaded, order, current, reply>>

(* The second loop, to restore the links, is an update of each object, in  *)
(* the same order; one that fails is logged.                               *)
NoLinks(o) == {}
LinkSources(o) == o.sources
Rest(s) == Tail(s)

StartLinks ==
  /\ pc = "check" /\ todo = {}
  /\ pc' = "links"
  /\ UNCHANGED <<db, licensed, local, todo, loaded, order, current, reply>>

SaveObject ==
  /\ pc = "links" /\ order # <<>>
  /\ LET a == Head(order)
         o == held[a]
     IN IF CanWrite(a, o.parent) /\ LinkSources(o) \subseteq rows
        THEN Write(a, o.parent, o.status) /\ SaveLinks(a, LinkSources(o))
        ELSE UNCHANGED <<parent, status, links>>
  /\ order' = Rest(order)
  /\ UNCHANGED <<rows, licensed, local, pc, todo, loaded, current, reply>>

FinishRestore ==
  /\ pc = "links" /\ order = <<>>
  /\ Answer("SUCCESS")
  /\ UNCHANGED <<db, licensed, local, todo, loaded, order, current>>

-----------------------------------------------------------------------------
(* The requests that the other threads serve meanwhile, each in one step.  *)

Create(a, p, w) ==
  /\ a \notin rows /\ p \in rows \cup {None}
  /\ rows' = rows \cup {a}
  /\ LET granted == w = "active" /\ (Device(a) => HasCredit(a))
     IN /\ Write(a, p, IF granted THEN "active" ELSE "nonactive")
        /\ licensed' = IF granted /\ Device(a) THEN licensed \cup {a} ELSE licensed
  /\ UNCHANGED links

Update(a, p, w) ==
  /\ CanWrite(a, p) /\ (Device(a) /\ w = "active" => HasCredit(a))
  /\ Write(a, p, w)
  /\ licensed' = IF ~Device(a) THEN licensed
                 ELSE IF w = "active" THEN licensed \cup {a} ELSE licensed \ {a}
  /\ UNCHANGED <<rows, links>>

Delete(a) ==
  /\ Deletable(a) /\ Kind[a] # "virtual"
  /\ rows' = rows \ {a}
  /\ Write(a, None, "nonactive")
  /\ links' = links \ LinksTo(a)
  /\ licensed' = licensed \ {a}

Change ==
  /\ changes < MaxChanges
  /\ changes' = changes + 1
  /\ calm' = (calm /\ pc = "idle")
  /\ \E a \in Assets :
       \/ Delete(a)
       \/ \E p \in Assets \cup {None}, w \in Statuses :
            /\ p # None => <<Kind[p], Kind[a]>> \in Inside
            /\ Create(a, p, w) \/ Update(a, p, w)
  /\ UNCHANGED <<payload, pc, op, todo, loaded, held, matrix, order, current, reply, requests,
                 fresh>>

-----------------------------------------------------------------------------
(* A payload saved from a consistent database.                             *)
Replayed ==
  \E S \in SUBSET {a \in Assets : Kind[a] # "virtual"} :
  \E up \in [S -> S \cup {None}], w \in [S -> Statuses],
     wired \in SUBSET {l \in Wires : {l[1], l[2]} \subseteq S} :
    /\ \A a \in S : up[a] # None => <<Kind[up[a]], Kind[a]>> \in Inside
    /\ Cardinality({a \in S : Device(a) /\ w[a] = "active"}) <= MaxActive
    /\ payload = [a \in S |-> [parent |-> up[a], status |-> w[a],
                               sources |-> {l[1] : l \in {x \in wired : x[2] = a}}]]

Init ==
  /\ Consistent(Inside, Wires)
  /\ Replayed
  /\ pc = "idle" /\ op = "save" /\ todo = {} /\ loaded = NoPayload /\ held = NoPayload
  /\ matrix = NoPayload /\ order = <<>> /\ current = None /\ reply = "none"
  /\ requests = 0 /\ changes = 0
  /\ calm = TRUE /\ fresh = TRUE

Step ==
  \/ Load \/ FinishSave \/ BuildRestoreTree \/ Check \/ Insert \/ Activate \/ MarkActive
  \/ StartLinks \/ SaveObject \/ FinishRestore

Next == (\E o \in {"save", "restore"} : Receive(o)) \/ Step \/ Change

Spec == Init /\ [][Next]_vars /\ WF_vars(Step)

-----------------------------------------------------------------------------
(* Properties.  A restore is calm when no other thread changed the         *)
(* database while it, or the save it replays, was running, and fresh when  *)
(* none of its assets was in the database.                                 *)

(* A calm and fresh restore gives back every asset that was saved, under   *)
(* its parent and with its links; it is active if it was, unless it is a   *)
(* device and no credit is left (buildRestoreTree puts parents before      *)
(* their children, and links come after all the assets).                   *)
RestoredAsSaved ==
  [][(op = "restore" /\ pc = "links" /\ pc' = "idle" /\ calm /\ fresh) =>
     \A a \in DOMAIN payload :
       /\ a \in rows /\ parent[a] = payload[a].parent
       /\ {l[1] : l \in LinksTo(a)} = payload[a].sources
       /\ status[a] = "active" <=>
            payload[a].status = "active" /\ (Device(a) => a \in licensed)
       /\ payload[a].status = "active" /\ status[a] = "nonactive"
            => Cardinality(licensed) = MaxActive]_vars

(* Only what other threads do meanwhile can lose the answer to a request   *)
(* (handleAssetSrrReq answers nothing when an exception reaches it).       *)
CalmRequestIsAnswered == calm => reply # "lost"

(* After calm and fresh restores a device holds a credit exactly when its  *)
(* row is active, whatever the licence had left (isActivable, activate and *)
(* the last update agree).                                                 *)
CreditsAgreeAfterRestore == (pc = "idle" /\ calm /\ fresh) => licensed = ActiveDevices
=============================================================================
