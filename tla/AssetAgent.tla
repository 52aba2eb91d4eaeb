----------------------------- MODULE AssetAgent -----------------------------
(***************************************************************************)
(* The handlers that create, update and delete assets, step by step, over  *)
(* the asset database they share.                                          *)
(*                                                                         *)
(* A thread of the agent is the new-generation mailbox (asset-server.cc:   *)
(* createAsset, updateAsset, deleteAsset), the legacy actor                *)
(* (fty_asset_server.cc: s_handle_subject_asset_manipulation) or the       *)
(* save-and-restore interface, of which the reset is here (handleReset).   *)
(* Each serves one request at a time, and between two of its steps another *)
(* thread may run: a step is a database transaction, a request to the      *)
(* licensing agent etn-licensing-credits, or a reply.  The handlers'       *)
(* common part is AssetImpl (asset.cc) over DB (asset-db.cc).              *)
(***************************************************************************)
EXTENDS AssetTables, Sequences

CONSTANTS
  RC0,          \* rackcontroller-0 (or None when it is not modelled)
  Threads,      \* threads that serve requests
  Legacy, Srr,  \* those that are the legacy actor, and the SRR interface
  LicenceFaults,\* TRUE if a request to the licensing agent may go unanswered
  Inside,       \* bound: <<k, l>> when clients put an asset of kind l into one of kind k
  Wires,        \* bound: <<a, b>> when clients may feed device b from device a
  Overlap,      \* bound: TRUE if a delete may list an asset twice, or with its ancestor
  MaxRequests   \* bound on the number of requests and metrics received

ASSUME AgentAssumption ==
  /\ RC0 \in Assets \cup {None}
  /\ Legacy \subseteq Threads /\ Srr \subseteq Threads
  /\ Wires \subseteq Assets \X Assets
  /\ MaxRequests \in Nat
  /\ LicenceFaults \in BOOLEAN
  /\ Overlap \in BOOLEAN

VARIABLES
  configurable, \* globalConfigurability # 0
  pc, job,      \* what each thread is doing
  reply,        \* its answer to its last request
  view,         \* what a subscriber knows of each asset from the notifications
  requests      \* requests received so far

vars == <<rows, parent, status, links, licensed, configurable, pc, job, reply, view, requests>>

PCs == {"idle", "ask", "insert", "store", "activate", "markActive", "undo", "deactivate",
        "markNonactive", "finish", "unlink", "next", "count", "drop", "ko"}

-----------------------------------------------------------------------------
(* The job of a thread: its request and the handler's local variables.     *)
(* asset, parent, sources and want are the Asset object the handler holds; *)
(* todo (with the number of copies), depth and seen are the list toDel of  *)
(* deleteList, as it was when it was filled; end is what follows it.       *)

NoJob == [op |-> "none", try |-> FALSE, kind |-> "other", asset |-> None, parent |-> None,
          sources |-> {}, want |-> "nonactive", activation |-> FALSE, deactivation |-> FALSE,
          end |-> "notify", removeLastDC |-> FALSE, todo |-> [a \in Assets |-> 0], depth |-> [a \in Assets |-> 0],
          seen |-> {}, result |-> [a \in Assets |-> "none"]]

Jobs == [op : {"none", "create", "update", "delete"}, try : BOOLEAN, kind : Kinds,
         asset : Assets \cup {None}, parent : Assets \cup {None}, sources : SUBSET Assets,
         want : Statuses, activation : BOOLEAN, deactivation : BOOLEAN,
         end : {"notify", "silent", "KO"}, removeLastDC : BOOLEAN,
         todo : [Assets -> Nat], depth : [Assets -> Nat], seen : SUBSET (Assets \X Assets),
         result : [Assets -> {"none", "OK", "refused"}]]

Goto(t, l) == pc' = [pc EXCEPT ![t] = l]
Set(t, j) == job' = [job EXCEPT ![t] = j]
Receive(t, j) ==
  /\ requests' = requests + 1
  /\ reply' = [reply EXCEPT ![t] = "none"]
  /\ Set(t, j)
Answer(t, r) ==
  /\ reply' = [reply EXCEPT ![t] = r]
  /\ Goto(t, "idle")
  /\ Set(t, NoJob)

-----------------------------------------------------------------------------
(* How deep an asset is.                                                   *)
Unsorted(a) == 0
Depth(a) == IF a \notin rows \/ parent[a] = None THEN 0 ELSE Cardinality(Above(a))

(* Where activate() and deactivate() start: only a device needs a credit.  *)
Activation(a) == IF Device(a) THEN "activate" ELSE "markActive"
Silently(a) == "markNonactive"
Deactivation(a) == IF Device(a) THEN "deactivate" ELSE "markNonactive"

-----------------------------------------------------------------------------
(* Create (createAsset, and "create" or "create-force" of the legacy       *)
(* manipulation).  The legacy actor asks the licence whatever the status.  *)

CreateJob(k, p, w, try, s) ==
  [NoJob EXCEPT !.op = "create", !.try = try, !.kind = k, !.parent = p, !.sources = s,
                !.want = w, !.activation = (w = "active")]

CreateAsset(t, k, p, w, try, s) ==
  /\ p # None => <<Kind[p], k>> \in Inside
  /\ s # {} => k = "device" /\ t \notin Legacy
  /\ try => k = "device"
  /\ Receive(t, CreateJob(k, p, w, try, s))
  /\ Goto(t, IF ~configurable THEN "ko"
             ELSE IF w = "active" \/ t \in Legacy THEN "ask" ELSE "insert")
  /\ UNCHANGED <<db, licensed, configurable, view>>

(* The name is drawn until it is unused; the row is always nonactive.      *)
Insertable(a, j) ==
  /\ a \notin rows \cup {RC0} /\ Kind[a] = j.kind
  /\ j.parent \in rows \cup {None}
  /\ j.sources \subseteq rows

Insert(t) ==
  /\ pc[t] = "insert"
  /\ \/ \E a \in Assets :
          /\ Insertable(a, job[t])
          /\ rows' = rows \cup {a}
          /\ Write(a, job[t].parent, "nonactive")
          /\ SaveLinks(a, job[t].sources)
          /\ Set(t, [job[t] EXCEPT !.asset = a])
          /\ Goto(t, IF job[t].activation THEN Activation(a) ELSE "finish")
     \/ /\ \A a \in Assets : ~Insertable(a, job[t])
        /\ Goto(t, "ko")
        /\ UNCHANGED <<db, job>>
  /\ UNCHANGED <<licensed, configurable, reply, view, requests>>

-----------------------------------------------------------------------------
(* Update (updateAsset, and "update" of the legacy manipulation).  The     *)
(* current row is read when the request arrives, and never again before it *)
(* is overwritten.                                                         *)

Rises(a, w) == status[a] = "nonactive" /\ w = "active"

Falls(a, w) == status[a] = "active" /\ w = "nonactive"

UpdateJob(a, p, w, try, s) ==
  [NoJob EXCEPT !.op = "update", !.try = try, !.kind = Kind[a], !.asset = a, !.parent = p,
                !.sources = s, !.want = w, !.activation = Rises(a, w),
                !.deactivation = Falls(a, w)]

UpdateAsset(t, a, p, w, try, s) ==
  /\ p # None => <<Kind[p], Kind[a]>> \in Inside
  /\ t \in Legacy => s = {} /\ ~try
  /\ try => Device(a) /\ w = "active"
  /\ Receive(t, UpdateJob(a, p, w, try,
                          IF t \in Legacy THEN {l[1] : l \in LinksTo(a)} ELSE s))
  /\ Goto(t, IF ~configurable \/ a \notin rows THEN "ko"
             ELSE IF Rises(a, w) \/ t \in Legacy THEN "ask" ELSE "store")
  /\ UNCHANGED <<db, licensed, configurable, view>>

(* isActivable: only a device is asked for, and no answer is a no.  With   *)
(* "try" (create-force) the asset is kept as nonactive; the legacy actor   *)
(* still activates it afterwards.                                          *)
Kept(t) == [job[t] EXCEPT !.want = "nonactive",
                          !.activation = IF t \in Legacy THEN @ ELSE FALSE]

Ask(t) ==
  /\ pc[t] = "ask"
  /\ LET j == job[t]
         store == IF j.op = "create" THEN "insert" ELSE "store"
     IN \/ /\ j.kind = "device" => HasCredit(j.asset)
           /\ Goto(t, store)
           /\ UNCHANGED job
        \/ /\ j.kind = "device" /\ (LicenceFaults \/ ~HasCredit(j.asset))
           /\ \/ /\ j.try
                 /\ Set(t, Kept(t))
                 /\ Goto(t, store)
              \/ /\ ~j.try
                 /\ Goto(t, "ko")
                 /\ UNCHANGED job
  /\ UNCHANGED <<db, licensed, configurable, reply, view, requests>>

(* AssetImpl::update: row and links in one transaction.                    *)
Storable(j) == CanWrite(j.asset, j.parent) /\ j.sources \subseteq rows

Store(t) ==
  /\ pc[t] = "store"
  /\ LET j == job[t]
     IN \/ /\ Storable(j)
           /\ Write(j.asset, j.parent, j.want)
           /\ SaveLinks(j.asset, j.sources)
           /\ Goto(t, IF j.activation THEN Activation(j.asset)
                      ELSE IF j.deactivation THEN Deactivation(j.asset) ELSE "finish")
        \/ /\ ~Storable(j)
           /\ Goto(t, "ko")
           /\ UNCHANGED <<parent, status, links>>
  /\ UNCHANGED <<rows, licensed, configurable, job, reply, view, requests>>

(* The activation of a stored container failed: back to nonactive, and KO. *)
Undo(t) ==
  /\ pc[t] = "undo"
  /\ LET j == job[t]
     IN \/ /\ Storable(j)
           /\ Write(j.asset, j.parent, "nonactive")
           /\ SaveLinks(j.asset, j.sources)
        \/ /\ ~Storable(j)
           /\ UNCHANGED <<parent, status, links>>
  /\ Goto(t, "ko")
  /\ UNCHANGED <<rows, licensed, configurable, job, reply, view, requests>>

-----------------------------------------------------------------------------
(* activate() and deactivate(): the licensing agent first, then the row.   *)
(* An error about a device is logged and swallowed by both; a lost answer  *)
(* is an error, whatever the licensing agent did.                          *)

Activated(j) == IF j.op = "delete" THEN "next" ELSE "finish"
Erasure(j) == IF Location(j.asset) /\ ~j.removeLastDC THEN "count" ELSE "drop"
Deactivated(j) == IF j.op = "delete" THEN Erasure(j) ELSE "finish"
Refuse(j) == [j EXCEPT !.result[j.asset] = "refused"]

(* deleteList of the new asset alone; the request has failed.              *)
GivenUp(j) == [j EXCEPT !.op = "delete", !.end = "KO", !.todo[j.asset] = 1,
                        !.seen = LinksTo(j.asset)]

Activate(t) ==
  /\ pc[t] = "activate"
  /\ LET a == job[t].asset
     IN \/ /\ HasCredit(a)
           /\ licensed' = licensed \cup {a}
           /\ \/ Goto(t, "markActive")
              \/ LicenceFaults /\ Goto(t, Activated(job[t]))
        \/ /\ LicenceFaults \/ ~HasCredit(a)
           /\ Goto(t, Activated(job[t]))
           /\ UNCHANGED licensed
  /\ UNCHANGED <<db, configurable, job, reply, view, requests>>

MarkActive(t) ==
  /\ pc[t] = "markActive"
  /\ LET j == [job[t] EXCEPT !.want = "active"]
         a == j.asset
     IN \/ /\ CanWrite(a, j.parent)
           /\ Write(a, j.parent, "active")
           /\ Set(t, j)
           /\ Goto(t, Activated(j))
        \/ /\ ~CanWrite(a, j.parent)
           /\ UNCHANGED <<parent, status>>
           /\ \/ /\ Device(a) \/ j.op = "delete"
                 /\ Set(t, j)
                 /\ Goto(t, Activated(j))
              \/ /\ ~Device(a) /\ j.op = "update"
                 /\ Set(t, j)
                 /\ Goto(t, "undo")
              \/ /\ ~Device(a) /\ j.op = "create"
                 /\ IF a \in rows /\ Kind[a] # "virtual"
                    THEN /\ Set(t, GivenUp(j))
                         /\ Goto(t, "unlink")
                    ELSE Set(t, j) /\ Goto(t, "ko")
  /\ UNCHANGED <<rows, links, licensed, configurable, reply, view, requests>>

Deactivate(t) ==
  /\ pc[t] = "deactivate"
  /\ \/ /\ licensed' = licensed \ {job[t].asset}
        /\ \/ Goto(t, "markNonactive")
           \/ LicenceFaults /\ Goto(t, Deactivated(job[t]))
     \/ /\ LicenceFaults
        /\ Goto(t, Deactivated(job[t]))
        /\ UNCHANGED licensed
  /\ UNCHANGED <<db, configurable, job, reply, view, requests>>

MarkNonactive(t) ==
  /\ pc[t] = "markNonactive"
  /\ LET j == [job[t] EXCEPT !.want = "nonactive"]
         a == j.asset
     IN \/ /\ CanWrite(a, j.parent)
           /\ Write(a, j.parent, "nonactive")
           /\ Set(t, j)
           /\ Goto(t, Deactivated(j))
        \/ /\ ~CanWrite(a, j.parent)
           /\ UNCHANGED <<parent, status>>
           /\ \/ Device(a) /\ Set(t, j) /\ Goto(t, Deactivated(j))
              \/ ~Device(a) /\ j.op = "update" /\ Set(t, j) /\ Goto(t, "ko")
              \/ ~Device(a) /\ j.op = "delete" /\ Set(t, Refuse(j)) /\ Goto(t, "next")
  /\ UNCHANGED <<rows, links, licensed, configurable, reply, view, requests>>

-----------------------------------------------------------------------------
(* The end of a create or an update: reload, reply, notify.  The legacy    *)
(* create answers and notifies with the object it holds.                   *)

Finish(t) ==
  /\ pc[t] = "finish"
  /\ LET j == job[t]
         held == j.op = "create" /\ t \in Legacy
     IN \/ /\ held \/ j.asset \in rows
           /\ view' = [view EXCEPT ![j.asset] = IF held THEN j.want ELSE status[j.asset]]
           /\ Answer(t, "OK")
        \/ /\ ~held /\ j.asset \notin rows
           /\ Goto(t, "ko")
           /\ UNCHANGED <<job, reply, view>>
  /\ UNCHANGED <<db, licensed, configurable, requests>>

(* The catch blocks of the handlers.                                       *)
Ko(t) ==
  /\ pc[t] = "ko"
  /\ Answer(t, "KO")
  /\ UNCHANGED <<db, licensed, configurable, view, requests>>

-----------------------------------------------------------------------------
(* Delete (deleteAsset, deleteList), and the reset of the SRR interface:   *)
(* the list of all assets but rackcontroller-0, the last datacenter too,   *)
(* without any notification and whether or not the licence allows it.      *)

(* A listed name that is missing or virtual is skipped.                    *)
Listed(list, i) == list[i] \in rows /\ Kind[list[i]] # "virtual"

(* addSubTree adds the assets below a listed one that are not there yet.   *)
Below(list, d) ==
  \E i \in DOMAIN list :
    /\ Listed(list, i) /\ d \in SubTree(list[i])
    /\ \A k \in 1 .. i - 1 : list[k] = d => ~Listed(list, k)

ToDel(list, recursive) ==
  [d \in Assets |-> Cardinality({i \in DOMAIN list : list[i] = d /\ Listed(list, i)})
                    + IF recursive /\ Below(list, d) THEN 1 ELSE 0]

(* What deleteList keeps of its list, once it has filled it.               *)
DeleteJob(todo, end, removeLastDC) ==
  [NoJob EXCEPT !.op = "delete", !.end = end, !.removeLastDC = removeLastDC,
                !.todo = todo, !.depth = [d \in Assets |-> Depth(d)],
                !.seen = {l \in links : todo[l[2]] > 0}]

DeleteAsset(t, list, recursive) ==
  /\ ~Overlap => \A d \in Assets : ToDel(list, recursive)[d] <= 1
  /\ Receive(t, DeleteJob(ToDel(list, recursive), "notify", FALSE))
  /\ Goto(t, IF configurable THEN "unlink" ELSE "ko")
  /\ UNCHANGED <<db, licensed, configurable, view>>

All == [d \in Assets |-> IF d \in rows \ {RC0} /\ Kind[d] # "virtual" THEN 1 ELSE 0]

Reset(t) ==
  /\ Receive(t, DeleteJob(All, "silent", TRUE))
  /\ Goto(t, "unlink")
  /\ UNCHANGED <<db, licensed, configurable, view>>

(* The links that end at the assets of the list go first, outside of any   *)
(* transaction; a row that is gone stops the loop.                         *)
Unlink(t) ==
  /\ pc[t] = "unlink"
  /\ LET j == job[t]
         list == {d \in Assets : j.todo[d] > 0}
     IN \/ /\ list \subseteq rows
           /\ links' = links \ j.seen
           /\ Goto(t, "next")
        \/ \E done \in SUBSET (list \cap rows) :
             /\ ~(list \subseteq rows)
             /\ links' = links \ {l \in j.seen : l[2] \in done}
             /\ Goto(t, "ko")
  /\ UNCHANGED <<rows, parent, status, licensed, configurable, job, reply, view, requests>>

(* The deepest assets first, each reloaded; remove() refuses               *)
(* rackcontroller-0, the source of a link and an asset that has children.  *)
Removable(d) == d # RC0 /\ ~HasLinkedAssets(d) /\ Children(d) = {}

NeverErased(j, d) ==
  [j EXCEPT !.asset = d, !.kind = Kind[d], !.parent = parent[d], !.want = status[d],
            !.sources = {l[1] : l \in LinksTo(d)}]
Taken(j, d) ==
  [j EXCEPT !.todo[d] = @ - 1, !.asset = d, !.kind = Kind[d], !.parent = parent[d],
            !.want = status[d], !.sources = {l[1] : l \in LinksTo(d)}]

Remove(t) ==
  /\ pc[t] = "next"
  /\ \E d \in Assets :
       /\ job[t].todo[d] > 0
       /\ \A e \in Assets : job[t].todo[e] > 0 => job[t].depth[e] <= job[t].depth[d]
       /\ LET j == Taken(job[t], d)
          IN \/ d \notin rows /\ Goto(t, "ko") /\ UNCHANGED job
             \/ d \in rows /\ ~Removable(d) /\ Set(t, Refuse(j)) /\ Goto(t, "next")
             \/ /\ d \in rows /\ Removable(d)
                /\ Set(t, j)
                /\ Goto(t, IF status[d] = "active" THEN Deactivation(d) ELSE Erasure(j))
  /\ UNCHANGED <<db, licensed, configurable, reply, view, requests>>

(* remove() refuses a location when there is no other datacenter: a count  *)
(* that locks nothing, before the statements that remove the row.  What is *)
(* refused from here on is activated again if it was read as active.       *)
Refused(t, j) ==
  /\ Set(t, Refuse(j))
  /\ Goto(t, IF j.want = "active" THEN Activation(j.asset) ELSE "next")

Count(t) ==
  /\ pc[t] = "count"
  /\ LET j == job[t]
         another == j.asset \in rows /\ ~IsLastDataCenter(j.asset)
     IN \/ another /\ Goto(t, "drop") /\ UNCHANGED job
        \/ ~another /\ Refused(t, j)
  /\ UNCHANGED <<db, licensed, configurable, reply, view, requests>>

(* The statements that remove the row.  The one that empties a group names *)
(* a column the table does not have, so no group is ever removed; foreign  *)
(* keys refuse the rest.                                                   *)
WithoutForeignKeys(d, sources) == d \in rows /\ Kind[d] # "group"
Droppable(d, sources) ==
  /\ d \in rows /\ Children(d) = {} /\ ~HasLinkedAssets(d)
  /\ LinksTo(d) \subseteq IF Device(d) THEN {<<s, d>> : s \in sources} ELSE {}
  /\ Kind[d] # "group"

Drop(t) ==
  /\ pc[t] = "drop"
  /\ LET j == job[t]
         d == j.asset
     IN \/ /\ Droppable(d, j.sources)
           /\ rows' = rows \ {d}
           /\ Write(d, None, "nonactive")
           /\ links' = links \ LinksTo(d)
           /\ Set(t, [j EXCEPT !.result[d] = "OK"])
           /\ Goto(t, "next")
        \/ /\ ~Droppable(d, j.sources)
           /\ Refused(t, j)
           /\ UNCHANGED db
  /\ UNCHANGED <<licensed, configurable, reply, view, requests>>

(* The list is done.  deleteAsset notifies each asset removed, and replies;*)
(* a reset only replies, and a failed create has still to say KO.          *)
DevicesOnly(j) ==
  [a \in Assets |-> IF Device(a) /\ j.result[a] = "OK" THEN "absent" ELSE view[a]]
Notified(j) == [a \in Assets |-> IF j.result[a] = "OK" THEN "absent" ELSE view[a]]

Report(t) ==
  /\ pc[t] = "next" /\ \A d \in Assets : job[t].todo[d] = 0
  /\ \/ /\ job[t].end = "notify"
        /\ view' = Notified(job[t])
        /\ Answer(t, "OK")
     \/ /\ job[t].end = "silent"
        /\ Answer(t, "OK")
        /\ UNCHANGED view
     \/ /\ job[t].end = "KO"
        /\ Goto(t, "ko")
        /\ UNCHANGED <<view, job, reply>>
  /\ UNCHANGED <<db, licensed, configurable, requests>>

-----------------------------------------------------------------------------
(* handle_incoming_limitations, a message of the legacy actor: the licence *)
(* may freeze the assets, and thaw them.                                   *)
HandleIncomingLimitations ==
  /\ \A t \in Legacy : pc[t] = "idle"
  /\ requests < MaxRequests
  /\ requests' = requests + 1
  /\ configurable' = ~configurable
  /\ UNCHANGED <<db, licensed, pc, job, reply, view>>

(* The agent starts on the database of an earlier run: every parent and    *)
(* link has its row, credits and notifications are those of the rows.      *)
Init ==
  /\ Consistent(Inside, Wires)
  /\ RC0 # None => RC0 \in rows
  /\ configurable = TRUE
  /\ pc = [t \in Threads |-> "idle"]
  /\ job = [t \in Threads |-> NoJob]
  /\ reply = [t \in Threads |-> "none"]
  /\ view = [a \in Assets |-> IF a \in rows THEN status[a] ELSE "absent"]
  /\ requests = 0

Step(t) ==
  \/ Ask(t) \/ Insert(t) \/ Store(t) \/ Undo(t)
  \/ Activate(t) \/ MarkActive(t) \/ Deactivate(t) \/ MarkNonactive(t)
  \/ Finish(t) \/ Unlink(t) \/ Remove(t) \/ Count(t) \/ Drop(t) \/ Report(t) \/ Ko(t)

Request(t) ==
  /\ pc[t] = "idle" /\ requests < MaxRequests
  /\ \/ \E k \in {Kind[a] : a \in Assets \ {RC0}}, p \in Assets \cup {None}, w \in Statuses,
           try \in BOOLEAN, s \in {{}} \cup {{x[1]} : x \in Wires} :
          t \notin Srr /\ CreateAsset(t, k, p, w, try, s)
     \/ \E a \in Assets, p \in Assets \cup {None}, w \in Statuses, try \in BOOLEAN :
        \E s \in {{}} \cup {{x[1]} : x \in {y \in Wires : y[2] = a}} :
          t \notin Srr /\ UpdateAsset(t, a, p, w, try, s)
     \/ \E list \in UNION {[1 .. n -> Assets] : n \in 1 .. 2}, recursive \in BOOLEAN :
          t \notin Srr \cup Legacy /\ DeleteAsset(t, list, recursive)
     \/ t \in Srr /\ Reset(t)

Next == HandleIncomingLimitations \/ \E t \in Threads : Request(t) \/ Step(t)

Spec == Init /\ [][Next]_vars

(* A thread that holds a request keeps running: requests to the licensing  *)
(* agent time out, and no lock is held while one is waited for.            *)
FairSpec == Spec /\ \A t \in Threads : WF_vars(Step(t))

-----------------------------------------------------------------------------
(* Properties.                                                             *)

(* Every variable keeps its type; the rows the handlers write and the      *)
(* Asset objects they hold are well formed.                                *)
TypeOK ==
  /\ rows \in SUBSET Assets
  /\ parent \in [Assets -> Assets \cup {None}]
  /\ status \in [Assets -> Statuses]
  /\ links \in SUBSET (Assets \X Assets)
  /\ licensed \in SUBSET Assets
  /\ configurable \in BOOLEAN
  /\ pc \in [Threads -> PCs]
  /\ job \in [Threads -> Jobs]
  /\ reply \in [Threads -> {"none", "OK", "KO"}]
  /\ view \in [Assets -> Statuses \cup {"absent"}]
  /\ requests \in Nat

(* Whatever the threads interleave, a parent and both ends of a link are   *)
(* rows: insert, update and saveLinkedAssets look them up in the           *)
(* transaction that writes, however long ago the request was checked, and  *)
(* a removal leaves nothing that points at the row.                        *)
NoDanglingReference ==
  /\ \A a \in Assets : parent[a] # None => a \in rows /\ parent[a] \in rows
  /\ \A l \in links : l[1] \in rows /\ l[2] \in rows

Idle == \A t \in Threads : pc[t] = "idle"

(* Between requests the licensing agent and the database agree: a device   *)
(* holds a credit exactly when its row is active, after any sequence of    *)
(* creates, updates and deletes (activate, deactivate, remove).            *)
CreditsAgree == Idle => licensed = ActiveDevices

(* Between requests a subscriber of the notifications knows which assets   *)
(* there are: no request creates or removes one without its notification.  *)
SubscribersKnowAssets == Idle => rows = {a \in Assets : view[a] # "absent"}

(* Users cannot delete the last datacenter: once there is one, there is    *)
(* one for ever, or until the first reset.  remove() counts the others in  *)
(* one step and removes the row in a later one, with the other threads in  *)
(* between; what keeps two removals from passing the count together is     *)
(* that one mailbox alone serves deletes, and that the take-back of a      *)
(* failed create, of any thread, is never about a datacenter.              *)
NoResetYet == \A t \in Srr : pc[t] = "idle" /\ reply[t] = "none"
LastDatacenterStays ==
  [][(NoResetYet /\ \E d \in rows : Kind[d] = "datacenter") =>
     (\E d \in rows' : Kind[d] = "datacenter")]_vars

(* A recursive or repeated delete removes all it can: what it refused      *)
(* still has a reason when the list is done.  Children are tried before    *)
(* their parents, and no link inside the list stands in the way.           *)
Reports(t) == pc[t] = "next" /\ pc'[t] = "idle"
Explained(d) ==
  \/ d = RC0 \/ Kind[d] = "group"
  \/ Location(d) /\ IsLastDataCenter(d)
  \/ HasLinkedAssets(d) \/ Children(d) # {}
RefusalsAreExplained ==
  [][\A t \in Threads, d \in Assets :
       (Reports(t) /\ job[t].result[d] = "refused") => Explained(d)]_vars

(* Every request is answered.                                              *)
Answered == \A t \in Threads : pc[t] # "idle" ~> pc[t] = "idle"
=============================================================================
