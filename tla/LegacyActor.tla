---------------------------- MODULE LegacyActor ----------------------------
(***************************************************************************)
(* The loop of the agent's actor (fty_asset_server.cc): queries answered   *)
(* from its mailbox, and the publication of assets on the stream, for a    *)
(* REPUBLISH request, for the hourly REPEAT_ALL, or for what an updated    *)
(* location contains.  Publishing reads the asset, stores a uuid if it has *)
(* none, then sends; the thread of the new interface does the same after a *)
(* creation or an update (asset-server.cc: sendNotification).              *)
(* create_ts is given and stored in the way of the uuid.                   *)
(***************************************************************************)
EXTENDS AssetStream

CONSTANTS
  Clients,          \* programs that send requests to the agent
  All,              \* "$all"
  Identity          \* the uuid computed from manufacturer, model and serial number,
                    \* None when one of them is unknown

Publishers == {"agent", "ng"}
Queries == {"ASSETS", "ASSETS_IN_CONTAINER", "ENAME_FROM_INAME", "TOPOLOGY"}

(* A request: its subject, the command in its first frame, the client, and *)
(* the names it is about: the container, or the assets.                    *)
Request(subject, client, names) ==
  [subject |-> subject, command |-> "GET", client |-> client, names |-> names]
BadRequest(subject, client) == [Request(subject, client, {}) EXCEPT !.command = "other"]
Requests == [subject : Queries \cup {"REPUBLISH", "ASSET_DETAIL"}, command : {"GET", "other"},
             client : Clients \cup {"autoupdate"}, names : SUBSET (Assets \cup {All})]
Idle == [task |-> "idle", client |-> None, todo |-> {}]
Quiet == [at |-> "idle", asset |-> None, uuid |-> None, to |-> None]

VARIABLES
  work,             \* what the actor is busy with: task, client to answer, names left
  pub,              \* the publication each thread is making
  answer,           \* what each client last received; "waiting" for an answer
  known,            \* the uuid last published about each asset
  raced,            \* history: assets whose uuid two threads, or a failure, may have split
  owed              \* history: assets of this task that are still there, to be published

legacyVars == <<work, pub, answer, known, raced, owed>>

Free == work.task = "idle"
InUse == {uuid[a] : a \in Assets} \cup {known[a] : a \in Assets}
           \cup {pub[p].uuid : p \in Publishers}
(* fty_uuid_calculate, or fty_uuid_generate, which does not repeat itself. *)
NewUuid(a) == IF Identity[a] # None THEN Identity[a] ELSE CHOOSE u \in Uuids : u \notin InUse

-----------------------------------------------------------------------------
(* Queries: a status and the names that follow it.                         *)

OK(names) == [status |-> "OK", names |-> names]
ERROR == [status |-> "ERROR", names |-> {}]

(* The container "" is everything; only autoupdate asks for it, with the   *)
(* filter "rack controller".  A bad command puts ERROR in front of the     *)
(* answer, which follows as if it were none.                               *)
AssetsInContainer(m) ==
  LET names == IF m.names = {} THEN elements \cap RackControllers
                               ELSE UNION {Contents(c) : c \in m.names}
  IN  IF m.command = "GET" /\ m.names \subseteq elements THEN OK(names) ELSE ERROR
AssetsByFilter(m) == IF m.command = "GET" THEN OK(elements) ELSE ERROR
EnameFromIname(m) == IF m.names \cap elements # {} THEN OK(m.names) ELSE ERROR
(* Each of the five commands needs an asset that is there.                 *)
Topology(m) == IF m.command = "GET" /\ m.names \cap elements # {} THEN OK(m.names) ELSE ERROR

Result(m) ==
  CASE m.subject = "ASSETS_IN_CONTAINER" -> AssetsInContainer(m)
    [] m.subject = "ASSETS" -> AssetsByFilter(m)
    [] m.subject = "ENAME_FROM_INAME" -> EnameFromIname(m)
    [] m.subject = "TOPOLOGY" -> Topology(m)

Reply(client, status, names) ==
  IF client = "autoupdate"
  THEN autoBox' = Append(autoBox, [status |-> status, names |-> names]) /\ UNCHANGED answer
  ELSE answer' = [answer EXCEPT ![client] = status] /\ UNCHANGED autoBox

Query ==
  /\ Free /\ mailbox # <<>> /\ Head(mailbox).subject \in Queries
  /\ mailbox' = Tail(mailbox)
  /\ LET m == Head(mailbox)
     IN  \/ Reply(m.client, Result(m).status, Result(m).names) /\ UNCHANGED faults
         \/ Reply(m.client, "ERROR", {}) /\ Fault
  /\ UNCHANGED <<tables, inventoryBox, agentBox, work, pub, known, raced, owed>>

-----------------------------------------------------------------------------
(* Tasks that publish.  s_repeat_all lists the assets first; when the      *)
(* statement fails it publishes nothing, and DONE is answered all the      *)
(* same.                                                                   *)

Start(task, client, names) ==
  /\ work' = [task |-> task, client |-> client, todo |-> names]
  /\ owed' = names
Publishing == UNCHANGED <<tables, inventoryBox, autoBox, pub, answer, known, raced>>

Republish ==
  /\ Free /\ mailbox # <<>> /\ Head(mailbox).subject = "REPUBLISH"
  /\ mailbox' = Tail(mailbox)
  /\ LET m == Head(mailbox)
         names == IF All \in m.names \/ m.names = {} THEN elements ELSE m.names \cap elements
     IN  \/ Start("republish", m.client, names) /\ UNCHANGED faults
         \/ Start("republish", m.client, {}) /\ Fault
  /\ Publishing /\ UNCHANGED agentBox

RepeatNamed ==
  Free /\ Start("repeat", None, {}) /\ Publishing /\ UNCHANGED <<agentBox, mailbox, faults>>
RepeatAll ==
  /\ Free
  /\ \/ Start("repeat", None, elements) /\ UNCHANGED faults
     \/ Start("repeat", None, {}) /\ Fault
  /\ Publishing /\ UNCHANGED <<agentBox, mailbox>>

UpdateTopology ==
  /\ Free /\ agentBox # <<>>
  /\ agentBox' = Tail(agentBox)
  /\ \/ Start("update", None, Contents(Head(agentBox))) /\ UNCHANGED faults
     \/ Start("update", None, {}) /\ Fault
  /\ Publishing /\ UNCHANGED mailbox

(* ASSET_DETAIL sends the message to the client.                           *)
Detail ==
  /\ Free /\ mailbox # <<>> /\ Head(mailbox).subject = "ASSET_DETAIL"
  /\ mailbox' = Tail(mailbox)
  /\ LET m == Head(mailbox)
     IN  \/ /\ m.command = "GET" /\ Start("detail", m.client, m.names)
            /\ Publishing
         \/ /\ m.command # "GET" /\ Reply(m.client, "ERROR", {})
            /\ UNCHANGED <<tables, inventoryBox, work, pub, known, raced, owed>>
  /\ UNCHANGED <<agentBox, faults>>

FinishUnanswered ==
  /\ ~Free /\ work.todo = {} /\ pub["agent"] = Quiet
  /\ work' = Idle
  /\ UNCHANGED <<tables, inventoryBox, agentBox, mailbox, autoBox, faults, pub, answer, known, raced,
                 owed>>

(* The task is over.  A detail answers by its publication.                 *)
Finish ==
  /\ ~Free /\ work.todo = {} /\ pub["agent"] = Quiet
  /\ work' = Idle
  /\ IF work.task = "republish" THEN Reply(work.client, "DONE", {})
                                ELSE UNCHANGED <<answer, autoBox>>
  /\ UNCHANGED <<tables, inventoryBox, agentBox, mailbox, faults, pub, known, raced, owed>>

-----------------------------------------------------------------------------
(* s_publish_create_or_update_asset_msg for asset a.  An asset that is     *)
(* gone, or a select that fails, gives no message: on the stream nothing   *)
(* is sent, a detail is answered with an error.                            *)

Publication(p, a, to) ==
  [at |-> IF uuid[a] = None THEN "mint" ELSE "send", asset |-> a, uuid |-> uuid[a], to |-> to]
NoMessage(to) ==
  IF to = None THEN UNCHANGED <<answer, autoBox>> ELSE Reply(to, "ERROR", {})

Missed(p, a) == owed' = IF p = "agent" THEN owed \ {a} ELSE owed

(* Another thread that has read the asset without uuid will store its own. *)
Minting(a) == \E p \in Publishers : pub[p].asset = a /\ pub[p].at = "mint"
Read(p, a, to) ==
  /\ pub[p] = Quiet
  /\ \/ /\ a \in elements
        /\ pub' = [pub EXCEPT ![p] = Publication(p, a, to)]
        /\ raced' = IF Identity[a] = None /\ Minting(a) /\ uuid[a] = None
                     THEN raced \cup {a} ELSE raced
        /\ UNCHANGED <<answer, autoBox, faults, owed>>
     \/ /\ a \notin elements /\ NoMessage(to)
        /\ UNCHANGED <<pub, raced, faults, owed>>
     \/ /\ Fault /\ NoMessage(to) /\ Missed(p, a)
        /\ UNCHANGED <<pub, raced>>

MintUnstored(p) ==
  /\ pub[p].at = "mint"
  /\ pub' = [pub EXCEPT ![p].at = "send", ![p].uuid = NewUuid(pub[p].asset)]
  /\ UNCHANGED <<tables, inventoryBox, agentBox, mailbox, autoBox, faults, work, answer, known,
                 raced, owed>>

(* The row may have gone, or the connection fail: the error is ignored.    *)
Mint(p) ==
  /\ pub[p].at = "mint"
  /\ LET a == pub[p].asset
         u == NewUuid(a)
     IN  /\ pub' = [pub EXCEPT ![p].at = "send", ![p].uuid = u]
         /\ \/ /\ a \in elements /\ uuid' = [uuid EXCEPT ![a] = u]
               /\ UNCHANGED <<raced, faults>>
            \/ /\ a \notin elements /\ raced' = raced \cup {a} /\ UNCHANGED <<uuid, faults>>
            \/ /\ Fault /\ raced' = raced \cup {a} /\ UNCHANGED uuid
  /\ UNCHANGED <<elements, ext, inventoryBox, agentBox, mailbox, autoBox, work, answer, known,
                 owed>>

Send(p) ==
  /\ pub[p].at = "send"
  /\ pub' = [pub EXCEPT ![p] = Quiet]
  /\ LET a == pub[p].asset
     IN  \/ /\ pub[p].to = None
            /\ known' = [known EXCEPT ![a] = pub[p].uuid]
            /\ owed' = owed \ {a}
            /\ UNCHANGED <<answer, autoBox, faults>>
         \/ /\ pub[p].to # None /\ Reply(pub[p].to, "OK", {a})
            /\ UNCHANGED <<known, faults, owed>>
         \/ /\ Fault /\ NoMessage(pub[p].to) /\ Missed(p, a)
            /\ UNCHANGED known
  /\ UNCHANGED <<tables, inventoryBox, agentBox, mailbox, work, raced>>

PublishUntilOneIsGone ==
  /\ \E a \in work.todo :
       /\ Read("agent", a, IF work.task = "detail" THEN work.client ELSE None)
       /\ work' = [work EXCEPT !.todo = IF a \in elements THEN @ \ {a} ELSE {}]
  /\ UNCHANGED <<tables, inventoryBox, agentBox, mailbox, known>>
PublishNext ==
  /\ \E a \in work.todo :
       /\ Read("agent", a, IF work.task = "detail" THEN work.client ELSE None)
       /\ work' = [work EXCEPT !.todo = @ \ {a}]
  /\ UNCHANGED <<tables, inventoryBox, agentBox, mailbox, known>>

ServeMailbox == Query \/ Republish \/ Detail
AgentStep ==
  \/ ServeMailbox \/ UpdateTopology \/ PublishNext \/ Finish
  \/ Mint("agent") \/ Send("agent")
=============================================================================
