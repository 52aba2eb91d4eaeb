------------------------------- MODULE Actors -------------------------------
(***************************************************************************)
(* The three actors of fty-asset.cc on one stream and one database, with   *)
(* the programs around them: the thread of the agent's new interface, the  *)
(* asset library in the process of the REST interface (which announces its *)
(* changes itself: asset-configure-inform.cpp), drivers that report        *)
(* inventory, and clients of the mailbox.  A crash stops the whole process *)
(* and systemd starts it again.                                            *)
(***************************************************************************)
EXTENDS Inventory, LegacyActor, Autoupdate

CONSTANTS
  Activities,       \* bound: what happens around the actors
  Reports,          \* bound: inventories the drivers report
  Edits,            \* bound: <<k, v>> when users give the keytag k the value v
  Questions,        \* bound: requests the clients send
  MaxChanges        \* bound on what the others do

ASSUME ActorsAssumption ==
  /\ MaxChanges \in Nat /\ Reports \subseteq Inventories /\ Edits \subseteq Keys \X Values
  /\ "library" \in Clients

VARIABLES
  pending,          \* changes the library has made and not announced yet
  ngTodo,           \* the asset the thread of the new interface has to publish
  changes,
  silent            \* history: assets deleted without a message on the stream

others == <<pending, ngTodo, changes, silent>>
actors == <<inventoryVars, legacyVars, rcs>>
vars == <<tables, inventoryBox, agentBox, mailbox, autoBox, faults, actors, interfaces, others>>

Init ==
  /\ elements \in SUBSET Assets
  /\ \A a \in elements : Container[a] # None => Container[a] \in elements
  /\ ext = [a \in Assets |-> NoRow] /\ uuid = [a \in Assets |-> None]
  /\ inventoryBox = <<>> /\ agentBox = <<>> /\ mailbox = <<>> /\ autoBox = <<>>
  /\ faults = 0
  /\ cache = [a \in Assets |-> NoRow] /\ fate = [a \in Assets |-> [k \in Keys |-> "kept"]]
  /\ work = Idle /\ pub = [p \in Publishers |-> Quiet]
  /\ answer = [c \in Clients |-> "none"] /\ known = [a \in Assets |-> None]
  /\ raced = {} /\ owed = {}
  /\ interfaces \in Interfaces /\ rcs = {}
  /\ pending = <<>> /\ ngTodo = None /\ changes = 0 /\ silent = {}

-----------------------------------------------------------------------------
(* Changes made by others.                                                 *)

Change(activity) ==
  /\ activity \in Activities /\ changes < MaxChanges /\ changes' = changes + 1
  /\ UNCHANGED <<agentBox, mailbox, autoBox, faults, cache, work, pub, answer, rcs>>
Untouched == UNCHANGED <<elements, ext, uuid, fate, known, raced, owed, pending, ngTodo, silent>>

(* Who makes the change: the library announces it later, the thread of the *)
(* new interface publishes the asset.                                      *)
MadeBy(who, op, a) ==
  \/ /\ who = "library" /\ Room(pending)
     /\ pending' = Append(pending, [op |-> op, name |-> a]) /\ UNCHANGED ngTodo
  \/ /\ who = "ng" /\ ngTodo = None /\ pub["ng"] = Quiet
     /\ ngTodo' = IF op = "delete" THEN None ELSE a
     /\ UNCHANGED pending

Create(who, a) ==
  /\ Change("create") /\ a \notin elements
  /\ Container[a] # None => Container[a] \in elements
  /\ elements' = elements \cup {a}
  /\ MadeBy(who, "create", a)
  /\ UNCHANGED <<ext, uuid, fate, known, raced, owed, silent, inventoryBox, interfaces>>

Update(who, a) ==
  /\ Change("update") /\ a \in elements
  /\ \E e \in Edits : /\ ext' = [ext EXCEPT ![a][e[1]] = e[2]]
                      /\ fate' = [fate EXCEPT ![a][e[1]] = "changed"]
  /\ MadeBy(who, "update", a)
  /\ UNCHANGED <<elements, uuid, known, raced, owed, silent, inventoryBox, interfaces>>

(* The row goes with its attributes.  The agent's own delete is published  *)
(* on the new interface only (sendNotification).                           *)
Delete(who, a) ==
  /\ Change("delete") /\ a \in elements
  /\ \A b \in elements : Container[b] # a
  /\ elements' = elements \ {a}
  /\ ext' = [ext EXCEPT ![a] = NoRow] /\ uuid' = [uuid EXCEPT ![a] = None]
  /\ fate' = [fate EXCEPT ![a] = [k \in Keys |-> "removed"]]
  /\ known' = [known EXCEPT ![a] = None]
  /\ raced' = IF \E p \in Publishers : pub[p].asset = a THEN raced \cup {a} ELSE raced
  /\ owed' = owed \ {a}
  /\ MadeBy(who, "delete", a)
  /\ silent' = IF who = "ng" THEN silent \cup {a} ELSE silent
  /\ UNCHANGED <<inventoryBox, interfaces>>

Driver(a) ==
  /\ Change("report") /\ Room(inventoryBox)
  /\ \E values \in Reports : inventoryBox' = Append(inventoryBox, Report(a, values))
  /\ Untouched /\ UNCHANGED interfaces

NewAddresses ==
  /\ Change("address") /\ interfaces' \in Interfaces \ {interfaces}
  /\ Untouched /\ UNCHANGED inventoryBox

-----------------------------------------------------------------------------
(* sendConfigure: a message on the stream for each change, and a request   *)
(* to republish what is still there.  An error returns early, and the rest *)
(* is never announced.                                                     *)

Announce ==
  /\ pending # <<>> /\ Room(mailbox) /\ Room(agentBox) /\ Room(inventoryBox)
  /\ pending' = Tail(pending)
  /\ LET c == Head(pending)
     IN  /\ inventoryBox' = IF c.op = "delete" THEN Append(inventoryBox, Deletion(c.name))
                                               ELSE inventoryBox
         /\ agentBox' = IF c.op = "update" THEN Append(agentBox, c.name) ELSE agentBox
         /\ mailbox' = IF c.op = "delete" THEN mailbox
                       ELSE Append(mailbox, Request("REPUBLISH", "library", {c.name}))
  /\ UNCHANGED <<tables, autoBox, faults, actors, interfaces, ngTodo, changes, silent>>

AnnounceFails ==
  /\ pending # <<>> /\ Fault
  /\ pending' = <<>>
  /\ silent' = silent \cup {pending[i].name : i \in {j \in DOMAIN pending : pending[j].op = "delete"}}
  /\ UNCHANGED <<tables, inventoryBox, agentBox, mailbox, autoBox, actors, interfaces, ngTodo, changes>>

Ask(c) ==
  /\ "ask" \in Activities /\ c # "library" /\ answer[c] # "waiting" /\ Room(mailbox)
  /\ \E q \in Questions : mailbox' = Append(mailbox, [q EXCEPT !.client = c])
  /\ answer' = [answer EXCEPT ![c] = "waiting"]
  /\ UNCHANGED <<tables, inventoryBox, agentBox, autoBox, faults, inventoryVars, work, pub, known,
                 raced, owed, rcs, interfaces, others>>

-----------------------------------------------------------------------------
Unrelated == UNCHANGED <<interfaces, pending, changes>>

InventoryActor ==
  /\ InventoryStep /\ UNCHANGED <<legacyVars, rcs, ngTodo>> /\ Unrelated
  /\ silent' = IF Head(inventoryBox).op = "delete" THEN silent \ {Head(inventoryBox).name} ELSE silent
Agent(Step) == Step /\ UNCHANGED <<inventoryVars, rcs, ngTodo, silent>> /\ Unrelated
AgentActor == Agent(AgentStep)
AutoupdateActor ==
  HandleMessage /\ UNCHANGED <<inventoryVars, legacyVars, ngTodo, pending, changes, silent>>

(* The thread of the new interface publishes what it has written.          *)
NgThread ==
  /\ \/ /\ ngTodo # None /\ Read("ng", ngTodo, None) /\ ngTodo' = None
        /\ UNCHANGED <<tables, inventoryBox, agentBox, mailbox, work, known>>
     \/ (Mint("ng") \/ Send("ng")) /\ UNCHANGED ngTodo
  /\ UNCHANGED <<inventoryVars, rcs, silent>> /\ Unrelated

(* The timers of fty-asset.cc: hourly, and every five minutes, which is far *)
(* longer than the answer takes.                                           *)
Hourly ==
  /\ "repeat" \in Activities
  /\ RepeatAll /\ UNCHANGED <<inventoryVars, rcs, ngTodo, silent>> /\ Unrelated
Wakeup ==
  /\ "wake" \in Activities /\ mailbox = <<>> /\ autoBox = <<>>
  /\ RequestAllRcs
  /\ UNCHANGED <<tables, inventoryBox, agentBox, autoBox, faults, actors, ngTodo, silent>> /\ Unrelated

Crash ==
  /\ Fault
  /\ inventoryBox' = <<>> /\ agentBox' = <<>> /\ mailbox' = <<>> /\ autoBox' = <<>>
  /\ cache' = [a \in Assets |-> NoRow] /\ rcs' = {} /\ ngTodo' = None
  /\ work' = Idle /\ pub' = [p \in Publishers |-> Quiet]
  /\ answer' = [c \in Clients |-> IF answer[c] = "waiting" THEN "none" ELSE answer[c]]
  /\ UNCHANGED <<tables, fate, known, raced, owed, interfaces, pending, changes, silent>>

Others ==
  \/ \E who \in {"library", "ng"}, a \in Assets : Create(who, a) \/ Update(who, a) \/ Delete(who, a)
  \/ \E a \in Assets : Driver(a)
  \/ NewAddresses \/ Announce \/ AnnounceFails
  \/ \E c \in Clients : Ask(c)

Next ==
  \/ InventoryActor \/ AgentActor \/ AutoupdateActor \/ NgThread
  \/ Hourly \/ Wakeup \/ Crash \/ Others

(* Each actor is a thread that handles what it has received.  The timers   *)
(* fire for ever; their commands come first in zpoller_wait, then the      *)
(* mailbox, and they are rare enough to leave it its turn.  The library    *)
(* waits for room in the queues only because the model bounds them.        *)
Fairness ==
  /\ WF_vars(InventoryActor) /\ WF_vars(AgentActor) /\ WF_vars(AutoupdateActor)
  /\ WF_vars(NgThread) /\ SF_vars(Announce)
  /\ SF_vars(Hourly) /\ SF_vars(Wakeup) /\ SF_vars(Agent(ServeMailbox))
Spec == Init /\ [][Next]_vars /\ Fairness

-----------------------------------------------------------------------------
(* The cache keeps nothing of an asset that is gone, unless its deletion   *)
(* was never announced: a delete message that is late, or a report that    *)
(* overtakes it, leaves no entry (fty_asset_inventory.cc, operation        *)
(* "delete").                                                              *)
VacuumedWhenAnnounced ==
  \A a \in Assets \ elements :
    cache[a] # NoRow =>
      \/ a \in silent
      \/ \E i \in DOMAIN pending : pending[i] = [op |-> "delete", name |-> a]
      \/ \E i \in DOMAIN inventoryBox : inventoryBox[i] = Deletion(a)

(* What subscribers know as the uuid of an asset is the one stored, unless *)
(* two threads, a failing statement or a deletion came between             *)
(* (s_publish_create_or_update_asset_msg reads, stores, then sends).       *)
PublishedUuidIsStored ==
  \A a \in elements \ raced : known[a] # None => known[a] = uuid[a]

(* DONE is answered to REPUBLISH when every asset that was there all along *)
(* has been published since, unless one of its statements failed.          *)
RepublishCovers ==
  [][work.task = "republish" /\ work'.task = "idle" /\ faults' = faults => owed = {}]_vars

(* Every well-formed request is answered, or the process has crashed.      *)
RequestsAreAnswered ==
  \A c \in Clients \ {"library"} : answer[c] = "waiting" ~> answer[c] # "waiting"

(* When this machine is the only rack controller, the table gets its       *)
(* addresses (autoupdate_update_rc_information, then                       *)
(* process_insert_inventory), with three exceptions, in which the cache    *)
(* takes them for stored: a user wrote something else since; the rack      *)
(* controller was deleted without a message on the stream, and made again; *)
(* or the actor's statement was rolled back after it had entered the cache.*)
ForgottenDeletion(a, k) == fate[a][k] = "removed" /\ a \in silent
Delivered(r, k) ==
  \/ ext[r][k] = OwnInventory[k]
  \/ fate[r][k] = "changed" \/ ForgottenDeletion(r, k) \/ RolledBack(r, k)
AddressesArrive ==
  \A r \in RackControllers :
    (<>[](elements \cap RackControllers = {r})) =>
      <>[](\A k \in DOMAIN OwnInventory : Delivered(r, k))

(* The hourly publication ends what a race of two threads began: in the    *)
(* end subscribers know the stored uuid of every asset.                    *)
UuidsSettle == <>[](\A a \in elements : known[a] # None /\ known[a] = uuid[a])
=============================================================================
