------------------------------- MODULE Import -------------------------------
(***************************************************************************)
(* AssetManager::importCsv and createAsset of the asset library: the rows  *)
(* of a document become assets, one after the other (asset-import.cpp,     *)
(* manager/import.cpp, manager/create.cpp).  A creation holds a lock and   *)
(* is announced; an import of a CSV file does neither.  The library looks  *)
(* up names, places and parents on connections of their own, and writes    *)
(* each row in a transaction.                                              *)
(***************************************************************************)
EXTENDS Naturals, Sequences, FiniteSetsExt, SequencesExt

CONSTANTS
  None,
  RC0,           \* id of rackcontroller-0
  Names,         \* external names
  Serials,       \* serial numbers, and the uuids that are computed from them
  Threads,       \* threads that call the library
  Databases,     \* tables a behaviour may start from
  Calls,         \* what each thread calls: a set of functions of threads
  MaxActive,     \* licence: devices that may be active
  MaxFaults,     \* bound on queries and requests that fail
  MaxDeletions   \* bound on the deletions of another user

Kinds == {"datacenter", "rack", "group", "device", "rc"}
Device(kind) == kind \in {"device", "rc"}

ASSUME ImportAssumption ==
  /\ None \notin Nat \cup Names \cup Serials /\ RC0 \in Nat /\ None \notin Threads
  /\ MaxActive \in Nat /\ MaxFaults \in Nat /\ MaxDeletions \in Nat

\* A row of the tables, a row of a document, and a call; ids start at 1.
Id == Nat \ {0}
Ref == Id \cup {None}
Asset ==
  [name : Names, kind : Kinds, parent : Ref, status : {"active", "nonactive"},
   groups : SUBSET Id, feeds : SUBSET Id, size : Nat, pos : Nat,
   serial : Serials \cup {None}, uuid : Serials \cup {None}]
RowsOfDocument ==
  [id : Ref, name : Names, kind : Kinds, parent : Names \cup {None},
   groups : SUBSET Names, source : Names \cup {None}, logical : Names \cup {None},
   status : {"active", "nonactive"}, size : Nat, pos : Nat, serial : Serials \cup {None}]
Call == [mode : {"none", "csv", "create"}, rows : Seq(RowsOfDocument), notify : BOOLEAN]

\* What is referred to is there; a name, and a unit of a rack, have one owner.
Closed(db) ==
  \A a \in DOMAIN db :
    /\ db[a].parent \in DOMAIN db \cup {None}
    /\ db[a].groups \cup db[a].feeds \subseteq DOMAIN db
OneName(db) == \A a, b \in DOMAIN db : a # b => db[a].name # db[b].name
Slots(pos, size) == pos .. pos + size - 1
Placed(asset) == asset.parent # None /\ asset.size # 0 /\ asset.pos # 0
Apart(db) ==
  \A a, b \in DOMAIN db :
    /\ a # b /\ Placed(db[a]) /\ Placed(db[b]) /\ db[a].parent = db[b].parent
    => Slots(db[a].pos, db[a].size) \cap Slots(db[b].pos, db[b].size) = {}

ASSUME DatabaseAssumption ==
  \A db \in Databases :
    /\ DOMAIN db \subseteq Id /\ IsFiniteSet(DOMAIN db) /\ DOMAIN db # {}
    /\ db \in [DOMAIN db -> Asset]
    /\ Closed(db) /\ OneName(db) /\ Apart(db)

\* A document has a row; a creation has one, without an id.
ASSUME CallAssumption ==
  /\ Calls \subseteq [Threads -> Call]
  /\ \A c \in Calls : \A t \in Threads :
       /\ c[t].mode = "csv" => Len(c[t].rows) > 0
       /\ c[t].mode = "create" => Len(c[t].rows) = 1

VARIABLES
  assets,        \* t_bios_asset_element, its external attributes, groups and links, by id
  fresh,         \* the next id
  credits,       \* assets the licensing agent counts as active
  announced,     \* assets whose creation was published, and whose mappings were made
  lock,          \* g_modification: the thread that holds it, or None
  call,          \* the call of each thread
  at,            \* where each thread is
  faults, deletions,
  blind          \* history: a query that failed was taken for an empty answer

vars == <<assets, fresh, credits, announced, lock, call, at, faults, deletions, blind>>
world == <<fresh, credits, announced, lock, call, faults, deletions, blind>>

Row(t) == call[t].rows[at[t].row]
Go(t, pc) == at' = [at EXCEPT ![t].pc = pc]
Fault == faults < MaxFaults /\ faults' = faults + 1

Named(n) == {a \in DOMAIN assets : assets[a].name = n}
InternalName(n) == IF Named(n) = {} THEN None ELSE CHOOSE a \in Named(n) : TRUE

\* The nearest datacenter above an asset, None, or "endless" on a circle of parents.
FindDatacenter(a) ==
  LET up[n \in 0 .. Cardinality(DOMAIN assets)] ==
        IF n = 0 THEN a
        ELSE IF up[n - 1] \in DOMAIN assets THEN assets[up[n - 1]].parent ELSE None
      dcs == {n \in DOMAIN up \ {0} : up[n] # None /\ assets[up[n]].kind = "datacenter"}
  IN  CASE dcs # {} -> [found |-> up[Min(dcs)], endless |-> FALSE]
        [] dcs = {} /\ None \in Range(up) -> [found |-> None, endless |-> FALSE]
        [] OTHER -> [found |-> None, endless |-> TRUE]

\* A second row that names rackcontroller-0 after the first one is another asset.
Identity(t) ==
  LET rows == call[t].rows
  IN  IF at[t].row > 1 /\ rows[1].id = RC0 /\ Row(t).id = RC0 THEN None ELSE Row(t).id

-----------------------------------------------------------------------------
(* The end of a row, and of a call.                                        *)

KeptOnFailure(t, answer) == IF lock = t /\ answer = "created" THEN None ELSE lock
Released(t, answer) == IF lock = t THEN None ELSE lock

Answer(t, answer) ==
  /\ at' = [at EXCEPT ![t].pc = "done", ![t].answer = answer]
  /\ lock' = Released(t, answer)

\* An exception that leaves the import: its rows have no results.
Throw(t) == Answer(t, "thrown")

\* The next row, the announcement of what was created, or the answer.
After(t, outcome) ==
  IF at[t].row < Len(call[t].rows) THEN "identify"
  ELSE IF call[t].mode = "create" /\ call[t].notify /\ outcome = "imported" THEN "configure"
  ELSE "answer"
Outcome(t, outcome, why) == [outcome |-> outcome, why |-> why, wrote |-> at[t].wrote]

Close(t, outcome, why) ==
  LET next == After(t, outcome) IN
  at' = [at EXCEPT ![t] =
    [at[t] EXCEPT !.pc = next, !.row = IF next = "identify" THEN at[t].row + 1 ELSE at[t].row,
                  !.results = Append(at[t].results, Outcome(t, outcome, why)),
                  !.seen = at[t].seen \cup (IF outcome = "imported" THEN {at[t].wrote} ELSE {}),
                  !.wrote = None]]
Refuse(t) == Close(t, "refused", "checks")

\* Process has gone through all rows.
Return(t) ==
  /\ at[t].pc = "answer"
  /\ Answer(t, IF call[t].mode = "csv" THEN "list"
               ELSE IF Last(at[t].results).outcome = "imported" THEN "created" ELSE "refused")
  /\ UNCHANGED <<assets, fresh, credits, announced, call, faults, deletions, blind>>

-----------------------------------------------------------------------------
(* Before the rows.                                                        *)

ImportCsv(t) ==
  /\ at[t].pc = "idle" /\ call[t].mode = "csv"
  /\ Go(t, IF call[t].notify THEN "limits" ELSE "identify")
  /\ UNCHANGED <<assets, world>>

LockFree(t) == lock \in {None} \cup Threads
Unlocked(t) == lock = None

CreateAsset(t) ==
  /\ at[t].pc = "idle" /\ call[t].mode = "create" /\ Unlocked(t)
  /\ lock' = t
  /\ Go(t, "duplicate")
  /\ UNCHANGED <<assets, fresh, credits, announced, call, faults, deletions, blind>>

\* An asset that already has the uuid this one will get; the agent stores it later.
CheckDuplicated(t) ==
  /\ at[t].pc = "duplicate"
  /\ IF Row(t).serial # None /\ \E a \in DOMAIN assets : assets[a].uuid = Row(t).serial
     THEN Answer(t, "refused")
     ELSE Go(t, IF call[t].notify THEN "activable" ELSE "identify") /\ UNCHANGED lock
  /\ UNCHANGED <<assets, fresh, credits, announced, call, faults, deletions, blind>>

Wants(t) == Row(t).kind = "device" /\ Row(t).status = "active"
Granted(a) == a \in credits \/ Cardinality(credits) < MaxActive

IsActivable(t) ==
  /\ at[t].pc = "activable"
  /\ IF Wants(t) /\ ~Granted(None) THEN Answer(t, "refused")
     ELSE Go(t, "limits") /\ UNCHANGED lock
  /\ UNCHANGED <<assets, fresh, credits, announced, call, faults, deletions, blind>>

\* The licence may forbid any configuration, now or later.
Limitations(t) ==
  /\ at[t].pc = "limits"
  /\ \/ Go(t, "identify") /\ UNCHANGED lock
     \/ Answer(t, "refused")
  /\ UNCHANGED <<assets, fresh, credits, announced, call, faults, deletions, blind>>

\* The database or the licensing agent does not answer one of these checks.
CheckFails(t) ==
  /\ at[t].pc \in {"duplicate", "activable", "limits"}
  /\ Fault
  /\ Answer(t, "refused")
  /\ UNCHANGED <<assets, fresh, credits, announced, call, deletions, blind>>

-----------------------------------------------------------------------------
(* One row.                                                                *)

\* What the row is, and where: taken is the asset that has its name.
Identified(t, taken) ==
  LET r == Row(t)
      id == Identity(t)
      parent == InternalName(r.parent)
  IN  IF \/ id # None /\ (id \notin DOMAIN assets \/ id \in at[t].seen)
         \/ id # None /\ taken # None /\ taken # id
         \/ r.parent # None /\ parent = None
         \/ id # None /\ assets[id].kind # r.kind
      THEN Refuse(t)
      ELSE at' = [at EXCEPT ![t] = [@ EXCEPT !.pc = "resolve", !.id = id,
                                             !.parent = parent]]

Identify(t) ==
  /\ at[t].pc = "identify"
  /\ \/ Identified(t, InternalName(Row(t).name)) /\ UNCHANGED <<faults, blind>>
     \/ Fault /\ Identified(t, None) /\ blind' = TRUE
  /\ UNCHANGED <<assets, fresh, credits, announced, lock, call, deletions>>

\* Groups, and the power source, that has to be in the datacenter of the parent.  The
\* row's own name is a source to ignore, unless the database knows it already.
Resolve(t) ==
  /\ at[t].pc = "resolve"
  /\ LET r == Row(t)
         source == InternalName(r.source)
         ignored == r.source = None \/ (source = None /\ r.source = r.name)
         parent == at[t].parent
         mine == IF parent \notin DOMAIN assets THEN [found |-> None, endless |-> FALSE]
                 ELSE IF assets[parent].kind = "datacenter"
                      THEN [found |-> parent, endless |-> FALSE]
                      ELSE FindDatacenter(parent)
         theirs == FindDatacenter(source)
         compared == ~ignored /\ parent # None
     IN  IF \/ \E g \in r.groups : InternalName(g) = None
            \/ ~ignored /\ source = None
         THEN Refuse(t)
         ELSE /\ compared => ~mine.endless /\ ~theirs.endless
              /\ IF compared /\ (theirs.found = None \/ mine.found \notin {None, theirs.found})
                 THEN Refuse(t)
                 ELSE at' = [at EXCEPT ![t] = [@ EXCEPT !.pc = "attributes",
                        !.groups = {InternalName(g) : g \in r.groups},
                        !.feeds = IF ignored \/ ~Device(r.kind) THEN {} ELSE {source}]]
  /\ UNCHANGED <<assets, world>>

\* A device another one measures has to exist, a unit of a rack is one of 52.
ReadAttributes(t) ==
  /\ at[t].pc = "attributes"
  /\ LET r == Row(t) IN
     IF \/ r.logical # None /\ InternalName(r.logical) = None
        \/ r.pos > 52 \/ r.size > 52
     THEN Refuse(t) ELSE Go(t, "place")
  /\ UNCHANGED <<assets, world>>

FirstSlot(a) == {assets[a].pos}
Occupied(a) == Slots(assets[a].pos, assets[a].size)

\* tryToPlaceAsset: a sibling of which only the size or the position is known throws.
TryToPlace(t) ==
  /\ at[t].pc = "place"
  /\ LET r == Row(t)
         parent == at[t].parent
         siblings == {a \in DOMAIN assets \ {at[t].id} : assets[a].parent = parent}
         known == {a \in siblings : assets[a].size # 0 \/ assets[a].pos # 0}
         wanted == Slots(r.pos, r.size)
     IN  IF r.size = 0 \/ r.pos = 0 THEN Go(t, "conflict") /\ UNCHANGED lock
         ELSE IF parent \notin DOMAIN assets \/ assets[parent].size = 0
         THEN Refuse(t) /\ UNCHANGED lock
         ELSE IF \E a \in known : assets[a].size = 0 \/ assets[a].pos = 0 THEN Throw(t)
         ELSE IF \/ ~(wanted \subseteq 1 .. assets[parent].size)
                 \/ \E a \in known : wanted \cap Occupied(a) # {}
         THEN Refuse(t) /\ UNCHANGED lock
         ELSE Go(t, "conflict") /\ UNCHANGED lock
  /\ UNCHANGED <<assets, fresh, credits, announced, call, faults, deletions, blind>>

\* The attributes or the children of the parent cannot be read: any place is free.
PlaceUnread(t) ==
  /\ at[t].pc = "place" /\ Row(t).size # 0 /\ Row(t).pos # 0
  /\ Fault
  /\ Go(t, "conflict")
  /\ blind' = TRUE
  /\ UNCHANGED <<assets, fresh, credits, announced, lock, call, deletions>>

\* What is stored: devices but rack controllers start as nonactive.
Stored(t) ==
  LET r == Row(t) IN
  IF r.kind = "device" \/ (r.kind = "rc" /\ at[t].id \notin {None, RC0}) THEN "nonactive"
  ELSE r.status

\* A new asset needs a name of its own; only devices and racks in use may be inactive.
NoConflict(t) == TRUE
IsFree(t) == Named(Row(t).name) = {}

Conflict(t) ==
  /\ at[t].pc = "conflict"
  /\ LET added == at[t].id = None
         wrong == IF added THEN ~Device(Row(t).kind) /\ Row(t).status = "nonactive"
                  ELSE at[t].id = RC0 /\ Stored(t) = "nonactive"
     IN  \/ /\ IF wrong \/ (added /\ ~IsFree(t)) THEN Refuse(t) ELSE Go(t, "write")
            /\ UNCHANGED <<faults, blind>>
         \/ /\ added /\ Fault /\ blind' = TRUE
            /\ IF wrong THEN Refuse(t) ELSE Go(t, "write")
  /\ UNCHANGED <<assets, fresh, credits, announced, lock, call, deletions>>

\* What the statements of a row leave: a source that is gone leaves no link, and any
\* other one does, for the view they select it from lists every element.
Links(t) == at[t].feeds \cap DOMAIN assets
AssetOf(t, uuid) ==
  LET r == Row(t) IN
  [name |-> r.name, kind |-> r.kind, parent |-> at[t].parent, status |-> Stored(t),
   groups |-> at[t].groups, feeds |-> Links(t), size |-> r.size, pos |-> r.pos,
   serial |-> r.serial, uuid |-> uuid]

\* A parent or a group that is gone undoes the row.
Broken(t) ==
  \/ at[t].parent # None /\ at[t].parent \notin DOMAIN assets
  \/ ~(at[t].groups \subseteq DOMAIN assets)

Commit(t, id, uuid) ==
  /\ assets' = [a \in DOMAIN assets \cup {id} |->
                  IF a = id THEN AssetOf(t, uuid) ELSE assets[a]]
  /\ at' = [at EXCEPT ![t] = [@ EXCEPT !.pc = "activate", !.wrote = id]]

Insert(t) ==
  /\ at[t].pc = "write" /\ at[t].id = None
  /\ IF Broken(t) \/ (Row(t).kind = "datacenter" /\ at[t].parent # None)
     THEN Refuse(t) /\ UNCHANGED <<assets, fresh>>
     ELSE Commit(t, fresh, None) /\ fresh' = fresh + 1
  /\ UNCHANGED <<credits, announced, lock, call, faults, deletions, blind>>

\* The uuid is read only, and outlives the other attributes.  A loop undoes the row.
Update(t) ==
  /\ at[t].pc = "write" /\ at[t].id # None
  /\ LET id == at[t].id IN
     IF Broken(t) \/ id \notin DOMAIN assets \/ id \in at[t].feeds
     THEN Refuse(t) /\ UNCHANGED assets
     ELSE Commit(t, id, assets[id].uuid)
  /\ UNCHANGED world

WriteFails(t) ==
  /\ at[t].pc = "write"
  /\ Fault
  /\ Refuse(t)
  /\ UNCHANGED <<assets, fresh, credits, announced, lock, call, deletions, blind>>

\* The row is committed: a refusal of the licensing agent leaves it nonactive.
Activate(t) ==
  /\ at[t].pc = "activate"
  /\ LET id == at[t].wrote IN
     IF ~Wants(t) \/ ~call[t].notify THEN Go(t, "finish") /\ UNCHANGED credits
     ELSE IF id \in DOMAIN assets /\ Granted(id)
     THEN Go(t, "finish") /\ credits' = credits \cup {id}
     ELSE Close(t, "refused", "licence") /\ UNCHANGED credits
  /\ UNCHANGED <<assets, fresh, announced, lock, call, faults, deletions, blind>>

\* The answer of the licensing agent is lost, or its request.
Unanswered(t) ==
  /\ at[t].pc = "activate" /\ Wants(t) /\ call[t].notify
  /\ Fault
  /\ credits' \in {credits} \cup
        IF at[t].wrote \in DOMAIN assets /\ Granted(at[t].wrote)
        THEN {credits \cup {at[t].wrote}} ELSE {}
  /\ Close(t, "refused", "unanswered")
  /\ UNCHANGED <<assets, fresh, announced, lock, call, deletions, blind>>

\* The internal name of what was written is looked up by its external name: when it is
\* not there, or the query fails, the row is refused, committed as it is.
Finish(t) ==
  /\ at[t].pc = "finish"
  /\ \/ Named(Row(t).name) = {} /\ Close(t, "refused", "lookup") /\ UNCHANGED faults
     \/ Named(Row(t).name) # {} /\ Close(t, "imported", "written") /\ UNCHANGED faults
     \/ Fault /\ Close(t, "refused", "unread")
  /\ UNCHANGED <<assets, fresh, credits, announced, lock, call, deletions, blind>>

-----------------------------------------------------------------------------
(* After the row of a creation.                                            *)

\* sendConfigure, then the mappings of the credentials.
Configure(t) ==
  /\ at[t].pc = "configure"
  /\ LET id == Last(at[t].results).wrote IN
     \/ /\ id \in DOMAIN assets
        /\ announced' = announced \cup {id}
        /\ Answer(t, "created")
        /\ UNCHANGED faults
     \/ /\ id \notin DOMAIN assets
        /\ Answer(t, "failed")
        /\ UNCHANGED <<announced, faults>>
     \/ Fault /\ Answer(t, "failed") /\ UNCHANGED announced
  /\ UNCHANGED <<assets, fresh, credits, call, deletions, blind>>

-----------------------------------------------------------------------------
(* Others.                                                                 *)

\* External: the agent stores the uuid of an asset whose serial number is known.
Mint(a) ==
  /\ assets[a].uuid = None /\ assets[a].serial # None
  /\ assets' = [assets EXCEPT ![a].uuid = assets[a].serial]
  /\ UNCHANGED <<world, at>>

\* External: another user deletes an asset that holds no other.
Delete(a) ==
  /\ deletions < MaxDeletions
  /\ \A b \in DOMAIN assets : assets[b].parent # a /\ a \notin assets[b].groups
  /\ assets' = [b \in DOMAIN assets \ {a} |-> [assets[b] EXCEPT !.feeds = @ \ {a}]]
  /\ credits' = credits \ {a}
  /\ deletions' = deletions + 1
  /\ UNCHANGED <<fresh, announced, lock, call, at, faults, blind>>

Start ==
  [pc |-> "idle", row |-> 1, id |-> None, parent |-> None, groups |-> {}, feeds |-> {},
   wrote |-> None, seen |-> {}, results |-> <<>>, answer |-> None]

Init ==
  /\ assets \in Databases
  /\ fresh = 1 + Max(DOMAIN assets)
  /\ credits = {a \in DOMAIN assets : assets[a].kind = "device" /\ assets[a].status = "active"}
  /\ announced = {} /\ lock = None
  /\ call \in Calls
  /\ at = [t \in Threads |-> Start]
  /\ faults = 0 /\ deletions = 0 /\ blind = FALSE

Step(t) ==
  \/ ImportCsv(t) \/ CreateAsset(t) \/ CheckDuplicated(t) \/ IsActivable(t)
  \/ Limitations(t) \/ CheckFails(t) \/ Identify(t) \/ Resolve(t) \/ ReadAttributes(t)
  \/ TryToPlace(t) \/ PlaceUnread(t) \/ Conflict(t) \/ Insert(t) \/ Update(t)
  \/ WriteFails(t) \/ Activate(t) \/ Unanswered(t) \/ Finish(t) \/ Configure(t)
  \/ Return(t)

Next == (\E t \in Threads : Step(t)) \/ (\E a \in DOMAIN assets : Mint(a) \/ Delete(a))

\* A call is a thread of its process, that goes on as long as it can.
Spec == Init /\ [][Next]_vars /\ \A t \in Threads : WF_vars(Step(t))
-----------------------------------------------------------------------------
PCs ==
  {"idle", "duplicate", "activable", "limits", "identify", "resolve", "attributes", "place",
   "conflict", "write", "activate", "finish", "answer", "configure", "done"}
Result ==
  [outcome : {"imported", "refused"},
   why : {"written", "checks", "licence", "unanswered", "lookup", "unread"}, wrote : Ref]
Answers == {"created", "list", "refused", "failed", "thrown"}
Locals ==
  [pc : PCs, row : Nat, id : Ref, parent : Ref, groups : SUBSET Id, feeds : SUBSET Id,
   wrote : Ref, seen : SUBSET Id, results : Seq(Result), answer : Answers \cup {None}]

\* Rows of the tables and locals are well formed, nothing refers to an asset that is
\* gone, and the lock is held by a creation from its first step to its answer.
TypeOK ==
  /\ assets \in [DOMAIN assets -> Asset] /\ at \in [Threads -> Locals]
  /\ DOMAIN assets \subseteq 1 .. fresh - 1
  /\ Closed(assets)
  /\ credits \subseteq DOMAIN assets
  /\ lock \in Threads \cup {None}
  /\ \A t \in Threads : lock = t <=> call[t].mode = "create" /\ at[t].pc \notin {"idle", "done"}

\* An external name belongs to one asset, although it is looked up on one connection
\* and written on another, unless a query failed.
NamesAreUnique == blind \/ OneName(assets)

\* Two assets of a rack never take the same unit of it, unless a query failed.
PlacedApart == blind \/ Apart(assets)

\* What a call says of its rows is so: an imported row was written, by no other row of
\* the call that was imported too, and a device it makes active has its credit; a row
\* that was refused left nothing behind, unless something failed after the commit: the
\* licensing agent refused or did not answer, or the name could not be read back.  The
\* licensing agent never refuses a creation that late: it was asked before, and others
\* had to wait.  Nor is the name ever missing, unless the asset was deleted meanwhile.
ResultsAreTrue ==
  \A t \in Threads : \A i \in DOMAIN at[t].results :
    LET r == call[t].rows[i]
        result == at[t].results[i]
        there == result.wrote \in DOMAIN assets
    IN  /\ result.outcome = "imported" =>
             /\ result.wrote # None
             /\ \A k \in 1 .. i - 1 : at[t].results[k].outcome = "imported" =>
                   at[t].results[k].wrote # result.wrote
             /\ there /\ call[t].notify /\ r.kind = "device" /\ r.status = "active" =>
                   result.wrote \in credits
        /\ result.outcome = "refused" /\ result.wrote # None =>
             CASE result.why = "licence" -> call[t].mode = "csv" \/ ~there
               [] result.why \in {"unanswered", "unread"} -> TRUE
               [] OTHER -> ~there

\* Every call gets its turn and returns, whatever it or another one refuses or
\* throws, unless assets contain each other.
ParentCycle == \E a \in DOMAIN assets : FindDatacenter(a).endless
ImportReturns ==
  \A t \in Threads : (call[t].mode # "none") ~> (at[t].pc = "done" \/ ParentCycle)
=============================================================================
