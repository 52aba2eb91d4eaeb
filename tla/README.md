# fty-asset in TLA+

This directory specifies 42ity/fty-asset, the agent that keeps the assets of a data center
(locations, devices, groups, virtual machines), their parents, their power links and whether they
are *active*, which for a device costs a credit of the licence. The modules are translated from the
code under `src/`; TLC checks them on small instances, and TLAPS proves nearly all of their safety
properties for every instance.

Source names below: `asset.cc` and `asset-db.cc` are in `src/server/src/asset/`; `asset-server.cc`,
`fty_asset_server.cc`, `total_power.cc`, `dbhelpers.cc` and the `fty_asset_*.cc` actors are in
`src/server/src/`; the topology code and its messages are in `src/server/src/topology/`; the asset
manager library is `src/asset/src/`.

## The system

One process (`fty-asset.cc`) runs three actors; the first also serves two message queues, each with
a thread of its own.

| Component | State it keeps | Operations | Talks to |
|---|---|---|---|
| `AssetServer`, new interface (`asset-server.cc`) | configurability, lock of the SRR interface | create, update, delete, get, list, notify status, SRR save, restore, reset | `AssetImpl`, publishers of notifications |
| `AssetImpl` (`asset.cc`) | one asset object per request | create, update, restore, remove, activate, deactivate, `deleteList`, SRR codec | `DB`, licensing agent, credential mappings (CAM) |
| `DB` (`asset-db.cc`) | tables `t_bios_asset_element`, `_link`, `_ext_attributes`, groups, monitor relations; one connection | load, insert, update, links, removal, transactions | MariaDB through tntdb |
| Legacy actor (`fty_asset_server.cc`) | poller loop, test mode | ASSET_MANIPULATION, ASSETS_IN_CONTAINER, ASSETS, ENAME_FROM_INAME, ASSET_DETAIL, REPUBLISH, TOPOLOGY, licence metric | malamute, `AssetImpl`, topology functions |
| Inventory actor (`fty_asset_inventory.cc`, `dbhelpers.cc`) | cache of attributes written | inventory, delete messages | `t_bios_asset_ext_attributes` |
| Autoupdate actor (`fty_asset_autoupdate.cc`) | list of rack controllers | WAKEUP, reply of the agent | legacy actor, DNS of the host |
| Topology (`topology_*.cc`, `topology/`, `total_power.cc`) | none | POWER, POWER_TO, POWERCHAINS, LOCATION, INPUT_POWERCHAIN | tables |
| Asset manager library (`src/asset/src/`) | `g_modification`, the lock of creations | create, bulk delete, CSV import and export, read | tables, licensing agent, CAM, message bus |
| Messages (`topology/msg/`) | one object per message | construct, set, take, duplicate, encode, decode, send | zmq frames |
| Codecs (`src/lib/`, `csv.cpp`, `json.cpp`) | none | DTO, JSON, fty_proto, CSV | |
| Accessor, command line (`src/accessor/`, `src/cli/`) | none | synchronous requests to the agent | agent |

The threads share the tables, the singleton `DB` with its connection, and the configurability flag.
No handler locks across its steps: what a handler looked up (a parent, a status, a credit, the number
of datacenters) can change before it writes. The licensing agent `etn-licensing-credits` is a remote
party: a request may be refused, time out, or act and lose its answer. What makes each part right:

* **Handlers and storage**: no parent or link without its row; the last datacenter stays; credits and
  active rows agree; subscribers know the assets; every request is answered; a deletion that is
  refused has a reason.
* **Save and restore**: what was saved comes back, parents before children, within the licence; every
  request is answered.
* **Total power**: each chain is counted at its first smart device, once; the walk ends.
* **Actors**: the cache of the inventory actor never hides a value that has to be written; what is
  published of an asset is what is stored; the addresses of the machine get to its rack controller;
  requests are answered.
* **Asset manager**: a bulk delete removes all that it may, in order, and gives back the credits; an
  import gives no name and no place twice, and its results say what was written.
* **Topology**: the chains and the location trees are those of the tables, and are finite.
* **Messages**: what is decoded is what was encoded, or the message is refused.

`PROJECT.json` lists every hazard at its line, with the property that would catch it.

## Modules

| Module | Models | Extends |
|---|---|---|
| `AssetTables` | rows, parents, status, links and foreign keys of `DB`, the credits of the licensing agent | |
| `AssetAgent` | the handlers of the new interface, of the legacy manipulation and of the reset, step by step | `AssetTables` |
| `Registry` | abstract: a forest of assets with links, and what a request may do to it | |
| `AgentRegistry` | the mapping under which `AssetAgent` implements `Registry` | `AssetAgent` |
| `SaveRestore` | save and restore, step by step, with the other handlers as whole steps | `AssetTables` |
| `AssetStream` | the tables, queues and messages that the actors share | |
| `Inventory` | the inventory actor and its cache | `AssetStream` |
| `LegacyActor` | the loop of the legacy actor: queries, republication, topology refresh, uuids | `AssetStream` |
| `Autoupdate` | the autoupdate actor and the addresses of the machine | `AssetStream` |
| `Actors` | the three actors, the library, drivers, clients, timers and crashes together | those three |
| `TotalPower` | the answer to TOPOLOGY POWER | |
| `PowerChains` | the requests about power chains, statement by statement | |
| `Locations` | the requests about locations, over the same tables | `PowerChains` |
| `WireFields` | how one field is laid out in a frame, and read back | |
| `AssetMsg`, `CommonMsg` | the fields of the 21 and 32 messages, in each pass of the codec | `WireFields` |
| `Messages` | the life of a message: set, copied, encoded, sent, damaged, decoded | both |
| `BulkDelete` | `AssetManager::deleteAsset` of the library, for one asset and for a map of ids | `AssetTables` |
| `Import` | `AssetManager::createAsset` and `importCsv`, row by row | |
| `AgentRegistryProofs` | the theorems about `AssetAgent` and `Registry` | `AgentRegistry` |
| `SaveRestoreProofs`, `ActorsProofs`, `TotalPowerProofs`, `BulkDeleteProofs`, `ImportProofs`, `MessagesProofs` | the theorems | the module of the name |
| `TopologyProofs` | the theorems about the topology requests | `Locations` |
| `MC...` | instances for TLC | |

**AssetAgent.** A thread has a program counter `pc` and a record `job` with the locals of its handler.
A step is one database transaction, one exchange with the licensing agent, or one reply, because these
are the points where another thread's effect can come in between. `CreateAsset`, `UpdateAsset`,
`DeleteAsset` and `Reset` receive a request, and read what the handler reads first; `Ask` is
`isActivable`; `Insert`, `Store` and `Undo` are the transactions of `create()` and `update()`;
`Activate`, `MarkActive`, `Deactivate`, `MarkNonactive` are the two halves of `activate()` and
`deactivate()` (the licensing agent, then the row); `Unlink`, `Remove`, `Count`, `Drop`, `Report` are the
phases of `deleteList` and `remove()`. `Count` is `isLastDataCenter`, a plain read that locks nothing, and
`Drop` the statements that remove the row: other threads come in between. The legacy actor takes the same
steps with its own differences: it asks the licence whatever the status, it keeps the links it read, and `create-force`
activates after a refusal. Names are model values with a type (`Kind`); attributes, addresses,
groups and messages are abstracted away.

**Registry.** It knows nothing of credits, status, transactions or handlers. A client has one request; a
create makes one asset, an update changes the one it names, a delete takes the links into an asset away
and removes it once nothing is in it and it feeds nothing. A create may take its own asset back,
and a client that is alone gets KO only when it has. `AgentRegistry` maps the tables to the registry and
`pc` and `job` to the request of each client. While the refinement was made, TLC found the step that is
`PutBack` here: to change the status before a removal, `deactivate()` (`asset.cc:543`) writes the whole
object that was read earlier, so a delete that is refused in the end has undone the move of another
client. The registry allows it to a delete among other clients and to nobody else.

**SaveRestore.** `Load` is one turn of `saveAssets`; `BuildRestoreTree` computes the closure that
orders the restore, in the order of the names in the map, as the code updates it in place; `Check`,
`Insert`, `Activate`, `MarkActive` are the body of the first loop of `restoreAssets`, `SaveObject` the
body of the second. A restore loads all the assets first, as the backup that the code makes.
`Change` is a whole create, update or delete of another thread. The reply `"lost"` is a handler that
ends in the catch-all of `handleAssetSrrReq`, which sends nothing.

**Actors.** The stream ASSETS is one queue for each actor that subscribes. `Inventory` takes a message
as one step: the keytags that the cache does not answer for (`Fresh`) are written and cached, or the
statement fails, alone or with those before it, whose values are rolled back and stay in the cache
(`InsertInterrupted`). `LegacyActor` publishes an asset in
three steps, read, store a uuid, send (`Read`, `Mint`, `Send`), and the thread of the new interface takes
the same three steps at the same time. `Actors` puts around them the library, which changes the tables
first and announces the changes later (`Announce`, or an error that loses the rest), the deletes of the
new interface that are never announced on the stream (`silent`), users who edit attributes (`Edits`),
timers, and a crash that empties all queues and caches. `raced`, `owed`, `fate` and `silent` are history
variables, for the properties only. `fate` says what became of the value the actor wrote last: it was kept, a
user changed it, it went with its asset, or the database undid it. `CacheIsTrue` and `AddressesArrive` name
these exceptions one by one, since a rollback, unlike a change or a removal, is not the work of somebody else; the
instance reaches each.

**PowerChains, Locations.** The actor answers one request at a time, one statement after the other
without a transaction. `at` is the statement that is next; another thread may `Change` the tables between any
two. A row that is gone, or a statement that fails, is the alternative `Refuse` (or, in a
location request "from" an asset, `Die`: nothing catches the exception). The text of an answer is
abstracted to what it lists.

**Messages.** A string is a text and a length. `AssetMsg` and `CommonMsg` have one table for each pass of the
generated code, each read from its own place in the source: what is sized, put, read, copied by `dup`,
set by the `encode` and `send` functions; the properties say that the passes agree with each other.
`Lose` cuts octets or frames. A dictionary is a set of pairs. The keys are written as short strings, and
`zhash_insert` (`asset_msg.cc:366`) refuses a key that is already there, so of pairs whose keys are cut to the
same remainder one stays (`Inserted`); which one depends on the order of the hash, and the properties do not.

**TotalPower.** `SelectDevices` and `SelectLinks` are the queries, `Start` finds the sources, `Walk`
is one turn of the loop over `border_devices`. The set `todelete` of the code is not kept: it holds
smart devices only, which are what `Powered` leaves out. The list is abstracted to how often a device
is in it. The subtype of a device is fixed, since an update does not change it while the actor runs
one request.

**BulkDelete.** The library is called by several threads of its users and takes no lock. The steps of a
call are the loops of `deleteAsset` over the map (`Examine`, `Collect`, `NextRoot`), the recursion of
`deleteAssetRec` with an explicit stack (`Descend`, `Return`), and the statements of the deletion of
one element (`Guard`, `DeleteSensor`, `Refer`, `Deactivate`, `Count`, `Drop`, `Reactivate`, `Unmap`).
A call works on what it read first: `was` is the status, `top` the assets without parent, `kids` and
`fed` the children and links of the elements. `Count` and `Drop` are two steps, because the count of
the datacenters is a plain read inside the transaction. A request to the credential manager may fail
(`DeleteMappings`, with `CamFaults`): `deleteMappings` and its callers log the exception and go on, and the
mapping stays. The history variable `unheard` holds the assets this has happened to, so that
`MappingsFollowAssets` allows no other mapping without its asset. The order of a map of ids is the parameter
`ById`. `Change` stands for the other users of the tables (the agent, an import), which move assets,
change their status with the licensing agent's consent, wire devices and name logical assets; they
delete through this module. A recursion that meets an element below itself stays in `endless`.
`FeedsIn` counts what `checkFeed` counts: the feeds among a datacenter and all that is in it. A device
takes its sensors with it, and those that are not in the map join the list of the call only then
(`Refer`). Until the call gets to them they refuse whatever is between them and the device, and what was
refused so is not tried again; sensors that stand for an asset are listed in any order with it. So
`RefusalsAreExplained` is about calls without such sensors (`NoSensors`).

**Import.** A call has rows; a creation has one. `Identify`, `Resolve`, `ReadAttributes`, `TryToPlace`,
`Conflict`, `Insert` or `Update`, `Activate` and `Finish` are the parts of `processRow` in their order,
each with the connection it opens; `Refuse` is an exception that ends the row, `Throw` one that ends the
call. A failure after the commit refuses a row that is there: the licensing agent does not answer (`Unanswered`),
or the name cannot be read back (`Finish`); `ResultsAreTrue` names both. A query that fails and is taken for an
empty answer is remembered in `blind`. The agent, which
stores the uuid later, and other users, who delete, are the external actions `Mint` and `Delete`.

## Runs

| Run | Expect | Question |
|---|---|---|
| `AssetAgent_one` | pass | requests one after the other, reliable licence: all the promises, every request ends, the registry is implemented |
| `AssetAgent_threads` | pass | three threads interleave, the licence fails: parents are there, the last datacenter stays, the registry is implemented |
| `SaveRestore_shared` | pass | two saves or restores, with a change of another thread anywhere |
| `Actors_addresses` | pass | inventory, deletions, addresses and a crash: the cache, and the addresses of the machine |
| `Actors_publish` | pass | publications of two threads, requests and a fault: uuids, republication, answers |
| `TotalPower_walk` | pass | all networks of four devices without a cycle, changed once meanwhile |
| `TotalPower_cycle` | violation | a cycle of devices that do not measure keeps the walk for ever |
| `Topology_requests` | pass | chains and locations over devices that may form circles, changed once meanwhile |
| `Messages_codec` | pass | every message of both protocols, whole or damaged |
| `BulkDelete_calls` | pass | two calls that interleave, or a call and a change, with a licensing agent and a credential manager that may not answer |
| `Import_rows` | pass | documents of two rows, pairs of creations, a fault and a deletion |
| `Import_overlap` | violation | a document and a creation that overlap give one name to two assets |

Each property of a passing run has a mutant of the code in `PROJECT.json` that breaks it.

**Bounds.** `AssetAgent_one`: two datacenters, a rack, two devices that may be linked, one credit, two
requests from every consistent database: enough for a full licence, the last datacenter, a
child or a link that stands in the way, and a recursive delete of three levels. `AssetAgent_threads`:
three requests, one per thread or more, from two active datacenters: they can delete both, or build the
rack and the device and interleave in their deletion. The two datacenters differ in nothing, so they
are a symmetry set. `SaveRestore_shared`: payloads of
up to four assets with one credit for two devices, on an empty database or one with up to two of
them, two requests, one change. `Actors_*`: two assets, queues of two (`MaxQueue`), one failing
statement or crash (`MaxFaults`), two changes around the actors, or one with requests
(`MaxChanges`, `Activities`, `Edits`): a late announcement, a report that overtakes it and a second publication of
the same asset all fit. `TotalPower_walk`: four devices, each in or out of the container, any
subtypes, any links of a topological order (the order of ids matters to no property), one change.
`Topology_requests`: three devices that may feed each other in a circle or contain each other, a group, a
datacenter, one change; `Levels` is 3 instead of the ten of the code, so that a tree can be cut off, and
`StackDepth` 9 is more than any chain without a circle. `Messages_codec`: lengths 0, 255, 256 and 259, on both sides
of one octet, one change of an object, two messages on their way.
`BulkDelete_calls`: a UPS, an ePDU and a sensor in or out of a rack, or two datacenters with up to two
feeds, in the first of them or in the second; the calls of `MCLists` and `MCOnes`; two events, so that
every pair of calls, and every call with a change, interleaves, with any of their requests failing (457720
states). `Import_rows`: every pair of the rows in `MCRows` (changed, renamed, moved,
wrongly placed, feeding themselves, containing themselves, referring to an earlier row), or pairs of
`MCCreated`; one fault at any place, before the commit or after it, one deletion, one credit.
More events would only add further histories one after the other.
`MaxRequests`, `MaxChanges`, `MaxEvents`, `MaxSent`, `MaxFaults` and `MaxDeletions` cap the histories;
`Inside`, `Wires`, `Moves`, `Members`, `Parents`, `Credentials` and `Edits` what clients put where.
`Overlap` says whether a delete may list an asset twice: TRUE with three threads; with one thread FALSE,
since subscribers then miss deletions (see the findings). Deadlock is not checked in runs that say so:
there the system stops when the bound on requests is reached, and is idle without requests anyway.

**Fairness.** Weak fairness of the steps of a thread that holds a request: threads are never blocked
by another one (locks cover single statements, or the SRR body, which has one thread), and exchanges with
the licensing agent and with CAM time out. The same for the actor of `TotalPower` and of `Locations`, for a
thread that called the library, and for each actor of `Actors` that has a message: they are threads of
their own. The timers of `Actors` (`Hourly`, `Wakeup`) and the mailbox (`ServeMailbox`) have strong fairness: a
timer that is put off again and again by a busy actor fires in between, since the poller takes the
commands of the timers first and the mailbox next, and the timers are minutes apart. `Announce` has it too:
the library waits for nobody, and has to find room in a queue only because the queues of the model are bounded. A creation of `Import`
waits for a lock whose holder goes on under its own fairness; with two calls weak fairness is enough.
Requests, changes, faults and crashes are not fair: clients may stop, and a fault need not happen.

## Proofs

`AgentRegistryProofs` proves of `AssetAgent`, for any set of assets and threads, any licence, with faults:

* `TypeCorrect`: `Spec => []TypeOK`.
* `References`: `Spec => []NoDanglingReference`. The invariant is inductive together with the types:
  each writing step looks its references up in the same transaction (`Storable`, `Insertable`), and
  `Droppable` is what the foreign keys let go. The lemmas `WriteKeeps`, `LinksKeep` and `DropKeeps`
  state it for the tables once; there is one lemma per action.
* `DatacenterStays`: `OneDeletes` implies `Spec => LastDatacenterStays`. The count (`Count`) and the removal
  (`Drop`) are two steps, and two threads that pass the count together would remove both datacenters. What
  prevents it is how the agent is built, which is the hypothesis: one thread serves deletes, and nothing
  contains a datacenter. So the take-back of a failed create, which any thread may do, is never about a
  datacenter (`EachDeletesOwn`), and one that has passed the count is still not the last when it goes
  (`AnotherStays`).

The same module proves `Implements` (`Spec => ImplementsRegistry`), the refinement. Types and
references are not enough for it: a removal must be one that the request of its own thread may do, and an
answer must fit what was done. The invariant `RInv` adds two parts. `EachFits` says, for each place a
thread can be at, what its job is: only an update stores, only a delete removes and never
rackcontroller-0, and a create that has turned into a deletion has its own asset on the list and nothing
else (`Fits`). `AloneUndisturbed` says of a thread that is the only one that the tables are as it left
them: the asset it has made is there, below a parent that is there, and the asset it is about to remove is
where it read it (`Undisturbed`). The second is what excludes `PutBack` and a KO after an insert for
a client that is alone. One lemma per action maps it to a step of the registry or to none; `StepUnseen` and
`MoveUnseen` are the steps that change neither what a thread is doing nor to what.

Three more theorems of that module are about one thread (`Alone`), as the agent has for each of its
queues; with more threads the properties do not hold (see the findings). Each adds to `RInv` what the
thread knows at each place of its handler:

* `CreditsStayEqual` (`CreditsAgree`, for a licensing agent that answers): credits and active rows differ
  on the asset of the job at most, between the request and the write of the row (`Credited`).
* `SubscribersStayInformed` (`SubscribersKnowAssets`, without the reset and for lists that name no asset
  twice): the rows are those the subscribers know, but for what the request has made or removed and will
  announce (`Told`).
* `RefusalsHaveReasons` (`RefusalsAreExplained`, when the kinds that `Inside` puts into each other have
  ranks, `Ranked`): the depths by which `deleteList` sorts are greater below than above, so what is refused
  because of a child is refused after that child was (`Deleting`, `Reason`). Without ranks the sort of the
  code does not end.

`SaveRestoreProofs` proves, for any assets, payloads, orders of names and licences:

* `CreditsAgreeAfterRestores` (`CreditsAgreeAfterRestore`): during a calm and fresh restore the credits are
  the active devices, up to the one that is being activated (`Credits`).
* `CalmRequestsAreAnswered` (`CalmRequestIsAnswered`) and `RestoresAreFaithful` (`RestoredAsSaved`), when
  kinds have ranks and nothing is in or fed by a virtual asset (`Ranked`, `Physical`). A save may hold
  only what lies within it: virtual machines are not saved, so with a location in one of them a restore could not find the
  parent. The heart of both is the closure that `buildRestoreTree` computes while it iterates over it:
  whatever the order of the names, after the last turn each asset has its parent in its set and everything
  its parent has (`ClosureTurns`), so sorting by size puts parents first. The objects of a restore are those of the
  payload but for the devices that got no credit (`Holding`), and a status that differs means that the
  licence was full (`Restored`, `Bounded`).

`ActorsProofs` proves, for any assets, keytags, clients, queues and number of faults:

* `CacheStaysTrue` (`CacheIsTrue`): a cached value that the table does not hold was changed or removed by
  somebody else, or is one that the database undid after the actor had cached it; by what a report writes
  to the table, to the cache, or to the cache only (`ReportKeeps`). `OnlyOthersDiffer` says that without faults
  (`MaxFaults = 0`) the third does not occur: the cache is then false by the doing of others only.
* `CacheIsVacuumed` (`VacuumedWhenAnnounced`): the message of a deletion is in the library's hands, then in
  the queue, until it is the next one; a report about an asset that is gone writes nothing to the cache.
* `PublishedIsStored` (`PublishedUuidIsStored`): a publication that is on its way has read no uuid or the
  one there is, its asset is still there, and nobody else is about to draw a uuid for it (`Reading`).
* `DoneMeansPublished` (`RepublishCovers`): what the actor owes is on its list or in its hands
  (`Owing`), and only `Finish` ends a task without a fault.

`TotalPowerProofs` proves, for any network, cycles included, and any change meanwhile, `PowerTypes`,
`OnlyFirst` (`Spec => []ListedAreFirst`) and `AllFirst` (`Spec => []AnswerIsComplete`). "Reached" is the
least set that holds the starts and is closed under the links of devices that are not smart. The
invariant says that during the walk the border is reached, what is listed is first, and what is first
is listed or reached from the border (`OnTheWay`); `PoweredSuffices` is the step that a turn of the
loop forgets nothing, and when the border is empty nothing is reached from it.

`BulkDeleteProofs` proves, for any database, map of ids, order of ids and number of threads, with faults:

* `Typed`: types, with the fact that a call inside the recursion has an element and a root (`AtWork`).
* `SensorsStandForAssets` (`LogicalAssetsExist`): once `countKeytag` has found no sensor for the asset,
  none can stand for it until it is gone, because calls only remove attributes (`Spared`).
* `ReportsAreTrue` (`DeletedAreGone`): rows never come back, the outermost element of the stack is the
  root whose result is stored (`Root`), and a call that removes the mappings without an error has
  removed the row (`GoneAt`).
* `MappingsGo` (`MappingsFollowAssets`): a mapping without its asset belongs to a call that is about to ask for
  its removal, or to an asset whose request failed (`MappedInv`). `NoMappingStays`: with a credential manager that
  answers (`~CamFaults`), no mapping is without its asset when the calls have returned.
* `CreditsFollowDeletions` (`CreditsAgree`): calls that overlap no other. The status a call goes by was read
  long before it is used; it is still that of the row (`Remembered`, for the assets in `Watched`), and a
  credit is missing only between `Deactivate` and the removal of the row or its reactivation (`Withheld`).
* `DeletionsSpareLastOnes` (`LastOnesStay`): what `Guard` and `Count` found of the last feed and the last
  datacenter is still so when the row goes (`Checked`), for between them only sensors go, which are no feeds; a
  row goes only when nothing is in it, so removing one location takes no feed out of another datacenter (`Rooted`).
* `RefusalsKeepReasons` (`RefusalsAreExplained`): the deepest of them, by `ReasonInv`. A set of rows is *stuck*
  (`Stuck`) when each of them is not in the map, or is spared for itself, or holds another one of the set as its
  parent or its source: no step of the call can erase one of them (`Shrinks`). Whatever the call has refused
  is in a stuck set (`Barred`): the recursion comes to an element when all that it holds is gone (`Stacked`),
  so that it is refused for itself or for what is not in the map, and then refuses the elements above it on the stack,
  each of which holds the one below (`Below`). The list that the recursion follows is what the tables say
  (`Truthful`, `Complete`) and leaves out only what is refused (`Accounted`). When the call returns, the stuck
  set is the reason.

A step changes the locals of its own call only, removes rows and attributes and adds none: `StepFrame`
states this once, and each proof looks at the call that makes the step.

`ImportProofs` proves `TypeSafety` (`Spec => []TypeOK`) for any calls, and three properties for calls of
which a document does not overlap another one or a creation (`CallsApart`; run `Import_overlap` shows what
happens otherwise). Then one call at most works at a time (`OneWorks`): a creation by its lock, whose holder is
the one call inside, a document because nobody else is there. What `Identify`, `TryToPlace` and `Conflict` read is therefore
still true at `Insert` or `Update`, up to assets that others delete:

* `NamesStayUnique` (`NamesAreUnique`): the name of the row is that of its own id or free (`NamesKept`).
* `PlacesStayApart` (`PlacedApart`): the place that was found is free (`FreePlace`).
* `ResultsStayTrue` (`ResultsAreTrue`): what has been imported is not written a second time, since it is in
  `seen`, and it has its credit until it is deleted (`Kept`, `ResultIsTrue`). A refused row has left something
  only after one of the failures behind the commit that the property names.

`TopologyProofs` proves, for any tables, circles of feeds and of parents included, `EndsStayListed`
(`EndsAreListed`, whatever changes meanwhile) and `CalmAnswersStayExact` (`CalmAnswerIsExact`). The invariant of the
walk (`Walking`) is that what has been visited is among what was found, that what was found is upstream of the asset, and
that the chains are those into what has been visited but the current device; when nothing is left to visit the
set is closed under its sources, so it is all that is upstream (`LeastUpstream`). `Between` and `Selected` say
for the other requests what each query has left for the next. `CalmLocationsStayExact` (`CalmLocationIsExact`) says of
locations that the chain of "to" is `Above` the asset to its top, that "from" without an asset lists what has no
parent, and that "from" of all levels lists what is below and wanted all the way up. Its invariant `LInv` says
how far the climb, the levels, the feeds and the types have been read: `Climbing`, `Listed`, `FedRight`, `Topmost`. Assets
above themselves are allowed: the levels of `Reached` are then never empty (`GrownDeep`), which is the case where the
code recurses without end and answers nothing. What devices feed is closed after as many turns as there are devices
(`FeedByIsClosed`), by counting, so it is what `Upstream` says from the other end (`FedFromUpstream`).

`MessagesProofs` proves, for strings of any length that four octets can count, and any bounds on changes and on
messages under way, `MessagesArrive` (`WholeMessagesArrive`) and `DamagedMessages` (`DamagedIsNotMisread`). The
proof has three layers:

* *A field* (`FieldArrives`): what `PUT_` of a kind leaves is what was set, up to the cuts of `Same`, and takes no
  more octets than the size pass counts for it (`TakenFacts`). For a dictionary, the octets of pairs with cut
  keys are no more than those of the pairs themselves (`CutOctets`).
* *A message*, of any table that agrees with itself (`Agree`): the passes name the same fields in the same order,
  each string is sized and the fixed octets suffice for the rest, the copy and the one-step form take every field. Then
  the cells of an encoded message fit into its frame (`CellsFit`, by sums), the decoder finds a value for each
  field (`GetFacts`), and it is the one that was put (`DecodeFacts`). The object of the sender is well formed
  (`WellFormed`), a copy of it is the object itself (`DupIsCopy`), every message under way is an encoded one with
  its cells intact, less what was lost (`OnTheWire`), and what was received is right (`Good`):
  this is `MessagesInv`. A frame that has lost octets is read only when every cell still fits in what is left, and
  then no cell has lost anything.
* *The tables* (`TablesDoAgree`): each of the fifty-three messages agrees with itself, table by table
  (`AssetAgrees`, `CommonAgrees`); `Layout1` to `Layout7` say so of any seven fields or fewer.

The first attempt failed for a reason: the model used to keep every pair of a dictionary, but keys of 256 characters
or more can be cut to the same one. The model now follows `zhash_insert`, and `Same` says what a dictionary keeps.

**Assumptions.** The theorems assume of the constants what the modules declare: a finite set of assets that
does not hold `None`, a type for each asset, a number of credits (`TablesAssumption`);
rackcontroller-0 an asset or absent, special threads among the threads (`AgentAssumption`); every asset in
the order of the names (`RestoreAssumption`); devices and types of the network (`PowerAssumption`); maps of
ids, roots and orders of their types, links between devices, sensors that are devices, neither feeds nor
rackcontroller-0 (`DeleteAssumption`); databases whose parents exist and whose names and places are apart,
rows in every document and one in a creation (`ImportAssumption`, `DatabaseAssumption`, `CallAssumption`);
numbers for the assets of the topology, groups that are no devices, links between devices (`ChainAssumption`,
`LocationAssumption`); no uuid, value or asset that is `None`, containers among the assets, at least one
place in a queue (`StreamAssumption`, `ActorsAssumption`, `AutoupdateAssumption`); lengths of strings that four octets
can count (`SizesAssumption`). The initial states are
those of the modules: any consistent database. The hypotheses that some theorems add (`Alone`, `AgentAlone`,
`OneDeletes`, `Ranked`, `Physical`, `CallsApart`, `Srr = {}`, `Overlap = FALSE`) hold in the instance of the run that
checks the property. Those of `OnlyOthersDiffer` and `NoMappingStays` (`MaxFaults = 0`, `~CamFaults`) do not: the runs have
the faults, and check the properties that name them as exceptions.

**Model-checked only.** Liveness (`Answered`, `CallReturns`, `WalkEnds`, `AddressesArrive`,
`RequestsAreAnswered`, `UuidsSettle`, `EachRequestEnds`, `ImportReturns`) and what depends on ENABLED are out
of the prover's reach. Every invariant and action property that a passing run checks has a theorem.
Theorems that take an operator as a parameter
cannot be used, so what is proved by induction here is proved from the least element of a set of numbers (`Upward`,
`Smallest`), and a recursive function by its unfolding (`TurnsExist`, `RunsExist`).

## Findings

Two runs show the code at odds with what it says of itself:

1. *The walk of total power may not end* (`total_power.cc:270`), on links that form a cycle, although a
   comment says that it repeats until the chains end. Run `TotalPower_cycle`.
2. *Two assets with one external name* (`manager/import.cpp:54`): a document takes no lock, a creation
   that overlaps it finds the same name free. Run `Import_overlap`.

Others were met while modelling. The models take these steps, and no property says otherwise:

* An update whose activation is refused stays active (`asset-server.cc:518`): `activate()` swallows the
  error about a device, after `update()` has stored the status.
* A refused removal leaves a location nonactive (`asset.cc:303`): `deactivate()` has changed the status
  that the reactivation tests. A failed deactivation is swallowed, and the licence keeps the credit
  (`asset.cc:546`). `unlinkAll` commits before the removal, so a refused one has lost its links (`asset.cc:857`).
* A delete that changes a status undoes the move of another client (`asset.cc:543`).
* A request to the credential manager that fails leaves the mapping of an asset that is deleted
  (`asset-cam.cpp:110`, `manager/delete.cpp:203`): the exception is logged and nobody tries again.
* A report whose transaction is rolled back stays in the cache of the inventory actor (`dbhelpers.cc:266`), and the
  same report is then skipped as known. The deletion of an asset through the new interface leaves
  its values in the cache too, so an asset of the same name does not get them.
* Deleting a list that names an asset twice notifies nothing (`asset-server.cc:596`): the reload of an
  asset that is gone (`asset.cc:862`) throws past the list of results.
* A restore overwrites assets it did not restore (`asset-server.cc:1039`): the loop for the links is a
  full update.
* The end of a map is dereferenced (`total_power.cc:242`), when a device is created between two queries.
* Two calls of the library delete the two last datacenters (`manager/delete.cpp:317`).
* A location request "from" an asset catches no exception of the database, and one about an asset above
  itself recurses until the stack overflows (`topology_location.cc:86`); groups are repeated in it once
  for each level (`db/topology2.cc:551`).
* A string of 256 characters or more is cut to the remainder of its length by 256 (`asset_msg.cc`, `PUT_STRING`);
  a dictionary loses a pair whose key is cut to that of another one.
* An import activates after it has committed: a refusal reports an error about an asset that is there;
  a name that cannot be read back (`asset-import.cpp:800`) refuses a row that is committed; `sendConfigure` that
  fails reports an error about an asset that was created. The loop of
  `findParentByType` does not end on a circle of parents, and a creation holds the lock there.

And in reading only: the transaction that a restore of an existing asset leaves open (`asset.cc:430`);
the second reply of a create (`asset-server.cc:452`); a bad payload that is never answered
(`asset-server.cc:575`); the connection of the singleton `DB` that every `AssetImpl` replaces
(`asset-db.cc:51`); a rack that cannot be removed from a database without datacenter (`asset-db.cc:836`,
modelled in `IsLastDataCenter`); the 16 bits of an id in `assettopology.cc:2020`.

## Not modelled

* The pool of connections behind `DB` is in tntdb; the connection that the singleton shares between
  threads would need its internals.
* Cycles of parents in `AssetAgent`, which updates can build: its clients respect `Inside`. They are in the instances of
  `Locations` and `Import`.
* Crashes of the agent's handlers: nothing is recovered at the start, the next run takes the tables as
  they are. `Actors` has crashes.
* rackcontroller-0 in `SaveRestore`: it is listed by neither `listAllAssets` nor a save.
* In `BulkDelete`: the variable `FTY_OVERRIDE_LAST_DC_DELETION_CHECK` (taken as unset), group and monitor
  relations, SQL errors other than foreign keys, and overlapping deletions by the agent. Cycles of links
  and parents are not in the instances; with one a call ends in `endless`.
* Deletions by the library that overlap one of the agent: each counts the datacenters before it removes one, so
  together they can remove the last two. Of the library alone this is above, among the findings.
* In `Import`: the formats of single attributes and the monitor tables. In `Messages`: routing ids,
  printing, the cursors of lists and the names of commands.
* Get, list and status notification of the new interface, export and read of the library: they read and
  format. The same for the persistence helpers (one query each), DTO, JSON and CSV conversion, the
  accessor and the command line.

## Plan

1. The conversions that have cases of their own: CSV columns, status and type codecs, as operators
   against reference definitions.
2. Get, list and status notification in `AssetAgent`, with group and monitor relations in `AssetTables`.
