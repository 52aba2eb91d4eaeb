----------------------------- MODULE Inventory -----------------------------
(***************************************************************************)
(* The inventory actor (fty_asset_inventory.cc) and the cache that spares  *)
(* it the statements whose value it has written before (dbhelpers.cc:      *)
(* process_insert_inventory with map_cache).  The key of the cache ends    *)
(* with the read-only flag, which is a function of the keytag.             *)
(***************************************************************************)
EXTENDS AssetStream

VARIABLES
  cache,            \* ext_map_cache
  fate              \* history: what became of what the actor wrote last for each keytag

inventoryVars == <<cache, fate>>

(* It is still there, another writer changed it, it was removed with its   *)
(* asset, or the database rolled it back.                                  *)
Fates == {"kept", "changed", "removed", "undone"}

NoRow == [k \in Keys |-> None]

(* Keytags the cache does not answer for.                                  *)
Fresh(m) == {k \in DOMAIN m.ext : cache[m.name][k] # m.ext[k]}

(* INSERT ... ON DUPLICATE KEY UPDATE of the keytags ks; the element's id  *)
(* is NULL if it has no row, and the statement fails.                      *)
Written(m, ks) ==
  IF m.name \in elements
  THEN [ext EXCEPT ![m.name] = [k \in Keys |-> IF k \in ks THEN m.ext[k] ELSE @[k]]]
  ELSE ext
CachedAnyway(m, ks) ==
  [cache EXCEPT ![m.name] = [k \in Keys |-> IF k \in ks THEN m.ext[k] ELSE @[k]]]
Cached(m, ks) ==
  IF m.name \in elements
  THEN [cache EXCEPT ![m.name] = [k \in Keys |-> IF k \in ks THEN m.ext[k] ELSE @[k]]]
  ELSE cache

(* The fate of the keytags ks that are executed, of which the database     *)
(* takes back those in lost.                                               *)
Wrote(m, ks, lost) ==
  [fate EXCEPT ![m.name] = [k \in Keys |-> IF k \in lost THEN "undone"
                                           ELSE IF k \in ks THEN "kept" ELSE @[k]]]

(* The message is one transaction.                                         *)
Insert ==
  /\ inventoryBox # <<>> /\ Head(inventoryBox).op = "inventory"
  /\ LET m == Head(inventoryBox)
         ks == Fresh(m)
     IN  /\ ext' = Written(m, ks)
         /\ cache' = Cached(m, ks)
         /\ fate' = IF m.name \in elements THEN Wrote(m, ks, {}) ELSE fate
  /\ inventoryBox' = Tail(inventoryBox)
  /\ UNCHANGED <<elements, uuid, agentBox, mailbox, autoBox, faults>>

(* A statement chosen as the victim of a database deadlock takes with it   *)
(* those executed before; they stay in the cache.  The loop goes on with   *)
(* the rest.                                                               *)
InsertInterrupted ==
  /\ inventoryBox # <<>> /\ Head(inventoryBox).op = "inventory" /\ Fault
  /\ LET m == Head(inventoryBox)
         ks == Fresh(m)
     IN  /\ m.name \in elements
         /\ \E victim \in ks, before \in SUBSET ks :
              /\ victim \notin before
              /\ ext' = Written(m, ks \ ({victim} \cup before))
              /\ cache' = Cached(m, ks \ {victim})
              /\ fate' = Wrote(m, ks \ {victim}, before)
  /\ inventoryBox' = Tail(inventoryBox)
  /\ UNCHANGED <<elements, uuid, agentBox, mailbox, autoBox>>

(* No connection: the report is dropped.                                   *)
InsertRefused ==
  /\ inventoryBox # <<>> /\ Head(inventoryBox).op = "inventory" /\ Fault
  /\ inventoryBox' = Tail(inventoryBox)
  /\ UNCHANGED <<tables, cache, fate, agentBox, mailbox, autoBox>>

Ignore ==
  /\ inventoryBox # <<>> /\ Head(inventoryBox).op = "delete"
  /\ inventoryBox' = Tail(inventoryBox)
  /\ UNCHANGED <<tables, cache, fate, agentBox, mailbox, autoBox, faults>>
Vacuum ==
  /\ inventoryBox # <<>> /\ Head(inventoryBox).op = "delete"
  /\ cache' = [cache EXCEPT ![Head(inventoryBox).name] = NoRow]
  /\ inventoryBox' = Tail(inventoryBox)
  /\ UNCHANGED <<tables, fate, agentBox, mailbox, autoBox, faults>>

InventoryStep == Insert \/ InsertInterrupted \/ InsertRefused \/ Vacuum

-----------------------------------------------------------------------------
(* A report the cache swallows is stored already (process_insert_inventory *)
(* skips a keytag whose cached value is equal), with three exceptions:     *)
(* another writer changed the row since, the asset and its row went, or    *)
(* the actor's own statement was rolled back after its value had entered   *)
(* the cache, which the code does not notice.                              *)
AnotherWrote(a, k) == fate[a][k] \in {"changed", "removed"}
RolledBack(a, k) == fate[a][k] = "undone"
CacheIsTrue ==
  \A a \in Assets, k \in Keys :
    cache[a][k] # None =>
      ext[a][k] = cache[a][k] \/ AnotherWrote(a, k) \/ RolledBack(a, k)
=============================================================================
