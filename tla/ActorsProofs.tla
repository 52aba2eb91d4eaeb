---------------------------- MODULE ActorsProofs ----------------------------
(* Theorems about Actors, for any assets, keytags, clients and queues.     *)
EXTENDS Actors, TLAPS

-----------------------------------------------------------------------------
(* What the actors leave alone.                                            *)
LEMMA AgentLeaves ==
  ASSUME AgentStep
  PROVE  UNCHANGED <<elements, ext, inventoryBox>>
<1>1. Query \/ Republish \/ Detail => UNCHANGED <<elements, ext, inventoryBox>>
  BY DEF Query, Republish, Detail, Publishing, tables
<1>2. UpdateTopology \/ PublishNext \/ Finish => UNCHANGED <<elements, ext, inventoryBox>>
  BY DEF UpdateTopology, Publishing, PublishNext, Finish, tables
<1>3. Mint("agent") \/ Send("agent") => UNCHANGED <<elements, ext, inventoryBox>>
  BY DEF Mint, Send, tables
<1> QED
  BY <1>1, <1>2, <1>3 DEF AgentStep, ServeMailbox

LEMMA NgLeaves ==
  ASSUME NgThread
  PROVE  UNCHANGED <<elements, ext, inventoryBox, cache, fate, pending, silent>>
<1>1. Mint("ng") \/ Send("ng") => UNCHANGED <<elements, ext, inventoryBox>>
  BY DEF Mint, Send, tables
<1> QED
  BY <1>1 DEF NgThread, tables, inventoryVars, Unrelated

(* The steps that change neither the attributes nor the cache.             *)
Aside ==
  \/ AgentActor \/ AutoupdateActor \/ NgThread \/ Hourly \/ Wakeup
  \/ NewAddresses \/ Announce \/ AnnounceFails
  \/ \E c \in Clients : Ask(c)
  \/ \E a \in Assets : Driver(a)

LEMMA AsideLeaves ==
  ASSUME Aside \/ UNCHANGED vars
  PROVE  UNCHANGED <<elements, ext, cache, fate>>
<1>1. AgentActor => UNCHANGED <<elements, ext, cache, fate>>
  BY AgentLeaves DEF AgentActor, Agent, inventoryVars
<1>2. AutoupdateActor => UNCHANGED <<elements, ext, cache, fate>>
  BY DEF AutoupdateActor, HandleMessage, tables, inventoryVars
<1>3. Hourly \/ Wakeup => UNCHANGED <<elements, ext, cache, fate>>
  BY DEF Hourly, RepeatAll, Publishing, Wakeup, tables, actors, inventoryVars
<1>4. NewAddresses \/ (\E a \in Assets : Driver(a)) => UNCHANGED <<elements, ext, cache, fate>>
  BY DEF NewAddresses, Driver, Change, Untouched
<1>5. Announce \/ AnnounceFails \/ UNCHANGED vars => UNCHANGED <<elements, ext, cache, fate>>
  BY DEF Announce, AnnounceFails, vars, tables, actors, inventoryVars
<1>6. (\E c \in Clients : Ask(c)) => UNCHANGED <<elements, ext, cache, fate>>
  BY DEF Ask, tables, inventoryVars
<1> QED
  BY NgLeaves, <1>1, <1>2, <1>3, <1>4, <1>5, <1>6 DEF Aside

(* Faults are counted where they happen.                                   *)
LEMMA FaultsMove ==
  ASSUME Aside, ~Fault
  PROVE  faults' = faults
<1>1. CASE AgentActor
  BY <1>1 DEF AgentActor, Agent, AgentStep, ServeMailbox, Query, Republish, Detail, UpdateTopology,
     PublishNext, Finish, Mint, Send, Publishing, Read
<1>2. CASE AutoupdateActor \/ Hourly \/ Wakeup
  BY <1>2 DEF AutoupdateActor, HandleMessage, Hourly, RepeatAll, Publishing, Wakeup
<1>3. CASE NgThread
  BY <1>3 DEF NgThread, Read, Mint, Send
<1> QED
  BY <1>1, <1>2, <1>3 DEF Aside, NewAddresses, Announce, AnnounceFails, Ask, Driver, Change

(* Every step is one of these.                                             *)
LEMMA Steps ==
  ASSUME [Next]_vars
  PROVE  \/ Aside \/ UNCHANGED vars
         \/ InventoryActor \/ Crash
         \/ \E who \in {"library", "ng"}, a \in Assets :
              Create(who, a) \/ Update(who, a) \/ Delete(who, a)
  BY DEF Next, Others, Aside

-----------------------------------------------------------------------------
(* A value in the cache is the one in the table.                           *)
CacheInv ==
  /\ elements \subseteq Assets /\ DOMAIN ext = Assets /\ DOMAIN cache = Assets
  /\ fate \in [Assets -> [Keys -> Fates]]
  /\ CacheIsTrue

LEMMA CacheInit == Init => CacheInv
  BY DEF Init, CacheInv, CacheIsTrue, NoRow, Fates

LEMMA KeptIsTrue ==
  ASSUME fate \in [Assets -> [Keys -> Fates]]
  PROVE  CacheIsTrue <=> \A a \in Assets, k \in Keys :
           cache[a][k] # None /\ fate[a][k] = "kept" => ext[a][k] = cache[a][k]
  BY DEF CacheIsTrue, AnotherWrote, RolledBack, Fates

(* A report writes the keytags cs to the cache and ks to the table; the    *)
(* database took those back that it wrote to the cache only.               *)
LEMMA ReportKeeps ==
  ASSUME CacheInv, NEW m, m.name \in elements, NEW ks, NEW cs, NEW lost,
         ext' = Written(m, ks), cache' = Cached(m, cs), elements' = elements,
         fate' = Wrote(m, cs, lost),
         ks = cs \ lost, lost \subseteq cs
  PROVE  CacheInv'
<1> DEFINE a == m.name
<1>1. a \in Assets
  BY DEF CacheInv
<1>2. DOMAIN ext' = Assets /\ DOMAIN cache' = Assets
  BY DEF Written, Cached, CacheInv
<1>3. \A k \in Keys : /\ ext'[a][k] = IF k \in ks THEN m.ext[k] ELSE ext[a][k]
                      /\ cache'[a][k] = IF k \in cs THEN m.ext[k] ELSE cache[a][k]
  BY <1>1 DEF Written, Cached, CacheInv
<1>4. \A b \in Assets \ {a} : ext'[b] = ext[b] /\ cache'[b] = cache[b]
  BY <1>1 DEF Written, Cached, CacheInv
<1>5. /\ fate' \in [Assets -> [Keys -> Fates]]
      /\ \A b \in Assets \ {a} : fate'[b] = fate[b]
      /\ \A k \in Keys : fate'[a][k] = IF k \in lost THEN "undone"
                                        ELSE IF k \in cs THEN "kept" ELSE fate[a][k]
  <2>1. [k \in Keys |-> IF k \in lost THEN "undone" ELSE IF k \in cs THEN "kept" ELSE fate[a][k]]
          \in [Keys -> Fates]
    BY <1>1 DEF CacheInv, Fates
  <2> QED
    BY <1>1, <2>1 DEF CacheInv, Wrote
<1>6. ASSUME NEW b \in Assets, NEW k \in Keys, cache'[b][k] # None, fate'[b][k] = "kept"
      PROVE  ext'[b][k] = cache'[b][k]
  <2>1. CASE b # a
    <3>1. ext'[b] = ext[b] /\ cache'[b] = cache[b] /\ fate'[b] = fate[b]
      BY <1>4, <1>5, <1>6, <2>1
    <3>2. fate \in [Assets -> [Keys -> Fates]] /\ CacheIsTrue
      BY DEF CacheInv
    <3> QED
      BY <1>6, <3>1, <3>2, KeptIsTrue
  <2>2. CASE b = a /\ k \in cs
    <3>1. k \notin lost
      BY <1>5, <1>6, <2>2
    <3> QED
      BY <1>3, <2>2, <3>1
  <2>3. CASE b = a /\ k \notin cs
    <3>1. fate[b][k] = "kept" /\ k \notin ks
      BY <1>5, <1>6, <2>3
    <3>2. ext'[b][k] = ext[b][k] /\ cache'[b][k] = cache[b][k]
      BY <1>3, <2>3, <3>1
    <3> QED
      BY <1>6, <3>1, <3>2, KeptIsTrue DEF CacheInv
  <2> QED
    BY <2>1, <2>2, <2>3
<1>7. CacheIsTrue'
  <2>1. ASSUME NEW b \in Assets, NEW k \in Keys, cache'[b][k] # None
        PROVE  \/ ext'[b][k] = cache'[b][k]
               \/ fate'[b][k] \in {"changed", "removed", "undone"}
    <3>1. fate'[b][k] \in Fates
      BY <1>5
    <3>2. CASE fate'[b][k] = "kept"
      BY <1>6, <2>1, <3>2
    <3> QED
      BY <3>1, <3>2 DEF Fates
  <2> QED
    BY <2>1 DEF CacheIsTrue, AnotherWrote, RolledBack
<1> QED
  BY <1>2, <1>5, <1>7 DEF CacheInv

LEMMA InventoryCache ==
  ASSUME CacheInv, InventoryActor
  PROVE  CacheInv'
<1> DEFINE m == Head(inventoryBox)
           ks == Fresh(m)
<1>1. CASE Insert /\ m.name \in elements
  <2> DEFINE none == {}
  <2>1. fate' = Wrote(m, ks, none)
    BY <1>1 DEF Insert
  <2>2. ext' = Written(m, ks) /\ cache' = Cached(m, ks) /\ elements' = elements
    BY <1>1 DEF Insert
  <2>3. ks = ks \ none /\ none \subseteq ks
    OBVIOUS
  <2> HIDE DEF m, ks, none
  <2> QED
    BY <1>1, <2>1, <2>2, <2>3, ReportKeeps
<1>2. CASE Insert /\ m.name \notin elements
  BY <1>2 DEF Insert, Written, Cached, CacheInv, CacheIsTrue, AnotherWrote, RolledBack
<1>3. CASE InsertInterrupted
  <2>1. PICK victim \in ks, before \in SUBSET ks :
          /\ victim \notin before
          /\ ext' = Written(m, ks \ ({victim} \cup before))
          /\ cache' = Cached(m, ks \ {victim})
          /\ fate' = Wrote(m, ks \ {victim}, before)
    BY <1>3 DEF InsertInterrupted
  <2>2. m.name \in elements /\ elements' = elements
    BY <1>3 DEF InsertInterrupted
  <2>3. /\ ks \ ({victim} \cup before) = (ks \ {victim}) \ before
        /\ before \subseteq ks \ {victim}
    BY <2>1
  <2> HIDE DEF m, ks
  <2> QED
    BY <2>1, <2>2, <2>3, ReportKeeps
<1>4. CASE InsertRefused
  BY <1>4 DEF InsertRefused, tables, CacheInv, CacheIsTrue, AnotherWrote, RolledBack
<1>5. CASE Vacuum
  BY <1>5 DEF Vacuum, tables, CacheInv, CacheIsTrue, AnotherWrote, RolledBack, NoRow
<1> QED
  BY <1>1, <1>2, <1>3, <1>4, <1>5 DEF InventoryActor, InventoryStep

LEMMA ChangeCache ==
  ASSUME CacheInv, NEW who, NEW a \in Assets, Create(who, a) \/ Update(who, a) \/ Delete(who, a)
  PROVE  CacheInv'
<1>1. cache' = cache
  BY DEF Create, Update, Delete, Change
<1>2. CASE Create(who, a)
  BY <1>1, <1>2 DEF Create, CacheInv, CacheIsTrue, AnotherWrote, RolledBack
<1>3. CASE Update(who, a)
  <2>1. PICK k \in Keys, v \in Values :
          ext' = [ext EXCEPT ![a][k] = v] /\ fate' = [fate EXCEPT ![a][k] = "changed"]
    BY <1>3, ActorsAssumption DEF Update
  <2>2. \A b \in Assets, l \in Keys : <<b, l>> # <<a, k>> => ext'[b][l] = ext[b][l] /\ fate'[b][l] = fate[b][l]
    BY <2>1 DEF CacheInv
  <2>3. elements' = elements /\ DOMAIN ext' = Assets
    BY <1>3, <2>1 DEF Update, CacheInv
  <2>4. fate' \in [Assets -> [Keys -> Fates]] /\ fate'[a][k] = "changed"
    BY <2>1 DEF CacheInv, Fates
  <2> QED
    BY <1>1, <2>2, <2>3, <2>4 DEF CacheInv, CacheIsTrue, AnotherWrote, RolledBack
<1>4. CASE Delete(who, a)
  <2>1. [k \in Keys |-> "removed"] \in [Keys -> Fates]
    BY DEF Fates
  <2>2. /\ fate' \in [Assets -> [Keys -> Fates]] /\ \A k \in Keys : fate'[a][k] = "removed"
        /\ \A b \in Assets \ {a} : fate'[b] = fate[b] /\ ext'[b] = ext[b]
    BY <1>4, <2>1 DEF Delete, CacheInv
  <2>3. elements' \subseteq Assets /\ DOMAIN ext' = Assets
    BY <1>4 DEF Delete, CacheInv
  <2> QED
    BY <1>1, <2>2, <2>3 DEF CacheInv, CacheIsTrue, AnotherWrote, RolledBack
<1> QED
  BY <1>2, <1>3, <1>4

LEMMA CacheNext == CacheInv /\ [Next]_vars => CacheInv'
<1> SUFFICES ASSUME CacheInv, [Next]_vars PROVE CacheInv'
  OBVIOUS
<1>1. CASE Aside \/ UNCHANGED vars
  BY <1>1, AsideLeaves DEF CacheInv, CacheIsTrue, AnotherWrote, RolledBack
<1>2. CASE Crash
  BY <1>2 DEF Crash, tables, CacheInv, CacheIsTrue, AnotherWrote, RolledBack, NoRow
<1> QED
  BY <1>1, <1>2, Steps, InventoryCache, ChangeCache

(* The cache of the inventory actor swallows a report that differs from    *)
(* the table only when another writer changed or removed the row since, or *)
(* when the statement that wrote it was rolled back with its value already *)
(* in the cache (process_insert_inventory), whatever is restarted.         *)
THEOREM CacheStaysTrue == Spec => []CacheIsTrue
<1>1. CacheInv => CacheIsTrue
  BY DEF CacheInv
<1> QED
  BY CacheInit, CacheNext, <1>1, PTL DEF Spec

(* Without failing statements the actor makes no cached value false.       *)
NeverRolledBack == \A a \in Assets, k \in Keys : ~RolledBack(a, k)

LEMMA RolledBackNext ==
  ASSUME MaxFaults = 0, CacheInv, NeverRolledBack, faults = 0, [Next]_vars
  PROVE  NeverRolledBack' /\ faults' = 0
<1>1. ~Fault
  BY DEF Fault
<1>2. CASE Aside \/ UNCHANGED vars
  <2>1. fate' = fate
    BY <1>2, AsideLeaves
  <2>2. faults' = faults
    BY <1>1, <1>2, FaultsMove DEF vars
  <2> QED
    BY <2>1, <2>2 DEF NeverRolledBack, RolledBack
<1>3. CASE Crash
  BY <1>1, <1>3 DEF Crash
<1>4. CASE InventoryActor
  <2>1. Insert \/ Vacuum
    BY <1>1, <1>4 DEF InventoryActor, InventoryStep, InsertInterrupted, InsertRefused
  <2>2. CASE Insert
    <3> DEFINE m == Head(inventoryBox)
               ks == Fresh(m)
    <3>1. faults' = faults /\ ((fate' = Wrote(m, ks, {}) /\ m.name \in elements) \/ fate' = fate)
      BY <2>2 DEF Insert
    <3> HIDE DEF m, ks
    <3> QED
      BY <3>1 DEF Wrote, NeverRolledBack, RolledBack, CacheInv
  <2>3. CASE Vacuum
    BY <2>3 DEF Vacuum, NeverRolledBack, RolledBack
  <2> QED
    BY <2>1, <2>2, <2>3
<1>5. ASSUME NEW who \in {"library", "ng"}, NEW a \in Assets,
             Create(who, a) \/ Update(who, a) \/ Delete(who, a)
      PROVE  NeverRolledBack' /\ faults' = 0
  <2>1. faults' = 0
    BY <1>5 DEF Create, Update, Delete, Change
  <2>2. \A b \in Assets, k \in Keys : fate'[b][k] \in {fate[b][k], "changed", "removed"}
    <3>1. CASE Create(who, a)
      BY <3>1 DEF Create
    <3>2. CASE Update(who, a)
      BY <3>2, ActorsAssumption DEF Update, CacheInv
    <3>3. CASE Delete(who, a)
      BY <3>3 DEF Delete, CacheInv
    <3> QED
      BY <1>5, <3>1, <3>2, <3>3
  <2> QED
    BY <2>1, <2>2 DEF NeverRolledBack, RolledBack
<1> QED
  BY <1>2, <1>3, <1>4, <1>5, Steps

(* Without failing statements and restarts, the third exception falls      *)
(* away: only another writer of the attributes, or the end of the asset,   *)
(* makes a cached value differ from the table (process_insert_inventory).  *)
THEOREM OnlyOthersDiffer ==
  ASSUME MaxFaults = 0
  PROVE  Spec => [](\A a \in Assets, k \in Keys :
                      cache[a][k] # None /\ ext[a][k] # cache[a][k] => AnotherWrote(a, k))
<1> DEFINE J == CacheInv /\ NeverRolledBack /\ faults = 0
<1>1. Init => J
  BY CacheInit DEF Init, NeverRolledBack, RolledBack
<1>2. J /\ [Next]_vars => J'
  BY CacheNext, RolledBackNext
<1>3. J => \A a \in Assets, k \in Keys :
             cache[a][k] # None /\ ext[a][k] # cache[a][k] => AnotherWrote(a, k)
  BY DEF CacheInv, CacheIsTrue, NeverRolledBack
<1> QED
  BY <1>1, <1>2, <1>3, PTL DEF Spec

-----------------------------------------------------------------------------
(* Messages in a queue.                                                    *)
IsSeq(q) == \E S : q \in Seq(S)
Holds(q, e) == \E i \in DOMAIN q : q[i] = e

LEMMA AppendHolds ==
  ASSUME NEW q, IsSeq(q), NEW e
  PROVE  /\ IsSeq(Append(q, e)) /\ Holds(Append(q, e), e)
         /\ \A x : Holds(q, x) => Holds(Append(q, e), x)
<1>1. PICK S : q \in Seq(S)
  BY DEF IsSeq
<1>2. q \in Seq(S \cup {e}) /\ e \in S \cup {e}
  BY <1>1
<1>3. Append(q, e) \in Seq(S \cup {e})
  BY <1>2
<1>4. /\ Len(Append(q, e)) = Len(q) + 1 /\ Append(q, e)[Len(q) + 1] = e
      /\ \A i \in 1 .. Len(q) : Append(q, e)[i] = q[i]
      /\ DOMAIN q = 1 .. Len(q) /\ Len(q) \in Nat
      /\ DOMAIN Append(q, e) = 1 .. Len(q) + 1
  BY <1>2
<1> QED
  BY <1>3, <1>4 DEF IsSeq, Holds

LEMMA TailHolds ==
  ASSUME NEW q, IsSeq(q), q # <<>>
  PROVE  IsSeq(Tail(q)) /\ \A x : Holds(q, x) => x = Head(q) \/ Holds(Tail(q), x)
<1>1. PICK S : q \in Seq(S)
  BY DEF IsSeq
<1>2. /\ Tail(q) \in Seq(S) /\ Head(q) = q[1] /\ Len(q) \in Nat \ {0} /\ DOMAIN q = 1 .. Len(q)
      /\ DOMAIN Tail(q) = 1 .. Len(q) - 1
      /\ \A i \in 1 .. Len(q) - 1 : Tail(q)[i] = q[i + 1]
  BY <1>1
<1>3. ASSUME NEW i \in 2 .. Len(q)
      PROVE  i - 1 \in DOMAIN Tail(q) /\ Tail(q)[i - 1] = q[i]
  BY <1>2
<1>4. \A i \in DOMAIN q : i = 1 \/ i \in 2 .. Len(q)
  BY <1>2
<1> QED
  BY <1>2, <1>3, <1>4 DEF IsSeq, Holds

-----------------------------------------------------------------------------
(* The cache keeps nothing of an asset that is gone.                       *)
Excused(a) ==
  \/ a \in silent
  \/ Holds(pending, [op |-> "delete", name |-> a])
  \/ Holds(inventoryBox, Deletion(a))
VacuumInv ==
  /\ elements \subseteq Assets /\ DOMAIN cache = Assets
  /\ IsSeq(pending) /\ IsSeq(inventoryBox)
  /\ \A a \in Assets \ elements : cache[a] # NoRow => Excused(a)

LEMMA VacuumInit == Init => VacuumInv
<1> SUFFICES ASSUME Init PROVE VacuumInv
  OBVIOUS
<1>1. pending = <<>> /\ inventoryBox = <<>>
  BY DEF Init
<1>2. IsSeq(<<>>)
  <2>1. <<>> \in Seq({})
    OBVIOUS
  <2> QED
    BY <2>1 DEF IsSeq
<1>3. elements \subseteq Assets /\ cache = [a \in Assets |-> NoRow]
  BY DEF Init
<1> QED
  BY <1>1, <1>2, <1>3 DEF VacuumInv

(* The actors and the others only add to the queue of the inventory actor. *)
LEMMA BoxGrows ==
  ASSUME VacuumInv, IsSeq(inventoryBox), NEW e, \/ inventoryBox' = inventoryBox
                                                \/ inventoryBox' = Append(inventoryBox, e)
  PROVE  IsSeq(inventoryBox') /\ \A x : Holds(inventoryBox, x) => Holds(inventoryBox', x)
<1>1. CASE inventoryBox' = inventoryBox
  BY <1>1
<1>2. CASE inventoryBox' = Append(inventoryBox, e)
  BY <1>2, AppendHolds
<1> QED
  BY <1>1, <1>2

LEMMA AsideVacuum ==
  ASSUME VacuumInv, Aside \/ UNCHANGED vars
  PROVE  VacuumInv'
<1>1. elements' = elements /\ cache' = cache
  BY AsideLeaves
<1>2. CASE \/ UNCHANGED <<pending, silent, inventoryBox>>
           \/ /\ UNCHANGED <<pending, silent>>
              /\ \E e : inventoryBox' = Append(inventoryBox, e)
  <2>1. IsSeq(inventoryBox') /\ \A x : Holds(inventoryBox, x) => Holds(inventoryBox', x)
    BY <1>2, BoxGrows DEF VacuumInv
  <2> QED
    BY <1>1, <1>2, <2>1 DEF VacuumInv, Excused
<1>3. CASE Announce
  <2> DEFINE c == Head(pending)
  <2>1. IsSeq(Tail(pending)) /\ \A x : Holds(pending, x) => x = c \/ Holds(Tail(pending), x)
    BY <1>3, TailHolds DEF Announce, VacuumInv
  <2>2. /\ pending' = Tail(pending) /\ silent' = silent
        /\ inventoryBox' = IF c.op = "delete" THEN Append(inventoryBox, Deletion(c.name))
                                               ELSE inventoryBox
    BY <1>3 DEF Announce
  <2>3. /\ IsSeq(inventoryBox') /\ \A x : Holds(inventoryBox, x) => Holds(inventoryBox', x)
        /\ c.op = "delete" => Holds(inventoryBox', Deletion(c.name))
    BY <2>2, AppendHolds DEF VacuumInv
  <2> HIDE DEF c
  <2>4. ASSUME NEW a, Excused(a)
        PROVE  Excused(a)'
    <3>1. CASE Holds(pending, [op |-> "delete", name |-> a])
      <4>1. CASE c = [op |-> "delete", name |-> a]
        <5>1. c.op = "delete" /\ c.name = a
          BY <4>1
        <5> QED
          BY <2>3, <5>1 DEF Excused
      <4>2. CASE Holds(Tail(pending), [op |-> "delete", name |-> a])
        BY <2>2, <4>2 DEF Excused
      <4> QED
        BY <2>1, <3>1, <4>1, <4>2
    <3> QED
      BY <2>2, <2>3, <2>4, <3>1 DEF Excused
  <2> QED
    BY <1>1, <2>1, <2>2, <2>3, <2>4 DEF VacuumInv
<1>4. CASE AnnounceFails
  <2>1. /\ pending' = <<>> /\ inventoryBox' = inventoryBox
        /\ silent' = silent \cup {pending[i].name : i \in {j \in DOMAIN pending : pending[j].op = "delete"}}
    BY <1>4 DEF AnnounceFails
  <2>2. ASSUME NEW a, Excused(a)
        PROVE  Excused(a)'
    BY <2>1, <2>2 DEF Excused, Holds
  <2>3. IsSeq(<<>>)
    <3>1. <<>> \in Seq({})
      OBVIOUS
    <3> QED
      BY <3>1 DEF IsSeq
  <2> QED
    BY <1>1, <2>1, <2>2, <2>3 DEF VacuumInv
<1>5. AgentActor => UNCHANGED <<pending, silent, inventoryBox>>
  BY AgentLeaves DEF AgentActor, Agent, Unrelated
<1>6. Hourly \/ Wakeup \/ NewAddresses \/ UNCHANGED vars => UNCHANGED <<pending, silent, inventoryBox>>
  BY DEF Hourly, RepeatAll, Publishing, Wakeup, NewAddresses, Untouched, Unrelated, vars, others
<1>7. (\E c \in Clients : Ask(c)) => UNCHANGED <<pending, silent, inventoryBox>>
  BY DEF Ask, others
<1>8. (\E a \in Assets : Driver(a)) =>
        UNCHANGED <<pending, silent>> /\ \E e : inventoryBox' = Append(inventoryBox, e)
  BY DEF Driver, Untouched
<1>9. AutoupdateActor => /\ UNCHANGED <<pending, silent>>
                         /\ \/ inventoryBox' = inventoryBox
                            \/ \E e : inventoryBox' = Append(inventoryBox, e)
  BY DEF AutoupdateActor, HandleMessage
<1> QED
  BY <1>2, <1>3, <1>4, <1>5, <1>6, <1>7, <1>8, <1>9, NgLeaves DEF Aside

LEMMA InventoryVacuum ==
  ASSUME VacuumInv, InventoryActor
  PROVE  VacuumInv'
<1> DEFINE m == Head(inventoryBox)
<1>1. inventoryBox # <<>> /\ inventoryBox' = Tail(inventoryBox) /\ elements' = elements
      /\ pending' = pending
  BY DEF InventoryActor, InventoryStep, Insert, InsertInterrupted, InsertRefused, Vacuum, tables,
         Unrelated
<1>2. IsSeq(inventoryBox') /\ \A x : Holds(inventoryBox, x) => x = m \/ Holds(inventoryBox', x)
  BY <1>1, TailHolds DEF VacuumInv
<1>3. CASE m.op = "inventory"
  <2>1. silent' = silent
    BY <1>3 DEF InventoryActor
  <2>2. \A a : Deletion(a) # m
    BY <1>3 DEF Deletion
  <2>3. DOMAIN cache' = Assets /\ \A a \in Assets \ elements : cache'[a] = cache[a]
    BY <1>3 DEF InventoryActor, InventoryStep, Insert, InsertInterrupted, InsertRefused, Vacuum,
                Cached, VacuumInv
  <2> HIDE DEF m
  <2> QED
    BY <1>1, <1>2, <2>1, <2>2, <2>3 DEF VacuumInv, Excused
<1>4. CASE m.op # "inventory"
  <2>1. m.op = "delete" /\ cache' = [cache EXCEPT ![m.name] = NoRow]
    BY <1>4 DEF InventoryActor, InventoryStep, Insert, InsertInterrupted, InsertRefused, Vacuum
  <2>2. silent' = silent \ {m.name}
    BY <2>1 DEF InventoryActor
  <2>3. \A a : a # m.name => Deletion(a) # m
    BY DEF Deletion
  <2> HIDE DEF m
  <2>4. DOMAIN cache' = Assets /\ \A a \in Assets : cache'[a] = IF a = m.name THEN NoRow ELSE cache[a]
    BY <2>1 DEF VacuumInv
  <2> QED
    BY <1>1, <1>2, <2>2, <2>3, <2>4 DEF VacuumInv, Excused
<1> QED
  BY <1>3, <1>4

LEMMA ChangeVacuum ==
  ASSUME VacuumInv, NEW who \in {"library", "ng"}, NEW a \in Assets,
         Create(who, a) \/ Update(who, a) \/ Delete(who, a)
  PROVE  VacuumInv'
<1>1. cache' = cache /\ inventoryBox' = inventoryBox
  BY DEF Create, Update, Delete, Change
<1>2. \/ pending' = pending
      \/ \E e : pending' = Append(pending, e)
  BY DEF Create, Update, Delete, MadeBy
<1>3. IsSeq(pending') /\ \A x : Holds(pending, x) => Holds(pending', x)
  <2>1. IsSeq(pending)
    BY DEF VacuumInv
  <2>2. CASE pending' = pending
    BY <2>1, <2>2
  <2>3. ASSUME NEW e, pending' = Append(pending, e)
        PROVE  IsSeq(pending') /\ \A x : Holds(pending, x) => Holds(pending', x)
    BY <2>1, <2>3, AppendHolds
  <2> QED
    BY <1>2, <2>2, <2>3
<1>4. CASE Create(who, a)
  <2>1. elements' = elements \cup {a} /\ silent' = silent
    BY <1>4 DEF Create
  <2> QED
    BY <1>1, <1>3, <2>1 DEF VacuumInv, Excused
<1>5. CASE Update(who, a)
  <2>1. elements' = elements /\ silent' = silent
    BY <1>5 DEF Update
  <2> QED
    BY <1>1, <1>3, <2>1 DEF VacuumInv, Excused
<1>6. CASE Delete(who, a)
  <2>1. elements' = elements \ {a} /\ silent' = IF who = "ng" THEN silent \cup {a} ELSE silent
    BY <1>6 DEF Delete
  <2>2. who = "library" => pending' = Append(pending, [op |-> "delete", name |-> a])
    BY <1>6 DEF Delete, MadeBy
  <2>3. Excused(a)'
    <3>1. CASE who = "ng"
      BY <2>1, <3>1 DEF Excused
    <3>2. CASE who = "library"
      <4>1. Holds(pending', [op |-> "delete", name |-> a])
        BY <2>2, <3>2, AppendHolds DEF VacuumInv
      <4> QED
        BY <4>1 DEF Excused
    <3> QED
      BY <3>1, <3>2
  <2>4. \A b \in Assets : Excused(b) => Excused(b)'
    BY <1>1, <1>3, <2>1 DEF Excused
  <2> QED
    BY <1>1, <1>3, <2>1, <2>3, <2>4 DEF VacuumInv
<1> QED
  BY <1>4, <1>5, <1>6

LEMMA VacuumNext == VacuumInv /\ [Next]_vars => VacuumInv'
<1> SUFFICES ASSUME VacuumInv, [Next]_vars PROVE VacuumInv'
  OBVIOUS
<1>1. CASE Crash
  <2>1. elements' = elements /\ cache' = [a \in Assets |-> NoRow] /\ pending' = pending
        /\ inventoryBox' = <<>>
    BY <1>1 DEF Crash, tables
  <2>2. IsSeq(<<>>)
    <3>1. <<>> \in Seq({})
      OBVIOUS
    <3> QED
      BY <3>1 DEF IsSeq
  <2> QED
    BY <2>1, <2>2 DEF VacuumInv
<1> QED
  BY <1>1, Steps, AsideVacuum, InventoryVacuum, ChangeVacuum

(* A deletion that is announced, however late and whatever reports         *)
(* overtake it, leaves nothing of the asset in the cache.                  *)
THEOREM CacheIsVacuumed == Spec => []VacuumedWhenAnnounced
<1>1. VacuumInv => VacuumedWhenAnnounced
  BY DEF VacuumInv, VacuumedWhenAnnounced, Excused, Holds
<1> QED
  BY VacuumInit, VacuumNext, <1>1, PTL DEF Spec

-----------------------------------------------------------------------------
(* What subscribers know as the uuid of an asset is the one stored.        *)

(* A publication that has read no uuid has found none, or will compute the *)
(* one there is; if it draws one, nobody else is about to.                 *)
Reading(a) == \A p \in Publishers : pub[p].asset = a =>
  /\ a \in elements
  /\ pub[p].at = "mint" => uuid[a] = None \/ Identity[a] # None
  /\ pub[p].at = "mint" /\ Identity[a] = None =>
       \A q \in Publishers \ {p} : pub[q].asset = a => pub[q].at # "mint"
  /\ pub[p].at = "send" => pub[p].uuid \in {None, uuid[a]}
Settled(a) ==
  /\ known[a] \in {None, uuid[a]}
  /\ a \notin elements => known[a] = None /\ uuid[a] = None
  /\ Identity[a] # None => uuid[a] \in {None, Identity[a]}
Records == /\ DOMAIN pub = Publishers /\ DOMAIN known = Assets /\ DOMAIN uuid = Assets
           /\ \A p \in Publishers : DOMAIN pub[p] = {"at", "asset", "uuid", "to"}
UuidInv ==
  /\ elements \subseteq Assets /\ Records
  /\ \A a \in Assets \ raced : Reading(a) /\ Settled(a)

LEMMA UuidInit == Init => UuidInv
<1> SUFFICES ASSUME Init PROVE UuidInv
  OBVIOUS
<1>1. /\ pub = [p \in Publishers |-> Quiet] /\ elements \subseteq Assets
      /\ uuid = [a \in Assets |-> None] /\ known = [a \in Assets |-> None]
  BY DEF Init
<1>2. Records
  BY <1>1 DEF Records, Quiet
<1>3. \A a \in Assets : Reading(a) /\ Settled(a)
  BY <1>1, StreamAssumption DEF Reading, Settled, Quiet
<1> QED
  BY <1>1, <1>2, <1>3 DEF UuidInv

(* Reading the asset.                                                      *)
LEMMA ReadUuid ==
  ASSUME UuidInv, NEW p \in Publishers, NEW a, NEW to, Read(p, a, to),
         UNCHANGED <<elements, uuid, known>>
  PROVE  UuidInv'
<1>1. CASE UNCHANGED <<pub, raced>>
  BY <1>1 DEF UuidInv, Records, Reading, Settled
<1>2. CASE /\ a \in elements
           /\ pub' = [pub EXCEPT ![p] = Publication(p, a, to)]
           /\ raced' = IF Identity[a] = None /\ Minting(a) /\ uuid[a] = None
                       THEN raced \cup {a} ELSE raced
  <2> DEFINE r == Publication(p, a, to)
  <2>1. /\ r.asset = a /\ r.at = IF uuid[a] = None THEN "mint" ELSE "send"
        /\ r.uuid = uuid[a] /\ DOMAIN r = {"at", "asset", "uuid", "to"}
    BY DEF Publication
  <2>2. pub'[p] = r /\ (\A q \in Publishers \ {p} : pub'[q] = pub[q]) /\ DOMAIN pub' = Publishers
    BY <1>2 DEF UuidInv, Records
  <2>3. a \in Assets /\ Quiet.asset = None /\ pub[p] = Quiet
    BY <1>2 DEF UuidInv, Quiet, Read
  <2> HIDE DEF r
  <2>4. Records'
    BY <2>1, <2>2 DEF UuidInv, Records
  <2>5. \A b \in Assets \ raced' : Settled(b)'
    BY <1>2 DEF UuidInv, Settled
  <2>6. ASSUME NEW b \in Assets \ raced', b # a
        PROVE  Reading(b)'
    <3>1. Reading(b)
      BY <1>2, <2>6 DEF UuidInv
    <3> QED
      BY <2>1, <2>2, <2>6, <3>1 DEF Reading
  <2>7. ASSUME a \notin raced'
        PROVE  Reading(a)'
    <3>1. Reading(a)
      BY <1>2, <2>3, <2>7 DEF UuidInv
    <3>2. Identity[a] = None /\ uuid[a] = None =>
            \A q \in Publishers : pub[q].asset = a => pub[q].at # "mint"
      BY <1>2, <2>7 DEF Minting
    <3>3. \A q \in Publishers \ {p} : pub'[q] = pub[q]
      BY <2>2
    <3>4. ASSUME NEW q \in Publishers, pub'[q].asset = a
          PROVE  /\ a \in elements'
                 /\ pub'[q].at = "mint" => uuid'[a] = None \/ Identity[a] # None
                 /\ pub'[q].at = "mint" /\ Identity[a] = None =>
                      \A o \in Publishers \ {q} : pub'[o].asset = a => pub'[o].at # "mint"
                 /\ pub'[q].at = "send" => pub'[q].uuid \in {None, uuid'[a]}
      <4>1. CASE q = p
        BY <1>2, <2>1, <2>2, <3>2, <4>1
      <4>2. CASE q # p
        <5>1. pub'[q].at = "mint" /\ Identity[a] = None => r.at # "mint"
          BY <2>1, <2>2, <3>1, <3>2, <3>4, <4>2 DEF Reading
        <5> QED
          BY <1>2, <2>1, <2>2, <3>1, <3>4, <4>2, <5>1 DEF Reading
      <4> QED
        BY <4>1, <4>2
    <3> QED
      BY <3>4 DEF Reading
  <2> QED
    BY <2>4, <2>5, <2>6, <2>7 DEF UuidInv
<1> QED
  BY <1>1, <1>2 DEF Read

(* Storing a uuid.                                                         *)
LEMMA MintUuid ==
  ASSUME UuidInv, NEW p \in Publishers, Mint(p)
  PROVE  UuidInv'
<1>0. PICK a, u : a = pub[p].asset /\ u = NewUuid(a)
  OBVIOUS
<1>1. /\ pub[p].at = "mint" /\ pub' = [pub EXCEPT ![p].at = "send", ![p].uuid = u]
      /\ UNCHANGED <<elements, known>>
      /\ \/ a \in elements /\ uuid' = [uuid EXCEPT ![a] = u] /\ raced' = raced
         \/ raced' = raced \cup {a} /\ uuid' = uuid
  BY <1>0 DEF Mint
<1>2. Identity[a] # None => u = Identity[a]
  BY <1>0 DEF NewUuid
<1>3. /\ pub'[p].at = "send" /\ pub'[p].uuid = u /\ pub'[p].asset = a
      /\ \A q \in Publishers \ {p} : pub'[q] = pub[q]
  BY <1>0, <1>1 DEF UuidInv, Records
<1>4. Records'
  <2>1. DOMAIN pub' = Publishers /\ DOMAIN pub'[p] = DOMAIN pub[p]
    BY <1>1 DEF UuidInv, Records
  <2>2. \A q \in Publishers : DOMAIN pub'[q] = {"at", "asset", "uuid", "to"}
    BY <1>3, <2>1 DEF UuidInv, Records
  <2>3. DOMAIN known' = Assets /\ DOMAIN uuid' = Assets
    BY <1>1 DEF UuidInv, Records
  <2> QED
    BY <2>1, <2>2, <2>3 DEF Records
<1>5. ASSUME NEW b \in Assets \ raced', b # a
      PROVE  Reading(b)' /\ Settled(b)'
  <2>1. Reading(b) /\ Settled(b) /\ uuid'[b] = uuid[b]
    BY <1>1, <1>5 DEF UuidInv, Records
  <2>2. Settled(b)'
    BY <1>1, <2>1 DEF Settled
  <2>3. Reading(b)'
    BY <1>0, <1>1, <1>3, <1>5, <2>1, ZenonT(60) DEF Reading
  <2> QED
    BY <2>2, <2>3
<1>6. ASSUME a \in Assets \ raced'
      PROVE  Reading(a)' /\ Settled(a)'
  <2>1. Reading(a) /\ Settled(a) /\ uuid'[a] = u /\ a \in elements
    BY <1>1, <1>6 DEF UuidInv, Records
  <2>2. uuid[a] = None \/ (Identity[a] # None /\ uuid[a] = u)
    BY <1>0, <1>1, <1>2, <2>1 DEF Reading, Settled
  <2>3. Settled(a)'
    BY <1>1, <1>2, <2>1, <2>2 DEF Settled
  <2>4. ASSUME NEW q \in Publishers, pub'[q].asset = a
        PROVE  /\ a \in elements'
               /\ pub'[q].at = "mint" => uuid'[a] = None \/ Identity[a] # None
               /\ pub'[q].at = "mint" /\ Identity[a] = None =>
                    \A o \in Publishers \ {q} : pub'[o].asset = a => pub'[o].at # "mint"
               /\ pub'[q].at = "send" => pub'[q].uuid \in {None, uuid'[a]}
    <3>1. CASE q = p
      BY <1>1, <1>3, <2>1, <3>1
    <3>2. CASE q # p
      <4>1. pub'[q] = pub[q] /\ pub[q].asset = a
        BY <1>3, <2>4, <3>2
      <4>2. pub[q].at = "mint" => Identity[a] # None
        BY <1>0, <1>1, <2>1, <3>2, <4>1 DEF Reading
      <4>3. pub[q].at = "send" => pub[q].uuid \in {None, u}
        BY <2>1, <2>2, <4>1 DEF Reading
      <4> QED
        BY <1>1, <2>1, <4>1, <4>2, <4>3
    <3> QED
      BY <3>1, <3>2
  <2> QED
    BY <2>3, <2>4 DEF Reading
<1> QED
  BY <1>1, <1>4, <1>5, <1>6 DEF UuidInv

(* Sending it.                                                             *)
LEMMA SendUuid ==
  ASSUME UuidInv, NEW p \in Publishers, Send(p)
  PROVE  UuidInv'
<1> DEFINE a == pub[p].asset
<1>1. /\ pub[p].at = "send" /\ pub' = [pub EXCEPT ![p] = Quiet]
      /\ UNCHANGED <<elements, uuid, raced>>
      /\ known' = [known EXCEPT ![a] = pub[p].uuid] \/ known' = known
  BY DEF Send, tables
<1>2. pub'[p] = Quiet /\ (\A q \in Publishers \ {p} : pub'[q] = pub[q]) /\ DOMAIN pub' = Publishers
  BY <1>1 DEF UuidInv, Records
<1>3. Records'
  BY <1>1, <1>2 DEF UuidInv, Records, Quiet
<1>4. ASSUME NEW b \in Assets \ raced
      PROVE  Reading(b)' /\ Settled(b)'
  <2>1. Reading(b) /\ Settled(b)
    BY DEF UuidInv
  <2>2. pub'[p].asset = None /\ b # None
    BY <1>2, StreamAssumption DEF Quiet
  <2>3. Reading(b)'
    BY <1>1, <1>2, <2>1, <2>2 DEF Reading
  <2>4. known'[b] = known[b] \/ (a = b /\ known'[b] = pub[p].uuid)
    BY <1>1 DEF UuidInv, Records
  <2>5. a = b => b \in elements /\ pub[p].uuid \in {None, uuid[b]}
    BY <1>1, <2>1 DEF Reading
  <2> HIDE DEF a
  <2>6. Settled(b)'
    BY <1>1, <2>1, <2>4, <2>5 DEF Settled
  <2> QED
    BY <2>3, <2>6
<1> QED
  BY <1>1, <1>3, <1>4 DEF UuidInv

(* The changes of others.                                                  *)
LEMMA ChangeUuid ==
  ASSUME UuidInv, NEW who, NEW a \in Assets, Create(who, a) \/ Update(who, a) \/ Delete(who, a)
  PROVE  UuidInv'
<1>1. pub' = pub
  BY DEF Create, Update, Delete, Change
<1>2. CASE Create(who, a)
  BY <1>1, <1>2 DEF Create, UuidInv, Records, Reading, Settled
<1>3. CASE Update(who, a)
  BY <1>1, <1>3 DEF Update, UuidInv, Records, Reading, Settled
<1>4. CASE Delete(who, a)
  <2>1. /\ elements' = elements \ {a} /\ uuid' = [uuid EXCEPT ![a] = None]
        /\ known' = [known EXCEPT ![a] = None]
        /\ raced' = IF \E p \in Publishers : pub[p].asset = a THEN raced \cup {a} ELSE raced
    BY <1>4 DEF Delete
  <2>2. Records' /\ elements' \subseteq Assets
    BY <1>1, <2>1 DEF UuidInv, Records
  <2>3. /\ uuid'[a] = None /\ known'[a] = None
        /\ \A b \in Assets \ {a} : uuid'[b] = uuid[b] /\ known'[b] = known[b]
    BY <2>1 DEF UuidInv, Records
  <2>4. ASSUME NEW b \in Assets \ raced', b # a
        PROVE  Reading(b)' /\ Settled(b)'
    BY <1>1, <2>1, <2>3, <2>4 DEF UuidInv, Reading, Settled
  <2>5. ASSUME a \notin raced'
        PROVE  Reading(a)' /\ Settled(a)'
    BY <1>1, <2>1, <2>3, <2>5 DEF Reading, Settled
  <2> QED
    BY <2>2, <2>4, <2>5 DEF UuidInv
<1> QED
  BY <1>2, <1>3, <1>4

LEMMA UuidNext == UuidInv /\ [Next]_vars => UuidInv'
<1> SUFFICES ASSUME UuidInv, [Next]_vars PROVE UuidInv'
  OBVIOUS
<1>1. CASE UNCHANGED <<elements, uuid, pub, known, raced>>
  BY <1>1 DEF UuidInv, Records, Reading, Settled
<1>2. Query \/ Republish \/ Detail \/ UpdateTopology \/ Finish
        => UNCHANGED <<elements, uuid, pub, known, raced>>
  BY DEF Query, Republish, Detail, UpdateTopology, Finish, Publishing, tables
<1>3. CASE AgentActor
  <2>1. PublishNext => UuidInv'
    <3> SUFFICES ASSUME PublishNext PROVE UuidInv'
      OBVIOUS
    <3>1. UNCHANGED <<elements, uuid, known>>
      BY DEF PublishNext, tables
    <3>2. \E a, to : Read("agent", a, to)
      BY DEF PublishNext
    <3> QED
      BY <3>1, <3>2, ReadUuid DEF Publishers
  <2> QED
    BY <1>1, <1>2, <1>3, <2>1, MintUuid, SendUuid DEF AgentActor, Agent, AgentStep, ServeMailbox,
                                                      Publishers
<1>4. CASE NgThread
  <2>1. CASE Mint("ng") \/ Send("ng")
    BY <2>1, MintUuid, SendUuid DEF Publishers
  <2>2. CASE Read("ng", ngTodo, None) /\ UNCHANGED <<tables, known>>
    BY <2>2, ReadUuid DEF Publishers, tables
  <2> QED
    BY <1>4, <2>1, <2>2 DEF NgThread
<1>5. CASE Crash
  <2>1. pub' = [p \in Publishers |-> Quiet] /\ UNCHANGED <<elements, uuid, known, raced>>
    BY <1>5 DEF Crash, tables
  <2>2. Records'
    BY <2>1 DEF UuidInv, Records, Quiet
  <2>3. \A a \in Assets : Reading(a)'
    BY <2>1, StreamAssumption DEF Reading, Quiet
  <2>4. \A a \in Assets : Settled(a) => Settled(a)'
    BY <2>1 DEF Settled
  <2> QED
    BY <2>1, <2>2, <2>3, <2>4 DEF UuidInv
<1>6. InventoryActor => UNCHANGED <<elements, uuid, pub, known, raced>>
  BY DEF InventoryActor, InventoryStep, Insert, InsertInterrupted, InsertRefused, Vacuum, tables,
         legacyVars
<1>7. AutoupdateActor \/ Hourly \/ Wakeup => UNCHANGED <<elements, uuid, pub, known, raced>>
  BY DEF AutoupdateActor, HandleMessage, Hourly, RepeatAll, Publishing, Wakeup, tables, actors,
         legacyVars
<1>8. NewAddresses \/ Announce \/ AnnounceFails \/ UNCHANGED vars
        => UNCHANGED <<elements, uuid, pub, known, raced>>
  BY DEF NewAddresses, Change, Untouched, Announce, AnnounceFails, vars, tables, actors, legacyVars
<1>9. (\E c \in Clients : Ask(c)) \/ (\E a \in Assets : Driver(a))
        => UNCHANGED <<elements, uuid, pub, known, raced>>
  BY DEF Ask, Driver, Change, Untouched, tables, legacyVars
<1> QED
  BY <1>1, <1>3, <1>4, <1>5, <1>6, <1>7, <1>8, <1>9, Steps, ChangeUuid DEF Aside

(* A subscriber that was told a uuid was told the stored one, unless two   *)
(* threads drew one at the same time, a deletion came between reading and  *)
(* sending, or storing it failed.                                          *)
THEOREM PublishedIsStored == Spec => []PublishedUuidIsStored
<1>1. UuidInv => PublishedUuidIsStored
  BY DEF UuidInv, PublishedUuidIsStored, Settled
<1> QED
  BY UuidInit, UuidNext, <1>1, PTL DEF Spec

-----------------------------------------------------------------------------
(* A republication covers what was there all along.                        *)

(* What the actor still owes is on its list, or being published on the     *)
(* stream.                                                                 *)
Owing ==
  /\ owed \subseteq elements
  /\ owed \subseteq work.todo \cup {pub["agent"].asset}
  /\ pub["agent"].at # "idle" => pub["agent"].to = None
OwedInv ==
  /\ elements \subseteq Assets /\ faults \in Nat
  /\ DOMAIN pub = Publishers /\ DOMAIN work = {"task", "client", "todo"}
  /\ \A p \in Publishers : DOMAIN pub[p] = {"at", "asset", "uuid", "to"}
  /\ work.task = "idle" => pub["agent"] = Quiet /\ work.todo = {}
  /\ work.task = "republish" => Owing

LEMMA OwedInit == Init => OwedInv
  BY DEF Init, OwedInv, Idle, Quiet, Publishers

LEMMA FaultIsNat == ASSUME faults \in Nat, Fault PROVE faults' \in Nat /\ faults' # faults
  BY DEF Fault

(* A new task, while the actor publishes nothing.                          *)
LEMMA StartOwed ==
  ASSUME OwedInv, Free, NEW task, task # "idle", NEW client, NEW names, names \subseteq elements,
         Start(task, client, names), UNCHANGED <<elements, pub>>, faults' \in Nat
  PROVE  OwedInv'
<1>1. work' = [task |-> task, client |-> client, todo |-> names] /\ owed' = names
  BY DEF Start
<1>2. pub["agent"] = Quiet
  BY DEF OwedInv, Free
<1>3. Owing'
  BY <1>1, <1>2 DEF Owing, Quiet
<1> QED
  BY <1>1, <1>2, <1>3 DEF OwedInv

LEMMA TaskOwed ==
  ASSUME OwedInv, Republish \/ UpdateTopology \/ RepeatAll
  PROVE  OwedInv'
<1>1. UNCHANGED <<elements, pub>> /\ Free
  BY DEF Republish, UpdateTopology, RepeatAll, Publishing, tables
<1>2. UNCHANGED faults \/ Fault => faults' \in Nat
  BY FaultIsNat DEF OwedInv
<1>3. \E task \in {"republish", "update", "repeat"} : \E client, names :
        names \subseteq elements /\ Start(task, client, names) /\ (UNCHANGED faults \/ Fault)
  <2>1. CASE Republish
    BY <2>1 DEF Republish
  <2>2. CASE UpdateTopology
    <3>1. \A c : Contents(c) \subseteq elements
      BY DEF Contents
    <3> QED
      BY <2>2, <3>1 DEF UpdateTopology
  <2>3. CASE RepeatAll
    BY <2>3 DEF RepeatAll
  <2> QED
    BY <2>1, <2>2, <2>3
<1> QED
  BY <1>1, <1>2, <1>3, StartOwed

(* The answer to a detail is no publication.                               *)
LEMMA DetailOwed ==
  ASSUME OwedInv, Detail
  PROVE  OwedInv'
<1>1. CASE work' = work /\ UNCHANGED <<elements, pub, owed, faults>>
  BY <1>1 DEF OwedInv, Owing
<1>2. ASSUME NEW client, NEW names, Start("detail", client, names), UNCHANGED <<elements, pub, faults>>
      PROVE  OwedInv'
  <2>1. work' = [task |-> "detail", client |-> client, todo |-> names]
    BY <1>2 DEF Start
  <2> QED
    BY <1>2, <2>1 DEF OwedInv
<1> QED
  BY <1>1, <1>2 DEF Detail, Publishing, tables

(* The agent reads the next asset on its list.                             *)
LEMMA NextOwed ==
  ASSUME OwedInv, PublishNext
  PROVE  OwedInv'
<1>1. PICK a \in work.todo :
        /\ Read("agent", a, IF work.task = "detail" THEN work.client ELSE None)
        /\ work' = [work EXCEPT !.todo = @ \ {a}]
  BY DEF PublishNext
<1> DEFINE to == IF work.task = "detail" THEN work.client ELSE None
<1>2. /\ work'.task = work.task /\ work'.todo = work.todo \ {a} /\ elements' = elements
      /\ DOMAIN work' = {"task", "client", "todo"}
  BY <1>1 DEF PublishNext, tables, OwedInv
<1>3. pub["agent"] = Quiet
  BY <1>1 DEF Read
<1>4. /\ faults' \in Nat
      /\ \/ a \in elements /\ pub' = [pub EXCEPT !["agent"] = Publication("agent", a, to)] /\ owed' = owed
         \/ a \notin elements /\ pub' = pub /\ owed' = owed
         \/ pub' = pub /\ owed' = owed \ {a}
  BY <1>1, FaultIsNat DEF Read, Missed, OwedInv
<1>5. CASE pub' = [pub EXCEPT !["agent"] = Publication("agent", a, to)] /\ owed' = owed
  <2>1. /\ pub'["agent"] = Publication("agent", a, to) /\ DOMAIN pub' = Publishers
        /\ \A p \in Publishers \ {"agent"} : pub'[p] = pub[p]
    BY <1>5 DEF OwedInv, Publishers
  <2>2. /\ pub'["agent"].asset = a /\ pub'["agent"].to = to
        /\ DOMAIN pub'["agent"] = {"at", "asset", "uuid", "to"}
    BY <2>1 DEF Publication
  <2>3. work.task = "republish" => Owing'
    BY <1>2, <1>3, <1>5, <2>2, StreamAssumption DEF OwedInv, Owing, Quiet
  <2>4. work.task # "idle"
    BY <1>1 DEF OwedInv
  <2> QED
    BY <1>2, <1>4, <2>1, <2>2, <2>3, <2>4 DEF OwedInv
<1>6. CASE pub' = pub /\ (owed' = owed \ {a} \/ (a \notin elements /\ owed' = owed))
  <2>1. work.task = "republish" => Owing'
    BY <1>2, <1>6 DEF OwedInv, Owing
  <2> QED
    BY <1>2, <1>4, <1>6, <2>1 DEF OwedInv
<1> QED
  BY <1>4, <1>5, <1>6

LEMMA MintOwed ==
  ASSUME OwedInv, NEW p \in Publishers, Mint(p), UNCHANGED work
  PROVE  OwedInv'
<1>1. /\ pub[p].at = "mint" /\ UNCHANGED <<elements, owed>> /\ faults' \in Nat
      /\ \E u : pub' = [pub EXCEPT ![p].at = "send", ![p].uuid = u]
  BY FaultIsNat DEF Mint, OwedInv
<1>2. /\ pub'[p].at = "send" /\ pub'[p].asset = pub[p].asset /\ pub'[p].to = pub[p].to
      /\ DOMAIN pub' = Publishers /\ DOMAIN pub'[p] = {"at", "asset", "uuid", "to"}
      /\ \A q \in Publishers \ {p} : pub'[q] = pub[q]
  BY <1>1 DEF OwedInv
<1>3. CASE p = "agent"
  <2>1. work.task # "idle"
    BY <1>1, <1>3 DEF OwedInv, Quiet
  <2>2. Owing => Owing'
    BY <1>1, <1>2, <1>3 DEF Owing
  <2> QED
    BY <1>1, <1>2, <2>1, <2>2 DEF OwedInv
<1>4. CASE p # "agent"
  <2>1. pub'["agent"] = pub["agent"]
    BY <1>2, <1>4 DEF Publishers
  <2>2. Owing => Owing'
    BY <1>1, <2>1 DEF Owing
  <2> QED
    BY <1>1, <1>2, <2>1, <2>2, ZenonT(60) DEF OwedInv
<1> QED
  BY <1>3, <1>4

LEMMA SendOwed ==
  ASSUME OwedInv, NEW p \in Publishers, Send(p), UNCHANGED work
  PROVE  OwedInv'
<1>0. PICK a : a = pub[p].asset
  OBVIOUS
<1>1. /\ pub[p].at = "send" /\ pub' = [pub EXCEPT ![p] = Quiet] /\ elements' = elements
      /\ faults' \in Nat
      /\ \/ pub[p].to = None /\ owed' = owed \ {a}
         \/ pub[p].to # None /\ owed' = owed
         \/ p = "agent" /\ owed' = owed \ {a}
         \/ p # "agent" /\ owed' = owed
  BY <1>0, FaultIsNat DEF Send, Missed, tables, OwedInv
<1>2. /\ pub'[p] = Quiet /\ DOMAIN pub' = Publishers
      /\ \A q \in Publishers \ {p} : pub'[q] = pub[q]
  BY <1>1 DEF OwedInv
<1>3. /\ \A q \in Publishers : DOMAIN pub'[q] = {"at", "asset", "uuid", "to"}
  BY <1>2 DEF OwedInv, Quiet
<1>4. CASE p = "agent"
  <2>1. Owing => Owing'
    BY <1>0, <1>1, <1>2, <1>4 DEF Owing, Quiet
  <2> QED
    BY <1>1, <1>2, <1>3, <1>4, <2>1 DEF OwedInv
<1>5. CASE p # "agent"
  <2>1. pub'["agent"] = pub["agent"]
    BY <1>2, <1>5 DEF Publishers
  <2>2. Owing => Owing'
    BY <1>1, <2>1 DEF Owing
  <2> QED
    BY <1>1, <1>2, <1>3, <2>1, <2>2 DEF OwedInv
<1> QED
  BY <1>4, <1>5

(* The thread of the new interface publishes on its own account.           *)
LEMMA NgOwed ==
  ASSUME OwedInv, NgThread
  PROVE  OwedInv'
<1>1. CASE (Mint("ng") \/ Send("ng")) /\ UNCHANGED work
  BY <1>1, MintOwed, SendOwed DEF Publishers
<1>2. CASE Mint("ng") \/ Send("ng")
  BY <1>1, <1>2 DEF Mint, Send
<1>3. CASE Read("ng", ngTodo, None) /\ UNCHANGED <<tables, work>>
  <2>1. /\ faults' \in Nat /\ owed' = owed /\ elements' = elements
        /\ \/ pub' = pub
           \/ pub' = [pub EXCEPT !["ng"] = Publication("ng", ngTodo, None)]
    BY <1>3, FaultIsNat DEF Read, Missed, tables, OwedInv
  <2>2. /\ pub'["agent"] = pub["agent"] /\ DOMAIN pub' = Publishers
        /\ \A p \in Publishers : DOMAIN pub'[p] = {"at", "asset", "uuid", "to"}
    BY <2>1 DEF OwedInv, Publishers, Publication
  <2>3. Owing => Owing'
    BY <1>3, <2>1, <2>2 DEF Owing
  <2> QED
    BY <1>3, <2>1, <2>2, <2>3 DEF OwedInv
<1> QED
  BY <1>2, <1>3 DEF NgThread

LEMMA AgentOwed ==
  ASSUME OwedInv, AgentActor
  PROVE  OwedInv'
<1>1. CASE Query
  BY <1>1, FaultIsNat DEF Query, tables, OwedInv, Owing
<1>2. CASE Finish
  <2>1. work' = Idle /\ pub["agent"] = Quiet /\ UNCHANGED <<elements, pub, faults>>
    BY <1>2 DEF Finish, tables
  <2> QED
    BY <2>1 DEF OwedInv, Idle
<1>3. Mint("agent") \/ Send("agent") => UNCHANGED work
  BY DEF Mint, Send
<1> QED
  BY <1>1, <1>2, <1>3, TaskOwed, DetailOwed, NextOwed, MintOwed, SendOwed
     DEF AgentActor, Agent, AgentStep, ServeMailbox, Publishers

LEMMA ChangeOwed ==
  ASSUME OwedInv, NEW who, NEW a \in Assets, Create(who, a) \/ Update(who, a) \/ Delete(who, a)
  PROVE  OwedInv'
<1>1. UNCHANGED <<pub, work, faults>>
  BY DEF Create, Update, Delete, Change
<1>2. \/ elements' = elements /\ owed' = owed
      \/ elements' = elements \cup {a} /\ owed' = owed
      \/ elements' = elements \ {a} /\ owed' = owed \ {a}
  BY DEF Create, Update, Delete
<1>3. Owing => Owing'
  BY <1>1, <1>2 DEF Owing
<1> QED
  BY <1>1, <1>2, <1>3 DEF OwedInv

LEMMA OwedNext == OwedInv /\ [Next]_vars => OwedInv'
<1> SUFFICES ASSUME OwedInv, [Next]_vars PROVE OwedInv'
  OBVIOUS
<1>1. CASE UNCHANGED <<elements, owed, pub, work>> /\ (faults' = faults \/ Fault)
  BY <1>1, FaultIsNat DEF OwedInv, Owing
<1>2. CASE Hourly
  BY <1>2, TaskOwed DEF Hourly
<1>3. CASE Crash
  <2>1. pub' = [p \in Publishers |-> Quiet] /\ work' = Idle /\ elements' = elements /\ Fault
    BY <1>3 DEF Crash, tables
  <2> QED
    BY <2>1, FaultIsNat DEF OwedInv, Idle, Quiet, Publishers
<1>4. InventoryActor => UNCHANGED <<elements, owed, pub, work>> /\ (faults' = faults \/ Fault)
  BY DEF InventoryActor, InventoryStep, Insert, InsertInterrupted, InsertRefused, Vacuum, tables,
         legacyVars
<1>5. AutoupdateActor \/ Wakeup => UNCHANGED <<elements, owed, pub, work, faults>>
  BY DEF AutoupdateActor, HandleMessage, Wakeup, tables, actors, legacyVars
<1>6. NewAddresses \/ Announce \/ AnnounceFails \/ UNCHANGED vars
        => UNCHANGED <<elements, owed, pub, work>> /\ (faults' = faults \/ Fault)
  BY DEF NewAddresses, Change, Untouched, Announce, AnnounceFails, vars, tables, actors, legacyVars
<1>7. (\E c \in Clients : Ask(c)) \/ (\E a \in Assets : Driver(a))
        => UNCHANGED <<elements, owed, pub, work, faults>>
  BY DEF Ask, Driver, Change, Untouched, tables, legacyVars
<1> QED
  BY <1>1, <1>2, <1>3, <1>4, <1>5, <1>6, <1>7, Steps, ChangeOwed, AgentOwed, NgOwed DEF Aside

(* Only Finish ends a task without a fault, and its list is empty.         *)
LEMMA OnlyFinishEnds ==
  ASSUME OwedInv, [Next]_vars, work.task = "republish", work'.task = "idle", faults' = faults
  PROVE  owed = {}
<1>1. CASE Finish
  BY <1>1, StreamAssumption DEF Finish, OwedInv, Owing, Quiet
<1>2. CASE Crash
  BY <1>2, FaultIsNat DEF Crash, OwedInv
<1>3. work' # work
  OBVIOUS
<1>4. ~Free
  BY DEF Free
<1>5. Query \/ Mint("agent") \/ Send("agent") => UNCHANGED work
  BY DEF Query, Mint, Send
<1>6. PublishNext => work'.task = work.task
  BY DEF PublishNext, OwedInv
<1>7. CASE AgentActor
  BY <1>1, <1>3, <1>4, <1>5, <1>6, <1>7 DEF AgentActor, Agent, AgentStep, ServeMailbox, Republish,
                                            Detail, UpdateTopology
<1>8. Hourly => Free
  BY DEF Hourly, RepeatAll
<1>9. NgThread => UNCHANGED work
  BY DEF NgThread, Mint, Send
<1>10. InventoryActor \/ AutoupdateActor \/ Wakeup => UNCHANGED work
  BY DEF InventoryActor, AutoupdateActor, Wakeup, actors, legacyVars
<1>11. NewAddresses \/ Announce \/ AnnounceFails \/ UNCHANGED vars => UNCHANGED work
  BY DEF NewAddresses, Change, Announce, AnnounceFails, vars, actors, legacyVars
<1>12. (\E c \in Clients : Ask(c)) \/ (\E a \in Assets : Driver(a)) => UNCHANGED work
  BY DEF Ask, Driver, Change
<1>13. \A who, a : Create(who, a) \/ Update(who, a) \/ Delete(who, a) => UNCHANGED work
  BY DEF Create, Update, Delete, Change
<1> QED
  BY <1>2, <1>3, <1>4, <1>7, <1>8, <1>9, <1>10, <1>11, <1>12, <1>13, Steps DEF Aside

(* DONE means that every asset that was there all along has been published *)
(* since the request, whoever else changed assets meanwhile.               *)
THEOREM DoneMeansPublished == Spec => RepublishCovers
<1>1. OwedInv /\ [Next]_vars =>
        [work.task = "republish" /\ work'.task = "idle" /\ faults' = faults => owed = {}]_vars
  BY OnlyFinishEnds
<1> QED
  BY OwedInit, OwedNext, <1>1, PTL DEF Spec, RepublishCovers
=============================================================================
