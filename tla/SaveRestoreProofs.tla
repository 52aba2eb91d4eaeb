------------------------- MODULE SaveRestoreProofs -------------------------
(* Save and restore keep their promises, for any assets, payload, licence  *)
(* and changes of the other threads.                                       *)
EXTENDS SaveRestore, SequenceTheorems, FiniteSetTheorems, TLAPS

IsSaved(f) == DOMAIN f \subseteq Assets /\ f \in [DOMAIN f -> Saved]
Tables ==
  /\ rows \subseteq Assets /\ parent \in [Assets -> Assets \cup {None}]
  /\ status \in [Assets -> Statuses]
  /\ links \subseteq Assets \X Assets /\ licensed \subseteq Assets
Control ==
  /\ pc \in {"idle", "load", "check", "insert", "activate", "markActive", "links"}
  /\ op \in {"save", "restore"}
  /\ calm \in BOOLEAN /\ fresh \in BOOLEAN
  /\ todo \subseteq Assets
  /\ IsSaved(payload) /\ IsSaved(loaded) /\ IsSaved(held)
  /\ order \in Seq(DOMAIN held)
Typed == Tables /\ Control

(* The objects of a restore: those to do, the one it works on, the others. *)
Restoring == pc \in {"check", "insert", "activate", "markActive", "links"}
Busy == pc \in {"insert", "activate", "markActive"}
Doing == IF Busy THEN {current} ELSE {}
Done == DOMAIN held \ (todo \cup Doing)
Bookkeeping == Restoring =>
  /\ todo \subseteq DOMAIN held
  /\ Busy => current \in DOMAIN held \ todo
  /\ pc = "links" => todo = {}

RInv == Typed /\ Bookkeeping

-----------------------------------------------------------------------------
LEMMA KeepFile ==
  ASSUME NEW f, IsSaved(f), NEW a \in Assets, NEW x \in Saved
  PROVE  IsSaved(Extended(f, a, x))
BY DEF IsSaved, Extended

LEMMA EmptyFile == IsSaved(NoPayload) /\ DOMAIN NoPayload = {}
BY DEF IsSaved, NoPayload

LEMMA ObjectSaved ==
  ASSUME Tables, NEW a \in Assets
  PROVE  Object(a) \in Saved
BY DEF Tables, Object, Saved, LinksTo

LEMMA DowngradedSaved ==
  ASSUME IsSaved(held), NEW a \in DOMAIN held
  PROVE  /\ IsSaved(Downgraded(a)) /\ DOMAIN Downgraded(a) = DOMAIN held
         /\ Downgraded(a)[a].status = "nonactive"
         /\ \A b \in DOMAIN held : /\ b # a => Downgraded(a)[b] = held[b]
                                   /\ Downgraded(a)[b].parent = held[b].parent
                                   /\ Downgraded(a)[b].sources = held[b].sources
BY DEF IsSaved, Downgraded, Saved, Statuses

(* The payload that Replayed gives for its choices.                        *)
Replays(S, up, w, wired) ==
  /\ \A a \in S : up[a] # None => <<Kind[up[a]], Kind[a]>> \in Inside
  /\ Cardinality({a \in S : Device(a) /\ w[a] = "active"}) <= MaxActive
  /\ payload = [a \in S |-> [parent |-> up[a], status |-> w[a],
                             sources |-> {l[1] : l \in {x \in wired : x[2] = a}}]]

LEMMA InitTyped == Init => RInv
<1> SUFFICES ASSUME Init PROVE RInv
  OBVIOUS
<1>1. Tables
  <2>1. links \subseteq Assets \X Assets
    BY RestoreAssumption DEF Init, Consistent
  <2> QED
    BY <2>1 DEF Init, Consistent, Tables, ActiveDevices
<1>2. IsSaved(payload)
  <2>1. PICK S \in SUBSET {a \in Assets : Kind[a] # "virtual"} :
        \E up \in [S -> S \cup {None}], w \in [S -> Statuses],
           wired \in SUBSET {l \in Wires : {l[1], l[2]} \subseteq S} : Replays(S, up, w, wired)
    BY Zenon DEF Init, Replayed, Replays
  <2>2. PICK up \in [S -> S \cup {None}], w \in [S -> Statuses],
             wired \in SUBSET {l \in Wires : {l[1], l[2]} \subseteq S} : Replays(S, up, w, wired)
    BY <2>1
  <2>3. ASSUME NEW a \in S
        PROVE  [parent |-> up[a], status |-> w[a], sources |-> {l[1] : l \in {x \in wired : x[2] = a}}]
                 \in Saved
    <3>1. {l[1] : l \in {x \in wired : x[2] = a}} \subseteq Assets
      BY RestoreAssumption
    <3>2. up[a] \in Assets \cup {None} /\ w[a] \in Statuses
      OBVIOUS
    <3> QED
      BY <3>1, <3>2 DEF Saved
  <2> QED
    BY <2>2, <2>3 DEF IsSaved, Replays
<1> QED
  BY <1>1, <1>2, EmptyFile DEF Init, RInv, Typed, Control, Bookkeeping, Restoring, Busy

LEMMA WriteTyped ==
  ASSUME Tables, NEW a \in Assets, NEW p \in Assets \cup {None}, NEW s \in Statuses, Write(a, p, s)
  PROVE  /\ parent' \in [Assets -> Assets \cup {None}] /\ status' \in [Assets -> Statuses]
         /\ parent'[a] = p /\ status'[a] = s
         /\ \A b \in Assets : b # a => parent'[b] = parent[b] /\ status'[b] = status[b]
BY DEF Tables, Write

LEMMA HeldObject ==
  ASSUME RInv, NEW a \in DOMAIN held
  PROVE  /\ a \in Assets /\ held[a].parent \in Assets \cup {None} /\ held[a].status \in Statuses
         /\ held[a].sources \subseteq Assets
BY DEF RInv, Typed, Control, IsSaved, Saved

LEMMA DoneChanges ==
  ASSUME NEW S, NEW s \in Seq(S), s # <<>>
  PROVE  /\ Head(s) \in S /\ Tail(s) \in Seq(S)
         /\ \A x : (\E i \in DOMAIN s : s[i] = x) <=>
                     x = Head(s) \/ \E i \in DOMAIN Tail(s) : Tail(s)[i] = x
<1>1. Head(s) = s[1] /\ Len(s) \in Nat \ {0} /\ Tail(s) \in Seq(S) /\ Head(s) \in S
  BY SMT
<1>2. /\ DOMAIN s = 1 .. Len(s) /\ DOMAIN Tail(s) = 1 .. Len(s) - 1
      /\ \A i \in 1 .. Len(s) - 1 : Tail(s)[i] = s[i + 1]
  BY <1>1, SMT
<1>3. ASSUME NEW x, NEW i \in DOMAIN s, s[i] = x
      PROVE  x = Head(s) \/ \E j \in DOMAIN Tail(s) : Tail(s)[j] = x
  <2>1. CASE i = 1
    BY <1>1, <1>3, <2>1
  <2>2. CASE i # 1
    <3>1. i - 1 \in DOMAIN Tail(s) /\ Tail(s)[i - 1] = s[(i - 1) + 1] /\ (i - 1) + 1 = i
      BY <1>1, <1>2, <1>3, <2>2
    <3> QED
      BY <1>3, <3>1
  <2> QED
    BY <2>1, <2>2
<1>4. ASSUME NEW x, NEW i \in DOMAIN Tail(s), Tail(s)[i] = x
      PROVE  \E j \in DOMAIN s : s[j] = x
  <2>1. i + 1 \in DOMAIN s /\ s[i + 1] = x
    BY <1>1, <1>2, <1>4
  <2> QED
    BY <2>1
<1>5. 1 \in DOMAIN s
  BY <1>1, <1>2
<1> QED
  BY <1>1, <1>3, <1>4, <1>5

LEMMA LoadKeeps == RInv /\ Load => RInv'
<1> SUFFICES ASSUME RInv, Load PROVE RInv'
  OBVIOUS
<1>1. PICK a \in todo :
        /\ todo' = todo \ {a}
        /\ \/ /\ a \in rows
              /\ loaded' = IF Kind[a] = "virtual" THEN loaded ELSE Extended(loaded, a, Object(a))
              /\ UNCHANGED <<pc, reply>>
           \/ /\ a \notin rows
              /\ Answer(IF op = "save" THEN "FAILED" ELSE "lost")
              /\ UNCHANGED loaded
  BY DEF Load
<1>2. pc = "load" /\ UNCHANGED <<rows, parent, status, links, licensed, local, order, current>>
  BY DEF Load, db
<1>3. IsSaved(loaded')
  <2>1. IsSaved(loaded) /\ Object(a) \in Saved /\ a \in Assets
    BY ObjectSaved DEF RInv, Typed, Control
  <2>2. IsSaved(Extended(loaded, a, Object(a)))
    BY <2>1, KeepFile
  <2>3. loaded' = loaded \/ loaded' = Extended(loaded, a, Object(a))
    BY <1>1
  <2> QED
    BY <2>1, <2>2, <2>3
<1>4. Tables'
  BY <1>2 DEF RInv, Typed, Tables
<1>5. pc' \in {"load", "idle"}
  BY <1>1, <1>2 DEF Answer
<1>6. IsSaved(loaded)' /\ IsSaved(payload)' /\ IsSaved(held)'
  BY <1>2, <1>3 DEF RInv, Typed, Control, IsSaved, local
<1> QED
  BY <1>1, <1>2, <1>4, <1>5, <1>6 DEF RInv, Typed, Control, local, Bookkeeping, Restoring, Busy

LEMMA StoreKeeps ==
  ASSUME RInv,
         \/ \E o \in {"save", "restore"} : Receive(o)
         \/ FinishSave \/ BuildRestoreTree
  PROVE  RInv'
<1>1. UNCHANGED <<rows, parent, status, links, licensed>>
  BY DEF Receive, FinishSave, BuildRestoreTree, db
<1>2. IsSaved(payload) /\ IsSaved(loaded) /\ IsSaved(held) /\ IsSaved(NoPayload)
  BY EmptyFile DEF RInv, Typed, Control
<1>3. payload' \in {payload, loaded} /\ loaded' \in {loaded, NoPayload} /\ held' \in {payload, held}
  BY DEF Receive, FinishSave, BuildRestoreTree
<1>4. IsSaved(payload') /\ IsSaved(loaded') /\ IsSaved(held')
  BY <1>2, <1>3
<1>5. IsSaved(payload)' /\ IsSaved(loaded)' /\ IsSaved(held)'
  BY <1>4 DEF IsSaved
<1>6. order' \in Seq(DOMAIN held')
  <2>1. UNCHANGED <<order, held>> \/ order' = <<>>
    BY DEF Receive, FinishSave, BuildRestoreTree
  <2>2. <<>> \in Seq(DOMAIN held')
    OBVIOUS
  <2> QED
    BY <2>1, <2>2 DEF RInv, Typed, Control
<1>7. pc' \in {"idle", "load", "check"} /\ op' \in {"save", "restore"} /\ calm' = calm /\ fresh' \in BOOLEAN
  BY DEF RInv, Typed, Control, Receive, FinishSave, BuildRestoreTree, Answer
<1>8. todo' \subseteq Assets
  BY <1>2 DEF RInv, Typed, Tables, Control, Receive, FinishSave, BuildRestoreTree, IsSaved
<1>9. pc' = "check" => todo' \subseteq DOMAIN held'
  BY DEF Receive, FinishSave, BuildRestoreTree, Answer
<1>10. Tables'
  BY <1>1 DEF RInv, Typed, Tables
<1>11. Typed'
  BY <1>5, <1>6, <1>7, <1>8, <1>10 DEF RInv, Typed, Control
<1> QED
  BY <1>7, <1>9, <1>11 DEF RInv, Bookkeeping, Restoring, Busy

LEMMA CheckKeeps == RInv /\ Check => RInv'
<1> SUFFICES ASSUME RInv, Check PROVE RInv'
  OBVIOUS
<1>1. PICK a \in todo :
        /\ todo' = todo \ {a} /\ current' = a /\ order' = Append(order, a)
        /\ held' = IF Device(a) /\ held[a].status = "active" /\ ~HasCredit(a)
                   THEN Downgraded(a) ELSE held
  BY DEF Check
<1>2. /\ pc = "check" /\ pc' = "insert" /\ UNCHANGED <<rows, parent, status, links, licensed>>
      /\ UNCHANGED <<payload, op, loaded, matrix, reply, requests, changes, calm, fresh>>
  BY DEF Check, db
<1>3. IsSaved(held) /\ a \in DOMAIN held /\ order \in Seq(DOMAIN held)
  BY <1>2 DEF RInv, Typed, Control, Bookkeeping, Restoring
<1>4. IsSaved(held') /\ DOMAIN held' = DOMAIN held
  BY <1>1, <1>3, DowngradedSaved
<1>5. order' \in Seq(DOMAIN held')
  BY <1>1, <1>3, <1>4
<1>6. Tables'
  BY <1>2 DEF RInv, Typed, Tables
<1>7. IsSaved(loaded)' /\ IsSaved(payload)' /\ IsSaved(held)'
  BY <1>2, <1>4 DEF RInv, Typed, Control, IsSaved
<1>8. Typed'
  BY <1>1, <1>2, <1>5, <1>6, <1>7 DEF RInv, Typed, Control
<1> QED
  BY <1>1, <1>2, <1>3, <1>4, <1>8 DEF RInv, Bookkeeping, Restoring, Busy

(* The other steps of a restore leave its objects and its list alone, and  *)
(* write the tables as their types say.                                    *)
LEMMA RowsKeep ==
  ASSUME RInv, Insert \/ Activate \/ MarkActive \/ SaveObject
  PROVE  Tables'
<1> DEFINE a == IF pc = "links" THEN Head(order) ELSE current
<1>1. Restoring /\ (Busy \/ (pc = "links" /\ order # <<>>))
  BY DEF Insert, Activate, MarkActive, SaveObject, Restoring, Busy
<1>2. a \in DOMAIN held
  BY <1>1, DoneChanges DEF RInv, Typed, Control, Bookkeeping, Busy
<1>3. a \in Assets /\ held[a].parent \in Assets \cup {None} /\ held[a].status \in Statuses
      /\ held[a].sources \subseteq Assets
  BY <1>2, HeldObject
<1> HIDE DEF a
<1>4. CASE Insert
  <2>1. a = current /\ UNCHANGED <<licensed, links>>
    BY <1>4 DEF a, Insert, db
  <2>2. UNCHANGED <<rows, parent, status>> \/ (rows' = rows \cup {a} /\ Write(a, held[a].parent, "nonactive"))
    BY <1>4, <2>1 DEF Insert, db
  <2> QED
    BY <1>3, <2>1, <2>2, WriteTyped DEF RInv, Typed, Tables, Statuses
<1>5. CASE Activate
  BY <1>3, <1>5 DEF Activate, RInv, Typed, Tables, db, a
<1>6. CASE MarkActive
  <2>1. a = current /\ UNCHANGED licensed
    BY <1>6 DEF a, MarkActive
  <2>2. \/ UNCHANGED <<rows, parent, status, links>>
        \/ UNCHANGED <<rows, links>> /\ Write(a, held[a].parent, "active")
        \/ GiveUp(a)
    BY <1>6, <2>1 DEF MarkActive, db
  <2>3. CASE GiveUp(a)
    <3>1. links' \subseteq links /\ (UNCHANGED <<rows, parent, status>> \/ (rows' = rows \ {a} /\ Write(a, None, "nonactive")))
      BY <2>3 DEF GiveUp
    <3> QED
      BY <1>3, <2>1, <3>1, WriteTyped DEF RInv, Typed, Tables, Statuses
  <2> QED
    BY <1>3, <2>1, <2>2, <2>3, WriteTyped DEF RInv, Typed, Tables, Statuses
<1>7. CASE SaveObject
  <2>1. a = Head(order) /\ UNCHANGED <<rows, licensed>>
    BY <1>7 DEF a, SaveObject
  <2>2. UNCHANGED <<parent, status, links>> \/ (Write(a, held[a].parent, held[a].status) /\ SaveLinks(a, held[a].sources))
    BY <1>7, <2>1 DEF SaveObject, LinkSources
  <2>3. ASSUME SaveLinks(a, held[a].sources) PROVE links' \subseteq Assets \X Assets
    BY <1>3, <2>3 DEF SaveLinks, RInv, Typed, Tables
  <2> QED
    BY <1>3, <2>1, <2>2, <2>3, WriteTyped DEF RInv, Typed, Tables
<1> QED
  BY <1>4, <1>5, <1>6, <1>7

LEMMA RestoreKeeps ==
  ASSUME RInv,
         Insert \/ Activate \/ MarkActive \/ StartLinks \/ SaveObject \/ FinishRestore
  PROVE  RInv'
<1>1. UNCHANGED <<local, todo, loaded, current>>
  BY DEF Insert, Activate, MarkActive, StartLinks, SaveObject, FinishRestore
<1>2. UNCHANGED order \/ (order # <<>> /\ order' = Tail(order))
  BY DEF Insert, Activate, MarkActive, StartLinks, SaveObject, FinishRestore, Rest
<1>3. order' \in Seq(DOMAIN held')
  BY <1>1, <1>2, DoneChanges DEF local, RInv, Typed, Control
<1>4. Tables'
  <2>1. CASE StartLinks \/ FinishRestore
    BY <2>1 DEF StartLinks, FinishRestore, db, RInv, Typed, Tables
  <2> QED
    BY <2>1, RowsKeep
<1>5. pc' \in {"idle", "check", "activate", "markActive", "links"}
  BY DEF Insert, Activate, MarkActive, StartLinks, SaveObject, FinishRestore, Answer
<1>6. /\ Restoring
      /\ pc' = "links" => todo = {}
      /\ pc' \in {"activate", "markActive"} => Busy
  BY DEF Insert, Activate, MarkActive, StartLinks, SaveObject, FinishRestore, Answer,
     RInv, Bookkeeping, Restoring, Busy
<1>7. IsSaved(loaded)' /\ IsSaved(payload)' /\ IsSaved(held)'
  BY <1>1 DEF RInv, Typed, Control, IsSaved, local
<1>8. Typed'
  BY <1>1, <1>3, <1>4, <1>5, <1>7 DEF RInv, Typed, Control, local
<1> QED
  BY <1>1, <1>5, <1>6, <1>8 DEF RInv, Bookkeeping, Restoring, Busy, local

LEMMA ChangeKeeps == RInv /\ Change => RInv'
<1> SUFFICES ASSUME RInv, Change PROVE RInv'
  OBVIOUS
<1>1. UNCHANGED <<payload, pc, op, todo, loaded, held, matrix, order, current, reply, requests, fresh>>
  BY DEF Change
<1>2. PICK a \in Assets :
        \/ Delete(a)
        \/ \E p \in Assets \cup {None}, w \in Statuses : Create(a, p, w) \/ Update(a, p, w)
  BY DEF Change
<1>3. Tables'
  <2>1. CASE Delete(a)
    BY <2>1, WriteTyped DEF Delete, RInv, Typed, Tables, Statuses
  <2>2. ASSUME NEW p \in Assets \cup {None}, NEW w \in Statuses, Create(a, p, w)
        PROVE  Tables'
    <3>1. PICK s \in Statuses : Write(a, p, s)
      BY <2>2 DEF Create, Statuses
    <3>2. rows' = rows \cup {a} /\ UNCHANGED links /\ licensed' \in {licensed, licensed \cup {a}}
      BY <2>2 DEF Create
    <3> QED
      BY <3>1, <3>2, WriteTyped DEF RInv, Typed, Tables
  <2>3. ASSUME NEW p \in Assets \cup {None}, NEW w \in Statuses, Update(a, p, w)
        PROVE  Tables'
    <3>1. UNCHANGED <<rows, links>> /\ licensed' \in {licensed, licensed \cup {a}, licensed \ {a}} /\ Write(a, p, w)
      BY <2>3 DEF Update
    <3> QED
      BY <3>1, WriteTyped DEF RInv, Typed, Tables
  <2> QED
    BY <1>2, <2>1, <2>2, <2>3
<1>4. calm' \in BOOLEAN
  BY DEF Change, RInv, Typed, Control
<1>5. IsSaved(loaded)' /\ IsSaved(payload)' /\ IsSaved(held)'
  BY <1>1 DEF RInv, Typed, Control, IsSaved
<1> QED
  BY <1>1, <1>3, <1>4, <1>5 DEF RInv, Typed, Control, Bookkeeping, Restoring, Busy

LEMMA TypedStep == RInv /\ [Next]_vars => RInv'
<1>1. CASE UNCHANGED vars
  BY <1>1 DEF vars, RInv, Typed, Tables, Control, IsSaved, Bookkeeping, Restoring, Busy
<1> QED
  BY <1>1, LoadKeeps, StoreKeeps, CheckKeeps, RestoreKeeps, ChangeKeeps DEF Next, Step

-----------------------------------------------------------------------------
(* While a calm and fresh restore runs, the credits are those of the rows, *)
(* up to the device that has got one and is not marked yet; what is still  *)
(* to do is not there, and what is done has the status of its object.      *)
Credits == calm /\ fresh =>
  /\ licensed = ActiveDevices \cup {a \in {current} : pc = "markActive" /\ Device(a)}
  /\ pc = "activate" => Device(current) /\ HasCredit(current)
  /\ pc \in {"activate", "markActive"} =>
       CanWrite(current, held[current].parent) /\ held[current].status = "active"
  /\ Restoring => todo \cap rows = {}
  /\ pc = "insert" =>
       current \notin rows /\ (Device(current) /\ held[current].status = "active" => HasCredit(current))
  /\ Restoring => \A a \in Done : status[a] = held[a].status

LEMMA InitCredits == Init => Credits
BY DEF Init, Consistent, Credits, Restoring

LEMMA ActiveWritten ==
  ASSUME Tables, NEW a \in Assets, NEW p \in Assets \cup {None}, NEW s \in Statuses, Write(a, p, s),
         rows' \in {rows, rows \cup {a}, rows \ {a}}
  PROVE  ActiveDevices' = (ActiveDevices \ {a}) \cup {b \in {a} : b \in rows' /\ Device(b) /\ s = "active"}
<1>1. /\ status'[a] = s
      /\ \A b \in Assets : b # a => status'[b] = status[b]
  BY WriteTyped
<1> QED
  BY <1>1 DEF ActiveDevices, Tables, Device

LEMMA ActiveKept ==
  ASSUME UNCHANGED <<rows, status>>
  PROVE  ActiveDevices' = ActiveDevices
BY DEF ActiveDevices, Device

LEMMA ChangeCredits == RInv /\ Credits /\ Change => Credits'
<1> SUFFICES ASSUME RInv, Credits, Change, calm', fresh' PROVE Credits'
  BY DEF Credits
<1>1. pc = "idle" /\ pc' = "idle" /\ calm /\ fresh /\ licensed = ActiveDevices
  BY DEF Change, Credits
<1>2. PICK a \in Assets :
        \/ Delete(a)
        \/ \E p \in Assets \cup {None}, w \in Statuses : Create(a, p, w) \/ Update(a, p, w)
  BY DEF Change
<1>3. licensed' = ActiveDevices'
  <2>1. CASE Delete(a)
    <3>1. Write(a, None, "nonactive") /\ rows' = rows \ {a} /\ licensed' = licensed \ {a}
      BY <2>1 DEF Delete
    <3>2. ActiveDevices' = ActiveDevices \ {a}
      BY <3>1, ActiveWritten DEF RInv, Typed, Statuses
    <3> QED
      BY <1>1, <3>1, <3>2
  <2>2. ASSUME NEW p \in Assets \cup {None}, NEW w \in Statuses, Create(a, p, w)
        PROVE  licensed' = ActiveDevices'
    <3>1. PICK s \in Statuses :
            /\ Write(a, p, s)
            /\ licensed' = IF s = "active" /\ Device(a) THEN licensed \cup {a} ELSE licensed
      BY <2>2 DEF Create, Statuses
    <3>2. rows' = rows \cup {a} /\ a \notin rows
      BY <2>2 DEF Create
    <3>3. a \notin ActiveDevices
      BY <3>2 DEF ActiveDevices
    <3> QED
      BY <1>1, <3>1, <3>2, <3>3, ActiveWritten DEF RInv, Typed
  <2>3. ASSUME NEW p \in Assets \cup {None}, NEW w \in Statuses, Update(a, p, w)
        PROVE  licensed' = ActiveDevices'
    <3>1. /\ Write(a, p, w) /\ rows' = rows /\ a \in rows
          /\ licensed' = IF ~Device(a) THEN licensed
                         ELSE IF w = "active" THEN licensed \cup {a} ELSE licensed \ {a}
      BY <2>3 DEF Update, CanWrite
    <3>2. a \in ActiveDevices => Device(a)
      BY DEF ActiveDevices
    <3> QED
      BY <1>1, <3>1, <3>2, ActiveWritten DEF RInv, Typed
  <2> QED
    BY <1>2, <2>1, <2>2, <2>3
<1> QED
  BY <1>1, <1>3 DEF Credits, Restoring

LEMMA FileCredits ==
  ASSUME RInv, Credits,
         \/ \E o \in {"save", "restore"} : Receive(o)
         \/ Load \/ FinishSave \/ BuildRestoreTree
  PROVE  Credits'
<1> SUFFICES ASSUME calm', fresh' PROVE Credits'
  BY DEF Credits
<1>1. UNCHANGED <<rows, status, licensed>> /\ calm /\ fresh
  BY DEF Receive, Load, FinishSave, BuildRestoreTree, db, local
<1>2. pc # "markActive" /\ pc' \in {"idle", "load", "check"}
  BY DEF Receive, Load, FinishSave, BuildRestoreTree, Answer
<1>3. licensed' = ActiveDevices'
  BY <1>1, <1>2, ActiveKept DEF Credits
<1>4. pc' = "check" => todo' = DOMAIN held' /\ todo' \cap rows' = {}
  BY DEF Receive, Load, FinishSave, BuildRestoreTree, Answer, db
<1> QED
  BY <1>2, <1>3, <1>4 DEF Credits, Restoring, Done

LEMMA CheckCredits == RInv /\ Credits /\ Check => Credits'
<1> SUFFICES ASSUME RInv, Credits, Check, calm', fresh' PROVE Credits'
  BY DEF Credits
<1>1. PICK a \in todo :
        /\ todo' = todo \ {a} /\ current' = a /\ order' = Append(order, a)
        /\ held' = IF Device(a) /\ held[a].status = "active" /\ ~HasCredit(a)
                   THEN Downgraded(a) ELSE held
  BY DEF Check
<1>2. /\ pc = "check" /\ pc' = "insert" /\ UNCHANGED <<rows, parent, status, links, licensed>>
      /\ calm /\ fresh
  BY DEF Check, db
<1>3. IsSaved(held) /\ a \in DOMAIN held
  BY <1>2 DEF RInv, Typed, Control, Bookkeeping, Restoring
<1>4. /\ \A b \in DOMAIN held : b # a => held'[b] = held[b]
      /\ DOMAIN held' = DOMAIN held
      /\ Device(a) /\ held'[a].status = "active" => HasCredit(a)
  BY <1>1, <1>3, DowngradedSaved
<1>5. licensed' = ActiveDevices'
  BY <1>2, ActiveKept DEF Credits
<1>6. Done' = Done
  BY <1>1, <1>2, <1>4 DEF Done, Doing, Busy
<1>7. a \notin Done /\ Done \subseteq DOMAIN held
  BY DEF Done
<1>8. HasCredit(a)' <=> HasCredit(a)
  BY <1>2 DEF HasCredit
<1>9. HasCredit(current)' <=> HasCredit(a)
  BY <1>1, <1>2 DEF HasCredit
<1>10. \A b \in Done' : status'[b] = held'[b].status
  BY <1>2, <1>4, <1>6, <1>7 DEF Credits, Restoring
<1> QED
  BY <1>1, <1>2, <1>4, <1>5, <1>9, <1>10 DEF Credits, Restoring, Device

LEMMA InsertCredits == RInv /\ Credits /\ Insert => Credits'
<1> SUFFICES ASSUME RInv, Credits, Insert, calm', fresh' PROVE Credits'
  BY DEF Credits
<1> DEFINE o == held[current]
<1>1. /\ pc = "insert" /\ calm /\ fresh /\ UNCHANGED <<licensed, links, held, todo, current>>
      /\ current \notin rows /\ licensed = ActiveDevices /\ todo \cap rows = {}
      /\ Device(current) /\ o.status = "active" => HasCredit(current)
      /\ \A a \in Done : status[a] = held[a].status
  BY DEF Insert, local, db, Credits, Restoring
<1>2. /\ current \in DOMAIN held \ todo /\ current \in Assets /\ o.parent \in Assets \cup {None}
      /\ o.status \in Statuses
  BY <1>1, HeldObject DEF RInv, Bookkeeping, Restoring, Busy
<1>3. CASE pc' = "idle" /\ UNCHANGED <<rows, status>>
  <2>1. licensed' = ActiveDevices'
    BY <1>1, <1>3, ActiveKept
  <2> QED
    BY <1>3, <2>1 DEF Credits, Restoring
<1>4. CASE /\ o.parent \in rows \cup {None} /\ rows' = rows \cup {current}
           /\ Write(current, o.parent, "nonactive")
           /\ pc' = IF o.status = "nonactive" THEN "check"
                    ELSE IF Device(current) THEN "activate" ELSE "markActive"
  <2>1. licensed' = ActiveDevices'
    <3>1. current \notin ActiveDevices
      BY <1>1 DEF ActiveDevices
    <3> QED
      BY <1>1, <1>2, <1>4, <3>1, ActiveWritten DEF RInv, Typed, Statuses
  <2>2. todo' \cap rows' = {}
    BY <1>1, <1>2, <1>4
  <2>3. CanWrite(current, held[current].parent)'
    BY <1>1, <1>2, <1>4, TablesAssumption DEF CanWrite
  <2>4. HasCredit(current)' <=> HasCredit(current)
    BY <1>1 DEF HasCredit
  <2>5. \A a \in Done' : status'[a] = held'[a].status
    <3>1. Done' \subseteq Done \cup {current} /\ (pc' # "check" => Done' \subseteq Done)
      BY <1>1, <1>4 DEF Done, Doing, Busy
    <3>2. Done \subseteq Assets /\ current \notin Done
      BY <1>1 DEF Done, Doing, Busy, RInv, Typed, Control, IsSaved
    <3>3. status'[current] = "nonactive" /\ \A b \in Assets : b # current => status'[b] = status[b]
      BY <1>2, <1>4, WriteTyped DEF RInv, Typed, Statuses
    <3> QED
      BY <1>1, <1>4, <3>1, <3>2, <3>3
  <2>6. o.status # "nonactive" => o.status = "active"
    BY <1>2 DEF Statuses
  <2>7. ActiveDevices' = ActiveDevices' \cup {a \in {current'} : pc' = "markActive" /\ Device(a)'}
    BY <1>1, <1>4 DEF Device
  <2> QED
    BY <1>1, <1>4, <2>1, <2>2, <2>3, <2>4, <2>5, <2>6, <2>7 DEF Credits, Restoring, Device
<1> QED
  BY <1>1, <1>3, <1>4 DEF Insert, Answer, db

LEMMA ActivateCredits == RInv /\ Credits /\ Activate => Credits'
<1> SUFFICES ASSUME RInv, Credits, Activate, calm', fresh' PROVE Credits'
  BY DEF Credits
<1>1. /\ pc = "activate" /\ calm /\ fresh /\ UNCHANGED <<rows, parent, status, links, held, todo, current>>
      /\ HasCredit(current) /\ Device(current) /\ licensed = ActiveDevices /\ todo \cap rows = {}
      /\ CanWrite(current, held[current].parent) /\ held[current].status = "active"
      /\ \A a \in Done : status[a] = held[a].status
  BY DEF Activate, local, db, Credits, Restoring
<1>2. licensed' = licensed \cup {current} /\ pc' = "markActive"
  BY <1>1 DEF Activate
<1>3. ActiveDevices' = ActiveDevices
  BY <1>1, ActiveKept
<1>4. CanWrite(current, held[current].parent)'
  BY <1>1 DEF CanWrite
<1>5. Done' = Done
  BY <1>1, <1>2 DEF Done, Doing, Busy
<1> QED
  BY <1>1, <1>2, <1>3, <1>4, <1>5 DEF Credits, Restoring, Device

LEMMA MarkActiveCredits == RInv /\ Credits /\ MarkActive => Credits'
<1> SUFFICES ASSUME RInv, Credits, MarkActive, calm', fresh' PROVE Credits'
  BY DEF Credits
<1>1. /\ pc = "markActive" /\ calm /\ fresh /\ UNCHANGED <<licensed, held, todo, current>>
      /\ licensed = ActiveDevices \cup {a \in {current} : Device(a)} /\ todo \cap rows = {}
      /\ CanWrite(current, held[current].parent) /\ held[current].status = "active"
      /\ \A a \in Done : status[a] = held[a].status
  BY DEF MarkActive, local, db, Credits, Restoring
<1>2. Write(current, held[current].parent, "active") /\ UNCHANGED rows /\ pc' = "check"
  BY <1>1 DEF MarkActive
<1>3. /\ current \in DOMAIN held \ todo /\ current \in Assets /\ held[current].parent \in Assets \cup {None}
      /\ current \in rows
  BY <1>1, HeldObject DEF RInv, Bookkeeping, Restoring, Busy, CanWrite
<1>4. licensed' = ActiveDevices'
  <2>1. current \in ActiveDevices => Device(current)
    BY DEF ActiveDevices
  <2> QED
    BY <1>1, <1>2, <1>3, <2>1, ActiveWritten DEF RInv, Typed, Statuses
<1>5. \A a \in Done' : status'[a] = held'[a].status
  <2>1. Done' \subseteq Done \cup {current} /\ Done \subseteq Assets
    BY <1>1, <1>2 DEF Done, Doing, Busy, RInv, Typed, Control, IsSaved
  <2>2. status'[current] = "active" /\ \A b \in Assets : b # current => status'[b] = status[b]
    BY <1>2, <1>3, WriteTyped DEF RInv, Typed, Statuses
  <2> QED
    BY <1>1, <2>1, <2>2
<1> QED
  BY <1>1, <1>2, <1>4, <1>5 DEF Credits, Restoring

LEMMA LinksCredits ==
  ASSUME RInv, Credits, StartLinks \/ SaveObject \/ FinishRestore
  PROVE  Credits'
<1> SUFFICES ASSUME calm', fresh' PROVE Credits'
  BY DEF Credits
<1>1. /\ pc \in {"check", "links"} /\ pc' \in {"idle", "links"} /\ calm /\ fresh
      /\ UNCHANGED <<rows, licensed, held, todo>> /\ licensed = ActiveDevices /\ todo = {}
      /\ \A a \in Done : status[a] = held[a].status
  BY DEF StartLinks, SaveObject, FinishRestore, Answer, local, db, Credits, Restoring, RInv, Bookkeeping
<1>2. \A a \in Assets : status'[a] = status[a]
  <2>1. CASE UNCHANGED status
    BY <2>1
  <2>2. CASE /\ order # <<>> /\ pc = "links"
             /\ Write(Head(order), held[Head(order)].parent, held[Head(order)].status)
    <3>1. Head(order) \in DOMAIN held
      BY <2>2, DoneChanges DEF RInv, Typed, Control
    <3>2. Head(order) \in Done
      BY <1>1, <2>2, <3>1 DEF Done, Doing, Busy
    <3> QED
      BY <1>1, <2>2, <3>1, <3>2, HeldObject, WriteTyped DEF RInv, Typed
  <2> QED
    BY <2>1, <2>2 DEF StartLinks, SaveObject, FinishRestore, db
<1>3. ActiveDevices' = ActiveDevices
  BY <1>1, <1>2 DEF ActiveDevices, RInv, Typed, Tables, Device
<1>4. Done' = Done /\ Done \subseteq Assets
  BY <1>1 DEF Done, Doing, Busy, RInv, Typed, Control, IsSaved
<1> QED
  BY <1>1, <1>2, <1>3, <1>4 DEF Credits, Restoring

LEMMA CreditsStep == RInv /\ Credits /\ [Next]_vars => Credits'
<1>1. CASE UNCHANGED vars
  BY <1>1 DEF vars, Credits, Restoring, Done, Doing, Busy, ActiveDevices, HasCredit, CanWrite, Device
<1> QED
  BY <1>1, ChangeCredits, FileCredits, CheckCredits, InsertCredits, ActivateCredits,
     MarkActiveCredits, LinksCredits DEF Next, Step

(* After calm and fresh restores a device holds a credit exactly when its  *)
(* row is active, for any payload and licence: isActivable, activate and   *)
(* the last update agree.                                                  *)
THEOREM CreditsAgreeAfterRestores == Spec => []CreditsAgreeAfterRestore
<1>1. Init => RInv /\ Credits
  BY InitTyped, InitCredits
<1>2. RInv /\ Credits /\ [Next]_vars => (RInv /\ Credits)'
  BY TypedStep, CreditsStep
<1>3. Credits => CreditsAgreeAfterRestore
  BY DEF Credits, CreditsAgreeAfterRestore
<1> QED
  BY <1>1, <1>2, <1>3, PTL DEF Spec

-----------------------------------------------------------------------------
(* Induction up to a number, for sets.                                     *)
LEMMA Upward ==
  ASSUME NEW N \in Nat, NEW T, 0 \in T, \A n \in 0 .. N : n + 1 \in 0 .. N /\ n \in T => n + 1 \in T
  PROVE  0 .. N \subseteq T
<1> DEFINE S == (0 .. N) \ T
           Lower(k) == {x \in S : x < k}
           F == {Lower(k) : k \in S}
<1> SUFFICES ASSUME S # {} PROVE FALSE
  OBVIOUS
<1>1. IsWellFoundedOn(StrictSubsetOrdering(S), SUBSET S)
  <2>1. IsFiniteSet(S)
    <3>1. IsFiniteSet(0 .. N)
      BY FS_Interval
    <3> QED
      BY <3>1, FS_Subset
  <2> QED
    BY <2>1, FS_StrictSubsetOrderingWellFounded, FS_FiniteSubsetsOfFinite
<1>2. F \subseteq SUBSET S /\ F # {}
  OBVIOUS
<1>3. PICK U \in F : \A V \in F : <<V, U>> \notin StrictSubsetOrdering(S)
  <2> HIDE DEF F, S
  <2> QED
    BY <1>1, <1>2, WFMin
<1>4. PICK k \in S : U = Lower(k)
  OBVIOUS
<1>5. ASSUME NEW x \in S, x < k PROVE FALSE
  <2>1. Lower(x) \subseteq Lower(k) /\ x \in Lower(k) /\ x \notin Lower(x)
    BY <1>5
  <2>2. Lower(x) \in SUBSET S /\ Lower(k) \in SUBSET S /\ Lower(x) \in F
    OBVIOUS
  <2>3. <<Lower(x), U>> \in StrictSubsetOrdering(S)
    <3> HIDE DEF Lower, S
    <3> QED
      BY <1>4, <2>1, <2>2 DEF StrictSubsetOrdering
  <2> HIDE DEF F
  <2> QED
    BY <1>3, <2>2, <2>3
<1>6. k # 0 /\ k - 1 \in 0 .. N /\ k - 1 \notin S /\ (k - 1) + 1 = k
  BY <1>5
<1> QED
  BY <1>6

(* buildRestoreTree, turn by turn.                                         *)
Turn(m, n) == IF NameOrder[n] \in DOMAIN m THEN Inherit(m, NameOrder[n]) ELSE m
Turns(p, m, N) == m = [n \in 0 .. N |-> IF n = 0 THEN Own(p) ELSE Turn(m[n - 1], n)]

LEMMA TurnsExist ==
  ASSUME NEW p, NEW N \in Nat
  PROVE  \E m : Turns(p, m, N)
<1> DEFINE T == {n \in 0 .. N : \E m : Turns(p, m, n)}
<1>1. 0 \in T
  <2>1. Turns(p, [n \in 0 .. 0 |-> Own(p)], 0)
    BY DEF Turns
  <2> QED
    BY <2>1
<1>2. ASSUME NEW k \in 0 .. N, k + 1 \in 0 .. N, k \in T
      PROVE  k + 1 \in T
  <2>1. PICK m : Turns(p, m, k)
    BY <1>2
  <2> DEFINE g == [n \in 0 .. k + 1 |-> IF n = k + 1 THEN Turn(m[k], k + 1) ELSE m[n]]
  <2>2. ASSUME NEW n \in 0 .. k + 1
        PROVE  g[n] = IF n = 0 THEN Own(p) ELSE Turn(g[n - 1], n)
    <3>1. CASE n = k + 1
      <4>1. g[n] = Turn(m[k], n) /\ n - 1 = k /\ n # 0 /\ g[k] = m[k]
        BY <1>2, <3>1
      <4> QED
        BY <4>1
    <3>2. CASE n # k + 1
      <4>1. n \in 0 .. k
        BY <1>2, <3>2
      <4>2. g[n] = m[n] /\ m[n] = IF n = 0 THEN Own(p) ELSE Turn(m[n - 1], n)
        BY <1>2, <2>1, <3>2, <4>1 DEF Turns
      <4>3. n # 0 => g[n - 1] = m[n - 1]
        BY <1>2, <4>1
      <4> QED
        BY <4>2, <4>3
    <3> QED
      BY <3>1, <3>2
  <2>3. Turns(p, g, k + 1)
    <3>1. g = [n \in 0 .. k + 1 |-> g[n]]
      OBVIOUS
    <3> HIDE DEF g
    <3> QED
      BY <2>2, <3>1 DEF Turns
  <2> QED
    BY <1>2, <2>3
<1>3. 0 .. N \subseteq T
  <2> HIDE DEF T
  <2> QED
    BY <1>1, <1>2, Upward
<1> QED
  BY <1>3

LEMMA ClosureTurns ==
  ASSUME NEW p, NameOrder \in Seq(Assets)
  PROVE  \E m : Turns(p, m, Len(NameOrder)) /\ Closure(p) = m[Len(NameOrder)]
<1> DEFINE L == Len(NameOrder)
           c == CHOOSE m : Turns(p, m, L)
<1>1. Turns(p, c, L)
  <2>1. L \in Nat
    OBVIOUS
  <2>2. \E m : Turns(p, m, L)
    <3> HIDE DEF L
    <3> QED
      BY <2>1, TurnsExist
  <2> HIDE DEF L
  <2> QED
    BY <2>2, Zenon
<1>2. Closure(p) = c[L]
  BY DEF Closure, Turns, Turn
<1> QED
  BY <1>1, <1>2

(* A parent inherits all that its child has, at the turn of the child and  *)
(* at every later one.                                                     *)
LEMMA ParentInherits ==
  ASSUME NEW p, NEW a \in DOMAIN p, a \in Assets, p[a].parent \in DOMAIN p, p[a].parent # None
  PROVE  /\ a \in Closure(p)[p[a].parent]
         /\ Closure(p)[a] \subseteq Closure(p)[p[a].parent]
<1> DEFINE L == Len(NameOrder)
           x == p[a].parent
<1>1. L \in Nat /\ DOMAIN NameOrder = 1 .. L
  BY RestoreAssumption
<1>2. PICK m : Turns(p, m, L) /\ Closure(p) = m[L]
  BY RestoreAssumption, ClosureTurns
<1>3. PICK i \in 1 .. L : NameOrder[i] = a
  BY <1>1, RestoreAssumption
<1> HIDE DEF L
<1> DEFINE T == {n \in 0 .. L : /\ a \in DOMAIN m[n] /\ x \in DOMAIN m[n] /\ a \in m[n][x]
                                /\ i <= n => m[n][a] \subseteq m[n][x]}
<1>4. 0 \in T
  <2>1. m[0] = Own(p)
    BY <1>1, <1>2 DEF Turns
  <2>2. a \in DOMAIN Own(p) /\ x \in DOMAIN Own(p) /\ a \in Own(p)[x]
    BY DEF Own
  <2> QED
    BY <1>1, <1>3, <2>1, <2>2
<1>5. ASSUME NEW k \in 0 .. L, k + 1 \in 0 .. L, k \in T
      PROVE  k + 1 \in T
  <2> DEFINE b == NameOrder[k + 1]
             f == m[k]
             g == m[k + 1]
  <2>1. g = Turn(f, k + 1)
    <3>1. k + 1 # 0 /\ (k + 1) - 1 = k
      BY <1>1
    <3> QED
      BY <1>2, <1>5, <3>1 DEF Turns
  <2>2. a \in DOMAIN f /\ x \in DOMAIN f /\ a \in f[x] /\ (i <= k => f[a] \subseteq f[x])
    BY <1>5
  <2> HIDE DEF f, g, b
  <2>3. CASE b \notin DOMAIN f
    <3>1. g = f
      BY <2>1, <2>3 DEF Turn, b
    <3>2. i # k + 1
      BY <1>3, <2>2, <2>3 DEF b
    <3>3. i <= k + 1 => i <= k
      BY <1>1, <1>3, <3>2
    <3> QED
      BY <1>5, <2>2, <3>1, <3>3 DEF g
  <2>4. CASE b \in DOMAIN f
    <3>1. /\ DOMAIN g = DOMAIN f
          /\ \A y \in DOMAIN f : g[y] = IF b \in f[y] THEN f[y] \cup f[b] ELSE f[y]
      BY <2>1, <2>4 DEF Turn, Inherit, b
    <3>2. CASE i = k + 1
      <4>1. b = a
        BY <1>3, <3>2 DEF b
      <4> QED
        BY <1>5, <2>2, <3>1, <4>1 DEF g
    <3>3. CASE i # k + 1
      <4>1. i <= k + 1 => i <= k
        BY <1>1, <1>3, <3>3
      <4>2. i <= k + 1 => g[a] \subseteq g[x]
        BY <2>2, <3>1, <4>1
      <4>3. a \in g[x]
        BY <2>2, <3>1
      <4> QED
        BY <1>5, <2>2, <3>1, <4>2, <4>3 DEF g
    <3> QED
      BY <3>2, <3>3
  <2> QED
    BY <2>3, <2>4
<1>6. L \in T
  <2> HIDE DEF T
  <2>1. 0 .. L \subseteq T
    BY <1>1, <1>4, <1>5, Upward
  <2> QED
    BY <1>1, <2>1
<1> QED
  BY <1>2, <1>3, <1>6

(* Clients put assets only into larger ones (Inside), and kinds have an    *)
(* order: then nothing is inside itself.  What is virtual is not saved:    *)
(* nothing is put into it or fed from it.                                  *)
Ranked == \E rank \in [Kinds -> Nat] :
            \A k, l \in Kinds : <<k, l>> \in Inside => rank[k] < rank[l]
Physical ==
  /\ \A k \in Kinds : <<"virtual", k>> \notin Inside
  /\ \A l \in Wires : Kind[l[1]] # "virtual"

Placed(f) == \A a \in DOMAIN f :
  /\ Kind[a] # "virtual"
  /\ f[a].parent # None => <<Kind[f[a].parent], Kind[a]>> \in Inside
  /\ \A s \in f[a].sources : <<s, a>> \in Wires
Closed(f) == \A a \in DOMAIN f : f[a].parent \in DOMAIN f \cup {None} /\ f[a].sources \subseteq DOMAIN f

LEMMA OnlyLower ==
  ASSUME NEW p, IsSaved(p), Closed(p), Placed(p), NEW rank \in [Kinds -> Nat],
         \A k, l \in Kinds : <<k, l>> \in Inside => rank[k] < rank[l]
  PROVE  \A x \in DOMAIN p : /\ Closure(p)[x] \subseteq DOMAIN p
                             /\ \A y \in Closure(p)[x] : rank[Kind[x]] < rank[Kind[y]]
<1> DEFINE L == Len(NameOrder)
           Fine(m) == /\ DOMAIN m = DOMAIN p
                      /\ \A x \in DOMAIN p : /\ m[x] \subseteq DOMAIN p
                                             /\ \A y \in m[x] : rank[Kind[x]] < rank[Kind[y]]
<1>1. L \in Nat
  BY RestoreAssumption
<1>2. PICK m : Turns(p, m, L) /\ Closure(p) = m[L]
  BY RestoreAssumption, ClosureTurns
<1> HIDE DEF L
<1> DEFINE T == {n \in 0 .. L : Fine(m[n])}
<1>3. \A x \in DOMAIN p : x \in Assets /\ Kind[x] \in Kinds /\ rank[Kind[x]] \in Nat
  BY TablesAssumption DEF IsSaved
<1>4. 0 \in T
  <2>1. m[0] = Own(p)
    BY <1>1, <1>2 DEF Turns
  <2>2. DOMAIN Own(p) = DOMAIN p
    BY DEF Own, Closed
  <2>3. ASSUME NEW x \in DOMAIN p, NEW y \in Own(p)[x]
        PROVE  y \in DOMAIN p /\ rank[Kind[x]] < rank[Kind[y]]
    <3>1. Own(p)[x] = {a \in DOMAIN p : p[a].parent = x}
      BY <2>2, <2>3 DEF Own
    <3>2. y \in DOMAIN p /\ p[y].parent = x
      BY <2>3, <3>1
    <3>3. x # None
      BY <1>3, TablesAssumption
    <3> QED
      BY <1>3, <3>2, <3>3 DEF Placed
  <2> QED
    BY <1>1, <2>1, <2>2, <2>3
<1>5. ASSUME NEW k \in 0 .. L, k + 1 \in 0 .. L, k \in T
      PROVE  k + 1 \in T
  <2> DEFINE b == NameOrder[k + 1]
             f == m[k]
             g == m[k + 1]
  <2>1. g = Turn(f, k + 1)
    <3>1. k + 1 # 0 /\ (k + 1) - 1 = k
      BY <1>1
    <3> QED
      BY <1>2, <1>5, <3>1 DEF Turns
  <2>2. Fine(f)
    BY <1>5
  <2> HIDE DEF f, g, b
  <2>3. Fine(g)
    <3>1. CASE b \notin DOMAIN f
      BY <2>1, <2>2, <3>1 DEF Turn, b
    <3>2. CASE b \in DOMAIN f
      <4>1. /\ DOMAIN g = DOMAIN f
            /\ \A y \in DOMAIN f : g[y] = IF b \in f[y] THEN f[y] \cup f[b] ELSE f[y]
        BY <2>1, <3>2 DEF Turn, Inherit, b
      <4>2. ASSUME NEW x \in DOMAIN p, NEW y \in g[x]
            PROVE  y \in DOMAIN p /\ rank[Kind[x]] < rank[Kind[y]]
        <5>1. CASE y \in f[x]
          BY <2>2, <5>1
        <5>2. CASE b \in f[x] /\ y \in f[b]
          <6>1. rank[Kind[x]] < rank[Kind[b]] /\ b \in DOMAIN p
            BY <2>2, <5>2
          <6>2. rank[Kind[b]] < rank[Kind[y]] /\ y \in DOMAIN p
            BY <2>2, <5>2, <6>1
          <6> QED
            BY <1>3, <6>1, <6>2
        <5> QED
          BY <2>2, <4>1, <4>2, <5>1, <5>2
      <4> QED
        BY <2>2, <4>1, <4>2
    <3> QED
      BY <3>1, <3>2
  <2> HIDE DEF Fine
  <2> QED
    BY <1>5, <2>3 DEF g
<1>6. L \in T
  <2> HIDE DEF T
  <2>1. 0 .. L \subseteq T
    BY <1>1, <1>4, <1>5, Upward
  <2> QED
    BY <1>1, <2>1
<1> QED
  BY <1>2, <1>6

(* The sort of restoreAssets puts every parent before its children.        *)
LEMMA ParentFirst ==
  ASSUME Ranked, NEW p, IsSaved(p), Closed(p), Placed(p), NEW a \in DOMAIN p, p[a].parent # None
  PROVE  /\ p[a].parent \in DOMAIN p /\ p[a].parent # a
         /\ ~(Cardinality(Closure(p)[p[a].parent]) <= Cardinality(Closure(p)[a]))
<1>1. PICK rank \in [Kinds -> Nat] : \A k, l \in Kinds : <<k, l>> \in Inside => rank[k] < rank[l]
  BY DEF Ranked
<1> DEFINE x == p[a].parent
           C == Closure(p)
<1>2. x \in DOMAIN p /\ a \in Assets
  BY DEF Closed, IsSaved
<1>3. a \in C[x] /\ C[a] \subseteq C[x]
  BY <1>2, ParentInherits
<1>4. \A z \in DOMAIN p : /\ C[z] \subseteq DOMAIN p
                          /\ \A y \in C[z] : rank[Kind[z]] < rank[Kind[y]]
  BY <1>1, OnlyLower
<1>5. \A z \in DOMAIN p : rank[Kind[z]] \in Nat
  BY TablesAssumption DEF IsSaved
<1> HIDE DEF C, x
<1>6. a \notin C[a] /\ x # a
  BY <1>2, <1>3, <1>4, <1>5
<1>7. IsFiniteSet(C[x])
  <2>1. IsFiniteSet(DOMAIN p)
    BY TablesAssumption, FS_Subset DEF IsSaved
  <2> QED
    BY <1>2, <1>4, <2>1, FS_Subset
<1>8. Cardinality(C[a]) <= Cardinality(C[x]) /\ Cardinality(C[a]) # Cardinality(C[x])
  BY <1>3, <1>6, <1>7, FS_Subset
<1>9. Cardinality(C[a]) \in Nat /\ Cardinality(C[x]) \in Nat
  BY <1>3, <1>7, FS_Subset, FS_CardinalityType
<1> QED
  BY <1>2, <1>6, <1>8, <1>9 DEF C, x

-----------------------------------------------------------------------------
(* What is in the tables, in a file or in an object fits Inside and Wires. *)
References ==
  /\ \A a \in Assets : parent[a] # None =>
       {a, parent[a]} \subseteq rows /\ <<Kind[parent[a]], Kind[a]>> \in Inside
  /\ \A l \in links : l[1] \in rows /\ l[2] \in rows /\ l \in Wires
Files == Placed(payload) /\ Placed(loaded) /\ Placed(held)
PInv == References /\ Files

LEMMA InitPlaced == Init => PInv
<1> SUFFICES ASSUME Init PROVE PInv
  OBVIOUS
<1>1. References
  BY DEF Init, Consistent, References
<1>2. Placed(NoPayload)
  BY DEF Placed, NoPayload
<1>3. PICK S \in SUBSET {a \in Assets : Kind[a] # "virtual"} :
        \E up \in [S -> S \cup {None}], w \in [S -> Statuses],
           wired \in SUBSET {l \in Wires : {l[1], l[2]} \subseteq S} : Replays(S, up, w, wired)
  BY Zenon DEF Init, Replayed, Replays
<1>4. PICK up \in [S -> S \cup {None}], w \in [S -> Statuses],
           wired \in SUBSET {l \in Wires : {l[1], l[2]} \subseteq S} : Replays(S, up, w, wired)
  BY <1>3
<1>5. DOMAIN payload = S
  BY <1>4 DEF Replays
<1>6. ASSUME NEW a \in S
      PROVE  /\ Kind[a] # "virtual" /\ payload[a].parent = up[a]
             /\ up[a] # None => <<Kind[up[a]], Kind[a]>> \in Inside
             /\ \A s \in payload[a].sources : <<s, a>> \in wired
  <2>1. payload[a].parent = up[a] /\ payload[a].sources = {l[1] : l \in {x \in wired : x[2] = a}}
    BY <1>4, <1>6 DEF Replays
  <2>2. ASSUME NEW l \in wired, l[2] = a PROVE <<l[1], a>> \in wired
    <3>1. l = <<l[1], l[2]>>
      BY RestoreAssumption
    <3> QED
      BY <2>2, <3>1
  <2> QED
    BY <1>4, <1>6, <2>1, <2>2 DEF Replays
<1>7. Placed(payload)
  BY <1>5, <1>6 DEF Placed
<1> QED
  BY <1>1, <1>2, <1>7 DEF Init, PInv, Files

LEMMA InitClosed == Init => Closed(payload)
<1> SUFFICES ASSUME Init PROVE Closed(payload)
  OBVIOUS
<1>3. PICK S \in SUBSET {a \in Assets : Kind[a] # "virtual"} :
        \E up \in [S -> S \cup {None}], w \in [S -> Statuses],
           wired \in SUBSET {l \in Wires : {l[1], l[2]} \subseteq S} : Replays(S, up, w, wired)
  BY Zenon DEF Init, Replayed, Replays
<1>4. PICK up \in [S -> S \cup {None}], w \in [S -> Statuses],
           wired \in SUBSET {l \in Wires : {l[1], l[2]} \subseteq S} : Replays(S, up, w, wired)
  BY <1>3
<1>5. DOMAIN payload = S
  BY <1>4 DEF Replays
<1>6. ASSUME NEW a \in S
      PROVE  payload[a].parent \in S \cup {None} /\ payload[a].sources \subseteq S
  <2>1. payload[a].parent = up[a] /\ payload[a].sources = {l[1] : l \in {x \in wired : x[2] = a}}
    BY <1>4, <1>6 DEF Replays
  <2>2. \A l \in wired : l[1] \in S
    OBVIOUS
  <2> QED
    BY <2>1, <2>2
<1> QED
  BY <1>5, <1>6 DEF Closed

LEMMA ObjectPlaced ==
  ASSUME RInv, References, NEW a \in Assets, Kind[a] # "virtual", Placed(loaded)
  PROVE  Placed(Extended(loaded, a, Object(a)))
<1>1. \A s \in Object(a).sources : <<s, a>> \in Wires
  <2>1. ASSUME NEW l \in LinksTo(a) PROVE <<l[1], a>> \in Wires
    <3>1. l = <<l[1], a>>
      BY <2>1 DEF LinksTo, RInv, Typed, Tables
    <3> QED
      BY <2>1, <3>1 DEF LinksTo, References
  <2> QED
    BY <2>1 DEF Object
<1>2. Object(a).parent # None => <<Kind[Object(a).parent], Kind[a]>> \in Inside
  BY DEF Object, References
<1> QED
  BY <1>1, <1>2 DEF Placed, Extended

LEMMA WriteReferences ==
  ASSUME RInv, References, NEW a \in Assets, NEW p \in Assets \cup {None}, NEW s \in Statuses,
         Write(a, p, s), rows' = rows \cup {a}, p \in rows \cup {None},
         p # None => <<Kind[p], Kind[a]>> \in Inside,
         \/ UNCHANGED links
         \/ \E S : SaveLinks(a, S) /\ S \subseteq rows /\ \A x \in S : <<x, a>> \in Wires
  PROVE  References'
<1>1. \A b \in Assets : parent'[b] = IF b = a THEN p ELSE parent[b]
  BY WriteTyped DEF RInv, Typed
<1>2. \A l \in links' : l[1] \in rows' /\ l[2] \in rows' /\ l \in Wires
  <2>1. CASE UNCHANGED links
    BY <2>1 DEF References
  <2>2. ASSUME NEW S, SaveLinks(a, S), S \subseteq rows, \A x \in S : <<x, a>> \in Wires
        PROVE  \A l \in links' : l[1] \in rows' /\ l[2] \in rows' /\ l \in Wires
    BY <2>2 DEF SaveLinks, References, LinksTo
  <2> QED
    BY <2>1, <2>2
<1>3. \A b \in Assets : parent'[b] # None =>
        {b, parent'[b]} \subseteq rows' /\ <<Kind[parent'[b]], Kind[b]>> \in Inside
  BY <1>1 DEF References
<1> QED
  BY <1>2, <1>3 DEF References

LEMMA DropReferences ==
  ASSUME RInv, References, NEW a \in Assets, Deletable(a), NEW s \in Statuses,
         Write(a, None, s), rows' = rows \ {a}, links' = links \ LinksTo(a)
  PROVE  References'
<1>1. \A b \in Assets : parent'[b] = IF b = a THEN None ELSE parent[b]
  BY WriteTyped DEF RInv, Typed
<1>2. \A b \in rows : parent[b] # a
  BY DEF Deletable, Children
<1>3. \A l \in links : l[1] # a
  BY DEF Deletable, HasLinkedAssets
<1>4. \A l \in links' : l[1] \in rows' /\ l[2] \in rows' /\ l \in Wires
  BY <1>3 DEF References, LinksTo
<1>5. \A b \in Assets : parent'[b] # None =>
        {b, parent'[b]} \subseteq rows' /\ <<Kind[parent'[b]], Kind[b]>> \in Inside
  BY <1>1, <1>2 DEF References
<1> QED
  BY <1>4, <1>5 DEF References

LEMMA LessReferences ==
  ASSUME References, UNCHANGED <<rows, parent>>, links' \subseteq links
  PROVE  References'
BY DEF References

LEMMA FilesKept ==
  ASSUME Placed(payload'), Placed(loaded'), Placed(held')
  PROVE  Files'
BY DEF Files, Placed

LEMMA PlacedStep == RInv /\ PInv /\ [Next]_vars => PInv'
<1> SUFFICES ASSUME RInv, PInv, [Next]_vars PROVE PInv'
  OBVIOUS
<1>0. References /\ Placed(payload) /\ Placed(loaded) /\ Placed(held)
  BY DEF PInv, Files
<1>1. CASE UNCHANGED vars
  <2>1. UNCHANGED <<rows, parent, links, payload, loaded, held>>
    BY <1>1 DEF vars
  <2> QED
    BY <1>0, <2>1, LessReferences, FilesKept DEF PInv
<1>2. ASSUME NEW o \in {"save", "restore"}, Receive(o) PROVE PInv'
  <2>1. UNCHANGED <<rows, parent, links, payload, held>> /\ loaded' = NoPayload
    BY <1>2 DEF Receive, db
  <2>2. Placed(NoPayload)
    BY DEF Placed, NoPayload
  <2> QED
    BY <1>0, <2>1, <2>2, LessReferences, FilesKept DEF PInv
<1>3. CASE Load
  <2>1. UNCHANGED <<rows, parent, links, payload, held>>
    BY <1>3 DEF Load, db, local
  <2>2. PICK a \in todo : loaded' = loaded \/ (Kind[a] # "virtual" /\ loaded' = Extended(loaded, a, Object(a)))
    BY <1>3 DEF Load
  <2>3. a \in Assets
    BY DEF RInv, Typed, Control
  <2> QED
    BY <1>0, <2>1, <2>2, <2>3, ObjectPlaced, LessReferences, FilesKept DEF PInv
<1>4. CASE FinishSave \/ BuildRestoreTree
  <2>1. UNCHANGED <<rows, parent, links, loaded>> /\ payload' \in {payload, loaded} /\ held' \in {payload, held}
    BY <1>4 DEF FinishSave, BuildRestoreTree, db
  <2> QED
    BY <1>0, <2>1, LessReferences, FilesKept DEF PInv
<1>5. CASE Check
  <2>1. UNCHANGED <<rows, parent, links, payload, loaded>> /\ pc = "check"
    BY <1>5 DEF Check, db
  <2>2. PICK a \in todo : held' = held \/ held' = Downgraded(a)
    BY <1>5 DEF Check
  <2>3. a \in DOMAIN held /\ IsSaved(held)
    BY <2>1 DEF RInv, Typed, Control, Bookkeeping, Restoring
  <2>4. Placed(Downgraded(a))
    <3> DEFINE g == Downgraded(a)
    <3>1. /\ DOMAIN g = DOMAIN held
          /\ \A b \in DOMAIN held : g[b].parent = held[b].parent /\ g[b].sources = held[b].sources
      BY <2>3, DowngradedSaved
    <3> HIDE DEF g
    <3>2. Placed(g)
      BY <1>0, <3>1 DEF Placed
    <3> QED
      BY <3>2 DEF g
  <2> QED
    BY <1>0, <2>1, <2>2, <2>4, LessReferences, FilesKept DEF PInv
<1>6. CASE Insert \/ Activate \/ MarkActive \/ StartLinks \/ SaveObject \/ FinishRestore
  <2> DEFINE a == IF pc = "links" THEN Head(order) ELSE current
  <2>1. UNCHANGED <<payload, loaded, held>>
    BY <1>6 DEF Insert, Activate, MarkActive, StartLinks, SaveObject, FinishRestore, local
  <2>2. References'
    <3>1. CASE Activate \/ StartLinks \/ FinishRestore
      <4>1. UNCHANGED <<rows, parent, links>>
        BY <3>1 DEF Activate, StartLinks, FinishRestore, db
      <4> QED
        BY <1>0, <4>1, LessReferences
    <3>2. ASSUME Insert \/ MarkActive \/ SaveObject
          PROVE  /\ a \in Assets /\ held[a].parent \in Assets \cup {None} /\ held[a].status \in Statuses
                 /\ held[a].parent # None => <<Kind[held[a].parent], Kind[a]>> \in Inside
                 /\ \A x \in held[a].sources : <<x, a>> \in Wires
      <4>1. Restoring /\ (Busy \/ (pc = "links" /\ order # <<>>))
        BY <3>2 DEF Insert, MarkActive, SaveObject, Restoring, Busy
      <4>2. a \in DOMAIN held
        BY <4>1, DoneChanges DEF RInv, Typed, Control, Bookkeeping, Busy
      <4> HIDE DEF a
      <4> QED
        BY <1>0, <4>2, HeldObject DEF Placed
    <3>3. CASE Insert
      <4>1. a = current /\ UNCHANGED links
        BY <3>3 DEF Insert, db
      <4>2. \/ UNCHANGED <<rows, parent>>
            \/ /\ held[a].parent \in rows \cup {None} /\ rows' = rows \cup {a}
               /\ Write(a, held[a].parent, "nonactive")
        BY <3>3, <4>1 DEF Insert, db
      <4> HIDE DEF a
      <4>3. "nonactive" \in Statuses
        BY DEF Statuses
      <4> QED
        BY <1>0, <3>2, <3>3, <4>1, <4>2, <4>3, WriteReferences, LessReferences
    <3>4. CASE MarkActive
      <4>1. a = current
        BY <3>4 DEF MarkActive
      <4>2. \/ UNCHANGED <<rows, parent, links>>
            \/ CanWrite(a, held[a].parent) /\ Write(a, held[a].parent, "active") /\ UNCHANGED <<rows, links>>
            \/ GiveUp(a)
        BY <3>4, <4>1 DEF MarkActive, db
      <4> HIDE DEF a
      <4>3. {"active", "nonactive"} \subseteq Statuses
        BY DEF Statuses
      <4>4. CASE GiveUp(a)
        <5>1. links' = links \ LinksTo(a) /\ links' \subseteq links
              /\ (UNCHANGED <<rows, parent>> \/ (Deletable(a) /\ rows' = rows \ {a} /\ Write(a, None, "nonactive")))
          BY <4>4 DEF GiveUp
        <5> QED
          BY <1>0, <3>2, <3>4, <4>3, <5>1, DropReferences, LessReferences
      <4>5. CASE CanWrite(a, held[a].parent) /\ Write(a, held[a].parent, "active") /\ UNCHANGED <<rows, links>>
        <5>1. rows' = rows \cup {a} /\ held[a].parent \in rows \cup {None}
          BY <4>5 DEF CanWrite
        <5> QED
          BY <1>0, <3>2, <3>4, <4>3, <4>5, <5>1, WriteReferences
      <4> QED
        BY <1>0, <4>2, <4>4, <4>5, LessReferences
    <3>5. CASE SaveObject
      <4>1. a = Head(order) /\ UNCHANGED rows
        BY <3>5 DEF SaveObject
      <4>2. \/ UNCHANGED <<parent, links>>
            \/ /\ CanWrite(a, held[a].parent) /\ held[a].sources \subseteq rows
               /\ Write(a, held[a].parent, held[a].status) /\ SaveLinks(a, held[a].sources)
        BY <3>5, <4>1 DEF SaveObject, LinkSources
      <4> HIDE DEF a
      <4>3. CASE UNCHANGED <<parent, links>>
        BY <1>0, <4>1, <4>3, LessReferences
      <4>4. CASE /\ CanWrite(a, held[a].parent) /\ held[a].sources \subseteq rows
                 /\ Write(a, held[a].parent, held[a].status) /\ SaveLinks(a, held[a].sources)
        <5>1. rows' = rows \cup {a} /\ held[a].parent \in rows \cup {None}
          BY <4>1, <4>4 DEF CanWrite
        <5> QED
          BY <1>0, <3>2, <3>5, <4>4, <5>1, WriteReferences
      <4> QED
        BY <4>2, <4>3, <4>4
    <3> QED
      BY <1>6, <3>1, <3>3, <3>4, <3>5
  <2> QED
    BY <1>0, <2>1, <2>2, FilesKept DEF PInv
<1>7. CASE Change
  <2>1. UNCHANGED <<payload, loaded, held>>
    BY <1>7 DEF Change
  <2>2. PICK a \in Assets :
        \/ Delete(a)
        \/ \E p \in Assets \cup {None}, w \in Statuses :
             /\ p # None => <<Kind[p], Kind[a]>> \in Inside
             /\ Create(a, p, w) \/ Update(a, p, w)
    BY <1>7 DEF Change
  <2>3. References'
    <3>1. CASE Delete(a)
      <4>1. "nonactive" \in Statuses
        BY DEF Statuses
      <4> QED
        BY <1>0, <3>1, <4>1, DropReferences DEF Delete
    <3>2. ASSUME NEW p \in Assets \cup {None}, NEW w \in Statuses,
                 p # None => <<Kind[p], Kind[a]>> \in Inside, Create(a, p, w) \/ Update(a, p, w)
          PROVE  References'
      <4>1. \E s \in Statuses : Write(a, p, s)
        BY <3>2 DEF Create, Update, Statuses
      <4>2. rows' = rows \cup {a} /\ p \in rows \cup {None} /\ UNCHANGED links
        BY <3>2 DEF Create, Update, CanWrite
      <4> QED
        BY <1>0, <3>2, <4>1, <4>2, WriteReferences
    <3> QED
      BY <2>2, <3>1, <3>2
  <2> QED
    BY <1>0, <2>1, <2>3, FilesKept DEF PInv
<1> QED
  BY <1>1, <1>2, <1>3, <1>4, <1>5, <1>6, <1>7 DEF Next, Step

-----------------------------------------------------------------------------
(* A restore works on the payload as it was received, but for the devices  *)
(* that got no credit.                                                     *)
Holding == Restoring =>
  /\ DOMAIN held = DOMAIN payload /\ matrix = Closure(payload)
  /\ \A a \in DOMAIN held :
       /\ held[a].parent = payload[a].parent /\ held[a].sources = payload[a].sources
       /\ \/ held[a].status = payload[a].status
          \/ Device(a) /\ payload[a].status = "active" /\ held[a].status = "nonactive"

LEMMA InitHolding == Init => Holding
BY DEF Init, Holding, Restoring

LEMMA HoldingStep == RInv /\ Holding /\ [Next]_vars => Holding'
<1> SUFFICES ASSUME RInv, Holding, [Next]_vars PROVE Holding'
  OBVIOUS
<1>1. CASE UNCHANGED <<payload, held, matrix>> /\ (Restoring' => Restoring)
  BY <1>1 DEF Holding, Device
<1>2. CASE BuildRestoreTree
  <2>1. held' = payload' /\ matrix' = Closure(payload')
    BY <1>2 DEF BuildRestoreTree
  <2>2. Closure(payload') = Closure(payload)'
    BY DEF Closure, Own, Inherit
  <2> QED
    BY <2>1, <2>2 DEF Holding
<1>3. CASE Check
  <2>1. PICK a \in todo :
          held' = IF Device(a) /\ held[a].status = "active" /\ ~HasCredit(a)
                  THEN Downgraded(a) ELSE held
    BY <1>3 DEF Check
  <2>2. UNCHANGED <<payload, matrix>> /\ pc = "check" /\ Restoring
    BY <1>3 DEF Check, Restoring
  <2>3. a \in DOMAIN held /\ IsSaved(held)
    BY <2>2 DEF RInv, Typed, Control, Bookkeeping
  <2>4. CASE held' = held
    BY <2>2, <2>4 DEF Holding, Device
  <2>5. CASE Device(a) /\ held[a].status = "active" /\ held' = Downgraded(a)
    <3> DEFINE g == Downgraded(a)
    <3>1. /\ DOMAIN g = DOMAIN held /\ g[a].status = "nonactive"
          /\ \A b \in DOMAIN held : /\ g[b].parent = held[b].parent /\ g[b].sources = held[b].sources
                                    /\ b # a => g[b] = held[b]
      BY <2>3, DowngradedSaved
    <3> HIDE DEF g
    <3>2. held' = g
      BY <2>5 DEF g
    <3>3. held[a].status = payload[a].status
      BY <2>2, <2>3, <2>5 DEF Holding
    <3>4. \A b \in DOMAIN g :
            /\ g[b].parent = payload[b].parent /\ g[b].sources = payload[b].sources
            /\ \/ g[b].status = payload[b].status
               \/ Device(b) /\ payload[b].status = "active" /\ g[b].status = "nonactive"
      BY <2>2, <2>5, <3>1, <3>3 DEF Holding
    <3>5. DOMAIN g = DOMAIN payload /\ matrix = Closure(payload)
      BY <2>2, <3>1 DEF Holding
    <3> QED
      BY <2>2, <3>2, <3>4, <3>5 DEF Holding, Device
  <2> QED
    BY <2>1, <2>4, <2>5
<1>4. CASE FinishSave
  BY <1>4 DEF FinishSave, Answer, Holding, Restoring
<1>5. ASSUME ~BuildRestoreTree, ~Check, ~FinishSave
      PROVE  UNCHANGED <<payload, held, matrix>> /\ (Restoring' => Restoring)
  <2>1. UNCHANGED <<payload, held, matrix>>
    BY <1>5 DEF Next, Step, Receive, Load, Insert, Activate, MarkActive, StartLinks, SaveObject,
       FinishRestore, Change, local, vars
  <2>2. Restoring' => Restoring
    BY <1>5 DEF Next, Step, Receive, Load, Insert, Activate, MarkActive, StartLinks, SaveObject,
       FinishRestore, Change, Answer, vars, Restoring
  <2> QED
    BY <2>1, <2>2
<1> QED
  BY <1>1, <1>2, <1>3, <1>4, <1>5

(* The file of a calm client is closed: parents and sources are in it.     *)
CalmFiles == calm =>
  /\ Closed(payload)
  /\ pc = "load" =>
       /\ todo \subseteq rows /\ DOMAIN loaded = {a \in rows \ todo : Kind[a] # "virtual"}
       /\ \A a \in DOMAIN loaded : loaded[a] = Object(a)

LEMMA ObjectKept ==
  ASSUME UNCHANGED <<parent, status, links>>, NEW a
  PROVE  Object(a)' = Object(a)
BY DEF Object, LinksTo

LEMMA LoadCalm == RInv /\ CalmFiles /\ Load => CalmFiles'
<1> SUFFICES ASSUME RInv, CalmFiles, Load, calm' PROVE CalmFiles'
  BY DEF CalmFiles
<1>1. /\ pc = "load" /\ calm /\ UNCHANGED <<rows, parent, status, links, payload>>
      /\ todo \subseteq rows /\ DOMAIN loaded = {a \in rows \ todo : Kind[a] # "virtual"}
      /\ \A a \in DOMAIN loaded : loaded[a] = Object(a)
      /\ Closed(payload)
  BY DEF CalmFiles, Load, local, db
<1>2. PICK a \in todo :
        /\ todo' = todo \ {a} /\ UNCHANGED pc
        /\ loaded' = IF Kind[a] = "virtual" THEN loaded ELSE Extended(loaded, a, Object(a))
  BY <1>1 DEF Load
<1>3. /\ DOMAIN loaded' = {b \in rows \ todo' : Kind[b] # "virtual"}
      /\ \A b \in DOMAIN loaded' : loaded'[b] = Object(b)
  <2>1. CASE Kind[a] = "virtual"
    BY <1>1, <1>2, <2>1
  <2>2. CASE Kind[a] # "virtual"
    <3>1. loaded' = [b \in DOMAIN loaded \cup {a} |-> IF b = a THEN Object(a) ELSE loaded[b]]
      BY <1>2, <2>2 DEF Extended
    <3> QED
      BY <1>1, <1>2, <2>2, <3>1
  <2> QED
    BY <2>1, <2>2
<1>4. \A b \in DOMAIN loaded' : loaded'[b] = Object(b)'
  BY <1>1, <1>3, ObjectKept
<1>5. Closed(payload)'
  BY <1>1 DEF Closed
<1> QED
  BY <1>1, <1>2, <1>3, <1>4, <1>5 DEF CalmFiles

LEMMA SaveCalm == Physical /\ RInv /\ PInv /\ CalmFiles /\ FinishSave => CalmFiles'
<1> SUFFICES ASSUME Physical, RInv, PInv, CalmFiles, FinishSave, calm' PROVE CalmFiles'
  BY DEF CalmFiles
<1>1. /\ pc = "load" /\ todo = {} /\ calm /\ payload' = loaded /\ pc' = "idle"
      /\ DOMAIN loaded = {a \in rows : Kind[a] # "virtual"}
      /\ \A a \in DOMAIN loaded : loaded[a] = Object(a)
  BY DEF CalmFiles, FinishSave, Answer
<1>2. ASSUME NEW a \in DOMAIN loaded
      PROVE  loaded[a].parent \in DOMAIN loaded \cup {None} /\ loaded[a].sources \subseteq DOMAIN loaded
  <2>1. loaded[a].parent = parent[a] /\ loaded[a].sources = {l[1] : l \in LinksTo(a)} /\ a \in Assets
    <3>1. loaded[a] = Object(a) /\ a \in Assets
      BY <1>1, <1>2 DEF RInv, Typed, Tables
    <3>2. Object(a).parent = parent[a] /\ Object(a).sources = {l[1] : l \in LinksTo(a)}
      BY DEF Object
    <3> QED
      BY <3>1, <3>2
  <2>2. parent[a] # None => parent[a] \in rows /\ Kind[parent[a]] # "virtual"
    <3>1. parent[a] # None => parent[a] \in rows /\ <<Kind[parent[a]], Kind[a]>> \in Inside
      BY <2>1 DEF PInv, References
    <3>2. Kind[a] \in Kinds
      BY <2>1, TablesAssumption
    <3> QED
      BY <3>1, <3>2 DEF Physical
  <2>3. \A l \in LinksTo(a) : l[1] \in rows /\ Kind[l[1]] # "virtual"
    BY DEF LinksTo, PInv, References, Physical
  <2> QED
    BY <1>1, <2>1, <2>2, <2>3
<1>3. Closed(loaded)
  BY <1>2 DEF Closed
<1>4. Closed(payload')
  BY <1>1, <1>3
<1>5. Closed(payload)'
  BY <1>4 DEF Closed
<1> QED
  BY <1>1, <1>5 DEF CalmFiles

LEMMA CalmFilesStep == Physical /\ RInv /\ PInv /\ CalmFiles /\ [Next]_vars => CalmFiles'
<1> SUFFICES ASSUME Physical, RInv, PInv, CalmFiles, [Next]_vars, calm' PROVE CalmFiles'
  BY DEF CalmFiles
<1>1. CASE Load
  BY <1>1, LoadCalm
<1>2. CASE FinishSave
  BY <1>2, SaveCalm
<1>3. ASSUME ~Load, ~FinishSave
      PROVE  CalmFiles'
  <2>1. calm /\ UNCHANGED payload
    BY <1>3 DEF Next, Step, Receive, BuildRestoreTree, Check, Insert, Activate, MarkActive, StartLinks,
       SaveObject, FinishRestore, Change, local, vars
  <2>2. Closed(payload)'
    BY <2>1 DEF CalmFiles, Closed
  <2>3. CASE pc' # "load"
    BY <2>2, <2>3 DEF CalmFiles
  <2>4. CASE \E o \in {"save", "restore"} : Receive(o)
    <3>1. todo' = rows' /\ DOMAIN loaded' = {}
      BY <2>4, EmptyFile DEF Receive, db
    <3> QED
      BY <2>2, <3>1 DEF CalmFiles
  <2>5. CASE UNCHANGED vars
    <3>1. UNCHANGED <<parent, status, links, rows, todo, loaded, pc>>
      BY <2>5 DEF vars
    <3>2. \A a \in DOMAIN loaded : Object(a)' = Object(a)
      BY <3>1, ObjectKept
    <3> QED
      BY <2>1, <2>2, <3>1, <3>2 DEF CalmFiles
  <2>6. pc' = "load" => (\E o \in {"save", "restore"} : Receive(o)) \/ UNCHANGED vars
    BY <1>3 DEF Next, Step, BuildRestoreTree, Check, Insert, Activate, MarkActive, StartLinks,
       SaveObject, FinishRestore, Change, Answer
  <2> QED
    BY <2>3, <2>4, <2>5, <2>6
<1> QED
  BY <1>1, <1>2, <1>3

(* A calm restore has what is done in the tables, and finds the parent of  *)
(* what it works on.                                                       *)
Answered == calm =>
  /\ reply # "lost"
  /\ Restoring => Done \subseteq rows
  /\ Busy => held[current].parent \in rows \cup {None}
  /\ pc \in {"activate", "markActive"} => CanWrite(current, held[current].parent)

CInv == RInv /\ PInv /\ Holding /\ CalmFiles /\ Answered

LEMMA CheckAnswered == Ranked /\ CInv /\ Check => Answered'
<1> SUFFICES ASSUME Ranked, CInv, Check, calm' PROVE Answered'
  BY DEF Answered
<1>1. PICK a \in todo :
        /\ \A b \in todo : Cardinality(matrix[b]) <= Cardinality(matrix[a])
        /\ todo' = todo \ {a} /\ current' = a /\ order' = Append(order, a)
        /\ held' = IF Device(a) /\ held[a].status = "active" /\ ~HasCredit(a)
                   THEN Downgraded(a) ELSE held
  BY DEF Check
<1>2. /\ pc = "check" /\ pc' = "insert" /\ UNCHANGED <<rows, reply>> /\ calm
  BY DEF Check, db
<1>3. IsSaved(held) /\ IsSaved(payload) /\ a \in DOMAIN held /\ Restoring
  BY <1>2 DEF CInv, RInv, Typed, Control, Bookkeeping, Restoring
<1>4. DOMAIN held' = DOMAIN held /\ held'[a].parent = held[a].parent
  BY <1>1, <1>3, DowngradedSaved
<1>5. Done' = Done
  BY <1>1, <1>2, <1>4 DEF Done, Doing, Busy
<1>6. reply # "lost" /\ Done \subseteq rows
  BY <1>2, <1>3 DEF CInv, Answered
<1>7. held[a].parent \in rows \cup {None}
  <2> DEFINE p == payload[a].parent
  <2>1. /\ matrix = Closure(payload) /\ DOMAIN held = DOMAIN payload /\ held[a].parent = p
        /\ Closed(payload) /\ Placed(payload)
    BY <1>2, <1>3 DEF CInv, Holding, CalmFiles, PInv, Files
  <2>2. CASE p # None
    <3>1. p \in DOMAIN payload /\ ~(Cardinality(matrix[p]) <= Cardinality(matrix[a]))
      BY <1>3, <2>1, <2>2, ParentFirst
    <3>2. p \in DOMAIN held \ todo
      BY <1>1, <2>1, <3>1
    <3> QED
      BY <1>2, <1>6, <2>1, <3>2 DEF Done, Doing, Busy
  <2> QED
    BY <2>1, <2>2
<1> QED
  BY <1>1, <1>2, <1>4, <1>5, <1>6, <1>7 DEF Answered

LEMMA RestoreAnswered ==
  ASSUME CInv, Insert \/ Activate \/ MarkActive \/ StartLinks \/ SaveObject \/ FinishRestore
  PROVE  Answered'
<1> SUFFICES ASSUME calm' PROVE Answered'
  BY DEF Answered
<1>1. /\ calm /\ UNCHANGED <<held, todo, current>> /\ Restoring
      /\ reply # "lost" /\ Done \subseteq rows /\ (Busy => held[current].parent \in rows \cup {None})
      /\ pc \in {"activate", "markActive"} => CanWrite(current, held[current].parent)
  BY DEF Insert, Activate, MarkActive, StartLinks, SaveObject, FinishRestore, local, CInv, Answered, Restoring
<1>2. Busy => current \in DOMAIN held /\ current \in Assets
  BY <1>1, HeldObject DEF CInv, RInv, Bookkeeping
<1>3. CASE Insert
  <2>1. \/ current \in rows /\ pc' = "check" /\ UNCHANGED <<rows, reply>>
        \/ /\ current \notin rows /\ rows' = rows \cup {current} /\ UNCHANGED reply
           /\ pc' \in {"check", "activate", "markActive"}
    BY <1>1, <1>3 DEF Insert, Busy, db
  <2>2. pc = "insert" /\ Busy
    BY <1>3 DEF Insert, Busy
  <2>3. Done' \subseteq Done \cup {current}
    BY <1>1, <2>2 DEF Done, Doing
  <2>4. pc' \in {"activate", "markActive"} => CanWrite(current, held[current].parent)'
    <3>1. current # None
      BY <1>2, <2>2, TablesAssumption
    <3> QED
      BY <1>1, <2>1, <2>2, <3>1 DEF CanWrite
  <2> QED
    BY <1>1, <2>1, <2>2, <2>3, <2>4 DEF Answered, Busy
<1>4. CASE ~Insert
  <2>1. UNCHANGED rows
    BY <1>1, <1>4 DEF Activate, MarkActive, StartLinks, SaveObject, FinishRestore, db
  <2>2. reply' # "lost"
    BY <1>1, <1>4 DEF Activate, MarkActive, StartLinks, SaveObject, FinishRestore, Answer
  <2>3. Done' \subseteq Done \cup {x \in {current} : Busy /\ pc # "insert"}
    BY <1>1, <1>4 DEF Done, Doing, Busy, Activate, MarkActive, StartLinks, SaveObject, FinishRestore, Answer
  <2>4. pc \in {"activate", "markActive"} => current \in rows
    BY <1>1 DEF CanWrite
  <2>5. Busy' => pc = "activate" /\ pc' = "markActive"
    BY <1>4 DEF Busy, Activate, MarkActive, StartLinks, SaveObject, FinishRestore, Answer
  <2>6. CanWrite(current, held[current].parent)' <=> CanWrite(current, held[current].parent)
    BY <1>1, <2>1 DEF CanWrite
  <2>7. Done' \subseteq rows'
    BY <1>1, <2>1, <2>3, <2>4 DEF Busy
  <2>8. Busy' => held'[current'].parent \in rows' \cup {None}
    BY <1>1, <2>1, <2>5 DEF Busy
  <2>9. pc' \in {"activate", "markActive"} => CanWrite(current, held[current].parent)'
    BY <1>1, <2>5, <2>6 DEF Busy
  <2> QED
    BY <2>2, <2>7, <2>8, <2>9 DEF Answered
<1> QED
  BY <1>3, <1>4

LEMMA AnsweredStep == Ranked /\ CInv /\ [Next]_vars => Answered'
<1> SUFFICES ASSUME Ranked, CInv, [Next]_vars, calm' PROVE Answered'
  BY DEF Answered
<1>1. CASE Check
  BY <1>1, CheckAnswered
<1>2. CASE Insert \/ Activate \/ MarkActive \/ StartLinks \/ SaveObject \/ FinishRestore
  BY <1>2, RestoreAnswered
<1>3. CASE UNCHANGED vars
  BY <1>3 DEF vars, CInv, Answered, Restoring, Busy, Done, Doing, CanWrite
<1>4. CASE (\E o \in {"save", "restore"} : Receive(o)) \/ FinishSave \/ Load \/ Change
  <2>1. calm /\ pc \in {"idle", "load"} /\ pc' \in {"idle", "load"}
    BY <1>4 DEF Receive, FinishSave, Load, Change, Answer, local
  <2>2. reply' # "lost"
    <3>1. CASE Load
      <4>1. \A a \in todo : a \in rows
        BY <2>1, <3>1 DEF CInv, CalmFiles, Load
      <4> QED
        BY <2>1, <3>1, <4>1 DEF Load, CInv, Answered
    <3> QED
      BY <1>4, <2>1, <3>1 DEF Receive, FinishSave, Change, Answer, CInv, Answered
  <2> QED
    BY <2>1, <2>2 DEF Answered, Restoring, Busy
<1>5. CASE BuildRestoreTree
  <2>1. pc' = "check" /\ Done' = {} /\ reply' = reply /\ calm
    BY <1>5 DEF BuildRestoreTree, Done
  <2> QED
    BY <2>1 DEF CInv, Answered, Restoring, Busy
<1> QED
  BY <1>1, <1>2, <1>3, <1>4, <1>5 DEF Next, Step

LEMMA InitCalm == Init => CInv
BY InitTyped, InitPlaced, InitHolding, InitClosed
   DEF Init, CInv, CalmFiles, Answered, Restoring, Busy

LEMMA CalmStep == Ranked /\ Physical /\ CInv /\ [Next]_vars => CInv'
BY TypedStep, PlacedStep, HoldingStep, CalmFilesStep, AnsweredStep DEF CInv

(* Every save and restore that nothing disturbs is answered, for any       *)
(* database and payload, when kinds have an order and nothing hangs on a   *)
(* virtual asset: buildRestoreTree and the sort put parents before their   *)
(* children, so that restore() never throws its string.                    *)
THEOREM CalmRequestsAreAnswered ==
  ASSUME Ranked, Physical
  PROVE  Spec => []CalmRequestIsAnswered
<1>1. Init => CInv
  BY InitCalm
<1>2. CInv /\ [Next]_vars => CInv'
  BY CalmStep
<1>3. CInv => CalmRequestIsAnswered
  BY DEF CInv, Answered, CalmRequestIsAnswered
<1> QED
  BY <1>1, <1>2, <1>3, PTL DEF Spec

-----------------------------------------------------------------------------
(* The licence is never exceeded.                                          *)
Bounded == Cardinality(licensed) <= MaxActive

LEMMA InitBounded == Init => Bounded
BY DEF Init, Consistent, Bounded

LEMMA OneCredit ==
  ASSUME RInv, Bounded, NEW a \in Assets, HasCredit(a)
  PROVE  /\ Cardinality(licensed \cup {a}) <= MaxActive
         /\ Cardinality(licensed) = MaxActive => licensed \cup {a} = licensed
<1>1. IsFiniteSet(licensed)
  BY TablesAssumption, FS_Subset DEF RInv, Typed, Tables
<1>2. Cardinality(licensed) \in Nat /\ MaxActive \in Nat
  BY <1>1, FS_CardinalityType, TablesAssumption
<1>3. Cardinality(licensed \cup {a}) = IF a \in licensed THEN Cardinality(licensed) ELSE Cardinality(licensed) + 1
  BY <1>1, FS_AddElement
<1> QED
  BY <1>2, <1>3 DEF Bounded, HasCredit

LEMMA FewerCredits ==
  ASSUME RInv, Bounded, NEW S, S \subseteq licensed
  PROVE  Cardinality(S) <= MaxActive
<1>1. IsFiniteSet(licensed)
  BY TablesAssumption, FS_Subset DEF RInv, Typed, Tables
<1>2. Cardinality(licensed) \in Nat /\ MaxActive \in Nat
  BY <1>1, FS_CardinalityType, TablesAssumption
<1>3. Cardinality(S) <= Cardinality(licensed) /\ Cardinality(S) \in Nat
  BY <1>1, FS_Subset, FS_CardinalityType
<1> QED
  BY <1>2, <1>3 DEF Bounded

LEMMA BoundedStep == RInv /\ Bounded /\ [Next]_vars => Bounded'
<1> SUFFICES ASSUME RInv, Bounded, [Next]_vars PROVE Bounded'
  OBVIOUS
<1>1. CASE licensed' \subseteq licensed
  BY <1>1, FewerCredits DEF Bounded
<1>2. ASSUME NEW a \in Assets, HasCredit(a), licensed' = licensed \cup {a}
      PROVE  Bounded'
  BY <1>2, OneCredit DEF Bounded
<1>3. CASE Activate
  <2>1. current \in Assets
    BY <1>3, HeldObject DEF Activate, RInv, Bookkeeping, Restoring, Busy
  <2> QED
    BY <1>1, <1>2, <1>3, <2>1 DEF Activate
<1>4. CASE Change
  <2>1. PICK a \in Assets :
        \/ Delete(a)
        \/ \E p \in Assets \cup {None}, w \in Statuses : Create(a, p, w) \/ Update(a, p, w)
    BY <1>4 DEF Change
  <2>2. CASE Delete(a)
    BY <1>1, <2>2 DEF Delete
  <2>3. ASSUME NEW p \in Assets \cup {None}, NEW w \in Statuses, Create(a, p, w) \/ Update(a, p, w)
        PROVE  licensed' \subseteq licensed \/ (HasCredit(a) /\ licensed' = licensed \cup {a})
    BY <2>3 DEF Create, Update
  <2> QED
    BY <1>1, <1>2, <2>1, <2>2, <2>3
<1>5. ASSUME ~Activate, ~Change
      PROVE  licensed' = licensed
  BY <1>5 DEF Next, Step, Receive, Load, FinishSave, BuildRestoreTree, Check, Insert, MarkActive,
     StartLinks, SaveObject, FinishRestore, vars
<1> QED
  BY <1>1, <1>3, <1>4, <1>5

(* A calm and fresh restore: what is done is under its parent; a device is *)
(* kept nonactive only when no credit is left; the links of all but the    *)
(* objects still in the list are those of the payload.                     *)
Queued == {order[i] : i \in DOMAIN order}
Restored == calm /\ fresh =>
  /\ Restoring => \A a \in Done : parent[a] = held[a].parent
  /\ pc \in {"activate", "markActive"} => parent[current] = held[current].parent
  /\ Restoring => \A a \in DOMAIN held :
       held[a].status # payload[a].status => Cardinality(licensed) = MaxActive
  /\ Restoring /\ pc # "links" => DOMAIN held \ todo \subseteq Queued
  /\ pc = "links" => \A a \in DOMAIN held \ Queued : {l[1] : l \in LinksTo(a)} = payload[a].sources

FInv == CInv /\ Credits /\ Bounded /\ Restored

LEMMA InitRestored == Init => Restored
BY DEF Init, Restored, Restoring

LEMMA CheckRestored == FInv /\ Check => Restored'
<1> SUFFICES ASSUME FInv, Check, calm', fresh' PROVE Restored'
  BY DEF Restored
<1>1. PICK a \in todo :
        /\ todo' = todo \ {a} /\ current' = a /\ order' = Append(order, a)
        /\ held' = IF Device(a) /\ held[a].status = "active" /\ ~HasCredit(a)
                   THEN Downgraded(a) ELSE held
  BY DEF Check
<1>2. /\ pc = "check" /\ pc' = "insert" /\ UNCHANGED <<parent, links, licensed, payload>>
      /\ calm /\ fresh
  BY DEF Check, db
<1>3. IsSaved(held) /\ a \in DOMAIN held /\ Restoring /\ order \in Seq(DOMAIN held)
  BY <1>2 DEF FInv, CInv, RInv, Typed, Control, Bookkeeping, Restoring
<1>4. /\ DOMAIN held' = DOMAIN held
      /\ \A b \in DOMAIN held : held'[b].parent = held[b].parent /\ (b # a => held'[b] = held[b])
  BY <1>1, <1>3, DowngradedSaved
<1>5. Done' = Done /\ Done \subseteq DOMAIN held
  BY <1>1, <1>2, <1>4 DEF Done, Doing, Busy
<1>6. \A b \in Done' : parent'[b] = held'[b].parent
  BY <1>2, <1>3, <1>4, <1>5 DEF FInv, Restored
<1>7. \A b \in DOMAIN held' : held'[b].status # payload'[b].status => Cardinality(licensed') = MaxActive
  <2>1. \A b \in DOMAIN held : held[b].status # payload[b].status => Cardinality(licensed) = MaxActive
    BY <1>2, <1>3 DEF FInv, Restored
  <2>2. CASE held' = held
    BY <1>2, <2>1, <2>2
  <2>3. CASE ~HasCredit(a)
    <3>1. Cardinality(licensed) \in Nat /\ MaxActive \in Nat
      BY TablesAssumption, FS_Subset, FS_CardinalityType DEF FInv, CInv, RInv, Typed, Tables
    <3>2. Cardinality(licensed) = MaxActive
      BY <2>3, <3>1 DEF HasCredit, FInv, Bounded
    <3> QED
      BY <1>2, <3>2
  <2> QED
    BY <1>1, <2>2, <2>3
<1>8. DOMAIN held' \ todo' \subseteq Queued'
  <2>1. DOMAIN held \ todo \subseteq Queued
    BY <1>2, <1>3 DEF FInv, Restored
  <2>2. Queued' = Queued \cup {a}
    <3>1. /\ DOMAIN order = 1 .. Len(order) /\ DOMAIN order' = 1 .. Len(order) + 1 /\ Len(order) \in Nat
          /\ \A i \in 1 .. Len(order) : order'[i] = order[i]
          /\ order'[Len(order) + 1] = a
      BY <1>1, <1>3
    <3> QED
      BY <3>1 DEF Queued
  <2> QED
    BY <1>1, <1>4, <2>1, <2>2
<1> QED
  BY <1>2, <1>6, <1>7, <1>8 DEF Restored

LEMMA InsertRestored == FInv /\ (Insert \/ Activate \/ MarkActive) => Restored'
<1> SUFFICES ASSUME FInv, Insert \/ Activate \/ MarkActive, calm', fresh' PROVE Restored'
  BY DEF Restored
<1>1. /\ calm /\ fresh /\ UNCHANGED <<held, todo, current, order, payload>> /\ Busy /\ Restoring
  BY DEF Insert, Activate, MarkActive, local, Restoring, Busy
<1>2. /\ current \in DOMAIN held \ todo /\ current \in Assets
      /\ held[current].parent \in Assets \cup {None}
  BY <1>1, HeldObject DEF FInv, CInv, RInv, Bookkeeping
<1>3. /\ \A a \in Done : parent[a] = held[a].parent
      /\ pc \in {"activate", "markActive"} => parent[current] = held[current].parent
      /\ \A a \in DOMAIN held : held[a].status # payload[a].status => Cardinality(licensed) = MaxActive
      /\ pc # "links"
      /\ DOMAIN held \ todo \subseteq Queued
  BY <1>1 DEF FInv, Restored, Busy
<1>4. Done \subseteq Assets /\ Done' \subseteq Done \cup {current} /\ Queued' = Queued
  BY <1>1 DEF Done, Doing, FInv, CInv, RInv, Typed, Control, IsSaved, Queued
<1>5. pc' # "idle" => /\ parent'[current] = held[current].parent
                      /\ \A b \in Assets : b # current => parent'[b] = parent[b]
  <2>1. CASE Insert
    <3>1. current \notin rows
      BY <1>1, <2>1 DEF Insert, FInv, Credits
    <3>2. pc' # "idle" => Write(current, held[current].parent, "nonactive")
      BY <2>1, <3>1 DEF Insert, Answer
    <3> QED
      BY <1>2, <3>2, WriteTyped DEF FInv, CInv, RInv, Typed, Statuses
  <2>2. CASE Activate
    BY <1>3, <2>2 DEF Activate, db
  <2>3. CASE MarkActive
    <3>1. CanWrite(current, held[current].parent)
      BY <1>1, <2>3 DEF MarkActive, FInv, Credits
    <3>2. Write(current, held[current].parent, "active")
      BY <2>3, <3>1 DEF MarkActive
    <3> QED
      BY <1>2, <3>2, WriteTyped DEF FInv, CInv, RInv, Typed, Statuses
  <2> QED
    BY <2>1, <2>2, <2>3
<1>6. Cardinality(licensed) = MaxActive => licensed' = licensed
  <2>1. licensed' = licensed \/ (HasCredit(current) /\ licensed' = licensed \cup {current})
    BY DEF Insert, Activate, MarkActive
  <2> QED
    BY <1>2, <2>1, OneCredit DEF FInv, CInv
<1>7. pc' # "links"
  BY DEF Insert, Activate, MarkActive, Answer
<1>8. pc' # "idle" => \A a \in Done' : parent'[a] = held'[a].parent
  BY <1>1, <1>3, <1>4, <1>5
<1>9. pc' \in {"activate", "markActive"} => parent'[current'] = held'[current'].parent
  BY <1>1, <1>5
<1>10. \A a \in DOMAIN held' : held'[a].status # payload'[a].status => Cardinality(licensed') = MaxActive
  BY <1>1, <1>3, <1>6
<1>11. DOMAIN held' \ todo' \subseteq Queued'
  BY <1>1, <1>3, <1>4
<1> QED
  BY <1>7, <1>8, <1>9, <1>10, <1>11 DEF Restored, Restoring

SourcesOf(K) == {l[1] : l \in K}
LEMMA SourcesBack ==
  ASSUME NEW S, NEW a, NEW K, \A l \in K : l[1] \in S, \A x \in S : <<x, a>> \in K
  PROVE  SourcesOf(K) = S
<1>1. \A x \in S : <<x, a>>[1] = x
  OBVIOUS
<1> QED
  BY <1>1 DEF SourcesOf

LEMMA LinksRestored == Ranked /\ FInv /\ SaveObject => Restored'
<1> SUFFICES ASSUME Ranked, FInv, SaveObject, calm', fresh' PROVE Restored'
  BY DEF Restored
<1> DEFINE a == Head(order)
           o == held[a]
<1>1. /\ calm /\ fresh /\ UNCHANGED <<rows, licensed, held, todo, current, payload, pc>> /\ pc = "links"
      /\ Restoring /\ order # <<>> /\ order' = Tail(order)
      /\ IF CanWrite(a, o.parent) /\ o.sources \subseteq rows
         THEN Write(a, o.parent, o.status) /\ SaveLinks(a, o.sources)
         ELSE UNCHANGED <<parent, status, links>>
  BY DEF SaveObject, local, Restoring, Rest, LinkSources
<1>2. todo = {} /\ order \in Seq(DOMAIN held)
  BY <1>1 DEF FInv, CInv, RInv, Typed, Control, Bookkeeping
<1>3. a \in DOMAIN held /\ Queued = Queued' \cup {a}
  <2>1. a \in DOMAIN held /\ \A x : (\E i \in DOMAIN order : order[i] = x) <=>
                                      x = a \/ \E i \in DOMAIN order' : order'[i] = x
    BY <1>1, <1>2, DoneChanges
  <2> HIDE DEF a
  <2> QED
    BY <2>1 DEF Queued
<1>4. /\ a \in Assets /\ o.parent \in Assets \cup {None} /\ o.sources \subseteq Assets /\ o.status \in Statuses
      /\ o.parent = payload[a].parent /\ o.sources = payload[a].sources
      /\ DOMAIN held = DOMAIN payload
  BY <1>1, <1>3, HeldObject DEF FInv, CInv, Holding
<1>5. Done = DOMAIN held /\ Done' = Done
  BY <1>1, <1>2 DEF Done, Doing, Busy
<1>6. Done \subseteq rows /\ Closed(payload) /\ Placed(payload) /\ IsSaved(payload)
  BY <1>1 DEF FInv, CInv, Answered, CalmFiles, PInv, Files, RInv, Typed, Control
<1>7. /\ \A b \in Done : parent[b] = held[b].parent
      /\ \A b \in DOMAIN held : held[b].status # payload[b].status => Cardinality(licensed) = MaxActive
      /\ \A b \in DOMAIN held \ Queued : {l[1] : l \in LinksTo(b)} = payload[b].sources
  BY <1>1 DEF FInv, Restored
<1> HIDE DEF a, o
<1>8. CanWrite(a, o.parent) /\ o.sources \subseteq rows
  <2>1. o.sources \subseteq DOMAIN payload /\ o.parent \in DOMAIN payload \cup {None}
    BY <1>3, <1>4, <1>6 DEF Closed
  <2>2. o.parent # a
    <3>1. CASE o.parent = None
      BY <1>4, <3>1, TablesAssumption
    <3>2. CASE o.parent # None
      BY <1>3, <1>4, <1>6, <3>2, ParentFirst
    <3> QED
      BY <3>1, <3>2
  <2> QED
    BY <1>3, <1>4, <1>5, <1>6, <2>1, <2>2 DEF CanWrite
<1>9. Write(a, o.parent, o.status) /\ SaveLinks(a, o.sources)
  BY <1>1, <1>8
<1>10. \A b \in Assets : parent'[b] = IF b = a THEN o.parent ELSE parent[b]
  BY <1>4, <1>9, WriteTyped DEF FInv, CInv, RInv, Typed
<1>11. \A b \in Done' : parent'[b] = held'[b].parent
  <2>1. Done \subseteq Assets
    BY <1>5 DEF FInv, CInv, RInv, Typed, Control, IsSaved
  <2> QED
    BY <1>1, <1>5, <1>7, <1>10, <2>1 DEF o
<1>12. links' = (links \ LinksTo(a)) \cup {<<x, a>> : x \in o.sources}
  BY <1>9 DEF SaveLinks
<1>13. ASSUME NEW b \in DOMAIN held' \ Queued'
       PROVE  {l[1] : l \in LinksTo(b)'} = payload'[b].sources
  <2>1. CASE b = a
    <3>1. LinksTo(b)' = {<<x, a>> : x \in o.sources}
      BY <1>12, <2>1 DEF LinksTo
    <3>2. SourcesOf(LinksTo(b)') = o.sources
      <4>1. /\ \A l \in LinksTo(b)' : l[1] \in o.sources
            /\ \A x \in o.sources : <<x, a>> \in LinksTo(b)'
        BY <3>1
      <4> QED
        BY <4>1, SourcesBack
    <3>3. {l[1] : l \in LinksTo(b)'} = o.sources
      BY <3>2 DEF SourcesOf
    <3> QED
      BY <1>1, <1>4, <2>1, <3>3
  <2>2. CASE b # a
    <3>1. LinksTo(b)' = LinksTo(b)
      BY <1>12, <2>2 DEF LinksTo
    <3>2. b \in DOMAIN held \ Queued
      BY <1>1, <1>3, <1>13, <2>2
    <3> QED
      BY <1>1, <1>7, <3>1, <3>2
  <2> QED
    BY <2>1, <2>2
<1>14. \A b \in DOMAIN held' \ Queued' : {l[1] : l \in LinksTo(b)}' = payload'[b].sources
  BY <1>13
<1>15. \A b \in DOMAIN held' : held'[b].status # payload'[b].status => Cardinality(licensed') = MaxActive
  BY <1>1, <1>7
<1> QED
  BY <1>1, <1>11, <1>14, <1>15 DEF Restored

LEMMA StartRestored == FInv /\ StartLinks => Restored'
<1> SUFFICES ASSUME FInv, StartLinks, calm', fresh' PROVE Restored'
  BY DEF Restored
<1>1. /\ calm /\ fresh /\ UNCHANGED <<parent, licensed, held, todo, order, payload>>
      /\ pc = "check" /\ pc' = "links" /\ Restoring /\ todo = {}
  BY DEF StartLinks, local, db, Restoring
<1>2. /\ \A a \in Done : parent[a] = held[a].parent
      /\ \A a \in DOMAIN held : held[a].status # payload[a].status => Cardinality(licensed) = MaxActive
      /\ DOMAIN held \ todo \subseteq Queued
  BY <1>1 DEF FInv, Restored
<1>3. Done' = Done /\ Queued' = Queued
  BY <1>1 DEF Done, Doing, Busy, Queued
<1> QED
  BY <1>1, <1>2, <1>3 DEF Restored

LEMMA RestoredStep == Ranked /\ FInv /\ [Next]_vars => Restored'
<1> SUFFICES ASSUME Ranked, FInv, [Next]_vars PROVE Restored'
  OBVIOUS
<1>1. CASE UNCHANGED vars
  BY <1>1 DEF vars, FInv, Restored, Restoring, Done, Doing, Busy, Queued, LinksTo
<1>2. CASE Check \/ Insert \/ Activate \/ MarkActive \/ SaveObject \/ StartLinks
  BY <1>2, CheckRestored, InsertRestored, LinksRestored, StartRestored
<1>3. CASE BuildRestoreTree
  <2>1. held' = payload' /\ todo' = DOMAIN held' /\ pc' = "check" /\ Done' = {}
    BY <1>3 DEF BuildRestoreTree, Done
  <2> QED
    BY <2>1 DEF Restored
<1>4. CASE (\E o \in {"save", "restore"} : Receive(o)) \/ Load \/ FinishSave \/ FinishRestore
  BY <1>4 DEF Receive, Load, FinishSave, FinishRestore, Answer, Restored, Restoring
<1>5. CASE Change
  <2>1. ~calm' \/ pc' = "idle"
    BY <1>5 DEF Change
  <2> QED
    BY <2>1 DEF Restored, Restoring
<1> QED
  BY <1>1, <1>2, <1>3, <1>4, <1>5 DEF Next, Step

(* A calm restore of assets that are not there gives back all of them, for *)
(* any payload and licence: each under its parent, with its links and with *)
(* its status, but for devices that no credit is left for.                 *)
THEOREM RestoresAreFaithful ==
  ASSUME Ranked, Physical
  PROVE  Spec => RestoredAsSaved
<1>1. Init => FInv
  BY InitCalm, InitCredits, InitBounded, InitRestored DEF FInv
<1>2. FInv /\ [Next]_vars => FInv'
  BY CalmStep, CreditsStep, BoundedStep, RestoredStep DEF FInv, CInv
<1>3. ASSUME FInv, [Next]_vars, op = "restore", pc = "links", pc' = "idle", calm, fresh,
             NEW a \in DOMAIN payload
      PROVE  /\ a \in rows /\ parent[a] = payload[a].parent
             /\ {l[1] : l \in LinksTo(a)} = payload[a].sources
             /\ status[a] = "active" <=>
                  payload[a].status = "active" /\ (Device(a) => a \in licensed)
             /\ payload[a].status = "active" /\ status[a] = "nonactive"
                  => Cardinality(licensed) = MaxActive
  <2>1. order = <<>> /\ Restoring
    BY <1>3 DEF Next, Step, Receive, Load, FinishSave, BuildRestoreTree, Check, Insert, Activate,
       MarkActive, StartLinks, SaveObject, FinishRestore, Change, vars, Restoring
  <2>2. Queued = {}
    BY <2>1 DEF Queued
  <2>3. /\ todo = {} /\ Done = DOMAIN held /\ DOMAIN held = DOMAIN payload
        /\ held[a].parent = payload[a].parent
        /\ \/ held[a].status = payload[a].status
           \/ Device(a) /\ payload[a].status = "active" /\ held[a].status = "nonactive"
    BY <1>3, <2>1 DEF FInv, CInv, RInv, Bookkeeping, Holding, Done, Doing, Busy
  <2>4. /\ a \in rows /\ status[a] = held[a].status /\ parent[a] = held[a].parent
        /\ {l[1] : l \in LinksTo(a)} = payload[a].sources
        /\ held[a].status # payload[a].status => Cardinality(licensed) = MaxActive
    BY <1>3, <2>1, <2>2, <2>3 DEF FInv, CInv, Answered, Credits, Restored
  <2>5. licensed = ActiveDevices
    BY <1>3 DEF FInv, Credits
  <2>6. Device(a) => (a \in licensed <=> status[a] = "active")
    BY <2>4, <2>5 DEF ActiveDevices
  <2>7. status[a] = "active" <=> payload[a].status = "active" /\ (Device(a) => a \in licensed)
    BY <2>3, <2>4, <2>6
  <2>8. payload[a].status = "active" /\ status[a] = "nonactive" => Cardinality(licensed) = MaxActive
    BY <2>3, <2>4
  <2> QED
    BY <2>3, <2>4, <2>7, <2>8
<1> DEFINE AsSaved == (op = "restore" /\ pc = "links" /\ pc' = "idle" /\ calm /\ fresh) =>
     \A a \in DOMAIN payload :
       /\ a \in rows /\ parent[a] = payload[a].parent
       /\ {l[1] : l \in LinksTo(a)} = payload[a].sources
       /\ status[a] = "active" <=>
            payload[a].status = "active" /\ (Device(a) => a \in licensed)
       /\ payload[a].status = "active" /\ status[a] = "nonactive"
            => Cardinality(licensed) = MaxActive
<1>4. FInv /\ [Next]_vars => [AsSaved]_vars
  BY <1>3
<1>5. RestoredAsSaved <=> [][AsSaved]_vars
  BY DEF RestoredAsSaved
<1> HIDE DEF AsSaved
<1> QED
  BY <1>1, <1>2, <1>4, <1>5, PTL DEF Spec
=============================================================================
