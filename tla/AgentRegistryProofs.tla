------------------------ MODULE AgentRegistryProofs ------------------------
(***************************************************************************)
(* Theorems about AssetAgent, for every set of assets and of threads: its  *)
(* types, its references and the datacenters that stay.  Then AssetAgent   *)
(* implements Registry, and keeps more of its promises when one thread     *)
(* serves all requests.                                                    *)
(***************************************************************************)
EXTENDS AgentRegistry, FiniteSetTheorems, TLAPS

(* A thread that is past the point where its asset is known holds its name.*)
Holding == {"activate", "markActive", "deactivate", "markNonactive", "finish", "count",
            "drop"}
AssetKnown == \A t \in Threads : pc[t] \in Holding => job[t].asset \in Assets

Inv == TypeOK /\ AssetKnown

(* ToDel and Depth are numbers, because there are finitely many assets.    *)
LEMMA DepthType ==
  ASSUME TypeOK, NEW a \in Assets
  PROVE  Depth(a) \in Nat
<1>1. IsFiniteSet(Assets)
  BY AgentAssumption, TablesAssumption
<1>2. Above(a) \subseteq Assets
  BY DEF Above, TypeOK
<1>3. Cardinality(Above(a)) \in Nat
  BY <1>1, <1>2, FS_Subset, FS_CardinalityType
<1> QED
  BY <1>3 DEF Depth

LEMMA ToDelType ==
  ASSUME NEW n \in 1 .. 2, NEW list \in [1 .. n -> Assets], NEW recursive \in BOOLEAN
  PROVE  ToDel(list, recursive) \in [Assets -> Nat]
<1>1. ASSUME NEW d \in Assets
      PROVE  Cardinality({i \in DOMAIN list : list[i] = d /\ Listed(list, i)}) \in Nat
  <2>1. DOMAIN list = 1 .. n
    OBVIOUS
  <2>2. IsFiniteSet(1 .. n)
    BY FS_Interval
  <2>3. {i \in DOMAIN list : list[i] = d /\ Listed(list, i)} \subseteq 1 .. n
    BY <2>1
  <2> QED
    BY <2>2, <2>3, FS_Subset, FS_CardinalityType
<1> QED
  BY <1>1 DEF ToDel

LEMMA NoJobType == NoJob \in Jobs
  BY AgentAssumption, TablesAssumption DEF NoJob, Jobs, Kinds, Statuses

LEMMA InitInv == Init => Inv
<1> SUFFICES ASSUME Init PROVE Inv
  OBVIOUS
<1>1. /\ rows \in SUBSET Assets /\ parent \in [Assets -> Assets \cup {None}]
      /\ status \in [Assets -> Statuses] /\ links \subseteq Wires /\ licensed \subseteq rows
  BY DEF Init, Consistent, ActiveDevices
<1>2. pc \in [Threads -> PCs] /\ job \in [Threads -> Jobs]
  BY NoJobType DEF Init, PCs
<1>3. /\ reply \in [Threads -> {"none", "OK", "KO"}]
      /\ configurable \in BOOLEAN /\ requests \in Nat
  BY DEF Init
<1>4. view \in [Assets -> Statuses \cup {"absent"}]
  BY <1>1 DEF Init
<1>5. TypeOK
  BY <1>1, <1>2, <1>3, <1>4, AgentAssumption DEF TypeOK
<1>6. AssetKnown
  BY DEF Init, AssetKnown, Holding
<1> QED
  BY <1>5, <1>6 DEF Inv

-----------------------------------------------------------------------------
(* A step of one thread keeps the types when it keeps those of the tables  *)
(* and gives its own job and program counter values of theirs.             *)
Tables == /\ rows \in SUBSET Assets
          /\ parent \in [Assets -> Assets \cup {None}]
          /\ status \in [Assets -> Statuses]
          /\ links \in SUBSET (Assets \X Assets)

Others == /\ licensed \in SUBSET Assets
          /\ configurable \in BOOLEAN
          /\ reply \in [Threads -> {"none", "OK", "KO"}]
          /\ view \in [Assets -> Statuses \cup {"absent"}]
          /\ requests \in Nat

LEMMA StepInv ==
  ASSUME Inv, NEW t \in Threads, NEW l \in PCs, NEW j \in Jobs,
         l \in Holding => j.asset \in Assets,
         Goto(t, l), Set(t, j), Tables', Others'
  PROVE  Inv'
<1>1. pc' \in [Threads -> PCs] /\ job' \in [Threads -> Jobs] /\ AssetKnown'
  BY DEF Inv, TypeOK, AssetKnown, Goto, Set
<1> QED
  BY <1>1 DEF Inv, TypeOK, Tables, Others

(* The same, when only the program counter moves.                          *)
LEMMA MoveInv ==
  ASSUME Inv, NEW t \in Threads, NEW l \in PCs,
         l \in Holding => job[t].asset \in Assets,
         Goto(t, l), job' = job, Tables', Others'
  PROVE  Inv'
<1>1. pc' \in [Threads -> PCs] /\ job' \in [Threads -> Jobs] /\ AssetKnown'
  BY DEF Inv, TypeOK, AssetKnown, Goto
<1> QED
  BY <1>1 DEF Inv, TypeOK, Tables, Others

LEMMA TablesKept == ASSUME Inv, UNCHANGED db PROVE Tables'
  BY DEF Inv, TypeOK, Tables, db

LEMMA ReceiveInv ==
  ASSUME Inv, NEW t \in Threads, NEW l \in PCs, NEW j \in Jobs, l \notin Holding,
         Receive(t, j), Goto(t, l), UNCHANGED <<db, licensed, configurable, view>>
  PROVE  Inv'
<1>1. Tables'
  BY TablesKept
<1>2. Others'
  BY DEF Others, Receive, Inv, TypeOK
<1> QED
  BY <1>1, <1>2, StepInv DEF Receive

LEMMA CreateJobType ==
  ASSUME NEW k \in Kinds, NEW p \in Assets \cup {None}, NEW w \in Statuses,
         NEW try \in BOOLEAN, NEW s \in SUBSET Assets
  PROVE  CreateJob(k, p, w, try, s) \in Jobs
  BY NoJobType, ZenonT(40) DEF CreateJob, Jobs

LEMMA CreateInv ==
  ASSUME Inv, NEW t \in Threads, NEW k \in Kinds, NEW p \in Assets \cup {None},
         NEW w \in Statuses, NEW try \in BOOLEAN, NEW s \in SUBSET Assets,
         CreateAsset(t, k, p, w, try, s)
  PROVE  Inv'
<1> DEFINE l == IF ~configurable THEN "ko"
                ELSE IF w = "active" \/ t \in Legacy THEN "ask" ELSE "insert"
<1>1. l \in PCs /\ l \notin Holding
  BY DEF PCs, Holding
<1>2. Goto(t, l) /\ Receive(t, CreateJob(k, p, w, try, s))
      /\ UNCHANGED <<db, licensed, configurable, view>>
  BY DEF CreateAsset
<1> QED
  BY <1>1, <1>2, CreateJobType, ReceiveInv

LEMMA UpdateJobType ==
  ASSUME NEW a \in Assets, NEW p \in Assets \cup {None}, NEW w \in Statuses,
         NEW try \in BOOLEAN, NEW s \in SUBSET Assets
  PROVE  UpdateJob(a, p, w, try, s) \in Jobs
<1>1. Kind[a] \in Kinds
  BY AgentAssumption, TablesAssumption
<1>2. Rises(a, w) \in BOOLEAN /\ Falls(a, w) \in BOOLEAN
  BY DEF Rises, Falls
<1> QED
  BY <1>1, <1>2, NoJobType, ZenonT(60) DEF UpdateJob, Jobs

LEMMA UpdateInv ==
  ASSUME Inv, NEW t \in Threads, NEW a \in Assets, NEW p \in Assets \cup {None},
         NEW w \in Statuses, NEW try \in BOOLEAN, NEW s \in SUBSET Assets,
         UpdateAsset(t, a, p, w, try, s)
  PROVE  Inv'
<1> DEFINE kept == IF t \in Legacy THEN {x[1] : x \in LinksTo(a)} ELSE s
           l == IF ~configurable \/ a \notin rows THEN "ko"
                ELSE IF Rises(a, w) \/ t \in Legacy THEN "ask" ELSE "store"
<1>1. kept \in SUBSET Assets
  BY DEF LinksTo, Inv, TypeOK
<1>2. UpdateJob(a, p, w, try, kept) \in Jobs /\ UpdateJob(a, p, w, try, kept).asset = a
  <2> HIDE DEF kept
  <2> QED
    BY <1>1, UpdateJobType, ZenonT(60) DEF UpdateJob, NoJob
<1>3. Goto(t, l) /\ Receive(t, UpdateJob(a, p, w, try, kept))
      /\ UNCHANGED <<db, licensed, configurable, view>>
  BY DEF UpdateAsset
<1>4. l \in PCs
  BY DEF PCs
<1>5. Tables'
  BY <1>3, TablesKept
<1>6. Others'
  BY <1>3 DEF Others, Receive, Inv, TypeOK
<1> HIDE DEF l, kept
<1> QED
  BY <1>2, <1>3, <1>4, <1>5, <1>6, StepInv DEF Receive

LEMMA DeleteJobType ==
  ASSUME TypeOK, NEW todo \in [Assets -> Nat], NEW end \in {"notify", "silent", "KO"},
         NEW last \in BOOLEAN
  PROVE  DeleteJob(todo, end, last) \in Jobs
<1>1. [d \in Assets |-> Depth(d)] \in [Assets -> Nat]
  BY DepthType
<1>2. {l \in links : todo[l[2]] > 0} \in SUBSET (Assets \X Assets) /\ status \in [Assets -> Statuses]
  BY DEF TypeOK
<1> QED
  BY <1>1, <1>2, NoJobType DEF DeleteJob, Jobs

LEMMA DeleteInv ==
  ASSUME Inv, NEW t \in Threads, NEW n \in 1 .. 2, NEW list \in [1 .. n -> Assets],
         NEW recursive \in BOOLEAN, DeleteAsset(t, list, recursive)
  PROVE  Inv'
<1> DEFINE l == IF configurable THEN "unlink" ELSE "ko"
           j == DeleteJob(ToDel(list, recursive), "notify", FALSE)
<1>1. j \in Jobs
  BY ToDelType, DeleteJobType DEF Inv
<1>2. l \in PCs /\ l \notin Holding
  BY DEF PCs, Holding
<1>3. Goto(t, l) /\ Receive(t, j) /\ UNCHANGED <<db, licensed, configurable, view>>
  BY DEF DeleteAsset
<1> HIDE DEF l, j
<1> QED
  BY <1>1, <1>2, <1>3, ReceiveInv

LEMMA ResetInv ==
  ASSUME Inv, NEW t \in Threads, Reset(t)
  PROVE  Inv'
<1> DEFINE j == DeleteJob(All, "silent", TRUE)
<1>1. All \in [Assets -> Nat]
  BY DEF All
<1>2. j \in Jobs
  BY <1>1, DeleteJobType DEF Inv
<1>3. "unlink" \in PCs /\ "unlink" \notin Holding
  BY DEF PCs, Holding
<1>4. Goto(t, "unlink") /\ Receive(t, j) /\ UNCHANGED <<db, licensed, configurable, view>>
  BY DEF Reset
<1> HIDE DEF j
<1> QED
  BY <1>2, <1>3, <1>4, ReceiveInv

LEMMA RequestInv ==
  ASSUME Inv, NEW t \in Threads, Request(t)
  PROVE  Inv'
<1>1. \A x \in Wires : {x[1]} \in SUBSET Assets
  BY AgentAssumption, TablesAssumption
<1>2. {Kind[a] : a \in Assets \ {RC0}} \subseteq Kinds
  BY AgentAssumption, TablesAssumption
<1>3. ASSUME NEW k \in {Kind[a] : a \in Assets \ {RC0}}, NEW p \in Assets \cup {None},
             NEW w \in Statuses, NEW try \in BOOLEAN,
             NEW s \in {{}} \cup {{x[1]} : x \in Wires}, CreateAsset(t, k, p, w, try, s)
      PROVE  Inv'
  <2>1. s \in SUBSET Assets /\ k \in Kinds
    BY <1>1, <1>2
  <2> QED
    BY <1>3, <2>1, CreateInv
<1>4. ASSUME NEW a \in Assets, NEW p \in Assets \cup {None}, NEW w \in Statuses,
             NEW try \in BOOLEAN, NEW s \in {{}} \cup {{x[1]} : x \in {y \in Wires : y[2] = a}},
             UpdateAsset(t, a, p, w, try, s)
      PROVE  Inv'
  <2>1. s \in SUBSET Assets
    BY <1>1
  <2> QED
    BY <1>4, <2>1, UpdateInv
<1>5. ASSUME NEW list \in UNION {[1 .. n -> Assets] : n \in 1 .. 2}, NEW recursive \in BOOLEAN,
             DeleteAsset(t, list, recursive)
      PROVE  Inv'
  <2>1. PICK n \in 1 .. 2 : list \in [1 .. n -> Assets]
    OBVIOUS
  <2> QED
    BY <1>5, <2>1, DeleteInv
<1>6. ASSUME Reset(t)
      PROVE  Inv'
  BY <1>6, ResetInv
<1>7. \/ \E k \in {Kind[a] : a \in Assets \ {RC0}}, p \in Assets \cup {None}, w \in Statuses,
           try \in BOOLEAN, s \in {{}} \cup {{x[1]} : x \in Wires} :
          CreateAsset(t, k, p, w, try, s)
      \/ \E a \in Assets, p \in Assets \cup {None}, w \in Statuses, try \in BOOLEAN :
         \E s \in {{}} \cup {{x[1]} : x \in {y \in Wires : y[2] = a}} :
           UpdateAsset(t, a, p, w, try, s)
      \/ \E list \in UNION {[1 .. n -> Assets] : n \in 1 .. 2}, recursive \in BOOLEAN :
           DeleteAsset(t, list, recursive)
      \/ Reset(t)
  BY ZenonT(60) DEF Request
<1> QED
  BY <1>3, <1>4, <1>5, <1>6, <1>7, Zenon

-----------------------------------------------------------------------------
(* The steps of a handler.                                                 *)

LEMMA WriteType ==
  ASSUME Inv, NEW a, NEW p \in Assets \cup {None}, NEW s \in Statuses, Write(a, p, s)
  PROVE  parent' \in [Assets -> Assets \cup {None}] /\ status' \in [Assets -> Statuses]
  BY DEF Write, Inv, TypeOK

LEMMA SaveLinksType ==
  ASSUME Inv, NEW a \in Assets, NEW s \in SUBSET Assets, SaveLinks(a, s)
  PROVE  links' \in SUBSET (Assets \X Assets)
  BY DEF SaveLinks, Inv, TypeOK

(* The fields of a job that the steps use.                                 *)
LEMMA JobFields ==
  ASSUME Inv, NEW t \in Threads
  PROVE  /\ job[t] \in Jobs
         /\ job[t].asset \in Assets \cup {None}
         /\ job[t].parent \in Assets \cup {None} /\ job[t].sources \in SUBSET Assets
         /\ job[t].want \in Statuses /\ job[t].todo \in [Assets -> Nat]
         /\ job[t].kind \in Kinds /\ job[t].activation \in BOOLEAN
         /\ job[t].result \in [Assets -> {"none", "OK", "refused"}]
         /\ job[t].seen \in SUBSET (Assets \X Assets)
  BY DEF Inv, TypeOK, Jobs

LEMMA OthersKept ==
  ASSUME Inv, UNCHANGED <<licensed, configurable, reply, view, requests>> PROVE Others'
  BY DEF Inv, TypeOK, Others

LEMMA AskInv ==
  ASSUME Inv, NEW t \in Threads, Ask(t)
  PROVE  Inv'
<1> DEFINE store == IF job[t].op = "create" THEN "insert" ELSE "store"
<1>1. Tables' /\ Others'
  BY TablesKept, OthersKept DEF Ask
<1>2. Kept(t) \in Jobs
  <2> DEFINE b == IF t \in Legacy THEN job[t].activation ELSE FALSE
  <2>1. b \in BOOLEAN /\ job[t] \in Jobs /\ "nonactive" \in Statuses
    BY JobFields DEF Statuses
  <2>2. Kept(t) = [job[t] EXCEPT !.want = "nonactive", !.activation = b]
    BY DEF Kept
  <2> HIDE DEF b
  <2> QED
    BY <2>1, <2>2 DEF Jobs
<1>3. store \in PCs /\ store \notin Holding /\ "ko" \in PCs /\ "ko" \notin Holding
  BY DEF PCs, Holding
<1>4. \/ Goto(t, store) /\ UNCHANGED job
      \/ Goto(t, store) /\ Set(t, Kept(t))
      \/ Goto(t, "ko") /\ UNCHANGED job
  BY DEF Ask
<1> HIDE DEF store
<1> QED
  BY <1>1, <1>2, <1>3, <1>4, MoveInv, StepInv

LEMMA InsertInv ==
  ASSUME Inv, NEW t \in Threads, Insert(t)
  PROVE  Inv'
<1>1. Others'
  BY OthersKept DEF Insert
<1>2. ASSUME NEW a \in Assets, rows' = rows \cup {a},
             Write(a, job[t].parent, "nonactive"), SaveLinks(a, job[t].sources),
             Set(t, [job[t] EXCEPT !.asset = a]),
             Goto(t, IF job[t].activation THEN Activation(a) ELSE "finish")
      PROVE  Inv'
  <2> DEFINE l == IF job[t].activation THEN Activation(a) ELSE "finish"
             j == [job[t] EXCEPT !.asset = a]
  <2>1. Tables'
    BY <1>2, JobFields, WriteType, SaveLinksType DEF Tables, Statuses, Inv, TypeOK
  <2>2. l \in PCs
    BY DEF PCs, Activation
  <2>3. j \in Jobs /\ j.asset \in Assets
    BY JobFields DEF Jobs
  <2>4. Goto(t, l) /\ Set(t, j)
    BY <1>2
  <2> HIDE DEF l, j
  <2> QED
    BY <1>1, <2>1, <2>2, <2>3, <2>4, StepInv
<1>3. CASE Goto(t, "ko") /\ UNCHANGED <<db, job>>
  BY <1>1, <1>3, TablesKept, MoveInv DEF PCs, Holding
<1> QED
  BY <1>2, <1>3 DEF Insert

LEMMA StoreInv ==
  ASSUME Inv, NEW t \in Threads, Store(t)
  PROVE  Inv'
<1> DEFINE j == job[t]
           l == IF j.activation THEN Activation(j.asset)
                ELSE IF j.deactivation THEN Deactivation(j.asset) ELSE "finish"
<1>1. Others' /\ rows' \in SUBSET Assets /\ job' = job
  BY OthersKept DEF Store, Inv, TypeOK
<1>2. CASE Storable(j) /\ Write(j.asset, j.parent, j.want) /\ SaveLinks(j.asset, j.sources)
           /\ Goto(t, l)
  <2>1. j.asset \in Assets
    BY <1>2 DEF Storable, CanWrite, Inv, TypeOK
  <2>2. Tables'
    BY <1>1, <1>2, <2>1, JobFields, WriteType, SaveLinksType DEF Tables
  <2>3. l \in PCs
    BY DEF PCs, Activation, Deactivation
  <2> HIDE DEF l
  <2> QED
    BY <1>1, <1>2, <2>1, <2>2, <2>3, MoveInv
<1>3. CASE Goto(t, "ko") /\ UNCHANGED <<parent, status, links>>
  <2>1. Tables'
    BY <1>3, TablesKept DEF db, Store
  <2> QED
    BY <1>1, <1>3, <2>1, MoveInv DEF PCs, Holding
<1> QED
  BY <1>2, <1>3 DEF Store

LEMMA UndoInv ==
  ASSUME Inv, NEW t \in Threads, Undo(t)
  PROVE  Inv'
<1> DEFINE j == job[t]
<1>1. Others' /\ rows' \in SUBSET Assets /\ job' = job /\ Goto(t, "ko")
  BY OthersKept DEF Undo, Inv, TypeOK
<1>2. Tables'
  <2>1. CASE Storable(j) /\ Write(j.asset, j.parent, "nonactive") /\ SaveLinks(j.asset, j.sources)
    <3>1. j.asset \in Assets
      BY <2>1 DEF Storable, CanWrite, Inv, TypeOK
    <3> QED
      BY <1>1, <2>1, <3>1, JobFields, WriteType, SaveLinksType DEF Tables, Statuses
  <2>2. CASE UNCHANGED <<parent, status, links>>
    BY <2>2, TablesKept DEF db, Undo
  <2> QED
    BY <2>1, <2>2 DEF Undo
<1> QED
  BY <1>1, <1>2, MoveInv DEF PCs, Holding

LEMMA ActivateInv ==
  ASSUME Inv, NEW t \in Threads, Activate(t)
  PROVE  Inv'
<1>1. Tables' /\ job' = job /\ UNCHANGED <<configurable, reply, view, requests>>
  BY TablesKept DEF Activate
<1>2. job[t].asset \in Assets
  BY DEF Activate, Holding, Inv, AssetKnown
<1>3. Others'
  BY <1>1, <1>2 DEF Activate, Others, Inv, TypeOK
<1>4. \/ Goto(t, "markActive")
      \/ Goto(t, Activated(job[t]))
  BY DEF Activate
<1>5. Activated(job[t]) \in PCs /\ "markActive" \in PCs
  BY DEF Activated, PCs
<1> QED
  BY <1>1, <1>2, <1>3, <1>4, <1>5, MoveInv

LEMMA DeactivateInv ==
  ASSUME Inv, NEW t \in Threads, Deactivate(t)
  PROVE  Inv'
<1>1. Tables' /\ job' = job /\ UNCHANGED <<configurable, reply, view, requests>>
  BY TablesKept DEF Deactivate
<1>2. job[t].asset \in Assets
  BY DEF Deactivate, Holding, Inv, AssetKnown
<1>3. Others'
  BY <1>1, <1>2 DEF Deactivate, Others, Inv, TypeOK
<1>4. \/ Goto(t, "markNonactive")
      \/ Goto(t, Deactivated(job[t]))
  BY DEF Deactivate
<1>5. Deactivated(job[t]) \in PCs /\ "markNonactive" \in PCs
  BY DEF Deactivated, Erasure, PCs
<1> QED
  BY <1>1, <1>2, <1>3, <1>4, <1>5, MoveInv

(* The Asset object takes a status.                                        *)
LEMMA WantType ==
  ASSUME NEW j \in Jobs, NEW s \in Statuses
  PROVE  /\ [j EXCEPT !.want = s] \in Jobs
         /\ [j EXCEPT !.want = s].asset = j.asset
         /\ [j EXCEPT !.want = s].parent = j.parent
  BY DEF Jobs

LEMMA RefuseType ==
  ASSUME NEW j \in Jobs, j.asset \in Assets
  PROVE  Refuse(j) \in Jobs /\ Refuse(j).asset = j.asset
<1>1. j.result \in [Assets -> {"none", "OK", "refused"}]
  BY DEF Jobs
<1>2. [j.result EXCEPT ![j.asset] = "refused"] \in [Assets -> {"none", "OK", "refused"}]
  BY <1>1
<1>3. Refuse(j) = [j EXCEPT !.result = [j.result EXCEPT ![j.asset] = "refused"]]
  BY DEF Refuse, Jobs
<1> QED
  BY <1>2, <1>3 DEF Jobs

LEMMA GivenUpType ==
  ASSUME Inv, NEW j \in Jobs, j.asset \in Assets
  PROVE  GivenUp(j) \in Jobs /\ GivenUp(j).asset = j.asset
<1>1. [j.todo EXCEPT ![j.asset] = 1] \in [Assets -> Nat]
  BY DEF Jobs
<1>2. LinksTo(j.asset) \in SUBSET (Assets \X Assets)
  BY DEF LinksTo, Inv, TypeOK
<1>3. GivenUp(j) = [j EXCEPT !.op = "delete", !.end = "KO",
                             !.todo = [j.todo EXCEPT ![j.asset] = 1],
                             !.seen = LinksTo(j.asset)]
  BY DEF GivenUp, Jobs
<1> QED
  BY <1>1, <1>2, <1>3, ZenonT(60) DEF Jobs

LEMMA MarkActiveInv ==
  ASSUME Inv, NEW t \in Threads, MarkActive(t)
  PROVE  Inv'
<1> DEFINE j == [job[t] EXCEPT !.want = "active"]
<1>1. Others' /\ rows' \in SUBSET Assets /\ links' \in SUBSET (Assets \X Assets)
  BY OthersKept DEF MarkActive, Inv, TypeOK
<1>2. job[t].asset \in Assets
  BY DEF MarkActive, Holding, Inv, AssetKnown
<1>3. j \in Jobs /\ j.asset = job[t].asset /\ j.parent = job[t].parent
  BY WantType, JobFields DEF Statuses
<1>4. GivenUp(j) \in Jobs /\ GivenUp(j).asset = job[t].asset
  BY <1>2, <1>3, GivenUpType
<1>5. Tables'
  BY <1>1, <1>3, JobFields, WriteType DEF MarkActive, Tables, Statuses, Inv, TypeOK
<1>6. \/ Set(t, j) /\ (Goto(t, Activated(j)) \/ Goto(t, "undo") \/ Goto(t, "ko"))
      \/ Set(t, GivenUp(j)) /\ Goto(t, "unlink")
  BY DEF MarkActive
<1>7. {Activated(j), "ko", "undo", "unlink"} \subseteq PCs
  BY DEF Activated, PCs
<1> HIDE DEF j
<1> QED
  BY <1>1, <1>2, <1>3, <1>4, <1>5, <1>6, <1>7, StepInv

LEMMA MarkNonactiveInv ==
  ASSUME Inv, NEW t \in Threads, MarkNonactive(t)
  PROVE  Inv'
<1> DEFINE j == [job[t] EXCEPT !.want = "nonactive"]
<1>1. Others' /\ rows' \in SUBSET Assets /\ links' \in SUBSET (Assets \X Assets)
  BY OthersKept DEF MarkNonactive, Inv, TypeOK
<1>2. job[t].asset \in Assets
  BY DEF MarkNonactive, Holding, Inv, AssetKnown
<1>3. j \in Jobs /\ j.asset = job[t].asset /\ j.parent = job[t].parent
  BY WantType, JobFields DEF Statuses
<1>4. Refuse(j) \in Jobs /\ Refuse(j).asset = job[t].asset
  BY <1>2, <1>3, RefuseType
<1>5. Tables'
  BY <1>1, <1>3, JobFields, WriteType DEF MarkNonactive, Tables, Statuses, Inv, TypeOK
<1>6. \/ Set(t, j) /\ Goto(t, Deactivated(j))
      \/ Set(t, j) /\ Goto(t, "ko")
      \/ Set(t, Refuse(j)) /\ Goto(t, "next")
  BY DEF MarkNonactive
<1>7. Deactivated(j) \in PCs /\ "ko" \in PCs /\ "next" \in PCs
  BY DEF Deactivated, Erasure, PCs
<1> HIDE DEF j
<1> QED
  BY <1>1, <1>2, <1>3, <1>4, <1>5, <1>6, <1>7, StepInv

LEMMA FinishInv ==
  ASSUME Inv, NEW t \in Threads, Finish(t)
  PROVE  Inv'
<1> DEFINE j == job[t]
           held == j.op = "create" /\ t \in Legacy
<1>1. Tables' /\ UNCHANGED <<licensed, configurable, requests>>
  BY TablesKept DEF Finish
<1>2. j.asset \in Assets
  BY DEF Finish, Holding, Inv, AssetKnown
<1>3. ASSUME view' = [view EXCEPT ![j.asset] = IF held THEN j.want ELSE status[j.asset]],
             Answer(t, "OK")
      PROVE  Inv'
  <2> DEFINE s == IF held THEN j.want ELSE status[j.asset]
  <2>1. s \in Statuses
    <3>1. j.want \in Statuses
      BY JobFields
    <3>2. status[j.asset] \in Statuses
      BY <1>2 DEF Inv, TypeOK
    <3> QED
      BY <3>1, <3>2
  <2>2. view' = [view EXCEPT ![j.asset] = s]
    BY <1>3
  <2>3. view' \in [Assets -> Statuses \cup {"absent"}]
    <3> HIDE DEF s, j
    <3> QED
      BY <2>1, <2>2 DEF Inv, TypeOK
  <2>4. Others'
    BY <1>1, <1>3, <2>3 DEF Others, Answer, Inv, TypeOK
  <2> QED
    BY <1>1, <1>3, <2>4, NoJobType, StepInv DEF Answer, PCs, Holding
<1>4. CASE Goto(t, "ko") /\ UNCHANGED <<job, reply, view>>
  <2>1. Others'
    BY <1>4, OthersKept DEF Finish
  <2> QED
    BY <1>1, <1>4, <2>1, MoveInv DEF PCs, Holding
<1> QED
  BY <1>3, <1>4 DEF Finish

LEMMA KoInv ==
  ASSUME Inv, NEW t \in Threads, Ko(t)
  PROVE  Inv'
<1>1. Tables'
  BY TablesKept DEF Ko
<1>2. Others'
  BY DEF Ko, Answer, Others, Inv, TypeOK
<1> QED
  BY <1>1, <1>2, NoJobType, StepInv DEF Ko, Answer, PCs, Holding

-----------------------------------------------------------------------------
(* The steps of a delete.                                                  *)

LEMMA UnlinkInv ==
  ASSUME Inv, NEW t \in Threads, Unlink(t)
  PROVE  Inv'
<1>1. Others' /\ job' = job
  BY OthersKept DEF Unlink
<1>2. links' \subseteq links
  BY DEF Unlink
<1>3. Tables'
  BY <1>2 DEF Unlink, Tables, Inv, TypeOK
<1>4. Goto(t, "next") \/ Goto(t, "ko")
  BY DEF Unlink
<1> QED
  BY <1>1, <1>3, <1>4, MoveInv DEF PCs, Holding

LEMMA HeldType ==
  ASSUME NEW j \in Jobs, NEW todo \in [Assets -> Nat], NEW d \in Assets, NEW k \in Kinds,
         NEW p \in Assets \cup {None}, NEW w \in Statuses, NEW s \in SUBSET Assets
  PROVE  [j EXCEPT !.todo = todo, !.asset = d, !.kind = k, !.parent = p,
                   !.want = w, !.sources = s] \in Jobs
  BY DEF Jobs

LEMMA TakenType ==
  ASSUME Inv, NEW j \in Jobs, NEW d \in rows, j.todo[d] > 0
  PROVE  Taken(j, d) \in Jobs /\ Taken(j, d).asset = d /\ d \in Assets
<1> DEFINE todo == [j.todo EXCEPT ![d] = j.todo[d] - 1]
           s == {l[1] : l \in LinksTo(d)}
<1>1. d \in Assets
  BY DEF Inv, TypeOK
<1>2. todo \in [Assets -> Nat]
  BY <1>1 DEF Jobs
<1>3. s \in SUBSET Assets
  BY DEF LinksTo, Inv, TypeOK
<1>4. Kind[d] \in Kinds /\ parent[d] \in Assets \cup {None} /\ status[d] \in Statuses
  BY <1>1, TablesAssumption DEF Inv, TypeOK
<1>5. Taken(j, d) = [j EXCEPT !.todo = todo, !.asset = d, !.kind = Kind[d],
                              !.parent = parent[d], !.want = status[d], !.sources = s]
  BY DEF Taken, Jobs
<1> HIDE DEF todo, s
<1>6. [j EXCEPT !.todo = todo, !.asset = d, !.kind = Kind[d],
                !.parent = parent[d], !.want = status[d], !.sources = s] \in Jobs
  BY <1>1, <1>2, <1>3, <1>4, HeldType, Zenon
<1>7. Taken(j, d) \in Jobs
  BY <1>5, <1>6, Zenon
<1>8. Taken(j, d).asset = d
  BY <1>5, SMTT(60) DEF Jobs
<1> QED
  BY <1>1, <1>7, <1>8

LEMMA RemoveInv ==
  ASSUME Inv, NEW t \in Threads, Remove(t)
  PROVE  Inv'
<1>1. Others' /\ Tables'
  BY TablesKept, OthersKept DEF Remove
<1>2. CASE Goto(t, "ko") /\ UNCHANGED job
  BY <1>1, <1>2, MoveInv DEF PCs, Holding
<1>3. ASSUME NEW d \in rows, job[t].todo[d] > 0,
             \/ Set(t, Refuse(Taken(job[t], d))) /\ Goto(t, "next")
             \/ /\ Set(t, Taken(job[t], d))
                /\ Goto(t, IF status[d] = "active" THEN Deactivation(d) ELSE Erasure(Taken(job[t], d)))
      PROVE  Inv'
  <2> DEFINE j == Taken(job[t], d)
             l == IF status[d] = "active" THEN Deactivation(d) ELSE Erasure(j)
  <2>1. j \in Jobs /\ j.asset \in Assets
    BY <1>3, JobFields, TakenType
  <2>2. Refuse(j) \in Jobs
    BY <2>1, RefuseType
  <2>3. l \in PCs /\ "next" \in PCs /\ "next" \notin Holding
    BY DEF Deactivation, Erasure, PCs, Holding
  <2>4. \/ Set(t, Refuse(j)) /\ Goto(t, "next")
        \/ Set(t, j) /\ Goto(t, l)
    BY <1>3
  <2> HIDE DEF j, l
  <2> QED
    BY <1>1, <2>1, <2>2, <2>3, <2>4, StepInv
<1> QED
  BY <1>2, <1>3 DEF Remove

LEMMA DroppedType ==
  ASSUME NEW j \in Jobs, j.asset \in Assets
  PROVE  [j EXCEPT !.result[j.asset] = "OK"] \in Jobs
<1>1. [j.result EXCEPT ![j.asset] = "OK"] \in [Assets -> {"none", "OK", "refused"}]
  BY DEF Jobs
<1>2. [j EXCEPT !.result[j.asset] = "OK"] = [j EXCEPT !.result = [j.result EXCEPT ![j.asset] = "OK"]]
  BY DEF Jobs
<1> QED
  BY <1>1, <1>2 DEF Jobs

LEMMA ErasureInv ==
  ASSUME Inv, NEW t \in Threads, Count(t) \/ Drop(t)
  PROVE  Inv'
<1> DEFINE j == job[t]
           d == j.asset
           l == IF j.want = "active" THEN Activation(d) ELSE "next"
<1>1. Others'
  BY OthersKept DEF Count, Drop
<1>2. d \in Assets /\ j \in Jobs
  BY JobFields DEF Count, Drop, Holding, Inv, AssetKnown
<1>3. ASSUME rows' = rows \ {d}, Write(d, None, "nonactive"), links' = links \ LinksTo(d),
             Set(t, [j EXCEPT !.result[d] = "OK"]), Goto(t, "next")
      PROVE  Inv'
  <2>1. Tables'
    BY <1>3, WriteType DEF Tables, Statuses, Inv, TypeOK
  <2>2. [j EXCEPT !.result[d] = "OK"] \in Jobs
    BY <1>2, DroppedType
  <2> QED
    BY <1>1, <1>3, <2>1, <2>2, StepInv DEF PCs, Holding
<1>4. ASSUME Set(t, Refuse(j)), Goto(t, l), UNCHANGED db
      PROVE  Inv'
  <2>1. Refuse(j) \in Jobs /\ Refuse(j).asset \in Assets
    BY <1>2, RefuseType
  <2>2. l \in PCs
    BY DEF PCs, Activation
  <2>3. Tables'
    BY <1>4, TablesKept
  <2> HIDE DEF l, j
  <2> QED
    BY <1>1, <1>4, <2>1, <2>2, <2>3, StepInv
<1>5. CASE Goto(t, "drop") /\ UNCHANGED job /\ UNCHANGED db
  BY <1>1, <1>2, <1>5, TablesKept, MoveInv DEF PCs
<1> QED
  BY <1>3, <1>4, <1>5 DEF Count, Drop, Refused

LEMMA ReportInv ==
  ASSUME Inv, NEW t \in Threads, Report(t)
  PROVE  Inv'
<1>1. Tables'
  BY TablesKept DEF Report
<1>2. Others'
  BY DEF Report, Notified, Answer, Others, Inv, TypeOK
<1>3. \/ Goto(t, "idle") /\ Set(t, NoJob)
      \/ Goto(t, "ko") /\ UNCHANGED job
  BY DEF Report, Answer
<1> QED
  BY <1>1, <1>2, <1>3, NoJobType, StepInv, MoveInv DEF PCs, Holding

LEMMA StepsInv ==
  ASSUME Inv, NEW t \in Threads, Step(t)
  PROVE  Inv'
  BY AskInv, InsertInv, StoreInv, UndoInv, ActivateInv, MarkActiveInv, DeactivateInv,
     MarkNonactiveInv, FinishInv, UnlinkInv, RemoveInv, ErasureInv, ReportInv, KoInv DEF Step

LEMMA NextInv == Inv /\ [Next]_vars => Inv'
<1> SUFFICES ASSUME Inv, [Next]_vars PROVE Inv'
  OBVIOUS
<1>1. CASE HandleIncomingLimitations
  BY <1>1 DEF HandleIncomingLimitations, db, Inv, TypeOK, AssetKnown
<1>2. ASSUME NEW t \in Threads, Request(t) PROVE Inv'
  BY <1>2, RequestInv
<1>3. ASSUME NEW t \in Threads, Step(t) PROVE Inv'
  BY <1>3, StepsInv
<1>4. CASE UNCHANGED vars
  BY <1>4 DEF vars, Inv, TypeOK, AssetKnown
<1> QED
  BY <1>1, <1>2, <1>3, <1>4 DEF Next

(* Whatever the requests and their interleaving, the tables, the Asset     *)
(* objects the handlers hold, the credits and the answers stay well formed.*)
THEOREM TypeCorrect == Spec => []TypeOK
<1>1. Inv => TypeOK
  BY DEF Inv
<1> QED
  BY InitInv, NextInv, <1>1, PTL DEF Spec

-----------------------------------------------------------------------------
(* No dangling reference.  The two ways a handler writes, and the one that *)
(* removes, each keep the references on their own: an insert or an update  *)
(* looks up the parent and the sources in the transaction that writes, and *)
(* a removal has looked for children and for links.                        *)
LEMMA WriteKeeps ==
  ASSUME Inv, NoDanglingReference, NEW a \in Assets, NEW p \in Assets \cup {None},
         NEW s \in Statuses, Write(a, p, s), rows \subseteq rows',
         a \in rows', p \in rows \cup {None}
  PROVE  \A b \in Assets : parent'[b] # None => b \in rows' /\ parent'[b] \in rows'
  BY DEF Write, Inv, TypeOK, NoDanglingReference

LEMMA LinksKeep ==
  ASSUME Inv, NoDanglingReference, NEW a \in Assets, NEW s \in SUBSET rows,
         SaveLinks(a, s), rows \subseteq rows', a \in rows'
  PROVE  \A l \in links' : l[1] \in rows' /\ l[2] \in rows'
  BY DEF SaveLinks, NoDanglingReference

LEMMA DropKeeps ==
  ASSUME Inv, NoDanglingReference, NEW d \in Assets, NEW s,
         Droppable(d, s), rows' = rows \ {d}, Write(d, None, "nonactive"),
         links' = links \ LinksTo(d)
  PROVE  NoDanglingReference'
<1>1. \A b \in Assets : parent'[b] # None => b \in rows' /\ parent'[b] \in rows'
  <2> SUFFICES ASSUME NEW b \in Assets, parent'[b] # None
               PROVE  b \in rows' /\ parent'[b] \in rows'
    OBVIOUS
  <2>1. b # d /\ parent'[b] = parent[b]
    BY DEF Write, Inv, TypeOK
  <2>2. b \in rows /\ parent[b] \in rows
    BY <2>1 DEF NoDanglingReference
  <2>3. parent[b] # d
    BY <2>2 DEF Droppable, Children
  <2> QED
    BY <2>1, <2>2, <2>3
<1>2. \A l \in links' : l[1] \in rows' /\ l[2] \in rows'
  BY DEF Droppable, HasLinkedAssets, LinksTo, NoDanglingReference
<1> QED
  BY <1>1, <1>2 DEF NoDanglingReference

LEMMA InsertKeeps ==
  ASSUME Inv, NoDanglingReference, NEW t \in Threads, Insert(t)
  PROVE  NoDanglingReference'
<1>1. ASSUME NEW a \in Assets, Insertable(a, job[t]), rows' = rows \cup {a},
             Write(a, job[t].parent, "nonactive"), SaveLinks(a, job[t].sources)
      PROVE  NoDanglingReference'
  <2>1. job[t].parent \in rows \cup {None} /\ job[t].sources \subseteq rows
    BY <1>1 DEF Insertable
  <2> QED
    BY <1>1, <2>1, JobFields, WriteKeeps, LinksKeep DEF Statuses, NoDanglingReference
<1>2. CASE UNCHANGED db
  BY <1>2 DEF db, NoDanglingReference
<1> QED
  BY <1>1, <1>2 DEF Insert

LEMMA StoredKeeps ==
  ASSUME Inv, NoDanglingReference, NEW j \in Jobs, NEW s \in Statuses,
         Storable(j), Write(j.asset, j.parent, s), SaveLinks(j.asset, j.sources), rows' = rows
  PROVE  NoDanglingReference'
<1>1. j.asset \in Assets /\ j.asset \in rows /\ j.parent \in rows \cup {None}
      /\ j.parent \in Assets \cup {None} /\ j.sources \in SUBSET rows
  BY DEF Storable, CanWrite, Jobs, Inv, TypeOK
<1> QED
  BY <1>1, WriteKeeps, LinksKeep DEF NoDanglingReference

LEMMA StoreKeeps ==
  ASSUME Inv, NoDanglingReference, NEW t \in Threads, Store(t)
  PROVE  NoDanglingReference'
<1>1. CASE UNCHANGED <<parent, status, links>>
  BY <1>1 DEF Store, NoDanglingReference
<1>2. CASE Storable(job[t]) /\ Write(job[t].asset, job[t].parent, job[t].want)
           /\ SaveLinks(job[t].asset, job[t].sources)
  <2>1. rows' = rows
    BY DEF Store
  <2> QED
    BY <1>2, <2>1, JobFields, StoredKeeps
<1> QED
  BY <1>1, <1>2 DEF Store

LEMMA UndoKeeps ==
  ASSUME Inv, NoDanglingReference, NEW t \in Threads, Undo(t)
  PROVE  NoDanglingReference'
<1>1. CASE UNCHANGED <<parent, status, links>>
  BY <1>1 DEF Undo, NoDanglingReference
<1>2. CASE Storable(job[t]) /\ Write(job[t].asset, job[t].parent, "nonactive")
           /\ SaveLinks(job[t].asset, job[t].sources)
  <2>1. rows' = rows /\ "nonactive" \in Statuses
    BY DEF Undo, Statuses
  <2> QED
    BY <1>2, <2>1, JobFields, StoredKeeps
<1> QED
  BY <1>1, <1>2 DEF Undo

(* activate() and deactivate() update the row of the asset they hold.      *)
LEMMA MarkKeeps ==
  ASSUME Inv, NoDanglingReference, NEW t \in Threads, MarkActive(t) \/ MarkNonactive(t)
  PROVE  NoDanglingReference'
<1>1. rows' = rows /\ links' = links
  BY DEF MarkActive, MarkNonactive
<1>2. CASE UNCHANGED <<parent, status>>
  BY <1>1, <1>2 DEF NoDanglingReference
<1>3. ASSUME NEW s \in Statuses, CanWrite(job[t].asset, job[t].parent),
             Write(job[t].asset, job[t].parent, s)
      PROVE  NoDanglingReference'
  <2>1. job[t].asset \in rows /\ job[t].asset \in Assets /\ job[t].parent \in rows \cup {None}
    BY <1>3 DEF CanWrite, Inv, TypeOK
  <2> QED
    BY <1>1, <1>3, <2>1, JobFields, WriteKeeps DEF NoDanglingReference
<1>4. /\ [job[t] EXCEPT !.want = "active"].asset = job[t].asset
      /\ [job[t] EXCEPT !.want = "active"].parent = job[t].parent
      /\ [job[t] EXCEPT !.want = "nonactive"].asset = job[t].asset
      /\ [job[t] EXCEPT !.want = "nonactive"].parent = job[t].parent
  BY WantType, JobFields DEF Statuses
<1>5. CASE MarkActive(t)
  BY <1>2, <1>3, <1>4, <1>5 DEF MarkActive, Statuses
<1>6. CASE MarkNonactive(t)
  BY <1>2, <1>3, <1>4, <1>6 DEF MarkNonactive, Statuses
<1> QED
  BY <1>5, <1>6

LEMMA DropStepKeeps ==
  ASSUME Inv, NoDanglingReference, NEW t \in Threads, Drop(t)
  PROVE  NoDanglingReference'
<1>1. CASE UNCHANGED db
  BY <1>1 DEF db, NoDanglingReference
<1>2. CASE /\ Droppable(job[t].asset, job[t].sources)
           /\ rows' = rows \ {job[t].asset}
           /\ Write(job[t].asset, None, "nonactive")
           /\ links' = links \ LinksTo(job[t].asset)
  <2>1. job[t].asset \in Assets
    BY <1>2 DEF Droppable, Inv, TypeOK
  <2> QED
    BY <1>2, <2>1, DropKeeps
<1> QED
  BY <1>1, <1>2 DEF Drop

LEMMA UnlinkKeeps ==
  ASSUME NoDanglingReference, NEW t \in Threads, Unlink(t)
  PROVE  NoDanglingReference'
<1>1. links' \subseteq links /\ rows' = rows /\ parent' = parent
  BY DEF Unlink
<1> QED
  BY <1>1 DEF NoDanglingReference

LEMMA ReferencesNext == Inv /\ NoDanglingReference /\ [Next]_vars => NoDanglingReference'
<1> SUFFICES ASSUME Inv, NoDanglingReference, [Next]_vars PROVE NoDanglingReference'
  OBVIOUS
<1>1. CASE UNCHANGED db
  BY <1>1 DEF db, NoDanglingReference
<1>2. HandleIncomingLimitations \/ UNCHANGED vars => UNCHANGED db
  BY DEF HandleIncomingLimitations, vars, db
<1>3. ASSUME NEW t \in Threads, Request(t) PROVE UNCHANGED db
  BY <1>3 DEF Request, CreateAsset, UpdateAsset, DeleteAsset, Reset, db
<1>4. ASSUME NEW t \in Threads, Step(t) PROVE NoDanglingReference'
  <2>1. \/ Ask(t) \/ Activate(t) \/ Deactivate(t) \/ Finish(t)
        \/ Remove(t) \/ Count(t) \/ Report(t) \/ Ko(t)
        => UNCHANGED db
    BY DEF Ask, Activate, Deactivate, Finish, Remove, Count, Report, Ko, db
  <2> QED
    BY <1>1, <1>4, <2>1, InsertKeeps, StoreKeeps, UndoKeeps, MarkKeeps, DropStepKeeps,
       UnlinkKeeps DEF Step
<1> QED
  BY <1>1, <1>2, <1>3, <1>4 DEF Next

(* Whatever the threads interleave, no parent and no link names a row that *)
(* is not there (insert, update, saveLinkedAssets, remove).                *)
THEOREM References == Spec => []NoDanglingReference
<1>1. Init => NoDanglingReference
  BY DEF Init, Consistent, NoDanglingReference
<1> QED
  BY InitInv, NextInv, <1>1, ReferencesNext, PTL DEF Spec

-----------------------------------------------------------------------------
(* What a thread does fits its request: only an update stores, only a      *)
(* delete removes, and a create that has turned into the deletion of its   *)
(* asset has nothing else on its list.                                     *)
Fits(p, j) ==
  /\ p # "idle" => j.op \in {"create", "update", "delete"}
  /\ j.end = "KO" => /\ j.op = "delete" /\ j.asset \in Assets
                     /\ \A d \in Assets : j.todo[d] > 0 => d = j.asset
                     /\ \A l \in j.seen : l[2] = j.asset
  /\ p = "insert" => j.op = "create"
  /\ p = "ask" => j.op \in {"create", "update"}
  /\ p \in {"ask", "insert"} /\ j.op = "create" => j.asset = None
  /\ p \in {"store", "undo"} => j.op = "update"
  /\ p = "finish" => j.op \in {"create", "update"}
  /\ p \in {"unlink", "next", "count", "drop"} => j.op = "delete"
  /\ p \in Holding /\ j.op = "delete" => j.asset # RC0
  /\ p = "count" => Location(j.asset)
  /\ j.op = "create" => /\ p \in {"ask", "insert", "activate", "markActive", "finish", "ko"}
                        /\ \A d \in Assets : j.todo[d] = 0
EachFits == \A t \in Threads : Fits(pc[t], job[t])

(* Alone, a thread finds the tables as it left them: the row it has made   *)
(* with its parent, and the row of an asset to remove as it read it.       *)
Undisturbed(there, above, p, j) ==
  /\ j.end # "KO"
  /\ p = "ko" /\ j.op = "create" => j.asset = None
  /\ p \in Holding /\ j.op = "create" =>
       j.asset \in there /\ j.parent # j.asset /\ j.parent \in there \cup {None}
  /\ p \in Holding /\ j.op = "delete" => above[j.asset] = j.parent
AloneUndisturbed ==
  \A t \in Threads : Threads = {t} => Undisturbed(rows, parent, pc[t], job[t])

RInv == Inv /\ NoDanglingReference /\ EachFits /\ AloneUndisturbed

-----------------------------------------------------------------------------
(* A step of one thread.                                                   *)
LEMMA StepFits ==
  ASSUME Inv, EachFits, NEW t \in Threads, NEW l, NEW j, Goto(t, l), Set(t, j), Fits(l, j)
  PROVE  EachFits'
  BY DEF Inv, TypeOK, EachFits, Goto, Set

LEMMA MoveFits ==
  ASSUME Inv, EachFits, NEW t \in Threads, NEW l, Goto(t, l), job' = job, Fits(l, job[t])
  PROVE  EachFits'
  BY DEF Inv, TypeOK, EachFits, Goto

LEMMA RequestFits ==
  ASSUME Inv, EachFits, NEW t \in Threads, Request(t)
  PROVE  EachFits'
<1>1. ASSUME NEW k, NEW p, NEW w, NEW try, NEW s, CreateAsset(t, k, p, w, try, s)
      PROVE  EachFits'
  <2> DEFINE l == IF ~configurable THEN "ko"
                  ELSE IF w = "active" \/ t \in Legacy THEN "ask" ELSE "insert"
             j == CreateJob(k, p, w, try, s)
  <2>1. Goto(t, l) /\ Set(t, j)
    BY <1>1 DEF CreateAsset, Receive
  <2>2. j.op = "create" /\ j.end = "notify" /\ j.asset = None /\ \A d \in Assets : j.todo[d] = 0
    BY DEF CreateJob, NoJob
  <2>3. Fits(l, j)
    BY <2>2 DEF Fits, Holding
  <2> QED
    BY <2>1, <2>3, StepFits
<1>2. ASSUME NEW a, NEW p, NEW w, NEW try, NEW s, UpdateAsset(t, a, p, w, try, s)
      PROVE  EachFits'
  <2> DEFINE l == IF ~configurable \/ a \notin rows THEN "ko"
                  ELSE IF Rises(a, w) \/ t \in Legacy THEN "ask" ELSE "store"
             j == UpdateJob(a, p, w, try, IF t \in Legacy THEN {x[1] : x \in LinksTo(a)} ELSE s)
  <2>1. Goto(t, l) /\ Set(t, j)
    BY <1>2 DEF UpdateAsset, Receive
  <2>2. j.op = "update" /\ j.end = "notify"
    BY DEF UpdateJob, NoJob
  <2>3. Fits(l, j)
    BY <2>2 DEF Fits, Holding
  <2> QED
    BY <2>1, <2>3, StepFits
<1>3. ASSUME NEW l \in {"unlink", "ko"}, NEW todo, NEW end \in {"notify", "silent"}, NEW last,
             Goto(t, l), Set(t, DeleteJob(todo, end, last))
      PROVE  EachFits'
  <2> DEFINE j == DeleteJob(todo, end, last)
  <2>1. j.op = "delete" /\ j.end # "KO"
    BY DEF DeleteJob, NoJob
  <2>2. Fits(l, j)
    BY <2>1 DEF Fits, Holding
  <2> QED
    BY <1>3, <2>2, StepFits
<1>4. ASSUME NEW list, NEW recursive, DeleteAsset(t, list, recursive)
      PROVE  EachFits'
  BY <1>3, <1>4 DEF DeleteAsset, Receive
<1>5. ASSUME Reset(t)
      PROVE  EachFits'
  BY <1>3, <1>5 DEF Reset, Receive
<1> QED
  BY <1>1, <1>2, <1>4, <1>5, Zenon DEF Request

(* What the parts of a job that change leave of it.                        *)
LEMMA KeptFields ==
  ASSUME NEW t \in Threads, job[t] \in Jobs
  PROVE  /\ Kept(t).op = job[t].op /\ Kept(t).end = job[t].end /\ Kept(t).asset = job[t].asset
         /\ Kept(t).todo = job[t].todo /\ Kept(t).seen = job[t].seen
         /\ Kept(t).parent = job[t].parent
  BY DEF Kept, Jobs

LEMMA WantFields ==
  ASSUME NEW j \in Jobs, NEW w
  PROVE  LET k == [j EXCEPT !.want = w]
         IN  /\ k.op = j.op /\ k.end = j.end /\ k.asset = j.asset /\ k.todo = j.todo
             /\ k.seen = j.seen /\ k.parent = j.parent
  BY DEF Jobs

LEMMA RefuseFields ==
  ASSUME NEW j \in Jobs
  PROVE  /\ Refuse(j).op = j.op /\ Refuse(j).end = j.end /\ Refuse(j).asset = j.asset
         /\ Refuse(j).todo = j.todo /\ Refuse(j).seen = j.seen /\ Refuse(j).parent = j.parent
  BY DEF Refuse, Jobs

LEMMA DroppedFields ==
  ASSUME NEW j \in Jobs
  PROVE  LET k == [j EXCEPT !.result[j.asset] = "OK"]
         IN  /\ k.op = j.op /\ k.end = j.end /\ k.asset = j.asset /\ k.todo = j.todo
             /\ k.seen = j.seen /\ k.parent = j.parent
  BY DEF Jobs

LEMMA TakenFields ==
  ASSUME Inv, NEW j \in Jobs, NEW d \in rows, j.todo[d] > 0
  PROVE  /\ Taken(j, d).op = j.op /\ Taken(j, d).end = j.end /\ Taken(j, d).asset = d
         /\ Taken(j, d).seen = j.seen /\ Taken(j, d).parent = parent[d]
         /\ \A e \in Assets : Taken(j, d).todo[e] > 0 => j.todo[e] > 0
<1>1. d \in Assets /\ j.todo \in [Assets -> Nat]
  BY DEF Inv, TypeOK, Jobs
<1>2. \A e \in Assets : [j.todo EXCEPT ![d] = @ - 1][e] > 0 => j.todo[e] > 0
  BY <1>1
<1>3. Taken(j, d).todo = [j.todo EXCEPT ![d] = @ - 1]
  BY DEF Taken, Jobs
<1>4. /\ Taken(j, d).op = j.op /\ Taken(j, d).end = j.end /\ Taken(j, d).asset = d
      /\ Taken(j, d).seen = j.seen /\ Taken(j, d).parent = parent[d]
  BY DEF Taken, Jobs
<1> QED
  BY <1>2, <1>3, <1>4

LEMMA GivenUpFields ==
  ASSUME NEW j \in Jobs
  PROVE  /\ GivenUp(j).op = "delete" /\ GivenUp(j).end = "KO" /\ GivenUp(j).asset = j.asset
         /\ GivenUp(j).todo = [j.todo EXCEPT ![j.asset] = 1]
         /\ GivenUp(j).seen = LinksTo(j.asset)
  BY DEF GivenUp, Jobs

-----------------------------------------------------------------------------
(* Each step of a handler leaves a job that fits where it has got to.      *)
LEMMA AskFits ==
  ASSUME Inv, EachFits, NEW t \in Threads, Ask(t)
  PROVE  EachFits'
<1> DEFINE store == IF job[t].op = "create" THEN "insert" ELSE "store"
<1>1. \/ Goto(t, store) /\ UNCHANGED job
      \/ Goto(t, store) /\ Set(t, Kept(t))
      \/ Goto(t, "ko") /\ UNCHANGED job
  BY DEF Ask
<1>2. Fits("ask", job[t]) /\ job[t] \in Jobs
  BY JobFields DEF EachFits, Ask
<1>3. \A l \in {store, "ko"} : Fits(l, job[t]) /\ Fits(l, Kept(t))
  BY <1>2, KeptFields DEF Fits, Holding
<1> HIDE DEF store
<1> QED
  BY <1>1, <1>3, StepFits, MoveFits

LEMMA InsertFits ==
  ASSUME Inv, EachFits, NEW t \in Threads, Insert(t)
  PROVE  EachFits'
<1>1. Fits("insert", job[t]) /\ job[t] \in Jobs
  BY JobFields DEF EachFits, Insert
<1>2. ASSUME NEW a \in Assets, NEW l \in {"activate", "markActive", "finish"}, Goto(t, l),
             Set(t, [job[t] EXCEPT !.asset = a])
      PROVE  EachFits'
  <2> DEFINE j == [job[t] EXCEPT !.asset = a]
  <2>1. j.op = job[t].op /\ j.end = job[t].end /\ j.todo = job[t].todo
    BY <1>1 DEF Jobs
  <2>2. Fits(l, j)
    BY <1>1, <2>1 DEF Fits
  <2> QED
    BY <1>2, <2>2, StepFits
<1>3. CASE Goto(t, "ko") /\ UNCHANGED job
  <2>1. Fits("ko", job[t])
    BY <1>1 DEF Fits, Holding
  <2> QED
    BY <1>3, <2>1, MoveFits
<1> QED
  BY <1>2, <1>3 DEF Insert, Activation

LEMMA StoreFits ==
  ASSUME Inv, EachFits, NEW t \in Threads, Store(t) \/ Undo(t)
  PROVE  EachFits'
<1>1. job[t].op = "update" /\ Fits(pc[t], job[t]) /\ job' = job
  BY DEF EachFits, Fits, Store, Undo
<1>2. PICK l \in {"activate", "markActive", "deactivate", "markNonactive", "finish", "ko"} :
        Goto(t, l)
  BY DEF Store, Undo, Activation, Deactivation
<1>3. Fits(l, job[t])
  BY <1>1 DEF Fits
<1> QED
  BY <1>1, <1>2, <1>3, MoveFits

LEMMA CreditFits ==
  ASSUME Inv, EachFits, NEW t \in Threads, Activate(t) \/ Deactivate(t)
  PROVE  EachFits'
<1>1. Fits(pc[t], job[t]) /\ job' = job
  BY DEF EachFits, Activate, Deactivate
<1>2. CASE Activate(t)
  <2>1. pc[t] = "activate" /\ (Goto(t, "markActive") \/ Goto(t, Activated(job[t])))
    BY <1>2 DEF Activate
  <2>2. Fits("markActive", job[t]) /\ Fits(Activated(job[t]), job[t])
    BY <1>1, <2>1 DEF Fits, Activated, Holding
  <2> QED
    BY <1>1, <2>1, <2>2, MoveFits
<1>3. CASE Deactivate(t)
  <2>1. pc[t] = "deactivate" /\ (Goto(t, "markNonactive") \/ Goto(t, Deactivated(job[t])))
    BY <1>3 DEF Deactivate
  <2>2. Fits("markNonactive", job[t]) /\ Fits(Deactivated(job[t]), job[t])
    BY <1>1, <2>1 DEF Fits, Deactivated, Erasure, Holding
  <2> QED
    BY <1>1, <2>1, <2>2, MoveFits
<1> QED
  BY <1>2, <1>3

LEMMA MarkActiveFits ==
  ASSUME Inv, EachFits, NEW t \in Threads, MarkActive(t)
  PROVE  EachFits'
<1> DEFINE j == [job[t] EXCEPT !.want = "active"]
<1>1. Fits("markActive", job[t]) /\ job[t] \in Jobs /\ job[t].asset \in Assets
  BY JobFields DEF EachFits, MarkActive, Holding, Inv, AssetKnown
<1>2. j \in Jobs /\ Fits("markActive", j) /\ j.asset \in Assets
  BY <1>1, WantType, WantFields DEF Fits, Statuses
<1>3. \/ Set(t, j) /\ Goto(t, Activated(j))
      \/ Set(t, j) /\ j.op = "update" /\ Goto(t, "undo")
      \/ Set(t, j) /\ j.op = "create" /\ Goto(t, "ko")
      \/ Set(t, GivenUp(j)) /\ j.op = "create" /\ Goto(t, "unlink")
  BY DEF MarkActive
<1> HIDE DEF j
<1>4. Fits(Activated(j), j)
  BY <1>2 DEF Fits, Activated, Holding
<1>5. j.op = "update" => Fits("undo", j)
  BY <1>2 DEF Fits, Holding
<1>6. j.op = "create" => Fits("ko", j)
  BY <1>2 DEF Fits, Holding
<1>7. j.op = "create" => Fits("unlink", GivenUp(j))
  <2>1. \A l \in LinksTo(j.asset) : l[2] = j.asset
    BY DEF LinksTo
  <2>2. j.op = "create" => \A d \in Assets : [j.todo EXCEPT ![j.asset] = 1][d] > 0 => d = j.asset
    BY <1>2 DEF Fits, Jobs
  <2> QED
    BY <1>2, <2>1, <2>2, GivenUpFields DEF Fits, Holding
<1> QED
  BY <1>3, <1>4, <1>5, <1>6, <1>7, StepFits

LEMMA MarkNonactiveFits ==
  ASSUME Inv, EachFits, NEW t \in Threads, MarkNonactive(t)
  PROVE  EachFits'
<1> DEFINE j == [job[t] EXCEPT !.want = "nonactive"]
<1>1. Fits("markNonactive", job[t]) /\ job[t] \in Jobs
  BY JobFields DEF EachFits, MarkNonactive
<1>2. j \in Jobs /\ Fits("markNonactive", j)
  BY <1>1, WantType, WantFields DEF Fits, Statuses
<1>3. \/ Set(t, j) /\ Goto(t, Deactivated(j))
      \/ Set(t, j) /\ j.op = "update" /\ Goto(t, "ko")
      \/ Set(t, Refuse(j)) /\ j.op = "delete" /\ Goto(t, "next")
  BY DEF MarkNonactive
<1> HIDE DEF j
<1>4. Fits(Deactivated(j), j)
  BY <1>2 DEF Fits, Deactivated, Erasure, Holding
<1>5. j.op = "update" => Fits("ko", j)
  BY <1>2 DEF Fits, Holding
<1>6. j.op = "delete" => Fits("next", Refuse(j))
  BY <1>2, RefuseFields DEF Fits, Holding
<1> QED
  BY <1>3, <1>4, <1>5, <1>6, StepFits

LEMMA AnswerFits ==
  ASSUME Inv, EachFits, NEW t \in Threads, Finish(t) \/ Ko(t) \/ Report(t)
  PROVE  EachFits'
<1>1. \/ Goto(t, "idle") /\ Set(t, NoJob)
      \/ Goto(t, "ko") /\ UNCHANGED job /\ pc[t] \in {"finish", "next"}
  BY DEF Finish, Ko, Report, Answer
<1>2. Fits("idle", NoJob)
  BY DEF Fits, NoJob, Holding
<1>3. pc[t] \in {"finish", "next"} => Fits("ko", job[t])
  BY DEF EachFits, Fits, Holding
<1> QED
  BY <1>1, <1>2, <1>3, StepFits, MoveFits

LEMMA UnlinkFits ==
  ASSUME Inv, EachFits, NEW t \in Threads, Unlink(t)
  PROVE  EachFits'
<1>1. job' = job /\ (Goto(t, "next") \/ Goto(t, "ko"))
  BY DEF Unlink
<1>2. Fits("next", job[t]) /\ Fits("ko", job[t])
  BY DEF EachFits, Fits, Unlink, Holding
<1> QED
  BY <1>1, <1>2, MoveFits

LEMMA RemoveFits ==
  ASSUME Inv, EachFits, NEW t \in Threads, Remove(t)
  PROVE  EachFits'
<1>1. Fits("next", job[t]) /\ job[t] \in Jobs
  BY JobFields DEF EachFits, Remove
<1>2. CASE Goto(t, "ko") /\ UNCHANGED job
  <2>1. Fits("ko", job[t])
    BY <1>1 DEF Fits, Holding
  <2> QED
    BY <1>2, <2>1, MoveFits
<1>3. ASSUME NEW d \in rows, job[t].todo[d] > 0,
             \/ Set(t, Refuse(Taken(job[t], d))) /\ Goto(t, "next")
             \/ /\ Removable(d) /\ Set(t, Taken(job[t], d))
                /\ Goto(t, IF status[d] = "active" THEN Deactivation(d) ELSE Erasure(Taken(job[t], d)))
      PROVE  EachFits'
  <2> DEFINE j == Taken(job[t], d)
             l == IF status[d] = "active" THEN Deactivation(d) ELSE Erasure(j)
  <2>1. d \in Assets
    BY DEF Inv, TypeOK
  <2>2. j \in Jobs
    BY <1>1, <1>3, TakenType
  <2>3. /\ j.op = "delete" /\ j.asset = d
        /\ j.end = "KO" => job[t].end = "KO" /\ d = job[t].asset
        /\ j.seen = job[t].seen
        /\ \A e \in Assets : j.todo[e] > 0 => job[t].todo[e] > 0
    BY <1>1, <1>3, <2>1, TakenFields DEF Fits
  <2> HIDE DEF j
  <2>4. Fits("next", j)
    BY <1>1, <2>1, <2>3 DEF Fits, Holding
  <2>5. Fits("next", Refuse(j))
    BY <2>2, <2>4, RefuseFields DEF Fits, Holding
  <2>6. Removable(d) => Fits(l, j)
    BY <2>3, <2>4 DEF Fits, Holding, Removable, Deactivation, Erasure
  <2>7. \/ Set(t, Refuse(j)) /\ Goto(t, "next")
        \/ Removable(d) /\ Set(t, j) /\ Goto(t, l)
    BY <1>3 DEF j
  <2> HIDE DEF l
  <2> QED
    BY <2>5, <2>6, <2>7, StepFits
<1> QED
  BY <1>2, <1>3 DEF Remove

LEMMA ErasureFits ==
  ASSUME Inv, EachFits, NEW t \in Threads, Count(t) \/ Drop(t)
  PROVE  EachFits'
<1> DEFINE j == job[t]
           d == j.asset
           l == IF j.want = "active" THEN Activation(d) ELSE "next"
<1>1. Fits("drop", j) /\ j \in Jobs
  BY JobFields DEF EachFits, Fits, Holding, Count, Drop
<1>2. ASSUME Set(t, [j EXCEPT !.result[d] = "OK"]), Goto(t, "next")
      PROVE  EachFits'
  <2>1. Fits("next", [j EXCEPT !.result[d] = "OK"])
    BY <1>1, DroppedFields DEF Fits, Holding
  <2> QED
    BY <1>2, <2>1, StepFits
<1>3. ASSUME Set(t, Refuse(j)), Goto(t, l)
      PROVE  EachFits'
  <2>1. Fits(l, Refuse(j))
    BY <1>1, RefuseFields DEF Fits, Holding, Activation
  <2> HIDE DEF l, j
  <2> QED
    BY <1>3, <2>1, StepFits
<1>4. CASE Goto(t, "drop") /\ UNCHANGED job
  BY <1>1, <1>4, MoveFits
<1> QED
  BY <1>2, <1>3, <1>4 DEF Count, Drop, Refused

LEMMA NextFits ==
  ASSUME Inv, EachFits, [Next]_vars
  PROVE  EachFits'
<1>1. HandleIncomingLimitations \/ UNCHANGED vars => EachFits'
  BY DEF HandleIncomingLimitations, vars, EachFits
<1>2. ASSUME NEW t \in Threads, Step(t)
      PROVE  EachFits'
  BY <1>2, AskFits, InsertFits, StoreFits, CreditFits, MarkActiveFits, MarkNonactiveFits,
     AnswerFits, UnlinkFits, RemoveFits, ErasureFits DEF Step
<1> QED
  BY <1>1, <1>2, RequestFits DEF Next

-----------------------------------------------------------------------------
(* A thread that is alone.                                                 *)
LEMMA StepAlone ==
  ASSUME Inv, NEW t \in Threads, Threads = {t}, NEW l, NEW j, Goto(t, l), Set(t, j),
         Undisturbed(rows', parent', l, j)
  PROVE  AloneUndisturbed'
  BY DEF Inv, TypeOK, AloneUndisturbed, Goto, Set

LEMMA MoveAlone ==
  ASSUME Inv, NEW t \in Threads, Threads = {t}, NEW l, Goto(t, l), job' = job,
         Undisturbed(rows', parent', l, job[t])
  PROVE  AloneUndisturbed'
  BY DEF Inv, TypeOK, AloneUndisturbed, Goto

LEMMA RequestAlone ==
  ASSUME Inv, NEW t \in Threads, Threads = {t}, Request(t)
  PROVE  AloneUndisturbed'
<1>1. ASSUME NEW k, NEW p, NEW w, NEW try, NEW s, CreateAsset(t, k, p, w, try, s)
      PROVE  AloneUndisturbed'
  <2> DEFINE l == IF ~configurable THEN "ko"
                  ELSE IF w = "active" \/ t \in Legacy THEN "ask" ELSE "insert"
             j == CreateJob(k, p, w, try, s)
  <2>1. Goto(t, l) /\ Set(t, j)
    BY <1>1 DEF CreateAsset, Receive
  <2>2. j.end # "KO" /\ j.asset = None
    BY DEF CreateJob, NoJob
  <2>3. Undisturbed(rows', parent', l, j)
    BY <2>2 DEF Undisturbed, Holding
  <2> QED
    BY <2>1, <2>3, StepAlone
<1>2. ASSUME NEW a, NEW p, NEW w, NEW try, NEW s, UpdateAsset(t, a, p, w, try, s)
      PROVE  AloneUndisturbed'
  <2> DEFINE l == IF ~configurable \/ a \notin rows THEN "ko"
                  ELSE IF Rises(a, w) \/ t \in Legacy THEN "ask" ELSE "store"
             j == UpdateJob(a, p, w, try, IF t \in Legacy THEN {x[1] : x \in LinksTo(a)} ELSE s)
  <2>1. Goto(t, l) /\ Set(t, j)
    BY <1>2 DEF UpdateAsset, Receive
  <2>2. j.op = "update" /\ j.end # "KO"
    BY DEF UpdateJob, NoJob
  <2>3. Undisturbed(rows', parent', l, j)
    BY <2>2 DEF Undisturbed
  <2> QED
    BY <2>1, <2>3, StepAlone
<1>3. ASSUME NEW l \in {"unlink", "ko"}, NEW todo, NEW end \in {"notify", "silent"}, NEW last,
             Goto(t, l), Set(t, DeleteJob(todo, end, last))
      PROVE  AloneUndisturbed'
  <2> DEFINE j == DeleteJob(todo, end, last)
  <2>1. j.op = "delete" /\ j.end # "KO"
    BY DEF DeleteJob, NoJob
  <2>2. Undisturbed(rows', parent', l, j)
    BY <2>1 DEF Undisturbed, Holding
  <2> QED
    BY <1>3, <2>2, StepAlone
<1>4. ASSUME NEW list, NEW recursive, DeleteAsset(t, list, recursive)
      PROVE  AloneUndisturbed'
  BY <1>3, <1>4 DEF DeleteAsset, Receive
<1>5. ASSUME Reset(t)
      PROVE  AloneUndisturbed'
  BY <1>3, <1>5 DEF Reset, Receive
<1> QED
  BY <1>1, <1>2, <1>4, <1>5, Zenon DEF Request

LEMMA AskAlone ==
  ASSUME RInv, NEW t \in Threads, Threads = {t}, Ask(t)
  PROVE  AloneUndisturbed'
<1> DEFINE store == IF job[t].op = "create" THEN "insert" ELSE "store"
<1>1. \/ Goto(t, store) /\ UNCHANGED job
      \/ Goto(t, store) /\ Set(t, Kept(t))
      \/ Goto(t, "ko") /\ UNCHANGED job
  BY DEF Ask
<1>2. Fits("ask", job[t]) /\ job[t] \in Jobs /\ job[t].end # "KO"
  BY JobFields DEF RInv, EachFits, Ask, AloneUndisturbed, Undisturbed
<1>3. \A l \in {store, "ko"} : /\ Undisturbed(rows', parent', l, job[t])
                                /\ Undisturbed(rows', parent', l, Kept(t))
  BY <1>2, KeptFields DEF Fits, Undisturbed, Holding
<1> HIDE DEF store
<1> QED
  BY <1>1, <1>3, StepAlone, MoveAlone DEF RInv

LEMMA InsertAlone ==
  ASSUME RInv, NEW t \in Threads, Threads = {t}, Insert(t)
  PROVE  AloneUndisturbed'
<1>1. Fits("insert", job[t]) /\ job[t] \in Jobs /\ job[t].end # "KO"
  BY JobFields DEF RInv, EachFits, Insert, AloneUndisturbed, Undisturbed
<1>2. ASSUME NEW a \in Assets, NEW l, Goto(t, l), l # "ko", Insertable(a, job[t]),
             rows' = rows \cup {a}, Set(t, [job[t] EXCEPT !.asset = a])
      PROVE  AloneUndisturbed'
  <2> DEFINE j == [job[t] EXCEPT !.asset = a]
  <2>1. j.op = "create" /\ j.end # "KO" /\ j.asset = a /\ j.parent = job[t].parent
    BY <1>1 DEF Jobs, Fits
  <2>2. a \in rows' /\ j.parent # a /\ j.parent \in rows' \cup {None}
    BY <1>2, <2>1, TablesAssumption DEF Insertable
  <2>3. Undisturbed(rows', parent', l, j)
    BY <1>2, <2>1, <2>2 DEF Undisturbed
  <2> QED
    BY <1>2, <2>3, StepAlone DEF RInv
<1>3. CASE Goto(t, "ko") /\ UNCHANGED job
  <2>1. Undisturbed(rows', parent', "ko", job[t])
    BY <1>1 DEF Fits, Undisturbed, Holding
  <2> QED
    BY <1>3, <2>1, MoveAlone DEF RInv
<1> QED
  BY <1>2, <1>3 DEF Insert, Activation

LEMMA StoreAlone ==
  ASSUME RInv, NEW t \in Threads, Threads = {t}, Store(t) \/ Undo(t)
  PROVE  AloneUndisturbed'
<1>1. job[t].op = "update" /\ job[t].end # "KO" /\ job' = job
  BY DEF RInv, EachFits, Fits, AloneUndisturbed, Undisturbed, Store, Undo
<1>2. \E l : Goto(t, l)
  BY DEF Store, Undo
<1>3. \A l : Undisturbed(rows', parent', l, job[t])
  BY <1>1 DEF Undisturbed
<1> QED
  BY <1>1, <1>2, <1>3, MoveAlone DEF RInv

LEMMA CreditAlone ==
  ASSUME RInv, NEW t \in Threads, Threads = {t}, Activate(t) \/ Deactivate(t)
  PROVE  AloneUndisturbed'
<1>1. /\ Undisturbed(rows, parent, pc[t], job[t]) /\ Fits(pc[t], job[t])
      /\ job' = job /\ rows' = rows /\ parent' = parent
  BY DEF RInv, EachFits, AloneUndisturbed, Activate, Deactivate, db
<1>2. pc[t] \in Holding
  BY DEF Activate, Deactivate, Holding
<1>3. \A l \in Holding \cup {"next"} : Undisturbed(rows', parent', l, job[t])
  BY <1>1, <1>2 DEF Undisturbed, Holding
<1>4. \E l \in Holding \cup {"next"} : Goto(t, l)
  BY DEF Activate, Deactivate, Activated, Deactivated, Erasure, Holding
<1> QED
  BY <1>1, <1>3, <1>4, MoveAlone DEF RInv

LEMMA MarkActiveAlone ==
  ASSUME RInv, NEW t \in Threads, Threads = {t}, MarkActive(t)
  PROVE  AloneUndisturbed'
<1> DEFINE j == [job[t] EXCEPT !.want = "active"]
<1>1. /\ Undisturbed(rows, parent, "markActive", job[t]) /\ Fits("markActive", job[t])
      /\ job[t] \in Jobs /\ rows' = rows
  BY JobFields DEF RInv, EachFits, AloneUndisturbed, MarkActive
<1>2. j.op = job[t].op /\ j.end = job[t].end /\ j.asset = job[t].asset /\ j.parent = job[t].parent
  BY <1>1, WantFields
<1>3. j.op = "create" => CanWrite(j.asset, j.parent)
  BY <1>1, <1>2 DEF Undisturbed, CanWrite, Holding
<1>4. Set(t, j) /\ (\/ Goto(t, Activated(j))
                    \/ j.op # "create" /\ (Goto(t, "undo") \/ Goto(t, "ko")))
  BY <1>3 DEF MarkActive
<1> HIDE DEF j
<1>5. Undisturbed(rows', parent', Activated(j), j)
  BY <1>1, <1>2 DEF Undisturbed, Activated, Holding
<1>6. j.op # "create" => /\ Undisturbed(rows', parent', "undo", j)
                         /\ Undisturbed(rows', parent', "ko", j)
  BY <1>1, <1>2 DEF Undisturbed, Holding
<1> QED
  BY <1>4, <1>5, <1>6, StepAlone DEF RInv

LEMMA MarkNonactiveAlone ==
  ASSUME RInv, NEW t \in Threads, Threads = {t}, MarkNonactive(t)
  PROVE  AloneUndisturbed'
<1> DEFINE j == [job[t] EXCEPT !.want = "nonactive"]
<1>1. /\ Undisturbed(rows, parent, "markNonactive", job[t]) /\ Fits("markNonactive", job[t])
      /\ job[t] \in Jobs /\ job[t].asset \in Assets /\ rows' = rows
  BY JobFields DEF RInv, EachFits, AloneUndisturbed, MarkNonactive, Holding, Inv, AssetKnown
<1>2. /\ j.op = job[t].op /\ j.end = job[t].end /\ j.asset = job[t].asset
      /\ j.parent = job[t].parent /\ j \in Jobs
  BY <1>1, WantFields, WantType DEF Statuses
<1>3. j.op # "create"
  BY <1>1, <1>2 DEF Fits
<1>4. j.op = "delete" => parent'[j.asset] = j.parent
  <2>1. j.op = "delete" => parent[j.asset] = j.parent
    BY <1>1, <1>2 DEF Undisturbed, Holding
  <2>2. parent' = parent \/ parent' = [parent EXCEPT ![j.asset] = j.parent]
    BY DEF MarkNonactive, Write
  <2> QED
    BY <1>1, <1>2, <2>1, <2>2 DEF RInv, Inv, TypeOK
<1>5. \/ Set(t, j) /\ (Goto(t, Deactivated(j)) \/ Goto(t, "ko"))
      \/ Set(t, Refuse(j)) /\ Goto(t, "next")
  BY DEF MarkNonactive
<1> HIDE DEF j
<1>6. Undisturbed(rows', parent', Deactivated(j), j) /\ Undisturbed(rows', parent', "ko", j)
  BY <1>1, <1>2, <1>3, <1>4 DEF Undisturbed, Deactivated, Erasure, Holding
<1>7. Undisturbed(rows', parent', "next", Refuse(j))
  BY <1>1, <1>2, RefuseFields DEF Undisturbed, Holding
<1> QED
  BY <1>5, <1>6, <1>7, StepAlone DEF RInv

LEMMA AnswerAlone ==
  ASSUME RInv, NEW t \in Threads, Threads = {t}, Finish(t) \/ Ko(t) \/ Report(t)
  PROVE  AloneUndisturbed'
<1>1. Undisturbed(rows, parent, pc[t], job[t]) /\ Fits(pc[t], job[t]) /\ rows' = rows
  BY DEF RInv, EachFits, AloneUndisturbed, Finish, Ko, Report, db
<1>2. Undisturbed(rows', parent', "idle", NoJob)
  BY DEF Undisturbed, NoJob, Holding
<1>3. \/ Goto(t, "idle") /\ Set(t, NoJob)
      \/ /\ Goto(t, "ko") /\ UNCHANGED job
         /\ \/ pc[t] = "finish" /\ job[t].asset \notin rows
            \/ pc[t] = "next"
  BY DEF Finish, Ko, Report, Answer
<1>4. \/ pc[t] = "finish" /\ job[t].asset \notin rows
      \/ pc[t] = "next"
      => Undisturbed(rows', parent', "ko", job[t])
  BY <1>1 DEF Fits, Undisturbed, Holding
<1> QED
  BY <1>2, <1>3, <1>4, StepAlone, MoveAlone DEF RInv

LEMMA DeleteAlone ==
  ASSUME RInv, NEW t \in Threads, Threads = {t},
         Unlink(t) \/ Remove(t) \/ Count(t) \/ Drop(t)
  PROVE  AloneUndisturbed'
<1>1. /\ Undisturbed(rows, parent, pc[t], job[t]) /\ job[t].op = "delete" /\ job[t] \in Jobs
      /\ job[t].end # "KO"
  BY JobFields DEF RInv, EachFits, Fits, AloneUndisturbed, Undisturbed, Unlink, Remove,
     Count, Drop
<1>2. ASSUME NEW j, j.op = "delete", j.end # "KO", NEW l, l \notin Holding, Goto(t, l), Set(t, j)
      PROVE  AloneUndisturbed'
  <2>1. Undisturbed(rows', parent', l, j)
    BY <1>2 DEF Undisturbed
  <2> QED
    BY <1>2, <2>1, StepAlone DEF RInv
<1>3. ASSUME NEW l, l \notin Holding, Goto(t, l), UNCHANGED job
      PROVE  AloneUndisturbed'
  <2>1. Undisturbed(rows', parent', l, job[t])
    BY <1>1, <1>3 DEF Undisturbed
  <2> QED
    BY <1>3, <2>1, MoveAlone DEF RInv
<1>4. "ko" \notin Holding /\ "next" \notin Holding
  BY DEF Holding
<1>5. CASE Unlink(t)
  BY <1>3, <1>4, <1>5 DEF Unlink
<1>6. CASE Remove(t)
  <2>1. CASE Goto(t, "ko") /\ UNCHANGED job
    BY <1>3, <1>4, <2>1
  <2>2. ASSUME NEW d \in rows, job[t].todo[d] > 0,
               \/ Set(t, Refuse(Taken(job[t], d))) /\ Goto(t, "next")
               \/ /\ Set(t, Taken(job[t], d))
                  /\ Goto(t, IF status[d] = "active" THEN Deactivation(d) ELSE Erasure(Taken(job[t], d)))
        PROVE  AloneUndisturbed'
    <3> DEFINE j == Taken(job[t], d)
               l == IF status[d] = "active" THEN Deactivation(d) ELSE Erasure(j)
    <3>1. j.op = "delete" /\ j.end # "KO" /\ j.asset = d /\ j.parent = parent[d] /\ j \in Jobs
      BY <1>1, <2>2, TakenFields, TakenType DEF RInv
    <3>2. Refuse(j).op = "delete" /\ Refuse(j).end # "KO"
      BY <3>1, RefuseFields
    <3>3. parent' = parent
      BY <1>6 DEF Remove, db
    <3>4. Undisturbed(rows', parent', l, j)
      BY <3>1, <3>3 DEF Undisturbed, Deactivation
    <3> HIDE DEF j, l
    <3>5. \/ Set(t, Refuse(j)) /\ Goto(t, "next")
          \/ Set(t, j) /\ Goto(t, l)
      BY <2>2 DEF j, l
    <3> QED
      BY <1>2, <1>4, <3>2, <3>4, <3>5, StepAlone DEF RInv
  <2> QED
    BY <1>6, <2>1, <2>2 DEF Remove
<1>7. CASE Count(t) \/ Drop(t)
  <2> DEFINE j == job[t]
             d == j.asset
             l == IF j.want = "active" THEN Activation(d) ELSE "next"
  <2>1. ASSUME Set(t, [j EXCEPT !.result[d] = "OK"]), Goto(t, "next")
        PROVE  AloneUndisturbed'
    <3>1. [j EXCEPT !.result[d] = "OK"].op = "delete" /\ [j EXCEPT !.result[d] = "OK"].end # "KO"
      BY <1>1, DroppedFields
    <3> QED
      BY <1>2, <1>4, <2>1, <3>1
  <2>2. ASSUME Set(t, Refuse(j)), Goto(t, l), UNCHANGED db
        PROVE  AloneUndisturbed'
    <3>1. /\ Refuse(j).op = "delete" /\ Refuse(j).end # "KO" /\ Refuse(j).asset = d
          /\ Refuse(j).parent = j.parent
      BY <1>1, RefuseFields
    <3>2. parent'[d] = j.parent
      BY <1>1, <1>7, <2>2 DEF Undisturbed, Count, Drop, db, Holding
    <3>3. Undisturbed(rows', parent', l, Refuse(j))
      BY <3>1, <3>2 DEF Undisturbed
    <3> HIDE DEF l, j
    <3> QED
      BY <2>2, <3>3, StepAlone DEF RInv
  <2>3. CASE Goto(t, "drop") /\ UNCHANGED job /\ UNCHANGED db
    <3>1. Undisturbed(rows', parent', "drop", j)
      BY <1>1, <1>7, <2>3 DEF Undisturbed, Count, Drop, db, Holding
    <3> QED
      BY <2>3, <3>1, MoveAlone DEF RInv
  <2> QED
    BY <1>7, <2>1, <2>2, <2>3 DEF Count, Drop, Refused
<1> QED
  BY <1>5, <1>6, <1>7

LEMMA NextAlone ==
  ASSUME RInv, [Next]_vars
  PROVE  AloneUndisturbed'
<1>1. HandleIncomingLimitations \/ UNCHANGED vars => AloneUndisturbed'
  BY DEF HandleIncomingLimitations, vars, db, RInv, AloneUndisturbed
<1>2. ASSUME NEW t \in Threads, Threads = {t}, Request(t) \/ Step(t)
      PROVE  AloneUndisturbed'
  BY <1>2, RequestAlone, AskAlone, InsertAlone, StoreAlone, CreditAlone, MarkActiveAlone,
     MarkNonactiveAlone, AnswerAlone, DeleteAlone DEF Step, RInv
<1>3. (\A t \in Threads : Threads # {t}) => AloneUndisturbed'
  BY DEF AloneUndisturbed
<1> QED
  BY <1>1, <1>2, <1>3 DEF Next

-----------------------------------------------------------------------------
(* The invariant holds.                                                    *)
LEMMA InitR == Init => RInv
<1> SUFFICES ASSUME Init PROVE RInv
  OBVIOUS
<1>1. NoDanglingReference
  BY DEF Init, Consistent, NoDanglingReference
<1>2. \A t \in Threads : pc[t] = "idle" /\ job[t] = NoJob
  BY DEF Init
<1>3. Fits("idle", NoJob)
  BY DEF Fits, NoJob, Holding
<1>4. Undisturbed(rows, parent, "idle", NoJob)
  BY DEF Undisturbed, NoJob, Holding
<1> QED
  BY <1>1, <1>2, <1>3, <1>4, InitInv DEF RInv, EachFits, AloneUndisturbed

LEMMA NextR == RInv /\ [Next]_vars => RInv'
  BY NextInv, ReferencesNext, NextFits, NextAlone DEF RInv

-----------------------------------------------------------------------------
(* How a step of one thread looks from the registry.                       *)
DoingOf(p, j) == IF p = "idle" THEN "nothing" ELSE IF j.end = "KO" THEN "create" ELSE j.op
SubjectOf(p, j) == IF DoingOf(p, j) \in {"create", "update"} THEN j.asset ELSE None

LEMMA Seen ==
  ASSUME NEW t \in Threads
  PROVE  Doing[t] = DoingOf(pc[t], job[t]) /\ Subject[t] = SubjectOf(pc[t], job[t])
<1>1. Doing[t] = DoingOf(pc[t], job[t])
  BY DEF Doing, DoingOf
<1> QED
  BY <1>1 DEF Subject, SubjectOf

LEMMA StepSeen ==
  ASSUME Inv, NEW t \in Threads, NEW l, NEW j, Goto(t, l), Set(t, j)
  PROVE  /\ Doing' = [Doing EXCEPT ![t] = DoingOf(l, j)]
         /\ Subject' = [Subject EXCEPT ![t] = SubjectOf(l, j)]
<1>1. /\ pc'[t] = l /\ job'[t] = j
      /\ \A u \in Threads \ {t} : pc'[u] = pc[u] /\ job'[u] = job[u]
  BY DEF Inv, TypeOK, Goto, Set
<1>2. Doing'[t] = DoingOf(l, j) /\ \A u \in Threads \ {t} : Doing'[u] = Doing[u]
  BY <1>1 DEF Doing, DoingOf
<1>3. Subject'[t] = SubjectOf(l, j) /\ \A u \in Threads \ {t} : Subject'[u] = Subject[u]
  BY <1>1, <1>2 DEF Subject, SubjectOf
<1>4. /\ Doing = [u \in Threads |-> Doing[u]] /\ Doing' = [u \in Threads |-> Doing'[u]]
      /\ Subject = [u \in Threads |-> Subject[u]] /\ Subject' = [u \in Threads |-> Subject'[u]]
  BY DEF Doing, Subject
<1> QED
  BY <1>2, <1>3, <1>4

(* A step that changes neither what a thread is doing, nor to what.        *)
LEMMA StepUnseen ==
  ASSUME Inv, NEW t \in Threads, NEW l, NEW j, Goto(t, l), Set(t, j),
         DoingOf(l, j) = DoingOf(pc[t], job[t]), SubjectOf(l, j) = SubjectOf(pc[t], job[t])
  PROVE  Doing' = Doing /\ Subject' = Subject
<1>1. Doing = [u \in Threads |-> Doing[u]] /\ Subject = [u \in Threads |-> Subject[u]]
  BY DEF Doing, Subject
<1> QED
  BY <1>1, StepSeen, Seen

LEMMA MoveUnseen ==
  ASSUME Inv, NEW t \in Threads, pc[t] # "idle", NEW l, l # "idle", Goto(t, l), job' = job
  PROVE  Doing' = Doing /\ Subject' = Subject
<1>1. Doing' = Doing
  BY DEF Doing, Goto, Inv, TypeOK
<1> QED
  BY <1>1 DEF Subject

-----------------------------------------------------------------------------
(* Every step is a step of the registry, or none.                          *)
Mapped == R!Next \/ UNCHANGED R!vars

LEMMA StutterMapped ==
  ASSUME UNCHANGED <<rows, parent, links, reply>>, Doing' = Doing, Subject' = Subject
  PROVE  Mapped
  BY DEF Mapped, R!vars

LEMMA CallMapped ==
  ASSUME Inv, NEW t \in Threads, pc[t] = "idle",
         NEW l, l # "idle", NEW j, Goto(t, l), Receive(t, j), UNCHANGED db,
         j.op \in {"create", "update", "delete"}, j.end # "KO",
         j.op = "create" => j.asset = None, j.op = "update" => j.asset \in Assets
  PROVE  Mapped
<1> DEFINE op == j.op
           a == IF op = "update" THEN j.asset ELSE None
<1>1. Set(t, j)
  BY DEF Receive
<1>2. DoingOf(l, j) = op /\ SubjectOf(l, j) = a
  BY DEF DoingOf, SubjectOf
<1>3. Doing[t] = "nothing"
  BY Seen DEF DoingOf
<1>4. Doing' = [Doing EXCEPT ![t] = op] /\ Subject' = [Subject EXCEPT ![t] = a]
  BY <1>1, <1>2, StepSeen
<1>5. op \in {"create", "update", "delete"} /\ a \in Assets \cup {None} /\ (op = "create" => a = None)
  OBVIOUS
<1>6. reply' = [reply EXCEPT ![t] = "none"] /\ UNCHANGED <<rows, parent, links>>
  BY DEF Receive, db
<1> HIDE DEF op, a
<1>7. R!Call(t)
  BY <1>3, <1>4, <1>5, <1>6 DEF R!Call, R!tables
<1> QED
  BY <1>7 DEF Mapped, R!Next

LEMMA RequestMapped ==
  ASSUME Inv, NEW t \in Threads, Request(t)
  PROVE  Mapped
<1>0. pc[t] = "idle"
  BY DEF Request
<1>1. ASSUME NEW k, NEW p, NEW w, NEW try, NEW s, CreateAsset(t, k, p, w, try, s)
      PROVE  Mapped
  <2> DEFINE l == IF ~configurable THEN "ko"
                  ELSE IF w = "active" \/ t \in Legacy THEN "ask" ELSE "insert"
             j == CreateJob(k, p, w, try, s)
  <2>1. Goto(t, l) /\ Receive(t, j) /\ l # "idle" /\ UNCHANGED db
    BY <1>1 DEF CreateAsset, db
  <2>2. j.op = "create" /\ j.end # "KO" /\ j.asset = None
    BY DEF CreateJob, NoJob
  <2> HIDE DEF l, j
  <2> QED
    BY <1>0, <2>1, <2>2, CallMapped
<1>2. ASSUME NEW a \in Assets, NEW p, NEW w, NEW try, NEW s, UpdateAsset(t, a, p, w, try, s)
      PROVE  Mapped
  <2> DEFINE l == IF ~configurable \/ a \notin rows THEN "ko"
                  ELSE IF Rises(a, w) \/ t \in Legacy THEN "ask" ELSE "store"
             j == UpdateJob(a, p, w, try, IF t \in Legacy THEN {x[1] : x \in LinksTo(a)} ELSE s)
  <2>1. Goto(t, l) /\ Receive(t, j) /\ l # "idle" /\ UNCHANGED db
    BY <1>2 DEF UpdateAsset, db
  <2>2. j.op = "update" /\ j.end # "KO" /\ j.asset = a
    BY DEF UpdateJob, NoJob
  <2> HIDE DEF l, j
  <2> QED
    BY <1>0, <2>1, <2>2, CallMapped
<1>3. ASSUME NEW l \in {"unlink", "ko"}, NEW todo, NEW end \in {"notify", "silent"}, NEW last,
             Goto(t, l), Receive(t, DeleteJob(todo, end, last)), UNCHANGED db
      PROVE  Mapped
  <2> DEFINE j == DeleteJob(todo, end, last)
  <2>1. j.op = "delete" /\ j.end # "KO"
    BY DEF DeleteJob, NoJob
  <2> QED
    BY <1>0, <1>3, <2>1, CallMapped
<1>4. ASSUME NEW list, NEW recursive, DeleteAsset(t, list, recursive)
      PROVE  Mapped
  BY <1>3, <1>4 DEF DeleteAsset
<1>5. ASSUME Reset(t)
      PROVE  Mapped
  BY <1>3, <1>5 DEF Reset
<1> QED
  BY <1>1, <1>2, <1>4, <1>5, Zenon DEF Request

LEMMA AskMapped ==
  ASSUME Inv, EachFits, NEW t \in Threads, Ask(t)
  PROVE  Mapped
<1>1. \E l \in {"insert", "store", "ko"} : Goto(t, l) /\ (UNCHANGED job \/ Set(t, Kept(t)))
  BY DEF Ask
<1>2. pc[t] = "ask" /\ UNCHANGED <<rows, parent, links, reply>>
  BY DEF Ask, db
<1>3. job[t] \in Jobs
  BY JobFields
<1>4. \A l \in {"insert", "store", "ko"} : /\ DoingOf(l, Kept(t)) = DoingOf(pc[t], job[t])
                                           /\ SubjectOf(l, Kept(t)) = SubjectOf(pc[t], job[t])
  BY <1>2, <1>3, KeptFields DEF DoingOf, SubjectOf
<1>5. Doing' = Doing /\ Subject' = Subject
  BY <1>1, <1>2, <1>4, StepUnseen, MoveUnseen
<1> QED
  BY <1>2, <1>5, StutterMapped

LEMMA InsertMapped ==
  ASSUME Inv, NoDanglingReference, EachFits, NEW t \in Threads, Insert(t)
  PROVE  Mapped
<1>1. pc[t] = "insert" /\ job[t] \in Jobs /\ job[t].op = "create" /\ job[t].asset = None
      /\ job[t].end # "KO" /\ reply' = reply
  BY JobFields DEF EachFits, Fits, Insert
<1>2. CASE Goto(t, "ko") /\ UNCHANGED <<db, job>>
  BY <1>1, <1>2, MoveUnseen, StutterMapped DEF db
<1>3. ASSUME NEW a \in Assets, NEW l, l # "idle", Goto(t, l), Insertable(a, job[t]),
             rows' = rows \cup {a}, Write(a, job[t].parent, "nonactive"),
             SaveLinks(a, job[t].sources), Set(t, [job[t] EXCEPT !.asset = a])
      PROVE  Mapped
  <2> DEFINE j == [job[t] EXCEPT !.asset = a]
  <2>1. j.op = "create" /\ j.end # "KO" /\ j.asset = a
    BY <1>1 DEF Jobs
  <2>2. DoingOf(l, j) = "create" /\ SubjectOf(l, j) = a
    BY <1>3, <2>1 DEF DoingOf, SubjectOf
  <2>3. Doing[t] = "create" /\ Subject[t] = None
    BY <1>1, Seen DEF DoingOf, SubjectOf
  <2>4. Doing' = [Doing EXCEPT ![t] = "create"] /\ Subject' = [Subject EXCEPT ![t] = a]
    BY <1>3, <2>2, StepSeen
  <2>5. Doing' = Doing
    <3>1. Doing = [u \in Threads |-> Doing[u]]
      BY DEF Doing
    <3> QED
      BY <2>3, <2>4, <3>1
  <2>6. a \notin rows /\ job[t].parent \in rows \cup {None} /\ job[t].sources \in SUBSET rows
    BY <1>3 DEF Insertable
  <2>7. parent' = [parent EXCEPT ![a] = job[t].parent]
    BY <1>3 DEF Write
  <2>8. links' = links \cup R!In(job[t].sources, a)
    <3>1. LinksTo(a) = {}
      BY <2>6 DEF LinksTo, NoDanglingReference
    <3> QED
      BY <1>3, <3>1 DEF SaveLinks, R!In
  <2>9. R!Make(t, a)
    BY <1>1, <1>3, <2>3, <2>4, <2>5, <2>6, <2>7, <2>8 DEF R!Make
  <2> QED
    BY <2>9 DEF Mapped, R!Next
<1> QED
  BY <1>2, <1>3 DEF Insert, Activation

(* A write of the row of an asset that is the subject of the request.      *)
LEMMA ChangeMapped ==
  ASSUME NEW t \in Threads, NEW a \in Assets, NEW p, NEW s, CanWrite(a, p), Write(a, p, s),
         Doing[t] \in {"create", "update"}, Subject[t] = a,
         NEW sources \in SUBSET rows, SaveLinks(a, sources),
         UNCHANGED <<rows, reply>>, Doing' = Doing, Subject' = Subject
  PROVE  Mapped
<1>1. R!Change(t, a)
  BY DEF R!Change, R!In, R!Into, SaveLinks, LinksTo, Write, CanWrite
<1> QED
  BY <1>1 DEF Mapped, R!Next

LEMMA StoreMapped ==
  ASSUME Inv, EachFits, NEW t \in Threads, Store(t) \/ Undo(t)
  PROVE  Mapped
<1> DEFINE j == job[t]
           a == j.asset
<1>1. j.op = "update" /\ j \in Jobs /\ j.end # "KO" /\ pc[t] # "idle" /\ job' = job
      /\ UNCHANGED <<rows, reply>>
  BY JobFields DEF EachFits, Fits, Store, Undo
<1>2. \E l : l # "idle" /\ Goto(t, l)
  BY DEF Store, Undo, Activation, Deactivation
<1>3. Doing' = Doing /\ Subject' = Subject
  BY <1>1, <1>2, MoveUnseen
<1>4. Doing[t] = "update" /\ Subject[t] = a
  BY <1>1, Seen DEF DoingOf, SubjectOf
<1>5. CASE UNCHANGED <<parent, links>>
  BY <1>1, <1>3, <1>5, StutterMapped
<1>6. ASSUME NEW s, Storable(j), Write(a, j.parent, s), SaveLinks(a, j.sources)
      PROVE  Mapped
  <2>1. a \in Assets /\ CanWrite(a, j.parent) /\ j.sources \in SUBSET rows
    BY <1>6 DEF Storable, CanWrite, Inv, TypeOK
  <2> HIDE DEF j, a
  <2> QED
    BY <1>1, <1>3, <1>4, <1>6, <2>1, ChangeMapped
<1> QED
  BY <1>5, <1>6 DEF Store, Undo

LEMMA CreditMapped ==
  ASSUME Inv, NEW t \in Threads, Activate(t) \/ Deactivate(t)
  PROVE  Mapped
<1>1. pc[t] # "idle" /\ job' = job /\ UNCHANGED <<rows, parent, links, reply>>
  BY DEF Activate, Deactivate, db
<1>2. \E l : l # "idle" /\ Goto(t, l)
  BY DEF Activate, Deactivate, Activated, Deactivated, Erasure
<1> QED
  BY <1>1, <1>2, MoveUnseen, StutterMapped

(* What activate() and deactivate() write is the row of the subject, or,   *)
(* for a delete, a row that only another thread may have changed.          *)
LEMMA MarkMapped ==
  ASSUME RInv, NEW t \in Threads, pc[t] \in {"markActive", "markNonactive"},
         UNCHANGED <<rows, links, reply>>, Doing' = Doing, Subject' = Subject,
         NEW s, \/ parent' = parent
                \/ CanWrite(job[t].asset, job[t].parent) /\ Write(job[t].asset, job[t].parent, s)
  PROVE  Mapped
<1> DEFINE a == job[t].asset
           p == job[t].parent
<1>1. CASE parent' = parent
  BY <1>1, StutterMapped
<1>2. ASSUME CanWrite(a, p), Write(a, p, s)
      PROVE  Mapped
  <2>1. /\ a \in Assets /\ job[t] \in Jobs /\ job[t].op \in {"create", "update", "delete"}
        /\ a \in rows /\ p \in (rows \ {a}) \cup {None}
    BY <1>2, JobFields, TablesAssumption DEF RInv, EachFits, Fits, CanWrite, Inv, TypeOK
  <2>2. parent' = [parent EXCEPT ![a] = p]
    BY <1>2 DEF Write
  <2>3. CASE Doing[t] \in {"create", "update"}
    <3>1. Subject[t] = a
      BY <2>3, Seen DEF SubjectOf
    <3> DEFINE sources == {x \in rows : <<x, a>> \in links}
    <3>2. \A l \in links : l = <<l[1], l[2]>> /\ l[1] \in rows
      BY DEF RInv, Inv, TypeOK, NoDanglingReference
    <3>3. SaveLinks(a, sources)
      <4>1. LinksTo(a) = {<<x, a>> : x \in sources}
        BY <3>2 DEF LinksTo
      <4>2. links = (links \ LinksTo(a)) \cup LinksTo(a) /\ links' = links
        BY DEF LinksTo
      <4> QED
        BY <4>1, <4>2 DEF SaveLinks
    <3>4. sources \in SUBSET rows
      OBVIOUS
    <3> HIDE DEF sources, a, p
    <3> QED
      BY <1>2, <2>1, <2>3, <3>1, <3>3, <3>4, ChangeMapped
  <2>4. CASE Doing[t] = "delete"
    <3>1. job[t].op = "delete" /\ job[t].end # "KO"
      BY <2>4, Seen DEF DoingOf
    <3>2. CASE Threads = {t}
      <4>1. parent[a] = p
        BY <3>1, <3>2 DEF RInv, AloneUndisturbed, Undisturbed, Holding
      <4>2. parent' = parent
        BY <2>1, <2>2, <4>1 DEF RInv, Inv, TypeOK
      <4> QED
        BY <4>2, StutterMapped
    <3>3. CASE Threads # {t}
      <4> HIDE DEF a, p
      <4>1. R!PutBack(t, a)
        BY <2>1, <2>2, <2>4, <3>3 DEF R!PutBack
      <4> QED
        BY <2>1, <4>1 DEF Mapped, R!Next
    <3> QED
      BY <3>2, <3>3
  <2>5. Doing[t] \in {"create", "update", "delete"}
    BY <2>1, Seen DEF DoingOf
  <2> QED
    BY <2>3, <2>4, <2>5
<1> QED
  BY <1>1, <1>2

LEMMA MarkActiveMapped ==
  ASSUME RInv, NEW t \in Threads, MarkActive(t)
  PROVE  Mapped
<1> DEFINE j == [job[t] EXCEPT !.want = "active"]
<1>1. /\ Fits("markActive", job[t]) /\ job[t] \in Jobs /\ pc[t] = "markActive"
      /\ UNCHANGED <<rows, links, reply>>
  BY JobFields DEF RInv, EachFits, MarkActive
<1>2. /\ j \in Jobs /\ j.asset = job[t].asset /\ j.parent = job[t].parent
      /\ j.op = job[t].op /\ j.end = job[t].end
  BY <1>1, WantFields, WantType DEF Statuses
<1>3. \/ parent' = parent
      \/ CanWrite(job[t].asset, job[t].parent) /\ Write(job[t].asset, job[t].parent, "active")
  BY <1>2 DEF MarkActive
<1>4. \E l \in {"next", "finish", "undo", "unlink", "ko"} : Goto(t, l) /\
        (Set(t, j) \/ (j.op = "create" /\ Set(t, GivenUp(j))))
  BY DEF MarkActive, Activated
<1> HIDE DEF j
<1>5. \A l \in {"next", "finish", "undo", "unlink", "ko"} :
         /\ DoingOf(l, j) = DoingOf(pc[t], job[t]) /\ SubjectOf(l, j) = SubjectOf(pc[t], job[t])
         /\ j.op = "create" => /\ DoingOf(l, GivenUp(j)) = DoingOf(pc[t], job[t])
                               /\ SubjectOf(l, GivenUp(j)) = SubjectOf(pc[t], job[t])
  BY <1>1, <1>2, GivenUpFields DEF DoingOf, SubjectOf
<1>6. Doing' = Doing /\ Subject' = Subject
  BY <1>4, <1>5, StepUnseen DEF RInv
<1> QED
  BY <1>1, <1>3, <1>6, MarkMapped

LEMMA MarkNonactiveMapped ==
  ASSUME RInv, NEW t \in Threads, MarkNonactive(t)
  PROVE  Mapped
<1> DEFINE j == [job[t] EXCEPT !.want = "nonactive"]
<1>1. job[t] \in Jobs /\ pc[t] = "markNonactive" /\ UNCHANGED <<rows, links, reply>>
  BY JobFields DEF RInv, MarkNonactive
<1>2. /\ j \in Jobs /\ j.asset = job[t].asset /\ j.parent = job[t].parent
      /\ j.op = job[t].op /\ j.end = job[t].end
  BY <1>1, WantFields, WantType DEF Statuses
<1>3. \/ parent' = parent
      \/ CanWrite(job[t].asset, job[t].parent) /\ Write(job[t].asset, job[t].parent, "nonactive")
  BY <1>2 DEF MarkNonactive
<1>4. \E l \in {"next", "finish", "count", "drop", "ko"} : Goto(t, l) /\ (Set(t, j) \/ Set(t, Refuse(j)))
  BY DEF MarkNonactive, Deactivated, Erasure
<1> HIDE DEF j
<1>5. \A l \in {"next", "finish", "count", "drop", "ko"}, k \in {j, Refuse(j)} :
         DoingOf(l, k) = DoingOf(pc[t], job[t]) /\ SubjectOf(l, k) = SubjectOf(pc[t], job[t])
  BY <1>1, <1>2, RefuseFields DEF DoingOf, SubjectOf
<1>6. Doing' = Doing /\ Subject' = Subject
  BY <1>4, <1>5, StepUnseen DEF RInv
<1> QED
  BY <1>1, <1>3, <1>6, MarkMapped

LEMMA AnswerMapped ==
  ASSUME Inv, NEW t \in Threads, Doing[t] # "nothing", NEW r \in {"OK", "KO"}, Answer(t, r),
         UNCHANGED <<rows, parent, links>>,
         Doing[t] = "create" => /\ r = "OK" => Subject[t] # None
                                /\ r = "KO" => (Threads = {t} => Subject[t] \notin rows)
  PROVE  Mapped
<1>1. DoingOf("idle", NoJob) = "nothing" /\ SubjectOf("idle", NoJob) = None
  BY DEF DoingOf, SubjectOf
<1>2. Doing' = [Doing EXCEPT ![t] = "nothing"] /\ Subject' = [Subject EXCEPT ![t] = None]
  BY <1>1, StepSeen DEF Answer
<1>3. reply' = [reply EXCEPT ![t] = r]
  BY DEF Answer
<1>4. CASE r = "OK"
  <2>1. R!Answer(t, "OK")
    BY <1>2, <1>3, <1>4 DEF R!Answer, R!tables
  <2> QED
    BY <2>1 DEF Mapped, R!Next
<1>5. CASE r = "KO"
  <2>1. R!Answer(t, "KO")
    BY <1>2, <1>3, <1>5 DEF R!Answer, R!tables
  <2> QED
    BY <2>1 DEF Mapped, R!Next
<1> QED
  BY <1>4, <1>5

LEMMA EndMapped ==
  ASSUME RInv, NEW t \in Threads, Finish(t) \/ Ko(t) \/ Report(t)
  PROVE  Mapped
<1>1. /\ Fits(pc[t], job[t]) /\ job[t] \in Jobs /\ pc[t] # "idle" /\ UNCHANGED <<rows, parent, links>>
      /\ Doing[t] = DoingOf(pc[t], job[t]) /\ Subject[t] = SubjectOf(pc[t], job[t])
  BY JobFields, Seen DEF RInv, EachFits, Finish, Ko, Report, db
<1>2. Doing[t] # "nothing"
  BY <1>1 DEF Fits, DoingOf
<1>3. CASE Goto(t, "ko") /\ UNCHANGED <<job, reply>>
  BY <1>1, <1>3, MoveUnseen, StutterMapped DEF RInv
<1>4. CASE Finish(t) /\ Answer(t, "OK")
  <2>1. job[t].asset \in Assets
    BY <1>4 DEF Finish, RInv, Inv, AssetKnown, Holding
  <2>2. Doing[t] = "create" => Subject[t] # None
    BY <1>1, <2>1, TablesAssumption DEF SubjectOf
  <2> QED
    BY <1>1, <1>2, <1>4, <2>2, AnswerMapped DEF RInv
<1>5. CASE Report(t) /\ job[t].end # "KO" /\ Answer(t, "OK")
  <2>1. Doing[t] = "delete"
    BY <1>1, <1>5 DEF Report, Fits, DoingOf
  <2> QED
    BY <1>1, <1>2, <1>5, <2>1, AnswerMapped DEF RInv
<1>6. CASE Ko(t)
  <2>1. Doing[t] = "create" /\ Threads = {t} => Subject[t] \notin rows
    <3> SUFFICES ASSUME Doing[t] = "create", Threads = {t} PROVE Subject[t] = None
      BY TablesAssumption DEF RInv, Inv, TypeOK
    <3>1. Undisturbed(rows, parent, "ko", job[t])
      BY <1>6 DEF RInv, AloneUndisturbed, Ko
    <3> QED
      BY <1>1, <1>6, <3>1 DEF Undisturbed, DoingOf, SubjectOf, Ko
  <2>2. Answer(t, "KO")
    BY <1>6 DEF Ko
  <2> QED
    BY <1>1, <1>2, <2>1, <2>2, AnswerMapped DEF RInv
<1> QED
  BY <1>3, <1>4, <1>5, <1>6 DEF Finish, Report

LEMMA UnlinkMapped ==
  ASSUME Inv, EachFits, NEW t \in Threads, Unlink(t)
  PROVE  Mapped
<1>1. /\ Fits("unlink", job[t]) /\ pc[t] = "unlink" /\ job' = job
      /\ UNCHANGED <<rows, parent, reply>>
  BY DEF EachFits, Unlink
<1>2. Doing' = Doing /\ Subject' = Subject
  BY <1>1, MoveUnseen DEF Unlink
<1>3. links' \subseteq links /\ links \ links' \subseteq job[t].seen
  BY DEF Unlink
<1>4. \A l \in job[t].seen : R!Deletes(t, l[2])
  BY <1>1, Seen DEF Fits, DoingOf, SubjectOf, R!Deletes
<1>5. R!Detach(t)
  BY <1>1, <1>2, <1>3, <1>4 DEF R!Detach
<1> QED
  BY <1>5 DEF Mapped, R!Next

LEMMA RemoveMapped ==
  ASSUME Inv, EachFits, NEW t \in Threads, Remove(t)
  PROVE  Mapped
<1>1. /\ Fits("next", job[t]) /\ job[t] \in Jobs /\ pc[t] = "next"
      /\ UNCHANGED <<rows, parent, links, reply>>
  BY JobFields DEF EachFits, Remove, db
<1>2. CASE Goto(t, "ko") /\ UNCHANGED job
  BY <1>1, <1>2, MoveUnseen, StutterMapped
<1>3. ASSUME NEW d \in rows, job[t].todo[d] > 0,
             NEW l \in {"next", "deactivate", "markNonactive", "count", "drop"}, Goto(t, l),
             \/ Set(t, Refuse(Taken(job[t], d)))
             \/ Set(t, Taken(job[t], d))
      PROVE  Mapped
  <2> DEFINE j == Taken(job[t], d)
  <2>1. j \in Jobs /\ d \in Assets
    BY <1>1, <1>3, TakenType DEF Inv, TypeOK
  <2>2. /\ j.op = job[t].op /\ j.end = job[t].end /\ j.asset = d
        /\ job[t].end = "KO" => d = job[t].asset
    BY <1>1, <1>3, <2>1, TakenFields DEF Fits
  <2>3. Refuse(j).op = j.op /\ Refuse(j).end = j.end /\ Refuse(j).asset = j.asset
    BY <2>1, RefuseFields
  <2> HIDE DEF j
  <2>4. \A k \in {j, Refuse(j)} :
          DoingOf(l, k) = DoingOf(pc[t], job[t]) /\ SubjectOf(l, k) = SubjectOf(pc[t], job[t])
    BY <1>1, <1>3, <2>2, <2>3 DEF DoingOf, SubjectOf, Fits
  <2>5. Set(t, j) \/ Set(t, Refuse(j))
    BY <1>3 DEF j
  <2>6. Doing' = Doing /\ Subject' = Subject
    BY <1>3, <2>4, <2>5, StepUnseen
  <2> QED
    BY <1>1, <2>6, StutterMapped
<1> QED
  BY <1>2, <1>3 DEF Remove, Deactivation, Erasure

LEMMA ErasureMapped ==
  ASSUME Inv, EachFits, NEW t \in Threads, Count(t) \/ Drop(t)
  PROVE  Mapped
<1> DEFINE j == job[t]
           d == j.asset
<1>1. /\ Fits(pc[t], j) /\ j \in Jobs /\ pc[t] \in {"count", "drop"} /\ d \in Assets
      /\ reply' = reply
  BY JobFields DEF EachFits, Count, Drop, Inv, AssetKnown, Holding
<1>2. /\ Refuse(j).op = j.op /\ Refuse(j).end = j.end /\ Refuse(j).asset = d
      /\ [j EXCEPT !.result[d] = "OK"].op = j.op /\ [j EXCEPT !.result[d] = "OK"].end = j.end
      /\ [j EXCEPT !.result[d] = "OK"].asset = d
  BY <1>1, RefuseFields, DroppedFields
<1>3. \A l \in {"next", "activate", "markActive"}, k \in {Refuse(j), [j EXCEPT !.result[d] = "OK"]} :
         DoingOf(l, k) = DoingOf(pc[t], j) /\ SubjectOf(l, k) = SubjectOf(pc[t], j)
  BY <1>1, <1>2 DEF DoingOf, SubjectOf
<1>4. ASSUME Set(t, Refuse(j)), NEW l \in {"next", "activate", "markActive"}, Goto(t, l), UNCHANGED db
      PROVE  Mapped
  BY <1>1, <1>3, <1>4, StepUnseen, StutterMapped DEF db
<1>5. ASSUME Droppable(d, j.sources), rows' = rows \ {d}, Write(d, None, "nonactive"),
             links' = links \ LinksTo(d), Set(t, [j EXCEPT !.result[d] = "OK"]), Goto(t, "next")
      PROVE  Mapped
  <2>1. Doing' = Doing /\ Subject' = Subject
    BY <1>3, <1>5, StepUnseen
  <2>2. R!Deletes(t, d)
    BY <1>1, Seen DEF R!Deletes, Fits, DoingOf, SubjectOf
  <2>3. d \in rows \ {RC0} /\ (\A b \in rows : parent[b] # d) /\ (\A l \in links : l[1] # d)
    BY <1>1, <1>5 DEF Fits, Holding, Droppable, Children, HasLinkedAssets
  <2>4. /\ parent' = [parent EXCEPT ![d] = None]
        /\ links' = links \ R!Into(d)
    BY <1>5 DEF Write, R!Into, LinksTo
  <2>5. R!Remove(t, d)
    BY <1>1, <1>5, <2>1, <2>2, <2>3, <2>4 DEF R!Remove
  <2> QED
    BY <1>1, <2>5 DEF Mapped, R!Next
<1>6. CASE Goto(t, "drop") /\ UNCHANGED job /\ UNCHANGED db
  BY <1>1, <1>6, MoveUnseen, StutterMapped DEF db
<1> QED
  BY <1>4, <1>5, <1>6 DEF Count, Drop, Refused, Activation

LEMMA NextMapped ==
  ASSUME RInv, [Next]_vars
  PROVE  Mapped
<1>1. ASSUME HandleIncomingLimitations \/ UNCHANGED vars
      PROVE  Mapped
  <2>1. UNCHANGED <<rows, parent, links, reply, pc, job>>
    BY <1>1 DEF HandleIncomingLimitations, vars, db
  <2>2. Doing' = Doing
    BY <2>1 DEF Doing
  <2>3. Subject' = Subject
    BY <2>1, <2>2 DEF Subject
  <2> QED
    BY <2>1, <2>2, <2>3, StutterMapped
<1>2. ASSUME NEW t \in Threads, Request(t) \/ Step(t)
      PROVE  Mapped
  BY <1>2, RequestMapped, AskMapped, InsertMapped, StoreMapped, CreditMapped, MarkActiveMapped,
     MarkNonactiveMapped, EndMapped, UnlinkMapped, RemoveMapped, ErasureMapped DEF Step, RInv
<1> QED
  BY <1>1, <1>2 DEF Next

LEMMA InitMapped == Init => R!Init
<1> SUFFICES ASSUME Init PROVE R!Init
  OBVIOUS
<1>1. /\ Doing = [t \in Threads |-> "nothing"] /\ Subject = [t \in Threads |-> None]
  <2>1. Doing = [t \in Threads |-> "nothing"]
    BY DEF Init, Doing
  <2> QED
    BY <2>1 DEF Subject
<1>2. rows \subseteq Assets /\ links \subseteq rows \X rows /\ reply = [t \in Threads |-> "none"]
  BY AgentAssumption DEF Init, Consistent
<1>3. \A a \in Assets : parent[a] # None => {a, parent[a]} \subseteq rows
  BY DEF Init, Consistent
<1> QED
  BY <1>1, <1>2, <1>3 DEF R!Init

(* The handlers implement the registry: for any assets and any number of   *)
(* threads, whatever they interleave and whatever answers of the licensing *)
(* agent are lost, what insert, update and remove do to the tables is what *)
(* one request of the registry may do, and the answer fits what was done.  *)
THEOREM Implements == Spec => ImplementsRegistry
<1>1. RInv /\ [Next]_vars => [R!Next]_R!vars
  BY NextMapped DEF Mapped
<1> QED
  BY InitR, NextR, InitMapped, <1>1, PTL DEF Spec, R!Spec, ImplementsRegistry

-----------------------------------------------------------------------------
(* When one thread serves all requests: what is lost when there are more of*)
(* them, or was only ever true of one.                                     *)
Alone == \E t \in Threads : Threads = {t}

(* What the licensing agent and the row of an asset agree on while the one *)
(* thread is at p with the job j: they differ on the asset of the job only,*)
(* between the request to the licensing agent and the write of the row.    *)
Crediting == {"activate", "markActive", "deactivate", "markNonactive"}
Credited(t, p, j) ==
  /\ p \notin Crediting => licensed = ActiveDevices
  /\ p \in Crediting =>
       /\ licensed \ {j.asset} = ActiveDevices \ {j.asset}
       /\ ~Device(j.asset) => licensed = ActiveDevices
       /\ Device(j.asset) => CanWrite(j.asset, j.parent)
  /\ p \in {"activate", "deactivate"} => Device(j.asset)
  /\ p = "markActive" /\ Device(j.asset) => j.asset \in licensed
  /\ p = "markNonactive" => j.asset \notin licensed
  /\ p \in {"activate", "markActive"} => j.op # "delete"
  /\ p = "activate" =>
       IF j.op = "update" THEN status[j.asset] = "active" /\ HasCredit(j.asset)
       ELSE status[j.asset] = "nonactive" /\ j.asset \notin licensed
  /\ p = "undo" => ~Device(j.asset)
  /\ p \in {"count", "drop"} => j.want = "nonactive" /\ status[j.asset] = "nonactive"
  /\ p = "store" =>
       /\ Device(j.asset) /\ Rises(j.asset, j.want) => HasCredit(j.asset)
       /\ (j.activation <=> Rises(j.asset, j.want)) /\ (j.deactivation <=> Falls(j.asset, j.want))
  /\ p = "ask" /\ j.op = "update" =>
       /\ j.asset \in Assets /\ j.kind = Kind[j.asset]
       /\ (j.activation <=> Rises(j.asset, j.want)) /\ (j.deactivation <=> Falls(j.asset, j.want))
       /\ j.try => Rises(j.asset, j.want) /\ t \notin Legacy
EachCredited == \A t \in Threads : Credited(t, pc[t], job[t])
AgentAlone == Alone /\ LicenceFaults = FALSE

LEMMA CreditStep ==
  ASSUME Inv, AgentAlone, NEW t \in Threads, NEW p, NEW j, Goto(t, p), Set(t, j),
         Credited(t, p, j)'
  PROVE  EachCredited'
<1>1. pc'[t] = p /\ job'[t] = j
  BY DEF Inv, TypeOK, Goto, Set
<1>2. Credited(t, pc[t], job[t])'
  BY <1>1 DEF Credited
<1> QED
  BY <1>2 DEF EachCredited, AgentAlone, Alone

LEMMA CreditMove ==
  ASSUME Inv, AgentAlone, NEW t \in Threads, NEW p, NEW j, Goto(t, p), j = job[t], job' = job,
         Credited(t, p, j)'
  PROVE  EachCredited'
<1>1. Set(t, j)
  BY DEF Inv, TypeOK, Set
<1> QED
  BY <1>1, CreditStep

(* A write changes the row of its asset, and so the active devices.        *)
LEMMA WriteDevices ==
  ASSUME Inv, NEW a \in rows, NEW p, NEW s, Write(a, p, s), rows' = rows
  PROVE  /\ Device(a) /\ s = "active" => ActiveDevices' = ActiveDevices \cup {a}
         /\ ~(Device(a) /\ s = "active") => ActiveDevices' = ActiveDevices \ {a}
         /\ status'[a] = s
<1>1. status' = [status EXCEPT ![a] = s] /\ status \in [Assets -> Statuses] /\ a \in Assets
      /\ rows \subseteq Assets
  BY DEF Inv, TypeOK, Write
<1>2. \A b \in rows : status'[b] = IF b = a THEN s ELSE status[b]
  BY <1>1
<1>3. Device(a)' = Device(a)
  BY DEF Device
<1> QED
  BY <1>1, <1>2 DEF ActiveDevices, Device

LEMMA SameTables ==
  ASSUME rows' = rows, parent' = parent, status' = status, licensed' = licensed
  PROVE  /\ ActiveDevices' = ActiveDevices
         /\ \A a, p : CanWrite(a, p)' = CanWrite(a, p)
         /\ \A a : HasCredit(a)' = HasCredit(a)
         /\ \A a, w : Rises(a, w)' = Rises(a, w) /\ Falls(a, w)' = Falls(a, w)
  BY DEF ActiveDevices, CanWrite, HasCredit, Rises, Falls, Device

LEMMA CreditRequest ==
  ASSUME RInv, AgentAlone, EachCredited, NEW t \in Threads, pc[t] = "idle", Request(t)
  PROVE  EachCredited'
<1>1. licensed = ActiveDevices
  BY DEF EachCredited, Credited, Crediting
<1>2. ASSUME UNCHANGED <<db, licensed>>
      PROVE  /\ licensed' = ActiveDevices' /\ status' = status /\ licensed' = licensed
             /\ \A a, w : Rises(a, w)' = Rises(a, w) /\ Falls(a, w)' = Falls(a, w)
  BY <1>1, <1>2, SameTables DEF db
<1>3. ASSUME NEW k, NEW p, NEW w, NEW try, NEW s, CreateAsset(t, k, p, w, try, s)
      PROVE  EachCredited'
  <2>1. PICK l, j : /\ Goto(t, l) /\ Set(t, j) /\ l \in {"ko", "ask", "insert"}
                    /\ j = CreateJob(k, p, w, try, s)
    BY <1>3 DEF CreateAsset, Receive
  <2>2. j.op = "create"
    BY <2>1 DEF CreateJob, NoJob
  <2>3. Credited(t, l, j)'
    BY <1>2, <1>3, <2>1, <2>2 DEF Credited, Crediting, CreateAsset
  <2> QED
    BY <2>1, <2>3, CreditStep DEF RInv
<1>4. ASSUME NEW a \in Assets, NEW p, NEW w, NEW try, NEW s, UpdateAsset(t, a, p, w, try, s)
      PROVE  EachCredited'
  <2>1. PICK l, j :
          /\ Goto(t, l) /\ Set(t, j)
          /\ l = IF ~configurable \/ a \notin rows THEN "ko"
                 ELSE IF Rises(a, w) \/ t \in Legacy THEN "ask" ELSE "store"
          /\ j = UpdateJob(a, p, w, try, IF t \in Legacy THEN {x[1] : x \in LinksTo(a)} ELSE s)
    BY <1>4 DEF UpdateAsset, Receive
  <2>2. /\ j.op = "update" /\ j.asset = a /\ j.kind = Kind[a] /\ j.want = w /\ j.try = try
        /\ j.activation = Rises(a, w) /\ j.deactivation = Falls(a, w)
    BY <2>1 DEF UpdateJob, NoJob
  <2>3. l = "store" => ~Rises(a, w)
    BY <2>1
  <2>4. l = "ask" /\ try => Rises(a, w) /\ t \notin Legacy
    BY <1>4, <2>1 DEF UpdateAsset
  <2>5. l \in {"ko", "ask", "store"}
    BY <2>1
  <2>6. Credited(t, l, j)'
    BY <1>2, <1>4, <2>2, <2>3, <2>4, <2>5 DEF Credited, Crediting, UpdateAsset
  <2> QED
    BY <2>1, <2>6, CreditStep DEF RInv
<1>5. ASSUME NEW l \in {"unlink", "ko"}, NEW todo, NEW end \in {"notify", "silent"}, NEW last,
             Goto(t, l), Set(t, DeleteJob(todo, end, last)), UNCHANGED <<db, licensed>>
      PROVE  EachCredited'
  <2>1. PICK j : j = DeleteJob(todo, end, last)
    OBVIOUS
  <2>2. Credited(t, l, j)'
    BY <1>2, <1>5 DEF Credited, Crediting
  <2> QED
    BY <1>5, <2>1, <2>2, CreditStep DEF RInv
<1>6. ASSUME NEW list, NEW recursive, DeleteAsset(t, list, recursive)
      PROVE  EachCredited'
  BY <1>5, <1>6 DEF DeleteAsset, Receive
<1>7. ASSUME Reset(t)
      PROVE  EachCredited'
  BY <1>5, <1>7 DEF Reset, Receive
<1> QED
  BY <1>3, <1>4, <1>6, <1>7, Zenon DEF Request

LEMMA CreditAsk ==
  ASSUME RInv, AgentAlone, EachCredited, NEW t \in Threads, Ask(t)
  PROVE  EachCredited'
<1>1. PICK j \in Jobs : j = job[t]
  BY JobFields DEF RInv
<1>2. Credited(t, "ask", j) /\ Fits("ask", j) /\ licensed = ActiveDevices
  BY <1>1 DEF EachCredited, Credited, Crediting, RInv, EachFits, Ask
<1>3. /\ licensed' = ActiveDevices' /\ status' = status
      /\ \A a : HasCredit(a)' = HasCredit(a)
      /\ \A a, w : Rises(a, w)' = Rises(a, w) /\ Falls(a, w)' = Falls(a, w)
  BY <1>2, SameTables DEF Ask, db
<1>4. Credited(t, "ko", j)' /\ \A k : Credited(t, "insert", k)'
  BY <1>3 DEF Credited, Crediting
<1>5. CASE j.op = "create"
  <2>1. \E l \in {"insert", "ko"} : Goto(t, l) /\ (UNCHANGED job \/ Set(t, Kept(t)))
    BY <1>1, <1>5 DEF Ask
  <2>2. PICK k : k = Kept(t)
    OBVIOUS
  <2>3. \E l \in {"insert", "ko"} : Goto(t, l) /\ (UNCHANGED job \/ Set(t, k))
    BY <2>1, <2>2
  <2>4. \A l \in {"insert", "ko"} : Credited(t, l, k)' /\ Credited(t, l, j)'
    BY <1>3 DEF Credited, Crediting
  <2> QED
    BY <1>1, <2>3, <2>4, CreditStep, CreditMove DEF RInv
<1>6. CASE j.op = "update"
  <2>1. \/ Goto(t, "ko") /\ UNCHANGED job
        \/ Goto(t, "store") /\ UNCHANGED job /\ (j.kind = "device" => HasCredit(j.asset))
        \/ Goto(t, "store") /\ Set(t, Kept(t)) /\ j.try
    BY <1>1, <1>6 DEF Ask
  <2>2. CASE Goto(t, "store") /\ UNCHANGED job /\ (j.kind = "device" => HasCredit(j.asset))
    <3>1. Credited(t, "store", j)'
      BY <1>2, <1>3, <1>6, <2>2 DEF Credited, Crediting, Device
    <3> QED
      BY <1>1, <2>2, <3>1, CreditMove DEF RInv
  <2>3. CASE Goto(t, "store") /\ Set(t, Kept(t)) /\ j.try
    <3>1. status[j.asset] = "nonactive" /\ t \notin Legacy
      BY <1>2, <1>6, <2>3 DEF Credited, Rises
    <3>2. PICK k : k = Kept(t)
      OBVIOUS
    <3>3. /\ k.want = "nonactive" /\ k.activation = FALSE /\ k.deactivation = FALSE
          /\ k.asset = j.asset
      <4>1. k = [j EXCEPT !.want = "nonactive", !.activation = FALSE]
        BY <1>1, <3>1, <3>2 DEF Kept
      <4>2. j.deactivation = FALSE
        BY <1>2, <1>6, <3>1 DEF Credited, Falls
      <4> QED
        BY <4>1, <4>2 DEF Jobs
    <3>4. ~Rises(k.asset, k.want) /\ ~Falls(k.asset, k.want)
      BY <3>1, <3>3 DEF Rises, Falls
    <3>5. /\ ~Rises(k.asset, k.want)' /\ ~Falls(k.asset, k.want)'
          /\ ~k.activation /\ ~k.deactivation
      BY <1>3, <3>3, <3>4
    <3>6. Credited(t, "store", k)'
      BY <1>3, <3>5 DEF Credited, Crediting
    <3> QED
      BY <2>3, <3>2, <3>6, CreditStep DEF RInv
  <2> QED
    BY <1>1, <1>4, <2>1, <2>2, <2>3, CreditMove DEF RInv
<1> QED
  BY <1>2, <1>5, <1>6 DEF Fits

LEMMA CreditInsert ==
  ASSUME RInv, RInv', AgentAlone, EachCredited, NEW t \in Threads, Insert(t)
  PROVE  EachCredited'
<1>1. /\ licensed = ActiveDevices /\ licensed' = licensed /\ job[t] \in Jobs
      /\ Fits("insert", job[t])
  BY JobFields DEF EachCredited, Credited, Crediting, Insert, RInv, EachFits
<1>2. CASE Goto(t, "ko") /\ UNCHANGED <<db, job>>
  <2>1. PICK j : j = job[t]
    OBVIOUS
  <2>2. licensed' = ActiveDevices'
    BY <1>1, <1>2, SameTables DEF db
  <2>3. Credited(t, "ko", j)'
    BY <2>2 DEF Credited, Crediting
  <2> QED
    BY <1>2, <2>1, <2>3, CreditMove DEF RInv
<1>3. ASSUME NEW a \in Assets, Insertable(a, job[t]), rows' = rows \cup {a},
             Write(a, job[t].parent, "nonactive"), Set(t, [job[t] EXCEPT !.asset = a]),
             NEW l, l = IF job[t].activation THEN Activation(a) ELSE "finish", Goto(t, l)
      PROVE  EachCredited'
  <2>1. PICK j : j = [job[t] EXCEPT !.asset = a]
    OBVIOUS
  <2>2. j.asset = a /\ j.op = "create" /\ j.parent = job[t].parent
    BY <1>1, <2>1 DEF Jobs, Fits
  <2>3. status' = [status EXCEPT ![a] = "nonactive"] /\ status \in [Assets -> Statuses]
        /\ a \notin rows /\ rows \subseteq Assets
    BY <1>3 DEF Write, Insertable, RInv, Inv, TypeOK
  <2>4. status'[a] = "nonactive" /\ ActiveDevices' = ActiveDevices /\ a \notin ActiveDevices
    BY <1>3, <2>3 DEF ActiveDevices, Device
  <2>5. CanWrite(a, j.parent)'
    BY <1>3, <2>2, <2>3, TablesAssumption DEF CanWrite, Insertable
  <2>6. l = "finish" \/ l = IF Device(a) THEN "activate" ELSE "markActive"
    BY <1>3 DEF Activation
  <2>7. Credited(t, l, j)'
    BY <1>1, <2>2, <2>4, <2>5, <2>6 DEF Credited, Crediting, Device
  <2> QED
    BY <1>3, <2>1, <2>7, CreditStep DEF RInv
<1> QED
  BY <1>2, <1>3 DEF Insert

LEMMA CreditStore ==
  ASSUME RInv, AgentAlone, EachCredited, NEW t \in Threads, Store(t)
  PROVE  EachCredited'
<1>1. PICK j \in Jobs : j = job[t]
  BY JobFields DEF RInv
<1>2. /\ Credited(t, "store", j) /\ Fits("store", j) /\ licensed = ActiveDevices
      /\ licensed' = licensed /\ job' = job /\ rows' = rows
  BY <1>1 DEF EachCredited, Credited, Crediting, RInv, EachFits, Store
<1>3. CASE Goto(t, "ko") /\ UNCHANGED <<parent, status, links>>
  <2>1. licensed' = ActiveDevices'
    BY <1>2, <1>3, SameTables
  <2>2. Credited(t, "ko", j)'
    BY <2>1 DEF Credited, Crediting
  <2> QED
    BY <1>1, <1>2, <1>3, <2>2, CreditMove DEF RInv
<1>4. ASSUME Storable(j), Write(j.asset, j.parent, j.want),
             NEW l, l = IF j.activation THEN Activation(j.asset)
                        ELSE IF j.deactivation THEN Deactivation(j.asset) ELSE "finish",
             Goto(t, l)
      PROVE  EachCredited'
  <2>1. CanWrite(j.asset, j.parent) /\ j.asset \in rows
    BY <1>4 DEF Storable, CanWrite
  <2>2. /\ Device(j.asset) /\ j.want = "active" => ActiveDevices' = ActiveDevices \cup {j.asset}
        /\ ~(Device(j.asset) /\ j.want = "active") => ActiveDevices' = ActiveDevices \ {j.asset}
        /\ status'[j.asset] = j.want /\ CanWrite(j.asset, j.parent)'
    BY <1>2, <1>4, <2>1, WriteDevices DEF RInv, CanWrite
  <2>3. /\ status[j.asset] \in Statuses /\ j.want \in Statuses
        /\ Device(j.asset) => (j.asset \in ActiveDevices <=> status[j.asset] = "active")
        /\ ~Device(j.asset) => j.asset \notin ActiveDevices
    BY <2>1 DEF RInv, Inv, TypeOK, ActiveDevices, Jobs
  <2>4. /\ j.activation <=> status[j.asset] = "nonactive" /\ j.want = "active"
        /\ j.deactivation <=> status[j.asset] = "active" /\ j.want = "nonactive"
        /\ j.op = "update"
    BY <1>2 DEF Credited, Rises, Falls, Fits
  <2>5. HasCredit(j.asset)' = HasCredit(j.asset)
    BY <1>2 DEF HasCredit
  <2>6. CASE j.activation
    <3>1. l = IF Device(j.asset) THEN "activate" ELSE "markActive"
      BY <1>4, <2>6 DEF Activation
    <3>2. Device(j.asset) => HasCredit(j.asset)
      BY <1>2, <2>4, <2>6 DEF Credited, Rises
    <3>3. /\ ActiveDevices' \ {j.asset} = ActiveDevices \ {j.asset}
          /\ ~Device(j.asset) => ActiveDevices' = ActiveDevices
          /\ status'[j.asset] = "active" /\ Device(j.asset)' = Device(j.asset)
      BY <2>2, <2>3, <2>4, <2>6 DEF Device
    <3>4. Credited(t, l, j)'
      BY <1>2, <2>2, <2>4, <2>5, <3>1, <3>2, <3>3 DEF Credited, Crediting
    <3> QED
      BY <1>1, <1>2, <1>4, <3>4, CreditMove DEF RInv
  <2>7. CASE ~j.activation /\ j.deactivation
    <3>1. l = IF Device(j.asset) THEN "deactivate" ELSE "markNonactive"
      BY <1>4, <2>7 DEF Deactivation
    <3>2. Credited(t, l, j)'
      BY <1>2, <2>2, <2>3, <2>4, <2>7, <3>1 DEF Credited, Crediting, Device
    <3> QED
      BY <1>1, <1>2, <1>4, <3>2, CreditMove DEF RInv
  <2>8. CASE ~j.activation /\ ~j.deactivation
    <3>1. l = "finish"
      BY <1>4, <2>8
    <3>2. ActiveDevices' = ActiveDevices
      BY <2>2, <2>3, <2>4, <2>8 DEF Statuses
    <3>3. Credited(t, l, j)'
      BY <1>2, <3>1, <3>2 DEF Credited, Crediting
    <3> QED
      BY <1>1, <1>2, <1>4, <3>3, CreditMove DEF RInv
  <2> QED
    BY <2>6, <2>7, <2>8
<1> QED
  BY <1>1, <1>3, <1>4 DEF Store

LEMMA CreditUndo ==
  ASSUME RInv, AgentAlone, EachCredited, NEW t \in Threads, Undo(t)
  PROVE  EachCredited'
<1>1. PICK j \in Jobs : j = job[t]
  BY JobFields DEF RInv
<1>2. /\ Credited(t, "undo", j) /\ licensed = ActiveDevices /\ licensed' = licensed
      /\ rows' = rows /\ job' = job /\ Goto(t, "ko")
  BY <1>1 DEF EachCredited, Credited, Crediting, Undo
<1>3. ActiveDevices' = ActiveDevices
  <2>1. CASE Storable(j) /\ Write(j.asset, j.parent, "nonactive")
    BY <1>2, <2>1, WriteDevices DEF Storable, CanWrite, Credited, RInv, ActiveDevices
  <2>2. CASE UNCHANGED <<parent, status, links>>
    BY <1>2, <2>2, SameTables
  <2> QED
    BY <1>1, <2>1, <2>2 DEF Undo
<1>4. Credited(t, "ko", j)'
  BY <1>2, <1>3 DEF Credited, Crediting
<1> QED
  BY <1>1, <1>2, <1>4, CreditMove DEF RInv

LEMMA CreditGranted ==
  ASSUME RInv, AgentAlone, EachCredited, NEW t \in Threads, Activate(t) \/ Deactivate(t)
  PROVE  EachCredited'
<1>1. PICK j \in Jobs : j = job[t]
  BY JobFields DEF RInv
<1>2. /\ Credited(t, pc[t], j) /\ job' = job /\ UNCHANGED db /\ LicenceFaults = FALSE
      /\ pc[t] \in Crediting
  BY <1>1 DEF EachCredited, Activate, Deactivate, AgentAlone, Alone, Crediting
<1>3. /\ ActiveDevices' = ActiveDevices /\ \A a, p : CanWrite(a, p)' = CanWrite(a, p)
      /\ \A a : Device(a)' = Device(a)
  BY <1>2 DEF db, ActiveDevices, CanWrite, Device
<1>4. licensed \ {j.asset} = ActiveDevices \ {j.asset} /\ (Device(j.asset) => CanWrite(j.asset, j.parent))
  BY <1>2 DEF Credited
<1>5. CASE Activate(t) /\ HasCredit(j.asset)
  <2>1. /\ pc[t] = "activate" /\ Goto(t, "markActive") /\ licensed' = licensed \cup {j.asset}
        /\ Device(j.asset) /\ j.op # "delete"
    BY <1>1, <1>2, <1>5 DEF Activate, Credited
  <2>2. licensed' \ {j.asset} = ActiveDevices' \ {j.asset}
    BY <1>3, <1>4, <2>1
  <2>3. Credited(t, "markActive", j)'
    BY <1>3, <1>4, <2>1, <2>2 DEF Credited, Crediting
  <2> QED
    BY <1>1, <1>2, <2>1, <2>3, CreditMove DEF RInv
<1>6. CASE Activate(t) /\ ~HasCredit(j.asset)
  <2>1. pc[t] = "activate" /\ Goto(t, Activated(j)) /\ licensed' = licensed
    BY <1>1, <1>6 DEF Activate
  <2>2. j.op # "delete" /\ status[j.asset] = "nonactive" /\ j.asset \notin licensed
    BY <1>2, <1>6, <2>1 DEF Credited
  <2>3. Activated(j) = "finish" /\ j.asset \notin ActiveDevices
    BY <2>2 DEF Activated, ActiveDevices
  <2>4. licensed' = ActiveDevices'
    BY <1>3, <1>4, <2>1, <2>2, <2>3
  <2>5. Credited(t, "finish", j)'
    BY <2>4 DEF Credited, Crediting
  <2> QED
    BY <1>1, <1>2, <2>1, <2>3, <2>5, CreditMove DEF RInv
<1>7. CASE Deactivate(t)
  <2>1. /\ pc[t] = "deactivate" /\ Goto(t, "markNonactive") /\ licensed' = licensed \ {j.asset}
        /\ Device(j.asset)
    BY <1>1, <1>2, <1>7 DEF Deactivate, Credited
  <2>2. licensed' \ {j.asset} = ActiveDevices' \ {j.asset} /\ j.asset \notin licensed'
    BY <1>3, <1>4, <2>1
  <2>3. Credited(t, "markNonactive", j)'
    BY <1>3, <1>4, <2>1, <2>2 DEF Credited, Crediting
  <2> QED
    BY <1>1, <1>2, <2>1, <2>3, CreditMove DEF RInv
<1> QED
  BY <1>5, <1>6, <1>7

LEMMA CreditMarked ==
  ASSUME RInv, AgentAlone, EachCredited, NEW t \in Threads, MarkActive(t) \/ MarkNonactive(t)
  PROVE  EachCredited'
<1>1. PICK old \in Jobs : old = job[t]
  BY JobFields DEF RInv
<1>2. /\ Credited(t, pc[t], old) /\ rows' = rows /\ licensed' = licensed
      /\ pc[t] \in {"markActive", "markNonactive"}
  BY <1>1 DEF EachCredited, MarkActive, MarkNonactive
<1>w. PICK w : /\ w \in {"active", "nonactive"}
               /\ w = IF pc[t] = "markActive" THEN "active" ELSE "nonactive"
  OBVIOUS
<1>3. PICK j : /\ j = [old EXCEPT !.want = w]
               /\ w \in {"active", "nonactive"}
               /\ w = IF pc[t] = "markActive" THEN "active" ELSE "nonactive"
  BY <1>w
<1>4. /\ j \in Jobs /\ j.asset = old.asset /\ j.op = old.op /\ j.parent = old.parent /\ j.want = w
  BY <1>3 DEF Jobs, Statuses
<1>5. /\ licensed \ {j.asset} = ActiveDevices \ {j.asset}
      /\ ~Device(j.asset) => licensed = ActiveDevices
      /\ Device(j.asset) => CanWrite(j.asset, j.parent)
      /\ pc[t] = "markActive" => j.op # "delete"
      /\ pc[t] = "markActive" /\ Device(j.asset) => j.asset \in licensed
      /\ pc[t] = "markNonactive" => j.asset \notin licensed
  BY <1>2, <1>4 DEF Credited, Crediting
<1>6. CASE CanWrite(j.asset, j.parent)
  <2>1. Write(j.asset, j.parent, w) /\ Set(t, j)
        /\ Goto(t, IF pc[t] = "markActive" THEN Activated(j) ELSE Deactivated(j))
    BY <1>1, <1>3, <1>6 DEF MarkActive, MarkNonactive
  <2>2. PICK l \in {"finish", "count", "drop"} :
          Goto(t, l) /\ (l # "finish" => pc[t] = "markNonactive")
    BY <1>2, <1>5, <2>1 DEF Activated, Deactivated, Erasure
  <2>3. /\ Device(j.asset) /\ w = "active" => ActiveDevices' = ActiveDevices \cup {j.asset}
        /\ ~(Device(j.asset) /\ w = "active") => ActiveDevices' = ActiveDevices \ {j.asset}
        /\ status'[j.asset] = w
    BY <1>2, <1>6, <2>1, WriteDevices DEF CanWrite, RInv
  <2>4. ~Device(j.asset) => j.asset \notin ActiveDevices
    BY DEF ActiveDevices
  <2>5. licensed' = ActiveDevices'
    BY <1>2, <1>3, <1>5, <2>3, <2>4
  <2>6. l # "finish" => j.want = "nonactive" /\ status'[j.asset] = "nonactive"
    BY <1>3, <1>4, <2>2, <2>3
  <2>7. Credited(t, l, j)'
    BY <2>5, <2>6 DEF Credited, Crediting
  <2> QED
    BY <2>1, <2>2, <2>7, CreditStep DEF RInv
<1>7. CASE ~CanWrite(j.asset, j.parent)
  <2>1. ~Device(j.asset) /\ UNCHANGED <<parent, status>>
    BY <1>1, <1>3, <1>5, <1>7 DEF MarkActive, MarkNonactive
  <2>2. licensed' = ActiveDevices'
    BY <1>2, <1>5, <2>1, SameTables
  <2>3. \E l \in {"undo", "unlink", "ko", "next"} :
          Goto(t, l) /\ (Set(t, j) \/ Set(t, GivenUp(j)) \/ Set(t, Refuse(j)))
                     /\ (l = "undo" => Set(t, j))
    BY <1>1, <1>3, <1>5, <1>7, <2>1 DEF MarkActive, MarkNonactive
  <2>4. PICK l, k :
          l \in {"undo", "unlink", "ko", "next"} /\ Goto(t, l) /\ Set(t, k) /\ (l = "undo" => k = j)
    BY <2>3
  <2>5. Credited(t, l, k)'
    BY <2>1, <2>2, <2>4 DEF Credited, Crediting, Device
  <2> QED
    BY <2>4, <2>5, CreditStep DEF RInv
<1> QED
  BY <1>6, <1>7

LEMMA CreditAnswer ==
  ASSUME RInv, AgentAlone, EachCredited, NEW t \in Threads,
         Finish(t) \/ Ko(t) \/ Report(t) \/ Unlink(t)
  PROVE  EachCredited'
<1>1. /\ licensed = ActiveDevices /\ licensed' = licensed
      /\ rows' = rows /\ status' = status /\ parent' = parent
  BY DEF EachCredited, Credited, Crediting, Finish, Ko, Report, Unlink, db
<1>2. PICK l, j : l \in {"idle", "ko", "next"} /\ Goto(t, l) /\ Set(t, j)
  <2>1. job' = job => Set(t, job[t])
    BY DEF Set, RInv, Inv, TypeOK
  <2> QED
    BY <2>1 DEF Finish, Ko, Report, Unlink, Answer
<1>3. Credited(t, l, j)'
  BY <1>1, <1>2, SameTables DEF Credited, Crediting
<1> QED
  BY <1>2, <1>3, CreditStep DEF RInv

LEMMA CreditRemove ==
  ASSUME RInv, AgentAlone, EachCredited, NEW t \in Threads, Remove(t)
  PROVE  EachCredited'
<1>1. /\ licensed = ActiveDevices /\ licensed' = licensed /\ UNCHANGED db /\ job[t] \in Jobs
  BY JobFields DEF EachCredited, Credited, Crediting, Remove, RInv
<1>2. /\ licensed' = ActiveDevices' /\ \A a, p : CanWrite(a, p)' = CanWrite(a, p)
      /\ status' = status
  BY <1>1, SameTables DEF db
<1>3. ASSUME NEW l \in {"ko", "next"}, NEW j, Goto(t, l), Set(t, j)
      PROVE  EachCredited'
  <2>1. Credited(t, l, j)'
    BY <1>2 DEF Credited, Crediting
  <2> QED
    BY <1>3, <2>1, CreditStep DEF RInv
<1>4. CASE Goto(t, "ko") /\ UNCHANGED job
  <2>1. Set(t, job[t])
    BY <1>4 DEF Set, RInv, Inv, TypeOK
  <2> QED
    BY <1>3, <1>4, <2>1
<1>5. ASSUME NEW d \in rows, job[t].todo[d] > 0, Removable(d), Set(t, Taken(job[t], d)),
             Goto(t, IF status[d] = "active" THEN Deactivation(d) ELSE Erasure(Taken(job[t], d)))
      PROVE  EachCredited'
  <2>1. PICK l, j : /\ Goto(t, l) /\ Set(t, j) /\ j = Taken(job[t], d)
                    /\ l = IF status[d] = "active"
                           THEN (IF Device(d) THEN "deactivate" ELSE "markNonactive")
                           ELSE Erasure(j)
    BY <1>5 DEF Deactivation
  <2>2. j.asset = d /\ j.parent = parent[d] /\ j.want = status[d]
    BY <1>1, <1>5, <2>1, TakenFields DEF Taken, Jobs, RInv
  <2>3. CanWrite(d, parent[d]) /\ status[d] \in {"active", "nonactive"}
    BY <1>5 DEF CanWrite, Removable, Children, RInv, NoDanglingReference, Inv, TypeOK, Statuses
  <2>4. ~Device(d) => d \notin ActiveDevices
    BY DEF ActiveDevices
  <2>6. Erasure(j) \in {"count", "drop"}
    BY DEF Erasure
  <2>5. Credited(t, l, j)'
    BY <1>1, <1>2, <2>1, <2>2, <2>3, <2>4, <2>6 DEF Credited, Crediting, Device
  <2> QED
    BY <2>1, <2>5, CreditStep DEF RInv
<1> QED
  BY <1>3, <1>4, <1>5 DEF Remove

LEMMA CreditErasure ==
  ASSUME RInv, AgentAlone, EachCredited, NEW t \in Threads, Count(t) \/ Drop(t)
  PROVE  EachCredited'
<1>1. PICK j \in Jobs : j = job[t]
  BY JobFields DEF RInv
<1>2. /\ licensed = ActiveDevices /\ licensed' = licensed /\ j.want = "nonactive"
      /\ status[j.asset] = "nonactive"
  BY <1>1 DEF EachCredited, Credited, Crediting, Count, Drop
<1>3. \E l, k : /\ l \in {"next", "drop"} /\ Goto(t, l) /\ Set(t, k)
                /\ l = "drop" => k = j /\ status' = status
  <2>1. job' = job => Set(t, j)
    BY <1>1 DEF Set, RInv, Inv, TypeOK
  <2> QED
    BY <1>1, <1>2, <2>1 DEF Count, Drop, Refused, db
<1>4. ActiveDevices' = ActiveDevices
  <2>1. CASE rows' = rows \ {j.asset} /\ Write(j.asset, None, "nonactive")
    <3>1. status' = [status EXCEPT ![j.asset] = "nonactive"] /\ status \in [Assets -> Statuses]
          /\ rows \subseteq Assets
      BY <2>1 DEF Write, RInv, Inv, TypeOK
    <3>2. \A b \in rows' : status'[b] = status[b]
      BY <2>1, <3>1
    <3> QED
      BY <1>2, <2>1, <3>2 DEF ActiveDevices, Device
  <2>2. CASE UNCHANGED db
    BY <2>2 DEF db, ActiveDevices, Device
  <2> QED
    BY <1>1, <2>1, <2>2 DEF Count, Drop
<1>5. \A l, k : l \in {"next", "drop"} /\ (l = "drop" => k = j /\ status' = status)
              => Credited(t, l, k)'
  BY <1>2, <1>4 DEF Credited, Crediting
<1> QED
  BY <1>3, <1>5, CreditStep DEF RInv

(* With one thread, and a licensing agent that answers, a device holds a   *)
(* credit exactly when its row is active, once its request is answered:    *)
(* for any assets, requests and licence, and whatever is refused.          *)
THEOREM CreditsStayEqual ==
  ASSUME AgentAlone
  PROVE  Spec => []CreditsAgree
<1>1. Init => RInv /\ EachCredited
  <2>1. ASSUME Init
        PROVE  EachCredited
    BY <2>1 DEF Init, Consistent, EachCredited, Credited, Crediting
  <2> QED
    BY <2>1, InitR
<1>2. RInv /\ EachCredited /\ [Next]_vars => EachCredited'
  <2>1. ASSUME EachCredited, HandleIncomingLimitations \/ UNCHANGED vars
        PROVE  EachCredited'
    BY <2>1 DEF HandleIncomingLimitations, vars, db, EachCredited, Credited, ActiveDevices, CanWrite,
       HasCredit, Rises, Falls, Device
  <2>2. ASSUME RInv, EachCredited, NEW t \in Threads, Request(t)
        PROVE  EachCredited'
    BY <2>2, CreditRequest DEF Request
  <2>3. ASSUME RInv, RInv', EachCredited, NEW t \in Threads, Step(t)
        PROVE  EachCredited'
    BY <2>3, CreditAsk, CreditInsert, CreditStore, CreditUndo, CreditGranted, CreditMarked,
       CreditAnswer, CreditRemove, CreditErasure DEF Step
  <2> QED
    BY <2>1, <2>2, <2>3, NextR DEF Next
<1>3. EachCredited => CreditsAgree
  BY DEF AgentAlone, Alone, EachCredited, Credited, Crediting, CreditsAgree, Idle
<1> QED
  BY <1>1, <1>2, <1>3, NextR, PTL DEF Spec

-----------------------------------------------------------------------------
(* What the notifications have left to tell while the one thread is at p   *)
(* with the job j: the asset that a create has made, or those that a       *)
(* delete has removed, each of which was in its list once.                 *)
Known == {a \in Assets : view[a] # "absent"}
Told(p, j) ==
  /\ p \in {"ko", "idle"} \/ j.op = "update" => rows = Known
  /\ j.op = "create" => rows = Known \cup ({j.asset} \cap Assets)
  /\ j.op = "delete" =>
       /\ j.end = "notify"
       /\ \A d \in Assets : j.todo[d] > 0 => j.todo[d] = 1 /\ d \in rows
       /\ p # "ko" => rows = {d \in Known : j.result[d] # "OK"}
       /\ p \in Holding => j.asset \in rows /\ j.todo[j.asset] = 0
EachTold == \A t \in Threads : Told(pc[t], job[t])

LEMMA ToldStep ==
  ASSUME Inv, Alone, NEW t \in Threads, NEW p, NEW j, Goto(t, p), Set(t, j), Told(p, j)'
  PROVE  EachTold'
<1>1. pc'[t] = p /\ job'[t] = j
  BY DEF Inv, TypeOK, Goto, Set
<1> QED
  BY <1>1 DEF EachTold, Alone, Told

LEMMA ToldQuietly ==
  ASSUME Inv, Alone, NEW t \in Threads, NEW p, NEW j, Goto(t, p),
         Set(t, j) \/ (j = job[t] /\ UNCHANGED job),
         Told(p, j), rows' = rows, view' = view
  PROVE  EachTold'
<1>1. Set(t, j)
  BY DEF Inv, TypeOK, Set
<1>2. Told(p, j)'
  BY DEF Told, Known
<1> QED
  BY <1>1, <1>2, ToldStep

LEMMA ToldRequest ==
  ASSUME RInv, Alone, EachTold, Srr = {}, Overlap = FALSE, NEW t \in Threads, pc[t] = "idle", Request(t)
  PROVE  EachTold'
<1>1. rows = Known
  BY DEF EachTold, Told
<1>2. ASSUME NEW k, NEW p, NEW w, NEW try, NEW s, CreateAsset(t, k, p, w, try, s)
      PROVE  EachTold'
  <2>1. PICK l, j : /\ Goto(t, l) /\ Set(t, j) /\ l \in {"ko", "ask", "insert"}
                    /\ j = CreateJob(k, p, w, try, s)
    BY <1>2 DEF CreateAsset, Receive
  <2>2. j.op = "create" /\ j.asset = None
    BY <2>1 DEF CreateJob, NoJob
  <2>3. Told(l, j)
    BY <1>1, <2>2, TablesAssumption DEF Told
  <2> QED
    BY <1>2, <2>1, <2>3, ToldQuietly DEF CreateAsset, db, RInv
<1>3. ASSUME NEW a, NEW p, NEW w, NEW try, NEW s, UpdateAsset(t, a, p, w, try, s)
      PROVE  EachTold'
  <2>1. PICK l, j : /\ Goto(t, l) /\ Set(t, j)
                    /\ j = UpdateJob(a, p, w, try, IF t \in Legacy THEN {x[1] : x \in LinksTo(a)} ELSE s)
    BY <1>3 DEF UpdateAsset, Receive
  <2>2. j.op = "update"
    BY <2>1 DEF UpdateJob, NoJob
  <2>3. Told(l, j)
    BY <1>1, <2>2 DEF Told
  <2> QED
    BY <1>3, <2>1, <2>3, ToldQuietly DEF UpdateAsset, db, RInv
<1>4. ASSUME NEW n \in 1 .. 2, NEW list \in [1 .. n -> Assets], NEW recursive \in BOOLEAN,
             DeleteAsset(t, list, recursive)
      PROVE  EachTold'
  <2>1. PICK todo : todo = ToDel(list, recursive) /\ todo \in [Assets -> Nat]
    BY ToDelType
  <2>2. PICK l, j : /\ Goto(t, l) /\ Set(t, j) /\ l \in {"unlink", "ko"}
                    /\ j = DeleteJob(todo, "notify", FALSE)
    BY <1>4, <2>1 DEF DeleteAsset, Receive
  <2>3. /\ j.op = "delete" /\ j.end = "notify" /\ j.todo = todo
        /\ j.result = [a \in Assets |-> "none"]
    BY <2>2 DEF DeleteJob, NoJob
  <2>4. ASSUME NEW d \in Assets, todo[d] > 0
        PROVE  todo[d] = 1 /\ d \in rows
    <3>1. todo[d] <= 1 /\ todo[d] \in Nat
      BY <1>4, <2>1 DEF DeleteAsset
    <3>2. todo[d] = Cardinality({i \in DOMAIN list : list[i] = d /\ Listed(list, i)})
                    + IF recursive /\ Below(list, d) THEN 1 ELSE 0
      BY <2>1 DEF ToDel
    <3>3. CASE d \notin rows
      <4>1. {i \in DOMAIN list : list[i] = d /\ Listed(list, i)} = {}
        BY <3>3 DEF Listed
      <4>2. Cardinality({i \in DOMAIN list : list[i] = d /\ Listed(list, i)}) = 0
        BY <4>1, FS_EmptySet
      <4>3. (IF recursive /\ Below(list, d) THEN 1 ELSE 0) = 0
        BY <3>3 DEF Below, SubTree
      <4>4. todo[d] = 0
        BY <3>2, <4>2, <4>3
      <4> QED
        BY <2>4, <4>4
    <3> QED
      BY <2>4, <3>1, <3>3
  <2>5. Known \subseteq Assets /\ \A d \in Assets : j.result[d] = "none"
    BY <2>3 DEF Known
  <2>6. Told(l, j)
    BY <1>1, <2>2, <2>3, <2>4, <2>5 DEF Told, Holding
  <2> QED
    BY <1>4, <2>2, <2>6, ToldQuietly DEF DeleteAsset, db, RInv
<1> QED
  BY <1>2, <1>3, <1>4, Zenon DEF Request

(* Steps that leave the rows alone.                                        *)
LEMMA ToldAsk ==
  ASSUME RInv, Alone, EachTold, NEW t \in Threads, Ask(t)
  PROVE  EachTold'
<1>1. PICK j \in Jobs : j = job[t]
  BY JobFields DEF RInv
<1>2. Told("ask", j) /\ Fits("ask", j) /\ rows' = rows /\ view' = view
  BY <1>1 DEF EachTold, RInv, EachFits, Ask, db
<1>3. j.op \in {"create", "update"} /\ (j.op = "create" => j.asset = None)
  BY <1>2 DEF Fits
<1>4. PICK k, l : /\ Goto(t, l) /\ (Set(t, k) \/ (k = job[t] /\ UNCHANGED job))
                  /\ k = j \/ k = Kept(t)
  BY <1>1 DEF Ask
<1>5. k.op = j.op /\ k.asset = j.asset
  BY <1>1, <1>4, KeptFields
<1>6. Told(l, k)
  BY <1>2, <1>3, <1>5, TablesAssumption DEF Told
<1> QED
  BY <1>2, <1>4, <1>6, ToldQuietly DEF RInv

LEMMA ToldUpdate ==
  ASSUME RInv, Alone, EachTold, NEW t \in Threads, Store(t) \/ Undo(t)
  PROVE  EachTold'
<1>1. PICK l : Goto(t, l)
  BY DEF Store, Undo
<1>2. job[t].op = "update" /\ rows' = rows /\ view' = view /\ UNCHANGED job
  BY DEF Store, Undo, RInv, EachFits, Fits
<1>3. Told(l, job[t])
  BY <1>2 DEF EachTold, Told
<1> QED
  BY <1>1, <1>2, <1>3, ToldQuietly DEF RInv

LEMMA ToldCredit ==
  ASSUME RInv, Alone, EachTold, NEW t \in Threads, Activate(t) \/ Deactivate(t)
  PROVE  EachTold'
<1>1. PICK l : Goto(t, l) /\ l \in {"markActive", "markNonactive", "next", "count", "drop", "finish"}
  BY DEF Activate, Deactivate, Activated, Deactivated, Erasure
<1>2. rows' = rows /\ view' = view /\ UNCHANGED job /\ pc[t] \in Holding \ {"ko"}
  BY DEF Activate, Deactivate, db, Holding
<1>3. Told(pc[t], job[t])
  BY DEF EachTold
<1>4. Told(l, job[t])
  BY <1>1, <1>2, <1>3 DEF Told, Holding
<1> QED
  BY <1>1, <1>2, <1>4, ToldQuietly DEF RInv

LEMMA ToldMarks ==
  ASSUME RInv, Alone, EachTold, NEW t \in Threads, MarkActive(t) \/ MarkNonactive(t)
  PROVE  EachTold'
<1>1. PICK j \in Jobs : j = job[t]
  BY JobFields DEF RInv
<1>2. /\ Told(pc[t], j) /\ Fits(pc[t], j) /\ pc[t] \in Holding \ {"ko"} /\ rows' = rows /\ view' = view
      /\ Undisturbed(rows, parent, pc[t], j) /\ j.asset \in Assets
  BY <1>1 DEF EachTold, RInv, EachFits, AloneUndisturbed, Alone, MarkActive, MarkNonactive, Holding, Inv, AssetKnown
<1>3. PICK w \in Statuses : w = IF MarkActive(t) THEN "active" ELSE "nonactive"
  BY DEF Statuses
<1>4. PICK k \in Jobs : k = [j EXCEPT !.want = w]
  BY <1>3, WantType
<1>5. /\ k.op = j.op /\ k.end = j.end /\ k.asset = j.asset /\ k.todo = j.todo /\ k.parent = j.parent
      /\ k.result = j.result
  BY <1>4 DEF Jobs
<1>6. j.op = "create" => CanWrite(j.asset, j.parent)
  BY <1>2 DEF Undisturbed, CanWrite
<1>7. PICK l, m : /\ Goto(t, l) /\ Set(t, m) /\ l \in {"count", "drop", "finish", "next", "undo", "ko"}
                  /\ m = k \/ (m = Refuse(k) /\ j.op = "delete")
                  /\ l = "ko" => j.op = "update"
  <2>1. CASE MarkActive(t)
    BY <1>1, <1>3, <1>4, <1>5, <1>6, <2>1, SMTT(40) DEF MarkActive, Activated
  <2>2. CASE ~MarkActive(t)
    BY <1>1, <1>3, <1>4, <1>5, <1>6, <2>2 DEF MarkNonactive, Deactivated, Erasure
  <2> QED
    BY <2>1, <2>2
<1>8. /\ m.op = j.op /\ m.end = j.end /\ m.asset = j.asset /\ m.todo = j.todo
      /\ m.result = j.result \/ (j.op = "delete" /\ m.result = [j.result EXCEPT ![j.asset] = "refused"])
  <2>1. Refuse(k).result = [k.result EXCEPT ![k.asset] = "refused"]
    BY DEF Refuse, Jobs
  <2> QED
    BY <1>5, <1>7, <2>1, RefuseFields
<1>9. j.op = "delete" => {d \in Known : m.result[d] # "OK"} = {d \in Known : j.result[d] # "OK"}
  <2>1. j.op = "delete" => j.asset \in rows /\ rows = {d \in Known : j.result[d] # "OK"}
    BY <1>2 DEF Told
  <2>2. j.result \in [Assets -> {"none", "OK", "refused"}]
    BY DEF Jobs
  <2>3. j.op = "delete" => \A d \in Known : m.result[d] # "OK" <=> j.result[d] # "OK"
    BY <1>8, <2>1, <2>2 DEF Known
  <2> QED
    BY <2>3
<1>10. Told(l, m)
  BY <1>2, <1>7, <1>8, <1>9 DEF Told, Holding
<1> QED
  BY <1>2, <1>7, <1>10, ToldQuietly DEF RInv

LEMMA ToldUnlink ==
  ASSUME RInv, Alone, EachTold, NEW t \in Threads, Unlink(t)
  PROVE  EachTold'
<1>1. Told("unlink", job[t]) /\ job[t].op = "delete" /\ rows' = rows /\ view' = view /\ UNCHANGED job
  BY DEF EachTold, RInv, EachFits, Fits, Unlink
<1>2. {d \in Assets : job[t].todo[d] > 0} \subseteq rows
  BY <1>1 DEF Told
<1>3. Goto(t, "next")
  BY <1>2 DEF Unlink
<1>4. Told("next", job[t])
  BY <1>1 DEF Told, Holding
<1> QED
  BY <1>1, <1>3, <1>4, ToldQuietly DEF RInv

LEMMA ToldRemove ==
  ASSUME RInv, Alone, EachTold, NEW t \in Threads, Remove(t)
  PROVE  EachTold'
<1>1. PICK j \in Jobs : j = job[t]
  BY JobFields DEF RInv
<1>2. Told("next", j) /\ j.op = "delete" /\ rows' = rows /\ view' = view
  BY <1>1 DEF EachTold, RInv, EachFits, Fits, Remove, db
<1>3. PICK d \in Assets : /\ j.todo[d] > 0
                          /\ \/ d \notin rows
                             \/ Set(t, Refuse(Taken(j, d))) /\ Goto(t, "next")
                             \/ /\ Set(t, Taken(j, d))
                                /\ Goto(t, IF status[d] = "active" THEN Deactivation(d)
                                           ELSE Erasure(Taken(j, d)))
  BY <1>1 DEF Remove
<1>4. d \in rows /\ j.todo[d] = 1 /\ d \in Known
  BY <1>2, <1>3 DEF Told
<1>5. PICK k \in Jobs : k = Taken(j, d)
  BY <1>3, <1>4, TakenType DEF RInv
<1>6. /\ k.op = "delete" /\ k.end = "notify" /\ k.asset = d /\ k.result = j.result
      /\ \A e \in Assets : k.todo[e] = IF e = d THEN 0 ELSE j.todo[e]
  <2>1. k.op = "delete" /\ k.end = "notify" /\ k.asset = d
    BY <1>2, <1>3, <1>4, <1>5, TakenFields DEF RInv, Told
  <2>2. k.result = j.result /\ k.todo = [j.todo EXCEPT ![d] = @ - 1]
    BY <1>5 DEF Taken, Jobs
  <2>3. j.todo \in [Assets -> Nat]
    BY DEF Jobs
  <2> QED
    BY <1>4, <2>1, <2>2, <2>3
<1>7. PICK l, m : /\ Goto(t, l) /\ Set(t, m) /\ l # "ko"
                  /\ m = k \/ m = Refuse(k)
  BY <1>3, <1>4, <1>5 DEF Deactivation, Erasure
<1>8. /\ m.op = "delete" /\ m.end = "notify" /\ m.asset = d /\ m.todo = k.todo
      /\ m.result = j.result \/ m.result = [j.result EXCEPT ![d] = "refused"]
  <2>1. Refuse(k).result = [k.result EXCEPT ![k.asset] = "refused"]
    BY DEF Refuse, Jobs
  <2> QED
    BY <1>6, <1>7, <2>1, RefuseFields
<1>9. {e \in Known : m.result[e] # "OK"} = {e \in Known : j.result[e] # "OK"}
  <2>1. j.result \in [Assets -> {"none", "OK", "refused"}] /\ j.result[d] # "OK"
    BY <1>2, <1>4 DEF Jobs, Told
  <2>2. \A e \in Known : m.result[e] # "OK" <=> j.result[e] # "OK"
    BY <1>8, <2>1 DEF Known
  <2> QED
    BY <2>2
<1>10. l = "idle" => FALSE
  BY <1>3, <1>4, <1>7 DEF Deactivation, Erasure, Goto, RInv, Inv, TypeOK
<1>11. Told(l, m)
  BY <1>2, <1>4, <1>6, <1>7, <1>8, <1>9, <1>10 DEF Told
<1> QED
  BY <1>2, <1>7, <1>11, ToldQuietly DEF RInv

(* The steps that change the rows, or tell.                                *)
LEMMA ToldInsert ==
  ASSUME RInv, Alone, EachTold, NEW t \in Threads, Insert(t)
  PROVE  EachTold'
<1>1. PICK j \in Jobs : j = job[t]
  BY JobFields DEF RInv
<1>2. Told("insert", j) /\ j.op = "create" /\ j.asset = None /\ view' = view
  BY <1>1 DEF EachTold, RInv, EachFits, Fits, Insert
<1>3. rows = Known /\ Known' = Known
  BY <1>2, TablesAssumption DEF Told, Known
<1>4. ASSUME NEW a \in Assets, rows' = rows \cup {a}, Set(t, [j EXCEPT !.asset = a]),
             NEW l, l \notin {"ko", "idle"}, Goto(t, l)
      PROVE  EachTold'
  <2>1. PICK k : k = [j EXCEPT !.asset = a]
    OBVIOUS
  <2>2. k.op = "create" /\ k.asset = a
    BY <1>2, <2>1 DEF Jobs
  <2>3. Told(l, k)'
    BY <1>3, <1>4, <2>2 DEF Told
  <2> QED
    BY <1>4, <2>1, <2>3, ToldStep DEF RInv
<1>5. CASE Goto(t, "ko") /\ UNCHANGED <<db, job>>
  <2>1. Told("ko", j)
    BY <1>2, <1>3, TablesAssumption DEF Told
  <2> QED
    BY <1>1, <1>2, <1>5, <2>1, ToldQuietly DEF db, RInv
<1>6. \A a : (IF j.activation THEN Activation(a) ELSE "finish") \notin {"ko", "idle"}
  BY DEF Activation
<1> QED
  BY <1>1, <1>4, <1>5, <1>6 DEF Insert

LEMMA ToldErasure ==
  ASSUME RInv, Alone, EachTold, NEW t \in Threads, Count(t) \/ Drop(t)
  PROVE  EachTold'
<1>1. PICK j \in Jobs : j = job[t]
  BY JobFields DEF RInv
<1>2. PICK d : d = j.asset
  OBVIOUS
<1>3. Told("drop", j) /\ j.op = "delete" /\ view' = view /\ Known' = Known
  BY <1>1 DEF EachTold, Told, Holding, RInv, EachFits, Fits, Count, Drop, Known
<1>4. /\ d \in rows /\ d \in Assets /\ j.todo[d] = 0 /\ j.result \in [Assets -> {"none", "OK", "refused"}]
      /\ rows = {e \in Known : j.result[e] # "OK"} /\ j.end = "notify"
  BY <1>2, <1>3 DEF Told, Holding, Jobs, RInv, Inv, TypeOK
<1>5. CASE rows' = rows \ {d} /\ Set(t, [j EXCEPT !.result[d] = "OK"]) /\ Goto(t, "next")
  <2>1. PICK k : k = [j EXCEPT !.result[d] = "OK"]
    OBVIOUS
  <2>2. k.op = "delete" /\ k.end = "notify" /\ k.todo = j.todo /\ k.result = [j.result EXCEPT ![d] = "OK"]
    BY <1>3, <1>4, <2>1 DEF Jobs
  <2>3. rows' = {e \in Known : k.result[e] # "OK"}
    <3>1. \A e \in Known : k.result[e] # "OK" <=> j.result[e] # "OK" /\ e # d
      BY <1>4, <2>2 DEF Known
    <3> QED
      BY <1>4, <1>5, <3>1
  <2>4. \A e \in Assets : k.todo[e] > 0 => k.todo[e] = 1 /\ e \in rows'
    <3>1. \A e \in Assets : j.todo[e] > 0 => j.todo[e] = 1 /\ e \in rows /\ e # d
      BY <1>3, <1>4 DEF Told
    <3> QED
      BY <1>5, <2>2, <3>1
  <2>5. Told("next", k)'
    BY <1>3, <2>2, <2>3, <2>4 DEF Told, Holding
  <2> QED
    BY <1>5, <2>1, <2>5, ToldStep DEF RInv
<1>6. ASSUME Set(t, Refuse(j)), UNCHANGED db, NEW l \in {"activate", "markActive", "next"}, Goto(t, l)
      PROVE  EachTold'
  <2>1. PICK k : k = Refuse(j)
    OBVIOUS
  <2>2. k.op = "delete" /\ k.end = "notify" /\ k.todo = j.todo /\ k.asset = d
    BY <1>2, <1>3, <1>4, <2>1, RefuseFields
  <2>3. k.result = [j.result EXCEPT ![d] = "refused"]
    BY <1>2, <2>1 DEF Refuse, Jobs
  <2>4. rows = {e \in Known : k.result[e] # "OK"}
    <3>1. \A e \in Known : k.result[e] # "OK" <=> j.result[e] # "OK"
      BY <1>4, <2>3 DEF Known
    <3> QED
      BY <1>4, <3>1
  <2>5. Told(l, k)
    BY <1>3, <1>4, <1>6, <2>2, <2>4 DEF Told
  <2> QED
    BY <1>3, <1>6, <2>1, <2>5, ToldQuietly DEF db, RInv
<1>7. (IF j.want = "active" THEN Activation(d) ELSE "next") \in {"activate", "markActive", "next"}
  BY DEF Activation
<1>8. CASE Goto(t, "drop") /\ UNCHANGED job /\ UNCHANGED db
  BY <1>1, <1>3, <1>8, ToldQuietly DEF db, RInv
<1> QED
  BY <1>1, <1>2, <1>5, <1>6, <1>7, <1>8 DEF Count, Drop, Refused

LEMMA ToldAnswer ==
  ASSUME Inv, Alone, NEW t \in Threads, Goto(t, "idle"), Set(t, NoJob), rows' = Known'
  PROVE  EachTold'
<1>1. PICK j : j = NoJob
  OBVIOUS
<1>2. j.op = "none"
  BY <1>1 DEF NoJob
<1>3. Told("idle", j)'
  BY <1>2 DEF Told
<1> QED
  BY <1>1, <1>3, ToldStep

LEMMA ToldFinish ==
  ASSUME RInv, Alone, EachTold, NEW t \in Threads, Finish(t)
  PROVE  EachTold'
<1>1. PICK j \in Jobs : j = job[t]
  BY JobFields DEF RInv
<1>2. /\ Told("finish", j) /\ j.op \in {"create", "update"} /\ j.asset \in Assets /\ rows' = rows
      /\ view \in [Assets -> Statuses \cup {"absent"}] /\ status \in [Assets -> Statuses]
  BY <1>1 DEF EachTold, RInv, EachFits, Fits, Finish, Inv, AssetKnown, Holding, db, TypeOK
<1>3. CASE Goto(t, "ko") /\ j.asset \notin rows /\ UNCHANGED <<job, view>>
  <2>1. Told("ko", j)
    BY <1>2, <1>3 DEF Told
  <2> QED
    BY <1>1, <1>2, <1>3, <2>1, ToldQuietly DEF RInv
<1>4. ASSUME NEW s \in Statuses, view' = [view EXCEPT ![j.asset] = s], Answer(t, "OK"),
             j.op = "create" \/ j.asset \in rows
      PROVE  EachTold'
  <2>1. Known' = Known \cup {j.asset}
    BY <1>2, <1>4 DEF Known, Statuses
  <2>2. rows' = Known'
    BY <1>2, <1>4, <2>1 DEF Told
  <2> QED
    BY <1>4, <2>2, ToldAnswer DEF Answer, RInv
<1>5. j.want \in Statuses /\ status[j.asset] \in Statuses
  BY <1>2 DEF Jobs
<1> QED
  BY <1>1, <1>3, <1>4, <1>5 DEF Finish

LEMMA ToldReport ==
  ASSUME RInv, Alone, EachTold, NEW t \in Threads, Ko(t) \/ Report(t)
  PROVE  EachTold'
<1>1. CASE Ko(t)
  <2>1. rows' = Known'
    BY <1>1 DEF EachTold, Told, Ko, Known, db
  <2> QED
    BY <1>1, <2>1, ToldAnswer DEF Ko, Answer, RInv
<1>2. CASE Report(t)
  <2>1. PICK j \in Jobs : j = job[t]
    BY JobFields DEF RInv
  <2>2. Told("next", j) /\ j.op = "delete" /\ rows' = rows
    BY <1>2, <2>1 DEF EachTold, RInv, EachFits, Fits, Report, db
  <2>3. j.end = "notify" /\ rows = {d \in Known : j.result[d] # "OK"}
    BY <2>2 DEF Told
  <2>4. view' = Notified(j) /\ Answer(t, "OK")
    BY <1>2, <2>1, <2>3 DEF Report
  <2>5. Known' = {d \in Known : j.result[d] # "OK"}
    BY <2>4 DEF Known, Notified
  <2> QED
    BY <2>2, <2>3, <2>4, <2>5, ToldAnswer DEF Answer, RInv
<1> QED
  BY <1>1, <1>2

(* With one thread, no reset and no asset listed twice, a subscriber of    *)
(* the notifications knows between two requests which assets there are,    *)
(* whatever the licensing agent does.                                      *)
THEOREM SubscribersStayInformed ==
  ASSUME Alone, Srr = {}, Overlap = FALSE
  PROVE  Spec => []SubscribersKnowAssets
<1>1. Init => RInv /\ EachTold
  <2>1. ASSUME Init
        PROVE  EachTold
    <3>1. /\ rows \subseteq Assets /\ status \in [Assets -> Statuses]
          /\ view = [a \in Assets |-> IF a \in rows THEN status[a] ELSE "absent"]
      BY <2>1 DEF Init, Consistent
    <3>2. rows = Known
      BY <3>1 DEF Known, Statuses
    <3>3. \A t \in Threads : pc[t] = "idle" /\ job[t].op = "none"
      BY <2>1 DEF Init, NoJob
    <3> QED
      BY <3>2, <3>3 DEF EachTold, Told
  <2> QED
    BY <2>1, InitR
<1>2. RInv /\ EachTold /\ [Next]_vars => (RInv /\ EachTold)'
  <2>1. ASSUME EachTold, HandleIncomingLimitations \/ UNCHANGED vars
        PROVE  EachTold'
    BY <2>1 DEF HandleIncomingLimitations, vars, db, EachTold, Told, Known
  <2>2. ASSUME RInv, EachTold, NEW t \in Threads, Step(t)
        PROVE  EachTold'
    BY <2>2, ToldAsk, ToldUpdate, ToldCredit, ToldMarks, ToldUnlink, ToldRemove, ToldInsert,
       ToldErasure, ToldFinish, ToldReport DEF Step
  <2>3. ASSUME RInv, EachTold, NEW t \in Threads, Request(t)
        PROVE  EachTold'
    BY <2>3, ToldRequest DEF Request
  <2> QED
    BY <2>1, <2>2, <2>3, NextR DEF Next
<1>3. RInv /\ EachTold => SubscribersKnowAssets
  BY DEF RInv, Inv, TypeOK, EachTold, Told, Known, SubscribersKnowAssets, Idle, Alone
<1> QED
  BY <1>1, <1>2, <1>3, PTL DEF Spec

-----------------------------------------------------------------------------
LEMMA OneStep ==
  ASSUME Inv, NEW t \in Threads, NEW p, NEW j, Goto(t, p), Set(t, j)
  PROVE  pc'[t] = p /\ job'[t] = j
  BY DEF Inv, TypeOK, Goto, Set
LEMMA OneMove ==
  ASSUME Inv, NEW t \in Threads, UNCHANGED job
  PROVE  Set(t, job[t])
  BY DEF Inv, TypeOK, Set

(* Clients put assets only into larger ones (Inside), and kinds have an    *)
(* order: then nothing is inside itself.                                   *)
Ranked == \E rank \in [Kinds -> Nat] :
            \A k, l \in Kinds : <<k, l>> \in Inside => rank[k] < rank[l]
ParentsInside == \A c \in Assets : parent[c] # None => <<Kind[parent[c]], Kind[c]>> \in Inside
KindFits(j) ==
  /\ j.parent # None => <<Kind[j.parent], j.kind>> \in Inside
  /\ j.asset # None => j.kind = Kind[j.asset]
KInv == ParentsInside /\ \A t \in Threads : KindFits(job[t])

LEMMA KindStep ==
  ASSUME Inv, KInv, ParentsInside', NEW t \in Threads, NEW j, Set(t, j), KindFits(j)
  PROVE  KInv'
  BY DEF KInv, KindFits, Set, Inv, TypeOK

LEMMA KindMove ==
  ASSUME KInv, ParentsInside', UNCHANGED job
  PROVE  KInv'
  BY DEF KInv, KindFits

LEMMA WriteInside ==
  ASSUME Inv, ParentsInside, NEW a \in Assets, NEW p, NEW s, Write(a, p, s),
         p # None => <<Kind[p], Kind[a]>> \in Inside
  PROVE  ParentsInside'
  BY DEF Inv, TypeOK, ParentsInside, Write

LEMMA KindRequest ==
  ASSUME Inv, KInv, NEW t \in Threads, Request(t)
  PROVE  KInv'
<1>1. ASSUME UNCHANGED db
      PROVE  ParentsInside'
  BY <1>1 DEF KInv, ParentsInside, db
<1>2. ASSUME NEW k, NEW p, NEW w, NEW try, NEW s, CreateAsset(t, k, p, w, try, s)
      PROVE  KInv'
  <2>1. KindFits(CreateJob(k, p, w, try, s))
    BY <1>2 DEF CreateAsset, CreateJob, NoJob, KindFits
  <2> QED
    BY <1>1, <1>2, <2>1, KindStep DEF CreateAsset, Receive
<1>3. ASSUME NEW a, NEW p, NEW w, NEW try, NEW s, UpdateAsset(t, a, p, w, try, s)
      PROVE  KInv'
  <2>1. \A src : KindFits(UpdateJob(a, p, w, try, src))
    BY <1>3 DEF UpdateAsset, UpdateJob, NoJob, KindFits
  <2> QED
    BY <1>1, <1>3, <2>1, KindStep DEF UpdateAsset, Receive
<1>4. \A todo, end, last : KindFits(DeleteJob(todo, end, last))
  BY DEF DeleteJob, NoJob, KindFits
<1>5. ASSUME NEW list, NEW recursive, DeleteAsset(t, list, recursive)
      PROVE  KInv'
  BY <1>1, <1>4, <1>5, KindStep DEF DeleteAsset, Receive
<1>6. ASSUME Reset(t)
      PROVE  KInv'
  BY <1>1, <1>4, <1>6, KindStep DEF Reset, Receive
<1> QED
  BY <1>2, <1>3, <1>5, <1>6, Zenon DEF Request

LEMMA KindSteps ==
  ASSUME Inv, EachFits, KInv, NEW t \in Threads, Step(t)
  PROVE  KInv'
<1>1. PICK j \in Jobs : j = job[t]
  BY JobFields
<1>2. KindFits(j) /\ ParentsInside /\ (j.parent \in Assets \cup {None})
  BY <1>1 DEF KInv, Jobs
<1>3. KindFits(NoJob)
  BY DEF NoJob, KindFits
<1>4. UNCHANGED parent => ParentsInside'
  BY <1>2 DEF ParentsInside
<1>5. \A w : KindFits([j EXCEPT !.want = w])
  BY <1>2 DEF KindFits, Jobs
<1>6. KindFits(Refuse(j)) /\ KindFits(GivenUp(j))
  BY <1>2 DEF KindFits, Jobs, Refuse, GivenUp
<1>7. ASSUME UNCHANGED parent, UNCHANGED job \/ \E k : Set(t, k) /\ KindFits(k)
      PROVE  KInv'
  BY <1>2, <1>4, <1>7, KindStep, KindMove
<1>8. CASE Ask(t)
  <2>1. KindFits(Kept(t))
    BY <1>1, <1>2 DEF KindFits, Jobs, Kept
  <2> QED
    BY <1>7, <1>8, <2>1 DEF Ask, db
<1>9. CASE Insert(t)
  <2>1. ASSUME NEW a \in Assets, Insertable(a, j), Write(a, j.parent, "nonactive"),
               Set(t, [j EXCEPT !.asset = a])
        PROVE  KInv'
    <3>1. KindFits([j EXCEPT !.asset = a]) /\ Kind[a] = j.kind
      BY <1>2, <2>1 DEF KindFits, Jobs, Insertable
    <3>2. ParentsInside'
      BY <1>2, <2>1, <3>1, WriteInside DEF KindFits
    <3> QED
      BY <2>1, <3>1, <3>2, KindStep
  <2> QED
    BY <1>1, <1>7, <1>9, <2>1 DEF Insert, db
<1>10. ASSUME NEW w, CanWrite(j.asset, j.parent), Write(j.asset, j.parent, w)
       PROVE  ParentsInside'
  <2>1. j.asset \in Assets /\ j.asset # None
    BY <1>10, TablesAssumption DEF CanWrite, Inv, TypeOK
  <2> QED
    BY <1>2, <1>10, <2>1, WriteInside DEF KindFits
<1>11. CASE Store(t) \/ Undo(t)
  <2>1. /\ UNCHANGED job
        /\ \/ UNCHANGED parent
           \/ \E w : CanWrite(j.asset, j.parent) /\ Write(j.asset, j.parent, w)
    BY <1>1, <1>11 DEF Store, Undo, Storable
  <2> QED
    BY <1>4, <1>10, <2>1, KindMove
<1>12. CASE Activate(t) \/ Deactivate(t) \/ Unlink(t)
  BY <1>7, <1>12 DEF Activate, Deactivate, Unlink, db
<1>13. CASE MarkActive(t) \/ MarkNonactive(t)
  <2>1. PICK w \in Statuses, k \in Jobs :
          k = [j EXCEPT !.want = w] /\ w = IF MarkActive(t) THEN "active" ELSE "nonactive"
    <3>1. PICK w \in Statuses : w = IF MarkActive(t) THEN "active" ELSE "nonactive"
      BY DEF Statuses
    <3> QED
      BY <3>1, WantType
  <2>2. KindFits(k) /\ k.asset = j.asset /\ k.parent = j.parent
    BY <1>5, <2>1 DEF Jobs
  <2>3. KindFits(GivenUp(k)) /\ KindFits(Refuse(k))
    BY <2>1, <2>2 DEF KindFits, Jobs, Refuse, GivenUp
  <2>4. /\ Set(t, k) \/ Set(t, GivenUp(k)) \/ Set(t, Refuse(k))
        /\ \/ UNCHANGED parent
           \/ \E s : CanWrite(j.asset, j.parent) /\ Write(j.asset, j.parent, s)
    <3>1. CASE MarkActive(t)
      BY <1>1, <2>1, <2>2, <3>1 DEF MarkActive
    <3>2. CASE ~MarkActive(t)
      BY <1>1, <1>13, <2>1, <2>2, <3>2 DEF MarkNonactive
    <3> QED
      BY <3>1, <3>2
  <2> QED
    BY <1>4, <1>10, <2>2, <2>3, <2>4, KindStep
<1>14. CASE Finish(t) \/ Ko(t) \/ Report(t)
  BY <1>3, <1>7, <1>14 DEF Finish, Ko, Report, Answer, db
<1>15. CASE Remove(t)
  <2>1. ASSUME NEW d \in rows, j.todo[d] > 0
        PROVE  KindFits(Taken(j, d)) /\ KindFits(Refuse(Taken(j, d)))
    <3>1. PICK k : k = Taken(j, d)
      OBVIOUS
    <3>2. k.asset = d /\ k.parent = parent[d] /\ k \in Jobs /\ d \in Assets
      BY <2>1, <3>1, TakenFields, TakenType
    <3>3. k.kind = Kind[d]
      BY <3>1 DEF Taken, Jobs
    <3>4. KindFits(k)
      BY <1>2, <3>2, <3>3 DEF KindFits, ParentsInside
    <3>5. KindFits(Refuse(k))
      BY <3>2, <3>4 DEF KindFits, Jobs, Refuse
    <3> QED
      BY <3>1, <3>4, <3>5
  <2> QED
    BY <1>1, <1>7, <1>15, <2>1 DEF Remove, db
<1>16. CASE Count(t) \/ Drop(t)
  <2>1. CASE Set(t, Refuse(j)) /\ UNCHANGED db
    BY <1>6, <1>7, <2>1 DEF db
  <2>2. CASE Write(j.asset, None, "nonactive") /\ Set(t, [j EXCEPT !.result[j.asset] = "OK"])
             /\ j.asset \in rows
    <3>1. j.asset \in Assets
      BY <2>2 DEF Inv, TypeOK
    <3>2. ParentsInside'
      BY <1>2, <2>2, <3>1, WriteInside
    <3>3. KindFits([j EXCEPT !.result[j.asset] = "OK"])
      BY <1>2 DEF KindFits, Jobs
    <3> QED
      BY <2>2, <3>2, <3>3, KindStep
  <2> QED
    BY <1>1, <1>7, <1>16, <2>1, <2>2 DEF Count, Drop, Refused, Droppable, db
<1> QED
  BY <1>8, <1>9, <1>11, <1>12, <1>13, <1>14, <1>15, <1>16 DEF Step

LEMMA KindNext ==
  ASSUME Inv, EachFits, KInv, [Next]_vars
  PROVE  KInv'
<1>1. HandleIncomingLimitations \/ UNCHANGED vars => KInv'
  BY DEF HandleIncomingLimitations, vars, db, KInv, ParentsInside, KindFits
<1> QED
  BY <1>1, KindRequest, KindSteps DEF Next

LEMMA Fewer ==
  ASSUME NEW S, IsFiniteSet(S), NEW T \in SUBSET S, NEW x \in S, x \notin T
  PROVE  Cardinality(T) < Cardinality(S)
<1>1. Cardinality(T) <= Cardinality(S) /\ Cardinality(T) # Cardinality(S)
  BY FS_Subset
<1>2. Cardinality(T) \in Nat /\ Cardinality(S) \in Nat
  BY FS_Subset, FS_CardinalityType
<1> QED
  BY <1>1, <1>2

LEMMA Deeper ==
  ASSUME Inv, NoDanglingReference, Ranked, ParentsInside, NEW c \in rows, parent[c] # None
  PROVE  Depth(c) > Depth(parent[c])
<1>1. PICK rank \in [Kinds -> Nat] : \A k, l \in Kinds : <<k, l>> \in Inside => rank[k] < rank[l]
  BY DEF Ranked
<1>2. PICK d : d = parent[c]
  OBVIOUS
<1>3. d \in rows /\ rows \subseteq Assets /\ None \notin rows /\ c \in Assets
  BY <1>2, TablesAssumption DEF NoDanglingReference, Inv, TypeOK
<1>4. IsFiniteSet(rows)
  BY <1>3, TablesAssumption, FS_Subset
<1>5. IsFiniteSet(Above(c)) /\ IsFiniteSet(Above(d)) /\ Cardinality(Above(c)) \in Nat
  BY <1>4, FS_Subset, FS_CardinalityType DEF Above
<1>6. d \in Above(c)
  BY <1>2, <1>3 DEF Above
<1>7. Depth(c) = Cardinality(Above(c))
  BY DEF Depth
<1>8. CASE parent[d] = None
  <2>1. Depth(d) = 0
    BY <1>8 DEF Depth
  <2>2. Cardinality(Above(c)) # 0
    BY <1>5, <1>6, FS_EmptySet
  <2> QED
    BY <1>2, <1>5, <1>7, <2>1, <2>2
<1>9. CASE parent[d] # None
  <2>1. parent[d] \in rows /\ rank[Kind[parent[d]]] < rank[Kind[d]] /\ d \in Assets
    BY <1>1, <1>3, <1>9, TablesAssumption DEF NoDanglingReference, ParentsInside, Inv, TypeOK
  <2>2. d \notin Above(d)
    <3> DEFINE S == {x \in rows : rank[Kind[x]] < rank[Kind[d]]}
    <3>1. parent[d] \in S
      BY <2>1
    <3>2. ASSUME NEW x \in S, parent[x] # None
          PROVE  parent[x] \in S
      <4>1. parent[x] \in rows /\ Kind[x] \in Kinds /\ Kind[parent[x]] \in Kinds
        BY <1>3, <3>2, TablesAssumption DEF NoDanglingReference
      <4>2. rank[Kind[parent[x]]] < rank[Kind[x]]
        BY <1>1, <1>3, <3>2, <4>1 DEF ParentsInside
      <4>3. rank[Kind[x]] \in Nat /\ rank[Kind[parent[x]]] \in Nat /\ rank[Kind[d]] \in Nat
        BY <1>3, <4>1, TablesAssumption
      <4> QED
        BY <4>1, <4>2, <4>3
    <3>3. d \notin S
      BY <1>3, TablesAssumption
    <3> HIDE DEF S
    <3>4. S \in SUBSET rows
      BY DEF S
    <3> QED
      BY <3>1, <3>2, <3>3, <3>4 DEF Above
  <2>3. Above(d) \subseteq Above(c)
    <3>1. ASSUME NEW b \in Above(d), NEW S \in SUBSET rows, parent[c] \in S,
                 \A x \in S : parent[x] = None \/ parent[x] \in S
          PROVE  b \in S
      <4>1. parent[d] \in S
        BY <1>2, <1>9, <3>1
      <4> QED
        BY <3>1, <4>1 DEF Above
    <3> QED
      BY <3>1 DEF Above
  <2>4. Cardinality(Above(d)) < Cardinality(Above(c))
    BY <1>5, <1>6, <2>2, <2>3, Fewer
  <2>5. Depth(d) = Cardinality(Above(d))
    BY <1>3, <1>9 DEF Depth
  <2> QED
    BY <1>2, <1>5, <1>7, <2>4, <2>5
<1> QED
  BY <1>8, <1>9

Removing == {"deactivate", "markNonactive", "count", "drop"}
Reason(p, j, d) ==
  \/ d = RC0 \/ Kind[d] = "group"
  \/ Location(d) /\ IsLastDataCenter(d)
  \/ HasLinkedAssets(d)
  \/ \E c \in Children(d) : j.todo[c] = 0 /\ ~(p \in Removing /\ c = j.asset)
Deleting(p, j) ==
  j.op = "delete" /\ p \notin {"idle", "ko"} =>
    /\ \A c \in rows : parent[c] # None => j.depth[parent[c]] < j.depth[c]
    /\ p = "unlink" => /\ \A d \in Assets : j.result[d] = "none"
                       /\ j.seen = {l \in links : j.todo[l[2]] > 0}
    /\ p # "unlink" => \A d \in Assets : j.todo[d] > 0 => LinksTo(d) = {}
    /\ p \in Removing => /\ j.asset \in rows /\ Children(j.asset) = {}
                         /\ ~HasLinkedAssets(j.asset) /\ LinksTo(j.asset) = {}
    /\ \A d \in Assets : j.result[d] = "refused" => Reason(p, j, d)
EachDeleting == \A t \in Threads : Deleting(pc[t], job[t])

LEMMA DeletingStep ==
  ASSUME Inv, Alone, NEW t \in Threads, NEW p, NEW j, Goto(t, p), Set(t, j), Deleting(p, j)'
  PROVE  EachDeleting'
<1>1. pc'[t] = p /\ job'[t] = j
  BY OneStep
<1>2. Deleting(pc[t], job[t])'
  BY <1>1 DEF Deleting, Reason
<1> QED
  BY <1>2 DEF EachDeleting, Alone

(* Nothing but the place and the status of the object held moves.          *)
LEMMA DeletingMove ==
  ASSUME UNCHANGED <<rows, parent, links>>, NEW p, NEW j, NEW q, NEW k,
         Deleting(p, j), p \notin {"idle", "ko", "unlink"}, q # "unlink",
         k.op = j.op, k.todo = j.todo, k.depth = j.depth, k.result = j.result, k.asset = j.asset,
         q \in Removing => p \in Removing
  PROVE  Deleting(q, k)'
<1>1. /\ \A d : LinksTo(d)' = LinksTo(d) /\ Children(d)' = Children(d)
      /\ \A d : HasLinkedAssets(d)' = HasLinkedAssets(d) /\ Location(d)' = Location(d)
      /\ \A d : IsLastDataCenter(d)' = IsLastDataCenter(d)
  BY DEF LinksTo, Children, HasLinkedAssets, Location, IsLastDataCenter
<1>2. SUFFICES ASSUME k.op = "delete"
               PROVE  Deleting(q, k)'
  BY DEF Deleting
<1>3. ASSUME NEW d \in Assets, j.result[d] = "refused"
      PROVE  Reason(q, k, d)'
  BY <1>1, <1>2, <1>3 DEF Reason, Deleting
<1> QED
  BY <1>1, <1>2, <1>3 DEF Deleting

LEMMA NotDeleting ==
  ASSUME Inv, Alone, NEW t \in Threads, NEW p, NEW j, Goto(t, p), Set(t, j),
         j.op # "delete" \/ p \in {"idle", "ko"}
  PROVE  EachDeleting'
<1>1. Deleting(p, j)'
  BY DEF Deleting
<1> QED
  BY <1>1, DeletingStep

LEMMA DeletingRequest ==
  ASSUME RInv, KInv, Ranked, Alone, NEW t \in Threads, Request(t)
  PROVE  EachDeleting'
<1>1. ASSUME NEW k, NEW p, NEW w, NEW try, NEW s, CreateAsset(t, k, p, w, try, s)
      PROVE  EachDeleting'
  <2>1. CreateJob(k, p, w, try, s).op = "create"
    BY DEF CreateJob, NoJob
  <2>2. \E l : Goto(t, l)
    BY <1>1 DEF CreateAsset
  <2> QED
    BY <1>1, <2>1, <2>2, NotDeleting DEF CreateAsset, Receive, RInv
<1>2. ASSUME NEW a, NEW p, NEW w, NEW try, NEW s, UpdateAsset(t, a, p, w, try, s)
      PROVE  EachDeleting'
  <2>1. \A src : UpdateJob(a, p, w, try, src).op = "update"
    BY DEF UpdateJob, NoJob
  <2>2. \E l : Goto(t, l)
    BY <1>2 DEF UpdateAsset
  <2> QED
    BY <1>2, <2>1, <2>2, NotDeleting DEF UpdateAsset, Receive, RInv
<1>3. ASSUME NEW l \in {"unlink", "ko"}, NEW todo, NEW end, NEW last,
             Goto(t, l), Set(t, DeleteJob(todo, end, last)), UNCHANGED db
      PROVE  EachDeleting'
  <2>1. PICK j : j = DeleteJob(todo, end, last)
    OBVIOUS
  <2>2. /\ j.depth = [d \in Assets |-> Depth(d)] /\ j.result = [a \in Assets |-> "none"]
        /\ j.seen = {x \in links : j.todo[x[2]] > 0}
    BY <2>1 DEF DeleteJob, NoJob
  <2>3. ASSUME NEW c \in rows', parent'[c] # None
        PROVE  j.depth[parent'[c]] < j.depth[c]
    <3>1. c \in Assets /\ parent[c] \in Assets /\ c \in rows /\ parent[c] # None
          /\ parent'[c] = parent[c]
      BY <1>3, <2>3, TablesAssumption DEF RInv, Inv, TypeOK, db
    <3>2. Depth(parent[c]) < Depth(c)
      <4>1. Depth(c) > Depth(parent[c])
        BY <3>1, Deeper DEF RInv, KInv
      <4>2. Depth(c) \in Nat /\ Depth(parent[c]) \in Nat
        BY <3>1, DepthType DEF RInv, Inv
      <4> QED
        BY <4>1, <4>2
    <3> QED
      BY <2>2, <3>1, <3>2
  <2>4. j.seen = {x \in links' : j.todo[x[2]] > 0}
    BY <1>3, <2>2 DEF db
  <2>5. Deleting(l, j)'
    BY <2>2, <2>3, <2>4 DEF Deleting, Removing
  <2> QED
    BY <1>3, <2>1, <2>5, DeletingStep DEF RInv
<1>4. ASSUME NEW list, NEW recursive, DeleteAsset(t, list, recursive)
      PROVE  EachDeleting'
  BY <1>3, <1>4 DEF DeleteAsset, Receive
<1>5. ASSUME Reset(t)
      PROVE  EachDeleting'
  BY <1>3, <1>5 DEF Reset, Receive
<1> QED
  BY <1>1, <1>2, <1>4, <1>5, Zenon DEF Request

LEMMA DeletingElse ==
  ASSUME RInv, Alone, NEW t \in Threads,
         Ask(t) \/ Insert(t) \/ Store(t) \/ Undo(t) \/ Finish(t) \/ Ko(t) \/ Report(t)
  PROVE  EachDeleting'
<1>1. PICK j \in Jobs : j = job[t]
  BY JobFields DEF RInv
<1>2. /\ NoJob.op = "none" /\ Kept(t).op = j.op
      /\ \A a : [j EXCEPT !.asset = a].op = j.op
  BY <1>1, KeptFields DEF NoJob, Jobs
<1>3. Set(t, j) \/ job' # job
  BY <1>1, OneMove DEF RInv
<1>4. CASE Ask(t) \/ Insert(t) \/ Store(t) \/ Undo(t) \/ Finish(t)
  <2>1. j.op # "delete"
    BY <1>1, <1>4 DEF RInv, EachFits, Fits, Ask, Insert, Store, Undo, Finish
  <2>2. \E p, k : Goto(t, p) /\ Set(t, k) /\ k.op # "delete"
    <3>1. \E p : Goto(t, p)
      BY <1>4 DEF Ask, Insert, Store, Undo, Finish, Answer
    <3>2. Set(t, j) \/ Set(t, Kept(t)) \/ Set(t, NoJob) \/ \E a : Set(t, [j EXCEPT !.asset = a])
      BY <1>1, <1>3, <1>4 DEF Ask, Insert, Store, Undo, Finish, Answer
    <3> QED
      BY <1>2, <2>1, <3>1, <3>2
  <2> QED
    BY <2>2, NotDeleting DEF RInv
<1>5. CASE Ko(t) \/ Report(t)
  <2>1. \E p, k : p \in {"idle", "ko"} /\ Goto(t, p) /\ Set(t, k)
    BY <1>3, <1>5 DEF Ko, Report, Answer
  <2> QED
    BY <2>1, NotDeleting DEF RInv
<1> QED
  BY <1>4, <1>5

LEMMA DeletingUnlink ==
  ASSUME RInv, Alone, EachDeleting, NEW t \in Threads, Unlink(t)
  PROVE  EachDeleting'
<1>1. PICK j \in Jobs : j = job[t]
  BY JobFields DEF RInv
<1>2. /\ Deleting("unlink", j) /\ j.op = "delete" /\ UNCHANGED <<rows, parent>>
      /\ Set(t, j)
  BY <1>1, OneMove DEF RInv, EachFits, Fits, EachDeleting, Unlink
<1>3. CASE Goto(t, "ko")
  BY <1>2, <1>3, NotDeleting DEF RInv
<1>4. CASE Goto(t, "next") /\ links' = links \ j.seen
  <2>1. \A d \in Assets : j.todo[d] > 0 => LinksTo(d)' = {}
    BY <1>2, <1>4 DEF Deleting, LinksTo
  <2>2. Deleting("next", j)'
    BY <1>2, <2>1 DEF Deleting, Removing
  <2> QED
    BY <1>2, <1>4, <2>2, DeletingStep DEF RInv
<1> QED
  BY <1>1, <1>3, <1>4 DEF Unlink

LEMMA DeletingMarks ==
  ASSUME RInv, RInv', Alone, EachDeleting, NEW t \in Threads,
         Activate(t) \/ Deactivate(t) \/ MarkActive(t) \/ MarkNonactive(t)
  PROVE  EachDeleting'
<1>0. PICK j \in Jobs : j = job[t]
  BY JobFields DEF RInv
<1>1. PICK p : p = pc[t]
  OBVIOUS
<1>2. /\ Deleting(p, j) /\ UNCHANGED <<rows, links>> /\ p \notin {"idle", "ko", "unlink"}
      /\ p \in {"activate", "deactivate", "markActive", "markNonactive"}
      /\ (p = "markActive" \/ p = "activate" => p \notin Removing)
      /\ p = "deactivate" \/ p = "markNonactive" => p \in Removing
      /\ (j.asset \in Assets) /\ (j.op = "delete" => parent[j.asset] = j.parent)
  BY <1>0, <1>1 DEF RInv, Inv, AssetKnown, EachDeleting, Activate, Deactivate, MarkActive,
     MarkNonactive, db, Removing, Holding, AloneUndisturbed, Alone, Undisturbed
<1>3. ASSUME NEW q, NEW w, NEW k, k = j \/ k = [j EXCEPT !.want = w], UNCHANGED parent,
             Goto(t, q), Set(t, k), q # "unlink", q \in Removing => p \in Removing
      PROVE  EachDeleting'
  <2>1. /\ k.op = j.op /\ k.todo = j.todo /\ k.depth = j.depth /\ k.result = j.result
        /\ k.asset = j.asset
    BY <1>3 DEF Jobs
  <2>2. Deleting(q, k)'
    BY <1>2, <1>3, <2>1, DeletingMove
  <2> QED
    BY <1>3, <2>2, DeletingStep DEF RInv
<1>4. CASE Activate(t) \/ Deactivate(t)
  <2>1. /\ Set(t, j) /\ UNCHANGED parent
        /\ \E q \in {"markActive", "next", "finish", "markNonactive", "count", "drop"} :
             Goto(t, q) /\ (q \in Removing => p \in Removing)
    BY <1>0, <1>1, <1>4, OneMove DEF Activate, Deactivate, Activated, Deactivated,
       Erasure, Removing, RInv, db
  <2> QED
    BY <1>3, <2>1
<1>5. CASE MarkActive(t) \/ MarkNonactive(t)
  <2>1. PICK w \in Statuses, k \in Jobs :
          k = [j EXCEPT !.want = w] /\ w = IF MarkActive(t) THEN "active" ELSE "nonactive"
    <3>1. PICK w \in Statuses : w = IF MarkActive(t) THEN "active" ELSE "nonactive"
      BY DEF Statuses
    <3> QED
      BY <3>1, WantType
  <2>2. k.op = j.op /\ k.asset = j.asset /\ k.parent = j.parent
    BY <2>1 DEF Jobs
  <2>3. ASSUME j.op = "delete"
        PROVE  EachDeleting'
    <3>1. CASE CanWrite(j.asset, j.parent)
      <4>1. Write(j.asset, j.parent, w) /\ Set(t, k)
        BY <1>0, <1>5, <2>1, <2>2, <3>1 DEF MarkActive, MarkNonactive
      <4>2. parent' = parent
        BY <1>2, <2>3, <4>1 DEF Write, RInv, Inv, TypeOK
      <4>3. \E q \in {"next", "count", "drop"} : Goto(t, q) /\ (q \in Removing => p \in Removing)
        BY <1>0, <1>1, <1>5, <2>1, <2>2, <2>3, <3>1 DEF MarkActive, MarkNonactive, Activated,
           Deactivated, Erasure, Removing
      <4> QED
        BY <1>3, <2>1, <4>1, <4>2, <4>3
    <3>2. CASE ~CanWrite(j.asset, j.parent) /\ MarkActive(t)
      <4>1. UNCHANGED parent /\ Set(t, k) /\ Goto(t, "next")
        BY <1>0, <2>1, <2>2, <2>3, <3>2 DEF MarkActive, Activated
      <4> QED
        BY <1>3, <2>1, <4>1 DEF Removing
    <3>3. CASE ~CanWrite(j.asset, j.parent) /\ MarkNonactive(t)
      <4>1. j.asset \in rows /\ Children(j.asset) = {} /\ parent[j.asset] = j.parent
        BY <1>1, <1>2, <2>3, <3>3 DEF Deleting, MarkNonactive, Removing
      <4>2. j.parent \in rows \cup {None} /\ j.parent # j.asset
        BY <1>2, <4>1 DEF RInv, NoDanglingReference, Children
      <4> QED
        BY <3>3, <4>1, <4>2 DEF CanWrite
    <3> QED
      BY <1>5, <3>1, <3>2, <3>3
  <2>4. ASSUME j.op # "delete"
        PROVE  EachDeleting'
    <3>1. Set(t, k) \/ Set(t, Refuse(k)) \/ Set(t, GivenUp(k))
      BY <1>0, <1>5, <2>1, <2>2 DEF MarkActive, MarkNonactive
    <3>2. ~Set(t, GivenUp(k))
      <4>1. GivenUp(k).end = "KO"
        BY <2>1, GivenUpFields
      <4>2. job'[t].end # "KO"
        BY DEF RInv, AloneUndisturbed, Alone, Undisturbed
      <4> QED
        BY <4>1, <4>2 DEF Set, RInv, Inv, TypeOK
    <3>3. \E q : Goto(t, q)
      BY <1>5 DEF MarkActive, MarkNonactive
    <3>4. Refuse(k).op = j.op
      BY <2>1, <2>2, RefuseFields
    <3> QED
      BY <2>2, <2>4, <3>1, <3>2, <3>3, <3>4, NotDeleting DEF RInv
  <2> QED
    BY <2>3, <2>4
<1> QED
  BY <1>4, <1>5

LEMMA RefusedFields ==
  ASSUME NEW j \in Jobs, j.asset \in Assets
  PROVE  /\ Refuse(j).depth = j.depth
         /\ Refuse(j).result = [j.result EXCEPT ![j.asset] = "refused"]
  BY DEF Refuse, Jobs

LEMMA TakenRest ==
  ASSUME NEW j \in Jobs, NEW d \in Assets, j.todo[d] > 0
  PROVE  /\ Taken(j, d).depth = j.depth /\ Taken(j, d).result = j.result
         /\ Taken(j, d).want = status[d]
         /\ \A e \in Assets : Taken(j, d).todo[e] = IF e = d THEN j.todo[d] - 1 ELSE j.todo[e]
<1>1. Taken(j, d).todo = [j.todo EXCEPT ![d] = @ - 1]
  BY DEF Taken, Jobs
<1>2. j.todo \in [Assets -> Nat]
  BY DEF Jobs
<1>3. \A e \in Assets : Taken(j, d).todo[e] = IF e = d THEN j.todo[d] - 1 ELSE j.todo[e]
  BY <1>1, <1>2
<1>4. Taken(j, d).depth = j.depth /\ Taken(j, d).result = j.result /\ Taken(j, d).want = status[d]
  BY DEF Taken, Jobs
<1> QED
  BY <1>3, <1>4

LEMMA DeletingRemove ==
  ASSUME RInv, Alone, EachDeleting, NEW t \in Threads, Remove(t)
  PROVE  EachDeleting'
<1>1. PICK j \in Jobs : j = job[t]
  BY JobFields DEF RInv
<1>2. /\ Deleting("next", j) /\ j.op = "delete" /\ UNCHANGED <<rows, parent, links>>
  BY <1>1 DEF RInv, EachFits, Fits, EachDeleting, Remove, db
<1>3. CASE Goto(t, "ko") /\ UNCHANGED job
  BY <1>3, OneMove, NotDeleting DEF RInv
<1>4. ASSUME NEW d \in rows, j.todo[d] > 0,
             \A e \in Assets : j.todo[e] > 0 => j.depth[e] <= j.depth[d]
      PROVE  /\ Set(t, Refuse(Taken(j, d))) /\ Goto(t, "next") /\ ~Removable(d) => EachDeleting'
             /\ /\ Set(t, Taken(j, d)) /\ Removable(d)
                /\ Goto(t, IF status[d] = "active" THEN Deactivation(d) ELSE Erasure(Taken(j, d)))
                => EachDeleting'
  <2>1. PICK k \in Jobs : k = Taken(j, d) /\ k.asset = d /\ d \in Assets
    BY <1>4, TakenType DEF RInv
  <2>2. /\ k.op = "delete" /\ k.depth = j.depth /\ k.result = j.result
        /\ \A e \in Assets : k.todo[e] = IF e = d THEN j.todo[d] - 1 ELSE j.todo[e]
        /\ \A e \in Assets : k.todo[e] > 0 => j.todo[e] > 0
    BY <1>2, <1>4, <2>1, TakenFields, TakenRest DEF RInv
  <2>3. ASSUME NEW c \in Children(d)
        PROVE  c # d /\ k.todo[c] = 0
    <3>1. c \in rows /\ c \in Assets /\ parent[c] = d /\ d # None
      BY <2>1, <2>3, TablesAssumption DEF Children, RInv, Inv, TypeOK
    <3>2. j.depth[d] < j.depth[c]
      BY <1>2, <3>1 DEF Deleting
    <3>3. j.depth[d] \in Nat /\ j.depth[c] \in Nat /\ j.todo[c] \in Nat
      BY <2>1, <3>1 DEF Jobs
    <3>4. ~(j.todo[c] > 0)
      BY <1>4, <3>1, <3>2, <3>3
    <3> QED
      BY <1>4, <2>2, <3>1, <3>3, <3>4
  <2>4. LinksTo(d) = {}
    BY <1>2, <1>4, <2>1 DEF Deleting
  <2>5. /\ \A e : LinksTo(e)' = LinksTo(e) /\ Children(e)' = Children(e)
        /\ \A e : HasLinkedAssets(e)' = HasLinkedAssets(e) /\ Location(e)' = Location(e)
        /\ \A e : IsLastDataCenter(e)' = IsLastDataCenter(e)
    BY <1>2 DEF LinksTo, Children, HasLinkedAssets, Location, IsLastDataCenter
  <2>6. ASSUME NEW e \in Assets, j.result[e] = "refused", NEW q, NEW i, i.todo = k.todo, i.asset = d
        PROVE  Reason(q, i, e)'
    <3>1. Reason("next", j, e)
      BY <1>2, <2>6 DEF Deleting
    <3>2. \A c \in Children(e) : j.todo[c] = 0 => c # d /\ i.todo[c] = 0
      <4>1. Children(e) \subseteq Assets
        BY DEF Children, RInv, Inv, TypeOK
      <4> QED
        BY <1>4, <2>2, <2>6, <4>1
    <3> QED
      BY <2>5, <2>6, <3>1, <3>2 DEF Reason
  <2>7. ASSUME Set(t, Refuse(k)), Goto(t, "next"), ~Removable(d)
        PROVE  EachDeleting'
    <3>1. PICK i : i = Refuse(k)
      OBVIOUS
    <3>2. /\ i.op = "delete" /\ i.depth = j.depth /\ i.todo = k.todo /\ i.asset = d
          /\ \A e \in Assets : i.result[e] = IF e = d THEN "refused" ELSE j.result[e]
      <4>1. j.result \in [Assets -> {"none", "OK", "refused"}]
        BY DEF Jobs
      <4>2. i.result = [j.result EXCEPT ![d] = "refused"]
        BY <2>1, <2>2, <3>1, RefusedFields
      <4>3. \A e \in Assets : i.result[e] = IF e = d THEN "refused" ELSE j.result[e]
        BY <4>1, <4>2
      <4>4. i.op = "delete" /\ i.todo = k.todo /\ i.asset = d
        BY <2>1, <2>2, <3>1, RefuseFields
      <4>5. i.depth = j.depth
        BY <2>1, <2>2, <3>1, RefusedFields
      <4> QED
        BY <4>3, <4>4, <4>5
    <3>3. Reason("next", i, d)'
      BY <2>3, <2>5, <2>7, <3>2 DEF Reason, Removable, Removing
    <3>4. \A e \in Assets : i.result[e] = "refused" => Reason("next", i, e)'
      BY <2>6, <3>2, <3>3
    <3>5. Deleting("next", i)'
      BY <1>2, <2>2, <2>5, <3>2, <3>4 DEF Deleting, Removing
    <3> QED
      BY <2>7, <3>1, <3>5, DeletingStep DEF RInv
  <2>8. ASSUME Set(t, k), Removable(d), NEW q \in Removing, Goto(t, q)
        PROVE  EachDeleting'
    <3>1. \A e \in Assets : k.result[e] = "refused" => Reason(q, k, e)'
      BY <2>1, <2>2, <2>6
    <3>2. q # "unlink" /\ d \in rows'
      BY <1>2, <1>4 DEF Removing
    <3>3. Deleting(q, k)'
      BY <1>2, <2>1, <2>2, <2>4, <2>5, <2>8, <3>1, <3>2 DEF Deleting, Removable
    <3> QED
      BY <2>8, <3>3, DeletingStep DEF RInv
  <2>9. (IF status[d] = "active" THEN Deactivation(d) ELSE Erasure(Taken(j, d))) \in Removing
    BY DEF Deactivation, Erasure, Removing
  <2> QED
    BY <2>1, <2>7, <2>8, <2>9
<1> QED
  BY <1>1, <1>3, <1>4 DEF Remove

LEMMA DeletingErasure ==
  ASSUME RInv, Alone, EachDeleting, NEW t \in Threads, Count(t) \/ Drop(t)
  PROVE  EachDeleting'
<1>1. PICK j \in Jobs : j = job[t]
  BY JobFields DEF RInv
<1>2. PICK d \in Assets : d = j.asset
  BY <1>1 DEF RInv, Inv, AssetKnown, Holding, Count, Drop
<1>3. /\ Deleting(pc[t], j) /\ j.op = "delete" /\ pc[t] \in {"count", "drop"}
  BY <1>1 DEF RInv, EachFits, Fits, EachDeleting, Count, Drop
<1>4. d \in rows /\ Children(d) = {} /\ ~HasLinkedAssets(d) /\ LinksTo(d) = {}
  BY <1>2, <1>3 DEF Deleting, Removing
<1>5. j.result \in [Assets -> {"none", "OK", "refused"}]
  BY DEF Jobs
<1>6. CASE /\ rows' = rows \ {d} /\ Write(d, None, "nonactive") /\ links' = links \ LinksTo(d)
           /\ Set(t, [j EXCEPT !.result[d] = "OK"]) /\ Goto(t, "next")
  <2>1. PICK k : k = [j EXCEPT !.result[d] = "OK"]
    OBVIOUS
  <2>2. /\ k.op = "delete" /\ k.depth = j.depth /\ k.todo = j.todo
        /\ k.result = [j.result EXCEPT ![d] = "OK"]
    BY <1>2, <1>3, <2>1 DEF Jobs
  <2>3. \A e \in Assets : k.result[e] = "refused" => j.result[e] = "refused"
    BY <1>5, <2>2
  <2>4. /\ links' = links /\ rows' = rows \ {d} /\ rows \subseteq Assets
        /\ \A c \in rows' : parent'[c] = parent[c]
    BY <1>4, <1>6 DEF Write, RInv, Inv, TypeOK
  <2>5. /\ \A e : LinksTo(e)' = LinksTo(e) /\ HasLinkedAssets(e)' = HasLinkedAssets(e)
        /\ \A e : Location(e)' = Location(e) /\ (IsLastDataCenter(e) => IsLastDataCenter(e)')
        /\ \A e : Children(e)' = Children(e) \ {d}
    BY <2>4 DEF LinksTo, HasLinkedAssets, Location, IsLastDataCenter, Children
  <2>6. ASSUME NEW e \in Assets, j.result[e] = "refused"
        PROVE  Reason("next", k, e)'
    <3>1. Reason(pc[t], j, e)
      BY <1>3, <2>6 DEF Deleting
    <3> QED
      BY <1>2, <1>3, <2>2, <2>5, <3>1 DEF Reason, Removing
  <2>7. \A c \in rows' : parent'[c] # None => k.depth[parent'[c]] < k.depth[c]
    BY <1>3, <2>2, <2>4 DEF Deleting
  <2>8. \A e \in Assets : k.todo[e] > 0 => LinksTo(e)' = {}
    BY <1>3, <2>2, <2>5 DEF Deleting
  <2>9. Deleting("next", k)'
    BY <2>3, <2>6, <2>7, <2>8 DEF Deleting, Removing
  <2> QED
    BY <1>6, <2>1, <2>9, DeletingStep DEF RInv
<1>7. ASSUME ~Droppable(d, j.sources) \/ (Location(d) /\ IsLastDataCenter(d)), Set(t, Refuse(j)), UNCHANGED db,
             NEW q, q \notin Removing \cup {"unlink", "idle", "ko"}, Goto(t, q)
      PROVE  EachDeleting'
  <2>1. PICK k : k = Refuse(j)
    OBVIOUS
  <2>2. /\ k.op = "delete" /\ k.depth = j.depth /\ k.todo = j.todo
        /\ k.result = [j.result EXCEPT ![d] = "refused"]
    BY <1>2, <1>3, <2>1, RefuseFields, RefusedFields
  <2>3. \A e \in Assets : k.result[e] = IF e = d THEN "refused" ELSE j.result[e]
    BY <1>5, <2>2
  <2>4. /\ \A e : LinksTo(e)' = LinksTo(e) /\ HasLinkedAssets(e)' = HasLinkedAssets(e)
        /\ \A e : Location(e)' = Location(e) /\ IsLastDataCenter(e)' = IsLastDataCenter(e)
        /\ \A e : Children(e)' = Children(e)
        /\ rows' = rows /\ parent' = parent
    BY <1>7 DEF LinksTo, HasLinkedAssets, Location, IsLastDataCenter, Children, db
  <2>5. Reason(q, k, d)'
    BY <1>4, <1>7, <2>4 DEF Droppable, Reason
  <2>6. ASSUME NEW e \in Assets, j.result[e] = "refused"
        PROVE  Reason(q, k, e)'
    <3>1. Reason(pc[t], j, e)
      BY <1>3, <2>6 DEF Deleting
    <3> QED
      BY <1>7, <2>2, <2>4, <3>1 DEF Reason
  <2>7. Deleting(q, k)'
    BY <1>3, <1>7, <2>2, <2>3, <2>4, <2>5, <2>6 DEF Deleting
  <2> QED
    BY <1>7, <2>1, <2>7, DeletingStep DEF RInv
<1>8. (IF j.want = "active" THEN Activation(d) ELSE "next") \notin Removing \cup {"unlink", "idle", "ko"}
  BY DEF Activation, Removing
<1>9. CASE Goto(t, "drop") /\ UNCHANGED job /\ UNCHANGED db
  <2>1. Deleting("drop", j)'
    BY <1>3, <1>9, DeletingMove DEF Removing, db
  <2> QED
    BY <1>1, <1>9, <2>1, OneMove, DeletingStep DEF RInv
<1>10. CASE Count(t)
  <2>1. Location(d)
    BY <1>1, <1>2, <1>10 DEF RInv, EachFits, Fits, Count
  <2> QED
    BY <1>1, <1>2, <1>4, <1>7, <1>8, <1>9, <1>10, <2>1 DEF Count, Refused
<1> QED
  BY <1>1, <1>2, <1>6, <1>7, <1>8, <1>10 DEF Drop, Refused

(* With one thread, whatever a delete or a reset refused has a reason when *)
(* the list is done: an asset is tried after all that are inside it and    *)
(* after the links into the list are gone, so nothing that was refused     *)
(* could go after all.  Locations and devices may not contain each other.  *)
THEOREM RefusalsHaveReasons ==
  ASSUME Alone, Ranked
  PROVE  Spec => RefusalsAreExplained
<1>1. Init => RInv /\ KInv /\ EachDeleting
  <2>1. ASSUME Init
        PROVE  KInv /\ EachDeleting
    BY <2>1 DEF Init, Consistent, KInv, ParentsInside, KindFits, NoJob, EachDeleting, Deleting
  <2> QED
    BY <2>1, InitR
<1>2. RInv /\ KInv /\ EachDeleting /\ [Next]_vars => (RInv /\ KInv /\ EachDeleting)'
  <2>1. ASSUME EachDeleting, HandleIncomingLimitations \/ UNCHANGED vars
        PROVE  EachDeleting'
    BY <2>1 DEF HandleIncomingLimitations, vars, db, EachDeleting, Deleting, Reason, LinksTo,
       Children, HasLinkedAssets, Location, IsLastDataCenter
  <2>2. ASSUME RInv, RInv', EachDeleting, NEW t \in Threads, Step(t)
        PROVE  EachDeleting'
    BY <2>2, DeletingElse, DeletingUnlink, DeletingMarks, DeletingRemove, DeletingErasure DEF Step
  <2>3. RInv /\ [Next]_vars => RInv'
    BY NextR
  <2>4. RInv /\ KInv /\ [Next]_vars => KInv'
    BY KindNext DEF RInv
  <2> QED
    BY <2>1, <2>2, <2>3, <2>4, DeletingRequest DEF Next
<1>3. RInv /\ EachDeleting /\ [Next]_vars
        => [\A t \in Threads, d \in Assets :
              (Reports(t) /\ job[t].result[d] = "refused") => Explained(d)]_vars
  <2>1. ASSUME RInv, EachDeleting, NEW t \in Threads, NEW d \in Assets, Reports(t),
               job[t].result[d] = "refused"
        PROVE  Explained(d)
    <3>1. job[t].op = "delete" /\ pc[t] = "next"
      BY <2>1 DEF RInv, EachFits, Fits, Reports
    <3>2. Reason("next", job[t], d)
      BY <2>1, <3>1 DEF EachDeleting, Deleting
    <3> QED
      BY <3>2 DEF Reason, Explained
  <2> QED
    BY <2>1
<1> QED
  BY <1>1, <1>2, <1>3, PTL DEF Spec, RefusalsAreExplained

-----------------------------------------------------------------------------
(* The last datacenter stays, although remove() counts the others in one   *)
(* step and removes the row in a later one: as the agent is built, at most *)
(* one thread serves deletes, and nothing contains a datacenter.           *)
OneDeletes ==
  /\ \A s, t \in Threads \ (Legacy \cup Srr) : s = t
  /\ \A k \in Kinds : <<k, "datacenter">> \notin Inside

(* What a thread may be doing: the take-back of a failed create is never   *)
(* about a datacenter, the legacy actor deletes nothing else, and only a   *)
(* reset does without the test.                                            *)
OwnDeletes(t, j) ==
  /\ j.end = "KO" => Kind[j.asset] # "datacenter"
  /\ t \in Legacy /\ j.op = "delete" => j.end = "KO"
  /\ ~j.removeLastDC
EachDeletesOwn == \A t \in Threads \ Srr : OwnDeletes(t, job[t])

(* A datacenter that has passed the count is still not the last one.       *)
AnotherStays ==
  NoResetYet => \A t \in Threads \ Srr :
    pc[t] = "drop" /\ Kind[job[t].asset] = "datacenter" => ~IsLastDataCenter(job[t].asset)
DInv == EachDeletesOwn /\ AnotherStays

LEMMA OwnStep ==
  ASSUME Inv, EachDeletesOwn, NEW t \in Threads, NEW j, Set(t, j), t \in Srr \/ OwnDeletes(t, j)
  PROVE  EachDeletesOwn'
  BY DEF EachDeletesOwn, OwnDeletes, Set, Inv, TypeOK

LEMMA TakenUnasked ==
  ASSUME NEW j \in Jobs, NEW d
  PROVE  Taken(j, d).removeLastDC = j.removeLastDC
  BY SMTT(30) DEF Taken, Jobs

LEMMA OwnRequest ==
  ASSUME Inv, EachDeletesOwn, NEW t \in Threads, Request(t)
  PROVE  EachDeletesOwn'
<1>1. ASSUME NEW k, NEW p, NEW w, NEW try, NEW s, CreateAsset(t, k, p, w, try, s)
      PROVE  EachDeletesOwn'
  <2>1. OwnDeletes(t, CreateJob(k, p, w, try, s))
    BY DEF OwnDeletes, CreateJob, NoJob
  <2> QED
    BY <1>1, <2>1, OwnStep DEF CreateAsset, Receive
<1>2. ASSUME NEW a, NEW p, NEW w, NEW try, NEW s, UpdateAsset(t, a, p, w, try, s)
      PROVE  EachDeletesOwn'
  <2>1. \A src : OwnDeletes(t, UpdateJob(a, p, w, try, src))
    BY DEF OwnDeletes, UpdateJob, NoJob
  <2> QED
    BY <1>2, <2>1, OwnStep DEF UpdateAsset, Receive
<1>3. ASSUME NEW list, NEW recursive, DeleteAsset(t, list, recursive), t \notin Legacy
      PROVE  EachDeletesOwn'
  <2>1. OwnDeletes(t, DeleteJob(ToDel(list, recursive), "notify", FALSE))
    BY <1>3 DEF OwnDeletes, DeleteJob, NoJob
  <2> QED
    BY <1>3, <2>1, OwnStep DEF DeleteAsset, Receive
<1>4. ASSUME Reset(t), t \in Srr
      PROVE  EachDeletesOwn'
  BY <1>4, OwnStep DEF Reset, Receive
<1> QED
  BY <1>1, <1>2, <1>3, <1>4, Zenon DEF Request

(* Only the job of a create that could not be made active turns into a     *)
(* delete.  A datacenter is in nothing, so its row can always be written.  *)
LEMMA OwnSteps ==
  ASSUME OneDeletes, Inv, EachFits, KInv, EachDeletesOwn, NEW t \in Threads, Step(t)
  PROVE  EachDeletesOwn'
<1>1. PICK j \in Jobs : j = job[t]
  BY JobFields
<1>2. SUFFICES ASSUME t \notin Srr
               PROVE  job' = job \/ \E k : Set(t, k) /\ OwnDeletes(t, k)
  <2>1. \E k : job' = job \/ Set(t, k)
    BY DEF Step, Ask, Insert, Store, Undo, Activate, MarkActive, Deactivate, MarkNonactive, Finish,
           Unlink, Remove, Count, Drop, Refused, Report, Ko, Answer
  <2>2. job' = job => EachDeletesOwn'
    BY DEF EachDeletesOwn, OwnDeletes
  <2> QED
    BY <1>2, <2>1, <2>2, OwnStep
<1>3. OwnDeletes(t, j) /\ KindFits(j) /\ Fits(pc[t], j)
  BY <1>1, <1>2 DEF EachDeletesOwn, KInv, EachFits
<1>4. ASSUME NEW k, k.op = j.op, k.end = j.end, k.removeLastDC = j.removeLastDC,
             j.end = "KO" => k.asset = j.asset
      PROVE  OwnDeletes(t, k)
  BY <1>3, <1>4 DEF OwnDeletes
<1>5. OwnDeletes(t, NoJob) /\ OwnDeletes(t, Kept(t)) /\ OwnDeletes(t, Refuse(j))
      /\ OwnDeletes(t, [j EXCEPT !.result[j.asset] = "OK"])
  <2>1. OwnDeletes(t, NoJob)
    BY DEF OwnDeletes, NoJob
  <2>2. OwnDeletes(t, Kept(t))
    <3>1. Kept(t).removeLastDC = j.removeLastDC
      BY <1>1, SMTT(60) DEF Kept, Jobs
    <3> QED
      BY <1>1, <1>4, <3>1, KeptFields
  <2>3. OwnDeletes(t, Refuse(j)) /\ OwnDeletes(t, [j EXCEPT !.result[j.asset] = "OK"])
    BY <1>4 DEF Refuse, Jobs
  <2> QED
    BY <2>1, <2>2, <2>3
<1>6. CASE Ask(t) \/ Finish(t) \/ Ko(t) \/ Report(t) \/ Count(t) \/ Drop(t)
  BY <1>1, <1>5, <1>6 DEF Ask, Finish, Ko, Report, Count, Drop, Refused, Answer
<1>7. CASE Store(t) \/ Undo(t) \/ Activate(t) \/ Deactivate(t) \/ Unlink(t)
  BY <1>7 DEF Store, Undo, Activate, Deactivate, Unlink
<1>8. CASE Insert(t)
  <2>1. \A a : OwnDeletes(t, [j EXCEPT !.asset = a])
    <3>1. j.end # "KO"
      BY <1>1, <1>3, <1>8 DEF Fits, Insert
    <3> QED
      BY <1>4, <3>1 DEF Jobs
  <2> QED
    BY <1>1, <1>8, <2>1 DEF Insert
<1>9. CASE Remove(t)
  <2>1. ASSUME NEW d \in rows, j.todo[d] > 0
        PROVE  OwnDeletes(t, Taken(j, d)) /\ OwnDeletes(t, Refuse(Taken(j, d)))
    <3>1. PICK k \in Jobs : k = Taken(j, d) /\ d \in Assets
      BY <2>1, TakenType
    <3>2. k.op = j.op /\ k.end = j.end /\ k.removeLastDC = j.removeLastDC /\ k.asset = d
      <4>1. k.removeLastDC = j.removeLastDC
        BY <3>1, TakenUnasked
      <4> QED
        BY <2>1, <3>1, <4>1, TakenFields
    <3>3. j.end = "KO" => d = j.asset
      BY <1>3, <2>1, <3>1 DEF Fits
    <3>4. /\ Refuse(k).op = k.op /\ Refuse(k).end = k.end /\ Refuse(k).asset = k.asset
          /\ Refuse(k).removeLastDC = k.removeLastDC
      BY DEF Refuse, Jobs
    <3> QED
      BY <1>4, <3>1, <3>2, <3>3, <3>4
  <2> QED
    BY <1>1, <1>9, <2>1 DEF Remove
<1>10. CASE MarkActive(t) \/ MarkNonactive(t)
  <2>1. PICK w \in Statuses, k \in Jobs :
          k = [j EXCEPT !.want = w] /\ w = IF MarkActive(t) THEN "active" ELSE "nonactive"
    <3>1. PICK w \in Statuses : w = IF MarkActive(t) THEN "active" ELSE "nonactive"
      BY DEF Statuses
    <3> QED
      BY <3>1, WantType
  <2>2. /\ k.op = j.op /\ k.end = j.end /\ k.asset = j.asset /\ k.parent = j.parent
        /\ k.removeLastDC = j.removeLastDC /\ k.kind = j.kind
    BY <2>1 DEF Jobs
  <2>3. OwnDeletes(t, k) /\ OwnDeletes(t, Refuse(k))
    <3>1. /\ Refuse(k).op = k.op /\ Refuse(k).end = k.end /\ Refuse(k).asset = k.asset
          /\ Refuse(k).removeLastDC = k.removeLastDC
      BY DEF Refuse, Jobs
    <3> QED
      BY <1>4, <2>2, <3>1
  <2>4. j.asset \in Assets /\ j.asset # None
    BY <1>1, <1>10, TablesAssumption DEF MarkActive, MarkNonactive, Inv, AssetKnown, Holding
  <2>5. Kind[j.asset] = "datacenter" /\ j.asset \in rows => CanWrite(j.asset, j.parent)
    <3>1. ASSUME Kind[j.asset] = "datacenter", j.parent # None
          PROVE  FALSE
      <4>1. j.parent \in Assets /\ Kind[j.parent] \in Kinds
        BY <3>1, TablesAssumption DEF Jobs
      <4> QED
        BY <1>3, <2>4, <3>1, <4>1 DEF KindFits, OneDeletes
    <3> QED
      BY <2>4, <3>1 DEF CanWrite
  <2>6. Kind[j.asset] # "datacenter" => OwnDeletes(t, GivenUp(k))
    BY <1>3, <2>2 DEF OwnDeletes, GivenUp, Jobs
  <2> QED
    BY <1>1, <1>10, <2>1, <2>2, <2>3, <2>5, <2>6 DEF MarkActive, MarkNonactive
<1> QED
  BY <1>6, <1>7, <1>8, <1>9, <1>10 DEF Step

(* A reset is never undone: its thread is busy, or has answered.           *)
LEMMA ResetStays ==
  ASSUME Inv, [Next]_vars, NoResetYet'
  PROVE  NoResetYet
<1>1. HandleIncomingLimitations \/ UNCHANGED vars => NoResetYet
  BY DEF HandleIncomingLimitations, vars, NoResetYet
<1>2. ASSUME NEW t \in Threads, NEW l, Goto(t, l), l # "idle", reply' = reply
      PROVE  NoResetYet
  BY <1>2 DEF NoResetYet, Goto, Inv, TypeOK
<1>3. ASSUME NEW t \in Threads, NEW r \in {"OK", "KO"}, Answer(t, r)
      PROVE  NoResetYet
  BY <1>3 DEF NoResetYet, Goto, Answer, Inv, TypeOK
<1>4. ASSUME NEW t \in Threads, Step(t)
      PROVE  (\E l : Goto(t, l) /\ l # "idle" /\ reply' = reply)
             \/ (\E r \in {"OK", "KO"} : Answer(t, r))
  <2>1. CASE Finish(t) \/ Ko(t) \/ Report(t)
    BY <2>1 DEF Finish, Ko, Report
  <2>2. CASE Ask(t) \/ Insert(t) \/ Store(t) \/ Undo(t) \/ Unlink(t)
    BY <2>2 DEF Ask, Insert, Store, Undo, Unlink, Activation, Deactivation
  <2>3. CASE Activate(t) \/ MarkActive(t) \/ Deactivate(t) \/ MarkNonactive(t)
    BY <2>3 DEF Activate, MarkActive, Deactivate, MarkNonactive, Activated, Deactivated, Erasure
  <2>4. CASE Remove(t) \/ Count(t) \/ Drop(t)
    BY <2>4 DEF Remove, Count, Drop, Refused, Activation, Deactivation, Erasure
  <2> QED
    BY <1>4, <2>1, <2>2, <2>3, <2>4 DEF Step
<1>5. ASSUME NEW t \in Threads, Request(t)
      PROVE  NoResetYet
  <2>1. CASE t \in Srr
    <3>1. Reset(t)
      BY <1>5, <2>1, Zenon DEF Request
    <3>2. pc'[t] = "unlink"
      BY <3>1 DEF Reset, Goto, Inv, TypeOK
    <3> QED
      BY <2>1, <3>2 DEF NoResetYet
  <2>2. CASE t \notin Srr
    <3>1. /\ \E l : Goto(t, l)
          /\ reply' = [reply EXCEPT ![t] = "none"]
      BY <1>5, Zenon DEF Request, CreateAsset, UpdateAsset, DeleteAsset, Reset, Receive
    <3> QED
      BY <2>2, <3>1 DEF NoResetYet, Goto, Inv, TypeOK
  <2> QED
    BY <2>1, <2>2
<1> QED
  BY <1>1, <1>2, <1>3, <1>4, <1>5 DEF Next

(* A datacenter gets to the statements that remove it by the count alone.  *)
LEMMA Counted ==
  ASSUME Inv, EachDeletesOwn, NEW t \in Threads \ Srr, Step(t), pc'[t] = "drop",
         Kind[job'[t].asset] = "datacenter"
  PROVE  /\ ~IsLastDataCenter(job[t].asset)
         /\ UNCHANGED <<rows, job>>
<1>1. PICK j \in Jobs : j = job[t] /\ ~j.removeLastDC
  BY JobFields DEF EachDeletesOwn, OwnDeletes
<1>2. ASSUME NEW l, Goto(t, l)
      PROVE  pc'[t] = l
  BY <1>2 DEF Goto, Inv, TypeOK
<1>3. ASSUME NEW k, Set(t, k)
      PROVE  job'[t] = k
  BY <1>3 DEF Set, Inv, TypeOK
<1>4. \A a : Activation(a) # "drop" /\ Deactivation(a) # "drop"
  BY DEF Activation, Deactivation
<1>5. \A k : Activated(k) # "drop"
  BY DEF Activated
<1>6. ASSUME NEW k, ~k.removeLastDC, Kind[k.asset] = "datacenter"
      PROVE  Erasure(k) # "drop" /\ Deactivated(k) # "drop"
  BY <1>6 DEF Erasure, Deactivated, Location
<1>7. CASE Ask(t) \/ Insert(t) \/ Store(t) \/ Undo(t) \/ Finish(t) \/ Unlink(t) \/ Ko(t) \/ Report(t)
  BY <1>2, <1>4, <1>7 DEF Ask, Insert, Store, Undo, Finish, Unlink, Ko, Report, Answer
<1>8. CASE Activate(t) \/ MarkActive(t)
  BY <1>2, <1>5, <1>8 DEF Activate, MarkActive
<1>9. CASE Deactivate(t)
  <2>1. Kind[j.asset] = "datacenter"
    BY <1>1, <1>9 DEF Deactivate
  <2> QED
    BY <1>1, <1>2, <1>6, <1>9, <2>1 DEF Deactivate
<1>10. CASE MarkNonactive(t)
  <2>1. PICK k \in Jobs : k = [j EXCEPT !.want = "nonactive"]
    BY WantType DEF Statuses
  <2>2. ~k.removeLastDC
    BY <1>1, <2>1 DEF Jobs
  <2> QED
    BY <1>1, <1>2, <1>3, <1>6, <1>10, <2>1, <2>2 DEF MarkNonactive
<1>11. CASE Remove(t)
  <2>1. ASSUME NEW d \in rows, j.todo[d] > 0
        PROVE  ~Taken(j, d).removeLastDC
    BY <1>1, TakenUnasked
  <2> QED
    BY <1>1, <1>2, <1>3, <1>4, <1>6, <1>11, <2>1 DEF Remove
<1>12. CASE Count(t)
  BY <1>2, <1>4, <1>12 DEF Count, Refused, db
<1>13. CASE Drop(t)
  BY <1>2, <1>4, <1>13 DEF Drop, Refused
<1> QED
  BY <1>7, <1>8, <1>9, <1>10, <1>11, <1>12, <1>13 DEF Step

(* Only the statements of a removal take a row away.                       *)
LEMMA RowsStay ==
  ASSUME [Next]_vars, NEW d \in rows, d \notin rows'
  PROVE  \E t \in Threads : pc[t] = "drop" /\ job[t].asset = d /\ Drop(t)
<1>1. ~(HandleIncomingLimitations \/ UNCHANGED vars)
  BY DEF HandleIncomingLimitations, vars, db
<1>2. ASSUME NEW t \in Threads, Request(t)
      PROVE  FALSE
  <2>1. UNCHANGED db
    BY <1>2, Zenon DEF Request, CreateAsset, UpdateAsset, DeleteAsset, Reset
  <2> QED
    BY <2>1 DEF db
<1>3. ASSUME NEW t \in Threads, Step(t)
      PROVE  pc[t] = "drop" /\ job[t].asset = d /\ Drop(t)
  BY <1>3 DEF Step, Ask, Insert, Store, Undo, Activate, MarkActive, Deactivate, MarkNonactive,
              Finish, Unlink, Remove, Count, Drop, Report, Ko, db
<1> QED
  BY <1>1, <1>2, <1>3 DEF Next

(* Before any reset, a datacenter goes only from the one mailbox that      *)
(* deletes, and leaves another.                                            *)
LEMMA Leaves ==
  ASSUME EachFits, EachDeletesOwn, AnotherStays, NoResetYet, NEW t \in Threads, Drop(t),
         Kind[job[t].asset] = "datacenter"
  PROVE  /\ t \notin Legacy \cup Srr
         /\ ~IsLastDataCenter(job[t].asset)
<1>1. pc[t] = "drop" /\ t \notin Srr
  BY DEF Drop, NoResetYet
<1>2. job[t].op = "delete" /\ job[t].end # "KO"
  BY <1>1 DEF EachFits, Fits, EachDeletesOwn, OwnDeletes
<1> QED
  BY <1>1, <1>2 DEF EachDeletesOwn, OwnDeletes, AnotherStays

LEMMA AnotherNext ==
  ASSUME OneDeletes, Inv, EachFits, EachDeletesOwn, AnotherStays, [Next]_vars
  PROVE  AnotherStays'
<1> SUFFICES ASSUME NoResetYet', NEW s \in Threads \ Srr, pc'[s] = "drop",
                    Kind[job'[s].asset] = "datacenter"
             PROVE  \E d \in rows' \ {job'[s].asset} : Kind[d] = "datacenter"
  BY DEF AnotherStays, IsLastDataCenter
<1>1. NoResetYet
  BY ResetStays
<1>2. CASE pc[s] = "drop" /\ job'[s] = job[s]
  <2>1. PICK d \in rows \ {job[s].asset} : Kind[d] = "datacenter"
    BY <1>1, <1>2 DEF AnotherStays, IsLastDataCenter
  <2>2. ASSUME d \notin rows'
        PROVE  FALSE
    <3>1. PICK t \in Threads : pc[t] = "drop" /\ job[t].asset = d /\ Drop(t)
      BY <2>2, RowsStay
    <3>2. t \notin Legacy \cup Srr
      BY <1>1, <2>1, <3>1, Leaves
    <3>3. job[s].op = "delete" /\ s \notin Legacy
      BY <1>2 DEF EachFits, Fits, EachDeletesOwn, OwnDeletes
    <3> QED
      BY <2>1, <3>1, <3>2, <3>3 DEF OneDeletes
  <2> QED
    BY <1>2, <2>1, <2>2
<1>3. CASE UNCHANGED <<pc, job>>
  BY <1>2, <1>3
<1>4. ASSUME NEW t \in Threads, Request(t)
      PROVE  FALSE \/ (pc[s] = "drop" /\ job'[s] = job[s])
  <2>1. PICK l, j : Goto(t, l) /\ Set(t, j) /\ l # "drop"
    BY <1>4, Zenon DEF Request, CreateAsset, UpdateAsset, DeleteAsset, Reset, Receive
  <2> QED
    BY <2>1 DEF Goto, Set, Inv, TypeOK
<1>5. ASSUME NEW t \in Threads, Step(t), t # s
      PROVE  pc[s] = "drop" /\ job'[s] = job[s]
  <2>1. /\ \E l : Goto(t, l)
        /\ (\E j : Set(t, j)) \/ job' = job
    <3>1. CASE Ask(t) \/ Insert(t) \/ Store(t) \/ Undo(t) \/ Unlink(t)
      BY <3>1 DEF Ask, Insert, Store, Undo, Unlink
    <3>2. CASE Activate(t) \/ MarkActive(t) \/ Deactivate(t) \/ MarkNonactive(t)
      BY <3>2 DEF Activate, MarkActive, Deactivate, MarkNonactive
    <3>3. CASE Remove(t) \/ Count(t) \/ Drop(t) \/ Finish(t) \/ Ko(t) \/ Report(t)
      BY <3>3 DEF Remove, Count, Drop, Refused, Finish, Ko, Report, Answer
    <3> QED
      BY <1>5, <3>1, <3>2, <3>3 DEF Step
  <2> QED
    BY <1>5, <2>1 DEF Goto, Set, Inv, TypeOK
<1>6. CASE Step(s)
  <2>1. ~IsLastDataCenter(job[s].asset) /\ UNCHANGED <<rows, job>>
    BY <1>6, Counted
  <2> QED
    BY <2>1 DEF IsLastDataCenter
<1>7. CASE HandleIncomingLimitations \/ UNCHANGED vars
  BY <1>3, <1>7 DEF HandleIncomingLimitations, vars
<1> QED
  BY <1>2, <1>4, <1>5, <1>6, <1>7 DEF Next

(* Until the first reset the last datacenter stays, whatever the threads   *)
(* interleave between the count of AssetImpl::remove and the statement     *)
(* that removes the row, as long as at most one thread serves deletes and  *)
(* clients put nothing above a datacenter.                                 *)
THEOREM DatacenterStays == ASSUME OneDeletes PROVE Spec => LastDatacenterStays
<1> DEFINE I == RInv /\ KInv /\ DInv
<1>1. Init => I
  <2>1. Init => KInv
    BY DEF Init, Consistent, KInv, KindFits, ParentsInside, NoJob
  <2>2. Init => DInv
    BY DEF Init, DInv, EachDeletesOwn, OwnDeletes, NoJob, AnotherStays
  <2> QED
    BY <2>1, <2>2, InitR
<1>2. I /\ [Next]_vars => I'
  <2> SUFFICES ASSUME I, [Next]_vars
               PROVE  I'
    OBVIOUS
  <2>1. Inv /\ EachFits /\ EachDeletesOwn /\ AnotherStays /\ RInv /\ KInv
    BY DEF RInv, DInv
  <2>2. RInv' /\ KInv'
    BY <2>1, NextR, KindNext
  <2>3. EachDeletesOwn'
    <3>1. HandleIncomingLimitations \/ UNCHANGED vars => EachDeletesOwn'
      BY <2>1 DEF HandleIncomingLimitations, vars, EachDeletesOwn, OwnDeletes
    <3> QED
      BY <2>1, <3>1, OwnRequest, OwnSteps DEF Next
  <2> QED
    BY <2>1, <2>2, <2>3, AnotherNext DEF DInv
<1>3. I /\ [Next]_vars =>
        [(NoResetYet /\ \E d \in rows : Kind[d] = "datacenter") =>
         (\E d \in rows' : Kind[d] = "datacenter")]_vars
  <2> SUFFICES ASSUME I, [Next]_vars, NoResetYet, NEW c \in rows, Kind[c] = "datacenter"
               PROVE  \E d \in rows' : Kind[d] = "datacenter"
    OBVIOUS
  <2>1. SUFFICES ASSUME c \notin rows'
                 PROVE  \E d \in rows' : Kind[d] = "datacenter"
    OBVIOUS
  <2>2. PICK t \in Threads : pc[t] = "drop" /\ job[t].asset = c /\ Drop(t)
    BY <2>1, RowsStay
  <2>3. PICK d \in rows \ {c} : Kind[d] = "datacenter"
    BY <2>2, Leaves DEF RInv, DInv, IsLastDataCenter
  <2>4. d \in rows'
    BY <2>1, <2>2, <2>3 DEF Drop, db
  <2> QED
    BY <2>3, <2>4
<1> QED
  BY <1>1, <1>2, <1>3, PTL DEF Spec, LastDatacenterStays

=============================================================================
