-------------------------- MODULE BulkDeleteProofs --------------------------
(* Theorems about BulkDelete, for every set of assets, every map of ids    *)
(* and any number of threads.                                              *)
EXTENDS BulkDelete, SequenceTheorems, TLAPS

(* A call that is inside deleteAssetRec has an element and a root.         *)
Inner == {"descend", "guard", "refer", "deactivate", "count", "drop", "reactivate", "unmap",
          "endless"}
AtWork(l, j) == l \in Inner => j.stack # <<>> /\ j.todo # <<>>

Inv == TypeOK /\ \A t \in Threads : AtWork(pc[t], job[t])

Tables == /\ rows \in SUBSET Assets /\ parent \in [Assets -> Assets \cup {None}]
          /\ status \in [Assets -> Statuses] /\ links \in SUBSET (Assets \X Assets)
          /\ refers \in SUBSET (Assets \X Assets)
Others == /\ licensed \in SUBSET Assets /\ mapped \in SUBSET Assets /\ unheard \in SUBSET Assets
          /\ events \in Nat /\ calm \in BOOLEAN /\ clean \in BOOLEAN

(* What a step of thread t makes of its locals.                            *)
Moved(t) == \E l \in PCs, j \in Jobs : AtWork(l, j) /\ Goto(t, l) /\ Set(t, j)

LEMMA NoJobType == NoJob \in Jobs
<1>1. <<>> \in Seq(Assets)
  OBVIOUS
<1> QED
  BY <1>1 DEF NoJob, Jobs, Statuses

LEMMA InitInv == Init => Inv
<1> SUFFICES ASSUME Init PROVE Inv
  OBVIOUS
<1>1. /\ rows \in SUBSET Assets /\ parent \in [Assets -> Assets \cup {None}]
      /\ status \in [Assets -> Statuses] /\ licensed \in SUBSET Assets
      /\ mapped \in SUBSET Assets /\ unheard \in SUBSET Assets
  BY DEF Init, Consistent, ActiveDevices
<1>2. links \in SUBSET (Assets \X Assets) /\ refers \in SUBSET (Assets \X Assets)
  BY DeleteAssumption DEF Init, Consistent
<1>3. pc \in [Threads -> PCs] /\ job \in [Threads -> Jobs]
  BY NoJobType DEF Init, PCs
<1>4. events \in Nat /\ calm \in BOOLEAN /\ clean \in BOOLEAN
  BY DEF Init
<1>5. \A t \in Threads : AtWork(pc[t], job[t])
  BY DEF Init, AtWork, Inner
<1> QED
  BY <1>1, <1>2, <1>3, <1>4, <1>5 DEF Inv, TypeOK

LEMMA StepInv ==
  ASSUME Inv, NEW t \in Threads, Moved(t), Tables', Others'
  PROVE  Inv'
<1>1. PICK l \in PCs, j \in Jobs : AtWork(l, j) /\ Goto(t, l) /\ Set(t, j)
  BY DEF Moved
<1>2. /\ pc' = [pc EXCEPT ![t] = l] /\ job' = [job EXCEPT ![t] = j]
      /\ pc \in [Threads -> PCs] /\ job \in [Threads -> Jobs]
  BY <1>1 DEF Goto, Set, Inv, TypeOK
<1>3. pc' \in [Threads -> PCs] /\ job' \in [Threads -> Jobs]
  BY <1>2
<1>4. ASSUME NEW u \in Threads PROVE AtWork(pc'[u], job'[u])
  <2>1. CASE u = t
    BY <1>1, <1>2, <2>1
  <2>2. CASE u # t
    BY <1>2, <2>2 DEF Inv
  <2> QED
    BY <2>1, <2>2
<1>5. TypeOK'
  BY <1>3 DEF TypeOK, Tables, Others
<1> QED
  BY <1>4, <1>5 DEF Inv

(* Half of the variables at a time.                                        *)
LEMMA TablesKept == ASSUME Inv, UNCHANGED tables PROVE Tables'
  BY DEF Inv, TypeOK, Tables, tables, db
LEMMA OthersKept ==
  ASSUME Inv, UNCHANGED <<licensed, mapped, history, clean>> PROVE Others'
  BY DEF Inv, TypeOK, Others, history

(* The locals, when only the program counter or only the job moves.        *)
LEMMA MoveOnly ==
  ASSUME Inv, NEW t \in Threads, NEW l \in PCs, AtWork(l, job[t]), Goto(t, l), UNCHANGED job
  PROVE  Moved(t)
<1>1. job' = [job EXCEPT ![t] = job[t]] /\ job[t] \in Jobs
  BY DEF Inv, TypeOK
<1> QED
  BY <1>1 DEF Moved, Set
LEMMA SetOnly ==
  ASSUME Inv, NEW t \in Threads, NEW j \in Jobs, AtWork(pc[t], j), Set(t, j), UNCHANGED pc
  PROVE  Moved(t)
<1>1. pc' = [pc EXCEPT ![t] = pc[t]] /\ pc[t] \in PCs
  BY DEF Inv, TypeOK
<1> QED
  BY <1>1 DEF Moved, Goto
LEMMA Both ==
  ASSUME NEW t \in Threads, NEW l \in PCs, NEW j \in Jobs, AtWork(l, j), Goto(t, l), Set(t, j)
  PROVE  Moved(t)
  BY DEF Moved

LEMMA JobFacts ==
  ASSUME Inv, NEW t \in Threads
  PROVE  /\ job[t] \in Jobs /\ pc[t] \in PCs
         /\ pc[t] \in Inner => job[t].stack # <<>> /\ job[t].todo # <<>>
  BY DEF Inv, TypeOK, AtWork

-----------------------------------------------------------------------------
(* The operators on the locals of a call.                                  *)
LEMMA ByIdType ==
  ASSUME NEW S \in SUBSET Assets
  PROVE  ById[S] \in Seq(Assets)
  BY DeleteAssumption

LEMMA LoadedType ==
  ASSUME Inv, NEW j \in Jobs, NEW S \in SUBSET Assets
  PROVE  /\ Loaded(j, S) \in Jobs
         /\ Loaded(j, S).stack = j.stack /\ Loaded(j, S).todo = j.todo
         /\ Loaded(j, S).toDel = j.toDel /\ Loaded(j, S).result = j.result
         /\ Loaded(j, S).deleted = j.deleted /\ Loaded(j, S).ok = j.ok
<1>1. status \in [Assets -> Statuses]
  BY DEF Inv, TypeOK
<1>2. [a \in Assets |-> IF a \in S THEN status[a] ELSE j.was[a]] \in [Assets -> Statuses]
  BY <1>1 DEF Jobs
<1>3. j.top \cup {a \in S : parent[a] = None} \in SUBSET Assets
  BY DEF Jobs
<1> QED
  BY <1>2, <1>3 DEF Loaded, Jobs

LEMMA EmplaceType ==
  ASSUME NEW j \in Jobs, NEW r \in {"deleted", "refused"}, j.todo # <<>>
  PROVE  Emplace(j, r) \in Jobs
<1>1. Head(j.todo) \in Assets /\ Tail(j.todo) \in Seq(Assets) /\ <<>> \in Seq(Assets)
  BY DEF Jobs
<1>2. [j.result EXCEPT ![Head(j.todo)] = IF @ = "none" THEN r ELSE @]
        \in [Assets -> {"none", "deleted", "refused"}]
  BY <1>1 DEF Jobs
<1> QED
  BY <1>1, <1>2 DEF Emplace, Jobs

LEMMA DeletedType ==
  ASSUME NEW j \in Jobs, NEW a \in Assets, j.stack # <<>>
  PROVE  /\ Deleted(j, a) \in Jobs
         /\ Deleted(j, a).todo = j.todo
         /\ Len(j.stack) > 1 => Deleted(j, a).stack # <<>>
<1>1. Tail(j.stack) \in Seq(Assets) /\ Len(Tail(j.stack)) = Len(j.stack) - 1
  BY DEF Jobs
<1>2. j.deleted \cup {a} \in SUBSET Assets
  BY DEF Jobs
<1>3. Deleted(j, a) \in Jobs
  BY <1>1, <1>2 DEF Deleted, Jobs
<1>4. Deleted(j, a).todo = j.todo /\ Deleted(j, a).stack = Tail(j.stack)
  BY DEF Deleted, Jobs
<1>5. Len(j.stack) > 1 => Tail(j.stack) # <<>>
  <2>1. Len(j.stack) \in Nat /\ Len(<<>>) = 0
    BY DEF Jobs
  <2> QED
    BY <1>1, <2>1
<1> QED
  BY <1>3, <1>4, <1>5

LEMMA ReturnMoves ==
  ASSUME Inv, NEW t \in Threads, NEW j \in Jobs, NEW a \in Assets, NEW ok \in BOOLEAN,
         j.stack # <<>>, j.todo # <<>>, Return(t, j, a, ok)
  PROVE  Moved(t)
<1>1. "next" \in PCs /\ "next" \notin Inner /\ "descend" \in PCs
  BY DEF PCs, Inner
<1>2. CASE ~ok
  BY <1>1, <1>2, EmplaceType, Both DEF Return, AtWork
<1>3. CASE ok /\ Len(j.stack) > 1
  BY <1>1, <1>3, DeletedType, Both DEF Return, AtWork
<1>4. CASE ok /\ ~(Len(j.stack) > 1)
  BY <1>1, <1>4, DeletedType, EmplaceType, Both DEF Return, AtWork
<1> QED
  BY <1>2, <1>3, <1>4

LEMMA CurrentType ==
  ASSUME Inv, NEW t \in Threads, pc[t] \in Inner
  PROVE  Current(t) \in Assets
<1>1. job[t].stack \in Seq(Assets) /\ job[t].stack # <<>>
  BY JobFacts DEF Jobs
<1> QED
  BY <1>1 DEF Current

-----------------------------------------------------------------------------
(* The actions, one by one.                                                *)
LEMMA ReceiveInv ==
  ASSUME Inv, NEW t \in Threads, NEW l \in PCs, NEW j \in Jobs,
         l \in Inner => (j.stack # <<>> /\ j.todo # <<>>),
         Receive(t, j), Goto(t, l)
  PROVE  Inv'
<1> DEFINE k == [j EXCEPT !.named = {a \in Assets : Referred(a)}]
<1>1. k \in Jobs /\ k.stack = j.stack /\ k.todo = j.todo
  BY DEF Jobs
<1>2. AtWork(l, k) /\ Set(t, k)
  BY <1>1 DEF AtWork, Receive
<1>3. Moved(t)
  BY <1>1, <1>2, Both
<1>4. Tables'
  BY TablesKept DEF Receive
<1>5. Others'
  BY DEF Receive, Others, Inv, TypeOK
<1> QED
  BY <1>3, <1>4, <1>5, StepInv

LEMMA DeleteListInv == ASSUME Inv, NEW t \in Threads, NEW S \in Lists, DeleteList(t, S) PROVE Inv'
<1>1. S \in SUBSET Assets /\ ById[S] \in Seq(Assets)
  BY DeleteAssumption
<1>2. [NoJob EXCEPT !.ids = S, !.todo = ById[S]] \in Jobs
  BY <1>1, NoJobType DEF Jobs
<1>3. "examine" \in PCs \ Inner
  BY DEF PCs, Inner
<1> QED
  BY <1>2, <1>3, ReceiveInv DEF DeleteList

LEMMA DeleteOneInv == ASSUME Inv, NEW t \in Threads, NEW a \in Ones, DeleteOne(t, a) PROVE Inv'
<1>1. a \in Assets /\ <<a>> \in Seq(Assets)
  BY DeleteAssumption
<1> DEFINE j == [Loaded(NoJob, {a}) EXCEPT !.ids = {a}, !.todo = <<a>>, !.stack = <<a>>]
<1>2. Loaded(NoJob, {a}) \in Jobs
  BY <1>1, NoJobType, LoadedType
<1>3. j \in Jobs /\ j.stack = <<a>> /\ j.todo = <<a>>
  BY <1>1, <1>2 DEF Jobs
<1>4. "guard" \in PCs
  BY DEF PCs
<1>5. j.stack # <<>> /\ j.todo # <<>>
  BY <1>3
<1>6. Receive(t, j) /\ Goto(t, "guard")
  BY DEF DeleteOne
<1> QED
  BY <1>3, <1>4, <1>5, <1>6, ReceiveInv

LEMMA ExamineInv == ASSUME Inv, NEW t \in Threads, Examine(t) PROVE Inv'
<1> DEFINE a == Head(job[t].todo)
           j == [job[t] EXCEPT !.todo = Tail(@)]
           outside == SubTree(a) \ j.ids
           along == IF Detached(Loaded(NoJob, {a}), a) THEN Idling(outside) ELSE {}
<1>1. /\ job[t].todo \in Seq(Assets) /\ job[t].todo # <<>> /\ job[t] \in Jobs
      /\ rows \in SUBSET Assets
  BY JobFacts DEF Examine, Jobs, Inv, TypeOK
<1>2. a \in Assets /\ Tail(job[t].todo) \in Seq(Assets)
  BY <1>1
<1>3. j \in Jobs
  BY <1>1, <1>2 DEF Jobs
<1>4. along \in SUBSET Assets
  BY <1>1 DEF Idling, SubTree
<1>5. ById[along] \in Seq(Assets) /\ Append(ById[along], a) \in Seq(Assets)
  <2>1. ById[along] \in Seq(Assets)
    BY <1>4, ByIdType
  <2> QED
    BY <1>2, <2>1
<1>6. \A k \in Jobs : AtWork(pc[t], k)
  BY DEF Examine, AtWork, Inner
<1>7. CASE a \notin rows /\ Set(t, [j EXCEPT !.result[a] = "refused"])
  <2>1. [j EXCEPT !.result[a] = "refused"] \in Jobs
    BY <1>2, <1>3 DEF Jobs
  <2> QED
    BY <2>1, <1>6, <1>7, SetOnly, StepInv, TablesKept, OthersKept DEF Examine
<1>8. CASE Set(t, [Loaded(j, along) EXCEPT !.toDel = @ \o ById[along], !.result[a] = "refused"])
  <2>1. Loaded(j, along) \in Jobs
    BY <1>3, <1>4, LoadedType
  <2>2. Loaded(j, along).toDel \o ById[along] \in Seq(Assets)
    <3>1. Loaded(j, along).toDel \in Seq(Assets)
      BY <2>1 DEF Jobs
    <3> HIDE DEF along, j
    <3> QED
      BY <3>1, <1>5
  <2>3. [Loaded(j, along) EXCEPT !.toDel = @ \o ById[along], !.result[a] = "refused"] \in Jobs
    BY <1>2, <2>1, <2>2 DEF Jobs
  <2> QED
    BY <2>3, <1>6, <1>8, SetOnly, StepInv, TablesKept, OthersKept DEF Examine
<1>9. CASE Set(t, [Loaded(j, along \cup {a}) EXCEPT !.toDel = @ \o Append(ById[along], a)])
  <2>1. Loaded(j, along \cup {a}) \in Jobs
    BY <1>2, <1>3, <1>4, LoadedType
  <2>2. Loaded(j, along \cup {a}).toDel \o Append(ById[along], a) \in Seq(Assets)
    <3>1. Loaded(j, along \cup {a}).toDel \in Seq(Assets)
      BY <2>1 DEF Jobs
    <3> HIDE DEF along, j
    <3> QED
      BY <3>1, <1>5
  <2>3. [Loaded(j, along \cup {a}) EXCEPT !.toDel = @ \o Append(ById[along], a)] \in Jobs
    BY <2>1, <2>2 DEF Jobs
  <2> QED
    BY <2>3, <1>6, <1>9, SetOnly, StepInv, TablesKept, OthersKept DEF Examine
<1> QED
  BY <1>7, <1>8, <1>9 DEF Examine

LEMMA StartInv ==
  ASSUME Inv, NEW t \in Threads, StartCollect(t) \/ StartDelete(t)
  PROVE  Inv'
<1>1. job[t] \in Jobs /\ job[t].todo \o job[t].toDel \in Seq(Assets)
  BY JobFacts DEF Jobs
<1>2. [job[t] EXCEPT !.todo = @ \o job[t].toDel] \in Jobs
  BY <1>1 DEF Jobs
<1>3. "collect" \in PCs \ Inner /\ "next" \in PCs \ Inner
  BY DEF PCs, Inner
<1>4. Moved(t)
  BY <1>2, <1>3, Both DEF StartCollect, StartDelete, AtWork
<1> QED
  BY <1>4, StepInv, TablesKept, OthersKept DEF StartCollect, StartDelete

LEMMA CollectInv == ASSUME Inv, NEW t \in Threads, Collect(t) PROVE Inv'
<1> DEFINE e == Head(job[t].todo)
           list == Elements(job[t].toDel)
           j == [job[t] EXCEPT !.todo = Tail(@), !.kids[e] = Children(e) \cap list,
                               !.fed[e] = {d \in list : <<e, d>> \in links}]
<1>1. job[t] \in Jobs /\ job[t].todo \in Seq(Assets) /\ job[t].toDel \in Seq(Assets)
  BY JobFacts DEF Jobs
<1>2. e \in Assets /\ Tail(job[t].todo) \in Seq(Assets)
  BY <1>1 DEF Collect
<1>3. list \in SUBSET Assets
  BY <1>1 DEF Elements
<1>4. j \in Jobs
  BY <1>1, <1>2, <1>3 DEF Jobs
<1>5. Set(t, j) /\ UNCHANGED pc /\ AtWork(pc[t], j)
  BY DEF Collect, AtWork, Inner
<1> QED
  BY <1>4, <1>5, SetOnly, StepInv, TablesKept, OthersKept DEF Collect

LEMMA NextRootInv == ASSUME Inv, NEW t \in Threads, NextRoot(t) PROVE Inv'
<1> DEFINE root == Head(job[t].todo)
           j == [job[t] EXCEPT !.stack = <<root>>]
<1>1. job[t] \in Jobs /\ job[t].todo \in Seq(Assets) /\ job[t].todo # <<>>
  BY JobFacts DEF Jobs, NextRoot
<1>2. root \in Assets /\ <<root>> \in Seq(Assets)
  BY <1>1
<1>3. j \in Jobs /\ j.stack # <<>> /\ j.todo # <<>>
  BY <1>1, <1>2 DEF Jobs
<1>4. CASE Set(t, Emplace(job[t], "deleted")) /\ UNCHANGED pc
  <2>1. AtWork(pc[t], Emplace(job[t], "deleted"))
    BY DEF NextRoot, AtWork, Inner
  <2> QED
    BY <1>1, <1>4, <2>1, EmplaceType, SetOnly, StepInv, TablesKept, OthersKept DEF NextRoot
<1>5. CASE Set(t, j) /\ Goto(t, "descend")
  <2>1. "descend" \in PCs /\ AtWork("descend", j)
    BY <1>3 DEF PCs, AtWork
  <2> QED
    BY <1>3, <1>5, <2>1, Both, StepInv, TablesKept, OthersKept DEF NextRoot
<1> QED
  BY <1>4, <1>5 DEF NextRoot

LEMMA DescendInv == ASSUME Inv, NEW t \in Threads, Descend(t) PROVE Inv'
<1> DEFINE j == job[t]
           e == Head(j.stack)
<1>1. j \in Jobs /\ j.stack \in Seq(Assets) /\ j.stack # <<>> /\ j.todo # <<>>
  BY JobFacts DEF Jobs, Descend, Inner
<1>2. e \in Assets
  BY <1>1
<1>3. {"descend", "endless", "guard"} \subseteq PCs
  BY DEF PCs
<1>4. ASSUME NEW x \in First(j, e), Set(t, [j EXCEPT !.stack = <<x>> \o @]),
             Goto(t, IF x \in Elements(j.stack) THEN "endless" ELSE "descend")
      PROVE  Moved(t)
  <2>1. x \in Assets
    BY <1>1, <1>2 DEF First, Jobs
  <2>2. <<x>> \o j.stack \in Seq(Assets) /\ <<x>> \o j.stack # <<>>
    BY <1>1, <2>1
  <2>3. [j EXCEPT !.stack = <<x>> \o @] \in Jobs
    BY <1>1, <2>2 DEF Jobs
  <2>4. \A l \in PCs : AtWork(l, [j EXCEPT !.stack = <<x>> \o @])
    BY <1>1, <2>2 DEF AtWork, Jobs
  <2> QED
    BY <1>3, <1>4, <2>3, <2>4, Both
<1>5. ASSUME Goto(t, "guard"), UNCHANGED job
      PROVE  Moved(t)
  <2>1. "guard" \in PCs /\ AtWork("guard", job[t])
    BY <1>1, <1>3 DEF AtWork
  <2> QED
    BY <1>5, <2>1, MoveOnly
<1>6. Moved(t)
  BY <1>4, <1>5 DEF Descend
<1> QED
  BY <1>6, StepInv, TablesKept, OthersKept DEF Descend
LEMMA EraseTables == ASSUME Inv, NEW a \in Assets, Erase(a) PROVE Tables'
<1>1. /\ rows' \in SUBSET Assets /\ links' \in SUBSET (Assets \X Assets)
      /\ refers' \in SUBSET (Assets \X Assets)
  BY DEF Erase, LinksTo, Inv, TypeOK
<1>2. parent' \in [Assets -> Assets \cup {None}] /\ status' \in [Assets -> Statuses]
  BY DEF Erase, Write, Inv, TypeOK, Statuses
<1> QED
  BY <1>1, <1>2 DEF Tables

LEMMA GuardInv == ASSUME Inv, NEW t \in Threads, Guard(t) PROVE Inv'
<1> DEFINE j == job[t]
           k == [j EXCEPT !.sensors = IF Detached(j, Current(t)) THEN Idling(Children(Current(t)))
                                      ELSE {}]
<1>1. Current(t) \in Assets /\ j \in Jobs /\ j.stack # <<>> /\ j.todo # <<>>
  BY CurrentType, JobFacts DEF Guard, Inner
<1>2. Children(Current(t)) \in SUBSET Assets
  BY DEF Children, Inv, TypeOK
<1>3. k \in Jobs /\ k.stack = j.stack /\ k.todo = j.todo
  BY <1>1, <1>2 DEF Jobs, Idling
<1>4. ASSUME Return(t, j, Current(t), FALSE) PROVE Moved(t)
  BY <1>1, <1>4, ReturnMoves
<1>5. ASSUME Set(t, k), Goto(t, "refer") PROVE Moved(t)
  <2>1. "refer" \in PCs /\ AtWork("refer", k)
    BY <1>1, <1>3 DEF PCs, AtWork
  <2> QED
    BY <1>3, <1>5, <2>1, Both
<1>6. Moved(t)
  BY <1>4, <1>5 DEF Guard
<1> QED
  BY <1>6, StepInv, TablesKept, OthersKept DEF Guard

LEMMA DeleteSensorInv == ASSUME Inv, NEW t \in Threads, DeleteSensor(t) PROVE Inv'
<1>1. job[t] \in Jobs /\ job[t].stack # <<>> /\ job[t].todo # <<>>
  BY JobFacts DEF DeleteSensor, Inner
<1>2. PICK s \in job[t].sensors :
        /\ Set(t, [job[t] EXCEPT !.sensors = @ \ {s}])
        /\ IF ~Referred(s) /\ Free(s) THEN Erase(s) ELSE UNCHANGED tables
        /\ IF Referred(s) THEN UNCHANGED <<mapped, unheard>> ELSE DeleteMappings(s)
  BY DEF DeleteSensor
<1>3. s \in Assets
  BY <1>1 DEF Jobs
<1> DEFINE k == [job[t] EXCEPT !.sensors = @ \ {s}]
<1>4. k \in Jobs /\ k.stack = job[t].stack /\ k.todo = job[t].todo
  BY <1>1 DEF Jobs
<1>5. Moved(t)
  <2>1. AtWork(pc[t], k)
    BY <1>1, <1>4 DEF AtWork
  <2> QED
    BY <1>2, <1>4, <2>1, SetOnly DEF DeleteSensor
<1>6. Tables'
  BY <1>2, <1>3, EraseTables, TablesKept
<1>7. Others'
  <2>1. mapped' \in SUBSET Assets /\ unheard' \in SUBSET Assets
    BY <1>2 DEF DeleteMappings, Unmapped, Inv, TypeOK
  <2> QED
    BY <2>1 DEF DeleteSensor, Others, Inv, TypeOK
<1> QED
  BY <1>5, <1>6, <1>7, StepInv

LEMMA ReferInv == ASSUME Inv, NEW t \in Threads, Refer(t) PROVE Inv'
<1>1. Current(t) \in Assets /\ job[t] \in Jobs /\ job[t].stack # <<>> /\ job[t].todo # <<>>
  BY CurrentType, JobFacts DEF Refer, Inner
<1>2. {"deactivate", "count", "drop"} \subseteq PCs /\ \A l \in PCs : AtWork(l, job[t])
  BY <1>1 DEF PCs, AtWork
<1>3. ASSUME Return(t, job[t], Current(t), FALSE) PROVE Moved(t)
  BY <1>1, <1>3, ReturnMoves
<1>4. ASSUME UNCHANGED job,
             Goto(t, IF Deactivates(job[t], Current(t)) THEN "deactivate" ELSE Cleanup(Current(t)))
      PROVE  Moved(t)
  BY <1>2, <1>4, MoveOnly DEF Cleanup
<1>5. Moved(t)
  BY <1>3, <1>4 DEF Refer
<1> QED
  BY <1>5, StepInv, TablesKept, OthersKept DEF Refer

LEMMA DeactivateInv == ASSUME Inv, NEW t \in Threads, Deactivate(t) PROVE Inv'
<1>1. Current(t) \in Assets /\ job[t] \in Jobs /\ job[t].stack # <<>> /\ job[t].todo # <<>>
  BY CurrentType, JobFacts DEF Deactivate, Inner
<1>2. {"count", "drop"} \subseteq PCs /\ \A l \in PCs : AtWork(l, job[t])
  BY <1>1 DEF PCs, AtWork
<1>3. ASSUME Return(t, job[t], Current(t), FALSE) PROVE Moved(t)
  BY <1>1, <1>3, ReturnMoves
<1>4. ASSUME UNCHANGED job, Goto(t, Cleanup(Current(t))) PROVE Moved(t)
  BY <1>2, <1>4, MoveOnly DEF Cleanup
<1>5. Moved(t)
  BY <1>3, <1>4 DEF Deactivate
<1>6. Others'
  BY DEF Deactivate, Others, Inv, TypeOK, history
<1> QED
  BY <1>5, <1>6, StepInv, TablesKept DEF Deactivate

(* A statement that fails leaves the error in the locals.                  *)
LEMMA FailedMoves ==
  ASSUME Inv, NEW t \in Threads, pc[t] \in Inner, Failed(t, Current(t))
  PROVE  Moved(t)
<1> DEFINE k == [job[t] EXCEPT !.ok = FALSE]
<1>1. job[t] \in Jobs /\ job[t].stack # <<>> /\ job[t].todo # <<>>
  BY JobFacts
<1>2. k \in Jobs /\ k.stack = job[t].stack /\ k.todo = job[t].todo
  BY <1>1 DEF Jobs
<1>3. {"reactivate", "unmap"} \subseteq PCs /\ \A l \in PCs : AtWork(l, k)
  BY <1>1, <1>2 DEF PCs, AtWork
<1> QED
  BY <1>2, <1>3, Both DEF Failed

LEMMA CountInv == ASSUME Inv, NEW t \in Threads, Count(t) PROVE Inv'
<1>1. pc[t] \in Inner /\ job[t].stack # <<>> /\ job[t].todo # <<>>
  BY JobFacts DEF Count, Inner
<1>2. "drop" \in PCs /\ AtWork("drop", job[t])
  BY <1>1 DEF PCs, AtWork
<1>3. ASSUME Goto(t, "drop"), UNCHANGED job PROVE Moved(t)
  BY <1>2, <1>3, MoveOnly
<1>4. Moved(t)
  BY <1>1, <1>3, FailedMoves DEF Count
<1> QED
  BY <1>4, StepInv, TablesKept, OthersKept DEF Count

LEMMA DropInv == ASSUME Inv, NEW t \in Threads, Drop(t) PROVE Inv'
<1>1. pc[t] \in Inner /\ job[t].stack # <<>> /\ job[t].todo # <<>> /\ Current(t) \in Assets
  BY JobFacts, CurrentType DEF Drop, Inner
<1>2. "unmap" \in PCs /\ AtWork("unmap", job[t])
  BY <1>1 DEF PCs, AtWork
<1>3. ASSUME Goto(t, "unmap"), UNCHANGED job PROVE Moved(t)
  BY <1>2, <1>3, MoveOnly
<1>4. Moved(t)
  BY <1>1, <1>3, FailedMoves DEF Drop
<1>5. Tables'
  BY <1>1, EraseTables, TablesKept DEF Drop
<1> QED
  BY <1>4, <1>5, StepInv, OthersKept DEF Drop

LEMMA ReactivateInv == ASSUME Inv, NEW t \in Threads, Reactivate(t) PROVE Inv'
<1>1. job[t].stack # <<>> /\ job[t].todo # <<>> /\ Current(t) \in Assets
  BY JobFacts, CurrentType DEF Reactivate, Inner
<1>2. "unmap" \in PCs /\ AtWork("unmap", job[t])
  BY <1>1 DEF PCs, AtWork
<1>3. Moved(t)
  BY <1>2, MoveOnly DEF Reactivate
<1>4. licensed' \in SUBSET Assets /\ clean' \in BOOLEAN
  BY <1>1 DEF Reactivate, Inv, TypeOK
<1>5. Others'
  BY <1>4 DEF Reactivate, Others, Inv, TypeOK, history
<1> QED
  BY <1>3, <1>5, StepInv, TablesKept DEF Reactivate

LEMMA UnmapInv == ASSUME Inv, NEW t \in Threads, Unmap(t) PROVE Inv'
<1> DEFINE k == [job[t] EXCEPT !.ok = TRUE]
<1>1. /\ job[t] \in Jobs /\ job[t].stack # <<>> /\ job[t].todo # <<>> /\ job[t].ok \in BOOLEAN
      /\ Current(t) \in Assets
  BY JobFacts, CurrentType DEF Unmap, Inner, Jobs
<1>2. k \in Jobs /\ k.stack = job[t].stack /\ k.todo = job[t].todo
  BY <1>1 DEF Jobs
<1>3. Moved(t)
  BY <1>1, <1>2, ReturnMoves DEF Unmap
<1>4. Others'
  <2>1. mapped' \in SUBSET Assets /\ unheard' \in SUBSET Assets
    BY DEF Unmap, DeleteMappings, Unmapped, Inv, TypeOK
  <2> QED
    BY <2>1 DEF Unmap, Others, Inv, TypeOK
<1> QED
  BY <1>3, <1>4, StepInv, TablesKept DEF Unmap

LEMMA ReportInv == ASSUME Inv, NEW t \in Threads, Report(t) PROVE Inv'
<1>1. "idle" \in PCs /\ AtWork("idle", NoJob)
  BY DEF PCs, AtWork, Inner
<1>2. Moved(t)
  BY <1>1, NoJobType, Both DEF Report
<1> QED
  BY <1>2, StepInv, TablesKept, OthersKept DEF Report

(* The other users write well formed rows too.                             *)
LEMMA ChangeInv == ASSUME Inv, Change PROVE Inv'
<1>1. Tables' /\ licensed' \in SUBSET Assets
  <2>1. ASSUME NEW a \in Assets, NEW p \in Assets \cup {None}, NEW w \in Statuses, Update(a, p, w)
        PROVE  Tables' /\ licensed' \in SUBSET Assets
    BY <2>1 DEF Update, Write, Tables, Inv, TypeOK
  <2>2. ASSUME NEW m \in Moves, Update(m[1], m[2], m[3])
        PROVE  Tables' /\ licensed' \in SUBSET Assets
    <3>1. m[1] \in Assets /\ m[2] \in Assets \cup {None} /\ m[3] \in Statuses
      BY DeleteAssumption
    <3> QED
      BY <2>1, <2>2, <3>1
  <2>3. ASSUME NEW l \in Wires, Wire(l)
        PROVE  Tables' /\ licensed' \in SUBSET Assets
    <3>1. l \in Assets \X Assets
      BY DeleteAssumption
    <3> QED
      BY <2>3, <3>1 DEF Wire, Tables, Inv, TypeOK
  <2>4. ASSUME NEW r \in Refs, Name(r)
        PROVE  Tables' /\ licensed' \in SUBSET Assets
    <3>1. r \in Assets \X Assets
      BY DeleteAssumption
    <3> QED
      BY <2>4, <3>1 DEF Name, Tables, Inv, TypeOK, db
  <2> QED
    BY <2>2, <2>3, <2>4 DEF Change
<1>2. Others' /\ UNCHANGED <<pc, job>>
  BY <1>1 DEF Change, Others, Inv, TypeOK
<1> QED
  BY <1>1, <1>2 DEF Inv, TypeOK, Tables, Others

LEMMA NextInv == ASSUME Inv, [Next]_vars PROVE Inv'
<1>1. CASE UNCHANGED vars
  BY <1>1 DEF vars, Inv, TypeOK, AtWork
<1>2. CASE Change
  BY <1>2, ChangeInv
<1>3. ASSUME NEW t \in Threads, Request(t) PROVE Inv'
  BY <1>3, DeleteListInv, DeleteOneInv DEF Request
<1>4. ASSUME NEW t \in Threads, Step(t) PROVE Inv'
  BY <1>4, ExamineInv, StartInv, CollectInv, NextRootInv, DescendInv, GuardInv, DeleteSensorInv,
     ReferInv, DeactivateInv, CountInv, DropInv, ReactivateInv, UnmapInv, ReportInv DEF Step
<1> QED
  BY <1>1, <1>2, <1>3, <1>4 DEF Next

LEMMA SpecInv == Spec => []Inv
  BY InitInv, NextInv, PTL DEF Spec

(* The tables and the locals of every call stay well formed, for any       *)
(* database, any maps of ids and any number of threads.                    *)
THEOREM Typed == Spec => []TypeOK
<1>1. Inv => TypeOK
  BY DEF Inv
<1> QED
  BY <1>1, SpecInv, PTL
-----------------------------------------------------------------------------
(* What a step of a call leaves alone: the other calls, and whoever names  *)
(* a logical asset or makes a row.                                         *)
Elsewhere(t) == \A u \in Threads \ {t} : pc'[u] = pc[u] /\ job'[u] = job[u]
Frame(t) == Elsewhere(t) /\ rows' \subseteq rows /\ refers' \subseteq refers /\ calm' = calm

LEMMA ElsewhereKept ==
  ASSUME Inv, NEW t \in Threads, UNCHANGED pc \/ \E l \in PCs : Goto(t, l),
         UNCHANGED job \/ \E j : Set(t, j)
  PROVE  Elsewhere(t)
  BY DEF Elsewhere, Goto, Set, Inv, TypeOK

LEMMA ReturnElsewhere ==
  ASSUME Inv, NEW t \in Threads, NEW j, NEW a, NEW ok, Return(t, j, a, ok)
  PROVE  Elsewhere(t)
<1>1. (\E l \in PCs : Goto(t, l)) /\ \E k : Set(t, k)
  BY DEF Return, PCs
<1> QED
  BY <1>1, ElsewhereKept

LEMMA FailedElsewhere ==
  ASSUME Inv, NEW t \in Threads, NEW a, Failed(t, a)
  PROVE  Elsewhere(t)
<1>1. (\E l \in PCs : Goto(t, l)) /\ \E k : Set(t, k)
  BY DEF Failed, PCs
<1> QED
  BY <1>1, ElsewhereKept

LEMMA RequestFrame == ASSUME Inv, NEW t \in Threads, Request(t) PROVE Frame(t)
<1>1. ASSUME NEW j, NEW l \in PCs, Receive(t, j), Goto(t, l) PROVE Frame(t)
  <2>1. Elsewhere(t)
    BY <1>1, ElsewhereKept DEF Receive
  <2> QED
    BY <1>1, <2>1 DEF Frame, Receive, tables, db
<1>2. "examine" \in PCs /\ "guard" \in PCs
  BY DEF PCs
<1> QED
  BY <1>1, <1>2 DEF Request, DeleteList, DeleteOne

LEMMA StepElsewhere == ASSUME Inv, NEW t \in Threads, Step(t) PROVE Elsewhere(t)
<1>1. CASE Examine(t)
  BY <1>1, ElsewhereKept DEF Examine
<1>2. CASE StartCollect(t) \/ StartDelete(t)
  <2>1. "collect" \in PCs /\ "next" \in PCs
    BY DEF PCs
  <2> QED
    BY <1>2, <2>1, ElsewhereKept DEF StartCollect, StartDelete
<1>3. CASE Collect(t)
  BY <1>3, ElsewhereKept DEF Collect
<1>4. CASE NextRoot(t)
  <2>1. "descend" \in PCs
    BY DEF PCs
  <2> QED
    BY <1>4, <2>1, ElsewhereKept DEF NextRoot
<1>5. CASE Descend(t)
  <2>1. "descend" \in PCs /\ "endless" \in PCs /\ "guard" \in PCs
    BY DEF PCs
  <2> QED
    BY <1>5, <2>1, ElsewhereKept DEF Descend
<1>6. CASE Guard(t)
  <2>1. "refer" \in PCs
    BY DEF PCs
  <2> QED
    BY <1>6, <2>1, ElsewhereKept, ReturnElsewhere DEF Guard
<1>7. CASE DeleteSensor(t)
  BY <1>7, ElsewhereKept DEF DeleteSensor
<1>8. CASE Refer(t) \/ Deactivate(t)
  <2>1. \A a : Cleanup(a) \in PCs
    BY DEF PCs, Cleanup
  <2>2. "deactivate" \in PCs
    BY DEF PCs
  <2> QED
    BY <1>8, <2>1, <2>2, ElsewhereKept, ReturnElsewhere DEF Refer, Deactivate
<1>9. CASE Count(t) \/ Drop(t)
  <2>1. "drop" \in PCs /\ "unmap" \in PCs
    BY DEF PCs
  <2> QED
    BY <1>9, <2>1, ElsewhereKept, FailedElsewhere DEF Count, Drop
<1>10. CASE Reactivate(t)
  <2>1. "unmap" \in PCs
    BY DEF PCs
  <2> QED
    BY <1>10, <2>1, ElsewhereKept DEF Reactivate
<1>11. CASE Unmap(t)
  BY <1>11, ReturnElsewhere DEF Unmap
<1>12. CASE Report(t)
  <2>1. "idle" \in PCs
    BY DEF PCs
  <2> QED
    BY <1>12, <2>1, ElsewhereKept DEF Report
<1> QED
  BY <1>1, <1>2, <1>3, <1>4, <1>5, <1>6, <1>7, <1>8, <1>9, <1>10, <1>11, <1>12 DEF Step

(* The steps that write no table; the other two erase one row.             *)
Reading(t) ==
  \/ Examine(t) \/ StartCollect(t) \/ Collect(t) \/ StartDelete(t) \/ NextRoot(t) \/ Descend(t)
  \/ Guard(t) \/ Refer(t) \/ Deactivate(t) \/ Count(t) \/ Reactivate(t) \/ Unmap(t) \/ Report(t)

LEMMA ReadingKeeps ==
  ASSUME NEW t \in Threads, Reading(t)
  PROVE  UNCHANGED <<rows, refers, calm>>
<1>1. UNCHANGED tables /\ UNCHANGED calm
  BY DEF Reading, Examine, StartCollect, Collect, StartDelete, NextRoot, Descend, Guard, Refer,
     Deactivate, Count, Reactivate, Unmap, Report, history
<1> QED
  BY <1>1 DEF tables, db

LEMMA StepFrame == ASSUME Inv, NEW t \in Threads, Step(t) PROVE Frame(t)
<1>1. Elsewhere(t)
  BY StepElsewhere
<1>2. CASE Reading(t)
  BY <1>1, <1>2, ReadingKeeps DEF Frame
<1>3. CASE DeleteSensor(t) \/ Drop(t)
  BY <1>1, <1>3 DEF Frame, DeleteSensor, Drop, Erase, tables, db, history
<1> QED
  BY <1>2, <1>3 DEF Step, Reading

-----------------------------------------------------------------------------
(* Once no sensor stands for the asset, none does until it is gone: only   *)
(* another user could name it, and would spoil a calm history.             *)
Sparing == {"deactivate", "count", "drop"}
Spared == calm => \A t \in Threads : pc[t] \in Sparing => ~Referred(Current(t))

LogicalInv == LogicalAssetsExist /\ Spared

LEMMA InitLogical == Init => LogicalInv
  BY DEF Init, LogicalInv, LogicalAssetsExist, Spared, Sparing

LEMMA ChangeLogical == ASSUME Inv, LogicalInv, Change PROVE LogicalInv'
<1>1. SUFFICES ASSUME calm' PROVE LogicalInv'
  BY DEF LogicalInv, LogicalAssetsExist, Spared
<1>2. calm /\ \A t \in Threads : pc[t] = "idle"
  BY <1>1 DEF Change, Busy
<1>3. UNCHANGED <<pc, rows>>
  BY DEF Change, Update, Wire, Name, db
<1>4. Spared'
  BY <1>2, <1>3 DEF Spared, Sparing
<1>5. \A r \in refers' : r \in refers \/ r[2] \in rows
  BY DEF Change, Update, Wire, Name
<1> QED
  BY <1>2, <1>3, <1>4, <1>5 DEF LogicalInv, LogicalAssetsExist

(* Whoever is above the row that goes has seen that nobody stands for it.  *)
LEMMA EraseLogical ==
  ASSUME LogicalAssetsExist, NEW a, calm => ~Referred(a), Erase(a), UNCHANGED calm
  PROVE  LogicalAssetsExist'
  BY DEF LogicalAssetsExist, Referred, Erase

LEMMA ReturnEnds ==
  ASSUME Inv, NEW t \in Threads, NEW j, NEW a, NEW ok, Return(t, j, a, ok)
  PROVE  pc'[t] \in {"next", "descend"}
  BY DEF Return, Goto, Inv, TypeOK

LEMMA StepSpared ==
  ASSUME Inv, LogicalInv, NEW t \in Threads, Step(t), calm, pc'[t] \in Sparing
  PROVE  ~Referred(Current(t)) /\ job' = job
<1> USE DEF Sparing
<1>0. pc \in [Threads -> PCs] /\ (pc[t] \in Sparing => ~Referred(Current(t)))
  BY DEF Inv, TypeOK, LogicalInv, Spared
<1>1. CASE Refer(t)
  BY <1>0, <1>1, ReturnEnds DEF Refer
<1>2. CASE Deactivate(t)
  BY <1>0, <1>2, ReturnEnds DEF Deactivate
<1>3. CASE Count(t) \/ Drop(t)
  BY <1>0, <1>3 DEF Count, Drop, Failed, Goto
<1>4. CASE Guard(t)
  BY <1>0, <1>4, ReturnEnds DEF Guard, Goto
<1>5. CASE Unmap(t)
  BY <1>0, <1>5, ReturnEnds DEF Unmap
<1>6. CASE Examine(t) \/ Collect(t) \/ DeleteSensor(t)
  BY <1>6 DEF Examine, Collect, DeleteSensor
<1>7. CASE StartCollect(t) \/ StartDelete(t) \/ NextRoot(t) \/ Descend(t) \/ Report(t)
  BY <1>0, <1>7 DEF StartCollect, StartDelete, NextRoot, Descend, Report, Goto
<1>8. CASE Reactivate(t)
  BY <1>0, <1>8 DEF Reactivate, Goto
<1> QED
  BY <1>1, <1>2, <1>3, <1>4, <1>5, <1>6, <1>7, <1>8 DEF Step

LEMMA StepLogical ==
  ASSUME Inv, LogicalInv, NEW t \in Threads, Step(t) \/ Request(t)
  PROVE  LogicalInv'
<1>1. Frame(t)
  BY StepFrame, RequestFrame
<1>2. LogicalAssetsExist'
  <2>1. CASE Reading(t)
    <3>1. rows' = rows /\ refers' = refers /\ calm' = calm
      BY <2>1, ReadingKeeps
    <3> QED
      BY <3>1 DEF LogicalInv, LogicalAssetsExist
  <2>2. CASE Request(t)
    BY <2>2 DEF Request, DeleteList, DeleteOne, Receive, tables, db, LogicalInv,
       LogicalAssetsExist
  <2>3. CASE DeleteSensor(t)
    <3>1. UNCHANGED calm
      BY <1>1 DEF Frame
    <3>2. UNCHANGED tables \/ \E s \in job[t].sensors : ~Referred(s) /\ Erase(s)
      BY <2>3 DEF DeleteSensor
    <3> QED
      BY <3>1, <3>2, EraseLogical DEF LogicalInv, LogicalAssetsExist, tables, db
  <2>4. CASE Drop(t)
    <3>1. UNCHANGED calm /\ (calm => ~Referred(Current(t)))
      BY <1>1, <2>4 DEF Frame, Drop, LogicalInv, Spared, Sparing
    <3>2. UNCHANGED tables \/ Erase(Current(t))
      BY <2>4 DEF Drop
    <3> QED
      BY <3>1, <3>2, EraseLogical DEF LogicalInv, LogicalAssetsExist, tables, db
  <2> QED
    BY <2>1, <2>2, <2>3, <2>4 DEF Step, Reading
<1>3. ASSUME calm', NEW u \in Threads, pc'[u] \in Sparing
      PROVE  ~Referred(Current(u))'
  <2>1. calm /\ refers' \subseteq refers
    BY <1>1, <1>3 DEF Frame
  <2>2. CASE u # t
    <3>1. job'[u] = job[u] /\ pc[u] \in Sparing
      BY <1>1, <1>3, <2>2 DEF Frame, Elsewhere
    <3>2. ~Referred(Current(u))
      BY <2>1, <3>1 DEF LogicalInv, Spared
    <3> QED
      BY <2>1, <3>1, <3>2 DEF Referred, Current
  <2>3. CASE u = t /\ Step(t)
    <3>1. ~Referred(Current(t)) /\ job' = job
      BY <1>3, <2>1, <2>3, StepSpared
    <3> QED
      BY <2>1, <2>3, <3>1 DEF Referred, Current
  <2>4. CASE u = t /\ Request(t)
    BY <1>3, <2>4 DEF Request, DeleteList, DeleteOne, Goto, Sparing, Inv, TypeOK
  <2> QED
    BY <2>2, <2>3, <2>4
<1> QED
  BY <1>2, <1>3 DEF LogicalInv, Spared

LEMMA NextLogical == ASSUME Inv, LogicalInv, [Next]_vars PROVE LogicalInv'
<1>1. CASE UNCHANGED vars
  BY <1>1 DEF vars, LogicalInv, LogicalAssetsExist, Spared, Referred, Current
<1>2. CASE Next
  BY <1>2, ChangeLogical, StepLogical DEF Next
<1> QED
  BY <1>1, <1>2

(* No sensor stands for an asset that is gone, however many calls delete   *)
(* sensors and what they stand for at the same time.                       *)
THEOREM SensorsStandForAssets == Spec => []LogicalAssetsExist
<1>1. LogicalInv => LogicalAssetsExist
  BY DEF LogicalInv
<1> QED
  BY <1>1, InitLogical, NextLogical, SpecInv, PTL DEF Spec
-----------------------------------------------------------------------------
(* What is deleted is gone.  The outermost element of the recursion is the *)
(* root, so the result that the root gets is that of its own deletion.     *)
Root(j) == j.stack[Len(j.stack)] = Head(j.todo)
Known(j, R) == \A a \in Assets : (j.result[a] = "deleted" \/ a \in j.deleted) => a \notin R
GoneAt(l, j, R) ==
  /\ Known(j, R)
  /\ l = "reactivate" => ~j.ok
  /\ (l = "unmap" /\ j.ok) => Head(j.stack) \notin R
  /\ l \in Inner => Root(j)

GoneInv == \A t \in Threads : GoneAt(pc[t], job[t], rows)

LEMMA InitGone == Init => GoneInv
  BY DEF Init, GoneInv, GoneAt, Known, NoJob, Inner

(* It is enough to look at the call that makes the step.                   *)
LEMMA GoneStep ==
  ASSUME Inv, GoneInv, NEW t \in Threads, Frame(t), GoneAt(pc'[t], job'[t], rows')
  PROVE  GoneInv'
<1>1. ASSUME NEW u \in Threads PROVE GoneAt(pc'[u], job'[u], rows')
  <2>1. CASE u = t
    BY <2>1
  <2>2. CASE u # t
    <3>1. pc'[u] = pc[u] /\ job'[u] = job[u] /\ rows' \subseteq rows
      BY <2>2 DEF Frame, Elsewhere
    <3>2. GoneAt(pc[u], job[u], rows)
      BY DEF GoneInv
    <3> QED
      BY <3>1, <3>2 DEF GoneAt, Known
  <2> QED
    BY <2>1, <2>2
<1> QED
  BY <1>1 DEF GoneInv

(* The locals of the call, when both, or only one of them, are assigned.   *)
LEMMA Assigned ==
  ASSUME Inv, NEW t \in Threads
  PROVE  /\ \A l : Goto(t, l) => pc'[t] = l
         /\ \A j : Set(t, j) => job'[t] = j
  BY DEF Goto, Set, Inv, TypeOK

LEMMA EmplaceGone ==
  ASSUME NEW j \in Jobs, NEW R, NEW r \in {"deleted", "refused"}, NEW l, l \notin Inner,
         j.todo # <<>>, Known(j, R), r = "deleted" => Head(j.todo) \notin R
  PROVE  GoneAt(l, Emplace(j, r), R)
<1>1. \A a \in Assets : Emplace(j, r).result[a] = "deleted" =>
                          j.result[a] = "deleted" \/ (r = "deleted" /\ a = Head(j.todo))
  BY DEF Emplace, Jobs
<1>2. Emplace(j, r).deleted = j.deleted
  BY DEF Emplace, Jobs
<1>3. Known(Emplace(j, r), R)
  BY <1>1, <1>2 DEF Known
<1> QED
  BY <1>3 DEF GoneAt, Inner

LEMMA DeletedGone ==
  ASSUME NEW j \in Jobs, NEW a \in Assets, NEW R, Known(j, R), a \notin R
  PROVE  Known(Deleted(j, a), R)
<1>1. Deleted(j, a).result = j.result /\ Deleted(j, a).deleted = j.deleted \cup {a}
  BY DEF Deleted, Jobs
<1> QED
  BY <1>1 DEF Known

LEMMA ReturnGone ==
  ASSUME Inv, NEW t \in Threads, NEW j \in Jobs, NEW R, NEW ok \in BOOLEAN,
         j.stack # <<>>, j.todo # <<>>, Known(j, R), Root(j), ok => Head(j.stack) \notin R,
         Return(t, j, Head(j.stack), ok)
  PROVE  GoneAt(pc'[t], job'[t], R)
<1> DEFINE a == Head(j.stack)
           d == Deleted(j, a)
<1>1. j.stack \in Seq(Assets) /\ a \in Assets /\ Len(j.stack) \in Nat \ {0} /\ a = j.stack[1]
  BY DEF Jobs
<1>2. "next" \notin Inner
  BY DEF Inner
<1>3. CASE ~ok
  BY <1>2, <1>3, EmplaceGone, Assigned DEF Return
<1>4. CASE ok /\ Len(j.stack) > 1
  <2>1. pc'[t] = "descend" /\ job'[t] = d
    BY <1>4, Assigned DEF Return
  <2>2. Known(d, R)
    BY <1>1, <1>4, DeletedGone
  <2>3. d.stack = Tail(j.stack) /\ d.todo = j.todo
    BY DEF Deleted, Jobs
  <2>4. Len(d.stack) = Len(j.stack) - 1 /\ d.stack[Len(d.stack)] = j.stack[Len(j.stack)]
    <3>1. Len(Tail(j.stack)) = Len(j.stack) - 1
      BY <1>1
    <3>2. Tail(j.stack)[Len(j.stack) - 1] = j.stack[Len(j.stack)]
      BY <1>1, <1>4
    <3> QED
      BY <2>3, <3>1, <3>2
  <2>5. Root(d)
    BY <2>3, <2>4 DEF Root
  <2> QED
    BY <2>1, <2>2, <2>5 DEF GoneAt
<1>5. CASE ok /\ ~(Len(j.stack) > 1)
  <2>1. pc'[t] = "next" /\ job'[t] = Emplace(d, "deleted")
    BY <1>5, Assigned DEF Return
  <2>2. Known(d, R) /\ d \in Jobs /\ d.todo = j.todo
    BY <1>1, <1>5, DeletedGone, DeletedType
  <2>3. Head(j.todo) \notin R
    BY <1>1, <1>5 DEF Root
  <2> QED
    BY <1>2, <2>1, <2>2, <2>3, EmplaceGone
<1> QED
  BY <1>3, <1>4, <1>5

LEMMA RequestGone == ASSUME Inv, GoneInv, NEW t \in Threads, Request(t) PROVE GoneInv'
<1>1. NoJob.result = [a \in Assets |-> "none"] /\ NoJob.deleted = {} /\ NoJob \in Jobs
  BY NoJobType DEF NoJob
<1>2. ASSUME NEW S \in Lists, DeleteList(t, S) PROVE GoneAt(pc'[t], job'[t], rows')
  <2> DEFINE j == [NoJob EXCEPT !.ids = S, !.todo = ById[S]]
  <2>1. /\ pc'[t] = "examine"
        /\ job'[t] = [j EXCEPT !.named = {a \in Assets : Referred(a)}]
    BY <1>2, Assigned DEF DeleteList, Receive
  <2>2. job'[t].result = NoJob.result /\ job'[t].deleted = {}
    BY <1>1, <2>1 DEF Jobs
  <2> QED
    BY <1>1, <2>1, <2>2 DEF GoneAt, Known, Inner
<1>3. ASSUME NEW a \in Ones, DeleteOne(t, a) PROVE GoneAt(pc'[t], job'[t], rows')
  <2> DEFINE k == Loaded(NoJob, {a})
             j == [k EXCEPT !.ids = {a}, !.todo = <<a>>, !.stack = <<a>>]
  <2>1. /\ pc'[t] = "guard"
        /\ job'[t] = [j EXCEPT !.named = {b \in Assets : Referred(b)}]
    BY <1>3, Assigned DEF DeleteOne, Receive
  <2>2. k \in Jobs /\ k.result = NoJob.result /\ k.deleted = NoJob.deleted
    BY <1>1, LoadedType, DeleteAssumption
  <2>3. /\ job'[t].result = NoJob.result /\ job'[t].deleted = {}
        /\ job'[t].stack = <<a>> /\ job'[t].todo = <<a>>
    BY <1>1, <2>1, <2>2 DEF Jobs
  <2> QED
    BY <1>1, <2>1, <2>3 DEF GoneAt, Known, Root
<1> QED
  BY <1>2, <1>3, GoneStep, RequestFrame DEF Request
(* What the invariants say of the call that makes the step.                *)
LEMMA GoneFacts ==
  ASSUME Inv, GoneInv, NEW t \in Threads
  PROVE  /\ job[t] \in Jobs /\ GoneAt(pc[t], job[t], rows) /\ Known(job[t], rows)
         /\ pc[t] \in Inner => job[t].stack # <<>> /\ job[t].todo # <<>> /\ Root(job[t])
  BY JobFacts DEF GoneInv, GoneAt

LEMMA RefusedResult ==
  ASSUME NEW k \in Jobs, NEW a \in Assets, NEW q
  PROVE  LET j == [k EXCEPT !.toDel = q, !.result[a] = "refused"]
         IN j.deleted = k.deleted
            /\ \A b \in Assets : j.result[b] = "deleted" => k.result[b] = "deleted"
  BY DEF Jobs

LEMMA LoopsGone ==
  ASSUME Inv, GoneInv, NEW t \in Threads,
         Examine(t) \/ StartCollect(t) \/ Collect(t) \/ StartDelete(t) \/ Report(t)
  PROVE  GoneAt(pc'[t], job'[t], rows)
<1> DEFINE kept == /\ job'[t].deleted = job[t].deleted
                   /\ \A a \in Assets : job'[t].result[a] = "deleted" =>
                                          job[t].result[a] = "deleted"
<1>1. job[t] \in Jobs /\ Known(job[t], rows)
  BY GoneFacts
<1>2. ASSUME kept, pc'[t] \notin Inner PROVE GoneAt(pc'[t], job'[t], rows)
  BY <1>1, <1>2 DEF GoneAt, Known, Inner
<1>3. CASE Examine(t)
  <2> DEFINE a == Head(job[t].todo)
             j == [job[t] EXCEPT !.todo = Tail(@)]
             outside == SubTree(a) \ j.ids
             along == IF Detached(Loaded(NoJob, {a}), a) THEN Idling(outside) ELSE {}
  <2>1. /\ job[t].todo \in Seq(Assets) /\ job[t].todo # <<>> /\ rows \in SUBSET Assets
    BY <1>1, <1>3 DEF Examine, Jobs, Inv, TypeOK
  <2>2. a \in Assets /\ j \in Jobs /\ along \in SUBSET Assets
    <3>1. a \in Assets /\ Tail(job[t].todo) \in Seq(Assets)
      BY <2>1
    <3>2. along \in SUBSET Assets
      BY <2>1 DEF Idling, SubTree
    <3> QED
      BY <1>1, <3>1, <3>2 DEF Jobs
  <2>3. j.result = job[t].result /\ j.deleted = job[t].deleted
    BY <1>1 DEF Jobs
  <2>4. ASSUME Set(t, [j EXCEPT !.result[a] = "refused"]) PROVE kept
    <3>1. job'[t] = [j EXCEPT !.result[a] = "refused"]
      BY <2>4, Assigned
    <3> QED
      BY <2>2, <2>3, <3>1 DEF Jobs
  <2>5. ASSUME Set(t, [Loaded(j, along) EXCEPT !.toDel = @ \o ById[along],
                                               !.result[a] = "refused"])
        PROVE  kept
    <3> DEFINE k == Loaded(j, along)
               q == k.toDel \o ById[along]
    <3>1. job'[t] = [k EXCEPT !.toDel = q, !.result[a] = "refused"]
      BY <2>5, Assigned
    <3>2. k \in Jobs /\ k.result = j.result /\ k.deleted = j.deleted
      BY <2>2, LoadedType
    <3> HIDE DEF k, q
    <3> QED
      BY <2>2, <2>3, <3>1, <3>2, RefusedResult
  <2>6. ASSUME Set(t, [Loaded(j, along \cup {a}) EXCEPT !.toDel = @ \o Append(ById[along], a)])
        PROVE  kept
    <3> DEFINE k == Loaded(j, along \cup {a})
               q == k.toDel \o Append(ById[along], a)
    <3>1. job'[t] = [k EXCEPT !.toDel = q]
      BY <2>6, Assigned
    <3>2. k \in Jobs /\ k.result = j.result /\ k.deleted = j.deleted
      BY <2>2, LoadedType
    <3> HIDE DEF k, q
    <3>3. job'[t].deleted = k.deleted /\ job'[t].result = k.result
      BY <3>1, <3>2 DEF Jobs
    <3> QED
      BY <2>3, <3>2, <3>3
  <2>7. kept
    BY <1>3, <2>4, <2>5, <2>6 DEF Examine
  <2>8. pc'[t] \notin Inner
    BY <1>3 DEF Examine, Inner
  <2> QED
    BY <1>2, <2>7, <2>8
<1>4. CASE StartCollect(t) \/ StartDelete(t)
  <2>1. /\ job'[t] = [job[t] EXCEPT !.todo = @ \o job[t].toDel]
        /\ pc'[t] \in {"collect", "next"}
    BY <1>4, Assigned DEF StartCollect, StartDelete
  <2>2. kept /\ pc'[t] \notin Inner
    BY <1>1, <2>1 DEF Jobs, Inner
  <2> QED
    BY <1>2, <2>2
<1>5. CASE Collect(t)
  <2>1. pc'[t] \notin Inner
    BY <1>5 DEF Collect, Inner
  <2> DEFINE e == Head(job[t].todo)
             list == Elements(job[t].toDel)
             j == [job[t] EXCEPT !.todo = Tail(@), !.kids[e] = Children(e) \cap list,
                                 !.fed[e] = {d \in list : <<e, d>> \in links}]
  <2>2. job'[t] = j
    BY <1>5, Assigned DEF Collect
  <2>3. j.deleted = job[t].deleted /\ j.result = job[t].result
    BY <1>1 DEF Jobs
  <2> QED
    BY <1>2, <2>1, <2>2, <2>3
<1>6. CASE Report(t)
  <2>1. pc'[t] = "idle" /\ job'[t] = NoJob
    BY <1>6, Assigned DEF Report
  <2> QED
    BY <2>1 DEF GoneAt, Known, NoJob, Inner
<1> QED
  BY <1>3, <1>4, <1>5, <1>6

LEMMA RecursionGone ==
  ASSUME Inv, GoneInv, NEW t \in Threads, NextRoot(t) \/ Descend(t)
  PROVE  GoneAt(pc'[t], job'[t], rows)
<1>1. job[t] \in Jobs /\ Known(job[t], rows) /\ job[t].todo # <<>>
  BY GoneFacts DEF NextRoot, Descend, Inner
<1>2. CASE NextRoot(t)
  <2> DEFINE root == Head(job[t].todo)
  <2>1. root \in Assets
    BY <1>1 DEF Jobs
  <2>2. ASSUME root \in job[t].deleted, Set(t, Emplace(job[t], "deleted")), UNCHANGED pc
        PROVE  GoneAt(pc'[t], job'[t], rows)
    <3>1. root \notin rows
      BY <1>1, <2>1, <2>2 DEF Known
    <3>2. pc'[t] \notin Inner
      BY <1>2, <2>2 DEF NextRoot, Inner
    <3> QED
      BY <1>1, <2>2, <3>1, <3>2, EmplaceGone, Assigned
  <2>3. ASSUME Set(t, [job[t] EXCEPT !.stack = <<root>>]), Goto(t, "descend")
        PROVE  GoneAt(pc'[t], job'[t], rows)
    <3>1. pc'[t] = "descend" /\ job'[t] = [job[t] EXCEPT !.stack = <<root>>]
      BY <2>3, Assigned
    <3>2. /\ job'[t].stack = <<root>> /\ job'[t].todo = job[t].todo
          /\ job'[t].result = job[t].result /\ job'[t].deleted = job[t].deleted
      BY <1>1, <3>1 DEF Jobs
    <3> QED
      BY <1>1, <3>1, <3>2 DEF GoneAt, Known, Root
  <2> QED
    BY <1>2, <2>2, <2>3 DEF NextRoot
<1>3. CASE Descend(t)
  <2> DEFINE j == job[t]
             e == Head(j.stack)
  <2>1. j.stack \in Seq(Assets) /\ j.stack # <<>> /\ Root(j)
    BY <1>1, <1>3, GoneFacts DEF Descend, Inner, Jobs
  <2>2. ASSUME NEW x \in First(j, e), NEW l \in {"endless", "descend"},
               Set(t, [j EXCEPT !.stack = <<x>> \o @]), Goto(t, l)
        PROVE  GoneAt(pc'[t], job'[t], rows)
    <3>1. pc'[t] = l /\ job'[t] = [j EXCEPT !.stack = <<x>> \o @]
      BY <2>2, Assigned
    <3>2. /\ job'[t].stack = <<x>> \o j.stack /\ job'[t].todo = j.todo
          /\ job'[t].result = j.result /\ job'[t].deleted = j.deleted
      BY <1>1, <3>1 DEF Jobs
    <3>3. e \in Assets
      BY <2>1
    <3>4. x \in Assets
      BY <1>1, <3>3 DEF First, Jobs
    <3>5. Len(<<x>> \o j.stack) = 1 + Len(j.stack)
      BY <2>1, <3>4
    <3>6. (<<x>> \o j.stack)[1 + Len(j.stack)] = j.stack[Len(j.stack)]
      BY <2>1, <3>4
    <3>7. Root(job'[t])
      BY <2>1, <3>2, <3>5, <3>6 DEF Root
    <3> QED
      BY <1>1, <3>1, <3>2, <3>7 DEF GoneAt, Known
  <2>3. ASSUME Goto(t, "guard"), UNCHANGED job PROVE GoneAt(pc'[t], job'[t], rows)
    BY <1>1, <2>1, <2>3, Assigned DEF GoneAt
  <2> QED
    BY <1>3, <2>2, <2>3 DEF Descend
<1> QED
  BY <1>2, <1>3

LEMMA ElementGone ==
  ASSUME Inv, GoneInv, NEW t \in Threads,
         Guard(t) \/ DeleteSensor(t) \/ Refer(t) \/ Deactivate(t)
  PROVE  GoneAt(pc'[t], job'[t], rows)
<1>1. /\ job[t] \in Jobs /\ Known(job[t], rows) /\ job[t].todo # <<>> /\ job[t].stack # <<>>
      /\ Root(job[t])
  BY GoneFacts DEF Guard, DeleteSensor, Refer, Deactivate, Inner
<1>2. ASSUME Return(t, job[t], Head(job[t].stack), FALSE)
      PROVE  GoneAt(pc'[t], job'[t], rows)
  BY <1>1, <1>2, ReturnGone
<1>3. ASSUME NEW S, job'[t] = [job[t] EXCEPT !.sensors = S], pc'[t] = "refer"
      PROVE  GoneAt(pc'[t], job'[t], rows)
  <2>1. /\ job'[t].stack = job[t].stack /\ job'[t].todo = job[t].todo
        /\ job'[t].result = job[t].result /\ job'[t].deleted = job[t].deleted
    BY <1>1, <1>3 DEF Jobs
  <2> QED
    BY <1>1, <1>3, <2>1 DEF GoneAt, Known, Root
<1>4. ASSUME UNCHANGED job, pc'[t] \in {"deactivate", "count", "drop"}
      PROVE  GoneAt(pc'[t], job'[t], rows)
  BY <1>1, <1>4 DEF GoneAt
<1>5. CASE Guard(t)
  BY <1>2, <1>3, <1>5, Assigned DEF Guard, Current
<1>6. CASE DeleteSensor(t)
  BY <1>3, <1>6, Assigned DEF DeleteSensor
<1>7. CASE Refer(t)
  BY <1>2, <1>4, <1>7, Assigned DEF Refer, Current, Cleanup
<1>8. CASE Deactivate(t)
  BY <1>2, <1>4, <1>8, Assigned DEF Deactivate, Current, Cleanup
<1> QED
  BY <1>5, <1>6, <1>7, <1>8

(* The statements that may fail, and what follows them.                    *)
LEMMA StatementGone ==
  ASSUME Inv, GoneInv, NEW t \in Threads, Count(t) \/ Drop(t) \/ Reactivate(t)
  PROVE  GoneAt(pc'[t], job'[t], rows')
<1>1. /\ job[t] \in Jobs /\ Known(job[t], rows) /\ job[t].stack # <<>> /\ Root(job[t])
      /\ (pc[t] = "reactivate" => ~job[t].ok)
  BY GoneFacts DEF Count, Drop, Reactivate, Inner, GoneAt
<1>2. rows' \subseteq rows
  BY StepFrame DEF Step, Frame
<1>3. ASSUME Failed(t, Current(t)) PROVE GoneAt(pc'[t], job'[t], rows')
  <2>1. job'[t] = [job[t] EXCEPT !.ok = FALSE] /\ pc'[t] \in {"reactivate", "unmap"}
    BY <1>3, Assigned DEF Failed
  <2>2. /\ job'[t].stack = job[t].stack /\ job'[t].todo = job[t].todo /\ ~job'[t].ok
        /\ job'[t].result = job[t].result /\ job'[t].deleted = job[t].deleted
    BY <1>1, <2>1 DEF Jobs
  <2> QED
    BY <1>1, <1>2, <2>1, <2>2 DEF GoneAt, Known, Root
<1>4. CASE Count(t)
  <2>1. ASSUME Goto(t, "drop"), UNCHANGED job PROVE GoneAt(pc'[t], job'[t], rows')
    BY <1>1, <1>2, <2>1, Assigned DEF GoneAt, Known
  <2> QED
    BY <1>3, <1>4, <2>1 DEF Count
<1>5. CASE Drop(t)
  <2>1. ASSUME Erase(Current(t)), Goto(t, "unmap"), UNCHANGED job
        PROVE  GoneAt(pc'[t], job'[t], rows')
    <3>1. Head(job'[t].stack) \notin rows' /\ pc'[t] = "unmap"
      BY <2>1, Assigned DEF Erase, Current
    <3> QED
      BY <1>1, <1>2, <2>1, <3>1 DEF GoneAt, Known
  <2> QED
    BY <1>3, <1>5, <2>1 DEF Drop
<1>6. CASE Reactivate(t)
  <2>1. pc'[t] = "unmap" /\ UNCHANGED job /\ ~job[t].ok
    BY <1>1, <1>6, Assigned DEF Reactivate
  <2> QED
    BY <1>1, <1>2, <2>1 DEF GoneAt, Known
<1> QED
  BY <1>4, <1>5, <1>6

LEMMA UnmapGone ==
  ASSUME Inv, GoneInv, NEW t \in Threads, Unmap(t)
  PROVE  GoneAt(pc'[t], job'[t], rows)
<1> DEFINE j == [job[t] EXCEPT !.ok = TRUE]
<1>1. /\ job[t] \in Jobs /\ Known(job[t], rows) /\ job[t].todo # <<>> /\ job[t].stack # <<>>
      /\ Root(job[t]) /\ (job[t].ok => Head(job[t].stack) \notin rows)
  BY GoneFacts DEF Unmap, Inner, GoneAt
<1>2. /\ j \in Jobs /\ j.stack = job[t].stack /\ j.todo = job[t].todo
      /\ j.result = job[t].result /\ j.deleted = job[t].deleted /\ job[t].ok \in BOOLEAN
  BY <1>1 DEF Jobs
<1>3. Known(j, rows) /\ Root(j)
  BY <1>1, <1>2 DEF Known, Root
<1>4. Return(t, j, Head(j.stack), job[t].ok)
  BY <1>2 DEF Unmap, Current
<1> QED
  BY <1>1, <1>2, <1>3, <1>4, ReturnGone

LEMMA StepGone == ASSUME Inv, GoneInv, NEW t \in Threads, Step(t) PROVE GoneInv'
<1>1. Frame(t)
  BY StepFrame
<1>2. rows' \subseteq rows
  BY <1>1 DEF Frame
<1>3. CASE Count(t) \/ Drop(t) \/ Reactivate(t)
  BY <1>1, <1>3, StatementGone, GoneStep
<1>4. ASSUME GoneAt(pc'[t], job'[t], rows) PROVE GoneInv'
  <2>1. GoneAt(pc'[t], job'[t], rows')
    BY <1>2, <1>4 DEF GoneAt, Known
  <2> QED
    BY <1>1, <2>1, GoneStep
<1> QED
  BY <1>3, <1>4, LoopsGone, RecursionGone, ElementGone, UnmapGone DEF Step

LEMMA NextGone == ASSUME Inv, GoneInv, [Next]_vars PROVE GoneInv'
<1>1. CASE UNCHANGED vars
  BY <1>1 DEF vars, GoneInv, GoneAt, Known
<1>2. CASE Change
  <2>1. UNCHANGED <<pc, job, rows>>
    BY <1>2 DEF Change, Update, Wire, Name, db
  <2> QED
    BY <2>1 DEF GoneInv, GoneAt, Known
<1>3. ASSUME NEW t \in Threads, Request(t) \/ Step(t) PROVE GoneInv'
  BY <1>3, RequestGone, StepGone
<1> QED
  BY <1>1, <1>2, <1>3 DEF Next

(* What a call reports as deleted is gone, whatever other calls and users  *)
(* do meanwhile.                                                           *)
THEOREM ReportsAreTrue == Spec => []DeletedAreGone
<1>1. GoneInv => DeletedAreGone
  BY DEF GoneInv, GoneAt, Known, DeletedAreGone
<1> QED
  BY <1>1, InitGone, NextGone, SpecInv, PTL DEF Spec
-----------------------------------------------------------------------------
(* A mapping without its asset is about to be removed by the call that     *)
(* removed the asset, or the request to remove it has failed.              *)
Unmapping(t, a) == pc[t] = "unmap" /\ Current(t) = a
MappedInv ==
  SendNotify => \A a \in mapped \ unheard : a \in rows \/ \E t \in Threads : Unmapping(t, a)

LEMMA InitMapped == Init => MappedInv
  BY DEF Init, MappedInv

LEMMA OtherUnmapping ==
  ASSUME NEW t \in Threads, Elsewhere(t), NEW a, NEW u \in Threads \ {t}, Unmapping(u, a)
  PROVE  \E v \in Threads : Unmapping(v, a)'
<1>1. pc'[u] = pc[u] /\ job'[u] = job[u]
  BY DEF Elsewhere
<1>2. Unmapping(u, a)'
  BY <1>1 DEF Unmapping, Current
<1> QED
  BY <1>2

LEMMA StepMapped ==
  ASSUME Inv, MappedInv, NEW t \in Threads, Step(t) \/ Request(t)
  PROVE  MappedInv'
<1>1. Frame(t) /\ Elsewhere(t)
  BY StepFrame, RequestFrame DEF Frame
<1>2. SUFFICES ASSUME SendNotify, NEW a \in mapped', a \notin unheard', a \notin rows'
               PROVE  \E v \in Threads : Unmapping(v, a)'
  BY DEF MappedInv
<1>3. CASE Unmap(t)
  <2>1. UNCHANGED rows /\ a \in mapped /\ a # Current(t) /\ a \notin unheard
    BY <1>2, <1>3 DEF Unmap, DeleteMappings, Unmapped, tables, db
  <2>2. PICK u \in Threads : Unmapping(u, a)
    BY <1>2, <2>1 DEF MappedInv
  <2> QED
    BY <1>1, <2>1, <2>2, OtherUnmapping DEF Unmapping
<1>4. CASE Drop(t)
  <2>1. a \in mapped /\ a \notin unheard /\ pc[t] # "unmap"
    BY <1>2, <1>4 DEF Drop, history
  <2>2. CASE a \in rows
    <3>1. a = Current(t) /\ Goto(t, "unmap") /\ UNCHANGED job
      BY <1>2, <1>4, <2>2 DEF Drop, Erase, tables, db
    <3>2. Unmapping(t, a)'
      BY <3>1, Assigned DEF Unmapping, Current
    <3> QED
      BY <3>2
  <2>3. CASE a \notin rows
    <3>1. PICK u \in Threads : Unmapping(u, a)
      BY <1>2, <2>1, <2>3 DEF MappedInv
    <3> QED
      BY <1>1, <2>1, <3>1, OtherUnmapping DEF Unmapping
  <2> QED
    BY <2>2, <2>3
<1>5. CASE pc[t] # "unmap" /\ a \in mapped \ unheard /\ a \notin rows
  <2>1. PICK u \in Threads : Unmapping(u, a)
    BY <1>2, <1>5 DEF MappedInv
  <2> QED
    BY <1>1, <1>5, <2>1, OtherUnmapping DEF Unmapping
<1>6. CASE DeleteSensor(t)
  <2>1. pc[t] # "unmap" /\ a \in mapped \ unheard /\ a \notin rows
    BY <1>2, <1>6 DEF DeleteSensor, DeleteMappings, Unmapped, Erase, tables, db
  <2> QED
    BY <1>5, <2>1
<1>7. CASE Request(t)
  <2>1. pc[t] # "unmap" /\ a \in mapped \ unheard /\ a \notin rows
    BY <1>2, <1>7 DEF Request, DeleteList, DeleteOne, Receive, tables, db
  <2> QED
    BY <1>5, <2>1
<1>8. CASE Reading(t) /\ ~Unmap(t)
  <2>1. UNCHANGED rows
    BY <1>8, ReadingKeeps
  <2>2. UNCHANGED <<mapped, unheard>> /\ pc[t] # "unmap"
    BY <1>8 DEF history, Reading, Examine, StartCollect, Collect, StartDelete, NextRoot, Descend, Guard,
       Refer, Deactivate, Count, Reactivate, Report
  <2> QED
    BY <1>2, <1>5, <2>1, <2>2
<1> QED
  BY <1>3, <1>4, <1>6, <1>7, <1>8 DEF Step, Reading

LEMMA NextMapped == ASSUME Inv, MappedInv, [Next]_vars PROVE MappedInv'
<1>1. CASE UNCHANGED vars
  BY <1>1 DEF vars, MappedInv, Unmapping, Current
<1>2. CASE Change
  <2>1. UNCHANGED <<mapped, unheard, pc, job, rows>>
    BY <1>2 DEF Change, Update, Wire, Name, db
  <2> QED
    BY <2>1 DEF MappedInv, Unmapping, Current
<1> QED
  BY <1>1, <1>2, StepMapped DEF Next

(* However many calls delete at once, and whatever other users do, the     *)
(* only mappings that outlive their asset are those a failed request to    *)
(* the credential agent left behind (deleteMappings, deleteAsset).         *)
THEOREM MappingsGo == Spec => []MappingsFollowAssets
<1>1. MappedInv => MappingsFollowAssets
  BY DEF MappedInv, MappingsFollowAssets, Idle, Busy, Unmapping
<1> QED
  BY <1>1, InitMapped, NextMapped, SpecInv, PTL DEF Spec

(* As long as the credential agent answers, no mapping outlives its asset. *)
LEMMA HeardNext == ASSUME ~CamFaults, unheard = {}, [Next]_vars PROVE unheard' = {}
<1>1. CASE Change \/ UNCHANGED vars
  BY <1>1 DEF Change, vars
<1>2. ASSUME NEW t \in Threads, Request(t)
      PROVE  unheard' = {}
  BY <1>2 DEF Request, DeleteList, DeleteOne, Receive
<1>3. ASSUME NEW t \in Threads, Step(t)
      PROVE  unheard' = {}
  BY <1>3 DEF Step, Examine, StartCollect, Collect, StartDelete, NextRoot, Descend, Guard,
     DeleteSensor, Refer, Deactivate, Count, Drop, Reactivate, Unmap, Report, DeleteMappings, history
<1> QED
  BY <1>1, <1>2, <1>3 DEF Next

(* Without a failed request there is no exception: when all calls have     *)
(* returned, every mapping is that of an asset.                            *)
THEOREM NoMappingStays == ASSUME ~CamFaults, SendNotify PROVE Spec => [](Idle => mapped \subseteq rows)
<1>1. MappingsFollowAssets /\ unheard = {} => (Idle => mapped \subseteq rows)
  BY DEF MappingsFollowAssets
<1>2. Init => unheard = {}
  BY DEF Init
<1>3. unheard = {} /\ [Next]_vars => (unheard = {})'
  BY HeardNext
<1> QED
  BY <1>1, <1>2, <1>3, MappingsGo, PTL DEF Spec

(* In a clean history no two calls overlap.                                *)
Alone(t) == \A u \in Threads \ {t} : pc[u] = "idle"
OneCall == clean => \A t \in Threads : pc[t] # "idle" => Alone(t)

LEMMA InitOneCall == Init => OneCall
  BY DEF Init, OneCall

LEMMA StepClean ==
  ASSUME Inv, NEW t \in Threads, Step(t), clean'
  PROVE  clean
  BY DEF Step, Examine, StartCollect, Collect, StartDelete, NextRoot, Descend, Guard, DeleteSensor,
     Refer, Deactivate, Count, Drop, Reactivate, Unmap, Report, Inv, TypeOK

LEMMA StepBusy == ASSUME NEW t \in Threads, Step(t) PROVE pc[t] # "idle"
  BY DEF Step, Examine, StartCollect, Collect, StartDelete, NextRoot, Descend, Guard, DeleteSensor,
     Refer, Deactivate, Count, Drop, Reactivate, Unmap, Report

LEMMA NextOneCall == ASSUME Inv, OneCall, [Next]_vars PROVE OneCall'
<1>1. CASE UNCHANGED vars
  BY <1>1 DEF vars, OneCall, Alone
<1>2. CASE Change
  BY <1>2 DEF Change, OneCall, Alone, Busy
<1>3. ASSUME NEW t \in Threads, Request(t), clean' PROVE \A u \in Threads \ {t} : pc'[u] = "idle"
  <2>1. ~Busy
    BY <1>3 DEF Request, DeleteList, DeleteOne, Receive
  <2>2. Elsewhere(t)
    BY <1>3, RequestFrame DEF Frame
  <2> QED
    BY <2>1, <2>2 DEF Busy, Elsewhere
<1>4. ASSUME NEW t \in Threads, Step(t), clean' PROVE \A u \in Threads \ {t} : pc'[u] = "idle"
  <2>1. clean /\ pc[t] # "idle" /\ Elsewhere(t)
    BY <1>4, StepClean, StepBusy, StepElsewhere
  <2> QED
    BY <2>1 DEF OneCall, Alone, Elsewhere
<1>5. ASSUME NEW t \in Threads, Request(t) \/ Step(t) PROVE OneCall'
  BY <1>3, <1>4, <1>5 DEF OneCall, Alone
<1> QED
  BY <1>1, <1>2, <1>5 DEF Next

LEMMA SpecOneCall == Spec => []OneCall
  BY InitOneCall, NextOneCall, SpecInv, PTL DEF Spec

-----------------------------------------------------------------------------
(* The elements of the sequences of a call.                                *)
LEMMA HeadElement == ASSUME NEW s \in Seq(Assets), s # <<>> PROVE Head(s) \in Elements(s)
<1>1. Head(s) = s[1] /\ 1 \in DOMAIN s
  OBVIOUS
<1> QED
  BY <1>1 DEF Elements

LEMMA TailElements ==
  ASSUME NEW s \in Seq(Assets), s # <<>>
  PROVE  Elements(Tail(s)) \subseteq Elements(s)
<1> SUFFICES ASSUME NEW n \in DOMAIN Tail(s) PROVE Tail(s)[n] \in Elements(s)
  BY DEF Elements
<1>1. Tail(s)[n] = s[n + 1] /\ n + 1 \in DOMAIN s
  OBVIOUS
<1> QED
  BY <1>1 DEF Elements

LEMMA JoinElements ==
  ASSUME NEW s \in Seq(Assets), NEW q \in Seq(Assets)
  PROVE  Elements(s \o q) = Elements(s) \cup Elements(q)
<1>1. ASSUME NEW n \in DOMAIN (s \o q) PROVE (s \o q)[n] \in Elements(s) \cup Elements(q)
  <2>1. n \in 1 .. Len(s) + Len(q)
    OBVIOUS
  <2>2. CASE n <= Len(s)
    BY <2>1, <2>2 DEF Elements
  <2>3. CASE n > Len(s)
    <3>1. (s \o q)[n] = q[n - Len(s)] /\ n - Len(s) \in DOMAIN q
      BY <2>1, <2>3
    <3> QED
      BY <3>1 DEF Elements
  <2> QED
    BY <2>1, <2>2, <2>3
<1>2. ASSUME NEW n \in DOMAIN s PROVE s[n] \in Elements(s \o q)
  <2>1. s[n] = (s \o q)[n] /\ n \in DOMAIN (s \o q)
    OBVIOUS
  <2> QED
    BY <2>1 DEF Elements
<1>3. ASSUME NEW n \in DOMAIN q PROVE q[n] \in Elements(s \o q)
  <2>1. q[n] = (s \o q)[n + Len(s)] /\ n + Len(s) \in DOMAIN (s \o q)
    OBVIOUS
  <2> QED
    BY <2>1 DEF Elements
<1>4. Elements(s \o q) \subseteq Elements(s) \cup Elements(q)
  BY <1>1 DEF Elements
<1>5. Elements(s) \subseteq Elements(s \o q) /\ Elements(q) \subseteq Elements(s \o q)
  BY <1>2, <1>3 DEF Elements
<1> QED
  BY <1>4, <1>5

LEMMA OneElement == ASSUME NEW a \in Assets PROVE Elements(<<a>>) = {a} /\ <<a>> \in Seq(Assets)
  BY DEF Elements

LEMMA AppendElements ==
  ASSUME NEW s \in Seq(Assets), NEW a \in Assets
  PROVE  Elements(Append(s, a)) = Elements(s) \cup {a}
<1>1. Append(s, a) = s \o <<a>>
  OBVIOUS
<1> QED
  BY <1>1, JoinElements, OneElement

LEMMA NoElements == Elements(<<>>) = {} /\ <<>> \in Seq(Assets)
  BY DEF Elements

-----------------------------------------------------------------------------
(* What a call may still use of its locals, and what it remembers of it:   *)
(* the status that the row has, if the row is there.                       *)
Watched(l, j) ==
  {a \in Assets : \/ a \in Elements(j.toDel) \/ a \in Elements(j.stack)
                  \/ l # "examine" /\ a \in Elements(j.todo)
                  \/ \E e \in Assets : a \in j.kids[e] \cup j.fed[e]}
Remembered(l, j) == \A a \in Watched(l, j) : a \in rows => j.was[a] = status[a]

(* Most steps only forget.                                                 *)
Narrows(l, j, m, k) == k.was = j.was /\ Watched(m, k) \subseteq Watched(l, j)

LEMMA Unwatched ==
  ASSUME NEW l, NEW j \in Jobs, NEW m, NEW k \in Jobs,
         k.was = j.was, Elements(k.toDel) \subseteq Elements(j.toDel),
         Elements(k.stack) \subseteq Watched(l, j),
         m # "examine" => Elements(k.todo) \subseteq Watched(l, j),
         \A e \in Assets : k.kids[e] \cup k.fed[e] \subseteq Watched(l, j)
  PROVE  Narrows(l, j, m, k)
<1>1. ASSUME NEW a \in Watched(m, k) PROVE a \in Watched(l, j)
  <2>1. CASE a \in Elements(k.toDel)
    BY <1>1, <2>1 DEF Watched
  <2>2. CASE a \in Elements(k.stack)
    BY <1>1, <2>2
  <2>3. CASE m # "examine" /\ a \in Elements(k.todo)
    BY <1>1, <2>3
  <2>4. CASE \E e \in Assets : a \in k.kids[e] \cup k.fed[e]
    BY <1>1, <2>4
  <2> QED
    BY <1>1, <2>1, <2>2, <2>3, <2>4 DEF Watched
<1> QED
  BY <1>1 DEF Narrows

LEMMA WatchedParts ==
  ASSUME NEW l, NEW j \in Jobs
  PROVE  /\ Elements(j.toDel) \subseteq Watched(l, j) /\ Elements(j.stack) \subseteq Watched(l, j)
         /\ l # "examine" => Elements(j.todo) \subseteq Watched(l, j)
         /\ \A e \in Assets : j.kids[e] \cup j.fed[e] \subseteq Watched(l, j)
<1>1. Elements(j.toDel) \subseteq Assets /\ Elements(j.stack) \subseteq Assets
  BY DEF Jobs, Elements
<1>2. Elements(j.todo) \subseteq Assets
  BY DEF Jobs, Elements
<1>3. \A e \in Assets : j.kids[e] \cup j.fed[e] \subseteq Assets
  BY DEF Jobs
<1> QED
  BY <1>1, <1>2, <1>3 DEF Watched

LEMMA EmplaceNarrows ==
  ASSUME NEW l, NEW j \in Jobs, NEW r \in {"deleted", "refused"}, j.todo # <<>>, l # "examine"
  PROVE  Narrows(l, j, "next", Emplace(j, r))
<1> DEFINE k == Emplace(j, r)
<1>1. k \in Jobs
  BY EmplaceType
<1>2. /\ k.was = j.was /\ k.toDel = j.toDel /\ k.todo = Tail(j.todo) /\ k.stack = <<>>
      /\ k.kids = j.kids /\ k.fed = j.fed
  BY DEF Emplace, Jobs
<1>3. Elements(k.todo) \subseteq Elements(j.todo) /\ Elements(k.stack) = {}
  BY <1>2, TailElements, NoElements DEF Jobs
<1> HIDE DEF k
<1>4. Narrows(l, j, "next", k)
  BY <1>1, <1>2, <1>3, WatchedParts, Unwatched
<1> QED
  BY <1>4 DEF k

LEMMA DeletedNarrows ==
  ASSUME NEW l, NEW j \in Jobs, NEW a \in Assets, j.stack # <<>>, l # "examine", NEW m
  PROVE  Narrows(l, j, m, Deleted(j, a))
<1> DEFINE k == Deleted(j, a)
<1>1. k \in Jobs
  BY DeletedType
<1>2. /\ k.was = j.was /\ k.toDel = j.toDel /\ k.todo = j.todo /\ k.stack = Tail(j.stack)
      /\ k.kids = j.kids /\ k.fed = j.fed
  BY DEF Deleted, Jobs
<1>3. Elements(k.stack) \subseteq Elements(j.stack)
  BY <1>2, TailElements DEF Jobs
<1> HIDE DEF k
<1>4. Narrows(l, j, m, k)
  BY <1>1, <1>2, <1>3, WatchedParts, Unwatched
<1> QED
  BY <1>4 DEF k

LEMMA NarrowsTwice ==
  ASSUME NEW l, NEW j, NEW m, NEW k, NEW n, NEW i, Narrows(l, j, m, k), Narrows(m, k, n, i)
  PROVE  Narrows(l, j, n, i)
  BY DEF Narrows

LEMMA ReturnNarrows ==
  ASSUME Inv, NEW t \in Threads, NEW l, l # "examine", NEW j \in Jobs, NEW a \in Assets,
         NEW ok \in BOOLEAN, j.stack # <<>>, j.todo # <<>>, Return(t, j, a, ok)
  PROVE  Narrows(l, j, pc'[t], job'[t])
<1> DEFINE d == Deleted(j, a)
<1>1. d \in Jobs /\ d.todo = j.todo
  BY DeletedType
<1>2. CASE ~ok
  <2>1. pc'[t] = "next" /\ job'[t] = Emplace(j, "refused")
    BY <1>2, Assigned DEF Return
  <2> QED
    BY <2>1, EmplaceNarrows
<1>3. CASE ok /\ Len(j.stack) > 1
  <2>1. pc'[t] = "descend" /\ job'[t] = d
    BY <1>3, Assigned DEF Return
  <2> QED
    BY <2>1, DeletedNarrows
<1>4. CASE ok /\ ~(Len(j.stack) > 1)
  <2>1. pc'[t] = "next" /\ job'[t] = Emplace(d, "deleted")
    BY <1>4, Assigned DEF Return
  <2>2. Narrows(l, j, "next", d)
    BY DeletedNarrows
  <2> HIDE DEF d
  <2>3. Narrows("next", d, "next", Emplace(d, "deleted"))
    BY <1>1, EmplaceNarrows
  <2> QED
    BY <2>1, <2>2, <2>3, NarrowsTwice
<1> QED
  BY <1>2, <1>3, <1>4

(* The locals change, but not what matters here.                           *)
LEMMA SameNarrows ==
  ASSUME NEW l, NEW m, l # "examine", NEW j \in Jobs, NEW k \in Jobs,
         k.was = j.was, k.toDel = j.toDel, k.todo = j.todo, k.stack = j.stack,
         k.kids = j.kids, k.fed = j.fed
  PROVE  Narrows(l, j, m, k)
  BY WatchedParts, Unwatched

LEMMA LoopNarrows ==
  ASSUME Inv, NEW t \in Threads, StartCollect(t) \/ Collect(t) \/ StartDelete(t)
  PROVE  Narrows(pc[t], job[t], pc'[t], job'[t])
<1>0. job[t] \in Jobs /\ job'[t] \in Jobs
  <2>1. Inv'
    BY StartInv, CollectInv
  <2> QED
    BY <2>1 DEF Inv, TypeOK
<1>1. /\ job[t].todo \in Seq(Assets) /\ job[t].toDel \in Seq(Assets) /\ job[t].stack \in Seq(Assets)
  BY <1>0 DEF Jobs
<1>2. CASE StartCollect(t) \/ StartDelete(t)
  <2> DEFINE k == [job[t] EXCEPT !.todo = @ \o job[t].toDel]
  <2>1. job'[t] = k /\ job[t].todo = <<>>
    BY <1>2, Assigned DEF StartCollect, StartDelete
  <2>2. /\ k.was = job[t].was /\ k.toDel = job[t].toDel /\ k.todo = job[t].todo \o job[t].toDel
        /\ k.stack = job[t].stack /\ k.kids = job[t].kids /\ k.fed = job[t].fed
    BY <1>0 DEF Jobs
  <2>3. Elements(k.todo) = Elements(job[t].toDel)
    BY <1>1, <2>1, <2>2, JoinElements, NoElements
  <2> HIDE DEF k
  <2> QED
    BY <1>0, <2>1, <2>2, <2>3, WatchedParts, Unwatched
<1>3. CASE Collect(t)
  <2> DEFINE e == Head(job[t].todo)
             list == Elements(job[t].toDel)
             C == Children(e) \cap list
             D == {d \in list : <<e, d>> \in links}
             k == [job[t] EXCEPT !.todo = Tail(@), !.kids[e] = C, !.fed[e] = D]
  <2>1. job'[t] = k /\ job[t].todo # <<>> /\ pc'[t] = pc[t] /\ pc[t] = "collect"
    BY <1>3, Assigned DEF Collect
  <2>2. C \subseteq list /\ D \subseteq list
    OBVIOUS
  <2>3. e \in Assets
    BY <1>1, <2>1
  <2> HIDE DEF C, D, e, list
  <2>4. /\ k.was = job[t].was /\ k.toDel = job[t].toDel /\ k.todo = Tail(job[t].todo)
        /\ k.stack = job[t].stack
        /\ k.kids = [job[t].kids EXCEPT ![e] = C] /\ k.fed = [job[t].fed EXCEPT ![e] = D]
    BY <1>0 DEF Jobs
  <2>5. Elements(k.todo) \subseteq Elements(job[t].todo)
    BY <1>1, <2>1, <2>4, TailElements
  <2>6. ASSUME NEW x \in Assets
        PROVE  k.kids[x] \cup k.fed[x] \subseteq job[t].kids[x] \cup job[t].fed[x] \cup list
    BY <1>0, <2>2, <2>4 DEF Jobs
  <2> HIDE DEF k
  <2>7. \A x \in Assets : k.kids[x] \cup k.fed[x] \subseteq Watched(pc[t], job[t])
    BY <1>0, <2>6, WatchedParts DEF list
  <2> QED
    BY <1>0, <2>1, <2>4, <2>5, <2>7, WatchedParts, Unwatched
<1> QED
  BY <1>2, <1>3

LEMMA RecursionNarrows ==
  ASSUME Inv, NEW t \in Threads, NextRoot(t) \/ Descend(t)
  PROVE  Narrows(pc[t], job[t], pc'[t], job'[t])
<1>0. job[t] \in Jobs /\ job'[t] \in Jobs /\ pc[t] # "examine"
  <2>1. Inv'
    BY NextRootInv, DescendInv
  <2> QED
    BY <2>1 DEF Inv, TypeOK, NextRoot, Descend
<1>1. /\ job[t].todo \in Seq(Assets) /\ job[t].todo # <<>> /\ job[t].stack \in Seq(Assets)
      /\ (pc[t] = "descend" => job[t].stack # <<>>)
  BY <1>0, JobFacts DEF Jobs, NextRoot, Descend, Inner
<1>2. ASSUME NEW x \in Watched(pc[t], job[t]), NEW q \in Seq(Assets),
             Elements(q) \subseteq {x} \cup Elements(job[t].stack),
             job'[t] = [job[t] EXCEPT !.stack = q]
      PROVE  Narrows(pc[t], job[t], pc'[t], job'[t])
  <2> DEFINE k == [job[t] EXCEPT !.stack = q]
  <2>1. /\ k.was = job[t].was /\ k.toDel = job[t].toDel /\ k.todo = job[t].todo /\ k.stack = q
        /\ k.kids = job[t].kids /\ k.fed = job[t].fed
    BY <1>0 DEF Jobs
  <2> HIDE DEF k
  <2>2. job'[t] = k
    BY <1>2 DEF k
  <2> QED
    BY <1>0, <1>2, <2>1, <2>2, WatchedParts, Unwatched
<1>3. CASE NextRoot(t)
  <2> DEFINE root == Head(job[t].todo)
  <2>1. root \in Assets /\ root \in Watched(pc[t], job[t])
    BY <1>0, <1>1, HeadElement, WatchedParts
  <2>2. ASSUME Set(t, Emplace(job[t], "deleted")), UNCHANGED pc
        PROVE  Narrows(pc[t], job[t], pc'[t], job'[t])
    <3>1. job'[t] = Emplace(job[t], "deleted") /\ pc'[t] = "next"
      BY <1>3, <2>2, Assigned DEF NextRoot
    <3> QED
      BY <1>0, <1>1, <3>1, EmplaceNarrows
  <2>3. ASSUME Set(t, [job[t] EXCEPT !.stack = <<root>>])
        PROVE  Narrows(pc[t], job[t], pc'[t], job'[t])
    <3>1. job'[t] = [job[t] EXCEPT !.stack = <<root>>]
      BY <2>3, Assigned
    <3>2. <<root>> \in Seq(Assets) /\ Elements(<<root>>) = {root}
      BY <2>1, OneElement
    <3> HIDE DEF root
    <3> QED
      BY <1>2, <2>1, <3>1, <3>2
  <2> QED
    BY <1>3, <2>2, <2>3 DEF NextRoot
<1>4. CASE Descend(t)
  <2> DEFINE e == Head(job[t].stack)
  <2>1. e \in Assets
    BY <1>1, <1>4 DEF Descend
  <2>2. ASSUME NEW x \in First(job[t], e), Set(t, [job[t] EXCEPT !.stack = <<x>> \o @])
        PROVE  Narrows(pc[t], job[t], pc'[t], job'[t])
    <3>1. x \in job[t].kids[e] \cup job[t].fed[e]
      BY <2>2 DEF First
    <3>2. x \in Watched(pc[t], job[t]) /\ x \in Assets
      BY <1>0, <2>1, <3>1, WatchedParts DEF Watched
    <3>3. /\ <<x>> \o job[t].stack \in Seq(Assets)
          /\ Elements(<<x>> \o job[t].stack) = {x} \cup Elements(job[t].stack)
      <4>1. <<x>> \in Seq(Assets) /\ Elements(<<x>>) = {x}
        BY <3>2, OneElement
      <4>2. Elements(<<x>> \o job[t].stack) = Elements(<<x>>) \cup Elements(job[t].stack)
        BY <1>1, <4>1, JoinElements
      <4> QED
        BY <1>1, <4>1, <4>2
    <3>4. job'[t] = [job[t] EXCEPT !.stack = <<x>> \o job[t].stack]
      BY <2>2, Assigned
    <3> QED
      BY <1>2, <3>2, <3>3, <3>4
  <2>3. ASSUME UNCHANGED job
        PROVE  Narrows(pc[t], job[t], pc'[t], job'[t])
    BY <1>0, <2>3, SameNarrows
  <2> QED
    BY <1>4, <2>2, <2>3 DEF Descend
<1> QED
  BY <1>3, <1>4

LEMMA ElementNarrows ==
  ASSUME Inv, NEW t \in Threads,
         \/ Guard(t) \/ DeleteSensor(t) \/ Refer(t) \/ Deactivate(t) \/ Count(t) \/ Drop(t)
         \/ Reactivate(t) \/ Unmap(t)
  PROVE  Narrows(pc[t], job[t], pc'[t], job'[t])
<1>0. job[t] \in Jobs /\ job'[t] \in Jobs /\ pc[t] # "examine"
  <2>1. Inv'
    BY GuardInv, DeleteSensorInv, ReferInv, DeactivateInv, CountInv, DropInv, ReactivateInv, UnmapInv
  <2> QED
    BY <2>1 DEF Inv, TypeOK, Guard, DeleteSensor, Refer, Deactivate, Count, Drop, Reactivate, Unmap
<1>1. Current(t) \in Assets /\ job[t].stack # <<>> /\ job[t].todo # <<>>
  BY CurrentType, JobFacts DEF Guard, DeleteSensor, Refer, Deactivate, Count, Drop, Reactivate, Unmap,
     Inner
<1>2. ASSUME NEW S, job'[t] = [job[t] EXCEPT !.sensors = S]
      PROVE  Narrows(pc[t], job[t], pc'[t], job'[t])
  <2>1. /\ job'[t].was = job[t].was /\ job'[t].toDel = job[t].toDel /\ job'[t].todo = job[t].todo
        /\ job'[t].stack = job[t].stack /\ job'[t].kids = job[t].kids /\ job'[t].fed = job[t].fed
    BY <1>0, <1>2 DEF Jobs
  <2> QED
    BY <1>0, <2>1, SameNarrows
<1>3. ASSUME NEW b, job'[t] = [job[t] EXCEPT !.ok = b]
      PROVE  Narrows(pc[t], job[t], pc'[t], job'[t])
  <2>1. /\ job'[t].was = job[t].was /\ job'[t].toDel = job[t].toDel /\ job'[t].todo = job[t].todo
        /\ job'[t].stack = job[t].stack /\ job'[t].kids = job[t].kids /\ job'[t].fed = job[t].fed
    BY <1>0, <1>3 DEF Jobs
  <2> QED
    BY <1>0, <2>1, SameNarrows
<1>4. ASSUME UNCHANGED job
      PROVE  Narrows(pc[t], job[t], pc'[t], job'[t])
  BY <1>0, <1>4, SameNarrows
<1>5. ASSUME Return(t, job[t], Current(t), FALSE)
      PROVE  Narrows(pc[t], job[t], pc'[t], job'[t])
  BY <1>0, <1>1, <1>5, ReturnNarrows
<1>6. CASE Guard(t)
  BY <1>2, <1>5, <1>6, Assigned DEF Guard
<1>7. CASE DeleteSensor(t)
  BY <1>2, <1>7, Assigned DEF DeleteSensor
<1>8. CASE Refer(t)
  BY <1>4, <1>5, <1>8 DEF Refer
<1>9. CASE Deactivate(t)
  BY <1>4, <1>5, <1>9 DEF Deactivate
<1>10. CASE Count(t)
  BY <1>3, <1>4, <1>10, Assigned DEF Count, Failed
<1>11. CASE Drop(t)
  BY <1>3, <1>4, <1>11, Assigned DEF Drop, Failed
<1>12. CASE Reactivate(t)
  BY <1>4, <1>12 DEF Reactivate
<1>13. CASE Unmap(t)
  <2> DEFINE k == [job[t] EXCEPT !.ok = TRUE]
  <2>1. /\ k \in Jobs /\ k.was = job[t].was /\ k.toDel = job[t].toDel /\ k.todo = job[t].todo
        /\ k.stack = job[t].stack /\ k.kids = job[t].kids /\ k.fed = job[t].fed
    BY <1>0 DEF Jobs
  <2>2. Return(t, k, Current(t), job[t].ok) /\ job[t].ok \in BOOLEAN
    BY <1>0, <1>13 DEF Unmap, Jobs
  <2> HIDE DEF k
  <2>3. Narrows(pc[t], job[t], "unmap", k)
    BY <1>0, <2>1, SameNarrows
  <2>4. Narrows("unmap", k, pc'[t], job'[t])
    BY <1>1, <2>1, <2>2, ReturnNarrows
  <2> QED
    BY <2>3, <2>4, NarrowsTwice
<1> QED
  BY <1>6, <1>7, <1>8, <1>9, <1>10, <1>11, <1>12, <1>13

(* Who joins the list is read anew.                                        *)
LEMMA LoadedRemembers ==
  ASSUME Inv, NEW j \in Jobs, NEW S \in SUBSET Assets, NEW k \in Jobs, NEW l, NEW m,
         k.was = Loaded(j, S).was, Watched(m, k) \subseteq Watched(l, j) \cup S, Remembered(l, j)
  PROVE  Remembered(m, k)
<1>1. k.was = [a \in Assets |-> IF a \in S THEN status[a] ELSE j.was[a]]
  BY DEF Loaded, Jobs
<1>2. Watched(m, k) \subseteq Assets
  BY DEF Watched
<1> QED
  BY <1>1, <1>2 DEF Remembered

LEMMA ExamineRemembers ==
  ASSUME Inv, NEW t \in Threads, Examine(t), Remembered(pc[t], job[t])
  PROVE  Remembered(pc'[t], job'[t])
<1> DEFINE a == Head(job[t].todo)
           j == [job[t] EXCEPT !.todo = Tail(@)]
           outside == SubTree(a) \ j.ids
           along == IF Detached(Loaded(NoJob, {a}), a) THEN Idling(outside) ELSE {}
<1>1. /\ job[t].todo \in Seq(Assets) /\ job[t].todo # <<>> /\ job[t] \in Jobs
      /\ rows \in SUBSET Assets /\ pc[t] = "examine" /\ pc'[t] = "examine"
  BY JobFacts DEF Examine, Jobs, Inv, TypeOK
<1>2. a \in Assets /\ Tail(job[t].todo) \in Seq(Assets)
  BY <1>1
<1>3. /\ j \in Jobs /\ j.was = job[t].was /\ j.toDel = job[t].toDel /\ j.stack = job[t].stack
      /\ j.kids = job[t].kids /\ j.fed = job[t].fed
  BY <1>1, <1>2 DEF Jobs
<1>4. along \in SUBSET Assets
  BY <1>1 DEF Idling, SubTree
<1>5. /\ ById[along] \in Seq(Assets) /\ Elements(ById[along]) = along
      /\ Append(ById[along], a) \in Seq(Assets) /\ Elements(Append(ById[along], a)) = along \cup {a}
  <2>1. ById[along] \in Seq(Assets) /\ Elements(ById[along]) = along
    BY <1>4, DeleteAssumption
  <2> HIDE DEF along
  <2> QED
    BY <1>2, <2>1, AppendElements
<1>6. Remembered("examine", j)
  BY <1>1, <1>3 DEF Remembered, Watched
<1> HIDE DEF along, j, a
<1>7. ASSUME NEW S \in SUBSET Assets, NEW q \in Seq(Assets), Elements(q) \subseteq S,
             NEW r \in [Assets -> {"none", "deleted", "refused"}]
      PROVE  Remembered("examine", [Loaded(j, S) EXCEPT !.toDel = @ \o q, !.result = r])
  <2> DEFINE i == Loaded(j, S)
             k == [i EXCEPT !.toDel = @ \o q, !.result = r]
  <2>1. /\ i \in Jobs /\ i.toDel = j.toDel /\ i.stack = j.stack
        /\ i.kids = j.kids /\ i.fed = j.fed /\ j.toDel \in Seq(Assets)
    <3>1. i \in Jobs
      BY <1>3, LoadedType
    <3> QED
      BY <1>3, <3>1 DEF Loaded, Jobs
  <2> HIDE DEF i
  <2>2. j.toDel \o q \in Seq(Assets) /\ Elements(j.toDel \o q) = Elements(j.toDel) \cup Elements(q)
    BY <2>1, JoinElements
  <2>3. /\ k \in Jobs /\ k.toDel = j.toDel \o q /\ k.stack = j.stack /\ k.kids = j.kids
        /\ k.fed = j.fed /\ k.was = i.was
    BY <2>1, <2>2 DEF Jobs
  <2> HIDE DEF k
  <2>4. Watched("examine", k) \subseteq Watched("examine", j) \cup S
    BY <1>7, <2>2, <2>3 DEF Watched
  <2>5. Remembered("examine", k)
    BY <1>3, <1>6, <2>3, <2>4, LoadedRemembers DEF i
  <2> QED
    BY <2>5 DEF k, i
<1>8. j.result \in [Assets -> {"none", "deleted", "refused"}]
  BY <1>3 DEF Jobs
<1>9. CASE Set(t, [j EXCEPT !.result[a] = "refused"])
  <2> DEFINE k == [j EXCEPT !.result[a] = "refused"]
  <2>1. /\ k.was = j.was /\ k.toDel = j.toDel /\ k.stack = j.stack
        /\ k.kids = j.kids /\ k.fed = j.fed
    BY <1>3 DEF Jobs
  <2>2. job'[t] = k
    BY <1>9, Assigned
  <2> HIDE DEF k
  <2> QED
    BY <1>1, <1>6, <2>1, <2>2 DEF Remembered, Watched
<1>10. CASE Set(t, [Loaded(j, along) EXCEPT !.toDel = @ \o ById[along], !.result[a] = "refused"])
  <2> DEFINE i == Loaded(j, along)
             r == [i.result EXCEPT ![a] = "refused"]
  <2>1. job'[t] = [i EXCEPT !.toDel = @ \o ById[along], !.result[a] = "refused"]
    BY <1>10, Assigned
  <2>2. i \in Jobs /\ i.result = j.result
    BY <1>3, <1>4, LoadedType
  <2> HIDE DEF i
  <2>3. job'[t] = [i EXCEPT !.toDel = @ \o ById[along], !.result = r]
    BY <2>1, <2>2 DEF Jobs
  <2>4. r \in [Assets -> {"none", "deleted", "refused"}]
    BY <1>2, <1>8, <2>2
  <2> HIDE DEF r
  <2>5. Remembered("examine", [Loaded(j, along) EXCEPT !.toDel = @ \o ById[along], !.result = r])
    <3>1. Elements(ById[along]) \subseteq along
      BY <1>5
    <3> QED
      BY <1>4, <1>5, <1>7, <2>4, <3>1
  <2> QED
    BY <1>1, <2>3, <2>5 DEF i
<1>11. CASE Set(t, [Loaded(j, along \cup {a}) EXCEPT !.toDel = @ \o Append(ById[along], a)])
  <2> DEFINE i == Loaded(j, along \cup {a})
  <2>1. job'[t] = [i EXCEPT !.toDel = @ \o Append(ById[along], a)]
    BY <1>11, Assigned
  <2>2. i \in Jobs /\ i.result = j.result
    BY <1>2, <1>3, <1>4, LoadedType
  <2> HIDE DEF i
  <2>3. job'[t] = [i EXCEPT !.toDel = @ \o Append(ById[along], a), !.result = j.result]
    BY <2>1, <2>2 DEF Jobs
  <2>4. Remembered("examine", [Loaded(j, along \cup {a}) EXCEPT
                                !.toDel = @ \o Append(ById[along], a), !.result = j.result])
    <3>1. Elements(Append(ById[along], a)) \subseteq along \cup {a}
      BY <1>5
    <3>2. along \cup {a} \in SUBSET Assets
      BY <1>2, <1>4
    <3> QED
      BY <1>5, <1>7, <1>8, <3>1, <3>2
  <2> QED
    BY <1>1, <2>3, <2>4 DEF i
<1> QED
  BY <1>9, <1>10, <1>11 DEF Examine, a, j, along

-----------------------------------------------------------------------------
(* Credits.  While a call runs alone, the licensing agent holds a credit   *)
(* for exactly the active devices, but for the one that the call is about  *)
(* to erase, or to activate again because it could not.                    *)
Withheld(l, j) ==
  {a \in {Head(j.stack)} : l \in {"count", "drop", "reactivate"} /\ j.was[a] = "active"}
Credited(l, j) ==
  /\ Remembered(l, j)
  /\ l = "refer" => \A s \in j.sensors : s \in rows => status[s] = "nonactive"
  /\ l \in {"deactivate", "reactivate"} => j.was[Head(j.stack)] = "active"
  /\ licensed = ActiveDevices \ Withheld(l, j)
CreditsInv == (clean /\ SendNotify) =>
  /\ Idle => licensed = ActiveDevices
  /\ \A t \in Threads : pc[t] # "idle" => Credited(pc[t], job[t])

LEMMA InitCredits == Init => CreditsInv
  BY DEF Init, Consistent, CreditsInv

LEMMA StillRemembered ==
  ASSUME NEW l, NEW j, NEW m, NEW k, Narrows(l, j, m, k), Remembered(l, j),
         \A a \in rows' : a \in rows /\ status'[a] = status[a]
  PROVE  \A a \in Watched(m, k) : a \in rows' => k.was[a] = status'[a]
  BY DEF Narrows, Remembered

(* A row that is erased takes its active device with it.                   *)
LEMMA EraseActive ==
  ASSUME Inv, NEW a \in Assets, Erase(a)
  PROVE  /\ ActiveDevices' = ActiveDevices \ {a}
         /\ \A b \in rows' : b \in rows /\ status'[b] = status[b]
<1>1. rows' = rows \ {a} /\ status' = [status EXCEPT ![a] = "nonactive"]
  BY DEF Erase, Write
<1>2. \A b \in rows' : b \in rows /\ status'[b] = status[b]
  BY <1>1 DEF Inv, TypeOK
<1>3. \A b : b \in ActiveDevices' <=> b \in rows' /\ Device(b) /\ status'[b] = "active"
  BY DEF ActiveDevices, Device
<1>4. \A b : b \in ActiveDevices <=> b \in rows /\ Device(b) /\ status[b] = "active"
  BY DEF ActiveDevices
<1> QED
  BY <1>1, <1>2, <1>3, <1>4

LEMMA StepRemembers ==
  ASSUME Inv, NEW t \in Threads, Step(t), Remembered(pc[t], job[t]), pc'[t] # "idle"
  PROVE  /\ \A b \in rows' : b \in rows /\ status'[b] = status[b]
         /\ \A a \in Watched(pc'[t], job'[t]) : a \in rows' => job'[t].was[a] = status'[a]
<1>1. CASE Examine(t)
  <2>1. rows' = rows /\ status' = status /\ Remembered(pc'[t], job'[t])
    BY <1>1, ExamineRemembers DEF Examine, tables, db
  <2> QED
    BY <2>1 DEF Remembered
<1>2. ~Report(t)
  BY Assigned DEF Report
<1>3. CASE ~Examine(t)
  <2>1. Narrows(pc[t], job[t], pc'[t], job'[t])
    BY <1>2, <1>3, LoopNarrows, RecursionNarrows, ElementNarrows DEF Step
  <2>2. \A b \in rows' : b \in rows /\ status'[b] = status[b]
    <3>1. UNCHANGED tables \/ \E a \in Assets : Erase(a)
      <4>1. CASE DeleteSensor(t)
        <5>1. job[t].sensors \subseteq Assets
          BY JobFacts DEF Jobs
        <5> QED
          BY <4>1, <5>1 DEF DeleteSensor
      <4>2. CASE Drop(t)
        <5>1. Current(t) \in Assets
          BY <4>2, CurrentType DEF Drop, Inner
        <5> QED
          BY <4>2, <5>1 DEF Drop
      <4>3. CASE ~DeleteSensor(t) /\ ~Drop(t)
        BY <4>3 DEF Step, Examine, StartCollect, Collect, StartDelete, NextRoot, Descend, Guard,
           Refer, Deactivate, Count, Reactivate, Unmap, Report
      <4> QED
        BY <4>1, <4>2, <4>3
    <3> QED
      BY <3>1, EraseActive DEF tables, db
  <2> QED
    BY <2>1, <2>2, StillRemembered
<1> QED
  BY <1>1, <1>3

(* What is left to show of a step.                                         *)
Settled(l, j) ==
  /\ l = "refer" => \A s \in j.sensors : s \in rows => status[s] = "nonactive"
  /\ l \in {"deactivate", "reactivate"} => j.was[Head(j.stack)] = "active"
  /\ licensed = ActiveDevices \ Withheld(l, j)

LEMMA LoopCredits ==
  ASSUME Inv, NEW t \in Threads, Settled(pc[t], job[t]),
         \/ Examine(t) \/ StartCollect(t) \/ Collect(t) \/ StartDelete(t) \/ NextRoot(t)
         \/ Descend(t) \/ Unmap(t) \/ Report(t)
  PROVE  Settled(pc[t], job[t])' /\ licensed' = ActiveDevices'
<1> DEFINE Busy5 == {"refer", "deactivate", "count", "drop", "reactivate"}
<1>1. UNCHANGED <<rows, status, licensed>>
  BY DEF Examine, StartCollect, Collect, StartDelete, NextRoot, Descend, Unmap, Report, tables, db
<1>2. pc[t] \notin Busy5
  BY DEF Examine, StartCollect, Collect, StartDelete, NextRoot, Descend, Unmap, Report
<1>3. pc'[t] \notin Busy5
  <2>1. CASE Unmap(t)
    BY <2>1, ReturnEnds DEF Unmap
  <2>2. CASE Examine(t) \/ StartCollect(t) \/ Collect(t) \/ StartDelete(t)
    BY <2>2, Assigned DEF Examine, StartCollect, Collect, StartDelete
  <2>3. CASE NextRoot(t) \/ Report(t)
    BY <2>3, Assigned DEF NextRoot, Report
  <2>4. CASE Descend(t)
    BY <2>4, Assigned DEF Descend
  <2> QED
    BY <2>1, <2>2, <2>3, <2>4
<1>4. ActiveDevices' = ActiveDevices
  BY <1>1 DEF ActiveDevices, Device
<1>5. Withheld(pc[t], job[t]) = {} /\ Withheld(pc'[t], job'[t]) = {}
  BY <1>2, <1>3 DEF Withheld
<1>6. licensed' = ActiveDevices'
  BY <1>1, <1>4, <1>5 DEF Settled
<1> QED
  BY <1>3, <1>5, <1>6 DEF Settled

LEMMA FailedCredits ==
  ASSUME Inv, SendNotify, NEW t \in Threads, pc[t] \in {"count", "drop"}, Failed(t, Current(t)),
         ActiveDevices' = ActiveDevices, licensed' = ActiveDevices \ Withheld(pc[t], job[t])
  PROVE  Settled(pc[t], job[t])'
<1>1. /\ job[t] \in Jobs /\ Current(t) = Head(job[t].stack) /\ Current(t) \in Assets
  BY JobFacts, CurrentType DEF Current, Inner
<1>2. /\ job'[t] = [job[t] EXCEPT !.ok = FALSE]
      /\ pc'[t] = IF Deactivates(job[t], Current(t)) THEN "reactivate" ELSE "unmap"
  BY Assigned DEF Failed
<1>3. job'[t].was = job[t].was /\ job'[t].stack = job[t].stack
  BY <1>1, <1>2 DEF Jobs
<1>4. CASE job[t].was[Current(t)] = "active"
  <2>1. pc'[t] = "reactivate"
    BY <1>2, <1>4 DEF Deactivates
  <2>2. Withheld(pc'[t], job'[t]) = Withheld(pc[t], job[t])
    BY <1>3, <2>1 DEF Withheld
  <2> QED
    BY <1>1, <1>3, <1>4, <2>1, <2>2 DEF Settled
<1>5. CASE job[t].was[Current(t)] # "active"
  <2>1. pc'[t] = "unmap"
    BY <1>2, <1>5 DEF Deactivates
  <2>2. Withheld(pc'[t], job'[t]) = {} /\ Withheld(pc[t], job[t]) = {}
    BY <1>1, <1>5, <2>1 DEF Withheld
  <2> QED
    BY <2>1, <2>2 DEF Settled
<1> QED
  BY <1>4, <1>5

LEMMA ElementCredits ==
  ASSUME Inv, SendNotify, NEW t \in Threads, Settled(pc[t], job[t]), Remembered(pc[t], job[t]),
         Guard(t) \/ Refer(t) \/ Deactivate(t) \/ Count(t), clean'
  PROVE  Settled(pc[t], job[t])'
<1> DEFINE a == Head(job[t].stack)
<1>1. UNCHANGED <<rows, status>> /\ ActiveDevices' = ActiveDevices
  BY DEF Guard, Refer, Deactivate, Count, tables, db, ActiveDevices, Device
<1>2. /\ job[t] \in Jobs /\ job[t].stack # <<>> /\ job[t].stack \in Seq(Assets) /\ a \in Assets
      /\ a = Current(t) /\ job[t].was[a] \in Statuses
  <2>1. /\ job[t] \in Jobs /\ job[t].stack # <<>> /\ Current(t) \in Assets
    BY JobFacts, CurrentType DEF Guard, Refer, Deactivate, Count, Inner
  <2> QED
    BY <2>1 DEF Current, Jobs
<1>3. ASSUME Return(t, job[t], Current(t), FALSE), licensed' = ActiveDevices PROVE Settled(pc[t], job[t])'
  <2>1. pc'[t] \in {"next", "descend"}
    BY <1>3, ReturnEnds
  <2>2. Withheld(pc'[t], job'[t]) = {}
    BY <2>1 DEF Withheld
  <2> QED
    BY <1>1, <1>3, <2>1, <2>2 DEF Settled
<1>4. CASE Guard(t)
  <2>0. licensed = ActiveDevices /\ licensed' = licensed
    BY <1>4 DEF Guard, Settled, Withheld
  <2>1. ASSUME Set(t, [job[t] EXCEPT !.sensors = IF Detached(job[t], Current(t))
                                                 THEN Idling(Children(Current(t))) ELSE {}]),
               Goto(t, "refer")
        PROVE  Settled(pc[t], job[t])'
    <3> DEFINE S == IF Detached(job[t], Current(t)) THEN Idling(Children(Current(t))) ELSE {}
    <3>0. \A s \in S : status[s] = "nonactive"
      BY DEF Idling
    <3>1. pc'[t] = "refer" /\ job'[t] = [job[t] EXCEPT !.sensors = S]
      BY <2>1, Assigned
    <3> HIDE DEF S
    <3>2. \A s \in job'[t].sensors : status[s] = "nonactive"
      BY <1>2, <3>0, <3>1 DEF Jobs
    <3>3. Withheld(pc'[t], job'[t]) = {}
      BY <3>1 DEF Withheld
    <3> QED
      BY <1>1, <2>0, <3>1, <3>2, <3>3 DEF Settled
  <2> QED
    BY <1>3, <1>4, <2>0, <2>1 DEF Guard
<1>5. CASE Refer(t)
  <2>0. licensed = ActiveDevices /\ licensed' = licensed
    BY <1>5 DEF Refer, Settled, Withheld
  <2>1. ASSUME Goto(t, IF Deactivates(job[t], Current(t)) THEN "deactivate"
                       ELSE Cleanup(Current(t))), UNCHANGED job
        PROVE  Settled(pc[t], job[t])'
    <3>1. CASE job[t].was[a] = "active"
      <4>1. pc'[t] = "deactivate" /\ job'[t] = job[t]
        BY <1>2, <2>1, <3>1, Assigned DEF Deactivates
      <4>2. Withheld(pc'[t], job'[t]) = {}
        BY <4>1 DEF Withheld
      <4> QED
        BY <1>1, <2>0, <3>1, <4>1, <4>2 DEF Settled
    <3>2. CASE job[t].was[a] # "active"
      <4>1. pc'[t] \in {"count", "drop"} /\ job'[t] = job[t]
        BY <1>2, <2>1, <3>2, Assigned DEF Deactivates, Cleanup
      <4>2. Withheld(pc'[t], job'[t]) = {}
        BY <3>2, <4>1 DEF Withheld
      <4> QED
        BY <1>1, <2>0, <3>2, <4>1, <4>2 DEF Settled
    <3> QED
      BY <3>1, <3>2
  <2> QED
    BY <1>3, <1>5, <2>0, <2>1 DEF Refer
<1>6. CASE Deactivate(t)
  <2>1. licensed' = IF a \in rows THEN licensed \ {a} ELSE licensed
    BY <1>2, <1>6 DEF Deactivate
  <2>2. Goto(t, Cleanup(Current(t))) /\ UNCHANGED job
    BY <1>6 DEF Deactivate
  <2>3. licensed = ActiveDevices /\ job[t].was[a] = "active"
    BY <1>6 DEF Deactivate, Settled, Withheld
  <2>4. licensed' = ActiveDevices \ {a}
    BY <2>1, <2>3 DEF ActiveDevices
  <2>5. pc'[t] \in {"count", "drop"} /\ job'[t] = job[t]
    BY <2>2, Assigned DEF Cleanup
  <2>6. Withheld(pc'[t], job'[t]) = {a}
    BY <2>3, <2>5 DEF Withheld
  <2> QED
    BY <1>1, <2>4, <2>5, <2>6 DEF Settled
<1>7. CASE Count(t)
  <2>0. licensed' = ActiveDevices \ Withheld(pc[t], job[t]) /\ pc[t] = "count"
    BY <1>7 DEF Count, Settled
  <2>1. ASSUME Goto(t, "drop"), UNCHANGED job PROVE Settled(pc[t], job[t])'
    <3>1. pc'[t] = "drop" /\ job'[t] = job[t]
      BY <2>1, Assigned
    <3>2. Withheld(pc'[t], job'[t]) = Withheld(pc[t], job[t])
      BY <2>0, <3>1 DEF Withheld
    <3> QED
      BY <1>1, <2>0, <3>1, <3>2 DEF Settled
  <2>2. ASSUME Failed(t, Current(t)) PROVE Settled(pc[t], job[t])'
    BY <1>1, <2>0, <2>2, FailedCredits
  <2> QED
    BY <1>7, <2>1, <2>2 DEF Count
<1> QED
  BY <1>4, <1>5, <1>6, <1>7

(* The steps that erase a row, and the one that repairs.                   *)
LEMMA EraseCredits ==
  ASSUME Inv, SendNotify, NEW t \in Threads, Settled(pc[t], job[t]), Remembered(pc[t], job[t]),
         DeleteSensor(t) \/ Drop(t) \/ Reactivate(t), clean, clean'
  PROVE  Settled(pc[t], job[t])'
<1> DEFINE a == Head(job[t].stack)
<1>1. /\ job[t] \in Jobs /\ job[t].stack # <<>> /\ a \in Assets
      /\ a = Current(t) /\ job[t].was[a] \in Statuses
      /\ (a \in rows => job[t].was[a] = status[a])
  <2>1. /\ job[t] \in Jobs /\ job[t].stack # <<>> /\ Current(t) \in Assets
    BY JobFacts, CurrentType DEF DeleteSensor, Drop, Reactivate, Inner
  <2>2. a \in Watched(pc[t], job[t])
    <3>1. job[t].stack \in Seq(Assets)
      BY <2>1 DEF Jobs
    <3> QED
      BY <2>1, <3>1, HeadElement, WatchedParts
  <2> QED
    BY <2>1, <2>2 DEF Current, Jobs, Remembered
<1>2. CASE DeleteSensor(t)
  <2>0. licensed = ActiveDevices /\ licensed' = licensed /\ pc[t] = "refer"
    BY <1>2 DEF DeleteSensor, Settled, Withheld
  <2>1. PICK s \in job[t].sensors :
          /\ Set(t, [job[t] EXCEPT !.sensors = @ \ {s}])
          /\ IF ~Referred(s) /\ Free(s) THEN Erase(s) ELSE UNCHANGED tables
    BY <1>2 DEF DeleteSensor
  <2>2. s \in Assets /\ (s \in rows => status[s] = "nonactive")
    BY <1>1, <2>0 DEF Jobs, Settled
  <2>3. /\ ActiveDevices' = ActiveDevices
        /\ \A b \in rows' : b \in rows /\ status'[b] = status[b]
    <3>1. CASE Erase(s)
      <4>1. s \notin ActiveDevices
        BY <2>2 DEF ActiveDevices
      <4> QED
        BY <2>2, <3>1, <4>1, EraseActive
    <3>2. CASE UNCHANGED tables
      BY <3>2 DEF tables, db, ActiveDevices, Device
    <3> QED
      BY <2>1, <3>1, <3>2
  <2>4. pc'[t] = "refer" /\ job'[t].sensors = job[t].sensors \ {s}
    BY <1>1, <1>2, <2>0, <2>1, Assigned DEF DeleteSensor, Jobs
  <2>5. Withheld(pc'[t], job'[t]) = {}
    BY <2>4 DEF Withheld
  <2> QED
    BY <2>0, <2>3, <2>4, <2>5 DEF Settled
<1>3. CASE Drop(t)
  <2>0. licensed' = ActiveDevices \ Withheld("drop", job[t]) /\ pc[t] = "drop"
    BY <1>3 DEF Drop, Settled
  <2>1. ASSUME Erase(a), Goto(t, "unmap") PROVE Settled(pc[t], job[t])'
    <3>1. pc'[t] = "unmap" /\ ActiveDevices' = ActiveDevices \ {a}
      BY <1>1, <2>1, Assigned, EraseActive
    <3>2. Withheld(pc'[t], job'[t]) = {}
      BY <3>1 DEF Withheld
    <3>3. licensed' = ActiveDevices'
      <4>1. CASE job[t].was[a] = "active"
        <5>1. Withheld("drop", job[t]) = {a}
          BY <4>1 DEF Withheld
        <5> QED
          BY <2>0, <3>1, <5>1
      <4>2. CASE job[t].was[a] # "active"
        <5>1. Withheld("drop", job[t]) = {} /\ a \notin ActiveDevices
          BY <1>1, <4>2 DEF Withheld, ActiveDevices
        <5> QED
          BY <2>0, <3>1, <5>1
      <4> QED
        BY <4>1, <4>2
    <3> QED
      BY <3>1, <3>2, <3>3 DEF Settled
  <2>2. ASSUME Failed(t, Current(t)), UNCHANGED tables PROVE Settled(pc[t], job[t])'
    <3>1. ActiveDevices' = ActiveDevices
      BY <2>2 DEF tables, db, ActiveDevices, Device
    <3> QED
      BY <2>0, <2>2, <3>1, FailedCredits
  <2> QED
    BY <1>1, <1>3, <2>1, <2>2 DEF Drop
<1>4. CASE Reactivate(t)
  <2>0. pc[t] = "reactivate" /\ pc'[t] = "unmap" /\ job[t].was[a] = "active"
    BY <1>4, Assigned DEF Reactivate, Settled
  <2>1. licensed = ActiveDevices \ {a} /\ Withheld(pc'[t], job'[t]) = {}
    BY <2>0 DEF Settled, Withheld
  <2>2. ActiveDevices' = ActiveDevices
    BY <1>4 DEF Reactivate, tables, db, ActiveDevices, Device
  <2>3. licensed' = ActiveDevices
    <3>1. CASE a \in rows /\ Device(a) /\ licensed' = licensed \cup {a}
      <4>1. a \in ActiveDevices
        BY <1>1, <2>0, <3>1 DEF ActiveDevices
      <4> QED
        BY <2>1, <3>1, <4>1
    <3>2. CASE ~Device(a) /\ UNCHANGED licensed
      <4>1. a \notin ActiveDevices
        BY <3>2 DEF ActiveDevices
      <4> QED
        BY <2>1, <3>2, <4>1
    <3> QED
      BY <1>1, <1>4, <3>1, <3>2 DEF Reactivate
  <2> QED
    BY <2>0, <2>1, <2>2, <2>3 DEF Settled
<1> QED
  BY <1>2, <1>3, <1>4

LEMMA StepCredits ==
  ASSUME Inv, OneCall, CreditsInv, NEW t \in Threads, Step(t)
  PROVE  CreditsInv'
<1>1. SUFFICES ASSUME clean', SendNotify
               PROVE  /\ Idle' => licensed' = ActiveDevices'
                      /\ \A u \in Threads : pc'[u] # "idle" => Credited(pc[u], job[u])'
  BY DEF CreditsInv
<1>2. clean /\ pc[t] # "idle" /\ Elsewhere(t)
  BY <1>1, StepClean, StepBusy, StepElsewhere
<1>3. \A u \in Threads \ {t} : pc'[u] = "idle"
  BY <1>2 DEF OneCall, Alone, Elsewhere
<1>4. Credited(pc[t], job[t])
  BY <1>1, <1>2 DEF CreditsInv
<1>5. Settled(pc[t], job[t]) /\ Remembered(pc[t], job[t])
  BY <1>4 DEF Credited, Settled
<1>6. Settled(pc[t], job[t])' /\ (pc'[t] = "idle" => licensed' = ActiveDevices')
  <2>1. CASE \/ Examine(t) \/ StartCollect(t) \/ Collect(t) \/ StartDelete(t) \/ NextRoot(t)
             \/ Descend(t) \/ Unmap(t) \/ Report(t)
    BY <1>5, <2>1, LoopCredits
  <2>2. ASSUME Settled(pc[t], job[t])', pc'[t] = "idle" PROVE licensed' = ActiveDevices'
    BY <2>2 DEF Settled, Withheld
  <2> QED
    BY <1>1, <1>2, <1>5, <2>1, <2>2, ElementCredits, EraseCredits DEF Step
<1>7. Idle' => pc'[t] = "idle"
  BY DEF Idle, Busy
<1>8. pc'[t] # "idle" => Credited(pc[t], job[t])'
  <2>1. pc'[t] # "idle" => Remembered(pc[t], job[t])'
    <3>1. SUFFICES ASSUME pc'[t] # "idle", NEW a \in Watched(pc'[t], job'[t]), a \in rows'
                   PROVE  job'[t].was[a] = status'[a]
      BY DEF Remembered, Watched, Elements
    <3> QED
      BY <1>5, <3>1, StepRemembers
  <2> QED
    BY <1>6, <2>1 DEF Credited, Settled
<1> QED
  BY <1>3, <1>6, <1>7, <1>8

LEMMA RequestCredits ==
  ASSUME Inv, CreditsInv, NEW t \in Threads, Request(t)
  PROVE  CreditsInv'
<1>1. SUFFICES ASSUME clean', SendNotify
               PROVE  /\ Idle' => licensed' = ActiveDevices'
                      /\ \A u \in Threads : pc'[u] # "idle" => Credited(pc[u], job[u])'
  BY DEF CreditsInv
<1>2. clean /\ ~Busy /\ UNCHANGED <<rows, status, licensed>>
  BY <1>1 DEF Request, DeleteList, DeleteOne, Receive, tables, db
<1>3. licensed' = ActiveDevices' /\ ActiveDevices' = ActiveDevices
  BY <1>1, <1>2 DEF CreditsInv, Idle, ActiveDevices, Device
<1>4. \A u \in Threads \ {t} : pc'[u] = "idle"
  BY <1>2, RequestFrame DEF Frame, Elsewhere, Busy
<1>5. NoJob \in Jobs /\ NoJob.toDel = <<>> /\ NoJob.stack = <<>>
      /\ \A e \in Assets : NoJob.kids[e] = {} /\ NoJob.fed[e] = {}
  BY NoJobType DEF NoJob
<1>6. pc'[t] \in {"examine", "guard"} /\ Remembered(pc[t], job[t])'
  <2>1. ASSUME NEW S \in Lists, DeleteList(t, S)
        PROVE  pc'[t] = "examine" /\ Watched(pc'[t], job'[t]) = {}
    <3> DEFINE N == {a \in Assets : Referred(a)}
               k == [NoJob EXCEPT !.ids = S, !.todo = ById[S], !.named = N]
    <3>1. pc'[t] = "examine" /\ job'[t] = k
      BY <2>1, Assigned DEF DeleteList, Receive
    <3> HIDE DEF N
    <3>2. k.toDel = <<>> /\ k.stack = <<>> /\ k.kids = NoJob.kids /\ k.fed = NoJob.fed
      BY <1>5 DEF Jobs
    <3> HIDE DEF k
    <3>3. Elements(k.toDel) = {} /\ Elements(k.stack) = {}
      BY <3>2, NoElements
    <3> QED
      BY <1>5, <3>1, <3>2, <3>3 DEF Watched
  <2>2. ASSUME NEW a \in Ones, DeleteOne(t, a)
        PROVE  pc'[t] = "guard" /\ Remembered(pc[t], job[t])'
    <3> DEFINE N == {b \in Assets : Referred(b)}
               i == Loaded(NoJob, {a})
               k == [i EXCEPT !.ids = {a}, !.todo = <<a>>, !.stack = <<a>>, !.named = N]
    <3>0. a \in Assets
      BY DeleteAssumption
    <3>1. pc'[t] = "guard" /\ job'[t] = k
      BY <2>2, Assigned DEF DeleteOne, Receive
    <3>2. /\ i \in Jobs /\ i.was[a] = status[a] /\ i.toDel = NoJob.toDel /\ i.stack = NoJob.stack
          /\ i.kids = NoJob.kids /\ i.fed = NoJob.fed
      <4>1. i \in Jobs
        BY <1>5, <3>0, LoadedType
      <4> QED
        BY <1>5, <3>0, <4>1 DEF Loaded, Jobs
    <3> HIDE DEF N, i
    <3>3. /\ k.toDel = <<>> /\ k.stack = <<a>> /\ k.todo = <<a>> /\ k.kids = NoJob.kids
          /\ k.fed = NoJob.fed /\ k.was = i.was
      BY <1>5, <3>2 DEF Jobs
    <3> HIDE DEF k
    <3>4. Elements(k.toDel) = {} /\ Elements(k.stack) = {a} /\ Elements(k.todo) = {a}
      BY <3>0, <3>3, NoElements, OneElement
    <3>5. Watched("guard", k) \subseteq {a}
      BY <1>5, <3>3, <3>4 DEF Watched
    <3>6. Remembered("guard", k)
      BY <3>2, <3>3, <3>5 DEF Remembered
    <3>7. \A b \in Watched("guard", k) : b \in rows' => k.was[b] = status'[b]
      BY <1>2, <3>6 DEF Remembered
    <3> QED
      BY <3>1, <3>7 DEF Remembered, Watched, Elements
  <2>3. ASSUME Watched(pc'[t], job'[t]) = {} PROVE Remembered(pc[t], job[t])'
    BY <2>3 DEF Remembered, Watched, Elements
  <2> QED
    BY <2>1, <2>2, <2>3 DEF Request
<1>7. Withheld(pc'[t], job'[t]) = {}
  BY <1>6 DEF Withheld
<1>8. Credited(pc[t], job[t])'
  BY <1>3, <1>6, <1>7 DEF Credited
<1> QED
  BY <1>3, <1>4, <1>8

(* The other users keep their side of it.                                  *)
LEMMA ChangeCredits == ASSUME Inv, CreditsInv, Change PROVE CreditsInv'
<1>1. SUFFICES ASSUME clean', SendNotify
               PROVE  /\ licensed' = ActiveDevices'
                      /\ \A u \in Threads : pc'[u] = "idle"
  BY DEF CreditsInv
<1>2. clean /\ ~Busy /\ UNCHANGED pc
  BY <1>1 DEF Change
<1>3. licensed = ActiveDevices
  BY <1>1, <1>2 DEF CreditsInv, Idle
<1>4. ASSUME NEW m \in Moves, Update(m[1], m[2], m[3])
      PROVE  licensed' = ActiveDevices'
  <2> DEFINE a == m[1]
             w == m[3]
  <2>1. /\ a \in rows /\ a \in Assets /\ rows' = rows /\ status' = [status EXCEPT ![a] = w]
        /\ licensed' = IF ~Device(a) THEN licensed
                       ELSE IF w = "active" THEN licensed \cup {a} ELSE licensed \ {a}
    BY <1>4 DEF Update, CanWrite, Write, Inv, TypeOK
  <2> HIDE DEF a, w
  <2>2. \A b \in rows : status'[b] = IF b = a THEN w ELSE status[b]
    BY <2>1 DEF Inv, TypeOK
  <2>3. \A b : b \in ActiveDevices' <=> b \in rows' /\ Device(b) /\ status'[b] = "active"
    BY DEF ActiveDevices, Device
  <2>4. \A b : b \in ActiveDevices <=> b \in rows /\ Device(b) /\ status[b] = "active"
    BY DEF ActiveDevices
  <2>5. \A b : b \in licensed' <=> b \in ActiveDevices'
    BY <1>3, <2>1, <2>2, <2>3, <2>4
  <2> QED
    BY <2>5
<1>5. ASSUME UNCHANGED <<rows, status, licensed>> PROVE licensed' = ActiveDevices'
  BY <1>3, <1>5 DEF ActiveDevices, Device
<1>6. licensed' = ActiveDevices'
  BY <1>4, <1>5 DEF Change, Wire, Name, db
<1> QED
  BY <1>2, <1>6 DEF Busy

LEMMA NextCredits == ASSUME Inv, OneCall, CreditsInv, [Next]_vars PROVE CreditsInv'
<1>1. CASE UNCHANGED vars
  BY <1>1 DEF vars, CreditsInv, Idle, Busy, Credited, Remembered, Watched, Withheld, ActiveDevices,
     Device, Elements
<1> QED
  BY <1>1, ChangeCredits, RequestCredits, StepCredits DEF Next

(* After calls that did not overlap and whose requests were answered, the  *)
(* licensing agent holds a credit for exactly the active devices, whatever *)
(* was deleted, refused or only half done.                                 *)
THEOREM CreditsFollowDeletions == Spec => []CreditsAgree
<1>1. CreditsInv => CreditsAgree
  BY DEF CreditsInv, CreditsAgree
<1> QED
  BY <1>1, InitCredits, NextCredits, SpecInv, SpecOneCall, PTL DEF Spec

-----------------------------------------------------------------------------
(* The last of their kind.  Nothing hangs below a row that is not there,   *)
(* so that a leaf that goes leaves what is below every other asset alone.  *)
Rooted == \A a \in rows : parent[a] \in rows \cup {None}

LEMMA InitRooted == Init => Rooted
  BY DEF Init, Consistent, Rooted

(* What an erased leaf was.                                                *)
LEMMA ErasedLeaf ==
  ASSUME Inv, Rooted, NEW a \in Assets, Free(a), Erase(a)
  PROVE  /\ rows' = rows \ {a} /\ \A b \in rows' : parent'[b] = parent[b]
         /\ \A b \in rows : parent[b] \in (rows \ {a}) \cup {None}
<1>1. rows' = rows \ {a} /\ parent' = [parent EXCEPT ![a] = None]
  BY DEF Erase, Write
<1>2. \A b \in rows' : parent'[b] = parent[b]
  BY <1>1 DEF Inv, TypeOK
<1>3. ASSUME NEW b \in rows PROVE parent[b] \in (rows \ {a}) \cup {None}
  <2>1. parent[b] \in rows \cup {None}
    BY DEF Rooted
  <2>2. parent[b] # a \/ a = None
    <3>1. CASE a \in rows
      BY <3>1 DEF Free, Children
    <3>2. CASE a \notin rows
      BY <2>1, <3>2
    <3> QED
      BY <3>1, <3>2
  <2> QED
    BY <2>1, <2>2, TablesAssumption
<1> QED
  BY <1>1, <1>2, <1>3

LEMMA ErasedSubTree ==
  ASSUME Inv, Rooted, NEW a \in Assets, Free(a), Erase(a), NEW d
  PROVE  SubTree(d)' = SubTree(d) \ {a}
<1>1. /\ rows' = rows \ {a} /\ \A b \in rows' : parent'[b] = parent[b]
      /\ \A b \in rows : parent[b] \in (rows \ {a}) \cup {None}
  BY ErasedLeaf
<1>2. ASSUME NEW b \in rows, parent[b] # None PROVE a \notin Above(b)
  <2> DEFINE S == rows \ {a}
  <2>1. S \in SUBSET rows /\ parent[b] \in S /\ \A x \in S : parent[x] = None \/ parent[x] \in S
    BY <1>1, <1>2
  <2>2. a \notin S
    OBVIOUS
  <2> HIDE DEF S
  <2> QED
    BY <2>1, <2>2 DEF Above
<1>3. ASSUME NEW b \in rows', parent[b] # None PROVE d \in Above(b)' <=> d \in Above(b)
  <2>0. b \in rows /\ parent'[b] = parent[b]
    BY <1>1
  <2>1. ASSUME d \in Above(b)' PROVE d \in Above(b)
    <3>1. d \in rows' /\ \A S \in SUBSET rows' :
            (parent'[b] \in S /\ \A x \in S : parent'[x] = None \/ parent'[x] \in S) => d \in S
      BY <2>1 DEF Above
    <3>2. ASSUME NEW S \in SUBSET rows, parent[b] \in S,
                 \A x \in S : parent[x] = None \/ parent[x] \in S
          PROVE  d \in S
      <4> DEFINE T == S \ {a}
      <4>1. T \in SUBSET rows'
        BY <1>1
      <4>2. parent'[b] \in T
        BY <1>1, <1>3, <2>0, <3>2
      <4>3. \A x \in T : parent'[x] = None \/ parent'[x] \in T
        BY <1>1, <3>2
      <4> HIDE DEF T
      <4>4. d \in T
        BY <3>1, <4>1, <4>2, <4>3
      <4> QED
        BY <4>4 DEF T
    <3> QED
      BY <1>1, <3>1, <3>2 DEF Above
  <2>2. ASSUME d \in Above(b) PROVE d \in Above(b)'
    <3>1. d \in rows /\ d # a
      BY <1>2, <1>3, <2>0, <2>2 DEF Above
    <3>2. ASSUME NEW S \in SUBSET rows', parent'[b] \in S,
                 \A x \in S : parent'[x] = None \/ parent'[x] \in S
          PROVE  d \in S
      <4>1. S \in SUBSET rows /\ parent[b] \in S /\ \A x \in S : parent[x] = None \/ parent[x] \in S
        BY <1>1, <2>0, <3>2
      <4> QED
        BY <2>2, <4>1 DEF Above
    <3> QED
      BY <1>1, <3>1, <3>2 DEF Above
  <2> QED
    BY <2>1, <2>2
<1>4. ASSUME NEW b PROVE b \in SubTree(d)' <=> b \in SubTree(d) /\ b # a
  <2>1. b \in SubTree(d)' <=> b \in rows' /\ parent'[b] # None /\ d \in Above(b)'
    BY DEF SubTree
  <2>2. b \in SubTree(d) <=> b \in rows /\ parent[b] # None /\ d \in Above(b)
    BY DEF SubTree
  <2> QED
    BY <1>1, <1>3, <2>1, <2>2
<1> QED
  BY <1>4

LEMMA ErasedFeeds ==
  ASSUME Inv, Rooted, NEW a \in Assets, Free(a), Erase(a)
  PROVE  \A d : FeedsIn(d)' = FeedsIn(d) \ {a}
<1> TAKE d
<1>1. SubTree(d)' = SubTree(d) \ {a}
  BY ErasedSubTree
<1> QED
  BY <1>1 DEF FeedsIn

LEMMA ErasedRooted ==
  ASSUME Inv, Rooted, NEW a \in Assets, Free(a), Erase(a)
  PROVE  Rooted'
  BY ErasedLeaf DEF Rooted

LEMMA NextRooted == ASSUME Inv, Rooted, [Next]_vars PROVE Rooted'
<1>1. ASSUME UNCHANGED db PROVE Rooted'
  BY <1>1 DEF db, Rooted
<1>2. CASE UNCHANGED vars
  BY <1>1, <1>2 DEF vars, db
<1>3. CASE Change
  <2>1. ASSUME NEW m \in Moves, Update(m[1], m[2], m[3]) PROVE Rooted'
    <3>1. /\ rows' = rows /\ parent' = [parent EXCEPT ![m[1]] = m[2]] /\ m[2] \in rows \cup {None}
      BY <2>1 DEF Update, CanWrite, Write
    <3>2. \A b \in rows : parent'[b] = IF b = m[1] THEN m[2] ELSE parent[b]
      BY <3>1 DEF Inv, TypeOK
    <3> QED
      BY <3>1, <3>2 DEF Rooted
  <2>2. ASSUME UNCHANGED <<rows, parent>> PROVE Rooted'
    BY <2>2 DEF Rooted
  <2> QED
    BY <1>3, <2>1, <2>2 DEF Change, Wire, Name, db
<1>4. ASSUME NEW t \in Threads, Request(t) PROVE Rooted'
  BY <1>1, <1>4 DEF Request, DeleteList, DeleteOne, Receive, tables
<1>5. ASSUME NEW t \in Threads, DeleteSensor(t) PROVE Rooted'
  <2>1. job[t].sensors \subseteq Assets
    BY JobFacts DEF Jobs
  <2>2. UNCHANGED tables \/ \E s \in Assets : Free(s) /\ Erase(s)
    BY <1>5, <2>1 DEF DeleteSensor
  <2> QED
    BY <1>1, <2>2, ErasedRooted DEF tables
<1>6. ASSUME NEW t \in Threads, Drop(t) PROVE Rooted'
  <2>1. Current(t) \in Assets
    BY <1>6, CurrentType DEF Drop, Inner
  <2> QED
    BY <1>1, <1>6, <2>1, ErasedRooted DEF Drop, tables
<1>7. ASSUME NEW t \in Threads, Reading(t) PROVE Rooted'
  <2>1. UNCHANGED tables
    BY <1>7 DEF Reading, Examine, StartCollect, Collect, StartDelete, NextRoot, Descend, Guard,
       Refer, Deactivate, Count, Reactivate, Unmap, Report
  <2> QED
    BY <1>1, <2>1 DEF tables
<1>8. ASSUME NEW t \in Threads, Step(t) PROVE Rooted'
  BY <1>5, <1>6, <1>7, <1>8 DEF Step, Reading
<1> QED
  BY <1>2, <1>3, <1>4, <1>8 DEF Next

LEMMA SpecRooted == Spec => []Rooted
  BY InitRooted, NextRooted, SpecInv, PTL DEF Spec

(* What a call that runs alone has checked of its element stays true until *)
(* the element is erased: only a sensor goes in between.                   *)
Checked(l, j) ==
  /\ l = "refer" => j.sensors \subseteq Sensors
  /\ l \in {"refer", "deactivate", "count", "drop"} => ~LastFeed(Head(j.stack))
  /\ (l = "drop" /\ Location(Head(j.stack))) => ~IsLastDataCenter(Head(j.stack))
LastInv == clean => \A t \in Threads : Checked(pc[t], job[t])

LEMMA InitLast == Init => LastInv
  BY DEF Init, LastInv, Checked

LEMMA GuardChecks ==
  ASSUME Inv, NEW t \in Threads, Guard(t)
  PROVE  Checked(pc[t], job[t])'
<1>1. job[t] \in Jobs /\ UNCHANGED <<rows, parent>>
  BY JobFacts DEF Guard, tables, db
<1>2. ASSUME Return(t, job[t], Current(t), FALSE) PROVE Checked(pc[t], job[t])'
  BY <1>2, ReturnEnds DEF Checked
<1>3. ASSUME ~LastFeed(Current(t)), Goto(t, "refer"),
             Set(t, [job[t] EXCEPT !.sensors = IF Detached(job[t], Current(t))
                                               THEN Idling(Children(Current(t))) ELSE {}])
      PROVE  Checked(pc[t], job[t])'
  <2> DEFINE S == IF Detached(job[t], Current(t)) THEN Idling(Children(Current(t))) ELSE {}
  <2>0. S \subseteq Sensors
    BY DEF Idling
  <2>1. pc'[t] = "refer" /\ job'[t] = [job[t] EXCEPT !.sensors = S]
    BY <1>3, Assigned
  <2> HIDE DEF S
  <2>2. job'[t].stack = job[t].stack /\ job'[t].sensors \subseteq Sensors
    BY <1>1, <2>0, <2>1 DEF Jobs
  <2>3. \A d : FeedsIn(d)' = FeedsIn(d)
    BY <1>1 DEF FeedsIn, SubTree, Above
  <2> QED
    BY <1>3, <2>1, <2>2, <2>3 DEF Checked, LastFeed, Current
<1> QED
  BY <1>2, <1>3 DEF Guard

LEMMA SensorChecks ==
  ASSUME Inv, Rooted, NEW t \in Threads, DeleteSensor(t), Checked(pc[t], job[t])
  PROVE  Checked(pc[t], job[t])'
<1>1. job[t] \in Jobs /\ pc[t] = "refer" /\ pc'[t] = "refer"
  BY JobFacts DEF DeleteSensor
<1>2. PICK s \in job[t].sensors :
        /\ Set(t, [job[t] EXCEPT !.sensors = @ \ {s}])
        /\ IF ~Referred(s) /\ Free(s) THEN Erase(s) ELSE UNCHANGED tables
  BY DEF DeleteSensor
<1>3. job'[t].stack = job[t].stack /\ job'[t].sensors = job[t].sensors \ {s}
  BY <1>1, <1>2, Assigned DEF Jobs
<1>4. s \in Sensors /\ s \in Assets /\ s \notin Feeds
  BY <1>1, DeleteAssumption DEF Checked, Jobs
<1>5. \A d : FeedsIn(d)' = FeedsIn(d)
  <2>1. CASE UNCHANGED tables
    BY <2>1 DEF tables, db, FeedsIn, SubTree, Above
  <2>2. CASE Free(s) /\ Erase(s)
    <3>1. \A d : FeedsIn(d)' = FeedsIn(d) \ {s}
      BY <1>4, <2>2, ErasedFeeds
    <3>2. \A d : s \notin FeedsIn(d)
      BY <1>4 DEF FeedsIn
    <3> QED
      BY <3>1, <3>2
  <2> QED
    BY <1>2, <2>1, <2>2
<1> QED
  BY <1>1, <1>3, <1>5 DEF Checked, LastFeed

LEMMA ElementChecks ==
  ASSUME Inv, NEW t \in Threads, Refer(t) \/ Deactivate(t) \/ Count(t), Checked(pc[t], job[t])
  PROVE  Checked(pc[t], job[t])'
<1>1. job[t] \in Jobs /\ UNCHANGED <<rows, parent>>
  BY JobFacts DEF Refer, Deactivate, Count, tables, db
<1>2. ASSUME Return(t, job[t], Current(t), FALSE) PROVE Checked(pc[t], job[t])'
  BY <1>2, ReturnEnds DEF Checked
<1>3. ~LastFeed(Current(t))
  BY DEF Checked, Refer, Deactivate, Count, Current
<1>4. ASSUME UNCHANGED job, pc'[t] # "refer",
             (pc'[t] = "drop" /\ Location(Current(t))) => ~IsLastDataCenter(Current(t))
      PROVE  Checked(pc[t], job[t])'
  <2>1. \A d : FeedsIn(d)' = FeedsIn(d)
    BY <1>1 DEF FeedsIn, SubTree, Above
  <2>2. job'[t] = job[t]
    BY <1>4
  <2> QED
    BY <1>1, <1>3, <1>4, <2>1, <2>2 DEF Checked, LastFeed, Current, IsLastDataCenter, Location
<1>5. ASSUME Goto(t, Cleanup(Current(t))), UNCHANGED job PROVE Checked(pc[t], job[t])'
  <2>1. pc'[t] = IF Location(Current(t)) THEN "count" ELSE "drop"
    BY <1>5, Assigned DEF Cleanup
  <2> QED
    BY <1>4, <1>5, <2>1
<1>6. CASE Refer(t)
  <2>1. ASSUME Goto(t, "deactivate"), UNCHANGED job PROVE Checked(pc[t], job[t])'
    BY <1>4, <2>1, Assigned
  <2> QED
    BY <1>2, <1>5, <1>6, <2>1 DEF Refer
<1>7. CASE Deactivate(t)
  BY <1>2, <1>5, <1>7 DEF Deactivate
<1>8. CASE Count(t)
  <2>1. ASSUME Failed(t, Current(t)) PROVE Checked(pc[t], job[t])'
    <3>1. pc'[t] \in {"reactivate", "unmap"}
      BY <2>1, Assigned DEF Failed
    <3> QED
      BY <3>1 DEF Checked
  <2>2. ASSUME ~IsLastDataCenter(Current(t)), Goto(t, "drop"), UNCHANGED job
        PROVE  Checked(pc[t], job[t])'
    BY <1>4, <2>2, Assigned
  <2> QED
    BY <1>8, <2>1, <2>2 DEF Count
<1> QED
  BY <1>6, <1>7, <1>8

LEMMA StepChecks ==
  ASSUME Inv, Rooted, NEW t \in Threads, Step(t), Checked(pc[t], job[t])
  PROVE  Checked(pc[t], job[t])'
<1> DEFINE Late == {"refer", "deactivate", "count", "drop"}
<1>1. ASSUME pc'[t] \notin Late PROVE Checked(pc[t], job[t])'
  BY <1>1 DEF Checked
<1>2. CASE Examine(t) \/ StartCollect(t) \/ Collect(t) \/ StartDelete(t)
  BY <1>1, <1>2, Assigned DEF Examine, StartCollect, Collect, StartDelete
<1>3. CASE NextRoot(t) \/ Report(t)
  BY <1>1, <1>3, Assigned DEF NextRoot, Report
<1>4. CASE Descend(t)
  BY <1>1, <1>4, Assigned DEF Descend
<1>5. CASE Drop(t) \/ Reactivate(t)
  BY <1>1, <1>5, Assigned DEF Drop, Failed, Reactivate
<1>6. CASE Unmap(t)
  BY <1>1, <1>6, ReturnEnds DEF Unmap
<1> QED
  BY <1>2, <1>3, <1>4, <1>5, <1>6, GuardChecks, SensorChecks, ElementChecks DEF Step

LEMMA NextLast == ASSUME Inv, Rooted, OneCall, LastInv, [Next]_vars PROVE LastInv'
<1>0. SUFFICES ASSUME clean', NEW u \in Threads PROVE Checked(pc[u], job[u])'
  BY DEF LastInv
<1>1. CASE UNCHANGED vars
  <2>1. Checked(pc[u], job[u])
    BY <1>0, <1>1 DEF LastInv, vars
  <2>2. \A d : FeedsIn(d)' = FeedsIn(d)
    BY <1>1 DEF vars, FeedsIn, SubTree, Above
  <2> QED
    BY <1>1, <2>1, <2>2 DEF vars, Checked, LastFeed, IsLastDataCenter, Location
<1>2. ASSUME pc'[u] \in {"idle", "examine", "guard"} PROVE Checked(pc[u], job[u])'
  BY <1>2 DEF Checked
<1>3. CASE Change
  BY <1>0, <1>2, <1>3 DEF Change, Busy
<1>4. ASSUME NEW t \in Threads, Request(t) PROVE Checked(pc[u], job[u])'
  <2>1. ~Busy /\ Elsewhere(t)
    BY <1>0, <1>4, RequestFrame DEF Request, DeleteList, DeleteOne, Receive, Frame
  <2>2. pc'[t] \in {"examine", "guard"}
    BY <1>4, Assigned DEF Request, DeleteList, DeleteOne
  <2> QED
    BY <1>2, <2>1, <2>2 DEF Busy, Elsewhere
<1>5. ASSUME NEW t \in Threads, Step(t) PROVE Checked(pc[u], job[u])'
  <2>1. clean /\ pc[t] # "idle" /\ Elsewhere(t)
    BY <1>0, <1>5, StepClean, StepBusy, StepElsewhere
  <2>2. CASE u = t
    BY <1>5, <2>1, <2>2, StepChecks DEF LastInv
  <2>3. CASE u # t
    BY <1>2, <2>1, <2>3 DEF OneCall, Alone, Elsewhere
  <2> QED
    BY <2>2, <2>3
<1> QED
  BY <1>1, <1>3, <1>4, <1>5 DEF Next

(* A row that a call erases was not the last of its kind.                  *)
Kept ==
  /\ (\E d \in rows : Kind[d] = "datacenter") => \E d \in rows' : Kind[d] = "datacenter"
  /\ \A d \in FastTrack : FeedsIn(d) # {} => FeedsIn(d)' # {}

LEMMA EraseKeeps ==
  ASSUME Inv, Rooted, NEW a \in Assets, Free(a), Erase(a), ~LastFeed(a),
         Kind[a] = "datacenter" => ~IsLastDataCenter(a)
  PROVE  Kept
<1>1. rows' = rows \ {a}
  BY DEF Erase
<1>2. (\E d \in rows : Kind[d] = "datacenter") => \E d \in rows' : Kind[d] = "datacenter"
  BY <1>1 DEF IsLastDataCenter
<1>3. ASSUME NEW d \in FastTrack, FeedsIn(d) # {} PROVE FeedsIn(d)' # {}
  <2>1. FeedsIn(d)' = FeedsIn(d) \ {a}
    BY ErasedFeeds
  <2>2. FeedsIn(d) # {a}
    BY DEF LastFeed
  <2> QED
    BY <1>3, <2>1, <2>2
<1> QED
  BY <1>2, <1>3 DEF Kept

LEMMA StepKeeps ==
  ASSUME Inv, Rooted, LastInv, clean, NEW t \in Threads, Step(t)
  PROVE  Kept
<1>1. Checked(pc[t], job[t]) /\ job[t] \in Jobs
  BY JobFacts DEF LastInv
<1>2. ASSUME UNCHANGED tables PROVE Kept
  <2>1. rows' = rows /\ \A d : FeedsIn(d)' = FeedsIn(d)
    BY <1>2 DEF tables, db, FeedsIn, SubTree, Above
  <2> QED
    BY <2>1 DEF Kept
<1>3. CASE Drop(t)
  <2>1. Current(t) \in Assets /\ ~LastFeed(Current(t))
    BY <1>1, <1>3, CurrentType DEF Drop, Inner, Checked, Current
  <2>2. Kind[Current(t)] = "datacenter" => ~IsLastDataCenter(Current(t))
    BY <1>1, <1>3 DEF Drop, Checked, Current, Location
  <2> QED
    BY <1>2, <1>3, <2>1, <2>2, EraseKeeps DEF Drop
<1>4. CASE DeleteSensor(t)
  <2>1. job[t].sensors \subseteq Sensors
    BY <1>1, <1>4 DEF DeleteSensor, Checked
  <2>2. UNCHANGED tables \/ \E s \in Sensors : Free(s) /\ Erase(s)
    BY <1>4, <2>1 DEF DeleteSensor
  <2>3. ASSUME NEW s \in Sensors PROVE s \in Assets /\ ~LastFeed(s) /\ Kind[s] # "datacenter"
    BY DeleteAssumption DEF LastFeed, FeedsIn, Device
  <2> QED
    BY <1>2, <2>2, <2>3, EraseKeeps
<1>5. CASE Reading(t)
  <2>1. UNCHANGED tables
    BY <1>5 DEF Reading, Examine, StartCollect, Collect, StartDelete, NextRoot, Descend, Guard,
       Refer, Deactivate, Count, Reactivate, Unmap, Report
  <2> QED
    BY <1>2, <2>1
<1> QED
  BY <1>3, <1>4, <1>5 DEF Step, Reading

(* Calls one after the other never take the last datacenter, nor the last  *)
(* feed of a datacenter that is device centric, whichever assets they are  *)
(* given and however these hang together.                                  *)
THEOREM DeletionsSpareLastOnes == Spec => LastOnesStay
<1> DEFINE A == (clean' /\ events' = events) => Kept
<1>1. ASSUME Inv, Rooted, LastInv, [Next]_vars PROVE [A]_vars
  <2>1. ASSUME clean', events' = events, Next PROVE Kept
    <3>1. ~Change /\ ~ \E t \in Threads : Request(t)
      <4>1. events \in Nat /\ events' # events + 1
        BY <1>1, <2>1 DEF Inv, TypeOK
      <4>2. Change => events' = events + 1
        BY DEF Change
      <4>3. \A t \in Threads : Request(t) => events' = events + 1
        BY DEF Request, DeleteList, DeleteOne, Receive
      <4> QED
        BY <4>1, <4>2, <4>3
    <3>2. PICK t \in Threads : Step(t)
      BY <2>1, <3>1 DEF Next
    <3> QED
      BY <1>1, <2>1, <3>2, StepClean, StepKeeps
  <2> QED
    BY <1>1, <2>1
<1>2. Inv /\ Rooted /\ OneCall /\ LastInv /\ [Next]_vars => LastInv'
  BY NextLast
<1>3. [][A]_vars => LastOnesStay
  BY PTL DEF LastOnesStay, Kept
<1> QED
  BY <1>1, <1>2, <1>3, InitLast, SpecInv, SpecRooted, SpecOneCall, PTL DEF Spec

-----------------------------------------------------------------------------
(* Why a refusal still has a reason when the call returns.  Both ends of a *)
(* link have a row.                                                        *)
Linked == \A l \in links : l[1] \in rows /\ l[2] \in rows

(* What the steps of a call do to the tables.                              *)
Shrinks(c) == c \in Assets /\ Free(c) /\ Erase(c)

LEMMA StepTables ==
  ASSUME Inv, NEW t \in Threads, Step(t)
  PROVE  UNCHANGED tables \/ \E c \in Assets : Shrinks(c)
<1>1. CASE DeleteSensor(t)
  <2>1. job[t].sensors \subseteq Assets
    BY JobFacts DEF Jobs
  <2> QED
    BY <1>1, <2>1 DEF DeleteSensor, Shrinks
<1>2. CASE Drop(t)
  <2>1. Current(t) \in Assets
    BY <1>2, CurrentType DEF Drop, Inner
  <2> QED
    BY <1>2, <2>1 DEF Drop, Shrinks
<1>3. CASE Reading(t)
  BY <1>3 DEF Reading, Examine, StartCollect, Collect, StartDelete, NextRoot, Descend, Guard,
     Refer, Deactivate, Count, Reactivate, Unmap, Report
<1> QED
  BY <1>1, <1>2, <1>3 DEF Step, Reading

LEMMA InitLinked == Init => Linked
  BY DEF Init, Consistent, Linked

LEMMA ErasedLinks ==
  ASSUME Inv, Linked, NEW c, Shrinks(c)
  PROVE  /\ links' \subseteq links
         /\ \A l \in links : l[2] # c => l \in links'
         /\ \A l \in links : l[1] # c
         /\ Linked'
<1>1. rows' = rows \ {c} /\ links' = links \ LinksTo(c)
  BY DEF Shrinks, Erase
<1>2. \A l \in links : l[1] # c
  BY DEF Shrinks, Free, HasLinkedAssets, Linked
<1>3. links' \subseteq links /\ \A l \in links : l[2] # c => l \in links'
  BY <1>1 DEF LinksTo
<1>4. \A l \in links' : l[2] # c
  BY <1>1 DEF LinksTo
<1>5. Linked'
  BY <1>1, <1>2, <1>3, <1>4 DEF Linked
<1> QED
  BY <1>2, <1>3, <1>5

LEMMA NextLinked == ASSUME Inv, Linked, [Next]_vars PROVE Linked'
<1>1. ASSUME UNCHANGED <<rows, links>> PROVE Linked'
  BY <1>1 DEF Linked
<1>2. CASE UNCHANGED vars
  BY <1>1, <1>2 DEF vars
<1>3. CASE Change
  <2>1. ASSUME NEW l, Wire(l) PROVE Linked'
    BY <2>1 DEF Wire, Linked
  <2> QED
    BY <1>1, <1>3, <2>1 DEF Change, Update, Name, db
<1>4. ASSUME NEW t \in Threads, Request(t) PROVE Linked'
  BY <1>1, <1>4 DEF Request, DeleteList, DeleteOne, Receive, tables, db
<1>5. ASSUME NEW t \in Threads, Step(t) PROVE Linked'
  BY <1>1, <1>5, StepTables, ErasedLinks DEF tables, db
<1> QED
  BY <1>2, <1>3, <1>4, <1>5 DEF Next

LEMMA SpecLinked == Spec => []Linked
  BY InitLinked, NextLinked, SpecInv, PTL DEF Spec

-----------------------------------------------------------------------------
(* A set of assets that the call cannot erase: each is not in the map, or  *)
(* is spared for itself, or holds another one, as its parent or source.    *)
Permanent(k) == k = RC0 \/ LastFeed(k) \/ (Location(k) /\ IsLastDataCenter(k))
Holds(k, x) == parent[x] = k \/ <<k, x>> \in links
Stuck(K, ids) ==
  /\ K \subseteq rows
  /\ \A k \in K : k \notin ids \/ Permanent(k) \/ \E x \in K : Holds(k, x)

LEMMA HolderStays == ASSUME NEW k, NEW x \in rows, Holds(k, x), Free(k) PROVE k \notin rows
<1>1. ASSUME parent[x] = k PROVE Children(k) # {}
  BY <1>1 DEF Children
<1>2. ASSUME <<k, x>> \in links PROVE HasLinkedAssets(k)
  BY <1>2 DEF HasLinkedAssets
<1> QED
  BY <1>1, <1>2 DEF Holds, Free

LEMMA SameTables ==
  ASSUME UNCHANGED tables
  PROVE  /\ \A d : SubTree(d)' = SubTree(d)
         /\ \A k : Permanent(k)' <=> Permanent(k)
         /\ \A k, x : Holds(k, x)' <=> Holds(k, x)
         /\ \A K, ids : Stuck(K, ids)' <=> Stuck(K, ids)
         /\ \A a : Explained(a)' <=> Explained(a)
         /\ rows' = rows /\ links' = links /\ refers' = refers
<1>1. rows' = rows /\ parent' = parent /\ links' = links /\ refers' = refers
  BY DEF tables, db
<1>2. \A d : SubTree(d)' = SubTree(d)
  BY <1>1 DEF SubTree, Above
<1>3. \A d : FeedsIn(d)' = FeedsIn(d)
  BY <1>2 DEF FeedsIn
<1>4. \A k : LastFeed(k)' <=> LastFeed(k)
  BY <1>3 DEF LastFeed
<1>5. \A k : IsLastDataCenter(k)' <=> IsLastDataCenter(k)
  BY <1>1 DEF IsLastDataCenter
<1>6. \A k : Permanent(k)' <=> Permanent(k)
  BY <1>4, <1>5 DEF Permanent, Location
<1>7. \A k, x : Holds(k, x)' <=> Holds(k, x)
  BY <1>1 DEF Holds
<1>8. \A K, ids : Stuck(K, ids)' <=> Stuck(K, ids)
  BY <1>1, <1>6, <1>7 DEF Stuck
<1>9. \A a : Explained(a)' <=> Explained(a)
  BY <1>1, <1>4, <1>5 DEF Explained, Location, Children, HasLinkedAssets
<1> QED
  BY <1>1, <1>2, <1>6, <1>7, <1>8, <1>9

(* It stays so while others are erased, and none that it holds is.         *)
LEMMA NotStuck ==
  ASSUME Linked, NEW K, NEW ids, Stuck(K, ids), NEW c \in ids, ~Permanent(c), Free(c)
  PROVE  c \notin K
  BY HolderStays DEF Stuck

LEMMA StuckStays ==
  ASSUME Inv, Rooted, Linked, NEW K, NEW ids, Stuck(K, ids), NEW c, Shrinks(c), c \notin K
  PROVE  Stuck(K, ids)'
<1>1. c \in Assets /\ Free(c) /\ Erase(c) /\ K \subseteq rows
  BY DEF Shrinks, Stuck
<1>2. /\ rows' = rows \ {c} /\ \A b \in rows' : parent'[b] = parent[b]
      /\ \A l \in links : l[2] # c => l \in links'
      /\ \A d : FeedsIn(d)' = FeedsIn(d) \ {c}
  BY <1>1, ErasedLeaf, ErasedLinks, ErasedFeeds
<1>3. c \notin K
  OBVIOUS
<1>4. K \subseteq rows'
  BY <1>1, <1>2, <1>3
<1>5. ASSUME NEW k \in K, Permanent(k) PROVE Permanent(k)'
  <2>1. ASSUME LastFeed(k) PROVE LastFeed(k)'
    BY <1>2, <1>3, <2>1 DEF LastFeed
  <2>2. ASSUME IsLastDataCenter(k) PROVE IsLastDataCenter(k)'
    BY <1>2, <2>2 DEF IsLastDataCenter
  <2> QED
    BY <1>5, <2>1, <2>2 DEF Permanent, Location
<1>6. ASSUME NEW k \in K, NEW x \in K, Holds(k, x) PROVE Holds(k, x)'
  <2>1. parent[x] = k => parent'[x] = k
    BY <1>2, <1>4
  <2>2. <<k, x>> \in links => <<k, x>> \in links'
    BY <1>2, <1>3
  <2> QED
    BY <1>6, <2>1, <2>2 DEF Holds
<1> QED
  BY <1>4, <1>5, <1>6 DEF Stuck

(* Who joins it.                                                           *)
LEMMA StuckJoins ==
  ASSUME NEW K, NEW ids, Stuck(K, ids), NEW S \in SUBSET rows,
         \A k \in S : k \notin ids \/ Permanent(k) \/ \E x \in K \cup S : Holds(k, x)
  PROVE  Stuck(K \cup S, ids)
  BY DEF Stuck

(* Everything above an asset that is not in the map.                       *)
LEMMA AboveClosed ==
  ASSUME Inv, Rooted, NEW x \in rows, parent[x] # None
  PROVE  /\ Above(x) \subseteq rows /\ parent[x] \in Above(x)
         /\ \A z \in Above(x) : parent[z] = None \/ parent[z] \in Above(x)
<1>1. parent[x] \in rows
  BY DEF Rooted
<1>2. parent[x] \in Above(x)
  BY <1>1 DEF Above
<1>3. ASSUME NEW z \in Above(x), parent[z] # None PROVE parent[z] \in Above(x)
  <2>1. z \in rows /\ parent[z] \in rows
    BY <1>3 DEF Above, Rooted
  <2>2. ASSUME NEW S \in SUBSET rows, parent[x] \in S,
               \A y \in S : parent[y] = None \/ parent[y] \in S
        PROVE  parent[z] \in S
    <3>1. z \in S
      BY <2>2 DEF Above
    <3> QED
      BY <1>3, <2>2, <3>1
  <2> QED
    BY <2>1, <2>2 DEF Above
<1> QED
  BY <1>2, <1>3 DEF Above

LEMMA AboveHolds ==
  ASSUME Inv, Rooted, NEW x \in rows, NEW y, x \in SubTree(y)
  PROVE  \E z \in {x} \cup Above(x) : parent[z] = y
<1>0. parent[x] # None /\ y \in Above(x)
  BY DEF SubTree
<1> DEFINE S == Above(x) \ {y}
<1>1. SUFFICES ASSUME \A z \in {x} \cup Above(x) : parent[z] # y PROVE FALSE
  OBVIOUS
<1>2. S \in SUBSET rows /\ parent[x] \in S
  BY <1>0, <1>1, AboveClosed
<1>3. \A z \in S : parent[z] = None \/ parent[z] \in S
  BY <1>0, <1>1, AboveClosed
<1>4. y \notin S
  OBVIOUS
<1> HIDE DEF S
<1>5. y \in S
  BY <1>0, <1>2, <1>3 DEF Above
<1> QED
  BY <1>4, <1>5

LEMMA StuckAbove ==
  ASSUME Inv, Rooted, NEW K, NEW ids, Stuck(K, ids), NEW a, NEW x \in SubTree(a), x \notin ids
  PROVE  Stuck(K \cup ({x} \cup Above(x)), ids) /\ a \in Above(x)
<1>1. x \in rows /\ parent[x] # None /\ a \in Above(x) /\ Above(x) \subseteq rows
  BY DEF SubTree, Above
<1>2. ASSUME NEW y \in Above(x) PROVE \E z \in {x} \cup Above(x) : Holds(y, z)
  <2>1. x \in SubTree(y)
    BY <1>1 DEF SubTree
  <2> QED
    BY <1>1, <2>1, AboveHolds DEF Holds
<1>3. {x} \cup Above(x) \in SUBSET rows
  BY <1>1
<1>4. \A k \in {x} \cup Above(x) :
        k \notin ids \/ Permanent(k) \/ \E z \in K \cup ({x} \cup Above(x)) : Holds(k, z)
  BY <1>2
<1> QED
  BY <1>1, <1>3, <1>4, StuckJoins

LEMMA ChildBelow == ASSUME NEW a \in rows, NEW x \in Children(a), a # None PROVE x \in SubTree(a)
  BY DEF Children, SubTree, Above

-----------------------------------------------------------------------------
(* What a call that runs alone, and that no sensor disturbs, knows of the  *)
(* tables.  Its list holds assets below which, and behind whose links, is  *)
(* nothing that is not in the map; of the map, the list leaves out what is *)
(* refused; what the list remembers of parents and links is true of the    *)
(* rows, and complete; what was refused and is there cannot be erased, and *)
(* neither can an element on which an error is on its way up.              *)
Refused(j) == {a \in Assets : j.result[a] = "refused"}
OnElement == Inner \ {"descend", "endless"}

Contained(j) ==
  \A e \in Elements(j.toDel) :
    e \in j.ids /\ SubTree(e) \subseteq j.ids /\ \A x \in Assets : <<e, x>> \in links => x \in j.ids
Accounted(j, S) == \A a \in (j.ids \cap rows) \ S : a \in Elements(j.toDel) \/ a \in Refused(j)
Truthful(j) ==
  \A e \in Assets : \A x \in j.kids[e] \cup j.fed[e] :
     x \in Elements(j.toDel) /\ (x \in rows => Holds(e, x))
Complete(j, S) ==
  \A e \in Elements(j.toDel) \ S : \A x \in Elements(j.toDel) \cap rows :
     Holds(e, x) => x \in j.kids[e] \cup j.fed[e]
Barred(j) ==
  \E K \in SUBSET rows : /\ Stuck(K, j.ids) /\ Refused(j) \cap rows \subseteq K
                         /\ ~j.ok => Head(j.stack) \in K
Present(l, j) ==
  \A e \in Elements(j.toDel) :
     e \in rows \/ e \in j.deleted \/ (l = "unmap" /\ j.ok /\ e = Head(j.stack))

(* The recursion goes down what an element holds, and comes to an element  *)
(* when all that it holds is deleted.                                      *)
Below(j) == \A n \in 1 .. Len(j.stack) - 1 :
              j.stack[n] \in j.kids[j.stack[n + 1]] \cup j.fed[j.stack[n + 1]]
Stacked(l, j) ==
  /\ Elements(j.stack) \subseteq Elements(j.toDel) /\ Below(j)
  /\ l # "endless" => /\ Elements(j.stack) \cap j.deleted = {}
                      /\ \A m, n \in DOMAIN j.stack : j.stack[m] = j.stack[n] => m = n
  /\ l \in OnElement =>
       j.kids[Head(j.stack)] \cup j.fed[Head(j.stack)] \subseteq j.deleted
  /\ l = "refer" => j.sensors \cap rows \subseteq Refused(j)

Listed(l, j) ==
  /\ Refused(j) \subseteq j.ids /\ Contained(j) /\ Truthful(j) /\ Barred(j) /\ Present(l, j)
  /\ Accounted(j, IF l = "examine" THEN Elements(j.todo) ELSE {})
  /\ Elements(j.todo) \subseteq (IF l = "examine" THEN j.ids ELSE Elements(j.toDel))
  /\ l # "examine" => Complete(j, IF l = "collect" THEN Elements(j.todo) ELSE {})
  /\ l \in Inner => Stacked(l, j)

(* A call for one asset has no list.                                       *)
Single(l, j) ==
  \/ /\ l \in OnElement /\ Refused(j) = {}
     /\ \E a \in Assets : j.stack = <<a>> /\ j.todo = <<a>> /\ (~j.ok => Explained(a))
  \/ l = "next" /\ j.todo = <<>> /\ \A a \in Refused(j) : Explained(a)

Reasoned(l, j) ==
  /\ refers = {}
  /\ ~j.ok => l \in {"reactivate", "unmap"}
  /\ l = "count" => Location(Head(j.stack))
  /\ l \in {"refer", "deactivate", "count", "drop"} => Head(j.stack) # RC0
  /\ Single(l, j) \/ Listed(l, j)

ReasonInv ==
  clean => \A t \in Threads, l \in PCs, j \in Jobs :
             (pc[t] = l /\ job[t] = j /\ l # "idle" /\ NoSensors(j)) => Reasoned(l, j)

LEMMA SplitElements ==
  ASSUME NEW s \in Seq(Assets), s # <<>>
  PROVE  Elements(s) = {Head(s)} \cup Elements(Tail(s))
<1>1. Head(s) \in Elements(s) /\ Elements(Tail(s)) \subseteq Elements(s)
  BY HeadElement, TailElements
<1>2. ASSUME NEW n \in DOMAIN s PROVE s[n] = Head(s) \/ s[n] \in Elements(Tail(s))
  <2>1. n \in 1 .. Len(s) /\ Len(s) \in Nat /\ Head(s) = s[1]
    OBVIOUS
  <2>2. CASE n = 1
    BY <2>1, <2>2
  <2>3. CASE n # 1
    <3>1. n - 1 \in 1 .. Len(s) - 1
      BY <2>1, <2>3
    <3>2. n - 1 \in DOMAIN Tail(s) /\ Tail(s)[n - 1] = s[n]
      BY <2>1, <3>1
    <3> QED
      BY <3>2 DEF Elements
  <2> QED
    BY <2>2, <2>3
<1> QED
  BY <1>1, <1>2 DEF Elements

(* The same plan, made by another step.                                    *)
LEMMA SamePlan ==
  ASSUME NEW j, NEW k, k.ids = j.ids, Elements(k.toDel) = Elements(j.toDel),
         k.kids = j.kids, k.fed = j.fed
  PROVE  /\ Contained(k) <=> Contained(j)
         /\ Truthful(k) <=> Truthful(j)
         /\ \A S : Complete(k, S) <=> Complete(j, S)
  BY DEF Contained, Truthful, Complete

LEMMA ListedMoves ==
  ASSUME NEW l, NEW j, NEW m, NEW k, Listed(l, j),
         l \notin {"examine", "collect"}, m \notin {"examine", "collect"},
         k.ids = j.ids, k.toDel = j.toDel, k.kids = j.kids, k.fed = j.fed,
         Elements(k.todo) \subseteq Elements(j.todo),
         Refused(j) \subseteq Refused(k), Refused(k) \subseteq k.ids,
         Barred(k), Present(m, k), m \in Inner => Stacked(m, k)
  PROVE  Listed(m, k)
<1>1. Contained(k) /\ Truthful(k) /\ Complete(k, {})
  BY SamePlan DEF Listed
<1>2. Accounted(k, {})
  BY DEF Listed, Accounted
<1> QED
  BY <1>1, <1>2 DEF Listed

LEMMA EmplaceRefused ==
  ASSUME NEW j \in Jobs, j.todo # <<>>, NEW r \in {"deleted", "refused"}
  PROVE  LET k == Emplace(j, r)
         IN /\ k \in Jobs /\ k.ids = j.ids /\ k.toDel = j.toDel /\ k.kids = j.kids /\ k.fed = j.fed
            /\ k.deleted = j.deleted /\ k.ok = j.ok /\ k.stack = <<>> /\ k.todo = Tail(j.todo)
            /\ Elements(k.todo) \subseteq Elements(j.todo)
            /\ Refused(j) \subseteq Refused(k)
            /\ r = "deleted" => Refused(k) = Refused(j)
            /\ Refused(k) \subseteq Refused(j) \cup {Head(j.todo)}
<1> DEFINE k == Emplace(j, r)
           q == [j.result EXCEPT ![Head(j.todo)] = IF @ = "none" THEN r ELSE @]
<1>0. k \in Jobs
  BY EmplaceType
<1>1. k = [j EXCEPT !.todo = Tail(j.todo), !.stack = <<>>, !.result = q]
  BY DEF Emplace, Jobs
<1>2. Head(j.todo) \in Assets /\ j.todo \in Seq(Assets)
  BY DEF Jobs
<1>3. /\ \A a \in Assets : j.result[a] = "refused" => q[a] = "refused"
      /\ \A a \in Assets : q[a] = "refused" => a = Head(j.todo) \/ j.result[a] = "refused"
      /\ r = "deleted" => \A a \in Assets : q[a] = "refused" => j.result[a] = "refused"
  BY <1>2 DEF Jobs
<1> HIDE DEF q
<1>4. /\ k.ids = j.ids /\ k.toDel = j.toDel /\ k.kids = j.kids /\ k.fed = j.fed
      /\ k.deleted = j.deleted /\ k.ok = j.ok /\ k.stack = <<>> /\ k.todo = Tail(j.todo)
      /\ k.result = q
  BY <1>1 DEF Jobs
<1>5. Elements(k.todo) \subseteq Elements(j.todo)
  BY <1>2, <1>4, TailElements
<1> HIDE DEF k
<1>6. /\ Refused(j) \subseteq Refused(k)
      /\ r = "deleted" => Refused(k) = Refused(j)
      /\ Refused(k) \subseteq Refused(j) \cup {Head(j.todo)}
  BY <1>3, <1>4 DEF Refused
<1>7. QED
  BY <1>0, <1>4, <1>5, <1>6 DEF k

(* An error goes up to the root: each element that it passes holds one     *)
(* that stays.                                                             *)
LEMMA ErrorGoesUp ==
  ASSUME NEW l, NEW j \in Jobs, Listed(l, j), l \in Inner, j.todo # <<>>, j.stack # <<>>,
         Root(j), j.ok, Elements(j.stack) \subseteq rows,
         \A e \in Elements(j.toDel) : e \in rows \/ e \in j.deleted,
         NEW K, Stuck(K, j.ids), Refused(j) \cap rows \subseteq K, Head(j.stack) \in K
  PROVE  Listed("next", Emplace(j, "refused"))
<1> DEFINE k == Emplace(j, "refused")
           S == Elements(j.stack)
<1>1. /\ k.ids = j.ids /\ k.toDel = j.toDel /\ k.kids = j.kids /\ k.fed = j.fed
      /\ k.deleted = j.deleted /\ k.ok = j.ok
      /\ Elements(k.todo) \subseteq Elements(j.todo)
      /\ Refused(j) \subseteq Refused(k)
      /\ Refused(k) \subseteq Refused(j) \cup {Head(j.todo)}
  BY EmplaceRefused
<1> HIDE DEF k
<1>2. j.stack \in Seq(Assets) /\ Len(j.stack) \in Nat \ {0} /\ Head(j.stack) = j.stack[1]
  BY DEF Jobs
<1>3. Head(j.todo) \in S
  BY <1>2 DEF Root, Elements
<1>4. ASSUME NEW a \in S PROVE a \in K \/ \E x \in S : Holds(a, x)
  <2>1. PICK n \in 1 .. Len(j.stack) : a = j.stack[n]
    BY <1>2 DEF Elements
  <2>2. CASE n = 1
    BY <1>2, <2>1, <2>2
  <2>3. CASE n # 1
    <3>1. n - 1 \in 1 .. Len(j.stack) - 1 /\ (n - 1) + 1 = n /\ n - 1 \in DOMAIN j.stack
      BY <1>2, <2>3
    <3>2. j.stack[n - 1] \in j.kids[a] \cup j.fed[a]
      BY <2>1, <3>1 DEF Listed, Stacked, Below
    <3>3. j.stack[n - 1] \in S /\ a \in Assets
      BY <1>2, <2>1, <3>1 DEF Elements
    <3>4. Holds(a, j.stack[n - 1])
      BY <3>2, <3>3 DEF Listed, Truthful
    <3> QED
      BY <3>3, <3>4
  <2> QED
    BY <2>2, <2>3
<1>5. Stuck(K \cup S, j.ids)
  BY <1>4 DEF Stuck
<1>6. K \cup S \in SUBSET rows /\ Refused(k) \cap rows \subseteq K \cup S
  BY <1>1, <1>3 DEF Stuck
<1>7. Barred(k)
  BY <1>1, <1>5, <1>6 DEF Barred
<1>8. Refused(k) \subseteq k.ids
  <2>1. S \subseteq j.ids
    BY DEF Listed, Stacked, Contained
  <2> QED
    BY <1>1, <1>3, <2>1 DEF Listed
<1>9. Present("next", k)
  BY <1>1 DEF Present
<1>10. Listed("next", k)
  BY <1>1, <1>7, <1>8, <1>9, ListedMoves DEF Inner
<1> QED
  BY <1>10 DEF k

(* An element is done, and is not the root.                                *)
LEMMA ElementDone ==
  ASSUME NEW j \in Jobs, Listed("unmap", j), j.ok, j.stack # <<>>, Len(j.stack) > 1
  PROVE  Listed("descend", Deleted(j, Head(j.stack)))
<1> DEFINE a == Head(j.stack)
           k == Deleted(j, a)
<1>1. /\ k.ids = j.ids /\ k.toDel = j.toDel /\ k.kids = j.kids /\ k.fed = j.fed /\ k.ok = j.ok
      /\ k.todo = j.todo /\ k.result = j.result /\ k.stack = Tail(j.stack)
      /\ k.deleted = j.deleted \cup {a}
  BY DEF Deleted, Jobs
<1>2. j.stack \in Seq(Assets) /\ Len(j.stack) \in Nat /\ Len(j.stack) > 1 /\ a = j.stack[1]
  <2>1. j.stack \in Seq(Assets)
    BY DEF Jobs
  <2>2. Len(j.stack) \in Nat
    BY <2>1
  <2>3. a = j.stack[1]
    BY <2>1
  <2> QED
    BY <2>1, <2>2, <2>3
<1>3. /\ \A n \in DOMAIN Tail(j.stack) : n + 1 \in DOMAIN j.stack /\ Tail(j.stack)[n] = j.stack[n + 1]
      /\ Len(Tail(j.stack)) = Len(j.stack) - 1 /\ DOMAIN Tail(j.stack) = 1 .. Len(j.stack) - 1
  BY <1>2
<1>4. Elements(Tail(j.stack)) \subseteq Elements(j.stack)
  BY <1>2, TailElements
<1>5. "unmap" \in Inner /\ "descend" \in Inner /\ "descend" \notin OnElement
  BY DEF Inner, OnElement
<1>6. Stacked("unmap", j)
  BY <1>5 DEF Listed
<1> HIDE DEF k, a
<1>7. Below(k)
  <2>1. SUFFICES ASSUME NEW n \in 1 .. Len(k.stack) - 1
                 PROVE  k.stack[n] \in k.kids[k.stack[n + 1]] \cup k.fed[k.stack[n + 1]]
    BY DEF Below
  <2>2. /\ n \in DOMAIN Tail(j.stack) /\ n + 1 \in DOMAIN Tail(j.stack)
        /\ n + 1 \in 1 .. Len(j.stack) - 1
    BY <1>1, <1>2, <1>3, <2>1
  <2>3. k.stack[n] = j.stack[n + 1] /\ k.stack[n + 1] = j.stack[(n + 1) + 1]
    BY <1>1, <1>3, <2>2
  <2> QED
    BY <1>1, <1>6, <2>2, <2>3 DEF Stacked, Below
<1>8. \A m, n \in DOMAIN k.stack : k.stack[m] = k.stack[n] => m = n
  <2>1. SUFFICES ASSUME NEW m \in DOMAIN k.stack, NEW n \in DOMAIN k.stack, k.stack[m] = k.stack[n]
                 PROVE  m = n
    OBVIOUS
  <2>2. m + 1 \in DOMAIN j.stack /\ n + 1 \in DOMAIN j.stack /\ j.stack[m + 1] = j.stack[n + 1]
    BY <1>1, <1>3, <2>1
  <2>3. m + 1 = n + 1
    BY <1>6, <2>2 DEF Stacked
  <2>4. m \in Nat /\ n \in Nat
    BY <1>1, <1>2, <1>3
  <2> QED
    BY <2>3, <2>4
<1>9. Elements(k.stack) \cap k.deleted = {}
  <2>1. Elements(k.stack) \cap j.deleted = {}
    BY <1>1, <1>4, <1>6 DEF Stacked
  <2>2. ASSUME a \in Elements(k.stack) PROVE FALSE
    <3>1. PICK n \in DOMAIN Tail(j.stack) : a = Tail(j.stack)[n]
      BY <1>1, <2>2 DEF Elements
    <3>2. n + 1 \in DOMAIN j.stack /\ j.stack[n + 1] = j.stack[1] /\ 1 \in DOMAIN j.stack
      BY <1>2, <1>3, <3>1
    <3>3. n + 1 = 1 /\ n \in 1 .. Len(j.stack) - 1
      BY <1>3, <1>6, <3>2 DEF Stacked
    <3> QED
      BY <1>2, <3>3
  <2> QED
    BY <1>1, <2>1, <2>2
<1>10. Stacked("descend", k)
  BY <1>1, <1>4, <1>5, <1>6, <1>7, <1>8, <1>9 DEF Stacked
<1>11. Present("descend", k)
  BY <1>1 DEF Listed, Present, a
<1>12. Refused(k) = Refused(j)
  BY <1>1 DEF Refused
<1>13. Barred(k)
  BY <1>1, <1>12 DEF Listed, Barred
<1>14. Listed("descend", k)
  BY <1>1, <1>10, <1>11, <1>12, <1>13, ListedMoves DEF Listed
<1> QED
  BY <1>14 DEF k, a

(* A root is done.                                                         *)
LEMMA RootDone ==
  ASSUME NEW j \in Jobs, Listed("unmap", j), j.ok, j.stack # <<>>, j.todo # <<>>
  PROVE  Listed("next", Emplace(Deleted(j, Head(j.stack)), "deleted"))
<1> DEFINE a == Head(j.stack)
           i == Deleted(j, a)
           k == Emplace(i, "deleted")
<1>1. /\ i.ids = j.ids /\ i.toDel = j.toDel /\ i.kids = j.kids /\ i.fed = j.fed /\ i.ok = j.ok
      /\ i.todo = j.todo /\ i.result = j.result
      /\ i.deleted = j.deleted \cup {a}
  BY DEF Deleted, Jobs
<1>2. i \in Jobs
  <2>1. a \in Assets
    BY DEF Jobs
  <2> QED
    BY <2>1, DeletedType
<1> HIDE DEF i, a
<1>3. /\ k.ids = i.ids /\ k.toDel = i.toDel /\ k.kids = i.kids /\ k.fed = i.fed
      /\ k.deleted = i.deleted /\ k.ok = i.ok
      /\ Elements(k.todo) \subseteq Elements(i.todo) /\ Refused(k) = Refused(i)
  BY <1>1, <1>2, EmplaceRefused
<1> HIDE DEF k
<1>4. Refused(k) = Refused(j)
  BY <1>1, <1>3 DEF Refused
<1>5. Present("next", k)
  BY <1>1, <1>3 DEF Listed, Present, a
<1>6. Barred(k)
  BY <1>1, <1>3, <1>4 DEF Listed, Barred
<1>7. "next" \notin Inner /\ Refused(j) \subseteq j.ids
  BY DEF Inner, Listed
<1>8. Listed("next", k)
  BY <1>1, <1>3, <1>4, <1>5, <1>6, <1>7, ListedMoves
<1> QED
  BY <1>8 DEF k, i, a

(* The tables lose an asset that nothing needs.                            *)
LEMMA ListedShrinks ==
  ASSUME Inv, Rooted, Linked, NEW l, NEW j, Listed(l, j), NEW c, Shrinks(c),
         (~Permanent(c) /\ c \in j.ids) \/ c \notin rows,
         c \in rows => l = "unmap" /\ c = Head(j.stack), j.ok
  PROVE  Listed(l, j)'
<1>1. c \in Assets /\ Free(c) /\ Erase(c)
  BY DEF Shrinks
<1>2. /\ rows' = rows \ {c} /\ \A b \in rows' : parent'[b] = parent[b]
      /\ links' \subseteq links
      /\ \A n \in links : n[2] # c => n \in links'
      /\ \A d : SubTree(d)' = SubTree(d) \ {c}
  BY <1>1, ErasedLeaf, ErasedLinks, ErasedSubTree
<1>3. \A e, x : x \in rows' => (Holds(e, x)' <=> Holds(e, x))
  BY <1>2 DEF Holds
<1>4. Contained(j)'
  BY <1>2 DEF Listed, Contained
<1>5. Truthful(j)'
  BY <1>2, <1>3 DEF Listed, Truthful
<1>6. \A S : Complete(j, S) => Complete(j, S)'
  BY <1>2, <1>3 DEF Complete
<1>7. \A S : Accounted(j, S) => Accounted(j, S)'
  BY <1>2 DEF Accounted, Refused
<1>8. Barred(j)'
  <2>1. PICK K \in SUBSET rows : /\ Stuck(K, j.ids) /\ Refused(j) \cap rows \subseteq K
    BY DEF Listed, Barred
  <2>2. c \notin K
    BY <1>1, <2>1, NotStuck
  <2>3. Stuck(K, j.ids)'
    BY <2>1, <2>2, StuckStays
  <2>4. K \in SUBSET (rows')
    BY <1>2, <2>1, <2>2
  <2>5. (Refused(j) \cap rows)' \subseteq K
    BY <1>2, <2>1 DEF Refused
  <2> QED
    BY <2>3, <2>4, <2>5 DEF Barred
<1>9. Present(l, j)'
  BY <1>2 DEF Listed, Present
<1>10. l \in Inner => Stacked(l, j)'
  BY <1>2 DEF Listed, Stacked, Refused, Below
<1> QED
  BY <1>4, <1>5, <1>6, <1>7, <1>8, <1>9, <1>10 DEF Listed, Refused

LEMMA SameListed ==
  ASSUME UNCHANGED tables, NEW l, NEW j, Listed(l, j)
  PROVE  Listed(l, j)'
<1>1. /\ \A d : SubTree(d)' = SubTree(d)
      /\ \A k, x : Holds(k, x)' <=> Holds(k, x)
      /\ \A K, ids : Stuck(K, ids)' <=> Stuck(K, ids)
      /\ rows' = rows /\ links' = links
  BY SameTables
<1>2. /\ Contained(j)' <=> Contained(j)
      /\ Truthful(j)' <=> Truthful(j)
      /\ \A S : Complete(j, S)' <=> Complete(j, S)
      /\ \A S : Accounted(j, S)' <=> Accounted(j, S)
      /\ Barred(j)' <=> Barred(j)
      /\ Present(l, j)' <=> Present(l, j)
      /\ Stacked(l, j)' <=> Stacked(l, j)
      /\ Refused(j)' = Refused(j)
  BY <1>1 DEF Contained, Truthful, Complete, Accounted, Barred, Present, Stacked, Refused, Below
<1> QED
  BY <1>2 DEF Listed

LEMMA SameReasoned ==
  ASSUME UNCHANGED tables, NEW l, NEW j, Reasoned(l, j)
  PROVE  Reasoned(l, j)'
<1>1. /\ \A a : Explained(a)' <=> Explained(a)
      /\ refers' = refers
  BY SameTables
<1>2. Listed(l, j) => Listed(l, j)'
  BY SameListed
<1>3. Single(l, j) => Single(l, j)'
  BY <1>1 DEF Single, Refused
<1> QED
  BY <1>1, <1>2, <1>3 DEF Reasoned, Location

(* The first loop.                                                         *)
LEMMA RefusedListed ==
  ASSUME NEW j \in Jobs, NEW k, Listed("examine", j), j.ok, j.todo # <<>>,
         k.ids = j.ids, Elements(k.toDel) = Elements(j.toDel), k.kids = j.kids, k.fed = j.fed,
         k.deleted = j.deleted, k.ok = j.ok, k.todo = Tail(j.todo),
         k.result = [j.result EXCEPT ![Head(j.todo)] = "refused"],
         Head(j.todo) \notin rows \/ \E K \in SUBSET rows :
            Stuck(K, j.ids) /\ Refused(j) \cap rows \subseteq K /\ Head(j.todo) \in K
  PROVE  Listed("examine", k)
<1> DEFINE a == Head(j.todo)
<1>1. j.todo \in Seq(Assets) /\ a \in Assets /\ Elements(j.todo) = {a} \cup Elements(Tail(j.todo))
  BY SplitElements DEF Jobs
<1>2. Refused(k) = Refused(j) \cup {a}
  <2>1. j.result \in [Assets -> {"none", "deleted", "refused"}]
    BY DEF Jobs
  <2> QED
    BY <1>1, <2>1 DEF Refused
<1>3. Elements(k.todo) \subseteq k.ids /\ Refused(k) \subseteq k.ids
  BY <1>1, <1>2 DEF Listed
<1>4. Contained(k) /\ Truthful(k)
  BY SamePlan DEF Listed
<1>5. Accounted(k, Elements(k.todo))
  BY <1>1, <1>2 DEF Listed, Accounted
<1>6. Present("examine", k)
  BY DEF Listed, Present
<1>7. Barred(k)
  <2>1. CASE a \notin rows
    BY <1>2, <2>1 DEF Listed, Barred
  <2>2. CASE a \in rows
    BY <1>2, <2>2 DEF Barred
  <2> QED
    BY <2>1, <2>2
<1>8. "examine" \notin Inner
  BY DEF Inner
<1> QED
  BY <1>3, <1>4, <1>5, <1>6, <1>7, <1>8 DEF Listed

LEMMA AcceptedListed ==
  ASSUME NEW j \in Jobs, NEW k, Listed("examine", j), j.ok, j.todo # <<>>,
         k.ids = j.ids, Elements(k.toDel) = Elements(j.toDel) \cup {Head(j.todo)},
         k.kids = j.kids, k.fed = j.fed,
         k.deleted = j.deleted, k.ok = j.ok, k.todo = Tail(j.todo), k.result = j.result,
         Head(j.todo) \in rows, SubTree(Head(j.todo)) \subseteq j.ids,
         \A x \in Assets : <<Head(j.todo), x>> \in links => x \in j.ids
  PROVE  Listed("examine", k)
<1> DEFINE a == Head(j.todo)
<1>1. j.todo \in Seq(Assets) /\ a \in Assets /\ Elements(j.todo) = {a} \cup Elements(Tail(j.todo))
  BY SplitElements DEF Jobs
<1>2. Refused(k) = Refused(j)
  BY DEF Refused
<1>3. a \in j.ids /\ Elements(k.todo) \subseteq k.ids /\ Refused(k) \subseteq k.ids
  BY <1>1, <1>2 DEF Listed
<1>4. Contained(k)
  BY <1>3 DEF Listed, Contained
<1>5. Truthful(k)
  BY DEF Listed, Truthful
<1>6. Accounted(k, Elements(k.todo))
  BY <1>1, <1>2 DEF Listed, Accounted
<1>7. Present("examine", k)
  BY DEF Listed, Present
<1>8. Barred(k)
  BY <1>2 DEF Listed, Barred
<1>9. "examine" \notin Inner
  BY DEF Inner
<1> QED
  BY <1>3, <1>4, <1>5, <1>6, <1>7, <1>8, <1>9 DEF Listed

LEMMA ExamineReasoned ==
  ASSUME Inv, Rooted, Linked, NEW t \in Threads, NEW j, NEW m, NEW k, job[t] = j, m = pc'[t],
         k = job'[t], Listed("examine", j), j.ok, NoSensors(k), Examine(t)
  PROVE  m = "examine" /\ Listed(m, k) /\ k.ok
<1> DEFINE a == Head(job[t].todo)
           i == [job[t] EXCEPT !.todo = Tail(@)]
           outside == SubTree(a) \ i.ids
           fed == {l[2] : l \in {x \in links : x[1] = a}} \ i.ids
           along == IF Detached(Loaded(NoJob, {a}), a) THEN Idling(outside) ELSE {}
<1>1. j \in Jobs /\ j.todo \in Seq(Assets) /\ j.todo # <<>> /\ a \in Assets
  <2>1. job[t] \in Jobs
    BY JobFacts
  <2>2. job[t].todo # <<>>
    BY DEF Examine
  <2>3. job[t].todo \in Seq(Assets)
    BY <2>1 DEF Jobs
  <2>4. Head(job[t].todo) \in Assets
    BY <2>2, <2>3
  <2> QED
    BY <2>1, <2>2, <2>3, <2>4
<1>2. m = "examine"
  BY DEF Examine
<1>3. i \in Jobs /\ i.ids = j.ids /\ i.toDel = j.toDel /\ i.kids = j.kids /\ i.fed = j.fed
      /\ i.deleted = j.deleted /\ i.ok = j.ok /\ i.todo = Tail(j.todo) /\ i.result = j.result
  <2>1. Tail(j.todo) \in Seq(Assets)
    BY <1>1
  <2> QED
    BY <1>1, <2>1 DEF Jobs
<1>4. along \in SUBSET Assets /\ along \subseteq outside
  BY DEF Idling, SubTree, Inv, TypeOK
<1>5. \/ a \notin rows /\ Set(t, [i EXCEPT !.result[a] = "refused"])
      \/ /\ a \in rows /\ (outside # along \/ fed # {})
         /\ Set(t, [Loaded(i, along) EXCEPT !.toDel = @ \o ById[along], !.result[a] = "refused"])
      \/ /\ a \in rows /\ ~(outside # along \/ fed # {})
         /\ Set(t, [Loaded(i, along \cup {a}) EXCEPT !.toDel = @ \o Append(ById[along], a)])
  BY DEF Examine
<1> HIDE DEF i
<1>6. \A S : /\ Loaded(i, S).ids = j.ids /\ Loaded(i, S).kids = j.kids /\ Loaded(i, S).fed = j.fed
             /\ Loaded(i, S).deleted = j.deleted /\ Loaded(i, S).ok = j.ok
             /\ Loaded(i, S).todo = Tail(j.todo) /\ Loaded(i, S).result = j.result
             /\ Loaded(i, S).toDel = j.toDel
  BY <1>3 DEF Loaded, Jobs
<1>7. \A x \in Assets : <<a, x>> \in links => x \in j.ids \/ x \in fed
  BY <1>3
<1>8. ASSUME NEW x \in fed PROVE <<a, x>> \in links /\ x \in rows /\ x \notin j.ids
  <2>1. PICK n \in links : n[1] = a /\ n[2] = x
    BY <1>8
  <2>2. links \subseteq Assets \X Assets
    BY DEF Inv, TypeOK
  <2>3. n = <<a, x>>
    BY <2>1, <2>2
  <2> QED
    BY <1>3, <1>8, <2>1, <2>3 DEF Linked
<1> HIDE DEF along, fed
<1>9. outside = SubTree(a) \ j.ids
  BY <1>3
<1> HIDE DEF outside
<1>10. j.toDel \in Seq(Assets) /\ ById[along] \in Seq(Assets) /\ Elements(ById[along]) = along
  BY <1>1, <1>4, DeleteAssumption DEF Jobs
<1>11. CASE a \notin rows /\ Set(t, [i EXCEPT !.result[a] = "refused"])
  <2>1. k = [i EXCEPT !.result[a] = "refused"]
    BY <1>11, Assigned
  <2>2. /\ k.ids = j.ids /\ k.toDel = j.toDel /\ k.kids = j.kids /\ k.fed = j.fed
        /\ k.deleted = j.deleted /\ k.ok = j.ok /\ k.todo = Tail(j.todo)
        /\ k.result = [j.result EXCEPT ![a] = "refused"]
    BY <1>3, <2>1 DEF Jobs
  <2>3. Listed("examine", k)
    BY <1>1, <1>11, <2>2, RefusedListed
  <2> QED
    BY <1>2, <2>2, <2>3
<1>12. CASE /\ a \in rows /\ (outside # along \/ fed # {})
            /\ Set(t, [Loaded(i, along) EXCEPT !.toDel = @ \o ById[along], !.result[a] = "refused"])
  <2>1. k = [Loaded(i, along) EXCEPT !.toDel = @ \o ById[along], !.result[a] = "refused"]
    BY <1>12, Assigned
  <2>2. Loaded(i, along) \in Jobs
    BY <1>3, <1>4, LoadedType
  <2>3. /\ k.ids = j.ids /\ k.toDel = j.toDel \o ById[along] /\ k.kids = j.kids /\ k.fed = j.fed
        /\ k.deleted = j.deleted /\ k.ok = j.ok /\ k.todo = Tail(j.todo)
        /\ k.result = [j.result EXCEPT ![a] = "refused"]
    <3> DEFINE L == Loaded(i, along)
               q == L.toDel \o ById[along]
               r == [L.result EXCEPT ![a] = "refused"]
    <3>1. k = [L EXCEPT !.toDel = q, !.result = r] /\ L \in Jobs
      BY <2>1, <2>2
    <3>2. /\ L.ids = j.ids /\ L.kids = j.kids /\ L.fed = j.fed /\ L.deleted = j.deleted
          /\ L.ok = j.ok /\ L.todo = Tail(j.todo)
          /\ q = j.toDel \o ById[along] /\ r = [j.result EXCEPT ![a] = "refused"]
      BY <1>6
    <3> HIDE DEF L, q, r
    <3>3. /\ k.ids = L.ids /\ k.toDel = q /\ k.kids = L.kids /\ k.fed = L.fed
          /\ k.deleted = L.deleted /\ k.ok = L.ok /\ k.todo = L.todo /\ k.result = r
      BY <3>1 DEF Jobs
    <3> QED
      BY <3>2, <3>3
  <2>4. Elements(k.toDel) = Elements(j.toDel) \cup along
    BY <1>10, <2>3, JoinElements
  <2>5. along = {}
    BY <1>4, <1>9, <2>3, <2>4 DEF NoSensors
  <2>6. PICK K \in SUBSET rows : Stuck(K, j.ids) /\ Refused(j) \cap rows \subseteq K
    BY DEF Listed, Barred
  <2>7. \E L \in SUBSET rows : Stuck(L, j.ids) /\ Refused(j) \cap rows \subseteq L /\ a \in L
    <3>1. CASE fed # {}
      <4>1. PICK x \in fed : TRUE
        BY <3>1
      <4>2. <<a, x>> \in links /\ x \in rows /\ x \notin j.ids
        BY <1>8, <4>1
      <4> DEFINE S == {a, x}
      <4>3. Stuck(K \cup S, j.ids)
        <5>1. S \in SUBSET rows
          BY <1>12, <4>2
        <5>2. Holds(a, x)
          BY <4>2 DEF Holds
        <5>3. \A n \in S : n \notin j.ids \/ Permanent(n) \/ \E y \in K \cup S : Holds(n, y)
          BY <4>2, <5>2
        <5> HIDE DEF S
        <5> QED
          BY <2>6, <5>1, <5>3, StuckJoins
      <4>4. K \cup S \in SUBSET rows /\ a \in S
        BY <1>12, <4>2
      <4> QED
        BY <2>6, <4>3, <4>4
    <3>2. CASE outside # {}
      <4>1. PICK x \in SubTree(a) : x \notin j.ids
        BY <1>9, <3>2
      <4> DEFINE L == K \cup ({x} \cup Above(x))
      <4>2. Stuck(L, j.ids) /\ a \in L
        BY <2>6, <4>1, StuckAbove
      <4>3. L \in SUBSET rows
        BY <4>2 DEF Stuck
      <4> QED
        BY <2>6, <4>2, <4>3
    <3> QED
      BY <1>12, <2>5, <3>1, <3>2
  <2>8. Listed("examine", k)
    BY <1>1, <2>3, <2>4, <2>5, <2>7, RefusedListed
  <2> QED
    BY <1>2, <2>3, <2>8
<1>13. CASE /\ a \in rows /\ ~(outside # along \/ fed # {})
            /\ Set(t, [Loaded(i, along \cup {a}) EXCEPT !.toDel = @ \o Append(ById[along], a)])
  <2>1. k = [Loaded(i, along \cup {a}) EXCEPT !.toDel = @ \o Append(ById[along], a)]
    BY <1>13, Assigned
  <2>2. Loaded(i, along \cup {a}) \in Jobs
    BY <1>1, <1>3, <1>4, LoadedType
  <2>3. /\ k.ids = j.ids /\ k.toDel = j.toDel \o Append(ById[along], a) /\ k.kids = j.kids
        /\ k.fed = j.fed /\ k.deleted = j.deleted /\ k.ok = j.ok /\ k.todo = Tail(j.todo)
        /\ k.result = j.result
    <3> DEFINE L == Loaded(i, along \cup {a})
               q == L.toDel \o Append(ById[along], a)
    <3>1. k = [L EXCEPT !.toDel = q] /\ L \in Jobs
      BY <2>1, <2>2
    <3>2. /\ L.ids = j.ids /\ L.kids = j.kids /\ L.fed = j.fed /\ L.deleted = j.deleted
          /\ L.ok = j.ok /\ L.todo = Tail(j.todo) /\ L.result = j.result
          /\ q = j.toDel \o Append(ById[along], a)
      BY <1>6
    <3> HIDE DEF L, q
    <3>3. /\ k.ids = L.ids /\ k.toDel = q /\ k.kids = L.kids /\ k.fed = L.fed
          /\ k.deleted = L.deleted /\ k.ok = L.ok /\ k.todo = L.todo /\ k.result = L.result
      BY <3>1 DEF Jobs
    <3> QED
      BY <3>2, <3>3
  <2>4. Elements(k.toDel) = Elements(j.toDel) \cup (along \cup {a})
    <3>1. Append(ById[along], a) \in Seq(Assets)
      BY <1>1, <1>10
    <3>2. Elements(Append(ById[along], a)) = along \cup {a}
      BY <1>1, <1>10, AppendElements
    <3>3. Elements(j.toDel \o Append(ById[along], a))
            = Elements(j.toDel) \cup Elements(Append(ById[along], a))
      BY <1>10, <3>1, JoinElements
    <3> QED
      BY <2>3, <3>2, <3>3
  <2>5. along = {}
    BY <1>4, <1>9, <2>3, <2>4 DEF NoSensors
  <2>6. SubTree(a) \subseteq j.ids /\ \A x \in Assets : <<a, x>> \in links => x \in j.ids
    BY <1>7, <1>13, <1>9, <2>5
  <2>7. Listed("examine", k)
    BY <1>1, <1>13, <2>3, <2>4, <2>5, <2>6, AcceptedListed
  <2> QED
    BY <1>2, <2>3, <2>7
<1> QED
  BY <1>5, <1>11, <1>12, <1>13

(* What a step leaves of the locals.                                       *)
Same(j, k) ==
  /\ k.ids = j.ids /\ k.toDel = j.toDel /\ k.deleted = j.deleted /\ k.result = j.result
  /\ k.sensors = j.sensors

LEMMA TodoOnly ==
  ASSUME NEW j \in Jobs, NEW q
  PROVE  LET k == [j EXCEPT !.todo = q]
         IN /\ Same(j, k) /\ k.kids = j.kids /\ k.fed = j.fed /\ k.ok = j.ok /\ k.todo = q
            /\ k.stack = j.stack
  BY DEF Jobs, Same

LEMMA CollectOnly ==
  ASSUME NEW j \in Jobs, NEW q, NEW p, NEW f
  PROVE  LET k == [j EXCEPT !.todo = q, !.kids = p, !.fed = f]
         IN /\ Same(j, k) /\ k.kids = p /\ k.fed = f /\ k.ok = j.ok /\ k.todo = q
            /\ k.stack = j.stack
  BY DEF Jobs, Same

LEMMA StackOnly ==
  ASSUME NEW j \in Jobs, NEW s
  PROVE  LET k == [j EXCEPT !.stack = s]
         IN /\ Same(j, k) /\ k.kids = j.kids /\ k.fed = j.fed /\ k.ok = j.ok /\ k.todo = j.todo
            /\ k.stack = s
  BY DEF Jobs, Same

LEMMA OkOnly ==
  ASSUME NEW j \in Jobs, NEW b
  PROVE  LET k == [j EXCEPT !.ok = b]
         IN /\ Same(j, k) /\ k.kids = j.kids /\ k.fed = j.fed /\ k.ok = b /\ k.todo = j.todo
            /\ k.stack = j.stack
  BY DEF Jobs, Same

LEMMA SensorsOnly ==
  ASSUME NEW j \in Jobs, NEW S
  PROVE  LET k == [j EXCEPT !.sensors = S]
         IN /\ k.ids = j.ids /\ k.toDel = j.toDel /\ k.deleted = j.deleted /\ k.result = j.result
            /\ k.sensors = S /\ k.kids = j.kids /\ k.fed = j.fed /\ k.ok = j.ok /\ k.todo = j.todo
            /\ k.stack = j.stack
  BY DEF Jobs

(* The second loop, and the way to the roots.                              *)
LEMMA StartReasoned ==
  ASSUME Inv, NEW t \in Threads, NEW l, NEW j, NEW m, NEW k, l = pc[t], j = job[t], m = pc'[t],
         k = job'[t], Listed(l, j), j.ok, StartCollect(t) \/ StartDelete(t)
  PROVE  m \in {"collect", "next"} /\ Listed(m, k) /\ k.ok
<1>1. j \in Jobs /\ j.toDel \in Seq(Assets) /\ j.todo = <<>> /\ l \in {"examine", "collect"}
  BY JobFacts DEF StartCollect, StartDelete, Jobs
<1>2. /\ k = [j EXCEPT !.todo = j.todo \o j.toDel]
      /\ (l = "examine" /\ m = "collect") \/ (l = "collect" /\ m = "next")
  <2>1. CASE StartCollect(t)
    <3>1. Goto(t, "collect") /\ Set(t, [j EXCEPT !.todo = j.todo \o j.toDel]) /\ l = "examine"
      BY <2>1 DEF StartCollect
    <3> QED
      BY <3>1, Assigned
  <2>2. CASE StartDelete(t)
    <3>1. Goto(t, "next") /\ Set(t, [j EXCEPT !.todo = j.todo \o j.toDel]) /\ l = "collect"
      BY <2>2 DEF StartDelete
    <3> QED
      BY <3>1, Assigned
  <2> QED
    BY <2>1, <2>2
<1>3. j.todo \o j.toDel = j.toDel
  BY <1>1
<1>4. /\ k.ids = j.ids /\ k.toDel = j.toDel /\ k.kids = j.kids /\ k.fed = j.fed /\ k.todo = j.toDel
      /\ k.deleted = j.deleted /\ k.ok /\ k.result = j.result /\ k.stack = j.stack
  BY <1>1, <1>2, <1>3, TodoOnly DEF Same
<1>5. Elements(j.todo) = {} /\ Elements(k.todo) = Elements(k.toDel)
  BY <1>1, <1>4, NoElements
<1>6. Refused(k) = Refused(j) /\ m \notin Inner
  BY <1>2, <1>4 DEF Refused, Inner
<1>7. Contained(k) /\ Truthful(k)
  BY <1>4, SamePlan DEF Listed
<1>8. Accounted(k, {})
  BY <1>1, <1>4, <1>5, <1>6 DEF Listed, Accounted
<1>9. Complete(k, IF m = "collect" THEN Elements(k.todo) ELSE {})
  <2>1. CASE m = "collect"
    BY <1>5, <2>1 DEF Complete
  <2>2. CASE m = "next"
    <3>1. Complete(j, {})
      BY <1>2, <1>5, <2>2 DEF Listed
    <3> QED
      BY <1>4, <2>2, <3>1, SamePlan
  <2> QED
    BY <1>2, <2>1, <2>2
<1>10. Present(m, k)
  BY <1>2, <1>4 DEF Listed, Present
<1>11. Barred(k)
  BY <1>4, <1>6 DEF Listed, Barred
<1> QED
  BY <1>2, <1>4, <1>5, <1>6, <1>7, <1>8, <1>9, <1>10, <1>11 DEF Listed

LEMMA CollectReasoned ==
  ASSUME Inv, Rooted, NEW t \in Threads, NEW l, NEW j, NEW m, NEW k, l = pc[t], j = job[t], m = pc'[t],
         k = job'[t], Listed(l, j), j.ok, Collect(t)
  PROVE  m = "collect" /\ Listed(m, k) /\ k.ok
<1> DEFINE e == Head(j.todo)
           list == Elements(j.toDel)
           C == Children(e) \cap list
           D == {d \in list : <<e, d>> \in links}
           p == [j.kids EXCEPT ![e] = C]
           q == [j.fed EXCEPT ![e] = D]
<1>1. j \in Jobs /\ j.todo \in Seq(Assets) /\ j.todo # <<>> /\ l = "collect" /\ m = "collect"
  BY JobFacts DEF Collect, Jobs
<1>2. k = [j EXCEPT !.todo = Tail(j.todo), !.kids = p, !.fed = q]
  BY <1>1, Assigned DEF Collect, Jobs
<1>3. e \in Assets /\ Elements(j.todo) = {e} \cup Elements(Tail(j.todo))
  BY <1>1, SplitElements
<1>4. p[e] = C /\ q[e] = D /\ \A f \in Assets \ {e} : p[f] = j.kids[f] /\ q[f] = j.fed[f]
  BY <1>1, <1>3 DEF Jobs
<1>5. \A x \in C \cup D : x \in list /\ Holds(e, x)
  BY DEF Children, Holds
<1>6. \A x \in list \cap rows : Holds(e, x) => x \in C \cup D
  BY DEF Children, Holds
<1> HIDE DEF p, q
<1>7. /\ k.ids = j.ids /\ k.toDel = j.toDel /\ k.kids = p /\ k.fed = q /\ k.todo = Tail(j.todo)
      /\ k.deleted = j.deleted /\ k.ok /\ k.result = j.result /\ k.stack = j.stack
  BY <1>1, <1>2, CollectOnly DEF Same
<1> HIDE DEF C, D
<1>8. Refused(k) = Refused(j) /\ m \notin Inner
  BY <1>1, <1>7 DEF Refused, Inner
<1>9. Contained(k)
  BY <1>7 DEF Listed, Contained
<1>10. Truthful(k)
  <2>1. ASSUME NEW f \in Assets, NEW x \in k.kids[f] \cup k.fed[f]
        PROVE  x \in Elements(k.toDel) /\ (x \in rows => Holds(f, x))
    <3>1. CASE f = e
      BY <1>4, <1>5, <1>7, <2>1, <3>1
    <3>2. CASE f # e
      BY <1>4, <1>7, <2>1, <3>2 DEF Listed, Truthful
    <3> QED
      BY <3>1, <3>2
  <2> QED
    BY <2>1 DEF Truthful
<1>11. Complete(k, Elements(k.todo))
  <2>1. ASSUME NEW f \in Elements(k.toDel) \ Elements(k.todo), NEW x \in Elements(k.toDel) \cap rows,
               Holds(f, x)
        PROVE  x \in k.kids[f] \cup k.fed[f]
    <3>0. f \in Assets
      <4>1. j.toDel \in Seq(Assets)
        BY <1>1 DEF Jobs
      <4> QED
        BY <1>7, <2>1, <4>1 DEF Elements
    <3>1. CASE f = e
      BY <1>4, <1>6, <1>7, <2>1, <3>1
    <3>2. CASE f # e
      <4>1. f \in Elements(j.toDel) \ Elements(j.todo) /\ x \in Elements(j.toDel) \cap rows
        BY <1>3, <1>7, <2>1, <3>2
      <4>2. x \in j.kids[f] \cup j.fed[f]
        BY <1>1, <2>1, <4>1 DEF Listed, Complete
      <4> QED
        BY <1>4, <1>7, <3>0, <3>2, <4>2
    <3> QED
      BY <3>1, <3>2
  <2> QED
    BY <2>1 DEF Complete
<1>12. Accounted(k, {})
  BY <1>1, <1>7, <1>8 DEF Listed, Accounted
<1>13. Elements(k.todo) \subseteq Elements(k.toDel)
  BY <1>1, <1>3, <1>7 DEF Listed
<1>14. Present(m, k)
  BY <1>1, <1>7 DEF Listed, Present
<1>15. Barred(k)
  BY <1>7, <1>8 DEF Listed, Barred
<1> QED
  BY <1>1, <1>7, <1>8, <1>9, <1>10, <1>11, <1>12, <1>13, <1>14, <1>15 DEF Listed

LEMMA NextRootReasoned ==
  ASSUME Inv, NEW t \in Threads, NEW l, NEW j, NEW m, NEW k, l = pc[t], j = job[t], m = pc'[t],
         k = job'[t], Listed(l, j), j.ok, NextRoot(t)
  PROVE  m \in {"next", "descend"} /\ Listed(m, k) /\ k.ok
<1>1. j \in Jobs /\ j.todo \in Seq(Assets) /\ j.todo # <<>> /\ l = "next"
  BY JobFacts DEF NextRoot, Jobs
<1> DEFINE root == Head(j.todo)
<1>2. root \in Assets /\ root \in Elements(j.toDel)
  BY <1>1, HeadElement DEF Listed
<1>3. CASE Set(t, Emplace(j, "deleted")) /\ UNCHANGED pc
  <2>1. m = "next" /\ k = Emplace(j, "deleted")
    BY <1>1, <1>3, Assigned
  <2>2. /\ k.ids = j.ids /\ k.toDel = j.toDel /\ k.kids = j.kids /\ k.fed = j.fed
        /\ k.deleted = j.deleted /\ k.ok
        /\ Elements(k.todo) \subseteq Elements(j.todo) /\ Refused(k) = Refused(j)
    <3> DEFINE i == Emplace(j, "deleted")
    <3>1. /\ i.ids = j.ids /\ i.toDel = j.toDel /\ i.kids = j.kids /\ i.fed = j.fed
          /\ i.deleted = j.deleted /\ i.ok
          /\ Elements(i.todo) \subseteq Elements(j.todo) /\ Refused(i) = Refused(j)
      BY <1>1, EmplaceRefused
    <3> HIDE DEF i
    <3>2. k = i
      BY <2>1 DEF i
    <3> QED
      BY <3>1, <3>2
  <2>3. Barred(k)
    BY <2>2 DEF Listed, Barred
  <2>4. Present("next", k)
    BY <1>1, <2>2 DEF Listed, Present
  <2>5. "next" \notin Inner /\ Refused(j) \subseteq j.ids
    BY DEF Inner, Listed
  <2>6. Listed("next", k)
    BY <1>1, <2>2, <2>3, <2>4, <2>5, ListedMoves
  <2> QED
    BY <2>1, <2>2, <2>6
<1>4. CASE root \notin j.deleted /\ Set(t, [j EXCEPT !.stack = <<root>>]) /\ Goto(t, "descend")
  <2>1. m = "descend" /\ k = [j EXCEPT !.stack = <<root>>]
    BY <1>4, Assigned
  <2>2. /\ k.ids = j.ids /\ k.toDel = j.toDel /\ k.kids = j.kids /\ k.fed = j.fed /\ k.todo = j.todo
        /\ k.deleted = j.deleted /\ k.ok /\ k.result = j.result /\ k.stack = <<root>>
    BY <1>1, <2>1, StackOnly DEF Same
  <2>3. Refused(k) = Refused(j) /\ Refused(j) \subseteq j.ids
    BY <2>2 DEF Refused, Listed
  <2>4. Barred(k)
    BY <2>2, <2>3 DEF Listed, Barred
  <2>5. Present("descend", k)
    BY <1>1, <2>2 DEF Listed, Present
  <2>6. Stacked("descend", k)
    <3>1. Elements(k.stack) = {root} /\ Len(k.stack) = 1 /\ DOMAIN k.stack = {1}
      BY <1>2, <2>2, OneElement
    <3>2. Below(k)
      BY <3>1 DEF Below
    <3> QED
      BY <1>2, <1>4, <2>2, <3>1, <3>2 DEF Stacked, OnElement
  <2>7. Listed("descend", k)
    BY <1>1, <2>2, <2>3, <2>4, <2>5, <2>6, ListedMoves
  <2> QED
    BY <2>1, <2>2, <2>7
<1> QED
  BY <1>3, <1>4 DEF NextRoot

LEMMA DescendReasoned ==
  ASSUME Inv, NEW t \in Threads, NEW l, NEW j, NEW m, NEW k, l = pc[t], j = job[t], m = pc'[t],
         k = job'[t], Listed(l, j), j.ok, Descend(t)
  PROVE  m \in {"descend", "endless", "guard"} /\ Listed(m, k) /\ k.ok
<1> DEFINE e == Head(j.stack)
<1>1. j \in Jobs /\ j.stack \in Seq(Assets) /\ j.stack # <<>> /\ l = "descend" /\ l \in Inner
  BY JobFacts DEF Descend, Jobs, Inner
<1>2. e \in Assets /\ e = j.stack[1] /\ Len(j.stack) \in Nat \ {0} /\ DOMAIN j.stack = 1 .. Len(j.stack)
  BY <1>1
<1>3. Stacked(l, j)
  BY <1>1 DEF Listed
<1>4. ASSUME NEW x \in First(j, e), Set(t, [j EXCEPT !.stack = <<x>> \o @]),
             Goto(t, IF x \in Elements(j.stack) THEN "endless" ELSE "descend")
      PROVE  m \in {"descend", "endless"} /\ Listed(m, k) /\ k.ok
  <2>1. x \in j.kids[e] \cup j.fed[e] /\ x \notin j.deleted
    BY <1>4 DEF First
  <2>2. x \in Elements(j.toDel)
    BY <1>2, <2>1 DEF Listed, Truthful
  <2>3. x \in Assets
    <3>1. j.toDel \in Seq(Assets)
      BY <1>1 DEF Jobs
    <3> QED
      BY <2>2, <3>1 DEF Elements
  <2> DEFINE s == <<x>> \o j.stack
  <2>4. /\ k = [j EXCEPT !.stack = s]
        /\ m = IF x \in Elements(j.stack) THEN "endless" ELSE "descend"
    BY <1>4, Assigned
  <2>5. /\ Elements(s) = {x} \cup Elements(j.stack) /\ Len(s) = Len(j.stack) + 1
        /\ s[1] = x /\ DOMAIN s = 1 .. Len(j.stack) + 1
        /\ \A n \in 1 .. Len(j.stack) : s[n + 1] = j.stack[n]
    <3>1. Elements(s) = {x} \cup Elements(j.stack)
      <4>1. <<x>> \in Seq(Assets) /\ Elements(<<x>>) = {x}
        BY <2>3, OneElement
      <4>2. Elements(<<x>> \o j.stack) = Elements(<<x>>) \cup Elements(j.stack)
        BY <1>1, <4>1, JoinElements
      <4> QED
        BY <4>1, <4>2
    <3>2. /\ Len(s) = Len(j.stack) + 1 /\ s[1] = x /\ DOMAIN s = 1 .. Len(j.stack) + 1
          /\ \A n \in 1 .. Len(j.stack) : s[n + 1] = j.stack[n]
      BY <1>1, <2>3
    <3> QED
      BY <3>1, <3>2
  <2> HIDE DEF s
  <2>6. /\ k.ids = j.ids /\ k.toDel = j.toDel /\ k.kids = j.kids /\ k.fed = j.fed /\ k.todo = j.todo
        /\ k.deleted = j.deleted /\ k.ok /\ k.result = j.result /\ k.stack = s
    BY <1>1, <2>4, StackOnly DEF Same
  <2>7. Refused(k) = Refused(j) /\ Refused(j) \subseteq j.ids
    BY <2>6 DEF Refused, Listed
  <2>8. Barred(k)
    BY <2>6, <2>7 DEF Listed, Barred
  <2>9. Present(m, k)
    BY <1>1, <2>6 DEF Listed, Present
  <2>10. Below(k)
    <3>1. SUFFICES ASSUME NEW n \in 1 .. Len(s) - 1 PROVE s[n] \in j.kids[s[n + 1]] \cup j.fed[s[n + 1]]
      BY <2>6 DEF Below
    <3>2. CASE n = 1
      BY <1>2, <2>1, <2>5, <3>2
    <3>3. CASE n # 1
      <4>1. n - 1 \in 1 .. Len(j.stack) - 1 /\ (n - 1) + 1 = n /\ n \in 1 .. Len(j.stack)
        BY <1>2, <2>5, <3>1, <3>3
      <4>2. s[n] = j.stack[n - 1] /\ s[n + 1] = j.stack[n]
        <5>1. n - 1 \in 1 .. Len(j.stack)
          BY <1>2, <4>1
        <5> QED
          BY <2>5, <4>1, <5>1
      <4> QED
        BY <1>3, <4>1, <4>2 DEF Stacked, Below
    <3> QED
      BY <3>2, <3>3
  <2>11. ASSUME x \notin Elements(j.stack), NEW p \in DOMAIN s, NEW n \in DOMAIN s, s[p] = s[n]
         PROVE  p = n
    <3>1. \A i \in DOMAIN s : i = 1 \/ (i - 1 \in DOMAIN j.stack /\ s[i] = j.stack[i - 1])
      <4>1. SUFFICES ASSUME NEW i \in DOMAIN s, i # 1
                     PROVE  i - 1 \in DOMAIN j.stack /\ s[i] = j.stack[i - 1]
        OBVIOUS
      <4>2. i - 1 \in 1 .. Len(j.stack) /\ (i - 1) + 1 = i
        BY <1>2, <2>5, <4>1
      <4> QED
        BY <1>2, <2>5, <4>2
    <3>2. \A i \in DOMAIN j.stack : j.stack[i] # x
      BY <2>11 DEF Elements
    <3>3. CASE p = 1 \/ n = 1
      BY <2>5, <2>11, <3>1, <3>2, <3>3
    <3>4. CASE p # 1 /\ n # 1
      <4>1. p - 1 \in DOMAIN j.stack /\ n - 1 \in DOMAIN j.stack /\ j.stack[p - 1] = j.stack[n - 1]
        BY <2>11, <3>1, <3>4
      <4>2. p - 1 = n - 1
        BY <1>1, <1>3, <4>1 DEF Stacked
      <4>3. p \in Int /\ n \in Int
        BY <2>5, <2>11
      <4> QED
        BY <4>2, <4>3
    <3> QED
      BY <3>3, <3>4
  <2>12. Stacked(m, k)
    <3>1. m \notin OnElement /\ m # "refer"
      BY <2>4 DEF OnElement, Inner
    <3>2. Elements(k.stack) \subseteq Elements(k.toDel)
      BY <1>3, <2>2, <2>5, <2>6 DEF Stacked
    <3>3. Elements(k.stack) \cap k.deleted = {}
      BY <1>1, <1>3, <2>1, <2>5, <2>6 DEF Stacked
    <3>4. m # "endless" => \A p, n \in DOMAIN k.stack : k.stack[p] = k.stack[n] => p = n
      BY <2>4, <2>6, <2>11
    <3> QED
      BY <2>10, <3>1, <3>2, <3>3, <3>4 DEF Stacked
  <2>13. Listed(m, k)
    BY <1>1, <2>4, <2>6, <2>7, <2>8, <2>9, <2>12, ListedMoves
  <2> QED
    BY <2>4, <2>6, <2>13
<1>5. ASSUME First(j, e) = {}, Goto(t, "guard"), UNCHANGED job
      PROVE  m = "guard" /\ Listed(m, k) /\ k.ok
  <2>1. m = "guard" /\ k = j
    BY <1>5, Assigned
  <2>2. j.kids[e] \cup j.fed[e] \subseteq j.deleted
    BY <1>5 DEF First
  <2>3. Stacked("guard", j)
    BY <1>1, <1>3, <2>2 DEF Stacked
  <2>4. Barred(j) /\ Present("guard", j) /\ Refused(j) \subseteq j.ids
    BY <1>1 DEF Listed, Present
  <2>5. Listed("guard", j)
    BY <1>1, <2>3, <2>4, ListedMoves
  <2> QED
    BY <2>1, <2>5
<1> QED
  BY <1>4, <1>5 DEF Descend

(* What the recursion still holds is there, and what an element holds and  *)
(* does not let go was refused.                                            *)
LEMMA Standing ==
  ASSUME NEW l \in OnElement, NEW j \in Jobs, Listed(l, j), l = "unmap" => ~j.ok
  PROVE  /\ \A e \in Elements(j.toDel) : e \in rows \/ e \in j.deleted
         /\ Elements(j.stack) \subseteq rows
<1>1. l \in Inner /\ l # "endless"
  BY DEF OnElement
<1>2. \A e \in Elements(j.toDel) : e \in rows \/ e \in j.deleted
  BY DEF Listed, Present
<1> QED
  BY <1>1, <1>2 DEF Listed, Stacked

LEMMA HeldIsRefused ==
  ASSUME Inv, Rooted, NEW l \in OnElement, NEW j \in Jobs, Listed(l, j), Known(j, rows),
         j.stack # <<>>, Head(j.stack) \in rows, NEW x \in rows, Holds(Head(j.stack), x)
  PROVE  x \in Refused(j)
<1> DEFINE a == Head(j.stack)
<1>1. a \in Elements(j.toDel) /\ a \in Assets /\ x \in Assets
  <2>1. j.stack \in Seq(Assets)
    BY DEF Jobs
  <2>2. a \in Elements(j.stack) /\ l \in Inner
    BY <2>1, HeadElement DEF OnElement
  <2> QED
    BY <2>1, <2>2 DEF Listed, Stacked, Inv, TypeOK
<1>2. x \in j.ids
  <2>1. ASSUME parent[x] = a PROVE x \in SubTree(a)
    <3>1. x \in Children(a) /\ a # None
      BY <1>1, <2>1, TablesAssumption DEF Children
    <3> QED
      BY <3>1, ChildBelow
  <2> QED
    BY <1>1, <2>1 DEF Listed, Contained, Holds
<1>3. x \notin Elements(j.toDel)
  <2>1. SUFFICES ASSUME x \in Elements(j.toDel) PROVE FALSE
    OBVIOUS
  <2>2. l \notin {"examine", "collect"} /\ l \in Inner
    BY DEF OnElement, Inner
  <2>3. x \in j.kids[a] \cup j.fed[a]
    BY <1>1, <2>1, <2>2 DEF Listed, Complete
  <2>4. x \in j.deleted
    BY <2>2, <2>3 DEF Listed, Stacked
  <2> QED
    BY <1>1, <2>4 DEF Known
<1>4. l # "examine"
  BY DEF OnElement, Inner
<1> QED
  BY <1>2, <1>3, <1>4 DEF Listed, Accounted

(* The next statement about the same element.                              *)
LEMMA Onward ==
  ASSUME NEW l \in OnElement, NEW m \in OnElement \ {"refer"}, NEW j, Reasoned(l, j), l # "unmap",
         m = "count" => Location(Head(j.stack)),
         m \in {"deactivate", "count", "drop"} => Head(j.stack) # RC0,
         ~j.ok => m \in {"reactivate", "unmap"}
  PROVE  /\ Reasoned(m, j) /\ (Listed(l, j) => Listed(m, j)) /\ (Single(l, j) => Single(m, j))
<1>1. l # "next" /\ m # "next" /\ l \in Inner /\ m \in Inner
      /\ l \notin {"examine", "collect"} /\ m \notin {"examine", "collect"}
      /\ l # "endless" /\ m # "endless"
  BY DEF OnElement, Inner
<1>2. Single(l, j) => Single(m, j)
  BY <1>1 DEF Single
<1>3. ASSUME Listed(l, j) PROVE Listed(m, j)
  <2>1. Barred(j) /\ Present(m, j) /\ Refused(j) \subseteq j.ids
    BY <1>3 DEF Listed, Present
  <2>2. Stacked(m, j)
    BY <1>1, <1>3 DEF Listed, Stacked
  <2> QED
    BY <1>1, <1>3, <2>1, <2>2, ListedMoves
<1> QED
  BY <1>2, <1>3 DEF Reasoned

(* A call that was told why its element has to stay.                       *)
Told(l, j) ==
  \/ Single(l, j) /\ Explained(Head(j.stack))
  \/ /\ Listed(l, j) /\ Elements(j.stack) \subseteq rows
     /\ \A e \in Elements(j.toDel) : e \in rows \/ e \in j.deleted
     /\ \E K \in SUBSET rows :
          Stuck(K, j.ids) /\ Refused(j) \cap rows \subseteq K /\ Head(j.stack) \in K

LEMMA PermanentTold ==
  ASSUME NEW l \in OnElement, NEW j \in Jobs, Reasoned(l, j), l # "unmap", j.stack # <<>>,
         Permanent(Head(j.stack))
  PROVE  Told(l, j)
<1> DEFINE a == Head(j.stack)
<1>1. Explained(a)
  BY DEF Permanent, Explained
<1>2. ASSUME Listed(l, j) PROVE Told(l, j)
  <2>1. PICK K \in SUBSET rows : Stuck(K, j.ids) /\ Refused(j) \cap rows \subseteq K
    BY <1>2 DEF Listed, Barred
  <2>2. a \in rows
    <3>1. a \in Elements(j.stack)
      BY HeadElement DEF Jobs
    <3> QED
      BY <1>2, <3>1, Standing
  <2> DEFINE S == {a}
  <2>3. Stuck(K \cup S, j.ids)
    <3>1. S \in SUBSET rows
      BY <2>2
    <3>2. \A n \in S : n \notin j.ids \/ Permanent(n) \/ \E x \in K \cup S : Holds(n, x)
      OBVIOUS
    <3> HIDE DEF S
    <3> QED
      BY <2>1, <3>1, <3>2, StuckJoins
  <2>4. K \cup S \in SUBSET rows /\ Refused(j) \cap rows \subseteq K \cup S /\ a \in K \cup S
    BY <2>1, <2>2
  <2> QED
    BY <1>2, <2>3, <2>4, Standing DEF Told
<1> QED
  BY <1>1, <1>2 DEF Reasoned, Told

LEMMA HolderTold ==
  ASSUME Inv, Rooted, NEW l \in OnElement, NEW j \in Jobs, Reasoned(l, j), l # "unmap",
         Known(j, rows), j.stack # <<>>, NEW x \in rows, Holds(Head(j.stack), x)
  PROVE  Told(l, j)
<1> DEFINE a == Head(j.stack)
<1>1. Explained(a)
  <2>1. ASSUME parent[x] = a PROVE Children(a) # {}
    BY <2>1 DEF Children
  <2>2. ASSUME <<a, x>> \in links PROVE HasLinkedAssets(a)
    BY <2>2 DEF HasLinkedAssets
  <2> QED
    BY <2>1, <2>2 DEF Holds, Explained
<1>2. ASSUME Listed(l, j) PROVE Told(l, j)
  <2>1. PICK K \in SUBSET rows : Stuck(K, j.ids) /\ Refused(j) \cap rows \subseteq K
    BY <1>2 DEF Listed, Barred
  <2>2. a \in rows
    <3>1. a \in Elements(j.stack)
      BY HeadElement DEF Jobs
    <3> QED
      BY <1>2, <3>1, Standing
  <2>3. x \in K
    BY <1>2, <2>1, <2>2, HeldIsRefused
  <2> DEFINE S == {a}
  <2>4. Stuck(K \cup S, j.ids)
    <3>1. S \in SUBSET rows
      BY <2>2
    <3>2. \A n \in S : n \notin j.ids \/ Permanent(n) \/ \E y \in K \cup S : Holds(n, y)
      BY <2>3
    <3> HIDE DEF S
    <3> QED
      BY <2>1, <3>1, <3>2, StuckJoins
  <2>5. K \cup S \in SUBSET rows /\ Refused(j) \cap rows \subseteq K \cup S /\ a \in K \cup S
    BY <2>1, <2>2
  <2> QED
    BY <1>2, <2>4, <2>5, Standing DEF Told
<1> QED
  BY <1>1, <1>2 DEF Reasoned, Told

(* It gives up.                                                            *)
LEMMA ReturnRefused ==
  ASSUME Inv, NEW t \in Threads, NEW l \in OnElement, NEW j \in Jobs, NEW m, NEW k, m = pc'[t],
         k = job'[t], Told(l, j), j.ok, j.stack # <<>>, j.todo # <<>>, Root(j), refers = {},
         Return(t, j, Head(j.stack), FALSE)
  PROVE  Reasoned(m, k)
<1>1. m = "next" /\ k = Emplace(j, "refused")
  BY Assigned DEF Return
<1> DEFINE i == Emplace(j, "refused")
<1>2. /\ i.ok /\ i.todo = Tail(j.todo) /\ Refused(i) \subseteq Refused(j) \cup {Head(j.todo)}
  BY EmplaceRefused
<1>3. ASSUME Listed(l, j), NEW K \in SUBSET rows, Stuck(K, j.ids), Refused(j) \cap rows \subseteq K,
             Head(j.stack) \in K, Elements(j.stack) \subseteq rows,
             \A e \in Elements(j.toDel) : e \in rows \/ e \in j.deleted
      PROVE  Listed("next", i)
  <2>1. l \in Inner
    BY DEF OnElement
  <2> HIDE DEF i
  <2> QED
    BY <1>3, <2>1, ErrorGoesUp DEF i
<1> HIDE DEF i
<1>4. ASSUME Single(l, j), Explained(Head(j.stack)) PROVE Single("next", i)
  <2>1. l # "next"
    BY DEF OnElement, Inner
  <2>2. PICK a \in Assets : j.stack = <<a>> /\ j.todo = <<a>> /\ Refused(j) = {}
    BY <1>4, <2>1 DEF Single
  <2>3. Head(j.stack) = a /\ Head(j.todo) = a /\ Tail(j.todo) = <<>>
    BY <2>2
  <2> QED
    BY <1>2, <1>4, <2>2, <2>3 DEF Single
<1>5. Reasoned("next", i)
  BY <1>2, <1>3, <1>4 DEF Told, Reasoned
<1> QED
  BY <1>1, <1>5 DEF i

LEMMA ReturnDone ==
  ASSUME Inv, NEW t \in Threads, NEW j \in Jobs, NEW m, NEW k, m = pc'[t],
         k = job'[t], Single("unmap", j) \/ Listed("unmap", j), j.ok, j.stack # <<>>, j.todo # <<>>,
         refers = {}, Return(t, j, Head(j.stack), TRUE)
  PROVE  Reasoned(m, k)
<1> DEFINE a == Head(j.stack)
           d == Deleted(j, a)
           i == Emplace(d, "deleted")
<1>1. d \in Jobs /\ d.todo = j.todo /\ d.ok /\ d.result = j.result
  <2>1. a \in Assets
    BY DEF Jobs
  <2>2. d \in Jobs
    BY <2>1, DeletedType
  <2> QED
    BY <2>2 DEF Deleted, Jobs
<1>2. i.ok /\ i.todo = Tail(j.todo) /\ Refused(i) = Refused(d)
  <2> HIDE DEF d
  <2> QED
    BY <1>1, EmplaceRefused
<1>3. Refused(d) = Refused(j)
  BY <1>1 DEF Refused
<1>4. \/ Len(j.stack) > 1 /\ k = d /\ m = "descend"
      \/ ~(Len(j.stack) > 1) /\ k = i /\ m = "next"
  BY Assigned DEF Return
<1>5. Listed("unmap", j) => /\ Len(j.stack) > 1 => Listed("descend", d)
                            /\ Listed("next", i)
  BY ElementDone, RootDone
<1> HIDE DEF d, i
<1>6. ASSUME Single("unmap", j) PROVE ~(Len(j.stack) > 1) /\ Single("next", i)
  <2>1. PICK b \in Assets : j.stack = <<b>> /\ j.todo = <<b>> /\ Refused(j) = {}
    BY <1>6 DEF Single
  <2>2. Len(j.stack) = 1 /\ Tail(j.todo) = <<>>
    BY <2>1
  <2>3. Refused(i) = {} /\ i.todo = <<>>
    BY <1>2, <1>3, <2>1, <2>2
  <2> QED
    BY <2>2, <2>3 DEF Single
<1> QED
  BY <1>1, <1>2, <1>4, <1>5, <1>6 DEF Reasoned

LEMMA GuardReasoned ==
  ASSUME Inv, Rooted, GoneInv, NEW t \in Threads, NEW l, NEW j, NEW m, NEW k, l = pc[t], j = job[t],
         m = pc'[t], k = job'[t], Reasoned(l, j), Guard(t)
  PROVE  Reasoned(m, k)
<1> DEFINE a == Head(j.stack)
           S == IF Detached(j, a) THEN Idling(Children(a)) ELSE {}
<1>1. l = "guard" /\ l \in OnElement /\ l # "unmap" /\ l \in Inner
  BY DEF Guard, OnElement, Inner
<1>2. j \in Jobs /\ j.stack # <<>> /\ j.todo # <<>> /\ Root(j) /\ Known(j, rows)
  BY <1>1, GoneFacts
<1>3. j.ok /\ refers = {}
  BY <1>1 DEF Reasoned
<1>4. CASE /\ a = RC0 \/ LastFeed(a)
           /\ Return(t, j, a, FALSE)
  <2>1. Permanent(a)
    BY <1>4 DEF Permanent
  <2>2. Told(l, j)
    BY <1>1, <1>2, <2>1, PermanentTold
  <2> QED
    BY <1>1, <1>2, <1>3, <1>4, <2>2, ReturnRefused
<1>5. CASE /\ a # RC0 /\ ~LastFeed(a)
           /\ Set(t, [j EXCEPT !.sensors = S])
           /\ Goto(t, "refer")
  <2>1. m = "refer" /\ k = [j EXCEPT !.sensors = S]
    BY <1>5, Assigned
  <2>2. \A s \in S : s \in rows /\ parent[s] = a
    BY DEF Idling, Children
  <2> HIDE DEF S
  <2>3. /\ k.ids = j.ids /\ k.toDel = j.toDel /\ k.deleted = j.deleted /\ k.result = j.result
        /\ k.sensors = S /\ k.kids = j.kids /\ k.fed = j.fed /\ k.ok /\ k.todo = j.todo
        /\ k.stack = j.stack
    BY <1>2, <1>3, <2>1, SensorsOnly
  <2>4. Refused(k) = Refused(j)
    BY <2>3 DEF Refused
  <2>5. m \in Inner /\ m \in OnElement
    BY <2>1 DEF Inner, OnElement
  <2>6. ASSUME Single(l, j) PROVE Single(m, k)
    BY <1>1, <2>3, <2>4, <2>5, <2>6 DEF Single
  <2>7. ASSUME Listed(l, j) PROVE Listed(m, k)
    <3>1. a \in rows
      <4>1. a \in Elements(j.stack)
        BY <1>2, HeadElement DEF Jobs
      <4> QED
        BY <1>1, <1>2, <2>7, <4>1, Standing
    <3>2. k.sensors \cap rows \subseteq Refused(k)
      <4>1. SUFFICES ASSUME NEW s \in S PROVE s \in Refused(j)
        BY <2>3, <2>4
      <4>2. s \in rows /\ Holds(a, s)
        BY <2>2, <4>1 DEF Holds
      <4> QED
        BY <1>1, <1>2, <2>7, <3>1, <4>2, HeldIsRefused
    <3>3. Stacked(m, k)
      <4>1. Stacked(l, j)
        BY <1>1, <2>7 DEF Listed
      <4>2. Below(k)
        BY <2>3, <4>1 DEF Stacked, Below
      <4> QED
        BY <1>1, <2>1, <2>3, <3>2, <4>1, <4>2 DEF Stacked
    <3>4. Barred(k) /\ Present(m, k) /\ Refused(j) \subseteq j.ids
      BY <1>1, <2>1, <2>3, <2>4, <2>7 DEF Listed, Barred, Present
    <3> QED
      BY <1>1, <2>1, <2>3, <2>4, <2>7, <3>3, <3>4, ListedMoves
  <2>8. Head(k.stack) # RC0
    BY <1>5, <2>3
  <2> QED
    BY <1>3, <2>1, <2>3, <2>6, <2>7, <2>8 DEF Reasoned
<1> QED
  BY <1>4, <1>5 DEF Guard, Current

LEMMA SensorReasoned ==
  ASSUME Inv, Rooted, Linked, NEW t \in Threads, NEW l, NEW j, NEW m, NEW k,
         l = pc[t], j = job[t], m = pc'[t], k = job'[t], Reasoned(l, j), Checked(l, j),
         DeleteSensor(t)
  PROVE  Reasoned(m, k)'
<1>1. l = "refer" /\ m = "refer" /\ j \in Jobs /\ j.ok /\ refers = {}
  BY JobFacts DEF DeleteSensor, Reasoned
<1>2. PICK s \in j.sensors :
        /\ Set(t, [j EXCEPT !.sensors = @ \ {s}])
        /\ IF ~Referred(s) /\ Free(s) THEN Erase(s) ELSE UNCHANGED tables
  BY DEF DeleteSensor
<1> DEFINE S == j.sensors \ {s}
<1>3. k = [j EXCEPT !.sensors = S]
  BY <1>2, Assigned
<1>4. /\ k.ids = j.ids /\ k.toDel = j.toDel /\ k.deleted = j.deleted /\ k.result = j.result
      /\ k.sensors = S /\ k.kids = j.kids /\ k.fed = j.fed /\ k.ok /\ k.todo = j.todo
      /\ k.stack = j.stack
  <2> HIDE DEF S
  <2> QED
    BY <1>1, <1>3, SensorsOnly
<1>5. Refused(k) = Refused(j)
  BY <1>4 DEF Refused
<1>6. m \in Inner /\ m \in OnElement
  BY <1>1 DEF Inner, OnElement
<1>7. s \in Sensors /\ s \in Assets /\ s \notin Feeds /\ Device(s) /\ s # RC0
  BY <1>1, <1>2, DeleteAssumption DEF Checked, Jobs
<1>8. ~Permanent(s)
  <2>1. ~LastFeed(s)
    BY <1>7 DEF LastFeed, FeedsIn
  <2> QED
    BY <1>7, <2>1 DEF Permanent, Device, Location
<1>9. ASSUME Listed(l, j) PROVE Listed(m, k)
  <2>1. Stacked(l, j)
    BY <1>1, <1>6, <1>9 DEF Listed
  <2>2. Below(k)
    BY <1>4, <2>1 DEF Stacked, Below
  <2>3. Stacked(m, k)
    BY <1>1, <1>4, <1>5, <2>1, <2>2 DEF Stacked
  <2>4. Barred(k) /\ Present(m, k) /\ Refused(j) \subseteq j.ids
    BY <1>1, <1>4, <1>5, <1>9 DEF Listed, Barred, Present
  <2> QED
    BY <1>1, <1>4, <1>5, <1>9, <2>3, <2>4, ListedMoves
<1>10. Single(l, j) => Single(m, k)
  BY <1>1, <1>4, <1>5, <1>6 DEF Single
<1>11. Reasoned(m, k)
  BY <1>1, <1>4, <1>9, <1>10 DEF Reasoned
<1>12. CASE UNCHANGED tables
  BY <1>11, <1>12, SameReasoned
<1>13. CASE Shrinks(s)
  <2>1. Free(s) /\ refers' = {}
    BY <1>1, <1>13 DEF Shrinks, Erase
  <2>2. ASSUME Listed(l, j) PROVE Listed(m, k)'
    <3>1. PICK K \in SUBSET rows : Stuck(K, j.ids) /\ Refused(j) \cap rows \subseteq K
      BY <2>2 DEF Listed, Barred
    <3>2. ASSUME s \in rows PROVE FALSE
      <4>1. s \in Refused(j)
        BY <1>1, <1>2, <1>6, <2>2, <3>2 DEF Listed, Stacked
      <4>2. s \in K /\ s \in j.ids
        BY <2>2, <3>1, <3>2, <4>1 DEF Listed
      <4> QED
        BY <1>8, <2>1, <3>1, <4>2, NotStuck
    <3> QED
      BY <1>4, <1>9, <1>13, <2>2, <3>2, ListedShrinks
  <2>3. Single(m, k) => Single(m, k)'
    BY <1>1, <1>4 DEF Single, Refused
  <2> QED
    BY <1>4, <1>10, <1>11, <2>1, <2>2, <2>3 DEF Reasoned, Location
<1> QED
  BY <1>2, <1>7, <1>12, <1>13 DEF Shrinks

LEMMA ReferReasoned ==
  ASSUME Inv, NEW t \in Threads, NEW l, NEW j, NEW m, NEW k, l = pc[t], j = job[t],
         m = pc'[t], k = job'[t], Reasoned(l, j), clean',
         Refer(t) \/ Deactivate(t) \/ Reactivate(t)
  PROVE  Reasoned(m, k)
<1>1. CASE Reactivate(t)
  <2>1. l = "reactivate" /\ m = "unmap" /\ k = j
    BY <1>1, Assigned DEF Reactivate
  <2>2. l \in OnElement /\ m \in OnElement \ {"refer"} /\ l # "unmap" /\ m # "count"
    BY <2>1 DEF OnElement, Inner
  <2> QED
    BY <2>1, <2>2, Onward
<1>2. ASSUME l \in {"refer", "deactivate"}, k = j, m \in {"deactivate", "count", "drop"},
             m = "count" => Location(Head(j.stack))
      PROVE  Reasoned(m, k)
  <2>1. l \in OnElement /\ m \in OnElement \ {"refer"} /\ l # "unmap"
    BY <1>2 DEF OnElement, Inner
  <2>2. j.ok /\ Head(j.stack) # RC0
    BY <1>2 DEF Reasoned
  <2> QED
    BY <1>2, <2>1, <2>2, Onward
<1>3. ASSUME Goto(t, Cleanup(Current(t))) PROVE m \in {"count", "drop"} /\ (m = "count" => Location(Head(j.stack)))
  BY <1>3, Assigned DEF Cleanup, Current
<1>4. CASE Refer(t)
  <2>1. l = "refer" /\ ~Referred(Current(t))
    BY <1>4 DEF Refer, Referred, Reasoned
  <2>2. k = j /\ Goto(t, IF Deactivates(j, Current(t)) THEN "deactivate" ELSE Cleanup(Current(t)))
    BY <1>4, <2>1 DEF Refer
  <2>3. CASE Deactivates(j, Current(t))
    BY <1>2, <2>1, <2>2, <2>3, Assigned
  <2>4. CASE ~Deactivates(j, Current(t))
    BY <1>2, <1>3, <2>1, <2>2, <2>4
  <2> QED
    BY <2>3, <2>4
<1>5. CASE Deactivate(t)
  <2>1. l = "deactivate" /\ k = j /\ Goto(t, Cleanup(Current(t)))
    BY <1>5 DEF Deactivate
  <2> QED
    BY <1>2, <1>3, <2>1
<1> QED
  BY <1>1, <1>4, <1>5

LEMMA FailedReasoned ==
  ASSUME Inv, NEW t \in Threads, NEW l \in {"count", "drop"}, NEW j \in Jobs, NEW m, NEW k, j = job[t],
         m = pc'[t], k = job'[t], Reasoned(l, j), Told(l, j), Failed(t, Head(j.stack))
  PROVE  Reasoned(m, k)
<1>1. k = [j EXCEPT !.ok = FALSE] /\ m \in {"reactivate", "unmap"}
  BY Assigned DEF Failed
<1>2. /\ k.ids = j.ids /\ k.toDel = j.toDel /\ k.deleted = j.deleted /\ k.result = j.result
      /\ k.sensors = j.sensors /\ k.kids = j.kids /\ k.fed = j.fed /\ ~k.ok /\ k.todo = j.todo
      /\ k.stack = j.stack
  BY <1>1, OkOnly DEF Same
<1>3. Refused(k) = Refused(j)
  BY <1>2 DEF Refused
<1>4. m \in Inner /\ m \in OnElement /\ l \in OnElement /\ l \in Inner /\ l # "unmap" /\ l # "next"
  BY <1>1 DEF Inner, OnElement
<1>5. ASSUME Single(l, j), Explained(Head(j.stack)) PROVE Single(m, k)
  <2>1. PICK a \in Assets : j.stack = <<a>> /\ j.todo = <<a>>
    BY <1>4, <1>5 DEF Single
  <2>2. Explained(a)
    BY <1>5, <2>1
  <2> QED
    BY <1>2, <1>3, <1>4, <1>5, <2>1, <2>2 DEF Single
<1>6. ASSUME Listed(l, j), NEW K \in SUBSET rows, Stuck(K, j.ids), Refused(j) \cap rows \subseteq K,
             Head(j.stack) \in K
      PROVE  Listed(m, k)
  <2>1. Barred(k)
    BY <1>2, <1>3, <1>6 DEF Barred
  <2>2. Present(m, k)
    BY <1>2, <1>4, <1>6 DEF Listed, Present
  <2>3. Stacked(m, k)
    <3>1. Stacked(l, j)
      BY <1>4, <1>6 DEF Listed
    <3>2. Below(k)
      BY <1>2, <3>1 DEF Stacked, Below
    <3>3. l # "endless" /\ m # "endless" /\ m # "refer"
      BY <1>1
    <3> QED
      BY <1>2, <1>4, <3>1, <3>2, <3>3 DEF Stacked
  <2>4. Refused(j) \subseteq j.ids /\ l \notin {"examine", "collect"} /\ m \notin {"examine", "collect"}
    BY <1>1, <1>6 DEF Listed
  <2> QED
    BY <1>2, <1>3, <1>6, <2>1, <2>2, <2>3, <2>4, ListedMoves
<1> QED
  BY <1>1, <1>5, <1>6 DEF Told, Reasoned

LEMMA CountReasoned ==
  ASSUME Inv, NEW t \in Threads, NEW l, NEW j, NEW m, NEW k, l = pc[t], j = job[t],
         m = pc'[t], k = job'[t], Reasoned(l, j), Count(t)
  PROVE  Reasoned(m, k)
<1> DEFINE a == Head(j.stack)
<1>1. l = "count" /\ l \in OnElement /\ l \in Inner /\ l # "unmap"
  BY DEF Count, OnElement, Inner
<1>2. j \in Jobs /\ j.stack # <<>> /\ Location(a) /\ a # RC0 /\ j.ok
  BY <1>1, JobFacts DEF Reasoned
<1>3. CASE IsLastDataCenter(a) /\ Failed(t, a)
  <2>1. Told(l, j)
    BY <1>1, <1>2, <1>3, PermanentTold DEF Permanent
  <2> QED
    BY <1>1, <1>2, <1>3, <2>1, FailedReasoned
<1>4. CASE Goto(t, "drop") /\ UNCHANGED job
  <2>1. m = "drop" /\ k = j
    BY <1>4, Assigned
  <2>2. m \in OnElement \ {"refer"}
    BY <2>1 DEF OnElement, Inner
  <2> QED
    BY <1>1, <1>2, <2>1, <2>2, Onward
<1> QED
  BY <1>3, <1>4 DEF Count, Current

LEMMA DropReasoned ==
  ASSUME Inv, Rooted, Linked, GoneInv, NEW t \in Threads, NEW l, NEW j, NEW m, NEW k,
         l = pc[t], j = job[t], m = pc'[t], k = job'[t], Reasoned(l, j), Checked(l, j), Drop(t)
  PROVE  Reasoned(m, k)'
<1> DEFINE a == Head(j.stack)
<1>1. l = "drop" /\ l \in OnElement /\ l \in Inner /\ l # "unmap" /\ l # "next"
  BY DEF Drop, OnElement, Inner
<1>2. j \in Jobs /\ j.stack # <<>> /\ a # RC0 /\ j.ok /\ refers = {} /\ Known(j, rows)
  BY <1>1, GoneFacts DEF Reasoned
<1>3. a \in Elements(j.stack) /\ a \in Assets
  BY <1>2, HeadElement DEF Jobs
<1>4. CASE Free(a) /\ Erase(a) /\ Goto(t, "unmap") /\ UNCHANGED job
  <2>1. m = "unmap" /\ k = j
    BY <1>4, Assigned
  <2>2. m \in OnElement \ {"refer"} /\ m # "next"
    BY <2>1 DEF OnElement, Inner
  <2>3. Reasoned(m, j) /\ (Listed(l, j) => Listed(m, j)) /\ (Single(l, j) => Single(m, j))
    BY <1>1, <1>2, <2>1, <2>2, Onward
  <2>4. Shrinks(a) /\ refers' = {}
    BY <1>2, <1>3, <1>4 DEF Shrinks, Erase
  <2>5. ~Permanent(a)
    BY <1>1, <1>2 DEF Checked, Permanent
  <2>6. ASSUME Listed(l, j) PROVE Listed(m, j)'
    <3>1. a \in j.ids
      BY <1>1, <1>3, <2>6 DEF Listed, Stacked, Contained
    <3> QED
      BY <1>2, <2>1, <2>3, <2>4, <2>5, <2>6, <3>1, ListedShrinks
  <2>7. Single(m, j) => Single(m, j)'
    BY <1>2, <2>2 DEF Single, Refused
  <2>8. Reasoned(m, j)'
    BY <1>2, <2>1, <2>3, <2>4, <2>6, <2>7 DEF Reasoned
  <2> QED
    BY <2>1, <2>8
<1>5. CASE ~Free(a) /\ Failed(t, a) /\ UNCHANGED tables
  <2>1. PICK x \in rows : Holds(a, x)
    <3>1. CASE Children(a) # {}
      BY <3>1 DEF Children, Holds
    <3>2. CASE HasLinkedAssets(a)
      <4>1. PICK n \in links : n[1] = a
        BY <3>2 DEF HasLinkedAssets
      <4>2. n = <<a, n[2]>> /\ n[2] \in rows
        BY <4>1 DEF Inv, TypeOK, Linked
      <4> QED
        BY <4>1, <4>2 DEF Holds
    <3> QED
      BY <1>5, <3>1, <3>2 DEF Free
  <2>2. Told(l, j)
    BY <1>1, <1>2, <2>1, HolderTold
  <2>3. Reasoned(m, k)
    BY <1>1, <1>2, <1>5, <2>2, FailedReasoned
  <2> QED
    BY <1>5, <2>3, SameReasoned
<1> QED
  BY <1>4, <1>5 DEF Drop, Current

LEMMA UnmapReasoned ==
  ASSUME Inv, GoneInv, NEW t \in Threads, NEW l, NEW j, NEW m, NEW k, l = pc[t], j = job[t],
         m = pc'[t], k = job'[t], Reasoned(l, j), Unmap(t)
  PROVE  Reasoned(m, k)
<1> DEFINE i == [j EXCEPT !.ok = TRUE]
<1>1. l = "unmap" /\ l \in OnElement /\ l \in Inner /\ l # "next"
  BY DEF Unmap, OnElement, Inner
<1>2. j \in Jobs /\ j.stack # <<>> /\ j.todo # <<>> /\ Root(j) /\ refers = {}
  BY <1>1, GoneFacts DEF Reasoned
<1>3. Return(t, i, Head(j.stack), j.ok)
  BY DEF Unmap, Current
<1>4. i \in Jobs
  BY <1>2 DEF Jobs
<1>5. /\ i.ids = j.ids /\ i.toDel = j.toDel /\ i.deleted = j.deleted /\ i.result = j.result
      /\ i.sensors = j.sensors /\ i.kids = j.kids /\ i.fed = j.fed /\ i.ok /\ i.todo = j.todo
      /\ i.stack = j.stack
  BY <1>2, OkOnly DEF Same
<1> HIDE DEF i
<1>6. Refused(i) = Refused(j) /\ Root(i)
  BY <1>2, <1>5 DEF Refused, Root
<1>7. Single(l, j) => Single(l, i)
  BY <1>1, <1>5, <1>6 DEF Single
<1>8. ASSUME Listed(l, j) PROVE Listed(l, i)
  <2>1. Barred(i)
    BY <1>5, <1>6, <1>8 DEF Listed, Barred
  <2>2. Present(l, i)
    BY <1>5, <1>8 DEF Listed, Present
  <2>3. Stacked(l, i)
    <3>1. Stacked(l, j)
      BY <1>1, <1>8 DEF Listed
    <3>2. Below(i)
      BY <1>5, <3>1 DEF Stacked, Below
    <3> QED
      BY <1>1, <1>5, <3>1, <3>2 DEF Stacked
  <2>4. Refused(j) \subseteq j.ids
    BY <1>8 DEF Listed
  <2> QED
    BY <1>1, <1>5, <1>6, <1>8, <2>1, <2>2, <2>3, <2>4, ListedMoves
<1>9. Single("unmap", i) \/ Listed("unmap", i)
  BY <1>1, <1>7, <1>8 DEF Reasoned
<1>10. CASE j.ok
  <2>1. Return(t, i, Head(i.stack), TRUE)
    BY <1>3, <1>5, <1>10 DEF Return
  <2> QED
    BY <1>2, <1>4, <1>5, <1>9, <2>1, ReturnDone
<1>11. CASE ~j.ok
  <2>1. Return(t, i, Head(i.stack), FALSE)
    BY <1>3, <1>5, <1>11 DEF Return
  <2>2. Told(l, i)
    <3>1. ASSUME Single(l, j) PROVE Told(l, i)
      <4>1. PICK a \in Assets : j.stack = <<a>> /\ Explained(a)
        BY <1>1, <1>11, <3>1 DEF Single
      <4>2. Head(i.stack) = a
        BY <1>5, <4>1
      <4> QED
        BY <1>7, <3>1, <4>1, <4>2 DEF Told
    <3>2. ASSUME Listed(l, j) PROVE Told(l, i)
      <4>1. PICK K \in SUBSET rows : Stuck(K, j.ids) /\ Refused(j) \cap rows \subseteq K
                                     /\ Head(j.stack) \in K
        BY <1>11, <3>2 DEF Listed, Barred
      <4>2. /\ \A e \in Elements(j.toDel) : e \in rows \/ e \in j.deleted
            /\ Elements(j.stack) \subseteq rows
        BY <1>1, <1>2, <1>11, <3>2, Standing
      <4> QED
        BY <1>5, <1>6, <1>8, <3>2, <4>1, <4>2 DEF Told
    <3> QED
      BY <3>1, <3>2 DEF Reasoned
  <2> QED
    BY <1>1, <1>2, <1>4, <1>5, <1>6, <2>1, <2>2, ReturnRefused
<1> QED
  BY <1>10, <1>11

(* What a call was given, and which sensors stood for something then, it   *)
(* keeps; its list only grows.                                             *)
Carries(j, k) ==
  k.named = j.named /\ k.ids = j.ids /\ Elements(j.toDel) \subseteq Elements(k.toDel)

LEMMA CarriesOn ==
  ASSUME NEW j, NEW k, Carries(j, k), NoSensors(k)
  PROVE  NoSensors(j)
  BY DEF Carries, NoSensors

LEMMA ReturnCarries ==
  ASSUME Inv, NEW t \in Threads, NEW j \in Jobs, NEW i \in Jobs, NEW a, NEW ok, j.toDel = i.toDel,
         j.named = i.named, j.ids = i.ids, Return(t, i, a, ok)
  PROVE  Carries(j, job'[t])
<1>1. \A h : h \in {"refused", "deleted"} =>
        LET e == Emplace(i, h) IN e.toDel = i.toDel /\ e.named = i.named /\ e.ids = i.ids
  BY DEF Emplace, Jobs
<1>2. LET d == Deleted(i, a) IN d.toDel = i.toDel /\ d.named = i.named /\ d.ids = i.ids
  BY DEF Deleted, Jobs
<1>3. LET e == Emplace(Deleted(i, a), "deleted")
      IN e.toDel = i.toDel /\ e.named = i.named /\ e.ids = i.ids
  BY DEF Emplace, Deleted, Jobs
<1>4. \/ job'[t] = Emplace(i, "refused") \/ job'[t] = Deleted(i, a)
      \/ job'[t] = Emplace(Deleted(i, a), "deleted")
  BY Assigned DEF Return
<1> QED
  BY <1>1, <1>2, <1>3, <1>4 DEF Carries

LEMMA LoadedCarries ==
  ASSUME NEW j \in Jobs, NEW S
  PROVE  LET k == Loaded(j, S) IN k.toDel = j.toDel /\ k.named = j.named /\ k.ids = j.ids
  BY DEF Loaded, Jobs

LEMMA LongerCarries ==
  ASSUME NEW j \in Jobs, NEW i \in Jobs, i.toDel = j.toDel, i.named = j.named, i.ids = j.ids,
         NEW q \in Seq(Assets)
  PROVE  /\ Carries(j, [i EXCEPT !.toDel = i.toDel \o q])
         /\ \A r : Carries(j, [i EXCEPT !.toDel = i.toDel \o q, !.result = r])
<1>1. Elements(j.toDel) \subseteq Elements(i.toDel \o q)
  BY JoinElements DEF Jobs
<1> DEFINE s == i.toDel \o q
<1> HIDE DEF s
<1>2. LET k == [i EXCEPT !.toDel = s] IN k.toDel = s /\ k.named = j.named /\ k.ids = j.ids
  BY DEF Jobs
<1>3. \A r : LET k == [i EXCEPT !.toDel = s, !.result = r]
             IN k.toDel = s /\ k.named = j.named /\ k.ids = j.ids
  BY DEF Jobs
<1> QED
  BY <1>1, <1>2, <1>3 DEF Carries, s

LEMMA ExamineCarries ==
  ASSUME Inv, NEW t \in Threads, Examine(t)
  PROVE  Carries(job[t], job'[t])
<1> DEFINE a == Head(job[t].todo)
           i == [job[t] EXCEPT !.todo = Tail(@)]
           outside == SubTree(a) \ i.ids
           along == IF Detached(Loaded(NoJob, {a}), a) THEN Idling(outside) ELSE {}
<1>1. job[t] \in Jobs /\ job[t].todo \in Seq(Assets) /\ job[t].todo # <<>>
  BY JobFacts DEF Examine, Jobs
<1>2. a \in Assets /\ Tail(job[t].todo) \in Seq(Assets)
  BY <1>1
<1>3. i \in Jobs /\ i.toDel = job[t].toDel /\ i.named = job[t].named /\ i.ids = job[t].ids
  BY <1>1, <1>2 DEF Jobs
<1>4. along \in SUBSET Assets
  BY DEF Idling, SubTree, Inv, TypeOK
<1>5. \/ Set(t, [i EXCEPT !.result[a] = "refused"])
      \/ Set(t, [Loaded(i, along) EXCEPT !.toDel = @ \o ById[along], !.result[a] = "refused"])
      \/ Set(t, [Loaded(i, along \cup {a}) EXCEPT !.toDel = @ \o Append(ById[along], a)])
  BY DEF Examine
<1> HIDE DEF i, along
<1>6. ById[along] \in Seq(Assets) /\ Append(ById[along], a) \in Seq(Assets)
  <2>1. ById[along] \in Seq(Assets)
    BY <1>4, ByIdType
  <2> QED
    BY <1>2, <2>1
<1>7. CASE Set(t, [i EXCEPT !.result[a] = "refused"])
  <2>1. job'[t] = [i EXCEPT !.result[a] = "refused"]
    BY <1>7, Assigned
  <2> QED
    BY <1>3, <2>1 DEF Jobs, Carries
<1>8. CASE Set(t, [Loaded(i, along) EXCEPT !.toDel = @ \o ById[along], !.result[a] = "refused"])
  <2> DEFINE h == Loaded(i, along)
             r == [h.result EXCEPT ![a] = "refused"]
  <2>1. h \in Jobs /\ h.toDel = job[t].toDel /\ h.named = job[t].named /\ h.ids = job[t].ids
    BY <1>3, <1>4, LoadedType, LoadedCarries
  <2>2. job'[t] = [h EXCEPT !.toDel = h.toDel \o ById[along], !.result = r]
    BY <1>8, <2>1, Assigned DEF Jobs
  <2> HIDE DEF h, r
  <2>3. Carries(job[t], [h EXCEPT !.toDel = h.toDel \o ById[along], !.result = r])
    BY <1>1, <1>6, <2>1, LongerCarries
  <2> QED
    BY <2>2, <2>3
<1>9. CASE Set(t, [Loaded(i, along \cup {a}) EXCEPT !.toDel = @ \o Append(ById[along], a)])
  <2> DEFINE h == Loaded(i, along \cup {a})
             q == Append(ById[along], a)
  <2>1. h \in Jobs /\ h.toDel = job[t].toDel /\ h.named = job[t].named /\ h.ids = job[t].ids
    BY <1>2, <1>3, <1>4, LoadedType, LoadedCarries
  <2>2. job'[t] = [h EXCEPT !.toDel = h.toDel \o q]
    BY <1>9, Assigned
  <2>3. q \in Seq(Assets)
    BY <1>6
  <2> HIDE DEF h, q
  <2>4. Carries(job[t], [h EXCEPT !.toDel = h.toDel \o q])
    BY <1>1, <2>1, <2>3, LongerCarries
  <2> QED
    BY <2>2, <2>4
<1> QED
  BY <1>5, <1>7, <1>8, <1>9

LEMMA StepCarries ==
  ASSUME Inv, NEW t \in Threads, Step(t), pc'[t] # "idle"
  PROVE  Carries(job[t], job'[t])
<1>1. job[t] \in Jobs
  BY JobFacts
<1>2. ASSUME NEW k, job'[t] = k, k.toDel = job[t].toDel, k.named = job[t].named, k.ids = job[t].ids
      PROVE  Carries(job[t], job'[t])
  BY <1>2 DEF Carries
<1>3. ASSUME NEW a, NEW ok, Return(t, job[t], a, ok) PROVE Carries(job[t], job'[t])
  BY <1>1, <1>3, ReturnCarries
<1>4. CASE UNCHANGED job
  BY <1>2, <1>4
<1>5. CASE StartCollect(t) \/ StartDelete(t)
  <2> DEFINE q == job[t].todo \o job[t].toDel
             k == [job[t] EXCEPT !.todo = q]
  <2>1. job'[t] = k
    BY <1>5, Assigned DEF StartCollect, StartDelete
  <2> HIDE DEF q
  <2>2. k.toDel = job[t].toDel /\ k.named = job[t].named /\ k.ids = job[t].ids
    BY <1>1 DEF Jobs
  <2> QED
    BY <1>2, <2>1, <2>2
<1>6. CASE Collect(t)
  <2> DEFINE e == Head(job[t].todo)
             list == Elements(job[t].toDel)
             p == [job[t].kids EXCEPT ![e] = Children(e) \cap list]
             f == [job[t].fed EXCEPT ![e] = {d \in list : <<e, d>> \in links}]
             k == [job[t] EXCEPT !.todo = Tail(@), !.kids = p, !.fed = f]
  <2>1. job'[t] = k
    BY <1>1, <1>6, Assigned DEF Collect, Jobs
  <2> HIDE DEF p, f
  <2>2. k.toDel = job[t].toDel /\ k.named = job[t].named /\ k.ids = job[t].ids
    BY <1>1 DEF Jobs
  <2> QED
    BY <1>2, <2>1, <2>2
<1>7. ASSUME NEW s, Set(t, [job[t] EXCEPT !.stack = s]) PROVE Carries(job[t], job'[t])
  <2> DEFINE k == [job[t] EXCEPT !.stack = s]
  <2>1. job'[t] = k
    BY <1>7, Assigned
  <2>2. k.toDel = job[t].toDel /\ k.named = job[t].named /\ k.ids = job[t].ids
    BY <1>1 DEF Jobs
  <2> QED
    BY <1>2, <2>1, <2>2
<1>8. ASSUME NEW s, Set(t, [job[t] EXCEPT !.sensors = s]) PROVE Carries(job[t], job'[t])
  <2> DEFINE k == [job[t] EXCEPT !.sensors = s]
  <2>1. job'[t] = k
    BY <1>8, Assigned
  <2>2. k.toDel = job[t].toDel /\ k.named = job[t].named /\ k.ids = job[t].ids
    BY <1>1 DEF Jobs
  <2> QED
    BY <1>2, <2>1, <2>2
<1>9. ASSUME NEW a, Failed(t, a) PROVE Carries(job[t], job'[t])
  <2> DEFINE k == [job[t] EXCEPT !.ok = FALSE]
  <2>1. job'[t] = k
    BY <1>9, Assigned DEF Failed
  <2>2. k.toDel = job[t].toDel /\ k.named = job[t].named /\ k.ids = job[t].ids
    BY <1>1 DEF Jobs
  <2> QED
    BY <1>2, <2>1, <2>2
<1>10. CASE NextRoot(t)
  <2>1. ASSUME Set(t, Emplace(job[t], "deleted")) PROVE Carries(job[t], job'[t])
    <3> DEFINE k == Emplace(job[t], "deleted")
    <3>1. job'[t] = k
      BY <2>1, Assigned
    <3>2. k.toDel = job[t].toDel /\ k.named = job[t].named /\ k.ids = job[t].ids
      BY <1>1 DEF Emplace, Jobs
    <3> QED
      BY <1>2, <3>1, <3>2
  <2> QED
    BY <1>7, <1>10, <2>1 DEF NextRoot
<1>11. CASE Descend(t)
  BY <1>4, <1>7, <1>11 DEF Descend
<1>12. CASE Guard(t)
  BY <1>3, <1>8, <1>12 DEF Guard
<1>13. CASE DeleteSensor(t)
  BY <1>8, <1>13 DEF DeleteSensor
<1>14. CASE Refer(t) \/ Deactivate(t) \/ Reactivate(t)
  BY <1>3, <1>4, <1>14 DEF Refer, Deactivate, Reactivate
<1>15. CASE Count(t) \/ Drop(t)
  BY <1>4, <1>9, <1>15 DEF Count, Drop
<1>16. CASE Unmap(t)
  <2> DEFINE i == [job[t] EXCEPT !.ok = TRUE]
  <2>1. i \in Jobs /\ i.toDel = job[t].toDel /\ i.named = job[t].named /\ i.ids = job[t].ids
    BY <1>1 DEF Jobs
  <2>2. Return(t, i, Current(t), job[t].ok)
    BY <1>16 DEF Unmap
  <2> HIDE DEF i
  <2> QED
    BY <1>1, <2>1, <2>2, ReturnCarries
<1>17. ~Report(t)
  BY Assigned DEF Report
<1> QED
  BY <1>5, <1>6, <1>10, <1>11, <1>12, <1>13, <1>14, <1>15, <1>16, <1>17, ExamineCarries DEF Step

LEMMA StepReasoned ==
  ASSUME Inv, Rooted, Linked, GoneInv, NEW t \in Threads, Step(t), NEW l, NEW j, NEW m, NEW k,
         l = pc[t], j = job[t], m = pc'[t], k = job'[t], Reasoned(l, j), Checked(l, j),
         NoSensors(k), m # "idle", clean'
  PROVE  Reasoned(m, k)'
<1>1. ASSUME l \in {"examine", "collect", "descend"} \/ (l = "next" /\ j.todo # <<>>)
      PROVE  Listed(l, j) /\ j.ok /\ refers = {}
  BY <1>1 DEF Reasoned, Single, OnElement, Inner
<1>2. ASSUME m \in {"examine", "collect", "next", "descend", "endless", "guard"}, Listed(m, k), k.ok,
             refers = {}
      PROVE  Reasoned(m, k)
  BY <1>2 DEF Reasoned
<1>3. CASE Examine(t)
  <2>1. l = "examine" /\ UNCHANGED tables
    BY <1>3 DEF Examine
  <2>2. Reasoned(m, k)
    BY <1>1, <1>2, <1>3, <2>1, ExamineReasoned
  <2> QED
    BY <2>1, <2>2, SameReasoned
<1>4. CASE StartCollect(t) \/ StartDelete(t)
  <2>1. l \in {"examine", "collect"} /\ UNCHANGED tables
    BY <1>4 DEF StartCollect, StartDelete
  <2>2. Reasoned(m, k)
    BY <1>1, <1>2, <1>4, <2>1, StartReasoned
  <2> QED
    BY <2>1, <2>2, SameReasoned
<1>5. CASE Collect(t)
  <2>1. l = "collect" /\ UNCHANGED tables
    BY <1>5 DEF Collect
  <2>2. Reasoned(m, k)
    BY <1>1, <1>2, <1>5, <2>1, CollectReasoned
  <2> QED
    BY <2>1, <2>2, SameReasoned
<1>6. CASE NextRoot(t)
  <2>1. l = "next" /\ j.todo # <<>> /\ UNCHANGED tables
    BY <1>6 DEF NextRoot
  <2>2. Reasoned(m, k)
    BY <1>1, <1>2, <1>6, <2>1, NextRootReasoned
  <2> QED
    BY <2>1, <2>2, SameReasoned
<1>7. CASE Descend(t)
  <2>1. l = "descend" /\ UNCHANGED tables
    BY <1>7 DEF Descend
  <2>2. Reasoned(m, k)
    BY <1>1, <1>2, <1>7, <2>1, DescendReasoned
  <2> QED
    BY <2>1, <2>2, SameReasoned
<1>8. CASE Guard(t)
  <2>1. UNCHANGED tables
    BY <1>8 DEF Guard
  <2> QED
    BY <1>8, <2>1, GuardReasoned, SameReasoned
<1>9. CASE Refer(t) \/ Deactivate(t) \/ Reactivate(t)
  <2>1. UNCHANGED tables
    BY <1>9 DEF Refer, Deactivate, Reactivate
  <2> QED
    BY <1>9, <2>1, ReferReasoned, SameReasoned
<1>10. CASE Count(t)
  <2>1. UNCHANGED tables
    BY <1>10 DEF Count
  <2> QED
    BY <1>10, <2>1, CountReasoned, SameReasoned
<1>11. CASE Unmap(t)
  <2>1. UNCHANGED tables
    BY <1>11 DEF Unmap
  <2> QED
    BY <1>11, <2>1, UnmapReasoned, SameReasoned
<1>12. ~Report(t)
  BY Assigned DEF Report
<1> QED
  BY <1>3, <1>4, <1>5, <1>6, <1>7, <1>8, <1>9, <1>10, <1>11, <1>12, SensorReasoned, DropReasoned
     DEF Step

LEMMA ReceivedFields ==
  ASSUME NEW j \in Jobs, NEW N
  PROVE  LET k == [j EXCEPT !.named = N]
         IN /\ k.ids = j.ids /\ k.toDel = j.toDel /\ k.kids = j.kids /\ k.fed = j.fed
            /\ k.todo = j.todo /\ k.stack = j.stack /\ k.result = j.result /\ k.ok = j.ok
            /\ k.named = N
  BY DEF Jobs

LEMMA RequestReasoned ==
  ASSUME Inv, NEW t \in Threads, Request(t), NEW m, NEW k, m = pc'[t], k = job'[t], NoSensors(k)
  PROVE  Reasoned(m, k)'
<1>1. UNCHANGED tables
  BY DEF Request, DeleteList, DeleteOne, Receive
<1>2. ASSUME NEW j \in Jobs, Receive(t, j)
      PROVE  /\ refers = {}
             /\ k.ids = j.ids /\ k.toDel = j.toDel /\ k.kids = j.kids /\ k.fed = j.fed
             /\ k.todo = j.todo /\ k.stack = j.stack /\ k.result = j.result /\ k.ok = j.ok
  <2> DEFINE N == {a \in Assets : Referred(a)}
  <2>1. k = [j EXCEPT !.named = N]
    BY <1>2, Assigned DEF Receive
  <2>2. (N = {}) => refers = {}
    BY DEF Referred, Inv, TypeOK
  <2> HIDE DEF N
  <2>3. k.named = N
    BY <1>2, <2>1, ReceivedFields
  <2>4. /\ k.ids = j.ids /\ k.toDel = j.toDel /\ k.kids = j.kids /\ k.fed = j.fed
        /\ k.todo = j.todo /\ k.stack = j.stack /\ k.result = j.result /\ k.ok = j.ok
    BY <1>2, <2>1, ReceivedFields
  <2> QED
    BY <2>2, <2>3, <2>4 DEF NoSensors
<1>3. ASSUME NEW S \in Lists, DeleteList(t, S) PROVE Reasoned(m, k)
  <2> DEFINE j == [NoJob EXCEPT !.ids = S, !.todo = ById[S]]
  <2>1. S \in SUBSET Assets /\ ById[S] \in Seq(Assets) /\ Elements(ById[S]) = S
    BY DeleteAssumption
  <2>2. j \in Jobs
    BY <2>1, NoJobType DEF Jobs
  <2>3. /\ j.ids = S /\ j.todo = ById[S] /\ j.toDel = <<>> /\ j.ok /\ j.kids = [a \in Assets |-> {}]
        /\ j.fed = [a \in Assets |-> {}] /\ j.result = [a \in Assets |-> "none"]
    BY DEF NoJob
  <2> HIDE DEF j
  <2>4. Receive(t, j) /\ Goto(t, "examine")
    BY <1>3 DEF DeleteList, j
  <2>5. m = "examine" /\ m \notin Inner
    BY <2>4, Assigned DEF Inner
  <2>6. /\ refers = {} /\ k.ok /\ k.ids = S /\ k.todo = ById[S] /\ k.toDel = <<>>
        /\ k.kids = [a \in Assets |-> {}] /\ k.fed = [a \in Assets |-> {}]
        /\ k.result = [a \in Assets |-> "none"]
    BY <1>2, <2>2, <2>3, <2>4
  <2>7. Refused(k) = {} /\ Elements(k.toDel) = {} /\ Elements(k.todo) = k.ids
    BY <2>1, <2>6, NoElements DEF Refused
  <2>8. Contained(k) /\ Truthful(k) /\ Accounted(k, Elements(k.todo)) /\ Present(m, k)
    BY <2>6, <2>7 DEF Contained, Truthful, Accounted, Present
  <2>9. Barred(k)
    <3>1. {} \in SUBSET rows /\ Stuck({}, k.ids)
      BY DEF Stuck
    <3> QED
      BY <2>6, <2>7, <3>1 DEF Barred
  <2>10. Listed(m, k)
    BY <2>5, <2>7, <2>8, <2>9 DEF Listed
  <2> QED
    BY <2>5, <2>6, <2>10 DEF Reasoned
<1>4. ASSUME NEW a \in Ones, DeleteOne(t, a) PROVE Reasoned(m, k)
  <2> DEFINE n == Loaded(NoJob, {a})
             j == [n EXCEPT !.ids = {a}, !.todo = <<a>>, !.stack = <<a>>]
  <2>1. a \in Assets /\ <<a>> \in Seq(Assets)
    BY DeleteAssumption
  <2>2. n \in Jobs /\ n.ok = NoJob.ok /\ n.result = NoJob.result
    BY <2>1, NoJobType, LoadedType
  <2>3. NoJob.ok /\ NoJob.result = [b \in Assets |-> "none"]
    BY DEF NoJob
  <2> HIDE DEF n
  <2>4. j \in Jobs /\ j.stack = <<a>> /\ j.todo = <<a>> /\ j.result = n.result /\ j.ok = n.ok
    BY <2>1, <2>2 DEF Jobs
  <2> HIDE DEF j
  <2>5. Receive(t, j) /\ Goto(t, "guard")
    BY <1>4 DEF DeleteOne, j, n
  <2>6. m = "guard" /\ m \in OnElement
    BY <2>5, Assigned DEF OnElement, Inner
  <2>7. /\ refers = {} /\ k.ok /\ k.stack = <<a>> /\ k.todo = <<a>>
        /\ k.result = [b \in Assets |-> "none"]
    BY <1>2, <2>2, <2>3, <2>4, <2>5
  <2>8. Refused(k) = {}
    BY <2>7 DEF Refused
  <2>9. Single(m, k)
    BY <2>1, <2>6, <2>7, <2>8 DEF Single
  <2> QED
    BY <2>6, <2>7, <2>9 DEF Reasoned
<1> QED
  BY <1>1, <1>3, <1>4, SameReasoned DEF Request

LEMMA InitReason == Init => ReasonInv
  BY DEF Init, ReasonInv

LEMMA NextReason ==
  ASSUME Inv, Rooted, Linked, GoneInv, OneCall, LastInv, ReasonInv, [Next]_vars
  PROVE  ReasonInv'
<1>0. SUFFICES ASSUME clean', NEW u \in Threads, NEW m \in PCs, NEW k \in Jobs, pc'[u] = m,
                      job'[u] = k, m # "idle", NoSensors(k)
               PROVE  Reasoned(m, k)'
  BY DEF ReasonInv
<1>1. CASE UNCHANGED vars
  <2>1. UNCHANGED tables /\ pc[u] = m /\ job[u] = k /\ clean
    BY <1>0, <1>1 DEF vars, tables, db
  <2>2. Reasoned(m, k)
    BY <1>0, <2>1 DEF ReasonInv
  <2> QED
    BY <2>1, <2>2, SameReasoned
<1>2. CASE Change
  <2>1. ~Busy /\ pc' = pc
    BY <1>0, <1>2 DEF Change
  <2> QED
    BY <1>0, <2>1 DEF Busy
<1>3. ASSUME NEW t \in Threads, Request(t) PROVE Reasoned(m, k)'
  <2>1. ~Busy /\ Elsewhere(t)
    BY <1>0, <1>3, RequestFrame DEF Request, DeleteList, DeleteOne, Receive, Frame
  <2>2. u = t
    BY <1>0, <2>1 DEF Busy, Elsewhere
  <2> QED
    BY <1>0, <1>3, <2>2, RequestReasoned
<1>4. ASSUME NEW t \in Threads, Step(t) PROVE Reasoned(m, k)'
  <2>1. clean /\ pc[t] # "idle" /\ Elsewhere(t)
    BY <1>0, <1>4, StepClean, StepBusy, StepElsewhere
  <2>2. u = t
    BY <1>0, <2>1 DEF OneCall, Alone, Elsewhere
  <2>3. NoSensors(job[t])
    <3>1. Carries(job[t], k)
      BY <1>0, <1>4, <2>2, StepCarries
    <3> QED
      BY <1>0, <3>1, CarriesOn
  <2>4. Reasoned(pc[t], job[t]) /\ Checked(pc[t], job[t])
    <3>1. pc[t] \in PCs /\ job[t] \in Jobs
      BY JobFacts
    <3> QED
      BY <2>1, <2>3, <3>1 DEF ReasonInv, LastInv
  <2> QED
    BY <1>0, <1>4, <2>2, <2>4, StepReasoned
<1> QED
  BY <1>1, <1>2, <1>3, <1>4 DEF Next

(* What a call that reports has refused has a reason.                      *)
LEMMA ReportExplains ==
  ASSUME Inv, ReasonInv, clean, NEW t \in Threads, Reports(t), Next, NoSensors(job[t]),
         NEW a \in Assets, job[t].result[a] = "refused"
  PROVE  Explained(a)
<1>1. pc[t] = "next" /\ pc'[t] = "idle" /\ pc[t] \in PCs /\ job[t] \in Jobs
  BY JobFacts DEF Reports
<1>2. Reasoned("next", job[t]) /\ a \in Refused(job[t])
  BY <1>1 DEF ReasonInv, Refused
<1>3. CASE Single("next", job[t])
  BY <1>2, <1>3 DEF Single, OnElement, Inner
<1>4. CASE Listed("next", job[t]) /\ a \in rows
  <2>1. PICK K \in SUBSET rows : Stuck(K, job[t].ids) /\ a \in K
    BY <1>2, <1>4 DEF Listed, Barred
  <2>2. a \in job[t].ids
    BY <1>2, <1>4 DEF Listed
  <2>3. ASSUME NEW x \in K, Holds(a, x) PROVE Explained(a)
    <3>1. parent[x] = a => Children(a) # {}
      BY <2>1, <2>3 DEF Children
    <3>2. <<a, x>> \in links => HasLinkedAssets(a)
      BY DEF HasLinkedAssets
    <3> QED
      BY <2>3, <3>1, <3>2 DEF Holds, Explained
  <2>4. Permanent(a) => Explained(a)
    BY DEF Permanent, Explained
  <2> QED
    BY <2>1, <2>2, <2>3, <2>4 DEF Stuck
<1> QED
  BY <1>2, <1>3, <1>4 DEF Reasoned, Explained

(* One call at a time refuses an asset only for a reason that is still     *)
(* there when it returns: an asset below it, one that it feeds, or one of  *)
(* the places that are never deleted.  Calls that sensors disturb apart,   *)
(* the order in which the map is deleted never leaves an asset behind that *)
(* could have gone.                                                        *)
THEOREM RefusalsKeepReasons == Spec => RefusalsAreExplained
<1> DEFINE A == \A t \in Threads : (Reports(t) /\ clean /\ NoSensors(job[t])) =>
                  \A a \in Assets : job[t].result[a] = "refused" => Explained(a)
<1>1. ASSUME Inv, ReasonInv, [Next]_vars PROVE [A]_vars
  BY <1>1, ReportExplains
<1>2. Inv /\ Rooted /\ Linked /\ GoneInv /\ OneCall /\ LastInv /\ ReasonInv /\ [Next]_vars => ReasonInv'
  BY NextReason
<1>3. Inv /\ GoneInv /\ [Next]_vars => GoneInv'
  BY NextGone
<1>4. Inv /\ Rooted /\ OneCall /\ LastInv /\ [Next]_vars => LastInv'
  BY NextLast
<1>5. [][A]_vars => RefusalsAreExplained
  BY PTL DEF RefusalsAreExplained
<1> QED
  BY <1>1, <1>2, <1>3, <1>4, <1>5, InitGone, InitLast, InitReason, SpecInv, SpecRooted, SpecLinked,
     SpecOneCall, PTL DEF Spec
=============================================================================
