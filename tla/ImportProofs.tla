---------------------------- MODULE ImportProofs ----------------------------
(***************************************************************************)
(* Theorems about Import, for any tables, documents and creations, any     *)
(* number of threads and deletions.                                        *)
(***************************************************************************)
EXTENDS Import, FiniteSetTheorems, SequenceTheorems, TLAPS

Looked == {"resolve", "attributes", "place", "conflict", "write"}
Unwritten == Looked \cup {"identify"}
Written == {"activate", "finish"}
InRow == Unwritten \cup Written
Before == {"idle", "duplicate", "activable", "limits"}
Working(t) == at[t].pc \notin {"idle", "done"}

(* Where a thread is in its call, and what it has written there.           *)
LocalsFit(t) ==
  /\ call[t].mode = "none" => at[t].pc = "idle"
  /\ at[t].pc \in {"duplicate", "activable", "configure"} => call[t].mode = "create"
  /\ at[t].pc \in Before => at[t].row = 1 /\ at[t].results = <<>> /\ at[t].wrote = None
  /\ at[t].pc \in InRow => /\ at[t].row \in 1 .. Len(call[t].rows)
                           /\ Len(at[t].results) = at[t].row - 1
  /\ at[t].pc \in Unwritten => at[t].wrote = None
  /\ at[t].pc \in Written => at[t].wrote # None
  /\ at[t].pc \in {"answer", "configure"} => at[t].results # <<>>
  /\ Len(at[t].results) <= Len(call[t].rows)
  /\ at[t].id = None \/ at[t].id < fresh
  /\ at[t].wrote = None \/ at[t].wrote < fresh
  /\ \A a \in at[t].seen : a < fresh
  /\ \A i \in DOMAIN at[t].results :
       at[t].results[i].wrote = None \/ at[t].results[i].wrote < fresh

TablesFit ==
  /\ assets \in [DOMAIN assets -> Asset]
  /\ DOMAIN assets \subseteq 1 .. fresh - 1
  /\ Closed(assets)
  /\ credits \subseteq DOMAIN assets

TInv == TypeOK /\ call \in Calls /\ fresh \in Id /\ \A t \in Threads : LocalsFit(t)

-----------------------------------------------------------------------------
(* A finite set of numbers has a largest one.                              *)
LEMMA Largest ==
  ASSUME NEW S \in SUBSET Nat, IsFiniteSet(S), S # {}
  PROVE  Max(S) \in S /\ \A x \in S : x <= Max(S)
<1> DEFINE Higher(k) == {x \in S : x > k}
           F == {Higher(k) : k \in S}
<1>1. IsWellFoundedOn(StrictSubsetOrdering(S), SUBSET S)
  BY FS_StrictSubsetOrderingWellFounded, FS_FiniteSubsetsOfFinite
<1>2. F \subseteq SUBSET S /\ F # {}
  OBVIOUS
<1>3. PICK U \in F : \A V \in F : <<V, U>> \notin StrictSubsetOrdering(S)
  <2> HIDE DEF F
  <2> QED
    BY <1>1, <1>2, WFMin
<1>4. PICK k \in S : U = Higher(k)
  OBVIOUS
<1>5. ASSUME NEW x \in S, x > k
      PROVE  FALSE
  <2>1. Higher(x) \in F /\ Higher(x) \subseteq Higher(k)
    <3>1. Higher(x) \in F
      OBVIOUS
    <3>2. ASSUME NEW y \in S, y > x
          PROVE  y > k
      <4>1. k \in Nat /\ x \in Nat /\ y \in Nat
        OBVIOUS
      <4> QED
        BY <1>5, <3>2, <4>1
    <3> QED
      BY <3>1, <3>2
  <2>2. x \in Higher(k) /\ x \notin Higher(x)
    BY <1>5
  <2>3. <<Higher(x), U>> \notin StrictSubsetOrdering(S)
    <3> HIDE DEF Higher, F
    <3> QED
      BY <2>1, <1>3
  <2>4. Higher(x) \in SUBSET S /\ Higher(k) \in SUBSET S
    OBVIOUS
  <2> HIDE DEF Higher, F
  <2> QED
    BY <2>1, <2>2, <2>3, <2>4, <1>4 DEF StrictSubsetOrdering
<1>6. \A x \in S : k >= x
  BY <1>5
<1> QED
  BY <1>6 DEF Max

-----------------------------------------------------------------------------
(* What the steps do to the locals of the thread that makes them.          *)
LEMMA LocalsSet ==
  ASSUME at \in [Threads -> Locals], NEW t \in Threads, NEW x \in Locals,
         at' = [at EXCEPT ![t] = x]
  PROVE  /\ at' \in [Threads -> Locals] /\ at'[t] = x
         /\ \A u \in Threads \ {t} : at'[u] = at[u]
  OBVIOUS

LEMMA Gone ==
  ASSUME at \in [Threads -> Locals], NEW t \in Threads, NEW pc \in PCs, Go(t, pc)
  PROVE  /\ at' \in [Threads -> Locals] /\ at'[t] = [at[t] EXCEPT !.pc = pc]
         /\ \A u \in Threads \ {t} : at'[u] = at[u]
<1>1. at' = [at EXCEPT ![t] = [at[t] EXCEPT !.pc = pc]]
  BY DEF Go
<1>2. at[t] \in Locals
  OBVIOUS
<1>3. [at[t] EXCEPT !.pc = pc] \in Locals
  BY <1>2 DEF Locals
<1> QED
  BY <1>1, <1>3, LocalsSet

LEMMA Answered ==
  ASSUME at \in [Threads -> Locals], NEW t \in Threads, NEW answer \in Answers,
         Answer(t, answer)
  PROVE  /\ at' \in [Threads -> Locals]
         /\ at'[t] = [at[t] EXCEPT !.pc = "done", !.answer = answer]
         /\ \A u \in Threads \ {t} : at'[u] = at[u]
         /\ lock' = IF lock = t THEN None ELSE lock
<1> DEFINE x == [at[t] EXCEPT !.pc = "done", !.answer = answer]
<1>1. at' = [at EXCEPT ![t] = x] /\ lock' = IF lock = t THEN None ELSE lock
  BY DEF Answer, Released
<1>2. x \in Locals
  BY ZenonT(60) DEF Locals, Answers, PCs
<1> QED
  BY <1>1, <1>2, LocalsSet

LEMMA AfterKinds ==
  ASSUME NEW t \in Threads, NEW outcome
  PROVE  /\ After(t, outcome) \in {"identify", "configure", "answer"}
         /\ After(t, outcome) = "identify" <=> at[t].row < Len(call[t].rows)
         /\ After(t, outcome) = "configure" => call[t].mode = "create"
<1>1. CASE at[t].row < Len(call[t].rows)
  BY <1>1 DEF After
<1>2. CASE ~(at[t].row < Len(call[t].rows))
  BY <1>2 DEF After
<1> QED
  BY <1>1, <1>2

LEMMA Successor ==
  ASSUME NEW n \in Nat
  PROVE  n + 1 \in Nat
OBVIOUS

LEMMA RowClosed ==
  ASSUME at \in [Threads -> Locals], NEW t \in Threads, NEW outcome \in {"imported", "refused"},
         NEW why \in {"written", "checks", "licence", "unanswered", "lookup", "unread"},
         outcome = "imported" => at[t].wrote \in Id,
         Close(t, outcome, why)
  PROVE  /\ at' \in [Threads -> Locals]
         /\ at'[t].pc = After(t, outcome)
         /\ at'[t].row = IF After(t, outcome) = "identify" THEN at[t].row + 1 ELSE at[t].row
         /\ at'[t].results = Append(at[t].results, Outcome(t, outcome, why))
         /\ at'[t].seen = at[t].seen \cup (IF outcome = "imported" THEN {at[t].wrote} ELSE {})
         /\ at'[t].wrote = None /\ at'[t].id = at[t].id
         /\ \A u \in Threads \ {t} : at'[u] = at[u]
<1> DEFINE pc == After(t, outcome)
           row == IF After(t, outcome) = "identify" THEN at[t].row + 1 ELSE at[t].row
           results == Append(at[t].results, Outcome(t, outcome, why))
           seen == at[t].seen \cup (IF outcome = "imported" THEN {at[t].wrote} ELSE {})
           x == [at[t] EXCEPT !.pc = pc, !.row = row, !.results = results, !.seen = seen,
                              !.wrote = None]
<1>1. at' = [at EXCEPT ![t] = x]
  BY Zenon DEF Close
<1>2. at[t] \in Locals
  OBVIOUS
<1>3. results \in Seq(Result)
  <2>1. at[t].results \in Seq(Result) /\ at[t].wrote \in Ref
    BY <1>2 DEF Locals
  <2>2. Outcome(t, outcome, why) \in Result
    BY <2>1 DEF Outcome, Result
  <2> HIDE DEF pc, row, seen, x
  <2> QED
    BY <2>1, <2>2, AppendProperties
<1>4. pc \in PCs
  BY AfterKinds DEF PCs
<1>5. row \in Nat /\ seen \in SUBSET Id
  <2>1. at[t].row \in Nat /\ at[t].seen \in SUBSET Id
    BY <1>2 DEF Locals
  <2>2. row \in Nat
    <3>1. CASE pc = "identify"
      <4>1. at[t].row + 1 \in Nat
        BY <2>1, Successor
      <4> QED
        BY <3>1, <4>1
    <3>2. CASE pc # "identify"
      <4>1. row = at[t].row
        BY <3>2
      <4> QED
        BY <2>1, <4>1
    <3> QED
      BY <3>1, <3>2
  <2>3. CASE outcome = "imported"
    <3>1. seen = at[t].seen \cup {at[t].wrote}
      BY <2>3
    <3> QED
      BY <2>1, <2>2, <2>3, <3>1
  <2>4. CASE outcome # "imported"
    <3>1. seen = at[t].seen
      BY <2>4
    <3> QED
      BY <2>1, <2>2, <3>1
  <2> QED
    BY <2>3, <2>4
<1> HIDE DEF pc, row, results, seen
<1>a. None \in Ref
  BY DEF Ref
<1>6. /\ x \in Locals /\ x.pc = pc /\ x.row = row /\ x.results = results /\ x.seen = seen
      /\ x.wrote = None /\ x.id = at[t].id
  BY <1>2, <1>3, <1>4, <1>5, <1>a DEF Locals
<1> HIDE DEF x
<1>7. at' \in [Threads -> Locals] /\ at'[t] = x /\ \A u \in Threads \ {t} : at'[u] = at[u]
  BY <1>1, <1>6, LocalsSet
<1> QED
  BY <1>6, <1>7 DEF pc, row, results, seen

-----------------------------------------------------------------------------
(* What is called, and the names of the tables.                            *)
LEMMA CallFacts ==
  ASSUME call \in Calls, NEW t \in Threads
  PROVE  /\ call[t].rows \in Seq(RowsOfDocument) /\ call[t].notify \in BOOLEAN
         /\ call[t].mode \in {"none", "csv", "create"}
         /\ call[t].mode # "none" => Len(call[t].rows) > 0
         /\ call[t].mode = "create" => Len(call[t].rows) = 1
<1>1. call \in [Threads -> Call]
  BY CallAssumption
<1>2. call[t] \in Call
  BY <1>1
<1>3. /\ call[t].mode = "csv" => Len(call[t].rows) > 0
      /\ call[t].mode = "create" => Len(call[t].rows) = 1
  BY CallAssumption
<1>4. /\ call[t].rows \in Seq(RowsOfDocument) /\ call[t].notify \in BOOLEAN
      /\ call[t].mode \in {"none", "csv", "create"}
  BY <1>2 DEF Call
<1>5. call[t].mode = "create" => Len(call[t].rows) > 0
  BY <1>3, SMT
<1>6. call[t].mode # "none" => Len(call[t].rows) > 0
  BY <1>3, <1>4, <1>5, Zenon
<1> QED
  BY <1>3, <1>4, <1>6, Zenon

LEMMA RowNumber ==
  ASSUME TInv, NEW t \in Threads, at[t].pc \in InRow
  PROVE  at[t].row \in 1 .. Len(call[t].rows) /\ Len(at[t].results) = at[t].row - 1
<1>1. LocalsFit(t)
  BY DEF TInv
<1> QED
  BY <1>1, Zenon DEF LocalsFit

LEMMA RowFacts ==
  ASSUME TInv, NEW t \in Threads, at[t].pc \in InRow
  PROVE  Row(t) \in RowsOfDocument
<1>1. call[t].rows \in Seq(RowsOfDocument)
  BY CallFacts DEF TInv
<1>2. at[t].row \in 1 .. Len(call[t].rows)
  BY DEF TInv, LocalsFit
<1> QED
  BY <1>1, <1>2 DEF Row

LEMMA NameFacts ==
  ASSUME TablesFit, fresh \in Id, NEW n
  PROVE  /\ InternalName(n) \in DOMAIN assets \cup {None}
         /\ InternalName(n) = None <=> Named(n) = {}
         /\ InternalName(n) # None => InternalName(n) \in Named(n)
         /\ Named(n) \subseteq DOMAIN assets
         /\ None \notin DOMAIN assets /\ DOMAIN assets \subseteq Id
<1>1. DOMAIN assets \subseteq Id /\ None \notin DOMAIN assets
  <2>1. 1 .. fresh - 1 \subseteq Id
    BY DEF Id
  <2>2. None \notin Id
    BY ImportAssumption DEF Id
  <2> QED
    BY <2>1, <2>2 DEF TablesFit
<1>2. Named(n) \subseteq DOMAIN assets
  BY DEF Named
<1>3. CASE Named(n) = {}
  <2>1. InternalName(n) = None
    BY <1>3 DEF InternalName
  <2> QED
    BY <1>1, <1>2, <1>3, <2>1
<1>4. CASE Named(n) # {}
  <2>1. InternalName(n) = CHOOSE a \in Named(n) : TRUE
    BY <1>4 DEF InternalName
  <2>2. InternalName(n) \in Named(n)
    BY <1>4, <2>1
  <2> QED
    BY <1>1, <1>2, <1>4, <2>2
<1> QED
  BY <1>3, <1>4

-----------------------------------------------------------------------------
(* The parts of TInv that a step can disturb.                              *)
LEMMA Tables == TInv => TablesFit /\ at \in [Threads -> Locals] /\ fresh \in Id
BY DEF TInv, TypeOK, TablesFit

LEMMA FitElsewhere ==
  ASSUME TInv, NEW u \in Threads, at'[u] = at[u], call' = call, fresh' \in {fresh, fresh + 1}
  PROVE  LocalsFit(u)'
<1>1. LocalsFit(u) /\ fresh \in Nat
  BY DEF TInv, Id
<1>2. at[u] \in Locals
  BY Tables
<1>3. at[u].id \in Ref /\ at[u].wrote \in Ref /\ at[u].seen \in SUBSET Id
      /\ at[u].results \in Seq(Result)
  BY <1>2 DEF Locals
<1>4. \A i \in DOMAIN at[u].results : at[u].results[i].wrote \in Ref
  <2>1. \A i \in DOMAIN at[u].results : at[u].results[i] \in Result
    BY <1>3
  <2> QED
    BY <2>1 DEF Result
<1>5. \A a \in Ref : a = None \/ a < fresh => a = None \/ a < fresh'
  BY <1>1 DEF Ref, Id
<1>6. \A a \in Id : a < fresh => a < fresh'
  BY <1>1 DEF Id
<1> QED
  BY <1>1, <1>3, <1>4, <1>5, <1>6 DEF LocalsFit

LEMMA InvKept ==
  ASSUME TInv, NEW t \in Threads,
         call' = call, fresh' \in {fresh, fresh + 1}, at' \in [Threads -> Locals],
         \A u \in Threads \ {t} : at'[u] = at[u],
         TablesFit', LocalsFit(t)',
         \/ /\ lock' = lock
            /\ \/ call[t].mode # "create"
               \/ at'[t].pc \notin {"idle", "done"} /\ at[t].pc \notin {"idle", "done"}
         \/ /\ lock' = IF lock = t THEN None ELSE lock
            /\ at'[t].pc = "done"
         \/ lock = None /\ lock' = t /\ call[t].mode = "create" /\ at'[t].pc \notin {"idle", "done"}
  PROVE  TInv'
<1>1. \A u \in Threads : LocalsFit(u)'
  BY FitElsewhere
<1>2. fresh' \in Id /\ call' \in Calls
  BY DEF TInv, Id
<1>3. lock \in Threads \cup {None} /\ None \notin Threads
  BY ImportAssumption DEF TInv, TypeOK
<1>4. \A u \in Threads : lock = u <=> call[u].mode = "create" /\ at[u].pc \notin {"idle", "done"}
  BY DEF TInv, TypeOK
<1>5. lock' \in Threads \cup {None}
  BY <1>3
<1>6. ASSUME NEW u \in Threads
      PROVE  lock' = u <=> call'[u].mode = "create" /\ at'[u].pc \notin {"idle", "done"}
  <2>1. CASE u = t
    BY <1>3, <1>4, <2>1
  <2>2. CASE u # t
    BY <1>3, <1>4, <2>2
  <2> QED
    BY <2>1, <2>2
<1> QED
  BY <1>1, <1>2, <1>5, <1>6 DEF TInv, TypeOK, TablesFit

LEMMA TablesKept ==
  ASSUME TInv, assets' = assets, fresh' = fresh, credits' \subseteq DOMAIN assets
  PROVE  TablesFit'
BY Tables DEF TablesFit, Closed

LEMMA GoKept ==
  ASSUME TInv, NEW t \in Threads, NEW pc \in PCs \ {"idle", "done", "answer", "configure"},
         Go(t, pc), call[t].mode # "none",
         assets' = assets, fresh' = fresh, call' = call, credits' \subseteq DOMAIN assets,
         \/ lock' = lock /\ (call[t].mode # "create" \/ at[t].pc \notin {"idle", "done"})
         \/ lock = None /\ lock' = t /\ call[t].mode = "create",
         pc \in {"duplicate", "activable"} => call[t].mode = "create",
         pc \in Before => at[t].pc \in Before,
         pc \in Unwritten => at[t].pc \in Before \cup Unwritten,
         pc \in Written => at[t].pc \in Written
  PROVE  TInv'
<1>1. /\ at' \in [Threads -> Locals] /\ at'[t] = [at[t] EXCEPT !.pc = pc]
      /\ \A u \in Threads \ {t} : at'[u] = at[u]
  BY Tables, Gone
<1>2. at[t] \in Locals
  BY Tables
<1>3. /\ at'[t].pc = pc /\ at'[t].row = at[t].row /\ at'[t].id = at[t].id
      /\ at'[t].wrote = at[t].wrote /\ at'[t].seen = at[t].seen
      /\ at'[t].results = at[t].results
  BY <1>1, <1>2 DEF Locals
<1>4. TablesFit'
  BY TablesKept
<1>5. LocalsFit(t) /\ Len(call[t].rows) > 0 /\ call[t].rows \in Seq(RowsOfDocument)
  BY CallFacts DEF TInv
<1>6. pc \in InRow => at[t].pc \in Before \cup InRow
  BY DEF InRow
<1>7. LocalsFit(t)'
  <2>1. pc \in InRow => /\ at[t].row \in 1 .. Len(call[t].rows)
                        /\ Len(at[t].results) = at[t].row - 1
    <3>1. CASE at[t].pc \in Before
      <4>1. at[t].row = 1 /\ at[t].results = <<>>
        BY <1>5, <3>1 DEF LocalsFit
      <4> QED
        BY <1>5, <4>1
    <3>2. CASE at[t].pc \in InRow
      BY <1>5, <3>2 DEF LocalsFit
    <3> QED
      BY <1>6, <3>1, <3>2
  <2>2. pc \in Before => at[t].row = 1 /\ at[t].results = <<>> /\ at[t].wrote = None
    BY <1>5 DEF LocalsFit
  <2>3. pc \in Unwritten => at[t].wrote = None
    BY <1>5 DEF LocalsFit
  <2>4. pc \in Written => at[t].wrote # None
    BY <1>5 DEF LocalsFit
  <2>5. pc \notin {"answer", "configure", "idle"}
    OBVIOUS
  <2> QED
    BY <1>3, <1>5, <2>1, <2>2, <2>3, <2>4, <2>5 DEF LocalsFit
<1>8. at'[t].pc \notin {"idle", "done"}
  BY <1>3
<1> QED
  BY <1>1, <1>4, <1>7, <1>8, InvKept

LEMMA AnswerKept ==
  ASSUME TInv, NEW t \in Threads, NEW answer \in Answers, Answer(t, answer),
         call[t].mode # "none",
         assets' = assets, fresh' = fresh, call' = call, credits' = credits
  PROVE  TInv'
<1>1. /\ at' \in [Threads -> Locals]
      /\ at'[t] = [at[t] EXCEPT !.pc = "done", !.answer = answer]
      /\ \A u \in Threads \ {t} : at'[u] = at[u]
      /\ lock' = IF lock = t THEN None ELSE lock
  BY Tables, Answered
<1>2. at[t] \in Locals
  BY Tables
<1>3. /\ at'[t].pc = "done" /\ at'[t].row = at[t].row /\ at'[t].id = at[t].id
      /\ at'[t].wrote = at[t].wrote /\ at'[t].seen = at[t].seen
      /\ at'[t].results = at[t].results
  BY <1>1, <1>2 DEF Locals
<1>4. TablesFit'
  BY TablesKept, Tables DEF TablesFit
<1>5. LocalsFit(t)
  BY DEF TInv
<1>6. LocalsFit(t)'
  BY <1>3, <1>5 DEF LocalsFit, Before, InRow, Unwritten, Written, Looked
<1> QED
  BY <1>1, <1>3, <1>4, <1>6, InvKept

LEMMA Lengthened ==
  ASSUME NEW q \in Seq(Result), NEW e \in Result, NEW row \in Nat, Len(q) = row - 1,
         NEW r, r = Append(q, e)
  PROVE  /\ r \in Seq(Result) /\ r # <<>> /\ Len(r) = row /\ Len(r) = (row + 1) - 1
         /\ DOMAIN r = 1 .. row
         /\ DOMAIN q = 1 .. row - 1 /\ row \notin DOMAIN q
         /\ \A i \in DOMAIN q : r[i] = q[i]
         /\ \A i \in DOMAIN r : i = row \/ i \in DOMAIN q
         /\ r[row] = e
<1>1. /\ r \in Seq(Result) /\ r # << >> /\ Len(r) = Len(q) + 1
      /\ \A i \in 1 .. Len(q) : r[i] = q[i]
      /\ r[Len(q) + 1] = e
  BY AppendProperties
<1>2. Len(q) + 1 = row /\ DOMAIN q = 1 .. row - 1 /\ DOMAIN r = 1 .. Len(r)
  BY <1>1
<1> QED
  BY <1>1, <1>2

LEMMA NextRow ==
  ASSUME NEW row \in Nat, NEW n \in Nat, row \in 1 .. n
  PROVE  row <= n /\ row \in Nat /\ (row < n => row + 1 \in 1 .. n)
OBVIOUS

LEMMA CloseKept ==
  ASSUME TInv, NEW t \in Threads, at[t].pc \in InRow,
         NEW outcome \in {"imported", "refused"},
         NEW why \in {"written", "checks", "licence", "unanswered", "lookup", "unread"},
         outcome = "imported" => at[t].pc \in Written,
         Close(t, outcome, why),
         assets' = assets, fresh' = fresh, call' = call, credits' \subseteq DOMAIN assets,
         lock' = lock
  PROVE  TInv'
<1>1. LocalsFit(t) /\ at[t] \in Locals
  BY Tables DEF TInv
<1>2. /\ at[t].row \in 1 .. Len(call[t].rows) /\ Len(at[t].results) = at[t].row - 1
      /\ at[t].results \in Seq(Result) /\ at[t].wrote \in Ref /\ at[t].seen \in SUBSET Id
      /\ Len(call[t].rows) \in Nat /\ at[t].row \in Nat
  <2>1. /\ at[t].results \in Seq(Result) /\ at[t].wrote \in Ref /\ at[t].seen \in SUBSET Id
        /\ at[t].row \in Nat
    BY <1>1 DEF Locals
  <2>2. call[t].rows \in Seq(RowsOfDocument)
    BY CallFacts DEF TInv
  <2>3. Len(call[t].rows) \in Nat
    BY <2>2, LenProperties, Zenon
  <2>4. at[t].row \in 1 .. Len(call[t].rows) /\ Len(at[t].results) = at[t].row - 1
    BY RowNumber
  <2> QED
    BY <2>1, <2>3, <2>4
<1>3. outcome = "imported" => at[t].wrote \in Id
  BY <1>1, <1>2 DEF LocalsFit, Ref
<1>4. /\ at' \in [Threads -> Locals]
      /\ at'[t].pc = After(t, outcome)
      /\ at'[t].row = IF After(t, outcome) = "identify" THEN at[t].row + 1 ELSE at[t].row
      /\ at'[t].results = Append(at[t].results, Outcome(t, outcome, why))
      /\ at'[t].seen = at[t].seen \cup (IF outcome = "imported" THEN {at[t].wrote} ELSE {})
      /\ at'[t].wrote = None /\ at'[t].id = at[t].id
      /\ \A u \in Threads \ {t} : at'[u] = at[u]
  BY <1>3, Tables, RowClosed
<1>5. TablesFit'
  BY TablesKept
<1>6. at[t].pc \notin {"idle", "done"} /\ at'[t].pc \notin {"idle", "done"}
  BY <1>4, AfterKinds DEF InRow, Unwritten, Written, Looked
<1>7. LocalsFit(t)'
  <2>1. Outcome(t, outcome, why) \in Result /\ Outcome(t, outcome, why).wrote = at[t].wrote
    BY <1>2 DEF Outcome, Result
  <2>2. /\ Len(at'[t].results) = at[t].row /\ at'[t].results # <<>>
        /\ Len(at'[t].results) = (at[t].row + 1) - 1
        /\ \A i \in DOMAIN at[t].results : at'[t].results[i] = at[t].results[i]
        /\ \A i \in DOMAIN at'[t].results : i = at[t].row \/ i \in DOMAIN at[t].results
        /\ at'[t].results[at[t].row] = Outcome(t, outcome, why)
    <3>1. /\ at[t].results \in Seq(Result) /\ Outcome(t, outcome, why) \in Result
          /\ at[t].row \in Nat /\ Len(at[t].results) = at[t].row - 1
          /\ at'[t].results = Append(at[t].results, Outcome(t, outcome, why))
      BY <1>2, <1>4, <2>1
    <3>2. Len(at'[t].results) = at[t].row /\ at'[t].results # <<>>
      BY <3>1, Lengthened
    <3>3. Len(at'[t].results) = (at[t].row + 1) - 1
      BY <3>1, Lengthened
    <3>4. \A i \in DOMAIN at[t].results : at'[t].results[i] = at[t].results[i]
      BY <3>1, Lengthened
    <3>5. \A i \in DOMAIN at'[t].results : i = at[t].row \/ i \in DOMAIN at[t].results
      BY <3>1, Lengthened
    <3>6. at'[t].results[at[t].row] = Outcome(t, outcome, why)
      BY <3>1, Lengthened
    <3> QED
      BY <3>2, <3>3, <3>4, <3>5, <3>6
  <2>3. \A i \in DOMAIN at'[t].results :
          at'[t].results[i].wrote = None \/ at'[t].results[i].wrote < fresh
    BY <1>1, <2>1, <2>2, Zenon DEF LocalsFit
  <2>4. \A a \in at'[t].seen : a < fresh
    <3>1. CASE outcome = "imported"
      <4>1. at'[t].seen = at[t].seen \cup {at[t].wrote}
        BY <1>4, <3>1
      <4>2. at[t].wrote < fresh
        BY <1>1, <1>3, <3>1, ImportAssumption DEF LocalsFit, Id
      <4> QED
        BY <1>1, <4>1, <4>2 DEF LocalsFit
    <3>2. CASE outcome # "imported"
      <4>1. at'[t].seen = at[t].seen
        BY <1>4, <3>2
      <4> QED
        BY <1>1, <4>1 DEF LocalsFit
    <3> QED
      BY <3>1, <3>2
  <2>5. call[t].mode # "none"
    BY <1>1, <1>6 DEF LocalsFit
  <2>6. CASE After(t, outcome) = "identify"
    <3>1. at'[t].pc = "identify" /\ at'[t].row = at[t].row + 1
      BY <1>4, <2>6
    <3>2. at[t].row < Len(call[t].rows)
      BY <2>6, AfterKinds
    <3>3. at'[t].row \in 1 .. Len(call[t].rows) /\ Len(at'[t].results) = at'[t].row - 1
          /\ Len(at'[t].results) <= Len(call[t].rows)
      BY <1>2, <2>2, <3>1, <3>2, NextRow, Zenon
    <3> QED
      BY <1>1, <1>4, <2>3, <2>4, <2>5, <3>1, <3>3
      DEF LocalsFit, Before, InRow, Unwritten, Written, Looked
  <2>7. CASE After(t, outcome) \in {"configure", "answer"}
    <3>1. at'[t].pc \in {"configure", "answer"} /\ (at'[t].pc = "configure" => call[t].mode = "create")
      BY <1>4, <2>7, AfterKinds
    <3>2. Len(at'[t].results) <= Len(call[t].rows)
      BY <1>2, <2>2, NextRow, Zenon
    <3> QED
      BY <1>1, <1>4, <2>2, <2>3, <2>4, <2>5, <3>1, <3>2
      DEF LocalsFit, Before, InRow, Unwritten, Written, Looked
  <2> QED
    BY <2>6, <2>7, AfterKinds
<1> QED
  BY <1>4, <1>5, <1>6, <1>7, InvKept

LEMMA RowKept ==
  ASSUME TInv, NEW t \in Threads, at[t].pc \in InRow,
         NEW x \in Locals, at' = [at EXCEPT ![t] = x],
         x.row = at[t].row, x.results = at[t].results, x.seen = at[t].seen,
         x.pc \in InRow, x.pc \in Unwritten => x.wrote = None, x.pc \in Written => x.wrote \in Id,
         x.wrote = None \/ x.wrote < fresh', x.id = None \/ x.id < fresh',
         fresh' \in {fresh, fresh + 1}, call' = call, lock' = lock, TablesFit'
  PROVE  TInv'
<1>1. at' \in [Threads -> Locals] /\ at'[t] = x /\ \A u \in Threads \ {t} : at'[u] = at[u]
  BY Tables, LocalsSet
<1>2. at[t] \in Locals /\ fresh \in Id /\ LocalsFit(t)
  BY Tables DEF TInv
<1>3. LocalsFit(t)'
  <2>1. at[t].row \in 1 .. Len(call[t].rows) /\ Len(at[t].results) = at[t].row - 1
    BY RowNumber, Zenon
  <2>2. \A a \in Ref : a = None \/ a < fresh => a = None \/ a < fresh'
    BY <1>2 DEF Ref, Id
  <2>3. \A a \in Id : a < fresh => a < fresh'
    BY <1>2 DEF Id
  <2>4. \A i \in DOMAIN at[t].results : at[t].results[i].wrote \in Ref
    <3>1. \A i \in DOMAIN at[t].results : at[t].results[i] \in Result
      BY <1>2 DEF Locals
    <3> QED
      BY <3>1 DEF Result
  <2>5. \A i \in DOMAIN at[t].results :
          at[t].results[i].wrote = None \/ at[t].results[i].wrote < fresh'
    BY <1>2, <2>2, <2>4 DEF LocalsFit
  <2>6. \A a \in at[t].seen : a < fresh'
    BY <1>2, <2>3 DEF LocalsFit, Locals
  <2>7. at[t].pc # "idle" /\ x.pc \notin Before \cup {"configure", "answer"}
    BY DEF InRow, Unwritten, Written, Looked, Before
  <2>8. call[t].mode # "none" /\ Len(at[t].results) <= Len(call[t].rows)
    BY <1>2, <2>7 DEF LocalsFit
  <2>9. x.pc \in Written => x.wrote # None
    BY ImportAssumption DEF Id
  <2> QED
    BY <1>1, <2>1, <2>5, <2>6, <2>7, <2>8, <2>9, Zenon DEF LocalsFit, Before
<1>4. at'[t].pc \notin {"idle", "done"} /\ at[t].pc \notin {"idle", "done"}
  BY <1>1 DEF InRow, Unwritten, Written, Looked
<1> QED
  BY <1>1, <1>3, <1>4, InvKept

-----------------------------------------------------------------------------
(* Types: the steps of a call.                                             *)
LEMMA Busy ==
  ASSUME TInv, NEW t \in Threads, at[t].pc # "idle"
  PROVE  call[t].mode # "none"
BY DEF TInv, LocalsFit

LEMMA ThrowKept ==
  ASSUME TInv, NEW t \in Threads, at[t].pc # "idle", NEW answer \in Answers, Answer(t, answer),
         assets' = assets, fresh' = fresh, call' = call, credits' = credits
  PROVE  TInv'
BY Busy, AnswerKept

LEMMA IdentifiedKept ==
  ASSUME TInv, NEW t \in Threads, at[t].pc = "identify", NEW taken, Identified(t, taken),
         assets' = assets, fresh' = fresh, call' = call, credits' = credits, lock' = lock
  PROVE  TInv'
<1>1. at[t].pc \in InRow /\ at[t].pc \in Unwritten
  BY DEF InRow, Unwritten
<1>2. CASE Refuse(t)
  <2>1. credits' \subseteq DOMAIN assets
    BY Tables DEF TablesFit
  <2>2. Close(t, "refused", "checks")
    BY <1>2 DEF Refuse
  <2> QED
    BY <1>1, <2>1, <2>2, CloseKept
<1>3. CASE ~Refuse(t)
  <2> DEFINE id == Identity(t)
             parent == InternalName(Row(t).parent)
             x == [at[t] EXCEPT !.pc = "resolve", !.id = id, !.parent = parent]
  <2>1. at' = [at EXCEPT ![t] = x] /\ (id = None \/ id \in DOMAIN assets)
    BY <1>3 DEF Identified
  <2>2. at[t] \in Locals /\ TablesFit /\ fresh \in Id
    BY Tables
  <2>3. \A a \in DOMAIN assets : a \in Ref /\ a \in Id /\ a < fresh
    BY <2>2 DEF TablesFit, Id, Ref
  <2>4. id \in Ref /\ parent \in Ref
    BY <2>1, <2>2, <2>3, NameFacts DEF Ref
  <2>5. x \in Locals
    <3> HIDE DEF id, parent
    <3>1. "resolve" \in PCs
      BY DEF PCs
    <3> QED
      BY <2>2, <2>4, <3>1 DEF Locals
  <2>6. /\ x.row = at[t].row /\ x.results = at[t].results /\ x.seen = at[t].seen
        /\ x.pc = "resolve" /\ x.wrote = at[t].wrote /\ x.id = id
    <3> HIDE DEF id, parent
    <3> QED
      BY <2>2 DEF Locals
  <2> HIDE DEF x
  <2>7. at[t].wrote = None
    BY <1>1 DEF TInv, LocalsFit
  <2>8. TablesFit'
    BY <2>2, TablesKept DEF TablesFit
  <2>9. x.id = None \/ x.id < fresh'
    BY <2>1, <2>3, <2>6
  <2>10. x.pc \in InRow /\ x.pc \notin Written
    BY <2>6 DEF InRow, Unwritten, Written, Looked
  <2> QED
    BY <1>1, <2>1, <2>5, <2>6, <2>7, <2>8, <2>9, <2>10, RowKept
<1> QED
  BY <1>2, <1>3

LEMMA RefuseKept ==
  ASSUME TInv, NEW t \in Threads, at[t].pc \in InRow, Refuse(t),
         assets' = assets, fresh' = fresh, call' = call, credits' = credits, lock' = lock
  PROVE  TInv'
<1>1. credits' \subseteq DOMAIN assets
  BY Tables DEF TablesFit
<1>2. Close(t, "refused", "checks")
  BY DEF Refuse
<1> QED
  BY <1>1, <1>2, CloseKept

LEMMA ResolveKept ==
  ASSUME TInv, NEW t \in Threads, Resolve(t)
  PROVE  TInv'
<1>1. /\ at[t].pc = "resolve" /\ assets' = assets /\ fresh' = fresh /\ call' = call
      /\ credits' = credits /\ lock' = lock
  BY DEF Resolve, world
<1>2. at[t].pc \in InRow /\ at[t].pc \in Unwritten
  BY <1>1 DEF InRow, Unwritten, Looked
<1>3. CASE Refuse(t)
  BY <1>1, <1>2, <1>3, RefuseKept
<1>4. CASE ~Refuse(t)
  <2> DEFINE r == Row(t)
             source == InternalName(r.source)
             ignored == r.source = None \/ (source = None /\ r.source = r.name)
             groups == {InternalName(g) : g \in r.groups}
             feeds == IF ignored \/ ~Device(r.kind) THEN {} ELSE {source}
             x == [at[t] EXCEPT !.pc = "attributes", !.groups = groups, !.feeds = feeds]
  <2>1. /\ at' = [at EXCEPT ![t] = x]
        /\ \A g \in r.groups : InternalName(g) # None
        /\ ~ignored => source # None
    BY <1>4 DEF Resolve
  <2>2. at[t] \in Locals /\ TablesFit /\ fresh \in Id
    BY Tables
  <2>3. groups \in SUBSET Id /\ feeds \in SUBSET Id
    <3>1. \A n : InternalName(n) \in DOMAIN assets \cup {None} /\ DOMAIN assets \subseteq Id
      BY <2>2, NameFacts
    <3>2. groups \in SUBSET Id
      BY <2>1, <3>1
    <3>3. ~ignored => source \in Id
      BY <2>1, <3>1
    <3>4. feeds \in SUBSET Id
      <4> HIDE DEF source, ignored
      <4> QED
        BY <3>3
    <3> QED
      BY <3>2, <3>4
  <2>4. x \in Locals
    <3> HIDE DEF groups, feeds
    <3>1. "attributes" \in PCs
      BY DEF PCs
    <3> QED
      BY <2>2, <2>3, <3>1 DEF Locals
  <2>5. /\ x.row = at[t].row /\ x.results = at[t].results /\ x.seen = at[t].seen
        /\ x.pc = "attributes" /\ x.wrote = at[t].wrote /\ x.id = at[t].id
    <3> HIDE DEF groups, feeds
    <3> QED
      BY <2>2 DEF Locals
  <2> HIDE DEF x
  <2>6. at[t].wrote = None /\ (at[t].id = None \/ at[t].id < fresh')
    BY <1>1, <1>2 DEF TInv, LocalsFit
  <2>7. TablesFit'
    BY <1>1, <2>2, TablesKept DEF TablesFit
  <2>8. x.pc \in InRow /\ x.pc \notin Written
    BY <2>5 DEF InRow, Unwritten, Written, Looked
  <2> QED
    BY <1>1, <1>2, <2>1, <2>4, <2>5, <2>6, <2>7, <2>8, RowKept
<1> QED
  BY <1>3, <1>4

(* What a row writes is a row of the tables, and what it refers to is there. *)
LEMMA Below ==
  ASSUME NEW f \in Nat, NEW g \in {f, f + 1}
  PROVE  1 .. f - 1 \subseteq 1 .. g - 1 /\ \A a \in Id : a < g => a \in 1 .. g - 1
BY DEF Id

LEMMA CommitKept ==
  ASSUME TInv, NEW t \in Threads, at[t].pc = "write", ~Broken(t),
         NEW id \in Id, id < fresh', NEW uuid \in Serials \cup {None}, Commit(t, id, uuid),
         fresh' \in {fresh, fresh + 1}, call' = call, credits' = credits, lock' = lock
  PROVE  TInv'
<1>1. at[t] \in Locals /\ TablesFit /\ fresh \in Id
  BY Tables
<1>2. at[t].pc \in InRow
  BY DEF InRow, Unwritten, Looked
<1>3. Row(t) \in RowsOfDocument
  BY <1>2, RowFacts
<1>4. AssetOf(t, uuid) \in Asset
  <2>1. /\ Row(t).name \in Names /\ Row(t).kind \in Kinds /\ Row(t).size \in Nat
        /\ Row(t).pos \in Nat /\ Row(t).serial \in Serials \cup {None}
        /\ Row(t).status \in {"active", "nonactive"}
    BY <1>3 DEF RowsOfDocument
  <2>2. at[t].parent \in Ref /\ at[t].groups \in SUBSET Id /\ at[t].feeds \in SUBSET Id
    BY <1>1 DEF Locals
  <2>3. Stored(t) \in {"active", "nonactive"}
    BY <2>1 DEF Stored
  <2>4. Links(t) \in SUBSET Id
    BY <2>2 DEF Links
  <2> QED
    BY <2>1, <2>2, <2>3, <2>4 DEF AssetOf, Asset
<1>5. /\ AssetOf(t, uuid).parent = at[t].parent /\ AssetOf(t, uuid).groups = at[t].groups
      /\ AssetOf(t, uuid).feeds = Links(t)
  BY DEF AssetOf
<1>6. /\ at[t].parent \in DOMAIN assets \cup {None} /\ at[t].groups \subseteq DOMAIN assets
      /\ Links(t) \subseteq DOMAIN assets
  BY DEF Broken, Links
<1>7. /\ assets' = [a \in DOMAIN assets \cup {id} |->
                      IF a = id THEN AssetOf(t, uuid) ELSE assets[a]]
      /\ at' = [at EXCEPT ![t] = [at[t] EXCEPT !.pc = "activate", !.wrote = id]]
  BY DEF Commit
<1>8. /\ DOMAIN assets' = DOMAIN assets \cup {id}
      /\ assets'[id] = AssetOf(t, uuid)
      /\ \A a \in DOMAIN assets \ {id} : assets'[a] = assets[a]
  BY <1>7
<1>9. TablesFit'
  <2>1. assets' \in [DOMAIN assets' -> Asset]
    BY <1>1, <1>4, <1>7, <1>8 DEF TablesFit
  <2>2. DOMAIN assets' \subseteq 1 .. fresh' - 1
    <3>1. DOMAIN assets \subseteq 1 .. fresh - 1 /\ fresh \in Nat
      BY <1>1 DEF TablesFit, Id
    <3>2. 1 .. fresh - 1 \subseteq 1 .. fresh' - 1 /\ id \in 1 .. fresh' - 1
      BY <3>1, Below, Zenon
    <3> QED
      BY <1>8, <3>1, <3>2
  <2>3. Closed(assets')
    <3>1. ASSUME NEW a \in DOMAIN assets'
          PROVE  /\ assets'[a].parent \in DOMAIN assets' \cup {None}
                 /\ assets'[a].groups \cup assets'[a].feeds \subseteq DOMAIN assets'
      <4>1. CASE a = id
        BY <1>5, <1>6, <1>8, <4>1
      <4>2. CASE a # id
        <5>1. a \in DOMAIN assets /\ assets'[a] = assets[a]
          BY <1>8, <4>2
        <5>2. /\ assets[a].parent \in DOMAIN assets \cup {None}
              /\ assets[a].groups \cup assets[a].feeds \subseteq DOMAIN assets
          BY <1>1, <5>1 DEF TablesFit, Closed
        <5> QED
          BY <1>8, <5>1, <5>2
      <4> QED
        BY <4>1, <4>2
    <3> QED
      BY <3>1 DEF Closed
  <2>4. credits' \subseteq DOMAIN assets'
    BY <1>1, <1>8 DEF TablesFit
  <2> QED
    BY <2>1, <2>2, <2>3, <2>4 DEF TablesFit, Closed
<1>10. /\ [at[t] EXCEPT !.pc = "activate", !.wrote = id] \in Locals
       /\ "activate" \in InRow /\ "activate" \in Written /\ "activate" \notin Unwritten
  <2>1. id \in Ref /\ "activate" \in PCs
    BY DEF Ref, PCs
  <2> QED
    BY <1>1, <2>1 DEF Locals, InRow, Written, Unwritten, Looked
<1> DEFINE x == [at[t] EXCEPT !.pc = "activate", !.wrote = id]
<1>11. /\ x.row = at[t].row /\ x.results = at[t].results /\ x.seen = at[t].seen
       /\ x.pc = "activate" /\ x.wrote = id /\ x.id = at[t].id
  BY <1>1 DEF Locals
<1>12. at[t].id = None \/ at[t].id < fresh'
  <2>1. at[t].id = None \/ at[t].id < fresh
    BY DEF TInv, LocalsFit
  <2>2. \A a \in Ref : a = None \/ a < fresh => a = None \/ a < fresh'
    BY <1>1 DEF Ref, Id
  <2> QED
    BY <1>1, <2>1, <2>2 DEF Locals
<1>13. at' = [at EXCEPT ![t] = x] /\ x \in Locals
  BY <1>7, <1>10
<1> HIDE DEF x
<1> QED
  BY <1>2, <1>9, <1>10, <1>11, <1>12, <1>13, RowKept

LEMMA InsertKept ==
  ASSUME TInv, NEW t \in Threads, Insert(t)
  PROVE  TInv'
<1>1. /\ at[t].pc = "write" /\ call' = call /\ credits' = credits /\ lock' = lock
      /\ at[t].pc \in InRow
  BY DEF Insert, InRow, Unwritten, Looked
<1>2. CASE Broken(t) \/ (Row(t).kind = "datacenter" /\ at[t].parent # None)
  <2>1. Refuse(t) /\ assets' = assets /\ fresh' = fresh
    BY <1>2 DEF Insert
  <2> QED
    BY <1>1, <2>1, RefuseKept
<1>3. CASE ~(Broken(t) \/ (Row(t).kind = "datacenter" /\ at[t].parent # None))
  <2>1. Commit(t, fresh, None) /\ fresh' = fresh + 1
    BY <1>3 DEF Insert
  <2>2. fresh \in Id /\ fresh < fresh + 1
    BY Tables DEF Id
  <2> QED
    BY <1>1, <1>3, <2>1, <2>2, CommitKept
<1> QED
  BY <1>2, <1>3

LEMMA UpdateKept ==
  ASSUME TInv, NEW t \in Threads, Update(t)
  PROVE  TInv'
<1>1. /\ at[t].pc = "write" /\ call' = call /\ credits' = credits /\ lock' = lock
      /\ fresh' = fresh /\ at[t].pc \in InRow
  BY DEF Update, world, InRow, Unwritten, Looked
<1> DEFINE id == at[t].id
<1>2. CASE Broken(t) \/ id \notin DOMAIN assets \/ id \in at[t].feeds
  <2>1. Refuse(t) /\ assets' = assets
    BY <1>2 DEF Update
  <2> QED
    BY <1>1, <2>1, RefuseKept
<1>3. CASE ~(Broken(t) \/ id \notin DOMAIN assets \/ id \in at[t].feeds)
  <2>1. Commit(t, id, assets[id].uuid)
    BY <1>3 DEF Update
  <2>2. TablesFit /\ fresh \in Id
    BY Tables
  <2>3. id \in Id /\ id < fresh
    BY <1>3, <2>2 DEF TablesFit, Id
  <2>4. assets[id].uuid \in Serials \cup {None}
    <3>1. assets[id] \in Asset
      BY <1>3, <2>2 DEF TablesFit
    <3> QED
      BY <3>1 DEF Asset
  <2> HIDE DEF id
  <2> QED
    BY <1>1, <1>3, <2>1, <2>3, <2>4, CommitKept
<1> QED
  BY <1>2, <1>3

LEMMA ActivateKept ==
  ASSUME TInv, NEW t \in Threads, Activate(t) \/ Unanswered(t)
  PROVE  TInv'
<1>1. /\ at[t].pc = "activate" /\ call' = call /\ assets' = assets /\ lock' = lock
      /\ fresh' = fresh
  BY DEF Activate, Unanswered
<1>2. /\ at[t].pc \in InRow /\ at[t].pc \in Written /\ at[t].pc # "idle"
      /\ at[t].pc \notin {"idle", "done"}
  BY <1>1 DEF InRow, Written
<1>3. credits' \subseteq DOMAIN assets
  <2>1. credits \subseteq DOMAIN assets
    BY Tables DEF TablesFit
  <2>2. credits' = credits \/ (at[t].wrote \in DOMAIN assets /\ credits' = credits \cup {at[t].wrote})
    BY DEF Activate, Unanswered
  <2> QED
    BY <2>1, <2>2
<1>4. call[t].mode # "none"
  BY <1>2, Busy
<1>5. /\ "finish" \in PCs \ {"idle", "done", "answer", "configure"} /\ "finish" \in Written
      /\ "finish" \notin Before \cup Unwritten \cup {"duplicate", "activable"}
  BY DEF PCs, Before, Unwritten, Written, Looked
<1>6. CASE Go(t, "finish")
  BY <1>1, <1>2, <1>3, <1>4, <1>5, <1>6, GoKept
<1>7. CASE \E why \in {"licence", "unanswered"} : Close(t, "refused", why)
  BY <1>1, <1>2, <1>3, <1>7, CloseKept
<1> QED
  BY <1>6, <1>7 DEF Activate, Unanswered

(* A step that only moves the thread, or answers.                          *)
LEMMA CheckKept ==
  ASSUME TInv, NEW t \in Threads, NEW pc \in {"duplicate", "activable", "limits", "identify"},
         at[t].pc \in Before, call[t].mode # "none",
         (Go(t, pc) /\ lock' = lock) \/ Answer(t, "refused"),
         at[t].pc = "idle" => call[t].mode = "csv",
         pc \in {"duplicate", "activable"} => call[t].mode = "create",
         assets' = assets, fresh' = fresh, call' = call, credits' = credits
  PROVE  TInv'
<1>1. credits' \subseteq DOMAIN assets
  BY Tables DEF TablesFit
<1>2. CASE Go(t, pc) /\ lock' = lock
  <2>1. call[t].mode # "create" \/ at[t].pc \notin {"idle", "done"}
    BY DEF Before
  <2> QED
    BY <1>1, <1>2, <2>1, GoKept DEF PCs, Before, Unwritten, Written, Looked
<1>3. CASE Answer(t, "refused")
  BY <1>1, <1>3, AnswerKept DEF Answers
<1> QED
  BY <1>2, <1>3

LEMMA ForwardKept ==
  ASSUME TInv, NEW t \in Threads, at[t].pc \in Unwritten,
         NEW pc \in Looked,
         (Go(t, pc) /\ lock' = lock) \/ (Refuse(t) /\ lock' = lock) \/ Throw(t),
         assets' = assets, fresh' = fresh, call' = call, credits' = credits
  PROVE  TInv'
<1>1. /\ credits' \subseteq DOMAIN assets /\ call[t].mode # "none" /\ at[t].pc \in InRow
      /\ at[t].pc \notin {"idle", "done"}
  BY Tables, Busy DEF TablesFit, InRow, Unwritten, Looked
<1>2. CASE Go(t, pc) /\ lock' = lock
  <2>1. /\ pc \in PCs \ {"idle", "done", "answer", "configure"}
        /\ pc \notin Before \cup Written \cup {"duplicate", "activable"}
    BY DEF PCs, Looked, Before, Written
  <2> QED
    BY <1>1, <1>2, <2>1, GoKept
<1>3. CASE Refuse(t) /\ lock' = lock
  BY <1>1, <1>3, RefuseKept
<1>4. CASE Throw(t)
  BY <1>1, <1>4, AnswerKept DEF Answers, Throw
<1> QED
  BY <1>2, <1>3, <1>4

LEMMA StepKept ==
  ASSUME TInv, NEW t \in Threads, Step(t)
  PROVE  TInv'
<1>0. /\ at[t].pc \in {"duplicate", "activable"} => call[t].mode = "create"
      /\ at[t].pc # "idle" => call[t].mode # "none"
  BY Busy DEF TInv, LocalsFit
<1>1. CASE ImportCsv(t)
  <2>1. PICK pc \in {"limits", "identify"} : Go(t, pc)
    BY <1>1 DEF ImportCsv
  <2> QED
    BY <1>1, <2>1, CheckKept DEF ImportCsv, world, Before
<1>2. CASE CreateAsset(t)
  <2>1. /\ call[t].mode = "create" /\ at[t].pc = "idle" /\ assets' = assets /\ fresh' = fresh
        /\ call' = call /\ credits' = credits /\ lock = None /\ lock' = t /\ Go(t, "duplicate")
    BY <1>2 DEF CreateAsset, Unlocked
  <2>2. credits' \subseteq DOMAIN assets
    BY <2>1, Tables DEF TablesFit
  <2> QED
    BY <2>1, <2>2, GoKept DEF PCs, Before, Unwritten, Written, Looked
<1>3. CASE CheckDuplicated(t)
  <2>1. at[t].pc = "duplicate" /\ assets' = assets /\ fresh' = fresh /\ call' = call
        /\ credits' = credits
    BY <1>3 DEF CheckDuplicated
  <2>2. PICK pc \in {"activable", "identify"} :
          (Go(t, pc) /\ lock' = lock) \/ Answer(t, "refused")
    BY <1>3 DEF CheckDuplicated
  <2> QED
    BY <1>0, <2>1, <2>2, CheckKept DEF Before
<1>4. CASE IsActivable(t)
  BY <1>0, <1>4, CheckKept DEF IsActivable, Before
<1>5. CASE Limitations(t)
  BY <1>0, <1>5, CheckKept DEF Limitations, Before
<1>6. CASE CheckFails(t)
  <2>1. Answer(t, "refused") /\ at[t].pc \in Before /\ at[t].pc # "idle"
        /\ assets' = assets /\ fresh' = fresh /\ call' = call /\ credits' = credits
    BY <1>6 DEF CheckFails, Before
  <2> QED
    BY <1>0, <2>1, CheckKept
<1>7. CASE Identify(t)
  BY <1>7, IdentifiedKept DEF Identify
<1>8. CASE Resolve(t)
  BY <1>8, ResolveKept
<1>9. CASE ReadAttributes(t)
  <2>1. /\ at[t].pc \in Unwritten /\ "place" \in Looked
        /\ (Go(t, "place") \/ Refuse(t)) /\ assets' = assets /\ UNCHANGED world
    BY <1>9 DEF ReadAttributes, Unwritten, Looked
  <2> QED
    BY <2>1, ForwardKept DEF world
<1>10. CASE TryToPlace(t)
  <2>1. /\ at[t].pc \in Unwritten /\ "conflict" \in Looked
        /\ ((Go(t, "conflict") /\ lock' = lock) \/ (Refuse(t) /\ lock' = lock) \/ Throw(t))
        /\ assets' = assets /\ fresh' = fresh /\ call' = call /\ credits' = credits
    BY <1>10, Zenon DEF TryToPlace, Unwritten, Looked
  <2> QED
    BY <2>1, ForwardKept
<1>11. CASE PlaceUnread(t)
  <2>1. /\ at[t].pc \in Unwritten /\ "conflict" \in Looked /\ Go(t, "conflict") /\ lock' = lock
        /\ assets' = assets /\ fresh' = fresh /\ call' = call /\ credits' = credits
    BY <1>11 DEF PlaceUnread, Unwritten, Looked
  <2> QED
    BY <2>1, ForwardKept
<1>12. CASE Conflict(t)
  <2>1. /\ at[t].pc \in Unwritten /\ "write" \in Looked
        /\ (Go(t, "write") \/ Refuse(t)) /\ lock' = lock
        /\ assets' = assets /\ fresh' = fresh /\ call' = call /\ credits' = credits
    BY <1>12 DEF Conflict, Unwritten, Looked
  <2> QED
    BY <2>1, ForwardKept
<1>13. CASE Insert(t)
  BY <1>13, InsertKept
<1>14. CASE Update(t)
  BY <1>14, UpdateKept
<1>15. CASE WriteFails(t)
  <2>1. at[t].pc \in InRow /\ Refuse(t) /\ lock' = lock
        /\ assets' = assets /\ fresh' = fresh /\ call' = call /\ credits' = credits
    BY <1>15 DEF WriteFails, InRow, Unwritten, Looked
  <2> QED
    BY <2>1, RefuseKept
<1>16. CASE Activate(t) \/ Unanswered(t)
  BY <1>16, ActivateKept
<1>17. CASE Finish(t)
  <2>1. /\ at[t].pc \in InRow /\ at[t].pc \in Written
        /\ UNCHANGED <<assets, fresh, credits, lock, call>>
        /\ \/ Close(t, "refused", "lookup") \/ Close(t, "refused", "unread")
           \/ Close(t, "imported", "written")
    BY <1>17 DEF Finish, InRow, Written
  <2>2. credits' \subseteq DOMAIN assets
    BY <2>1, Tables DEF TablesFit
  <2> QED
    BY <2>1, <2>2, CloseKept
<1>18. CASE Configure(t)
  <2>1. /\ at[t].pc # "idle" /\ (Answer(t, "created") \/ Answer(t, "failed"))
        /\ assets' = assets /\ fresh' = fresh /\ call' = call /\ credits' = credits
    BY <1>18 DEF Configure
  <2> QED
    BY <2>1, ThrowKept DEF Answers
<1>19. CASE Return(t)
  <2>1. PICK answer \in Answers : Answer(t, answer)
    BY <1>19 DEF Return, Answers
  <2> QED
    BY <1>19, <2>1, ThrowKept DEF Return
<1> QED
  BY <1>1, <1>2, <1>3, <1>4, <1>5, <1>6, <1>7, <1>8, <1>9, <1>10, <1>11, <1>12, <1>13, <1>14,
     <1>15, <1>16, <1>17, <1>18, <1>19 DEF Step

-----------------------------------------------------------------------------
(* The steps of others.                                                    *)

(* What a step of another leaves of an asset, but its links and its uuid.  *)
Same(x, y) ==
  /\ x.name = y.name /\ x.kind = y.kind /\ x.parent = y.parent /\ x.status = y.status
  /\ x.groups = y.groups /\ x.size = y.size /\ x.pos = y.pos

LEMMA Minted ==
  ASSUME TInv, NEW a \in DOMAIN assets, Mint(a)
  PROVE  /\ DOMAIN assets' = DOMAIN assets
         /\ \A b \in DOMAIN assets : /\ assets'[b] \in Asset /\ Same(assets'[b], assets[b])
                                     /\ assets'[b].feeds = assets[b].feeds
<1>1. assets' = [assets EXCEPT ![a].uuid = assets[a].serial] /\ assets \in [DOMAIN assets -> Asset]
  BY Tables DEF Mint, TablesFit
<1>2. \A b \in DOMAIN assets : assets[b] \in Asset
  BY <1>1
<1>3. assets'[a] = [assets[a] EXCEPT !.uuid = assets[a].serial]
  BY <1>1
<1>4. /\ assets'[a] \in Asset /\ Same(assets'[a], assets[a]) /\ assets'[a].feeds = assets[a].feeds
  BY <1>2, <1>3 DEF Asset, Same
<1>5. \A b \in DOMAIN assets \ {a} : assets'[b] = assets[b]
  BY <1>1
<1> QED
  BY <1>1, <1>2, <1>4, <1>5 DEF Same

LEMMA Deleted ==
  ASSUME TInv, NEW a \in DOMAIN assets, Delete(a)
  PROVE  /\ DOMAIN assets' = DOMAIN assets \ {a}
         /\ \A b \in DOMAIN assets' : /\ assets'[b] \in Asset /\ Same(assets'[b], assets[b])
                                      /\ assets'[b].feeds = assets[b].feeds \ {a}
<1>1. /\ assets' = [b \in DOMAIN assets \ {a} |-> [assets[b] EXCEPT !.feeds = assets[b].feeds \ {a}]]
      /\ assets \in [DOMAIN assets -> Asset]
  BY Tables DEF Delete, TablesFit
<1>2. ASSUME NEW b \in DOMAIN assets \ {a}
      PROVE  /\ assets'[b] \in Asset /\ Same(assets'[b], assets[b])
             /\ assets'[b].feeds = assets[b].feeds \ {a}
  <2>1. assets'[b] = [assets[b] EXCEPT !.feeds = assets[b].feeds \ {a}] /\ assets[b] \in Asset
    BY <1>1
  <2> QED
    BY <2>1 DEF Asset, Same
<1> QED
  BY <1>1, <1>2

LEMMA OthersKept ==
  ASSUME TInv, NEW a \in DOMAIN assets, Mint(a) \/ Delete(a)
  PROVE  TInv'
<1>1. /\ fresh' = fresh /\ lock' = lock /\ call' = call /\ at' = at /\ TablesFit
  BY Tables DEF Mint, Delete, world
<1>2. TablesFit'
  <2>1. CASE Mint(a)
    <3>1. credits' = credits
      BY <2>1 DEF Mint, world
    <3> DEFINE d == DOMAIN assets
    <3>2. /\ DOMAIN assets' = d /\ \A b \in d : assets'[b] \in Asset
          /\ \A b \in d : /\ assets'[b].parent = assets[b].parent
                          /\ assets'[b].groups = assets[b].groups
                          /\ assets'[b].feeds = assets[b].feeds
      BY <2>1, Minted DEF Same
    <3>3. assets' \in [DOMAIN assets' -> Asset]
      BY <2>1, <3>2 DEF Mint
    <3> QED
      BY <1>1, <3>1, <3>2, <3>3 DEF TablesFit, Closed
  <2>2. CASE Delete(a)
    <3>1. /\ credits' = credits \ {a}
          /\ \A b \in DOMAIN assets : assets[b].parent # a /\ a \notin assets[b].groups
      BY <2>2 DEF Delete
    <3>2. /\ DOMAIN assets' = DOMAIN assets \ {a} /\ \A b \in DOMAIN assets' : assets'[b] \in Asset
          /\ \A b \in DOMAIN assets' : /\ assets'[b].parent = assets[b].parent
                                       /\ assets'[b].groups = assets[b].groups
                                       /\ assets'[b].feeds = assets[b].feeds \ {a}
      BY <2>2, Deleted DEF Same
    <3>3. assets' \in [DOMAIN assets' -> Asset]
      BY <2>2, <3>2 DEF Delete
    <3>4. Closed(assets')
      BY <1>1, <3>1, <3>2 DEF TablesFit, Closed
    <3> QED
      BY <1>1, <3>1, <3>2, <3>3, <3>4 DEF TablesFit, Closed
  <2> QED
    BY <2>1, <2>2
<1>3. \A u \in Threads : LocalsFit(u)'
  BY <1>1, FitElsewhere
<1> QED
  BY <1>1, <1>2, <1>3 DEF TInv, TypeOK, TablesFit

LEMMA TInvKept ==
  ASSUME TInv, [Next]_vars
  PROVE  TInv'
<1>1. CASE UNCHANGED vars
  BY <1>1 DEF vars, TInv, TypeOK, LocalsFit, Closed
<1> QED
  BY <1>1, StepKept, OthersKept DEF Next

LEMMA TInvInit ==
  ASSUME Init
  PROVE  TInv
<1>1. /\ assets \in Databases /\ fresh = 1 + Max(DOMAIN assets) /\ call \in Calls
      /\ credits \subseteq DOMAIN assets /\ at = [t \in Threads |-> Start] /\ lock = None
  BY DEF Init
<1>2. /\ DOMAIN assets \subseteq Id /\ IsFiniteSet(DOMAIN assets) /\ DOMAIN assets # {}
      /\ assets \in [DOMAIN assets -> Asset] /\ Closed(assets)
  BY <1>1, DatabaseAssumption
<1>3. Max(DOMAIN assets) \in DOMAIN assets /\ \A x \in DOMAIN assets : x <= Max(DOMAIN assets)
  <2>1. DOMAIN assets \in SUBSET Nat
    BY <1>2 DEF Id
  <2> QED
    BY <1>2, <2>1, Largest
<1>4. fresh \in Id /\ DOMAIN assets \subseteq 1 .. fresh - 1
  <2>1. \A m \in Id : \A S \in SUBSET Id : (\A x \in S : x <= m) =>
           1 + m \in Id /\ S \subseteq 1 .. (1 + m) - 1
    BY DEF Id
  <2>2. Max(DOMAIN assets) \in Id
    BY <1>2, <1>3
  <2> QED
    BY <1>1, <1>2, <1>3, <2>1, <2>2
<1>5. Start \in Locals
  BY DEF Start, Locals, PCs, Ref
<1>6. at \in [Threads -> Locals] /\ \A t \in Threads : at[t] = Start
  BY <1>1, <1>5
<1>7. ASSUME NEW t \in Threads
      PROVE  LocalsFit(t)
  <2>1. /\ at[t].pc = "idle" /\ at[t].row = 1 /\ at[t].id = None /\ at[t].wrote = None
        /\ at[t].seen = {} /\ at[t].results = <<>>
    BY <1>6 DEF Start
  <2>2. call[t].rows \in Seq(RowsOfDocument)
    BY <1>1, CallFacts
  <2>3. Len(at[t].results) <= Len(call[t].rows)
    BY <2>1, <2>2
  <2> QED
    BY <2>1, <2>3 DEF LocalsFit, InRow, Unwritten, Written, Looked
<1>8. \A t \in Threads : at[t].pc = "idle" /\ lock # t
  BY <1>1, <1>6, ImportAssumption DEF Start
<1> QED
  BY <1>1, <1>2, <1>4, <1>6, <1>7, <1>8 DEF TInv, TypeOK

(* In every state the rows of the tables and the locals of the threads are  *)
(* well formed, nothing refers to an asset that is gone, and the lock is    *)
(* held by a creation from its first step to its answer: for all documents, *)
(* creations and tables, and any number of threads.                         *)
THEOREM TypeSafety == Spec => []TypeOK
<1>1. Init => TInv
  BY TInvInit
<1>2. TInv /\ [Next]_vars => TInv'
  BY TInvKept
<1>3. TInv => TypeOK
  BY DEF TInv
<1> QED
  BY <1>1, <1>2, <1>3, PTL DEF Spec

-----------------------------------------------------------------------------
(* What each step of a call does, apart from where it goes.                *)
Steady(t) ==
  /\ at'[t].row = at[t].row /\ at'[t].id = at[t].id /\ at'[t].parent = at[t].parent
  /\ at'[t].wrote = at[t].wrote /\ at'[t].seen = at[t].seen /\ at'[t].results = at[t].results
Moved(t, from, to) ==
  at[t].pc = from /\ at'[t].pc = to /\ Steady(t) /\ assets' = assets /\ fresh' = fresh

Aside(t) ==
  /\ at[t].pc # "activate" /\ at'[t].pc \in {"duplicate", "activable", "limits", "identify", "done"}
  /\ at'[t].pc = "limits" /\ call[t].mode = "create" => ~Wants(t) \/ Granted(None)
  /\ at'[t].pc = "identify" /\ call[t].mode = "create" /\ call[t].notify => at[t].pc = "limits"
  /\ Steady(t) /\ UNCHANGED <<assets, fresh, credits, blind>>

Why(t, outcome, why) ==
  \/ outcome = "refused" /\ why = "checks" /\ at[t].pc \in Unwritten /\ credits' = credits
  \/ /\ outcome = "refused" /\ why = "unanswered" /\ at[t].pc = "activate"
     /\ credits \subseteq credits'
  \/ /\ outcome = "refused" /\ why = "licence" /\ at[t].pc = "activate" /\ credits' = credits
     /\ Wants(t) /\ call[t].notify
     /\ at[t].wrote \notin DOMAIN assets \/ ~Granted(at[t].wrote)
  \/ /\ outcome = "refused" /\ why = "lookup" /\ at[t].pc = "finish" /\ credits' = credits
     /\ Named(Row(t).name) = {}
  \/ outcome = "refused" /\ why = "unread" /\ at[t].pc = "finish" /\ credits' = credits
  \/ outcome = "imported" /\ why = "written" /\ at[t].pc = "finish" /\ credits' = credits
Closing(t, outcome, why) ==
  /\ Why(t, outcome, why) /\ assets' = assets /\ fresh' = fresh
  /\ at'[t].pc = After(t, outcome)
  /\ at'[t].row = IF After(t, outcome) = "identify" THEN at[t].row + 1 ELSE at[t].row
  /\ at'[t].results = Append(at[t].results, Outcome(t, outcome, why))
  /\ at'[t].seen = at[t].seen \cup (IF outcome = "imported" THEN {at[t].wrote} ELSE {})
  /\ at'[t].wrote = None

Identifying(t) ==
  /\ at[t].pc = "identify" /\ at'[t].pc = "resolve" /\ UNCHANGED <<assets, fresh, credits>>
  /\ at'[t].row = at[t].row /\ at'[t].wrote = at[t].wrote /\ at'[t].seen = at[t].seen
  /\ at'[t].results = at[t].results
  /\ at'[t].id # None => at'[t].id \notin at[t].seen
  /\ \/ blind'
     \/ /\ blind' = blind
        /\ at'[t].id # None => InternalName(Row(t).name) \in {None, at'[t].id}

FreePlace(t) ==
  Row(t).size # 0 /\ Row(t).pos # 0 =>
    \A a \in DOMAIN assets \ {at[t].id} :
      assets[a].parent = at[t].parent /\ Placed(assets[a]) =>
        Slots(Row(t).pos, Row(t).size) \cap Slots(assets[a].pos, assets[a].size) = {}
Placing(t) ==
  /\ Moved(t, "place", "conflict") /\ credits' = credits
  /\ blind' \/ (blind' = blind /\ FreePlace(t))
Comparing(t) ==
  /\ Moved(t, "conflict", "write") /\ credits' = credits
  /\ blind' \/ (blind' = blind /\ (at[t].id = None => IsFree(t)))
Committing(t) ==
  \E id \in Id, uuid \in Serials \cup {None} :
    /\ at[t].pc = "write" /\ at'[t].pc = "activate" /\ credits' = credits /\ blind' = blind
    /\ at'[t].row = at[t].row /\ at'[t].seen = at[t].seen /\ at'[t].results = at[t].results
    /\ at'[t].wrote = id
    /\ \/ at[t].id = None /\ id = fresh /\ fresh' = fresh + 1
       \/ at[t].id = id /\ id \in DOMAIN assets /\ fresh' = fresh
    /\ assets' = [a \in DOMAIN assets \cup {id} |->
                    IF a = id THEN AssetOf(t, uuid) ELSE assets[a]]
Activating(t) ==
  /\ Moved(t, "activate", "finish") /\ credits \subseteq credits' /\ blind' = blind
  /\ Wants(t) /\ call[t].notify => at[t].wrote \in credits'

Shape(t) ==
  \/ Aside(t)
  \/ blind' = blind /\ \E outcome \in {"imported", "refused"} :
        \E why \in {"checks", "licence", "unanswered", "lookup", "unread", "written"} : Closing(t, outcome, why)
  \/ blind' /\ Closing(t, "refused", "checks")
  \/ Identifying(t) \/ Placing(t) \/ Comparing(t) \/ Committing(t) \/ Activating(t)
  \/ blind' = blind /\ credits' = credits /\ Moved(t, "resolve", "attributes")
  \/ blind' = blind /\ credits' = credits /\ Moved(t, "attributes", "place")

LEMMA GoFields ==
  ASSUME TInv, NEW t \in Threads, NEW pc \in PCs, Go(t, pc)
  PROVE  at'[t].pc = pc /\ Steady(t) /\ \A u \in Threads \ {t} : at'[u] = at[u]
<1>1. at'[t] = [at[t] EXCEPT !.pc = pc] /\ at[t] \in Locals
      /\ \A u \in Threads \ {t} : at'[u] = at[u]
  BY Tables, Gone
<1> QED
  BY <1>1 DEF Locals, Steady

LEMMA AnswerFields ==
  ASSUME TInv, NEW t \in Threads, NEW answer \in Answers, Answer(t, answer)
  PROVE  at'[t].pc = "done" /\ Steady(t) /\ \A u \in Threads \ {t} : at'[u] = at[u]
<1>1. at'[t] = [at[t] EXCEPT !.pc = "done", !.answer = answer] /\ at[t] \in Locals
      /\ \A u \in Threads \ {t} : at'[u] = at[u]
  BY Tables, Answered
<1> QED
  BY <1>1 DEF Locals, Steady

LEMMA CloseFields ==
  ASSUME TInv, NEW t \in Threads, at[t].pc \in InRow,
         NEW outcome \in {"imported", "refused"},
         NEW why \in {"written", "checks", "licence", "unanswered", "lookup", "unread"},
         outcome = "imported" => at[t].pc \in Written,
         Close(t, outcome, why), Why(t, outcome, why), assets' = assets, fresh' = fresh
  PROVE  Closing(t, outcome, why) /\ \A u \in Threads \ {t} : at'[u] = at[u]
<1>1. at[t] \in Locals /\ (at[t].pc \in Written => at[t].wrote # None)
  BY Tables DEF TInv, LocalsFit
<1>2. outcome = "imported" => at[t].wrote \in Id
  BY <1>1 DEF Locals, Ref
<1> QED
  BY <1>2, Tables, RowClosed DEF Closing

LEMMA RefuseFields ==
  ASSUME TInv, NEW t \in Threads, at[t].pc \in Unwritten, Refuse(t), assets' = assets,
         fresh' = fresh, credits' = credits
  PROVE  Closing(t, "refused", "checks") /\ \A u \in Threads \ {t} : at'[u] = at[u]
BY CloseFields DEF Refuse, InRow, Why

LEMMA ChecksShape ==
  ASSUME TInv, NEW t \in Threads,
         \/ ImportCsv(t) \/ CreateAsset(t) \/ CheckDuplicated(t) \/ IsActivable(t)
         \/ Limitations(t) \/ CheckFails(t) \/ Configure(t) \/ Return(t)
  PROVE  Aside(t) /\ \A u \in Threads \ {t} : at'[u] = at[u]
<1>1. UNCHANGED <<assets, fresh, credits, blind>> /\ at[t].pc # "activate"
  BY DEF ImportCsv, CreateAsset, CheckDuplicated, IsActivable, Limitations, CheckFails, Configure,
         Return, world
<1>2. ASSUME NEW answer \in Answers, Answer(t, answer)
      PROVE  Aside(t) /\ \A u \in Threads \ {t} : at'[u] = at[u]
  BY <1>1, <1>2, AnswerFields DEF Aside
<1>3. ASSUME NEW pc \in {"duplicate", "activable", "limits", "identify"}, Go(t, pc),
             pc = "limits" /\ call[t].mode = "create" => ~Wants(t) \/ Granted(None),
             pc = "identify" /\ call[t].mode = "create" /\ call[t].notify => at[t].pc = "limits"
      PROVE  Aside(t) /\ \A u \in Threads \ {t} : at'[u] = at[u]
  <2>1. at'[t].pc = pc /\ Steady(t) /\ \A u \in Threads \ {t} : at'[u] = at[u]
    BY <1>3, GoFields DEF PCs
  <2> QED
    BY <1>1, <1>3, <2>1 DEF Aside
<1>4. CASE ImportCsv(t)
  BY <1>3, <1>4 DEF ImportCsv
<1>5. CASE CreateAsset(t)
  BY <1>3, <1>5 DEF CreateAsset
<1>6. CASE CheckDuplicated(t)
  <2>1. Answer(t, "refused") \/ Go(t, IF call[t].notify THEN "activable" ELSE "identify")
    BY <1>6 DEF CheckDuplicated
  <2>2. CASE Answer(t, "refused")
    BY <1>2, <2>2 DEF Answers
  <2>3. CASE ~Answer(t, "refused") /\ call[t].notify
    BY <1>3, <2>1, <2>3
  <2>4. CASE ~Answer(t, "refused") /\ ~call[t].notify
    BY <1>3, <2>1, <2>4
  <2> QED
    BY <2>2, <2>3, <2>4
<1>7. CASE IsActivable(t)
  <2>1. Answer(t, "refused") \/ (Go(t, "limits") /\ (~Wants(t) \/ Granted(None)))
    BY <1>7 DEF IsActivable
  <2> QED
    BY <1>2, <1>3, <2>1 DEF Answers
<1>8. CASE Limitations(t)
  BY <1>2, <1>3, <1>8 DEF Limitations, Answers
<1>9. CASE CheckFails(t)
  BY <1>2, <1>9 DEF CheckFails, Answers
<1>10. CASE Configure(t)
  <2>1. Answer(t, "created") \/ Answer(t, "failed")
    BY <1>10 DEF Configure
  <2> QED
    BY <1>2, <2>1 DEF Answers
<1>11. CASE Return(t)
  <2>1. \E answer \in Answers : Answer(t, answer)
    BY <1>11 DEF Return, Answers
  <2> QED
    BY <1>2, <2>1
<1> QED
  BY <1>4, <1>5, <1>6, <1>7, <1>8, <1>9, <1>10, <1>11

LEMMA IdentifyShape ==
  ASSUME TInv, NEW t \in Threads, Identify(t)
  PROVE  Shape(t) /\ \A u \in Threads \ {t} : at'[u] = at[u]
<1>1. PICK taken : /\ Identified(t, taken)
                   /\ \/ taken = InternalName(Row(t).name) /\ blind' = blind
                      \/ blind'
  BY DEF Identify
<1>2. at[t].pc = "identify" /\ UNCHANGED <<assets, fresh, credits>> /\ at[t].pc \in Unwritten
  BY DEF Identify, Unwritten
<1>3. CASE Refuse(t)
  <2>1. Closing(t, "refused", "checks") /\ \A u \in Threads \ {t} : at'[u] = at[u]
    BY <1>2, <1>3, RefuseFields
  <2> QED
    BY <1>1, <2>1 DEF Shape
<1>4. CASE ~Refuse(t)
  <2> DEFINE id == Identity(t)
             parent == InternalName(Row(t).parent)
             x == [at[t] EXCEPT !.pc = "resolve", !.id = id, !.parent = parent]
  <2>1. /\ at' = [at EXCEPT ![t] = x]
        /\ id # None => id \notin at[t].seen /\ taken \in {None, id}
    BY <1>1, <1>4 DEF Identified
  <2>2. at[t] \in Locals /\ at \in [Threads -> Locals]
    BY Tables
  <2>3. /\ x.row = at[t].row /\ x.results = at[t].results /\ x.seen = at[t].seen
        /\ x.pc = "resolve" /\ x.wrote = at[t].wrote /\ x.id = id
    <3> HIDE DEF id, parent
    <3> QED
      BY <2>2 DEF Locals
  <2> HIDE DEF x
  <2>4. at'[t] = x /\ \A u \in Threads \ {t} : at'[u] = at[u]
    BY <2>1, <2>2
  <2>5. Identifying(t)
    BY <1>1, <1>2, <2>1, <2>3, <2>4 DEF Identifying
  <2> QED
    BY <2>4, <2>5 DEF Shape
<1> QED
  BY <1>3, <1>4

LEMMA ResolveShape ==
  ASSUME TInv, NEW t \in Threads, Resolve(t)
  PROVE  Shape(t) /\ \A u \in Threads \ {t} : at'[u] = at[u]
<1>1. /\ at[t].pc = "resolve" /\ UNCHANGED <<assets, fresh, credits, blind>>
      /\ at[t].pc \in Unwritten
  BY DEF Resolve, world, Unwritten, Looked
<1>2. CASE Refuse(t)
  <2>1. Closing(t, "refused", "checks") /\ \A u \in Threads \ {t} : at'[u] = at[u]
    BY <1>1, <1>2, RefuseFields
  <2> QED
    BY <1>1, <2>1 DEF Shape
<1>3. CASE ~Refuse(t)
  <2>1. PICK groups, feeds :
          at' = [at EXCEPT ![t] = [at[t] EXCEPT !.pc = "attributes", !.groups = groups,
                                                !.feeds = feeds]]
    BY <1>3 DEF Resolve
  <2> DEFINE x == [at[t] EXCEPT !.pc = "attributes", !.groups = groups, !.feeds = feeds]
  <2>2. at[t] \in Locals /\ at \in [Threads -> Locals]
    BY Tables
  <2>3. /\ x.row = at[t].row /\ x.results = at[t].results /\ x.seen = at[t].seen
        /\ x.pc = "attributes" /\ x.wrote = at[t].wrote /\ x.id = at[t].id
        /\ x.parent = at[t].parent
    BY <2>2 DEF Locals
  <2>4. at'[t] = x /\ \A u \in Threads \ {t} : at'[u] = at[u]
    BY <2>1, <2>2
  <2> HIDE DEF x
  <2>5. Moved(t, "resolve", "attributes")
    BY <1>1, <2>3, <2>4 DEF Moved, Steady
  <2> QED
    BY <1>1, <2>4, <2>5 DEF Shape
<1> QED
  BY <1>2, <1>3

LEMMA PlaceShape ==
  ASSUME TInv, NEW t \in Threads, TryToPlace(t) \/ PlaceUnread(t)
  PROVE  Shape(t) /\ \A u \in Threads \ {t} : at'[u] = at[u]
<1>1. at[t].pc = "place" /\ UNCHANGED <<assets, fresh, credits>> /\ at[t].pc \in Unwritten
  BY DEF TryToPlace, PlaceUnread, Unwritten, Looked
<1>2. CASE PlaceUnread(t)
  <2>1. Moved(t, "place", "conflict") /\ blind' /\ \A u \in Threads \ {t} : at'[u] = at[u]
    BY <1>1, <1>2, GoFields DEF PlaceUnread, Moved, PCs
  <2> QED
    BY <1>1, <2>1 DEF Shape, Placing
<1>3. CASE TryToPlace(t)
  <2>1. blind' = blind
    BY <1>3 DEF TryToPlace
  <2>2. CASE Refuse(t)
    <3>1. Closing(t, "refused", "checks") /\ \A u \in Threads \ {t} : at'[u] = at[u]
      BY <1>1, <2>2, RefuseFields
    <3> QED
      BY <2>1, <3>1 DEF Shape
  <2>3. CASE Throw(t)
    <3>1. at'[t].pc = "done" /\ Steady(t) /\ \A u \in Threads \ {t} : at'[u] = at[u]
      BY <2>3, AnswerFields DEF Throw, Answers
    <3> QED
      BY <1>1, <2>1, <3>1 DEF Shape, Aside
  <2>4. CASE Go(t, "conflict") /\ ~Refuse(t) /\ ~Throw(t)
    <3>1. Moved(t, "place", "conflict") /\ \A u \in Threads \ {t} : at'[u] = at[u]
      BY <1>1, <2>4, GoFields DEF Moved, PCs
    <3>2. FreePlace(t)
      <4> DEFINE r == Row(t)
                 parent == at[t].parent
                 siblings == {a \in DOMAIN assets \ {at[t].id} : assets[a].parent = parent}
                 known == {a \in siblings : assets[a].size # 0 \/ assets[a].pos # 0}
                 wanted == Slots(r.pos, r.size)
      <4>1. \/ r.size = 0 \/ r.pos = 0
            \/ \A a \in known : wanted \cap Occupied(a) = {}
        <5> HIDE DEF r, wanted, known
        <5> QED
          BY <1>3, <2>4, Zenon DEF TryToPlace, r, wanted, known, siblings, parent
      <4>2. ASSUME NEW a \in DOMAIN assets \ {at[t].id}, assets[a].parent = at[t].parent,
                   Placed(assets[a])
            PROVE  a \in known
        BY <4>2 DEF Placed
      <4> QED
        BY <4>1, <4>2 DEF FreePlace, Occupied
    <3> QED
      BY <1>1, <2>1, <3>1, <3>2 DEF Shape, Placing
  <2> QED
    BY <1>3, <2>2, <2>3, <2>4, Zenon DEF TryToPlace
<1> QED
  BY <1>2, <1>3

LEMMA CheckedShape ==
  ASSUME TInv, NEW t \in Threads, ReadAttributes(t) \/ Conflict(t)
  PROVE  Shape(t) /\ \A u \in Threads \ {t} : at'[u] = at[u]
<1>1. UNCHANGED <<assets, fresh, credits>> /\ at[t].pc \in Unwritten /\ (blind' = blind \/ blind')
  BY DEF ReadAttributes, Conflict, world, Unwritten, Looked
<1>2. CASE Refuse(t)
  <2>1. Closing(t, "refused", "checks") /\ \A u \in Threads \ {t} : at'[u] = at[u]
    BY <1>1, <1>2, RefuseFields
  <2> QED
    BY <1>1, <2>1 DEF Shape
<1>3. CASE ReadAttributes(t) /\ ~Refuse(t)
  <2>1. Go(t, "place") /\ at[t].pc = "attributes" /\ blind' = blind
    BY <1>3 DEF ReadAttributes, world
  <2>2. Moved(t, "attributes", "place") /\ \A u \in Threads \ {t} : at'[u] = at[u]
    BY <1>1, <2>1, GoFields DEF Moved, PCs
  <2> QED
    BY <1>1, <2>1, <2>2 DEF Shape
<1>4. CASE Conflict(t) /\ ~Refuse(t)
  <2>1. /\ Go(t, "write") /\ at[t].pc = "conflict"
        /\ blind' \/ (blind' = blind /\ (at[t].id = None => IsFree(t)))
    BY <1>4 DEF Conflict
  <2>2. Moved(t, "conflict", "write") /\ \A u \in Threads \ {t} : at'[u] = at[u]
    BY <1>1, <2>1, GoFields DEF Moved, PCs
  <2> QED
    BY <1>1, <2>1, <2>2 DEF Shape, Comparing
<1> QED
  BY <1>2, <1>3, <1>4

LEMMA CommitShape ==
  ASSUME TInv, NEW t \in Threads, at[t].pc = "write",
         NEW id \in Id, NEW uuid \in Serials \cup {None}, Commit(t, id, uuid),
         \/ at[t].id = None /\ id = fresh /\ fresh' = fresh + 1
         \/ at[t].id = id /\ id \in DOMAIN assets /\ fresh' = fresh,
         credits' = credits, blind' = blind
  PROVE  Committing(t) /\ \A u \in Threads \ {t} : at'[u] = at[u]
<1> DEFINE x == [at[t] EXCEPT !.pc = "activate", !.wrote = id]
<1>1. /\ assets' = [a \in DOMAIN assets \cup {id} |->
                      IF a = id THEN AssetOf(t, uuid) ELSE assets[a]]
      /\ at' = [at EXCEPT ![t] = x]
  BY DEF Commit
<1>2. at[t] \in Locals /\ at \in [Threads -> Locals]
  BY Tables
<1>3. /\ x.row = at[t].row /\ x.results = at[t].results /\ x.seen = at[t].seen
      /\ x.pc = "activate" /\ x.wrote = id
  BY <1>2 DEF Locals
<1>4. at'[t] = x /\ \A u \in Threads \ {t} : at'[u] = at[u]
  BY <1>1, <1>2
<1> HIDE DEF x
<1> QED
  BY <1>1, <1>3, <1>4 DEF Committing

LEMMA WriteShape ==
  ASSUME TInv, NEW t \in Threads, Insert(t) \/ Update(t) \/ WriteFails(t)
  PROVE  Shape(t) /\ \A u \in Threads \ {t} : at'[u] = at[u]
<1>1. at[t].pc = "write" /\ credits' = credits /\ blind' = blind /\ at[t].pc \in Unwritten
  BY DEF Insert, Update, WriteFails, world, Unwritten, Looked
<1>2. CASE Refuse(t) /\ assets' = assets /\ fresh' = fresh
  <2>1. Closing(t, "refused", "checks") /\ \A u \in Threads \ {t} : at'[u] = at[u]
    BY <1>1, <1>2, RefuseFields
  <2> QED
    BY <1>1, <2>1 DEF Shape
<1>3. CASE Insert(t) /\ ~(Refuse(t) /\ assets' = assets /\ fresh' = fresh)
  <2>1. Commit(t, fresh, None) /\ fresh' = fresh + 1 /\ at[t].id = None
    BY <1>3 DEF Insert
  <2>2. fresh \in Id
    BY Tables
  <2> QED
    BY <1>1, <2>1, <2>2, CommitShape DEF Shape
<1>4. CASE Update(t) /\ ~(Refuse(t) /\ assets' = assets /\ fresh' = fresh)
  <2>1. /\ at[t].id \in DOMAIN assets /\ Commit(t, at[t].id, assets[at[t].id].uuid)
        /\ fresh' = fresh
    BY <1>4 DEF Update, world
  <2>2. at[t].id \in Id
    BY <2>1, NameFacts, Tables
  <2>3. assets[at[t].id].uuid \in Serials \cup {None}
    <3>1. assets[at[t].id] \in Asset
      BY <2>1, Tables DEF TablesFit
    <3> QED
      BY <3>1 DEF Asset
  <2> QED
    BY <1>1, <2>1, <2>2, <2>3, CommitShape DEF Shape
<1>5. WriteFails(t) => Refuse(t) /\ assets' = assets /\ fresh' = fresh
  BY DEF WriteFails
<1> QED
  BY <1>2, <1>3, <1>4, <1>5

LEMMA WrittenShape ==
  ASSUME TInv, NEW t \in Threads, Activate(t) \/ Unanswered(t) \/ Finish(t)
  PROVE  Shape(t) /\ \A u \in Threads \ {t} : at'[u] = at[u]
<1>1. /\ assets' = assets /\ fresh' = fresh /\ blind' = blind /\ at[t].pc \in Written
      /\ at[t].pc \in InRow
  BY DEF Activate, Unanswered, Finish, world, Written, InRow
<1>2. ASSUME NEW outcome \in {"imported", "refused"},
             NEW why \in {"checks", "licence", "unanswered", "lookup", "unread", "written"},
             Close(t, outcome, why), Why(t, outcome, why)
      PROVE  Shape(t) /\ \A u \in Threads \ {t} : at'[u] = at[u]
  <2>1. Closing(t, outcome, why) /\ \A u \in Threads \ {t} : at'[u] = at[u]
    BY <1>1, <1>2, CloseFields
  <2> QED
    BY <1>1, <2>1 DEF Shape
<1>3. CASE Activate(t)
  <2>1. at[t].pc = "activate"
    BY <1>3 DEF Activate
  <2>2. CASE Close(t, "refused", "licence") /\ ~Go(t, "finish")
    <3>1. Why(t, "refused", "licence")
      BY <1>3, <2>1, <2>2 DEF Activate, Why
    <3> QED
      BY <1>2, <2>2, <3>1
  <2>3. CASE Go(t, "finish")
    <3>1. Moved(t, "activate", "finish") /\ \A u \in Threads \ {t} : at'[u] = at[u]
      BY <1>1, <2>1, <2>3, GoFields DEF Moved, PCs
    <3>2. at'[t].pc = "finish"
      BY <3>1 DEF Moved
    <3>3. Close(t, "refused", "licence") => at'[t].pc # "finish"
      <4>1. ASSUME Close(t, "refused", "licence")
            PROVE  at'[t].pc = After(t, "refused")
        BY <4>1, Tables, RowClosed
      <4> QED
        BY <4>1, AfterKinds
    <3>4. credits \subseteq credits' /\ (Wants(t) /\ call[t].notify => at[t].wrote \in credits')
      BY <1>3, <3>2, <3>3 DEF Activate
    <3> QED
      BY <1>1, <3>1, <3>4 DEF Shape, Activating
  <2> QED
    BY <1>3, <2>2, <2>3 DEF Activate
<1>4. CASE Unanswered(t)
  <2>1. Close(t, "refused", "unanswered") /\ Why(t, "refused", "unanswered")
    BY <1>4 DEF Unanswered, Why
  <2> QED
    BY <1>2, <2>1
<1>5. CASE Finish(t)
  <2>1. \/ Close(t, "refused", "lookup") /\ Why(t, "refused", "lookup")
        \/ Close(t, "refused", "unread") /\ Why(t, "refused", "unread")
        \/ Close(t, "imported", "written") /\ Why(t, "imported", "written")
    BY <1>5 DEF Finish, Why
  <2> QED
    BY <1>2, <2>1
<1> QED
  BY <1>3, <1>4, <1>5

LEMMA StepShape ==
  ASSUME TInv, NEW t \in Threads, Step(t)
  PROVE  Shape(t) /\ call' = call /\ \A u \in Threads \ {t} : at'[u] = at[u]
<1>1. call' = call
  BY DEF Step, ImportCsv, CreateAsset, CheckDuplicated, IsActivable, Limitations, CheckFails,
         Identify, Resolve, ReadAttributes, TryToPlace, PlaceUnread, Conflict, Insert, Update,
         WriteFails, Activate, Unanswered, Finish, Configure, Return, world
<1>2. Aside(t) => Shape(t)
  BY DEF Shape
<1> QED
  BY <1>1, <1>2, ChecksShape, IdentifyShape, ResolveShape, PlaceShape, CheckedShape, WriteShape,
     WrittenShape DEF Step

-----------------------------------------------------------------------------
(* Calls that do not overlap.                                              *)

(* A document is imported while nothing else is called; creations may      *)
(* overlap, their lock keeps them apart.                                   *)
CallsApart ==
  \A c \in Calls : \A t, u \in Threads : t # u /\ c[t].mode = "csv" => c[u].mode = "none"

LEMMA OneWorks ==
  ASSUME TInv, CallsApart, NEW t \in Threads, NEW u \in Threads, t # u, Working(t)
  PROVE  ~Working(u)
<1>1. \A v \in Threads : lock = v <=> call[v].mode = "create" /\ Working(v)
  BY DEF TInv, TypeOK, Working
<1>2. \A v \in Threads : Working(v) => call[v].mode # "none"
  BY DEF TInv, LocalsFit, Working
<1>3. /\ call[t].mode = "csv" => call[u].mode = "none"
      /\ call[u].mode = "csv" => call[t].mode = "none"
  BY DEF CallsApart, TInv
<1>4. \A v \in Threads : call[v].mode \in {"none", "csv", "create"}
  BY CallFacts DEF TInv
<1> QED
  BY <1>1, <1>2, <1>3, <1>4

(* The name that a row looked up is still its own, or nobody's.            *)
NamesKept(t) ==
  /\ at[t].pc \in Looked /\ at[t].id # None => \A a \in Named(Row(t).name) : a = at[t].id
  /\ at[t].pc = "write" /\ at[t].id = None => Named(Row(t).name) = {}
NInv == blind \/ (OneName(assets) /\ \A t \in Threads : NamesKept(t))

LEMMA NamesElsewhere ==
  ASSUME NEW u \in Threads, NamesKept(u), at'[u] = at[u], call' = call,
         DOMAIN assets' \subseteq DOMAIN assets,
         \A a \in DOMAIN assets' : assets'[a].name = assets[a].name
  PROVE  NamesKept(u)'
<1>1. Row(u)' = Row(u)
  BY DEF Row
<1>2. Named(Row(u).name)' \subseteq Named(Row(u).name)
  BY <1>1 DEF Named
<1> QED
  BY <1>1, <1>2 DEF NamesKept

LEMMA NamesStep ==
  ASSUME TInv, NInv, CallsApart, NEW t \in Threads, Step(t)
  PROVE  NInv'
<1>1. Shape(t) /\ call' = call /\ \A u \in Threads \ {t} : at'[u] = at[u]
  BY StepShape
<1> SUFFICES ASSUME ~blind'
             PROVE  OneName(assets)' /\ \A u \in Threads : NamesKept(u)'
  BY DEF NInv
<1>2. blind' = blind
  BY <1>1 DEF Shape, Aside, Identifying, Placing, Comparing, Committing, Activating
<1>3. OneName(assets) /\ \A u \in Threads : NamesKept(u)
  BY <1>2 DEF NInv
<1>4. ASSUME assets' = assets, NamesKept(t)'
      PROVE  OneName(assets)' /\ \A u \in Threads : NamesKept(u)'
  BY <1>1, <1>3, <1>4, NamesElsewhere DEF OneName
<1>5. ASSUME assets' = assets, at'[t].pc \notin Looked
      PROVE  OneName(assets)' /\ \A u \in Threads : NamesKept(u)'
  BY <1>4, <1>5 DEF NamesKept, Looked
<1>6. ASSUME assets' = assets, Steady(t)
      PROVE  Row(t)' = Row(t) /\ Named(Row(t).name)' = Named(Row(t).name)
  BY <1>1, <1>6 DEF Row, Steady, Named
<1>7. CASE Aside(t)
  BY <1>5, <1>7 DEF Aside, Looked
<1>8. ASSUME NEW outcome, NEW why, Closing(t, outcome, why)
      PROVE  OneName(assets)' /\ \A u \in Threads : NamesKept(u)'
  BY <1>5, <1>8, AfterKinds DEF Closing, Looked
<1>9. CASE Identifying(t)
  <2>1. /\ assets' = assets /\ at'[t].pc = "resolve" /\ at'[t].row = at[t].row
        /\ at'[t].id # None => InternalName(Row(t).name) \in {None, at'[t].id}
    BY <1>2, <1>9 DEF Identifying
  <2>2. Row(t)' = Row(t) /\ Named(Row(t).name)' = Named(Row(t).name)
    BY <1>1, <2>1 DEF Row, Named
  <2>3. ASSUME at'[t].id # None, NEW a \in Named(Row(t).name)
        PROVE  a = at'[t].id
    <3>1. InternalName(Row(t).name) # None /\ InternalName(Row(t).name) \in Named(Row(t).name)
      BY <2>3, NameFacts, Tables
    <3>2. InternalName(Row(t).name) = a
      BY <1>3, <2>3, <3>1 DEF Named, OneName
    <3> QED
      BY <2>1, <2>3, <3>1, <3>2
  <2>4. NamesKept(t)'
    BY <2>1, <2>2, <2>3 DEF NamesKept
  <2> QED
    BY <1>4, <2>1, <2>4
<1>10. CASE \/ Placing(t) \/ Moved(t, "resolve", "attributes") \/ Moved(t, "attributes", "place")
  <2>1. /\ assets' = assets /\ Steady(t) /\ at[t].pc \in Looked /\ at'[t].pc # "write"
    BY <1>10 DEF Placing, Moved, Looked
  <2>2. NamesKept(t)'
    BY <1>3, <1>6, <2>1 DEF NamesKept, Steady
  <2> QED
    BY <1>4, <2>1, <2>2
<1>11. CASE Comparing(t)
  <2>1. /\ assets' = assets /\ Steady(t) /\ at[t].pc \in Looked
        /\ at[t].id = None => Named(Row(t).name) = {}
    BY <1>11 DEF Comparing, Moved, Looked, IsFree
  <2>2. NamesKept(t)'
    BY <1>3, <1>6, <2>1 DEF NamesKept, Steady
  <2> QED
    BY <1>4, <2>1, <2>2
<1>12. CASE Activating(t)
  BY <1>5, <1>12 DEF Activating, Moved, Looked
<1>13. CASE Committing(t)
  <2>1. PICK id \in Id, uuid \in Serials \cup {None} :
          /\ at[t].pc = "write" /\ at'[t].pc = "activate"
          /\ at[t].id = None \/ at[t].id = id
          /\ assets' = [a \in DOMAIN assets \cup {id} |->
                          IF a = id THEN AssetOf(t, uuid) ELSE assets[a]]
    BY <1>13 DEF Committing
  <2>2. /\ DOMAIN assets' = DOMAIN assets \cup {id} /\ assets'[id].name = Row(t).name
        /\ \A a \in DOMAIN assets \ {id} : assets'[a] = assets[a]
    BY <2>1 DEF AssetOf
  <2>3. \A a \in DOMAIN assets \ {id} : assets[a].name # Row(t).name
    BY <1>3, <2>1 DEF NamesKept, Named, Looked
  <2>4. OneName(assets)'
    BY <1>3, <2>2, <2>3 DEF OneName
  <2>5. ASSUME NEW u \in Threads
        PROVE  NamesKept(u)'
    <3>1. at'[u].pc \notin Looked
      <4>1. CASE u = t
        BY <2>1, <4>1 DEF Looked
      <4>2. CASE u # t
        <5>1. ~Working(u)
          BY <2>1, <4>2, OneWorks DEF Working
        <5> QED
          BY <1>1, <4>2, <5>1 DEF Working, Looked
      <4> QED
        BY <4>1, <4>2
    <3> QED
      BY <3>1 DEF NamesKept, Looked
  <2> QED
    BY <2>4, <2>5
<1> QED
  BY <1>1, <1>7, <1>8, <1>9, <1>10, <1>11, <1>12, <1>13 DEF Shape

LEMMA NamesOthers ==
  ASSUME TInv, NInv, NEW a \in DOMAIN assets, Mint(a) \/ Delete(a)
  PROVE  NInv'
<1>1. blind' = blind /\ at' = at /\ call' = call
  BY DEF Mint, Delete, world
<1>2. /\ DOMAIN assets' \subseteq DOMAIN assets
      /\ \A b \in DOMAIN assets' : assets'[b].name = assets[b].name
  BY Minted, Deleted DEF Same
<1>3. (\A u \in Threads : NamesKept(u)) => \A u \in Threads : NamesKept(u)'
  BY <1>1, <1>2, NamesElsewhere
<1>4. OneName(assets) => OneName(assets)'
  BY <1>2 DEF OneName
<1> QED
  BY <1>1, <1>3, <1>4 DEF NInv

(* Whatever other users delete and the agent adds, an external name belongs *)
(* to one asset in every state, unless a query failed: creations may run    *)
(* side by side, a document must not run beside them.                       *)
THEOREM NamesStayUnique ==
  ASSUME CallsApart
  PROVE  Spec => []NamesAreUnique
<1>1. Init => TInv /\ NInv
  <2>1. ASSUME Init
        PROVE  NInv
    <3>1. OneName(assets)
      BY <2>1, DatabaseAssumption DEF Init
    <3>2. \A t \in Threads : at[t].pc = "idle"
      BY <2>1 DEF Init, Start
    <3> QED
      BY <3>1, <3>2 DEF NInv, NamesKept, Looked
  <2> QED
    BY <2>1, TInvInit
<1>2. TInv /\ NInv /\ [Next]_vars => (TInv /\ NInv)'
  <2>1. ASSUME TInv, NInv, UNCHANGED vars
        PROVE  NInv'
    BY <2>1 DEF NInv, NamesKept, OneName, Named, Row, vars
  <2> QED
    BY <2>1, TInvKept, NamesStep, NamesOthers DEF Next
<1>3. NInv => NamesAreUnique
  BY DEF NInv, NamesAreUnique
<1> QED
  BY <1>1, <1>2, <1>3, PTL DEF Spec

(* The place that a row found free still is.                               *)
PlaceKept(t) == at[t].pc \in {"conflict", "write"} => FreePlace(t)
PInv == blind \/ (Apart(assets) /\ \A t \in Threads : PlaceKept(t))

LEMMA PlacesElsewhere ==
  ASSUME NEW u \in Threads, PlaceKept(u), at'[u] = at[u], call' = call,
         DOMAIN assets' \subseteq DOMAIN assets,
         \A a \in DOMAIN assets' : Same(assets'[a], assets[a])
  PROVE  PlaceKept(u)'
<1>1. Row(u)' = Row(u)
  BY DEF Row
<1>2. \A a \in DOMAIN assets' : Placed(assets'[a]) = Placed(assets[a])
  BY DEF Placed, Same
<1>3. FreePlace(u) => FreePlace(u)'
  BY <1>1, <1>2 DEF FreePlace, Same
<1> QED
  BY <1>3 DEF PlaceKept

LEMMA PlacesStep ==
  ASSUME TInv, PInv, CallsApart, NEW t \in Threads, Step(t)
  PROVE  PInv'
<1>1. Shape(t) /\ call' = call /\ \A u \in Threads \ {t} : at'[u] = at[u]
  BY StepShape
<1> SUFFICES ASSUME ~blind'
             PROVE  Apart(assets)' /\ \A u \in Threads : PlaceKept(u)'
  BY DEF PInv
<1>2. blind' = blind
  BY <1>1 DEF Shape, Aside, Identifying, Placing, Comparing, Committing, Activating
<1>3. Apart(assets) /\ \A u \in Threads : PlaceKept(u)
  BY <1>2 DEF PInv
<1>4. ASSUME assets' = assets, PlaceKept(t)'
      PROVE  Apart(assets)' /\ \A u \in Threads : PlaceKept(u)'
  <2>1. \A a \in DOMAIN assets' : Same(assets'[a], assets[a])
    BY <1>4 DEF Same
  <2> QED
    BY <1>1, <1>3, <1>4, <2>1, PlacesElsewhere DEF Apart
<1>5. ASSUME assets' = assets, at'[t].pc \notin {"conflict", "write"}
      PROVE  Apart(assets)' /\ \A u \in Threads : PlaceKept(u)'
  BY <1>4, <1>5 DEF PlaceKept
<1>6. ASSUME assets' = assets, Steady(t), FreePlace(t)
      PROVE  FreePlace(t)'
  BY <1>1, <1>6 DEF Row, Steady, FreePlace
<1>7. CASE Aside(t)
  BY <1>5, <1>7 DEF Aside
<1>8. ASSUME NEW outcome, NEW why, Closing(t, outcome, why)
      PROVE  Apart(assets)' /\ \A u \in Threads : PlaceKept(u)'
  BY <1>5, <1>8, AfterKinds DEF Closing
<1>9. CASE Identifying(t)
  BY <1>5, <1>9 DEF Identifying
<1>10. CASE Moved(t, "resolve", "attributes") \/ Moved(t, "attributes", "place")
  BY <1>5, <1>10 DEF Moved
<1>11. CASE Placing(t) \/ Comparing(t)
  <2>1. assets' = assets /\ Steady(t) /\ FreePlace(t)
    BY <1>2, <1>3, <1>11 DEF Placing, Comparing, Moved, PlaceKept
  <2> QED
    BY <1>4, <1>6, <2>1 DEF PlaceKept
<1>12. CASE Activating(t)
  BY <1>5, <1>12 DEF Activating, Moved
<1>13. CASE Committing(t)
  <2>1. PICK id \in Id, uuid \in Serials \cup {None} :
          /\ at[t].pc = "write" /\ at'[t].pc = "activate"
          /\ \/ at[t].id = None /\ id = fresh
             \/ at[t].id = id
          /\ assets' = [a \in DOMAIN assets \cup {id} |->
                          IF a = id THEN AssetOf(t, uuid) ELSE assets[a]]
    BY <1>13 DEF Committing
  <2> DEFINE new == AssetOf(t, uuid)
  <2>2. /\ DOMAIN assets' = DOMAIN assets \cup {id} /\ assets'[id] = new
        /\ \A a \in DOMAIN assets \ {id} : assets'[a] = assets[a]
    BY <2>1
  <2>3. /\ new.parent = at[t].parent /\ new.pos = Row(t).pos /\ new.size = Row(t).size
    BY DEF AssetOf
  <2>4. fresh \notin DOMAIN assets /\ None \notin DOMAIN assets
    <3>1. fresh \notin 1 .. fresh - 1
      BY Tables DEF Id
    <3> QED
      BY <3>1, Tables, NameFacts DEF TablesFit
  <2>5. DOMAIN assets \ {at[t].id} = DOMAIN assets \ {id}
    BY <2>1, <2>4
  <2>6. FreePlace(t)
    BY <1>3, <2>1 DEF PlaceKept
  <2> HIDE DEF new
  <2>7. ASSUME NEW a \in DOMAIN assets \ {id}, Placed(new), Placed(assets[a]),
               assets[a].parent = new.parent
        PROVE  Slots(new.pos, new.size) \cap Slots(assets[a].pos, assets[a].size) = {}
    BY <2>3, <2>5, <2>6, <2>7 DEF FreePlace, Placed
  <2>8. Apart(assets')
    <3>1. ASSUME NEW a \in DOMAIN assets', NEW b \in DOMAIN assets', a # b, Placed(assets'[a]),
                 Placed(assets'[b]), assets'[a].parent = assets'[b].parent
          PROVE  Slots(assets'[a].pos, assets'[a].size)
                   \cap Slots(assets'[b].pos, assets'[b].size) = {}
      <4>1. CASE a # id /\ b # id
        BY <1>3, <2>2, <3>1, <4>1 DEF Apart
      <4>2. CASE a = id
        BY <2>2, <2>7, <3>1, <4>2
      <4>3. CASE b = id
        BY <2>2, <2>7, <3>1, <4>3
      <4> QED
        BY <4>1, <4>2, <4>3
    <3> QED
      BY <3>1 DEF Apart
  <2>9. ASSUME NEW u \in Threads
        PROVE  at'[u].pc \notin Looked
    <3>1. CASE u = t
      BY <2>1, <3>1 DEF Looked
    <3>2. CASE u # t
      <4>1. ~Working(u)
        BY <2>1, <3>2, OneWorks DEF Working
      <4> QED
        BY <1>1, <3>2, <4>1 DEF Working, Looked
    <3> QED
      BY <3>1, <3>2
  <2> QED
    BY <2>8, <2>9 DEF PlaceKept, Looked, Apart
<1> QED
  BY <1>1, <1>7, <1>8, <1>9, <1>10, <1>11, <1>12, <1>13 DEF Shape

LEMMA PlacesOthers ==
  ASSUME TInv, PInv, NEW a \in DOMAIN assets, Mint(a) \/ Delete(a)
  PROVE  PInv'
<1>1. blind' = blind /\ at' = at /\ call' = call
  BY DEF Mint, Delete, world
<1>2. /\ DOMAIN assets' \subseteq DOMAIN assets
      /\ \A b \in DOMAIN assets' : Same(assets'[b], assets[b])
  BY Minted, Deleted
<1>3. (\A u \in Threads : PlaceKept(u)) => \A u \in Threads : PlaceKept(u)'
  BY <1>1, <1>2, PlacesElsewhere
<1>4. Apart(assets) => Apart(assets')
  <2>1. \A b \in DOMAIN assets' : Placed(assets'[b]) = Placed(assets[b])
    BY <1>2 DEF Placed, Same
  <2> QED
    BY <1>2, <2>1 DEF Apart, Same
<1> QED
  BY <1>1, <1>3, <1>4 DEF PInv, Apart

(* Two assets of a rack never take the same unit of it, unless a query      *)
(* failed, under the same hypothesis.                                       *)
THEOREM PlacesStayApart ==
  ASSUME CallsApart
  PROVE  Spec => []PlacedApart
<1>1. Init => TInv /\ PInv
  <2>1. ASSUME Init
        PROVE  PInv
    <3>1. Apart(assets)
      BY <2>1, DatabaseAssumption DEF Init
    <3>2. \A t \in Threads : at[t].pc = "idle"
      BY <2>1 DEF Init, Start
    <3> QED
      BY <3>1, <3>2 DEF PInv, PlaceKept
  <2> QED
    BY <2>1, TInvInit
<1>2. TInv /\ PInv /\ [Next]_vars => (TInv /\ PInv)'
  <2>1. ASSUME TInv, PInv, UNCHANGED vars
        PROVE  PInv'
    BY <2>1 DEF PInv, PlaceKept, Apart, FreePlace, Row, vars
  <2> QED
    BY <2>1, TInvKept, PlacesStep, PlacesOthers DEF Next
<1>3. PInv => PlacedApart
  BY DEF PInv, PlacedApart
<1> QED
  BY <1>1, <1>2, <1>3, PTL DEF Spec

-----------------------------------------------------------------------------
(* Results.                                                                *)
ResultIsTrue(t, i) ==
  LET r == call[t].rows[i]
      result == at[t].results[i]
      there == result.wrote \in DOMAIN assets
  IN  /\ result.outcome = "imported" =>
           /\ result.wrote # None
           /\ \A k \in 1 .. i - 1 : at[t].results[k].outcome = "imported" =>
                 at[t].results[k].wrote # result.wrote
           /\ there /\ call[t].notify /\ r.kind = "device" /\ r.status = "active" =>
                 result.wrote \in credits
      /\ result.outcome = "refused" /\ result.wrote # None /\ there =>
           result.why \in {"unanswered", "unread"} \/ (result.why = "licence" /\ call[t].mode = "csv")

(* Where a row is in the tables and in the licence, while it is processed. *)
Checked == {"limits", "activate"} \cup Unwritten
Kept(t) ==
  /\ at[t].pc \in Looked /\ at[t].id # None => at[t].id \notin at[t].seen
  /\ at[t].pc \in Written => at[t].wrote \notin at[t].seen
  /\ at[t].pc \in Written /\ at[t].wrote \in DOMAIN assets =>
       assets[at[t].wrote].name = Row(t).name
  /\ at[t].pc = "finish" /\ call[t].notify /\ Wants(t) /\ at[t].wrote \in DOMAIN assets =>
       at[t].wrote \in credits
  /\ \A i \in DOMAIN at[t].results :
       at[t].results[i].outcome = "imported" => at[t].results[i].wrote \in at[t].seen
  /\ at[t].pc \in Checked /\ call[t].mode = "create" /\ call[t].notify /\ Wants(t) =>
       Cardinality(credits) < MaxActive
KInv == \A t \in Threads : Kept(t) /\ \A i \in DOMAIN at[t].results : ResultIsTrue(t, i)

LEMMA ResultsTrue == KInv => ResultsAreTrue
<1> SUFFICES ASSUME KInv, NEW t \in Threads, NEW i \in DOMAIN at[t].results, ResultIsTrue(t, i)
             PROVE  LET r == call[t].rows[i]
                        result == at[t].results[i]
                        there == result.wrote \in DOMAIN assets
                    IN  /\ result.outcome = "imported" =>
                             /\ result.wrote # None
                             /\ \A k \in 1 .. i - 1 : at[t].results[k].outcome = "imported" =>
                                   at[t].results[k].wrote # result.wrote
                             /\ there /\ call[t].notify /\ r.kind = "device"
                                  /\ r.status = "active" =>
                                   result.wrote \in credits
                        /\ result.outcome = "refused" /\ result.wrote # None =>
                             CASE result.why = "licence" -> call[t].mode = "csv" \/ ~there
                               [] result.why \in {"unanswered", "unread"} -> TRUE
                               [] OTHER -> ~there
  BY Zenon DEF KInv, ResultsAreTrue
<1> QED
  BY DEF ResultIsTrue

LEMMA WrittenBefore ==
  ASSUME TInv, NEW t \in Threads
  PROVE  /\ at[t].wrote # fresh
         /\ \A i \in DOMAIN at[t].results : at[t].results[i].wrote # fresh
         /\ fresh \notin at[t].seen
         /\ \A i \in DOMAIN at[t].results : \A k \in 1 .. i : k \in DOMAIN at[t].results
         /\ fresh \notin DOMAIN assets
<1>1. fresh \in Id /\ None # fresh /\ ~(fresh < fresh) /\ fresh \notin 1 .. fresh - 1
  BY Tables, ImportAssumption DEF Id
<1>2. LocalsFit(t) /\ at[t].results \in Seq(Result) /\ DOMAIN assets \subseteq 1 .. fresh - 1
  BY Tables DEF TInv, Locals, TablesFit
<1>3. \A i \in DOMAIN at[t].results : \A k \in 1 .. i : k \in DOMAIN at[t].results
  BY <1>2
<1> QED
  BY <1>1, <1>2, <1>3 DEF LocalsFit

LEMMA ResultStays ==
  ASSUME TInv, NEW u \in Threads, NEW i \in DOMAIN at[u].results, ResultIsTrue(u, i),
         \A k \in DOMAIN at[u].results : at'[u].results[k] = at[u].results[k],
         call' = call, DOMAIN assets' \subseteq DOMAIN assets \cup {fresh},
         credits \cap DOMAIN assets' \subseteq credits'
  PROVE  ResultIsTrue(u, i)'
<1>1. /\ at[u].results[i].wrote # fresh
      /\ at'[u].results[i] = at[u].results[i]
      /\ \A k \in 1 .. i - 1 : at'[u].results[k] = at[u].results[k]
  <2>1. i \in Nat
    <3>1. at[u].results \in Seq(Result)
      BY Tables DEF Locals
    <3> QED
      BY <3>1
  <2>2. 1 .. i - 1 \subseteq 1 .. i
    BY <2>1
  <2> QED
    BY <2>2, WrittenBefore
<1> QED
  BY <1>1 DEF ResultIsTrue

LEMMA FiniteCredits ==
  ASSUME TInv
  PROVE  /\ IsFiniteSet(credits) /\ Cardinality(credits) \in Nat /\ None \notin credits
         /\ \A S \in SUBSET credits : Cardinality(S) <= Cardinality(credits)
                                      /\ Cardinality(S) \in Nat
<1>1. credits \subseteq 1 .. fresh - 1 /\ fresh \in Nat /\ None \notin credits
  BY Tables, NameFacts DEF TablesFit, Id
<1>2. IsFiniteSet(1 .. fresh - 1)
  BY <1>1, FS_Interval
<1> QED
  BY <1>1, <1>2, FS_Subset, FS_CardinalityType

LEMMA KeptElsewhere ==
  ASSUME TInv, NEW u \in Threads, Kept(u), at'[u] = at[u], call' = call,
         DOMAIN assets' \subseteq DOMAIN assets \cup {fresh},
         credits \cap DOMAIN assets' \subseteq credits',
         \/ ~Working(u)
         \/ credits' \subseteq credits /\ DOMAIN assets' \subseteq DOMAIN assets
            /\ \A a \in DOMAIN assets' : assets'[a].name = assets[a].name
  PROVE  Kept(u)'
<1>1. Row(u)' = Row(u) /\ Wants(u)' = Wants(u)
  BY DEF Row, Wants
<1>2. CASE ~Working(u)
  BY <1>1, <1>2 DEF Kept, Working, Looked, Written, Unwritten, Checked
<1>3. CASE Working(u)
  <2>1. Cardinality(credits) < MaxActive => Cardinality(credits') < MaxActive
    <3>1. \A m, n \in Nat : m <= n /\ n < MaxActive => m < MaxActive
      BY ImportAssumption
    <3> QED
      BY <1>3, <3>1, FiniteCredits
  <2> QED
    BY <1>1, <1>3, <2>1 DEF Kept
<1> QED
  BY <1>2, <1>3

(* What the row of a closing step leaves in the results.                   *)
LEMMA ClosingKept ==
  ASSUME TInv, NEW t \in Threads, at[t].pc \in InRow, Kept(t),
         \A i \in DOMAIN at[t].results : ResultIsTrue(t, i),
         NEW outcome \in {"imported", "refused"},
         NEW why \in {"checks", "licence", "unanswered", "lookup", "unread", "written"},
         Closing(t, outcome, why), call' = call
  PROVE  Kept(t)' /\ \A i \in DOMAIN at'[t].results : ResultIsTrue(t, i)'
<1>0. PICK row \in Nat, old \in Seq(Result), wrote \in Ref :
        row = at[t].row /\ old = at[t].results /\ wrote = at[t].wrote
  BY Tables DEF Locals
<1>1. /\ assets' = assets /\ at'[t].pc = After(t, outcome) /\ credits \subseteq credits'
      /\ at'[t].results = Append(old, Outcome(t, outcome, why))
      /\ at'[t].seen = at[t].seen \cup (IF outcome = "imported" THEN {wrote} ELSE {})
      /\ Why(t, outcome, why)
  BY <1>0 DEF Closing, Why
<1>2. /\ old \in Seq(Result) /\ row \in Nat /\ Len(old) = row - 1 /\ wrote \in Ref
      /\ (wrote # None => wrote \in Id)
  <2>1. at[t] \in Locals /\ Len(old) = row - 1
    BY <1>0, Tables, RowNumber
  <2> QED
    BY <1>0, <2>1 DEF Locals, Ref
<1>3. Outcome(t, outcome, why) \in Result
  BY <1>0, <1>2 DEF Outcome, Result
<1>4. /\ \A i \in DOMAIN old : at'[t].results[i] = old[i]
      /\ \A i \in DOMAIN at'[t].results : i = row \/ i \in DOMAIN old
      /\ at'[t].results[row] = Outcome(t, outcome, why)
      /\ DOMAIN old = 1 .. row - 1
  BY <1>1, <1>2, <1>3, Lengthened
<1>5. /\ Outcome(t, outcome, why).outcome = outcome /\ Outcome(t, outcome, why).why = why
      /\ Outcome(t, outcome, why).wrote = wrote
  BY <1>0 DEF Outcome
<1>6. /\ wrote # None => at[t].pc \in Written
      /\ at[t].pc \in Written => wrote # None
      /\ at[t].pc \in Unwritten => wrote = None
  BY <1>0 DEF TInv, LocalsFit, InRow
<1>7. Kept(t)'
  <2>1. at'[t].pc \in {"identify", "configure", "answer"}
    BY <1>1, AfterKinds
  <2>2. ~(at'[t].pc \in Checked /\ call[t].mode = "create")
    <3>1. call[t].mode = "create" => ~(row < Len(call[t].rows))
      <4>1. row \in 1 .. Len(call[t].rows)
        BY <1>0, RowNumber
      <4>2. call[t].mode = "create" => Len(call[t].rows) = 1
        BY CallFacts DEF TInv
      <4>3. row \in 1 .. 1 => ~(row < 1)
        OBVIOUS
      <4> QED
        BY <4>1, <4>2, <4>3, Zenon
    <3>2. call[t].mode = "create" => After(t, outcome) # "identify"
      BY <1>0, <3>1, AfterKinds
    <3> QED
      BY <1>1, <2>1, <3>2 DEF Checked, Unwritten, Looked
  <2>3. ASSUME NEW i \in DOMAIN at'[t].results, at'[t].results[i].outcome = "imported"
        PROVE  at'[t].results[i].wrote \in at'[t].seen
    <3>1. CASE i \in DOMAIN old
      BY <1>0, <1>1, <1>4, <2>3, <3>1 DEF Kept
    <3>2. CASE i = row
      <4>1. outcome = "imported"
        BY <1>4, <1>5, <2>3, <3>2
      <4> QED
        BY <1>1, <1>4, <1>5, <3>2, <4>1
    <3> QED
      BY <1>4, <3>1, <3>2
  <2> QED
    BY <2>1, <2>2, <2>3 DEF Kept, Looked, Written
<1>8. ASSUME NEW i \in DOMAIN old
      PROVE  ResultIsTrue(t, i)'
  <2>1. /\ DOMAIN assets' \subseteq DOMAIN assets \cup {fresh}
        /\ credits \cap DOMAIN assets' \subseteq credits'
    BY <1>1
  <2> QED
    BY <1>0, <1>4, <1>8, <2>1, ResultStays
<1>9. ResultIsTrue(t, row)'
  <2>1. call[t].rows[row] = Row(t)
    BY <1>0 DEF Row
  <2>2. CASE outcome = "imported"
    <3>1. at[t].pc = "finish" /\ why = "written" /\ credits' = credits
      BY <1>1, <2>2 DEF Why
    <3>2. at[t].pc \in Written /\ wrote \notin at[t].seen
      BY <1>0, <3>1 DEF Kept, Written
    <3>3. \A k \in 1 .. row - 1 : old[k].outcome = "imported" => old[k].wrote # wrote
      BY <1>0, <1>4, <3>2 DEF Kept
    <3>4. \A k \in 1 .. row - 1 : at'[t].results[k].outcome = "imported" =>
             at'[t].results[k].wrote # wrote
      BY <1>4, <3>3
    <3>5. wrote \in DOMAIN assets /\ call[t].notify /\ Wants(t) => wrote \in credits
      BY <1>0, <3>1 DEF Kept
    <3> QED
      BY <1>1, <1>4, <1>5, <1>6, <2>1, <2>2, <3>1, <3>2, <3>4, <3>5 DEF ResultIsTrue, Wants
  <2>3. CASE outcome = "refused" /\ why = "checks"
    <3>1. wrote = None
      BY <1>1, <1>6, <2>3 DEF Why
    <3> QED
      BY <1>4, <1>5, <2>3, <3>1 DEF ResultIsTrue
  <2>4. CASE outcome = "refused" /\ why \in {"unanswered", "unread"}
    BY <1>4, <1>5, <2>4 DEF ResultIsTrue
  <2>5. CASE outcome = "refused" /\ why = "licence"
    <3>1. /\ at[t].pc = "activate" /\ Wants(t) /\ call[t].notify
          /\ wrote \notin DOMAIN assets \/ ~Granted(wrote)
      BY <1>0, <1>1, <2>5 DEF Why
    <3>2. call[t].mode = "create" => Cardinality(credits) < MaxActive
      BY <3>1 DEF Kept, Checked
    <3>3. call[t].mode = "create" => wrote \notin DOMAIN assets
      BY <3>1, <3>2 DEF Granted
    <3>4. call[t].mode # "none"
      BY <3>1, Busy
    <3>5. call[t].mode \in {"none", "csv", "create"}
      BY CallFacts DEF TInv
    <3> QED
      BY <1>1, <1>4, <1>5, <2>5, <3>3, <3>4, <3>5 DEF ResultIsTrue
  <2>6. CASE outcome = "refused" /\ why = "lookup"
    <3>1. at[t].pc = "finish" /\ Named(Row(t).name) = {}
      BY <1>1, <2>6 DEF Why
    <3>2. wrote \notin DOMAIN assets
      BY <1>0, <3>1 DEF Kept, Named, Written
    <3> QED
      BY <1>1, <1>4, <1>5, <2>6, <3>2 DEF ResultIsTrue
  <2> QED
    BY <1>1, <2>2, <2>3, <2>4, <2>5, <2>6 DEF Why
<1> QED
  BY <1>4, <1>7, <1>8, <1>9

LEMMA ResultsStep ==
  ASSUME TInv, KInv, CallsApart, NEW t \in Threads, Step(t)
  PROVE  KInv'
<1>1. Shape(t) /\ call' = call /\ \A u \in Threads \ {t} : at'[u] = at[u]
  BY StepShape
<1>0. \/ Aside(t) \/ Committing(t) \/ Identifying(t) \/ Placing(t) \/ Comparing(t)
      \/ Activating(t)
      \/ \E outcome \in {"imported", "refused"} :
           \E why \in {"checks", "licence", "unanswered", "lookup", "unread", "written"} :
             Closing(t, outcome, why)
      \/ credits' = credits /\ Moved(t, "resolve", "attributes")
      \/ credits' = credits /\ Moved(t, "attributes", "place")
  <2>1. Closing(t, "refused", "checks") =>
          \E outcome \in {"imported", "refused"} :
            \E why \in {"checks", "licence", "unanswered", "lookup", "unread", "written"} :
              Closing(t, outcome, why)
    BY Zenon
  <2> QED
    BY <1>1, <2>1, Zenon DEF Shape
<1>2. /\ DOMAIN assets' \subseteq DOMAIN assets \cup {fresh} /\ credits \subseteq credits'
      /\ Working(t) \/ (assets' = assets /\ credits' = credits)
  <2>1. CASE Aside(t)
    BY <2>1 DEF Aside
  <2>2. CASE Committing(t)
    BY <2>2 DEF Committing, Working
  <2>3. CASE \E outcome \in {"imported", "refused"} :
               \E why \in {"checks", "licence", "unanswered", "lookup", "unread", "written"} :
                 Closing(t, outcome, why)
    BY <2>3 DEF Closing, Why, Working, Unwritten, Looked
  <2>4. CASE \/ Identifying(t) \/ Placing(t) \/ Comparing(t) \/ Activating(t)
             \/ credits' = credits /\ Moved(t, "resolve", "attributes")
             \/ credits' = credits /\ Moved(t, "attributes", "place")
    BY <2>4 DEF Identifying, Placing, Comparing, Activating, Moved, Working
  <2> QED
    BY <1>0, <2>1, <2>2, <2>3, <2>4
<1>3. ASSUME NEW u \in Threads \ {t}
      PROVE  Kept(u)' /\ \A i \in DOMAIN at'[u].results : ResultIsTrue(u, i)'
  <2>1. at'[u] = at[u] /\ Kept(u) /\ \A i \in DOMAIN at[u].results : ResultIsTrue(u, i)
    BY <1>1 DEF KInv
  <2>2. ~Working(u) \/ (assets' = assets /\ credits' = credits)
    BY <1>2, OneWorks
  <2>3. Kept(u)'
    BY <1>1, <1>2, <2>1, <2>2, KeptElsewhere
  <2>4. ASSUME NEW i \in DOMAIN at[u].results
        PROVE  ResultIsTrue(u, i)'
    BY <1>1, <1>2, <2>1, <2>4, ResultStays
  <2> QED
    BY <2>1, <2>3, <2>4
<1>4. ASSUME at'[t].results = at[t].results
      PROVE  \A i \in DOMAIN at'[t].results : ResultIsTrue(t, i)'
  <2>1. ASSUME NEW i \in DOMAIN at[t].results
        PROVE  ResultIsTrue(t, i)'
    BY <1>1, <1>2, <1>4, <2>1, ResultStays DEF KInv
  <2> QED
    BY <1>4, <2>1
<1>5. Kept(t) /\ \A i \in DOMAIN at[t].results : ResultIsTrue(t, i)
  BY DEF KInv
<1>6. Steady(t) \/ at'[t].row = at[t].row => Row(t)' = Row(t) /\ Wants(t)' = Wants(t)
  BY <1>1 DEF Row, Wants, Steady
<1> SUFFICES Kept(t)' /\ \A i \in DOMAIN at'[t].results : ResultIsTrue(t, i)'
  BY <1>3 DEF KInv
<1>7. CASE Aside(t)
  <2>1. /\ at'[t].pc \in {"duplicate", "activable", "limits", "identify", "done"}
        /\ Steady(t) /\ credits' = credits
    BY <1>7 DEF Aside
  <2>2. \/ ~(at'[t].pc \in Checked /\ call[t].mode = "create" /\ call[t].notify /\ Wants(t))
        \/ Cardinality(credits) < MaxActive
    <3>1. CASE at'[t].pc = "limits"
      <4>1. call[t].mode = "create" => ~Wants(t) \/ Granted(None)
        BY <1>7, <3>1 DEF Aside
      <4> QED
        BY <4>1, FiniteCredits DEF Granted
    <3>2. CASE at'[t].pc = "identify"
      <4>1. call[t].mode = "create" /\ call[t].notify => at[t].pc = "limits"
        BY <1>7, <3>2 DEF Aside
      <4> QED
        BY <1>5, <4>1 DEF Kept, Checked
    <3> QED
      BY <2>1, <3>1, <3>2 DEF Checked, Unwritten, Looked
  <2>3. Kept(t)'
    BY <1>1, <1>5, <1>6, <2>1, <2>2 DEF Kept, Looked, Written, Steady
  <2> QED
    BY <1>4, <2>1, <2>3 DEF Steady
<1>8. ASSUME NEW outcome \in {"imported", "refused"},
             NEW why \in {"checks", "licence", "unanswered", "lookup", "unread", "written"},
             Closing(t, outcome, why)
      PROVE  Kept(t)' /\ \A i \in DOMAIN at'[t].results : ResultIsTrue(t, i)'
  <2>1. at[t].pc \in InRow
    BY <1>8 DEF Closing, Why, InRow, Written
  <2> QED
    BY <1>1, <1>5, <1>8, <2>1, ClosingKept
<1>9. CASE Identifying(t)
  <2>1. /\ at[t].pc = "identify" /\ at'[t].pc = "resolve" /\ credits' = credits
        /\ at'[t].row = at[t].row /\ at'[t].seen = at[t].seen /\ at'[t].results = at[t].results
        /\ at'[t].id # None => at'[t].id \notin at[t].seen
    BY <1>9 DEF Identifying
  <2>2. Kept(t)'
    BY <1>1, <1>5, <1>6, <2>1 DEF Kept, Looked, Written, Checked, Unwritten
  <2> QED
    BY <1>4, <2>1, <2>2
<1>10. CASE \/ Placing(t) \/ Comparing(t)
            \/ credits' = credits /\ Moved(t, "resolve", "attributes")
            \/ credits' = credits /\ Moved(t, "attributes", "place")
  <2>1. /\ at[t].pc \in Looked /\ at'[t].pc \in Looked /\ credits' = credits /\ Steady(t)
    BY <1>10 DEF Placing, Comparing, Moved, Looked
  <2>2. at'[t].pc \notin Written /\ at[t].pc \in Checked
    BY <2>1 DEF Looked, Written, Checked, Unwritten
  <2>3. Kept(t)'
    BY <1>1, <1>5, <1>6, <2>1, <2>2 DEF Kept, Steady, Written
  <2> QED
    BY <1>4, <2>1, <2>3 DEF Steady
<1>11. CASE Activating(t)
  <2>1. /\ at[t].pc = "activate" /\ at'[t].pc = "finish" /\ Steady(t) /\ assets' = assets
        /\ Wants(t) /\ call[t].notify => at[t].wrote \in credits'
    BY <1>11 DEF Activating, Moved
  <2>2. Kept(t)'
    BY <1>1, <1>5, <1>6, <2>1 DEF Kept, Steady, Written, Looked, Checked, Unwritten
  <2> QED
    BY <1>4, <2>1, <2>2 DEF Steady
<1>12. CASE Committing(t)
  <2>1. PICK id \in Id, uuid \in Serials \cup {None} :
          /\ at[t].pc = "write" /\ at'[t].pc = "activate" /\ credits' = credits
          /\ at'[t].row = at[t].row /\ at'[t].seen = at[t].seen
          /\ at'[t].results = at[t].results /\ at'[t].wrote = id
          /\ \/ at[t].id = None /\ id = fresh
             \/ at[t].id = id
          /\ assets' = [a \in DOMAIN assets \cup {id} |->
                          IF a = id THEN AssetOf(t, uuid) ELSE assets[a]]
    BY <1>12 DEF Committing
  <2>2. assets'[id].name = Row(t).name
    BY <2>1 DEF AssetOf
  <2>3. id \notin at[t].seen
    <3>1. None \notin Id
      BY ImportAssumption DEF Id
    <3> QED
      BY <1>5, <2>1, <3>1, WrittenBefore DEF Kept, Looked
  <2>4. Kept(t)'
    BY <1>1, <1>5, <1>6, <2>1, <2>2, <2>3 DEF Kept, Looked, Written, Checked, Unwritten
  <2> QED
    BY <1>4, <2>1, <2>4
<1>13. CASE \E outcome \in {"imported", "refused"} :
              \E why \in {"checks", "licence", "unanswered", "lookup", "unread", "written"} :
                Closing(t, outcome, why)
  BY <1>8, <1>13
<1> QED
  BY <1>0, <1>7, <1>9, <1>10, <1>11, <1>12, <1>13

LEMMA ResultsOthers ==
  ASSUME TInv, KInv, NEW a \in DOMAIN assets, Mint(a) \/ Delete(a)
  PROVE  KInv'
<1>1. at' = at /\ call' = call
  BY DEF Mint, Delete, world
<1>2. /\ DOMAIN assets' \subseteq DOMAIN assets
      /\ \A b \in DOMAIN assets' : assets'[b].name = assets[b].name
      /\ credits' \subseteq credits /\ credits \cap DOMAIN assets' \subseteq credits'
  <2>1. CASE Mint(a)
    BY <2>1, Minted DEF Same, Mint, world
  <2>2. CASE Delete(a)
    <3>1. credits' = credits \ {a} /\ DOMAIN assets' = DOMAIN assets \ {a}
      BY <2>2, Deleted DEF Delete
    <3> QED
      BY <2>2, <3>1, Deleted DEF Same
  <2> QED
    BY <2>1, <2>2
<1>3. ASSUME NEW u \in Threads
      PROVE  Kept(u)' /\ \A i \in DOMAIN at'[u].results : ResultIsTrue(u, i)'
  <2>1. Kept(u)'
    BY <1>1, <1>2, KeptElsewhere DEF KInv
  <2>2. ASSUME NEW i \in DOMAIN at[u].results
        PROVE  ResultIsTrue(u, i)'
    BY <1>1, <1>2, <2>2, ResultStays DEF KInv
  <2> QED
    BY <1>1, <2>1, <2>2
<1> QED
  BY <1>3 DEF KInv

(* What a call says of its rows is so, under the same hypothesis: a device  *)
(* that was imported active has its credit, no asset is imported twice, a   *)
(* row that is refused left nothing unless a request or a query failed      *)
(* after its commit, and a creation is never refused by the licence then.   *)
THEOREM ResultsStayTrue ==
  ASSUME CallsApart
  PROVE  Spec => []ResultsAreTrue
<1>1. Init => TInv /\ KInv
  <2>1. ASSUME Init
        PROVE  KInv
    <3>1. \A t \in Threads : at[t].pc = "idle" /\ at[t].results = <<>>
      BY <2>1 DEF Init, Start
    <3>2. ASSUME NEW t \in Threads
          PROVE  Kept(t) /\ \A i \in DOMAIN at[t].results : ResultIsTrue(t, i)
      <4>1. DOMAIN at[t].results = {}
        BY <3>1
      <4> QED
        BY <3>1, <4>1 DEF Kept, Looked, Written, Checked, Unwritten
    <3> QED
      BY <3>2 DEF KInv
  <2> QED
    BY <2>1, TInvInit
<1>2. TInv /\ KInv /\ [Next]_vars => (TInv /\ KInv)'
  <2>1. ASSUME TInv, KInv, UNCHANGED vars
        PROVE  KInv'
    BY <2>1 DEF KInv, Kept, ResultIsTrue, Row, Wants, vars
  <2> QED
    BY <2>1, TInvKept, ResultsStep, ResultsOthers DEF Next
<1>3. KInv => ResultsAreTrue
  BY ResultsTrue
<1> QED
  BY <1>1, <1>2, <1>3, PTL DEF Spec
=============================================================================
