-------------------------- MODULE TotalPowerProofs --------------------------
(* What TotalPower answers, for every network, container and change. *)
EXTENDS TotalPower, TLAPS

-----------------------------------------------------------------------------
(* What Reached is: the least closed set of devices around B.              *)

(* It holds B.                                                             *)
LEMMA ReachedHolds ==
  ASSUME NEW B \in SUBSET devices
  PROVE  B \subseteq Reached(B)
BY DEF Reached

(* It is closed (the walk never leaves it).                                *)
LEMMA ReachedClosed ==
  ASSUME NEW B
  PROVE  Closed(Reached(B))
BY DEF Reached, Closed

(* It is the least such set.                                               *)
LEMMA ReachedLeast ==
  ASSUME NEW B, NEW S \in SUBSET devices, B \subseteq S, Closed(S)
  PROVE  Reached(B) \subseteq S
BY DEF Reached

(* One turn of the loop stays in a closed set.                             *)
LEMMA PoweredStays ==
  ASSUME NEW B, NEW S \in SUBSET devices, B \subseteq S, Closed(S),
         links \in SUBSET (Devices \X Devices)
  PROVE  Powered(B) \subseteq S
<1> SUFFICES ASSUME NEW y \in Powered(B) PROVE y \in S
  OBVIOUS
<1>1. PICK l \in links : l[1] \in B /\ ~Smart(l[1]) /\ l[2] = y
  BY DEF Powered
<1> QED
  BY <1>1 DEF Closed, Powered

(* One turn of the loop forgets nothing: what B reaches is in B, or is     *)
(* reached from the next border.                                           *)
LEMMA PoweredSuffices ==
  ASSUME NEW B \in SUBSET devices, links \in SUBSET (Devices \X Devices)
  PROVE  Reached(B) \subseteq B \cup Reached(Powered(B))
<1> DEFINE S == B \cup Reached(Powered(B))
<1>1. S \in SUBSET devices
  BY DEF Reached
<1>2. Powered(B) \subseteq Reached(Powered(B))
  BY ReachedHolds DEF Powered
<1>3. Closed(Reached(Powered(B)))
  BY ReachedClosed
<1>4. Closed(S)
  <2> SUFFICES ASSUME NEW x \in S, NEW y \in devices, <<x, y>> \in links, ~Smart(x)
               PROVE  y \in S
    BY DEF Closed
  <2>1. CASE x \in B
    <3>1. y \in Powered(B)
      BY <2>1 DEF Powered
    <3> QED
      BY <3>1, <1>2
  <2>2. CASE x \in Reached(Powered(B))
    BY <2>2, <1>3 DEF Closed
  <2> QED
    BY <2>1, <2>2
<1> HIDE DEF S
<1>5. B \subseteq S
  BY DEF S
<1>6. Reached(B) \subseteq S
  BY <1>1, <1>4, <1>5, ReachedLeast
<1> QED
  BY <1>6 DEF S

(* Nothing is reached from an empty border.                                *)
LEMMA EmptyReachesNothing == Reached({}) = {}
<1>1. Closed({})
  BY DEF Closed
<1> QED
  BY <1>1 DEF Reached

-----------------------------------------------------------------------------
(* The induction.  While the walk goes on, what is listed is right, the    *)
(* border is reached, and the border still reaches what is not listed.     *)

OnTheWay ==
  /\ links # {} /\ border \subseteq Reached(Starts)
  /\ FirstSmart \subseteq Listed \cup Reached(border)

Inv ==
  /\ TypeOK
  /\ pc \in {"devices", "links"} => links = {}
  /\ pc \in {"start", "undefined"} => links # {}
  /\ pc # "done" => answer = "none"
  /\ pc \in {"devices", "links", "start", "undefined"} => Listed = {} /\ border = {}
  /\ pc = "walk" => OnTheWay
  /\ Listed \subseteq FirstSmart
  /\ AnswerIsComplete

(* Where the walk starts is where the chains do.                           *)
LEMMA SourcesStart ==
  ASSUME links \in SUBSET (Devices \X Devices), devices \in SUBSET Devices,
         PoweredOutside \subseteq devices
  PROVE  Sources = Starts
<1>1. ASSUME NEW d \in devices
      PROVE  /\ d \in PoweredOutside <=> ~(Powers(d) \subseteq devices)
             /\ (\A l \in links : l[2] # d) <=> Powers(d) = {}
  <2>1. \A a \in Devices : a \in Powers(d) <=> <<a, d>> \in links
    BY DEF Powers
  <2>2. \A l \in links : l = <<l[1], l[2]>> /\ l[1] \in Devices
    OBVIOUS
  <2>3. d \in PoweredOutside <=> \E a \in Powers(d) : a \notin devices
    BY <2>1, <2>2 DEF PoweredOutside, Powers
  <2>4. (\A l \in links : l[2] # d) <=> Powers(d) = {}
    BY <2>1, <2>2 DEF Powers
  <2> QED
    BY <2>3, <2>4
<1> QED
  BY <1>1 DEF Sources, Starts

(* What a step that leaves the copies of the actor alone leaves alone.     *)
LEMMA SameCopies ==
  ASSUME UNCHANGED <<subtype, devices, links>>
  PROVE  /\ Starts' = Starts /\ FirstSmart' = FirstSmart
         /\ \A B : Reached(B)' = Reached(B)
BY DEF Starts, Powers, FirstSmart, Reached, Closed, Smart, PoweringOtherRack, Outgoing

LEMMA InitInv == Init => Inv
<1> SUFFICES ASSUME Init PROVE Inv
  OBVIOUS
<1>1. TypeOK
  BY PowerAssumption DEF Init, TypeOK
<1>2. Listed = {}
  BY DEF Init, Listed
<1> QED
  BY <1>1, <1>2 DEF Init, Inv, AnswerIsComplete

(* The devices are read.                                                   *)
LEMMA SelectDevicesInv == Inv /\ SelectDevices => Inv'
<1> SUFFICES ASSUME Inv, SelectDevices PROVE Inv'
  OBVIOUS
<1> USE DEF SelectDevices, Finish
<1>1. TypeOK'
  BY DEF Inv, TypeOK
<1>2. Listed' = {} /\ links' = {} /\ border' = {}
  BY DEF Inv, Listed
<1> QED
  BY <1>1, <1>2 DEF Inv, AnswerIsComplete, TypeOK

(* The links are read.                                                     *)
LEMMA SelectLinksInv == Inv /\ SelectLinks => Inv'
<1> SUFFICES ASSUME Inv, SelectLinks PROVE Inv'
  OBVIOUS
<1> USE DEF SelectLinks, Finish
<1>1. TypeOK'
  BY DEF Inv, TypeOK
<1>2. Listed' = {} /\ border' = {}
  BY DEF Inv, Listed
<1> QED
  BY <1>1, <1>2 DEF Inv, AnswerIsComplete, TypeOK

(* The sources are found.                                                  *)
LEMMA StartInv == Inv /\ Start => Inv'
<1> SUFFICES ASSUME Inv, Start PROVE Inv'
  OBVIOUS
<1> USE DEF Start
<1>1. Listed' = {} /\ links' = links /\ links # {}
  BY DEF Inv, Listed
<1>2. CASE pc' = "walk"
  <2>1. border' = Starts /\ Starts \in SUBSET devices
    <3>1. PoweredOutside \subseteq devices /\ border' = Sources
      BY <1>2
    <3>2. links \in SUBSET (Devices \X Devices) /\ devices \in SUBSET Devices
      BY DEF Inv, TypeOK
    <3>3. Sources = Starts
      BY <3>1, <3>2, SourcesStart
    <3> QED
      BY <3>1, <3>3 DEF Starts
  <2>2. TypeOK'
    BY <1>2, <2>1 DEF Inv, TypeOK
  <2>3. Starts \subseteq Reached(Starts)
    BY <2>1, ReachedHolds
  <2>4. /\ Starts' = Starts /\ FirstSmart' = FirstSmart
        /\ \A B : Reached(B)' = Reached(B)
    BY SameCopies
  <2>5. Reached(Starts)' = Reached(Starts) /\ Reached(border)' = Reached(Starts)
    BY <2>1, <2>4 DEF Reached, Closed, Smart, PoweringOtherRack, Outgoing, Starts, Powers
  <2>6. FirstSmart \subseteq Reached(Starts)
    BY DEF FirstSmart
  <2>7. OnTheWay'
    BY <1>1, <2>1, <2>3, <2>4, <2>5, <2>6 DEF OnTheWay
  <2> QED
    BY <1>1, <1>2, <2>2, <2>7 DEF Inv, AnswerIsComplete
<1>3. CASE pc' = "undefined"
  <2>1. TypeOK' /\ border' = {}
    BY <1>3 DEF Inv, TypeOK
  <2> QED
    BY <1>1, <1>3, <2>1 DEF Inv, AnswerIsComplete
<1> QED
  BY <1>2, <1>3

(* A turn of the loop lists the smart devices of the border: each is among *)
(* the first ones, for the border is reached from the sources; and what    *)
(* the border reached is now listed, or reached from the next border.      *)
LEMMA WalkInv == Inv /\ Walk => Inv'
<1> SUFFICES ASSUME Inv, Walk PROVE Inv'
  OBVIOUS
<1> DEFINE R == Reached(Starts)
<1>1. /\ TypeOK /\ OnTheWay /\ Listed \subseteq FirstSmart
      /\ pc = "walk" /\ answer = "none"
  BY DEF Inv, Walk
<1>2. /\ links \in SUBSET (Devices \X Devices) /\ border \in SUBSET devices
      /\ R \in SUBSET devices /\ times \in [Devices -> 0 .. 2]
      /\ devices \in SUBSET Devices
  BY <1>1 DEF TypeOK, Reached
<1>3. /\ Starts' = Starts /\ FirstSmart' = FirstSmart
      /\ \A B : Reached(B)' = Reached(B)
  <2>1. UNCHANGED <<subtype, devices, links>>
    BY DEF Walk
  <2> QED
    BY <2>1, SameCopies
<1>4. Listed' = Listed \cup {d \in border : Smart(d)}
  <2>1. \A d \in Devices : (times'[d] > 0) <=> ((times[d] > 0) \/ (d \in border /\ Smart(d)))
    BY <1>2 DEF Walk
  <2> QED
    BY <1>2, <2>1 DEF Listed
<1>5. Reached(Starts)' = R /\ Reached(border)' = Reached(Powered(border))
  BY <1>3 DEF Walk, Reached, Closed, Smart, PoweringOtherRack, Outgoing, Starts, Powers
<1>6. Powered(border) \subseteq R
  BY <1>1, <1>2, ReachedClosed, PoweredStays DEF OnTheWay
<1>7. Reached(border) \subseteq border \cup Reached(Powered(border))
  BY <1>2, PoweredSuffices
<1>8. Listed' \subseteq FirstSmart'
  BY <1>1, <1>3, <1>4 DEF OnTheWay, FirstSmart
<1>9. OnTheWay'
  <2>1. FirstSmart \subseteq Listed' \cup Reached(Powered(border))
    BY <1>1, <1>4, <1>7 DEF OnTheWay, FirstSmart
  <2> QED
    BY <1>1, <1>3, <1>5, <1>6, <2>1 DEF OnTheWay, Walk
<1>10. TypeOK'
  <2>1. times' \in [Devices -> 0 .. 2]
    BY <1>2 DEF Walk
  <2> QED
    BY <1>1, <2>1 DEF TypeOK, Walk, Powered
<1> QED
  BY <1>1, <1>8, <1>9, <1>10 DEF Inv, Walk, AnswerIsComplete

(* The border is empty: nothing is reached from it, so all is listed.      *)
LEMMA EndWalkInv == Inv /\ EndWalk => Inv'
<1> SUFFICES ASSUME Inv, EndWalk PROVE Inv'
  OBVIOUS
<1> USE DEF EndWalk, Finish
<1>1. Listed' = Listed /\ FirstSmart' = FirstSmart
  BY SameCopies DEF Listed
<1>2. links # {} /\ FirstSmart \subseteq Listed
  BY EmptyReachesNothing DEF Inv, OnTheWay
<1>3. TypeOK'
  BY DEF Inv, TypeOK
<1> QED
  BY <1>1, <1>2, <1>3 DEF Inv, AnswerIsComplete

(* What the other threads change, and a step that changes nothing.         *)
LEMMA CopiesKept ==
  ASSUME Inv, TypeOK', UNCHANGED <<subtype, pc, devices, links, border, times, answer>>
  PROVE  Inv'
<1>1. /\ Starts' = Starts /\ FirstSmart' = FirstSmart
      /\ \A B : Reached(B)' = Reached(B)
  BY SameCopies
<1>2. Reached(Starts)' = Reached(Starts) /\ Reached(border)' = Reached(border)
  BY DEF Reached, Closed, Smart, PoweringOtherRack, Outgoing, Starts, Powers
<1>3. Listed' = Listed
  BY DEF Listed
<1>4. OnTheWay' <=> OnTheWay
  BY <1>1, <1>2, <1>3 DEF OnTheWay
<1> QED
  BY <1>1, <1>3, <1>4 DEF Inv, AnswerIsComplete

(* Each step keeps the invariant.                                          *)
LEMMA NextInv == Inv /\ [Next]_vars => Inv'
<1> SUFFICES ASSUME Inv, [Next]_vars PROVE Inv'
  OBVIOUS
<1>1. CASE SelectDevices
  BY <1>1, SelectDevicesInv
<1>2. CASE SelectLinks
  BY <1>2, SelectLinksInv
<1>3. CASE Start
  BY <1>3, StartInv
<1>4. CASE Walk
  BY <1>4, WalkInv
<1>5. CASE EndWalk
  BY <1>5, EndWalkInv
<1>6. CASE Change
  <2>1. PICK d \in Devices : \E S \in SUBSET {f \in Feeds : f[2] = d} :
          /\ wires' = {l \in wires : l[2] # d} \cup S
          /\ inside' \in {inside \cup {d}, inside \ {d}}
    BY <1>6 DEF Change
  <2>2. TypeOK'
    BY <1>6, <2>1, PowerAssumption DEF Inv, TypeOK, Change
  <2> QED
    BY <1>6, <2>2, CopiesKept DEF Change
<1>7. CASE UNCHANGED vars
  <2>1. TypeOK'
    BY <1>7 DEF Inv, TypeOK, vars
  <2> QED
    BY <1>7, <2>1, CopiesKept DEF vars
<1> QED
  BY <1>1, <1>2, <1>3, <1>4, <1>5, <1>6, <1>7 DEF Next, Step

LEMMA Induction == Spec => []Inv
BY InitInv, NextInv, PTL DEF Spec

(* The border stays among the devices that were read, whatever the others  *)
(* change meanwhile.                                                       *)
THEOREM PowerTypes == Spec => []TypeOK
<1>1. Inv => TypeOK
  BY DEF Inv
<1> QED
  BY <1>1, Induction, PTL

(* Whatever the links, cycles included, the answer lists first smart       *)
(* devices only (total_power_v2).                                          *)
THEOREM OnlyFirst == Spec => []ListedAreFirst
<1>1. Inv => ListedAreFirst
  BY DEF Inv, ListedAreFirst
<1> QED
  BY <1>1, Induction, PTL

(* An answer lists all of them.                                            *)
THEOREM AllFirst == Spec => []AnswerIsComplete
<1>1. Inv => AnswerIsComplete
  BY DEF Inv
<1> QED
  BY <1>1, Induction, PTL
=============================================================================
