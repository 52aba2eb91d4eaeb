----------------------------- MODULE TotalPower -----------------------------
(***************************************************************************)
(* The devices whose power adds up to the power of a container             *)
(* (total_power.cc: select_total_power_by_id, total_power_v2), while the   *)
(* other threads of the agent change what is in the container and who      *)
(* powers whom.                                                            *)
(*                                                                         *)
(* The legacy actor reads the devices, then the links that have an end in  *)
(* the container (here in one step for both statuses), and walks along the *)
(* links on its copies.                                                    *)
(***************************************************************************)
EXTENDS Naturals

CONSTANTS
  Devices,      \* ids of devices, in the container or not
  Subtypes,     \* what the subtypes of the devices may be
  Feeds,        \* bound: <<a, b>> when clients may make a power b
  MaxChanges    \* bound on what the other threads do

ASSUME PowerAssumption ==
  /\ Subtypes \subseteq [Devices -> {"epdu", "ups", "other"}]
  /\ Feeds \subseteq Devices \X Devices
  /\ MaxChanges \in Nat

VARIABLES
  subtype,      \* of each device
  inside, wires,\* devices in the container and all power links, in the database
  pc,
  devices,      \* devices_in_container: those that were read
  links,        \* the links that were read
  border,       \* border_devices
  times,        \* how often a device is in the answer: 0, 1, or 2 for more
  answer,       \* 0, -1 (an error of the database) or none yet
  changes

vars == <<subtype, inside, wires, pc, devices, links, border, times, answer, changes>>

-----------------------------------------------------------------------------
Outgoing(d) == {l \in links : l[1] = d}
PoweringOtherRack(d) == \E l \in Outgoing(d) : l[2] \notin devices

(* A device that measures: it ends the chains that reach it.               *)
Smart(d) == subtype[d] = "epdu" \/ (subtype[d] = "ups" /\ ~PoweringOtherRack(d))

(* The devices powered from outside, and those that nothing powers.        *)
PoweredOutside == {l[2] : l \in {k \in links : k[1] \notin devices}}
OnlyPoweredOutside == PoweredOutside
Sources == PoweredOutside \cup {d \in devices : \A l \in links : l[2] # d}

(* Each device of B that is not smart makes way for those that it powers.  *)
NeverCleared(B) == B \cup (devices \cap {l[2] : l \in {k \in links : k[1] \in B}})
NeverErased(B) == devices \cap {l[2] : l \in {k \in links : k[1] \in B}}
Powered(B) == devices \cap {l[2] : l \in {k \in links : k[1] \in B /\ ~Smart(k[1])}}

-----------------------------------------------------------------------------
Finish(r) == pc' = "done" /\ answer' = r

SelectDevices ==
  /\ pc = "devices"
  /\ \/ devices' = inside /\ inside # {} /\ pc' = "links" /\ UNCHANGED answer
     \/ devices' = {} /\ inside = {} /\ Finish("0")
     \/ UNCHANGED devices /\ Finish("-1")
  /\ UNCHANGED <<subtype, inside, wires, links, border, times, changes>>

SelectLinks ==
  /\ pc = "links"
  /\ \/ /\ links' = {l \in wires : l[1] \in inside \/ l[2] \in inside}
        /\ IF links' = {} THEN Finish("0") ELSE pc' = "start" /\ UNCHANGED answer
     \/ UNCHANGED links /\ Finish("-1")
  /\ UNCHANGED <<subtype, inside, wires, devices, border, times, changes>>

(* A link with neither end among the devices is looked up and not found:   *)
(* the end of the map is dereferenced.                                     *)
Start ==
  /\ pc = "start"
  /\ \/ PoweredOutside \subseteq devices /\ border' = Sources /\ pc' = "walk"
     \/ ~(PoweredOutside \subseteq devices) /\ pc' = "undefined" /\ UNCHANGED border
  /\ UNCHANGED <<subtype, inside, wires, devices, links, times, answer, changes>>

(* One turn of the loop: the smart devices of the border are listed.       *)
Walk ==
  /\ pc = "walk" /\ border # {}
  /\ times' = [d \in Devices |-> IF d \in border /\ Smart(d) /\ times[d] < 2
                                 THEN times[d] + 1 ELSE times[d]]
  /\ border' = Powered(border)
  /\ UNCHANGED <<subtype, inside, wires, pc, devices, links, answer, changes>>

EndWalk ==
  /\ pc = "walk" /\ border = {}
  /\ Finish("0")
  /\ UNCHANGED <<subtype, inside, wires, devices, links, border, times, changes>>

(* Another thread moves a device, and says which devices power it.         *)
Change ==
  /\ changes < MaxChanges
  /\ changes' = changes + 1
  /\ \E d \in Devices : \E S \in SUBSET {f \in Feeds : f[2] = d} :
       /\ wires' = {l \in wires : l[2] # d} \cup S
       /\ inside' \in {inside \cup {d}, inside \ {d}}
  /\ UNCHANGED <<subtype, pc, devices, links, border, times, answer>>

Init ==
  /\ subtype \in Subtypes /\ inside \in SUBSET Devices /\ wires \in SUBSET Feeds
  /\ pc = "devices" /\ devices = {} /\ links = {} /\ border = {}
  /\ times = [d \in Devices |-> 0] /\ answer = "none" /\ changes = 0

Step == SelectDevices \/ SelectLinks \/ Start \/ Walk \/ EndWalk
Next == Step \/ Change

Spec == Init /\ [][Next]_vars

(* The actor runs to the end of a request.                                 *)
FairSpec == Spec /\ WF_vars(Step)

-----------------------------------------------------------------------------
(* What the answer should be: "the first smart devices in every powerchain *)
(* that are the closest to feed" (total_power.cc:197).  A chain starts at  *)
(* a device that some device outside powers, or that none inside does, and *)
(* goes on through devices that are not smart.                             *)

Powers(d) == {a \in Devices : <<a, d>> \in links}
Starts == {d \in devices : Powers(d) \cap devices = {} \/ ~(Powers(d) \subseteq devices)}

Closed(S) ==
  \A x \in S, y \in devices : (<<x, y>> \in links /\ ~Smart(x)) => y \in S
Reached(B) == {d \in devices : \A S \in SUBSET devices : (B \subseteq S /\ Closed(S)) => d \in S}
FirstSmart == {d \in Reached(Starts) : Smart(d)}
Listed == {d \in Devices : times[d] > 0}

-----------------------------------------------------------------------------
(* Properties.                                                             *)

(* What was read is well formed, and the border stays among the devices.   *)
TypeOK ==
  /\ subtype \in [Devices -> {"epdu", "ups", "other"}]
  /\ inside \in SUBSET Devices /\ wires \in SUBSET (Devices \X Devices)
  /\ pc \in {"devices", "links", "start", "walk", "done", "undefined"}
  /\ devices \in SUBSET Devices /\ links \in SUBSET (Devices \X Devices)
  /\ border \in SUBSET devices /\ times \in [Devices -> 0 .. 2]
  /\ answer \in {"none", "0", "-1"} /\ changes \in Nat

(* Whatever the links, no device is listed that lies behind another smart  *)
(* device on each of its chains: its power would be counted twice.         *)
ListedAreFirst == Listed \subseteq FirstSmart

(* An answer lists all the first smart devices of what was read; without   *)
(* any link, it lists none.                                                *)
AnswerIsComplete ==
  (pc = "done" /\ answer = "0") => Listed = IF links = {} THEN {} ELSE FirstSmart

(* total_power.cc:200 "Repeat until chain ends or until all chains are     *)
(* processed": the walk ends.                                              *)
WalkEnds == pc = "walk" ~> pc = "done"
=============================================================================
