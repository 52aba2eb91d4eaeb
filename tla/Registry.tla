------------------------------ MODULE Registry ------------------------------
(***************************************************************************)
(* What the agent promises about its assets, whichever thread serves a     *)
(* request and in how many steps: a forest of assets, with links between   *)
(* them, in which a request makes at most one asset, changes at most the   *)
(* one it names, or removes assets one at a time, each only once nothing   *)
(* hangs below it and it feeds nothing.  Nobody sees a parent or a source  *)
(* that is not there, nor a request whose effect is on somebody else's     *)
(* asset; a create that is answered OK has made its asset.                 *)
(***************************************************************************)
CONSTANTS
  Names,        \* the assets there may be
  Nobody,       \* no asset
  Spared,       \* the asset that is never removed, or Nobody
  Clients       \* who may have a request at the agent

VARIABLES
  assets,       \* the assets there are
  above,        \* the asset each is in
  feeds,        \* links, as <<source, destination>>
  doing,        \* the request of each client
  subject,      \* the asset a create has made, or an update names
  answer        \* the answer to the last request

vars == <<assets, above, feeds, doing, subject, answer>>
tables == <<assets, above, feeds>>

In(s, a) == {<<x, a>> : x \in s}
Into(a) == {l \in feeds : l[2] = a}

(* The database of an earlier run.                                         *)
Init ==
  /\ assets \subseteq Names
  /\ \A a \in Names : above[a] # Nobody => {a, above[a]} \subseteq assets
  /\ feeds \subseteq assets \X assets
  /\ doing = [c \in Clients |-> "nothing"]
  /\ subject = [c \in Clients |-> Nobody]
  /\ answer = [c \in Clients |-> "none"]

Call(c) ==
  /\ doing[c] = "nothing"
  /\ \E op \in {"create", "update", "delete"}, a \in Names \cup {Nobody} :
       /\ op = "create" => a = Nobody
       /\ doing' = [doing EXCEPT ![c] = op]
       /\ subject' = [subject EXCEPT ![c] = a]
  /\ answer' = [answer EXCEPT ![c] = "none"]
  /\ UNCHANGED tables

Make(c, a) ==
  /\ doing[c] = "create" /\ subject[c] = Nobody
  /\ a \notin assets
  /\ assets' = assets \cup {a}
  /\ \E p \in assets \cup {Nobody} : above' = [above EXCEPT ![a] = p]
  /\ \E s \in SUBSET assets : feeds' = feeds \cup In(s, a)
  /\ subject' = [subject EXCEPT ![c] = a]
  /\ UNCHANGED <<doing, answer>>

(* Into another parent, never itself, and with other sources.              *)
Change(c, a) ==
  /\ doing[c] \in {"create", "update"} /\ subject[c] = a
  /\ a \in assets
  /\ \E p \in (assets \ {a}) \cup {Nobody} : above' = [above EXCEPT ![a] = p]
  /\ \E s \in SUBSET assets : feeds' = (feeds \ Into(a)) \cup In(s, a)
  /\ UNCHANGED <<assets, doing, subject, answer>>

(* A delete first takes the links into what it is about to remove.  So     *)
(* does a create that has to take its asset back.                          *)
Deletes(c, a) == doing[c] = "delete" \/ (doing[c] = "create" /\ subject[c] = a)
Detach(c) ==
  /\ feeds' \subseteq feeds
  /\ \A l \in feeds \ feeds' : Deletes(c, l[2])
  /\ UNCHANGED <<assets, above, doing, subject, answer>>

Remove(c, a) ==
  /\ Deletes(c, a) /\ a \in assets \ {Spared}
  /\ \A b \in assets : above[b] # a
  /\ \A l \in feeds : l[1] # a
  /\ assets' = assets \ {a}
  /\ above' = [above EXCEPT ![a] = Nobody]
  /\ feeds' = feeds \ Into(a)
  /\ UNCHANGED <<doing, subject, answer>>

(* Among others, a delete may put an asset back where it read it: to change*)
(* the status it writes the whole row, over the move of another client.    *)
PutBack(c, a) ==
  /\ doing[c] = "delete" /\ Clients # {c}
  /\ a \in assets
  /\ \E p \in (assets \ {a}) \cup {Nobody} : above' = [above EXCEPT ![a] = p]
  /\ UNCHANGED <<assets, feeds, doing, subject, answer>>

(* A client that is alone has nothing left of a create that has failed.    *)
Answer(c, r) ==
  /\ doing[c] # "nothing"
  /\ doing[c] = "create" => CASE r = "OK" -> subject[c] # Nobody
                              [] r = "KO" -> Clients = {c} => subject[c] \notin assets
  /\ doing' = [doing EXCEPT ![c] = "nothing"]
  /\ subject' = [subject EXCEPT ![c] = Nobody]
  /\ answer' = [answer EXCEPT ![c] = r]
  /\ UNCHANGED tables

Next == \E c \in Clients :
  \/ Call(c) \/ Detach(c)
  \/ \E a \in Names : Make(c, a) \/ Change(c, a) \/ Remove(c, a) \/ PutBack(c, a)
  \/ \E r \in {"OK", "KO"} : Answer(c, r)

Spec == Init /\ [][Next]_vars
=============================================================================
