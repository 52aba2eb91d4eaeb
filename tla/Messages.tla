------------------------------ MODULE Messages ------------------------------
(***************************************************************************)
(* The codec of src/server/src/topology/msg: an object is constructed,     *)
(* its fields are set and taken, a copy of it or the object itself is      *)
(* encoded and sent, and the other end decides which of the two protocols  *)
(* the frames are of and decodes them, as topology_power.cc does.          *)
(*                                                                         *)
(* The tables of the passes are in AssetMsg and CommonMsg.  Octets and     *)
(* frames may be lost on the way, what a decoder is written to refuse.     *)
(***************************************************************************)
EXTENDS AssetMsg, CommonMsg

CONSTANTS
    Sizes,        \* lengths of the strings that are set
    MaxChanges,   \* calls of setters and of get_ functions on one object
    MaxSent       \* messages on their way

\* Strings whose length four octets can count.
ASSUME SizesAssumption == \A n \in Sizes : n \in Nat /\ n \div 65536 < 65536

VARIABLES
    self,         \* the object of the sender, or None
    changes,      \* how many times a field of it was set or taken
    wire,         \* messages on their way, with what was sent and what was lost
    received      \* what the other end made of the last one

vars == <<self, changes, wire, received>>

None == [id |-> "none"]
Refused == [id |-> "refused"]
EmptyFrame == "empty frame"

Protocols == [asset |-> asset_msg, common |-> common_msg]
Following(p, id) ==
    IF id \in DOMAIN Protocols[p].frames THEN Protocols[p].frames[id] ELSE <<>>
Carries(p, id) == id \in Protocols[p].carries

\* The fields of a message, and the kind of each.
FieldsOf(p, id) ==
    LET put == Protocols[p].put[id]
    IN  {put[i].name : i \in DOMAIN put} \cup Range(Following(p, id))
        \cup (IF Carries(p, id) THEN {"msg"} ELSE {})
Kind(p, id, f) ==
    LET put == Protocols[p].put[id] IN
    IF f = "msg" THEN "msg" ELSE IF f \in Range(Following(p, id)) THEN "frame"
    ELSE put[CHOOSE i \in DOMAIN put : put[i].name = f].kind
IsNumber(kind) == kind \in {"number1", "number2", "number4", "number8"}

\* zmalloc: numbers are zero, pointers are not set.
Fresh(p, id) ==
    [protocol |-> p, id |-> id,
     value |-> [f \in FieldsOf(p, id) |-> IF IsNumber(Kind(p, id, f)) THEN 0 ELSE Unset]]

Encode(m) ==
    LET proto == Protocols[m.protocol]
        put == proto.put[m.id]
        sized == proto.sized[m.id]
        first == [sign |-> proto.sign, id |-> m.id,
                  cells |-> [i \in DOMAIN put |-> Put(put[i].kind, m.value[put[i].name])],
                  octets |-> 3 + sized.octets + SumOf([i \in DOMAIN put |->
                      IF put[i].name \in sized.fields
                      THEN Content(put[i].kind, Sent(put[i].kind, m.value[put[i].name]))
                      ELSE 0])]
        Frame(f) == IF m.value[f] = Unset THEN EmptyFrame ELSE m.value[f]
        fields == Following(m.protocol, m.id)
        carried == IF ~Carries(m.protocol, m.id) THEN <<>>
                   ELSE IF m.value["msg"] = Unset THEN <<EmptyFrame>> ELSE m.value["msg"]
    IN  <<first>> \o [i \in DOMAIN fields |-> Frame(fields[i])] \o carried

\* Right signature, known message: nothing else is looked at.
Is(p, frames) ==
    /\ frames[1].octets >= 3
    /\ frames[1].sign = Protocols[p].sign
    /\ frames[1].id \in DOMAIN Protocols[p].read

Decode(p, frames) ==
    LET first == frames[1]
        read == Protocols[p].read[first.id]
        got == Get(read, first.cells, first.octets)
        fields == Following(p, first.id)
        Field(f) ==
            IF f \in DOMAIN got THEN got[f]
            ELSE IF f \in Range(fields)
            THEN frames[1 + CHOOSE i \in DOMAIN fields : fields[i] = f]
            ELSE SubSeq(frames, 2 + Len(fields), Len(frames))
    IN  IF /\ Is(p, frames)
           /\ Readable(read, first.cells, first.octets)
           /\ Len(frames) > Len(fields)
        THEN [protocol |-> p, id |-> first.id, value |->
              [f \in DOMAIN got \cup Range(fields)
                     \cup (IF Carries(p, first.id) THEN {"msg"} ELSE {}) |-> Field(f)]]
        ELSE Refused

DupFirstFrame(m) ==
    [Fresh(m.protocol, m.id) EXCEPT !.value =
        [f \in DOMAIN @ |-> IF Kind(m.protocol, m.id, f) \notin {"frame", "msg"}
                            THEN m.value[f] ELSE @[f]]]
Dup(m) ==
    [Fresh(m.protocol, m.id) EXCEPT !.value =
        [f \in DOMAIN @ |-> IF f \in Protocols[m.protocol].copied[m.id]
                            THEN m.value[f] ELSE @[f]]]

-----------------------------------------------------------------------------
\* What callers put in a field: texts and numbers tell the fields apart.
Position(p, id, f) ==
    CHOOSE i \in DOMAIN Protocols[p].put[id] : Protocols[p].put[id][i].name = f
ValuesOf(p, id, f) ==
    LET kind == Kind(p, id, f) IN
    CASE IsNumber(kind) -> {Position(p, id, f)}
      [] kind \in {"string", "longstr", "chunk"} -> {String(f, n) : n \in Sizes}
      [] kind = "list" -> {<<>>} \cup {<<String(f, n), String("second", 1)>> : n \in Sizes}
      [] kind = "hash" -> {{}} \cup {{Pair(String("key", n), String(f, 1)),
                                      Pair(String("second", 1), String("other", n))} :
                                     n \in Sizes \ {0}}
      [] kind = "msg" -> {<<>>, <<"one", "two">>}
      [] OTHER -> {"frame of " \o f}
Usual(p, id, f) ==
    LET kind == Kind(p, id, f) IN
    CASE kind \in {"string", "longstr", "chunk"} -> String(f, 3)
      [] kind = "list" -> <<String(f, 3), String("second", 1)>>
      [] kind = "hash" -> {Pair(String("key", 3), String(f, 1))}
      [] kind = "msg" -> <<"one", "two">>
      [] OTHER -> CHOOSE v \in ValuesOf(p, id, f) : TRUE

Init == self = None /\ changes = 0 /\ wire = <<>> /\ received = None

\* asset_msg_new, common_msg_new: the caller sets the fields it wants.
New(p, id) ==
    /\ self = None /\ wire = <<>> /\ received = None
    /\ self' = Fresh(p, id)
    /\ changes' = 0
    /\ UNCHANGED <<wire, received>>

\* An _encode_ function of a message: it sets the fields it is given.
Construct(p, id) ==
    /\ self = None /\ wire = <<>> /\ received = None
    /\ self' = [Fresh(p, id) EXCEPT !.value =
           [f \in DOMAIN @ |-> IF f \in Protocols[p].given[id] THEN Usual(p, id, f) ELSE @[f]]]
    /\ changes' = 0
    /\ UNCHANGED <<wire, received>>

Change(f, value) ==
    /\ changes < MaxChanges
    /\ self' = [self EXCEPT !.value[f] = value]
    /\ changes' = changes + 1
    /\ UNCHANGED <<wire, received>>

SetNumber(f) ==
    /\ IsNumber(Kind(self.protocol, self.id, f))
    /\ \E value \in ValuesOf(self.protocol, self.id, f) : Change(f, value)

\* The text is formatted and replaces the former one.
SetString(f) ==
    /\ Kind(self.protocol, self.id, f) \in {"string", "longstr"}
    /\ \E value \in ValuesOf(self.protocol, self.id, f) : Change(f, value)

\* The object becomes the owner of the value, and destroys the former one.
SetOwned(f) ==
    /\ Kind(self.protocol, self.id, f) \in {"hash", "list", "chunk", "frame", "msg"}
    /\ \E value \in ValuesOf(self.protocol, self.id, f) : Change(f, value)

\* The object gives the value away.
TakeField(f) ==
    /\ Kind(self.protocol, self.id, f) \in {"hash", "list", "chunk", "frame", "msg"}
    /\ Change(f, Unset)

\* One pair of a dictionary; a dictionary that is not there is made first.
InsertPair(f) ==
    /\ Kind(self.protocol, self.id, f) = "hash"
    /\ \E n \in Sizes \ {0} :
          LET pair == Pair(String("key", n), String("inserted", n))
          IN  Change(f, {q \in Sent("hash", self.value[f]) : q.key # pair.key} \cup {pair})

\* One string at the end of a list; a list that is not there is made first.
AppendString(f) ==
    /\ Kind(self.protocol, self.id, f) = "list"
    /\ \E n \in Sizes : Change(f, Append(Sent("list", self.value[f]), String("appended", n)))

Sending(m) == wire' = Append(wire, [sent |-> self, frames |-> Encode(m), lost |-> "nothing"])

\* The object is kept: a copy is encoded.
SendAgain ==
    /\ Len(wire) < MaxSent
    /\ Sending(Dup(self))
    /\ UNCHANGED <<self, changes, received>>

\* The object is encoded and destroyed.
Send ==
    /\ Len(wire) < MaxSent
    /\ Sending(self)
    /\ self' = None
    /\ UNCHANGED <<changes, received>>

\* A _send_ function of a message: constructed, encoded and sent in one step.  What
\* the caller means to send are the values it gives.
SendAtOnce(p, id) ==
    /\ self = None /\ wire = <<>> /\ received = None
    /\ LET meant == [Fresh(p, id) EXCEPT !.value = [f \in DOMAIN @ |-> Usual(p, id, f)]]
           set == [Fresh(p, id) EXCEPT !.value =
                      [f \in DOMAIN @ |-> IF f \in Protocols[p].sends[id]
                                          THEN meant.value[f] ELSE @[f]]]
       IN  wire' = <<[sent |-> meant, frames |-> Encode(set), lost |-> "nothing"]>>
    /\ UNCHANGED <<self, changes, received>>

\* External: the end of the first frame is lost, or the last of the others.
Lose ==
    /\ wire # <<>> /\ wire[Len(wire)].lost = "nothing"
    /\ LET last == wire[Len(wire)]
           n == last.frames[1].octets
       IN  \/ \E left \in {0, 1, 2, 3, n - 1} :
                /\ left < n
                /\ wire' = [wire EXCEPT ![Len(wire)] =
                       [last EXCEPT !.frames[1].octets = left, !.lost = "octets"]]
           \/ /\ Len(last.frames) > 1
              /\ wire' = [wire EXCEPT ![Len(wire)] =
                     [last EXCEPT !.frames = Front(@), !.lost = "frames"]]
    /\ UNCHANGED <<self, changes, received>>

\* is_common_msg, else is_asset_msg, and the decoder of the one that says yes.
Receive ==
    /\ wire # <<>>
    /\ LET frames == Head(wire).frames
           seen == IF Is("common", frames) THEN Decode("common", frames)
                   ELSE IF Is("asset", frames) THEN Decode("asset", frames)
                   ELSE Refused
       IN  received' = [sent |-> Head(wire).sent, lost |-> Head(wire).lost, seen |-> seen]
    /\ wire' = Tail(wire)
    /\ UNCHANGED <<self, changes>>

Destroy == received # None /\ received' = None /\ UNCHANGED <<self, changes, wire>>

Next ==
    \/ \E p \in DOMAIN Protocols : \E id \in DOMAIN Protocols[p].put :
          New(p, id) \/ Construct(p, id) \/ SendAtOnce(p, id)
    \/ /\ self # None
       /\ \/ \E f \in DOMAIN self.value :
                \/ SetNumber(f) \/ SetString(f) \/ SetOwned(f) \/ TakeField(f)
                \/ InsertPair(f) \/ AppendString(f)
          \/ SendAgain
          \/ Send
    \/ Lose
    \/ Receive
    \/ Destroy

Spec == Init /\ [][Next]_vars

-----------------------------------------------------------------------------
\* The value of a field on the other side is the one that was set; a field that was
\* not set is empty.  Of a short string of 256 characters or more a remainder is left; a
\* dictionary keeps each pair whose key is short and is not what is left of another.
Same(kind, sent, seen) ==
    CASE sent = Unset ->
           seen = (CASE kind = "msg" -> <<EmptyFrame>> [] kind = "frame" -> EmptyFrame
                     [] OTHER -> Default(kind))
      [] kind = "string" /\ sent # Unset ->
           IF sent.size \in 1 .. 255 THEN seen = sent
           ELSE seen.size < 256 /\ seen.text \in {"", sent.text}
      [] kind = "hash" /\ sent # Unset ->
           /\ seen \subseteq CutKeys(sent)
           /\ {p.key : p \in seen} = {Cut(p.key) : p \in sent}
           /\ {p \in sent : p.key.size < 256 /\ \A q \in sent \ {p} : Cut(q.key) # p.key}
                 \subseteq seen
      [] OTHER -> seen = sent

SameFields(fields) ==
    \A f \in fields :
        /\ f \in DOMAIN received.seen.value
        /\ Same(Kind(received.sent.protocol, received.sent.id, f),
                received.sent.value[f], received.seen.value[f])

\* A message of either protocol that arrives whole is recognised, decoded, and carries
\* in every field what the sender had set when it sent it, copies included.
WholeMessagesArrive ==
    received # None /\ received.lost = "nothing" =>
        /\ received.seen.id = received.sent.id
        /\ received.seen.protocol = received.sent.protocol
        /\ SameFields(DOMAIN received.sent.value)

\* A message that has lost octets or frames is refused, or nothing that was read is
\* wrong: only the frames after the last known one may be missing without a notice.
DamagedIsNotMisread ==
    received # None /\ received.lost # "nothing" /\ received.seen # Refused =>
        /\ received.seen.id = received.sent.id
        /\ SameFields(DOMAIN received.sent.value \ {"msg"})
        /\ received.lost = "frames" => "msg" \in DOMAIN received.sent.value
=============================================================================
