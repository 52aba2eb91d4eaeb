----------------------------- MODULE WireFields -----------------------------
(***************************************************************************)
(* The fields of a message on the wire: how the macros PUT_ and GET_ of    *)
(* src/server/src/topology/msg lay them out, one after the other, in the   *)
(* octets of a frame.                                                      *)
(*                                                                         *)
(* A string is its text (a model value or a name) and its length.  What    *)
(* PUT_ wrote is a sequence of cells; a cell keeps the kind of the field,  *)
(* its value and the octets it takes.  A reader that asks for another kind *)
(* than the writer put, or for octets beyond the end of the frame, finds   *)
(* the frame malformed.                                                    *)
(***************************************************************************)
EXTENDS Naturals, Sequences, SequencesExt, FiniteSetsExt, FiniteSets

CONSTANT Unset    \* a pointer that is not set

N1(f) == [name |-> f, kind |-> "number1"]
N2(f) == [name |-> f, kind |-> "number2"]
N4(f) == [name |-> f, kind |-> "number4"]
N8(f) == [name |-> f, kind |-> "number8"]
Str(f) == [name |-> f, kind |-> "string"]
LongStr(f) == [name |-> f, kind |-> "longstr"]
List(f) == [name |-> f, kind |-> "list"]
Hash(f) == [name |-> f, kind |-> "hash"]
Chunk(f) == [name |-> f, kind |-> "chunk"]

\* What the size pass counts: fixed octets and the fields whose length it adds.
Room(octets, fields) == [octets |-> octets, fields |-> fields]

String(text, size) == [text |-> text, size |-> size]
EmptyString == String("", 0)

\* As a recursive function, which a proof can unfold.
SumOf(s) ==
    LET total[n \in 0 .. Len(s)] == IF n = 0 THEN 0 ELSE total[n - 1] + s[n]
    IN  total[Len(s)]

\* The length of a short string is one octet: that many characters follow.
Cut(s) == IF s.size % 256 = 0 THEN EmptyString ELSE [s EXCEPT !.size = @ % 256]

\* A dictionary is a set of pairs of strings; its keys are short strings.  The reader
\* inserts the pairs it finds: of those whose keys are cut to the same one, one stays.
Pair(key, value) == [key |-> key, value |-> value]
CutKeys(pairs) == {[p EXCEPT !.key = Cut(@)] : p \in pairs}
Inserted(pairs) == {CHOOSE p \in pairs : p.key = key : key \in {p.key : p \in pairs}}

Width(kind) ==
    CASE kind = "number1" -> 1 [] kind = "number2" -> 2
      [] kind = "number4" -> 4 [] kind = "number8" -> 8
      [] kind = "string" -> 1 [] OTHER -> 4

\* The octets of a pair of a dictionary, with those of its two lengths.
Octets(p, key) == {p} \X (1 .. (5 + key.size + p.value.size))

\* The octets of the characters of a value, as the size pass counts them.
Content(kind, value) ==
    CASE kind \in {"string", "longstr", "chunk"} -> value.size
      [] kind = "list" -> SumOf([i \in DOMAIN value |-> 4 + value[i].size])
      [] kind = "hash" -> Cardinality(UNION {Octets(p, p.key) : p \in value})
      [] OTHER -> 0

\* What a field that is not set is sent as: zero, or nothing of that kind.
Default(kind) ==
    CASE kind \in {"string", "longstr", "chunk"} -> EmptyString
      [] kind = "list" -> <<>> [] kind = "hash" -> {} [] OTHER -> 0
Sent(kind, value) == IF value = Unset THEN Default(kind) ELSE value

\* What the macro PUT_ of the kind leaves in the frame, as it is read back, and the
\* octets it takes there.
Written(kind, value) ==
    CASE kind = "string" -> Cut(value) [] kind = "hash" -> Inserted(CutKeys(value))
      [] OTHER -> value
Taken(kind, value) ==
    CASE kind = "string" -> Cut(value).size
      [] kind = "hash" -> Cardinality(UNION {Octets(p, Cut(p.key)) : p \in value})
      [] OTHER -> Content(kind, value)

Put(kind, value) ==
    [kind |-> kind, value |-> Written(kind, Sent(kind, value)),
     octets |-> Width(kind) + Taken(kind, Sent(kind, value))]

\* What GET_ finds: the cells that are whole before the end of the frame.
Fits(cells, i, octets) == 3 + SumOf([k \in 1 .. i |-> cells[k].octets]) <= octets
Get(fields, cells, octets) ==
    [f \in {fields[i].name : i \in {j \in DOMAIN fields : Fits(cells, j, octets)}} |->
        cells[CHOOSE i \in DOMAIN fields : fields[i].name = f].value]

\* GET_ of these fields, one after the other, in a frame of so many octets.
ReadableAnyway(fields, cells, octets) ==
    [i \in DOMAIN fields |-> fields[i].kind] = [i \in DOMAIN cells |-> cells[i].kind]
Readable(fields, cells, octets) ==
    /\ [i \in DOMAIN fields |-> fields[i].kind] = [i \in DOMAIN cells |-> cells[i].kind]
    /\ Fits(cells, Len(cells), octets)

\* The table of some messages and that of others.
Both(these, those) ==
    [id \in DOMAIN these \cup DOMAIN those |->
        IF id \in DOMAIN these THEN these[id] ELSE those[id]]
=============================================================================
