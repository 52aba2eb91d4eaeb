----------------------------- MODULE MCImport -----------------------------
(***************************************************************************)
(* Instances of Import for TLC: a rack controller, two datacenters, a rack *)
(* of three units, a UPS in it, a device of the other datacenter.          *)
(***************************************************************************)
EXTENDS Import

CONSTANTS t1, t2, rc0, dc1, dc2, rack, ups, far, new, group

Existing(n, kind, parent, status, size, pos, serial) ==
  [name |-> n, kind |-> kind, parent |-> parent, status |-> status, groups |-> {},
   feeds |-> {}, size |-> size, pos |-> pos, serial |-> serial, uuid |-> None]

\* The UPS has a place, or only a size: a document may leave out its position.
MCDatabases ==
  {<<Existing(rc0, "rc", 2, "active", 0, 0, None),
     Existing(dc1, "datacenter", None, "active", 0, 0, None),
     Existing(rack, "rack", 2, "active", 3, 0, None),
     Existing(ups, "device", 3, "nonactive", 2, pos, None),
     Existing(dc2, "datacenter", None, "active", 0, 0, None),
     Existing(far, "device", 5, "nonactive", 0, 0, None)>> : pos \in {0, 1}}

RowOf(id, n, kind, parent, status) ==
  [id |-> id, name |-> n, kind |-> kind, parent |-> parent, groups |-> {}, source |-> None,
   logical |-> None, status |-> status, size |-> 0, pos |-> 0, serial |-> None]
In(row, size, pos) == [row EXCEPT !.size = size, !.pos = pos]
From(row, source) == [row EXCEPT !.source = source]

MCRows ==
  {In(RowOf(4, ups, "device", rack, "active"), 1, 2),             \* moved in its rack
   From(RowOf(4, ups, "device", rack, "active"), ups),            \* feeds itself
   RowOf(4, new, "device", None, "nonactive"),                    \* renamed
   In(RowOf(None, new, "device", rack, "active"), 1, 2),
   From(In(RowOf(None, new, "device", rack, "active"), 1, 3), ups),
   From(RowOf(None, new, "device", rack, "active"), far),         \* other datacenter
   In(RowOf(3, rack, "rack", rack, "active"), 3, 0),              \* contains itself
   RowOf(None, group, "group", None, "active"),
   [RowOf(None, new, "device", dc1, "active") EXCEPT !.groups = {group}],
   RowOf(RC0, rc0, "rc", dc1, "nonactive"),                       \* twice: a new one
   [RowOf(None, new, "device", rack, "active") EXCEPT !.logical = group],
   In(RowOf(None, new, "device", rack, "active"), 1, 53),         \* refused
   RowOf(None, new, "rack", dc1, "nonactive")}                    \* refused

\* Rows of a creation have no id.
MCCreated ==
  {In([RowOf(None, n, "device", rack, "active") EXCEPT !.serial = "serial"], 1, 3) :
     n \in {new, ups}}
    \cup {In(RowOf(None, new, "device", rack, "active"), 1, 3),
          From(RowOf(None, new, "device", rack, "active"), new),
          RowOf(None, new, "device", dc1, "nonactive")}

Csv(rows, notify) == [mode |-> "csv", rows |-> rows, notify |-> notify]
Create(row, notify) == [mode |-> "create", rows |-> <<row>>, notify |-> notify]
NoCall == [mode |-> "none", rows |-> <<>>, notify |-> FALSE]

\* One document of two rows, or two creations at the same time.
MCCalls ==
  {t1 :> Csv(<<a, b>>, TRUE) @@ t2 :> NoCall : a, b \in MCRows}
    \cup {t1 :> Csv(<<a, a>>, FALSE) @@ t2 :> NoCall : a \in MCRows}
    \cup {t1 :> Create(a, TRUE) @@ t2 :> Create(b, TRUE) : a, b \in MCCreated}
    \cup {t1 :> Create(a, FALSE) @@ t2 :> Create(a, TRUE) : a \in MCCreated}

\* A document, and a creation at the same time.
MCMixed ==
  {t1 :> Csv(<<RowOf(None, new, "device", rack, "active")>>, TRUE)
     @@ t2 :> Create(RowOf(None, new, "device", dc1, "active"), TRUE)}
=============================================================================
