--------------------------- MODULE MessagesProofs ---------------------------
(* What is set in a message is what the other end reads, for every string, *)
(* list and dictionary, whatever their lengths.                            *)
EXTENDS Messages, FiniteSetTheorems, TLAPS

-----------------------------------------------------------------------------
(* Induction up to a number, for sets.                                     *)
LEMMA Least ==
  ASSUME NEW N \in Nat, NEW S \in SUBSET (0 .. N), S # {}
  PROVE  \E k \in S : \A x \in S : k <= x
<1> DEFINE Lower(k) == {x \in S : x < k}
           F == {Lower(k) : k \in S}
<1>1. IsWellFoundedOn(StrictSubsetOrdering(S), SUBSET S)
  <2>1. IsFiniteSet(0 .. N)
    BY FS_Interval
  <2>2. IsFiniteSet(S)
    BY <2>1, FS_Subset
  <2> QED
    BY <2>2, FS_StrictSubsetOrderingWellFounded, FS_FiniteSubsetsOfFinite
<1>2. F \subseteq SUBSET S /\ F # {}
  OBVIOUS
<1>3. PICK U \in F : \A V \in F : <<V, U>> \notin StrictSubsetOrdering(S)
  <2> HIDE DEF F
  <2> QED
    BY <1>1, <1>2, WFMin
<1>4. PICK k \in S : U = Lower(k)
  OBVIOUS
<1>5. ASSUME NEW x \in S, x < k
      PROVE  FALSE
  <2>1. Lower(x) \in F /\ Lower(x) \subseteq Lower(k)
    <3>1. Lower(x) \in F
      OBVIOUS
    <3>2. ASSUME NEW y \in S, y < x
          PROVE  y < k
      <4>1. k \in Nat /\ x \in Nat /\ y \in Nat
        OBVIOUS
      <4> QED
        BY <1>5, <3>2, <4>1
    <3> QED
      BY <3>1, <3>2
  <2>2. x \in Lower(k) /\ x \notin Lower(x)
    BY <1>5
  <2>3. <<Lower(x), U>> \notin StrictSubsetOrdering(S)
    <3> HIDE DEF Lower, F
    <3> QED
      BY <2>1, <1>3
  <2>4. Lower(x) \in SUBSET S /\ Lower(k) \in SUBSET S
    OBVIOUS
  <2> HIDE DEF Lower, F
  <2> QED
    BY <2>1, <2>2, <2>3, <2>4, <1>4 DEF StrictSubsetOrdering
<1>6. \A x \in S : k \in Nat /\ x \in Nat /\ ~(x < k)
  BY <1>5
<1> QED
  BY <1>6

LEMMA Upward ==
  ASSUME NEW N \in Nat, NEW T, 0 \in T, \A n \in 0 .. N : n + 1 \in 0 .. N /\ n \in T => n + 1 \in T
  PROVE  0 .. N \subseteq T
<1> DEFINE S == (0 .. N) \ T
<1> SUFFICES ASSUME S # {} PROVE FALSE
  OBVIOUS
<1>1. PICK k \in S : \A x \in S : k <= x
  <2>1. S \in SUBSET (0 .. N)
    OBVIOUS
  <2> HIDE DEF S
  <2> QED
    BY <2>1, Least
<1>2. k # 0 /\ k - 1 \in 0 .. N /\ k - 1 \notin S /\ (k - 1) + 1 = k
  BY <1>1
<1> QED
  BY <1>1, <1>2

-----------------------------------------------------------------------------
(* Sums of the numbers of a sequence, by their partial sums.               *)
Totals(t, s, n) == t = [k \in 0 .. n |-> IF k = 0 THEN 0 ELSE t[k - 1] + s[k]]

LEMMA TotalsExist ==
  ASSUME NEW s, NEW N \in Nat
  PROVE  \E t : Totals(t, s, N)
<1> DEFINE T == {n \in 0 .. N : \E t : Totals(t, s, n)}
<1>1. 0 \in T
  <2>1. Totals([k \in 0 .. 0 |-> 0], s, 0)
    BY DEF Totals
  <2> QED
    BY <2>1
<1>2. ASSUME NEW n \in 0 .. N, n + 1 \in 0 .. N, n \in T
      PROVE  n + 1 \in T
  <2>1. PICK t : Totals(t, s, n)
    BY <1>2
  <2> DEFINE g == [k \in 0 .. n + 1 |-> IF k = n + 1 THEN t[n] + s[k] ELSE t[k]]
  <2>2. ASSUME NEW k \in 0 .. n + 1
        PROVE  g[k] = IF k = 0 THEN 0 ELSE g[k - 1] + s[k]
    <3>1. CASE k = n + 1
      <4>1. g[k] = t[n] + s[k] /\ k - 1 = n /\ k # 0 /\ g[n] = t[n]
        BY <1>2, <3>1
      <4> QED
        BY <4>1
    <3>2. CASE k # n + 1
      <4>1. k \in 0 .. n
        BY <1>2, <3>2
      <4>2. g[k] = t[k] /\ t[k] = IF k = 0 THEN 0 ELSE t[k - 1] + s[k]
        BY <1>2, <2>1, <3>2, <4>1 DEF Totals
      <4>3. k # 0 => g[k - 1] = t[k - 1]
        BY <1>2, <4>1
      <4> QED
        BY <4>2, <4>3
    <3> QED
      BY <3>1, <3>2
  <2>3. Totals(g, s, n + 1)
    <3>1. g = [k \in 0 .. n + 1 |-> g[k]]
      OBVIOUS
    <3> HIDE DEF g
    <3> QED
      BY <2>2, <3>1 DEF Totals
  <2> QED
    BY <1>2, <2>3
<1>3. 0 .. N \subseteq T
  <2> HIDE DEF T
  <2> QED
    BY <1>1, <1>2, Upward
<1> QED
  BY <1>3

LEMMA TotalsNat ==
  ASSUME NEW n \in Nat, NEW s \in [1 .. n -> Nat], NEW t, Totals(t, s, n)
  PROVE  \A k \in 0 .. n : t[k] \in Nat
<1> DEFINE T == {k \in 0 .. n : t[k] \in Nat}
<1>1. 0 \in T
  BY DEF Totals
<1>2. ASSUME NEW k \in 0 .. n, k + 1 \in 0 .. n, k \in T
      PROVE  k + 1 \in T
  <2>1. t[k + 1] = t[k] + s[k + 1] /\ s[k + 1] \in Nat
    BY <1>2 DEF Totals
  <2> QED
    BY <1>2, <2>1
<1>3. 0 .. n \subseteq T
  <2> HIDE DEF T
  <2> QED
    BY <1>1, <1>2, Upward
<1> QED
  BY <1>3

LEMMA TotalsStep ==
  ASSUME NEW n \in Nat, NEW s, NEW t, Totals(t, s, n), NEW j \in 0 .. n, j + 1 \in 0 .. n
  PROVE  t[j + 1] = t[j] + s[j + 1] /\ j + 1 \in 1 .. n
<1>1. j + 1 # 0 /\ (j + 1) - 1 = j
  OBVIOUS
<1> QED
  BY <1>1 DEF Totals

LEMMA SumIsTotal ==
  ASSUME NEW n \in Nat, NEW s \in [1 .. n -> Nat]
  PROVE  \E t \in [0 .. n -> Nat] : Totals(t, s, n) /\ SumOf(s) = t[n]
<1>1. Len(s) = n
  OBVIOUS
<1> DEFINE t == CHOOSE u : Totals(u, s, n)
<1>2. Totals(t, s, n)
  BY TotalsExist
<1>3. SumOf(s) = t[n]
  BY <1>1 DEF SumOf, Totals
<1>4. t \in [0 .. n -> Nat]
  <2>1. \A k \in 0 .. n : t[k] \in Nat
    <3> HIDE DEF t
    <3> QED
      BY <1>2, TotalsNat
  <2>2. t = [k \in 0 .. n |-> t[k]]
    <3> HIDE DEF t
    <3> QED
      BY <1>2 DEF Totals
  <2> HIDE DEF t
  <2> QED
    BY <2>1, <2>2
<1> QED
  BY <1>2, <1>3, <1>4

(* The first numbers have no greater sum than all of them.                 *)
LEMMA SumOfFirst ==
  ASSUME NEW n \in Nat, NEW s \in [1 .. n -> Nat], NEW k \in 0 .. n, NEW r \in [1 .. k -> Nat],
         \A i \in 1 .. k : r[i] = s[i]
  PROVE  SumOf(r) \in Nat /\ SumOf(s) \in Nat /\ SumOf(r) <= SumOf(s)
<1>0. k \in Nat
  OBVIOUS
<1>1. PICK t \in [0 .. n -> Nat] : Totals(t, s, n) /\ SumOf(s) = t[n]
  BY SumIsTotal
<1>2. PICK u \in [0 .. k -> Nat] : Totals(u, r, k) /\ SumOf(r) = u[k]
  BY <1>0, SumIsTotal
<1> DEFINE T == {j \in 0 .. k : u[j] = t[j]}
           V == {j \in 0 .. n : j >= k => t[k] <= t[j]}
<1>3. 0 .. k \subseteq T
  <2>1. 0 \in T
    BY <1>1, <1>2 DEF Totals
  <2>2. ASSUME NEW j \in 0 .. k, j + 1 \in 0 .. k, j \in T
        PROVE  j + 1 \in T
    <3>1. j + 1 \in 1 .. k /\ j + 1 \in 0 .. n /\ j \in 0 .. n
      BY <2>2
    <3>2. u[j + 1] = u[j] + r[j + 1]
      BY <1>0, <1>2, <2>2, TotalsStep
    <3>3. t[j + 1] = t[j] + s[j + 1]
      BY <1>1, <3>1, TotalsStep
    <3>4. r[j + 1] = s[j + 1]
      BY <3>1, Zenon
    <3> QED
      BY <2>2, <3>2, <3>3, <3>4
  <2> HIDE DEF T
  <2> QED
    BY <1>0, <2>1, <2>2, Upward
<1>4. 0 .. n \subseteq V
  <2>1. 0 \in V
    BY <1>1
  <2>2. ASSUME NEW j \in 0 .. n, j + 1 \in 0 .. n, j \in V
        PROVE  j + 1 \in V
    <3>1. t[j + 1] = t[j] + s[j + 1] /\ s[j + 1] \in Nat /\ t[j] \in Nat /\ t[k] \in Nat
      BY <1>1, <2>2, TotalsStep
    <3>2. CASE j + 1 = k
      BY <2>2, <3>1, <3>2
    <3>3. CASE j + 1 # k
      BY <2>2, <3>1, <3>3
    <3> QED
      BY <3>2, <3>3
  <2> HIDE DEF V
  <2> QED
    BY <2>1, <2>2, Upward
<1>5. u[k] = t[k] /\ t[k] <= t[n]
  BY <1>3, <1>4
<1> QED
  BY <1>1, <1>2, <1>5

LEMMA AddAtMost ==
  ASSUME NEW x \in Nat, NEW y \in Nat, NEW z \in Nat, NEW p \in Nat, NEW q \in Nat, NEW r \in Nat,
         x <= y + z, p <= q + r
  PROVE  x + p <= (y + q) + (z + r)
  OBVIOUS

LEMMA SumAtMost ==
  ASSUME NEW n \in Nat, NEW s \in [1 .. n -> Nat], NEW a \in [1 .. n -> Nat], NEW b \in [1 .. n -> Nat],
         \A i \in 1 .. n : s[i] <= a[i] + b[i]
  PROVE  SumOf(s) <= SumOf(a) + SumOf(b)
<1>1. PICK t \in [0 .. n -> Nat] : Totals(t, s, n) /\ SumOf(s) = t[n]
  BY SumIsTotal
<1>2. PICK u \in [0 .. n -> Nat] : Totals(u, a, n) /\ SumOf(a) = u[n]
  BY SumIsTotal
<1>3. PICK v \in [0 .. n -> Nat] : Totals(v, b, n) /\ SumOf(b) = v[n]
  BY SumIsTotal
<1> DEFINE T == {j \in 0 .. n : t[j] <= u[j] + v[j]}
<1>4. 0 \in T
  BY <1>1, <1>2, <1>3 DEF Totals
<1>5. ASSUME NEW j \in 0 .. n, j + 1 \in 0 .. n, j \in T
      PROVE  j + 1 \in T
  <2>1. /\ t[j + 1] = t[j] + s[j + 1] /\ u[j + 1] = u[j] + a[j + 1] /\ v[j + 1] = v[j] + b[j + 1]
        /\ j + 1 \in 1 .. n
    BY <1>1, <1>2, <1>3, <1>5, TotalsStep
  <2>2. /\ s[j + 1] \in Nat /\ a[j + 1] \in Nat /\ b[j + 1] \in Nat
        /\ t[j] \in Nat /\ u[j] \in Nat /\ v[j] \in Nat /\ s[j + 1] <= a[j + 1] + b[j + 1]
    BY <2>1
  <2>3. t[j + 1] <= u[j + 1] + v[j + 1]
    <3>1. t[j] <= u[j] + v[j]
      BY <1>5
    <3> QED
      <4>1. t[j] + s[j + 1] <= (u[j] + a[j + 1]) + (v[j] + b[j + 1])
        BY <2>2, <3>1, AddAtMost, Zenon
      <4> QED
        BY <2>1, <4>1, Zenon
  <2> QED
    BY <1>5, <2>3
<1>6. 0 .. n \subseteq T
  <2> HIDE DEF T
  <2> QED
    BY <1>4, <1>5, Upward
<1> QED
  BY <1>1, <1>2, <1>3, <1>6

-----------------------------------------------------------------------------
(* What a field may hold: a list and a dictionary are finite, keys are not *)
(* empty.                                                                  *)
Kinds == {"number1", "number2", "number4", "number8", "string", "longstr", "list", "hash", "chunk"}
Names ==
  {"", "key", "second", "other", "inserted", "appended"}
    \cup UNION {UNION {FieldsOf(p, id) : id \in DOMAIN Protocols[p].put} : p \in DOMAIN Protocols}
Text == [text : Names, size : Nat]
Key == {t \in Text : t.size # 0}
Dictionary(keys) == {d \in SUBSET [key : keys, value : Text] : IsFiniteSet(d)}
Values(kind) ==
  IF IsNumber(kind) THEN Nat
  ELSE IF kind = "list" THEN Seq(Text)
  ELSE IF kind = "hash" THEN Dictionary(Key) ELSE Text

LEMMA KindFacts ==
  /\ \A v : Written("string", v) = Cut(v) /\ Written("hash", v) = Inserted(CutKeys(v))
  /\ \A k, v : k \notin {"string", "hash"} => Written(k, v) = v
  /\ \A v : Taken("string", v) = Cut(v).size
  /\ \A v : Taken("hash", v) = Cardinality(UNION {Octets(p, Cut(p.key)) : p \in v})
  /\ \A k, v : k \notin {"string", "hash"} => Taken(k, v) = Content(k, v)
  /\ \A k, v : k \in {"string", "longstr", "chunk"} => Content(k, v) = v.size
  /\ \A v : Content("list", v) = SumOf([i \in DOMAIN v |-> 4 + v[i].size])
  /\ \A v : Content("hash", v) = Cardinality(UNION {Octets(p, p.key) : p \in v})
  /\ \A k, v : IsNumber(k) => Content(k, v) = 0
  /\ \A k : k \in {"string", "longstr", "chunk"} => Default(k) = EmptyString
  /\ Default("list") = <<>> /\ Default("hash") = {} /\ \A k : IsNumber(k) => Default(k) = 0
<1>1. \A v : Written("string", v) = Cut(v) /\ Written("hash", v) = Inserted(CutKeys(v))
  <2>1. "string" # "hash"
    OBVIOUS
  <2> QED
    BY <2>1, Zenon DEF Written
<1>2. \A k, v : k \notin {"string", "hash"} => Written(k, v) = v
  BY Zenon DEF Written
<1>3. /\ \A v : Taken("string", v) = Cut(v).size
      /\ \A v : Taken("hash", v) = Cardinality(UNION {Octets(p, Cut(p.key)) : p \in v})
  <2>1. "string" # "hash"
    OBVIOUS
  <2> QED
    BY <2>1, Zenon DEF Taken
<1>4. \A k, v : k \notin {"string", "hash"} => Taken(k, v) = Content(k, v)
  BY Zenon DEF Taken
<1>5. \A k, v : k \in {"string", "longstr", "chunk"} => Content(k, v) = v.size
  <2>1. \A k : k \in {"string", "longstr", "chunk"} => k # "list" /\ k # "hash"
    OBVIOUS
  <2> QED
    BY <2>1, Zenon DEF Content
<1>6. /\ \A v : Content("list", v) = SumOf([i \in DOMAIN v |-> 4 + v[i].size])
      /\ \A v : Content("hash", v) = Cardinality(UNION {Octets(p, p.key) : p \in v})
  <2>1. "list" # "hash" /\ "list" \notin {"string", "longstr", "chunk"}
        /\ "hash" \notin {"string", "longstr", "chunk"}
    OBVIOUS
  <2> QED
    BY <2>1, Zenon DEF Content
<1>7. \A k : IsNumber(k) => k # "list" /\ k # "hash" /\ k \notin {"string", "longstr", "chunk"}
  BY DEF IsNumber
<1>8. \A k, v : IsNumber(k) => Content(k, v) = 0
  BY <1>7, Zenon DEF Content
<1>9. \A k : k \in {"string", "longstr", "chunk"} => Default(k) = EmptyString
  <2>1. \A k : k \in {"string", "longstr", "chunk"} => k # "list" /\ k # "hash"
    OBVIOUS
  <2> QED
    BY <2>1, Zenon DEF Default
<1>10. Default("list") = <<>> /\ Default("hash") = {}
  <2>1. "list" # "hash" /\ "list" \notin {"string", "longstr", "chunk"}
        /\ "hash" \notin {"string", "longstr", "chunk"}
    OBVIOUS
  <2> QED
    BY <2>1, Zenon DEF Default
<1>11. \A k : IsNumber(k) => Default(k) = 0
  BY <1>7, Zenon DEF Default
<1> QED
  BY <1>1, <1>2, <1>3, <1>4, <1>5, <1>6, <1>8, <1>9, <1>10, <1>11, Zenon

LEMMA CutFacts ==
  ASSUME NEW s \in Text
  PROVE  /\ Cut(s) \in Text /\ Cut(s).size < 256 /\ Cut(s).size <= s.size
         /\ s.size \in 1 .. 255 => Cut(s) = s
         /\ Cut(s).text \in {"", s.text}
<1>1. s.size \in Nat /\ s.text \in Names /\ s = [text |-> s.text, size |-> s.size]
  BY DEF Text
<1>2. s.size % 256 \in 0 .. 255 /\ s.size % 256 <= s.size /\ (s.size < 256 => s.size % 256 = s.size)
  BY <1>1
<1>3. CASE s.size % 256 = 0
  <2> DEFINE nothing == ""
  <2>1. Cut(s) = [text |-> nothing, size |-> 0]
    BY <1>3, Zenon DEF Cut, EmptyString, String
  <2>2. s.size \notin 1 .. 255
    BY <1>1, <1>2, <1>3
  <2>3. nothing \in Names
    BY Zenon DEF Names
  <2>4. nothing \in {"", s.text}
    BY Zenon
  <2> HIDE DEF nothing
  <2>5. Cut(s) \in Text /\ Cut(s).size = 0 /\ Cut(s).text = nothing
    BY <2>1, <2>3 DEF Text
  <2>6. Cut(s).size < 256 /\ Cut(s).size <= s.size
    BY <1>1, <2>5
  <2> QED
    BY <2>2, <2>4, <2>5, <2>6, Zenon
<1>4. CASE s.size % 256 # 0
  <2>1. Cut(s) = [text |-> s.text, size |-> s.size % 256]
    BY <1>1, <1>4 DEF Cut
  <2>2. Cut(s) \in Text /\ Cut(s).size = s.size % 256 /\ Cut(s).text = s.text
    BY <1>1, <1>2, <2>1 DEF Text
  <2>3. s.size \in 1 .. 255 => Cut(s) = s
    BY <1>1, <1>2, <2>1
  <2>4. Cut(s).text \in {"", s.text}
    BY <2>2, Zenon
  <2> QED
    BY <1>2, <2>2, <2>3, <2>4
<1> QED
  BY <1>3, <1>4, Zenon

LEMMA ListContent ==
  ASSUME NEW v \in Seq(Text)
  PROVE  SumOf([i \in DOMAIN v |-> 4 + v[i].size]) \in Nat
<1> DEFINE s == [i \in 1 .. Len(v) |-> 4 + v[i].size]
<1>1. Len(v) \in Nat /\ DOMAIN v = 1 .. Len(v) /\ \A i \in 1 .. Len(v) : v[i].size \in Nat
  <2>1. \A t \in Text : t.size \in Nat
    BY DEF Text
  <2>2. Len(v) \in Nat /\ DOMAIN v = 1 .. Len(v) /\ \A i \in 1 .. Len(v) : v[i] \in Text
    OBVIOUS
  <2> QED
    BY <2>1, <2>2
<1>2. s \in [1 .. Len(v) -> Nat]
  BY <1>1
<1>3. SumOf(s) \in Nat
  <2> HIDE DEF s
  <2>1. PICK t \in [0 .. Len(v) -> Nat] : SumOf(s) = t[Len(v)]
    BY <1>1, <1>2, SumIsTotal
  <2> QED
    BY <1>1, <2>1
<1> QED
  BY <1>1, <1>3

(* A dictionary takes no more octets when its long keys are cut.           *)
LEMMA OctetsFinite ==
  ASSUME NEW d \in Dictionary(Key)
  PROVE  IsFiniteSet(UNION {Octets(p, p.key) : p \in d})
<1>1. \A p \in d : p.key.size \in Nat /\ p.value.size \in Nat
  BY DEF Dictionary, Text, Key
<1>2. ASSUME NEW p \in d
      PROVE  IsFiniteSet(Octets(p, p.key))
  <2>1. 1 \in Int /\ 5 + p.key.size + p.value.size \in Int
    BY <1>1
  <2>2. IsFiniteSet(1 .. (5 + p.key.size + p.value.size))
    BY <2>1, FS_Interval, Zenon
  <2>3. IsFiniteSet({p})
    BY FS_Singleton, Zenon
  <2> QED
    BY <2>2, <2>3, FS_Product, Zenon DEF Octets
<1> DEFINE O == {Octets(p, p.key) : p \in d}
           f == [p \in d |-> Octets(p, p.key)]
<1>3. IsFiniteSet(O)
  <2>1. IsFiniteSet(d)
    BY DEF Dictionary
  <2>2. f \in [d -> O]
    BY Zenon
  <2>3. \A o \in O : \E p \in d : f[p] = o
    BY Zenon
  <2>4. f \in Surjection(d, O)
    BY <2>2, <2>3, Zenon DEF Surjection
  <2> HIDE DEF f, O
  <2> QED
    BY <2>1, <2>4, FS_Surjection, Zenon
<1>4. \A T \in O : IsFiniteSet(T)
  BY <1>2, Zenon
<1> HIDE DEF O
<1>5. IsFiniteSet(UNION O)
  BY <1>3, <1>4, FS_UNION, Zenon
<1> QED
  BY <1>5, Zenon DEF O

LEMMA CutOctets ==
  ASSUME NEW d \in Dictionary(Key)
  PROVE  /\ Content("hash", d) \in Nat /\ Taken("hash", d) \in Nat
         /\ Taken("hash", d) <= Content("hash", d)
<1> DEFINE S == UNION {Octets(p, Cut(p.key)) : p \in d}
           T == UNION {Octets(p, p.key) : p \in d}
<1>1. ASSUME NEW p \in d
      PROVE  Octets(p, Cut(p.key)) \subseteq Octets(p, p.key)
  <2>1. p.key \in Text /\ p.value \in Text
    BY DEF Dictionary, Key
  <2>2. /\ Cut(p.key).size <= p.key.size /\ Cut(p.key).size \in Nat
        /\ p.key.size \in Nat /\ p.value.size \in Nat
    BY <2>1, CutFacts DEF Text
  <2>3. 1 .. (5 + Cut(p.key).size + p.value.size) \subseteq 1 .. (5 + p.key.size + p.value.size)
    BY <2>2
  <2> QED
    BY <2>3, Zenon DEF Octets
<1>2. S \subseteq T
  BY <1>1, Zenon
<1>3. IsFiniteSet(T)
  BY OctetsFinite, Zenon
<1> HIDE DEF S, T
<1>4. IsFiniteSet(S) /\ Cardinality(S) <= Cardinality(T)
  BY <1>2, <1>3, FS_Subset
<1>5. Cardinality(S) \in Nat /\ Cardinality(T) \in Nat
  BY <1>3, <1>4, FS_CardinalityType
<1> QED
  BY <1>4, <1>5, KindFacts, Zenon DEF S, T

(* What the reader of a dictionary is left with.                           *)
LEMMA InsertedFacts ==
  ASSUME NEW d \in Dictionary(Key)
  PROVE  /\ Inserted(CutKeys(d)) \subseteq CutKeys(d)
         /\ {p.key : p \in Inserted(CutKeys(d))} = {Cut(p.key) : p \in d}
         /\ {p \in d : p.key.size < 256 /\ \A q \in d \ {p} : Cut(q.key) # p.key}
               \subseteq Inserted(CutKeys(d))
<1> DEFINE c(p) == [p EXCEPT !.key = Cut(@)]
           left(key) == CHOOSE p \in CutKeys(d) : p.key = key
<1>1. ASSUME NEW p \in d
      PROVE  /\ p.key \in Text /\ p.key.size # 0 /\ p = [key |-> p.key, value |-> p.value]
             /\ c(p) = [key |-> Cut(p.key), value |-> p.value] /\ c(p).key = Cut(p.key)
  BY DEF Dictionary, Key
<1>2. CutKeys(d) = {c(p) : p \in d}
  BY Zenon DEF CutKeys
<1>3. ASSUME NEW p \in d
      PROVE  left(Cut(p.key)) \in CutKeys(d) /\ left(Cut(p.key)).key = Cut(p.key)
  <2> HIDE DEF c
  <2>1. c(p) \in CutKeys(d) /\ c(p).key = Cut(p.key)
    BY <1>1, <1>2, Zenon
  <2> QED
    BY <2>1, Zenon
<1>4. Inserted(CutKeys(d)) = {left(Cut(p.key)) : p \in d}
  <2>1. {q.key : q \in CutKeys(d)} = {Cut(p.key) : p \in d}
    <3> HIDE DEF c
    <3> QED
      BY <1>1, <1>2
  <2>2. Inserted(CutKeys(d)) = {left(key) : key \in {q.key : q \in CutKeys(d)}}
    BY Zenon DEF Inserted
  <2> HIDE DEF left
  <2>3. Inserted(CutKeys(d)) = {left(key) : key \in {Cut(p.key) : p \in d}}
    BY <2>1, <2>2, Zenon
  <2> QED
    BY <2>3
<1> HIDE DEF left
<1>5. Inserted(CutKeys(d)) \subseteq CutKeys(d)
  BY <1>3, <1>4, Zenon
<1>6. {p.key : p \in Inserted(CutKeys(d))} = {Cut(p.key) : p \in d}
  <2> DEFINE L == Inserted(CutKeys(d))
  <2>1. \A p \in d : left(Cut(p.key)) \in L /\ left(Cut(p.key)).key = Cut(p.key)
    BY <1>3, <1>4, Zenon
  <2>2. \A r \in L : \E p \in d : r.key = Cut(p.key)
    BY <1>3, <1>4, Zenon
  <2> HIDE DEF L
  <2>3. {r.key : r \in L} = {Cut(p.key) : p \in d}
    BY <2>1, <2>2
  <2> QED
    BY <2>3, Zenon DEF L
<1>7. ASSUME NEW p \in d, p.key.size < 256, \A q \in d \ {p} : Cut(q.key) # p.key
      PROVE  p \in Inserted(CutKeys(d))
  <2>1. Cut(p.key) = p.key
    <3>1. p.key.size \in 1 .. 255
      <4>1. p.key.size \in Nat /\ p.key.size # 0
        BY <1>1 DEF Text
      <4> QED
        BY <1>7, <4>1
    <3> QED
      BY <1>1, <3>1, CutFacts
  <2>2. PICK q \in d : left(Cut(p.key)) = c(q)
    <3> HIDE DEF c
    <3> QED
      BY <1>2, <1>3, Zenon
  <2>3. Cut(q.key) = Cut(p.key)
    BY <1>1, <1>3, <2>2, Zenon
  <2>4. q = p
    BY <1>7, <2>1, <2>3
  <2>5. c(p) = p
    BY <1>1, <2>1
  <2> HIDE DEF c
  <2> QED
    BY <1>4, <2>2, <2>4, <2>5, Zenon
<1>8. {p \in d : p.key.size < 256 /\ \A q \in d \ {p} : Cut(q.key) # p.key} \subseteq Inserted(CutKeys(d))
  BY <1>7, Zenon
<1> QED
  BY <1>5, <1>6, <1>8, Zenon

-----------------------------------------------------------------------------
(* A field of each kind, sent and read back.                               *)
LEMMA SameUnset ==
  ASSUME NEW w
  PROVE  /\ \A k \in Kinds : Same(k, Unset, w) <=> w = Default(k)
         /\ Same("msg", Unset, w) <=> w = <<EmptyFrame>>
         /\ Same("frame", Unset, w) <=> w = EmptyFrame
<1>1. \A k \in Kinds : k # "msg" /\ k # "frame"
  BY DEF Kinds
<1>2. "msg" # "frame"
  OBVIOUS
<1>3. \A k \in Kinds : Same(k, Unset, w) <=> w = Default(k)
  BY <1>1, Zenon DEF Same
<1>4. Same("msg", Unset, w) <=> w = <<EmptyFrame>>
  BY Zenon DEF Same
<1>5. Same("frame", Unset, w) <=> w = EmptyFrame
  BY <1>2, Zenon DEF Same
<1> QED
  BY <1>3, <1>4, <1>5, Zenon

LEMMA SameOther ==
  ASSUME NEW k, k \notin {"string", "hash"}, NEW v, v # Unset, NEW w
  PROVE  Same(k, v, w) <=> w = v
  BY Zenon DEF Same

LEMMA SameString ==
  ASSUME NEW v, v # Unset, NEW w
  PROVE  /\ v.size \in 1 .. 255 => (Same("string", v, w) <=> w = v)
         /\ v.size \notin 1 .. 255 =>
              (Same("string", v, w) <=> w.size < 256 /\ w.text \in {"", v.text})
<1>1. v.size \in 1 .. 255 => (Same("string", v, w) <=> w = v)
  BY Zenon DEF Same
<1>2. v.size \notin 1 .. 255 =>
        (Same("string", v, w) <=> w.size < 256 /\ w.text \in {"", v.text})
  BY Zenon DEF Same
<1> QED
  BY <1>1, <1>2, Zenon

LEMMA SameHash ==
  ASSUME NEW v, v # Unset, NEW w,
         w \subseteq CutKeys(v),
         {p.key : p \in w} = {Cut(p.key) : p \in v},
         {p \in v : p.key.size < 256 /\ \A q \in v \ {p} : Cut(q.key) # p.key} \subseteq w
  PROVE  Same("hash", v, w)
<1>1. "string" # "hash"
  OBVIOUS
<1> QED
  BY <1>1, Zenon DEF Same

LEMMA DefaultIsValue ==
  ASSUME NEW k \in Kinds
  PROVE  Default(k) \in Values(k) /\ Written(k, Default(k)) = Default(k)
<1>1. EmptyString \in Text /\ Cut(EmptyString) = EmptyString
  <2> DEFINE nothing == ""
  <2>1. nothing \in Names /\ EmptyString = [text |-> nothing, size |-> 0]
    BY Zenon DEF Names, EmptyString, String
  <2> HIDE DEF nothing
  <2>2. EmptyString \in Text /\ EmptyString.size = 0
    BY <2>1 DEF Text
  <2>3. EmptyString.size % 256 = 0
    BY <2>2
  <2> QED
    BY <2>2, <2>3, Zenon DEF Cut
<1>2. {} \in Dictionary(Key) /\ Inserted(CutKeys({})) = {}
  <2>1. IsFiniteSet({})
    BY FS_EmptySet
  <2> QED
    BY <2>1 DEF Dictionary, Inserted, CutKeys
<1>3. <<>> \in Seq(Text)
  OBVIOUS
<1>4. CASE IsNumber(k)
  <2>1. k \notin {"string", "hash"}
    BY <1>4 DEF IsNumber
  <2> QED
    BY <1>4, <2>1, KindFacts DEF Values
<1>5. CASE k = "list"
  <2>1. ~IsNumber(k) /\ k \notin {"string", "hash"}
    BY <1>5 DEF IsNumber
  <2> QED
    BY <1>3, <1>5, <2>1, KindFacts DEF Values
<1>6. CASE k = "hash"
  <2>1. ~IsNumber(k) /\ k # "list"
    BY <1>6 DEF IsNumber
  <2> QED
    BY <1>2, <1>6, <2>1, KindFacts DEF Values
<1>7. CASE k = "string"
  <2>1. ~IsNumber(k) /\ k # "list" /\ k # "hash" /\ k \in {"string", "longstr", "chunk"}
    BY <1>7 DEF IsNumber
  <2> QED
    BY <1>1, <1>7, <2>1, KindFacts DEF Values
<1>8. CASE k \in {"longstr", "chunk"}
  <2>1. /\ ~IsNumber(k) /\ k # "list" /\ k # "hash" /\ k \in {"string", "longstr", "chunk"}
        /\ k \notin {"string", "hash"}
    BY <1>8 DEF IsNumber
  <2> QED
    BY <1>1, <2>1, KindFacts DEF Values
<1> QED
  BY <1>4, <1>5, <1>6, <1>7, <1>8 DEF Kinds, IsNumber

LEMMA TakenFacts ==
  ASSUME NEW k \in Kinds, NEW v \in Values(k)
  PROVE  Content(k, v) \in Nat /\ Taken(k, v) \in Nat /\ Taken(k, v) <= Content(k, v)
<1>1. CASE IsNumber(k)
  <2>1. k \notin {"string", "hash"}
    BY <1>1 DEF IsNumber
  <2> QED
    BY <1>1, <2>1, KindFacts
<1>2. CASE k = "list"
  <2>1. ~IsNumber(k) /\ k \notin {"string", "hash"}
    BY <1>2 DEF IsNumber
  <2>2. v \in Seq(Text)
    BY <1>2, <2>1 DEF Values
  <2>3. Content(k, v) \in Nat
    BY <1>2, <2>2, ListContent, KindFacts, Zenon
  <2>4. Taken(k, v) = Content(k, v)
    BY <2>1, KindFacts, Zenon
  <2> QED
    BY <2>3, <2>4
<1>3. CASE k = "hash"
  <2>1. ~IsNumber(k) /\ k # "list"
    BY <1>3 DEF IsNumber
  <2> QED
    BY <1>3, <2>1, CutOctets DEF Values
<1>4. CASE k = "string"
  <2>1. ~IsNumber(k) /\ k # "list" /\ k # "hash" /\ k \in {"string", "longstr", "chunk"}
    BY <1>4 DEF IsNumber
  <2>2. v \in Text
    BY <2>1 DEF Values
  <2>3. v.size \in Nat /\ Cut(v).size \in Nat /\ Cut(v).size <= v.size
    BY <2>2, CutFacts DEF Text
  <2>4. Content(k, v) = v.size /\ Taken(k, v) = Cut(v).size
    BY <1>4, <2>1, KindFacts
  <2> QED
    BY <2>3, <2>4
<1>5. CASE k \in {"longstr", "chunk"}
  <2>1. /\ ~IsNumber(k) /\ k # "list" /\ k # "hash" /\ k \in {"string", "longstr", "chunk"}
        /\ k \notin {"string", "hash"}
    BY <1>5 DEF IsNumber
  <2>2. v \in Text
    BY <2>1 DEF Values
  <2>3. v.size \in Nat
    BY <2>2 DEF Text
  <2>4. Content(k, v) = v.size /\ Taken(k, v) = Content(k, v)
    BY <2>1, KindFacts
  <2> QED
    BY <2>3, <2>4
<1> QED
  BY <1>1, <1>2, <1>3, <1>4, <1>5 DEF Kinds, IsNumber

(* What a field is read back as is the same, in the sense of the property. *)
LEMMA FieldArrives ==
  ASSUME NEW k \in Kinds, NEW v, v \in Values(k) \/ v = Unset
  PROVE  /\ Sent(k, v) \in Values(k)
         /\ Same(k, v, Written(k, Sent(k, v)))
<1>1. CASE v = Unset
  <2>1. Sent(k, v) = Default(k)
    BY <1>1, Zenon DEF Sent
  <2>2. Default(k) \in Values(k) /\ Written(k, Default(k)) = Default(k)
    BY DefaultIsValue, Zenon
  <2> QED
    BY <1>1, <2>1, <2>2, SameUnset, Zenon
<1>2. CASE v # Unset
  <2>1. Sent(k, v) = v /\ v \in Values(k)
    BY <1>2, Zenon DEF Sent
  <2>2. CASE k = "string"
    <3>1. v \in Text
      BY <2>1, <2>2 DEF Values, IsNumber
    <3>2. Written(k, v) = Cut(v)
      BY <2>2, KindFacts, Zenon
    <3>3. CASE v.size \in 1 .. 255
      <4>1. Cut(v) = v
        BY <3>1, <3>3, CutFacts, Zenon
      <4>2. Same("string", v, Cut(v))
        BY <1>2, <3>3, <4>1, SameString, Zenon
      <4> QED
        BY <2>1, <2>2, <3>2, <4>2
    <3>4. CASE v.size \notin 1 .. 255
      <4>1. Cut(v).size < 256 /\ Cut(v).text \in {"", v.text}
        BY <3>1, CutFacts, Zenon
      <4>2. Same("string", v, Cut(v))
        BY <1>2, <3>4, <4>1, SameString, Zenon
      <4> QED
        BY <2>1, <2>2, <3>2, <4>2
    <3> QED
      BY <3>3, <3>4
  <2>3. CASE k = "hash"
    <3>1. v \in Dictionary(Key)
      BY <2>1, <2>3 DEF Values, IsNumber
    <3>2. Written(k, v) = Inserted(CutKeys(v))
      BY <2>3, KindFacts, Zenon
    <3>3. /\ Inserted(CutKeys(v)) \subseteq CutKeys(v)
          /\ {p.key : p \in Inserted(CutKeys(v))} = {Cut(p.key) : p \in v}
          /\ {p \in v : p.key.size < 256 /\ \A q \in v \ {p} : Cut(q.key) # p.key}
               \subseteq Inserted(CutKeys(v))
      BY <3>1, InsertedFacts, Zenon
    <3>4. Same("hash", v, Inserted(CutKeys(v)))
      BY <1>2, <3>3, SameHash, Zenon
    <3> QED
      BY <2>1, <2>3, <3>2, <3>4, Zenon
  <2>4. CASE k \notin {"string", "hash"}
    <3>1. Written(k, v) = v
      BY <2>4, KindFacts, Zenon
    <3> QED
      BY <1>2, <2>1, <2>4, <3>1, SameOther, Zenon
  <2> QED
    BY <2>2, <2>3, <2>4
<1> QED
  BY <1>1, <1>2

-----------------------------------------------------------------------------
(* What the passes of the codec have to agree on for one message.          *)
Agree(p, id) ==
  LET put == Protocols[p].put[id]
      fields == Following(p, id)
      sized == Protocols[p].sized[id]
  IN  /\ Len(put) \in Nat /\ DOMAIN put = 1 .. Len(put)
      /\ Len(fields) \in Nat /\ DOMAIN fields = 1 .. Len(fields)
      /\ \A i \in DOMAIN put : put[i].kind \in Kinds
      /\ \A i, j \in DOMAIN put : put[i].name = put[j].name => i = j
      /\ \A i, j \in DOMAIN fields : fields[i] = fields[j] => i = j
      /\ \A i \in DOMAIN put : put[i].name # "msg" /\ \A j \in DOMAIN fields : put[i].name # fields[j]
      /\ \A j \in DOMAIN fields : fields[j] # "msg"
      /\ id \in DOMAIN Protocols[p].read /\ Protocols[p].read[id] = put
      /\ sized.octets \in Nat
      /\ SumOf([i \in 1 .. Len(put) |-> Width(put[i].kind)]) <= sized.octets
      /\ \A i \in DOMAIN put : IsNumber(put[i].kind) \/ put[i].name \in sized.fields
      /\ Protocols[p].copied[id] = FieldsOf(p, id) /\ Protocols[p].sends[id] = FieldsOf(p, id)

TablesAgree ==
  /\ Protocols["asset"].sign # Protocols["common"].sign
  /\ \A p \in DOMAIN Protocols : \A id \in DOMAIN Protocols[p].put : Agree(p, id)

(* A message a sender can hold.                                            *)
Held(p, id, f, v) ==
  \/ v = Unset
  \/ Kind(p, id, f) \in Kinds /\ v \in Values(Kind(p, id, f))
  \/ Kind(p, id, f) = "frame"
  \/ Kind(p, id, f) = "msg" /\ \E S : v \in Seq(S)
WellFormed(m) ==
  /\ m = [protocol |-> m.protocol, id |-> m.id, value |-> m.value]
  /\ m.protocol \in DOMAIN Protocols
  /\ m.id \in DOMAIN Protocols[m.protocol].put
  /\ m.value = [f \in FieldsOf(m.protocol, m.id) |-> m.value[f]]
  /\ \A f \in FieldsOf(m.protocol, m.id) : Held(m.protocol, m.id, f, m.value[f])

LEMMA FieldKinds ==
  ASSUME NEW p, NEW id, Agree(p, id)
  PROVE  /\ \A i \in DOMAIN Protocols[p].put[id] :
              /\ Protocols[p].put[id][i].name \in FieldsOf(p, id)
              /\ Kind(p, id, Protocols[p].put[id][i].name) = Protocols[p].put[id][i].kind
         /\ \A j \in DOMAIN Following(p, id) :
              Following(p, id)[j] \in FieldsOf(p, id) /\ Kind(p, id, Following(p, id)[j]) = "frame"
         /\ Carries(p, id) => "msg" \in FieldsOf(p, id)
         /\ Kind(p, id, "msg") = "msg"
         /\ \A f \in FieldsOf(p, id) :
              \/ \E i \in DOMAIN Protocols[p].put[id] : f = Protocols[p].put[id][i].name
              \/ \E j \in DOMAIN Following(p, id) : f = Following(p, id)[j]
              \/ Carries(p, id) /\ f = "msg"
<1> DEFINE put == Protocols[p].put[id]
           fields == Following(p, id)
<1>1. Range(fields) = {fields[j] : j \in DOMAIN fields}
  BY Zenon DEF Range
<1>2. /\ \A i, j \in DOMAIN put : put[i].name = put[j].name => i = j
      /\ \A i \in DOMAIN put : put[i].name # "msg" /\ \A j \in DOMAIN fields : put[i].name # fields[j]
      /\ \A j \in DOMAIN fields : fields[j] # "msg"
  BY Zenon DEF Agree
<1>3. FieldsOf(p, id) = {put[i].name : i \in DOMAIN put} \cup {fields[j] : j \in DOMAIN fields}
                          \cup (IF Carries(p, id) THEN {"msg"} ELSE {})
  BY <1>1, Zenon DEF FieldsOf
<1>4. \A f : Kind(p, id, f) =
        IF f = "msg" THEN "msg" ELSE IF f \in Range(fields) THEN "frame"
        ELSE put[CHOOSE i \in DOMAIN put : put[i].name = f].kind
  BY Zenon DEF Kind
<1> HIDE DEF put, fields
<1>5. ASSUME NEW i \in DOMAIN put
      PROVE  put[i].name \in FieldsOf(p, id) /\ Kind(p, id, put[i].name) = put[i].kind
  <2>1. (CHOOSE k \in DOMAIN put : put[k].name = put[i].name) = i
    BY <1>2
  <2>2. put[i].name # "msg" /\ put[i].name \notin Range(fields)
    BY <1>1, <1>2
  <2>3. Kind(p, id, put[i].name) = put[CHOOSE k \in DOMAIN put : put[k].name = put[i].name].kind
    BY <1>4, <2>2, Zenon
  <2>4. put[i].name \in FieldsOf(p, id)
    BY <1>3
  <2> QED
    BY <2>1, <2>3, <2>4
<1>6. ASSUME NEW j \in DOMAIN fields
      PROVE  fields[j] \in FieldsOf(p, id) /\ Kind(p, id, fields[j]) = "frame"
  BY <1>1, <1>2, <1>3, <1>4
<1>7. Carries(p, id) => "msg" \in FieldsOf(p, id)
  BY <1>3
<1>8. Kind(p, id, "msg") = "msg"
  BY <1>4
<1>9. ASSUME NEW f \in FieldsOf(p, id)
      PROVE  \/ \E i \in DOMAIN put : f = put[i].name
             \/ \E j \in DOMAIN fields : f = fields[j]
             \/ Carries(p, id) /\ f = "msg"
  BY <1>3
<1> QED
  BY <1>5, <1>6, <1>7, <1>8, <1>9, Zenon DEF put, fields

-----------------------------------------------------------------------------
(* What is encoded.                                                        *)
CellsOf(m) ==
  LET put == Protocols[m.protocol].put[m.id]
  IN  [i \in DOMAIN put |-> Put(put[i].kind, m.value[put[i].name])]
OctetsOf(m) ==
  LET put == Protocols[m.protocol].put[m.id]
      sized == Protocols[m.protocol].sized[m.id]
  IN  3 + sized.octets + SumOf([i \in DOMAIN put |->
          IF put[i].name \in sized.fields
          THEN Content(put[i].kind, Sent(put[i].kind, m.value[put[i].name])) ELSE 0])
FirstOf(m) ==
  [sign |-> Protocols[m.protocol].sign, id |-> m.id, cells |-> CellsOf(m), octets |-> OctetsOf(m)]
FrameOf(m, f) == IF m.value[f] = Unset THEN EmptyFrame ELSE m.value[f]
FramesOf(m) ==
  LET fields == Following(m.protocol, m.id)
  IN  [i \in DOMAIN fields |-> FrameOf(m, fields[i])]
CarriedBy(m) ==
  IF ~Carries(m.protocol, m.id) THEN <<>>
  ELSE IF m.value["msg"] = Unset THEN <<EmptyFrame>> ELSE m.value["msg"]

LEMMA EncodeParts ==
  ASSUME NEW m
  PROVE  Encode(m) = <<FirstOf(m)>> \o FramesOf(m) \o CarriedBy(m)
BY Zenon DEF Encode, FirstOf, CellsOf, OctetsOf, FramesOf, FrameOf, CarriedBy

LEMMA WidthFacts ==
  \A k : Width(k) \in Nat
<1>1. 1 \in Nat /\ 2 \in Nat /\ 4 \in Nat /\ 8 \in Nat
  OBVIOUS
<1>2. \A k : \/ Width(k) = 1 \/ Width(k) = 2 \/ Width(k) = 4 \/ Width(k) = 8
  BY Zenon DEF Width
<1> QED
  BY <1>1, <1>2

(* The room counted for a message holds all of its cells.                  *)
LEMMA CellsFit ==
  ASSUME NEW m, WellFormed(m), Agree(m.protocol, m.id)
  PROVE  /\ OctetsOf(m) \in Nat /\ 3 <= OctetsOf(m) /\ Len(CellsOf(m)) = Len(Protocols[m.protocol].put[m.id])
         /\ \A i \in DOMAIN Protocols[m.protocol].put[m.id] : CellsOf(m)[i].octets \in Nat
         /\ 3 + SumOf([k \in 1 .. Len(Protocols[m.protocol].put[m.id]) |-> CellsOf(m)[k].octets])
              <= OctetsOf(m)
<1> DEFINE p == m.protocol
           id == m.id
           put == Protocols[p].put[id]
           sized == Protocols[p].sized[id]
           n == Len(put)
           value(i) == Sent(put[i].kind, m.value[put[i].name])
           content(i) == Content(put[i].kind, value(i))
           taken(i) == Taken(put[i].kind, value(i))
           a == [i \in 1 .. n |-> Width(put[i].kind)]
           b == [i \in 1 .. n |-> IF put[i].name \in sized.fields THEN content(i) ELSE 0]
           s == [k \in 1 .. n |-> CellsOf(m)[k].octets]
<1>1. /\ n \in Nat /\ DOMAIN put = 1 .. n
      /\ \A i \in 1 .. n : put[i].kind \in Kinds
      /\ \A i \in 1 .. n : IsNumber(put[i].kind) \/ put[i].name \in sized.fields
      /\ sized.octets \in Nat /\ SumOf(a) <= sized.octets
  BY Zenon DEF Agree
<1>2. ASSUME NEW i \in 1 .. n
      PROVE  /\ content(i) \in Nat /\ taken(i) \in Nat /\ taken(i) <= content(i)
             /\ IsNumber(put[i].kind) => content(i) = 0
  <2>1. put[i].name \in FieldsOf(p, id) /\ Kind(p, id, put[i].name) = put[i].kind /\ put[i].kind \in Kinds
    <3>1. i \in DOMAIN put /\ put[i].kind \in Kinds
      BY <1>1, Zenon
    <3>2. \A k \in DOMAIN put :
            put[k].name \in FieldsOf(p, id) /\ Kind(p, id, put[k].name) = put[k].kind
      <4> HIDE DEF put, p, id
      <4>1. Agree(p, id)
        BY Zenon DEF p, id
      <4> QED
        BY <4>1, FieldKinds DEF put
    <3> QED
      BY <3>1, <3>2, Zenon
  <2>2. Held(p, id, put[i].name, m.value[put[i].name])
    BY <2>1, Zenon DEF WellFormed
  <2>3. put[i].kind # "frame" /\ put[i].kind # "msg"
    BY <2>1 DEF Kinds
  <2>4. m.value[put[i].name] \in Values(put[i].kind) \/ m.value[put[i].name] = Unset
    BY <2>1, <2>2, <2>3, Zenon DEF Held
  <2>5. value(i) \in Values(put[i].kind)
    BY <2>1, <2>4, FieldArrives, Zenon
  <2>6. content(i) \in Nat /\ taken(i) \in Nat /\ taken(i) <= content(i)
    <3> HIDE DEF value
    <3> QED
      BY <2>1, <2>5, TakenFacts, Zenon
  <2>7. IsNumber(put[i].kind) => content(i) = 0
    BY KindFacts, Zenon
  <2> QED
    BY <2>6, <2>7, Zenon
<1>3. ASSUME NEW i \in 1 .. n
      PROVE  /\ CellsOf(m)[i].octets = Width(put[i].kind) + taken(i)
             /\ Width(put[i].kind) \in Nat
  <2>1. CellsOf(m)[i] = Put(put[i].kind, m.value[put[i].name])
    BY <1>1, Zenon DEF CellsOf
  <2>2. Put(put[i].kind, m.value[put[i].name]).octets = Width(put[i].kind) + taken(i)
    BY DEF Put
  <2> QED
    BY <2>1, <2>2, WidthFacts, Zenon
<1>4. OctetsOf(m) = 3 + sized.octets + SumOf(b)
  BY <1>1, Zenon DEF OctetsOf
<1>5. Len(CellsOf(m)) = n
  <2> DEFINE c(i) == Put(put[i].kind, m.value[put[i].name])
  <2>1. CellsOf(m) = [i \in 1 .. n |-> c(i)]
    BY <1>1, Zenon DEF CellsOf
  <2>2. n \in Nat
    BY <1>1
  <2> HIDE DEF c, n
  <2>3. Len([i \in 1 .. n |-> c(i)]) = n
    BY <2>2
  <2> QED
    BY <2>1, <2>3, Zenon
<1> HIDE DEF content, taken, put, sized, p, id
<1>6. a \in [1 .. n -> Nat] /\ b \in [1 .. n -> Nat] /\ s \in [1 .. n -> Nat]
  <2>1. ASSUME NEW i \in 1 .. n
        PROVE  CellsOf(m)[i].octets \in Nat
    <3>1. taken(i) \in Nat
      BY <1>2
    <3> QED
      BY <1>3, <3>1
  <2>2. ASSUME NEW i \in 1 .. n
        PROVE  (IF put[i].name \in sized.fields THEN content(i) ELSE 0) \in Nat
    BY <1>2
  <2> QED
    BY <1>3, <2>1, <2>2
<1>7. \A i \in 1 .. n : s[i] <= a[i] + b[i]
  <2>1. ASSUME NEW i \in 1 .. n
        PROVE  s[i] <= a[i] + b[i]
    <3>1. s[i] = Width(put[i].kind) + taken(i) /\ a[i] = Width(put[i].kind)
      BY <1>3
    <3>2. b[i] = content(i)
      BY <1>1, <1>2
    <3>3. taken(i) <= content(i) /\ taken(i) \in Nat /\ content(i) \in Nat /\ Width(put[i].kind) \in Nat
      BY <1>2, <1>3
    <3> QED
      BY <3>1, <3>2, <3>3
  <2> QED
    BY <2>1
<1>8. SumOf(a) \in Nat /\ SumOf(b) \in Nat /\ SumOf(s) \in Nat /\ SumOf(s) <= SumOf(a) + SumOf(b)
  <2> HIDE DEF a, b, s, n
  <2>1. n \in 0 .. n
    BY <1>1
  <2>2. SumOf(a) \in Nat /\ SumOf(b) \in Nat /\ SumOf(s) \in Nat
    BY <1>1, <1>6, <2>1, SumOfFirst
  <2> QED
    BY <1>1, <1>6, <1>7, <2>2, SumAtMost
<1>9. OctetsOf(m) \in Nat /\ 3 <= OctetsOf(m) /\ 3 + SumOf(s) <= OctetsOf(m)
  <2> HIDE DEF a, b, s, n
  <2> QED
    BY <1>1, <1>4, <1>8
<1>10. \A i \in 1 .. n : CellsOf(m)[i].octets \in Nat
  <2>1. \A i \in 1 .. n : s[i] = CellsOf(m)[i].octets
    BY Zenon
  <2> HIDE DEF s, n
  <2> QED
    BY <1>6, <2>1
<1> QED
  BY <1>1, <1>5, <1>9, <1>10, Zenon DEF p, id, put

LEMMA ThreeParts ==
  ASSUME NEW a, NEW S, NEW F \in Seq(S), NEW C \in Seq(S), NEW e, e = <<a>> \o F \o C
  PROVE  /\ e \in Seq(S \cup {a}) /\ Len(e) = 1 + Len(F) + Len(C) /\ e[1] = a
         /\ \A j \in 1 .. Len(F) : e[1 + j] = F[j]
         /\ SubSeq(e, 2 + Len(F), Len(e)) = C
<1> DEFINE T == S \cup {a}
<1>1. <<a>> \in Seq(T) /\ F \in Seq(T) /\ C \in Seq(T)
  OBVIOUS
<1>2. Len(F) \in Nat /\ Len(C) \in Nat
  OBVIOUS
<1> HIDE DEF T
<1> DEFINE b == <<a>> \o F
<1>3. b \in Seq(T) /\ Len(b) = 1 + Len(F) /\ b[1] = a /\ \A j \in 1 .. Len(F) : b[1 + j] = F[j]
  BY <1>1, <1>2
<1>4. e = b \o C
  OBVIOUS
<1> HIDE DEF b
<1>5. /\ e \in Seq(T) /\ Len(e) = Len(b) + Len(C)
      /\ \A i \in 1 .. Len(b) : e[i] = b[i]
      /\ \A j \in 1 .. Len(C) : e[Len(b) + j] = C[j]
  BY <1>1, <1>3, <1>4
<1>6. e[1] = a /\ \A j \in 1 .. Len(F) : e[1 + j] = F[j]
  <2>1. 1 \in 1 .. Len(b) /\ \A j \in 1 .. Len(F) : 1 + j \in 1 .. Len(b)
    BY <1>2, <1>3
  <2> QED
    BY <1>3, <1>5, <2>1
<1>7. SubSeq(e, 2 + Len(F), Len(e)) = C
  <2> DEFINE r == SubSeq(e, 2 + Len(F), Len(e))
             k == 2 + Len(F)
             n == Len(e)
  <2>1. k \in 1 .. n + 1 /\ n \in Nat /\ k \in Nat /\ n - k + 1 = Len(C) /\ k - 1 = Len(b)
    BY <1>2, <1>3, <1>5
  <2>2. r \in Seq(T) /\ Len(r) = Len(C)
    <3> HIDE DEF k, n
    <3>1. SubSeq(e, k, n) \in Seq(T)
      BY <1>5, <2>1
    <3>2. Len(SubSeq(e, k, n)) = Len(C)
      BY <1>2, <1>5, <2>1
    <3> QED
      BY <3>1, <3>2 DEF k, n
  <2>3. ASSUME NEW j \in 1 .. Len(C)
        PROVE  r[j] = C[j]
    <3> HIDE DEF k, n
    <3>1. SubSeq(e, k, n)[j] = e[k + j - 1]
      BY <1>2, <1>5, <2>1, <2>3
    <3>2. k + j - 1 = Len(b) + j
      BY <1>2, <2>1
    <3>3. e[Len(b) + j] = C[j]
      BY <1>5
    <3> QED
      BY <3>1, <3>2, <3>3 DEF k, n
  <2> HIDE DEF r
  <2>4. r = C
    <3>1. r = [j \in 1 .. Len(r) |-> r[j]] /\ C = [j \in 1 .. Len(C) |-> C[j]]
      BY <1>1, <2>2
    <3>2. [j \in 1 .. Len(C) |-> r[j]] = [j \in 1 .. Len(C) |-> C[j]]
      BY <2>3
    <3> QED
      BY <2>2, <3>1, <3>2
  <2> QED
    BY <2>4 DEF r
<1> QED
  BY <1>2, <1>3, <1>5, <1>6, <1>7 DEF T

LEMMA CarriedIsSequence ==
  ASSUME NEW m, WellFormed(m), Agree(m.protocol, m.id)
  PROVE  /\ \E S : CarriedBy(m) \in Seq(S)
         /\ ~Carries(m.protocol, m.id) => CarriedBy(m) = <<>>
         /\ Carries(m.protocol, m.id) => Same("msg", m.value["msg"], CarriedBy(m))
<1>1. CASE ~Carries(m.protocol, m.id)
  <2>1. CarriedBy(m) = <<>>
    BY <1>1, Zenon DEF CarriedBy
  <2>2. CarriedBy(m) \in Seq({})
    BY <2>1
  <2> QED
    BY <1>1, <2>1, <2>2
<1>2. CASE Carries(m.protocol, m.id)
  <2>1. "msg" \in FieldsOf(m.protocol, m.id) /\ Kind(m.protocol, m.id, "msg") = "msg"
    BY <1>2, FieldKinds
  <2>2. Held(m.protocol, m.id, "msg", m.value["msg"])
    BY <2>1, Zenon DEF WellFormed
  <2>3. m.value["msg"] = Unset \/ \E S : m.value["msg"] \in Seq(S)
    <3>1. "msg" \notin Kinds /\ "msg" # "frame"
      BY DEF Kinds
    <3> QED
      BY <2>1, <2>2, <3>1, Zenon DEF Held
  <2>4. CASE m.value["msg"] = Unset
    <3>1. CarriedBy(m) = <<EmptyFrame>>
      BY <1>2, <2>4, Zenon DEF CarriedBy
    <3>2. Same("msg", m.value["msg"], CarriedBy(m))
      BY <2>4, <3>1, SameUnset, Zenon
    <3>3. <<EmptyFrame>> \in Seq({EmptyFrame})
      OBVIOUS
    <3> QED
      BY <1>2, <3>1, <3>2, <3>3, Zenon
  <2>5. CASE m.value["msg"] # Unset
    <3>1. CarriedBy(m) = m.value["msg"]
      BY <1>2, <2>5, Zenon DEF CarriedBy
    <3>2. "msg" \notin {"string", "hash"}
      OBVIOUS
    <3>3. Same("msg", m.value["msg"], CarriedBy(m))
      BY <2>5, <3>1, <3>2, SameOther, Zenon
    <3> QED
      BY <1>2, <2>3, <2>5, <3>1, <3>3, Zenon
  <2> QED
    BY <2>4, <2>5
<1> QED
  BY <1>1, <1>2

LEMMA EncodeFacts ==
  ASSUME NEW m, WellFormed(m), Agree(m.protocol, m.id)
  PROVE  /\ \E S : Encode(m) \in Seq(S)
         /\ Len(CarriedBy(m)) \in Nat /\ (~Carries(m.protocol, m.id) => Len(CarriedBy(m)) = 0)
         /\ Len(Encode(m)) = 1 + Len(Following(m.protocol, m.id)) + Len(CarriedBy(m))
         /\ Encode(m)[1] = FirstOf(m)
         /\ \A j \in DOMAIN Following(m.protocol, m.id) :
              Encode(m)[1 + j] = FrameOf(m, Following(m.protocol, m.id)[j])
         /\ SubSeq(Encode(m), 2 + Len(Following(m.protocol, m.id)), Len(Encode(m))) = CarriedBy(m)
<1> DEFINE fields == Following(m.protocol, m.id)
           R == {FrameOf(m, fields[j]) : j \in DOMAIN fields}
<1>1. Len(fields) \in Nat /\ DOMAIN fields = 1 .. Len(fields)
  BY Zenon DEF Agree
<1>2. PICK S : CarriedBy(m) \in Seq(S)
  BY CarriedIsSequence, Zenon
<1>3. FramesOf(m) = [j \in 1 .. Len(fields) |-> FrameOf(m, fields[j])]
  BY <1>1, Zenon DEF FramesOf
<1>4. \A j \in 1 .. Len(fields) : FrameOf(m, fields[j]) \in R
  BY <1>1, Zenon
<1> HIDE DEF fields, R
<1>5. FramesOf(m) \in Seq(R) /\ Len(FramesOf(m)) = Len(fields)
  BY <1>1, <1>3, <1>4
<1>6. FramesOf(m) \in Seq(R \cup S) /\ CarriedBy(m) \in Seq(R \cup S)
  BY <1>2, <1>5
<1>7. Encode(m) = <<FirstOf(m)>> \o FramesOf(m) \o CarriedBy(m)
  BY EncodeParts, Zenon
<1>8. /\ Encode(m) \in Seq(R \cup S \cup {FirstOf(m)})
      /\ Len(Encode(m)) = 1 + Len(FramesOf(m)) + Len(CarriedBy(m)) /\ Encode(m)[1] = FirstOf(m)
      /\ \A j \in 1 .. Len(FramesOf(m)) : Encode(m)[1 + j] = FramesOf(m)[j]
      /\ SubSeq(Encode(m), 2 + Len(FramesOf(m)), Len(Encode(m))) = CarriedBy(m)
  <2> DEFINE U == R \cup S
  <2>1. FramesOf(m) \in Seq(U) /\ CarriedBy(m) \in Seq(U)
    BY <1>6, Zenon
  <2> HIDE DEF U
  <2>2. /\ Encode(m) \in Seq(U \cup {FirstOf(m)})
        /\ Len(Encode(m)) = 1 + Len(FramesOf(m)) + Len(CarriedBy(m)) /\ Encode(m)[1] = FirstOf(m)
        /\ \A j \in 1 .. Len(FramesOf(m)) : Encode(m)[1 + j] = FramesOf(m)[j]
        /\ SubSeq(Encode(m), 2 + Len(FramesOf(m)), Len(Encode(m))) = CarriedBy(m)
    BY <1>7, <2>1, ThreeParts
  <2> QED
    BY <2>2, Zenon DEF U
<1>9. \A j \in 1 .. Len(fields) : FramesOf(m)[j] = FrameOf(m, fields[j])
  BY <1>3
<1>10. Len(CarriedBy(m)) \in Nat
  BY <1>2
<1>11. ~Carries(m.protocol, m.id) => Len(CarriedBy(m)) = 0
  <2>1. ~Carries(m.protocol, m.id) => CarriedBy(m) = <<>>
    BY CarriedIsSequence, Zenon
  <2> QED
    BY <2>1
<1>12. \A j \in DOMAIN fields : Encode(m)[1 + j] = FrameOf(m, fields[j])
  BY <1>1, <1>5, <1>8, <1>9
<1>13. /\ Len(Encode(m)) = 1 + Len(fields) + Len(CarriedBy(m))
       /\ SubSeq(Encode(m), 2 + Len(fields), Len(Encode(m))) = CarriedBy(m)
  BY <1>5, <1>8
<1> QED
  BY <1>8, <1>10, <1>11, <1>12, <1>13, Zenon DEF fields

-----------------------------------------------------------------------------
(* What is decoded from frames the first of which was not shortened, or    *)
(* still holds all of its cells.                                           *)
LEMMA FirstFit ==
  ASSUME NEW n \in Nat, NEW cells, \A k \in 1 .. n : cells[k].octets \in Nat,
         NEW octets \in Nat, Fits(cells, n, octets), NEW i \in 1 .. n
  PROVE  Fits(cells, i, octets)
<1> DEFINE s == [k \in 1 .. n |-> cells[k].octets]
           r == [k \in 1 .. i |-> cells[k].octets]
<1>1. i \in 0 .. n /\ 1 .. i \subseteq 1 .. n
  OBVIOUS
<1>2. s \in [1 .. n -> Nat] /\ r \in [1 .. i -> Nat] /\ \A k \in 1 .. i : r[k] = s[k]
  BY <1>1
<1>3. 3 + SumOf(s) <= octets
  BY Zenon DEF Fits
<1> HIDE DEF s, r
<1>4. SumOf(r) \in Nat /\ SumOf(s) \in Nat /\ SumOf(r) <= SumOf(s)
  BY <1>1, <1>2, SumOfFirst
<1>5. 3 + SumOf(r) <= octets
  BY <1>3, <1>4
<1> QED
  BY <1>5, Zenon DEF Fits, r

LEMMA GetFacts ==
  ASSUME NEW table, NEW boxes, NEW room,
         \A i, j \in DOMAIN table : table[i].name = table[j].name => i = j,
         \A i \in DOMAIN table : Fits(boxes, i, room)
  PROVE  /\ \A f \in DOMAIN Get(table, boxes, room) : \E i \in DOMAIN table : f = table[i].name
         /\ \A i \in DOMAIN table : table[i].name \in DOMAIN Get(table, boxes, room)
         /\ \A i \in DOMAIN table : Get(table, boxes, room)[table[i].name] = boxes[i].value
<1> DEFINE D == {table[i].name : i \in {j \in DOMAIN table : Fits(boxes, j, room)}}
           cell(f) == boxes[CHOOSE i \in DOMAIN table : table[i].name = f].value
<1>1. Get(table, boxes, room) = [f \in D |-> cell(f)]
  BY Zenon DEF Get
<1>2. {j \in DOMAIN table : Fits(boxes, j, room)} = DOMAIN table
  <2>1. \A i \in DOMAIN table : Fits(boxes, i, room)
    BY Zenon
  <2> QED
    BY <2>1, Zenon
<1>3. D = {table[i].name : i \in DOMAIN table}
  BY <1>2, Zenon
<1> HIDE DEF D
<1>4. ASSUME NEW i \in DOMAIN table
      PROVE  table[i].name \in D /\ Get(table, boxes, room)[table[i].name] = boxes[i].value
  <2>1. (CHOOSE j \in DOMAIN table : table[j].name = table[i].name) = i
    OBVIOUS
  <2>2. table[i].name \in D
    BY <1>3, Zenon
  <2>3. Get(table, boxes, room)[table[i].name] = cell(table[i].name)
    BY <1>1, <2>2, Zenon
  <2> QED
    BY <2>1, <2>2, <2>3, Zenon
<1>5. DOMAIN Get(table, boxes, room) = D
  BY <1>1, Zenon
<1>6. \A f \in DOMAIN Get(table, boxes, room) : \E i \in DOMAIN table : f = table[i].name
  BY <1>3, <1>5, Zenon
<1>7. \A i \in DOMAIN table : table[i].name \in DOMAIN Get(table, boxes, room)
  BY <1>4, <1>5, Zenon
<1>8. \A i \in DOMAIN table : Get(table, boxes, room)[table[i].name] = boxes[i].value
  BY <1>4, Zenon
<1> QED
  BY <1>6, <1>7, <1>8, Zenon

DecodedField(p, id, frames, f) ==
  LET got == Get(Protocols[p].read[id], frames[1].cells, frames[1].octets)
      fields == Following(p, id)
  IN  IF f \in DOMAIN got THEN got[f]
      ELSE IF f \in Range(fields) THEN frames[1 + CHOOSE i \in DOMAIN fields : fields[i] = f]
      ELSE SubSeq(frames, 2 + Len(fields), Len(frames))
DecodedFields(p, id, frames) ==
  DOMAIN Get(Protocols[p].read[id], frames[1].cells, frames[1].octets)
    \cup Range(Following(p, id)) \cup (IF Carries(p, id) THEN {"msg"} ELSE {})

LEMMA DecodeParts ==
  ASSUME NEW p, NEW frames, Is(p, frames),
         Readable(Protocols[p].read[frames[1].id], frames[1].cells, frames[1].octets),
         Len(frames) > Len(Following(p, frames[1].id))
  PROVE  LET d == Decode(p, frames)
         IN  /\ d.protocol = p /\ d.id = frames[1].id /\ DOMAIN d.value = DecodedFields(p, frames[1].id, frames)
             /\ \A f \in DecodedFields(p, frames[1].id, frames) : d.value[f] = DecodedField(p, frames[1].id, frames, f)
<1>1. Decode(p, frames) =
        IF /\ Is(p, frames)
           /\ Readable(Protocols[p].read[frames[1].id], frames[1].cells, frames[1].octets)
           /\ Len(frames) > Len(Following(p, frames[1].id))
        THEN [protocol |-> p, id |-> frames[1].id,
              value |-> [f \in DecodedFields(p, frames[1].id, frames) |-> DecodedField(p, frames[1].id, frames, f)]]
        ELSE Refused
  BY Zenon DEF Decode, DecodedFields, DecodedField
<1> DEFINE v == [f \in DecodedFields(p, frames[1].id, frames) |-> DecodedField(p, frames[1].id, frames, f)]
<1>2. Decode(p, frames) = [protocol |-> p, id |-> frames[1].id, value |-> v]
  BY <1>1, Zenon
<1>3. DOMAIN v = DecodedFields(p, frames[1].id, frames)
      /\ \A f \in DecodedFields(p, frames[1].id, frames) : v[f] = DecodedField(p, frames[1].id, frames, f)
  BY Zenon
<1> HIDE DEF v
<1>4. /\ Decode(p, frames).protocol = p /\ Decode(p, frames).id = frames[1].id
      /\ Decode(p, frames).value = v
  BY <1>2
<1> QED
  BY <1>3, <1>4, Zenon

(* The frames hold what is left of an encoded message.                     *)
Holds(frames, m) ==
  /\ frames[1].sign = Protocols[m.protocol].sign /\ frames[1].id = m.id
  /\ frames[1].cells = CellsOf(m) /\ frames[1].octets \in Nat /\ Len(frames) \in Nat
  /\ Len(frames) > Len(Following(m.protocol, m.id)) =>
       \A j \in DOMAIN Following(m.protocol, m.id) :
          frames[1 + j] = FrameOf(m, Following(m.protocol, m.id)[j])

SameAs(m, d, f) ==
  f \in DOMAIN d.value /\ Same(Kind(m.protocol, m.id, f), m.value[f], d.value[f])

LEMMA DecodeFacts ==
  ASSUME NEW m, WellFormed(m), Agree(m.protocol, m.id), NEW frames, Holds(frames, m),
         Is(m.protocol, frames),
         Readable(Protocols[m.protocol].read[m.id], frames[1].cells, frames[1].octets),
         Len(frames) > Len(Following(m.protocol, m.id))
  PROVE  LET d == Decode(m.protocol, frames)
         IN  /\ d.protocol = m.protocol /\ d.id = m.id
             /\ \A f \in FieldsOf(m.protocol, m.id) \ {"msg"} : SameAs(m, d, f)
             /\ SubSeq(frames, 2 + Len(Following(m.protocol, m.id)), Len(frames)) = CarriedBy(m) =>
                  \A f \in FieldsOf(m.protocol, m.id) : SameAs(m, d, f)
<1> DEFINE p == m.protocol
           id == m.id
           put == Protocols[p].put[id]
           fields == Following(p, id)
           n == Len(put)
           octets == frames[1].octets
           got == Get(Protocols[p].read[id], frames[1].cells, octets)
           d == Decode(p, frames)
           rest == SubSeq(frames, 2 + Len(fields), Len(frames))
<1>1. /\ n \in Nat /\ DOMAIN put = 1 .. n /\ Protocols[p].read[id] = put
      /\ \A i, j \in DOMAIN put : put[i].name = put[j].name => i = j
      /\ \A i, j \in DOMAIN fields : fields[i] = fields[j] => i = j
      /\ \A i \in DOMAIN put : put[i].name # "msg" /\ \A j \in DOMAIN fields : put[i].name # fields[j]
      /\ \A j \in DOMAIN fields : fields[j] # "msg"
      /\ \A i \in DOMAIN put : put[i].kind \in Kinds
  BY Zenon DEF Agree
<1>2. /\ frames[1].cells = CellsOf(m) /\ octets \in Nat /\ frames[1].id = id
      /\ \A j \in DOMAIN fields : frames[1 + j] = FrameOf(m, fields[j])
  BY Zenon DEF Holds
<1>3. Len(CellsOf(m)) = n /\ \A i \in 1 .. n : CellsOf(m)[i].octets \in Nat
  BY <1>1, CellsFit
<1>4. Fits(CellsOf(m), n, octets)
  BY <1>2, <1>3, Zenon DEF Readable
<1>5. \A i \in 1 .. n : Fits(CellsOf(m), i, octets)
  <2> HIDE DEF n, octets
  <2> QED
    BY <1>1, <1>2, <1>3, <1>4, FirstFit
<1>6. /\ DOMAIN got = {put[i].name : i \in DOMAIN put}
      /\ \A i \in DOMAIN put : got[put[i].name] = CellsOf(m)[i].value
  <2>1. got = Get(put, CellsOf(m), octets)
    BY <1>1, <1>2, Zenon
  <2> HIDE DEF put, n, octets
  <2>2. /\ DOMAIN Get(put, CellsOf(m), octets) = {put[i].name : i \in DOMAIN put}
        /\ \A i \in DOMAIN put : Get(put, CellsOf(m), octets)[put[i].name] = CellsOf(m)[i].value
    <3>1. \A i \in DOMAIN put : Fits(CellsOf(m), i, octets)
      BY <1>1, <1>5, Zenon
    <3>2. \A i, j \in DOMAIN put : put[i].name = put[j].name => i = j
      BY <1>1, Zenon
    <3> DEFINE cells == CellsOf(m)
    <3> HIDE DEF cells
    <3>3. \A i \in DOMAIN put : Fits(cells, i, octets)
      BY <3>1, Zenon DEF cells
    <3>4. /\ \A f \in DOMAIN Get(put, cells, octets) : \E i \in DOMAIN put : f = put[i].name
          /\ \A i \in DOMAIN put : put[i].name \in DOMAIN Get(put, cells, octets)
          /\ \A i \in DOMAIN put : Get(put, cells, octets)[put[i].name] = cells[i].value
      BY <3>2, <3>3, GetFacts
    <3>5. DOMAIN Get(put, cells, octets) = {put[i].name : i \in DOMAIN put}
      BY <3>4
    <3> QED
      BY <3>4, <3>5, Zenon DEF cells
  <2> HIDE DEF got
  <2> QED
    BY <2>1, <2>2, Zenon
<1>7. /\ d.protocol = p /\ d.id = id /\ DOMAIN d.value = FieldsOf(p, id)
      /\ \A f \in FieldsOf(p, id) : d.value[f] =
           IF f \in DOMAIN got THEN got[f]
           ELSE IF f \in Range(fields)
           THEN frames[1 + CHOOSE i \in DOMAIN fields : fields[i] = f]
           ELSE rest
  <2>1. Is(p, frames) /\ Readable(Protocols[p].read[frames[1].id], frames[1].cells, octets)
        /\ Len(frames) > Len(Following(p, frames[1].id))
    BY <1>2, Zenon
  <2>2. /\ d.protocol = p /\ d.id = frames[1].id /\ DOMAIN d.value = DecodedFields(p, id, frames)
        /\ \A f \in DecodedFields(p, id, frames) : d.value[f] = DecodedField(p, id, frames, f)
    <3>1. /\ d.protocol = p /\ d.id = frames[1].id
          /\ DOMAIN d.value = DecodedFields(p, frames[1].id, frames)
          /\ \A f \in DecodedFields(p, frames[1].id, frames) :
               d.value[f] = DecodedField(p, frames[1].id, frames, f)
      <4> HIDE DEF p, id, put, fields, n, octets, got, rest
      <4> QED
        BY <2>1, DecodeParts DEF octets
    <3> HIDE DEF d
    <3> QED
      BY <1>2, <3>1, Zenon
  <2>3. DecodedFields(p, id, frames) = FieldsOf(p, id)
    <3>1. DecodedFields(p, id, frames) =
            DOMAIN got \cup Range(fields) \cup (IF Carries(p, id) THEN {"msg"} ELSE {})
      BY Zenon DEF DecodedFields
    <3>2. FieldsOf(p, id) = {put[i].name : i \in DOMAIN put}
                             \cup Range(fields) \cup (IF Carries(p, id) THEN {"msg"} ELSE {})
      BY Zenon DEF FieldsOf
    <3> HIDE DEF got, put, fields
    <3> QED
      BY <1>6, <3>1, <3>2, Zenon
  <2>4. \A f : DecodedField(p, id, frames, f) =
          IF f \in DOMAIN got THEN got[f]
          ELSE IF f \in Range(fields)
          THEN frames[1 + CHOOSE i \in DOMAIN fields : fields[i] = f]
          ELSE rest
    BY Zenon DEF DecodedField
  <2> HIDE DEF got, put, fields, rest, d
  <2> QED
    BY <1>2, <2>2, <2>3, <2>4, Zenon
<1>8. Range(fields) = {fields[j] : j \in DOMAIN fields}
  BY Zenon DEF Range
<1>9. /\ \A i \in DOMAIN put : put[i].name \in FieldsOf(p, id) /\ Kind(p, id, put[i].name) = put[i].kind
      /\ \A j \in DOMAIN fields : fields[j] \in FieldsOf(p, id) /\ Kind(p, id, fields[j]) = "frame"
      /\ Kind(p, id, "msg") = "msg"
      /\ \A f \in FieldsOf(p, id) : \/ \E i \in DOMAIN put : f = put[i].name
                                    \/ \E j \in DOMAIN fields : f = fields[j]
                                    \/ Carries(p, id) /\ f = "msg"
  <2>1. Agree(p, id)
    OBVIOUS
  <2> HIDE DEF p, id, got, d, rest, n, octets
  <2> QED
    BY <2>1, FieldKinds
<1>10. \A f \in FieldsOf(p, id) : Held(p, id, f, m.value[f])
  BY Zenon DEF WellFormed
<1>11. \A i \in DOMAIN put : CellsOf(m)[i] = Put(put[i].kind, m.value[put[i].name])
  BY Zenon DEF CellsOf
<1> HIDE DEF got, put, fields, d, rest, n, octets
<1>12. ASSUME NEW i \in DOMAIN put
       PROVE  SameAs(m, d, put[i].name)
  <2> DEFINE f == put[i].name
             k == put[i].kind
  <2>1. f \in FieldsOf(p, id) /\ Kind(p, id, f) = k /\ k \in Kinds
    BY <1>1, <1>9, Zenon
  <2>2. m.value[f] \in Values(k) \/ m.value[f] = Unset
    <3>1. k # "frame" /\ k # "msg"
      BY <2>1 DEF Kinds
    <3> QED
      BY <1>10, <2>1, <3>1, Zenon DEF Held
  <2>3. d.value[f] = CellsOf(m)[i].value
    <3>1. f \in DOMAIN got
      BY <1>6, Zenon
    <3>2. d.value[f] = got[f]
      BY <1>7, <2>1, <3>1, Zenon
    <3> QED
      BY <1>6, <3>2, Zenon
  <2>4. CellsOf(m)[i].value = Written(k, Sent(k, m.value[f]))
    <3>1. CellsOf(m)[i] = Put(k, m.value[f])
      BY <1>11, Zenon
    <3>2. \A x : Put(k, x).value = Written(k, Sent(k, x))
      BY DEF Put
    <3> QED
      BY <3>1, <3>2, Zenon
  <2>5. Same(k, m.value[f], d.value[f])
    <3>1. Same(k, m.value[f], Written(k, Sent(k, m.value[f])))
      BY <2>1, <2>2, FieldArrives, Zenon
    <3> QED
      BY <2>3, <2>4, <3>1, Zenon
  <2> QED
    BY <1>7, <2>1, <2>5, Zenon DEF SameAs
<1>13. ASSUME NEW j \in DOMAIN fields
       PROVE  SameAs(m, d, fields[j])
  <2>1. fields[j] \in FieldsOf(p, id) /\ Kind(p, id, fields[j]) = "frame"
    BY <1>9, Zenon
  <2>2. fields[j] \notin DOMAIN got /\ fields[j] \in Range(fields)
    BY <1>1, <1>6, <1>8
  <2>3. (CHOOSE i \in DOMAIN fields : fields[i] = fields[j]) = j
    BY <1>1
  <2>4. d.value[fields[j]] = frames[1 + CHOOSE i \in DOMAIN fields : fields[i] = fields[j]]
    BY <1>7, <2>1, <2>2, Zenon
  <2>5. d.value[fields[j]] = FrameOf(m, fields[j])
    BY <1>2, <2>3, <2>4, Zenon
  <2>6. Same("frame", m.value[fields[j]], FrameOf(m, fields[j]))
    <3>0. \A v, w : v # Unset => (Same("frame", v, w) <=> w = v)
      <4>1. \A v, w : v # Unset => (Same("frame", v, w) <=> v = w)
        BY DEF Same
      <4> QED
        BY <4>1, Zenon
    <3>2. CASE m.value[fields[j]] = Unset
      <4>1. FrameOf(m, fields[j]) = EmptyFrame
        BY <3>2, Zenon DEF FrameOf
      <4> QED
        BY <3>2, <4>1, SameUnset, Zenon
    <3>3. CASE m.value[fields[j]] # Unset
      <4>1. FrameOf(m, fields[j]) = m.value[fields[j]]
        BY <3>3, Zenon DEF FrameOf
      <4> QED
        BY <3>0, <3>3, <4>1, Zenon
    <3> QED
      BY <3>2, <3>3
  <2> QED
    BY <1>7, <2>1, <2>5, <2>6, Zenon DEF SameAs
<1>14. ASSUME rest = CarriedBy(m), "msg" \in FieldsOf(p, id)
       PROVE  SameAs(m, d, "msg")
  <2>1. "msg" \notin DOMAIN got /\ "msg" \notin Range(fields)
    BY <1>1, <1>6, <1>8
  <2>2. d.value["msg"] = CarriedBy(m)
    BY <1>7, <1>14, <2>1, Zenon
  <2>3. Carries(p, id)
    BY <1>1, <1>9, <1>14, Zenon
  <2>4. Same("msg", m.value["msg"], CarriedBy(m))
    BY <2>3, CarriedIsSequence, Zenon
  <2> QED
    BY <1>7, <1>9, <1>14, <2>2, <2>4, Zenon DEF SameAs
<1>15. \A f \in FieldsOf(p, id) \ {"msg"} : SameAs(m, d, f)
  BY <1>9, <1>12, <1>13, Zenon
<1>16. rest = CarriedBy(m) => \A f \in FieldsOf(p, id) : SameAs(m, d, f)
  BY <1>14, <1>15, Zenon
<1> QED
  BY <1>7, <1>15, <1>16, Zenon DEF d, rest, fields

-----------------------------------------------------------------------------
(* What is on the wire and what is made of it.                             *)
SeenIn(frames) ==
  IF Is("common", frames) THEN Decode("common", frames)
  ELSE IF Is("asset", frames) THEN Decode("asset", frames) ELSE Refused

LEMMA ProtocolNames ==
  DOMAIN Protocols = {"asset", "common"}
BY DEF Protocols

LEMMA SeenFacts ==
  ASSUME NEW m, WellFormed(m), TablesAgree, NEW frames,
         frames[1].sign = Protocols[m.protocol].sign
  PROVE  SeenIn(frames) = IF Is(m.protocol, frames) THEN Decode(m.protocol, frames) ELSE Refused
<1>1. m.protocol = "asset" \/ m.protocol = "common"
  BY ProtocolNames DEF WellFormed
<1>2. \A p : Is(p, frames) => frames[1].sign = Protocols[p].sign
  BY Zenon DEF Is
<1>3. Protocols["asset"].sign # Protocols["common"].sign
  BY Zenon DEF TablesAgree
<1>4. CASE m.protocol = "asset"
  <2>1. ~Is("common", frames)
    BY <1>2, <1>3, <1>4, Zenon
  <2> QED
    BY <1>4, <2>1, Zenon DEF SeenIn
<1>5. CASE m.protocol = "common"
  <2>1. ~Is("asset", frames)
    BY <1>2, <1>3, <1>5, Zenon
  <2> QED
    BY <1>5, <2>1, Zenon DEF SeenIn
<1> QED
  BY <1>1, <1>4, <1>5

OnWire(e) ==
  /\ e = [sent |-> e.sent, frames |-> e.frames, lost |-> e.lost]
  /\ WellFormed(e.sent)
  /\ \/ e.lost = "nothing" /\ e.frames = Encode(e.sent)
     \/ /\ e.lost = "octets"
        /\ \E left \in Nat : e.frames = [Encode(e.sent) EXCEPT ![1].octets = left]
     \/ /\ e.lost = "frames"
        /\ Len(Encode(e.sent)) > 1 /\ e.frames = Front(Encode(e.sent))

(* What the two properties say of one message.                             *)
Whole(sent, seen) ==
  /\ seen.id = sent.id /\ seen.protocol = sent.protocol
  /\ \A f \in DOMAIN sent.value : SameAs(sent, seen, f)
Damaged(sent, lost, seen) ==
  seen # Refused =>
    /\ seen.id = sent.id
    /\ \A f \in DOMAIN sent.value \ {"msg"} : SameAs(sent, seen, f)
    /\ lost = "frames" => "msg" \in DOMAIN sent.value
Good(sent, lost, seen) ==
  IF lost = "nothing" THEN Whole(sent, seen) ELSE Damaged(sent, lost, seen)

LEMMA WholeIsGood ==
  ASSUME TablesAgree, NEW m, WellFormed(m)
  PROVE  Whole(m, SeenIn(Encode(m)))
<1> DEFINE p == m.protocol
           id == m.id
           put == Protocols[p].put[id]
           fields == Following(p, id)
           E == Encode(m)
           n == Len(put)
<1>1. Agree(p, id) /\ DOMAIN m.value = FieldsOf(p, id)
  BY Zenon DEF TablesAgree, WellFormed
<1>2. /\ n \in Nat /\ DOMAIN put = 1 .. n /\ Protocols[p].read[id] = put /\ id \in DOMAIN Protocols[p].read
      /\ Len(fields) \in Nat
  BY <1>1, Zenon DEF Agree
<1>3. /\ Len(CarriedBy(m)) \in Nat /\ Len(E) = 1 + Len(fields) + Len(CarriedBy(m)) /\ E[1] = FirstOf(m)
      /\ \A j \in DOMAIN fields : E[1 + j] = FrameOf(m, fields[j])
      /\ SubSeq(E, 2 + Len(fields), Len(E)) = CarriedBy(m)
  <2> HIDE DEF E, fields
  <2> QED
    BY <1>1, EncodeFacts DEF E, fields
<1>4. /\ OctetsOf(m) \in Nat /\ 3 <= OctetsOf(m) /\ Len(CellsOf(m)) = n
      /\ 3 + SumOf([k \in 1 .. n |-> CellsOf(m)[k].octets]) <= OctetsOf(m)
  BY <1>1, CellsFit
<1>5. /\ FirstOf(m).sign = Protocols[p].sign /\ FirstOf(m).id = id
      /\ FirstOf(m).cells = CellsOf(m) /\ FirstOf(m).octets = OctetsOf(m)
  BY DEF FirstOf
<1>6. Len(E) \in Nat /\ Len(E) > Len(fields)
  <2> HIDE DEF E, fields
  <2> QED
    BY <1>2, <1>3
<1>7. Holds(E, m)
  BY <1>3, <1>4, <1>5, <1>6, Zenon DEF Holds
<1>8. Is(p, E)
  <2>1. OctetsOf(m) >= 3
    BY <1>4
  <2> QED
    BY <1>2, <1>3, <1>5, <2>1, Zenon DEF Is
<1>9. Readable(Protocols[p].read[id], E[1].cells, E[1].octets)
  <2>1. \A i \in DOMAIN put : CellsOf(m)[i].kind = put[i].kind
    <3>1. \A i \in DOMAIN put : CellsOf(m)[i] = Put(put[i].kind, m.value[put[i].name])
      BY Zenon DEF CellsOf
    <3>2. \A k, v : Put(k, v).kind = k
      BY DEF Put
    <3>3. \A i \in DOMAIN put : Put(put[i].kind, m.value[put[i].name]).kind = put[i].kind
      BY <3>2, Zenon
    <3> HIDE DEF put
    <3> QED
      BY <3>1, <3>3
  <2>2. DOMAIN CellsOf(m) = DOMAIN put
    BY Zenon DEF CellsOf
  <2>3. [i \in DOMAIN put |-> put[i].kind] = [i \in DOMAIN CellsOf(m) |-> CellsOf(m)[i].kind]
    BY <2>1, <2>2, Zenon
  <2>4. Fits(CellsOf(m), Len(CellsOf(m)), OctetsOf(m))
    BY <1>4, Zenon DEF Fits
  <2>5. Readable(put, CellsOf(m), OctetsOf(m))
    BY <2>3, <2>4, Zenon DEF Readable
  <2> QED
    BY <1>2, <1>3, <1>5, <2>5, Zenon
<1>10. SeenIn(E) = Decode(p, E)
  <2>1. E[1].sign = Protocols[p].sign
    BY <1>3, <1>5, Zenon
  <2> QED
    BY <1>8, <2>1, SeenFacts, Zenon
<1>11. /\ Decode(p, E).protocol = p /\ Decode(p, E).id = id
       /\ \A f \in FieldsOf(p, id) : SameAs(m, Decode(p, E), f)
  <2> HIDE DEF E
  <2> QED
    BY <1>1, <1>3, <1>6, <1>7, <1>8, <1>9, DecodeFacts
<1> QED
  BY <1>1, <1>10, <1>11, Zenon DEF Whole

LEMMA DamagedIsGood ==
  ASSUME TablesAgree, NEW m, WellFormed(m), NEW frames, Holds(frames, m), NEW lost,
         lost = "frames" /\ Len(frames) > Len(Following(m.protocol, m.id)) =>
           Carries(m.protocol, m.id)
  PROVE  Damaged(m, lost, SeenIn(frames))
<1> DEFINE p == m.protocol
           id == m.id
<1>1. Agree(p, id) /\ DOMAIN m.value = FieldsOf(p, id)
  BY Zenon DEF TablesAgree, WellFormed
<1>2. frames[1].sign = Protocols[p].sign /\ frames[1].id = id
  BY Zenon DEF Holds
<1>3. SeenIn(frames) = IF Is(p, frames) THEN Decode(p, frames) ELSE Refused
  BY <1>2, SeenFacts, Zenon
<1> SUFFICES ASSUME SeenIn(frames) # Refused
             PROVE  /\ SeenIn(frames).id = id
                    /\ \A f \in FieldsOf(p, id) \ {"msg"} : SameAs(m, SeenIn(frames), f)
                    /\ lost = "frames" => "msg" \in FieldsOf(p, id)
  BY <1>1, Zenon DEF Damaged
<1>4. Is(p, frames) /\ SeenIn(frames) = Decode(p, frames)
  BY <1>3, Zenon
<1>5. /\ Readable(Protocols[p].read[frames[1].id], frames[1].cells, frames[1].octets)
      /\ Len(frames) > Len(Following(p, frames[1].id))
  BY <1>4, Zenon DEF Decode
<1>6. /\ Readable(Protocols[p].read[id], frames[1].cells, frames[1].octets)
      /\ Len(frames) > Len(Following(p, id))
  BY <1>2, <1>5, Zenon
<1>7. /\ Decode(p, frames).id = id
      /\ \A f \in FieldsOf(p, id) \ {"msg"} : SameAs(m, Decode(p, frames), f)
  BY <1>1, <1>4, <1>6, DecodeFacts
<1>8. lost = "frames" => "msg" \in FieldsOf(p, id)
  BY <1>1, <1>6, FieldKinds
<1> QED
  BY <1>4, <1>7, <1>8, Zenon

LEMMA ReadBack ==
  ASSUME TablesAgree, NEW e, OnWire(e)
  PROVE  Good(e.sent, e.lost, SeenIn(e.frames))
<1> DEFINE m == e.sent
           fields == Following(m.protocol, m.id)
           E == Encode(m)
<1>1. WellFormed(m) /\ Agree(m.protocol, m.id)
  BY Zenon DEF OnWire, WellFormed, TablesAgree
<1>2. /\ Len(fields) \in Nat /\ DOMAIN fields = 1 .. Len(fields)
  BY <1>1, Zenon DEF Agree
<1>3. /\ \E S : E \in Seq(S)
      /\ Len(CarriedBy(m)) \in Nat /\ (~Carries(m.protocol, m.id) => Len(CarriedBy(m)) = 0)
      /\ Len(E) = 1 + Len(fields) + Len(CarriedBy(m)) /\ E[1] = FirstOf(m)
      /\ \A j \in DOMAIN fields : E[1 + j] = FrameOf(m, fields[j])
  BY <1>1, EncodeFacts
<1>4. /\ FirstOf(m).sign = Protocols[m.protocol].sign /\ FirstOf(m).id = m.id
      /\ FirstOf(m).cells = CellsOf(m) /\ FirstOf(m).octets = OctetsOf(m)
      /\ OctetsOf(m) \in Nat
  BY <1>1, CellsFit DEF FirstOf
<1>5. CASE e.lost = "nothing" /\ e.frames = E
  BY <1>1, <1>5, WholeIsGood, Zenon DEF Good
<1>6. ASSUME e.lost = "octets", NEW left \in Nat, e.frames = [E EXCEPT ![1].octets = left]
      PROVE  Good(e.sent, e.lost, SeenIn(e.frames))
  <2>1. Holds(e.frames, m)
    <3> DEFINE r == [FirstOf(m) EXCEPT !.octets = left]
    <3>1. r.sign = FirstOf(m).sign /\ r.id = FirstOf(m).id /\ r.cells = FirstOf(m).cells /\ r.octets = left
      BY DEF FirstOf
    <3> HIDE DEF r, E, fields
    <3>2. PICK S : E \in Seq(S)
      BY <1>3
    <3>3. Len(E) \in Nat /\ 1 \in DOMAIN E /\ \A j \in DOMAIN fields : 1 + j \in DOMAIN E /\ 1 + j # 1
      BY <1>2, <1>3, <3>2
    <3>4. e.frames = [E EXCEPT ![1] = r]
      BY <1>3, <1>6, Zenon DEF r, E
    <3>5. Len(e.frames) = Len(E) /\ e.frames[1] = r
          /\ \A j \in DOMAIN fields : e.frames[1 + j] = E[1 + j]
      BY <3>2, <3>3, <3>4
    <3>6. e.frames[1].octets \in Nat /\ Len(e.frames) \in Nat
      BY <1>6, <3>1, <3>3, <3>5
    <3> QED
      BY <1>3, <1>4, <3>1, <3>5, <3>6, Zenon DEF Holds, fields, E
  <2>2. e.lost # "frames" /\ e.lost # "nothing"
    BY <1>6
  <2> QED
    BY <1>1, <2>1, <2>2, DamagedIsGood, Zenon DEF Good
<1>7. CASE e.lost = "frames" /\ Len(E) > 1 /\ e.frames = Front(E)
  <2>1. /\ Len(e.frames) = Len(E) - 1 /\ Len(e.frames) \in Nat /\ e.frames[1] = E[1]
        /\ Len(e.frames) > Len(fields) => \A j \in DOMAIN fields : e.frames[1 + j] = E[1 + j]
    <3> HIDE DEF E, fields
    <3>1. PICK S : E \in Seq(S)
      BY <1>3
    <3>2. e.frames = SubSeq(E, 1, Len(E) - 1)
      BY <1>7, Zenon DEF Front
    <3>3. Len(E) \in Nat /\ Len(E) - 1 \in Nat /\ 1 <= Len(E) - 1
      BY <1>7, <3>1
    <3>4. Len(e.frames) = Len(E) - 1 /\ \A i \in 1 .. Len(E) - 1 : e.frames[i] = E[i]
      BY <3>1, <3>2, <3>3
    <3>5. Len(e.frames) > Len(fields) => \A j \in DOMAIN fields : 1 + j \in 1 .. Len(E) - 1
      BY <1>2, <3>3, <3>4
    <3> QED
      BY <3>3, <3>4, <3>5
  <2>2. Holds(e.frames, m)
    BY <1>3, <1>4, <2>1, Zenon DEF Holds
  <2>3. Len(e.frames) > Len(fields) => Carries(m.protocol, m.id)
    <3> HIDE DEF E, fields
    <3> QED
      BY <1>2, <1>3, <2>1
  <2>4. e.lost # "nothing"
    BY <1>7
  <2> QED
    BY <1>1, <2>2, <2>3, <2>4, DamagedIsGood, Zenon DEF Good
<1> QED
  BY <1>5, <1>6, <1>7, Zenon DEF OnWire

-----------------------------------------------------------------------------
(* What callers set can be held.                                           *)
LEMMA SizeIsNat ==
  \A n \in Sizes : n \in Nat
BY SizesAssumption

LEMMA TextFacts ==
  ASSUME NEW t \in Names, NEW n \in Nat
  PROVE  String(t, n) \in Text /\ (n # 0 => String(t, n) \in Key) /\ String(t, n).size = n
<1>1. String(t, n) = [text |-> t, size |-> n]
  BY Zenon DEF String
<1> QED
  BY <1>1 DEF Text, Key

LEMMA NameFacts ==
  /\ "key" \in Names /\ "second" \in Names /\ "other" \in Names /\ "inserted" \in Names
  /\ "appended" \in Names
  /\ \A p \in DOMAIN Protocols : \A id \in DOMAIN Protocols[p].put : FieldsOf(p, id) \subseteq Names
<1>1. /\ "key" \in Names /\ "second" \in Names /\ "other" \in Names /\ "inserted" \in Names
      /\ "appended" \in Names
  BY Zenon DEF Names
<1> DEFINE of(p) == UNION {FieldsOf(p, id) : id \in DOMAIN Protocols[p].put}
<1>2. Names = {"", "key", "second", "other", "inserted", "appended"}
                \cup UNION {of(p) : p \in DOMAIN Protocols}
  BY Zenon DEF Names
<1>3. \A p : \A id \in DOMAIN Protocols[p].put : FieldsOf(p, id) \subseteq of(p)
  BY Zenon
<1> HIDE DEF of
<1>4. \A p \in DOMAIN Protocols : of(p) \subseteq Names
  BY <1>2, Zenon
<1> QED
  BY <1>1, <1>3, <1>4, Zenon

LEMMA PairFacts ==
  ASSUME NEW k \in Key, NEW v \in Text
  PROVE  Pair(k, v) \in [key : Key, value : Text]
BY DEF Pair

LEMMA KindOfFields ==
  ASSUME NEW p, NEW id, Agree(p, id), NEW f \in FieldsOf(p, id)
  PROVE  /\ Kind(p, id, f) \in Kinds \cup {"frame", "msg"}
         /\ Kind(p, id, f) \in Kinds =>
              \E i \in DOMAIN Protocols[p].put[id] : Protocols[p].put[id][i].name = f /\ i \in Nat
<1> DEFINE put == Protocols[p].put[id]
           fields == Following(p, id)
<1>1. /\ \A i \in DOMAIN put : put[i].name \in FieldsOf(p, id) /\ Kind(p, id, put[i].name) = put[i].kind
      /\ \A j \in DOMAIN fields : fields[j] \in FieldsOf(p, id) /\ Kind(p, id, fields[j]) = "frame"
      /\ Kind(p, id, "msg") = "msg"
      /\ \/ \E i \in DOMAIN put : f = put[i].name
         \/ \E j \in DOMAIN fields : f = fields[j]
         \/ Carries(p, id) /\ f = "msg"
  BY FieldKinds
<1>2. DOMAIN put = 1 .. Len(put) /\ Len(put) \in Nat /\ \A i \in DOMAIN put : put[i].kind \in Kinds
  BY Zenon DEF Agree
<1>3. "frame" \notin Kinds /\ "msg" \notin Kinds
  BY DEF Kinds
<1> HIDE DEF put, fields
<1>4. CASE \E i \in DOMAIN put : f = put[i].name
  <2>1. PICK i \in DOMAIN put : f = put[i].name
    BY <1>4
  <2>2. i \in Nat
    BY <1>2
  <2>3. Kind(p, id, f) \in Kinds
    BY <1>1, <1>2, <2>1, Zenon
  <2> QED
    BY <2>1, <2>2, <2>3, Zenon DEF put
<1>5. CASE \E j \in DOMAIN fields : f = fields[j]
  <2>1. Kind(p, id, f) = "frame"
    BY <1>1, <1>5, Zenon
  <2> QED
    BY <1>3, <2>1
<1>6. CASE f = "msg"
  BY <1>1, <1>3, <1>6
<1> QED
  BY <1>1, <1>4, <1>5, <1>6

LEMMA ValuesHeld ==
  ASSUME NEW p \in DOMAIN Protocols, NEW id \in DOMAIN Protocols[p].put, Agree(p, id),
         NEW f \in FieldsOf(p, id), NEW v \in ValuesOf(p, id, f)
  PROVE  Held(p, id, f, v)
<1> DEFINE k == Kind(p, id, f)
<1>1. k \in Kinds \cup {"frame", "msg"} /\ f \in Names
  BY KindOfFields, NameFacts
<1>2. CASE IsNumber(k)
  <2>1. ValuesOf(p, id, f) = {Position(p, id, f)}
    <3>1. k \notin {"string", "longstr", "chunk"} /\ k # "list" /\ k # "hash" /\ k # "msg"
      BY <1>2 DEF IsNumber
    <3> QED
      BY <1>2, <3>1, Zenon DEF ValuesOf
  <2>2. k \in Kinds
    BY <1>2 DEF IsNumber, Kinds
  <2>3. Position(p, id, f) \in Nat
    <3>1. \E i \in DOMAIN Protocols[p].put[id] : Protocols[p].put[id][i].name = f /\ i \in Nat
      BY <2>2, KindOfFields, Zenon
    <3>2. \A i, j \in DOMAIN Protocols[p].put[id] :
             Protocols[p].put[id][i].name = Protocols[p].put[id][j].name => i = j
      BY Zenon DEF Agree
    <3>3. Position(p, id, f) = CHOOSE i \in DOMAIN Protocols[p].put[id] :
                                  Protocols[p].put[id][i].name = f
      BY Zenon DEF Position
    <3> QED
      BY <3>1, <3>2, <3>3, Zenon
  <2>4. Values(k) = Nat
    BY <1>2, Zenon DEF Values
  <2> QED
    BY <2>1, <2>2, <2>3, <2>4, Zenon DEF Held
<1>3. CASE k \in {"string", "longstr", "chunk"}
  <2>1. ~IsNumber(k) /\ k \in Kinds /\ k # "list" /\ k # "hash"
    BY <1>3 DEF IsNumber, Kinds
  <2>2. ValuesOf(p, id, f) = {String(f, n) : n \in Sizes}
    BY <1>3, <2>1, Zenon DEF ValuesOf
  <2>3. PICK n \in Sizes : v = String(f, n)
    BY <2>2, Zenon
  <2>4. v \in Text
    BY <1>1, <2>3, SizeIsNat, TextFacts, Zenon
  <2>5. Values(k) = Text
    BY <2>1, Zenon DEF Values
  <2> QED
    BY <2>1, <2>4, <2>5, Zenon DEF Held
<1>4. CASE k = "list"
  <2>1. ~IsNumber(k) /\ k \in Kinds /\ k \notin {"string", "longstr", "chunk"}
    BY <1>4 DEF IsNumber, Kinds
  <2>2. ValuesOf(p, id, f) = {<<>>} \cup {<<String(f, n), String("second", 1)>> : n \in Sizes}
    BY <1>4, <2>1, Zenon DEF ValuesOf
  <2>3. v \in Seq(Text)
    <3>1. CASE v = <<>>
      BY <3>1
    <3>2. ASSUME NEW n \in Sizes, v = <<String(f, n), String("second", 1)>>
          PROVE  v \in Seq(Text)
      <4>1. String(f, n) \in Text
        BY <1>1, SizeIsNat, TextFacts, Zenon
      <4>2. String("second", 1) \in Text
        <5>1. 1 \in Nat
          OBVIOUS
        <5> QED
          BY <5>1, NameFacts, TextFacts, Zenon
      <4>3. \A x, y : x \in Text /\ y \in Text => <<x, y>> \in Seq(Text)
        OBVIOUS
      <4> QED
        BY <3>2, <4>1, <4>2, <4>3, Zenon
    <3> QED
      BY <2>2, <3>1, <3>2, Zenon
  <2>4. Values(k) = Seq(Text)
    BY <1>4, <2>1, Zenon DEF Values
  <2> QED
    BY <2>1, <2>3, <2>4, Zenon DEF Held
<1>5. CASE k = "hash"
  <2>1. ~IsNumber(k) /\ k \in Kinds /\ k \notin {"string", "longstr", "chunk"} /\ k # "list"
    BY <1>5 DEF IsNumber, Kinds
  <2> DEFINE two(n) == {Pair(String("key", n), String(f, 1)),
                        Pair(String("second", 1), String("other", n))}
  <2>2. ValuesOf(p, id, f) = {{}} \cup {two(n) : n \in Sizes \ {0}}
    BY <1>5, <2>1, Zenon DEF ValuesOf
  <2>3. ASSUME NEW n \in Sizes \ {0}
        PROVE  two(n) \in Dictionary(Key)
    <3>1. n \in Nat /\ n # 0 /\ 1 \in Nat /\ 1 # 0
      BY SizeIsNat
    <3>2. /\ String("key", n) \in Key /\ String(f, 1) \in Text
          /\ String("second", 1) \in Key /\ String("other", n) \in Text
      BY <1>1, <3>1, NameFacts, TextFacts, Zenon
    <3>3. /\ Pair(String("key", n), String(f, 1)) \in [key : Key, value : Text]
          /\ Pair(String("second", 1), String("other", n)) \in [key : Key, value : Text]
      BY <3>2, PairFacts, Zenon
    <3>4. ASSUME NEW x, NEW y
          PROVE  IsFiniteSet({x, y})
      <4> DEFINE S == {x} \cup {y}
      <4>1. IsFiniteSet(S)
        BY FS_Singleton, FS_Union
      <4>2. {x, y} = S
        OBVIOUS
      <4> HIDE DEF S
      <4> QED
        BY <4>1, <4>2, Zenon
    <3>5. two(n) \subseteq [key : Key, value : Text] /\ IsFiniteSet(two(n))
      BY <3>3, <3>4, Zenon
    <3> HIDE DEF two
    <3> QED
      BY <3>5, Zenon DEF Dictionary
  <2>4. {} \in Dictionary(Key)
    <3>1. IsFiniteSet({})
      BY FS_EmptySet
    <3> QED
      BY <3>1 DEF Dictionary
  <2> HIDE DEF two
  <2>5. v \in Dictionary(Key)
    BY <2>2, <2>3, <2>4, Zenon
  <2>6. Values(k) = Dictionary(Key)
    BY <1>5, <2>1, Zenon DEF Values
  <2> QED
    BY <2>1, <2>5, <2>6, Zenon DEF Held
<1>6. CASE k = "msg"
  <2>1. ~IsNumber(k) /\ k \notin {"string", "longstr", "chunk"} /\ k # "list" /\ k # "hash"
    BY <1>6 DEF IsNumber
  <2>2. ValuesOf(p, id, f) = {<<>>, <<"one", "two">>}
    BY <1>6, <2>1, Zenon DEF ValuesOf
  <2>3. <<>> \in Seq({"one", "two"}) /\ <<"one", "two">> \in Seq({"one", "two"})
    OBVIOUS
  <2> QED
    BY <1>6, <2>2, <2>3, Zenon DEF Held
<1>7. CASE k = "frame"
  BY <1>7, Zenon DEF Held
<1> QED
  BY <1>1, <1>2, <1>3, <1>4, <1>5, <1>6, <1>7 DEF Kinds, IsNumber

LEMMA UsualHeld ==
  ASSUME NEW p \in DOMAIN Protocols, NEW id \in DOMAIN Protocols[p].put, Agree(p, id),
         NEW f \in FieldsOf(p, id)
  PROVE  Held(p, id, f, Usual(p, id, f))
<1> DEFINE k == Kind(p, id, f)
           u == Usual(p, id, f)
<1>1. k \in Kinds \cup {"frame", "msg"} /\ f \in Names
  BY KindOfFields, NameFacts
<1>2. 1 \in Nat /\ 3 \in Nat /\ 3 # 0
  OBVIOUS
<1>3. CASE k \in {"string", "longstr", "chunk"}
  <2>1. ~IsNumber(k) /\ k \in Kinds /\ k # "list" /\ k # "hash"
    BY <1>3 DEF IsNumber, Kinds
  <2>2. u = String(f, 3)
    BY <1>3, Zenon DEF Usual
  <2>3. u \in Text
    BY <1>1, <1>2, <2>2, TextFacts, Zenon
  <2>4. Values(k) = Text
    BY <2>1, Zenon DEF Values
  <2> QED
    BY <2>1, <2>3, <2>4, Zenon DEF Held
<1>4. CASE k = "list"
  <2>1. ~IsNumber(k) /\ k \in Kinds /\ k \notin {"string", "longstr", "chunk"}
    BY <1>4 DEF IsNumber, Kinds
  <2>2. u = <<String(f, 3), String("second", 1)>>
    BY <1>4, <2>1, Zenon DEF Usual
  <2>3. String(f, 3) \in Text /\ String("second", 1) \in Text
    BY <1>1, <1>2, NameFacts, TextFacts, Zenon
  <2>4. \A x, y : x \in Text /\ y \in Text => <<x, y>> \in Seq(Text)
    OBVIOUS
  <2>5. u \in Seq(Text)
    BY <2>2, <2>3, <2>4, Zenon
  <2>6. Values(k) = Seq(Text)
    BY <1>4, <2>1, Zenon DEF Values
  <2> QED
    BY <2>1, <2>5, <2>6, Zenon DEF Held
<1>5. CASE k = "hash"
  <2>1. ~IsNumber(k) /\ k \in Kinds /\ k \notin {"string", "longstr", "chunk"} /\ k # "list"
    BY <1>5 DEF IsNumber, Kinds
  <2>2. u = {Pair(String("key", 3), String(f, 1))}
    BY <1>5, <2>1, Zenon DEF Usual
  <2>3. String("key", 3) \in Key /\ String(f, 1) \in Text
    BY <1>1, <1>2, NameFacts, TextFacts, Zenon
  <2>4. u \subseteq [key : Key, value : Text] /\ IsFiniteSet(u)
    <3>1. Pair(String("key", 3), String(f, 1)) \in [key : Key, value : Text]
      BY <2>3, PairFacts, Zenon
    <3>2. IsFiniteSet({Pair(String("key", 3), String(f, 1))})
      BY FS_Singleton, Zenon
    <3> HIDE DEF u
    <3> QED
      BY <2>2, <3>1, <3>2, Zenon
  <2> HIDE DEF u
  <2>5. u \in Dictionary(Key)
    BY <2>4, Zenon DEF Dictionary
  <2>6. Values(k) = Dictionary(Key)
    BY <1>5, <2>1, Zenon DEF Values
  <2> QED
    BY <2>1, <2>5, <2>6, Zenon DEF Held, u
<1>6. CASE k = "msg"
  <2>1. k \notin {"string", "longstr", "chunk"} /\ k # "list" /\ k # "hash"
    BY <1>6
  <2>2. u = <<"one", "two">>
    BY <1>6, <2>1, Zenon DEF Usual
  <2>3. <<"one", "two">> \in Seq({"one", "two"})
    OBVIOUS
  <2> QED
    BY <1>6, <2>2, <2>3, Zenon DEF Held
<1>7. CASE k = "frame"
  BY <1>7, Zenon DEF Held
<1>8. CASE IsNumber(k)
  <2>1. k \notin {"string", "longstr", "chunk"} /\ k # "list" /\ k # "hash" /\ k # "msg"
    BY <1>8 DEF IsNumber
  <2>2. u = CHOOSE v \in ValuesOf(p, id, f) : TRUE
    BY <2>1, Zenon DEF Usual
  <2>3. ValuesOf(p, id, f) # {}
    <3>1. ValuesOf(p, id, f) = {Position(p, id, f)}
      BY <1>8, <2>1, Zenon DEF ValuesOf
    <3> QED
      BY <3>1
  <2>4. u \in ValuesOf(p, id, f)
    BY <2>2, <2>3, Zenon
  <2> QED
    BY <2>4, ValuesHeld, Zenon
<1> QED
  BY <1>1, <1>3, <1>4, <1>5, <1>6, <1>7, <1>8 DEF Kinds, IsNumber

(* Messages that are well formed.                                          *)
Message(p, id, value) == [protocol |-> p, id |-> id, value |-> value]

LEMMA MessageFacts ==
  ASSUME NEW p \in DOMAIN Protocols, NEW id \in DOMAIN Protocols[p].put, NEW value,
         value = [f \in FieldsOf(p, id) |-> value[f]],
         \A f \in FieldsOf(p, id) : Held(p, id, f, value[f])
  PROVE  /\ WellFormed(Message(p, id, value))
         /\ Message(p, id, value).protocol = p /\ Message(p, id, value).id = id
         /\ Message(p, id, value).value = value
<1> DEFINE m == Message(p, id, value)
<1>1. m.protocol = p /\ m.id = id /\ m.value = value
  BY DEF Message
<1>2. m = [protocol |-> m.protocol, id |-> m.id, value |-> m.value]
  BY <1>1, Zenon DEF Message
<1> HIDE DEF m
<1>3. WellFormed(m)
  BY <1>1, <1>2, Zenon DEF WellFormed
<1> QED
  BY <1>1, <1>3, Zenon DEF m

LEMMA FreshFacts ==
  ASSUME NEW p \in DOMAIN Protocols, NEW id \in DOMAIN Protocols[p].put
  PROVE  /\ \E value : Fresh(p, id) = Message(p, id, value) /\ DOMAIN value = FieldsOf(p, id)
         /\ WellFormed(Fresh(p, id))
         /\ Fresh(p, id).protocol = p /\ Fresh(p, id).id = id
         /\ DOMAIN Fresh(p, id).value = FieldsOf(p, id)
<1> DEFINE first(f) == IF IsNumber(Kind(p, id, f)) THEN 0 ELSE Unset
           value == [f \in FieldsOf(p, id) |-> first(f)]
<1>1. Fresh(p, id) = Message(p, id, value)
  BY Zenon DEF Fresh, Message
<1>2. ASSUME NEW f \in FieldsOf(p, id)
      PROVE  Held(p, id, f, first(f))
  <2>1. CASE IsNumber(Kind(p, id, f))
    <3>1. Kind(p, id, f) \in Kinds
      BY <2>1 DEF IsNumber, Kinds
    <3>2. first(f) = 0 /\ 0 \in Nat
      BY <2>1
    <3>3. Values(Kind(p, id, f)) = Nat
      BY <2>1, Zenon DEF Values
    <3> QED
      BY <3>1, <3>2, <3>3, Zenon DEF Held
  <2>2. CASE ~IsNumber(Kind(p, id, f))
    BY <2>2, Zenon DEF Held
  <2> QED
    BY <2>1, <2>2
<1>3. /\ DOMAIN value = FieldsOf(p, id) /\ value = [f \in FieldsOf(p, id) |-> value[f]]
      /\ \A f \in FieldsOf(p, id) : value[f] = first(f)
  BY Zenon
<1> HIDE DEF value, first
<1>4. \A f \in FieldsOf(p, id) : Held(p, id, f, value[f])
  BY <1>2, <1>3, Zenon
<1>5. /\ WellFormed(Message(p, id, value)) /\ Message(p, id, value).protocol = p
      /\ Message(p, id, value).id = id /\ Message(p, id, value).value = value
  BY <1>3, <1>4, MessageFacts
<1> QED
  BY <1>1, <1>3, <1>5, Zenon

(* A message whose fields are set anew.                                    *)
LEMMA Reset ==
  ASSUME NEW m, WellFormed(m), NEW value,
         value = [f \in FieldsOf(m.protocol, m.id) |-> value[f]],
         \A f \in FieldsOf(m.protocol, m.id) : Held(m.protocol, m.id, f, value[f])
  PROVE  /\ WellFormed([m EXCEPT !.value = value])
         /\ [m EXCEPT !.value = value] = Message(m.protocol, m.id, value)
         /\ [m EXCEPT !.value = value].value = value
<1> DEFINE p == m.protocol
           id == m.id
<1>1. p \in DOMAIN Protocols /\ id \in DOMAIN Protocols[p].put
      /\ m = [protocol |-> p, id |-> id, value |-> m.value]
  BY Zenon DEF WellFormed
<1> HIDE DEF p, id
<1>2. [m EXCEPT !.value = value] = Message(p, id, value)
  <2> DEFINE v == m.value
  <2> HIDE DEF v
  <2>1. m = [protocol |-> p, id |-> id, value |-> v]
    BY <1>1 DEF v
  <2> QED
    BY <2>1 DEF Message
<1>3. WellFormed(Message(p, id, value)) /\ Message(p, id, value).value = value
  <2>1. /\ value = [f \in FieldsOf(p, id) |-> value[f]]
        /\ \A f \in FieldsOf(p, id) : Held(p, id, f, value[f])
    BY Zenon DEF p, id
  <2> QED
    BY <1>1, <2>1, MessageFacts
<1> QED
  BY <1>2, <1>3, Zenon DEF p, id

LEMMA SetFieldHeld ==
  ASSUME NEW m, WellFormed(m), NEW f \in FieldsOf(m.protocol, m.id), NEW v,
         Held(m.protocol, m.id, f, v)
  PROVE  WellFormed([m EXCEPT !.value[f] = v])
<1> DEFINE value == [m.value EXCEPT ![f] = v]
           F == FieldsOf(m.protocol, m.id)
<1>1. m.value = [g \in F |-> m.value[g]] /\ \A g \in F : Held(m.protocol, m.id, g, m.value[g])
  BY Zenon DEF WellFormed
<1>2. value = [g \in F |-> value[g]]
  BY <1>1
<1>3. \A g \in F : Held(m.protocol, m.id, g, value[g])
  <2>1. ASSUME NEW g \in F
        PROVE  Held(m.protocol, m.id, g, value[g])
    <3>1. g \in DOMAIN m.value
      BY <1>1
    <3>2. CASE g = f
      <4>1. value[g] = v
        BY <3>1, <3>2
      <4> QED
        BY <3>2, <4>1, Zenon
    <3>3. CASE g # f
      <4>1. value[g] = m.value[g]
        BY <3>1, <3>3
      <4> QED
        BY <1>1, <4>1, Zenon
    <3> QED
      BY <3>2, <3>3
  <2> QED
    BY <2>1
<1>4. [m EXCEPT !.value[f] = v] = [m EXCEPT !.value = value]
  OBVIOUS
<1> HIDE DEF value
<1>5. WellFormed([m EXCEPT !.value = value])
  BY <1>2, <1>3, Reset
<1> QED
  BY <1>4, <1>5, Zenon

-----------------------------------------------------------------------------
(* Every action.                                                           *)
OnTheWire(w) == \E S : w \in Seq(S) /\ \A e \in S : OnWire(e)

MessagesInv ==
  /\ self = None \/ WellFormed(self)
  /\ OnTheWire(wire)
  /\ received # None => Good(received.sent, received.lost, received.seen)

LEMMA DupIsCopy ==
  ASSUME TablesAgree, NEW m, WellFormed(m)
  PROVE  Dup(m) = m
<1> DEFINE p == m.protocol
           id == m.id
           F == FieldsOf(p, id)
           x == Fresh(p, id)
           value == [f \in DOMAIN x.value |-> IF f \in Protocols[p].copied[id]
                                              THEN m.value[f] ELSE x.value[f]]
<1>1. /\ p \in DOMAIN Protocols /\ id \in DOMAIN Protocols[p].put /\ Agree(p, id)
      /\ m = [protocol |-> p, id |-> id, value |-> m.value]
      /\ m.value = [f \in F |-> m.value[f]] /\ \A f \in F : Held(p, id, f, m.value[f])
  BY Zenon DEF WellFormed, TablesAgree
<1>2. Protocols[p].copied[id] = F
  BY <1>1, Zenon DEF Agree
<1>3. WellFormed(x) /\ x.protocol = p /\ x.id = id /\ DOMAIN x.value = F
  BY <1>1, FreshFacts
<1>4. value = m.value
  <2> HIDE DEF x, F
  <2>1. value = [f \in F |-> m.value[f]]
    BY <1>2, <1>3
  <2> QED
    BY <1>1, <2>1, Zenon
<1>5. Dup(m) = [x EXCEPT !.value = value]
  BY Zenon DEF Dup
<1> HIDE DEF value, x, F, p, id
<1>6. [x EXCEPT !.value = m.value] = Message(p, id, m.value)
  <2> DEFINE v == m.value
  <2> HIDE DEF v
  <2>1. /\ v = [f \in FieldsOf(x.protocol, x.id) |-> v[f]]
        /\ \A f \in FieldsOf(x.protocol, x.id) : Held(x.protocol, x.id, f, v[f])
    BY <1>1, <1>3 DEF v, F
  <2>2. [x EXCEPT !.value = v] = Message(x.protocol, x.id, v)
    BY <1>3, <2>1, Reset
  <2> QED
    BY <1>3, <2>2, Zenon DEF v
<1> QED
  BY <1>1, <1>4, <1>5, <1>6, Zenon DEF Message

LEMMA SetHeld ==
  ASSUME NEW p \in DOMAIN Protocols, NEW id \in DOMAIN Protocols[p].put, NEW value,
         value = [f \in FieldsOf(p, id) |-> value[f]],
         \A f \in FieldsOf(p, id) : Held(p, id, f, value[f])
  PROVE  WellFormed([Fresh(p, id) EXCEPT !.value = value])
<1> DEFINE x == Fresh(p, id)
<1>1. WellFormed(x) /\ x.protocol = p /\ x.id = id
  BY FreshFacts
<1> HIDE DEF x
<1>2. /\ value = [f \in FieldsOf(x.protocol, x.id) |-> value[f]]
      /\ \A f \in FieldsOf(x.protocol, x.id) : Held(x.protocol, x.id, f, value[f])
  BY <1>1
<1>3. WellFormed([x EXCEPT !.value = value])
  BY <1>1, <1>2, Reset
<1> QED
  BY <1>3, Zenon DEF x

LEMMA ConstructHeld ==
  ASSUME TablesAgree, NEW p \in DOMAIN Protocols, NEW id \in DOMAIN Protocols[p].put, NEW given
  PROVE  WellFormed([Fresh(p, id) EXCEPT !.value =
            [f \in DOMAIN @ |-> IF f \in given THEN Usual(p, id, f) ELSE @[f]]])
<1> DEFINE x == Fresh(p, id)
           F == FieldsOf(p, id)
           set(f) == IF f \in given THEN Usual(p, id, f) ELSE x.value[f]
           value == [f \in DOMAIN x.value |-> set(f)]
<1>1. Agree(p, id)
  BY Zenon DEF TablesAgree
<1>2. WellFormed(x) /\ x.protocol = p /\ x.id = id /\ DOMAIN x.value = F
  BY FreshFacts
<1>3. ASSUME NEW f \in F
      PROVE  Held(p, id, f, set(f))
  <2>1. Held(p, id, f, Usual(p, id, f))
    BY <1>1, UsualHeld, Zenon
  <2>2. Held(p, id, f, x.value[f])
    <3> HIDE DEF x
    <3> QED
      BY <1>2, Zenon DEF WellFormed
  <2> QED
    BY <2>1, <2>2, Zenon
<1>4. value = [f \in F |-> value[f]] /\ \A f \in F : value[f] = set(f)
  BY <1>2, Zenon
<1>5. [Fresh(p, id) EXCEPT !.value =
         [f \in DOMAIN @ |-> IF f \in given THEN Usual(p, id, f) ELSE @[f]]]
      = [Fresh(p, id) EXCEPT !.value = value]
  BY Zenon
<1> HIDE DEF set, value
<1>6. \A f \in F : Held(p, id, f, value[f])
  BY <1>3, <1>4, Zenon
<1>7. WellFormed([Fresh(p, id) EXCEPT !.value = value])
  BY <1>4, <1>6, SetHeld
<1> QED
  BY <1>5, <1>7, Zenon

LEMMA SendsHeld ==
  ASSUME TablesAgree, NEW p \in DOMAIN Protocols, NEW id \in DOMAIN Protocols[p].put
  PROVE  LET meant == [Fresh(p, id) EXCEPT !.value = [f \in DOMAIN @ |-> Usual(p, id, f)]]
             set == [Fresh(p, id) EXCEPT !.value =
                        [f \in DOMAIN @ |-> IF f \in Protocols[p].sends[id]
                                            THEN meant.value[f] ELSE @[f]]]
         IN  WellFormed(meant) /\ set = meant
<1> DEFINE x == Fresh(p, id)
           F == FieldsOf(p, id)
           value == [f \in DOMAIN x.value |-> Usual(p, id, f)]
           meant == [x EXCEPT !.value = value]
           other == [f \in DOMAIN x.value |-> IF f \in Protocols[p].sends[id]
                                              THEN meant.value[f] ELSE x.value[f]]
<1>1. Agree(p, id) /\ Protocols[p].sends[id] = F
  BY ZenonT(30) DEF TablesAgree, Agree
<1>2. WellFormed(x) /\ x.protocol = p /\ x.id = id /\ DOMAIN x.value = F
  BY FreshFacts
<1>3. \A f \in F : Held(p, id, f, Usual(p, id, f))
  BY <1>1, UsualHeld, Zenon
<1>4. value = [f \in F |-> value[f]] /\ \A f \in F : value[f] = Usual(p, id, f)
  BY <1>2, Zenon
<1>5. \A f \in F : Held(p, id, f, value[f])
  BY <1>3, <1>4, Zenon
<1> HIDE DEF value
<1>6. WellFormed(meant)
  BY <1>4, <1>5, SetHeld
<1>7. meant.value = value
  <2>1. x = [protocol |-> p, id |-> id, value |-> x.value]
    BY <1>2, Zenon DEF WellFormed
  <2> HIDE DEF x
  <2> QED
    BY <2>1
<1>8. other = value
  <2> HIDE DEF meant, x, F
  <2>1. other = [f \in F |-> value[f]]
    BY <1>1, <1>2, <1>7
  <2> QED
    BY <1>4, <2>1, Zenon
<1>9. [x EXCEPT !.value = other] = meant
  <2> HIDE DEF other
  <2> QED
    BY <1>8, Zenon
<1> QED
  BY <1>6, <1>9, Zenon DEF value

LEMMA Sent1 ==
  ASSUME NEW w, OnTheWire(w), NEW e, OnWire(e)
  PROVE  OnTheWire(Append(w, e)) /\ OnTheWire(<<e>>)
<1>1. PICK S : w \in Seq(S) /\ \A o \in S : OnWire(o)
  BY Zenon DEF OnTheWire
<1> DEFINE T == S \cup {e}
<1>2. Append(w, e) \in Seq(T) /\ <<e>> \in Seq(T)
  <2>1. w \in Seq(T)
    BY <1>1
  <2>2. e \in T
    OBVIOUS
  <2> HIDE DEF T
  <2> QED
    BY <2>1, <2>2
<1>3. \A o \in T : OnWire(o)
  BY <1>1, Zenon
<1> HIDE DEF T
<1> QED
  BY <1>2, <1>3, Zenon DEF OnTheWire

LEMMA Lost1 ==
  ASSUME NEW w, OnTheWire(w), w # <<>>, NEW e, OnWire(w[Len(w)]) => OnWire(e)
  PROVE  OnTheWire([w EXCEPT ![Len(w)] = e])
<1>1. PICK S : w \in Seq(S) /\ \A o \in S : OnWire(o)
  BY Zenon DEF OnTheWire
<1>2. Len(w) \in Nat /\ Len(w) \in 1 .. Len(w) /\ w[Len(w)] \in S
  BY <1>1
<1>3. OnWire(e)
  BY <1>1, <1>2, Zenon
<1> DEFINE T == S \cup {e}
<1>4. w \in Seq(T) /\ e \in T
  BY <1>1
<1>5. \A o \in T : OnWire(o)
  BY <1>1, <1>3, Zenon
<1> HIDE DEF T
<1>6. [w EXCEPT ![Len(w)] = e] \in Seq(T)
  BY <1>2, <1>4
<1> QED
  BY <1>5, <1>6, Zenon DEF OnTheWire

LEMMA Received1 ==
  ASSUME NEW w, OnTheWire(w), w # <<>>
  PROVE  OnWire(Head(w)) /\ OnTheWire(Tail(w))
<1>1. PICK S : w \in Seq(S) /\ \A o \in S : OnWire(o)
  BY Zenon DEF OnTheWire
<1>2. Head(w) \in S /\ Tail(w) \in Seq(S)
  BY <1>1
<1> QED
  BY <1>1, <1>2, Zenon DEF OnTheWire

Entry(sent, frames, lost) == [sent |-> sent, frames |-> frames, lost |-> lost]

LEMMA EntryFacts ==
  ASSUME NEW sent, NEW frames, NEW lost
  PROVE  /\ Entry(sent, frames, lost).sent = sent /\ Entry(sent, frames, lost).frames = frames
         /\ Entry(sent, frames, lost).lost = lost
BY DEF Entry

Changed(e, g, t) == [e EXCEPT !.frames = g, !.lost = t]

LEMMA EntryChanged ==
  ASSUME NEW e, e = [sent |-> e.sent, frames |-> e.frames, lost |-> e.lost], NEW g, NEW t
  PROVE  Changed(e, g, t) = Entry(e.sent, g, t)
<1> DEFINE d == [e EXCEPT !.frames = g, !.lost = t]
           a == e.sent
           c == [sent |-> a, frames |-> g, lost |-> t]
<1>1. DOMAIN e = {"sent", "frames", "lost"}
  <2> DEFINE b == e.frames
             k == e.lost
  <2> HIDE DEF a, b, k
  <2>1. e = [sent |-> a, frames |-> b, lost |-> k]
    BY DEF a, b, k
  <2> QED
    BY <2>1
<1>2. DOMAIN d = DOMAIN c /\ DOMAIN c = {"sent", "frames", "lost"}
  BY <1>1
<1>3. d["sent"] = c["sent"] /\ d["frames"] = c["frames"] /\ d["lost"] = c["lost"]
  BY <1>1
<1>4. d = [x \in DOMAIN d |-> d[x]]
  BY Zenon
<1>5. c = [x \in {"sent", "frames", "lost"} |-> c[x]]
  BY Zenon
<1>6. c = Entry(e.sent, g, t) /\ d = Changed(e, g, t)
  BY Zenon DEF Entry, Changed
<1> HIDE DEF d, c
<1>7. d = c
  BY <1>2, <1>3, <1>4, <1>5
<1> QED
  BY <1>6, <1>7, Zenon

LEMMA SentWhole ==
  ASSUME NEW m, WellFormed(m)
  PROVE  OnWire([sent |-> m, frames |-> Encode(m), lost |-> "nothing"])
<1> DEFINE e == Entry(m, Encode(m), "nothing")
<1>1. e.sent = m /\ e.frames = Encode(m) /\ e.lost = "nothing"
  BY EntryFacts
<1>2. e = [sent |-> m, frames |-> Encode(m), lost |-> "nothing"]
  BY Zenon DEF Entry
<1> HIDE DEF e
<1>3. OnWire(e)
  BY <1>1, <1>2, Zenon DEF OnWire
<1> QED
  BY <1>2, <1>3, Zenon

LEMMA OctetsLost ==
  ASSUME NEW e, OnWire(e), e.lost = "nothing", NEW left \in Nat
  PROVE  OnWire([e EXCEPT !.frames[1].octets = left, !.lost = "octets"])
<1>1. e.frames = Encode(e.sent) /\ WellFormed(e.sent)
  <2>1. e.lost # "octets" /\ e.lost # "frames"
    OBVIOUS
  <2> QED
    BY <2>1, Zenon DEF OnWire
<1> DEFINE frames == [e.frames EXCEPT ![1].octets = left]
           d == Entry(e.sent, frames, "octets")
<1>2. [e EXCEPT !.frames[1].octets = left, !.lost = "octets"] = d
  <2>1. e = [sent |-> e.sent, frames |-> e.frames, lost |-> e.lost]
    BY Zenon DEF OnWire
  <2>2. [e EXCEPT !.frames[1].octets = left, !.lost = "octets"]
          = [e EXCEPT !.frames = [@ EXCEPT ![1].octets = left], !.lost = "octets"]
    OBVIOUS
  <2>3. Changed(e, frames, "octets") = d
    <3> HIDE DEF frames
    <3> QED
      BY <2>1, EntryChanged, Zenon
  <2> QED
    BY <2>2, <2>3 DEF Changed
<1>3. d.sent = e.sent /\ d.frames = frames /\ d.lost = "octets"
  BY EntryFacts
<1>4. d = [sent |-> e.sent, frames |-> frames, lost |-> "octets"]
  BY Zenon DEF Entry
<1>5. frames = [Encode(e.sent) EXCEPT ![1].octets = left]
  BY <1>1
<1> HIDE DEF d, frames
<1>6. OnWire(d)
  BY <1>1, <1>3, <1>4, <1>5, Zenon DEF OnWire
<1> QED
  BY <1>2, <1>6, Zenon

LEMMA FrameLost ==
  ASSUME NEW e, OnWire(e), e.lost = "nothing", Len(e.frames) > 1
  PROVE  OnWire([e EXCEPT !.frames = Front(@), !.lost = "frames"])
<1>1. e.frames = Encode(e.sent) /\ WellFormed(e.sent)
  <2>1. e.lost # "octets" /\ e.lost # "frames"
    OBVIOUS
  <2> QED
    BY <2>1, Zenon DEF OnWire
<1> DEFINE frames == Front(e.frames)
           d == Entry(e.sent, frames, "frames")
<1>2. [e EXCEPT !.frames = Front(@), !.lost = "frames"] = d
  <2>1. e = [sent |-> e.sent, frames |-> e.frames, lost |-> e.lost]
    BY Zenon DEF OnWire
  <2>2. [e EXCEPT !.frames = Front(@), !.lost = "frames"] = [e EXCEPT !.frames = frames, !.lost = "frames"]
    BY Zenon
  <2>3. Changed(e, frames, "frames") = d
    <3> HIDE DEF frames
    <3> QED
      BY <2>1, EntryChanged, Zenon
  <2> QED
    BY <2>2, <2>3, Zenon DEF Changed
<1>3. d.sent = e.sent /\ d.frames = frames /\ d.lost = "frames"
  BY EntryFacts
<1>4. d = [sent |-> e.sent, frames |-> frames, lost |-> "frames"]
  BY Zenon DEF Entry
<1>5. frames = Front(Encode(e.sent)) /\ Len(Encode(e.sent)) > 1
  BY <1>1
<1> HIDE DEF d, frames
<1>6. OnWire(d)
  BY <1>1, <1>3, <1>4, <1>5, Zenon DEF OnWire
<1> QED
  BY <1>2, <1>6, Zenon

(* What a step of the sender does.                                         *)
LEMMA ChangeStep ==
  ASSUME MessagesInv, TablesAgree, self # None, NEW f \in DOMAIN self.value, NEW v,
         Held(self.protocol, self.id, f, v), Change(f, v)
  PROVE  MessagesInv'
<1>1. WellFormed(self)
  BY Zenon DEF MessagesInv
<1>2. DOMAIN self.value = FieldsOf(self.protocol, self.id)
  BY <1>1, Zenon DEF WellFormed
<1>3. /\ self' = [self EXCEPT !.value[f] = v] /\ wire' = wire /\ received' = received
  BY Zenon DEF Change
<1>4. WellFormed([self EXCEPT !.value[f] = v])
  BY <1>1, <1>2, SetFieldHeld
<1>5. WellFormed(self')
  BY <1>3, <1>4, Zenon
<1> QED
  BY <1>3, <1>5, Zenon DEF MessagesInv

LEMMA StartStep ==
  ASSUME MessagesInv, TablesAgree, NEW p \in DOMAIN Protocols, NEW id \in DOMAIN Protocols[p].put
  PROVE  /\ New(p, id) => MessagesInv'
         /\ Construct(p, id) => MessagesInv'
         /\ SendAtOnce(p, id) => MessagesInv'
<1>1. ASSUME New(p, id)
      PROVE  MessagesInv'
  <2>1. self' = Fresh(p, id) /\ wire' = wire /\ received' = received
    BY <1>1, Zenon DEF New
  <2>2. WellFormed(self')
    BY <2>1, FreshFacts, Zenon
  <2> QED
    BY <2>1, <2>2, Zenon DEF MessagesInv
<1>2. ASSUME Construct(p, id)
      PROVE  MessagesInv'
  <2>1. /\ self' = [Fresh(p, id) EXCEPT !.value =
             [f \in DOMAIN @ |-> IF f \in Protocols[p].given[id] THEN Usual(p, id, f) ELSE @[f]]]
        /\ wire' = wire /\ received' = received
    BY <1>2, Zenon DEF Construct
  <2>2. WellFormed(self')
    BY <2>1, ConstructHeld, Zenon
  <2> QED
    BY <2>1, <2>2, Zenon DEF MessagesInv
<1>3. ASSUME SendAtOnce(p, id)
      PROVE  MessagesInv'
  <2> DEFINE meant == [Fresh(p, id) EXCEPT !.value = [f \in DOMAIN @ |-> Usual(p, id, f)]]
             set == [Fresh(p, id) EXCEPT !.value =
                        [f \in DOMAIN @ |-> IF f \in Protocols[p].sends[id]
                                            THEN meant.value[f] ELSE @[f]]]
             e == [sent |-> meant, frames |-> Encode(set), lost |-> "nothing"]
  <2>1. wire' = <<e>> /\ self' = self /\ received' = received
    BY <1>3, Zenon DEF SendAtOnce
  <2>2. WellFormed(meant) /\ set = meant
    BY SendsHeld, Zenon
  <2>3. OnWire(e)
    <3> HIDE DEF meant, set
    <3>1. e = [sent |-> meant, frames |-> Encode(meant), lost |-> "nothing"]
      BY <2>2, Zenon
    <3> QED
      BY <2>2, <3>1, SentWhole, Zenon
  <2> HIDE DEF e
  <2>4. OnTheWire(wire')
    BY <2>1, <2>3, Sent1, Zenon DEF MessagesInv
  <2> QED
    BY <2>1, <2>4, Zenon DEF MessagesInv
<1> QED
  BY <1>1, <1>2, <1>3, Zenon

LEMMA SenderStep ==
  ASSUME MessagesInv, TablesAgree, self # None, NEW f \in DOMAIN self.value
  PROVE  /\ SetNumber(f) => MessagesInv'
         /\ SetString(f) => MessagesInv'
         /\ SetOwned(f) => MessagesInv'
         /\ TakeField(f) => MessagesInv'
         /\ InsertPair(f) => MessagesInv'
         /\ AppendString(f) => MessagesInv'
<1> DEFINE p == self.protocol
           id == self.id
           k == Kind(p, id, f)
<1>1. /\ p \in DOMAIN Protocols /\ id \in DOMAIN Protocols[p].put /\ Agree(p, id)
      /\ f \in FieldsOf(p, id) /\ Held(p, id, f, self.value[f])
  <2>1. WellFormed(self)
    BY Zenon DEF MessagesInv
  <2> QED
    BY <2>1, Zenon DEF WellFormed, TablesAgree
<1>2. ASSUME \E value \in ValuesOf(p, id, f) : Change(f, value)
      PROVE  MessagesInv'
  <2>1. PICK value \in ValuesOf(p, id, f) : Change(f, value)
    BY <1>2, Zenon
  <2>2. Held(p, id, f, value)
    BY <1>1, ValuesHeld, Zenon
  <2> QED
    BY <2>1, <2>2, ChangeStep, Zenon
<1>3. SetNumber(f) => MessagesInv'
  BY <1>2, Zenon DEF SetNumber
<1>4. SetString(f) => MessagesInv'
  BY <1>2, Zenon DEF SetString
<1>5. SetOwned(f) => MessagesInv'
  BY <1>2, Zenon DEF SetOwned
<1>6. ASSUME TakeField(f)
      PROVE  MessagesInv'
  <2>1. Change(f, Unset) /\ Held(p, id, f, Unset)
    BY <1>6, Zenon DEF TakeField, Held
  <2> QED
    BY <2>1, ChangeStep, Zenon
<1>7. k \in Kinds => self.value[f] \in Values(k) \/ self.value[f] = Unset
  <2>1. k \in Kinds => k # "frame" /\ k # "msg"
    BY DEF Kinds
  <2> QED
    BY <1>1, <2>1, Zenon DEF Held
<1>8. ASSUME InsertPair(f)
      PROVE  MessagesInv'
  <2>1. PICK n \in Sizes \ {0} :
          LET pair == Pair(String("key", n), String("inserted", n))
          IN  Change(f, {q \in Sent("hash", self.value[f]) : q.key # pair.key} \cup {pair})
    BY <1>8, Zenon DEF InsertPair
  <2> DEFINE pair == Pair(String("key", n), String("inserted", n))
             old == Sent("hash", self.value[f])
             kept == {q \in old : q.key # pair.key}
  <2>2. k = "hash" /\ k \in Kinds
    BY <1>8 DEF InsertPair, Kinds
  <2>3. Values("hash") = Dictionary(Key)
    <3>1. ~IsNumber("hash") /\ "hash" # "list"
      BY DEF IsNumber
    <3> QED
      BY <3>1, Zenon DEF Values
  <2>4. old \in Dictionary(Key)
    <3>1. "hash" \in Kinds /\ (self.value[f] \in Values("hash") \/ self.value[f] = Unset)
      BY <1>7, <2>2, Zenon
    <3> QED
      BY <2>3, <3>1, FieldArrives, Zenon
  <2>5. pair \in [key : Key, value : Text]
    <3>1. n \in Nat /\ n # 0
      BY SizeIsNat
    <3>2. String("key", n) \in Key /\ String("inserted", n) \in Text
      BY <3>1, NameFacts, TextFacts, Zenon
    <3> QED
      BY <3>2, PairFacts, Zenon
  <2>6. kept \cup {pair} \in Dictionary(Key)
    <3> HIDE DEF pair, old
    <3>1. old \subseteq [key : Key, value : Text] /\ IsFiniteSet(old)
      BY <2>4, Zenon DEF Dictionary
    <3>2. kept \subseteq old
      OBVIOUS
    <3> HIDE DEF kept
    <3>3. IsFiniteSet(kept)
      BY <3>1, <3>2, FS_Subset
    <3>4. IsFiniteSet(kept \cup {pair})
      BY <3>3, FS_AddElement
    <3>5. kept \cup {pair} \subseteq [key : Key, value : Text]
      BY <2>5, <3>1, <3>2
    <3> QED
      BY <3>4, <3>5, Zenon DEF Dictionary
  <2>7. Held(p, id, f, kept \cup {pair})
    BY <2>2, <2>3, <2>6, Zenon DEF Held
  <2>8. Change(f, kept \cup {pair})
    BY <2>1, Zenon
  <2> HIDE DEF kept, pair
  <2> QED
    BY <2>7, <2>8, ChangeStep, Zenon
<1>9. ASSUME AppendString(f)
      PROVE  MessagesInv'
  <2>1. PICK n \in Sizes : Change(f, Append(Sent("list", self.value[f]), String("appended", n)))
    BY <1>9, Zenon DEF AppendString
  <2> DEFINE old == Sent("list", self.value[f])
             last == String("appended", n)
             new == Append(old, last)
  <2>2. k = "list" /\ k \in Kinds
    BY <1>9 DEF AppendString, Kinds
  <2>3. Values("list") = Seq(Text)
    <3>1. ~IsNumber("list")
      BY DEF IsNumber
    <3> QED
      BY <3>1, Zenon DEF Values
  <2>4. old \in Seq(Text)
    <3>1. "list" \in Kinds /\ (self.value[f] \in Values("list") \/ self.value[f] = Unset)
      BY <1>7, <2>2, Zenon
    <3> QED
      BY <2>3, <3>1, FieldArrives, Zenon
  <2>5. last \in Text
    BY SizeIsNat, NameFacts, TextFacts, Zenon
  <2>6. new \in Seq(Text)
    <3> HIDE DEF old, last
    <3> QED
      BY <2>4, <2>5
  <2>7. Held(p, id, f, new)
    BY <2>2, <2>3, <2>6, Zenon DEF Held
  <2>8. Change(f, new)
    BY <2>1, Zenon
  <2> HIDE DEF new
  <2> QED
    BY <2>7, <2>8, ChangeStep, Zenon
<1> QED
  BY <1>3, <1>4, <1>5, <1>6, <1>8, <1>9, Zenon

LEMMA SendStep ==
  ASSUME MessagesInv, TablesAgree, self # None
  PROVE  (SendAgain => MessagesInv') /\ (Send => MessagesInv')
<1>1. WellFormed(self)
  BY Zenon DEF MessagesInv
<1> DEFINE e == [sent |-> self, frames |-> Encode(self), lost |-> "nothing"]
<1>2. OnWire(e)
  BY <1>1, SentWhole, Zenon
<1>3. Dup(self) = self
  BY <1>1, DupIsCopy, Zenon
<1>4. Sending(self) <=> wire' = Append(wire, e)
  BY Zenon DEF Sending
<1> HIDE DEF e
<1>5. OnTheWire(Append(wire, e))
  BY <1>2, Sent1, Zenon DEF MessagesInv
<1>6. ASSUME SendAgain
      PROVE  MessagesInv'
  <2>1. Sending(Dup(self)) /\ self' = self /\ received' = received
    BY <1>6, Zenon DEF SendAgain
  <2>2. wire' = Append(wire, e)
    BY <1>3, <1>4, <2>1, Zenon
  <2> QED
    BY <1>5, <2>1, <2>2, Zenon DEF MessagesInv
<1>7. ASSUME Send
      PROVE  MessagesInv'
  <2>1. Sending(self) /\ self' = None /\ received' = received
    BY <1>7, Zenon DEF Send
  <2>2. wire' = Append(wire, e)
    BY <1>4, <2>1, Zenon
  <2> QED
    BY <1>5, <2>1, <2>2, Zenon DEF MessagesInv
<1> QED
  BY <1>6, <1>7

-----------------------------------------------------------------------------
(* What the wire and the other end do.                                     *)
LEMMA OctetsCounted ==
  ASSUME TablesAgree, NEW e, OnWire(e), e.lost = "nothing"
  PROVE  e.frames[1].octets \in Nat /\ 3 <= e.frames[1].octets
<1> DEFINE m == e.sent
<1>1. e.frames = Encode(m) /\ WellFormed(m)
  <2>1. e.lost # "octets" /\ e.lost # "frames"
    OBVIOUS
  <2> QED
    BY <2>1, Zenon DEF OnWire
<1>2. Agree(m.protocol, m.id)
  BY <1>1, Zenon DEF WellFormed, TablesAgree
<1> HIDE DEF m
<1>3. Encode(m)[1] = FirstOf(m)
  BY <1>1, <1>2, EncodeFacts
<1>4. FirstOf(m).octets = OctetsOf(m) /\ OctetsOf(m) \in Nat /\ 3 <= OctetsOf(m)
  BY <1>1, <1>2, CellsFit DEF FirstOf
<1>5. e.frames[1].octets = OctetsOf(m)
  BY <1>1, <1>3, <1>4, Zenon
<1> QED
  BY <1>4, <1>5, Zenon

LEMMA LoseStep ==
  ASSUME MessagesInv, TablesAgree, Lose
  PROVE  MessagesInv'
<1> DEFINE e == wire[Len(wire)]
           n == e.frames[1].octets
<1>1. /\ wire # <<>> /\ e.lost = "nothing" /\ self' = self /\ received' = received
      /\ OnTheWire(wire)
  BY Zenon DEF Lose, MessagesInv
<1>2. ASSUME OnTheWire(wire')
      PROVE  MessagesInv'
  BY <1>1, <1>2, Zenon DEF MessagesInv
<1>3. OnWire(e)
  <2>1. PICK S : wire \in Seq(S) /\ \A o \in S : OnWire(o)
    BY <1>1, Zenon DEF OnTheWire
  <2>2. wire[Len(wire)] \in S
    BY <1>1, <2>1
  <2> QED
    BY <2>1, <2>2, Zenon
<1>4. n \in Nat /\ 3 <= n
  <2> HIDE DEF e
  <2> QED
    BY <1>1, <1>3, OctetsCounted
<1>5. ASSUME NEW left \in {0, 1, 2, 3, n - 1}, left < n,
             wire' = [wire EXCEPT ![Len(wire)] = [e EXCEPT !.frames[1].octets = left, !.lost = "octets"]]
      PROVE  MessagesInv'
  <2> DEFINE d == [e EXCEPT !.frames[1].octets = left, !.lost = "octets"]
  <2>1. left \in Nat
    <3> HIDE DEF n
    <3> QED
      BY <1>4
  <2>2. OnWire(d)
    BY <1>1, <1>3, <2>1, OctetsLost
  <2>3. wire' = [wire EXCEPT ![Len(wire)] = d]
    BY <1>5
  <2> HIDE DEF d
  <2>4. OnTheWire(wire')
    BY <1>1, <2>2, <2>3, Lost1, Zenon
  <2> QED
    BY <1>2, <2>4
<1>6. ASSUME Len(e.frames) > 1,
             wire' = [wire EXCEPT ![Len(wire)] = [e EXCEPT !.frames = Front(@), !.lost = "frames"]]
      PROVE  MessagesInv'
  <2> DEFINE d == [e EXCEPT !.frames = Front(@), !.lost = "frames"]
  <2>1. OnWire(d)
    BY <1>1, <1>3, <1>6, FrameLost
  <2>2. wire' = [wire EXCEPT ![Len(wire)] = d]
    BY <1>6, Zenon
  <2> HIDE DEF d
  <2>3. OnTheWire(wire')
    BY <1>1, <2>1, <2>2, Lost1, Zenon
  <2> QED
    BY <1>2, <2>3
<1> QED
  BY <1>5, <1>6, Zenon DEF Lose

LEMMA ReceiveStep ==
  ASSUME MessagesInv, TablesAgree, Receive
  PROVE  MessagesInv'
<1> DEFINE e == Head(wire)
           r == [sent |-> e.sent, lost |-> e.lost, seen |-> SeenIn(e.frames)]
<1>1. OnWire(e) /\ OnTheWire(Tail(wire))
  BY Received1, Zenon DEF Receive, MessagesInv
<1>2. wire' = Tail(wire) /\ self' = self /\ received' = r
  BY Zenon DEF Receive, SeenIn
<1>3. Good(e.sent, e.lost, SeenIn(e.frames))
  BY <1>1, ReadBack, Zenon
<1>4. r.sent = e.sent /\ r.lost = e.lost /\ r.seen = SeenIn(e.frames)
  OBVIOUS
<1> HIDE DEF r
<1>5. Good(received'.sent, received'.lost, received'.seen)
  BY <1>2, <1>3, <1>4, Zenon
<1> QED
  BY <1>1, <1>2, <1>5, Zenon DEF MessagesInv

(* The invariant holds from the beginning and is kept by every step.       *)
LEMMA MessagesStart ==
  Init => MessagesInv
<1> SUFFICES ASSUME Init
             PROVE  MessagesInv
  OBVIOUS
<1>1. self = None /\ wire = <<>> /\ received = None
  BY DEF Init
<1>2. OnTheWire(<<>>)
  <2> DEFINE S == {}
  <2>1. <<>> \in Seq(S) /\ \A e \in S : OnWire(e)
    OBVIOUS
  <2> HIDE DEF S
  <2> QED
    BY <2>1, Zenon DEF OnTheWire
<1> QED
  BY <1>1, <1>2, Zenon DEF MessagesInv

LEMMA MessagesKept ==
  ASSUME MessagesInv, TablesAgree, [Next]_vars
  PROVE  MessagesInv'
<1>1. ASSUME NEW p \in DOMAIN Protocols, NEW id \in DOMAIN Protocols[p].put,
             New(p, id) \/ Construct(p, id) \/ SendAtOnce(p, id)
      PROVE  MessagesInv'
  BY <1>1, StartStep, Zenon
<1>2. ASSUME self # None, NEW f \in DOMAIN self.value,
             \/ SetNumber(f) \/ SetString(f) \/ SetOwned(f) \/ TakeField(f)
             \/ InsertPair(f) \/ AppendString(f)
      PROVE  MessagesInv'
  BY <1>2, SenderStep, Zenon
<1>3. ASSUME self # None, SendAgain \/ Send
      PROVE  MessagesInv'
  BY <1>3, SendStep, Zenon
<1>4. CASE Lose
  BY <1>4, LoseStep, Zenon
<1>5. CASE Receive
  BY <1>5, ReceiveStep, Zenon
<1>6. CASE Destroy
  <2>1. received' = None /\ self' = self /\ wire' = wire
    BY <1>6, Zenon DEF Destroy
  <2> QED
    BY <2>1, Zenon DEF MessagesInv
<1>7. CASE vars' = vars
  <2>1. received' = received /\ self' = self /\ wire' = wire
    BY <1>7 DEF vars
  <2> QED
    BY <2>1, Zenon DEF MessagesInv
<1> QED
  BY <1>1, <1>2, <1>3, <1>4, <1>5, <1>6, <1>7, Zenon DEF Next

(* What the invariant says of a message that was received.                 *)
LEMMA MessagesReadAsSent ==
  ASSUME MessagesInv
  PROVE  WholeMessagesArrive /\ DamagedIsNotMisread
<1> DEFINE sent == received.sent
           lost == received.lost
           seen == received.seen
<1>1. received # None => Good(sent, lost, seen)
  BY Zenon DEF MessagesInv
<1>2. ASSUME NEW F, \A f \in F : SameAs(sent, seen, f)
      PROVE  SameFields(F)
  BY <1>2, Zenon DEF SameFields, SameAs
<1>3. ASSUME received # None, lost = "nothing"
      PROVE  seen.id = sent.id /\ seen.protocol = sent.protocol /\ SameFields(DOMAIN sent.value)
  <2>1. Whole(sent, seen)
    BY <1>1, <1>3, Zenon DEF Good
  <2> QED
    BY <1>2, <2>1, Zenon DEF Whole
<1>4. ASSUME received # None, lost # "nothing", seen # Refused
      PROVE  /\ seen.id = sent.id /\ SameFields(DOMAIN sent.value \ {"msg"})
             /\ lost = "frames" => "msg" \in DOMAIN sent.value
  <2>1. Damaged(sent, lost, seen)
    BY <1>1, <1>4, Zenon DEF Good
  <2> QED
    BY <1>2, <1>4, <2>1, Zenon DEF Damaged
<1>5. WholeMessagesArrive
  BY <1>3, Zenon DEF WholeMessagesArrive
<1>6. DamagedIsNotMisread
  BY <1>4, Zenon DEF DamagedIsNotMisread
<1> QED
  BY <1>5, <1>6

-----------------------------------------------------------------------------
(* The fields of one message, with the room counted for them: a field is   *)
(* added to the fields before it.                                          *)
Field(f, kind) == [name |-> f, kind |-> kind]
Layout(put, octets, strings, names) ==
  /\ \E S : put \in Seq(S)
  /\ Len(put) \in Nat /\ DOMAIN put = 1 .. Len(put)
  /\ \A i \in DOMAIN put : put[i].kind \in Kinds
  /\ \A i, j \in DOMAIN put : put[i].name = put[j].name => i = j
  /\ \A i \in DOMAIN put : put[i].name # "msg"
  /\ octets \in Nat
  /\ SumOf([i \in 1 .. Len(put) |-> Width(put[i].kind)]) <= octets
  /\ \A i \in DOMAIN put : IsNumber(put[i].kind) \/ put[i].name \in strings
  /\ names = {put[i].name : i \in DOMAIN put}

LEMMA SumMore ==
  ASSUME NEW n \in Nat, NEW s \in [1 .. n + 1 -> Nat], NEW r \in [1 .. n -> Nat],
         \A i \in 1 .. n : r[i] = s[i]
  PROVE  SumOf(s) = SumOf(r) + s[n + 1] /\ SumOf(r) \in Nat
<1>1. PICK t \in [0 .. n + 1 -> Nat] : Totals(t, s, n + 1) /\ SumOf(s) = t[n + 1]
  <2>1. n + 1 \in Nat
    OBVIOUS
  <2> QED
    BY <2>1, SumIsTotal
<1>2. PICK u \in [0 .. n -> Nat] : Totals(u, r, n) /\ SumOf(r) = u[n]
  BY SumIsTotal
<1> DEFINE T == {j \in 0 .. n : u[j] = t[j]}
<1>3. 0 .. n \subseteq T
  <2>1. 0 \in T
    BY <1>1, <1>2 DEF Totals
  <2>2. ASSUME NEW j \in 0 .. n, j + 1 \in 0 .. n, j \in T
        PROVE  j + 1 \in T
    <3>1. j + 1 \in 1 .. n /\ j \in 0 .. n + 1 /\ j + 1 \in 0 .. n + 1 /\ n + 1 \in Nat
      BY <2>2
    <3>2. u[j + 1] = u[j] + r[j + 1]
      BY <1>2, <2>2, TotalsStep
    <3>3. t[j + 1] = t[j] + s[j + 1]
      BY <1>1, <3>1, TotalsStep, ZenonT(60)
    <3>4. r[j + 1] = s[j + 1]
      BY <3>1, Zenon
    <3> QED
      BY <2>2, <3>2, <3>3, <3>4
  <2> HIDE DEF T
  <2> QED
    BY <2>1, <2>2, Upward
<1>4. t[n + 1] = t[n] + s[n + 1]
  <2>1. n \in 0 .. n + 1 /\ n + 1 \in 0 .. n + 1 /\ n + 1 \in Nat
    OBVIOUS
  <2> QED
    BY <1>1, <2>1, TotalsStep
<1>5. n \in 0 .. n /\ u[n] = t[n] /\ u[n] \in Nat
  BY <1>3
<1> QED
  BY <1>1, <1>2, <1>4, <1>5

LEMMA LayoutMore ==
  ASSUME NEW put, NEW o, NEW strings, NEW names, Layout(put, o, strings, names),
         NEW f, NEW k \in Kinds, NEW octets \in Nat,
         f \notin names, f # "msg", o + Width(k) <= octets, IsNumber(k) \/ f \in strings
  PROVE  Layout(Append(put, Field(f, k)), octets, strings, names \cup {f})
<1> DEFINE new == Append(put, Field(f, k))
           n == Len(put)
           r == [i \in 1 .. n |-> Width(put[i].kind)]
           s == [i \in 1 .. n + 1 |-> Width(new[i].kind)]
<1>1. /\ n \in Nat /\ DOMAIN put = 1 .. n /\ o \in Nat /\ SumOf(r) <= o
      /\ names = {put[i].name : i \in 1 .. n}
      /\ \A i \in 1 .. n : put[i].kind \in Kinds /\ put[i].name # "msg"
      /\ \A i, j \in 1 .. n : put[i].name = put[j].name => i = j
      /\ \A i \in 1 .. n : IsNumber(put[i].kind) \/ put[i].name \in strings
  BY Zenon DEF Layout
<1>2. PICK S : put \in Seq(S)
  BY Zenon DEF Layout
<1>3. Field(f, k).name = f /\ Field(f, k).kind = k
  BY DEF Field
<1>4. /\ new \in Seq(S \cup {Field(f, k)}) /\ Len(new) = n + 1 /\ DOMAIN new = 1 .. n + 1
      /\ \A i \in 1 .. n : new[i] = put[i]
      /\ new[n + 1] = Field(f, k)
  BY <1>1, <1>2
<1> HIDE DEF new, n
<1>5. new[n + 1].name = f /\ new[n + 1].kind = k
  BY <1>3, <1>4
<1>6. \A i \in 1 .. n + 1 : i \in 1 .. n \/ i = n + 1
  BY <1>1
<1>7. SumOf(s) <= octets
  <2>1. r \in [1 .. n -> Nat] /\ s \in [1 .. n + 1 -> Nat]
    BY WidthFacts
  <2>2. s[n + 1] = Width(k) /\ \A i \in 1 .. n : r[i] = s[i]
    BY <1>1, <1>4, <1>5
  <2> HIDE DEF r, s
  <2>3. SumOf(s) = SumOf(r) + s[n + 1] /\ SumOf(r) \in Nat
    BY <1>1, <2>1, <2>2, SumMore
  <2>4. Width(k) \in Nat
    BY WidthFacts
  <2> QED
    BY <1>1, <2>2, <2>3, <2>4
<1>8. \A i \in 1 .. n + 1 :
        /\ new[i].kind \in Kinds /\ new[i].name # "msg"
        /\ IsNumber(new[i].kind) \/ new[i].name \in strings
  BY <1>1, <1>4, <1>5, <1>6
<1>9. \A i, j \in 1 .. n + 1 : new[i].name = new[j].name => i = j
  <2>1. \A i \in 1 .. n : new[i].name \in names /\ new[i].name # f
    BY <1>1, <1>4
  <2> QED
    BY <1>1, <1>4, <1>5, <1>6, <2>1
<1>10. names \cup {f} = {new[i].name : i \in 1 .. n + 1}
  <2>1. {new[i].name : i \in 1 .. n + 1} = {new[i].name : i \in 1 .. n} \cup {new[n + 1].name}
    BY <1>1, <1>6
  <2>2. {new[i].name : i \in 1 .. n} = {put[i].name : i \in 1 .. n}
    BY <1>4
  <2> QED
    BY <1>1, <1>5, <2>1, <2>2
<1> HIDE DEF s, r
<1>11. n + 1 \in Nat
  BY <1>1
<1>12. SumOf([i \in 1 .. Len(new) |-> Width(new[i].kind)]) <= octets
  BY <1>4, <1>7, Zenon DEF s
<1>13. Layout(new, octets, strings, names \cup {f})
  BY <1>4, <1>8, <1>9, <1>10, <1>11, <1>12, Zenon DEF Layout
<1> QED
  BY <1>13, Zenon DEF new

LEMMA Longer ==
  ASSUME NEW S, NEW s \in Seq(S), NEW t \in Seq(S), NEW x \in S, Len(t) = Len(s) + 1,
         \A i \in 1 .. Len(s) : t[i] = s[i], t[Len(s) + 1] = x
  PROVE  Append(s, x) = t
<1> DEFINE r == Append(s, x)
<1>1. r \in Seq(S) /\ Len(r) = Len(s) + 1 /\ r[Len(s) + 1] = x /\ \A i \in 1 .. Len(s) : r[i] = s[i]
  OBVIOUS
<1> HIDE DEF r
<1>2. \A i \in 1 .. Len(s) + 1 : i \in 1 .. Len(s) \/ i = Len(s) + 1
  OBVIOUS
<1>3. \A i \in 1 .. Len(t) : r[i] = t[i]
  BY <1>1, <1>2
<1>4. r = t
  BY <1>1, <1>3
<1> QED
  BY <1>4 DEF r

LEMMA Longer2 ==
  ASSUME NEW a, NEW b
  PROVE  Append(<<a>>, b) = <<a, b>>
<1> DEFINE S == {a, b}
           s == <<a>>
           t == <<a, b>>
<1>1. a \in S /\ b \in S
  OBVIOUS
<1> HIDE DEF S
<1>2. /\ s \in Seq(S) /\ t \in Seq(S) /\ Len(s) = 1 /\ Len(t) = 2 /\ t[2] = b
      /\ s[1] = a
      /\ t[1] = a
  BY <1>1
<1> HIDE DEF s, t
<1>3. \A i \in 1 .. 1 : t[i] = s[i]
  <2>1. \A i \in 1 .. 1 : i = 1
    OBVIOUS
  <2> QED
    BY <1>2, <2>1, Zenon
<1>4. Append(s, b) = t
  <2>1. Len(t) = Len(s) + 1 /\ t[Len(s) + 1] = b /\ \A i \in 1 .. Len(s) : t[i] = s[i]
    BY <1>2, <1>3
  <2> QED
    BY <1>1, <1>2, <2>1, Longer, ZenonT(60)
<1> QED
  BY <1>4, Zenon DEF s, t

LEMMA Longer3 ==
  ASSUME NEW a, NEW b, NEW c
  PROVE  Append(<<a, b>>, c) = <<a, b, c>>
<1> DEFINE S == {a, b, c}
           s == <<a, b>>
           t == <<a, b, c>>
<1>1. a \in S /\ b \in S /\ c \in S
  OBVIOUS
<1> HIDE DEF S
<1>2. /\ s \in Seq(S) /\ t \in Seq(S) /\ Len(s) = 2 /\ Len(t) = 3 /\ t[3] = c
      /\ s[1] = a /\ s[2] = b
      /\ t[1] = a /\ t[2] = b
  BY <1>1
<1> HIDE DEF s, t
<1>3. \A i \in 1 .. 2 : t[i] = s[i]
  <2>1. \A i \in 1 .. 2 : i = 1 \/ i = 2
    OBVIOUS
  <2> QED
    BY <1>2, <2>1, Zenon
<1>4. Append(s, c) = t
  <2>1. Len(t) = Len(s) + 1 /\ t[Len(s) + 1] = c /\ \A i \in 1 .. Len(s) : t[i] = s[i]
    BY <1>2, <1>3
  <2> QED
    BY <1>1, <1>2, <2>1, Longer, ZenonT(60)
<1> QED
  BY <1>4, Zenon DEF s, t

LEMMA Longer4 ==
  ASSUME NEW a, NEW b, NEW c, NEW d
  PROVE  Append(<<a, b, c>>, d) = <<a, b, c, d>>
<1> DEFINE S == {a, b, c, d}
           s == <<a, b, c>>
           t == <<a, b, c, d>>
<1>1. a \in S /\ b \in S /\ c \in S /\ d \in S
  OBVIOUS
<1> HIDE DEF S
<1>2. /\ s \in Seq(S) /\ t \in Seq(S) /\ Len(s) = 3 /\ Len(t) = 4 /\ t[4] = d
      /\ s[1] = a /\ s[2] = b /\ s[3] = c
      /\ t[1] = a /\ t[2] = b /\ t[3] = c
  BY <1>1
<1> HIDE DEF s, t
<1>3. \A i \in 1 .. 3 : t[i] = s[i]
  <2>1. \A i \in 1 .. 3 : i = 1 \/ i = 2 \/ i = 3
    OBVIOUS
  <2> QED
    BY <1>2, <2>1, Zenon
<1>4. Append(s, d) = t
  <2>1. Len(t) = Len(s) + 1 /\ t[Len(s) + 1] = d /\ \A i \in 1 .. Len(s) : t[i] = s[i]
    BY <1>2, <1>3
  <2> QED
    BY <1>1, <1>2, <2>1, Longer, ZenonT(60)
<1> QED
  BY <1>4, Zenon DEF s, t

LEMMA Longer5 ==
  ASSUME NEW a, NEW b, NEW c, NEW d, NEW e
  PROVE  Append(<<a, b, c, d>>, e) = <<a, b, c, d, e>>
<1> DEFINE S == {a, b, c, d, e}
           s == <<a, b, c, d>>
           t == <<a, b, c, d, e>>
<1>1. a \in S /\ b \in S /\ c \in S /\ d \in S /\ e \in S
  OBVIOUS
<1> HIDE DEF S
<1>2. /\ s \in Seq(S) /\ t \in Seq(S) /\ Len(s) = 4 /\ Len(t) = 5 /\ t[5] = e
      /\ s[1] = a /\ s[2] = b /\ s[3] = c /\ s[4] = d
      /\ t[1] = a /\ t[2] = b /\ t[3] = c /\ t[4] = d
  BY <1>1
<1> HIDE DEF s, t
<1>3. \A i \in 1 .. 4 : t[i] = s[i]
  <2>1. \A i \in 1 .. 4 : i = 1 \/ i = 2 \/ i = 3 \/ i = 4
    OBVIOUS
  <2> QED
    BY <1>2, <2>1, Zenon
<1>4. Append(s, e) = t
  <2>1. Len(t) = Len(s) + 1 /\ t[Len(s) + 1] = e /\ \A i \in 1 .. Len(s) : t[i] = s[i]
    BY <1>2, <1>3
  <2> QED
    BY <1>1, <1>2, <2>1, Longer, ZenonT(60)
<1> QED
  BY <1>4, Zenon DEF s, t

LEMMA Longer6 ==
  ASSUME NEW a, NEW b, NEW c, NEW d, NEW e, NEW f
  PROVE  Append(<<a, b, c, d, e>>, f) = <<a, b, c, d, e, f>>
<1> DEFINE S == {a, b, c, d, e, f}
           s == <<a, b, c, d, e>>
           t == <<a, b, c, d, e, f>>
<1>1. a \in S /\ b \in S /\ c \in S /\ d \in S /\ e \in S /\ f \in S
  OBVIOUS
<1> HIDE DEF S
<1>2. /\ s \in Seq(S) /\ t \in Seq(S) /\ Len(s) = 5 /\ Len(t) = 6 /\ t[6] = f
      /\ s[1] = a /\ s[2] = b /\ s[3] = c /\ s[4] = d /\ s[5] = e
      /\ t[1] = a /\ t[2] = b /\ t[3] = c /\ t[4] = d /\ t[5] = e
  BY <1>1
<1> HIDE DEF s, t
<1>3. \A i \in 1 .. 5 : t[i] = s[i]
  <2>1. \A i \in 1 .. 5 : i = 1 \/ i = 2 \/ i = 3 \/ i = 4 \/ i = 5
    OBVIOUS
  <2> QED
    BY <1>2, <2>1, Zenon
<1>4. Append(s, f) = t
  <2>1. Len(t) = Len(s) + 1 /\ t[Len(s) + 1] = f /\ \A i \in 1 .. Len(s) : t[i] = s[i]
    BY <1>2, <1>3
  <2> QED
    BY <1>1, <1>2, <2>1, Longer, ZenonT(60)
<1> QED
  BY <1>4, Zenon DEF s, t

LEMMA Longer7 ==
  ASSUME NEW a, NEW b, NEW c, NEW d, NEW e, NEW f, NEW g
  PROVE  Append(<<a, b, c, d, e, f>>, g) = <<a, b, c, d, e, f, g>>
<1> DEFINE S == {a, b, c, d, e, f, g}
           s == <<a, b, c, d, e, f>>
           t == <<a, b, c, d, e, f, g>>
<1>1. a \in S /\ b \in S /\ c \in S /\ d \in S /\ e \in S /\ f \in S /\ g \in S
  OBVIOUS
<1> HIDE DEF S
<1>2. /\ s \in Seq(S) /\ t \in Seq(S) /\ Len(s) = 6 /\ Len(t) = 7 /\ t[7] = g
      /\ s[1] = a /\ s[2] = b /\ s[3] = c /\ s[4] = d /\ s[5] = e /\ s[6] = f
      /\ t[1] = a /\ t[2] = b /\ t[3] = c /\ t[4] = d /\ t[5] = e /\ t[6] = f
  BY <1>1
<1> HIDE DEF s, t
<1>3. \A i \in 1 .. 6 : t[i] = s[i]
  <2>1. \A i \in 1 .. 6 : i = 1 \/ i = 2 \/ i = 3 \/ i = 4 \/ i = 5 \/ i = 6
    OBVIOUS
  <2> QED
    BY <1>2, <2>1, Zenon
<1>4. Append(s, g) = t
  <2>1. Len(t) = Len(s) + 1 /\ t[Len(s) + 1] = g /\ \A i \in 1 .. Len(s) : t[i] = s[i]
    BY <1>2, <1>3
  <2> QED
    BY <1>1, <1>2, <2>1, Longer, ZenonT(60)
<1> QED
  BY <1>4, Zenon DEF s, t

(* No field, and up to seven.                                              *)
LEMMA Layout0 ==
  ASSUME NEW octets \in Nat, NEW strings
  PROVE  Layout(<<>>, octets, strings, {})
<1> DEFINE s == [i \in 1 .. 0 |-> Width(<<>>[i].kind)]
<1>1. Len(<<>>) = 0 /\ DOMAIN <<>> = 1 .. 0 /\ <<>> \in Seq({}) /\ 1 .. 0 = {}
  OBVIOUS
<1>2. SumOf(s) = 0
  <2>1. s \in [1 .. 0 -> Nat]
    OBVIOUS
  <2> HIDE DEF s
  <2>2. PICK t \in [0 .. 0 -> Nat] : Totals(t, s, 0) /\ SumOf(s) = t[0]
    BY <2>1, SumIsTotal
  <2> QED
    BY <2>2 DEF Totals
<1>3. SumOf([i \in 1 .. Len(<<>>) |-> Width(<<>>[i].kind)]) = SumOf(s)
  BY <1>1, Zenon
<1> HIDE DEF s
<1>4. SumOf([i \in 1 .. Len(<<>>) |-> Width(<<>>[i].kind)]) <= octets
  BY <1>2, <1>3
<1>5. {} = {<<>>[i].name : i \in DOMAIN <<>>}
  BY <1>1
<1> QED
  BY <1>1, <1>4, <1>5 DEF Layout

LEMMA Layout1 ==
  ASSUME NEW octets \in Nat, NEW strings, NEW a,
         NEW k1 \in Kinds,
         a # "msg",
         Width(k1) <= octets,
         IsNumber(k1) \/ a \in strings
  PROVE  Layout(<<Field(a, k1)>>,
           octets, strings, {a})
<1>1. Layout(<<>>, 0, strings, {})
  BY Layout0
<1>2. Append(<<>>, Field(a, k1)) = <<Field(a, k1)>>
  OBVIOUS
<1>3. {} \cup {a} = {a}
  OBVIOUS
<1>4. 0 + Width(k1) <= octets
  BY WidthFacts
<1>5. Layout(Append(<<>>, Field(a, k1)), octets, strings, {} \cup {a})
  BY <1>1, <1>4, LayoutMore, Zenon
<1> QED
  BY <1>2, <1>3, <1>5, Zenon

LEMMA Layout2 ==
  ASSUME NEW octets \in Nat, NEW strings, NEW a, NEW b,
         NEW k1 \in Kinds, NEW k2 \in Kinds,
         a # "msg",
         b # "msg", b \notin {a},
         Width(k1) + Width(k2) <= octets,
         IsNumber(k1) \/ a \in strings,
         IsNumber(k2) \/ b \in strings
  PROVE  Layout(<<Field(a, k1), Field(b, k2)>>,
           octets, strings, {a, b})
<1>1. Layout(<<Field(a, k1)>>, Width(k1), strings, {a})
  <2> DEFINE o == Width(k1)
  <2>1. o \in Nat /\ o <= o
    BY WidthFacts
  <2>2. Layout(<<Field(a, k1)>>, o, strings, {a})
    BY <2>1, Layout1
  <2> QED
    BY <2>2
<1>2. Append(<<Field(a, k1)>>, Field(b, k2)) = <<Field(a, k1), Field(b, k2)>>
  BY Longer2, Zenon
<1>3. {a} \cup {b} = {a, b}
  OBVIOUS
<1>4. Width(k1) + Width(k2) <= octets
  BY WidthFacts
<1>5. Layout(Append(<<Field(a, k1)>>, Field(b, k2)), octets, strings, {a} \cup {b})
  BY <1>1, <1>4, LayoutMore, Zenon
<1> QED
  BY <1>2, <1>3, <1>5, Zenon

LEMMA Layout3 ==
  ASSUME NEW octets \in Nat, NEW strings, NEW a, NEW b, NEW c,
         NEW k1 \in Kinds, NEW k2 \in Kinds, NEW k3 \in Kinds,
         a # "msg",
         b # "msg", b \notin {a},
         c # "msg", c \notin {a, b},
         Width(k1) + Width(k2) + Width(k3) <= octets,
         IsNumber(k1) \/ a \in strings,
         IsNumber(k2) \/ b \in strings,
         IsNumber(k3) \/ c \in strings
  PROVE  Layout(<<Field(a, k1), Field(b, k2), Field(c, k3)>>,
           octets, strings, {a, b, c})
<1>1. Layout(<<Field(a, k1), Field(b, k2)>>, Width(k1) + Width(k2), strings, {a, b})
  <2> DEFINE o == Width(k1) + Width(k2)
  <2>1. o \in Nat /\ o <= o
    BY WidthFacts
  <2>2. Layout(<<Field(a, k1), Field(b, k2)>>, o, strings, {a, b})
    BY <2>1, Layout2
  <2> QED
    BY <2>2
<1>2. Append(<<Field(a, k1), Field(b, k2)>>, Field(c, k3)) = <<Field(a, k1), Field(b, k2), Field(c, k3)>>
  BY Longer3, Zenon
<1>3. {a, b} \cup {c} = {a, b, c}
  OBVIOUS
<1>4. Width(k1) + Width(k2) + Width(k3) <= octets
  BY WidthFacts
<1>5. Layout(Append(<<Field(a, k1), Field(b, k2)>>, Field(c, k3)), octets, strings, {a, b} \cup {c})
  BY <1>1, <1>4, LayoutMore, Zenon
<1> QED
  BY <1>2, <1>3, <1>5, Zenon

LEMMA Layout4 ==
  ASSUME NEW octets \in Nat, NEW strings, NEW a, NEW b, NEW c, NEW d,
         NEW k1 \in Kinds, NEW k2 \in Kinds, NEW k3 \in Kinds, NEW k4 \in Kinds,
         a # "msg",
         b # "msg", b \notin {a},
         c # "msg", c \notin {a, b},
         d # "msg", d \notin {a, b, c},
         Width(k1) + Width(k2) + Width(k3) + Width(k4) <= octets,
         IsNumber(k1) \/ a \in strings,
         IsNumber(k2) \/ b \in strings,
         IsNumber(k3) \/ c \in strings,
         IsNumber(k4) \/ d \in strings
  PROVE  Layout(<<Field(a, k1), Field(b, k2), Field(c, k3), Field(d, k4)>>,
           octets, strings, {a, b, c, d})
<1>1. Layout(<<Field(a, k1), Field(b, k2), Field(c, k3)>>, Width(k1) + Width(k2) + Width(k3), strings, {a, b, c})
  <2> DEFINE o == Width(k1) + Width(k2) + Width(k3)
  <2>1. o \in Nat /\ o <= o
    BY WidthFacts
  <2>2. Layout(<<Field(a, k1), Field(b, k2), Field(c, k3)>>, o, strings, {a, b, c})
    BY <2>1, Layout3
  <2> QED
    BY <2>2
<1>2. Append(<<Field(a, k1), Field(b, k2), Field(c, k3)>>, Field(d, k4)) = <<Field(a, k1), Field(b, k2), Field(c, k3), Field(d, k4)>>
  BY Longer4, Zenon
<1>3. {a, b, c} \cup {d} = {a, b, c, d}
  OBVIOUS
<1>4. Width(k1) + Width(k2) + Width(k3) + Width(k4) <= octets
  BY WidthFacts
<1>5. Layout(Append(<<Field(a, k1), Field(b, k2), Field(c, k3)>>, Field(d, k4)), octets, strings, {a, b, c} \cup {d})
  BY <1>1, <1>4, LayoutMore, Zenon
<1> QED
  BY <1>2, <1>3, <1>5, Zenon

LEMMA Layout5 ==
  ASSUME NEW octets \in Nat, NEW strings, NEW a, NEW b, NEW c, NEW d, NEW e,
         NEW k1 \in Kinds, NEW k2 \in Kinds, NEW k3 \in Kinds, NEW k4 \in Kinds, NEW k5 \in Kinds,
         a # "msg",
         b # "msg", b \notin {a},
         c # "msg", c \notin {a, b},
         d # "msg", d \notin {a, b, c},
         e # "msg", e \notin {a, b, c, d},
         Width(k1) + Width(k2) + Width(k3) + Width(k4) + Width(k5) <= octets,
         IsNumber(k1) \/ a \in strings,
         IsNumber(k2) \/ b \in strings,
         IsNumber(k3) \/ c \in strings,
         IsNumber(k4) \/ d \in strings,
         IsNumber(k5) \/ e \in strings
  PROVE  Layout(<<Field(a, k1), Field(b, k2), Field(c, k3), Field(d, k4), Field(e, k5)>>,
           octets, strings, {a, b, c, d, e})
<1>1. Layout(<<Field(a, k1), Field(b, k2), Field(c, k3), Field(d, k4)>>, Width(k1) + Width(k2) + Width(k3) + Width(k4), strings, {a, b, c, d})
  <2> DEFINE o == Width(k1) + Width(k2) + Width(k3) + Width(k4)
  <2>1. o \in Nat /\ o <= o
    BY WidthFacts
  <2>2. Layout(<<Field(a, k1), Field(b, k2), Field(c, k3), Field(d, k4)>>, o, strings, {a, b, c, d})
    BY <2>1, Layout4
  <2> QED
    BY <2>2
<1>2. Append(<<Field(a, k1), Field(b, k2), Field(c, k3), Field(d, k4)>>, Field(e, k5)) = <<Field(a, k1), Field(b, k2), Field(c, k3), Field(d, k4), Field(e, k5)>>
  BY Longer5, Zenon
<1>3. {a, b, c, d} \cup {e} = {a, b, c, d, e}
  OBVIOUS
<1>4. Width(k1) + Width(k2) + Width(k3) + Width(k4) + Width(k5) <= octets
  BY WidthFacts
<1>5. Layout(Append(<<Field(a, k1), Field(b, k2), Field(c, k3), Field(d, k4)>>, Field(e, k5)), octets, strings, {a, b, c, d} \cup {e})
  BY <1>1, <1>4, LayoutMore, Zenon
<1> QED
  BY <1>2, <1>3, <1>5, Zenon

LEMMA Layout6 ==
  ASSUME NEW octets \in Nat, NEW strings, NEW a, NEW b, NEW c, NEW d, NEW e, NEW f,
         NEW k1 \in Kinds, NEW k2 \in Kinds, NEW k3 \in Kinds, NEW k4 \in Kinds, NEW k5 \in Kinds, NEW k6 \in Kinds,
         a # "msg",
         b # "msg", b \notin {a},
         c # "msg", c \notin {a, b},
         d # "msg", d \notin {a, b, c},
         e # "msg", e \notin {a, b, c, d},
         f # "msg", f \notin {a, b, c, d, e},
         Width(k1) + Width(k2) + Width(k3) + Width(k4) + Width(k5) + Width(k6) <= octets,
         IsNumber(k1) \/ a \in strings,
         IsNumber(k2) \/ b \in strings,
         IsNumber(k3) \/ c \in strings,
         IsNumber(k4) \/ d \in strings,
         IsNumber(k5) \/ e \in strings,
         IsNumber(k6) \/ f \in strings
  PROVE  Layout(<<Field(a, k1), Field(b, k2), Field(c, k3), Field(d, k4), Field(e, k5), Field(f, k6)>>,
           octets, strings, {a, b, c, d, e, f})
<1>1. Layout(<<Field(a, k1), Field(b, k2), Field(c, k3), Field(d, k4), Field(e, k5)>>, Width(k1) + Width(k2) + Width(k3) + Width(k4) + Width(k5), strings, {a, b, c, d, e})
  <2> DEFINE o == Width(k1) + Width(k2) + Width(k3) + Width(k4) + Width(k5)
  <2>1. o \in Nat /\ o <= o
    BY WidthFacts
  <2>2. Layout(<<Field(a, k1), Field(b, k2), Field(c, k3), Field(d, k4), Field(e, k5)>>, o, strings, {a, b, c, d, e})
    BY <2>1, Layout5
  <2> QED
    BY <2>2
<1>2. Append(<<Field(a, k1), Field(b, k2), Field(c, k3), Field(d, k4), Field(e, k5)>>, Field(f, k6)) = <<Field(a, k1), Field(b, k2), Field(c, k3), Field(d, k4), Field(e, k5), Field(f, k6)>>
  BY Longer6, Zenon
<1>3. {a, b, c, d, e} \cup {f} = {a, b, c, d, e, f}
  OBVIOUS
<1>4. Width(k1) + Width(k2) + Width(k3) + Width(k4) + Width(k5) + Width(k6) <= octets
  BY WidthFacts
<1>5. Layout(Append(<<Field(a, k1), Field(b, k2), Field(c, k3), Field(d, k4), Field(e, k5)>>, Field(f, k6)), octets, strings, {a, b, c, d, e} \cup {f})
  BY <1>1, <1>4, LayoutMore, Zenon
<1> QED
  BY <1>2, <1>3, <1>5, Zenon

LEMMA Layout7 ==
  ASSUME NEW octets \in Nat, NEW strings, NEW a, NEW b, NEW c, NEW d, NEW e, NEW f, NEW g,
         NEW k1 \in Kinds, NEW k2 \in Kinds, NEW k3 \in Kinds, NEW k4 \in Kinds, NEW k5 \in Kinds, NEW k6 \in Kinds, NEW k7 \in Kinds,
         a # "msg",
         b # "msg", b \notin {a},
         c # "msg", c \notin {a, b},
         d # "msg", d \notin {a, b, c},
         e # "msg", e \notin {a, b, c, d},
         f # "msg", f \notin {a, b, c, d, e},
         g # "msg", g \notin {a, b, c, d, e, f},
         Width(k1) + Width(k2) + Width(k3) + Width(k4) + Width(k5) + Width(k6) + Width(k7) <= octets,
         IsNumber(k1) \/ a \in strings,
         IsNumber(k2) \/ b \in strings,
         IsNumber(k3) \/ c \in strings,
         IsNumber(k4) \/ d \in strings,
         IsNumber(k5) \/ e \in strings,
         IsNumber(k6) \/ f \in strings,
         IsNumber(k7) \/ g \in strings
  PROVE  Layout(<<Field(a, k1), Field(b, k2), Field(c, k3), Field(d, k4), Field(e, k5), Field(f, k6), Field(g, k7)>>,
           octets, strings, {a, b, c, d, e, f, g})
<1>1. Layout(<<Field(a, k1), Field(b, k2), Field(c, k3), Field(d, k4), Field(e, k5), Field(f, k6)>>, Width(k1) + Width(k2) + Width(k3) + Width(k4) + Width(k5) + Width(k6), strings, {a, b, c, d, e, f})
  <2> DEFINE o == Width(k1) + Width(k2) + Width(k3) + Width(k4) + Width(k5) + Width(k6)
  <2>1. o \in Nat /\ o <= o
    BY WidthFacts
  <2>2. Layout(<<Field(a, k1), Field(b, k2), Field(c, k3), Field(d, k4), Field(e, k5), Field(f, k6)>>, o, strings, {a, b, c, d, e, f})
    BY <2>1, Layout6
  <2> QED
    BY <2>2
<1>2. Append(<<Field(a, k1), Field(b, k2), Field(c, k3), Field(d, k4), Field(e, k5), Field(f, k6)>>, Field(g, k7)) = <<Field(a, k1), Field(b, k2), Field(c, k3), Field(d, k4), Field(e, k5), Field(f, k6), Field(g, k7)>>
  BY Longer7, ZenonT(60)
<1>3. {a, b, c, d, e, f} \cup {g} = {a, b, c, d, e, f, g}
  OBVIOUS
<1>4. Width(k1) + Width(k2) + Width(k3) + Width(k4) + Width(k5) + Width(k6) + Width(k7) <= octets
  BY WidthFacts
<1>5. Layout(Append(<<Field(a, k1), Field(b, k2), Field(c, k3), Field(d, k4), Field(e, k5), Field(f, k6)>>, Field(g, k7)), octets, strings, {a, b, c, d, e, f} \cup {g})
  BY <1>1, <1>4, LayoutMore, Zenon
<1> QED
  BY <1>2, <1>3, <1>5, Zenon


-----------------------------------------------------------------------------
(* What the tables of a protocol hold for one message.                     *)
Row(m, id, put, octets, strings, all) ==
  /\ id \in DOMAIN m.put /\ id \in DOMAIN m.read
  /\ m.put[id] = put /\ m.read[id] = put
  /\ m.sized[id].octets = octets /\ m.sized[id].fields = strings
  /\ m.copied[id] = all /\ m.sends[id] = all

LEMMA RowAgrees ==
  ASSUME NEW p, NEW id, NEW put, NEW octets, NEW strings, NEW names, NEW all,
         Layout(put, octets, strings, names),
         Row(Protocols[p], id, put, octets, strings, all),
         Len(Following(p, id)) \in Nat, DOMAIN Following(p, id) = 1 .. Len(Following(p, id)),
         \A i, j \in DOMAIN Following(p, id) : Following(p, id)[i] = Following(p, id)[j] => i = j,
         \A j \in DOMAIN Following(p, id) :
            Following(p, id)[j] # "msg" /\ Following(p, id)[j] \notin names,
         all = names \cup {Following(p, id)[j] : j \in DOMAIN Following(p, id)}
                 \cup (IF Carries(p, id) THEN {"msg"} ELSE {})
  PROVE  Agree(p, id)
<1> DEFINE q == Protocols[p]
           ps == q.put[id]
           fs == Following(p, id)
           room == q.sized[id]
<1>1. /\ ps = put /\ id \in DOMAIN q.read /\ q.read[id] = ps
      /\ room.octets = octets /\ room.fields = strings
      /\ q.copied[id] = all /\ q.sends[id] = all
  BY Zenon DEF Row
<1>2. Layout(ps, room.octets, room.fields, names)
  BY <1>1, Zenon
<1>3. /\ Len(ps) \in Nat /\ DOMAIN ps = 1 .. Len(ps)
      /\ \A i \in DOMAIN ps : ps[i].kind \in Kinds
      /\ \A i, j \in DOMAIN ps : ps[i].name = ps[j].name => i = j
      /\ room.octets \in Nat
      /\ SumOf([i \in 1 .. Len(ps) |-> Width(ps[i].kind)]) <= room.octets
      /\ \A i \in DOMAIN ps : IsNumber(ps[i].kind) \/ ps[i].name \in room.fields
  BY <1>2, Zenon DEF Layout
<1>4. /\ names = {ps[i].name : i \in DOMAIN ps} /\ \A i \in DOMAIN ps : ps[i].name # "msg"
  BY <1>2, Zenon DEF Layout
<1>5. /\ Len(fs) \in Nat /\ DOMAIN fs = 1 .. Len(fs)
      /\ \A i, j \in DOMAIN fs : fs[i] = fs[j] => i = j
      /\ \A j \in DOMAIN fs : fs[j] # "msg" /\ fs[j] \notin names
  BY <1>1, Zenon
<1>6. \A i \in DOMAIN ps : \A j \in DOMAIN fs : ps[i].name # fs[j]
  <2>1. \A i \in DOMAIN ps : ps[i].name \in names
    BY <1>4, Zenon
  <2> QED
    BY <1>5, <2>1, Zenon
<1>7. FieldsOf(p, id) = all
  <2>1. Range(fs) = {fs[j] : j \in DOMAIN fs}
    BY Zenon DEF Range
  <2>2. FieldsOf(p, id) = {ps[i].name : i \in DOMAIN ps} \cup Range(fs)
                            \cup (IF Carries(p, id) THEN {"msg"} ELSE {})
    BY Zenon DEF FieldsOf
  <2> QED
    BY <1>4, <2>1, <2>2, Zenon
<1>8. q.copied[id] = FieldsOf(p, id) /\ q.sends[id] = FieldsOf(p, id)
  BY <1>1, <1>7, Zenon
<1>9. \A i \in DOMAIN ps : ps[i].name # "msg" /\ \A j \in DOMAIN fs : ps[i].name # fs[j]
  BY <1>4, <1>6, Zenon
<1>10. /\ Len(ps) \in Nat /\ DOMAIN ps = 1 .. Len(ps)
       /\ Len(fs) \in Nat /\ DOMAIN fs = 1 .. Len(fs)
       /\ \A i \in DOMAIN ps : ps[i].kind \in Kinds
       /\ \A i, j \in DOMAIN ps : ps[i].name = ps[j].name => i = j
       /\ \A i, j \in DOMAIN fs : fs[i] = fs[j] => i = j
       /\ \A i \in DOMAIN ps : ps[i].name # "msg" /\ \A j \in DOMAIN fs : ps[i].name # fs[j]
       /\ \A j \in DOMAIN fs : fs[j] # "msg"
  <2> HIDE DEF ps, fs
  <2> QED
    BY <1>3, <1>5, <1>9
<1>11. /\ id \in DOMAIN q.read /\ q.read[id] = ps
       /\ room.octets \in Nat
       /\ SumOf([i \in 1 .. Len(ps) |-> Width(ps[i].kind)]) <= room.octets
       /\ \A i \in DOMAIN ps : IsNumber(ps[i].kind) \/ ps[i].name \in room.fields
       /\ q.copied[id] = FieldsOf(p, id) /\ q.sends[id] = FieldsOf(p, id)
  BY <1>1, <1>3, <1>8, Zenon
<1> QED
  BY <1>10, <1>11, Zenon DEF Agree

(* A message with no frames but those of "msg".                            *)
LEMMA PlainRow ==
  ASSUME NEW p, NEW id, id \notin DOMAIN Protocols[p].frames,
         NEW put, NEW octets, NEW strings, NEW names, NEW all,
         Layout(put, octets, strings, names), Row(Protocols[p], id, put, octets, strings, all),
         all = IF Carries(p, id) THEN names \cup {"msg"} ELSE names
  PROVE  Agree(p, id)
<1> DEFINE fields == Following(p, id)
<1>1. fields = <<>>
  BY Zenon DEF Following
<1>2. DOMAIN fields = {} /\ Len(fields) = 0
  <2> HIDE DEF fields
  <2> QED
    BY <1>1
<1>3. all = names \cup {fields[j] : j \in DOMAIN fields}
              \cup (IF Carries(p, id) THEN {"msg"} ELSE {})
  <2> HIDE DEF fields
  <2> QED
    BY <1>2
<1>4. /\ Len(fields) \in Nat /\ DOMAIN fields = 1 .. Len(fields)
      /\ \A i, j \in DOMAIN fields : fields[i] = fields[j] => i = j
      /\ \A j \in DOMAIN fields : fields[j] # "msg" /\ fields[j] \notin names
  <2> HIDE DEF fields
  <2> QED
    BY <1>2
<1> QED
  BY <1>3, <1>4, RowAgrees, Zenon

LEMMA KindIs ==
  /\ Width("number1") = 1 /\ Width("number2") = 2 /\ Width("number4") = 4 /\ Width("number8") = 8
  /\ Width("string") = 1 /\ Width("longstr") = 4 /\ Width("list") = 4 /\ Width("hash") = 4
  /\ Width("chunk") = 4
  /\ "number1" \in Kinds /\ "number2" \in Kinds /\ "number4" \in Kinds /\ "number8" \in Kinds
  /\ "string" \in Kinds /\ "longstr" \in Kinds /\ "list" \in Kinds /\ "hash" \in Kinds
  /\ "chunk" \in Kinds
  /\ IsNumber("number1") /\ IsNumber("number2") /\ IsNumber("number4") /\ IsNumber("number8")
BY DEF Width, Kinds, IsNumber

(* The room of the lengths and the numbers of each layout.                 *)
LEMMA Rooms ==
  /\ 0 \in Nat /\ 1 \in Nat /\ 2 \in Nat /\ 4 \in Nat /\ 5 \in Nat /\ 6 \in Nat /\ 7 \in Nat /\ 8 \in Nat /\ 9 \in Nat /\ 11 \in Nat /\ 13 \in Nat /\ 15 \in Nat /\ 16 \in Nat
  /\ Width("number4") <= 4
  /\ Width("number1") <= 1
  /\ Width("hash") <= 4
  /\ Width("list") <= 4
  /\ Width("number2") <= 2
  /\ Width("string") <= 1
  /\ Width("number4") + Width("number1") <= 5
  /\ Width("string") + Width("string") <= 2
  /\ Width("number2") + Width("number2") <= 4
  /\ Width("number4") + Width("hash") <= 8
  /\ Width("number4") + Width("string") <= 5
  /\ Width("number4") + Width("number1") + Width("number1") <= 6
  /\ Width("number4") + Width("string") + Width("string") <= 6
  /\ Width("number2") + Width("string") + Width("number1") <= 4
  /\ Width("number2") + Width("string") + Width("string") <= 4
  /\ Width("number4") + Width("string") + Width("list") <= 9
  /\ Width("number4") + Width("number1") + Width("string") + Width("string") <= 7
  /\ Width("number2") + Width("number2") + Width("number1") + Width("string") <= 6
  /\ Width("number1") + Width("number4") + Width("longstr") + Width("hash") <= 13
  /\ Width("number4") + Width("number4") + Width("chunk") + Width("number4") <= 16
  /\ Width("string") + Width("number4") + Width("number1") + Width("number1") + Width("hash") <= 11
  /\ Width("string") + Width("string") + Width("string") + Width("number2") + Width("number2") + Width("number8") <= 15
  /\ Width("string") + Width("list") + Width("list") + Width("string") + Width("string") + Width("string") + Width("string") <= 13
BY KindIs

LEMMA AssetIs ==
  /\ asset_msg.put = AssetPut /\ asset_msg.read = AssetRead /\ asset_msg.sized = AssetSized
  /\ asset_msg.copied = AssetCopied /\ asset_msg.sends = AssetSends
BY DEF asset_msg

LEMMA CommonIs ==
  /\ common_msg.put = CommonPut /\ common_msg.read = CommonRead /\ common_msg.sized = CommonSized
  /\ common_msg.copied = CommonCopied /\ common_msg.sends = CommonSends
BY DEF common_msg

LEMMA AssetPutDomain ==
  DOMAIN AssetPut = {"ELEMENT", "DEVICE", "GET_ELEMENT", "RETURN_ELEMENT", "UPDATE_ELEMENT",
     "INSERT_ELEMENT", "DELETE_ELEMENT", "OK", "FAIL", "GET_ELEMENTS", "RETURN_ELEMENTS",
     "GET_LOCATION_FROM", "GET_LOCATION_TO", "RETURN_LOCATION_TO", "RETURN_LOCATION_FROM",
     "GET_POWER_FROM", "POWERCHAIN_DEVICE", "RETURN_POWER", "GET_POWER_TO", "GET_POWER_GROUP",
     "GET_POWER_DATACENTER"}
<1>1. DOMAIN AssetPut1 = {"ELEMENT", "DEVICE", "GET_ELEMENT", "RETURN_ELEMENT",
       "UPDATE_ELEMENT", "INSERT_ELEMENT", "DELETE_ELEMENT", "OK", "FAIL", "GET_ELEMENTS",
       "RETURN_ELEMENTS", "GET_LOCATION_FROM", "GET_LOCATION_TO", "RETURN_LOCATION_TO"}
  BY DEF AssetPut1
<1>2. DOMAIN AssetPut2 = {"RETURN_LOCATION_FROM", "GET_POWER_FROM", "POWERCHAIN_DEVICE",
       "RETURN_POWER", "GET_POWER_TO", "GET_POWER_GROUP", "GET_POWER_DATACENTER"}
  BY DEF AssetPut2
<1>3. DOMAIN AssetPut = DOMAIN AssetPut1 \cup DOMAIN AssetPut2
  BY Zenon DEF AssetPut, Both
<1> QED
  BY <1>1, <1>2, <1>3

LEMMA AssetReadDomain ==
  DOMAIN AssetRead = {"ELEMENT", "DEVICE", "GET_ELEMENT", "RETURN_ELEMENT", "UPDATE_ELEMENT",
     "INSERT_ELEMENT", "DELETE_ELEMENT", "OK", "FAIL", "GET_ELEMENTS", "RETURN_ELEMENTS",
     "GET_LOCATION_FROM", "GET_LOCATION_TO", "RETURN_LOCATION_TO", "RETURN_LOCATION_FROM",
     "GET_POWER_FROM", "POWERCHAIN_DEVICE", "RETURN_POWER", "GET_POWER_TO", "GET_POWER_GROUP",
     "GET_POWER_DATACENTER"}
<1>1. DOMAIN AssetRead1 = {"ELEMENT", "DEVICE", "GET_ELEMENT", "RETURN_ELEMENT",
       "UPDATE_ELEMENT", "INSERT_ELEMENT", "DELETE_ELEMENT", "OK", "FAIL", "GET_ELEMENTS",
       "RETURN_ELEMENTS", "GET_LOCATION_FROM", "GET_LOCATION_TO", "RETURN_LOCATION_TO"}
  BY DEF AssetRead1
<1>2. DOMAIN AssetRead2 = {"RETURN_LOCATION_FROM", "GET_POWER_FROM", "POWERCHAIN_DEVICE",
       "RETURN_POWER", "GET_POWER_TO", "GET_POWER_GROUP", "GET_POWER_DATACENTER"}
  BY DEF AssetRead2
<1>3. DOMAIN AssetRead = DOMAIN AssetRead1 \cup DOMAIN AssetRead2
  BY Zenon DEF AssetRead, Both
<1> QED
  BY <1>1, <1>2, <1>3

LEMMA AssetPutIs ==
  /\ AssetPut["ELEMENT"] = <<Str("name"), N4("location"), N1("location_type"), N1("type"),
       Hash("ext")>>
  /\ AssetPut["DEVICE"] = <<Str("device_type"), List("groups"), List("powers"), Str("ip"),
       Str("hostname"), Str("fqdn"), Str("mac")>>
  /\ AssetPut["GET_ELEMENT"] = <<N4("element_id"), N1("type")>>
  /\ AssetPut["RETURN_ELEMENT"] = <<N4("element_id")>>
  /\ AssetPut["UPDATE_ELEMENT"] = <<N4("element_id")>>
  /\ AssetPut["INSERT_ELEMENT"] = <<>>
  /\ AssetPut["DELETE_ELEMENT"] = <<N4("element_id"), N1("type")>>
  /\ AssetPut["OK"] = <<N4("element_id")>>
  /\ AssetPut["FAIL"] = <<N1("error_id")>>
  /\ AssetPut["GET_ELEMENTS"] = <<N1("type")>>
  /\ AssetPut["RETURN_ELEMENTS"] = <<Hash("element_ids")>>
  /\ AssetPut["GET_LOCATION_FROM"] = <<N4("element_id"), N1("recursive"), N1("filter_type")>>
  /\ AssetPut["GET_LOCATION_TO"] = <<N4("element_id")>>
  /\ AssetPut["RETURN_LOCATION_TO"] = <<N4("element_id"), N1("type"), Str("name"),
       Str("type_name")>>
  /\ AssetPut["RETURN_LOCATION_FROM"] = <<N4("element_id"), N1("type"), Str("name"),
       Str("type_name")>>
  /\ AssetPut["GET_POWER_FROM"] = <<N4("element_id")>>
  /\ AssetPut["POWERCHAIN_DEVICE"] = <<N4("element_id"), Str("type_name"), Str("name")>>
  /\ AssetPut["RETURN_POWER"] = <<List("powers")>>
  /\ AssetPut["GET_POWER_TO"] = <<N4("element_id")>>
  /\ AssetPut["GET_POWER_GROUP"] = <<N4("element_id")>>
  /\ AssetPut["GET_POWER_DATACENTER"] = <<N4("element_id")>>
BY ZenonT(60) DEF Both, AssetPut, AssetPut1, AssetPut2

LEMMA AssetReadIs ==
  /\ AssetRead["ELEMENT"] = <<Str("name"), N4("location"), N1("location_type"), N1("type"),
       Hash("ext")>>
  /\ AssetRead["DEVICE"] = <<Str("device_type"), List("groups"), List("powers"), Str("ip"),
       Str("hostname"), Str("fqdn"), Str("mac")>>
  /\ AssetRead["GET_ELEMENT"] = <<N4("element_id"), N1("type")>>
  /\ AssetRead["RETURN_ELEMENT"] = <<N4("element_id")>>
  /\ AssetRead["UPDATE_ELEMENT"] = <<N4("element_id")>>
  /\ AssetRead["INSERT_ELEMENT"] = <<>>
  /\ AssetRead["DELETE_ELEMENT"] = <<N4("element_id"), N1("type")>>
  /\ AssetRead["OK"] = <<N4("element_id")>>
  /\ AssetRead["FAIL"] = <<N1("error_id")>>
  /\ AssetRead["GET_ELEMENTS"] = <<N1("type")>>
  /\ AssetRead["RETURN_ELEMENTS"] = <<Hash("element_ids")>>
  /\ AssetRead["GET_LOCATION_FROM"] = <<N4("element_id"), N1("recursive"), N1("filter_type")>>
  /\ AssetRead["GET_LOCATION_TO"] = <<N4("element_id")>>
  /\ AssetRead["RETURN_LOCATION_TO"] = <<N4("element_id"), N1("type"), Str("name"),
       Str("type_name")>>
  /\ AssetRead["RETURN_LOCATION_FROM"] = <<N4("element_id"), N1("type"), Str("name"),
       Str("type_name")>>
  /\ AssetRead["GET_POWER_FROM"] = <<N4("element_id")>>
  /\ AssetRead["POWERCHAIN_DEVICE"] = <<N4("element_id"), Str("type_name"), Str("name")>>
  /\ AssetRead["RETURN_POWER"] = <<List("powers")>>
  /\ AssetRead["GET_POWER_TO"] = <<N4("element_id")>>
  /\ AssetRead["GET_POWER_GROUP"] = <<N4("element_id")>>
  /\ AssetRead["GET_POWER_DATACENTER"] = <<N4("element_id")>>
BY ZenonT(60) DEF Both, AssetRead, AssetRead1, AssetRead2

LEMMA AssetSizedIs ==
  /\ AssetSized["ELEMENT"] = Room(11, {"name", "ext"})
  /\ AssetSized["DEVICE"] = Room(13, {"device_type", "groups", "powers", "ip", "hostname",
       "fqdn", "mac"})
  /\ AssetSized["GET_ELEMENT"] = Room(5, {})
  /\ AssetSized["RETURN_ELEMENT"] = Room(4, {})
  /\ AssetSized["UPDATE_ELEMENT"] = Room(4, {})
  /\ AssetSized["INSERT_ELEMENT"] = Room(0, {})
  /\ AssetSized["DELETE_ELEMENT"] = Room(5, {})
  /\ AssetSized["OK"] = Room(4, {})
  /\ AssetSized["FAIL"] = Room(1, {})
  /\ AssetSized["GET_ELEMENTS"] = Room(1, {})
  /\ AssetSized["RETURN_ELEMENTS"] = Room(4, {"element_ids"})
  /\ AssetSized["GET_LOCATION_FROM"] = Room(6, {})
  /\ AssetSized["GET_LOCATION_TO"] = Room(4, {})
  /\ AssetSized["RETURN_LOCATION_TO"] = Room(7, {"name", "type_name"})
  /\ AssetSized["RETURN_LOCATION_FROM"] = Room(7, {"name", "type_name"})
  /\ AssetSized["GET_POWER_FROM"] = Room(4, {})
  /\ AssetSized["POWERCHAIN_DEVICE"] = Room(6, {"type_name", "name"})
  /\ AssetSized["RETURN_POWER"] = Room(4, {"powers"})
  /\ AssetSized["GET_POWER_TO"] = Room(4, {})
  /\ AssetSized["GET_POWER_GROUP"] = Room(4, {})
  /\ AssetSized["GET_POWER_DATACENTER"] = Room(4, {})
BY ZenonT(60) DEF Both, AssetSized, AssetSized1, AssetSized2

LEMMA AssetCopiedIs ==
  /\ AssetCopied["ELEMENT"] = {"name", "location", "location_type", "type", "ext"}
  /\ AssetCopied["DEVICE"] = {"device_type", "groups", "powers", "ip", "hostname", "fqdn",
       "mac", "msg"}
  /\ AssetCopied["GET_ELEMENT"] = {"element_id", "type"}
  /\ AssetCopied["RETURN_ELEMENT"] = {"element_id", "msg"}
  /\ AssetCopied["UPDATE_ELEMENT"] = {"element_id", "msg"}
  /\ AssetCopied["INSERT_ELEMENT"] = {"msg"}
  /\ AssetCopied["DELETE_ELEMENT"] = {"element_id", "type"}
  /\ AssetCopied["OK"] = {"element_id"}
  /\ AssetCopied["FAIL"] = {"error_id"}
  /\ AssetCopied["GET_ELEMENTS"] = {"type"}
  /\ AssetCopied["RETURN_ELEMENTS"] = {"element_ids"}
  /\ AssetCopied["GET_LOCATION_FROM"] = {"element_id", "recursive", "filter_type"}
  /\ AssetCopied["GET_LOCATION_TO"] = {"element_id"}
  /\ AssetCopied["RETURN_LOCATION_TO"] = {"element_id", "type", "name", "type_name", "msg"}
  /\ AssetCopied["RETURN_LOCATION_FROM"] = {"element_id", "type", "name", "type_name", "dcs",
       "rooms", "rows", "racks", "devices", "grps"}
  /\ AssetCopied["GET_POWER_FROM"] = {"element_id"}
  /\ AssetCopied["POWERCHAIN_DEVICE"] = {"element_id", "type_name", "name"}
  /\ AssetCopied["RETURN_POWER"] = {"devices", "powers"}
  /\ AssetCopied["GET_POWER_TO"] = {"element_id"}
  /\ AssetCopied["GET_POWER_GROUP"] = {"element_id"}
  /\ AssetCopied["GET_POWER_DATACENTER"] = {"element_id"}
BY ZenonT(60) DEF Both, AssetCopied

LEMMA AssetSendsIs ==
  /\ AssetSends["ELEMENT"] = {"name", "location", "location_type", "type", "ext"}
  /\ AssetSends["DEVICE"] = {"device_type", "groups", "powers", "ip", "hostname", "fqdn", "mac",
       "msg"}
  /\ AssetSends["GET_ELEMENT"] = {"element_id", "type"}
  /\ AssetSends["RETURN_ELEMENT"] = {"element_id", "msg"}
  /\ AssetSends["UPDATE_ELEMENT"] = {"element_id", "msg"}
  /\ AssetSends["INSERT_ELEMENT"] = {"msg"}
  /\ AssetSends["DELETE_ELEMENT"] = {"element_id", "type"}
  /\ AssetSends["OK"] = {"element_id"}
  /\ AssetSends["FAIL"] = {"error_id"}
  /\ AssetSends["GET_ELEMENTS"] = {"type"}
  /\ AssetSends["RETURN_ELEMENTS"] = {"element_ids"}
  /\ AssetSends["GET_LOCATION_FROM"] = {"element_id", "recursive", "filter_type"}
  /\ AssetSends["GET_LOCATION_TO"] = {"element_id"}
  /\ AssetSends["RETURN_LOCATION_TO"] = {"element_id", "type", "name", "type_name", "msg"}
  /\ AssetSends["RETURN_LOCATION_FROM"] = {"element_id", "type", "name", "type_name", "dcs",
       "rooms", "rows", "racks", "devices", "grps"}
  /\ AssetSends["GET_POWER_FROM"] = {"element_id"}
  /\ AssetSends["POWERCHAIN_DEVICE"] = {"element_id", "type_name", "name"}
  /\ AssetSends["RETURN_POWER"] = {"devices", "powers"}
  /\ AssetSends["GET_POWER_TO"] = {"element_id"}
  /\ AssetSends["GET_POWER_GROUP"] = {"element_id"}
  /\ AssetSends["GET_POWER_DATACENTER"] = {"element_id"}
BY ZenonT(60) DEF Both, AssetSends, AssetSends1, AssetSends2, AssetSends3

LEMMA CommonPutDomain ==
  DOMAIN CommonPut = {"GET_MEASURE_TYPE_I", "GET_MEASURE_TYPE_S", "GET_MEASURE_SUBTYPE_I",
     "GET_MEASURE_SUBTYPE_S", "RETURN_MEASURE_TYPE", "RETURN_MEASURE_SUBTYPE", "FAIL", "DB_OK",
     "CLIENT", "INSERT_CLIENT", "UPDATE_CLIENT", "DELETE_CLIENT", "RETURN_CLIENT",
     "NEW_MEASUREMENT", "CLIENT_INFO", "INSERT_CINFO", "DELETE_CINFO", "RETURN_CINFO", "DEVICE",
     "INSERT_DEVICE", "DELETE_DEVICE", "RETURN_DEVICE", "DEVICE_TYPE", "INSERT_DEVTYPE",
     "DELETE_DEVTYPE", "RETURN_DEVTYPE", "GET_CLIENT", "GET_CINFO", "GET_DEVICE", "GET_DEVTYPE",
     "GET_LAST_MEASUREMENTS", "RETURN_LAST_MEASUREMENTS"}
<1>1. DOMAIN CommonPut1 = {"GET_MEASURE_TYPE_I", "GET_MEASURE_TYPE_S", "GET_MEASURE_SUBTYPE_I",
       "GET_MEASURE_SUBTYPE_S", "RETURN_MEASURE_TYPE", "RETURN_MEASURE_SUBTYPE", "FAIL",
       "DB_OK", "CLIENT", "INSERT_CLIENT", "UPDATE_CLIENT", "DELETE_CLIENT", "RETURN_CLIENT",
       "NEW_MEASUREMENT"}
  BY DEF CommonPut1
<1>2. DOMAIN CommonPut2 = {"CLIENT_INFO", "INSERT_CINFO", "DELETE_CINFO", "RETURN_CINFO",
       "DEVICE", "INSERT_DEVICE", "DELETE_DEVICE", "RETURN_DEVICE", "DEVICE_TYPE",
       "INSERT_DEVTYPE", "DELETE_DEVTYPE", "RETURN_DEVTYPE", "GET_CLIENT", "GET_CINFO",
       "GET_DEVICE", "GET_DEVTYPE", "GET_LAST_MEASUREMENTS", "RETURN_LAST_MEASUREMENTS"}
  BY DEF CommonPut2
<1>3. DOMAIN CommonPut = DOMAIN CommonPut1 \cup DOMAIN CommonPut2
  BY Zenon DEF CommonPut, Both
<1> QED
  BY <1>1, <1>2, <1>3

LEMMA CommonReadDomain ==
  DOMAIN CommonRead = {"GET_MEASURE_TYPE_I", "GET_MEASURE_TYPE_S", "GET_MEASURE_SUBTYPE_I",
     "GET_MEASURE_SUBTYPE_S", "RETURN_MEASURE_TYPE", "RETURN_MEASURE_SUBTYPE", "FAIL", "DB_OK",
     "CLIENT", "INSERT_CLIENT", "UPDATE_CLIENT", "DELETE_CLIENT", "RETURN_CLIENT",
     "NEW_MEASUREMENT", "CLIENT_INFO", "INSERT_CINFO", "DELETE_CINFO", "RETURN_CINFO", "DEVICE",
     "INSERT_DEVICE", "DELETE_DEVICE", "RETURN_DEVICE", "DEVICE_TYPE", "INSERT_DEVTYPE",
     "DELETE_DEVTYPE", "RETURN_DEVTYPE", "GET_CLIENT", "GET_CINFO", "GET_DEVICE", "GET_DEVTYPE",
     "GET_LAST_MEASUREMENTS", "RETURN_LAST_MEASUREMENTS"}
<1>1. DOMAIN CommonRead1 = {"GET_MEASURE_TYPE_I", "GET_MEASURE_TYPE_S", "GET_MEASURE_SUBTYPE_I",
       "GET_MEASURE_SUBTYPE_S", "RETURN_MEASURE_TYPE", "RETURN_MEASURE_SUBTYPE", "FAIL",
       "DB_OK", "CLIENT", "INSERT_CLIENT", "UPDATE_CLIENT", "DELETE_CLIENT", "RETURN_CLIENT",
       "NEW_MEASUREMENT", "CLIENT_INFO", "INSERT_CINFO", "DELETE_CINFO"}
  BY DEF CommonRead1
<1>2. DOMAIN CommonRead2 = {"RETURN_CINFO", "DEVICE", "INSERT_DEVICE", "DELETE_DEVICE",
       "RETURN_DEVICE", "DEVICE_TYPE", "INSERT_DEVTYPE", "DELETE_DEVTYPE", "RETURN_DEVTYPE",
       "GET_CLIENT", "GET_CINFO", "GET_DEVICE", "GET_DEVTYPE", "GET_LAST_MEASUREMENTS",
       "RETURN_LAST_MEASUREMENTS"}
  BY DEF CommonRead2
<1>3. DOMAIN CommonRead = DOMAIN CommonRead1 \cup DOMAIN CommonRead2
  BY Zenon DEF CommonRead, Both
<1> QED
  BY <1>1, <1>2, <1>3

LEMMA CommonPutIs ==
  /\ CommonPut["GET_MEASURE_TYPE_I"] = <<N2("mt_id")>>
  /\ CommonPut["GET_MEASURE_TYPE_S"] = <<Str("mt_name"), Str("mt_unit")>>
  /\ CommonPut["GET_MEASURE_SUBTYPE_I"] = <<N2("mt_id"), N2("mts_id")>>
  /\ CommonPut["GET_MEASURE_SUBTYPE_S"] = <<N2("mt_id"), Str("mts_name"), N1("mts_scale")>>
  /\ CommonPut["RETURN_MEASURE_TYPE"] = <<N2("mt_id"), Str("mt_name"), Str("mt_unit")>>
  /\ CommonPut["RETURN_MEASURE_SUBTYPE"] = <<N2("mts_id"), N2("mt_id"), N1("mts_scale"),
       Str("mts_name")>>
  /\ CommonPut["FAIL"] = <<N1("errtype"), N4("errorno"), LongStr("errmsg"), Hash("aux")>>
  /\ CommonPut["DB_OK"] = <<N4("rowid"), Hash("aux")>>
  /\ CommonPut["CLIENT"] = <<Str("name")>>
  /\ CommonPut["INSERT_CLIENT"] = <<>>
  /\ CommonPut["UPDATE_CLIENT"] = <<N4("client_id")>>
  /\ CommonPut["DELETE_CLIENT"] = <<N4("client_id")>>
  /\ CommonPut["RETURN_CLIENT"] = <<N4("rowid")>>
  /\ CommonPut["NEW_MEASUREMENT"] = <<Str("client_name"), Str("device_name"),
       Str("device_type"), N2("mt_id"), N2("mts_id"), N8("value")>>
  /\ CommonPut["CLIENT_INFO"] = <<N4("client_id"), N4("device_id"), Chunk("info"), N4("date")>>
  /\ CommonPut["INSERT_CINFO"] = <<>>
  /\ CommonPut["DELETE_CINFO"] = <<N4("cinfo_id")>>
  /\ CommonPut["RETURN_CINFO"] = <<N4("rowid")>>
  /\ CommonPut["DEVICE"] = <<N4("devicetype_id"), Str("name")>>
  /\ CommonPut["INSERT_DEVICE"] = <<>>
  /\ CommonPut["DELETE_DEVICE"] = <<N4("device_id")>>
  /\ CommonPut["RETURN_DEVICE"] = <<N4("rowid")>>
  /\ CommonPut["DEVICE_TYPE"] = <<Str("name")>>
  /\ CommonPut["INSERT_DEVTYPE"] = <<>>
  /\ CommonPut["DELETE_DEVTYPE"] = <<N4("devicetype_id")>>
  /\ CommonPut["RETURN_DEVTYPE"] = <<N4("rowid")>>
  /\ CommonPut["GET_CLIENT"] = <<N4("client_id")>>
  /\ CommonPut["GET_CINFO"] = <<N4("cinfo_id")>>
  /\ CommonPut["GET_DEVICE"] = <<N4("device_id")>>
  /\ CommonPut["GET_DEVTYPE"] = <<N4("devicetype_id")>>
  /\ CommonPut["GET_LAST_MEASUREMENTS"] = <<N4("device_id")>>
  /\ CommonPut["RETURN_LAST_MEASUREMENTS"] = <<N4("device_id"), Str("device_name"),
       List("measurements")>>
BY ZenonT(60) DEF Both, CommonPut, CommonPut1, CommonPut2

LEMMA CommonReadIs ==
  /\ CommonRead["GET_MEASURE_TYPE_I"] = <<N2("mt_id")>>
  /\ CommonRead["GET_MEASURE_TYPE_S"] = <<Str("mt_name"), Str("mt_unit")>>
  /\ CommonRead["GET_MEASURE_SUBTYPE_I"] = <<N2("mt_id"), N2("mts_id")>>
  /\ CommonRead["GET_MEASURE_SUBTYPE_S"] = <<N2("mt_id"), Str("mts_name"), N1("mts_scale")>>
  /\ CommonRead["RETURN_MEASURE_TYPE"] = <<N2("mt_id"), Str("mt_name"), Str("mt_unit")>>
  /\ CommonRead["RETURN_MEASURE_SUBTYPE"] = <<N2("mts_id"), N2("mt_id"), N1("mts_scale"),
       Str("mts_name")>>
  /\ CommonRead["FAIL"] = <<N1("errtype"), N4("errorno"), LongStr("errmsg"), Hash("aux")>>
  /\ CommonRead["DB_OK"] = <<N4("rowid"), Hash("aux")>>
  /\ CommonRead["CLIENT"] = <<Str("name")>>
  /\ CommonRead["INSERT_CLIENT"] = <<>>
  /\ CommonRead["UPDATE_CLIENT"] = <<N4("client_id")>>
  /\ CommonRead["DELETE_CLIENT"] = <<N4("client_id")>>
  /\ CommonRead["RETURN_CLIENT"] = <<N4("rowid")>>
  /\ CommonRead["NEW_MEASUREMENT"] = <<Str("client_name"), Str("device_name"),
       Str("device_type"), N2("mt_id"), N2("mts_id"), N8("value")>>
  /\ CommonRead["CLIENT_INFO"] = <<N4("client_id"), N4("device_id"), Chunk("info"), N4("date")>>
  /\ CommonRead["INSERT_CINFO"] = <<>>
  /\ CommonRead["DELETE_CINFO"] = <<N4("cinfo_id")>>
  /\ CommonRead["RETURN_CINFO"] = <<N4("rowid")>>
  /\ CommonRead["DEVICE"] = <<N4("devicetype_id"), Str("name")>>
  /\ CommonRead["INSERT_DEVICE"] = <<>>
  /\ CommonRead["DELETE_DEVICE"] = <<N4("device_id")>>
  /\ CommonRead["RETURN_DEVICE"] = <<N4("rowid")>>
  /\ CommonRead["DEVICE_TYPE"] = <<Str("name")>>
  /\ CommonRead["INSERT_DEVTYPE"] = <<>>
  /\ CommonRead["DELETE_DEVTYPE"] = <<N4("devicetype_id")>>
  /\ CommonRead["RETURN_DEVTYPE"] = <<N4("rowid")>>
  /\ CommonRead["GET_CLIENT"] = <<N4("client_id")>>
  /\ CommonRead["GET_CINFO"] = <<N4("cinfo_id")>>
  /\ CommonRead["GET_DEVICE"] = <<N4("device_id")>>
  /\ CommonRead["GET_DEVTYPE"] = <<N4("devicetype_id")>>
  /\ CommonRead["GET_LAST_MEASUREMENTS"] = <<N4("device_id")>>
  /\ CommonRead["RETURN_LAST_MEASUREMENTS"] = <<N4("device_id"), Str("device_name"),
       List("measurements")>>
BY ZenonT(60) DEF Both, CommonRead, CommonRead1, CommonRead2

LEMMA CommonSizedIs ==
  /\ CommonSized["GET_MEASURE_TYPE_I"] = Room(2, {})
  /\ CommonSized["GET_MEASURE_TYPE_S"] = Room(2, {"mt_name", "mt_unit"})
  /\ CommonSized["GET_MEASURE_SUBTYPE_I"] = Room(4, {})
  /\ CommonSized["GET_MEASURE_SUBTYPE_S"] = Room(4, {"mts_name"})
  /\ CommonSized["RETURN_MEASURE_TYPE"] = Room(4, {"mt_name", "mt_unit"})
  /\ CommonSized["RETURN_MEASURE_SUBTYPE"] = Room(6, {"mts_name"})
  /\ CommonSized["FAIL"] = Room(13, {"errmsg", "aux"})
  /\ CommonSized["DB_OK"] = Room(8, {"aux"})
  /\ CommonSized["CLIENT"] = Room(1, {"name"})
  /\ CommonSized["INSERT_CLIENT"] = Room(0, {})
  /\ CommonSized["UPDATE_CLIENT"] = Room(4, {})
  /\ CommonSized["DELETE_CLIENT"] = Room(4, {})
  /\ CommonSized["RETURN_CLIENT"] = Room(4, {})
  /\ CommonSized["NEW_MEASUREMENT"] = Room(15, {"client_name", "device_name", "device_type"})
  /\ CommonSized["CLIENT_INFO"] = Room(16, {"info"})
  /\ CommonSized["INSERT_CINFO"] = Room(0, {})
  /\ CommonSized["DELETE_CINFO"] = Room(4, {})
  /\ CommonSized["RETURN_CINFO"] = Room(4, {})
  /\ CommonSized["DEVICE"] = Room(5, {"name"})
  /\ CommonSized["INSERT_DEVICE"] = Room(0, {})
  /\ CommonSized["DELETE_DEVICE"] = Room(4, {})
  /\ CommonSized["RETURN_DEVICE"] = Room(4, {})
  /\ CommonSized["DEVICE_TYPE"] = Room(1, {"name"})
  /\ CommonSized["INSERT_DEVTYPE"] = Room(0, {})
  /\ CommonSized["DELETE_DEVTYPE"] = Room(4, {})
  /\ CommonSized["RETURN_DEVTYPE"] = Room(4, {})
  /\ CommonSized["GET_CLIENT"] = Room(4, {})
  /\ CommonSized["GET_CINFO"] = Room(4, {})
  /\ CommonSized["GET_DEVICE"] = Room(4, {})
  /\ CommonSized["GET_DEVTYPE"] = Room(4, {})
  /\ CommonSized["GET_LAST_MEASUREMENTS"] = Room(4, {})
  /\ CommonSized["RETURN_LAST_MEASUREMENTS"] = Room(9, {"device_name", "measurements"})
BY ZenonT(60) DEF Both, CommonSized, CommonSized1, CommonSized2

LEMMA CommonCopiedIs ==
  /\ CommonCopied["GET_MEASURE_TYPE_I"] = {"mt_id"}
  /\ CommonCopied["GET_MEASURE_TYPE_S"] = {"mt_name", "mt_unit"}
  /\ CommonCopied["GET_MEASURE_SUBTYPE_I"] = {"mt_id", "mts_id"}
  /\ CommonCopied["GET_MEASURE_SUBTYPE_S"] = {"mt_id", "mts_name", "mts_scale"}
  /\ CommonCopied["RETURN_MEASURE_TYPE"] = {"mt_id", "mt_name", "mt_unit"}
  /\ CommonCopied["RETURN_MEASURE_SUBTYPE"] = {"mts_id", "mt_id", "mts_scale", "mts_name"}
  /\ CommonCopied["FAIL"] = {"errtype", "errorno", "errmsg", "aux"}
  /\ CommonCopied["DB_OK"] = {"rowid", "aux"}
  /\ CommonCopied["CLIENT"] = {"name"}
  /\ CommonCopied["INSERT_CLIENT"] = {"msg"}
  /\ CommonCopied["UPDATE_CLIENT"] = {"client_id", "msg"}
  /\ CommonCopied["DELETE_CLIENT"] = {"client_id"}
  /\ CommonCopied["RETURN_CLIENT"] = {"rowid", "msg"}
  /\ CommonCopied["NEW_MEASUREMENT"] = {"client_name", "device_name", "device_type", "mt_id",
       "mts_id", "value"}
  /\ CommonCopied["CLIENT_INFO"] = {"client_id", "device_id", "info", "date"}
  /\ CommonCopied["INSERT_CINFO"] = {"msg"}
  /\ CommonCopied["DELETE_CINFO"] = {"cinfo_id"}
  /\ CommonCopied["RETURN_CINFO"] = {"rowid", "msg"}
  /\ CommonCopied["DEVICE"] = {"devicetype_id", "name"}
  /\ CommonCopied["INSERT_DEVICE"] = {"msg"}
  /\ CommonCopied["DELETE_DEVICE"] = {"device_id"}
  /\ CommonCopied["RETURN_DEVICE"] = {"rowid", "msg"}
  /\ CommonCopied["DEVICE_TYPE"] = {"name"}
  /\ CommonCopied["INSERT_DEVTYPE"] = {"msg"}
  /\ CommonCopied["DELETE_DEVTYPE"] = {"devicetype_id"}
  /\ CommonCopied["RETURN_DEVTYPE"] = {"rowid", "msg"}
  /\ CommonCopied["GET_CLIENT"] = {"client_id"}
  /\ CommonCopied["GET_CINFO"] = {"cinfo_id"}
  /\ CommonCopied["GET_DEVICE"] = {"device_id"}
  /\ CommonCopied["GET_DEVTYPE"] = {"devicetype_id"}
  /\ CommonCopied["GET_LAST_MEASUREMENTS"] = {"device_id"}
  /\ CommonCopied["RETURN_LAST_MEASUREMENTS"] = {"device_id", "device_name", "measurements"}
BY ZenonT(60) DEF Both, CommonCopied, CommonCopied1, CommonCopied2

LEMMA CommonSendsIs ==
  /\ CommonSends["GET_MEASURE_TYPE_I"] = {"mt_id"}
  /\ CommonSends["GET_MEASURE_TYPE_S"] = {"mt_name", "mt_unit"}
  /\ CommonSends["GET_MEASURE_SUBTYPE_I"] = {"mt_id", "mts_id"}
  /\ CommonSends["GET_MEASURE_SUBTYPE_S"] = {"mt_id", "mts_name", "mts_scale"}
  /\ CommonSends["RETURN_MEASURE_TYPE"] = {"mt_id", "mt_name", "mt_unit"}
  /\ CommonSends["RETURN_MEASURE_SUBTYPE"] = {"mts_id", "mt_id", "mts_scale", "mts_name"}
  /\ CommonSends["FAIL"] = {"errtype", "errorno", "errmsg", "aux"}
  /\ CommonSends["DB_OK"] = {"rowid", "aux"}
  /\ CommonSends["CLIENT"] = {"name"}
  /\ CommonSends["INSERT_CLIENT"] = {"msg"}
  /\ CommonSends["UPDATE_CLIENT"] = {"client_id", "msg"}
  /\ CommonSends["DELETE_CLIENT"] = {"client_id"}
  /\ CommonSends["RETURN_CLIENT"] = {"rowid", "msg"}
  /\ CommonSends["NEW_MEASUREMENT"] = {"client_name", "device_name", "device_type", "mt_id",
       "mts_id", "value"}
  /\ CommonSends["CLIENT_INFO"] = {"client_id", "device_id", "info", "date"}
  /\ CommonSends["INSERT_CINFO"] = {"msg"}
  /\ CommonSends["DELETE_CINFO"] = {"cinfo_id"}
  /\ CommonSends["RETURN_CINFO"] = {"rowid", "msg"}
  /\ CommonSends["DEVICE"] = {"devicetype_id", "name"}
  /\ CommonSends["INSERT_DEVICE"] = {"msg"}
  /\ CommonSends["DELETE_DEVICE"] = {"device_id"}
  /\ CommonSends["RETURN_DEVICE"] = {"rowid", "msg"}
  /\ CommonSends["DEVICE_TYPE"] = {"name"}
  /\ CommonSends["INSERT_DEVTYPE"] = {"msg"}
  /\ CommonSends["DELETE_DEVTYPE"] = {"devicetype_id"}
  /\ CommonSends["RETURN_DEVTYPE"] = {"rowid", "msg"}
  /\ CommonSends["GET_CLIENT"] = {"client_id"}
  /\ CommonSends["GET_CINFO"] = {"cinfo_id"}
  /\ CommonSends["GET_DEVICE"] = {"device_id"}
  /\ CommonSends["GET_DEVTYPE"] = {"devicetype_id"}
  /\ CommonSends["GET_LAST_MEASUREMENTS"] = {"device_id"}
  /\ CommonSends["RETURN_LAST_MEASUREMENTS"] = {"device_id", "device_name", "measurements"}
BY ZenonT(60) DEF Both, CommonSends, CommonSends1, CommonSends2, CommonSends3, CommonSends4


-----------------------------------------------------------------------------
(* Message by message.                                                     *)
LEMMA ProtocolsAre ==
  /\ Protocols["asset"] = asset_msg /\ Protocols["common"] = common_msg
  /\ asset_msg.sign = 5 /\ common_msg.sign = 9
  /\ asset_msg.frames = AssetFrames /\ common_msg.frames = <<>>
  /\ asset_msg.carries = AssetCarries /\ common_msg.carries = CommonCarries
BY DEF Protocols, asset_msg, common_msg

LEMMA FramesAre ==
  /\ DOMAIN Protocols["asset"].frames = {"RETURN_LOCATION_FROM", "RETURN_POWER"}
  /\ AssetFrames["RETURN_LOCATION_FROM"] = <<"dcs", "rooms", "rows", "racks", "devices", "grps">>
  /\ AssetFrames["RETURN_POWER"] = <<"devices">>
  /\ DOMAIN Protocols["common"].frames = {}
<1>1. /\ DOMAIN AssetFrames = {"RETURN_LOCATION_FROM", "RETURN_POWER"}
      /\ AssetFrames["RETURN_LOCATION_FROM"] = <<"dcs", "rooms", "rows", "racks", "devices", "grps">>
      /\ AssetFrames["RETURN_POWER"] = <<"devices">>
  BY DEF AssetFrames
<1>2. DOMAIN <<>> = {}
  OBVIOUS
<1> QED
  BY <1>1, <1>2, ProtocolsAre

LEMMA AssetCarriesIs ==
  \A id : Carries("asset", id) <=> id \in AssetCarries
BY ProtocolsAre, Zenon DEF Carries

LEMMA AssetAgrees ==
  ASSUME NEW id \in DOMAIN Protocols["asset"].put
  PROVE  Agree("asset", id)
<1>1. Agree("asset", "ELEMENT")
  <2> DEFINE put == <<Str("name"), N4("location"), N1("location_type"), N1("type"),
       Hash("ext")>>
             names == {"name", "location", "location_type", "type", "ext"}
             all == {"name", "location", "location_type", "type", "ext"}
  <2>1. Row(Protocols["asset"], "ELEMENT", put, 11, {"name", "ext"}, all)
    BY ProtocolsAre, AssetIs, AssetPutDomain, AssetReadDomain, AssetPutIs, AssetReadIs, AssetSizedIs, AssetCopiedIs, AssetSendsIs DEF Row, Room
  <2>2. Layout(put, 11, {"name", "ext"}, names)
    BY KindIs, Rooms, Layout5, Zenon DEF Field, Hash, N1, N4, Str
  <2>3. "ELEMENT" \notin DOMAIN Protocols["asset"].frames /\ ~Carries("asset", "ELEMENT")
    BY FramesAre, AssetCarriesIs DEF AssetCarries
  <2>4. all = names
    OBVIOUS
  <2> HIDE DEF put, names, all
  <2> QED
    BY <2>1, <2>2, <2>3, <2>4, PlainRow
<1>2. Agree("asset", "DEVICE")
  <2> DEFINE put == <<Str("device_type"), List("groups"), List("powers"), Str("ip"),
       Str("hostname"), Str("fqdn"), Str("mac")>>
             names == {"device_type", "groups", "powers", "ip", "hostname", "fqdn", "mac"}
             all == {"device_type", "groups", "powers", "ip", "hostname", "fqdn", "mac", "msg"}
  <2>1. Row(Protocols["asset"], "DEVICE", put, 13, {"device_type", "groups", "powers", "ip",
        "hostname", "fqdn", "mac"}, all)
    BY ProtocolsAre, AssetIs, AssetPutDomain, AssetReadDomain, AssetPutIs, AssetReadIs, AssetSizedIs, AssetCopiedIs, AssetSendsIs DEF Row, Room
  <2>2. Layout(put, 13, {"device_type", "groups", "powers", "ip", "hostname", "fqdn", "mac"},
        names)
    BY KindIs, Rooms, Layout7, Zenon DEF Field, List, Str
  <2>3. "DEVICE" \notin DOMAIN Protocols["asset"].frames /\ Carries("asset", "DEVICE")
    BY FramesAre, AssetCarriesIs DEF AssetCarries
  <2>4. all = names \cup {"msg"}
    OBVIOUS
  <2> HIDE DEF put, names, all
  <2> QED
    BY <2>1, <2>2, <2>3, <2>4, PlainRow
<1>3. Agree("asset", "GET_ELEMENT")
  <2> DEFINE put == <<N4("element_id"), N1("type")>>
             names == {"element_id", "type"}
             all == {"element_id", "type"}
  <2>1. Row(Protocols["asset"], "GET_ELEMENT", put, 5, {}, all)
    BY ProtocolsAre, AssetIs, AssetPutDomain, AssetReadDomain, AssetPutIs, AssetReadIs, AssetSizedIs, AssetCopiedIs, AssetSendsIs DEF Row, Room
  <2>2. Layout(put, 5, {}, names)
    BY KindIs, Rooms, Layout2, Zenon DEF Field, N1, N4
  <2>3. "GET_ELEMENT" \notin DOMAIN Protocols["asset"].frames /\ ~Carries("asset", "GET_ELEMENT")
    BY FramesAre, AssetCarriesIs DEF AssetCarries
  <2>4. all = names
    OBVIOUS
  <2> HIDE DEF put, names, all
  <2> QED
    BY <2>1, <2>2, <2>3, <2>4, PlainRow
<1>4. Agree("asset", "RETURN_ELEMENT")
  <2> DEFINE put == <<N4("element_id")>>
             names == {"element_id"}
             all == {"element_id", "msg"}
  <2>1. Row(Protocols["asset"], "RETURN_ELEMENT", put, 4, {}, all)
    BY ProtocolsAre, AssetIs, AssetPutDomain, AssetReadDomain, AssetPutIs, AssetReadIs, AssetSizedIs, AssetCopiedIs, AssetSendsIs DEF Row, Room
  <2>2. Layout(put, 4, {}, names)
    BY KindIs, Rooms, Layout1, Zenon DEF Field, N4
  <2>3. "RETURN_ELEMENT" \notin DOMAIN Protocols["asset"].frames /\ Carries("asset", "RETURN_ELEMENT")
    BY FramesAre, AssetCarriesIs DEF AssetCarries
  <2>4. all = names \cup {"msg"}
    OBVIOUS
  <2> HIDE DEF put, names, all
  <2> QED
    BY <2>1, <2>2, <2>3, <2>4, PlainRow
<1>5. Agree("asset", "UPDATE_ELEMENT")
  <2> DEFINE put == <<N4("element_id")>>
             names == {"element_id"}
             all == {"element_id", "msg"}
  <2>1. Row(Protocols["asset"], "UPDATE_ELEMENT", put, 4, {}, all)
    BY ProtocolsAre, AssetIs, AssetPutDomain, AssetReadDomain, AssetPutIs, AssetReadIs, AssetSizedIs, AssetCopiedIs, AssetSendsIs DEF Row, Room
  <2>2. Layout(put, 4, {}, names)
    BY KindIs, Rooms, Layout1, Zenon DEF Field, N4
  <2>3. "UPDATE_ELEMENT" \notin DOMAIN Protocols["asset"].frames /\ Carries("asset", "UPDATE_ELEMENT")
    BY FramesAre, AssetCarriesIs DEF AssetCarries
  <2>4. all = names \cup {"msg"}
    OBVIOUS
  <2> HIDE DEF put, names, all
  <2> QED
    BY <2>1, <2>2, <2>3, <2>4, PlainRow
<1>6. Agree("asset", "INSERT_ELEMENT")
  <2> DEFINE put == <<>>
             names == {}
             all == {"msg"}
  <2>1. Row(Protocols["asset"], "INSERT_ELEMENT", put, 0, {}, all)
    BY ProtocolsAre, AssetIs, AssetPutDomain, AssetReadDomain, AssetPutIs, AssetReadIs, AssetSizedIs, AssetCopiedIs, AssetSendsIs DEF Row, Room
  <2>2. Layout(put, 0, {}, names)
    BY KindIs, Rooms, Layout0, Zenon
  <2>3. "INSERT_ELEMENT" \notin DOMAIN Protocols["asset"].frames /\ Carries("asset", "INSERT_ELEMENT")
    BY FramesAre, AssetCarriesIs DEF AssetCarries
  <2>4. all = names \cup {"msg"}
    OBVIOUS
  <2> HIDE DEF put, names, all
  <2> QED
    BY <2>1, <2>2, <2>3, <2>4, PlainRow
<1>7. Agree("asset", "DELETE_ELEMENT")
  <2> DEFINE put == <<N4("element_id"), N1("type")>>
             names == {"element_id", "type"}
             all == {"element_id", "type"}
  <2>1. Row(Protocols["asset"], "DELETE_ELEMENT", put, 5, {}, all)
    BY ProtocolsAre, AssetIs, AssetPutDomain, AssetReadDomain, AssetPutIs, AssetReadIs, AssetSizedIs, AssetCopiedIs, AssetSendsIs DEF Row, Room
  <2>2. Layout(put, 5, {}, names)
    BY KindIs, Rooms, Layout2, Zenon DEF Field, N1, N4
  <2>3. "DELETE_ELEMENT" \notin DOMAIN Protocols["asset"].frames /\ ~Carries("asset", "DELETE_ELEMENT")
    BY FramesAre, AssetCarriesIs DEF AssetCarries
  <2>4. all = names
    OBVIOUS
  <2> HIDE DEF put, names, all
  <2> QED
    BY <2>1, <2>2, <2>3, <2>4, PlainRow
<1>8. Agree("asset", "OK")
  <2> DEFINE put == <<N4("element_id")>>
             names == {"element_id"}
             all == {"element_id"}
  <2>1. Row(Protocols["asset"], "OK", put, 4, {}, all)
    BY ProtocolsAre, AssetIs, AssetPutDomain, AssetReadDomain, AssetPutIs, AssetReadIs, AssetSizedIs, AssetCopiedIs, AssetSendsIs DEF Row, Room
  <2>2. Layout(put, 4, {}, names)
    BY KindIs, Rooms, Layout1, Zenon DEF Field, N4
  <2>3. "OK" \notin DOMAIN Protocols["asset"].frames /\ ~Carries("asset", "OK")
    BY FramesAre, AssetCarriesIs DEF AssetCarries
  <2>4. all = names
    OBVIOUS
  <2> HIDE DEF put, names, all
  <2> QED
    BY <2>1, <2>2, <2>3, <2>4, PlainRow
<1>9. Agree("asset", "FAIL")
  <2> DEFINE put == <<N1("error_id")>>
             names == {"error_id"}
             all == {"error_id"}
  <2>1. Row(Protocols["asset"], "FAIL", put, 1, {}, all)
    BY ProtocolsAre, AssetIs, AssetPutDomain, AssetReadDomain, AssetPutIs, AssetReadIs, AssetSizedIs, AssetCopiedIs, AssetSendsIs DEF Row, Room
  <2>2. Layout(put, 1, {}, names)
    BY KindIs, Rooms, Layout1, Zenon DEF Field, N1
  <2>3. "FAIL" \notin DOMAIN Protocols["asset"].frames /\ ~Carries("asset", "FAIL")
    BY FramesAre, AssetCarriesIs DEF AssetCarries
  <2>4. all = names
    OBVIOUS
  <2> HIDE DEF put, names, all
  <2> QED
    BY <2>1, <2>2, <2>3, <2>4, PlainRow
<1>10. Agree("asset", "GET_ELEMENTS")
  <2> DEFINE put == <<N1("type")>>
             names == {"type"}
             all == {"type"}
  <2>1. Row(Protocols["asset"], "GET_ELEMENTS", put, 1, {}, all)
    BY ProtocolsAre, AssetIs, AssetPutDomain, AssetReadDomain, AssetPutIs, AssetReadIs, AssetSizedIs, AssetCopiedIs, AssetSendsIs DEF Row, Room
  <2>2. Layout(put, 1, {}, names)
    BY KindIs, Rooms, Layout1, Zenon DEF Field, N1
  <2>3. "GET_ELEMENTS" \notin DOMAIN Protocols["asset"].frames /\ ~Carries("asset", "GET_ELEMENTS")
    BY FramesAre, AssetCarriesIs DEF AssetCarries
  <2>4. all = names
    OBVIOUS
  <2> HIDE DEF put, names, all
  <2> QED
    BY <2>1, <2>2, <2>3, <2>4, PlainRow
<1>11. Agree("asset", "RETURN_ELEMENTS")
  <2> DEFINE put == <<Hash("element_ids")>>
             names == {"element_ids"}
             all == {"element_ids"}
  <2>1. Row(Protocols["asset"], "RETURN_ELEMENTS", put, 4, {"element_ids"}, all)
    BY ProtocolsAre, AssetIs, AssetPutDomain, AssetReadDomain, AssetPutIs, AssetReadIs, AssetSizedIs, AssetCopiedIs, AssetSendsIs DEF Row, Room
  <2>2. Layout(put, 4, {"element_ids"}, names)
    BY KindIs, Rooms, Layout1, Zenon DEF Field, Hash
  <2>3. "RETURN_ELEMENTS" \notin DOMAIN Protocols["asset"].frames /\ ~Carries("asset", "RETURN_ELEMENTS")
    BY FramesAre, AssetCarriesIs DEF AssetCarries
  <2>4. all = names
    OBVIOUS
  <2> HIDE DEF put, names, all
  <2> QED
    BY <2>1, <2>2, <2>3, <2>4, PlainRow
<1>12. Agree("asset", "GET_LOCATION_FROM")
  <2> DEFINE put == <<N4("element_id"), N1("recursive"), N1("filter_type")>>
             names == {"element_id", "recursive", "filter_type"}
             all == {"element_id", "recursive", "filter_type"}
  <2>1. Row(Protocols["asset"], "GET_LOCATION_FROM", put, 6, {}, all)
    BY ProtocolsAre, AssetIs, AssetPutDomain, AssetReadDomain, AssetPutIs, AssetReadIs, AssetSizedIs, AssetCopiedIs, AssetSendsIs DEF Row, Room
  <2>2. Layout(put, 6, {}, names)
    BY KindIs, Rooms, Layout3, Zenon DEF Field, N1, N4
  <2>3. "GET_LOCATION_FROM" \notin DOMAIN Protocols["asset"].frames /\ ~Carries("asset", "GET_LOCATION_FROM")
    BY FramesAre, AssetCarriesIs DEF AssetCarries
  <2>4. all = names
    OBVIOUS
  <2> HIDE DEF put, names, all
  <2> QED
    BY <2>1, <2>2, <2>3, <2>4, PlainRow
<1>13. Agree("asset", "GET_LOCATION_TO")
  <2> DEFINE put == <<N4("element_id")>>
             names == {"element_id"}
             all == {"element_id"}
  <2>1. Row(Protocols["asset"], "GET_LOCATION_TO", put, 4, {}, all)
    BY ProtocolsAre, AssetIs, AssetPutDomain, AssetReadDomain, AssetPutIs, AssetReadIs, AssetSizedIs, AssetCopiedIs, AssetSendsIs DEF Row, Room
  <2>2. Layout(put, 4, {}, names)
    BY KindIs, Rooms, Layout1, Zenon DEF Field, N4
  <2>3. "GET_LOCATION_TO" \notin DOMAIN Protocols["asset"].frames /\ ~Carries("asset", "GET_LOCATION_TO")
    BY FramesAre, AssetCarriesIs DEF AssetCarries
  <2>4. all = names
    OBVIOUS
  <2> HIDE DEF put, names, all
  <2> QED
    BY <2>1, <2>2, <2>3, <2>4, PlainRow
<1>14. Agree("asset", "RETURN_LOCATION_TO")
  <2> DEFINE put == <<N4("element_id"), N1("type"), Str("name"), Str("type_name")>>
             names == {"element_id", "type", "name", "type_name"}
             all == {"element_id", "type", "name", "type_name", "msg"}
  <2>1. Row(Protocols["asset"], "RETURN_LOCATION_TO", put, 7, {"name", "type_name"}, all)
    BY ProtocolsAre, AssetIs, AssetPutDomain, AssetReadDomain, AssetPutIs, AssetReadIs, AssetSizedIs, AssetCopiedIs, AssetSendsIs DEF Row, Room
  <2>2. Layout(put, 7, {"name", "type_name"}, names)
    BY KindIs, Rooms, Layout4, Zenon DEF Field, N1, N4, Str
  <2>3. "RETURN_LOCATION_TO" \notin DOMAIN Protocols["asset"].frames /\ Carries("asset", "RETURN_LOCATION_TO")
    BY FramesAre, AssetCarriesIs DEF AssetCarries
  <2>4. all = names \cup {"msg"}
    OBVIOUS
  <2> HIDE DEF put, names, all
  <2> QED
    BY <2>1, <2>2, <2>3, <2>4, PlainRow
<1>15. Agree("asset", "RETURN_LOCATION_FROM")
  <2> DEFINE put == <<N4("element_id"), N1("type"), Str("name"), Str("type_name")>>
             names == {"element_id", "type", "name", "type_name"}
             all == {"element_id", "type", "name", "type_name", "dcs", "rooms", "rows", "racks",
               "devices", "grps"}
  <2>1. Row(Protocols["asset"], "RETURN_LOCATION_FROM", put, 7, {"name", "type_name"}, all)
    BY ProtocolsAre, AssetIs, AssetPutDomain, AssetReadDomain, AssetPutIs, AssetReadIs, AssetSizedIs, AssetCopiedIs, AssetSendsIs DEF Row, Room
  <2>2. Layout(put, 7, {"name", "type_name"}, names)
    BY KindIs, Rooms, Layout4, Zenon DEF Field, N1, N4, Str
  <2>3. Following("asset", "RETURN_LOCATION_FROM") = <<"dcs", "rooms", "rows", "racks", "devices", "grps">> /\ ~Carries("asset", "RETURN_LOCATION_FROM")
    BY FramesAre, ProtocolsAre, AssetCarriesIs DEF AssetCarries, Following
  <2> DEFINE fields == Following("asset", "RETURN_LOCATION_FROM")
  <2> HIDE DEF fields
  <2>4. /\ Len(fields) = 6 /\ DOMAIN fields = 1 .. 6
        /\ fields[1] = "dcs" /\ fields[2] = "rooms" /\ fields[3] = "rows" /\ fields[4] = "racks" /\ fields[5] = "devices" /\ fields[6] = "grps"
    BY <2>3 DEF fields
  <2>5. \A j \in DOMAIN fields : j = 1 \/ j = 2 \/ j = 3 \/ j = 4 \/ j = 5 \/ j = 6
    BY <2>4
  <2>6. /\ Len(fields) \in Nat /\ DOMAIN fields = 1 .. Len(fields)
        /\ \A i, j \in DOMAIN fields : fields[i] = fields[j] => i = j
        /\ \A j \in DOMAIN fields : fields[j] # "msg" /\ fields[j] \notin names
    BY <2>4, <2>5
  <2>7. {fields[j] : j \in DOMAIN fields} = {"dcs", "rooms", "rows", "racks", "devices", "grps"}
    BY <2>4, <2>5
  <2>8. all = names \cup {fields[j] : j \in DOMAIN fields}
                \cup (IF Carries("asset", "RETURN_LOCATION_FROM") THEN {"msg"} ELSE {})
    BY <2>3, <2>7
  <2> HIDE DEF put, names, all
  <2> QED
    BY <2>1, <2>2, <2>6, <2>8, RowAgrees DEF fields
<1>16. Agree("asset", "GET_POWER_FROM")
  <2> DEFINE put == <<N4("element_id")>>
             names == {"element_id"}
             all == {"element_id"}
  <2>1. Row(Protocols["asset"], "GET_POWER_FROM", put, 4, {}, all)
    BY ProtocolsAre, AssetIs, AssetPutDomain, AssetReadDomain, AssetPutIs, AssetReadIs, AssetSizedIs, AssetCopiedIs, AssetSendsIs DEF Row, Room
  <2>2. Layout(put, 4, {}, names)
    BY KindIs, Rooms, Layout1, Zenon DEF Field, N4
  <2>3. "GET_POWER_FROM" \notin DOMAIN Protocols["asset"].frames /\ ~Carries("asset", "GET_POWER_FROM")
    BY FramesAre, AssetCarriesIs DEF AssetCarries
  <2>4. all = names
    OBVIOUS
  <2> HIDE DEF put, names, all
  <2> QED
    BY <2>1, <2>2, <2>3, <2>4, PlainRow
<1>17. Agree("asset", "POWERCHAIN_DEVICE")
  <2> DEFINE put == <<N4("element_id"), Str("type_name"), Str("name")>>
             names == {"element_id", "type_name", "name"}
             all == {"element_id", "type_name", "name"}
  <2>1. Row(Protocols["asset"], "POWERCHAIN_DEVICE", put, 6, {"type_name", "name"}, all)
    BY ProtocolsAre, AssetIs, AssetPutDomain, AssetReadDomain, AssetPutIs, AssetReadIs, AssetSizedIs, AssetCopiedIs, AssetSendsIs DEF Row, Room
  <2>2. Layout(put, 6, {"type_name", "name"}, names)
    BY KindIs, Rooms, Layout3, Zenon DEF Field, N4, Str
  <2>3. "POWERCHAIN_DEVICE" \notin DOMAIN Protocols["asset"].frames /\ ~Carries("asset", "POWERCHAIN_DEVICE")
    BY FramesAre, AssetCarriesIs DEF AssetCarries
  <2>4. all = names
    OBVIOUS
  <2> HIDE DEF put, names, all
  <2> QED
    BY <2>1, <2>2, <2>3, <2>4, PlainRow
<1>18. Agree("asset", "RETURN_POWER")
  <2> DEFINE put == <<List("powers")>>
             names == {"powers"}
             all == {"devices", "powers"}
  <2>1. Row(Protocols["asset"], "RETURN_POWER", put, 4, {"powers"}, all)
    BY ProtocolsAre, AssetIs, AssetPutDomain, AssetReadDomain, AssetPutIs, AssetReadIs, AssetSizedIs, AssetCopiedIs, AssetSendsIs DEF Row, Room
  <2>2. Layout(put, 4, {"powers"}, names)
    BY KindIs, Rooms, Layout1, Zenon DEF Field, List
  <2>3. Following("asset", "RETURN_POWER") = <<"devices">> /\ ~Carries("asset", "RETURN_POWER")
    BY FramesAre, ProtocolsAre, AssetCarriesIs DEF AssetCarries, Following
  <2> DEFINE fields == Following("asset", "RETURN_POWER")
  <2> HIDE DEF fields
  <2>4. /\ Len(fields) = 1 /\ DOMAIN fields = 1 .. 1
        /\ fields[1] = "devices"
    BY <2>3 DEF fields
  <2>5. \A j \in DOMAIN fields : j = 1
    BY <2>4
  <2>6. /\ Len(fields) \in Nat /\ DOMAIN fields = 1 .. Len(fields)
        /\ \A i, j \in DOMAIN fields : fields[i] = fields[j] => i = j
        /\ \A j \in DOMAIN fields : fields[j] # "msg" /\ fields[j] \notin names
    BY <2>4, <2>5
  <2>7. {fields[j] : j \in DOMAIN fields} = {"devices"}
    BY <2>4, <2>5
  <2>8. all = names \cup {fields[j] : j \in DOMAIN fields}
                \cup (IF Carries("asset", "RETURN_POWER") THEN {"msg"} ELSE {})
    BY <2>3, <2>7
  <2> HIDE DEF put, names, all
  <2> QED
    BY <2>1, <2>2, <2>6, <2>8, RowAgrees DEF fields
<1>19. Agree("asset", "GET_POWER_TO")
  <2> DEFINE put == <<N4("element_id")>>
             names == {"element_id"}
             all == {"element_id"}
  <2>1. Row(Protocols["asset"], "GET_POWER_TO", put, 4, {}, all)
    BY ProtocolsAre, AssetIs, AssetPutDomain, AssetReadDomain, AssetPutIs, AssetReadIs, AssetSizedIs, AssetCopiedIs, AssetSendsIs DEF Row, Room
  <2>2. Layout(put, 4, {}, names)
    BY KindIs, Rooms, Layout1, Zenon DEF Field, N4
  <2>3. "GET_POWER_TO" \notin DOMAIN Protocols["asset"].frames /\ ~Carries("asset", "GET_POWER_TO")
    BY FramesAre, AssetCarriesIs DEF AssetCarries
  <2>4. all = names
    OBVIOUS
  <2> HIDE DEF put, names, all
  <2> QED
    BY <2>1, <2>2, <2>3, <2>4, PlainRow
<1>20. Agree("asset", "GET_POWER_GROUP")
  <2> DEFINE put == <<N4("element_id")>>
             names == {"element_id"}
             all == {"element_id"}
  <2>1. Row(Protocols["asset"], "GET_POWER_GROUP", put, 4, {}, all)
    BY ProtocolsAre, AssetIs, AssetPutDomain, AssetReadDomain, AssetPutIs, AssetReadIs, AssetSizedIs, AssetCopiedIs, AssetSendsIs DEF Row, Room
  <2>2. Layout(put, 4, {}, names)
    BY KindIs, Rooms, Layout1, Zenon DEF Field, N4
  <2>3. "GET_POWER_GROUP" \notin DOMAIN Protocols["asset"].frames /\ ~Carries("asset", "GET_POWER_GROUP")
    BY FramesAre, AssetCarriesIs DEF AssetCarries
  <2>4. all = names
    OBVIOUS
  <2> HIDE DEF put, names, all
  <2> QED
    BY <2>1, <2>2, <2>3, <2>4, PlainRow
<1>21. Agree("asset", "GET_POWER_DATACENTER")
  <2> DEFINE put == <<N4("element_id")>>
             names == {"element_id"}
             all == {"element_id"}
  <2>1. Row(Protocols["asset"], "GET_POWER_DATACENTER", put, 4, {}, all)
    BY ProtocolsAre, AssetIs, AssetPutDomain, AssetReadDomain, AssetPutIs, AssetReadIs, AssetSizedIs, AssetCopiedIs, AssetSendsIs DEF Row, Room
  <2>2. Layout(put, 4, {}, names)
    BY KindIs, Rooms, Layout1, Zenon DEF Field, N4
  <2>3. "GET_POWER_DATACENTER" \notin DOMAIN Protocols["asset"].frames /\ ~Carries("asset", "GET_POWER_DATACENTER")
    BY FramesAre, AssetCarriesIs DEF AssetCarries
  <2>4. all = names
    OBVIOUS
  <2> HIDE DEF put, names, all
  <2> QED
    BY <2>1, <2>2, <2>3, <2>4, PlainRow
<1>22. DOMAIN Protocols["asset"].put = DOMAIN AssetPut
  BY ProtocolsAre, AssetIs
<1> QED
  BY <1>1, <1>2, <1>3, <1>4, <1>5, <1>6, <1>7, <1>8, <1>9, <1>10, <1>11, <1>12, <1>13, <1>14,
     <1>15, <1>16, <1>17, <1>18, <1>19, <1>20, <1>21, <1>22, AssetPutDomain

LEMMA CommonCarriesIs ==
  \A id : Carries("common", id) <=> id \in CommonCarries
BY ProtocolsAre, Zenon DEF Carries

LEMMA CommonAgrees ==
  ASSUME NEW id \in DOMAIN Protocols["common"].put
  PROVE  Agree("common", id)
<1>1. Agree("common", "GET_MEASURE_TYPE_I")
  <2> DEFINE put == <<N2("mt_id")>>
             names == {"mt_id"}
             all == {"mt_id"}
  <2>1. Row(Protocols["common"], "GET_MEASURE_TYPE_I", put, 2, {}, all)
    BY ProtocolsAre, CommonIs, CommonPutDomain, CommonReadDomain, CommonPutIs, CommonReadIs, CommonSizedIs, CommonCopiedIs, CommonSendsIs DEF Row, Room
  <2>2. Layout(put, 2, {}, names)
    BY KindIs, Rooms, Layout1, Zenon DEF Field, N2
  <2>3. "GET_MEASURE_TYPE_I" \notin DOMAIN Protocols["common"].frames /\ ~Carries("common", "GET_MEASURE_TYPE_I")
    BY FramesAre, CommonCarriesIs DEF CommonCarries
  <2>4. all = names
    OBVIOUS
  <2> HIDE DEF put, names, all
  <2> QED
    BY <2>1, <2>2, <2>3, <2>4, PlainRow
<1>2. Agree("common", "GET_MEASURE_TYPE_S")
  <2> DEFINE put == <<Str("mt_name"), Str("mt_unit")>>
             names == {"mt_name", "mt_unit"}
             all == {"mt_name", "mt_unit"}
  <2>1. Row(Protocols["common"], "GET_MEASURE_TYPE_S", put, 2, {"mt_name", "mt_unit"}, all)
    BY ProtocolsAre, CommonIs, CommonPutDomain, CommonReadDomain, CommonPutIs, CommonReadIs, CommonSizedIs, CommonCopiedIs, CommonSendsIs DEF Row, Room
  <2>2. Layout(put, 2, {"mt_name", "mt_unit"}, names)
    BY KindIs, Rooms, Layout2, Zenon DEF Field, Str
  <2>3. "GET_MEASURE_TYPE_S" \notin DOMAIN Protocols["common"].frames /\ ~Carries("common", "GET_MEASURE_TYPE_S")
    BY FramesAre, CommonCarriesIs DEF CommonCarries
  <2>4. all = names
    OBVIOUS
  <2> HIDE DEF put, names, all
  <2> QED
    BY <2>1, <2>2, <2>3, <2>4, PlainRow
<1>3. Agree("common", "GET_MEASURE_SUBTYPE_I")
  <2> DEFINE put == <<N2("mt_id"), N2("mts_id")>>
             names == {"mt_id", "mts_id"}
             all == {"mt_id", "mts_id"}
  <2>1. Row(Protocols["common"], "GET_MEASURE_SUBTYPE_I", put, 4, {}, all)
    BY ProtocolsAre, CommonIs, CommonPutDomain, CommonReadDomain, CommonPutIs, CommonReadIs, CommonSizedIs, CommonCopiedIs, CommonSendsIs DEF Row, Room
  <2>2. Layout(put, 4, {}, names)
    BY KindIs, Rooms, Layout2, Zenon DEF Field, N2
  <2>3. "GET_MEASURE_SUBTYPE_I" \notin DOMAIN Protocols["common"].frames /\ ~Carries("common", "GET_MEASURE_SUBTYPE_I")
    BY FramesAre, CommonCarriesIs DEF CommonCarries
  <2>4. all = names
    OBVIOUS
  <2> HIDE DEF put, names, all
  <2> QED
    BY <2>1, <2>2, <2>3, <2>4, PlainRow
<1>4. Agree("common", "GET_MEASURE_SUBTYPE_S")
  <2> DEFINE put == <<N2("mt_id"), Str("mts_name"), N1("mts_scale")>>
             names == {"mt_id", "mts_name", "mts_scale"}
             all == {"mt_id", "mts_name", "mts_scale"}
  <2>1. Row(Protocols["common"], "GET_MEASURE_SUBTYPE_S", put, 4, {"mts_name"}, all)
    BY ProtocolsAre, CommonIs, CommonPutDomain, CommonReadDomain, CommonPutIs, CommonReadIs, CommonSizedIs, CommonCopiedIs, CommonSendsIs DEF Row, Room
  <2>2. Layout(put, 4, {"mts_name"}, names)
    BY KindIs, Rooms, Layout3, Zenon DEF Field, N1, N2, Str
  <2>3. "GET_MEASURE_SUBTYPE_S" \notin DOMAIN Protocols["common"].frames /\ ~Carries("common", "GET_MEASURE_SUBTYPE_S")
    BY FramesAre, CommonCarriesIs DEF CommonCarries
  <2>4. all = names
    OBVIOUS
  <2> HIDE DEF put, names, all
  <2> QED
    BY <2>1, <2>2, <2>3, <2>4, PlainRow
<1>5. Agree("common", "RETURN_MEASURE_TYPE")
  <2> DEFINE put == <<N2("mt_id"), Str("mt_name"), Str("mt_unit")>>
             names == {"mt_id", "mt_name", "mt_unit"}
             all == {"mt_id", "mt_name", "mt_unit"}
  <2>1. Row(Protocols["common"], "RETURN_MEASURE_TYPE", put, 4, {"mt_name", "mt_unit"}, all)
    BY ProtocolsAre, CommonIs, CommonPutDomain, CommonReadDomain, CommonPutIs, CommonReadIs, CommonSizedIs, CommonCopiedIs, CommonSendsIs DEF Row, Room
  <2>2. Layout(put, 4, {"mt_name", "mt_unit"}, names)
    BY KindIs, Rooms, Layout3, Zenon DEF Field, N2, Str
  <2>3. "RETURN_MEASURE_TYPE" \notin DOMAIN Protocols["common"].frames /\ ~Carries("common", "RETURN_MEASURE_TYPE")
    BY FramesAre, CommonCarriesIs DEF CommonCarries
  <2>4. all = names
    OBVIOUS
  <2> HIDE DEF put, names, all
  <2> QED
    BY <2>1, <2>2, <2>3, <2>4, PlainRow
<1>6. Agree("common", "RETURN_MEASURE_SUBTYPE")
  <2> DEFINE put == <<N2("mts_id"), N2("mt_id"), N1("mts_scale"), Str("mts_name")>>
             names == {"mts_id", "mt_id", "mts_scale", "mts_name"}
             all == {"mts_id", "mt_id", "mts_scale", "mts_name"}
  <2>1. Row(Protocols["common"], "RETURN_MEASURE_SUBTYPE", put, 6, {"mts_name"}, all)
    BY ProtocolsAre, CommonIs, CommonPutDomain, CommonReadDomain, CommonPutIs, CommonReadIs, CommonSizedIs, CommonCopiedIs, CommonSendsIs DEF Row, Room
  <2>2. Layout(put, 6, {"mts_name"}, names)
    BY KindIs, Rooms, Layout4, Zenon DEF Field, N1, N2, Str
  <2>3. "RETURN_MEASURE_SUBTYPE" \notin DOMAIN Protocols["common"].frames /\ ~Carries("common", "RETURN_MEASURE_SUBTYPE")
    BY FramesAre, CommonCarriesIs DEF CommonCarries
  <2>4. all = names
    OBVIOUS
  <2> HIDE DEF put, names, all
  <2> QED
    BY <2>1, <2>2, <2>3, <2>4, PlainRow
<1>7. Agree("common", "FAIL")
  <2> DEFINE put == <<N1("errtype"), N4("errorno"), LongStr("errmsg"), Hash("aux")>>
             names == {"errtype", "errorno", "errmsg", "aux"}
             all == {"errtype", "errorno", "errmsg", "aux"}
  <2>1. Row(Protocols["common"], "FAIL", put, 13, {"errmsg", "aux"}, all)
    BY ProtocolsAre, CommonIs, CommonPutDomain, CommonReadDomain, CommonPutIs, CommonReadIs, CommonSizedIs, CommonCopiedIs, CommonSendsIs DEF Row, Room
  <2>2. Layout(put, 13, {"errmsg", "aux"}, names)
    BY KindIs, Rooms, Layout4, Zenon DEF Field, Hash, LongStr, N1, N4
  <2>3. "FAIL" \notin DOMAIN Protocols["common"].frames /\ ~Carries("common", "FAIL")
    BY FramesAre, CommonCarriesIs DEF CommonCarries
  <2>4. all = names
    OBVIOUS
  <2> HIDE DEF put, names, all
  <2> QED
    BY <2>1, <2>2, <2>3, <2>4, PlainRow
<1>8. Agree("common", "DB_OK")
  <2> DEFINE put == <<N4("rowid"), Hash("aux")>>
             names == {"rowid", "aux"}
             all == {"rowid", "aux"}
  <2>1. Row(Protocols["common"], "DB_OK", put, 8, {"aux"}, all)
    BY ProtocolsAre, CommonIs, CommonPutDomain, CommonReadDomain, CommonPutIs, CommonReadIs, CommonSizedIs, CommonCopiedIs, CommonSendsIs DEF Row, Room
  <2>2. Layout(put, 8, {"aux"}, names)
    BY KindIs, Rooms, Layout2, Zenon DEF Field, Hash, N4
  <2>3. "DB_OK" \notin DOMAIN Protocols["common"].frames /\ ~Carries("common", "DB_OK")
    BY FramesAre, CommonCarriesIs DEF CommonCarries
  <2>4. all = names
    OBVIOUS
  <2> HIDE DEF put, names, all
  <2> QED
    BY <2>1, <2>2, <2>3, <2>4, PlainRow
<1>9. Agree("common", "CLIENT")
  <2> DEFINE put == <<Str("name")>>
             names == {"name"}
             all == {"name"}
  <2>1. Row(Protocols["common"], "CLIENT", put, 1, {"name"}, all)
    BY ProtocolsAre, CommonIs, CommonPutDomain, CommonReadDomain, CommonPutIs, CommonReadIs, CommonSizedIs, CommonCopiedIs, CommonSendsIs DEF Row, Room
  <2>2. Layout(put, 1, {"name"}, names)
    BY KindIs, Rooms, Layout1, Zenon DEF Field, Str
  <2>3. "CLIENT" \notin DOMAIN Protocols["common"].frames /\ ~Carries("common", "CLIENT")
    BY FramesAre, CommonCarriesIs DEF CommonCarries
  <2>4. all = names
    OBVIOUS
  <2> HIDE DEF put, names, all
  <2> QED
    BY <2>1, <2>2, <2>3, <2>4, PlainRow
<1>10. Agree("common", "INSERT_CLIENT")
  <2> DEFINE put == <<>>
             names == {}
             all == {"msg"}
  <2>1. Row(Protocols["common"], "INSERT_CLIENT", put, 0, {}, all)
    BY ProtocolsAre, CommonIs, CommonPutDomain, CommonReadDomain, CommonPutIs, CommonReadIs, CommonSizedIs, CommonCopiedIs, CommonSendsIs DEF Row, Room
  <2>2. Layout(put, 0, {}, names)
    BY KindIs, Rooms, Layout0, Zenon
  <2>3. "INSERT_CLIENT" \notin DOMAIN Protocols["common"].frames /\ Carries("common", "INSERT_CLIENT")
    BY FramesAre, CommonCarriesIs DEF CommonCarries
  <2>4. all = names \cup {"msg"}
    OBVIOUS
  <2> HIDE DEF put, names, all
  <2> QED
    BY <2>1, <2>2, <2>3, <2>4, PlainRow
<1>11. Agree("common", "UPDATE_CLIENT")
  <2> DEFINE put == <<N4("client_id")>>
             names == {"client_id"}
             all == {"client_id", "msg"}
  <2>1. Row(Protocols["common"], "UPDATE_CLIENT", put, 4, {}, all)
    BY ProtocolsAre, CommonIs, CommonPutDomain, CommonReadDomain, CommonPutIs, CommonReadIs, CommonSizedIs, CommonCopiedIs, CommonSendsIs DEF Row, Room
  <2>2. Layout(put, 4, {}, names)
    BY KindIs, Rooms, Layout1, Zenon DEF Field, N4
  <2>3. "UPDATE_CLIENT" \notin DOMAIN Protocols["common"].frames /\ Carries("common", "UPDATE_CLIENT")
    BY FramesAre, CommonCarriesIs DEF CommonCarries
  <2>4. all = names \cup {"msg"}
    OBVIOUS
  <2> HIDE DEF put, names, all
  <2> QED
    BY <2>1, <2>2, <2>3, <2>4, PlainRow
<1>12. Agree("common", "DELETE_CLIENT")
  <2> DEFINE put == <<N4("client_id")>>
             names == {"client_id"}
             all == {"client_id"}
  <2>1. Row(Protocols["common"], "DELETE_CLIENT", put, 4, {}, all)
    BY ProtocolsAre, CommonIs, CommonPutDomain, CommonReadDomain, CommonPutIs, CommonReadIs, CommonSizedIs, CommonCopiedIs, CommonSendsIs DEF Row, Room
  <2>2. Layout(put, 4, {}, names)
    BY KindIs, Rooms, Layout1, Zenon DEF Field, N4
  <2>3. "DELETE_CLIENT" \notin DOMAIN Protocols["common"].frames /\ ~Carries("common", "DELETE_CLIENT")
    BY FramesAre, CommonCarriesIs DEF CommonCarries
  <2>4. all = names
    OBVIOUS
  <2> HIDE DEF put, names, all
  <2> QED
    BY <2>1, <2>2, <2>3, <2>4, PlainRow
<1>13. Agree("common", "RETURN_CLIENT")
  <2> DEFINE put == <<N4("rowid")>>
             names == {"rowid"}
             all == {"rowid", "msg"}
  <2>1. Row(Protocols["common"], "RETURN_CLIENT", put, 4, {}, all)
    BY ProtocolsAre, CommonIs, CommonPutDomain, CommonReadDomain, CommonPutIs, CommonReadIs, CommonSizedIs, CommonCopiedIs, CommonSendsIs DEF Row, Room
  <2>2. Layout(put, 4, {}, names)
    BY KindIs, Rooms, Layout1, Zenon DEF Field, N4
  <2>3. "RETURN_CLIENT" \notin DOMAIN Protocols["common"].frames /\ Carries("common", "RETURN_CLIENT")
    BY FramesAre, CommonCarriesIs DEF CommonCarries
  <2>4. all = names \cup {"msg"}
    OBVIOUS
  <2> HIDE DEF put, names, all
  <2> QED
    BY <2>1, <2>2, <2>3, <2>4, PlainRow
<1>14. Agree("common", "NEW_MEASUREMENT")
  <2> DEFINE put == <<Str("client_name"), Str("device_name"), Str("device_type"), N2("mt_id"),
       N2("mts_id"), N8("value")>>
             names == {"client_name", "device_name", "device_type", "mt_id", "mts_id", "value"}
             all == {"client_name", "device_name", "device_type", "mt_id", "mts_id", "value"}
  <2>1. Row(Protocols["common"], "NEW_MEASUREMENT", put, 15, {"client_name", "device_name",
        "device_type"}, all)
    BY ProtocolsAre, CommonIs, CommonPutDomain, CommonReadDomain, CommonPutIs, CommonReadIs, CommonSizedIs, CommonCopiedIs, CommonSendsIs DEF Row, Room
  <2>2. Layout(put, 15, {"client_name", "device_name", "device_type"}, names)
    BY KindIs, Rooms, Layout6, Zenon DEF Field, N2, N8, Str
  <2>3. "NEW_MEASUREMENT" \notin DOMAIN Protocols["common"].frames /\ ~Carries("common", "NEW_MEASUREMENT")
    BY FramesAre, CommonCarriesIs DEF CommonCarries
  <2>4. all = names
    OBVIOUS
  <2> HIDE DEF put, names, all
  <2> QED
    BY <2>1, <2>2, <2>3, <2>4, PlainRow
<1>15. Agree("common", "CLIENT_INFO")
  <2> DEFINE put == <<N4("client_id"), N4("device_id"), Chunk("info"), N4("date")>>
             names == {"client_id", "device_id", "info", "date"}
             all == {"client_id", "device_id", "info", "date"}
  <2>1. Row(Protocols["common"], "CLIENT_INFO", put, 16, {"info"}, all)
    BY ProtocolsAre, CommonIs, CommonPutDomain, CommonReadDomain, CommonPutIs, CommonReadIs, CommonSizedIs, CommonCopiedIs, CommonSendsIs DEF Row, Room
  <2>2. Layout(put, 16, {"info"}, names)
    BY KindIs, Rooms, Layout4, Zenon DEF Field, Chunk, N4
  <2>3. "CLIENT_INFO" \notin DOMAIN Protocols["common"].frames /\ ~Carries("common", "CLIENT_INFO")
    BY FramesAre, CommonCarriesIs DEF CommonCarries
  <2>4. all = names
    OBVIOUS
  <2> HIDE DEF put, names, all
  <2> QED
    BY <2>1, <2>2, <2>3, <2>4, PlainRow
<1>16. Agree("common", "INSERT_CINFO")
  <2> DEFINE put == <<>>
             names == {}
             all == {"msg"}
  <2>1. Row(Protocols["common"], "INSERT_CINFO", put, 0, {}, all)
    BY ProtocolsAre, CommonIs, CommonPutDomain, CommonReadDomain, CommonPutIs, CommonReadIs, CommonSizedIs, CommonCopiedIs, CommonSendsIs DEF Row, Room
  <2>2. Layout(put, 0, {}, names)
    BY KindIs, Rooms, Layout0, Zenon
  <2>3. "INSERT_CINFO" \notin DOMAIN Protocols["common"].frames /\ Carries("common", "INSERT_CINFO")
    BY FramesAre, CommonCarriesIs DEF CommonCarries
  <2>4. all = names \cup {"msg"}
    OBVIOUS
  <2> HIDE DEF put, names, all
  <2> QED
    BY <2>1, <2>2, <2>3, <2>4, PlainRow
<1>17. Agree("common", "DELETE_CINFO")
  <2> DEFINE put == <<N4("cinfo_id")>>
             names == {"cinfo_id"}
             all == {"cinfo_id"}
  <2>1. Row(Protocols["common"], "DELETE_CINFO", put, 4, {}, all)
    BY ProtocolsAre, CommonIs, CommonPutDomain, CommonReadDomain, CommonPutIs, CommonReadIs, CommonSizedIs, CommonCopiedIs, CommonSendsIs DEF Row, Room
  <2>2. Layout(put, 4, {}, names)
    BY KindIs, Rooms, Layout1, Zenon DEF Field, N4
  <2>3. "DELETE_CINFO" \notin DOMAIN Protocols["common"].frames /\ ~Carries("common", "DELETE_CINFO")
    BY FramesAre, CommonCarriesIs DEF CommonCarries
  <2>4. all = names
    OBVIOUS
  <2> HIDE DEF put, names, all
  <2> QED
    BY <2>1, <2>2, <2>3, <2>4, PlainRow
<1>18. Agree("common", "RETURN_CINFO")
  <2> DEFINE put == <<N4("rowid")>>
             names == {"rowid"}
             all == {"rowid", "msg"}
  <2>1. Row(Protocols["common"], "RETURN_CINFO", put, 4, {}, all)
    BY ProtocolsAre, CommonIs, CommonPutDomain, CommonReadDomain, CommonPutIs, CommonReadIs, CommonSizedIs, CommonCopiedIs, CommonSendsIs DEF Row, Room
  <2>2. Layout(put, 4, {}, names)
    BY KindIs, Rooms, Layout1, Zenon DEF Field, N4
  <2>3. "RETURN_CINFO" \notin DOMAIN Protocols["common"].frames /\ Carries("common", "RETURN_CINFO")
    BY FramesAre, CommonCarriesIs DEF CommonCarries
  <2>4. all = names \cup {"msg"}
    OBVIOUS
  <2> HIDE DEF put, names, all
  <2> QED
    BY <2>1, <2>2, <2>3, <2>4, PlainRow
<1>19. Agree("common", "DEVICE")
  <2> DEFINE put == <<N4("devicetype_id"), Str("name")>>
             names == {"devicetype_id", "name"}
             all == {"devicetype_id", "name"}
  <2>1. Row(Protocols["common"], "DEVICE", put, 5, {"name"}, all)
    BY ProtocolsAre, CommonIs, CommonPutDomain, CommonReadDomain, CommonPutIs, CommonReadIs, CommonSizedIs, CommonCopiedIs, CommonSendsIs DEF Row, Room
  <2>2. Layout(put, 5, {"name"}, names)
    BY KindIs, Rooms, Layout2, Zenon DEF Field, N4, Str
  <2>3. "DEVICE" \notin DOMAIN Protocols["common"].frames /\ ~Carries("common", "DEVICE")
    BY FramesAre, CommonCarriesIs DEF CommonCarries
  <2>4. all = names
    OBVIOUS
  <2> HIDE DEF put, names, all
  <2> QED
    BY <2>1, <2>2, <2>3, <2>4, PlainRow
<1>20. Agree("common", "INSERT_DEVICE")
  <2> DEFINE put == <<>>
             names == {}
             all == {"msg"}
  <2>1. Row(Protocols["common"], "INSERT_DEVICE", put, 0, {}, all)
    BY ProtocolsAre, CommonIs, CommonPutDomain, CommonReadDomain, CommonPutIs, CommonReadIs, CommonSizedIs, CommonCopiedIs, CommonSendsIs DEF Row, Room
  <2>2. Layout(put, 0, {}, names)
    BY KindIs, Rooms, Layout0, Zenon
  <2>3. "INSERT_DEVICE" \notin DOMAIN Protocols["common"].frames /\ Carries("common", "INSERT_DEVICE")
    BY FramesAre, CommonCarriesIs DEF CommonCarries
  <2>4. all = names \cup {"msg"}
    OBVIOUS
  <2> HIDE DEF put, names, all
  <2> QED
    BY <2>1, <2>2, <2>3, <2>4, PlainRow
<1>21. Agree("common", "DELETE_DEVICE")
  <2> DEFINE put == <<N4("device_id")>>
             names == {"device_id"}
             all == {"device_id"}
  <2>1. Row(Protocols["common"], "DELETE_DEVICE", put, 4, {}, all)
    BY ProtocolsAre, CommonIs, CommonPutDomain, CommonReadDomain, CommonPutIs, CommonReadIs, CommonSizedIs, CommonCopiedIs, CommonSendsIs DEF Row, Room
  <2>2. Layout(put, 4, {}, names)
    BY KindIs, Rooms, Layout1, Zenon DEF Field, N4
  <2>3. "DELETE_DEVICE" \notin DOMAIN Protocols["common"].frames /\ ~Carries("common", "DELETE_DEVICE")
    BY FramesAre, CommonCarriesIs DEF CommonCarries
  <2>4. all = names
    OBVIOUS
  <2> HIDE DEF put, names, all
  <2> QED
    BY <2>1, <2>2, <2>3, <2>4, PlainRow
<1>22. Agree("common", "RETURN_DEVICE")
  <2> DEFINE put == <<N4("rowid")>>
             names == {"rowid"}
             all == {"rowid", "msg"}
  <2>1. Row(Protocols["common"], "RETURN_DEVICE", put, 4, {}, all)
    BY ProtocolsAre, CommonIs, CommonPutDomain, CommonReadDomain, CommonPutIs, CommonReadIs, CommonSizedIs, CommonCopiedIs, CommonSendsIs DEF Row, Room
  <2>2. Layout(put, 4, {}, names)
    BY KindIs, Rooms, Layout1, Zenon DEF Field, N4
  <2>3. "RETURN_DEVICE" \notin DOMAIN Protocols["common"].frames /\ Carries("common", "RETURN_DEVICE")
    BY FramesAre, CommonCarriesIs DEF CommonCarries
  <2>4. all = names \cup {"msg"}
    OBVIOUS
  <2> HIDE DEF put, names, all
  <2> QED
    BY <2>1, <2>2, <2>3, <2>4, PlainRow
<1>23. Agree("common", "DEVICE_TYPE")
  <2> DEFINE put == <<Str("name")>>
             names == {"name"}
             all == {"name"}
  <2>1. Row(Protocols["common"], "DEVICE_TYPE", put, 1, {"name"}, all)
    BY ProtocolsAre, CommonIs, CommonPutDomain, CommonReadDomain, CommonPutIs, CommonReadIs, CommonSizedIs, CommonCopiedIs, CommonSendsIs DEF Row, Room
  <2>2. Layout(put, 1, {"name"}, names)
    BY KindIs, Rooms, Layout1, Zenon DEF Field, Str
  <2>3. "DEVICE_TYPE" \notin DOMAIN Protocols["common"].frames /\ ~Carries("common", "DEVICE_TYPE")
    BY FramesAre, CommonCarriesIs DEF CommonCarries
  <2>4. all = names
    OBVIOUS
  <2> HIDE DEF put, names, all
  <2> QED
    BY <2>1, <2>2, <2>3, <2>4, PlainRow
<1>24. Agree("common", "INSERT_DEVTYPE")
  <2> DEFINE put == <<>>
             names == {}
             all == {"msg"}
  <2>1. Row(Protocols["common"], "INSERT_DEVTYPE", put, 0, {}, all)
    BY ProtocolsAre, CommonIs, CommonPutDomain, CommonReadDomain, CommonPutIs, CommonReadIs, CommonSizedIs, CommonCopiedIs, CommonSendsIs DEF Row, Room
  <2>2. Layout(put, 0, {}, names)
    BY KindIs, Rooms, Layout0, Zenon
  <2>3. "INSERT_DEVTYPE" \notin DOMAIN Protocols["common"].frames /\ Carries("common", "INSERT_DEVTYPE")
    BY FramesAre, CommonCarriesIs DEF CommonCarries
  <2>4. all = names \cup {"msg"}
    OBVIOUS
  <2> HIDE DEF put, names, all
  <2> QED
    BY <2>1, <2>2, <2>3, <2>4, PlainRow
<1>25. Agree("common", "DELETE_DEVTYPE")
  <2> DEFINE put == <<N4("devicetype_id")>>
             names == {"devicetype_id"}
             all == {"devicetype_id"}
  <2>1. Row(Protocols["common"], "DELETE_DEVTYPE", put, 4, {}, all)
    BY ProtocolsAre, CommonIs, CommonPutDomain, CommonReadDomain, CommonPutIs, CommonReadIs, CommonSizedIs, CommonCopiedIs, CommonSendsIs DEF Row, Room
  <2>2. Layout(put, 4, {}, names)
    BY KindIs, Rooms, Layout1, Zenon DEF Field, N4
  <2>3. "DELETE_DEVTYPE" \notin DOMAIN Protocols["common"].frames /\ ~Carries("common", "DELETE_DEVTYPE")
    BY FramesAre, CommonCarriesIs DEF CommonCarries
  <2>4. all = names
    OBVIOUS
  <2> HIDE DEF put, names, all
  <2> QED
    BY <2>1, <2>2, <2>3, <2>4, PlainRow
<1>26. Agree("common", "RETURN_DEVTYPE")
  <2> DEFINE put == <<N4("rowid")>>
             names == {"rowid"}
             all == {"rowid", "msg"}
  <2>1. Row(Protocols["common"], "RETURN_DEVTYPE", put, 4, {}, all)
    BY ProtocolsAre, CommonIs, CommonPutDomain, CommonReadDomain, CommonPutIs, CommonReadIs, CommonSizedIs, CommonCopiedIs, CommonSendsIs DEF Row, Room
  <2>2. Layout(put, 4, {}, names)
    BY KindIs, Rooms, Layout1, Zenon DEF Field, N4
  <2>3. "RETURN_DEVTYPE" \notin DOMAIN Protocols["common"].frames /\ Carries("common", "RETURN_DEVTYPE")
    BY FramesAre, CommonCarriesIs DEF CommonCarries
  <2>4. all = names \cup {"msg"}
    OBVIOUS
  <2> HIDE DEF put, names, all
  <2> QED
    BY <2>1, <2>2, <2>3, <2>4, PlainRow
<1>27. Agree("common", "GET_CLIENT")
  <2> DEFINE put == <<N4("client_id")>>
             names == {"client_id"}
             all == {"client_id"}
  <2>1. Row(Protocols["common"], "GET_CLIENT", put, 4, {}, all)
    BY ProtocolsAre, CommonIs, CommonPutDomain, CommonReadDomain, CommonPutIs, CommonReadIs, CommonSizedIs, CommonCopiedIs, CommonSendsIs DEF Row, Room
  <2>2. Layout(put, 4, {}, names)
    BY KindIs, Rooms, Layout1, Zenon DEF Field, N4
  <2>3. "GET_CLIENT" \notin DOMAIN Protocols["common"].frames /\ ~Carries("common", "GET_CLIENT")
    BY FramesAre, CommonCarriesIs DEF CommonCarries
  <2>4. all = names
    OBVIOUS
  <2> HIDE DEF put, names, all
  <2> QED
    BY <2>1, <2>2, <2>3, <2>4, PlainRow
<1>28. Agree("common", "GET_CINFO")
  <2> DEFINE put == <<N4("cinfo_id")>>
             names == {"cinfo_id"}
             all == {"cinfo_id"}
  <2>1. Row(Protocols["common"], "GET_CINFO", put, 4, {}, all)
    BY ProtocolsAre, CommonIs, CommonPutDomain, CommonReadDomain, CommonPutIs, CommonReadIs, CommonSizedIs, CommonCopiedIs, CommonSendsIs DEF Row, Room
  <2>2. Layout(put, 4, {}, names)
    BY KindIs, Rooms, Layout1, Zenon DEF Field, N4
  <2>3. "GET_CINFO" \notin DOMAIN Protocols["common"].frames /\ ~Carries("common", "GET_CINFO")
    BY FramesAre, CommonCarriesIs DEF CommonCarries
  <2>4. all = names
    OBVIOUS
  <2> HIDE DEF put, names, all
  <2> QED
    BY <2>1, <2>2, <2>3, <2>4, PlainRow
<1>29. Agree("common", "GET_DEVICE")
  <2> DEFINE put == <<N4("device_id")>>
             names == {"device_id"}
             all == {"device_id"}
  <2>1. Row(Protocols["common"], "GET_DEVICE", put, 4, {}, all)
    BY ProtocolsAre, CommonIs, CommonPutDomain, CommonReadDomain, CommonPutIs, CommonReadIs, CommonSizedIs, CommonCopiedIs, CommonSendsIs DEF Row, Room
  <2>2. Layout(put, 4, {}, names)
    BY KindIs, Rooms, Layout1, Zenon DEF Field, N4
  <2>3. "GET_DEVICE" \notin DOMAIN Protocols["common"].frames /\ ~Carries("common", "GET_DEVICE")
    BY FramesAre, CommonCarriesIs DEF CommonCarries
  <2>4. all = names
    OBVIOUS
  <2> HIDE DEF put, names, all
  <2> QED
    BY <2>1, <2>2, <2>3, <2>4, PlainRow
<1>30. Agree("common", "GET_DEVTYPE")
  <2> DEFINE put == <<N4("devicetype_id")>>
             names == {"devicetype_id"}
             all == {"devicetype_id"}
  <2>1. Row(Protocols["common"], "GET_DEVTYPE", put, 4, {}, all)
    BY ProtocolsAre, CommonIs, CommonPutDomain, CommonReadDomain, CommonPutIs, CommonReadIs, CommonSizedIs, CommonCopiedIs, CommonSendsIs DEF Row, Room
  <2>2. Layout(put, 4, {}, names)
    BY KindIs, Rooms, Layout1, Zenon DEF Field, N4
  <2>3. "GET_DEVTYPE" \notin DOMAIN Protocols["common"].frames /\ ~Carries("common", "GET_DEVTYPE")
    BY FramesAre, CommonCarriesIs DEF CommonCarries
  <2>4. all = names
    OBVIOUS
  <2> HIDE DEF put, names, all
  <2> QED
    BY <2>1, <2>2, <2>3, <2>4, PlainRow
<1>31. Agree("common", "GET_LAST_MEASUREMENTS")
  <2> DEFINE put == <<N4("device_id")>>
             names == {"device_id"}
             all == {"device_id"}
  <2>1. Row(Protocols["common"], "GET_LAST_MEASUREMENTS", put, 4, {}, all)
    BY ProtocolsAre, CommonIs, CommonPutDomain, CommonReadDomain, CommonPutIs, CommonReadIs, CommonSizedIs, CommonCopiedIs, CommonSendsIs DEF Row, Room
  <2>2. Layout(put, 4, {}, names)
    BY KindIs, Rooms, Layout1, Zenon DEF Field, N4
  <2>3. "GET_LAST_MEASUREMENTS" \notin DOMAIN Protocols["common"].frames /\ ~Carries("common", "GET_LAST_MEASUREMENTS")
    BY FramesAre, CommonCarriesIs DEF CommonCarries
  <2>4. all = names
    OBVIOUS
  <2> HIDE DEF put, names, all
  <2> QED
    BY <2>1, <2>2, <2>3, <2>4, PlainRow
<1>32. Agree("common", "RETURN_LAST_MEASUREMENTS")
  <2> DEFINE put == <<N4("device_id"), Str("device_name"), List("measurements")>>
             names == {"device_id", "device_name", "measurements"}
             all == {"device_id", "device_name", "measurements"}
  <2>1. Row(Protocols["common"], "RETURN_LAST_MEASUREMENTS", put, 9, {"device_name",
        "measurements"}, all)
    BY ProtocolsAre, CommonIs, CommonPutDomain, CommonReadDomain, CommonPutIs, CommonReadIs, CommonSizedIs, CommonCopiedIs, CommonSendsIs DEF Row, Room
  <2>2. Layout(put, 9, {"device_name", "measurements"}, names)
    BY KindIs, Rooms, Layout3, Zenon DEF Field, List, N4, Str
  <2>3. "RETURN_LAST_MEASUREMENTS" \notin DOMAIN Protocols["common"].frames /\ ~Carries("common", "RETURN_LAST_MEASUREMENTS")
    BY FramesAre, CommonCarriesIs DEF CommonCarries
  <2>4. all = names
    OBVIOUS
  <2> HIDE DEF put, names, all
  <2> QED
    BY <2>1, <2>2, <2>3, <2>4, PlainRow
<1>33. DOMAIN Protocols["common"].put = DOMAIN CommonPut
  BY ProtocolsAre, CommonIs
<1> QED
  BY <1>1, <1>2, <1>3, <1>4, <1>5, <1>6, <1>7, <1>8, <1>9, <1>10, <1>11, <1>12, <1>13, <1>14,
     <1>15, <1>16, <1>17, <1>18, <1>19, <1>20, <1>21, <1>22, <1>23, <1>24, <1>25, <1>26, <1>27,
     <1>28, <1>29, <1>30, <1>31, <1>32, <1>33, CommonPutDomain

LEMMA TablesDoAgree ==
  TablesAgree
<1>1. Protocols["asset"].sign # Protocols["common"].sign
  BY ProtocolsAre
<1>2. \A p \in DOMAIN Protocols : \A id \in DOMAIN Protocols[p].put : Agree(p, id)
  BY ProtocolNames, AssetAgrees, CommonAgrees
<1> QED
  BY <1>1, <1>2, Zenon DEF TablesAgree

-----------------------------------------------------------------------------
(* Every string, list and dictionary that is sent is kept as long as it is *)
(* on its way, and nothing that is read was not sent.                      *)
LEMMA MessagesSafe ==
  Spec => []MessagesInv
<1>1. Init => MessagesInv
  BY MessagesStart
<1>2. MessagesInv /\ [Next]_vars => MessagesInv'
  BY TablesDoAgree, MessagesKept
<1> QED
  BY <1>1, <1>2, PTL DEF Spec

(* A message of either protocol that arrives whole is recognised, decoded, and *)
(* carries in every field what the sender had set when it sent it, copies and  *)
(* the _send_ functions included, whatever strings, lists and dictionaries it  *)
(* was set to: the tables of the passes in asset_msg.cc and common_msg.cc agree *)
(* and the room that was counted holds every field.                             *)
THEOREM MessagesArrive ==
  Spec => []WholeMessagesArrive
<1>1. MessagesInv => WholeMessagesArrive
  BY MessagesReadAsSent
<1> QED
  BY <1>1, MessagesSafe, PTL

(* A message that has lost octets of its first frame, or its last frame, is     *)
(* refused by the decoder, or no field that it reads is another than was sent.  *)
THEOREM DamagedMessages ==
  Spec => []DamagedIsNotMisread
<1>1. MessagesInv => DamagedIsNotMisread
  BY MessagesReadAsSent
<1> QED
  BY <1>1, MessagesSafe, PTL
=============================================================================
