---------------------------- MODULE SelectProofs -----------------------------
(***************************************************************************)
(* Proofs about Select, for any tables, any statements and any writes of   *)
(* other connections between the reads: the inductive invariant of         *)
(* visit(SelectStatement&) and, from it, every property the run checks.    *)
(*                                                                         *)
(* JOIN, ORDER BY and WHERE are recursive in the code or loop over rows;   *)
(* what their folds and choices give is shown by induction on positions    *)
(* (Counting in PositionsProofs).                                          *)
(***************************************************************************)
EXTENDS Select, PositionsProofs

-----------------------------------------------------------------------------
(* The nested loop of JOIN.                                                *)

\* Every pair has a number of its own.
LEMMA NthPairs ==
    ASSUME NEW S, IsFiniteSet(S), S \subseteq Nat \X Nat
    PROVE  /\ Cardinality(S) \in Nat
           /\ \A k \in 1 .. Cardinality(S) : NthPair(S, k) \in S
           /\ \A p \in S : \E k \in 1 .. Cardinality(S) : NthPair(S, k) = p
<1> DEFINE Before(p) == {q \in S : Earlier(q, p)}
           f == [p \in S |-> Cardinality(Before(p)) + 1]
<1>1. Cardinality(S) \in Nat
  BY FS_CardinalityType
<1>2. ASSUME NEW p \in S
      PROVE  /\ IsFiniteSet(Before(p))
             /\ Cardinality(Before(p)) \in Nat
             /\ Cardinality(Before(p)) < Cardinality(S)
  <2>1. Before(p) \subseteq S /\ p \notin Before(p)
    <3>1. ~ Earlier(p, p)
      <4>1. p[1] \in Nat /\ p[2] \in Nat
        OBVIOUS
      <4> QED
        BY <4>1 DEF Earlier
    <3> QED
      BY <3>1
  <2> HIDE DEF Before
  <2>2. Before(p) # S
    BY <2>1
  <2> QED
    BY <1>1, <2>1, <2>2, FS_Subset, FS_CardinalityType
<1>0. \A p \in S : f[p] = Cardinality(Before(p)) + 1
  OBVIOUS
<1> HIDE DEF f
<1>3. ASSUME NEW p \in S, NEW q \in S, Earlier(p, q)
      PROVE  f[p] < f[q]
  <2>1. Before(p) \subseteq Before(q)
    <3>1. ASSUME NEW r \in S, Earlier(r, p)
          PROVE  Earlier(r, q)
      <4>1. /\ p[1] \in Nat /\ p[2] \in Nat /\ q[1] \in Nat /\ q[2] \in Nat
            /\ r[1] \in Nat /\ r[2] \in Nat
        OBVIOUS
      <4> QED
        BY <1>3, <3>1, <4>1 DEF Earlier
    <3> QED
      BY <3>1
  <2>2. p \in Before(q) /\ p \notin Before(p)
    <3>1. ~ Earlier(p, p)
      <4>1. p[1] \in Nat /\ p[2] \in Nat
        OBVIOUS
      <4> QED
        BY <4>1 DEF Earlier
    <3> QED
      BY <1>3, <3>1
  <2>3. Before(p) # Before(q)
    BY <2>2
  <2>4. Cardinality(Before(p)) < Cardinality(Before(q))
    <3> HIDE DEF Before
    <3> QED
      BY <1>2, <2>1, <2>3, FS_Subset
  <2> HIDE DEF Before
  <2> QED
    BY <1>0, <1>2, <2>4
<1>4. ASSUME NEW p \in S, NEW q \in S, f[p] = f[q]
      PROVE  p = q
  <2>1. ~ Earlier(p, q) /\ ~ Earlier(q, p)
    <3>1. f[p] \in Nat /\ f[q] \in Nat
      <4> HIDE DEF Before
      <4> QED
        BY <1>0, <1>2
    <3> QED
      BY <1>3, <1>4, <3>1
  <2>2. p[1] \in Nat /\ p[2] \in Nat /\ q[1] \in Nat /\ q[2] \in Nat
    OBVIOUS
  <2>3. p[1] = q[1] /\ p[2] = q[2]
    BY <2>1, <2>2 DEF Earlier
  <2> QED
    BY <2>3
<1>5. f \in [S -> 1 .. Cardinality(S)]
  <2>1. ASSUME NEW p \in S
        PROVE  Cardinality(Before(p)) + 1 \in 1 .. Cardinality(S)
    <3> HIDE DEF Before
    <3> QED
      BY <1>1, <1>2
  <2> QED
    BY <2>1 DEF f
<1>6. \A k \in 1 .. Cardinality(S) : \E p \in S : f[p] = k
  BY <1>4, <1>5, NumbersTaken
<1>7. ASSUME NEW k \in 1 .. Cardinality(S)
      PROVE  NthPair(S, k) \in S /\ f[NthPair(S, k)] = k
  <2>1. PICK p \in S : f[p] = k
    BY <1>6
  <2>2. Cardinality({q \in S : Earlier(q, p)}) = k - 1
    <3>1. Cardinality(Before(p)) = k - 1
      <4> HIDE DEF Before
      <4> QED
        BY <1>0, <1>2, <2>1
    <3> QED
      BY <3>1
  <2>3. NthPair(S, k) \in S /\ Cardinality({q \in S : Earlier(q, NthPair(S, k))}) = k - 1
    BY <2>2 DEF NthPair
  <2>4. f[NthPair(S, k)] = Cardinality(Before(NthPair(S, k))) + 1
    BY <1>0, <2>3
  <2> QED
    BY <2>3, <2>4
<1>8. ASSUME NEW p \in S
      PROVE  \E k \in 1 .. Cardinality(S) : NthPair(S, k) = p
  <2>1. f[p] \in 1 .. Cardinality(S)
    BY <1>5
  <2>2. NthPair(S, f[p]) \in S /\ f[NthPair(S, f[p])] = f[p]
    BY <1>7, <2>1
  <2> QED
    BY <1>4, <2>1, <2>2
<1> QED
  BY <1>1, <1>7, <1>8

-----------------------------------------------------------------------------
(* Comparing values: of one kind, but for NULL, compareForSort is an order. *)

SameKind(a, b) == "NULL" \in {a.kind, b.kind} \/ a.kind = b.kind

\* A field is a value; only NULL itself has the kind of NULL.
LEMMA FieldParts ==
    ASSUME NEW a \in Field
    PROVE  a \in Value /\ a.kind \in Kinds /\ a.data \in Int /\ (a.kind = "NULL" => a = NULL)
BY DEF Field, Value

\* compareForSort answers less, equal or greater, and the reverse when turned round.
LEMMA CompareType ==
    ASSUME NEW a \in Field, NEW b \in Field
    PROVE  /\ compareForSort(a, b) \in {-1, 0, 1}
           /\ compareForSort(b, a) = -compareForSort(a, b)
<1>1. /\ a.kind \in Kinds /\ a.data \in Int
      /\ b.kind \in Kinds /\ b.data \in Int
  BY FieldParts
<1>2. toDouble(a) \in Int /\ toDouble(b) \in Int
  BY <1>1 DEF toDouble
<1>3. CASE "NULL" \in {a.kind, b.kind}
  BY <1>3 DEF compareForSort
<1>4. CASE "NULL" \notin {a.kind, b.kind} /\ {a.kind, b.kind} = {"TEXT"}
  <2>1. /\ compareForSort(a, b) = Sign(a.data - b.data)
        /\ compareForSort(b, a) = Sign(b.data - a.data)
    BY <1>4 DEF compareForSort
  <2> QED
    BY <1>1, <2>1 DEF Sign
<1>5. CASE "NULL" \notin {a.kind, b.kind} /\ {a.kind, b.kind} # {"TEXT"}
  <2>1. {b.kind, a.kind} # {"TEXT"} /\ "NULL" \notin {b.kind, a.kind}
    BY <1>5
  <2>2. /\ compareForSort(a, b) = Sign(toDouble(a) - toDouble(b))
        /\ compareForSort(b, a) = Sign(toDouble(b) - toDouble(a))
    BY <1>5, <2>1 DEF compareForSort
  <2> QED
    BY <1>2, <2>2 DEF Sign
<1> QED
  BY <1>3, <1>4, <1>5

\* The number that decides between values of one kind.
Key(v) == IF v.kind = "TEXT" THEN v.data ELSE toDouble(v)

\* Values of one kind are compared by their data.
LEMMA CompareKeys ==
    ASSUME NEW a \in Field, NEW b \in Field, SameKind(a, b),
           a.kind # "NULL", b.kind # "NULL"
    PROVE  /\ Key(a) \in Int /\ Key(b) \in Int
           /\ Key(a) = a.data /\ Key(b) = b.data
           /\ compareForSort(a, b) = Sign(Key(a) - Key(b))
<1>1. a.kind = b.kind /\ a.kind \in Kinds /\ a.data \in Int /\ b.data \in Int
  BY FieldParts DEF SameKind
<1>2. Key(a) = a.data /\ Key(b) = b.data
  BY <1>1 DEF Key, toDouble, Kinds
<1>3. CASE a.kind = "TEXT"
  BY <1>1, <1>2, <1>3 DEF compareForSort
<1>4. CASE a.kind # "TEXT"
  <2>1. {a.kind, b.kind} # {"TEXT"} /\ "NULL" \notin {a.kind, b.kind}
    BY <1>1, <1>4
  <2>2. compareForSort(a, b) = Sign(toDouble(a) - toDouble(b))
    BY <2>1 DEF compareForSort
  <2> QED
    BY <1>1, <1>2, <1>4, <2>2 DEF Key
<1> QED
  BY <1>1, <1>2, <1>3, <1>4

\* compareForSort is transitive on NULL and values of one kind, and equal only if
\* equal all the way.
LEMMA CompareOrders ==
    ASSUME NEW a \in Field, NEW b \in Field, NEW c \in Field,
           SameKind(a, b), SameKind(b, c), SameKind(a, c),
           compareForSort(a, b) <= 0, compareForSort(b, c) <= 0
    PROVE  /\ compareForSort(a, c) <= 0
           /\ compareForSort(a, c) = 0 => compareForSort(a, b) = 0 /\ compareForSort(b, c) = 0
           /\ compareForSort(a, b) = 0 /\ compareForSort(b, c) = 0 => compareForSort(a, c) = 0
<1>1. CASE a.kind = "NULL"
  BY <1>1 DEF compareForSort
<1>2. CASE a.kind # "NULL" /\ b.kind = "NULL"
  BY <1>2 DEF compareForSort
<1>3. CASE a.kind # "NULL" /\ b.kind # "NULL" /\ c.kind = "NULL"
  BY <1>3 DEF compareForSort
<1>4. CASE a.kind # "NULL" /\ b.kind # "NULL" /\ c.kind # "NULL"
  <2>1. /\ Key(a) \in Int /\ Key(b) \in Int /\ Key(c) \in Int
        /\ compareForSort(a, b) = Sign(Key(a) - Key(b))
        /\ compareForSort(b, c) = Sign(Key(b) - Key(c))
        /\ compareForSort(a, c) = Sign(Key(a) - Key(c))
    BY <1>4, CompareKeys
  <2> HIDE DEF Key
  <2> QED
    BY <2>1 DEF Sign
<1> QED
  BY <1>1, <1>2, <1>3, <1>4

-----------------------------------------------------------------------------
(* Rows of one shape, and the order ORDER BY puts them in.                 *)

\* Rows of the same length whose columns hold values of one kind each.
Alike(rows) ==
    /\ rows \in Seq(Seq(Field))
    /\ \A i, j \in DOMAIN rows :
         /\ Len(rows[i]) = Len(rows[j])
         /\ \A c \in DOMAIN rows[i] : SameKind(rows[i][c], rows[j][c])

SortKey     == [index : Nat, ascending : BOOLEAN]
SortKeyList == Seq(SortKey)

\* The keys of ORDER BY, one by one.
LEMMA KeyListParts ==
    ASSUME NEW keys \in SortKeyList
    PROVE  /\ DOMAIN keys = 1 .. Len(keys) /\ Len(keys) \in Nat
           /\ \A k \in DOMAIN keys : keys[k] \in SortKey
BY DEF SortKeyList

\* Alike rows have the same positions, and fields of one kind at each.
LEMMA AlikeParts ==
    ASSUME NEW rows, Alike(rows), NEW i \in DOMAIN rows, NEW j \in DOMAIN rows
    PROVE  /\ rows[i] \in Seq(Field) /\ DOMAIN rows[i] = DOMAIN rows[j]
           /\ \A c \in DOMAIN rows[i] : rows[i][c] \in Field /\ SameKind(rows[i][c], rows[j][c])
<1>1. rows[i] \in Seq(Field) /\ rows[j] \in Seq(Field)
  BY DEF Alike
<1> QED
  BY <1>1 DEF Alike

\* Two zeroes are each the negation of the other.
LEMMA Opposite ==
    ASSUME NEW x, NEW y, x = 0, y = 0
    PROVE  x \in {-1, 0, 1} /\ y = -x
<1>0. x \in {-1, 0, 1}
  OBVIOUS
<1>1. \A a \in Int : -a = 0 - a
  OBVIOUS
<1>2. x \in Int /\ 0 - x = 0
  OBVIOUS
<1>3. y = -x
  BY <1>1, <1>2, Zenon
<1> QED
  BY <1>0, <1>3, Zenon

\* One key orders two alike rows, and the reverse when they are swapped.
LEMMA KeyOrderType ==
    ASSUME NEW rows, Alike(rows), NEW i \in DOMAIN rows, NEW j \in DOMAIN rows,
           NEW key \in SortKey
    PROVE  /\ KeyOrder(rows[i], rows[j], key) \in {-1, 0, 1}
           /\ KeyOrder(rows[j], rows[i], key) = -KeyOrder(rows[i], rows[j], key)
<1>1. DOMAIN rows[i] = DOMAIN rows[j]
  BY AlikeParts
<1>2. CASE key.index \notin DOMAIN rows[i]
  <2>1. KeyOrder(rows[i], rows[j], key) = 0 /\ KeyOrder(rows[j], rows[i], key) = 0
    BY <1>1, <1>2, Zenon DEF KeyOrder
  <2> QED
    BY <2>1, Opposite
<1>3. CASE key.index \in DOMAIN rows[i]
  <2> DEFINE a == rows[i][key.index]
             b == rows[j][key.index]
  <2>1. a \in Field /\ b \in Field
    BY <1>1, <1>3, AlikeParts
  <2>2. KeyOrder(rows[i], rows[j], key) = compareForSort(a, b) /\ KeyOrder(rows[j], rows[i], key) = compareForSort(b, a)
    BY <1>1, <1>3 DEF KeyOrder
  <2> HIDE DEF a, b
  <2> QED
    BY <2>1, <2>2, CompareType
<1> QED
  BY <1>2, <1>3

\* The order of two rows by one key, its direction included.
Toward(a, b, key) == IF key.ascending THEN KeyOrder(a, b, key) ELSE KeyOrder(b, a, key)

\* One key, in its direction, is a transitive order of alike rows.
LEMMA TowardOrders ==
    ASSUME NEW rows, Alike(rows), NEW key \in SortKey,
           NEW i \in DOMAIN rows, NEW j \in DOMAIN rows, NEW k \in DOMAIN rows
    PROVE  /\ Toward(rows[i], rows[j], key) \in {-1, 0, 1}
           /\ Toward(rows[j], rows[i], key) = -Toward(rows[i], rows[j], key)
           /\ Toward(rows[i], rows[j], key) <= 0 /\ Toward(rows[j], rows[k], key) <= 0 =>
                /\ Toward(rows[i], rows[k], key) <= 0
                /\ Toward(rows[i], rows[k], key) = 0 =>
                     Toward(rows[i], rows[j], key) = 0 /\ Toward(rows[j], rows[k], key) = 0
                /\ Toward(rows[i], rows[j], key) = 0 /\ Toward(rows[j], rows[k], key) = 0 =>
                     Toward(rows[i], rows[k], key) = 0
<1> DEFINE o(x, y) == KeyOrder(rows[x], rows[y], key)
<1>1. ASSUME NEW x \in DOMAIN rows, NEW y \in DOMAIN rows
      PROVE  o(x, y) \in {-1, 0, 1} /\ o(y, x) = -o(x, y)
  BY KeyOrderType
<1>2. ASSUME NEW x \in DOMAIN rows, NEW y \in DOMAIN rows, NEW z \in DOMAIN rows,
             o(x, y) <= 0, o(y, z) <= 0
      PROVE  /\ o(x, z) <= 0
             /\ o(x, z) = 0 => o(x, y) = 0 /\ o(y, z) = 0
             /\ o(x, y) = 0 /\ o(y, z) = 0 => o(x, z) = 0
  <2>1. DOMAIN rows[x] = DOMAIN rows[y] /\ DOMAIN rows[y] = DOMAIN rows[z]
    BY AlikeParts
  <2>2. CASE key.index \notin DOMAIN rows[x]
    BY <2>1, <2>2 DEF KeyOrder
  <2>3. CASE key.index \in DOMAIN rows[x]
    <3> DEFINE a == rows[x][key.index]
               b == rows[y][key.index]
               c == rows[z][key.index]
    <3>1. /\ a \in Field /\ b \in Field /\ c \in Field
          /\ SameKind(a, b) /\ SameKind(b, c) /\ SameKind(a, c)
      BY <2>1, <2>3, AlikeParts
    <3>2. /\ o(x, y) = compareForSort(a, b)
          /\ o(y, z) = compareForSort(b, c)
          /\ o(x, z) = compareForSort(a, c)
      BY <2>1, <2>3 DEF KeyOrder
    <3> HIDE DEF a, b, c, o
    <3> QED
      BY <1>2, <3>1, <3>2, CompareOrders
  <2> QED
    BY <2>2, <2>3
<1>3. CASE key.ascending
  <2> HIDE DEF o
  <2>1. ASSUME NEW x \in DOMAIN rows, NEW y \in DOMAIN rows
        PROVE  Toward(rows[x], rows[y], key) = o(x, y)
    BY <1>3 DEF Toward, o
  <2> QED
    BY <1>1, <1>2, <2>1
<1>4. CASE ~ key.ascending
  <2> HIDE DEF o
  <2>1. ASSUME NEW x \in DOMAIN rows, NEW y \in DOMAIN rows
        PROVE  Toward(rows[x], rows[y], key) = o(y, x)
    BY <1>4 DEF Toward, o
  <2>2. Toward(rows[i], rows[j], key) \in {-1, 0, 1} /\ Toward(rows[j], rows[i], key) = -Toward(rows[i], rows[j], key)
    BY <1>1, <2>1
  <2>3. o(k, j) <= 0 /\ o(j, i) <= 0 =>
          /\ o(k, i) <= 0
          /\ o(k, i) = 0 => o(k, j) = 0 /\ o(j, i) = 0
          /\ o(k, j) = 0 /\ o(j, i) = 0 => o(k, i) = 0
    BY <1>2
  <2>4. /\ Toward(rows[i], rows[j], key) = o(j, i)
        /\ Toward(rows[j], rows[k], key) = o(k, j)
        /\ Toward(rows[i], rows[k], key) = o(k, i)
    BY <2>1
  <2> QED
    BY <2>2, <2>3, <2>4
<1> QED
  BY <1>3, <1>4

\* One row is before another by the first key that tells them apart.
LEMMA RowBeforeIs ==
    ASSUME NEW rows, Alike(rows), NEW keys \in SortKeyList,
           NEW i \in DOMAIN rows, NEW j \in DOMAIN rows
    PROVE  RowBefore(rows[i], rows[j], keys) <=>
             \E k \in DOMAIN keys : /\ Toward(rows[i], rows[j], keys[k]) = -1
                                    /\ \A m \in 1 .. k - 1 : Toward(rows[i], rows[j], keys[m]) = 0
<1>1. ASSUME NEW k \in DOMAIN keys
      PROVE  /\ Toward(rows[i], rows[j], keys[k]) = -1 <=>
                  KeyOrder(rows[i], rows[j], keys[k]) = IF keys[k].ascending THEN -1 ELSE 1
             /\ Toward(rows[i], rows[j], keys[k]) = 0 <=> KeyOrder(rows[i], rows[j], keys[k]) = 0
  <2>1. keys[k] \in SortKey
    BY KeyListParts
  <2>2. /\ KeyOrder(rows[i], rows[j], keys[k]) \in {-1, 0, 1}
        /\ KeyOrder(rows[j], rows[i], keys[k]) = -KeyOrder(rows[i], rows[j], keys[k])
    BY <2>1, KeyOrderType
  <2>3. keys[k].ascending \in BOOLEAN
    BY <2>1 DEF SortKey
  <2> QED
    BY <2>2, <2>3 DEF Toward
<1>2. \A k \in DOMAIN keys : \A m \in 1 .. k - 1 : m \in DOMAIN keys
  <2>1. DOMAIN keys = 1 .. Len(keys) /\ Len(keys) \in Nat
    BY KeyListParts
  <2> QED
    BY <2>1
<1> QED
  BY <1>1, <1>2 DEF RowBefore

\* All keys together are a strict weak order of alike rows: what std::stable_sort
\* requires of its comparison.
LEMMA RowsOrdered ==
    ASSUME NEW rows, Alike(rows), NEW keys \in SortKeyList,
           NEW i \in DOMAIN rows, NEW j \in DOMAIN rows
    PROVE  /\ ~ (RowBefore(rows[i], rows[j], keys) /\ RowBefore(rows[j], rows[i], keys))
           /\ \A k \in DOMAIN rows :
                RowBefore(rows[i], rows[k], keys) =>
                    RowBefore(rows[i], rows[j], keys) \/ RowBefore(rows[j], rows[k], keys)
<1> DEFINE t(x, y, n) == Toward(rows[x], rows[y], keys[n])
           B(x, y) == RowBefore(rows[x], rows[y], keys)
<1>1. DOMAIN keys = 1 .. Len(keys) /\ Len(keys) \in Nat
  BY KeyListParts
<1>2. ASSUME NEW x \in DOMAIN rows, NEW y \in DOMAIN rows, NEW z \in DOMAIN rows, NEW n \in DOMAIN keys
      PROVE  /\ t(x, y, n) \in {-1, 0, 1}
             /\ t(y, x, n) = -t(x, y, n)
             /\ t(x, y, n) <= 0 /\ t(y, z, n) <= 0 =>
                  /\ t(x, z, n) <= 0
                  /\ t(x, z, n) = 0 => t(x, y, n) = 0 /\ t(y, z, n) = 0
                  /\ t(x, y, n) = 0 /\ t(y, z, n) = 0 => t(x, z, n) = 0
  <2>1. keys[n] \in SortKey
    BY KeyListParts
  <2> QED
    BY <2>1, TowardOrders
<1>3. ASSUME NEW x \in DOMAIN rows, NEW y \in DOMAIN rows
      PROVE  B(x, y) <=> \E n \in DOMAIN keys : t(x, y, n) = -1 /\ \A m \in 1 .. n - 1 : t(x, y, m) = 0
  BY RowBeforeIs
<1> HIDE DEF t, B
<1>4. ~ (B(i, j) /\ B(j, i))
  <2> SUFFICES ASSUME B(i, j), B(j, i)
               PROVE  FALSE
    OBVIOUS
  <2>1. PICK n \in DOMAIN keys : t(i, j, n) = -1 /\ \A m \in 1 .. n - 1 : t(i, j, m) = 0
    BY <1>3
  <2>2. PICK p \in DOMAIN keys : t(j, i, p) = -1 /\ \A m \in 1 .. p - 1 : t(j, i, m) = 0
    BY <1>3
  <2>3. n \in 1 .. p - 1 \/ p \in 1 .. n - 1 \/ n = p
    BY <1>1
  <2>4. t(j, i, n) = 1 /\ t(i, j, p) = 1
    BY <1>2, <2>1, <2>2
  <2> QED
    BY <2>1, <2>2, <2>3, <2>4
<1>5. ASSUME NEW k \in DOMAIN rows, B(i, k), ~ B(i, j), ~ B(j, k)
      PROVE  FALSE
  <2>1. PICK n \in DOMAIN keys : t(i, k, n) = -1 /\ \A m \in 1 .. n - 1 : t(i, k, m) = 0
    BY <1>3, <1>5
  <2> DEFINE D == {m \in 1 .. n : t(i, j, m) # 0 \/ t(j, k, m) # 0}
  <2>2. CASE D = {}
    <3>1. t(i, j, n) = 0 /\ t(j, k, n) = 0
      BY <1>1, <2>2
    <3> QED
      BY <1>2, <2>1, <3>1
  <2>3. CASE D # {}
    <3>1. PICK m \in D : \A y \in D : m <= y
      <4>1. D \subseteq Nat
        BY <1>1
      <4> HIDE DEF D
      <4> QED
        BY <2>3, <4>1, MinIsLeast
    <3>2. m \in 1 .. n /\ m \in DOMAIN keys /\ (t(i, j, m) # 0 \/ t(j, k, m) # 0)
      BY <1>1, <3>1
    <3>3. \A l \in 1 .. m - 1 : t(i, j, l) = 0 /\ t(j, k, l) = 0
      <4> SUFFICES ASSUME NEW l \in 1 .. m - 1, l \in D
                   PROVE  FALSE
        BY <1>1, <3>2
      <4> HIDE DEF D
      <4> QED
        BY <1>1, <3>1, <3>2
    <3>4. t(i, j, m) # -1 /\ t(j, k, m) # -1
      BY <1>3, <1>5, <3>2, <3>3
    <3>5. /\ t(i, j, m) \in {0, 1} /\ t(j, k, m) \in {0, 1}
          /\ t(j, i, m) = -t(i, j, m) /\ t(k, j, m) = -t(j, k, m) /\ t(k, i, m) = -t(i, k, m)
      BY <1>2, <3>2, <3>4
    <3>6. t(i, k, m) <= 0
      <4>1. m = n \/ m \in 1 .. n - 1
        BY <1>1, <3>2
      <4> QED
        BY <2>1, <4>1
    <3>7. t(k, j, m) <= 0 /\ t(j, i, m) <= 0
      BY <3>5
    <3>8. t(k, i, m) <= 0 /\ (t(k, i, m) = 0 => t(k, j, m) = 0 /\ t(j, i, m) = 0)
      BY <1>2, <3>2, <3>7
    <3>9. t(k, i, m) \in {-1, 0, 1} /\ t(i, k, m) \in {-1, 0, 1}
      BY <1>2, <3>2
    <3>10. t(k, i, m) = 0
      BY <3>5, <3>6, <3>8, <3>9
    <3>11. t(i, j, m) = 0 /\ t(j, k, m) = 0
      BY <3>5, <3>8, <3>10
    <3> QED
      BY <3>2, <3>11
  <2> QED
    BY <2>2, <2>3
<1>6. \A k \in DOMAIN rows : B(i, k) => B(i, j) \/ B(j, k)
  BY <1>5
<1> QED
  BY <1>4, <1>6 DEF B

\* Whether stable_sort leaves the j-th row no later than the i-th.
NoLater(rows, keys, j, i) ==
    \/ RowBefore(rows[j], rows[i], keys)
    \/ j <= i /\ ~RowBefore(rows[i], rows[j], keys)

\* By keys first and by position second, alike rows are in a total order.
LEMMA NoLaterOrders ==
    ASSUME NEW rows, Alike(rows), NEW keys \in SortKeyList,
           NEW i \in DOMAIN rows, NEW j \in DOMAIN rows
    PROVE  /\ NoLater(rows, keys, i, i)
           /\ NoLater(rows, keys, i, j) \/ NoLater(rows, keys, j, i)
           /\ NoLater(rows, keys, i, j) => ~RowBefore(rows[j], rows[i], keys)
           /\ NoLater(rows, keys, i, j) /\ NoLater(rows, keys, j, i) => i = j
           /\ \A k \in DOMAIN rows :
                NoLater(rows, keys, i, j) /\ NoLater(rows, keys, j, k) => NoLater(rows, keys, i, k)
<1> DEFINE B(x, y) == RowBefore(rows[x], rows[y], keys)
<1>1. DOMAIN rows \subseteq Nat
  BY DEF Alike
<1>2. ASSUME NEW x \in DOMAIN rows, NEW y \in DOMAIN rows
      PROVE  /\ ~ (B(x, y) /\ B(y, x))
             /\ \A z \in DOMAIN rows : B(x, z) => B(x, y) \/ B(y, z)
  BY RowsOrdered
<1>3. ASSUME NEW x \in DOMAIN rows, NEW y \in DOMAIN rows
      PROVE  NoLater(rows, keys, x, y) <=> B(x, y) \/ (x <= y /\ ~B(y, x))
  BY DEF NoLater
<1> HIDE DEF B
<1>4. NoLater(rows, keys, i, i)
  BY <1>1, <1>2, <1>3
<1>5. NoLater(rows, keys, i, j) \/ NoLater(rows, keys, j, i)
  BY <1>1, <1>2, <1>3
<1>6. NoLater(rows, keys, i, j) => ~B(j, i)
  BY <1>2, <1>3
<1>7. NoLater(rows, keys, i, j) /\ NoLater(rows, keys, j, i) => i = j
  BY <1>1, <1>2, <1>3
<1>8. ASSUME NEW k \in DOMAIN rows, NoLater(rows, keys, i, j), NoLater(rows, keys, j, k)
      PROVE  NoLater(rows, keys, i, k)
  <2>1. ~B(j, i) /\ ~B(k, j)
    BY <1>2, <1>3, <1>8
  <2>2. ~B(k, i)
    BY <1>2, <2>1
  <2>3. CASE B(i, j)
    <3>1. B(i, k) \/ B(k, j)
      BY <1>2, <2>3
    <3> QED
      BY <1>3, <2>1, <3>1
  <2>4. CASE B(j, k)
    <3>1. B(j, i) \/ B(i, k)
      BY <1>2, <2>4
    <3> QED
      BY <1>3, <2>1, <3>1
  <2>5. CASE ~B(i, j) /\ ~B(j, k)
    <3>1. i <= j /\ j <= k
      BY <1>3, <1>8, <2>5
    <3> QED
      BY <1>1, <1>3, <2>2, <3>1
  <2> QED
    BY <2>3, <2>4, <2>5
<1> QED
  BY <1>4, <1>5, <1>6, <1>7, <1>8 DEF B

\* Every row has a place of its own, and every place is taken.
LEMMA PlacesTaken ==
    ASSUME NEW rows, Alike(rows), NEW keys \in SortKeyList
    PROVE  /\ \A i \in DOMAIN rows : Place(rows, i, keys) \in DOMAIN rows
           /\ \A i, j \in DOMAIN rows : Place(rows, i, keys) = Place(rows, j, keys) => i = j
           /\ \A i, j \in DOMAIN rows :
                Place(rows, i, keys) < Place(rows, j, keys) => NoLater(rows, keys, i, j)
           /\ \A p \in DOMAIN rows : \E i \in DOMAIN rows : Place(rows, i, keys) = p
<1> DEFINE R == DOMAIN rows
           A(i) == {j \in R : NoLater(rows, keys, j, i)}
           f == [i \in R |-> Cardinality(A(i))]
<1>1. Len(rows) \in Nat /\ R = 1 .. Len(rows)
  BY DEF Alike
<1>2. IsFiniteSet(R) /\ Cardinality(R) = Len(rows)
  <2>1. Cardinality(1 .. Len(rows)) = IF 1 > Len(rows) THEN 0 ELSE Len(rows) - 1 + 1
    BY <1>1, FS_Interval, 1 \in Int, Len(rows) \in Int
  <2>2. IsFiniteSet(1 .. Len(rows))
    BY <1>1, FS_Interval, 1 \in Int, Len(rows) \in Int
  <2> QED
    BY <1>1, <2>1, <2>2
<1>3. \A i \in R : Place(rows, i, keys) = Cardinality(A(i))
  BY DEF Place, NoLater
<1>4. ASSUME NEW i \in R
      PROVE  IsFiniteSet(A(i)) /\ Cardinality(A(i)) \in 1 .. Len(rows)
  <2>1. A(i) \subseteq R /\ i \in A(i)
    BY NoLaterOrders
  <2> HIDE DEF A, R
  <2>2. IsFiniteSet(A(i)) /\ Cardinality(A(i)) <= Cardinality(R)
    BY <1>2, <2>1, FS_Subset
  <2>3. Cardinality(A(i)) \in Nat /\ Cardinality(A(i)) # 0
    BY <2>1, <2>2, FS_CardinalityType, FS_EmptySet
  <2> QED
    BY <1>1, <1>2, <2>2, <2>3
<1>5. ASSUME NEW i \in R, NEW j \in R, i # j, NoLater(rows, keys, i, j)
      PROVE  Cardinality(A(i)) < Cardinality(A(j))
  <2>1. A(i) \subseteq A(j)
    BY <1>5, NoLaterOrders
  <2>2. j \in A(j) /\ j \notin A(i)
    BY <1>5, NoLaterOrders
  <2>3. A(i) # A(j)
    BY <2>2
  <2> HIDE DEF A, R
  <2> QED
    BY <1>4, <2>1, <2>3, FS_Subset
<1>6. ASSUME NEW i \in R, NEW j \in R, Cardinality(A(i)) <= Cardinality(A(j))
      PROVE  NoLater(rows, keys, i, j)
  <2>1. CASE i = j
    BY <2>1, NoLaterOrders
  <2>2. CASE i # j /\ ~NoLater(rows, keys, i, j)
    <3>1. NoLater(rows, keys, j, i)
      BY <2>2, NoLaterOrders
    <3>2. Cardinality(A(j)) < Cardinality(A(i))
      BY <1>5, <2>2, <3>1
    <3> HIDE DEF A
    <3> QED
      BY <1>1, <1>4, <1>6, <3>2
  <2> QED
    BY <2>1, <2>2
<1>7. ASSUME NEW i \in R, NEW j \in R, Cardinality(A(i)) = Cardinality(A(j))
      PROVE  i = j
  <2>1. Cardinality(A(i)) <= Cardinality(A(j)) /\ Cardinality(A(j)) <= Cardinality(A(i))
    <3> HIDE DEF A
    <3> QED
      BY <1>1, <1>4, <1>7
  <2>2. NoLater(rows, keys, i, j) /\ NoLater(rows, keys, j, i)
    BY <1>6, <2>1
  <2> QED
    BY <2>2, NoLaterOrders
<1>8. \A p \in 1 .. Cardinality(R) : \E i \in R : f[i] = p
  <2>1. f \in [R -> 1 .. Cardinality(R)]
    BY <1>1, <1>2, <1>4
  <2>2. \A i, j \in R : f[i] = f[j] => i = j
    BY <1>7
  <2> HIDE DEF f
  <2> QED
    BY <1>2, <2>1, <2>2, NumbersTaken
<1>9. \A i, j \in R : Place(rows, i, keys) < Place(rows, j, keys) => NoLater(rows, keys, i, j)
  <2>1. ASSUME NEW i \in R, NEW j \in R, Cardinality(A(i)) < Cardinality(A(j))
        PROVE  Cardinality(A(i)) <= Cardinality(A(j))
    <3> HIDE DEF A
    <3> QED
      BY <1>1, <1>4, <2>1
  <2> QED
    BY <1>3, <1>6, <2>1
<1>10. \A i \in R : Place(rows, i, keys) \in R
  <2> HIDE DEF A
  <2> QED
    BY <1>1, <1>3, <1>4
<1>11. \A i, j \in R : Place(rows, i, keys) = Place(rows, j, keys) => i = j
  BY <1>3, <1>7
<1>12. \A p \in R : \E i \in R : Place(rows, i, keys) = p
  <2> HIDE DEF A
  <2> QED
    BY <1>1, <1>2, <1>3, <1>8
<1> QED
  BY <1>9, <1>10, <1>11, <1>12

\* The row that is put at p.
Source(rows, keys, p) == CHOOSE i \in DOMAIN rows : Place(rows, i, keys) = p

\* StableSort puts every row somewhere, none twice, and none before a lesser.
LEMMA SortedRows ==
    ASSUME NEW rows, Alike(rows), NEW keys \in SortKeyList, NEW p \in DOMAIN rows
    PROVE  /\ StableSort(rows, keys)[p] = rows[Source(rows, keys, p)]
           /\ Source(rows, keys, p) \in DOMAIN rows
           /\ Place(rows, Source(rows, keys, p), keys) = p
<1>1. \E i \in DOMAIN rows : Place(rows, i, keys) = p
  BY PlacesTaken
<1> QED
  BY <1>1 DEF StableSort, Source

\* Sorting gives as many rows, made of the same fields.
LEMMA SortType ==
    ASSUME NEW rows, Alike(rows), NEW keys \in SortKeyList
    PROVE  /\ StableSort(rows, keys) \in Seq(Seq(Field))
           /\ DOMAIN StableSort(rows, keys) = DOMAIN rows
           /\ Len(StableSort(rows, keys)) = Len(rows)
<1>1. Len(rows) \in Nat /\ DOMAIN rows = 1 .. Len(rows)
  BY DEF Alike
<1>2. \A p \in 1 .. Len(rows) : rows[Source(rows, keys, p)] \in Seq(Field)
  <2>1. \A i \in DOMAIN rows : rows[i] \in Seq(Field)
    BY DEF Alike
  <2> QED
    BY <1>1, <2>1, SortedRows
<1>3. StableSort(rows, keys) = [p \in 1 .. Len(rows) |-> rows[Source(rows, keys, p)]]
  BY <1>1 DEF StableSort, Source
<1> QED
  BY <1>1, <1>2, <1>3

LeastStep(col) == [p \in Field \X (1 .. Len(col)) |-> Least(p[1], col[p[2]])]

\* MIN goes through the column once.
LEMMA LeastTrace ==
    ASSUME NEW col \in Seq(Field), NEW b \in Field
    PROVE  Yields(FoldLeft(Least, b, col), Len(col), Field, b, LeastStep(col))
<1> DEFINE n == Len(col)
           D == SUBSET (1 .. n)
           Body(f) == [s \in D |-> IF s = {} THEN b ELSE Least(f[s \ {Max(s)}], col[Max(s)])]
           it == CHOOSE f : f = Body(f)
<1>1. n \in Nat /\ DOMAIN col = 1 .. n /\ \A i \in 1 .. n : col[i] \in Field
  OBVIOUS
<1>2. LeastStep(col) \in [Field \X (1 .. n) -> Field]
  <2>1. ASSUME NEW x \in Field, NEW y \in Field
        PROVE  Least(x, y) \in Field
    BY DEF Least
  <2> QED
    BY <1>1, <2>1 DEF LeastStep
<1>3. FoldLeft(Least, b, col) = it[1 .. n]
  <2>1. FoldLeft(Least, b, col) =
          LET h[s \in SUBSET DOMAIN col] == IF s = {} THEN b ELSE Least(h[s \ {Max(s)}], col[Max(s)])
          IN  h[DOMAIN col]
    BY Zenon DEF FoldLeft, MapThenFoldSet
  <2> QED
    BY <1>1, <2>1, Zenon
<1>4. ASSUME NEW f, NEW s \in D, s # {}, f[s \ {Max(s)}] \in Field
      PROVE  LeastStep(col)[<<f[s \ {Max(s)}], Max(s)>>] = Least(f[s \ {Max(s)}], col[Max(s)])
  <2>1. Max(s) \in 1 .. n
    BY <1>1, <1>4, MaxIsGreatest
  <2> QED
    BY <1>4, <2>1 DEF LeastStep
<1>5. it = Body(it)
  <2>1. PICK f \in [D -> Field] :
          \A s \in D : f[s] = IF s = {} THEN b ELSE LeastStep(col)[<<f[s \ {Max(s)}], Max(s)>>]
    <3> HIDE DEF n
    <3>1. n \in Nat /\ b \in Field
      BY <1>1
    <3>2. Recurses(n, Field, b, LeastStep(col))
      BY <1>2, <3>1, FoldExists
    <3> QED
      BY <3>2 DEF Recurses
  <2>2. \A s \in D : f[s] = IF s = {} THEN b ELSE Least(f[s \ {Max(s)}], col[Max(s)])
    BY <1>4, <2>1
  <2>3. f = Body(f)
    BY <2>1, <2>2
  <2> HIDE DEF Body
  <2> QED
    BY <2>3, Zenon
<1> HIDE DEF it
<1>6. \A s \in D : it[s] = LET f == it IN IF s = {} THEN b ELSE Least(f[s \ {Max(s)}], col[Max(s)])
  BY <1>5
<1>7. it[{}] = b
  <2>1. {} \in D
    OBVIOUS
  <2> QED
    BY <1>6, <2>1, Zenon
<1>8. Unfolds(it, n, Field, b, LeastStep(col))
  BY <1>4, <1>6, <1>7 DEF Unfolds
<1> HIDE DEF n
<1>9. Yields(it[1 .. n], n, Field, b, LeastStep(col))
  <2>1. n \in Nat /\ b \in Field
    BY <1>1
  <2> QED
    BY <1>2, <1>8, <2>1, TraceOf
<1> QED
  BY <1>3, <1>9 DEF n

GreatestStep(col) == [p \in Field \X (1 .. Len(col)) |-> Greatest(p[1], col[p[2]])]

\* So does MAX.
LEMMA GreatestTrace ==
    ASSUME NEW col \in Seq(Field), NEW b \in Field
    PROVE  Yields(FoldLeft(Greatest, b, col), Len(col), Field, b, GreatestStep(col))
<1> DEFINE n == Len(col)
           D == SUBSET (1 .. n)
           Body(f) == [s \in D |-> IF s = {} THEN b ELSE Greatest(f[s \ {Max(s)}], col[Max(s)])]
           it == CHOOSE f : f = Body(f)
<1>1. n \in Nat /\ DOMAIN col = 1 .. n /\ \A i \in 1 .. n : col[i] \in Field
  OBVIOUS
<1>2. GreatestStep(col) \in [Field \X (1 .. n) -> Field]
  <2>1. ASSUME NEW x \in Field, NEW y \in Field
        PROVE  Greatest(x, y) \in Field
    BY DEF Greatest
  <2> QED
    BY <1>1, <2>1 DEF GreatestStep
<1>3. FoldLeft(Greatest, b, col) = it[1 .. n]
  <2>1. FoldLeft(Greatest, b, col) =
          LET h[s \in SUBSET DOMAIN col] == IF s = {} THEN b ELSE Greatest(h[s \ {Max(s)}], col[Max(s)])
          IN  h[DOMAIN col]
    BY Zenon DEF FoldLeft, MapThenFoldSet
  <2> QED
    BY <1>1, <2>1, Zenon
<1>4. ASSUME NEW f, NEW s \in D, s # {}, f[s \ {Max(s)}] \in Field
      PROVE  GreatestStep(col)[<<f[s \ {Max(s)}], Max(s)>>] = Greatest(f[s \ {Max(s)}], col[Max(s)])
  <2>1. Max(s) \in 1 .. n
    BY <1>1, <1>4, MaxIsGreatest
  <2> QED
    BY <1>4, <2>1 DEF GreatestStep
<1>5. it = Body(it)
  <2>1. PICK f \in [D -> Field] :
          \A s \in D : f[s] = IF s = {} THEN b ELSE GreatestStep(col)[<<f[s \ {Max(s)}], Max(s)>>]
    <3> HIDE DEF n
    <3>1. n \in Nat /\ b \in Field
      BY <1>1
    <3>2. Recurses(n, Field, b, GreatestStep(col))
      BY <1>2, <3>1, FoldExists
    <3> QED
      BY <3>2 DEF Recurses
  <2>2. \A s \in D : f[s] = IF s = {} THEN b ELSE Greatest(f[s \ {Max(s)}], col[Max(s)])
    BY <1>4, <2>1
  <2>3. f = Body(f)
    BY <2>1, <2>2
  <2> HIDE DEF Body
  <2> QED
    BY <2>3, Zenon
<1> HIDE DEF it
<1>6. \A s \in D : it[s] = LET f == it IN IF s = {} THEN b ELSE Greatest(f[s \ {Max(s)}], col[Max(s)])
  BY <1>5
<1>7. it[{}] = b
  <2>1. {} \in D
    OBVIOUS
  <2> QED
    BY <1>6, <2>1, Zenon
<1>8. Unfolds(it, n, Field, b, GreatestStep(col))
  BY <1>4, <1>6, <1>7 DEF Unfolds
<1> HIDE DEF n
<1>9. Yields(it[1 .. n], n, Field, b, GreatestStep(col))
  <2>1. n \in Nat /\ b \in Field
    BY <1>1
  <2> QED
    BY <1>2, <1>8, <2>1, TraceOf
<1> QED
  BY <1>3, <1>9 DEF n

SumStep(col) == [p \in Int \X (1 .. Len(col)) |-> p[1] + toDouble(col[p[2]])]

\* So do SUM and AVG.
LEMMA SumTrace ==
    ASSUME NEW col \in Seq(Field), NEW b \in Int
    PROVE  Yields(FoldLeft(LAMBDA s, v : s + toDouble(v), b, col), Len(col), Int, b, SumStep(col))
<1> DEFINE n == Len(col)
           D == SUBSET (1 .. n)
           Body(f) == [s \in D |-> IF s = {} THEN b ELSE f[s \ {Max(s)}] + toDouble(col[Max(s)])]
           it == CHOOSE f : f = Body(f)
<1>1. n \in Nat /\ DOMAIN col = 1 .. n /\ \A i \in 1 .. n : col[i] \in Field
  OBVIOUS
<1>2. SumStep(col) \in [Int \X (1 .. n) -> Int]
  <2>1. ASSUME NEW x \in Int, NEW y \in Field
        PROVE  x + toDouble(y) \in Int
    BY FieldParts DEF toDouble
  <2> QED
    BY <1>1, <2>1 DEF SumStep
<1>3. FoldLeft(LAMBDA s, v : s + toDouble(v), b, col) = it[1 .. n]
  <2>1. FoldLeft(LAMBDA s, v : s + toDouble(v), b, col) =
          LET h[s \in SUBSET DOMAIN col] == IF s = {} THEN b ELSE h[s \ {Max(s)}] + toDouble(col[Max(s)])
          IN  h[DOMAIN col]
    BY Zenon DEF FoldLeft, MapThenFoldSet
  <2> QED
    BY <1>1, <2>1, Zenon
<1>4. ASSUME NEW f, NEW s \in D, s # {}, f[s \ {Max(s)}] \in Int
      PROVE  SumStep(col)[<<f[s \ {Max(s)}], Max(s)>>] = f[s \ {Max(s)}] + toDouble(col[Max(s)])
  <2>1. Max(s) \in 1 .. n
    BY <1>1, <1>4, MaxIsGreatest
  <2> QED
    BY <1>4, <2>1 DEF SumStep
<1>5. it = Body(it)
  <2>1. PICK f \in [D -> Int] :
          \A s \in D : f[s] = IF s = {} THEN b ELSE SumStep(col)[<<f[s \ {Max(s)}], Max(s)>>]
    <3> HIDE DEF n
    <3>1. n \in Nat /\ b \in Int
      BY <1>1
    <3>2. Recurses(n, Int, b, SumStep(col))
      BY <1>2, <3>1, FoldExists
    <3> QED
      BY <3>2 DEF Recurses
  <2>2. \A s \in D : f[s] = IF s = {} THEN b ELSE f[s \ {Max(s)}] + toDouble(col[Max(s)])
    BY <1>4, <2>1
  <2>3. f = Body(f)
    BY <2>1, <2>2
  <2> HIDE DEF Body
  <2> QED
    BY <2>3, Zenon
<1> HIDE DEF it
<1>6. \A s \in D : it[s] = LET f == it IN IF s = {} THEN b ELSE f[s \ {Max(s)}] + toDouble(col[Max(s)])
  BY <1>5
<1>7. it[{}] = b
  <2>1. {} \in D
    OBVIOUS
  <2> QED
    BY <1>6, <2>1, Zenon
<1>8. Unfolds(it, n, Int, b, SumStep(col))
  BY <1>4, <1>6, <1>7 DEF Unfolds
<1> HIDE DEF n
<1>9. Yields(it[1 .. n], n, Int, b, SumStep(col))
  <2>1. n \in Nat /\ b \in Int
    BY <1>1
  <2> QED
    BY <1>2, <1>8, <2>1, TraceOf
<1> QED
  BY <1>3, <1>9 DEF n

DataStep(col) == [p \in Int \X (1 .. Len(col)) |-> p[1] + col[p[2]].data]

\* And what adds the data of a column up.
LEMMA DataTrace ==
    ASSUME NEW col \in Seq(Field), NEW b \in Int
    PROVE  Yields(FoldLeft(LAMBDA s, v : s + v.data, b, col), Len(col), Int, b, DataStep(col))
<1> DEFINE n == Len(col)
           D == SUBSET (1 .. n)
           Body(f) == [s \in D |-> IF s = {} THEN b ELSE f[s \ {Max(s)}] + col[Max(s)].data]
           it == CHOOSE f : f = Body(f)
<1>1. n \in Nat /\ DOMAIN col = 1 .. n /\ \A i \in 1 .. n : col[i] \in Field
  OBVIOUS
<1>2. DataStep(col) \in [Int \X (1 .. n) -> Int]
  <2>1. ASSUME NEW x \in Int, NEW y \in Field
        PROVE  x + y.data \in Int
    BY FieldParts
  <2> QED
    BY <1>1, <2>1 DEF DataStep
<1>3. FoldLeft(LAMBDA s, v : s + v.data, b, col) = it[1 .. n]
  <2>1. FoldLeft(LAMBDA s, v : s + v.data, b, col) =
          LET h[s \in SUBSET DOMAIN col] == IF s = {} THEN b ELSE h[s \ {Max(s)}] + col[Max(s)].data
          IN  h[DOMAIN col]
    BY Zenon DEF FoldLeft, MapThenFoldSet
  <2> QED
    BY <1>1, <2>1, Zenon
<1>4. ASSUME NEW f, NEW s \in D, s # {}, f[s \ {Max(s)}] \in Int
      PROVE  DataStep(col)[<<f[s \ {Max(s)}], Max(s)>>] = f[s \ {Max(s)}] + col[Max(s)].data
  <2>1. Max(s) \in 1 .. n
    BY <1>1, <1>4, MaxIsGreatest
  <2> QED
    BY <1>4, <2>1 DEF DataStep
<1>5. it = Body(it)
  <2>1. PICK f \in [D -> Int] :
          \A s \in D : f[s] = IF s = {} THEN b ELSE DataStep(col)[<<f[s \ {Max(s)}], Max(s)>>]
    <3> HIDE DEF n
    <3>1. n \in Nat /\ b \in Int
      BY <1>1
    <3>2. Recurses(n, Int, b, DataStep(col))
      BY <1>2, <3>1, FoldExists
    <3> QED
      BY <3>2 DEF Recurses
  <2>2. \A s \in D : f[s] = IF s = {} THEN b ELSE f[s \ {Max(s)}] + col[Max(s)].data
    BY <1>4, <2>1
  <2>3. f = Body(f)
    BY <2>1, <2>2
  <2> HIDE DEF Body
  <2> QED
    BY <2>3, Zenon
<1> HIDE DEF it
<1>6. \A s \in D : it[s] = LET f == it IN IF s = {} THEN b ELSE f[s \ {Max(s)}] + col[Max(s)].data
  BY <1>5
<1>7. it[{}] = b
  <2>1. {} \in D
    OBVIOUS
  <2> QED
    BY <1>6, <2>1, Zenon
<1>8. Unfolds(it, n, Int, b, DataStep(col))
  BY <1>4, <1>6, <1>7 DEF Unfolds
<1> HIDE DEF n
<1>9. Yields(it[1 .. n], n, Int, b, DataStep(col))
  <2>1. n \in Nat /\ b \in Int
    BY <1>1
  <2> QED
    BY <1>2, <1>8, <2>1, TraceOf
<1> QED
  BY <1>3, <1>9 DEF n

\* ColumnIndex finds the first column of that name, or 0 if there is none.
LEMMA ColumnIndexIs ==
    ASSUME NEW name, NEW cols, NEW n \in Nat, DOMAIN cols = 1 .. n
    PROVE  /\ ColumnIndex(name, cols) \in 0 .. n
           /\ ColumnIndex(name, cols) # 0 => cols[ColumnIndex(name, cols)].name = name
           /\ ColumnIndex(name, cols) = 0 => \A c \in DOMAIN cols : cols[c].name # name
           /\ ColumnIndex(name, cols) # 0 => \A c \in 1 .. n : cols[c].name = name => ColumnIndex(name, cols) <= c
<1> DEFINE found == {c \in DOMAIN cols : cols[c].name = name}
<1>1. CASE found = {}
  <2>1. ColumnIndex(name, cols) = 0
    BY <1>1 DEF ColumnIndex
  <2> QED
    BY <1>1, <2>1
<1>2. CASE found # {}
  <2>1. ColumnIndex(name, cols) = Min(found)
    BY <1>2 DEF ColumnIndex
  <2>2. found \subseteq Nat /\ found \subseteq 1 .. n
    OBVIOUS
  <2>3. Min(found) \in found /\ \A y \in found : Min(found) <= y
    BY <1>2, <2>2, MinIsLeast
  <2>4. Min(found) \in 1 .. n
    BY <2>2, <2>3
  <2> QED
    BY <2>1, <2>3, <2>4
<1> QED
  BY <1>1, <1>2

-----------------------------------------------------------------------------
(* Joined rows.                                                            *)

\* The pairs of a JOIN are finitely many pairs of positions.
LEMMA MatchesAre ==
    ASSUME NEW left \in Seq(Seq(Field)), NEW right \in Seq(Seq(Field)), NEW l, NEW r
    PROVE  /\ IsFiniteSet(Matches(left, right, l, r))
           /\ Matches(left, right, l, r) \subseteq Nat \X Nat
           /\ Matches(left, right, l, r) \subseteq (DOMAIN left) \X (DOMAIN right)
           /\ Cardinality(Matches(left, right, l, r)) \in Nat
<1>1. IsFiniteSet(DOMAIN left) /\ IsFiniteSet(DOMAIN right)
  <2>1. /\ Len(left) \in Nat /\ DOMAIN left = 1 .. Len(left)
        /\ Len(right) \in Nat /\ DOMAIN right = 1 .. Len(right)
    OBVIOUS
  <2>2. IsFiniteSet(1 .. Len(left)) /\ IsFiniteSet(1 .. Len(right))
    BY <2>1, FS_Interval, 1 \in Int, Len(left) \in Int, Len(right) \in Int
  <2> QED
    BY <2>1, <2>2
<1>2. IsFiniteSet((DOMAIN left) \X (DOMAIN right))
  BY <1>1, FS_Product
<1>3. Matches(left, right, l, r) \subseteq (DOMAIN left) \X (DOMAIN right)
  BY DEF Matches
<1>4. IsFiniteSet(Matches(left, right, l, r))
  BY <1>2, <1>3, FS_Subset
<1>5. (DOMAIN left) \X (DOMAIN right) \subseteq Nat \X Nat
  OBVIOUS
<1> QED
  BY <1>3, <1>4, <1>5, FS_CardinalityType

\* Each row is joined of the rows at one of these pairs of positions.
Combines(rows, left, right, pairs) ==
    /\ rows \in Seq(Seq(Field))
    /\ Len(rows) = Cardinality(pairs)
    /\ \A k \in DOMAIN rows : \E i \in DOMAIN left, j \in DOMAIN right :
         /\ NthPair(pairs, k) = <<i, j>> /\ <<i, j>> \in pairs
         /\ rows[k] = left[i] \o right[j]

\* The rows of a JOIN are the combined rows of its pairs, all of them.
LEMMA PairsAre ==
    ASSUME NEW left \in Seq(Seq(Field)), NEW right \in Seq(Seq(Field)), NEW l, NEW r
    PROVE  Combines(Pairs(left, right, l, r), left, right, Matches(left, right, l, r))
<1> DEFINE M == Matches(left, right, l, r)
           c == Cardinality(M)
           row(k) == left[NthPair(M, k)[1]] \o right[NthPair(M, k)[2]]
<1>1. Pairs(left, right, l, r) = [k \in 1 .. c |-> row(k)]
  BY DEF Pairs, Combined
<1>2. c \in Nat
  BY MatchesAre
<1>3. ASSUME NEW k \in 1 .. c
      PROVE  /\ NthPair(M, k) \in M /\ NthPair(M, k) = <<NthPair(M, k)[1], NthPair(M, k)[2]>>
             /\ NthPair(M, k)[1] \in DOMAIN left /\ NthPair(M, k)[2] \in DOMAIN right
             /\ row(k) \in Seq(Field)
  <2>1. NthPair(M, k) \in M
    BY MatchesAre, NthPairs
  <2>2. M \subseteq (DOMAIN left) \X (DOMAIN right)
    BY MatchesAre
  <2> HIDE DEF M
  <2>3. NthPair(M, k) \in (DOMAIN left) \X (DOMAIN right)
    BY <2>1, <2>2
  <2>4. NthPair(M, k)[1] \in DOMAIN left /\ NthPair(M, k)[2] \in DOMAIN right
        /\ NthPair(M, k) = <<NthPair(M, k)[1], NthPair(M, k)[2]>>
    BY <2>3
  <2>5. left[NthPair(M, k)[1]] \in Seq(Field) /\ right[NthPair(M, k)[2]] \in Seq(Field)
    BY <2>4
  <2> QED
    BY <2>1, <2>4, <2>5
<1> HIDE DEF M, c, row
<1>4. \A k \in 1 .. c : row(k) \in Seq(Field)
  BY <1>3
<1>5. [k \in 1 .. c |-> row(k)] \in Seq(Seq(Field)) /\ Len([k \in 1 .. c |-> row(k)]) = c
  BY <1>2, <1>4
<1>6. \A k \in 1 .. c : \E i \in DOMAIN left, j \in DOMAIN right :
        NthPair(M, k) = <<i, j>> /\ <<i, j>> \in M /\ row(k) = left[i] \o right[j]
  BY <1>3 DEF row
<1>7. DOMAIN [k \in 1 .. c |-> row(k)] = 1 .. c /\ \A k \in 1 .. c : [m \in 1 .. c |-> row(m)][k] = row(k)
  OBVIOUS
<1> DEFINE P == Pairs(left, right, l, r)
<1>8. P = [k \in 1 .. c |-> row(k)]
  BY <1>1
<1> HIDE DEF P
<1>9. P \in Seq(Seq(Field)) /\ Len(P) = c
  BY <1>5, <1>8
<1>10. \A k \in DOMAIN P : \E i \in DOMAIN left, j \in DOMAIN right :
         NthPair(M, k) = <<i, j>> /\ <<i, j>> \in M /\ P[k] = left[i] \o right[j]
  BY <1>6, <1>7, <1>8, Zenon
<1> QED
  BY <1>9, <1>10, Zenon DEF M, c, P, Combines

\* Joining alike rows gives alike rows.
LEMMA PairsAlike ==
    ASSUME NEW left, Alike(left), NEW right, Alike(right), NEW l, NEW r
    PROVE  Alike(Pairs(left, right, l, r))
<1> DEFINE P == Pairs(left, right, l, r)
<1>1. left \in Seq(Seq(Field)) /\ right \in Seq(Seq(Field))
  BY DEF Alike
<1>2. P \in Seq(Seq(Field)) /\ \A k \in DOMAIN P : \E i \in DOMAIN left, j \in DOMAIN right : P[k] = left[i] \o right[j]
  <2>1. Combines(P, left, right, Matches(left, right, l, r))
    BY <1>1, PairsAre
  <2> QED
    BY <2>1, Zenon DEF Combines
<1> HIDE DEF P
<1>3. ASSUME NEW a \in DOMAIN P, NEW b \in DOMAIN P
      PROVE  /\ Len(P[a]) = Len(P[b])
             /\ \A c \in DOMAIN P[a] : SameKind(P[a][c], P[b][c])
  <2>1. PICK i \in DOMAIN left, j \in DOMAIN right : P[a] = left[i] \o right[j]
    BY <1>2
  <2>2. PICK m \in DOMAIN left, n \in DOMAIN right : P[b] = left[m] \o right[n]
    BY <1>2
  <2> DEFINE x == left[i]
             y == right[j]
             u == left[m]
             v == right[n]
  <2>3. x \in Seq(Field) /\ u \in Seq(Field) /\ y \in Seq(Field) /\ v \in Seq(Field)
    BY <1>1
  <2>4. /\ Len(x) = Len(u) /\ \A c \in DOMAIN x : SameKind(x[c], u[c])
        /\ Len(y) = Len(v) /\ \A c \in DOMAIN y : SameKind(y[c], v[c])
    BY DEF Alike
  <2>5. P[a] = x \o y /\ P[b] = u \o v
    BY <2>1, <2>2
  <2> HIDE DEF x, y, u, v
  <2>6. /\ Len(x \o y) = Len(x) + Len(y) /\ Len(u \o v) = Len(u) + Len(v)
        /\ DOMAIN (x \o y) = 1 .. Len(x) + Len(y)
    BY <2>3
  <2>7. ASSUME NEW c \in 1 .. Len(x) + Len(y)
        PROVE  SameKind((x \o y)[c], (u \o v)[c])
    <3>0. Len(x) \in Nat /\ Len(y) \in Nat /\ DOMAIN x = 1 .. Len(x) /\ DOMAIN y = 1 .. Len(y)
      BY <2>3
    <3>1. CASE c <= Len(x)
      <4>1. c \in 1 .. Len(x) /\ c \in 1 .. Len(u)
        BY <2>4, <3>0, <3>1
      <4>2. (x \o y)[c] = x[c] /\ (u \o v)[c] = u[c]
        BY <2>3, <4>1, Concatenated
      <4> QED
        BY <2>4, <3>0, <4>1, <4>2
    <3>2. CASE c > Len(x)
      <4> DEFINE d == c - Len(x)
      <4>1. d \in 1 .. Len(y) /\ d \in 1 .. Len(v) /\ c = Len(x) + d /\ c = Len(u) + d
        BY <2>4, <3>0, <3>2
      <4> HIDE DEF d
      <4>2. (x \o y)[c] = y[d] /\ (u \o v)[c] = v[d]
        BY <2>3, <4>1, Concatenated
      <4> QED
        BY <2>4, <3>0, <4>1, <4>2
    <3>3. c <= Len(x) \/ c > Len(x)
      BY <3>0
    <3> QED
      BY <3>1, <3>2, <3>3
  <2> QED
    BY <2>4, <2>5, <2>6, <2>7
<1> QED
  BY <1>2, <1>3 DEF Alike, P

\* The joined rows fit the joined schema.
LEMMA PairsFit ==
    ASSUME NEW left \in Seq(Seq(Field)), NEW right \in Seq(Seq(Field)), NEW l, NEW r,
           NEW s \in Seq(Column), NEW t \in Seq(Column), RowsFit(left, s), RowsFit(right, t)
    PROVE  RowsFit(Pairs(left, right, l, r), s \o t)
<1> DEFINE P == Pairs(left, right, l, r)
<1>1. P \in Seq(Seq(Field)) /\ \A k \in DOMAIN P : \E i \in DOMAIN left, j \in DOMAIN right : P[k] = left[i] \o right[j]
  <2>1. Combines(P, left, right, Matches(left, right, l, r))
    BY PairsAre
  <2> QED
    BY <2>1, Zenon DEF Combines
<1> HIDE DEF P
<1>2. ASSUME NEW k \in DOMAIN P
      PROVE  Len(P[k]) = Len(s \o t) /\ RowOk(P[k], s \o t)
  <2>1. PICK i \in DOMAIN left, j \in DOMAIN right : P[k] = left[i] \o right[j]
    BY <1>1
  <2> DEFINE x == left[i]
             y == right[j]
  <2>2. x \in Seq(Field) /\ y \in Seq(Field)
    OBVIOUS
  <2>3. /\ Len(x) = Len(s) /\ \A c \in DOMAIN s : FieldOk(x[c], s[c])
        /\ Len(y) = Len(t) /\ \A c \in DOMAIN t : FieldOk(y[c], t[c])
    BY DEF RowsFit, RowOk
  <2>4. P[k] = x \o y
    BY <2>1
  <2> HIDE DEF x, y
  <2>5. Len(x \o y) = Len(s \o t)
    <3>1. Len(x) = Len(s) /\ Len(y) = Len(t)
      BY <2>3
    <3>2. Len(x \o y) = Len(x) + Len(y) /\ Len(s \o t) = Len(s) + Len(t)
      BY <2>2
    <3> QED
      BY <3>1, <3>2
  <2>6. ASSUME NEW c \in DOMAIN (s \o t)
        PROVE  FieldOk((x \o y)[c], (s \o t)[c])
    <3>0. Len(s) \in Nat /\ Len(t) \in Nat /\ DOMAIN s = 1 .. Len(s) /\ DOMAIN t = 1 .. Len(t) /\ c \in 1 .. Len(s) + Len(t)
      OBVIOUS
    <3>1. CASE c <= Len(s)
      <4>1. c \in 1 .. Len(x) /\ c \in 1 .. Len(s)
        BY <2>3, <3>0, <3>1
      <4>2. (x \o y)[c] = x[c] /\ (s \o t)[c] = s[c]
        BY <2>2, <4>1, Concatenated
      <4> QED
        BY <2>3, <3>0, <4>1, <4>2
    <3>2. CASE c > Len(s)
      <4> DEFINE d == c - Len(s)
      <4>0. Len(x) = Len(s) /\ Len(y) = Len(t)
        BY <2>3
      <4>1. d \in 1 .. Len(y) /\ d \in 1 .. Len(t) /\ c = Len(x) + d /\ c = Len(s) + d
        <5>1. c \in Int /\ d \in Int /\ c = Len(s) + d
          BY <3>0
        <5>2. d \in 1 .. Len(t)
          BY <3>0, <3>2, <5>1
        <5> HIDE DEF d
        <5> QED
          BY <4>0, <5>1, <5>2
      <4> HIDE DEF d
      <4>2. (x \o y)[Len(x) + d] = y[d]
        BY <2>2, <4>1, Concatenated
      <4>3. (s \o t)[Len(s) + d] = t[d]
        BY <4>1, Concatenated
      <4> QED
        BY <2>3, <3>0, <4>1, <4>2, <4>3
    <3>3. c <= Len(s) \/ c > Len(s)
      BY <3>0
    <3> QED
      BY <3>1, <3>2, <3>3
  <2> QED
    BY <2>4, <2>5, <2>6 DEF RowOk
<1> QED
  BY <1>2 DEF RowsFit, P

\* The rows of a table are alike, and rows of its columns.
LEMMA TableRows ==
    ASSUME NEW tb \in Tables, NEW rows \in Contents[tb]
    PROVE  Alike(rows) /\ RowsFit(rows, Columns[tb])
<1>1. /\ rows \in Seq(Seq(Field))
      /\ \A i \in DOMAIN rows : Len(rows[i]) = Len(Columns[tb]) /\ RowOk(rows[i], Columns[tb])
  BY ContentsAssumption
<1>2. Columns[tb] \in Seq(Column)
  BY ColumnsAssumption
<1>3. ASSUME NEW i \in DOMAIN rows, NEW j \in DOMAIN rows, NEW c \in DOMAIN rows[i]
      PROVE  SameKind(rows[i][c], rows[j][c])
  <2>1. rows[i] \in Seq(Field)
    BY <1>1
  <2>2. c \in DOMAIN Columns[tb]
    BY <1>1, <1>2, <2>1
  <2>3. FieldOk(rows[i][c], Columns[tb][c]) /\ FieldOk(rows[j][c], Columns[tb][c])
    BY <1>1, <2>2 DEF RowOk
  <2> QED
    BY <2>3 DEF FieldOk, SameKind
<1> QED
  BY <1>1, <1>3 DEF Alike, RowsFit

\* So are those that are kept.
LEMMA KeptRows ==
    ASSUME NEW rows, Alike(rows), NEW S, S \subseteq DOMAIN rows
    PROVE  /\ Alike(Keep(rows, S))
           /\ \A schema : RowsFit(rows, schema) => RowsFit(Keep(rows, S), schema)
<1>1. rows \in Seq(Seq(Field))
  BY DEF Alike
<1> DEFINE K == Keep(rows, S)
<1>2. K \in Seq(Seq(Field)) /\ \A k \in DOMAIN K : \E i \in DOMAIN rows : K[k] = rows[i]
  BY <1>1, KeepType
<1> HIDE DEF K
<1>3. Alike(K)
  BY <1>2 DEF Alike
<1>4. \A schema : RowsFit(rows, schema) => RowsFit(K, schema)
  BY <1>2 DEF RowsFit
<1> QED
  BY <1>3, <1>4 DEF K

\* The rows WHERE keeps are alike if all are, and fit the schema.
LEMMA MatchingRows ==
    ASSUME NEW rows, Alike(rows), NEW cond, NEW schema
    PROVE  /\ Alike(Matching(rows, cond, schema))
           /\ RowsFit(rows, schema) => RowsFit(Matching(rows, cond, schema), schema)
<1>1. {i \in DOMAIN rows : evaluate(cond, rows[i], schema) = "true"} \subseteq DOMAIN rows
  OBVIOUS
<1> QED
  BY <1>1, KeptRows DEF Matching

-----------------------------------------------------------------------------
(* Aggregates.                                                             *)

ColumnOf(rows, c) == [i \in DOMAIN rows |-> rows[i][c]]

\* A column that all rows have is a sequence of fields.
LEMMA ColumnOfRows ==
    ASSUME NEW rows \in Seq(Seq(Field)), NEW c, \A i \in DOMAIN rows : c \in DOMAIN rows[i]
    PROVE  /\ ColumnOf(rows, c) \in Seq(Field) /\ Len(ColumnOf(rows, c)) = Len(rows)
           /\ \A i \in DOMAIN rows : ColumnOf(rows, c)[i] = rows[i][c]
<1>1. \A i \in 1 .. Len(rows) : rows[i][c] \in Field
  <2> TAKE i \in 1 .. Len(rows)
  <2>1. rows[i] \in Seq(Field) /\ c \in DOMAIN rows[i]
    OBVIOUS
  <2> QED
    BY <2>1
<1>2. ColumnOf(rows, c) = [i \in 1 .. Len(rows) |-> rows[i][c]]
  BY DEF ColumnOf
<1> QED
  BY <1>1, <1>2

\* A field is equal to itself.
LEMMA CompareSelf ==
    ASSUME NEW a \in Field
    PROVE  compareForSort(a, a) = 0
<1>1. compareForSort(a, a) \in {-1, 0, 1} /\ compareForSort(a, a) = -compareForSort(a, a)
  BY CompareType
<1> QED
  BY <1>1

\* A sum is a number.
LEMMA SumType ==
    ASSUME NEW col \in Seq(Field)
    PROVE  SumOf(col) \in Int
<1>1. Yields(SumOf(col), Len(col), Int, 0, SumStep(col))
  <2>1. \A b \in Int : Yields(FoldLeft(LAMBDA s, v : s + toDouble(v), b, col), Len(col), Int, b, SumStep(col))
    BY SumTrace
  <2>2. 0 \in Int
    OBVIOUS
  <2> QED
    BY <2>1, <2>2, Zenon DEF SumOf
<1> QED
  BY <1>1 DEF Yields, Traces

\* The least of a column is one of it and not above any of it.
LEMMA LeastIs ==
    ASSUME NEW col \in Seq(Field), NEW b \in Field, \E i \in DOMAIN col : col[i] = b,
           \A i, j \in DOMAIN col : SameKind(col[i], col[j])
    PROVE  /\ \E i \in DOMAIN col : FoldLeft(Least, b, col) = col[i]
           /\ \A i \in DOMAIN col : compareForSort(FoldLeft(Least, b, col), col[i]) <= 0
<1> DEFINE x == FoldLeft(Least, b, col)
           n == Len(col)
           Q == {q \in Nat \X Field : /\ \E i \in DOMAIN col : q[2] = col[i]
                                      /\ \A i \in 1 .. q[1] : i <= n => compareForSort(q[2], col[i]) <= 0}
<1>1. n \in Nat /\ DOMAIN col = 1 .. n /\ \A i \in DOMAIN col : col[i] \in Field
  OBVIOUS
<1>2. Yields(x, n, Field, b, LeastStep(col))
  BY LeastTrace
<1>3. <<0, b>> \in Q
  OBVIOUS
<1>4. ASSUME NEW i \in 1 .. n, NEW y \in Field, <<i - 1, y>> \in Q
      PROVE  <<i, LeastStep(col)[<<y, i>>]>> \in Q
  <2> DEFINE z == Least(y, col[i])
  <2>0. LeastStep(col)[<<y, i>>] = z
    BY DEF LeastStep
  <2>1. /\ \E j \in DOMAIN col : y = col[j]
        /\ \A j \in 1 .. i - 1 : compareForSort(y, col[j]) <= 0
    BY <1>4
  <2>2. col[i] \in Field /\ i \in DOMAIN col
    BY <1>1
  <2>3. ASSUME NEW j \in DOMAIN col
        PROVE  SameKind(y, col[j]) /\ SameKind(col[i], col[j]) /\ SameKind(col[j], col[j])
               /\ SameKind(col[i], y)
    BY <2>1, <2>2
  <2>4. CASE compareForSort(col[i], y) < 0
    <3>1. z = col[i]
      BY <2>4 DEF Least
    <3>2. \A j \in 1 .. i : compareForSort(col[i], col[j]) <= 0
      <4> TAKE j \in 1 .. i
      <4>0. j \in DOMAIN col /\ col[j] \in Field
        BY <1>1
      <4>1. CASE j = i
        BY <2>2, <4>1, <4>0, CompareType, CompareSelf
      <4>2. CASE j \in 1 .. i - 1
        <5>1. compareForSort(y, col[j]) <= 0
          BY <2>1, <4>2
        <5>2. compareForSort(col[i], y) <= 0
          BY <2>2, <2>4, CompareType
        <5> QED
          BY <2>2, <2>3, <4>0, <5>1, <5>2, CompareOrders
      <4> QED
        BY <4>1, <4>2
    <3> QED
      BY <1>1, <2>0, <2>2, <3>1, <3>2
  <2>5. CASE ~ (compareForSort(col[i], y) < 0)
    <3>1. z = y
      BY <2>5 DEF Least
    <3>2. compareForSort(y, col[i]) <= 0
      BY <2>2, <2>5, CompareType
    <3>3. \A j \in 1 .. i : compareForSort(y, col[j]) <= 0
      <4> TAKE j \in 1 .. i
      <4>1. j = i \/ j \in 1 .. i - 1
        OBVIOUS
      <4> QED
        BY <2>1, <3>2, <4>1
    <3> QED
      BY <1>1, <2>0, <2>1, <3>1, <3>3
  <2> QED
    BY <2>4, <2>5
<1> HIDE DEF x
<1>5. <<n, x>> \in Q
  <2> HIDE DEF Q, n
  <2>1. \A i \in 1 .. n, y \in Field : <<i - 1, y>> \in Q => <<i, LeastStep(col)[<<y, i>>]>> \in Q
    BY <1>4
  <2> QED
    BY <1>1, <1>2, <1>3, <2>1, TraceInduction
<1>6. /\ \E i \in DOMAIN col : x = col[i]
      /\ \A i \in DOMAIN col : compareForSort(x, col[i]) <= 0
  BY <1>1, <1>5
<1> QED
  BY <1>6 DEF x

\* MIN and MAX show a value of the column.
LEMMA PickedValue ==
    ASSUME NEW col \in Seq(Field), NEW b \in Field, \E i \in DOMAIN col : col[i] = b
    PROVE  /\ \E i \in DOMAIN col : FoldLeft(Least, b, col) = col[i]
           /\ \E i \in DOMAIN col : FoldLeft(Greatest, b, col) = col[i]
<1> DEFINE n == Len(col)
           Q == {q \in Nat \X Field : \E i \in DOMAIN col : q[2] = col[i]}
<1>1. n \in Nat /\ DOMAIN col = 1 .. n /\ \A i \in DOMAIN col : col[i] \in Field
  OBVIOUS
<1>2. <<0, b>> \in Q
  OBVIOUS
<1>3. ASSUME NEW i \in 1 .. n, NEW y \in Field, <<i - 1, y>> \in Q
      PROVE  /\ <<i, LeastStep(col)[<<y, i>>]>> \in Q
             /\ <<i, GreatestStep(col)[<<y, i>>]>> \in Q
  <2>1. \E j \in DOMAIN col : y = col[j]
    BY <1>3
  <2>2. Least(y, col[i]) \in {y, col[i]} /\ Greatest(y, col[i]) \in {y, col[i]}
    BY DEF Least, Greatest
  <2>3. /\ LeastStep(col)[<<y, i>>] = Least(y, col[i])
        /\ GreatestStep(col)[<<y, i>>] = Greatest(y, col[i])
    BY DEF LeastStep, GreatestStep
  <2>4. ASSUME NEW z \in {y, col[i]}
        PROVE  <<i, z>> \in Q
    BY <1>1, <2>1
  <2> QED
    BY <2>2, <2>3, <2>4
<1> DEFINE x == FoldLeft(Least, b, col)
           w == FoldLeft(Greatest, b, col)
<1>4. /\ Yields(x, n, Field, b, LeastStep(col))
      /\ Yields(w, n, Field, b, GreatestStep(col))
  BY LeastTrace, GreatestTrace
<1> HIDE DEF x, w
<1>5. <<n, x>> \in Q
  <2> HIDE DEF Q, n
  <2>1. \A i \in 1 .. n, y \in Field : <<i - 1, y>> \in Q => <<i, LeastStep(col)[<<y, i>>]>> \in Q
    BY <1>3
  <2> QED
    BY <1>1, <1>2, <1>4, <2>1, TraceInduction
<1>6. <<n, w>> \in Q
  <2> HIDE DEF Q, n
  <2>1. \A i \in 1 .. n, y \in Field : <<i - 1, y>> \in Q => <<i, GreatestStep(col)[<<y, i>>]>> \in Q
    BY <1>3
  <2> QED
    BY <1>1, <1>2, <1>4, <2>1, TraceInduction
<1>7. (\E i \in DOMAIN col : x = col[i]) /\ (\E i \in DOMAIN col : w = col[i])
  BY <1>5, <1>6
<1> QED
  BY <1>7 DEF x, w

\* The parts of a statement a client may send.
LEMMA StatementParts ==
    ASSUME stmt \in Statements
    PROVE  /\ stmt.table \in Tables /\ stmt.joins \in Seq(JoinClause)
           /\ stmt.items \in Seq(SelectItem) /\ stmt.groupBy \in Seq(ColumnName)
           /\ stmt.orderBy \in Seq(OrderByClause)
           /\ stmt.limit \in Nat \cup {-1} /\ stmt.offset \in Nat
BY StatementsAssumption DEF SelectStatement

\* The items of a statement.
LEMMA ItemParts ==
    ASSUME stmt \in Statements, NEW i \in DOMAIN stmt.items
    PROVE  stmt.items[i] \in SelectItem /\ stmt.items[i].agg \in AggFunc
<1>1. stmt.items \in Seq(SelectItem)
  BY StatementParts
<1>2. stmt.items[i] \in SelectItem
  <2> HIDE DEF SelectItem
  <2> QED
    BY <1>1
<1> QED
  BY <1>2 DEF SelectItem

\* The kind of value an item shows, or the column it takes it from.
ItemShows(item, v, rows) ==
    LET c == ColumnIndex(item.arg, joinedSchema)
    IN  \/ v = NULL
        \/ item.agg = "COUNT" /\ v.kind = "INT"
        \/ item.agg \in {"SUM", "AVG"} /\ v.kind = "FLOAT"
        \/ item.agg \in {"NONE", "MIN", "MAX"} /\ \E j \in DOMAIN rows : c \in DOMAIN rows[j] /\ v = rows[j][c]

CanShow(item, rows) ==
    item.agg # "COUNT" => \A i \in DOMAIN rows : ColumnIndex(item.arg, joinedSchema) \in DOMAIN rows[i]

\* calcAgg, function by function.
LEMMA CalcAgg ==
    ASSUME NEW arg, NEW rows \in Seq(Seq(Field))
    PROVE  LET col == ColumnOf(rows, ColumnIndex(arg, joinedSchema))
           IN  /\ calcAgg("COUNT", arg, rows) = [kind |-> "INT", data |-> Len(rows)]
               /\ rows = <<>> => \A f \in {"SUM", "AVG", "MIN", "MAX"} : calcAgg(f, arg, rows) = NULL
               /\ rows # <<>> =>
                    /\ calcAgg("SUM", arg, rows) = [kind |-> "FLOAT", data |-> SumOf(col)]
                    /\ calcAgg("AVG", arg, rows) = [kind |-> "FLOAT", data |-> (SumOf(col) * Unit) \div Len(rows)]
                    /\ calcAgg("MIN", arg, rows) = LeastOf(col)
                    /\ calcAgg("MAX", arg, rows) = GreatestOf(col)
BY Zenon DEF calcAgg, ColumnOf

\* An item that can be shown is shown as a field, of the kind its function gives.
LEMMA ItemValueType ==
    ASSUME NEW item \in SelectItem, NEW rows \in Seq(Seq(Field)), CanShow(item, rows)
    PROVE  ItemValue(item, rows) \in Field /\ ItemShows(item, ItemValue(item, rows), rows)
<1> DEFINE c == ColumnIndex(item.arg, joinedSchema)
           col == ColumnOf(rows, c)
           x == ItemValue(item, rows)
<1>0. NULL \in Field /\ item.agg \in AggFunc /\ Len(rows) \in Nat
  BY DEF NULL, Field, Value, Kinds, SelectItem
<1>1. CASE item.agg = "COUNT"
  <2>1. x = [kind |-> "INT", data |-> Len(rows)]
    BY <1>1, CalcAgg DEF ItemValue
  <2> QED
    BY <1>0, <1>1, <2>1 DEF ItemShows, Field, Value, Kinds
<1>2. CASE item.agg # "COUNT" /\ rows = <<>>
  <2>1. x = NULL
    <3>1. CASE item.agg = "NONE"
      BY <1>2, <3>1, Zenon DEF ItemValue
    <3>2. CASE item.agg # "NONE"
      <4>1. item.agg \in {"SUM", "AVG", "MIN", "MAX"}
        BY <1>0, <1>2, <3>2 DEF AggFunc
      <4>2. calcAgg(item.agg, item.arg, rows) = NULL
        BY <1>2, <4>1, CalcAgg, Zenon
      <4> QED
        BY <3>2, <4>2, Zenon DEF ItemValue
    <3> QED
      BY <3>1, <3>2
  <2> QED
    BY <1>0, <2>1 DEF ItemShows
<1>3. CASE item.agg # "COUNT" /\ rows # <<>>
  <2>1. \A i \in DOMAIN rows : c \in DOMAIN rows[i]
    BY <1>3 DEF CanShow
  <2>2. /\ col \in Seq(Field) /\ Len(col) = Len(rows)
        /\ \A i \in DOMAIN rows : col[i] = rows[i][c]
    BY <2>1, ColumnOfRows
  <2>3. Len(rows) > 0 /\ DOMAIN rows = 1 .. Len(rows) /\ DOMAIN col = DOMAIN rows /\ 1 \in DOMAIN rows
    BY <1>3, <2>2
  <2> HIDE DEF col, c
  <2>4. \A i \in DOMAIN col : col[i] \in Field
    BY <2>2
  <2>5. ASSUME item.agg \in {"NONE", "MIN", "MAX"}, NEW i \in DOMAIN col, x = col[i]
        PROVE  x \in Field /\ ItemShows(item, x, rows)
    BY <2>1, <2>2, <2>3, <2>4, <2>5 DEF ItemShows, c
  <2>6. CASE item.agg \in {"SUM", "AVG"}
    <3>1. SumOf(col) \in Int
      BY <2>2, SumType
    <3>2. (SumOf(col) * Unit) \div Len(rows) \in Int
      BY <1>0, <2>3, <3>1, UnitAssumption
    <3>3. x \in {[kind |-> "FLOAT", data |-> SumOf(col)], [kind |-> "FLOAT", data |-> (SumOf(col) * Unit) \div Len(rows)]}
      BY <1>3, <2>6, CalcAgg DEF ItemValue, col, c
    <3>4. x.kind = "FLOAT" /\ x \in Field
      BY <3>1, <3>2, <3>3 DEF Field, Value, Kinds
    <3> QED
      BY <2>6, <3>4 DEF ItemShows
  <2>7. CASE item.agg \in {"MIN", "MAX"}
    <3>1. x \in {LeastOf(col), GreatestOf(col)}
      BY <1>3, <2>7, CalcAgg DEF ItemValue, col, c
    <3>2. \E i \in DOMAIN col : x = col[i]
      <4>1. col[1] \in Field /\ \E i \in DOMAIN col : col[i] = col[1]
        BY <2>3, <2>4
      <4>2. /\ \E i \in DOMAIN col : FoldLeft(Least, col[1], col) = col[i]
            /\ \E i \in DOMAIN col : FoldLeft(Greatest, col[1], col) = col[i]
        BY <2>2, <4>1, PickedValue
      <4> QED
        BY <3>1, <4>2 DEF LeastOf, GreatestOf
    <3> QED
      BY <2>5, <2>7, <3>2
  <2>8. CASE item.agg = "NONE"
    <3>1. x = rows[1][c]
      BY <1>3, <2>8 DEF ItemValue, c
    <3> QED
      BY <2>2, <2>3, <2>5, <2>8, <3>1
  <2> QED
    BY <1>0, <1>3, <2>6, <2>7, <2>8 DEF AggFunc
<1> QED
  BY <1>1, <1>2, <1>3

\* The header is a list of items: those of the statement unless it is SELECT *.
LEMMA HeaderType ==
    ASSUME stmt \in Statements, joinedSchema \in Seq(Column)
    PROVE  /\ Header \in Seq(SelectItem)
           /\ Plain => DOMAIN Header = DOMAIN colIndexes /\ DOMAIN colIndexes = 1 .. Len(Header)
           /\ ~Plain => Header = stmt.items
<1>1. stmt.items \in Seq(SelectItem)
  BY StatementParts
<1>2. CASE Plain /\ stmt.items = <<>>
  <2>1. Header = [c \in 1 .. Len(joinedSchema) |-> [agg |-> "NONE", arg |-> joinedSchema[c].name]]
    BY <1>2 DEF Header
  <2>2. \A c \in 1 .. Len(joinedSchema) : [agg |-> "NONE", arg |-> joinedSchema[c].name] \in SelectItem
    <3>1. \A c \in 1 .. Len(joinedSchema) : joinedSchema[c] \in Column
      <4> HIDE DEF Column
      <4> QED
        OBVIOUS
    <3> QED
      BY <3>1 DEF SelectItem, AggFunc, Column
  <2>3. Header \in Seq(SelectItem) /\ DOMAIN Header = 1 .. Len(joinedSchema)
    BY <2>1, <2>2
  <2>4. DOMAIN colIndexes = 1 .. Len(joinedSchema)
    BY <1>2 DEF colIndexes
  <2> QED
    BY <1>2, <2>3, <2>4
<1>3. CASE ~ (Plain /\ stmt.items = <<>>)
  <2>1. Header = stmt.items
    BY <1>3 DEF Header
  <2>2. Plain => DOMAIN colIndexes = DOMAIN stmt.items
    BY <1>3 DEF colIndexes
  <2> QED
    BY <1>1, <2>1, <2>2
<1> QED
  BY <1>2, <1>3

\* ORDER BY becomes a list of keys.
LEMMA SortKeysType ==
    ASSUME stmt \in Statements, joinedSchema \in Seq(Column), NEW header \in Seq(SelectItem)
    PROVE  SortKeys(header) \in SortKeyList
<1>1. stmt.orderBy \in Seq(OrderByClause)
  BY StatementParts
<1> DEFINE key(k) == [index     |-> KeyIndex(stmt.orderBy[k].column, header, joinedSchema),
                      ascending |-> stmt.orderBy[k].ascending]
<1>2. ASSUME NEW name
      PROVE  KeyIndex(name, header, joinedSchema) \in Nat
  <2>1. ColumnIndex(name, joinedSchema) \in Nat
    <3>1. Len(joinedSchema) \in Nat /\ DOMAIN joinedSchema = 1 .. Len(joinedSchema)
      OBVIOUS
    <3> QED
      BY <3>1, ColumnIndexIs
  <2>2. HeaderIndex(name, header) \in Nat
    <3> DEFINE found == {i \in DOMAIN header : header[i] = [agg |-> "NONE", arg |-> name]}
    <3>1. found \subseteq Nat
      OBVIOUS
    <3>2. HeaderIndex(name, header) = IF found = {} THEN 0 ELSE Min(found)
      BY DEF HeaderIndex
    <3> HIDE DEF found
    <3>3. found # {} => Min(found) \in found
      BY <3>1, MinIsLeast
    <3>4. found # {} => Min(found) \in Nat
      BY <3>1, <3>3
    <3> QED
      BY <3>2, <3>4
  <2> QED
    BY <2>1, <2>2 DEF KeyIndex
<1>3. ASSUME NEW k \in 1 .. Len(stmt.orderBy)
      PROVE  key(k) \in SortKey
  <2>1. stmt.orderBy[k] \in OrderByClause
    <3> HIDE DEF OrderByClause
    <3> QED
      BY <1>1
  <2> QED
    BY <1>2, <2>1 DEF SortKey, OrderByClause
<1>4. SortKeys(header) = [k \in 1 .. Len(stmt.orderBy) |-> key(k)]
  BY <1>1 DEF SortKeys
<1> HIDE DEF key
<1>5. SortKeys(header) \in Seq(SortKey)
  BY <1>1, <1>3, <1>4
<1> QED
  BY <1>5 DEF SortKeyList

\* OFFSET and LIMIT leave some rows in a row, as many as they ask for.
LEMMA LimitedType ==
    ASSUME stmt \in Statements, NEW T, NEW rows \in Seq(T)
    PROVE  /\ Limited(rows) \in Seq(T)
           /\ \A i \in DOMAIN Limited(rows) : \E j \in DOMAIN rows : Limited(rows)[i] = rows[j]
           /\ LET first == IF stmt.limit < 0 THEN 0 ELSE stmt.offset
                  rest  == IF Len(rows) > first THEN Len(rows) - first ELSE 0
              IN  /\ Len(Limited(rows)) = IF stmt.limit >= 0 /\ stmt.limit < rest THEN stmt.limit ELSE rest
                  /\ \A i \in DOMAIN Limited(rows) : first + i \in DOMAIN rows /\ Limited(rows)[i] = rows[first + i]
<1>1. stmt.limit \in Nat \cup {-1} /\ stmt.offset \in Nat
  BY StatementParts
<1>2. CASE stmt.limit < 0
  BY <1>1, <1>2 DEF Limited
<1>3. CASE stmt.limit >= 0
  <2> DEFINE off == stmt.offset
             m == Min({Len(rows), off + stmt.limit})
  <2>1. m = IF Len(rows) < off + stmt.limit THEN Len(rows) ELSE off + stmt.limit
    <3>1. {Len(rows), off + stmt.limit} \subseteq Nat /\ {Len(rows), off + stmt.limit} # {}
      BY <1>1, <1>3
    <3>2. m \in {Len(rows), off + stmt.limit} /\ \A y \in {Len(rows), off + stmt.limit} : m <= y
      BY <3>1, MinIsLeast
    <3> QED
      BY <1>1, <1>3, <3>2
  <2>2. Limited(rows) = SubSeq(rows, off + 1, m)
    <3>1. ~ (stmt.limit < 0)
      BY <1>1, <1>3
    <3> QED
      BY <3>1, Zenon DEF Limited
  <2>3. off \in Nat /\ stmt.limit \in Nat /\ Len(rows) \in Nat /\ m \in Nat /\ m <= Len(rows)
    BY <1>1, <1>3, <2>1
  <2> HIDE DEF m, off
  <2>4. /\ SubSeq(rows, off + 1, m) \in Seq(T)
        /\ Len(SubSeq(rows, off + 1, m)) = IF off + 1 <= m THEN m - off ELSE 0
        /\ \A i \in 1 .. Len(SubSeq(rows, off + 1, m)) : SubSeq(rows, off + 1, m)[i] = rows[off + i]
    BY <2>3, SubSeqIs
  <2>5. DOMAIN SubSeq(rows, off + 1, m) = 1 .. Len(SubSeq(rows, off + 1, m))
    BY <2>4
  <2> DEFINE L == Limited(rows)
  <2>6. L \in Seq(T) /\ DOMAIN L = 1 .. Len(L)
        /\ Len(L) = (IF off + 1 <= m THEN m - off ELSE 0)
        /\ \A i \in 1 .. Len(L) : L[i] = rows[off + i]
    BY <2>2, <2>4, <2>5
  <2> HIDE DEF L
  <2>7. \A i \in DOMAIN L : off + i \in DOMAIN rows
    BY <2>3, <2>6
  <2>8. Len(L) = LET rest == IF Len(rows) > off THEN Len(rows) - off ELSE 0
                 IN  IF stmt.limit < rest THEN stmt.limit ELSE rest
    <3>1. Len(L) = IF off + 1 <= m THEN m - off ELSE 0
      BY <2>6
    <3> QED
      BY <2>1, <2>3, <3>1
  <2>9. ~ (stmt.limit < 0)
    BY <1>3, <2>3
  <2>10. Len(L) = LET rest == IF Len(rows) > off THEN Len(rows) - off ELSE 0
                  IN  IF stmt.limit >= 0 /\ stmt.limit < rest THEN stmt.limit ELSE rest
    BY <1>3, <2>8
  <2>11. \A i \in DOMAIN L : off + i \in DOMAIN rows /\ L[i] = rows[off + i]
    BY <2>6, <2>7
  <2> QED
    BY <2>6, <2>9, <2>10, <2>11 DEF L, off
<1> QED
  BY <1>1, <1>2, <1>3

-----------------------------------------------------------------------------
(* The inductive invariant.                                                *)

\* The table of the k-th read.
TableRead(k) == IF k = 1 THEN stmt.table ELSE stmt.joins[k - 1].table

firstLeft  == ColumnIndex(stmt.joins[1].leftCol, Columns[stmt.table])
firstRight == ColumnIndex(stmt.joins[1].rightCol, Columns[stmt.joins[1].table])

\* Statement, program counter and tables; what has been read.
RequestOk ==
    /\ DOMAIN stored = Tables
    /\ \A tb \in Tables : stored[tb] \in Contents[tb] \cup {Missing}
    /\ stmt \in Statements
    /\ pc \in {"idle", "scan", "join", "filter", "project", "sort", "limit",
              "answered", "failed", "undefined"}

ReadsOk ==
    /\ reads \in Seq(Seq(Seq(Field)))
    /\ Len(reads) <= Len(stmt.joins) + 1
    /\ \A k \in DOMAIN reads : reads[k] \in Contents[TableRead(k)]
    /\ pc \in {"idle", "scan"} =>
          reads = <<>> /\ joinedRows = <<>> /\ joinedSchema = <<>> /\ filtered = <<>>
    /\ pc \in {"join", "filter"} => filtered = <<>>
    /\ pc = "join" => reads # <<>> /\ Len(reads) <= Len(stmt.joins)
    /\ pc \in {"filter", "project", "sort", "limit", "answered"} => Len(reads) = Len(stmt.joins) + 1

\* What is joined.
JoinedOk ==
    /\ joinedSchema \in Seq(Column)
    /\ Alike(joinedRows) /\ Alike(filtered)
    /\ Len(reads) = 1 => /\ joinedSchema = Columns[stmt.table]
                         /\ joinedRows = IF stmt.joins = <<>> THEN allRows ELSE <<>>
    /\ Len(reads) = 2 => /\ firstLeft # 0 /\ firstRight # 0
                         /\ joinedRows = Pairs(allRows, reads[2], firstLeft, firstRight)

\* An earlier JOIN may have found nothing.
Off ==
    /\ Len(stmt.joins) >= 2 /\ Len(reads) >= 2
    /\ Len(stmt.joins) = 2 => Pairs(allRows, reads[2], firstLeft, firstRight) = <<>>

FitOk ==
    /\ Off \/ (RowsFit(joinedRows, joinedSchema) /\ RowsFit(filtered, joinedSchema))
    /\ pc = "undefined" => Off

\* The rows the items of the statement make of those that match.
Made ==
    IF Plain THEN Projected(filtered)
    ELSE IF stmt.groupBy = <<>> THEN <<OutRow(filtered)>> ELSE GroupRows(filtered)

\* All of these can be made.
Makeable ==
    /\ ~ProjectThrows
    /\ IF Plain THEN ~PastIn(colIndexes, filtered)
                ELSE ~PastIn(groupIdxs, filtered) /\ ~ItemsPast(filtered)

Sorted == StableSort(produced, SortKeys(result.columns))

ResultOk ==
    /\ result \in [columns : Seq(SelectItem), rows : Seq(Seq(Field))]
    /\ \A i \in DOMAIN result.rows : Len(result.rows[i]) = Len(result.columns)
    /\ pc \in {"sort", "limit", "answered"} =>
          Makeable /\ result.columns = Header /\ produced = Made
    /\ pc = "sort" => result.rows = produced
    /\ pc = "limit" => result.rows = Sorted
    /\ pc = "answered" => result.rows = Limited(Sorted)

IInv == RequestOk /\ ReadsOk /\ JoinedOk /\ FitOk /\ ResultOk
-----------------------------------------------------------------------------

\* When the items can be computed, each of them can.
LEMMA ItemsFine ==
    ASSUME Makeable, ~Plain, stmt.groupBy = <<>> \/ filtered # <<>>, NEW i \in DOMAIN stmt.items
    PROVE  CanShow(stmt.items[i], filtered)
<1>1. ~PastIn(groupIdxs, filtered) /\ ~ItemsPast(filtered) /\ ~ItemsThrow(filtered)
  BY Zenon DEF Makeable, ProjectThrows
<1>2. BadItems(filtered) = {}
  BY <1>1 DEF ItemsPast, ItemsThrow
<1>3. ~ItemPast(stmt.items[i], filtered)
  BY <1>2 DEF BadItems
<1> QED
  BY <1>3 DEF ItemPast, CanShow

\* A row of items.
LEMMA OutRowIs ==
    ASSUME stmt \in Statements, filtered \in Seq(Seq(Field)), NEW S, S \subseteq DOMAIN filtered,
           \A i \in DOMAIN stmt.items : CanShow(stmt.items[i], filtered)
    PROVE  LET row == OutRow(Keep(filtered, S))
           IN  /\ row \in Seq(Field) /\ Len(row) = Len(stmt.items) /\ DOMAIN row = DOMAIN stmt.items
               /\ \A i \in DOMAIN row : ItemShows(stmt.items[i], row[i], filtered)
<1> DEFINE rows == Keep(filtered, S)
           n == Len(stmt.items)
<1>1. n \in Nat /\ DOMAIN stmt.items = 1 .. n
  BY StatementParts
<1>2. rows \in Seq(Seq(Field)) /\ \A k \in DOMAIN rows : \E j \in DOMAIN filtered : rows[k] = filtered[j]
  BY KeepType
<1> HIDE DEF rows, n
<1>3. ASSUME NEW i \in 1 .. n
      PROVE  /\ ItemValue(stmt.items[i], rows) \in Field
             /\ ItemShows(stmt.items[i], ItemValue(stmt.items[i], rows), filtered)
  <2>1. stmt.items[i] \in SelectItem /\ CanShow(stmt.items[i], filtered)
    BY <1>1, ItemParts
  <2>2. CanShow(stmt.items[i], rows)
    BY <1>2, <2>1 DEF CanShow
  <2>3. /\ ItemValue(stmt.items[i], rows) \in Field
        /\ ItemShows(stmt.items[i], ItemValue(stmt.items[i], rows), rows)
    BY <1>2, <2>1, <2>2, ItemValueType
  <2>4. ItemShows(stmt.items[i], ItemValue(stmt.items[i], rows), filtered)
    BY <1>2, <2>3 DEF ItemShows
  <2> QED
    BY <2>3, <2>4
<1>4. OutRow(rows) = [i \in 1 .. n |-> ItemValue(stmt.items[i], rows)]
  BY <1>1 DEF OutRow
<1>5. /\ OutRow(rows) \in Seq(Field) /\ Len(OutRow(rows)) = n /\ DOMAIN OutRow(rows) = 1 .. n
      /\ \A i \in 1 .. n : OutRow(rows)[i] = ItemValue(stmt.items[i], rows)
  BY <1>1, <1>3, <1>4
<1>6. \A i \in 1 .. n : ItemShows(stmt.items[i], OutRow(rows)[i], filtered)
  BY <1>3, <1>5
<1> QED
  BY <1>1, <1>5, <1>6 DEF rows, n

\* One item shows values of one kind in all rows.
LEMMA ShownAlike ==
    ASSUME Alike(filtered), NEW item, NEW v, NEW w, ItemShows(item, v, filtered), ItemShows(item, w, filtered)
    PROVE  SameKind(v, w)
<1>1. NULL.kind = "NULL"
  BY DEF NULL
<1>2. CASE v = NULL \/ w = NULL
  BY <1>1, <1>2 DEF SameKind
<1>3. CASE v # NULL /\ w # NULL /\ item.agg \in {"NONE", "MIN", "MAX"}
  BY <1>3, AlikeParts DEF ItemShows
<1>4. CASE v # NULL /\ w # NULL /\ item.agg \notin {"NONE", "MIN", "MAX"}
  BY <1>4 DEF ItemShows, SameKind
<1> QED
  BY <1>2, <1>3, <1>4

\* The rows of the answer are alike.
LEMMA MadeRows ==
    ASSUME stmt \in Statements, joinedSchema \in Seq(Column), Alike(filtered), Makeable
    PROVE  Alike(Made) /\ \A i \in DOMAIN Made : Len(Made[i]) = Len(Header)
<1>0. filtered \in Seq(Seq(Field)) /\ Len(filtered) \in Nat /\ DOMAIN filtered = 1 .. Len(filtered)
  BY DEF Alike
<1>1. CASE Plain
  <2> DEFINE n == Len(Header)
             out(r) == [i \in 1 .. n |-> filtered[r][colIndexes[i]]]
  <2>1. n \in Nat /\ DOMAIN colIndexes = 1 .. n
    BY <1>1, HeaderType
  <2>2. Made = [r \in 1 .. Len(filtered) |-> out(r)]
    BY <1>0, <1>1, <2>1 DEF Made, Projected
  <2>3. \A r \in DOMAIN filtered : \A i \in 1 .. n : colIndexes[i] \in DOMAIN filtered[r]
    BY <1>1, <2>1 DEF Makeable, PastIn
  <2>4. ASSUME NEW r \in 1 .. Len(filtered)
        PROVE  /\ out(r) \in Seq(Field) /\ Len(out(r)) = n /\ DOMAIN out(r) = 1 .. n
               /\ \A i \in 1 .. n : out(r)[i] = filtered[r][colIndexes[i]]
    <3>1. \A i \in 1 .. n : filtered[r][colIndexes[i]] \in Field
      BY <1>0, <2>3, AlikeParts
    <3> HIDE DEF n
    <3> QED
      BY <2>1, <3>1
  <2> HIDE DEF out, n
  <2>5. /\ Made \in Seq(Seq(Field)) /\ DOMAIN Made = 1 .. Len(filtered)
        /\ \A r \in 1 .. Len(filtered) : Made[r] = out(r)
    BY <1>0, <2>2, <2>4
  <2>6. ASSUME NEW r \in 1 .. Len(filtered), NEW q \in 1 .. Len(filtered), NEW i \in 1 .. n
        PROVE  SameKind(out(r)[i], out(q)[i])
    <3>1. SameKind(filtered[r][colIndexes[i]], filtered[q][colIndexes[i]])
      BY <1>0, <2>3, AlikeParts
    <3> QED
      BY <2>4, <3>1
  <2>7. Alike(Made)
    <3>1. \A r \in 1 .. Len(filtered) : Len(out(r)) = n /\ DOMAIN out(r) = 1 .. n
      BY <2>4
    <3>2. \A r, q \in 1 .. Len(filtered) : \A i \in DOMAIN out(r) : SameKind(out(r)[i], out(q)[i])
      BY <2>6, <3>1
    <3> QED
      BY <2>5, <3>1, <3>2 DEF Alike
  <2> QED
    BY <2>4, <2>5, <2>7 DEF n
<1>2. CASE ~Plain
  <2> DEFINE Row(x) == /\ x \in Seq(Field) /\ Len(x) = Len(stmt.items) /\ DOMAIN x = DOMAIN stmt.items
                       /\ \A i \in DOMAIN x : ItemShows(stmt.items[i], x[i], filtered)
  <2>1. Header = stmt.items
    BY <1>2, HeaderType
  <2>2. ASSUME NEW S, S \subseteq DOMAIN filtered, stmt.groupBy = <<>> \/ filtered # <<>>
        PROVE  Row(OutRow(Keep(filtered, S)))
    <3>1. \A i \in DOMAIN stmt.items : CanShow(stmt.items[i], filtered)
      BY <1>2, <2>2, ItemsFine
    <3> QED
      BY <1>0, <2>2, <3>1, OutRowIs
  <2>3. ASSUME NEW x, NEW y, Row(x), Row(y), NEW i \in DOMAIN x
        PROVE  SameKind(x[i], y[i])
    BY <2>3, ShownAlike
  <2>4. CASE stmt.groupBy = <<>>
    <3>1. Keep(filtered, DOMAIN filtered) = filtered
      BY <1>0, KeepWhole
    <3>2. Row(OutRow(filtered))
      BY <2>2, <2>4, <3>1
    <3>3. Made = <<OutRow(filtered)>>
      BY <1>2, <2>4 DEF Made
    <3> DEFINE x == OutRow(filtered)
    <3>4. x \in Seq(Field) /\ Len(x) = Len(stmt.items) /\ \A i \in DOMAIN x : SameKind(x[i], x[i])
      BY <2>3, <3>2
    <3> HIDE DEF x
    <3>5. Made = <<x>>
      BY <3>3 DEF x
    <3>6. Made \in Seq(Seq(Field)) /\ DOMAIN Made = {1} /\ Made[1] = x
      BY <3>4, <3>5
    <3> QED
      BY <2>1, <3>4, <3>6 DEF Alike
  <2>5. CASE stmt.groupBy # <<>>
    <3> DEFINE O == Openers(filtered)
               c == Cardinality(O)
               out(k) == OutRow(GroupOf(filtered, Nth(O, k)))
    <3>1. O \subseteq 1 .. Len(filtered)
      BY <1>0 DEF Openers
    <3>2. c \in Nat
      <4> HIDE DEF O
      <4> QED
        BY <1>0, <3>1, RankInjective, FS_CardinalityType
    <3>3. Made = [k \in 1 .. c |-> out(k)]
      BY <1>2, <2>5 DEF Made, GroupRows
    <3>4. ASSUME NEW k \in 1 .. c
          PROVE  Row(out(k))
      <4>1. Nth(O, k) \in O
        <5> HIDE DEF O
        <5> QED
          BY <1>0, <3>1, NthIsPosition
      <4>2. filtered # <<>>
        BY <1>0, <3>1, <4>1
      <4> DEFINE S == {j \in DOMAIN filtered : makeKey(filtered[j]) = makeKey(filtered[Nth(O, k)])}
      <4>3. S \subseteq DOMAIN filtered /\ out(k) = OutRow(Keep(filtered, S))
        BY DEF GroupOf
      <4> HIDE DEF S, out, Row
      <4> QED
        BY <2>2, <4>2, <4>3
    <3> HIDE DEF out, c
    <3>5. \A k \in 1 .. c : out(k) \in Seq(Field) /\ Len(out(k)) = Len(stmt.items) /\ DOMAIN out(k) = DOMAIN stmt.items
      BY <3>4
    <3>6. Made \in Seq(Seq(Field)) /\ DOMAIN Made = 1 .. c /\ \A k \in 1 .. c : Made[k] = out(k)
      BY <3>2, <3>3, <3>5
    <3>7. \A k, m \in 1 .. c : \A i \in DOMAIN out(k) : SameKind(out(k)[i], out(m)[i])
      <4> HIDE DEF Row
      <4> QED
        BY <2>3, <3>4
    <3> QED
      BY <2>1, <3>5, <3>6, <3>7 DEF Alike
  <2> QED
    BY <2>4, <2>5
<1> QED
  BY <1>1, <1>2

\* No rows are alike and fit every schema.
LEMMA NoRows ==
    Alike(<<>>) /\ \A schema : RowsFit(<<>>, schema)
<1>1. <<>> \in Seq(Seq(Field)) /\ DOMAIN <<>> = {}
  OBVIOUS
<1> QED
  BY <1>1 DEF Alike, RowsFit

\* What readRows has returned are alike rows that fit their table.
LEMMA EarlierReads ==
    ASSUME IInv, NEW k \in DOMAIN reads
    PROVE  /\ TableRead(k) \in Tables /\ Alike(reads[k]) /\ reads[k] \in Seq(Seq(Field))
           /\ RowsFit(reads[k], Columns[TableRead(k)])
<1>1. stmt.table \in Tables /\ stmt.joins \in Seq(JoinClause) /\ stmt \in Statements
  BY StatementParts DEF IInv, RequestOk
<1>2. k \in 1 .. Len(stmt.joins) + 1 /\ reads[k] \in Contents[TableRead(k)]
  BY <1>1 DEF IInv, ReadsOk
<1>3. TableRead(k) \in Tables
  <2>1. CASE k = 1
    BY <1>1, <2>1 DEF TableRead
  <2>2. CASE k # 1
    <3>1. k - 1 \in DOMAIN stmt.joins
      BY <1>1, <1>2, <2>2
    <3>2. stmt.joins[k - 1] \in JoinClause
      <4> HIDE DEF JoinClause
      <4> QED
        BY <1>1, <3>1
    <3> QED
      BY <2>2, <3>2 DEF TableRead, JoinClause
  <2> QED
    BY <2>1, <2>2
<1>4. Alike(reads[k]) /\ RowsFit(reads[k], Columns[TableRead(k)])
  BY <1>2, <1>3, TableRows
<1> QED
  BY <1>3, <1>4 DEF Alike

\* What the next JOIN has on its left.
LEMMA LeftFits ==
    ASSUME IInv, pc = "join"
    PROVE  /\ Alike(LeftRows)
           /\ Off \/ RowsFit(LeftRows, joinedSchema)
           /\ Len(reads) = 1 => LeftRows = allRows /\ joinedSchema = Columns[stmt.table]
<1>1. /\ reads \in Seq(Seq(Seq(Field))) /\ reads # <<>> /\ Len(reads) <= Len(stmt.joins)
      /\ stmt.joins \in Seq(JoinClause)
  BY StatementParts DEF IInv, ReadsOk, RequestOk
<1>2. /\ Len(reads) \in Nat /\ Len(reads) > 0 /\ 1 \in DOMAIN reads /\ Len(stmt.joins) \in Nat
      /\ Len(reads) <= Len(stmt.joins)
  BY <1>1
<1>3. Alike(allRows) /\ RowsFit(allRows, Columns[stmt.table])
  <2>1. Alike(reads[1]) /\ RowsFit(reads[1], Columns[TableRead(1)])
    BY <1>2, EarlierReads
  <2>2. TableRead(1) = stmt.table
    BY DEF TableRead
  <2> QED
    BY <2>1, <2>2 DEF allRows
<1>4. Alike(joinedRows)
  BY DEF IInv, JoinedOk
<1>5. Len(reads) = 1 => LeftRows = allRows /\ joinedSchema = Columns[stmt.table]
  <2> SUFFICES ASSUME Len(reads) = 1
               PROVE  LeftRows = allRows /\ joinedSchema = Columns[stmt.table]
    OBVIOUS
  <2>1. stmt.joins # <<>>
    BY <1>1, <1>2
  <2> QED
    BY <2>1 DEF IInv, JoinedOk, LeftRows
<1>6. Off \/ RowsFit(LeftRows, joinedSchema)
  <2>1. CASE Len(reads) = 1
    BY <1>3, <1>5, <2>1
  <2>2. CASE Len(reads) # 1 /\ joinedRows # <<>>
    BY <2>2 DEF IInv, FitOk, LeftRows
  <2>3. CASE Len(reads) # 1 /\ joinedRows = <<>>
    <3>1. Len(reads) >= 2 /\ Len(stmt.joins) >= 2
      BY <1>2, <2>3
    <3>2. Len(stmt.joins) = 2 => Len(reads) = 2
      <4> DEFINE a == Len(reads)
                 b == Len(stmt.joins)
      <4>1. a \in Nat /\ b \in Nat /\ a <= b /\ a >= 2
        BY <1>2, <3>1
      <4> HIDE DEF a, b
      <4>2. b = 2 => a = 2
        BY <4>1
      <4> QED
        BY <4>2 DEF a, b
    <3>3. Len(reads) = 2 => Pairs(allRows, reads[2], firstLeft, firstRight) = <<>>
      BY <2>3 DEF IInv, JoinedOk
    <3> QED
      BY <3>1, <3>2, <3>3 DEF Off
  <2> QED
    BY <2>1, <2>2, <2>3
<1> QED
  BY <1>3, <1>4, <1>5, <1>6 DEF LeftRows

\* A table that is read is there.
LEMMA NextIsThere ==
    ASSUME IInv, pc \in {"scan", "join"}, stored[NextTable] # Missing
    PROVE  /\ NextTable \in Tables /\ stored[NextTable] \in Contents[NextTable]
           /\ pc = "scan" => NextTable = stmt.table
           /\ pc = "join" => /\ NextTable = NextJoin.table /\ NextTable = TableRead(Len(reads) + 1)
                             /\ Len(reads) \in 1 .. Len(stmt.joins)
<1>1. /\ stmt.table \in Tables /\ stmt.joins \in Seq(JoinClause)
      /\ reads \in Seq(Seq(Seq(Field)))
  BY StatementParts DEF IInv, RequestOk, ReadsOk
<1>2. CASE pc = "scan"
  <2>1. NextTable = stmt.table
    BY <1>2 DEF IInv, ReadsOk, NextTable
  <2> QED
    BY <1>1, <1>2, <2>1 DEF IInv, RequestOk
<1>3. CASE pc = "join"
  <2>1. reads # <<>> /\ Len(reads) \in 1 .. Len(stmt.joins)
    BY <1>1, <1>3 DEF IInv, ReadsOk
  <2>2. NextTable = NextJoin.table /\ NextJoin = stmt.joins[Len(reads)]
    BY <2>1 DEF NextTable, NextJoin
  <2>3. stmt.joins[Len(reads)] \in JoinClause
    <3> HIDE DEF JoinClause
    <3> QED
      BY <1>1, <2>1
  <2>4. NextTable \in Tables
    BY <2>2, <2>3 DEF JoinClause
  <2>5. TableRead(Len(reads) + 1) = NextTable
    BY <2>1, <2>2 DEF TableRead
  <2> QED
    BY <1>3, <2>1, <2>2, <2>4, <2>5 DEF IInv, RequestOk
<1> QED
  BY <1>2, <1>3

\* A column that is found is one of every row.
LEMMA NotPast ==
    ASSUME NEW rows, Alike(rows), NEW schema \in Seq(Column), RowsFit(rows, schema), NEW name,
           ColumnIndex(name, schema) # 0, NEW r \in DOMAIN rows
    PROVE  ColumnIndex(name, schema) \in DOMAIN rows[r]
<1>1. rows[r] \in Seq(Field) /\ Len(rows[r]) = Len(schema)
  BY DEF Alike, RowsFit
<1>2. ColumnIndex(name, schema) \in 1 .. Len(schema)
  <2>1. Len(schema) \in Nat /\ DOMAIN schema = 1 .. Len(schema)
    OBVIOUS
  <2>2. ColumnIndex(name, schema) \in 0 .. Len(schema)
    BY <2>1, ColumnIndexIs
  <2> QED
    BY <2>1, <2>2
<1> QED
  BY <1>1, <1>2

\* Reading past a row shows that an earlier JOIN found nothing.
LEMMA PastIsOff ==
    ASSUME IInv, ReadsPast, ~Throws
    PROVE  Off
<1>1. joinedSchema \in Seq(Column) /\ Alike(filtered) /\ (Off \/ RowsFit(filtered, joinedSchema))
  BY DEF IInv, JoinedOk, FitOk
<1>2. CASE pc = "join"
  <2>1. /\ stored[NextTable] # Missing
        /\ PastIn(<<leftIdx>>, LeftRows) \/ PastIn(<<rightIdx>>, stored[NextTable])
    BY <1>2 DEF ReadsPast
  <2>2. leftIdx # 0 /\ rightIdx # 0
    BY <1>2 DEF Throws, JoinThrows
  <2>3. /\ NextTable \in Tables /\ stored[NextTable] \in Contents[NextTable] /\ NextTable = NextJoin.table
    BY <1>2, <2>1, NextIsThere
  <2>4. Alike(stored[NextTable]) /\ RowsFit(stored[NextTable], Columns[NextTable]) /\ Columns[NextTable] \in Seq(Column)
    BY <2>3, TableRows, ColumnsAssumption
  <2>5. \A r \in DOMAIN stored[NextTable] : rightIdx \in DOMAIN stored[NextTable][r]
    BY <2>2, <2>3, <2>4, NotPast DEF rightIdx
  <2>6. ~PastIn(<<rightIdx>>, stored[NextTable])
    BY <2>5 DEF PastIn
  <2>7. \E r \in DOMAIN LeftRows : leftIdx \notin DOMAIN LeftRows[r]
    BY <2>1, <2>6 DEF PastIn
  <2>8. Alike(LeftRows) /\ (Off \/ RowsFit(LeftRows, joinedSchema))
    BY <1>2, LeftFits
  <2> QED
    BY <1>1, <2>2, <2>7, <2>8, NotPast DEF leftIdx
<1>3. CASE pc = "project" /\ RowsFit(filtered, joinedSchema)
  <2>1. ~ProjectThrows
    BY <1>3 DEF Throws
  <2>2. CASE Plain
    <3>1. PICK i \in DOMAIN colIndexes : \E r \in DOMAIN filtered : colIndexes[i] \notin DOMAIN filtered[r]
      BY <1>3, <2>2 DEF ReadsPast, PastIn
    <3>2. colIndexes[i] # 0
      BY <2>1, <2>2, <3>1 DEF ProjectThrows
    <3>3. CASE stmt.items = <<>>
      <4>1. colIndexes[i] = i /\ i \in DOMAIN joinedSchema
        BY <3>1, <3>3 DEF colIndexes
      <4>2. \A r \in DOMAIN filtered : i \in DOMAIN filtered[r]
        <5> TAKE r \in DOMAIN filtered
        <5>1. filtered[r] \in Seq(Field) /\ Len(filtered[r]) = Len(joinedSchema)
          BY <1>1, <1>3 DEF Alike, RowsFit
        <5> QED
          BY <1>1, <4>1, <5>1
      <4> QED
        BY <3>1, <4>1, <4>2
    <3>4. CASE stmt.items # <<>>
      <4>1. colIndexes[i] = ColumnIndex(stmt.items[i].arg, joinedSchema)
        BY <3>1, <3>4 DEF colIndexes
      <4> QED
        BY <1>1, <1>3, <3>1, <3>2, <4>1, NotPast
    <3> QED
      BY <3>3, <3>4
  <2>3. CASE ~Plain
    <3>1. \A i \in DOMAIN groupIdxs : groupIdxs[i] # 0
      BY <2>1, <2>3, Zenon DEF ProjectThrows
    <3>2. \A i \in DOMAIN groupIdxs : groupIdxs[i] = ColumnIndex(stmt.groupBy[i], joinedSchema)
      BY DEF groupIdxs
    <3>3. \A i \in DOMAIN groupIdxs : \A r \in DOMAIN filtered : groupIdxs[i] \in DOMAIN filtered[r]
      BY <1>1, <1>3, <3>1, <3>2, NotPast
    <3>4. ItemsPast(filtered)
      BY <1>3, <2>3, <3>3 DEF ReadsPast, PastIn
    <3> DEFINE bad == BadItems(filtered)
    <3>5. Min(bad) \in bad
      <4>1. bad \subseteq DOMAIN stmt.items /\ bad # {} /\ stmt.items \in Seq(SelectItem)
        BY <3>4, StatementParts DEF BadItems, ItemsPast, IInv, RequestOk
      <4>2. bad \subseteq Nat
        BY <4>1
      <4> HIDE DEF bad
      <4> QED
        BY <4>1, <4>2, MinIsLeast
    <3> DEFINE item == stmt.items[Min(bad)]
    <3>6. ~ItemThrows(item) /\ ItemPast(item, filtered)
      BY <3>4, <3>5 DEF ItemsPast, BadItems
    <3> HIDE DEF item
    <3>7. ColumnIndex(item.arg, joinedSchema) # 0
      BY <3>6 DEF ItemThrows, ItemPast
    <3> QED
      BY <1>1, <1>3, <3>6, <3>7, NotPast DEF ItemPast
  <2> QED
    BY <2>2, <2>3
<1> QED
  BY <1>1, <1>2, <1>3 DEF ReadsPast

\* The inductive invariant holds at the start.
LEMMA InitIInv ==
    ASSUME Init
    PROVE  IInv
<1>1. RequestOk
  BY ContentsAssumption DEF Init, RequestOk
<1>2. ReadsOk
  <2>1. /\ reads = <<>> /\ joinedRows = <<>> /\ joinedSchema = <<>> /\ filtered = <<>> /\ pc = "idle"
        /\ stmt.joins \in Seq(JoinClause)
    BY StatementParts DEF Init
  <2>2. <<>> \in Seq(Seq(Seq(Field))) /\ DOMAIN <<>> = {} /\ Len(<<>>) = 0 /\ Len(stmt.joins) \in Nat
    BY <2>1
  <2> QED
    BY <2>1, <2>2 DEF ReadsOk
<1>3. JoinedOk
  <2>1. reads = <<>> /\ joinedRows = <<>> /\ joinedSchema = <<>> /\ filtered = <<>>
    BY DEF Init
  <2>2. <<>> \in Seq(Column) /\ Len(<<>>) = 0
    OBVIOUS
  <2> QED
    BY <2>1, <2>2, NoRows DEF JoinedOk
<1>4. FitOk
  BY NoRows DEF Init, FitOk
<1>5. ResultOk
  <2>1. NoResult \in [columns : Seq(SelectItem), rows : Seq(Seq(Field))] /\ DOMAIN NoResult.rows = {}
    BY DEF NoResult
  <2> QED
    BY <2>1 DEF Init, ResultOk
<1> QED
  BY <1>1, <1>2, <1>3, <1>4, <1>5 DEF IInv

-----------------------------------------------------------------------------
(* What a step leaves as it is.                                            *)

\* Nothing of what has been read changes when reads and statement do not.
LEMMA SameReads ==
    ASSUME stmt' = stmt, reads' = reads
    PROVE  /\ Off' = Off
           /\ firstLeft' = firstLeft /\ firstRight' = firstRight
           /\ allRows' = allRows
           /\ \A k : TableRead(k)' = TableRead(k)
<1>1. allRows' = allRows
  BY DEF allRows
<1>2. firstLeft' = firstLeft /\ firstRight' = firstRight
  BY DEF firstLeft, firstRight
<1>3. \A k : TableRead(k)' = TableRead(k)
  BY DEF TableRead
<1>4. Off' = Off
  BY <1>1, <1>2 DEF Off
<1> QED
  BY <1>1, <1>2, <1>3, <1>4

\* When the rows joined and read stay, so does what is said of them.
LEMMA SameWorking ==
    ASSUME IInv, stmt' = stmt, working' = working
    PROVE  /\ JoinedOk'
           /\ pc' # "undefined" => FitOk'
           /\ pc' \in {"sort", "limit", "answered"} /\ pc \in {"project", "sort", "limit"} => ReadsOk'
           /\ pc' \in {"failed", "undefined"} => ReadsOk'
           /\ pc' = pc => ReadsOk'
<1>1. reads' = reads /\ joinedRows' = joinedRows /\ joinedSchema' = joinedSchema /\ filtered' = filtered
  BY DEF working
<1>2. /\ Off' = Off /\ firstLeft' = firstLeft /\ firstRight' = firstRight /\ allRows' = allRows
      /\ \A k : TableRead(k)' = TableRead(k)
  BY <1>1, SameReads
<1>3. JoinedOk'
  BY <1>1, <1>2 DEF IInv, JoinedOk
<1>4. pc' # "undefined" => FitOk'
  BY <1>1, <1>2 DEF IInv, FitOk
<1>5. /\ reads \in Seq(Seq(Seq(Field))) /\ Len(reads) <= Len(stmt.joins) + 1
      /\ \A k \in DOMAIN reads : reads[k] \in Contents[TableRead(k)]
      /\ pc \in {"project", "sort", "limit", "answered"} => Len(reads) = Len(stmt.joins) + 1
  BY DEF IInv, ReadsOk
<1>6. \A k \in DOMAIN reads' : reads'[k] \in Contents[TableRead(k)']
  BY <1>1, <1>2, <1>5
<1>7. pc' \in {"sort", "limit", "answered"} /\ pc \in {"project", "sort", "limit"} => ReadsOk'
  BY <1>1, <1>5, <1>6 DEF ReadsOk
<1>8. pc' \in {"failed", "undefined"} => ReadsOk'
  BY <1>1, <1>5, <1>6 DEF ReadsOk
<1>9. pc' = pc => ReadsOk'
  BY <1>1, <1>6 DEF IInv, ReadsOk
<1> QED
  BY <1>3, <1>4, <1>7, <1>8, <1>9

\* Nothing of what is made of the rows changes when they and the statement do not.
LEMMA SameMade ==
    ASSUME stmt' = stmt, joinedSchema' = joinedSchema, filtered' = filtered
    PROVE  /\ Made' = Made /\ Header' = Header /\ Makeable' = Makeable
           /\ \A header : SortKeys(header)' = SortKeys(header)
           /\ \A rows : Limited(rows)' = Limited(rows)
<1>1. Plain' = Plain
  BY DEF Plain
<1>2. colIndexes' = colIndexes /\ groupIdxs' = groupIdxs
  BY DEF colIndexes, groupIdxs
<1>3. Header' = Header
  BY <1>1 DEF Header
<1>4. \A header : SortKeys(header)' = SortKeys(header)
  BY DEF SortKeys
<1>5. \A rows : Limited(rows)' = Limited(rows)
  BY DEF Limited
<1>6. \A item : ItemThrows(item)' = ItemThrows(item)
  BY DEF ItemThrows
<1>7. ItemsPast(filtered)' = ItemsPast(filtered)
  BY DEF ItemsPast, BadItems, ItemThrows, ItemPast
<1>8. ItemsThrow(filtered)' = ItemsThrow(filtered)
  BY DEF ItemsThrow, BadItems, ItemThrows, ItemPast
<1>9. ProjectThrows' = ProjectThrows
  BY <1>1, <1>2, <1>8 DEF ProjectThrows
<1>10. Makeable' = Makeable
  BY <1>1, <1>2, <1>7, <1>9 DEF Makeable
<1>11. Projected(filtered)' = Projected(filtered)
  BY <1>2 DEF Projected
<1>15. \A f, arg, rows : calcAgg(f, arg, rows)' = calcAgg(f, arg, rows)
  BY DEF calcAgg
<1>16. \A item, rows : ItemValue(item, rows)' = ItemValue(item, rows)
  BY <1>15 DEF ItemValue
<1>17. \A rows : OutRow(rows)' = OutRow(rows)
  BY <1>16 DEF OutRow
<1>12. OutRow(filtered)' = OutRow(filtered)
  BY <1>17
<1>18. \A row : makeKey(row)' = makeKey(row)
  BY <1>2 DEF makeKey
<1>19. Openers(filtered)' = Openers(filtered)
  BY <1>18 DEF Openers
<1>20. \A i : GroupOf(filtered, i)' = GroupOf(filtered, i)
  BY <1>18 DEF GroupOf
<1>13. GroupRows(filtered)' = GroupRows(filtered)
  BY <1>17, <1>19, <1>20 DEF GroupRows
<1>14. Made' = Made
  BY <1>1, <1>11, <1>12, <1>13 DEF Made
<1> QED
  BY <1>3, <1>4, <1>5, <1>10, <1>14

\* Nothing is answered yet.
LEMMA SameAnswer ==
    ASSUME IInv, answer' = answer, pc' \notin {"sort", "limit", "answered"}
    PROVE  ResultOk'
<1>1. result' = result /\ produced' = produced
  BY DEF answer
<1> QED
  BY <1>1 DEF IInv, ResultOk

\* Another connection may write to a table at any moment between two reads.
LEMMA WriteStep ==
    ASSUME IInv, NEW tb \in Tables, Write(tb)
    PROVE  IInv'
<1>1. PICK rows \in Contents[tb] \cup {Missing} : stored' = [stored EXCEPT ![tb] = rows]
  BY DEF Write
<1>2. /\ pc \in {"idle", "join"} /\ stmt' = stmt /\ pc' = pc /\ working' = working /\ answer' = answer
  BY DEF Write
<1>3. RequestOk'
  BY <1>1, <1>2 DEF IInv, RequestOk
<1>4. ReadsOk' /\ JoinedOk' /\ FitOk'
  BY <1>2, SameWorking
<1>5. ResultOk'
  BY <1>2, SameAnswer
<1> QED
  BY <1>3, <1>4, <1>5 DEF IInv

\* A new statement arrives when nothing is under way.
LEMMA ReceiveStep ==
    ASSUME IInv, Receive
    PROVE  IInv'
<1>1. /\ pc = "idle" /\ pc' = "scan" /\ stmt' \in Statements /\ stored' = stored
      /\ reads' = reads /\ joinedRows' = joinedRows /\ joinedSchema' = joinedSchema /\ filtered' = filtered
      /\ answer' = answer
  BY DEF Receive, working
<1>2. reads = <<>> /\ joinedRows = <<>> /\ joinedSchema = <<>> /\ filtered = <<>>
  BY <1>1 DEF IInv, ReadsOk
<1>3. RequestOk'
  BY <1>1 DEF IInv, RequestOk
<1>4. stmt'.joins \in Seq(JoinClause)
  BY <1>1, StatementsAssumption DEF SelectStatement
<1>5. /\ <<>> \in Seq(Seq(Seq(Field))) /\ DOMAIN <<>> = {} /\ Len(<<>>) = 0 /\ Len(stmt'.joins) \in Nat
      /\ <<>> \in Seq(Column)
  BY <1>4
<1>6. ReadsOk'
  BY <1>1, <1>2, <1>5 DEF ReadsOk
<1>7. JoinedOk'
  BY <1>1, <1>2, <1>5, NoRows DEF JoinedOk
<1>8. FitOk'
  BY <1>1, <1>2, NoRows DEF FitOk
<1>9. ResultOk'
  BY <1>1, SameAnswer
<1> QED
  BY <1>3, <1>6, <1>7, <1>8, <1>9 DEF IInv

\* The main table is read.
LEMMA ScanStep ==
    ASSUME IInv, Scan
    PROVE  IInv'
<1> DEFINE rows == stored[stmt.table]
<1>1. /\ pc = "scan" /\ ~Throws /\ stored' = stored /\ stmt' = stmt /\ filtered' = filtered /\ answer' = answer
      /\ reads' = <<rows>> /\ joinedSchema' = Columns[stmt.table]
      /\ IF stmt.joins = <<>> THEN joinedRows' = rows /\ pc' = "filter" ELSE joinedRows' = <<>> /\ pc' = "join"
  BY DEF Scan, Reaches, request
<1>2. stored[NextTable] # Missing
  BY <1>1 DEF Throws
<1>3. NextTable = stmt.table /\ NextTable \in Tables /\ rows \in Contents[stmt.table]
  BY <1>1, <1>2, NextIsThere
<1>4. Alike(rows) /\ RowsFit(rows, Columns[stmt.table]) /\ Columns[stmt.table] \in Seq(Column)
  BY <1>3, TableRows, ColumnsAssumption
<1>5. rows \in Seq(Seq(Field))
  BY <1>4 DEF Alike
<1> HIDE DEF rows
<1>6. /\ stmt.joins \in Seq(JoinClause) /\ filtered = <<>>
  BY <1>1, StatementParts DEF IInv, RequestOk, ReadsOk
<1>7. /\ reads' \in Seq(Seq(Seq(Field))) /\ Len(reads') = 1 /\ DOMAIN reads' = {1} /\ reads'[1] = rows
      /\ reads' # <<>>
  BY <1>1, <1>5
<1>8. Len(stmt.joins) \in Nat /\ (stmt.joins = <<>> => Len(stmt.joins) = 0) /\ (stmt.joins # <<>> => 1 <= Len(stmt.joins))
  BY <1>6
<1>9. RequestOk'
  BY <1>1 DEF IInv, RequestOk
<1>10. ReadsOk'
  <2>1. \A k \in DOMAIN reads' : reads'[k] \in Contents[TableRead(k)']
    BY <1>1, <1>3, <1>7 DEF TableRead
  <2>2. Len(reads') <= Len(stmt'.joins) + 1
    BY <1>1, <1>7, <1>8
  <2>3. /\ pc' \in {"filter", "join"} /\ (pc' = "join" => 1 <= Len(stmt.joins))
        /\ (pc' = "filter" => 1 = Len(stmt.joins) + 1)
    BY <1>1, <1>8
  <2> QED
    BY <1>1, <1>6, <1>7, <2>1, <2>2, <2>3 DEF ReadsOk
<1>11. JoinedOk'
  <2>1. Alike(joinedRows') /\ Alike(filtered')
    BY <1>1, <1>4, <1>6, NoRows
  <2>2. joinedRows' = IF stmt'.joins = <<>> THEN allRows' ELSE <<>>
    BY <1>1, <1>7 DEF allRows
  <2> QED
    BY <1>1, <1>4, <1>7, <2>1, <2>2 DEF JoinedOk
<1>12. FitOk'
  BY <1>1, <1>4, <1>6, NoRows DEF FitOk
<1>13. ResultOk'
  <2>1. pc' \notin {"sort", "limit", "answered"}
    BY <1>1
  <2> QED
    BY <1>1, <2>1, SameAnswer
<1> QED
  BY <1>9, <1>10, <1>11, <1>12, <1>13 DEF IInv

\* One more table is read and joined.
LEMMA JoinStep ==
    ASSUME IInv, Join
    PROVE  IInv'
<1> DEFINE rows == stored[NextJoin.table]
           n == Len(reads)
           s == Columns[NextJoin.table]
<1>1. /\ pc = "join" /\ ~Throws /\ stored' = stored /\ stmt' = stmt /\ filtered' = filtered /\ answer' = answer
      /\ reads' = Append(reads, rows)
      /\ joinedRows' = Pairs(LeftRows, rows, leftIdx, rightIdx)
      /\ joinedSchema' = joinedSchema \o s
      /\ pc' = IF n = Len(stmt.joins) THEN "filter" ELSE "join"
  BY DEF Join, Reaches, request
<1>2. stored[NextTable] # Missing /\ leftIdx # 0 /\ rightIdx # 0
  BY <1>1 DEF Throws, JoinThrows
<1>3. /\ NextTable = NextJoin.table /\ NextTable \in Tables /\ rows \in Contents[NextJoin.table]
      /\ NextJoin.table = TableRead(n + 1) /\ n \in 1 .. Len(stmt.joins)
  BY <1>1, <1>2, NextIsThere
<1>4. Alike(rows) /\ RowsFit(rows, s) /\ s \in Seq(Column)
  BY <1>3, TableRows, ColumnsAssumption
<1>5. /\ Alike(LeftRows) /\ (Off \/ RowsFit(LeftRows, joinedSchema))
      /\ Len(reads) = 1 => LeftRows = allRows /\ joinedSchema = Columns[stmt.table]
  BY <1>1, LeftFits
<1>6. rows \in Seq(Seq(Field)) /\ LeftRows \in Seq(Seq(Field))
  BY <1>4, <1>5 DEF Alike
<1>7. /\ reads \in Seq(Seq(Seq(Field))) /\ filtered = <<>> /\ joinedSchema \in Seq(Column)
      /\ \A k \in DOMAIN reads : reads[k] \in Contents[TableRead(k)]
      /\ stmt.joins \in Seq(JoinClause)
  BY <1>1, StatementParts DEF IInv, RequestOk, ReadsOk, JoinedOk
<1> HIDE DEF rows, s
<1>8. /\ reads' \in Seq(Seq(Seq(Field))) /\ Len(reads') = n + 1 /\ DOMAIN reads' = 1 .. n + 1
      /\ reads' # <<>> /\ reads'[n + 1] = rows
      /\ \A k \in 1 .. n : reads'[k] = reads[k] /\ k \in DOMAIN reads
  BY <1>1, <1>6, <1>7
<1>9. \A k : TableRead(k)' = TableRead(k)
  BY <1>1 DEF TableRead
<1>10. RequestOk'
  BY <1>1 DEF IInv, RequestOk
<1>11. Len(stmt.joins) \in Nat /\ n \in Nat /\ 1 <= n /\ n <= Len(stmt.joins)
  BY <1>3, <1>7
<1>12. ReadsOk'
  <2>1. \A k \in DOMAIN reads' : reads'[k] \in Contents[TableRead(k)']
    <3> TAKE k \in DOMAIN reads'
    <3>1. CASE k = n + 1
      BY <1>3, <1>8, <1>9, <3>1
    <3>2. CASE k \in 1 .. n
      BY <1>7, <1>8, <1>9, <3>2
    <3> QED
      BY <1>8, <1>11, <3>1, <3>2
  <2> HIDE DEF n
  <2>2. Len(reads') <= Len(stmt'.joins) + 1
    BY <1>1, <1>8, <1>11
  <2>3. /\ pc' \in {"filter", "join"} /\ (pc' = "join" => n + 1 <= Len(stmt.joins))
        /\ (pc' = "filter" => n + 1 = Len(stmt.joins) + 1)
    BY <1>1, <1>11
  <2> QED
    BY <1>1, <1>7, <1>8, <2>1, <2>2, <2>3 DEF ReadsOk
<1>13. Alike(joinedRows') /\ Alike(filtered') /\ joinedSchema' \in Seq(Column)
  BY <1>1, <1>4, <1>5, <1>7, PairsAlike, NoRows
<1>14. n = 1 => joinedRows' = Pairs(LeftRows, rows, firstLeft, firstRight) /\ firstLeft # 0 /\ firstRight # 0
                /\ LeftRows = allRows
  <2> SUFFICES ASSUME n = 1
               PROVE  joinedRows' = Pairs(LeftRows, rows, firstLeft, firstRight) /\ firstLeft # 0 /\ firstRight # 0
                      /\ LeftRows = allRows
    OBVIOUS
  <2>1. NextJoin = stmt.joins[1]
    BY DEF NextJoin
  <2>2. leftIdx = firstLeft /\ rightIdx = firstRight
    BY <1>5, <2>1 DEF leftIdx, rightIdx, firstLeft, firstRight
  <2> QED
    BY <1>1, <1>2, <1>5, <2>2
<1>15. firstLeft' = firstLeft /\ firstRight' = firstRight /\ allRows' = allRows
  BY <1>1, <1>8, <1>11 DEF firstLeft, firstRight, allRows
<1>16. JoinedOk'
  <2>1. Len(reads') # 1
    <3> HIDE DEF n
    <3> QED
      BY <1>8, <1>11
  <2>2. ASSUME Len(reads') = 2
        PROVE  firstLeft' # 0 /\ firstRight' # 0 /\ joinedRows' = Pairs(allRows', reads'[2], firstLeft', firstRight')
    <3>1. n = 1
      <4>1. n + 1 = 2 /\ n \in Nat
        BY <1>8, <1>11, <2>2, Zenon
      <4> HIDE DEF n
      <4> QED
        BY <4>1
    <3>2. reads'[2] = rows
      BY <1>8, <3>1
    <3> QED
      BY <1>14, <1>15, <3>1, <3>2
  <2> QED
    BY <1>13, <2>1, <2>2 DEF JoinedOk
<1>17. FitOk'
  <2>1. pc' # "undefined"
    BY <1>1
  <2>2. CASE Off
    <3>1. Len(reads) >= 2 /\ reads'[2] = reads[2]
      BY <1>8, <1>11, <2>2 DEF Off
    <3>2. Off'
      BY <1>1, <1>8, <1>11, <1>15, <2>2, <3>1 DEF Off
    <3> QED
      BY <2>1, <3>2 DEF FitOk
  <2>3. CASE RowsFit(LeftRows, joinedSchema)
    <3>1. RowsFit(joinedRows', joinedSchema')
      BY <1>1, <1>4, <1>6, <1>7, <2>3, PairsFit
    <3>2. RowsFit(filtered', joinedSchema')
      BY <1>1, <1>7, NoRows
    <3> QED
      BY <2>1, <3>1, <3>2 DEF FitOk
  <2> QED
    BY <1>5, <2>2, <2>3
<1>18. ResultOk'
  <2>1. pc' \notin {"sort", "limit", "answered"}
    BY <1>1
  <2> QED
    BY <1>1, <2>1, SameAnswer
<1> QED
  BY <1>10, <1>12, <1>16, <1>17, <1>18 DEF IInv

\* WHERE is applied.
LEMMA FilterStep ==
    ASSUME IInv, Filter
    PROVE  IInv'
<1>1. /\ pc = "filter" /\ pc' = "project" /\ stored' = stored /\ stmt' = stmt /\ reads' = reads
      /\ joinedRows' = joinedRows /\ joinedSchema' = joinedSchema /\ answer' = answer
      /\ filtered' = Matching(joinedRows, stmt.where, joinedSchema)
  BY DEF Filter, Reaches, request
<1>2. Alike(joinedRows)
  BY DEF IInv, JoinedOk
<1>3. Alike(filtered') /\ (RowsFit(joinedRows, joinedSchema) => RowsFit(filtered', joinedSchema))
  BY <1>1, <1>2, MatchingRows
<1>4. /\ Off' = Off /\ firstLeft' = firstLeft /\ firstRight' = firstRight /\ allRows' = allRows
      /\ \A k : TableRead(k)' = TableRead(k)
  BY <1>1, SameReads
<1>5. RequestOk'
  BY <1>1 DEF IInv, RequestOk
<1>6. ReadsOk'
  <2>1. \A k \in DOMAIN reads' : reads'[k] \in Contents[TableRead(k)']
    BY <1>1, <1>4 DEF IInv, ReadsOk
  <2> QED
    BY <1>1, <2>1 DEF IInv, ReadsOk
<1>7. JoinedOk'
  BY <1>1, <1>3, <1>4 DEF IInv, JoinedOk
<1>8. FitOk'
  BY <1>1, <1>3, <1>4 DEF IInv, FitOk
<1>9. ResultOk'
  BY <1>1, SameAnswer
<1> QED
  BY <1>5, <1>6, <1>7, <1>8, <1>9 DEF IInv

\* Rows of the answer are produced: one per row, per group, or one in all.
LEMMA ProduceStep ==
    ASSUME IInv, pc = "project", ~Throws, ~ReadsPast, Produce(Made)
    PROVE  IInv'
<1>1. /\ pc' = "sort" /\ stored' = stored /\ stmt' = stmt /\ working' = working
      /\ result' = [columns |-> Header, rows |-> Made] /\ produced' = Made
  BY DEF Produce, request
<1>2. joinedSchema' = joinedSchema /\ filtered' = filtered
  BY <1>1 DEF working
<1>3. stmt \in Statements /\ joinedSchema \in Seq(Column) /\ Alike(filtered)
  BY DEF IInv, RequestOk, JoinedOk
<1>4. Makeable
  BY Zenon DEF Throws, ReadsPast, Makeable
<1>5. Alike(Made) /\ \A i \in DOMAIN Made : Len(Made[i]) = Len(Header)
  BY <1>3, <1>4, MadeRows
<1>6. Header \in Seq(SelectItem) /\ Made \in Seq(Seq(Field))
  BY <1>3, <1>5, HeaderType DEF Alike
<1>7. Made' = Made /\ Header' = Header /\ Makeable' = Makeable
  BY <1>1, <1>2, SameMade
<1>8. ResultOk'
  BY <1>1, <1>4, <1>5, <1>6, <1>7 DEF ResultOk
<1>9. RequestOk'
  BY <1>1 DEF IInv, RequestOk
<1>10. ReadsOk' /\ JoinedOk' /\ FitOk'
  BY <1>1, SameWorking
<1> QED
  BY <1>8, <1>9, <1>10 DEF IInv

\* What is known from "sort" on.
LEMMA SortableRows ==
    ASSUME IInv, pc \in {"sort", "limit", "answered"}
    PROVE  /\ stmt \in Statements /\ joinedSchema \in Seq(Column) /\ Alike(filtered)
           /\ Makeable /\ produced = Made /\ Alike(produced)
           /\ \A i \in DOMAIN produced : Len(produced[i]) = Len(Header)
           /\ result.columns = Header /\ Header \in Seq(SelectItem)
           /\ SortKeys(result.columns) \in SortKeyList
           /\ Sorted \in Seq(Seq(Field)) /\ Len(Sorted) = Len(produced) /\ DOMAIN Sorted = DOMAIN produced
           /\ \A p \in DOMAIN Sorted : \E i \in DOMAIN produced : Sorted[p] = produced[i]
<1>1. /\ stmt \in Statements /\ joinedSchema \in Seq(Column) /\ Alike(filtered)
      /\ Makeable /\ produced = Made /\ result.columns = Header
  BY DEF IInv, RequestOk, JoinedOk, ResultOk
<1>2. Alike(produced) /\ \A i \in DOMAIN produced : Len(produced[i]) = Len(Header)
  BY <1>1, MadeRows
<1>3. Header \in Seq(SelectItem)
  BY <1>1, HeaderType
<1>4. SortKeys(result.columns) \in SortKeyList
  BY <1>1, <1>3, SortKeysType
<1>5. /\ Sorted \in Seq(Seq(Field)) /\ Len(Sorted) = Len(produced) /\ DOMAIN Sorted = DOMAIN produced
      /\ \A p \in DOMAIN Sorted : \E i \in DOMAIN produced : Sorted[p] = produced[i]
  BY <1>2, <1>4, SortType, SortedRows DEF Sorted
<1> QED
  BY <1>1, <1>2, <1>3, <1>4, <1>5

\* The rows are sorted.
LEMMA OrderByStep ==
    ASSUME IInv, OrderBy
    PROVE  IInv'
<1>1. /\ pc = "sort" /\ pc' = "limit" /\ stored' = stored /\ stmt' = stmt /\ working' = working
      /\ produced' = produced
      /\ result' = [result EXCEPT !.rows = StableSort(@, SortKeys(result.columns))]
  BY DEF OrderBy, Reaches, request
<1>2. joinedSchema' = joinedSchema /\ filtered' = filtered
  BY <1>1 DEF working
<1>3. /\ Makeable /\ produced = Made /\ result.columns = Header /\ Header \in Seq(SelectItem)
      /\ \A i \in DOMAIN produced : Len(produced[i]) = Len(Header)
      /\ Sorted \in Seq(Seq(Field)) /\ \A p \in DOMAIN Sorted : \E i \in DOMAIN produced : Sorted[p] = produced[i]
  BY <1>1, SortableRows
<1>4. result \in [columns : Seq(SelectItem), rows : Seq(Seq(Field))] /\ result.rows = produced
  BY <1>1 DEF IInv, ResultOk
<1>5. result'.rows = Sorted /\ result'.columns = Header /\ result' \in [columns : Seq(SelectItem), rows : Seq(Seq(Field))]
  <2>1. result' = [result EXCEPT !.rows = Sorted]
    BY <1>1, <1>4 DEF Sorted
  <2> QED
    BY <1>3, <1>4, <2>1
<1>6. /\ Made' = Made /\ Header' = Header /\ Makeable' = Makeable
      /\ \A header : SortKeys(header)' = SortKeys(header)
  BY <1>1, <1>2, SameMade
<1>7. Sorted' = Sorted
  <2>1. SortKeys(result.columns)' = SortKeys(Header)
    <3>1. SortKeys(result.columns)' = SortKeys(Header)
      BY <1>1, <1>2, <1>5 DEF SortKeys
    <3> QED
      BY <3>1
  <2> QED
    BY <1>1, <1>3, <2>1 DEF Sorted
<1>8. \A i \in DOMAIN result'.rows : Len(result'.rows[i]) = Len(result'.columns)
  BY <1>3, <1>5
<1>9. ResultOk'
  BY <1>1, <1>3, <1>5, <1>6, <1>7, <1>8 DEF ResultOk
<1>10. RequestOk'
  BY <1>1 DEF IInv, RequestOk
<1>11. ReadsOk' /\ JoinedOk' /\ FitOk'
  BY <1>1, SameWorking
<1> QED
  BY <1>9, <1>10, <1>11 DEF IInv

\* OFFSET and LIMIT are applied.
LEMMA LimitStep ==
    ASSUME IInv, Limit
    PROVE  IInv'
<1>1. /\ pc = "limit" /\ pc' = "answered" /\ stored' = stored /\ stmt' = stmt /\ working' = working
      /\ produced' = produced
      /\ result' = [result EXCEPT !.rows = Limited(@)]
  BY DEF Limit, request
<1>2. joinedSchema' = joinedSchema /\ filtered' = filtered
  BY <1>1 DEF working
<1>3. /\ stmt \in Statements
      /\ Makeable /\ produced = Made /\ result.columns = Header /\ Header \in Seq(SelectItem)
      /\ \A i \in DOMAIN produced : Len(produced[i]) = Len(Header)
      /\ Sorted \in Seq(Seq(Field)) /\ \A p \in DOMAIN Sorted : \E i \in DOMAIN produced : Sorted[p] = produced[i]
  BY <1>1, SortableRows
<1>4. result \in [columns : Seq(SelectItem), rows : Seq(Seq(Field))] /\ result.rows = Sorted
  BY <1>1 DEF IInv, ResultOk
<1>5. /\ Limited(Sorted) \in Seq(Seq(Field))
      /\ \A i \in DOMAIN Limited(Sorted) : \E j \in DOMAIN Sorted : Limited(Sorted)[i] = Sorted[j]
  BY <1>3, LimitedType
<1>6. result'.rows = Limited(Sorted) /\ result'.columns = Header /\ result' \in [columns : Seq(SelectItem), rows : Seq(Seq(Field))]
  BY <1>1, <1>3, <1>4, <1>5
<1>7. /\ Made' = Made /\ Header' = Header /\ Makeable' = Makeable
      /\ \A rows : Limited(rows)' = Limited(rows)
  BY <1>1, <1>2, SameMade
<1>8. Sorted' = Sorted
  <2>1. SortKeys(result.columns)' = SortKeys(Header)
    BY <1>1, <1>2, <1>6 DEF SortKeys
  <2> QED
    BY <1>1, <1>3, <2>1 DEF Sorted
<1>9. Limited(Sorted)' = Limited(Sorted)
  BY <1>1, <1>8 DEF Limited
<1>10. \A i \in DOMAIN result'.rows : Len(result'.rows[i]) = Len(result'.columns)
  BY <1>3, <1>5, <1>6
<1>11. ResultOk'
  BY <1>1, <1>3, <1>6, <1>7, <1>9, <1>10 DEF ResultOk
<1>12. RequestOk'
  BY <1>1 DEF IInv, RequestOk
<1>13. ReadsOk' /\ JoinedOk' /\ FitOk'
  BY <1>1, SameWorking
<1> QED
  BY <1>11, <1>12, <1>13 DEF IInv

\* A statement ends: it throws, reads past a row, or is answered.
LEMMA EndStep ==
    ASSUME IInv, Fail \/ RunPast \/ Respond
    PROVE  IInv'
<1>1. CASE Fail \/ RunPast
  <2>1. /\ pc' \in {"failed", "undefined"} /\ (pc' = "undefined" => ReadsPast /\ ~Throws)
        /\ stored' = stored /\ stmt' = stmt /\ working' = working /\ answer' = answer
    BY <1>1 DEF Fail, RunPast, request
  <2>2. ReadsOk' /\ JoinedOk'
    BY <2>1, SameWorking
  <2>3. FitOk'
    <3>1. CASE pc' = "failed"
      BY <2>1, <3>1, SameWorking
    <3>2. CASE pc' = "undefined"
      <4>1. Off
        BY <2>1, <3>2, PastIsOff
      <4>2. Off'
        BY <2>1, <4>1, SameReads DEF working
      <4> QED
        BY <4>2 DEF FitOk
    <3> QED
      BY <2>1, <3>1, <3>2
  <2>4. ResultOk'
    BY <2>1, SameAnswer
  <2>5. RequestOk'
    BY <2>1 DEF IInv, RequestOk
  <2> QED
    BY <2>2, <2>3, <2>4, <2>5 DEF IInv
<1>2. CASE Respond
  <2>1. /\ pc' = "idle" /\ stored' = stored /\ stmt' = stmt
        /\ reads' = <<>> /\ joinedRows' = <<>> /\ joinedSchema' = <<>> /\ filtered' = <<>>
        /\ result' = NoResult /\ produced' = <<>>
    BY <1>2 DEF Respond, request
  <2>2. stmt.joins \in Seq(JoinClause)
    BY StatementParts DEF IInv, RequestOk
  <2>3. /\ <<>> \in Seq(Seq(Seq(Field))) /\ DOMAIN <<>> = {} /\ Len(<<>>) = 0 /\ Len(stmt.joins) \in Nat
        /\ <<>> \in Seq(Column)
    BY <2>2
  <2>4. RequestOk'
    BY <2>1 DEF IInv, RequestOk
  <2>5. ReadsOk'
    BY <2>1, <2>3 DEF ReadsOk
  <2>6. JoinedOk'
    BY <2>1, <2>3, NoRows DEF JoinedOk
  <2>7. FitOk'
    BY <2>1, NoRows DEF FitOk
  <2>8. ResultOk'
    <3>1. NoResult \in [columns : Seq(SelectItem), rows : Seq(Seq(Field))] /\ DOMAIN NoResult.rows = {}
      BY DEF NoResult
    <3> QED
      BY <2>1, <3>1 DEF ResultOk
  <2> QED
    BY <2>4, <2>5, <2>6, <2>7, <2>8 DEF IInv
<1> QED
  BY <1>1, <1>2

\* Every step preserves the inductive invariant.
LEMMA NextIInv ==
    ASSUME IInv, [Next]_vars
    PROVE  IInv'
<1>1. CASE \E tb \in Tables : Write(tb)
  BY <1>1, WriteStep
<1>2. CASE Project \/ Aggregate \/ Group
  <2>1. pc = "project" /\ ~Throws /\ ~ReadsPast /\ Produce(Made)
    <3>1. CASE Project
      BY <3>1 DEF Project, Reaches, Made
    <3>2. CASE Aggregate
      BY <3>2 DEF Aggregate, Reaches, Made
    <3>3. CASE Group
      <4>1. ~Plain
        BY <3>3 DEF Group, Plain
      <4> QED
        BY <3>3, <4>1 DEF Group, Reaches, Made
    <3> QED
      BY <1>2, <3>1, <3>2, <3>3
  <2> QED
    BY <2>1, ProduceStep
<1>3. CASE UNCHANGED vars
  <2>1. /\ stored' = stored /\ stmt' = stmt /\ pc' = pc /\ working' = working /\ result' = result /\ produced' = produced
    BY <1>3 DEF vars, request, answer
  <2>2. joinedSchema' = joinedSchema /\ filtered' = filtered /\ reads' = reads /\ joinedRows' = joinedRows
    BY <2>1 DEF working
  <2>3. /\ Made' = Made /\ Header' = Header /\ Makeable' = Makeable
        /\ \A rows : Limited(rows)' = Limited(rows)
    BY <2>1, <2>2, SameMade
  <2>4. SortKeys(result.columns)' = SortKeys(result.columns)
    BY <2>1, <2>2 DEF SortKeys
  <2>5. Sorted' = Sorted
    BY <2>1, <2>4 DEF Sorted
  <2>6. Limited(Sorted)' = Limited(Sorted)
    BY <2>1, <2>5 DEF Limited
  <2>7. ResultOk'
    BY <2>1, <2>3, <2>5, <2>6 DEF IInv, ResultOk
  <2>8. RequestOk'
    BY <2>1 DEF IInv, RequestOk
  <2>9. ReadsOk' /\ JoinedOk'
    BY <2>1, SameWorking
  <2>10. FitOk'
    BY <2>1, <2>2, SameReads DEF IInv, FitOk
  <2> QED
    BY <2>7, <2>8, <2>9, <2>10 DEF IInv
<1> QED
  BY <1>1, <1>2, <1>3, ReceiveStep, ScanStep, JoinStep, FilterStep, OrderByStep, LimitStep, EndStep DEF Next

\* What visit(SelectStatement&) keeps true between its parts, however other
\* connections write to the tables meanwhile.
THEOREM SelectInvariant == Spec => []IInv
<1>1. Init => IInv
  BY InitIInv
<1>2. IInv /\ [Next]_vars => IInv'
  BY NextIInv
<1> QED
  BY <1>1, <1>2, PTL DEF Spec

\* Every variable has its type; each row of an answer has a value per column.
THEOREM SelectTypeCorrect == Spec => []TypeOK
<1>1. IInv => TypeOK
  <2> SUFFICES ASSUME IInv
               PROVE  TypeOK
    OBVIOUS
  <2>1. /\ \A tb \in Tables : stored[tb] \in Contents[tb] \cup {Missing}
        /\ stmt \in Statements
        /\ pc \in {"idle", "scan", "join", "filter", "project", "sort", "limit",
                  "answered", "failed", "undefined"}
        /\ joinedSchema \in Seq(Column)
    BY DEF IInv, RequestOk, JoinedOk
  <2>2. ASSUME Len(stmt.joins) < 2
        PROVE  RowsFit(joinedRows, joinedSchema) /\ RowsFit(filtered, joinedSchema)
    <3>1. Len(stmt.joins) \in Nat
      BY <2>1, StatementParts
    <3>2. ~Off
      BY <2>2, <3>1 DEF Off
    <3> QED
      BY <3>2 DEF IInv, FitOk
  <2>3. ASSUME NEW i \in DOMAIN result.rows
        PROVE  result.rows[i] \in Seq(Value) /\ Len(result.rows[i]) = Len(result.columns)
    <3>1. result.rows \in Seq(Seq(Field)) /\ Len(result.rows[i]) = Len(result.columns)
      BY DEF IInv, ResultOk
    <3>2. result.rows[i] \in Seq(Field)
      BY <3>1
    <3>3. Field \subseteq Value
      BY DEF Field
    <3>4. \A T : T \subseteq Value => Seq(T) \subseteq Seq(Value)
      OBVIOUS
    <3> QED
      BY <3>1, <3>2, <3>3, <3>4
  <2> QED
    BY <2>1, <2>2, <2>3 DEF TypeOK
<1> QED
  BY <1>1, SelectInvariant, PTL

\* visit reads past the end of a row only after a JOIN that found no pairs, when
\* the next JOIN takes the main table again (Executor.cpp lines 206-239).
THEOREM SelectUndefined == Spec => []UndefinedOnlyAfterEmptyJoin
<1>1. IInv => UndefinedOnlyAfterEmptyJoin
  BY DEF IInv, FitOk, Off, UndefinedOnlyAfterEmptyJoin, firstLeft, firstRight
<1> QED
  BY <1>1, SelectInvariant, PTL

\* Fields of one sort: equal to compareForSort are those equal to WHERE.
LEMMA EqualFields ==
    ASSUME NEW a \in Field, NEW b \in Field
    PROVE  /\ Ordered(a, b) => (compareForSort(a, b) = 0 <=> compareValues(a, "EQ", b))
           /\ (a = NULL) # (b = NULL) => compareForSort(a, b) # 0
<1>1. /\ a.kind \in Kinds /\ a.data \in Int /\ (a.kind = "NULL" <=> a = NULL)
      /\ b.kind \in Kinds /\ b.data \in Int /\ (b.kind = "NULL" <=> b = NULL)
  BY FieldParts DEF NULL
<1>2. ASSUME Ordered(a, b)
      PROVE  compareForSort(a, b) = 0 <=> compareValues(a, "EQ", b)
  <2>1. compareForSort(a, b) = Sign(a.data - b.data)
    <3>1. CASE {a.kind, b.kind} \subseteq {"INT", "FLOAT"}
      BY <3>1 DEF compareForSort, toDouble
    <3>2. CASE {a.kind, b.kind} = {"TEXT"}
      BY <3>2 DEF compareForSort
    <3> QED
      BY <1>2, <3>1, <3>2 DEF Ordered
  <2>2. compareValues(a, "EQ", b) <=> a.data = b.data
    BY <1>2 DEF compareValues, numericCompare
  <2> QED
    BY <1>1, <2>1, <2>2 DEF Sign
<1>3. ASSUME (a = NULL) # (b = NULL)
      PROVE  compareForSort(a, b) # 0
  BY <1>1, <1>3 DEF compareForSort
<1> QED
  BY <1>2, <1>3

\* One JOIN gives the rows for which WHERE would find the two columns equal, each
\* with its halves from the two tables, whatever the tables hold.
THEOREM JoinAgrees == Spec => []JoinAgreesWithWhere
<1>1. IInv => JoinAgreesWithWhere
  <2> SUFFICES ASSUME IInv, pc = "filter", Len(stmt.joins) = 1
               PROVE  JoinAgreesWithWhere
    BY DEF JoinAgreesWithWhere
  <2> DEFINE left  == allRows
             right == reads[2]
             l     == firstLeft
             r     == firstRight
             M     == Matches(left, right, l, r)
             all   == (DOMAIN left) \X (DOMAIN right)
             joined == {p \in all : Contains(joinedRows, left[p[1]] \o right[p[2]])}
  <2>1. /\ reads \in Seq(Seq(Seq(Field))) /\ Len(reads) = 2
        /\ l # 0 /\ r # 0 /\ joinedRows = Pairs(left, right, l, r)
    BY DEF IInv, ReadsOk, JoinedOk
  <2>2. 1 \in DOMAIN reads /\ 2 \in DOMAIN reads
    BY <2>1
  <2>3. TableRead(1) = stmt.table /\ TableRead(2) = stmt.joins[1].table
    BY DEF TableRead
  <2>4. /\ Alike(left) /\ left \in Seq(Seq(Field)) /\ RowsFit(left, Columns[stmt.table])
        /\ Alike(right) /\ right \in Seq(Seq(Field)) /\ RowsFit(right, Columns[stmt.joins[1].table])
        /\ Columns[stmt.table] \in Seq(Column) /\ Columns[stmt.joins[1].table] \in Seq(Column)
    <3>1. /\ TableRead(1) \in Tables /\ Alike(reads[1]) /\ reads[1] \in Seq(Seq(Field)) /\ RowsFit(reads[1], Columns[TableRead(1)])
          /\ TableRead(2) \in Tables /\ Alike(reads[2]) /\ reads[2] \in Seq(Seq(Field)) /\ RowsFit(reads[2], Columns[TableRead(2)])
      BY <2>2, EarlierReads
    <3> QED
      BY <2>3, <3>1, ColumnsAssumption DEF allRows
  <2>5. ASSUME NEW p \in all
        PROVE  left[p[1]][l] \in Field /\ right[p[2]][r] \in Field
    <3>1. p[1] \in DOMAIN left /\ p[2] \in DOMAIN right
      OBVIOUS
    <3>2. l \in DOMAIN left[p[1]] /\ r \in DOMAIN right[p[2]]
      BY <2>1, <2>4, <3>1, NotPast DEF firstLeft, firstRight
    <3> HIDE DEF left, right, l, r
    <3> QED
      BY <2>4, <3>1, <3>2, AlikeParts
  <2>6. Combines(joinedRows, left, right, M)
    <3> HIDE DEF left, right, l, r
    <3> QED
      BY <2>1, <2>4, PairsAre
  <2>7. M \subseteq all
    BY DEF Matches
  <2>8. ASSUME NEW p \in M
        PROVE  p \in joined
    <3>1. PICK k \in 1 .. Cardinality(M) : NthPair(M, k) = p
      <4>1. IsFiniteSet(M) /\ M \subseteq Nat \X Nat
        <5> HIDE DEF left, right, l, r
        <5> QED
          BY <2>4, MatchesAre
      <4> HIDE DEF M
      <4> QED
        BY <4>1, NthPairs
    <3>2. joinedRows \in Seq(Seq(Field)) /\ Len(joinedRows) = Cardinality(M)
      BY <2>6 DEF Combines
    <3>3. k \in DOMAIN joinedRows
      <4> HIDE DEF M
      <4> QED
        BY <3>1, <3>2
    <3>4. PICK i \in DOMAIN left, j \in DOMAIN right :
            NthPair(M, k) = <<i, j>> /\ joinedRows[k] = left[i] \o right[j]
      <4> HIDE DEF M, left, right
      <4> QED
        BY <2>6, <3>3 DEF Combines
    <3>5. joinedRows[k] = left[p[1]] \o right[p[2]]
      BY <3>1, <3>4
    <3>6. Contains(joinedRows, left[p[1]] \o right[p[2]])
      <4> HIDE DEF left, right
      <4> QED
        BY <3>2, <3>3, <3>5 DEF Contains
    <3> QED
      BY <2>7, <3>6
  <2>9. ASSUME NEW p \in joined
        PROVE  p \in M
    <3> DEFINE x == left[p[1]]
               y == right[p[2]]
    <3>1. p \in all /\ p[1] \in DOMAIN left /\ p[2] \in DOMAIN right /\ Contains(joinedRows, x \o y)
      OBVIOUS
    <3>2. PICK k \in DOMAIN joinedRows : joinedRows[k] = x \o y
      <4>1. joinedRows \in Seq(Seq(Field))
        BY <2>6 DEF Combines
      <4>2. Contains(joinedRows, x \o y) /\ Len(joinedRows) \in Nat /\ DOMAIN joinedRows = 1 .. Len(joinedRows)
        BY <3>1, <4>1
      <4> DEFINE z == x \o y
      <4>3. Contains(joinedRows, z)
        BY <4>2
      <4> HIDE DEF x, y, z
      <4>4. \E k \in 1 .. Len(joinedRows) : joinedRows[k] = z
        BY <4>3, Zenon DEF Contains
      <4>5. \E k \in DOMAIN joinedRows : joinedRows[k] = z
        BY <4>2, <4>4
      <4> QED
        BY <4>5 DEF z
    <3>3. PICK i \in DOMAIN left, j \in DOMAIN right : <<i, j>> \in M /\ joinedRows[k] = left[i] \o right[j]
      <4> HIDE DEF M, left, right
      <4> QED
        BY <2>6, <3>2 DEF Combines
    <3> DEFINE u == left[i]
               v == right[j]
    <3>4. x \in Seq(Field) /\ y \in Seq(Field) /\ u \in Seq(Field) /\ v \in Seq(Field) /\ Len(x) = Len(u) /\ Len(y) = Len(v)
      <4> HIDE DEF left, right
      <4> QED
        BY <2>4, <3>1 DEF Alike
    <3>5. x \o y = u \o v
      BY <3>2, <3>3
    <3>6. x = u /\ y = v
      <4> HIDE DEF x, y, u, v
      <4>1. \A c \in 1 .. Len(x) : x[c] = u[c]
        BY <3>4, <3>5, Concatenated
      <4>2. \A c \in 1 .. Len(y) : y[c] = v[c]
        <5> TAKE c \in 1 .. Len(y)
        <5>1. (x \o y)[Len(x) + c] = y[c]
          BY <3>4, Concatenated
        <5>2. (u \o v)[Len(u) + c] = v[c]
          BY <3>4, Concatenated
        <5> QED
          BY <3>4, <3>5, <5>1, <5>2
      <4> QED
        BY <3>4, <4>1, <4>2, SameElements
    <3>7. compareForSort(u[l], v[r]) = 0
      BY <3>3 DEF Matches
    <3>8. compareForSort(left[p[1]][l], right[p[2]][r]) = 0
      BY <3>6, <3>7
    <3> QED
      BY <3>1, <3>8 DEF Matches
  <2>10. joined = M
    BY <2>7, <2>8, <2>9
  <2>11. ASSUME NEW p \in all
         PROVE  /\ Ordered(left[p[1]][l], right[p[2]][r]) =>
                      (p \in joined <=> compareValues(left[p[1]][l], "EQ", right[p[2]][r]))
                /\ (left[p[1]][l] = NULL) # (right[p[2]][r] = NULL) => p \notin joined
    <3> DEFINE a == left[p[1]][l]
               b == right[p[2]][r]
    <3>1. a \in Field /\ b \in Field
      BY <2>5
    <3>2. p \in M <=> compareForSort(a, b) = 0
      BY DEF Matches
    <3> HIDE DEF a, b, joined, M
    <3>3. /\ Ordered(a, b) => (p \in joined <=> compareValues(a, "EQ", b))
          /\ (a = NULL) # (b = NULL) => p \notin joined
      BY <2>10, <3>1, <3>2, EqualFields
    <3> QED
      BY <3>3 DEF a, b
  <2>12. Len(joinedRows) = Cardinality(joined)
    BY <2>6, <2>10 DEF Combines
  <2> HIDE DEF joined
  <2>13. \A p \in all : /\ Ordered(left[p[1]][l], right[p[2]][r]) =>
                              (p \in joined <=> compareValues(left[p[1]][l], "EQ", right[p[2]][r]))
                        /\ (left[p[1]][l] = NULL) # (right[p[2]][r] = NULL) => p \notin joined
    BY <2>11
  <2> QED
    BY <2>12, <2>13, Zenon DEF joined, JoinAgreesWithWhere, firstLeft, firstRight
<1> QED
  BY <1>1, SelectInvariant, PTL

-----------------------------------------------------------------------------
(* ORDER BY before and after the columns are chosen.                       *)

\* Where a name that the answer shows is found in it.
LEMMA HeaderIndexIs ==
    ASSUME NEW header \in Seq(SelectItem), NEW name, HeaderIndex(name, header) # 0
    PROVE  /\ HeaderIndex(name, header) \in DOMAIN header
           /\ header[HeaderIndex(name, header)] = [agg |-> "NONE", arg |-> name]
<1> DEFINE found == {i \in DOMAIN header : header[i] = [agg |-> "NONE", arg |-> name]}
<1>1. found \subseteq Nat
  OBVIOUS
<1>2. HeaderIndex(name, header) = IF found = {} THEN 0 ELSE Min(found)
  BY DEF HeaderIndex
<1>3. HeaderIndex(name, header) \in found
  <2> HIDE DEF found
  <2> QED
    BY <1>1, <1>2, MinIsLeast
<1> QED
  BY <1>3

\* That place of the answer holds the column of that name.
LEMMA ColumnShown ==
    ASSUME stmt \in Statements, joinedSchema \in Seq(Column), Plain,
           NEW name, HeaderIndex(name, Header) # 0
    PROVE  /\ HeaderIndex(name, Header) \in DOMAIN colIndexes
           /\ colIndexes[HeaderIndex(name, Header)] = ColumnIndex(name, joinedSchema)
<1> DEFINE h == HeaderIndex(name, Header)
<1>1. Header \in Seq(SelectItem) /\ DOMAIN Header = DOMAIN colIndexes
  BY HeaderType
<1>2. h \in DOMAIN colIndexes /\ Header[h] = [agg |-> "NONE", arg |-> name]
  BY <1>1, HeaderIndexIs
<1>3. CASE stmt.items # <<>>
  <2>1. Header = stmt.items
    BY <1>3 DEF Header
  <2>2. stmt.items[h].arg = name
    BY <1>2, <2>1
  <2>3. colIndexes = [i \in DOMAIN stmt.items |-> ColumnIndex(stmt.items[i].arg, joinedSchema)]
    BY <1>3 DEF colIndexes
  <2>4. h \in DOMAIN stmt.items
    BY <1>1, <1>2, <2>1
  <2> HIDE DEF h
  <2>5. colIndexes[h] = ColumnIndex(stmt.items[h].arg, joinedSchema)
    BY <2>3, <2>4
  <2> QED
    BY <1>2, <2>2, <2>5 DEF h
<1>4. CASE stmt.items = <<>>
  <2>1. Header = [c \in DOMAIN joinedSchema |-> [agg |-> "NONE", arg |-> joinedSchema[c].name]]
    BY <1>4 DEF Header
  <2>2. colIndexes = [c \in DOMAIN joinedSchema |-> c]
    BY <1>4 DEF colIndexes
  <2>3. {i \in DOMAIN Header : Header[i] = [agg |-> "NONE", arg |-> name]}
        = {c \in DOMAIN joinedSchema : joinedSchema[c].name = name}
    BY <2>1
  <2>4. h = ColumnIndex(name, joinedSchema)
    BY <2>3, Zenon DEF HeaderIndex, ColumnIndex
  <2> QED
    BY <1>2, <2>2, <2>4
<1> QED
  BY <1>3, <1>4

\* The sort keys of the statement, looked up in the tables only.
TableKeys ==
    [k \in DOMAIN stmt.orderBy |->
        [index     |-> ColumnIndex(stmt.orderBy[k].column, joinedSchema),
         ascending |-> stmt.orderBy[k].ascending]]

\* The keys K1 compare any two rows of P as K2 those at the same places of F.
SameKeys(P, F, K1, K2) ==
    /\ DOMAIN P = DOMAIN F /\ DOMAIN K1 = DOMAIN K2
    /\ \E n \in Nat : DOMAIN K1 = 1 .. n
    /\ \A k \in DOMAIN K1 : K1[k].ascending = K2[k].ascending
    /\ \A i, j \in DOMAIN F : \A k \in DOMAIN K1 :
          KeyOrder(P[i], P[j], K1[k]) = KeyOrder(F[i], F[j], K2[k])

\* They put them in one order.
LEMMA SameOrder ==
    ASSUME NEW P, NEW F, NEW K1, NEW K2, SameKeys(P, F, K1, K2), NEW p \in DOMAIN F
    PROVE  StableSort(P, K1)[p] = P[Source(F, K2, p)]
<1> USE DEF SameKeys
<1>1. ASSUME NEW i \in DOMAIN F, NEW j \in DOMAIN F
      PROVE  RowBefore(P[i], P[j], K1) <=> RowBefore(F[i], F[j], K2)
  <2>1. \A k \in DOMAIN K1 : \A m \in 1 .. k - 1 : m \in DOMAIN K1
    OBVIOUS
  <2>2. \A k \in DOMAIN K1 :
          /\ KeyOrder(P[i], P[j], K1[k]) = KeyOrder(F[i], F[j], K2[k])
          /\ K1[k].ascending = K2[k].ascending
    OBVIOUS
  <2> QED
    BY <2>1, <2>2 DEF RowBefore
<1>2. ASSUME NEW i \in DOMAIN F
      PROVE  Place(P, i, K1) = Place(F, i, K2)
  <2>1. {j \in DOMAIN P : \/ RowBefore(P[j], P[i], K1)
                          \/ j <= i /\ ~RowBefore(P[i], P[j], K1)}
        = {j \in DOMAIN F : \/ RowBefore(F[j], F[i], K2)
                            \/ j <= i /\ ~RowBefore(F[i], F[j], K2)}
    BY <1>1
  <2> QED
    BY <2>1, Zenon DEF Place
<1>3. StableSort(P, K1)[p] = P[Source(F, K2, p)]
  <2>3. (CHOOSE i \in DOMAIN P : Place(P, i, K1) = p) = Source(F, K2, p)
    BY <1>2, SMT DEF Source
  <2>4. StableSort(P, K1)[p] = P[CHOOSE i \in DOMAIN P : Place(P, i, K1) = p]
    BY DEF StableSort
  <2> QED
    BY <2>3, <2>4
<1> QED
  BY <1>3

(* Sorting the answer gives what sorting the rows of the tables would.     *)
THEOREM OrderThenProject == Spec => []OrderBeforeProjection
<1>1. ASSUME IInv, pc = "answered", Plain, OrderedByAnswer
      PROVE  result.rows = SortedThenProjected
  <2> DEFINE F  == filtered
             P  == Projected(F)
             K1 == SortKeys(result.columns)
             K2 == TableKeys
             n  == Len(stmt.orderBy)
  <2>1. /\ stmt \in Statements /\ joinedSchema \in Seq(Column) /\ Alike(F)
        /\ Makeable /\ produced = P /\ Alike(P)
        /\ result.columns = Header /\ K1 \in SortKeyList
    BY <1>1, SortableRows DEF Made
  <2>2. result.rows = Limited(StableSort(P, K1))
    BY <1>1, <2>1 DEF IInv, ResultOk, Sorted
  <2>3. n \in Nat /\ DOMAIN stmt.orderBy = 1 .. n
    BY <2>1, StatementParts
  <2>4. DOMAIN K1 = 1 .. n /\ DOMAIN K2 = 1 .. n
    BY <2>3 DEF SortKeys, TableKeys
  <2>5. ASSUME NEW k \in 1 .. n
        PROVE  /\ K1[k].index \in DOMAIN colIndexes
               /\ K2[k].index = colIndexes[K1[k].index]
               /\ K1[k].ascending = K2[k].ascending
               /\ K2[k].index \in Nat /\ K2[k].ascending \in BOOLEAN
    <3> DEFINE name == stmt.orderBy[k].column
    <3>1. HeaderIndex(name, Header) # 0
      BY <1>1, <2>1, <2>3 DEF OrderedByAnswer
    <3>2. K1[k] = [index |-> KeyIndex(name, Header, joinedSchema), ascending |-> stmt.orderBy[k].ascending]
      BY <2>1, <2>3 DEF SortKeys
    <3>3. K2[k] = [index |-> ColumnIndex(name, joinedSchema), ascending |-> stmt.orderBy[k].ascending]
      BY <2>3 DEF TableKeys
    <3>4. KeyIndex(name, Header, joinedSchema) = HeaderIndex(name, Header)
      BY <3>1 DEF KeyIndex
    <3>5. /\ HeaderIndex(name, Header) \in DOMAIN colIndexes
          /\ colIndexes[HeaderIndex(name, Header)] = ColumnIndex(name, joinedSchema)
      BY <1>1, <2>1, <3>1, ColumnShown
    <3>6. ColumnIndex(name, joinedSchema) \in Nat
      <4>1. Len(joinedSchema) \in Nat /\ DOMAIN joinedSchema = 1 .. Len(joinedSchema)
        BY <2>1
      <4> QED
        BY <4>1, ColumnIndexIs
    <3>7. stmt.orderBy[k].ascending \in BOOLEAN
      <4>1. stmt.orderBy[k] \in OrderByClause
        <5> HIDE DEF OrderByClause
        <5> QED
          BY <2>1, <2>3, StatementParts
      <4> QED
        BY <4>1 DEF OrderByClause
    <3> HIDE DEF K1, K2, name
    <3> QED
      BY <3>2, <3>3, <3>4, <3>5, <3>6, <3>7
  <2>6. K2 \in SortKeyList
    <3>1. \A k \in 1 .. n : K2[k] \in SortKey
      BY <2>3, <2>5 DEF TableKeys, SortKey
    <3>2. K2 = [k \in 1 .. n |-> K2[k]]
      BY <2>3 DEF TableKeys
    <3> HIDE DEF K2, SortKey
    <3>3. K2 \in Seq(SortKey)
      BY <2>3, <3>1, <3>2
    <3> QED
      BY <3>3 DEF SortKeyList
  <2>7. DOMAIN P = DOMAIN F /\ \A i \in DOMAIN F : P[i] = [c \in DOMAIN colIndexes |-> F[i][colIndexes[c]]]
    BY DEF Projected
  <2>8. \A i \in DOMAIN F : \A c \in DOMAIN colIndexes : colIndexes[c] \in DOMAIN F[i]
    BY <1>1, <2>1 DEF Makeable, PastIn
  <2>9. ASSUME NEW i \in DOMAIN F, NEW j \in DOMAIN F, NEW k \in 1 .. n
        PROVE  KeyOrder(P[i], P[j], K1[k]) = KeyOrder(F[i], F[j], K2[k])
    <3> HIDE DEF P, F, K1, K2
    <3> DEFINE h == K1[k].index
    <3>1. h \in DOMAIN colIndexes /\ K2[k].index = colIndexes[h] /\ colIndexes[h] \in DOMAIN F[i]
      BY <2>5, <2>8
    <3>2. h \in DOMAIN P[i] /\ P[i][h] = F[i][K2[k].index] /\ P[j][h] = F[j][K2[k].index]
      BY <2>7, <3>1
    <3>3. KeyOrder(P[i], P[j], K1[k]) = compareForSort(P[i][h], P[j][h])
      BY <3>2 DEF KeyOrder
    <3>4. KeyOrder(F[i], F[j], K2[k]) = compareForSort(F[i][K2[k].index], F[j][K2[k].index])
      BY <3>1 DEF KeyOrder
    <3> QED
      BY <3>2, <3>3, <3>4
  <2>10. \A p \in DOMAIN F : StableSort(P, K1)[p] = P[Source(F, K2, p)]
    <3> HIDE DEF P, F, K1, K2
    <3>1. SameKeys(P, F, K1, K2)
      BY <2>3, <2>4, <2>5, <2>7, <2>9 DEF SameKeys
    <3> HIDE DEF n
    <3> QED
      BY <3>1, SameOrder
  <2> DEFINE S == StableSort(F, K2)
  <2>11. /\ DOMAIN S = DOMAIN F
         /\ \A p \in DOMAIN F : S[p] = F[Source(F, K2, p)] /\ Source(F, K2, p) \in DOMAIN F
    <3> HIDE DEF F, K2
    <3> QED
      BY <2>1, <2>6, SortType, SortedRows
  <2>12. StableSort(P, K1) = Projected(S)
    <3>1. StableSort(P, K1) = [p \in DOMAIN F |-> StableSort(P, K1)[p]]
      <4> DEFINE T == StableSort(P, K1)
      <4>1. T \in Seq(Seq(Field)) /\ DOMAIN T = DOMAIN F
        <5> HIDE DEF P, F, K1
        <5> QED
          BY <2>1, <2>7, SortType
      <4> HIDE DEF T, F
      <4>2. T = [p \in DOMAIN F |-> T[p]]
        BY <4>1
      <4> QED
        BY <4>2 DEF T
    <3>2. Projected(S) = [p \in DOMAIN S |-> [c \in DOMAIN colIndexes |-> S[p][colIndexes[c]]]]
      BY DEF Projected
    <3>3. ASSUME NEW p \in DOMAIN F
          PROVE  StableSort(P, K1)[p] = [c \in DOMAIN colIndexes |-> S[p][colIndexes[c]]]
      <4> HIDE DEF P, F, K1, K2, S
      <4> QED
        BY <2>7, <2>10, <2>11
    <3> HIDE DEF P, F, K1, K2, S
    <3> QED
      BY <2>11, <3>1, <3>2, <3>3
  <2>13. SortedThenProjected = Limited(Projected(S))
    BY DEF SortedThenProjected, TableKeys
  <2> QED
    BY <2>2, <2>12, <2>13
<1>2. IInv => OrderBeforeProjection
  BY <1>1 DEF OrderBeforeProjection
<1> QED
  BY <1>2, SelectInvariant, PTL

-----------------------------------------------------------------------------
(* The rank of the rows answered.                                          *)

\* Between fields of one kind, WHERE's order is that of ORDER BY.
LEMMA ValueBeforeIs ==
    ASSUME NEW a \in Field, NEW b \in Field, SameKind(a, b)
    PROVE  ValueBefore(a, b) <=> compareForSort(a, b) = -1
<1>1. /\ a.kind \in Kinds /\ a.data \in Int /\ (a.kind = "NULL" <=> a = NULL)
      /\ b.kind \in Kinds /\ b.data \in Int /\ (b.kind = "NULL" <=> b = NULL)
  BY FieldParts DEF NULL
<1>2. CASE b.kind = "NULL"
  BY <1>1, <1>2 DEF ValueBefore, compareForSort
<1>3. CASE b.kind # "NULL" /\ a.kind = "NULL"
  BY <1>1, <1>3 DEF ValueBefore, compareForSort
<1>4. CASE b.kind # "NULL" /\ a.kind # "NULL"
  <2>1. a.kind = b.kind
    BY <1>4 DEF SameKind
  <2>2. compareForSort(a, b) = Sign(a.data - b.data)
    BY <1>4, CompareKeys
  <2>3. compareForSort(a, b) = -1 <=> a.data < b.data
    BY <1>1, <2>2 DEF Sign
  <2>4. ValueBefore(a, b) <=> a.data < b.data
    BY <1>1, <1>4, <2>1 DEF ValueBefore, compareValues, numericCompare, Ordered, Kinds
  <2> QED
    BY <2>3, <2>4
<1> QED
  BY <1>2, <1>3, <1>4

\* Between rows of the answer likewise.
LEMMA RowPrecedesIs ==
    ASSUME IInv, pc = "answered", OrderedByAnswer, NEW i \in DOMAIN produced, NEW j \in DOMAIN produced
    PROVE  RowPrecedes(produced[i], produced[j]) <=>
             RowBefore(produced[i], produced[j], SortKeys(result.columns))
<1> DEFINE K == SortKeys(result.columns)
           n == Len(stmt.orderBy)
           At(k) == HeaderIndex(stmt.orderBy[k].column, result.columns)
           a == produced[i]
           b == produced[j]
<1>1. /\ stmt \in Statements /\ Alike(produced) /\ Len(a) = Len(Header)
      /\ result.columns = Header /\ Header \in Seq(SelectItem)
  BY SortableRows
<1>2. n \in Nat /\ DOMAIN stmt.orderBy = 1 .. n
  BY <1>1, StatementParts
<1>3. ASSUME NEW k \in 1 .. n
      PROVE  /\ KeyOrder(a, b, K[k]) \in {-1, 0, 1}
             /\ KeyOrder(a, b, K[k]) = -1 <=> ValueBefore(a[At(k)], b[At(k)])
             /\ KeyOrder(a, b, K[k]) = 1 <=> ValueBefore(b[At(k)], a[At(k)])
             /\ K[k].ascending = stmt.orderBy[k].ascending
  <2> DEFINE name == stmt.orderBy[k].column
             h == HeaderIndex(name, result.columns)
  <2>1. h # 0
    BY <1>1, <1>2, <1>3 DEF OrderedByAnswer
  <2>2. K[k] = [index |-> KeyIndex(name, result.columns, joinedSchema), ascending |-> stmt.orderBy[k].ascending]
    BY <1>2 DEF SortKeys
  <2>3. KeyIndex(name, result.columns, joinedSchema) = h
    BY <2>1 DEF KeyIndex
  <2>4. h \in DOMAIN result.columns
    BY <1>1, <2>1, HeaderIndexIs
  <2>5. h \in DOMAIN a
    <3>1. DOMAIN a = 1 .. Len(a) /\ DOMAIN Header = 1 .. Len(Header)
      <4>1. a \in Seq(Field)
        BY <1>1, AlikeParts
      <4> HIDE DEF a
      <4> QED
        BY <1>1, <4>1
    <3> QED
      BY <1>1, <2>4, <3>1
  <2>6. KeyOrder(a, b, K[k]) = compareForSort(a[h], b[h])
    BY <2>2, <2>3, <2>5 DEF KeyOrder
  <2>7. a[h] \in Field /\ b[h] \in Field /\ SameKind(a[h], b[h]) /\ SameKind(b[h], a[h])
    <3>1. DOMAIN a = DOMAIN b
      BY <1>1, AlikeParts
    <3> QED
      BY <1>1, <2>5, <3>1, AlikeParts
  <2> HIDE DEF h, a, b, K
  <2>8. /\ compareForSort(a[h], b[h]) \in {-1, 0, 1}
        /\ compareForSort(b[h], a[h]) = -compareForSort(a[h], b[h])
        /\ ValueBefore(a[h], b[h]) <=> compareForSort(a[h], b[h]) = -1
        /\ ValueBefore(b[h], a[h]) <=> compareForSort(b[h], a[h]) = -1
    BY <2>7, CompareType, ValueBeforeIs
  <2>9. compareForSort(a[h], b[h]) = 1 <=> compareForSort(b[h], a[h]) = -1
    BY <2>8
  <2>10. K[k].ascending = stmt.orderBy[k].ascending
    BY <2>2
  <2>11. h = At(k)
    BY DEF h
  <2> HIDE DEF At
  <2> QED
    BY <2>6, <2>8, <2>9, <2>10, <2>11
<1>4. \A k \in 1 .. n : \A m \in 1 .. k - 1 : m \in 1 .. n
  BY <1>2
<1>5. DOMAIN K = 1 .. n
  BY <1>2 DEF SortKeys
<1>6. RowPrecedes(a, b) <=>
        \E k \in 1 .. n :
            /\ IF stmt.orderBy[k].ascending THEN ValueBefore(a[At(k)], b[At(k)])
                                            ELSE ValueBefore(b[At(k)], a[At(k)])
            /\ \A m \in 1 .. k - 1 : ~ValueBefore(a[At(m)], b[At(m)]) /\ ~ValueBefore(b[At(m)], a[At(m)])
  BY <1>2, Zenon DEF RowPrecedes
<1>7. RowBefore(a, b, K) <=>
        \E k \in 1 .. n :
            /\ KeyOrder(a, b, K[k]) = IF K[k].ascending THEN -1 ELSE 1
            /\ \A m \in 1 .. k - 1 : KeyOrder(a, b, K[m]) = 0
  BY <1>5, Zenon DEF RowBefore
<1> DEFINE X(k) == ValueBefore(a[At(k)], b[At(k)])
           Y(k) == ValueBefore(b[At(k)], a[At(k)])
<1>8. \A k \in 1 .. n : /\ KeyOrder(a, b, K[k]) \in {-1, 0, 1}
                        /\ KeyOrder(a, b, K[k]) = -1 <=> X(k)
                        /\ KeyOrder(a, b, K[k]) = 1 <=> Y(k)
                        /\ K[k].ascending = stmt.orderBy[k].ascending
  BY <1>3
<1>9. \A k \in 1 .. n : KeyOrder(a, b, K[k]) = 0 <=> ~X(k) /\ ~Y(k)
  BY <1>8
<1>10. \A k \in 1 .. n : (KeyOrder(a, b, K[k]) = IF K[k].ascending THEN -1 ELSE 1)
                         <=> IF stmt.orderBy[k].ascending THEN X(k) ELSE Y(k)
  BY <1>8
<1>11. RowPrecedes(a, b) <=>
        \E k \in 1 .. n : /\ IF stmt.orderBy[k].ascending THEN X(k) ELSE Y(k)
                          /\ \A m \in 1 .. k - 1 : ~X(m) /\ ~Y(m)
  BY <1>6
<1> HIDE DEF X, Y, K, a, b
<1>12. RowPrecedes(a, b) <=> RowBefore(a, b, K)
  BY <1>4, <1>7, <1>9, <1>10, <1>11
<1> QED
  BY <1>12 DEF a, b, K

\* The row at place p has fewer than p rows before it, and p with its equals.
LEMMA RankOfPlace ==
    ASSUME NEW rows, Alike(rows), NEW keys \in SortKeyList, NEW s \in DOMAIN rows
    PROVE  /\ Cardinality({i \in DOMAIN rows : RowBefore(rows[i], rows[s], keys)}) < Place(rows, s, keys)
           /\ Place(rows, s, keys) <= Cardinality({i \in DOMAIN rows : ~RowBefore(rows[s], rows[i], keys)})
<1> DEFINE R      == DOMAIN rows
           A      == {j \in R : NoLater(rows, keys, j, s)}
           before == {i \in R : RowBefore(rows[i], rows[s], keys)}
           upTo   == {i \in R : ~RowBefore(rows[s], rows[i], keys)}
<1>1. Place(rows, s, keys) = Cardinality(A)
  BY DEF Place, NoLater
<1>2. IsFiniteSet(R)
  <2>1. Len(rows) \in Nat /\ R = 1 .. Len(rows)
    BY DEF Alike
  <2>2. IsFiniteSet(1 .. Len(rows))
    BY <2>1, FS_Interval, 1 \in Int, Len(rows) \in Int
  <2> QED
    BY <2>1, <2>2
<1>3. before \subseteq A /\ s \in A /\ s \notin before
  <2>1. NoLater(rows, keys, s, s) /\ ~RowBefore(rows[s], rows[s], keys)
    BY NoLaterOrders
  <2>2. \A i \in before : NoLater(rows, keys, i, s)
    BY DEF NoLater
  <2> QED
    BY <2>1, <2>2
<1>4. A \subseteq upTo
  BY NoLaterOrders
<1>5. A \subseteq R /\ upTo \subseteq R
  OBVIOUS
<1> HIDE DEF A, before, upTo, R
<1>6. before # A
  BY <1>3
<1>7. IsFiniteSet(A) /\ IsFiniteSet(upTo) /\ Cardinality(A) \in Nat /\ Cardinality(before) \in Nat
  <2>1. IsFiniteSet(A) /\ IsFiniteSet(upTo)
    BY <1>2, <1>5, FS_Subset
  <2> QED
    BY <1>3, <2>1, FS_Subset, FS_CardinalityType
<1>8. Cardinality(before) < Cardinality(A)
  BY <1>3, <1>6, <1>7, FS_Subset
<1>9. Cardinality(A) <= Cardinality(upTo)
  BY <1>4, <1>7, FS_Subset
<1> QED
  BY <1>1, <1>8, <1>9 DEF before, upTo, R

\* The greater of 0 and a number.
LEMMA AtLeastZero ==
    ASSUME NEW x \in Int
    PROVE  Max({0, x}) = IF x > 0 THEN x ELSE 0
<1> DEFINE S == {0, x}
           m == IF x > 0 THEN x ELSE 0
<1>1. m \in S /\ \A y \in S : m >= y
  OBVIOUS
<1>2. \A z \in S : (\A y \in S : z >= y) => z = m
  OBVIOUS
<1>3. Max(S) \in S /\ \A y \in S : Max(S) >= y
  BY <1>1 DEF Max
<1> HIDE DEF S, m
<1>4. Max(S) = m
  BY <1>2, <1>3
<1> QED
  BY <1>4 DEF S, m

(* Each row answered has its rank among the rows produced.                 *)
THEOREM AnswerRanked == Spec => []AnswerIsRanked
<1>1. ASSUME IInv, pc = "answered", OrderedByAnswer
      PROVE  AnswerIsRanked
  <2> DEFINE K     == SortKeys(result.columns)
             first == IF stmt.limit < 0 THEN 0 ELSE stmt.offset
             len   == Len(produced)
             rest  == IF len > first THEN len - first ELSE 0
  <2>1. /\ stmt \in Statements /\ Alike(produced) /\ K \in SortKeyList
        /\ Sorted \in Seq(Seq(Field)) /\ Len(Sorted) = len /\ DOMAIN Sorted = DOMAIN produced
        /\ Sorted = StableSort(produced, K)
    BY <1>1, SortableRows DEF Sorted
  <2>2. result.rows = Limited(Sorted)
    BY <1>1 DEF IInv, ResultOk
  <2>3. stmt.limit \in Nat \cup {-1} /\ stmt.offset \in Nat /\ len \in Nat
    BY <2>1, StatementParts DEF Alike
  <2>4. /\ Len(Limited(Sorted)) = IF stmt.limit >= 0 /\ stmt.limit < rest THEN stmt.limit ELSE rest
        /\ \A p \in DOMAIN Limited(Sorted) : first + p \in DOMAIN Sorted /\ Limited(Sorted)[p] = Sorted[first + p]
    BY <2>1, LimitedType
  <2>5. Max({0, len - first}) = rest /\ rest \in Nat
    <3>1. len - first \in Int /\ (len > first <=> len - first > 0)
      BY <2>3
    <3> DEFINE x == len - first
    <3>2. Max({0, x}) = IF x > 0 THEN x ELSE 0
      <4> HIDE DEF x
      <4> QED
        BY <3>1, AtLeastZero DEF x
    <3> QED
      BY <2>3, <3>1, <3>2
  <2>6. stmt.limit >= 0 => Min({stmt.limit, rest}) = IF stmt.limit < rest THEN stmt.limit ELSE rest
    <3> HIDE DEF rest
    <3> SUFFICES ASSUME stmt.limit >= 0
                 PROVE  Min({stmt.limit, rest}) = IF stmt.limit < rest THEN stmt.limit ELSE rest
      OBVIOUS
    <3> DEFINE S == {stmt.limit, rest}
    <3>1. S \subseteq Nat /\ S # {}
      BY <2>3, <2>5
    <3>2. Min(S) \in S /\ \A y \in S : Min(S) <= y
      <4> HIDE DEF S
      <4> QED
        BY <3>1, MinIsLeast
    <3> QED
      BY <2>3, <2>5, <3>2
  <2>7. Len(result.rows) = IF stmt.limit < 0 THEN Max({0, len - first}) ELSE Min({stmt.limit, Max({0, len - first})})
    <3> HIDE DEF rest, first, len
    <3>1. CASE stmt.limit < 0
      <4>1. ~ (stmt.limit >= 0)
        BY <2>3, <3>1
      <4> QED
        BY <2>2, <2>4, <2>5, <3>1, <4>1
    <3>2. CASE stmt.limit >= 0
      <4>1. ~ (stmt.limit < 0)
        BY <2>3, <3>2
      <4> QED
        BY <2>2, <2>4, <2>5, <2>6, <3>2, <4>1
    <3> QED
      BY <2>3, <3>1, <3>2
  <2>8. ASSUME NEW p \in DOMAIN result.rows
        PROVE  /\ Cardinality({i \in DOMAIN produced : RowPrecedes(produced[i], result.rows[p])}) < first + p
               /\ first + p <= Cardinality({i \in DOMAIN produced : ~RowPrecedes(result.rows[p], produced[i])})
    <3> DEFINE s == Source(produced, K, first + p)
    <3>1. first + p \in DOMAIN produced /\ result.rows[p] = Sorted[first + p]
      <4> HIDE DEF first
      <4> QED
        BY <2>1, <2>2, <2>4
    <3>2. s \in DOMAIN produced /\ Sorted[first + p] = produced[s] /\ Place(produced, s, K) = first + p
      <4> HIDE DEF K, first
      <4> QED
        BY <2>1, <3>1, SortedRows
    <3>3. result.rows[p] = produced[s]
      BY <3>1, <3>2
    <3> HIDE DEF s, first
    <3>4. /\ {i \in DOMAIN produced : RowPrecedes(produced[i], produced[s])}
             = {i \in DOMAIN produced : RowBefore(produced[i], produced[s], K)}
          /\ {i \in DOMAIN produced : ~RowPrecedes(produced[s], produced[i])}
             = {i \in DOMAIN produced : ~RowBefore(produced[s], produced[i], K)}
      BY <1>1, <3>2, RowPrecedesIs
    <3> HIDE DEF K
    <3>5. /\ Cardinality({i \in DOMAIN produced : RowBefore(produced[i], produced[s], K)}) < Place(produced, s, K)
          /\ Place(produced, s, K) <= Cardinality({i \in DOMAIN produced : ~RowBefore(produced[s], produced[i], K)})
      BY <2>1, <3>2, RankOfPlace
    <3> QED
      BY <3>2, <3>3, <3>4, <3>5, Zenon
  <2> QED
    BY <2>7, <2>8, Zenon DEF AnswerIsRanked
<1>2. IInv => AnswerIsRanked
  BY <1>1 DEF AnswerIsRanked
<1> QED
  BY <1>2, SelectInvariant, PTL

-----------------------------------------------------------------------------
(* Evaluating a condition, node by node.                                   *)

\* What the first nodes of cond make of the outcomes p.
NodeByNode(h, p, cond, row, schema) ==
    /\ h[0] = p
    /\ \A i \in 1 .. Len(cond) : h[i] = Reduce(h[i - 1], cond[i], row, schema)

\* All nodes of cond make q of the outcomes p.
Runs(p, cond, q, row, schema) ==
    \E h : NodeByNode(h, p, cond, row, schema) /\ h[Len(cond)] = q

\* The recursion of the fold.
Reduced(f, cond, row, schema, s) ==
    IF s = {} THEN <<>> ELSE Reduce(f[s \ {Max(s)}], cond[Max(s)], row, schema)

Reducible(n, cond, row, schema) ==
    \E f : f = [s \in SUBSET (1 .. n) |-> Reduced(f, cond, row, schema, s)]

\* It has a solution, whatever the nodes are.
LEMMA ReduceExists ==
    ASSUME NEW cond, NEW row, NEW schema, NEW n \in Nat
    PROVE  Reducible(n, cond, row, schema)
<1> DEFINE Solves(f, m) == f = [s \in SUBSET (1 .. m) |-> Reduced(f, cond, row, schema, s)]
           P == {m \in Nat : \E f : Solves(f, m)}
<1> HIDE DEF Solves
<1>1. 0 \in P
  <2> DEFINE f == [s \in SUBSET (1 .. 0) |-> <<>>]
  <2>1. \A s \in SUBSET (1 .. 0) : s = {}
    OBVIOUS
  <2>2. \A s \in SUBSET (1 .. 0) : Reduced(f, cond, row, schema, s) = <<>>
    BY <2>1, Zenon DEF Reduced
  <2>3. f = [s \in SUBSET (1 .. 0) |-> Reduced(f, cond, row, schema, s)]
    BY <2>2
  <2> HIDE DEF f
  <2>4. Solves(f, 0)
    BY <2>3, Zenon DEF Solves
  <2> QED
    BY <2>4
<1>2. ASSUME NEW m \in Nat, m \in P
      PROVE  m + 1 \in P
  <2>1. PICK f : Solves(f, m)
    BY <1>2
  <2> DEFINE S == SUBSET (1 .. m + 1)
             h == [s \in S |-> IF m + 1 \in s THEN Reduce(f[s \ {m + 1}], cond[m + 1], row, schema) ELSE f[s]]
  <2>2. ASSUME NEW s \in S
        PROVE  /\ m + 1 \notin s => s \in SUBSET (1 .. m)
               /\ s \ {m + 1} \in SUBSET (1 .. m)
    OBVIOUS
  <2>3. \A s \in SUBSET (1 .. m) : f[s] = Reduced(f, cond, row, schema, s)
    <3>1. f = [s \in SUBSET (1 .. m) |-> Reduced(f, cond, row, schema, s)]
      BY <2>1, Zenon DEF Solves
    <3> DEFINE F == [s \in SUBSET (1 .. m) |-> Reduced(f, cond, row, schema, s)]
    <3>2. \A s \in SUBSET (1 .. m) : F[s] = Reduced(f, cond, row, schema, s)
      OBVIOUS
    <3> QED
      BY <3>1, <3>2, Zenon
  <2>7. ASSUME NEW s \in SUBSET (1 .. m)
        PROVE  s \in S /\ m + 1 \notin s /\ h[s] = f[s]
    OBVIOUS
  <2>8. ASSUME NEW s \in S
        PROVE  h[s] = Reduced(h, cond, row, schema, s)
    <3>1. CASE m + 1 \in s
      <4>1. Max(s) \in s /\ \A y \in s : Max(s) >= y
        <5>1. m + 1 \in Nat /\ s \subseteq 1 .. m + 1 /\ s # {}
          BY <3>1
        <5> QED
          BY <5>1, MaxIsGreatest
      <4>2. Max(s) = m + 1
        <5>1. Max(s) \in 1 .. m + 1 /\ Max(s) >= m + 1
          BY <3>1, <4>1
        <5> QED
          BY <5>1
      <4>3. h[s] = Reduce(f[s \ {m + 1}], cond[m + 1], row, schema)
        BY <3>1
      <4>4. h[s \ {m + 1}] = f[s \ {m + 1}]
        BY <2>2, <2>7
      <4>5. s # {}
        BY <3>1
      <4> HIDE DEF h
      <4> QED
        BY <4>2, <4>3, <4>4, <4>5, Zenon DEF Reduced
    <3>2. CASE m + 1 \notin s
      <4>1. s \in SUBSET (1 .. m) /\ s \ {Max(s)} \in SUBSET (1 .. m)
        BY <2>2, <3>2
      <4>2. h[s] = f[s] /\ h[s \ {Max(s)}] = f[s \ {Max(s)}]
        BY <2>7, <4>1
      <4>3. f[s] = Reduced(f, cond, row, schema, s)
        BY <2>3, <4>1
      <4> HIDE DEF h
      <4> QED
        BY <4>2, <4>3, Zenon DEF Reduced
    <3> QED
      BY <3>1, <3>2
  <2>9. h = [s \in S |-> h[s]]
    OBVIOUS
  <2> HIDE DEF h
  <2>10. h = [s \in S |-> Reduced(h, cond, row, schema, s)]
    BY <2>8, <2>9
  <2>11. Solves(h, m + 1)
    BY <2>10, Zenon DEF Solves
  <2> QED
    BY <2>11
<1>3. n \in P
  <2>1. \A m \in Nat : m \in P
    <3> HIDE DEF P
    <3> QED
      BY <1>1, <1>2, Counting
  <2> QED
    BY <2>1
<1>4. PICK f : Solves(f, n)
  BY <1>3
<1> QED
  BY <1>4, Zenon DEF Solves, Reducible

\* evaluate looks at the last outcome of all nodes.
LEMMA EvaluateRuns ==
    ASSUME NEW cond \in Seq(Comparison \cup Connective), NEW row, NEW schema, cond # <<>>
    PROVE  \E q : Runs(<<>>, cond, q, row, schema) /\ evaluate(cond, row, schema) = Last(q)
<1> DEFINE n == Len(cond)
           D == SUBSET (1 .. n)
           Body(f) == [s \in D |-> Reduced(f, cond, row, schema, s)]
           it == CHOOSE f : f = Body(f)
<1>1. n \in Nat /\ DOMAIN cond = 1 .. n
  <2> HIDE DEF Comparison, Connective
  <2> QED
    OBVIOUS
<1>2. it = Body(it)
  <2>1. \E f : f = Body(f)
    <3>1. Reducible(n, cond, row, schema)
      <4> HIDE DEF n
      <4> QED
        BY <1>1, ReduceExists
    <3> QED
      BY <3>1, Zenon DEF Reducible
  <2> HIDE DEF Body
  <2> QED
    BY <2>1, Zenon
<1>3. evaluate(cond, row, schema) = Last(it[1 .. n])
  <2>1. evaluate(cond, row, schema) =
          LET h[s \in SUBSET DOMAIN cond] ==
                  IF s = {} THEN <<>> ELSE Reduce(h[s \ {Max(s)}], cond[Max(s)], row, schema)
          IN  Last(h[DOMAIN cond])
    BY Zenon DEF evaluate, FoldLeft, MapThenFoldSet
  <2> QED
    BY <1>1, <2>1, Zenon DEF Reduced
<1> HIDE DEF it
<1>4. \A s \in D : it[s] = Reduced(it, cond, row, schema, s)
  <2>1. \A s \in D : Body(it)[s] = Reduced(it, cond, row, schema, s)
    OBVIOUS
  <2> QED
    BY <1>2, <2>1, Zenon
<1> DEFINE h == [i \in 0 .. n |-> it[1 .. i]]
<1>5. h[0] = <<>>
  <2>1. 1 .. 0 = {} /\ 0 \in 0 .. n /\ {} \in D
    BY <1>1
  <2>2. it[{}] = <<>>
    BY <1>4, <2>1, Zenon DEF Reduced
  <2> HIDE DEF n
  <2> QED
    BY <2>1, <2>2
<1>6. ASSUME NEW i \in 1 .. n
      PROVE  h[i] = Reduce(h[i - 1], cond[i], row, schema)
  <2>1. i - 1 \in 0 .. n /\ i \in 0 .. n
    BY <1>1
  <2>2. 1 .. i \in D /\ 1 .. i # {} /\ Max(1 .. i) = i /\ (1 .. i) \ {Max(1 .. i)} = 1 .. i - 1
    <3> HIDE DEF n
    <3> QED
      BY <1>1, Upto
  <2>3. it[1 .. i] = Reduce(it[1 .. i - 1], cond[i], row, schema)
    BY <1>4, <2>2, Zenon DEF Reduced
  <2>4. h[i] = it[1 .. i] /\ h[i - 1] = it[1 .. i - 1]
    BY <2>1
  <2> QED
    BY <2>3, <2>4, Zenon
<1>7. h[n] = it[1 .. n]
  BY <1>1
<1> HIDE DEF h
<1>8. NodeByNode(h, <<>>, cond, row, schema)
  BY <1>5, <1>6, Zenon DEF NodeByNode, n
<1>9. Runs(<<>>, cond, it[1 .. n], row, schema)
  BY <1>7, <1>8, Zenon DEF Runs, n
<1> QED
  BY <1>3, <1>9

\* What the nodes make of the outcomes is one thing.
LEMMA RunsOnce ==
    ASSUME NEW cond \in Seq(Comparison \cup Connective), NEW row, NEW schema,
           NEW p, NEW q, NEW r, Runs(p, cond, q, row, schema), Runs(p, cond, r, row, schema)
    PROVE  q = r
<1> DEFINE n == Len(cond)
<1>1. n \in Nat
  <2> HIDE DEF Comparison, Connective
  <2> QED
    OBVIOUS
<1>2. PICK g : NodeByNode(g, p, cond, row, schema) /\ g[n] = q
  BY Zenon DEF Runs
<1>3. PICK h : NodeByNode(h, p, cond, row, schema) /\ h[n] = r
  BY Zenon DEF Runs
<1> DEFINE P == {m \in Nat : m <= n => g[m] = h[m]}
<1>4. 0 \in P
  BY <1>2, <1>3 DEF NodeByNode
<1>5. ASSUME NEW m \in Nat, m \in P
      PROVE  m + 1 \in P
  <2> SUFFICES ASSUME m + 1 <= n
               PROVE  g[m + 1] = h[m + 1]
    OBVIOUS
  <2>1. m + 1 \in 1 .. n /\ (m + 1) - 1 = m /\ g[m] = h[m]
    BY <1>1, <1>5
  <2>2. g[m + 1] = Reduce(g[m], cond[m + 1], row, schema)
    BY <1>2, <2>1, Zenon DEF NodeByNode
  <2>3. h[m + 1] = Reduce(h[m], cond[m + 1], row, schema)
    BY <1>3, <2>1, Zenon DEF NodeByNode
  <2> QED
    BY <2>1, <2>2, <2>3
<1>6. n \in P
  <2>1. \A m \in Nat : m \in P
    <3> HIDE DEF P
    <3> QED
      BY <1>4, <1>5, Counting
  <2> QED
    BY <1>1, <2>1
<1> QED
  BY <1>1, <1>2, <1>3, <1>6

\* One condition behind the other.
LEMMA RunsOn ==
    ASSUME NEW T, NEW a \in Seq(T), NEW b \in Seq(T), NEW row, NEW schema,
           NEW p, NEW q, NEW r, Runs(p, a, q, row, schema), Runs(q, b, r, row, schema)
    PROVE  Runs(p, a \o b, r, row, schema)
<1> DEFINE n == Len(a)
           m == Len(b)
           c == a \o b
<1>1. n \in Nat /\ m \in Nat
  OBVIOUS
<1>2. PICK g : NodeByNode(g, p, a, row, schema) /\ g[n] = q
  BY Zenon DEF Runs
<1>3. PICK h : NodeByNode(h, q, b, row, schema) /\ h[m] = r
  BY Zenon DEF Runs
<1> DEFINE k == [i \in 0 .. n + m |-> IF i <= n THEN g[i] ELSE h[i - n]]
<1>4. Len(c) = n + m /\ (\A i \in 1 .. n : c[i] = a[i]) /\ (\A i \in 1 .. m : c[n + i] = b[i])
  BY Concatenated
<1> HIDE DEF n, m, c
<1>5. \A i \in 0 .. n : i \in 0 .. n + m /\ k[i] = g[i]
  BY <1>1
<1>6. \A i \in 0 .. m : n + i \in 0 .. n + m /\ k[n + i] = h[i]
  <2> TAKE i \in 0 .. m
  <2>1. CASE i = 0
    <3>1. h[0] = q
      BY <1>3 DEF NodeByNode
    <3>2. n + i = n /\ n \in 0 .. n
      BY <1>1, <2>1
    <3> QED
      BY <1>2, <1>5, <2>1, <3>1, <3>2
  <2>2. CASE i # 0
    <3>1. n + i \in 0 .. n + m /\ ~ (n + i <= n) /\ (n + i) - n = i
      BY <1>1, <2>2
    <3> QED
      BY <3>1
  <2> QED
    BY <2>1, <2>2
<1> HIDE DEF k
<1>7. k[0] = p
  BY <1>1, <1>2, <1>5 DEF NodeByNode
<1>8. ASSUME NEW i \in 1 .. n + m
      PROVE  k[i] = Reduce(k[i - 1], c[i], row, schema)
  <2>1. CASE i \in 1 .. n
    <3>1. i \in 0 .. n /\ i - 1 \in 0 .. n
      BY <1>1, <2>1
    <3>2. g[i] = Reduce(g[i - 1], a[i], row, schema)
      BY <1>2, <2>1, Zenon DEF NodeByNode, n
    <3> QED
      BY <1>4, <1>5, <2>1, <3>1, <3>2
  <2>2. CASE i \notin 1 .. n
    <3> DEFINE j == i - n
    <3>1. j \in 1 .. m /\ j \in 0 .. m /\ j - 1 \in 0 .. m /\ n + j = i /\ n + (j - 1) = i - 1
      BY <1>1, <2>2
    <3> HIDE DEF j
    <3>2. h[j] = Reduce(h[j - 1], b[j], row, schema)
      BY <1>3, <3>1, Zenon DEF NodeByNode, m
    <3>3. k[i] = h[j] /\ k[i - 1] = h[j - 1] /\ c[i] = b[j]
      BY <1>4, <1>6, <3>1
    <3> QED
      BY <3>2, <3>3
  <2> QED
    BY <2>1, <2>2
<1>9. k[n + m] = r
  BY <1>1, <1>3, <1>6
<1>10. NodeByNode(k, p, c, row, schema)
  BY <1>4, <1>7, <1>8, Zenon DEF NodeByNode
<1>11. Runs(p, c, r, row, schema)
  BY <1>4, <1>9, <1>10, Zenon DEF Runs
<1> QED
  BY <1>11 DEF c

\* One node.
LEMMA RunsNode ==
    ASSUME NEW node, NEW row, NEW schema, NEW p
    PROVE  Runs(p, <<node>>, Reduce(p, node, row, schema), row, schema)
<1> DEFINE h == [i \in 0 .. 1 |-> IF i = 0 THEN p ELSE Reduce(p, node, row, schema)]
<1>1. h[0] = p /\ h[1] = Reduce(p, node, row, schema)
  OBVIOUS
<1>2. Len(<<node>>) = 1 /\ <<node>>[1] = node
  OBVIOUS
<1> HIDE DEF h
<1>3. \A i \in 1 .. 1 : i = 1 /\ i - 1 = 0
  OBVIOUS
<1>4. \A i \in 1 .. Len(<<node>>) : h[i] = Reduce(h[i - 1], <<node>>[i], row, schema)
  BY <1>1, <1>2, <1>3
<1>5. NodeByNode(h, p, <<node>>, row, schema)
  BY <1>1, <1>4, Zenon DEF NodeByNode
<1> QED
  BY <1>1, <1>2, <1>5, Zenon DEF Runs

Node == Comparison \cup Connective

\* By how many outcomes a node lengthens those seen.
Change(node) ==
    IF node.node = "compare" THEN 1 ELSE IF node.node \in {"and", "or"} THEN -1 ELSE 0

\* A node of a condition is a comparison, NOT, AND or OR.
LEMMA NodeKinds ==
    ASSUME NEW node \in Node
    PROVE  node.node \in {"compare", "not", "and", "or"}
BY DEF Node, Comparison, Connective

\* What is put before a sequence only moves it.
Moved(p, s, T) ==
    /\ p \o s \in Seq(T) /\ Len(p \o s) = Len(p) + Len(s)
    /\ \A k \in 1 .. Len(p) : (p \o s)[k] = p[k]
    /\ \A k \in 1 .. Len(s) : (p \o s)[Len(p) + k] = s[k]
    /\ \A v \in T : Append(p \o s, v) = p \o Append(s, v)

\* Everything that is put before a sequence does so.
LEMMA PutBefore ==
    ASSUME NEW T, NEW p \in Seq(T), NEW s \in Seq(T)
    PROVE  Moved(p, s, T)
BY DEF Moved

\* A node that finds its outcomes leaves those below them alone.
LEMMA ReduceFrames ==
    ASSUME NEW node \in Node, NEW p \in Seq(Outcome), NEW s \in Seq(Outcome), NEW row, NEW schema,
           node.node = "not" => Len(s) >= 1, node.node \in {"and", "or"} => Len(s) >= 2
    PROVE  /\ Reduce(p \o s, node, row, schema) = p \o Reduce(s, node, row, schema)
           /\ Reduce(s, node, row, schema) \in Seq(Outcome)
           /\ Len(Reduce(s, node, row, schema)) = Len(s) + Change(node)
<1> DEFINE n == Len(p)
           k == Len(s)
           t == p \o s
<1>1. /\ n \in Nat /\ k \in Nat /\ t \in Seq(Outcome) /\ Len(t) = n + k
      /\ n = Len(p) /\ k = Len(s)
      /\ (\A i \in 1 .. n : t[i] = p[i]) /\ (\A i \in 1 .. k : t[n + i] = s[i])
  BY Concatenated
<1> HIDE DEF n, k, t
<1>2. CASE node.node = "compare"
  <2> DEFINE v == Compare(node, row, schema)
  <2>1. v \in Outcome
    BY DEF Compare, Outcome
  <2>2. Reduce(t, node, row, schema) = Append(t, v) /\ Reduce(s, node, row, schema) = Append(s, v)
    BY <1>2 DEF Reduce
  <2> HIDE DEF v
  <2>3. Append(t, v) = p \o Append(s, v)
    BY <2>1 DEF t
  <2>4. Append(s, v) \in Seq(Outcome) /\ Len(Append(s, v)) = k + 1
    BY <2>1 DEF k
  <2> QED
    BY <1>2, <2>2, <2>3, <2>4 DEF Change, t, k
<1>3. CASE node.node = "not"
  <2>1. k >= 1 /\ k \in DOMAIN s /\ n + k \in DOMAIN t
    BY <1>1, <1>3 DEF k
  <2> DEFINE v == NotOf(s[k])
             u == [s EXCEPT ![k] = v]
             w == [t EXCEPT ![n + k] = v]
  <2>2. v \in Outcome
    <3>1. s[k] \in Outcome
      BY <2>1
    <3> QED
      BY <3>1 DEF NotOf, Outcome
  <2>3. t[n + k] = s[k]
    BY <1>1, <2>1
  <2>4. Reduce(t, node, row, schema) = w /\ Reduce(s, node, row, schema) = u
    BY <1>1, <1>3, <2>3 DEF Reduce, k
  <2> HIDE DEF v
  <2>5. /\ u \in Seq(Outcome) /\ Len(u) = k /\ u[k] = v
        /\ \A i \in 1 .. k : i # k => u[i] = s[i]
    BY <2>1, <2>2 DEF k
  <2>6. /\ w \in Seq(Outcome) /\ Len(w) = n + k /\ w[n + k] = v
        /\ \A i \in 1 .. n + k : i # n + k => w[i] = t[i]
    BY <1>1, <2>1, <2>2
  <2> HIDE DEF u, w
  <2>7. /\ p \o u \in Seq(Outcome) /\ Len(p \o u) = n + k
        /\ (\A i \in 1 .. n : (p \o u)[i] = p[i]) /\ (\A i \in 1 .. k : (p \o u)[n + i] = u[i])
    <3>1. /\ p \o u \in Seq(Outcome) /\ Len(p \o u) = Len(p) + Len(u)
          /\ (\A i \in 1 .. Len(p) : (p \o u)[i] = p[i])
          /\ (\A i \in 1 .. Len(u) : (p \o u)[Len(p) + i] = u[i])
      <4>1. Moved(p, u, Outcome)
        BY <2>5, PutBefore
      <4> QED
        BY <4>1, Zenon DEF Moved
    <3> QED
      BY <1>1, <2>5, <3>1, Zenon
  <2>8. ASSUME NEW i \in 1 .. n + k
        PROVE  w[i] = (p \o u)[i]
    <3>1. CASE i \in 1 .. n
      <4>1. w[i] = t[i]
        BY <1>1, <2>1, <2>6, <3>1
      <4> QED
        BY <1>1, <2>7, <3>1, <4>1
    <3>2. CASE i \notin 1 .. n
      <4> DEFINE j == i - n
      <4>1. j \in 1 .. k /\ n + j = i
        BY <1>1, <3>2
      <4> HIDE DEF j
      <4>2. (p \o u)[i] = u[j] /\ t[i] = s[j]
        BY <1>1, <2>7, <4>1
      <4>3. CASE j = k
        BY <2>5, <2>6, <4>1, <4>2, <4>3
      <4>4. CASE j # k
        <5>1. i # n + k
          BY <1>1, <4>1, <4>4
        <5> QED
          BY <2>5, <2>6, <4>1, <4>2, <4>4, <5>1
      <4> QED
        BY <4>3, <4>4
    <3> QED
      BY <3>1, <3>2
  <2>9. w = p \o u
    BY <2>6, <2>7, <2>8, SameElements
  <2> QED
    BY <1>1, <1>3, <2>4, <2>5, <2>9 DEF Change, t, k
<1>4. CASE node.node \in {"and", "or"}
  <2>1. k >= 2 /\ k \in DOMAIN s /\ k - 1 \in DOMAIN s
    BY <1>1, <1>4 DEF k
  <2>2. t[n + k] = s[k] /\ t[(n + k) - 1] = s[k - 1]
    <3>1. k \in 1 .. k /\ k - 1 \in 1 .. k /\ n + (k - 1) = (n + k) - 1
      BY <1>1, <2>1
    <3>2. t[n + (k - 1)] = s[k - 1] /\ t[n + k] = s[k]
      BY <1>1, <3>1
    <3> QED
      BY <3>1, <3>2
  <2> DEFINE v == IF node.node = "and" THEN AndOf(s[k - 1], s[k]) ELSE OrOf(s[k - 1], s[k])
             u == SubSeq(s, 1, k - 2)
             w == SubSeq(t, 1, (n + k) - 2)
  <2>3. v \in Outcome
    <3>1. s[k] \in Outcome /\ s[k - 1] \in Outcome
      BY <2>1
    <3> QED
      BY <3>1 DEF AndOf, OrOf
  <2>4. Reduce(t, node, row, schema) = Append(w, v) /\ Reduce(s, node, row, schema) = Append(u, v)
    BY <1>1, <1>4, <2>2 DEF Reduce, k
  <2> HIDE DEF v
  <2>5. u \in Seq(Outcome) /\ Len(u) = k - 2 /\ \A i \in 1 .. k - 2 : u[i] = s[i]
    <3>1. k - 2 \in Nat /\ k - 2 <= Len(s)
      BY <1>1, <2>1
    <3>2. u \in Seq(Outcome) /\ Len(u) = k - 2
      BY <3>1
    <3>3. \A i \in 1 .. k - 2 : u[i] = s[i]
      BY <3>1
    <3> QED
      BY <3>2, <3>3
  <2>6. w \in Seq(Outcome) /\ Len(w) = n + k - 2 /\ \A i \in 1 .. n + k - 2 : w[i] = t[i]
    BY <1>1, <2>1
  <2> HIDE DEF u, w
  <2>7. /\ p \o u \in Seq(Outcome) /\ Len(p \o u) = n + (k - 2)
        /\ (\A i \in 1 .. n : (p \o u)[i] = p[i]) /\ (\A i \in 1 .. k - 2 : (p \o u)[n + i] = u[i])
    <3>1. /\ p \o u \in Seq(Outcome) /\ Len(p \o u) = Len(p) + Len(u)
          /\ (\A i \in 1 .. Len(p) : (p \o u)[i] = p[i])
          /\ (\A i \in 1 .. Len(u) : (p \o u)[Len(p) + i] = u[i])
      <4>1. Moved(p, u, Outcome)
        BY <2>5, PutBefore
      <4> QED
        BY <4>1, Zenon DEF Moved
    <3> QED
      BY <1>1, <2>5, <3>1, Zenon
  <2>8. ASSUME NEW i \in 1 .. n + k - 2
        PROVE  w[i] = (p \o u)[i]
    <3>1. CASE i \in 1 .. n
      BY <1>1, <2>6, <2>7, <3>1
    <3>2. CASE i \notin 1 .. n
      <4> DEFINE j == i - n
      <4>1. j \in 1 .. k - 2 /\ j \in 1 .. k /\ n + j = i
        BY <1>1, <3>2
      <4> HIDE DEF j
      <4>2. (p \o u)[i] = u[j] /\ u[j] = s[j]
        BY <2>5, <2>7, <4>1
      <4>3. w[i] = t[n + j] /\ t[n + j] = s[j]
        BY <1>1, <2>6, <4>1
      <4> QED
        BY <4>2, <4>3
    <3> QED
      BY <3>1, <3>2
  <2>9. w = p \o u
    <3>1. Len(w) = Len(p \o u)
      BY <1>1, <2>1, <2>6, <2>7
    <3> QED
      BY <2>6, <2>7, <2>8, <3>1, SameElements
  <2>10. Append(p \o u, v) = p \o Append(u, v)
    <3>1. Moved(p, u, Outcome)
      BY <2>5, PutBefore
    <3> QED
      BY <2>3, <3>1, Zenon DEF Moved
  <2>11. Append(u, v) \in Seq(Outcome) /\ Len(Append(u, v)) = (k - 2) + 1
    BY <2>3, <2>5
  <2> QED
    BY <1>1, <1>4, <2>4, <2>9, <2>10, <2>11 DEF Change, t, k
<1> QED
  BY <1>2, <1>3, <1>4, NodeKinds

\* How many trees there are changes with each node as the outcomes do.
LEMMA TreesStep ==
    ASSUME NEW cond \in Seq(Node)
    PROVE  /\ Trees(cond, 0) = 0
           /\ \A k \in 1 .. Len(cond) : /\ Trees(cond, k - 1) \in Int
                                        /\ Trees(cond, k) = Trees(cond, k - 1) + Change(cond[k])
<1> DEFINE C(k) == {i \in 1 .. k : cond[i].node = "compare"}
           J(k) == {i \in 1 .. k : cond[i].node \in {"and", "or"}}
<1>1. \A k : Trees(cond, k) = Cardinality(C(k)) - Cardinality(J(k))
  BY DEF Trees
<1>2. Trees(cond, 0) = 0
  <2>1. C(0) = {} /\ J(0) = {}
    OBVIOUS
  <2>2. Cardinality(C(0)) = 0 /\ Cardinality(J(0)) = 0
    BY <2>1, FS_EmptySet
  <2> QED
    BY <1>1, <2>2
<1>3. ASSUME NEW k \in Nat
      PROVE  /\ IsFiniteSet(C(k)) /\ Cardinality(C(k)) \in Nat
             /\ IsFiniteSet(J(k)) /\ Cardinality(J(k)) \in Nat
  <2>1. IsFiniteSet(1 .. k)
    BY FS_Interval, 1 \in Int, k \in Int
  <2>2. C(k) \in SUBSET (1 .. k) /\ J(k) \in SUBSET (1 .. k)
    OBVIOUS
  <2> HIDE DEF C, J
  <2> QED
    BY <2>1, <2>2, FS_Subset, FS_CardinalityType
<1>4. ASSUME NEW k \in 1 .. Len(cond)
      PROVE  /\ Trees(cond, k - 1) \in Int
             /\ Trees(cond, k) = Trees(cond, k - 1) + Change(cond[k])
  <2>1. k \in Nat /\ k - 1 \in Nat /\ 1 .. k = (1 .. k - 1) \cup {k} /\ k \notin 1 .. k - 1
    OBVIOUS
  <2>2. cond[k].node \in {"compare", "not", "and", "or"}
    <3>1. cond[k] \in Node
      <4> HIDE DEF Node
      <4> QED
        OBVIOUS
    <3> QED
      BY <3>1, NodeKinds
  <2>3. C(k) = IF cond[k].node = "compare" THEN C(k - 1) \cup {k} ELSE C(k - 1)
    BY <2>1
  <2>4. J(k) = IF cond[k].node \in {"and", "or"} THEN J(k - 1) \cup {k} ELSE J(k - 1)
    BY <2>1
  <2>5. k \notin C(k - 1) /\ k \notin J(k - 1)
    BY <2>1
  <2> HIDE DEF C, J
  <2>6. Cardinality(C(k)) = IF cond[k].node = "compare" THEN Cardinality(C(k - 1)) + 1 ELSE Cardinality(C(k - 1))
    BY <1>3, <2>1, <2>3, <2>5, FS_AddElement
  <2>7. Cardinality(J(k)) = IF cond[k].node \in {"and", "or"} THEN Cardinality(J(k - 1)) + 1 ELSE Cardinality(J(k - 1))
    BY <1>3, <2>1, <2>4, <2>5, FS_AddElement
  <2>8. /\ Cardinality(C(k - 1)) \in Nat /\ Cardinality(J(k - 1)) \in Nat
    BY <1>3, <2>1
  <2> QED
    BY <1>1, <2>2, <2>6, <2>7, <2>8 DEF Change
<1> QED
  BY <1>2, <1>4

\* A tree puts its own outcome behind those that were there.
LEMMA TreeRuns ==
    ASSUME NEW cond \in Seq(Node), IsTree(cond), NEW p \in Seq(Outcome), NEW row, NEW schema
    PROVE  /\ evaluate(cond, row, schema) \in Outcome
           /\ Runs(p, cond, p \o <<evaluate(cond, row, schema)>>, row, schema)
<1> DEFINE n == Len(cond)
           e == evaluate(cond, row, schema)
<1>1. n \in Nat /\ DOMAIN cond = 1 .. n /\ \A i \in 1 .. n : cond[i] \in Node
  <2> HIDE DEF Node
  <2> QED
    OBVIOUS
<1>2. /\ Trees(cond, 0) = 0
      /\ \A k \in 1 .. n : /\ Trees(cond, k - 1) \in Int
                           /\ Trees(cond, k) = Trees(cond, k - 1) + Change(cond[k])
  BY TreesStep
<1>3. Trees(cond, n) = 1 /\ cond # <<>>
  <2>1. Trees(cond, n) = 1
    BY DEF IsTree
  <2> QED
    BY <1>2, <2>1
<1>4. PICK q : Runs(<<>>, cond, q, row, schema) /\ e = Last(q)
  BY <1>3, EvaluateRuns DEF Node
<1>5. PICK h : NodeByNode(h, <<>>, cond, row, schema) /\ h[n] = q
  BY <1>4, Zenon DEF Runs
<1>6. h[0] = <<>> /\ \A i \in 1 .. n : h[i] = Reduce(h[i - 1], cond[i], row, schema)
  BY <1>5, Zenon DEF NodeByNode
<1>7. ASSUME NEW k \in 1 .. n, h[k - 1] \in Seq(Outcome), Len(h[k - 1]) = Trees(cond, k - 1)
      PROVE  /\ h[k] \in Seq(Outcome) /\ Len(h[k]) = Trees(cond, k)
             /\ Reduce(p \o h[k - 1], cond[k], row, schema) = p \o h[k]
  <2>1. /\ cond[k].node = "not" => Len(h[k - 1]) >= 1
        /\ cond[k].node \in {"and", "or"} => Len(h[k - 1]) >= 2
    BY <1>1, <1>7 DEF IsTree
  <2>2. cond[k] \in Node
    BY <1>1
  <2> DEFINE s == h[k - 1]
             node == cond[k]
  <2>3. /\ Reduce(p \o s, node, row, schema) = p \o Reduce(s, node, row, schema)
        /\ Reduce(s, node, row, schema) \in Seq(Outcome)
        /\ Len(Reduce(s, node, row, schema)) = Len(s) + Change(node)
    <3>1. /\ s \in Seq(Outcome) /\ node \in Node
          /\ node.node = "not" => Len(s) >= 1
          /\ node.node \in {"and", "or"} => Len(s) >= 2
      BY <1>7, <2>1, <2>2
    <3> HIDE DEF s, node
    <3> QED
      BY <3>1, ReduceFrames
  <2>4. h[k] = Reduce(s, node, row, schema)
    BY <1>6
  <2> QED
    BY <1>2, <1>7, <2>3, <2>4
<1> DEFINE P == {k \in Nat : k <= n => h[k] \in Seq(Outcome) /\ Len(h[k]) = Trees(cond, k)}
<1>8. \A k \in Nat : k \in P
  <2>1. 0 \in P
    <3>1. h[0] \in Seq(Outcome) /\ Len(h[0]) = 0
      BY <1>6
    <3> QED
      BY <1>2, <3>1
  <2>2. ASSUME NEW k \in Nat, k \in P
        PROVE  k + 1 \in P
    <3> SUFFICES ASSUME k + 1 <= n
                 PROVE  h[k + 1] \in Seq(Outcome) /\ Len(h[k + 1]) = Trees(cond, k + 1)
      OBVIOUS
    <3>1. k + 1 \in 1 .. n /\ (k + 1) - 1 = k /\ h[k] \in Seq(Outcome) /\ Len(h[k]) = Trees(cond, k)
      BY <1>1, <2>2
    <3> HIDE DEF n
    <3> QED
      BY <1>7, <3>1
  <2> HIDE DEF P
  <2> QED
    BY <2>1, <2>2, Counting
<1>9. \A k \in 0 .. n : h[k] \in Seq(Outcome) /\ Len(h[k]) = Trees(cond, k)
  BY <1>8
<1>10. q \in Seq(Outcome) /\ Len(q) = 1
  <2>1. n \in 0 .. n
    BY <1>1
  <2> HIDE DEF n
  <2> QED
    BY <1>3, <1>5, <1>9, <2>1
<1>11. q = <<e>> /\ e \in Outcome
  <2>1. q[1] \in Outcome /\ q = <<q[1]>> /\ e = q[1]
    <3>1. q[1] \in Outcome /\ DOMAIN q = 1 .. 1
      BY <1>10
    <3>2. q = <<q[1]>>
      BY <1>10
    <3>3. e = q[1]
      BY <1>4, <1>10, Zenon DEF Last
    <3> QED
      BY <3>1, <3>2, <3>3
  <2> HIDE DEF e
  <2> QED
    BY <2>1
<1> HIDE DEF e
<1> DEFINE H == [i \in 0 .. n |-> p \o h[i]]
<1>12. H[0] = p
  <2>1. p \o <<>> = p
    OBVIOUS
  <2> QED
    BY <1>1, <1>6, <2>1
<1>13. ASSUME NEW i \in 1 .. n
       PROVE  H[i] = Reduce(H[i - 1], cond[i], row, schema)
  <2>1. i \in 0 .. n /\ i - 1 \in 0 .. n
    BY <1>1
  <2>2. H[i] = p \o h[i] /\ H[i - 1] = p \o h[i - 1]
    BY <2>1
  <2> HIDE DEF H
  <2> QED
    BY <1>7, <1>9, <2>1, <2>2
<1>14. H[n] = p \o <<e>>
  <2>1. n \in 0 .. n
    BY <1>1
  <2>2. H[n] = p \o h[n]
    BY <2>1
  <2> QED
    BY <1>5, <1>11, <2>2
<1> HIDE DEF H
<1>15. NodeByNode(H, p, cond, row, schema)
  BY <1>12, <1>13, Zenon DEF NodeByNode, n
<1>16. Runs(p, cond, p \o <<e>>, row, schema)
  BY <1>14, <1>15, Zenon DEF Runs, n
<1> QED
  BY <1>11, <1>16 DEF e

\* A run that leaves one outcome is the evaluation.
LEMMA RunsEvaluate ==
    ASSUME NEW cond \in Seq(Node), cond # <<>>, NEW x, NEW row, NEW schema,
           Runs(<<>>, cond, <<x>>, row, schema)
    PROVE  evaluate(cond, row, schema) = x
<1>1. PICK q : Runs(<<>>, cond, q, row, schema) /\ evaluate(cond, row, schema) = Last(q)
  BY EvaluateRuns DEF Node
<1>2. q = <<x>>
  BY <1>1, RunsOnce DEF Node
<1> QED
  BY <1>1, <1>2 DEF Last

\* What a connective makes of the outcomes of two trees.
TwoReduce(x, y, row, schema) ==
    /\ Reduce(<<x, y>>, And, row, schema) = <<AndOf(x, y)>>
    /\ Reduce(<<x, y>>, Or, row, schema) = <<OrOf(x, y)>>
    /\ Reduce(<<x, y>>, Not, row, schema) = <<x, NotOf(y)>>
    /\ Reduce(<<x>>, Not, row, schema) = <<NotOf(x)>>

\* A connective takes the last outcomes and leaves its own.
LEMMA ReduceTwo ==
    ASSUME NEW x, NEW y, NEW row, NEW schema
    PROVE  TwoReduce(x, y, row, schema)
<1>1. And.node = "and" /\ Or.node = "or" /\ Not.node = "not"
  BY DEF And, Or, Not
<1>2. /\ Len(<<x, y>>) = 2 /\ SubSeq(<<x, y>>, 1, 2 - 2) = <<>>
      /\ <<x, y>>[2 - 1] = x /\ <<x, y>>[2] = y
      /\ \A v : Append(<<>>, v) = <<v>>
  OBVIOUS
<1>3. Reduce(<<x, y>>, And, row, schema) = <<AndOf(x, y)>>
  <2>1. Reduce(<<x, y>>, And, row, schema) = Append(SubSeq(<<x, y>>, 1, 2 - 2), AndOf(<<x, y>>[2 - 1], <<x, y>>[2]))
    BY <1>1, <1>2 DEF Reduce
  <2> QED
    BY <1>2, <2>1
<1>4. Reduce(<<x, y>>, Or, row, schema) = <<OrOf(x, y)>>
  <2>1. Reduce(<<x, y>>, Or, row, schema) = Append(SubSeq(<<x, y>>, 1, 2 - 2), OrOf(<<x, y>>[2 - 1], <<x, y>>[2]))
    BY <1>1, <1>2 DEF Reduce
  <2> QED
    BY <1>2, <2>1
<1>5. Reduce(<<x, y>>, Not, row, schema) = <<x, NotOf(y)>>
  <2>1. Reduce(<<x, y>>, Not, row, schema) = [<<x, y>> EXCEPT ![2] = NotOf(<<x, y>>[2])]
    BY <1>1, <1>2 DEF Reduce
  <2> DEFINE v == NotOf(y)
  <2>2. [<<x, y>> EXCEPT ![2] = v] = <<x, v>>
    OBVIOUS
  <2> QED
    BY <1>2, <2>1, <2>2
<1>6. Reduce(<<x>>, Not, row, schema) = <<NotOf(x)>>
  <2>1. Len(<<x>>) = 1 /\ <<x>>[1] = x
    OBVIOUS
  <2>2. Reduce(<<x>>, Not, row, schema) = [<<x>> EXCEPT ![1] = NotOf(<<x>>[1])]
    BY <1>1, <2>1 DEF Reduce
  <2> DEFINE v == NotOf(x)
  <2>3. [<<x>> EXCEPT ![1] = v] = <<v>>
    OBVIOUS
  <2> QED
    BY <2>1, <2>2, <2>3
<1> QED
  BY <1>3, <1>4, <1>5, <1>6 DEF TwoReduce

\* The truth tables with a third outcome, that of throwing: AND and OR are dual,
\* and the right side counts only when the left leaves the answer open.
LEMMA OutcomesCombine ==
    ASSUME NEW x \in Outcome, NEW y \in Outcome
    PROVE  /\ NotOf(x) \in Outcome /\ AndOf(x, y) \in Outcome /\ OrOf(x, y) \in Outcome
           /\ OrOf(x, y) = NotOf(AndOf(NotOf(x), NotOf(y)))
           /\ AndOf(x, y) = "true" <=> x = "true" /\ y = "true"
           /\ AndOf(x, y) = "throws" <=> x = "throws" \/ (x = "true" /\ y = "throws")
BY DEF Outcome, NotOf, AndOf, OrOf

\* a OR b as NOT (NOT a AND NOT b).
DualOf(a, b) == a \o <<Not>> \o b \o <<Not, And, Not>>

\* AND and OR of two trees, and the dual, by the outcomes of the two.
Combine(a, b, row, schema) ==
    LET x == evaluate(a, row, schema)
        y == evaluate(b, row, schema)
    IN  /\ x \in Outcome /\ y \in Outcome
        /\ evaluate((a \o b) \o <<And>>, row, schema) = AndOf(x, y)
        /\ evaluate((a \o b) \o <<Or>>, row, schema) = OrOf(x, y)
        /\ evaluate(DualOf(a, b), row, schema) = NotOf(AndOf(NotOf(x), NotOf(y)))

\* So it is for any two trees.
LEMMA TwoTrees ==
    ASSUME NEW a \in Seq(Node), NEW b \in Seq(Node), IsTree(a), IsTree(b), NEW row, NEW schema
    PROVE  Combine(a, b, row, schema)
<1> DEFINE x == evaluate(a, row, schema)
           y == evaluate(b, row, schema)
           run(p, c, q) == Runs(p, c, q, row, schema)
<1>1. \A p \in Seq(Outcome) : /\ x \in Outcome /\ run(p, a, p \o <<x>>)
                              /\ y \in Outcome /\ run(p, b, p \o <<y>>)
  BY TreeRuns
<1>2. x \in Outcome /\ y \in Outcome
  <2>1. <<>> \in Seq(Outcome)
    OBVIOUS
  <2> QED
    BY <1>1, <2>1
<1>3. /\ And \in Node /\ Or \in Node /\ Not \in Node
      /\ <<And>> \in Seq(Node) /\ <<Or>> \in Seq(Node) /\ <<Not>> \in Seq(Node)
      /\ <<Not, And, Not>> \in Seq(Node)
      /\ <<Not, And, Not>> = (<<Not>> \o <<And>>) \o <<Not>>
  <2>1. And \in Node /\ Or \in Node /\ Not \in Node
    BY DEF And, Or, Not, Node, Connective
  <2> QED
    BY <2>1
<1> DEFINE nx == NotOf(x)
           ny == NotOf(y)
<1>4. nx \in Outcome /\ ny \in Outcome /\ AndOf(nx, ny) \in Outcome
  BY <1>2, OutcomesCombine
<1>5. /\ Reduce(<<x, y>>, And, row, schema) = <<AndOf(x, y)>>
      /\ Reduce(<<x, y>>, Or, row, schema) = <<OrOf(x, y)>>
      /\ Reduce(<<x>>, Not, row, schema) = <<nx>>
      /\ Reduce(<<nx, y>>, Not, row, schema) = <<nx, ny>>
      /\ Reduce(<<nx, ny>>, And, row, schema) = <<AndOf(nx, ny)>>
      /\ Reduce(<<AndOf(nx, ny)>>, Not, row, schema) = <<NotOf(AndOf(nx, ny))>>
  <2> DEFINE z == AndOf(nx, ny)
  <2>1. TwoReduce(x, y, row, schema) /\ TwoReduce(nx, y, row, schema)
        /\ TwoReduce(nx, ny, row, schema) /\ TwoReduce(z, z, row, schema)
    BY ReduceTwo
  <2> HIDE DEF z
  <2>2. Reduce(<<z>>, Not, row, schema) = <<NotOf(z)>>
    BY <2>1, Zenon DEF TwoReduce
  <2> HIDE DEF nx, ny
  <2>3. /\ Reduce(<<nx, y>>, Not, row, schema) = <<nx, NotOf(y)>>
        /\ Reduce(<<nx, ny>>, And, row, schema) = <<AndOf(nx, ny)>>
    BY <2>1, Zenon DEF TwoReduce
  <2> HIDE DEF x, y
  <2>4. /\ Reduce(<<x, y>>, And, row, schema) = <<AndOf(x, y)>>
        /\ Reduce(<<x, y>>, Or, row, schema) = <<OrOf(x, y)>>
        /\ Reduce(<<x>>, Not, row, schema) = <<NotOf(x)>>
    BY <2>1, Zenon DEF TwoReduce
  <2> QED
    BY <2>2, <2>3, <2>4, Zenon DEF nx, ny, z
<1> HIDE DEF x, y, nx, ny
<1>6. run(<<>>, a, <<x>>) /\ run(<<x>>, b, <<x, y>>) /\ run(<<nx>>, b, <<nx, y>>)
  <2>1. /\ <<>> \in Seq(Outcome) /\ <<x>> \in Seq(Outcome) /\ <<nx>> \in Seq(Outcome)
        /\ <<>> \o <<x>> = <<x>> /\ <<x>> \o <<y>> = <<x, y>> /\ <<nx>> \o <<y>> = <<nx, y>>
    <3>1. \A v : <<>> \o <<v>> = <<v>>
      OBVIOUS
    <3>2. \A v, w : <<v>> \o <<w>> = <<v, w>>
      <4> TAKE v, w
      <4> DEFINE T == {v, w}
                 c == <<v>> \o <<w>>
      <4>1. <<v>> \in Seq(T) /\ <<w>> \in Seq(T) /\ <<v, w>> \in Seq(T)
        OBVIOUS
      <4>2. Moved(<<v>>, <<w>>, T)
        <5> HIDE DEF T
        <5> QED
          BY <4>1, PutBefore
      <4>3. c \in Seq(T) /\ Len(c) = 2 /\ c[1] = v /\ c[2] = w
        BY <4>2 DEF Moved
      <4> HIDE DEF c, T
      <4>4. \A k \in 1 .. Len(c) : c[k] = <<v, w>>[k]
        BY <4>3
      <4>5. c = <<v, w>>
        BY <4>1, <4>3, <4>4, SameElements
      <4> QED
        BY <4>5 DEF c
    <3>3. <<>> \in Seq(Outcome) /\ <<x>> \in Seq(Outcome) /\ <<nx>> \in Seq(Outcome)
      BY <1>2, <1>4
    <3> QED
      BY <3>1, <3>2, <3>3, Zenon
  <2>2. run(<<>>, a, <<>> \o <<x>>) /\ run(<<x>>, b, <<x>> \o <<y>>) /\ run(<<nx>>, b, <<nx>> \o <<y>>)
    <3> HIDE DEF run
    <3> QED
      BY <1>1, <2>1
  <2> HIDE DEF run
  <2> QED
    BY <2>1, <2>2
<1>7. a \o b \in Seq(Node) /\ run(<<>>, a \o b, <<x, y>>)
  <2>1. a \o b \in Seq(Node)
    OBVIOUS
  <2>2. run(<<>>, a \o b, <<x, y>>)
    BY <1>6, RunsOn
  <2> QED
    BY <2>1, <2>2
<1>8. /\ run(<<x, y>>, <<And>>, <<AndOf(x, y)>>) /\ run(<<x, y>>, <<Or>>, <<OrOf(x, y)>>)
      /\ run(<<x>>, <<Not>>, <<nx>>) /\ run(<<nx, y>>, <<Not>>, <<nx, ny>>)
      /\ run(<<nx, ny>>, <<And>>, <<AndOf(nx, ny)>>)
      /\ run(<<AndOf(nx, ny)>>, <<Not>>, <<NotOf(AndOf(nx, ny))>>)
  BY <1>5, RunsNode
<1>9. evaluate((a \o b) \o <<And>>, row, schema) = AndOf(x, y)
  <2>1. (a \o b) \o <<And>> \in Seq(Node) /\ (a \o b) \o <<And>> # <<>>
    BY <1>3, <1>7
  <2>2. run(<<>>, (a \o b) \o <<And>>, <<AndOf(x, y)>>)
    BY <1>3, <1>7, <1>8, RunsOn
  <2> QED
    BY <2>1, <2>2, RunsEvaluate
<1>10. evaluate((a \o b) \o <<Or>>, row, schema) = OrOf(x, y)
  <2>1. (a \o b) \o <<Or>> \in Seq(Node) /\ (a \o b) \o <<Or>> # <<>>
    BY <1>3, <1>7
  <2>2. run(<<>>, (a \o b) \o <<Or>>, <<OrOf(x, y)>>)
    BY <1>3, <1>7, <1>8, RunsOn
  <2> QED
    BY <2>1, <2>2, RunsEvaluate
<1>11. evaluate(DualOf(a, b), row, schema) = NotOf(AndOf(nx, ny))
  <2> DEFINE c == a \o <<Not>>
             d == c \o b
             e == <<Not, And, Not>>
  <2>1. c \in Seq(Node) /\ run(<<>>, c, <<nx>>)
    <3>1. c \in Seq(Node)
      BY <1>3
    <3>2. run(<<>>, c, <<nx>>)
      BY <1>3, <1>6, <1>8, RunsOn
    <3> QED
      BY <3>1, <3>2
  <2>2. d \in Seq(Node) /\ run(<<>>, d, <<nx, y>>)
    <3> HIDE DEF c
    <3>1. d \in Seq(Node)
      BY <2>1
    <3>2. run(<<>>, d, <<nx, y>>)
      BY <1>6, <2>1, RunsOn
    <3> QED
      BY <3>1, <3>2
  <2>3. run(<<nx, y>>, e, <<NotOf(AndOf(nx, ny))>>)
    <3>1. <<Not>> \o <<And>> \in Seq(Node) /\ run(<<nx, y>>, <<Not>> \o <<And>>, <<AndOf(nx, ny)>>)
      <4>1. <<Not>> \o <<And>> \in Seq(Node)
        BY <1>3
      <4>2. run(<<nx, y>>, <<Not>> \o <<And>>, <<AndOf(nx, ny)>>)
        BY <1>3, <1>8, RunsOn
      <4> QED
        BY <4>1, <4>2
    <3>2. run(<<nx, y>>, (<<Not>> \o <<And>>) \o <<Not>>, <<NotOf(AndOf(nx, ny))>>)
      BY <1>3, <1>8, <3>1, RunsOn
    <3> QED
      BY <1>3, <3>2
  <2> HIDE DEF d, e
  <2>4. d \o e \in Seq(Node) /\ d \o e # <<>>
    <3>1. e \in Seq(Node) /\ Len(e) = 3
      BY <1>3 DEF e
    <3>2. Moved(d, e, Node)
      BY <2>2, <3>1, PutBefore
    <3>3. d \o e \in Seq(Node) /\ Len(d \o e) = Len(d) + Len(e)
      BY <3>2, Zenon DEF Moved
    <3> DEFINE f == d \o e
    <3>4. Len(d) \in Nat
      BY <2>2
    <3> HIDE DEF f
    <3>5. Len(f) # 0
      BY <3>1, <3>3, <3>4 DEF f
    <3>6. f # <<>>
      BY <3>5
    <3> QED
      BY <3>3, <3>6 DEF f
  <2>5. run(<<>>, d \o e, <<NotOf(AndOf(nx, ny))>>)
    <3>1. e \in Seq(Node)
      BY <1>3 DEF e
    <3> QED
      BY <2>2, <2>3, <3>1, RunsOn
  <2>6. evaluate(d \o e, row, schema) = NotOf(AndOf(nx, ny))
    BY <2>4, <2>5, RunsEvaluate
  <2>7. DualOf(a, b) = d \o e
    BY DEF DualOf, d, e
  <2> QED
    BY <2>6, <2>7
<1> QED
  BY <1>2, <1>9, <1>10, <1>11, Zenon DEF Combine, x, y, nx, ny

\* Two trees and the node on top of them.
LEMMA Halves ==
    ASSUME NEW cond \in Seq(Node), NEW m \in DOMAIN cond,
           IsTree(SubSeq(cond, 1, m)), IsTree(SubSeq(cond, m + 1, Len(cond) - 1))
    PROVE  LET a == SubSeq(cond, 1, m)
               b == SubSeq(cond, m + 1, Len(cond) - 1)
           IN  a \in Seq(Node) /\ b \in Seq(Node) /\ cond = (a \o b) \o <<Last(cond)>>
<1> DEFINE n == Len(cond)
           a == SubSeq(cond, 1, m)
           b == SubSeq(cond, m + 1, n - 1)
           top == Last(cond)
<1>1. n \in Nat /\ m \in 1 .. n /\ DOMAIN cond = 1 .. n
  BY DEF n
<1>2. a \in Seq(Node) /\ Len(a) = m /\ \A i \in 1 .. m : a[i] = cond[i]
  BY <1>1
<1>3. m + 1 <= n - 1
  <2> SUFFICES ASSUME ~ (m + 1 <= n - 1)
               PROVE  FALSE
    OBVIOUS
  <2>1. b = <<>>
    BY <1>1
  <2>2. Trees(<<>>, 0) = 1
    BY <2>1 DEF IsTree
  <2>3. Trees(<<>>, 0) = 0
    <3>1. <<>> \in Seq(Node)
      OBVIOUS
    <3> QED
      BY <3>1, TreesStep
  <2> QED
    BY <2>2, <2>3
<1>4. b \in Seq(Node) /\ Len(b) = (n - 1) - m /\ \A i \in 1 .. (n - 1) - m : b[i] = cond[m + i]
  <2>1. m \in Nat /\ n - 1 \in Nat /\ n - 1 <= Len(cond)
    BY <1>1, <1>3
  <2> QED
    BY <1>3, <2>1, SubSeqIs
<1>5. top = cond[n] /\ top \in Node /\ <<top>> \in Seq(Node) /\ Len(<<top>>) = 1 /\ <<top>>[1] = top
  <2>1. cond[n] \in Node
    BY <1>1, <1>3
  <2> QED
    BY <2>1 DEF Last
<1> HIDE DEF a, b, top, n
<1>6. Moved(a, b, Node)
  BY <1>2, <1>4, PutBefore
<1> DEFINE c == a \o b
<1>7. /\ c \in Seq(Node) /\ Len(c) = n - 1
      /\ (\A i \in 1 .. m : c[i] = a[i]) /\ \A i \in 1 .. (n - 1) - m : c[m + i] = b[i]
  <2>1. /\ c \in Seq(Node) /\ Len(c) = Len(a) + Len(b)
        /\ (\A i \in 1 .. Len(a) : c[i] = a[i]) /\ \A i \in 1 .. Len(b) : c[Len(a) + i] = b[i]
    BY <1>6, Zenon DEF Moved
  <2>2. Len(a) = m /\ Len(b) = (n - 1) - m /\ Len(a) + Len(b) = n - 1
    BY <1>1, <1>2, <1>4
  <2> HIDE DEF c
  <2> QED
    BY <2>1, <2>2
<1> HIDE DEF c
<1>8. Moved(c, <<top>>, Node)
  BY <1>5, <1>7, PutBefore
<1> DEFINE d == c \o <<top>>
<1>9. /\ d \in Seq(Node) /\ Len(d) = n
      /\ (\A i \in 1 .. n - 1 : d[i] = c[i]) /\ d[n] = top
  <2>1. d \in Seq(Node) /\ Len(d) = (n - 1) + 1 /\ (\A i \in 1 .. n - 1 : d[i] = c[i])
    BY <1>1, <1>5, <1>7, <1>8 DEF Moved
  <2>2. d[(n - 1) + 1] = top
    <3>1. \A i \in 1 .. Len(<<top>>) : d[Len(c) + i] = <<top>>[i]
      BY <1>8, Zenon DEF Moved
    <3> HIDE DEF d
    <3> QED
      BY <1>5, <1>7, <3>1
  <2> HIDE DEF d
  <2> QED
    BY <1>1, <2>1, <2>2
<1> HIDE DEF d
<1>10. ASSUME NEW i \in 1 .. n
       PROVE  d[i] = cond[i]
  <2>1. CASE i \in 1 .. m
    BY <1>1, <1>2, <1>3, <1>7, <1>9, <2>1
  <2>2. CASE i \in m + 1 .. n - 1
    <3> DEFINE j == i - m
    <3>1. j \in 1 .. (n - 1) - m /\ m + j = i /\ i \in 1 .. n - 1
      BY <1>1, <2>2
    <3> HIDE DEF j
    <3> QED
      BY <1>4, <1>7, <1>9, <3>1
  <2>3. CASE i = n
    BY <1>5, <1>9, <2>3
  <2> QED
    BY <1>1, <2>1, <2>2, <2>3
<1>11. d = cond
  BY <1>1, <1>9, <1>10, SameElements DEF n
<1> QED
  BY <1>2, <1>4, <1>11 DEF a, b, c, d, top, n

\* Finding among what was found.
LEMMA FoundTwice ==
    ASSUME NEW rows \in Seq(Seq(Field)), NEW a, NEW b, NEW c, NEW schema,
           \A i \in DOMAIN rows : /\ evaluate(a, rows[i], schema) \in Outcome
                                  /\ evaluate(b, rows[i], schema) \in Outcome
                                  /\ evaluate(c, rows[i], schema) =
                                       AndOf(evaluate(a, rows[i], schema), evaluate(b, rows[i], schema))
    PROVE  /\ Matching(rows, c, schema) = Matching(Matching(rows, a, schema), b, schema)
           /\ Throwing(rows, c, schema) <=> \/ Throwing(rows, a, schema)
                                            \/ Throwing(Matching(rows, a, schema), b, schema)
<1> DEFINE va(i)  == evaluate(a, rows[i], schema)
           vb(i)  == evaluate(b, rows[i], schema)
           vc(i)  == evaluate(c, rows[i], schema)
           S      == {i \in DOMAIN rows : va(i) = "true"}
           V      == {i \in DOMAIN rows : vc(i) = "true"}
           found  == Keep(rows, S)
           U      == {k \in DOMAIN found : evaluate(b, found[k], schema) = "true"}
           n      == Len(rows)
<1>1. n \in Nat /\ DOMAIN rows = 1 .. n /\ S \subseteq 1 .. n /\ V \subseteq 1 .. n
  OBVIOUS
<1>2. ASSUME NEW i \in DOMAIN rows
      PROVE  /\ vc(i) = "true" <=> va(i) = "true" /\ vb(i) = "true"
             /\ vc(i) = "throws" <=> va(i) = "throws" \/ (va(i) = "true" /\ vb(i) = "throws")
  <2> DEFINE x == va(i)
             y == vb(i)
  <2>1. x \in Outcome /\ y \in Outcome /\ vc(i) = AndOf(x, y)
    OBVIOUS
  <2>2. /\ AndOf(x, y) = "true" <=> x = "true" /\ y = "true"
        /\ AndOf(x, y) = "throws" <=> x = "throws" \/ (x = "true" /\ y = "throws")
    <3> HIDE DEF x, y
    <3> QED
      BY <2>1, OutcomesCombine
  <2> QED
    BY <2>1, <2>2
<1>3. /\ found \in Seq(Seq(Field)) /\ Len(found) = Cardinality(S) /\ DOMAIN found = 1 .. Cardinality(S)
      /\ \A k \in DOMAIN found : Nth(S, k) \in S /\ found[k] = rows[Nth(S, k)]
  <2>1. S \subseteq DOMAIN rows
    OBVIOUS
  <2>2. /\ found \in Seq(Seq(Field)) /\ Len(found) = Cardinality(S)
        /\ \A k \in DOMAIN found : Nth(S, k) \in S /\ found[k] = rows[Nth(S, k)]
    <3> HIDE DEF S
    <3> QED
      BY <2>1, KeepType
  <2>3. DOMAIN found = 1 .. Cardinality(S)
    BY DEF Keep
  <2> QED
    BY <2>2, <2>3
<1>4. Matching(rows, a, schema) = found /\ Matching(rows, c, schema) = Keep(rows, V)
  BY DEF Matching
<1>5. Matching(found, b, schema) = Keep(found, U)
  BY DEF Matching
<1>6. Among(U, S, V)
  <2>1. V \subseteq S
    BY <1>2
  <2>2. U \subseteq 1 .. Cardinality(S)
    BY <1>3
  <2>3. ASSUME NEW k \in 1 .. Cardinality(S)
        PROVE  k \in U <=> Nth(S, k) \in V
    <3>1. k \in DOMAIN found /\ Nth(S, k) \in S /\ found[k] = rows[Nth(S, k)]
      BY <1>3
    <3>2. Nth(S, k) \in DOMAIN rows /\ va(Nth(S, k)) = "true"
      BY <3>1
    <3> DEFINE i == Nth(S, k)
    <3>3. k \in U <=> vb(i) = "true"
      BY <3>1
    <3> HIDE DEF U
    <3> QED
      BY <1>2, <3>2, <3>3
  <2> QED
    BY <2>1, <2>2, <2>3 DEF Among
<1> HIDE DEF S, U, V, n
<1>7. /\ Cardinality(U) = Cardinality(V)
      /\ \A m \in 1 .. Cardinality(U) : Nth(V, m) = Nth(S, Nth(U, m))
  <2>1. n \in Nat /\ S \subseteq 1 .. n /\ Among(U, S, V)
    BY <1>1, <1>6
  <2>2. Nested(U, S, V)
    BY <2>1, NthNth
  <2> QED
    BY <2>2 DEF Nested
<1>8. ASSUME NEW m \in 1 .. Cardinality(U)
      PROVE  found[Nth(U, m)] = rows[Nth(V, m)]
  <2>1. Nth(U, m) \in U
    <3>1. U \subseteq 1 .. Cardinality(S) /\ Cardinality(S) \in Nat
      BY <1>1, <1>6, RankInjective, FS_CardinalityType DEF Among
    <3> QED
      BY <3>1, NthIsPosition
  <2>2. Nth(U, m) \in DOMAIN found
    BY <1>3, <1>6, <2>1 DEF Among
  <2> HIDE DEF found
  <2> QED
    BY <1>3, <1>7, <2>2
<1>9. Keep(found, U) = Keep(rows, V)
  <2>1. Keep(found, U) = [m \in 1 .. Cardinality(U) |-> found[Nth(U, m)]]
    BY DEF Keep
  <2>2. Keep(rows, V) = [m \in 1 .. Cardinality(V) |-> rows[Nth(V, m)]]
    BY DEF Keep
  <2> HIDE DEF found
  <2> QED
    BY <1>7, <1>8, <2>1, <2>2
<1>10. Throwing(rows, c, schema) <=> Throwing(rows, a, schema) \/ Throwing(found, b, schema)
  <2>1. Throwing(rows, c, schema) <=> \E i \in DOMAIN rows : vc(i) = "throws"
    BY DEF Throwing
  <2>2. Throwing(rows, a, schema) <=> \E i \in DOMAIN rows : va(i) = "throws"
    BY DEF Throwing
  <2>3. Throwing(found, b, schema) <=> \E i \in S : vb(i) = "throws"
    <3>1. ASSUME NEW k \in DOMAIN found, evaluate(b, found[k], schema) = "throws"
          PROVE  \E i \in S : vb(i) = "throws"
      <4>1. Nth(S, k) \in S /\ found[k] = rows[Nth(S, k)]
        BY <1>3
      <4> HIDE DEF found
      <4> QED
        BY <3>1, <4>1
    <3>2. ASSUME NEW i \in S, vb(i) = "throws"
          PROVE  \E k \in DOMAIN found : evaluate(b, found[k], schema) = "throws"
      <4>1. PICK k \in DOMAIN found : Nth(S, k) = i /\ found[k] = rows[i]
        <5>1. S \subseteq DOMAIN rows
          BY <1>1 DEF S
        <5>2. Retained(rows, S, i)
          BY <5>1, KeepFinds
        <5> QED
          BY <5>2, Zenon DEF Retained
      <4> HIDE DEF found
      <4> QED
        BY <3>2, <4>1
    <3> QED
      BY <3>1, <3>2 DEF Throwing
  <2>4. S \subseteq DOMAIN rows /\ \A i \in DOMAIN rows : i \in S <=> va(i) = "true"
    BY DEF S
  <2> HIDE DEF va, vb, vc
  <2> QED
    BY <1>2, <2>1, <2>2, <2>3, <2>4
<1> QED
  BY <1>4, <1>5, <1>9, <1>10, Zenon

(* AND and OR evaluate their right side where the left does not decide.    *)
THEOREM ShortCircuits == Spec => []WhereShortCircuits
<1>1. ASSUME IInv, pc = "filter", NEW m \in DOMAIN stmt.where,
             IsTree(SubSeq(stmt.where, 1, m)),
             IsTree(SubSeq(stmt.where, m + 1, Len(stmt.where) - 1))
      PROVE  LET top   == Last(stmt.where)
                 a     == SubSeq(stmt.where, 1, m)
                 b     == SubSeq(stmt.where, m + 1, Len(stmt.where) - 1)
                 found == Matching(joinedRows, a, joinedSchema)
                 dual  == a \o <<Not>> \o b \o <<Not, And, Not>>
             IN  /\ top = And =>
                      /\ Matching(joinedRows, stmt.where, joinedSchema) = Matching(found, b, joinedSchema)
                      /\ Throws <=> \/ Throwing(joinedRows, a, joinedSchema)
                                    \/ Throwing(found, b, joinedSchema)
                 /\ top = Or =>
                      /\ Matching(joinedRows, stmt.where, joinedSchema) = Matching(joinedRows, dual, joinedSchema)
                      /\ Throws <=> Throwing(joinedRows, dual, joinedSchema)
  <2> DEFINE w     == stmt.where
             a     == SubSeq(w, 1, m)
             b     == SubSeq(w, m + 1, Len(w) - 1)
             top   == Last(w)
             found == Matching(joinedRows, a, joinedSchema)
             dual  == DualOf(a, b)
             va(i) == evaluate(a, joinedRows[i], joinedSchema)
             vb(i) == evaluate(b, joinedRows[i], joinedSchema)
  <2>1. w \in Seq(Node)
    <3>1. stmt \in SelectStatement
      BY <1>1, StatementsAssumption DEF IInv, RequestOk
    <3> QED
      BY <3>1 DEF SelectStatement, Node
  <2>2. joinedRows \in Seq(Seq(Field))
    BY <1>1 DEF IInv, JoinedOk, Alike
  <2>3. a \in Seq(Node) /\ b \in Seq(Node) /\ w = (a \o b) \o <<top>> /\ IsTree(a) /\ IsTree(b)
    <3> HIDE DEF w
    <3> QED
      BY <1>1, <2>1, Halves DEF w
  <2>4. Throws <=> Throwing(joinedRows, w, joinedSchema)
    BY <1>1 DEF Throws
  <2> HIDE DEF a, b, top, w
  <2>5. ASSUME NEW i \in DOMAIN joinedRows
        PROVE  /\ va(i) \in Outcome /\ vb(i) \in Outcome
               /\ top = And => evaluate(w, joinedRows[i], joinedSchema) = AndOf(va(i), vb(i))
               /\ top = Or => evaluate(w, joinedRows[i], joinedSchema) = OrOf(va(i), vb(i))
               /\ evaluate(dual, joinedRows[i], joinedSchema) = NotOf(AndOf(NotOf(va(i)), NotOf(vb(i))))
    <3> DEFINE row == joinedRows[i]
    <3>1. /\ va(i) \in Outcome /\ vb(i) \in Outcome
          /\ evaluate((a \o b) \o <<And>>, row, joinedSchema) = AndOf(va(i), vb(i))
          /\ evaluate((a \o b) \o <<Or>>, row, joinedSchema) = OrOf(va(i), vb(i))
          /\ evaluate(DualOf(a, b), row, joinedSchema) = NotOf(AndOf(NotOf(va(i)), NotOf(vb(i))))
      <4>1. Combine(a, b, row, joinedSchema)
        BY <2>3, TwoTrees
      <4> QED
        BY <4>1, Zenon DEF Combine
    <3> QED
      BY <2>3, <3>1, Zenon
  <2>6. ASSUME top = And
        PROVE  /\ Matching(joinedRows, w, joinedSchema) = Matching(found, b, joinedSchema)
               /\ Throws <=> \/ Throwing(joinedRows, a, joinedSchema)
                             \/ Throwing(found, b, joinedSchema)
    <3>1. \A i \in DOMAIN joinedRows :
             /\ evaluate(a, joinedRows[i], joinedSchema) \in Outcome
             /\ evaluate(b, joinedRows[i], joinedSchema) \in Outcome
             /\ evaluate(w, joinedRows[i], joinedSchema) =
                  AndOf(evaluate(a, joinedRows[i], joinedSchema), evaluate(b, joinedRows[i], joinedSchema))
      BY <2>5, <2>6
    <3>2. /\ Matching(joinedRows, w, joinedSchema) = Matching(Matching(joinedRows, a, joinedSchema), b, joinedSchema)
          /\ Throwing(joinedRows, w, joinedSchema) <=>
               \/ Throwing(joinedRows, a, joinedSchema)
               \/ Throwing(Matching(joinedRows, a, joinedSchema), b, joinedSchema)
      BY <2>2, <3>1, FoundTwice
    <3> QED
      BY <2>4, <3>2, Zenon
  <2>7. ASSUME top = Or
        PROVE  /\ Matching(joinedRows, w, joinedSchema) = Matching(joinedRows, dual, joinedSchema)
               /\ Throws <=> Throwing(joinedRows, dual, joinedSchema)
    <3>1. ASSUME NEW i \in DOMAIN joinedRows
          PROVE  evaluate(w, joinedRows[i], joinedSchema) = evaluate(dual, joinedRows[i], joinedSchema)
      <4> DEFINE x == va(i)
                 y == vb(i)
      <4>1. /\ x \in Outcome /\ y \in Outcome
            /\ evaluate(w, joinedRows[i], joinedSchema) = OrOf(x, y)
            /\ evaluate(dual, joinedRows[i], joinedSchema) = NotOf(AndOf(NotOf(x), NotOf(y)))
        BY <2>5, <2>7
      <4> HIDE DEF x, y, dual
      <4> QED
        BY <4>1, OutcomesCombine
    <3> HIDE DEF dual
    <3>2. {i \in DOMAIN joinedRows : evaluate(w, joinedRows[i], joinedSchema) = "true"}
          = {i \in DOMAIN joinedRows : evaluate(dual, joinedRows[i], joinedSchema) = "true"}
      BY <3>1
    <3>3. Matching(joinedRows, w, joinedSchema) = Matching(joinedRows, dual, joinedSchema)
      BY <3>2, Zenon DEF Matching
    <3>4. Throwing(joinedRows, w, joinedSchema) <=> Throwing(joinedRows, dual, joinedSchema)
      BY <3>1 DEF Throwing
    <3> QED
      BY <2>4, <3>3, <3>4
  <2> QED
    BY <2>6, <2>7, Zenon DEF DualOf, a, b, top, w
<1>2. IInv => WhereShortCircuits
  BY <1>1, Zenon DEF WhereShortCircuits
<1> QED
  BY <1>2, SelectInvariant, PTL

-----------------------------------------------------------------------------
(* Groups.                                                                 *)

-----------------------------------------------------------------------------
(* Sums of parts of a column.                                              *)

\* A sum, value by value.
SumSteps(g, col) ==
    /\ g \in [0 .. Len(col) -> Int] /\ g[0] = 0 /\ g[Len(col)] = SumOf(col)
    /\ \A i \in 1 .. Len(col) : g[i] = g[i - 1] + toDouble(col[i])

\* Every sum is taken so.
LEMMA SumRuns ==
    ASSUME NEW col \in Seq(Field)
    PROVE  \E g : SumSteps(g, col)
<1>1. Yields(SumOf(col), Len(col), Int, 0, SumStep(col))
  <2>1. \A b \in Int : Yields(FoldLeft(LAMBDA s, v : s + toDouble(v), b, col), Len(col), Int, b, SumStep(col))
    BY SumTrace
  <2>2. 0 \in Int
    OBVIOUS
  <2> QED
    BY <2>1, <2>2, Zenon DEF SumOf
<1>2. PICK g : Traces(g, Len(col), Int, 0, SumStep(col)) /\ g[Len(col)] = SumOf(col)
  BY <1>1 DEF Yields
<1>3. g \in [0 .. Len(col) -> Int] /\ g[0] = 0 /\ \A i \in 1 .. Len(col) : g[i] = SumStep(col)[<<g[i - 1], i>>]
  BY <1>2 DEF Traces
<1>4. ASSUME NEW i \in 1 .. Len(col)
      PROVE  g[i] = g[i - 1] + toDouble(col[i])
  <2>1. Len(col) \in Nat /\ i - 1 \in 0 .. Len(col)
    OBVIOUS
  <2>2. g[i - 1] \in Int /\ g[i] = SumStep(col)[<<g[i - 1], i>>]
    BY <1>3, <2>1
  <2> QED
    BY <2>2 DEF SumStep
<1>5. SumSteps(g, col)
  BY <1>2, <1>3, <1>4 DEF SumSteps
<1> QED
  BY <1>5

\* The values at the positions S, NULL for the others.
Masked(col, S) == [i \in 1 .. Len(col) |-> IF i \in S THEN col[i] ELSE NULL]

\* A masked column is a column; NULL adds nothing.
LEMMA MaskedType ==
    ASSUME NEW col \in Seq(Field), NEW S
    PROVE  /\ Masked(col, S) \in Seq(Field) /\ Len(Masked(col, S)) = Len(col)
           /\ \A i \in 1 .. Len(col) :
                /\ Masked(col, S)[i] = IF i \in S THEN col[i] ELSE NULL
                /\ toDouble(Masked(col, S)[i]) = IF i \in S THEN toDouble(col[i]) ELSE 0
                /\ toDouble(col[i]) \in Int
<1>1. NULL \in Field /\ toDouble(NULL) = 0
  <2>1. NULL.kind = "NULL"
    BY DEF NULL
  <2>2. NULL \in Value
    BY DEF NULL, Value, Kinds
  <2> QED
    BY <2>1, <2>2 DEF Field, toDouble
<1>2. Len(col) \in Nat /\ \A i \in 1 .. Len(col) : col[i] \in Field
  OBVIOUS
<1>3. \A i \in 1 .. Len(col) : toDouble(col[i]) \in Int
  BY <1>2, FieldParts DEF toDouble
<1> DEFINE m == Masked(col, S)
<1>4. m \in Seq(Field) /\ Len(m) = Len(col) /\ \A i \in 1 .. Len(col) : m[i] = IF i \in S THEN col[i] ELSE NULL
  BY <1>1, <1>2 DEF Masked
<1> HIDE DEF m
<1>5. \A i \in 1 .. Len(col) : toDouble(m[i]) = IF i \in S THEN toDouble(col[i]) ELSE 0
  BY <1>1, <1>4
<1> QED
  BY <1>3, <1>4, <1>5 DEF m

\* What the values at each set of positions sum up to.
PartSums(col) == [S \in SUBSET (1 .. Len(col)) |-> SumOf(Masked(col, S))]

\* The sums of disjoint sets of positions add up.
LEMMA SumsMeasure ==
    ASSUME NEW col \in Seq(Field)
    PROVE  Measures(PartSums(col), Len(col))
<1> DEFINE n == Len(col)
           mu == PartSums(col)
<1>1. n \in Nat
  OBVIOUS
<1>2. \A S \in SUBSET (1 .. n) : mu[S] = SumOf(Masked(col, S)) /\ mu[S] \in Int
  BY MaskedType, SumType DEF PartSums
<1>3. ASSUME NEW S \in SUBSET (1 .. n), NEW T \in SUBSET (1 .. n), S \cap T = {}
      PROVE  SumOf(Masked(col, S \cup T)) = SumOf(Masked(col, S)) + SumOf(Masked(col, T))
  <2> DEFINE d(W, i) == IF i \in W THEN toDouble(col[i]) ELSE 0
             Goes(g, W) == /\ g \in [0 .. n -> Int] /\ g[0] = 0 /\ g[n] = SumOf(Masked(col, W))
                           /\ \A i \in 1 .. n : g[i] = g[i - 1] + d(W, i)
  <2>1. ASSUME NEW W
        PROVE  \E g : Goes(g, W)
    <3>1. PICK g : SumSteps(g, Masked(col, W))
      BY MaskedType, SumRuns
    <3>2. /\ Len(Masked(col, W)) = n
          /\ \A i \in 1 .. n : toDouble(Masked(col, W)[i]) = d(W, i)
      BY MaskedType
    <3>3. Goes(g, W)
      BY <3>1, <3>2 DEF SumSteps
    <3> QED
      BY <3>3
  <2>2. PICK g : Goes(g, S)
    BY <2>1
  <2>3. PICK h : Goes(h, T)
    BY <2>1
  <2>4. PICK u : Goes(u, S \cup T)
    BY <2>1
  <2> DEFINE P == {m \in Nat : m <= n => u[m] = g[m] + h[m]}
  <2>5. 0 \in P
    BY <2>2, <2>3, <2>4
  <2>6. ASSUME NEW m \in Nat, m \in P
        PROVE  m + 1 \in P
    <3> SUFFICES ASSUME m + 1 <= n
                 PROVE  u[m + 1] = g[m + 1] + h[m + 1]
      OBVIOUS
    <3>1. m + 1 \in 1 .. n /\ (m + 1) - 1 = m /\ u[m] = g[m] + h[m] /\ m \in 0 .. n
      BY <1>1, <2>6
    <3>2. d(S \cup T, m + 1) = d(S, m + 1) + d(T, m + 1) /\ d(S, m + 1) \in Int /\ d(T, m + 1) \in Int
      <4>1. toDouble(col[m + 1]) \in Int
        BY <3>1, MaskedType
      <4>2. ~ (m + 1 \in S /\ m + 1 \in T)
        BY <1>3
      <4> QED
        BY <4>1, <4>2
    <3> HIDE DEF d
    <3>3. /\ u[m + 1] = u[m] + d(S \cup T, m + 1)
          /\ g[m + 1] = g[m] + d(S, m + 1)
          /\ h[m + 1] = h[m] + d(T, m + 1)
      BY <2>2, <2>3, <2>4, <3>1
    <3>4. g[m] \in Int /\ h[m] \in Int
      BY <2>2, <2>3, <3>1
    <3> QED
      BY <3>1, <3>2, <3>3, <3>4
  <2>7. \A m \in Nat : m \in P
    <3> HIDE DEF P
    <3> QED
      BY <2>5, <2>6, Counting
  <2> QED
    BY <1>1, <2>2, <2>3, <2>4, <2>7
<1>4. \A S, T \in SUBSET (1 .. n) : S \cap T = {} => mu[S \cup T] = mu[S] + mu[T]
  <2> TAKE S, T \in SUBSET (1 .. n)
  <2> HAVE S \cap T = {}
  <2>1. S \cup T \in SUBSET (1 .. n)
    OBVIOUS
  <2>2. SumOf(Masked(col, S \cup T)) = SumOf(Masked(col, S)) + SumOf(Masked(col, T))
    BY <1>3
  <2> HIDE DEF mu
  <2> QED
    BY <1>2, <2>1, <2>2
<1> QED
  BY <1>2, <1>4 DEF Measures

\* One position counts its value.
LEMMA SingleSum ==
    ASSUME NEW col \in Seq(Field), NEW p \in 1 .. Len(col)
    PROVE  PartSums(col)[{p}] = toDouble(col[p])
<1> DEFINE n == Len(col)
<1>1. n \in Nat /\ {p} \in SUBSET (1 .. n)
  OBVIOUS
<1>2. PICK g : SumSteps(g, Masked(col, {p}))
  BY MaskedType, SumRuns
<1>3. /\ Len(Masked(col, {p})) = n /\ toDouble(col[p]) \in Int
      /\ \A i \in 1 .. n : toDouble(Masked(col, {p})[i]) = IF i = p THEN toDouble(col[i]) ELSE 0
  BY MaskedType
<1>4. /\ g \in [0 .. n -> Int] /\ g[0] = 0 /\ g[n] = SumOf(Masked(col, {p}))
      /\ \A i \in 1 .. n : g[i] = g[i - 1] + IF i = p THEN toDouble(col[i]) ELSE 0
  BY <1>2, <1>3 DEF SumSteps
<1> DEFINE P == {m \in Nat : m <= n => g[m] = IF m < p THEN 0 ELSE toDouble(col[p])}
<1>5. 0 \in P
  BY <1>4
<1>6. ASSUME NEW m \in Nat, m \in P
      PROVE  m + 1 \in P
  <2> SUFFICES ASSUME m + 1 <= n
               PROVE  g[m + 1] = IF m + 1 < p THEN 0 ELSE toDouble(col[p])
    OBVIOUS
  <2>1. m + 1 \in 1 .. n /\ (m + 1) - 1 = m /\ g[m] = IF m < p THEN 0 ELSE toDouble(col[p])
    BY <1>1, <1>6
  <2>2. g[m + 1] = g[m] + IF m + 1 = p THEN toDouble(col[m + 1]) ELSE 0
    BY <1>4, <2>1
  <2>3. CASE m + 1 = p
    BY <1>3, <2>1, <2>2, <2>3
  <2>4. CASE m + 1 # p
    BY <1>3, <2>1, <2>2, <2>4
  <2> QED
    BY <2>3, <2>4
<1>7. \A m \in Nat : m \in P
  <2> HIDE DEF P
  <2> QED
    BY <1>5, <1>6, Counting
<1>8. g[n] = toDouble(col[p])
  BY <1>1, <1>7
<1> QED
  BY <1>1, <1>4, <1>8 DEF PartSums

\* The values kept sum up to what their positions count.
LEMMA KeptSum ==
    ASSUME NEW col \in Seq(Field), NEW S, S \subseteq 1 .. Len(col)
    PROVE  SumOf(Keep(col, S)) = PartSums(col)[S]
<1> DEFINE n == Len(col)
           c == Cardinality(S)
           kept == Keep(col, S)
           G == [k \in 1 .. c |-> {Nth(S, k)}]
<1>1. n \in Nat /\ DOMAIN col = 1 .. n
  OBVIOUS
<1>2. /\ c \in Nat
      /\ \A k \in 1 .. c : Nth(S, k) \in S
      /\ \A j, k \in 1 .. c : j < k => Nth(S, j) < Nth(S, k)
      /\ \A i \in S : \E k \in 1 .. c : Nth(S, k) = i
  BY <1>1, NthGrows DEF Counted
<1>3. kept \in Seq(Field) /\ Len(kept) = c /\ \A k \in 1 .. c : kept[k] = col[Nth(S, k)]
  <2>1. S \subseteq DOMAIN col
    BY <1>1
  <2>2. /\ Keep(col, S) \in Seq(Field) /\ Len(Keep(col, S)) = Cardinality(S)
        /\ \A k \in DOMAIN Keep(col, S) : Nth(S, k) \in S /\ Keep(col, S)[k] = col[Nth(S, k)]
    BY <2>1, KeepType
  <2>3. DOMAIN kept = 1 .. c
    BY DEF Keep
  <2> QED
    BY <2>2, <2>3, Zenon
<1> HIDE DEF kept, c
<1>4. PICK g : SumSteps(g, kept)
  BY <1>3, SumRuns
<1>5. Splits(G, c, n, S)
  <2>1. G \in [1 .. c -> SUBSET (1 .. n)] /\ \A k \in 1 .. c : G[k] = {Nth(S, k)}
    BY <1>2
  <2>2. ASSUME NEW j \in 1 .. c, NEW k \in 1 .. c, j # k
        PROVE  G[j] \cap G[k] = {}
    <3>0. S \subseteq Int
      OBVIOUS
    <3>3. Nth(S, j) \in S /\ Nth(S, k) \in S
      BY <1>2
    <3>4. j < k \/ k < j
      BY <1>2, <2>2
    <3>1. Nth(S, j) \in Int /\ Nth(S, k) \in Int /\ (j < k \/ k < j)
      BY <3>0, <3>3, <3>4
    <3>2. Nth(S, j) # Nth(S, k)
      BY <1>2, <3>1
    <3> QED
      BY <2>1, <3>2
  <2>3. S = {i \in 1 .. n : \E k \in 1 .. c : i \in G[k]}
    BY <1>2, <2>1
  <2>4. \A k \in 1 .. c : G[k] # {}
    BY <2>1
  <2> HIDE DEF G
  <2> QED
    BY <1>2, <2>1, <2>2, <2>3, <2>4 DEF Splits
<1>6. Measures(PartSums(col), n)
  BY SumsMeasure
<1>7. \A k \in 1 .. c : g[k] = g[k - 1] + PartSums(col)[G[k]]
  <2> TAKE k \in 1 .. c
  <2>1. g[k] = g[k - 1] + toDouble(kept[k])
    BY <1>3, <1>4 DEF SumSteps
  <2>2. PartSums(col)[{Nth(S, k)}] = toDouble(col[Nth(S, k)])
    BY <1>2, SingleSum
  <2> QED
    BY <1>3, <2>1, <2>2
<1>8. g \in [0 .. c -> Int] /\ g[0] = 0 /\ g[c] = SumOf(kept)
  BY <1>3, <1>4 DEF SumSteps
<1>9. g[c] = PartSums(col)[S]
  <2> DEFINE mu == PartSums(col)
  <2>1. Measures(mu, n) /\ \A k \in 1 .. c : g[k] = g[k - 1] + mu[G[k]]
    BY <1>6, <1>7
  <2>2. n \in Nat /\ Splits(G, c, n, S) /\ g \in [0 .. c -> Int] /\ g[0] = 0
    BY <1>1, <1>5, <1>8
  <2> HIDE DEF G, n, mu
  <2>3. AddsUpTo(G, c, mu, mu[S])
    BY <2>1, <2>2, PartsAddUp
  <2>4. g[c] = mu[S]
    BY <2>1, <2>2, <2>3 DEF AddsUpTo
  <2> QED
    BY <2>4 DEF mu
<1> QED
  BY <1>8, <1>9 DEF kept

\* All positions count the sum of the column.
LEMMA WholeSum ==
    ASSUME NEW col \in Seq(Field)
    PROVE  PartSums(col)[1 .. Len(col)] = SumOf(col)
<1> DEFINE m == Masked(col, 1 .. Len(col))
<1>1. m \in Seq(Field) /\ Len(m) = Len(col) /\ \A i \in 1 .. Len(col) : m[i] = col[i]
  BY MaskedType
<1> HIDE DEF m
<1>2. m = col
  BY <1>1, SameElements
<1> QED
  BY <1>2 DEF PartSums, m

\* Values of one kind that compare as equal are equal.
LEMMA EqualWhenSame ==
    ASSUME NEW a \in Field, NEW b \in Field, SameKind(a, b), compareForSort(a, b) = 0
    PROVE  a = b
<1>1. a \in Value /\ b \in Value /\ a.data \in Int /\ b.data \in Int
  BY FieldParts
<1>2. CASE "NULL" \in {a.kind, b.kind}
  <2>1. a.kind = b.kind
    BY <1>2 DEF compareForSort
  <2> QED
    BY <1>2, <2>1, FieldParts
<1>3. CASE "NULL" \notin {a.kind, b.kind}
  <2>1. a.kind = b.kind
    BY <1>3 DEF SameKind
  <2>2. Sign(a.data - b.data) = 0
    BY <1>3, CompareKeys
  <2>3. a.data = b.data
    BY <1>1, <2>2 DEF Sign
  <2> QED
    BY <1>1, <2>1, <2>3 DEF Value
<1> QED
  BY <1>2, <1>3

\* The rows with the key of row i, and those of each group.
SameKeyAs(i) == {j \in DOMAIN filtered : makeKey(filtered[j]) = makeKey(filtered[i])}
GroupCount   == Cardinality(Openers(filtered))
Grouping     == [k \in 1 .. GroupCount |-> SameKeyAs(Nth(Openers(filtered), k))]

\* Every row that matched is in one group.
LEMMA GroupsSplit ==
    ASSUME filtered \in Seq(Seq(Field))
    PROVE  Splits(Grouping, GroupCount, Len(filtered), 1 .. Len(filtered))
<1> DEFINE n == Len(filtered)
           O == Openers(filtered)
           key(j) == makeKey(filtered[j])
<1>1. n \in Nat /\ DOMAIN filtered = 1 .. n
  OBVIOUS
<1> HIDE DEF n, key
<1>2. O = {i \in 1 .. n : \A j \in 1 .. i - 1 : key(j) # key(i)}
  BY <1>1 DEF Openers, key
<1>3. \A i \in 1 .. n : SameKeyAs(i) = {j \in 1 .. n : key(j) = key(i)}
  BY <1>1 DEF SameKeyAs, key
<1> HIDE DEF O
<1>4. /\ GroupCount \in Nat
      /\ \A k \in 1 .. GroupCount : Nth(O, k) \in O
      /\ \A j, k \in 1 .. GroupCount : j < k => Nth(O, j) < Nth(O, k)
      /\ \A i \in O : \E k \in 1 .. GroupCount : Nth(O, k) = i
  <2>1. O \subseteq 1 .. n
    BY <1>2
  <2> QED
    BY <1>1, <2>1, NthGrows DEF Counted, GroupCount, O
<1>5. \A k \in 1 .. GroupCount : Nth(O, k) \in 1 .. n /\ Grouping[k] = {j \in 1 .. n : key(j) = key(Nth(O, k))}
  BY <1>2, <1>3, <1>4 DEF Grouping, O
<1>6. ASSUME NEW j \in 1 .. GroupCount, NEW k \in 1 .. GroupCount, j < k
      PROVE  Grouping[j] \cap Grouping[k] = {}
  <2>1. Nth(O, j) < Nth(O, k) /\ Nth(O, k) \in O /\ Nth(O, j) \in 1 .. n
    BY <1>4, <1>5, <1>6
  <2>2. Nth(O, j) \in 1 .. Nth(O, k) - 1
    BY <1>2, <2>1
  <2>3. key(Nth(O, j)) # key(Nth(O, k))
    BY <1>2, <2>1, <2>2
  <2> QED
    BY <1>5, <2>3
<1>7. ASSUME NEW i \in 1 .. n
      PROVE  \E k \in 1 .. GroupCount : i \in Grouping[k]
  <2> DEFINE T == {j \in 1 .. n : key(j) = key(i)}
             m == Min(T)
  <2>1. m \in T /\ \A j \in T : m <= j
    <3>1. T \subseteq Nat /\ T # {}
      OBVIOUS
    <3> HIDE DEF T
    <3> QED
      BY <3>1, MinIsLeast
  <2>2. m \in 1 .. n /\ key(m) = key(i)
    BY <2>1
  <2>3. ASSUME NEW j \in 1 .. m - 1
        PROVE  key(j) # key(m)
    <3>1. j \in 1 .. n /\ ~ (m <= j)
      BY <1>1, <2>2
    <3> HIDE DEF m
    <3> QED
      BY <2>1, <2>2, <3>1
  <2> HIDE DEF m, T
  <2>4. m \in O
    BY <1>2, <2>2, <2>3
  <2>5. PICK k \in 1 .. GroupCount : Nth(O, k) = m
    BY <1>4, <2>4
  <2> QED
    BY <1>5, <2>2, <2>5
<1>8. Grouping \in [1 .. GroupCount -> SUBSET (1 .. n)]
  <2>1. \A k \in 1 .. GroupCount : Grouping[k] \in SUBSET (1 .. n)
    BY <1>5
  <2>2. Grouping = [k \in 1 .. GroupCount |-> Grouping[k]]
    BY DEF Grouping
  <2> QED
    BY <2>1, <2>2
<1>9. \A k \in 1 .. GroupCount : Grouping[k] # {}
  BY <1>5
<1>10. \A j, k \in 1 .. GroupCount : j # k => Grouping[j] \cap Grouping[k] = {}
  <2> TAKE j, k \in 1 .. GroupCount
  <2> HAVE j # k
  <2>1. j < k \/ k < j
    BY <1>4
  <2>2. CASE j < k
    BY <1>6, <2>2
  <2>3. CASE k < j
    BY <1>6, <2>3
  <2> QED
    BY <2>1, <2>2, <2>3
<1>11. 1 .. n = {i \in 1 .. n : \E k \in 1 .. GroupCount : i \in Grouping[k]}
  BY <1>7
<1>12. Splits(Grouping, GroupCount, n, 1 .. n)
  BY <1>4, <1>8, <1>9, <1>10, <1>11 DEF Splits
<1> QED
  BY <1>12 DEF n

\* The rows before ORDER BY, one per group, item by item.
GroupedAnswer ==
    /\ filtered \in Seq(Seq(Field)) /\ Alike(filtered)
    /\ Splits(Grouping, GroupCount, Len(filtered), 1 .. Len(filtered))
    /\ produced \in Seq(Seq(Field)) /\ Alike(produced) /\ DOMAIN produced = 1 .. GroupCount
    /\ \A i \in DOMAIN stmt.items :
          /\ CanShow(stmt.items[i], filtered)
          /\ \A k \in 1 .. GroupCount :
                /\ i \in DOMAIN produced[k]
                /\ produced[k][i] = ItemValue(stmt.items[i], Keep(filtered, Grouping[k]))

\* What GROUP BY answers.
LEMMA GroupedIs ==
    ASSUME IInv, pc = "sort", stmt.groupBy # <<>>, filtered # <<>>
    PROVE  GroupedAnswer
<1>1. /\ stmt \in Statements /\ Alike(filtered) /\ Makeable /\ produced = Made /\ Alike(produced)
  BY SortableRows
<1>2. ~Plain
  BY DEF Plain
<1>3. filtered \in Seq(Seq(Field)) /\ produced \in Seq(Seq(Field))
  BY <1>1 DEF Alike
<1>4. Splits(Grouping, GroupCount, Len(filtered), 1 .. Len(filtered))
  BY <1>3, GroupsSplit
<1>5. /\ GroupCount \in Nat /\ DOMAIN filtered = 1 .. Len(filtered)
      /\ \A k \in 1 .. GroupCount : Grouping[k] \subseteq DOMAIN filtered
  BY <1>3, <1>4 DEF Splits
<1>6. produced = [k \in 1 .. GroupCount |-> OutRow(GroupOf(filtered, Nth(Openers(filtered), k)))]
  BY <1>1, <1>2 DEF Made, GroupRows, GroupCount
<1>7. \A i \in DOMAIN stmt.items : CanShow(stmt.items[i], filtered)
  BY <1>1, <1>2, ItemsFine
<1>8. ASSUME NEW k \in 1 .. GroupCount
      PROVE  produced[k] = OutRow(Keep(filtered, Grouping[k]))
  <2>1. produced[k] = OutRow(GroupOf(filtered, Nth(Openers(filtered), k)))
    BY <1>6
  <2>2. GroupOf(filtered, Nth(Openers(filtered), k)) = Keep(filtered, Grouping[k])
    BY DEF GroupOf, Grouping, SameKeyAs
  <2> QED
    BY <2>1, <2>2
<1>9. ASSUME NEW k \in 1 .. GroupCount, NEW i \in DOMAIN stmt.items
      PROVE  /\ i \in DOMAIN produced[k]
             /\ produced[k][i] = ItemValue(stmt.items[i], Keep(filtered, Grouping[k]))
  BY <1>8 DEF OutRow
<1> QED
  BY <1>1, <1>3, <1>4, <1>5, <1>6, <1>7, <1>9 DEF GroupedAnswer

\* Some rows are kept of some positions, and their column is that of the rows.
LEMMA ColumnKept ==
    ASSUME NEW rows \in Seq(Seq(Field)), NEW S, S \subseteq DOMAIN rows, S # {}, NEW c,
           \A i \in DOMAIN rows : c \in DOMAIN rows[i]
    PROVE  /\ Keep(rows, S) \in Seq(Seq(Field)) /\ Keep(rows, S) # <<>>
           /\ Len(Keep(rows, S)) = Cardinality(S)
           /\ ColumnOf(Keep(rows, S), c) = Keep(ColumnOf(rows, c), S)
<1>1. S \subseteq 1 .. Len(rows) /\ Len(rows) \in Nat /\ DOMAIN rows = 1 .. Len(rows)
  OBVIOUS
<1>2. /\ Cardinality(S) \in Nat
      /\ \A k \in 1 .. Cardinality(S) : Nth(S, k) \in S
      /\ \A i \in S : \E k \in 1 .. Cardinality(S) : Nth(S, k) = i
  BY <1>1, NthGrows DEF Counted
<1>3. 1 .. Cardinality(S) # {}
  BY <1>2
<1>4. Keep(rows, S) \in Seq(Seq(Field)) /\ Len(Keep(rows, S)) = Cardinality(S)
  BY KeepType
<1>5. Keep(rows, S) # <<>>
  <2>1. Len(Keep(rows, S)) # 0
    BY <1>2, <1>3, <1>4
  <2> QED
    BY <2>1
<1>6. ColumnOf(Keep(rows, S), c) = [k \in 1 .. Cardinality(S) |-> rows[Nth(S, k)][c]]
  BY DEF ColumnOf, Keep
<1>7. Keep(ColumnOf(rows, c), S) = [k \in 1 .. Cardinality(S) |-> rows[Nth(S, k)][c]]
  <2>1. \A k \in 1 .. Cardinality(S) : ColumnOf(rows, c)[Nth(S, k)] = rows[Nth(S, k)][c]
    BY <1>2, ColumnOfRows
  <2> QED
    BY <2>1 DEF Keep
<1> QED
  BY <1>4, <1>5, <1>6, <1>7

\* A column of numbers, added up as the property adds it up.
DataTotal(col) == FoldLeft(LAMBDA s, v : s + v.data, 0, col)

\* When each group shows its measure, their total is that of all rows.
LEMMA TotalIs ==
    ASSUME GroupedAnswer, NEW i \in DOMAIN stmt.items, NEW mu, Measures(mu, Len(filtered)),
           \A k \in 1 .. GroupCount : produced[k][i].data = mu[Grouping[k]]
    PROVE  DataTotal(ColumnOf(produced, i)) = mu[1 .. Len(filtered)]
<1> DEFINE col == ColumnOf(produced, i)
           c == GroupCount
           n == Len(filtered)
<1>1. /\ Splits(Grouping, c, n, 1 .. n) /\ n \in Nat
      /\ produced \in Seq(Seq(Field)) /\ DOMAIN produced = 1 .. c
      /\ \A k \in DOMAIN produced : i \in DOMAIN produced[k]
  BY DEF GroupedAnswer
<1>2. c \in Nat /\ Len(produced) = c
  BY <1>1 DEF Splits
<1>3. col \in Seq(Field) /\ Len(col) = c /\ \A k \in 1 .. c : col[k] = produced[k][i]
  <2>1. /\ col \in Seq(Field) /\ Len(col) = Len(produced)
        /\ \A k \in DOMAIN produced : col[k] = produced[k][i]
    <3> HIDE DEF col
    <3> QED
      BY <1>1, ColumnOfRows DEF col
  <2> HIDE DEF col, c
  <2> QED
    BY <1>1, <1>2, <2>1
<1> HIDE DEF col, c
<1>4. Yields(DataTotal(col), c, Int, 0, DataStep(col))
  <2>1. \A b \in Int : Yields(FoldLeft(LAMBDA s, v : s + v.data, b, col), Len(col), Int, b, DataStep(col))
    BY <1>3, DataTrace
  <2>2. 0 \in Int
    OBVIOUS
  <2>3. Yields(DataTotal(col), Len(col), Int, 0, DataStep(col))
    BY <2>1, <2>2, Zenon DEF DataTotal
  <2> QED
    BY <1>3, <2>3
<1>5. PICK g : Traces(g, c, Int, 0, DataStep(col)) /\ g[c] = DataTotal(col)
  BY <1>4 DEF Yields
<1>6. /\ g \in [0 .. c -> Int] /\ g[0] = 0
      /\ \A k \in 1 .. c : g[k] = DataStep(col)[<<g[k - 1], k>>]
  BY <1>5 DEF Traces
<1>7. ASSUME NEW k \in 1 .. c
      PROVE  g[k] = g[k - 1] + mu[Grouping[k]]
  <2>1. k - 1 \in 0 .. c
    BY <1>2
  <2>2. g[k - 1] \in Int /\ g[k] = DataStep(col)[<<g[k - 1], k>>]
    BY <1>6, <2>1
  <2>3. g[k] = g[k - 1] + col[k].data
    BY <1>3, <2>2 DEF DataStep
  <2>4. col[k].data = mu[Grouping[k]]
    BY <1>3 DEF c
  <2> QED
    BY <2>3, <2>4
<1>8. AddsUpTo(Grouping, c, mu, mu[1 .. n])
  BY <1>1, PartsAddUp
<1>9. g[c] = mu[1 .. n]
  BY <1>6, <1>7, <1>8 DEF AddsUpTo
<1> QED
  BY <1>5, <1>9 DEF col

\* The counts of the groups add up to the number of rows.
LEMMA CountsAgree ==
    ASSUME GroupedAnswer, NEW i \in DOMAIN stmt.items, stmt.items[i].agg = "COUNT"
    PROVE  DataTotal(ColumnOf(produced, i)) = Len(filtered)
<1> DEFINE n == Len(filtered)
           mu == [S \in SUBSET (1 .. n) |-> Cardinality(S)]
<1>1. n \in Nat /\ filtered \in Seq(Seq(Field)) /\ Splits(Grouping, GroupCount, n, 1 .. n)
  BY DEF GroupedAnswer
<1>2. \A k \in 1 .. GroupCount : Grouping[k] \in SUBSET (1 .. n)
  BY <1>1 DEF Splits
<1>3. ASSUME NEW k \in 1 .. GroupCount
      PROVE  produced[k][i].data = mu[Grouping[k]]
  <2>1. Grouping[k] \subseteq DOMAIN filtered
    BY <1>1, <1>2
  <2>2. Len(Keep(filtered, Grouping[k])) = Cardinality(Grouping[k])
    BY <1>1, <2>1, KeepType
  <2>3. produced[k][i] = ItemValue(stmt.items[i], Keep(filtered, Grouping[k]))
    BY DEF GroupedAnswer
  <2>4. ItemValue(stmt.items[i], Keep(filtered, Grouping[k])) = calcAgg("COUNT", stmt.items[i].arg, Keep(filtered, Grouping[k]))
    BY DEF ItemValue
  <2>5. calcAgg("COUNT", stmt.items[i].arg, Keep(filtered, Grouping[k])) = [kind |-> "INT", data |-> Cardinality(Grouping[k])]
    BY <2>2 DEF calcAgg
  <2>6. mu[Grouping[k]] = Cardinality(Grouping[k])
    BY <1>2
  <2> QED
    BY <2>3, <2>4, <2>5, <2>6
<1>4. Measures(mu, n)
  BY <1>1, SizesMeasure
<1>5. mu[1 .. n] = n
  <2>1. Cardinality(1 .. n) = IF 1 > n THEN 0 ELSE n - 1 + 1
    BY <1>1, FS_Interval, 1 \in Int, n \in Int
  <2>2. Cardinality(1 .. n) = n
    BY <1>1, <2>1
  <2> QED
    BY <1>1, <2>2
<1> HIDE DEF mu
<1>6. DataTotal(ColumnOf(produced, i)) = mu[1 .. n]
  BY <1>3, <1>4, TotalIs
<1> QED
  BY <1>5, <1>6

\* The column an item aggregates, and its values in a group.
LEMMA AggregatedColumn ==
    ASSUME GroupedAnswer, stmt \in Statements, NEW i \in DOMAIN stmt.items, stmt.items[i].agg # "COUNT"
    PROVE  LET col == ColumnOf(filtered, ColumnIndex(stmt.items[i].arg, joinedSchema))
           IN  /\ col \in Seq(Field) /\ Len(col) = Len(filtered)
               /\ \A p, q \in DOMAIN col : SameKind(col[p], col[q])
               /\ \A k \in 1 .. GroupCount :
                    LET rows == Keep(filtered, Grouping[k])
                    IN  /\ rows \in Seq(Seq(Field)) /\ rows # <<>>
                        /\ ColumnOf(rows, ColumnIndex(stmt.items[i].arg, joinedSchema)) = Keep(col, Grouping[k])
<1> DEFINE c == ColumnIndex(stmt.items[i].arg, joinedSchema)
           col == ColumnOf(filtered, c)
<1>1. /\ filtered \in Seq(Seq(Field)) /\ Alike(filtered)
      /\ \A p \in DOMAIN filtered : c \in DOMAIN filtered[p]
      /\ Splits(Grouping, GroupCount, Len(filtered), 1 .. Len(filtered))
  BY DEF GroupedAnswer, CanShow
<1> HIDE DEF c
<1>2. /\ col \in Seq(Field) /\ Len(col) = Len(filtered)
      /\ \A p \in DOMAIN filtered : col[p] = filtered[p][c]
  BY <1>1, ColumnOfRows
<1>3. DOMAIN col = DOMAIN filtered
  BY DEF ColumnOf
<1>4. \A p, q \in DOMAIN col : SameKind(col[p], col[q])
  <2> TAKE p, q \in DOMAIN col
  <2>1. p \in DOMAIN filtered /\ q \in DOMAIN filtered
    BY <1>3
  <2>2. SameKind(filtered[p][c], filtered[q][c])
    BY <1>1, <2>1, AlikeParts
  <2> QED
    BY <1>2, <2>1, <2>2
<1>5. ASSUME NEW k \in 1 .. GroupCount
      PROVE  /\ Keep(filtered, Grouping[k]) \in Seq(Seq(Field)) /\ Keep(filtered, Grouping[k]) # <<>>
             /\ ColumnOf(Keep(filtered, Grouping[k]), c) = Keep(col, Grouping[k])
  <2>1. Grouping[k] \subseteq DOMAIN filtered /\ Grouping[k] # {}
    <3>1. Grouping[k] \in SUBSET (1 .. Len(filtered)) /\ Grouping[k] # {}
      BY <1>1 DEF Splits
    <3> QED
      BY <1>1, <3>1
  <2> QED
    BY <1>1, <2>1, ColumnKept
<1> HIDE DEF col
<1> QED
  BY <1>2, <1>4, <1>5 DEF c, col

\* The sums of the groups add up to that of all rows.
LEMMA SumsAgree ==
    ASSUME GroupedAnswer, stmt \in Statements, filtered # <<>>, NEW i \in DOMAIN stmt.items,
           stmt.items[i].agg = "SUM"
    PROVE  DataTotal(ColumnOf(produced, i)) = calcAgg("SUM", stmt.items[i].arg, filtered).data
<1> DEFINE arg == stmt.items[i].arg
           c == ColumnIndex(arg, joinedSchema)
           col == ColumnOf(filtered, c)
           n == Len(filtered)
<1>1. /\ col \in Seq(Field) /\ Len(col) = n
      /\ \A k \in 1 .. GroupCount :
            /\ Keep(filtered, Grouping[k]) \in Seq(Seq(Field)) /\ Keep(filtered, Grouping[k]) # <<>>
            /\ ColumnOf(Keep(filtered, Grouping[k]), c) = Keep(col, Grouping[k])
  BY AggregatedColumn
<1>2. filtered \in Seq(Seq(Field)) /\ Splits(Grouping, GroupCount, n, 1 .. n)
  BY DEF GroupedAnswer
<1>3. calcAgg("SUM", arg, filtered) = [kind |-> "FLOAT", data |-> SumOf(col)]
  BY <1>2, CalcAgg
<1>4. ASSUME NEW k \in 1 .. GroupCount
      PROVE  produced[k][i].data = PartSums(col)[Grouping[k]]
  <2> DEFINE rows == Keep(filtered, Grouping[k])
  <2>1. rows \in Seq(Seq(Field)) /\ rows # <<>> /\ ColumnOf(rows, c) = Keep(col, Grouping[k])
    BY <1>1
  <2>2. produced[k][i] = ItemValue(stmt.items[i], rows)
    BY DEF GroupedAnswer
  <2> HIDE DEF rows
  <2>3. ItemValue(stmt.items[i], rows) = calcAgg("SUM", arg, rows)
    BY DEF ItemValue
  <2>4. calcAgg("SUM", arg, rows) = [kind |-> "FLOAT", data |-> SumOf(ColumnOf(rows, c))]
    BY <2>1, CalcAgg
  <2>5. Grouping[k] \subseteq 1 .. Len(col)
    <3>1. Grouping[k] \in SUBSET (1 .. n)
      BY <1>2 DEF Splits
    <3> QED
      BY <1>1, <3>1
  <2> HIDE DEF col, c, arg
  <2>6. SumOf(Keep(col, Grouping[k])) = PartSums(col)[Grouping[k]]
    BY <1>1, <2>5, KeptSum
  <2> QED
    BY <2>1, <2>2, <2>3, <2>4, <2>6
<1> HIDE DEF col
<1>5. Measures(PartSums(col), n) /\ PartSums(col)[1 .. n] = SumOf(col)
  BY <1>1, SumsMeasure, WholeSum
<1>6. DataTotal(ColumnOf(produced, i)) = PartSums(col)[1 .. n]
  BY <1>4, <1>5, TotalIs
<1> QED
  BY <1>3, <1>5, <1>6

\* The least of the least values of the groups is that of all rows.
LEMMA LeastAgrees ==
    ASSUME GroupedAnswer, stmt \in Statements, filtered # <<>>, NEW i \in DOMAIN stmt.items,
           stmt.items[i].agg = "MIN"
    PROVE  LeastOf(ColumnOf(produced, i)) = calcAgg("MIN", stmt.items[i].arg, filtered)
<1> DEFINE arg == stmt.items[i].arg
           c == ColumnIndex(arg, joinedSchema)
           col == ColumnOf(filtered, c)
           n == Len(filtered)
           least == ColumnOf(produced, i)
<1>1. /\ col \in Seq(Field) /\ Len(col) = n
      /\ \A p, q \in DOMAIN col : SameKind(col[p], col[q])
      /\ \A k \in 1 .. GroupCount :
            /\ Keep(filtered, Grouping[k]) \in Seq(Seq(Field)) /\ Keep(filtered, Grouping[k]) # <<>>
            /\ ColumnOf(Keep(filtered, Grouping[k]), c) = Keep(col, Grouping[k])
  BY AggregatedColumn
<1>2. /\ filtered \in Seq(Seq(Field)) /\ Splits(Grouping, GroupCount, n, 1 .. n)
      /\ produced \in Seq(Seq(Field)) /\ DOMAIN produced = 1 .. GroupCount
      /\ \A k \in DOMAIN produced : i \in DOMAIN produced[k]
      /\ Alike(produced)
  BY DEF GroupedAnswer
<1>3. calcAgg("MIN", arg, filtered) = LeastOf(col)
  BY <1>2, CalcAgg
<1>4. /\ n \in Nat /\ n # 0 /\ DOMAIN col = 1 .. n /\ 1 \in 1 .. n
  BY <1>1, <1>2
<1>5. /\ \A k \in 1 .. GroupCount : Grouping[k] \in SUBSET (1 .. n)
      /\ \A p \in 1 .. n : \E k \in 1 .. GroupCount : p \in Grouping[k]
      /\ GroupCount \in Nat
  BY <1>2 DEF Splits
<1>6. /\ least \in Seq(Field) /\ DOMAIN least = 1 .. GroupCount
      /\ \A k \in 1 .. GroupCount : least[k] = produced[k][i]
  <2>1. /\ least \in Seq(Field)
        /\ \A k \in DOMAIN produced : least[k] = produced[k][i]
    <3> HIDE DEF least
    <3> QED
      BY <1>2, ColumnOfRows DEF least
  <2>2. DOMAIN least = DOMAIN produced
    BY DEF ColumnOf
  <2> QED
    BY <1>2, <2>1, <2>2
<1>7. \A j, k \in DOMAIN least : SameKind(least[j], least[k])
  <2> TAKE j, k \in DOMAIN least
  <2>1. j \in DOMAIN produced /\ k \in DOMAIN produced
    BY <1>2, <1>6
  <2>2. SameKind(produced[j][i], produced[k][i])
    BY <1>2, <2>1, AlikeParts
  <2> QED
    BY <1>2, <1>6, <2>1, <2>2
<1>8. 1 \in DOMAIN least
  BY <1>4, <1>5, <1>6
<1>9. ASSUME NEW k \in 1 .. GroupCount
      PROVE  /\ \E p \in 1 .. n : least[k] = col[p]
             /\ \A p \in Grouping[k] : compareForSort(least[k], col[p]) <= 0
  <2> DEFINE rows == Keep(filtered, Grouping[k])
             kept == Keep(col, Grouping[k])
  <2>1. rows \in Seq(Seq(Field)) /\ rows # <<>> /\ ColumnOf(rows, c) = kept
    BY <1>1
  <2>2. least[k] = ItemValue(stmt.items[i], rows)
    BY <1>6 DEF GroupedAnswer
  <2>3. Grouping[k] \subseteq DOMAIN col /\ Grouping[k] \subseteq 1 .. n
    BY <1>4, <1>5
  <2>4. /\ kept \in Seq(Field) /\ Len(kept) = Cardinality(Grouping[k])
        /\ \A q \in DOMAIN kept : Nth(Grouping[k], q) \in Grouping[k] /\ kept[q] = col[Nth(Grouping[k], q)]
        /\ \A p \in Grouping[k] : \E q \in DOMAIN kept : kept[q] = col[p]
    <3>1. col \in Seq(Field)
      BY <1>1
    <3> HIDE DEF col
    <3>2. /\ kept \in Seq(Field) /\ Len(kept) = Cardinality(Grouping[k])
          /\ \A q \in DOMAIN kept : Nth(Grouping[k], q) \in Grouping[k] /\ kept[q] = col[Nth(Grouping[k], q)]
      BY <2>3, <3>1, KeepType
    <3>3. ASSUME NEW p \in Grouping[k]
          PROVE  \E q \in DOMAIN kept : kept[q] = col[p]
      <4> DEFINE S == Grouping[k]
      <4>1. S \subseteq DOMAIN col /\ p \in S
        BY <2>3
      <4> HIDE DEF S
      <4>2. Retained(col, S, p)
        BY <3>1, <4>1, KeepFinds
      <4> QED
        BY <4>2, Zenon DEF S, Retained
    <3> QED
      BY <3>2, <3>3
  <2> HIDE DEF rows
  <2>5. least[k] = LeastOf(kept)
    <3>1. ItemValue(stmt.items[i], rows) = calcAgg("MIN", arg, rows)
      BY DEF ItemValue
    <3>2. calcAgg("MIN", arg, rows) = LeastOf(ColumnOf(rows, c))
      BY <2>1, CalcAgg
    <3> QED
      BY <2>1, <2>2, <3>1, <3>2
  <2> HIDE DEF kept, col, least
  <2>6. \A p, q \in DOMAIN kept : SameKind(kept[p], kept[q])
    BY <1>1, <2>3, <2>4
  <2>7. kept[1] \in Field /\ \E q \in DOMAIN kept : kept[q] = kept[1]
    <3>1. Grouping[k] # {}
      BY <1>2 DEF Splits
    <3>2. PICK q \in DOMAIN kept : TRUE
      BY <2>4, <3>1
    <3>3. Len(kept) \in Nat /\ DOMAIN kept = 1 .. Len(kept)
      BY <2>4
    <3>4. 1 \in DOMAIN kept
      BY <3>2, <3>3
    <3> QED
      BY <2>4, <3>4
  <2>8. /\ \E q \in DOMAIN kept : LeastOf(kept) = kept[q]
        /\ \A q \in DOMAIN kept : compareForSort(LeastOf(kept), kept[q]) <= 0
    BY <2>4, <2>6, <2>7, LeastIs DEF LeastOf
  <2> QED
    BY <1>4, <2>3, <2>4, <2>5, <2>8
<1> DEFINE m == LeastOf(least)
           w == LeastOf(col)
<1>10. /\ \E k \in DOMAIN least : m = least[k]
       /\ \A k \in DOMAIN least : compareForSort(m, least[k]) <= 0
  <2> HIDE DEF least
  <2>1. least[1] \in Field
    <3>1. least \in Seq(Field)
      BY <1>6
    <3> QED
      BY <1>8, <3>1
  <2>2. \E k \in DOMAIN least : least[k] = least[1]
    BY <1>8
  <2> QED
    BY <1>6, <1>7, <2>1, <2>2, LeastIs DEF LeastOf
<1>11. /\ \E p \in DOMAIN col : w = col[p]
       /\ \A p \in DOMAIN col : compareForSort(w, col[p]) <= 0
  <2> HIDE DEF col
  <2>1. col[1] \in Field /\ \E p \in DOMAIN col : col[p] = col[1]
    BY <1>1, <1>4
  <2> QED
    BY <1>1, <2>1, LeastIs DEF LeastOf
<1> HIDE DEF m, w, least, col
<1>12. PICK k0 \in 1 .. GroupCount : m = least[k0]
  BY <1>6, <1>10
<1>13. PICK p0 \in 1 .. n : m = col[p0]
  BY <1>9, <1>12
<1>14. PICK p1 \in 1 .. n : w = col[p1]
  BY <1>4, <1>11
<1>20. \A p \in 1 .. n : col[p] \in Field
  BY <1>1, <1>4
<1>21. \A p, q \in 1 .. n : SameKind(col[p], col[q])
  BY <1>1, <1>4, Zenon
<1>15. m \in Field /\ w \in Field /\ SameKind(m, w) /\ SameKind(w, m)
  BY <1>13, <1>14, <1>20, <1>21
<1>16. compareForSort(w, m) <= 0
  BY <1>4, <1>11, <1>13
<1>17. compareForSort(m, w) <= 0
  <2>1. PICK k \in 1 .. GroupCount : p1 \in Grouping[k]
    BY <1>5
  <2>2. compareForSort(m, least[k]) <= 0 /\ compareForSort(least[k], w) <= 0
    BY <1>6, <1>9, <1>10, <1>14, <2>1
  <2>3. PICK p \in 1 .. n : least[k] = col[p]
    BY <1>9
  <2>4. least[k] \in Field /\ SameKind(m, least[k]) /\ SameKind(least[k], w)
    BY <1>13, <1>14, <1>20, <1>21, <2>3
  <2> QED
    BY <1>15, <2>2, <2>4, CompareOrders
<1>18. compareForSort(m, w) = 0
  BY <1>15, <1>16, <1>17, CompareType
<1>19. m = w
  BY <1>15, <1>18, EqualWhenSame
<1> QED
  BY <1>3, <1>19 DEF m, w, least, col

\* The first row of a group has the key of the row that opened it, as every
\* row of the group has, and is the one whose columns the group shows.
FirstOf(k) == filtered[Nth(Grouping[k], 1)]

LEMMA GroupFirst ==
    ASSUME GroupedAnswer, NEW k \in 1 .. GroupCount
    PROVE  /\ Nth(Grouping[k], 1) \in Grouping[k]
           /\ Grouping[k] \subseteq DOMAIN filtered
           /\ Keep(filtered, Grouping[k]) # <<>> /\ Keep(filtered, Grouping[k])[1] = FirstOf(k)
           /\ Grouping[k] = {j \in DOMAIN filtered : makeKey(filtered[j]) = makeKey(FirstOf(k))}
<1> DEFINE opener == filtered[Nth(Openers(filtered), k)]
           first == Nth(Grouping[k], 1)
<1>1. /\ filtered \in Seq(Seq(Field)) /\ DOMAIN filtered = 1 .. Len(filtered)
      /\ Splits(Grouping, GroupCount, Len(filtered), 1 .. Len(filtered))
  BY DEF GroupedAnswer
<1>2. Grouping[k] \in SUBSET (1 .. Len(filtered)) /\ Grouping[k] # {} /\ Len(filtered) \in Nat
  <2>1. Grouping[k] \in SUBSET (1 .. Len(filtered)) /\ Grouping[k] # {}
    BY <1>1 DEF Splits
  <2> QED
    BY <1>1, <2>1
<1>3. /\ Cardinality(Grouping[k]) \in Nat
      /\ \A q \in 1 .. Cardinality(Grouping[k]) : Nth(Grouping[k], q) \in Grouping[k]
      /\ \A p \in Grouping[k] : \E q \in 1 .. Cardinality(Grouping[k]) : Nth(Grouping[k], q) = p
  BY <1>2, NthGrows DEF Counted
<1>4. 1 \in 1 .. Cardinality(Grouping[k])
  BY <1>2, <1>3
<1>5. first \in Grouping[k]
  BY <1>3, <1>4
<1>6. Keep(filtered, Grouping[k])[1] = FirstOf(k) /\ 1 \in DOMAIN Keep(filtered, Grouping[k])
  BY <1>4 DEF Keep, FirstOf
<1>7. Keep(filtered, Grouping[k]) # <<>>
  <2>1. DOMAIN <<>> = {}
    OBVIOUS
  <2> QED
    BY <1>6, <2>1
<1>8. Grouping[k] = {j \in DOMAIN filtered : makeKey(filtered[j]) = makeKey(opener)}
  BY DEF Grouping, SameKeyAs
<1> HIDE DEF first, opener
<1>9. makeKey(filtered[first]) = makeKey(opener)
  BY <1>5, <1>8
<1>10. filtered[first] = FirstOf(k)
  BY DEF first, FirstOf
<1> QED
  BY <1>1, <1>2, <1>5, <1>6, <1>7, <1>8, <1>9, <1>10 DEF first

\* A group that shows all columns of GROUP BY shows those of its first row, and
\* every row has these columns.
LEMMA GroupShown ==
    ASSUME GroupedAnswer, stmt \in Statements,
           \A g \in DOMAIN stmt.groupBy : HeaderIndex(stmt.groupBy[g], stmt.items) # 0,
           NEW g \in DOMAIN stmt.groupBy
    PROVE  /\ \A k \in 1 .. GroupCount : Shown(k, g) = FirstOf(k)[groupIdxs[g]]
           /\ \A j \in DOMAIN filtered : filtered[j][groupIdxs[g]] \in Field
<1> DEFINE c == HeaderIndex(stmt.groupBy[g], stmt.items)
<1>1. c \in DOMAIN stmt.items /\ stmt.items[c] = [agg |-> "NONE", arg |-> stmt.groupBy[g]]
  <2>1. stmt.items \in Seq(SelectItem)
    BY StatementParts
  <2> QED
    BY <2>1, HeaderIndexIs
<1>2. groupIdxs[g] = ColumnIndex(stmt.groupBy[g], joinedSchema)
  BY DEF groupIdxs
<1> HIDE DEF c
<1>3. ASSUME NEW k \in 1 .. GroupCount
      PROVE  Shown(k, g) = FirstOf(k)[groupIdxs[g]]
  <2>1. produced[k][c] = ItemValue(stmt.items[c], Keep(filtered, Grouping[k]))
    BY <1>1 DEF GroupedAnswer
  <2>2. Keep(filtered, Grouping[k]) # <<>> /\ Keep(filtered, Grouping[k])[1] = FirstOf(k)
    BY GroupFirst
  <2>3. ItemValue(stmt.items[c], Keep(filtered, Grouping[k])) = FirstOf(k)[groupIdxs[g]]
    BY <1>1, <1>2, <2>2 DEF ItemValue
  <2>4. Shown(k, g) = produced[k][c]
    BY DEF Shown, c
  <2> QED
    BY <2>1, <2>3, <2>4
<1>4. ASSUME NEW j \in DOMAIN filtered
      PROVE  filtered[j][groupIdxs[g]] \in Field
  <2>1. filtered \in Seq(Seq(Field)) /\ CanShow(stmt.items[c], filtered)
    BY <1>1 DEF GroupedAnswer
  <2>2. groupIdxs[g] \in DOMAIN filtered[j]
    BY <1>1, <1>2, <2>1 DEF CanShow
  <2>3. filtered[j] \in Seq(Field)
    BY <2>1
  <2> QED
    BY <2>2, <2>3
<1> QED
  BY <1>3, <1>4

\* The words of a row's key.
LEMMA KeyWords ==
    ASSUME NEW row
    PROVE  makeKey(row) = [g \in DOMAIN stmt.groupBy |-> Word(row[groupIdxs[g]])]
<1>1. DOMAIN groupIdxs = DOMAIN stmt.groupBy
  BY DEF groupIdxs
<1> QED
  BY <1>1 DEF makeKey

\* Two groups that show all columns of GROUP BY differ in one of them.
LEMMA GroupsDiffer ==
    ASSUME GroupedAnswer, stmt \in Statements,
           \A g \in DOMAIN stmt.groupBy : HeaderIndex(stmt.groupBy[g], stmt.items) # 0,
           NEW k1 \in DOMAIN produced, NEW k2 \in DOMAIN produced, k1 # k2
    PROVE  \E g \in DOMAIN stmt.groupBy : Shown(k1, g) # Shown(k2, g)
<1> DEFINE w(k, g) == Word(FirstOf(k)[groupIdxs[g]])
<1>1. /\ k1 \in 1 .. GroupCount /\ k2 \in 1 .. GroupCount
      /\ Splits(Grouping, GroupCount, Len(filtered), 1 .. Len(filtered))
  BY DEF GroupedAnswer
<1>2. Grouping[k1] \cap Grouping[k2] = {}
  BY <1>1 DEF Splits
<1>3. makeKey(FirstOf(k1)) # makeKey(FirstOf(k2))
  <2>1. Nth(Grouping[k1], 1) \in Grouping[k1] /\ Nth(Grouping[k1], 1) \in DOMAIN filtered
    BY <1>1, GroupFirst
  <2>2. Nth(Grouping[k1], 1) \notin Grouping[k2]
    BY <1>2, <2>1
  <2>3. Grouping[k2] = {j \in DOMAIN filtered : makeKey(filtered[j]) = makeKey(FirstOf(k2))}
    BY <1>1, GroupFirst
  <2> QED
    BY <2>1, <2>2, <2>3 DEF FirstOf
<1>4. /\ makeKey(FirstOf(k1)) = [g \in DOMAIN stmt.groupBy |-> w(k1, g)]
      /\ makeKey(FirstOf(k2)) = [g \in DOMAIN stmt.groupBy |-> w(k2, g)]
  BY KeyWords
<1> HIDE DEF w
<1>5. PICK g \in DOMAIN stmt.groupBy : w(k1, g) # w(k2, g)
  <2>1. SUFFICES ASSUME \A g \in DOMAIN stmt.groupBy : w(k1, g) = w(k2, g)
                 PROVE  FALSE
    OBVIOUS
  <2>2. [g \in DOMAIN stmt.groupBy |-> w(k1, g)] = [g \in DOMAIN stmt.groupBy |-> w(k2, g)]
    BY <2>1
  <2> QED
    BY <1>3, <1>4, <2>2
<1>6. w(k1, g) = Word(Shown(k1, g)) /\ w(k2, g) = Word(Shown(k2, g))
  BY <1>1, GroupShown DEF w
<1> QED
  BY <1>5, <1>6

\* Fields of one word are equal, or NULL and the text 'NULL'.
LEMMA SameWord ==
    ASSUME NEW a \in Field, NEW b \in Field, Word(a) = Word(b)
    PROVE  ShownFor(a, b)
<1>1. (a.kind = "NULL" => a = NULL) /\ (b.kind = "NULL" => b = NULL)
  BY FieldParts
<1>2. CASE a.kind = "NULL" /\ b.kind = "NULL"
  BY <1>1, <1>2 DEF ShownFor
<1>3. CASE a.kind = "NULL" /\ b.kind # "NULL"
  <2>1. a = NULL /\ b = [kind |-> "TEXT", data |-> NullWord]
    BY <1>1, <1>3 DEF Word
  <2> QED
    BY <2>1 DEF ShownFor
<1>4. CASE a.kind # "NULL" /\ b.kind = "NULL"
  <2>1. b = NULL /\ a = [kind |-> "TEXT", data |-> NullWord]
    BY <1>1, <1>4 DEF Word
  <2>2. {a, b} = {b, a}
    OBVIOUS
  <2> QED
    BY <2>1, <2>2 DEF ShownFor
<1>5. CASE a.kind # "NULL" /\ b.kind # "NULL"
  BY <1>5 DEF Word, ShownFor
<1> QED
  BY <1>2, <1>3, <1>4, <1>5

\* When the groups show all columns of GROUP BY, some group shows those of each row.
LEMMA GroupsShow ==
    ASSUME GroupedAnswer, stmt \in Statements,
           \A g \in DOMAIN stmt.groupBy : HeaderIndex(stmt.groupBy[g], stmt.items) # 0,
           NEW i \in DOMAIN filtered
    PROVE  \E k \in DOMAIN produced : \A g \in DOMAIN stmt.groupBy :
              ShownFor(filtered[i][groupIdxs[g]], Shown(k, g))
<1>1. /\ DOMAIN produced = 1 .. GroupCount /\ i \in 1 .. Len(filtered)
      /\ Splits(Grouping, GroupCount, Len(filtered), 1 .. Len(filtered))
  BY DEF GroupedAnswer
<1>2. PICK k \in 1 .. GroupCount : i \in Grouping[k]
  <2>1. \A j \in 1 .. Len(filtered) : \E k \in 1 .. GroupCount : j \in Grouping[k]
    BY <1>1 DEF Splits
  <2> QED
    BY <1>1, <2>1
<1>3. makeKey(filtered[i]) = makeKey(FirstOf(k))
  BY <1>2, GroupFirst
<1>4. ASSUME NEW g \in DOMAIN stmt.groupBy
      PROVE  ShownFor(filtered[i][groupIdxs[g]], Shown(k, g))
  <2>1. /\ makeKey(filtered[i])[g] = Word(filtered[i][groupIdxs[g]])
        /\ makeKey(FirstOf(k))[g] = Word(FirstOf(k)[groupIdxs[g]])
    BY KeyWords
  <2>2. filtered[i][groupIdxs[g]] \in Field /\ FirstOf(k)[groupIdxs[g]] \in Field
    <3>1. Nth(Grouping[k], 1) \in DOMAIN filtered
      BY GroupFirst
    <3> QED
      BY <3>1, GroupShown DEF FirstOf
  <2>3. Shown(k, g) = FirstOf(k)[groupIdxs[g]]
    BY GroupShown
  <2> QED
    BY <1>3, <2>1, <2>2, <2>3, SameWord
<1> QED
  BY <1>1, <1>4

\* Counts and sums of the groups add up to those of all rows that matched, the
\* least of their minima is the minimum; groups that show the columns of
\* GROUP BY differ in them and show those of every row, NULL for the text
\* 'NULL' at most, whatever the tables hold.
THEOREM GroupTotals == Spec => []GroupTotalsAgree
<1>1. IInv => GroupTotalsAgree
  <2> SUFFICES ASSUME IInv, pc = "sort", stmt.groupBy # <<>>, filtered # <<>>
               PROVE  GroupTotalsAgree
    BY DEF GroupTotalsAgree
  <2>1. GroupedAnswer
    BY GroupedIs
  <2>2. stmt \in Statements
    BY DEF IInv, RequestOk
  <2>3. ASSUME NEW i \in DOMAIN stmt.items
        PROVE  /\ stmt.items[i].agg = "COUNT" => DataTotal(ColumnOf(produced, i)) = Len(filtered)
               /\ stmt.items[i].agg = "SUM" =>
                    DataTotal(ColumnOf(produced, i)) = calcAgg("SUM", stmt.items[i].arg, filtered).data
               /\ stmt.items[i].agg = "MIN" =>
                    LeastOf(ColumnOf(produced, i)) = calcAgg("MIN", stmt.items[i].arg, filtered)
    BY <2>1, <2>2, CountsAgree, SumsAgree, LeastAgrees
  <2>4. ASSUME \A g \in DOMAIN stmt.groupBy : HeaderIndex(stmt.groupBy[g], stmt.items) # 0
        PROVE  /\ \A k1, k2 \in DOMAIN produced : k1 # k2 =>
                     \E g \in DOMAIN stmt.groupBy : Shown(k1, g) # Shown(k2, g)
               /\ \A i \in DOMAIN filtered : \E k \in DOMAIN produced :
                     \A g \in DOMAIN stmt.groupBy : ShownFor(filtered[i][groupIdxs[g]], Shown(k, g))
    BY <2>1, <2>2, <2>4, GroupsDiffer, GroupsShow
  <2> QED
    BY <2>3, <2>4, Zenon DEF GroupTotalsAgree, DataTotal, ColumnOf
<1> QED
  BY <1>1, SelectInvariant, PTL
=============================================================================
