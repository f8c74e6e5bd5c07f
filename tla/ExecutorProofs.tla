--------------------------- MODULE ExecutorProofs ---------------------------
(***************************************************************************)
(* Proofs about Executor, for any number of connections, databases and     *)
(* tables, any statements (ill-typed ones included), any interleaving and  *)
(* a stop at any step: the variables keep their types, every table file    *)
(* holds aligned records of values of its columns, and so does every row   *)
(* a SELECT answers.                                                       *)
(***************************************************************************)
EXTENDS Executor, PositionsProofs

-----------------------------------------------------------------------------
(* Files of rows: whatever rows are given to a rewrite, the file it leaves  *)
(* holds only values of its columns, in aligned records, and a file like    *)
(* that is read back as rows of its columns, torn or not.                   *)

\* Every record has a field for every column.
Full(recs, cols) == \A i \in DOMAIN recs : Len(recs[i].vals) = Len(cols)

\* The records of a file, torn at its end or not, can be told apart and fit.
GoodRecords(f, cols) ==
    /\ Len(f.recs) <= f.total
    /\ \A i \in DOMAIN f.recs :
         /\ Len(f.recs[i].vals) <= Len(cols)
         /\ i < Len(f.recs) => Len(f.recs[i].vals) = Len(cols)
         /\ \A c \in DOMAIN f.recs[i].vals : FieldOk(f.recs[i].vals[c], cols[c])

LEMMA RecordAt ==
    ASSUME NEW recs \in Seq(Record), NEW i \in 1 .. Len(recs)
    PROVE  recs[i] \in Record /\ recs[i].vals \in Seq(Value)
<1>1. recs[i] \in Record
  OBVIOUS
<1> QED
  BY <1>1 DEF Record

LEMMA FullAt ==
    ASSUME NEW cols, NEW recs \in Seq(Record), Full(recs, cols), NEW i \in 1 .. Len(recs)
    PROVE  Len(recs[i].vals) = Len(cols)
BY DEF Full

LEMMA ZeroType ==
    ASSUME NEW col \in Column
    PROVE  Zero(col.type) \in Value /\ FieldOk(Zero(col.type), col)
BY DEF Zero, Value, KindOf, Column, Types, Kinds, FieldOk

LEMMA NullRowType ==
    ASSUME NEW cols \in Seq(Column)
    PROVE  NullRow(cols) \in Seq(Value) /\ Len(NullRow(cols)) = Len(cols)
BY DEF NullRow, NULL, Value, Kinds

LEMMA FilesType ==
    /\ Absent \in File /\ Empty \in File
    /\ \A names \in Seq(Name) : CatalogFile(names) \in File /\ SchemaFile(names) \in File
    /\ \A n \in Nat, recs \in Seq(Record) : TableData(n, recs) \in File
<1>1. << >> \in Seq(Name) /\ << >> \in Seq(Record)
  OBVIOUS
<1>2. Absent \in File
  BY <1>1 DEF Absent, File, Magic
<1> QED
  BY <1>2 DEF Absent, Empty, CatalogFile, SchemaFile, TableData, File, Magic

\* A catalog or a schema without a name is again one.
LEMMA WithoutType ==
    ASSUME NEW E, NEW s \in Seq(E), NEW x
    PROVE  Without(s, x) \in Seq(E)
<1>1. {i \in DOMAIN s : s[i] # x} \subseteq DOMAIN s
  OBVIOUS
<1> QED
  BY <1>1, KeepType DEF Without

-----------------------------------------------------------------------------
(* Reading.                                                                *)

\* A record that was cut short is completed with zeros of its columns.
LEMMA ReadFieldsType ==
    ASSUME NEW cols \in Seq(Column), NEW vals \in Seq(Value)
    PROVE  /\ ReadFields(vals, cols) \in Seq(Value)
           /\ Len(ReadFields(vals, cols)) = Len(cols)
           /\ (\A c \in DOMAIN vals : FieldOk(vals[c], cols[c]))
                => RowOk(ReadFields(vals, cols), cols)
<1>1. \A c \in 1 .. Len(cols) : /\ Zero(cols[c].type) \in Value
                                /\ FieldOk(Zero(cols[c].type), cols[c])
  BY ZeroType
<1>2. \A c \in 1 .. Len(cols) : c <= Len(vals) => c \in DOMAIN vals /\ vals[c] \in Value
  OBVIOUS
<1>3. ReadFields(vals, cols) \in [1 .. Len(cols) -> Value]
  BY <1>1, <1>2 DEF ReadFields
<1>4. ReadFields(vals, cols) \in Seq(Value) /\ Len(ReadFields(vals, cols)) = Len(cols)
  BY <1>3
<1>5. ASSUME \A c \in DOMAIN vals : FieldOk(vals[c], cols[c])
      PROVE  RowOk(ReadFields(vals, cols), cols)
  BY <1>1, <1>2, <1>5 DEF RowOk, ReadFields
<1> QED
  BY <1>4, <1>5

\* What is read has the count of the header and fits the columns.
LEMMA ReadRecordsType ==
    ASSUME NEW f \in File, NEW cols \in Seq(Column)
    PROVE  /\ ReadRecords(f, cols) \in Seq(Record)
           /\ Len(ReadRecords(f, cols)) = f.total
           /\ Full(ReadRecords(f, cols), cols)
           /\ GoodRecords(f, cols) => \A i \in DOMAIN ReadRecords(f, cols) :
                                         RowOk(ReadRecords(f, cols)[i].vals, cols)
<1> DEFINE R == ReadRecords(f, cols)
<1>1. f.total \in Nat /\ f.recs \in Seq(Record)
  BY DEF File
<1>2. /\ << >> \in Seq(Value)
      /\ DOMAIN R = 1 .. f.total
  BY DEF ReadRecords
<1>3. ASSUME NEW i \in 1 .. f.total
      PROVE  /\ R[i] \in Record
             /\ Len(R[i].vals) = Len(cols)
             /\ GoodRecords(f, cols) => RowOk(R[i].vals, cols)
  <2>1. CASE i <= Len(f.recs)
    <3> DEFINE r == f.recs[i]
    <3>1. i \in DOMAIN f.recs /\ r \in Record
      BY <1>1, <2>1
    <3>2. R[i] = [r EXCEPT !.vals = ReadFields(r.vals, cols)]
      BY <2>1 DEF ReadRecords
    <3>3. r.vals \in Seq(Value)
      BY <3>1 DEF Record
    <3>4. GoodRecords(f, cols) => \A c \in DOMAIN r.vals : FieldOk(r.vals[c], cols[c])
      BY <3>1 DEF GoodRecords
    <3> HIDE DEF r, R
    <3>5. /\ ReadFields(r.vals, cols) \in Seq(Value)
          /\ Len(ReadFields(r.vals, cols)) = Len(cols)
          /\ GoodRecords(f, cols) => RowOk(ReadFields(r.vals, cols), cols)
      BY <3>3, <3>4, ReadFieldsType
    <3> QED
      BY <3>1, <3>2, <3>5 DEF Record
  <2>2. CASE ~ (i <= Len(f.recs))
    <3>1. R[i] = [del |-> FALSE, vals |-> ReadFields(<<>>, cols)]
      BY <2>2 DEF ReadRecords
    <3>2. \A c \in DOMAIN << >> : FieldOk(<< >>[c], cols[c])
      OBVIOUS
    <3> HIDE DEF R
    <3>3. /\ ReadFields(<<>>, cols) \in Seq(Value)
          /\ Len(ReadFields(<<>>, cols)) = Len(cols)
          /\ RowOk(ReadFields(<<>>, cols), cols)
      BY <1>2, <3>2, ReadFieldsType
    <3> QED
      BY <3>1, <3>3 DEF Record
  <2> QED
    BY <2>1, <2>2
<1> HIDE DEF R
<1>4. R = [i \in 1 .. f.total |-> R[i]]
  BY DEF R, ReadRecords
<1>5. R \in Seq(Record) /\ Len(R) = f.total
  <2>1. R \in [1 .. f.total -> Record]
    BY <1>3, <1>4
  <2> QED
    BY <1>1, <2>1
<1> QED
  BY <1>2, <1>3, <1>5 DEF Full, R

-----------------------------------------------------------------------------
(* The rewrites.                                                           *)

LEMMA AssignType ==
    ASSUME NEW cols \in Seq(Column), NEW row \in Seq(Value), Len(row) = Len(cols),
           NEW names \in Seq(ColumnName), NEW values \in Seq(Value),
           Len(values) = Len(names)
    PROVE  /\ Assign(row, names, values, cols) \in Seq(Value)
           /\ Len(Assign(row, names, values, cols)) = Len(cols)
<1> DEFINE given(c) == {i \in DOMAIN names : ColumnIndex(names[i], cols) = c}
<1>1. ASSUME NEW c \in 1 .. Len(cols), given(c) # {}
      PROVE  values[Max(given(c))] \in Value
  <2>1. given(c) \subseteq 1 .. Len(names) /\ Len(names) \in Nat
    OBVIOUS
  <2> HIDE DEF given
  <2>2. Max(given(c)) \in 1 .. Len(names)
    BY <1>1, <2>1, MaxIsGreatest
  <2> QED
    BY <2>2
<1>2. \A c \in 1 .. Len(cols) : row[c] \in Value
  OBVIOUS
<1>3. Assign(row, names, values, cols) \in [1 .. Len(cols) -> Value]
  <2>1. Assign(row, names, values, cols) =
          [c \in 1 .. Len(cols) |-> IF given(c) = {} THEN row[c] ELSE values[Max(given(c))]]
    BY DEF Assign
  <2> HIDE DEF given
  <2> QED
    BY <1>1, <1>2, <2>1
<1> QED
  BY <1>3

\* INSERT: the rows go after the records.
LEMMA AppendRowsType ==
    ASSUME NEW cols, NEW recs \in Seq(Record), Full(recs, cols),
           NEW rows \in Seq(Seq(Value)), \A i \in DOMAIN rows : Len(rows[i]) = Len(cols)
    PROVE  appendRows(recs, rows) \in Seq(Record) /\ Full(appendRows(recs, rows), cols)
<1> DEFINE new == [i \in 1 .. Len(rows) |-> [del |-> FALSE, vals |-> rows[i]]]
<1>1. \A i \in 1 .. Len(rows) : new[i] \in Record /\ Len(new[i].vals) = Len(cols)
  BY DEF Record
<1>2. new \in Seq(Record) /\ Len(new) = Len(rows)
  BY <1>1
<1>3. appendRows(recs, rows) = recs \o new
  BY DEF appendRows
<1> HIDE DEF new
<1>4. appendRows(recs, rows) \in Seq(Record)
  BY <1>2, <1>3
<1>5. \A i \in DOMAIN appendRows(recs, rows) :
        \/ i \in DOMAIN recs /\ appendRows(recs, rows)[i] = recs[i]
        \/ i - Len(recs) \in 1 .. Len(rows) /\ appendRows(recs, rows)[i] = new[i - Len(recs)]
  BY <1>2, <1>3
<1>6. \A i \in DOMAIN recs : Len(recs[i].vals) = Len(cols)
  BY DEF Full
<1>7. ASSUME NEW i \in DOMAIN appendRows(recs, rows)
      PROVE  Len(appendRows(recs, rows)[i].vals) = Len(cols)
  <2>1. CASE i \in DOMAIN recs /\ appendRows(recs, rows)[i] = recs[i]
    BY <1>6, <2>1
  <2>2. CASE i - Len(recs) \in 1 .. Len(rows) /\ appendRows(recs, rows)[i] = new[i - Len(recs)]
    BY <1>1, <2>2
  <2> QED
    BY <1>5, <2>1, <2>2
<1> QED
  BY <1>4, <1>7 DEF Full

LEMMA DeleteRowsType ==
    ASSUME NEW cols, NEW recs \in Seq(Record), Full(recs, cols), NEW hits
    PROVE  deleteRows(recs, hits) \in Seq(Record) /\ Full(deleteRows(recs, hits), cols)
<1>1. ASSUME NEW i \in 1 .. Len(recs)
      PROVE  /\ deleteRows(recs, hits)[i] \in Record
             /\ deleteRows(recs, hits)[i].vals = recs[i].vals
  <2>1. recs[i] \in Record
    OBVIOUS
  <2>2. deleteRows(recs, hits)[i] = [recs[i] EXCEPT !.del = i \in hits \/ recs[i].del]
    BY DEF deleteRows
  <2> QED
    BY <2>1, <2>2 DEF Record
<1>2. /\ deleteRows(recs, hits) = [i \in 1 .. Len(recs) |-> deleteRows(recs, hits)[i]]
      /\ DOMAIN deleteRows(recs, hits) = 1 .. Len(recs)
  BY DEF deleteRows
<1> QED
  BY <1>1, <1>2 DEF Full

LEMMA UpdateRowsType ==
    ASSUME NEW cols \in Seq(Column), NEW recs \in Seq(Record), Full(recs, cols), NEW hits,
           NEW names \in Seq(ColumnName), NEW values \in Seq(Value),
           Len(values) = Len(names)
    PROVE  /\ updateRows(recs, hits, names, values, cols) \in Seq(Record)
           /\ Full(updateRows(recs, hits, names, values, cols), cols)
<1> DEFINE U == updateRows(recs, hits, names, values, cols)
<1>1. ASSUME NEW i \in 1 .. Len(recs)
      PROVE  U[i] \in Record /\ Len(U[i].vals) = Len(cols)
  <2>1. recs[i] \in Record /\ Len(recs[i].vals) = Len(cols)
    BY DEF Full
  <2>2. recs[i].vals \in Seq(Value)
    BY <2>1 DEF Record
  <2> DEFINE new == Assign(recs[i].vals, names, values, cols)
  <2>3. U[i] = IF i \in hits THEN [recs[i] EXCEPT !.vals = new] ELSE recs[i]
    BY DEF updateRows
  <2>4. new \in Seq(Value) /\ Len(new) = Len(cols)
    BY <2>1, <2>2, AssignType
  <2> HIDE DEF new, U
  <2> QED
    BY <2>1, <2>3, <2>4 DEF Record
<1>2. /\ U = [i \in 1 .. Len(recs) |-> U[i]]
      /\ DOMAIN U = 1 .. Len(recs)
  BY DEF updateRows
<1> HIDE DEF U
<1>3. U \in Seq(Record) /\ Full(U, cols)
  BY <1>1, <1>2 DEF Full
<1> QED
  BY <1>3 DEF U

-----------------------------------------------------------------------------
(* What reaches the file.                                                  *)

LEMMA WrittenFieldsType ==
    ASSUME NEW cols \in Seq(Column), NEW vals \in Seq(Value), Len(vals) = Len(cols),
           ~ RowOk(vals, cols)
    PROVE  /\ WrittenFields(vals, cols) \in Seq(Value)
           /\ Len(WrittenFields(vals, cols)) <= Len(cols)
           /\ \A c \in DOMAIN WrittenFields(vals, cols) :
                FieldOk(WrittenFields(vals, cols)[c], cols[c])
<1> DEFINE B == {c \in DOMAIN cols : ~ FieldOk(vals[c], cols[c])}
           m == Min(B)
<1>1. B \subseteq Nat /\ B # {}
  BY DEF RowOk
<1>2. m \in B /\ \A c \in B : m <= c
  BY <1>1, MinIsLeast
<1>3. m \in 1 .. Len(cols) /\ \A c \in 1 .. m - 1 : FieldOk(vals[c], cols[c])
  <2>1. m \in 1 .. Len(cols)
    BY <1>2
  <2> HIDE DEF m
  <2>2. \A c \in 1 .. m - 1 : c \in 1 .. Len(cols) /\ ~ (m <= c)
    BY <2>1
  <2>3. \A c \in 1 .. m - 1 : c \notin B
    BY <1>2, <2>2
  <2>4. \A c \in 1 .. Len(cols) : c \notin B => FieldOk(vals[c], cols[c])
    OBVIOUS
  <2> QED
    BY <2>1, <2>2, <2>3, <2>4
<1>4. WrittenFields(vals, cols) = SubSeq(vals, 1, m - 1)
  BY DEF WrittenFields
<1> HIDE DEF m, B
<1> QED
  BY <1>3, <1>4

\* Of the rows given to a rewrite, whole and well typed ones reach the file,
\* and at most the last one is cut short, before its first wrong value.
LEMMA RewriteGood ==
    ASSUME NEW cols \in Seq(Column), NEW recs \in Seq(Record), Full(recs, cols)
    PROVE  Rewrite(recs, cols) \in File /\ GoodRecords(Rewrite(recs, cols), cols)
<1> DEFINE W == Written(recs, cols)
<1>1. W \in Seq(Record) /\ Len(W) <= Len(recs)
      /\ \A i \in DOMAIN W :
           /\ Len(W[i].vals) <= Len(cols)
           /\ i < Len(W) => Len(W[i].vals) = Len(cols)
           /\ \A c \in DOMAIN W[i].vals : FieldOk(W[i].vals[c], cols[c])
  <2>1. CASE ~ WriteThrows(recs, cols)
    <3>1. W = recs
      BY <2>1 DEF Written
    <3>2. \A i \in DOMAIN recs : RowOk(recs[i].vals, cols)
      BY <2>1 DEF WriteThrows, IllTyped
    <3>3. \A i \in 1 .. Len(recs) : /\ Len(recs[i].vals) = Len(cols)
                                    /\ recs[i].vals \in Seq(Value)
      BY RecordAt, FullAt
    <3>4. ASSUME NEW i \in 1 .. Len(recs)
          PROVE  \A c \in DOMAIN recs[i].vals : FieldOk(recs[i].vals[c], cols[c])
      <4>1. DOMAIN recs[i].vals = DOMAIN cols
        BY <3>3
      <4> QED
        BY <3>2, <4>1 DEF RowOk
    <3> QED
      BY <3>1, <3>3, <3>4
  <2>2. CASE WriteThrows(recs, cols)
    <3> DEFINE n    == Min(IllTyped(recs, cols))
               last == [recs[n] EXCEPT !.vals = WrittenFields(recs[n].vals, cols)]
    <3>1. n \in IllTyped(recs, cols) /\ \A i \in IllTyped(recs, cols) : n <= i
      <4>1. IllTyped(recs, cols) \subseteq Nat /\ IllTyped(recs, cols) # {}
        BY <2>2 DEF IllTyped, WriteThrows
      <4> QED
        BY <4>1, MinIsLeast
    <3>2. n \in 1 .. Len(recs) /\ ~ RowOk(recs[n].vals, cols)
      BY <3>1 DEF IllTyped
    <3>3. \A i \in 1 .. n - 1 : i \in 1 .. Len(recs) /\ RowOk(recs[i].vals, cols)
      <4> HIDE DEF n
      <4>1. \A i \in 1 .. n - 1 : i \in 1 .. Len(recs) /\ ~ (n <= i)
        BY <3>2
      <4>2. \A i \in 1 .. n - 1 : i \notin IllTyped(recs, cols)
        BY <3>1, <4>1
      <4> QED
        BY <4>1, <4>2 DEF IllTyped
    <3>4. W = Append(SubSeq(recs, 1, n - 1), last)
      BY <2>2 DEF Written
    <3> HIDE DEF n
    <3>5. recs[n] \in Record /\ recs[n].vals \in Seq(Value) /\ Len(recs[n].vals) = Len(cols)
      BY <3>2, RecordAt, FullAt
    <3> DEFINE wf == WrittenFields(recs[n].vals, cols)
    <3>6. /\ wf \in Seq(Value) /\ Len(wf) <= Len(cols)
          /\ \A c \in DOMAIN wf : FieldOk(wf[c], cols[c])
      BY <3>2, <3>5, WrittenFieldsType
    <3> HIDE DEF wf
    <3>7. last \in Record /\ last.vals = wf
      BY <3>5, <3>6 DEF Record, wf
    <3> HIDE DEF last, W
    <3>8. /\ W \in Seq(Record) /\ Len(W) = n /\ W[n] = last
          /\ \A i \in 1 .. n - 1 : W[i] = recs[i]
      BY <3>2, <3>4, <3>7
    <3>9. \A i \in 1 .. n - 1 : /\ Len(recs[i].vals) = Len(cols)
                                 /\ recs[i].vals \in Seq(Value)
      BY <3>3, RecordAt, FullAt
    <3>10. \A i \in 1 .. n - 1 : \A c \in DOMAIN recs[i].vals : FieldOk(recs[i].vals[c], cols[c])
      <4> SUFFICES ASSUME NEW i \in 1 .. n - 1
                   PROVE  \A c \in DOMAIN recs[i].vals : FieldOk(recs[i].vals[c], cols[c])
        OBVIOUS
      <4>1. DOMAIN recs[i].vals = DOMAIN cols
        BY <3>9
      <4> QED
        BY <3>3, <4>1 DEF RowOk
    <3>11. ASSUME NEW i \in DOMAIN W
           PROVE  /\ Len(W[i].vals) <= Len(cols)
                  /\ i < Len(W) => Len(W[i].vals) = Len(cols)
                  /\ \A c \in DOMAIN W[i].vals : FieldOk(W[i].vals[c], cols[c])
      <4>1. CASE i = n
        BY <3>6, <3>7, <3>8, <4>1
      <4>2. CASE i \in 1 .. n - 1
        BY <3>8, <3>9, <3>10, <4>2
      <4> QED
        BY <3>2, <3>8, <4>1, <4>2
    <3> QED
      BY <3>2, <3>8, <3>11
  <2> QED
    BY <2>1, <2>2
<1> HIDE DEF W
<1>2. Rewrite(recs, cols) = TableData(Len(recs), W)
  BY DEF Rewrite, W
<1>3. Rewrite(recs, cols) \in File
  BY <1>1, <1>2, FilesType
<1>4. Rewrite(recs, cols).total = Len(recs) /\ Rewrite(recs, cols).recs = W
  BY <1>2 DEF TableData, Absent
<1> QED
  BY <1>1, <1>3, <1>4 DEF GoodRecords

\* The first part of a good file, flushed before the rest, is good.
LEMMA PrefixGood ==
    ASSUME NEW cols \in Seq(Column), NEW f \in File, GoodRecords(f, cols),
           NEW n \in Nat, n < Len(f.recs)
    PROVE  /\ TableData(f.total, SubSeq(f.recs, 1, n)) \in File
           /\ GoodRecords(TableData(f.total, SubSeq(f.recs, 1, n)), cols)
<1> DEFINE p == SubSeq(f.recs, 1, n)
           g == TableData(f.total, p)
<1>1. f.total \in Nat /\ f.recs \in Seq(Record)
  BY DEF File
<1>2. /\ p \in Seq(Record) /\ Len(p) = n
      /\ \A i \in 1 .. n : p[i] = f.recs[i] /\ i \in DOMAIN f.recs /\ i < Len(f.recs)
  BY <1>1
<1> HIDE DEF p
<1>3. g \in File /\ g.total = f.total /\ g.recs = p
  BY <1>1, <1>2, FilesType DEF TableData, Absent
<1> HIDE DEF g
<1>4. GoodRecords(g, cols)
  BY <1>1, <1>2, <1>3 DEF GoodRecords
<1> QED
  BY <1>3, <1>4 DEF p, g

\* The rows a scan returns are fields of records it matched.
LEMMA RowsAtElement ==
    ASSUME NEW recs \in Seq(Record), NEW hits, hits \subseteq DOMAIN recs,
           NEW k \in DOMAIN RowsAt(recs, hits)
    PROVE  \E i \in hits : RowsAt(recs, hits)[k] = recs[i].vals
<1>1. k \in DOMAIN Keep(recs, hits) /\ RowsAt(recs, hits)[k] = Keep(recs, hits)[k].vals
  BY DEF RowsAt, Keep
<1>2. Nth(hits, k) \in hits /\ Keep(recs, hits)[k] = recs[Nth(hits, k)]
  BY <1>1, KeepType
<1> QED
  BY <1>1, <1>2

LEMMA RowsAtType ==
    ASSUME NEW recs \in Seq(Record), NEW hits, hits \subseteq DOMAIN recs
    PROVE  RowsAt(recs, hits) \in Seq(Seq(Value))
<1> DEFINE n == Cardinality(hits)
           R == RowsAt(recs, hits)
<1>1. n \in Nat
  BY hits \subseteq 1 .. Len(recs), Len(recs) \in Nat, RankInjective, FS_CardinalityType
<1>2. \A k \in 1 .. n : \E i \in 1 .. Len(recs) : R[k] = recs[i].vals
  BY RowsAtElement DEF RowsAt
<1>3. \A k \in 1 .. n : R[k] \in Seq(Value)
  BY <1>2, RecordAt
<1>4. R = [k \in 1 .. n |-> R[k]]
  BY DEF RowsAt
<1> HIDE DEF n, R
<1>5. R \in [1 .. n -> Seq(Value)]
  BY <1>3, <1>4
<1> QED
  BY <1>1, <1>5 DEF R

\* A full row is read back as it was written.
LEMMA ReadFullFields ==
    ASSUME NEW cols \in Seq(Column), NEW rec \in Record, Len(rec.vals) = Len(cols)
    PROVE  [rec EXCEPT !.vals = ReadFields(rec.vals, cols)] = rec
<1>1. rec.vals \in Seq(Value)
  BY DEF Record
<1> DEFINE vals == rec.vals
<1>2. ReadFields(vals, cols) = [c \in 1 .. Len(cols) |-> vals[c]]
  BY <1>1 DEF ReadFields
<1>3. vals = [c \in 1 .. Len(cols) |-> vals[c]]
  BY <1>1
<1>4. ReadFields(vals, cols) = rec.vals
  BY <1>2, <1>3
<1> QED
  BY <1>4 DEF Record

\* The records that reach the file are those before the first wrong value.
LEMMA WrittenKeeps ==
    ASSUME NEW cols \in Seq(Column), NEW recs \in Seq(Record),
           NEW n \in Nat, n <= Len(recs), \A i \in 1 .. n : RowOk(recs[i].vals, cols)
    PROVE  \A i \in 1 .. n : i <= Len(Written(recs, cols)) /\ Written(recs, cols)[i] = recs[i]
<1>1. CASE ~ WriteThrows(recs, cols)
  BY <1>1 DEF Written
<1>2. CASE WriteThrows(recs, cols)
  <2> DEFINE m    == Min(IllTyped(recs, cols))
             last == [recs[m] EXCEPT !.vals = WrittenFields(recs[m].vals, cols)]
  <2>1. m \in IllTyped(recs, cols)
    <3>1. IllTyped(recs, cols) \subseteq Nat /\ IllTyped(recs, cols) # {}
      BY <1>2 DEF IllTyped, WriteThrows
    <3> QED
      BY <3>1, MinIsLeast
  <2>2. m \in 1 .. Len(recs) /\ ~ RowOk(recs[m].vals, cols)
    BY <2>1 DEF IllTyped
  <2>3. Written(recs, cols) = Append(SubSeq(recs, 1, m - 1), last)
    BY <1>2 DEF Written
  <2> HIDE DEF m, last
  <2>4. \A i \in 1 .. n : i # m
    BY <2>2
  <2>5. n < m
    BY <2>2, <2>4
  <2>6. /\ SubSeq(recs, 1, m - 1) \in Seq(Record) /\ Len(SubSeq(recs, 1, m - 1)) = m - 1
        /\ \A i \in 1 .. m - 1 : SubSeq(recs, 1, m - 1)[i] = recs[i]
    BY <2>2
  <2> DEFINE head == SubSeq(recs, 1, m - 1)
  <2> HIDE DEF head
  <2>7. head \in Seq(Record) /\ Len(head) = m - 1 /\ \A i \in 1 .. m - 1 : head[i] = recs[i]
    BY <2>6 DEF head
  <2>8. \A i \in 1 .. m - 1 : i <= Len(Append(head, last)) /\ Append(head, last)[i] = head[i]
    BY <2>2, <2>7
  <2> QED
    BY <2>2, <2>3, <2>5, <2>7, <2>8 DEF head
<1> QED
  BY <1>1, <1>2

\* What a rewrite leaves is read back: as many records as were given to it,
\* and every record before the first wrong value as it was.
LEMMA ReadBack ==
    ASSUME NEW cols \in Seq(Column), NEW recs \in Seq(Record), Full(recs, cols),
           NEW n \in Nat, n <= Len(recs), \A i \in 1 .. n : RowOk(recs[i].vals, cols)
    PROVE  /\ ReadRecords(Rewrite(recs, cols), cols) \in Seq(Record)
           /\ Len(ReadRecords(Rewrite(recs, cols), cols)) = Len(recs)
           /\ \A i \in 1 .. n : ReadRecords(Rewrite(recs, cols), cols)[i] = recs[i]
<1> DEFINE W == Written(recs, cols)
           f == Rewrite(recs, cols)
<1>1. f \in File /\ f.total = Len(recs) /\ f.recs = W
  BY RewriteGood DEF Rewrite, TableData, Absent
<1>2. \A i \in 1 .. n : i <= Len(W) /\ W[i] = recs[i]
  BY WrittenKeeps
<1> HIDE DEF W, f
<1>3. ReadRecords(f, cols) \in Seq(Record) /\ Len(ReadRecords(f, cols)) = Len(recs)
  BY <1>1, ReadRecordsType
<1>4. ASSUME NEW i \in 1 .. n
      PROVE  ReadRecords(f, cols)[i] = recs[i]
  <2>1. recs[i] \in Record /\ Len(recs[i].vals) = Len(cols)
    BY RecordAt, FullAt
  <2>2. ReadRecords(f, cols)[i] = [recs[i] EXCEPT !.vals = ReadFields(recs[i].vals, cols)]
    BY <1>1, <1>2 DEF ReadRecords
  <2> QED
    BY <2>1, <2>2, ReadFullFields
<1> QED
  BY <1>3, <1>4 DEF f


\* A rewrite that meets no value of a wrong kind is read back as it was given:
\* the deletion flags, the order and the values of all records.
THEOREM RewriteIsReadBack ==
    ASSUME NEW cols \in Seq(Column), NEW recs \in Seq(Record), Full(recs, cols),
           ~ WriteThrows(recs, cols)
    PROVE  ReadRecords(Rewrite(recs, cols), cols) = recs
<1>1. \A i \in 1 .. Len(recs) : RowOk(recs[i].vals, cols)
  BY DEF WriteThrows, IllTyped
<1>2. Len(recs) \in Nat /\ Len(recs) <= Len(recs)
  OBVIOUS
<1>3. PICK read : read = ReadRecords(Rewrite(recs, cols), cols)
  OBVIOUS
<1>4. /\ read \in Seq(Record) /\ Len(read) = Len(recs)
      /\ \A i \in 1 .. Len(recs) : read[i] = recs[i]
  BY <1>1, <1>2, <1>3, ReadBack
<1>5. read = recs
  BY <1>4
<1> QED
  BY <1>3, <1>5

\* The rows of a table are the fields of the records that are not deleted.
LiveAt(recs)   == {i \in DOMAIN recs : Live(recs[i])}
LiveRows(recs) == RowsAt(recs, LiveAt(recs))

\* The rows a predicate picks.
Picks(rs, cols, where) == {k \in DOMAIN rs : matchesWhere(rs[k], cols, where)}

\* What RowsAt returns: one row for each position.
AreRows(recs, S) ==
    /\ RowsAt(recs, S) \in Seq(Seq(Value))
    /\ Len(RowsAt(recs, S)) = Cardinality(S) /\ Cardinality(S) \in Nat
    /\ \A k \in 1 .. Cardinality(S) :
         Nth(S, k) \in S /\ RowsAt(recs, S)[k] = recs[Nth(S, k)].vals

LEMMA RowsAtAre ==
    ASSUME NEW recs \in Seq(Record), NEW S, S \subseteq DOMAIN recs
    PROVE  AreRows(recs, S)
<1>1. /\ Keep(recs, S) \in Seq(Record) /\ Len(Keep(recs, S)) = Cardinality(S)
      /\ \A k \in DOMAIN Keep(recs, S) : Nth(S, k) \in S /\ Keep(recs, S)[k] = recs[Nth(S, k)]
  BY KeepType
<1>2. Cardinality(S) \in Nat /\ DOMAIN Keep(recs, S) = 1 .. Cardinality(S)
  BY <1>1
<1>3. RowsAt(recs, S) \in Seq(Seq(Value))
  BY RowsAtType
<1>4. RowsAt(recs, S) = [k \in 1 .. Cardinality(S) |-> Keep(recs, S)[k].vals]
  BY DEF RowsAt
<1>5. \A k \in 1 .. Cardinality(S) :
        Nth(S, k) \in S /\ RowsAt(recs, S)[k] = recs[Nth(S, k)].vals
  BY <1>1, <1>2, <1>4
<1>6. DOMAIN RowsAt(recs, S) = 1 .. Cardinality(S)
  BY <1>4
<1>7. Len(RowsAt(recs, S)) = Cardinality(S)
  BY <1>2, <1>3, <1>6
<1> QED
  BY <1>2, <1>3, <1>5, <1>7 DEF AreRows

\* Rows at some of the positions S are some of the rows at S.
LEMMA SomeRows ==
    ASSUME NEW recs \in Seq(Record), NEW S, S \subseteq DOMAIN recs,
           NEW V, NEW U, Among(U, S, V)
    PROVE  /\ RowsAt(recs, V) = Keep(RowsAt(recs, S), U)
           /\ Cardinality(U) = Cardinality(V)
<1>1. S \subseteq 1 .. Len(recs) /\ Len(recs) \in Nat /\ V \subseteq DOMAIN recs
  BY DEF Among
<1>2. /\ Cardinality(U) = Cardinality(V)
      /\ \A m \in 1 .. Cardinality(U) : Nth(V, m) = Nth(S, Nth(U, m))
  <2>1. Nested(U, S, V)
    BY <1>1, NthNth
  <2> QED
    BY <2>1 DEF Nested
<1>3. /\ Cardinality(S) \in Nat
      /\ \A k \in 1 .. Cardinality(S) : RowsAt(recs, S)[k] = recs[Nth(S, k)].vals
  BY RowsAtAre DEF AreRows
<1>4. /\ Cardinality(V) \in Nat /\ Len(RowsAt(recs, V)) = Cardinality(V)
      /\ RowsAt(recs, V) \in Seq(Seq(Value))
      /\ \A k \in 1 .. Cardinality(V) : RowsAt(recs, V)[k] = recs[Nth(V, k)].vals
  BY <1>1, RowsAtAre DEF AreRows
<1>5. \A m \in 1 .. Cardinality(U) : Nth(U, m) \in 1 .. Cardinality(S)
  <2>1. U \subseteq 1 .. Cardinality(S)
    BY DEF Among
  <2>2. Counted(U)
    BY <1>3, <2>1, NthGrows
  <2> QED
    BY <2>1, <2>2 DEF Counted
<1>6. ASSUME NEW m \in 1 .. Cardinality(U)
      PROVE  RowsAt(recs, V)[m] = RowsAt(recs, S)[Nth(U, m)]
  <2>1. PICK u, v : u = Nth(U, m) /\ v = Nth(V, m)
    OBVIOUS
  <2>2. m \in 1 .. Cardinality(V) /\ u \in 1 .. Cardinality(S) /\ v = Nth(S, u)
    BY <1>2, <1>5, <2>1
  <2>3. RowsAt(recs, V)[m] = recs[v].vals
    BY <1>4, <2>1, <2>2
  <2>4. RowsAt(recs, S)[u] = recs[v].vals
    BY <1>3, <2>2
  <2> QED
    BY <2>1, <2>3, <2>4
<1>7. Keep(RowsAt(recs, S), U) = [m \in 1 .. Cardinality(U) |-> RowsAt(recs, S)[Nth(U, m)]]
  BY DEF Keep
<1>8. RowsAt(recs, V) = [m \in 1 .. Cardinality(V) |-> RowsAt(recs, V)[m]]
  BY DEF RowsAt
<1> QED
  BY <1>2, <1>6, <1>7, <1>8

\* What the scan of a SELECT finds are the rows its WHERE picks, and an
\* UPDATE or DELETE counts as many.
LEMMA PickedRows ==
    ASSUME NEW recs \in Seq(Record), NEW cols, NEW where
    PROVE  LET hits  == Matched(recs, cols, where)
               picks == Picks(LiveRows(recs), cols, where)
           IN  /\ RowsAt(recs, hits) = Keep(LiveRows(recs), picks)
               /\ Cardinality(hits) = Cardinality(picks)
               /\ \A k \in DOMAIN LiveRows(recs) : /\ Nth(LiveAt(recs), k) \in LiveAt(recs)
                                                   /\ LiveRows(recs)[k] = recs[Nth(LiveAt(recs), k)].vals
                                                   /\ k \in picks <=> Nth(LiveAt(recs), k) \in hits
<1> DEFINE S == LiveAt(recs)
           V == Matched(recs, cols, where)
           U == Picks(LiveRows(recs), cols, where)
<1>1. S \subseteq DOMAIN recs /\ V \subseteq S
  BY DEF LiveAt, Matched
<1>2. /\ DOMAIN LiveRows(recs) = 1 .. Cardinality(S)
      /\ \A k \in 1 .. Cardinality(S) :
            Nth(S, k) \in S /\ LiveRows(recs)[k] = recs[Nth(S, k)].vals
  <2> HIDE DEF S
  <2>1. /\ RowsAt(recs, S) \in Seq(Seq(Value)) /\ Len(RowsAt(recs, S)) = Cardinality(S)
        /\ \A k \in 1 .. Cardinality(S) :
                Nth(S, k) \in S /\ RowsAt(recs, S)[k] = recs[Nth(S, k)].vals
    BY <1>1, RowsAtAre DEF AreRows
  <2> QED
    BY <2>1 DEF LiveRows, S
<1>3. \A i \in S : i \in V <=> matchesWhere(recs[i].vals, cols, where)
  BY DEF LiveAt, Matched
<1>4. \A k \in 1 .. Cardinality(S) : k \in U <=> Nth(S, k) \in V
  BY <1>2, <1>3 DEF Picks
<1>5. U \subseteq 1 .. Cardinality(S)
  BY <1>2 DEF Picks
<1>7. Among(U, S, V)
  <2> HIDE DEF U, S, V
  <2> QED
    BY <1>1, <1>4, <1>5 DEF Among
<1> SUFFICES /\ RowsAt(recs, V) = Keep(LiveRows(recs), U)
             /\ Cardinality(V) = Cardinality(U)
  BY <1>2, <1>4
<1>6. LiveRows(recs) = RowsAt(recs, S)
  BY DEF LiveRows
<1> HIDE DEF S, V, U
<1> QED
  BY <1>1, <1>6, <1>7, SomeRows

\* DELETE takes away the rows its WHERE picks.
LEMMA DeletedRows ==
    ASSUME NEW recs \in Seq(Record), NEW cols, NEW where
    PROVE  LiveRows(deleteRows(recs, Matched(recs, cols, where))) =
             Keep(LiveRows(recs), DOMAIN LiveRows(recs) \ Picks(LiveRows(recs), cols, where))
<1> DEFINE hits == Matched(recs, cols, where)
           new  == deleteRows(recs, hits)
           S == LiveAt(recs)
           V == LiveAt(new)
           U == DOMAIN LiveRows(recs) \ Picks(LiveRows(recs), cols, where)
<1>1. DOMAIN new = DOMAIN recs
  BY DEF deleteRows
<1>2. ASSUME NEW i \in DOMAIN recs
      PROVE  new[i].vals = recs[i].vals /\ (Live(new[i]) <=> Live(recs[i]) /\ i \notin hits)
  <2>1. recs[i] \in Record
    OBVIOUS
  <2>2. new[i] = [recs[i] EXCEPT !.del = i \in hits \/ recs[i].del]
    BY DEF deleteRows
  <2> HIDE DEF new, hits
  <2> QED
    BY <2>1, <2>2 DEF Record, Live
<1>3. S \subseteq DOMAIN recs
  BY DEF LiveAt
<1>4. \A i \in DOMAIN recs : i \in V <=> i \in S /\ i \notin hits
  <2> HIDE DEF new, hits
  <2> QED
    BY <1>1, <1>2 DEF LiveAt
<1>5. V \subseteq DOMAIN recs /\ V \subseteq S
  <2>1. V \subseteq DOMAIN recs
    BY <1>1 DEF LiveAt
  <2> HIDE DEF V, S, hits
  <2> QED
    BY <1>4, <2>1
<1>6. /\ DOMAIN LiveRows(recs) = 1 .. Cardinality(S)
      /\ \A k \in 1 .. Cardinality(S) : Nth(S, k) \in S
  <2> HIDE DEF S
  <2>1. /\ RowsAt(recs, S) \in Seq(Seq(Value)) /\ Len(RowsAt(recs, S)) = Cardinality(S)
        /\ \A k \in 1 .. Cardinality(S) : Nth(S, k) \in S
    BY <1>3, RowsAtAre DEF AreRows
  <2> QED
    BY <2>1 DEF LiveRows, S
<1>7. \A k \in 1 .. Cardinality(S) :
         k \in Picks(LiveRows(recs), cols, where) <=> Nth(S, k) \in hits
  BY <1>6, PickedRows
<1>8. Among(U, S, V)
  <2> HIDE DEF V, S, hits
  <2>1. /\ U \subseteq 1 .. Cardinality(S)
        /\ \A k \in 1 .. Cardinality(S) : k \in U <=> Nth(S, k) \in V
    BY <1>3, <1>4, <1>6, <1>7
  <2> HIDE DEF U
  <2> QED
    BY <1>5, <2>1 DEF Among
<1>9. RowsAt(recs, V) = Keep(RowsAt(recs, S), U)
  <2> HIDE DEF V, S, U
  <2> QED
    BY <1>3, <1>8, SomeRows
<1>10. RowsAt(new, V) = RowsAt(recs, V)
  <2>1. new \in Seq(Record) /\ V \subseteq DOMAIN new
    <3>1. new \in [1 .. Len(recs) -> Record]
      <4>1. ASSUME NEW i \in 1 .. Len(recs)
            PROVE  [recs[i] EXCEPT !.del = i \in hits \/ recs[i].del] \in Record
        <5>1. recs[i] \in Record
          OBVIOUS
        <5> HIDE DEF hits
        <5> QED
          BY <5>1 DEF Record
      <4> QED
        BY <4>1 DEF deleteRows
    <3> HIDE DEF new
    <3> QED
      BY <1>1, <1>5, <3>1
  <2> HIDE DEF V, new, hits
  <2>2. /\ RowsAt(new, V) = [k \in 1 .. Cardinality(V) |-> RowsAt(new, V)[k]]
        /\ RowsAt(recs, V) = [k \in 1 .. Cardinality(V) |-> RowsAt(recs, V)[k]]
    BY DEF RowsAt
  <2>3. \A k \in 1 .. Cardinality(V) : Nth(V, k) \in V /\ RowsAt(new, V)[k] = new[Nth(V, k)].vals
    BY <2>1, RowsAtAre DEF AreRows
  <2>4. \A k \in 1 .. Cardinality(V) : RowsAt(recs, V)[k] = recs[Nth(V, k)].vals
    BY <1>5, RowsAtAre DEF AreRows
  <2>5. \A k \in 1 .. Cardinality(V) : RowsAt(new, V)[k] = RowsAt(recs, V)[k]
    BY <1>2, <1>5, <2>3, <2>4
  <2> QED
    BY <2>2, <2>5
<1> QED
  BY <1>9, <1>10 DEF LiveRows

\* UPDATE sets the named columns of the rows its WHERE picks.
LEMMA UpdatedRows ==
    ASSUME NEW cols \in Seq(Column), NEW recs \in Seq(Record), Full(recs, cols), NEW where,
           NEW names \in Seq(ColumnName), NEW values \in Seq(Value), Len(values) = Len(names)
    PROVE  LET L == LiveRows(recs)
           IN  LiveRows(updateRows(recs, Matched(recs, cols, where), names, values, cols)) =
                 [k \in 1 .. Len(L) |-> IF k \in Picks(L, cols, where)
                                        THEN Assign(L[k], names, values, cols) ELSE L[k]]
<1> DEFINE hits == Matched(recs, cols, where)
           new  == updateRows(recs, hits, names, values, cols)
           L == LiveRows(recs)
           S == LiveAt(recs)
<1>1. DOMAIN new = DOMAIN recs
  BY DEF updateRows
<1>2. ASSUME NEW i \in DOMAIN recs
      PROVE  /\ new[i].vals = IF i \in hits THEN Assign(recs[i].vals, names, values, cols)
                              ELSE recs[i].vals
             /\ Live(new[i]) <=> Live(recs[i])
  <2>1. recs[i] \in Record
    OBVIOUS
  <2> DEFINE vals == Assign(recs[i].vals, names, values, cols)
  <2>2. new[i] = IF i \in hits THEN [recs[i] EXCEPT !.vals = vals] ELSE recs[i]
    BY DEF updateRows
  <2> HIDE DEF new, hits, vals
  <2> QED
    BY <2>1, <2>2 DEF Record, Live, vals
<1>3. S \subseteq DOMAIN recs
  BY DEF LiveAt
<1>4. LiveAt(new) = S
  <2> HIDE DEF new, hits
  <2> QED
    BY <1>1, <1>2 DEF LiveAt
<1>5. new \in Seq(Record)
  BY UpdateRowsType
<1>6. /\ DOMAIN L = 1 .. Cardinality(S) /\ Len(L) = Cardinality(S)
      /\ \A k \in 1 .. Cardinality(S) : Nth(S, k) \in S /\ L[k] = recs[Nth(S, k)].vals
  <2> HIDE DEF S
  <2>1. /\ RowsAt(recs, S) \in Seq(Seq(Value)) /\ Len(RowsAt(recs, S)) = Cardinality(S)
        /\ \A k \in 1 .. Cardinality(S) :
                Nth(S, k) \in S /\ RowsAt(recs, S)[k] = recs[Nth(S, k)].vals
    BY <1>3, RowsAtAre DEF AreRows
  <2> QED
    BY <2>1 DEF LiveRows, S
<1>7. \A k \in 1 .. Cardinality(S) : k \in Picks(L, cols, where) <=> Nth(S, k) \in hits
  BY <1>6, PickedRows
<1> HIDE DEF new, hits, S, L
<1>8. /\ RowsAt(new, S) = [k \in 1 .. Cardinality(S) |-> RowsAt(new, S)[k]]
      /\ \A k \in 1 .. Cardinality(S) : RowsAt(new, S)[k] = new[Nth(S, k)].vals
  <2>1. RowsAt(new, S) = [k \in 1 .. Cardinality(S) |-> RowsAt(new, S)[k]]
    BY DEF RowsAt
  <2>2. S \subseteq DOMAIN new
    BY <1>1, <1>3
  <2> QED
    BY <1>5, <2>1, <2>2, RowsAtAre DEF AreRows
<1>9. \A k \in 1 .. Cardinality(S) :
        RowsAt(new, S)[k] = IF k \in Picks(L, cols, where)
                            THEN Assign(L[k], names, values, cols) ELSE L[k]
  <2> TAKE k \in 1 .. Cardinality(S)
  <2>1. Nth(S, k) \in DOMAIN recs
    BY <1>3, <1>6
  <2> QED
    BY <1>2, <1>6, <1>7, <1>8, <2>1
<1>10. LiveRows(new) = RowsAt(new, S)
  BY <1>4 DEF LiveRows
<1> QED
  BY <1>6, <1>8, <1>9, <1>10 DEF L, new, hits

\* INSERT adds its rows behind those there are.
LEMMA AppendedRows ==
    ASSUME NEW recs \in Seq(Record), NEW rs \in Seq(Seq(Value))
    PROVE  LiveRows(appendRows(recs, rs)) = LiveRows(recs) \o rs
<1>1. PICK n, m, S, L, added :
        /\ n = Len(recs) /\ m = Len(rs) /\ S = LiveAt(recs) /\ L = LiveRows(recs)
        /\ added = [i \in 1 .. m |-> [del |-> FALSE, vals |-> rs[i]]]
  OBVIOUS
<1>2. PICK new, V, R :
        new = recs \o added /\ V = LiveAt(new) /\ R = LiveRows(new)
  OBVIOUS
<1>3. PICK c : c = Cardinality(S)
  OBVIOUS
<1>4. /\ added \in Seq(Record) /\ Len(added) = m
      /\ \A i \in 1 .. m : added[i].del = FALSE /\ added[i].vals = rs[i]
  BY <1>1 DEF Record
<1>5. n \in Nat /\ m \in Nat
  BY <1>1
<1>6. /\ new \in Seq(Record) /\ Len(new) = n + m
      /\ \A i \in 1 .. n : new[i] = recs[i]
      /\ \A i \in 1 .. m : new[n + i] = added[i]
  BY <1>1, <1>2, <1>4, Concatenated
<1>7. \A i \in 1 .. n + m : i > n => i - n \in 1 .. m /\ n + (i - n) = i
  BY <1>5
<1>8. S \subseteq 1 .. n /\ S \subseteq DOMAIN recs
  BY <1>1 DEF LiveAt
<1>9. V \subseteq 1 .. n + m /\ V \subseteq DOMAIN new
  BY <1>2, <1>5, <1>6 DEF LiveAt
<1>10. \A i \in 1 .. n + m : i \in V <=> i \in S \/ i > n
  <2> TAKE i \in 1 .. n + m
  <2>1. i \in V <=> Live(new[i])
    BY <1>2, <1>5, <1>6 DEF LiveAt
  <2>2. CASE i > n
    <3>1. new[i].del = FALSE
      <4>1. PICK k : k = i - n
        OBVIOUS
      <4>2. k \in 1 .. m /\ n + k = i
        BY <1>7, <2>2, <4>1
      <4>3. new[i] = added[k]
        BY <1>6, <4>2
      <4> QED
        BY <1>4, <4>2, <4>3
    <3> QED
      BY <2>1, <2>2, <3>1 DEF Live
  <2>3. CASE ~ (i > n)
    <3>1. i \in 1 .. n
      BY <1>5, <2>3
    <3>2. i \in S <=> Live(recs[i])
      BY <1>1, <3>1 DEF LiveAt
    <3> QED
      BY <1>6, <2>1, <2>3, <3>1, <3>2
  <2> QED
    BY <2>2, <2>3
<1>11. Followed(V, S, n, m)
  BY <1>8, <1>9, <1>10 DEF Followed
<1>12. /\ Cardinality(V) = c + m
       /\ \A k \in 1 .. Cardinality(V) : Nth(V, k) = IF k <= c THEN Nth(S, k) ELSE n + k - c
  BY <1>3, <1>5, <1>11, NthBehind
<1>13. /\ L \in Seq(Seq(Value)) /\ Len(L) = c /\ c \in Nat
       /\ \A k \in 1 .. c : Nth(S, k) \in S /\ L[k] = recs[Nth(S, k)].vals
  <2>1. AreRows(recs, S) /\ L = RowsAt(recs, S)
    BY <1>1, <1>8, RowsAtAre DEF LiveRows
  <2> QED
    BY <1>3, <2>1 DEF AreRows
<1>14. /\ R \in Seq(Seq(Value)) /\ Len(R) = c + m
       /\ \A k \in 1 .. c + m : R[k] = new[Nth(V, k)].vals
  <2>1. AreRows(new, V) /\ R = RowsAt(new, V)
    BY <1>2, <1>6, <1>9, RowsAtAre DEF LiveRows
  <2> QED
    BY <1>12, <2>1 DEF AreRows
<1>15. PICK A : A = L \o rs
  OBVIOUS
<1>16. /\ A \in Seq(Seq(Value)) /\ Len(A) = c + m
       /\ \A k \in 1 .. c : A[k] = L[k]
       /\ \A k \in 1 .. m : A[c + k] = rs[k]
  <2>1. /\ A \in Seq(Seq(Value)) /\ Len(A) = Len(L) + Len(rs)
        /\ \A k \in 1 .. Len(L) : A[k] = L[k]
        /\ \A k \in 1 .. Len(rs) : A[Len(L) + k] = rs[k]
    <3>1. PICK T : T = Seq(Value)
      OBVIOUS
    <3>2. rs \in Seq(T) /\ L \in Seq(T)
      BY <1>13, <3>1
    <3>3. /\ A \in Seq(T) /\ Len(A) = Len(L) + Len(rs)
          /\ \A k \in 1 .. Len(L) : A[k] = L[k]
          /\ \A k \in 1 .. Len(rs) : A[Len(L) + k] = rs[k]
      BY <1>15, <3>2, Concatenated
    <3> QED
      BY <3>1, <3>3
  <2> QED
    BY <1>1, <1>13, <2>1
<1>17. ASSUME NEW k \in 1 .. c + m
       PROVE  R[k] = A[k]
  <2>1. CASE k <= c
    <3>1. k \in 1 .. c
      BY <1>13, <2>1
    <3>2. k \in 1 .. Cardinality(V)
      BY <1>12
    <3>3. Nth(V, k) = Nth(S, k)
      BY <1>12, <2>1, <3>2
    <3>4. Nth(S, k) \in 1 .. n
      BY <1>8, <1>13, <3>1
    <3>5. PICK i : i = Nth(S, k)
      OBVIOUS
    <3>6. R[k] = new[i].vals /\ new[i] = recs[i]
      BY <1>6, <1>14, <3>3, <3>4, <3>5
    <3>7. L[k] = recs[i].vals /\ A[k] = L[k]
      BY <1>13, <1>16, <3>1, <3>5
    <3> QED
      BY <3>6, <3>7
  <2>2. CASE ~ (k <= c)
    <3>1. k - c \in 1 .. m /\ n + k - c = n + (k - c) /\ c + (k - c) = k
      BY <1>5, <1>13, <2>2
    <3>2. Nth(V, k) = n + (k - c)
      <4>1. k \in 1 .. Cardinality(V)
        BY <1>12
      <4> QED
        BY <1>12, <2>2, <3>1, <4>1
    <3>3. R[k] = rs[k - c]
      <4>1. PICK i : i = k - c
        OBVIOUS
      <4>2. R[k] = new[n + i].vals
        BY <1>14, <3>2, <4>1
      <4>3. new[n + i] = added[i] /\ added[i].vals = rs[i]
        BY <1>4, <1>6, <3>1, <4>1
      <4> QED
        BY <4>1, <4>2, <4>3
    <3>4. A[c + (k - c)] = rs[k - c]
      BY <1>16, <3>1
    <3> QED
      BY <3>1, <3>3, <3>4
  <2> QED
    BY <2>1, <2>2
<1>18. R = A
  BY <1>14, <1>16, <1>17, SameElements
<1>19. appendRows(recs, rs) = new
  BY <1>1, <1>2 DEF appendRows
<1> QED
  BY <1>1, <1>2, <1>15, <1>18, <1>19

-----------------------------------------------------------------------------
USE NamesAssumption, BufferAssumption, WorkloadAssumption, InstalledAssumption,
    MaxRecordsAssumption

DbOps    == {"createDatabase", "dropDatabase", "use"}
TableOps == {"createTable", "dropTable"}
RowOps   == {"insert", "update", "delete", "select"}

-----------------------------------------------------------------------------
(* Statements.                                                             *)

LEMMA StatementFields ==
    ASSUME NEW s \in Statement
    PROVE  /\ s.op \in DbOps \cup TableOps \cup RowOps
           /\ s.op \in DbOps => s.db \in Dbs
           /\ s.op \in TableOps \cup RowOps => s.table \in Tables
           /\ s.op = "insert" => s.columns \in Seq(ColumnName) /\ s.values \in Seq(Row)
           /\ s.op = "update" => /\ s.columns \in Seq(ColumnName) /\ s.value \in Row
                                 /\ Len(s.columns) = Len(s.value)
BY DEF Statement, DbOps, TableOps, RowOps

\* An INSERT adds rows with a value for every column.
LEMMA NewRowsType ==
    ASSUME NEW s \in Statement, s.op = "insert", WellFormed(s)
    PROVE  /\ NewRows(s) \in Seq(Row)
           /\ \A i \in DOMAIN NewRows(s) : Len(NewRows(s)[i]) = Len(Columns[s.table])
<1> DEFINE cols == Columns[s.table]
<1>1. /\ s.table \in Tables /\ cols \in Seq(Column)
      /\ s.columns \in Seq(ColumnName) /\ s.values \in Seq(Row)
  BY StatementFields DEF TableOps, RowOps
<1>2. \A i \in 1 .. Len(s.values) :
        /\ s.values[i] \in Seq(Value)
        /\ Len(s.values[i]) = Len(IF s.columns = <<>> THEN cols ELSE s.columns)
  BY <1>1 DEF WellFormed, Row
<1>3. ASSUME NEW i \in 1 .. Len(s.values)
      PROVE  NewRows(s)[i] \in Seq(Value) /\ Len(NewRows(s)[i]) = Len(cols)
  <2>1. CASE s.columns = <<>>
    BY <1>2, <2>1 DEF NewRows
  <2>2. CASE s.columns # <<>>
    <3>1. NewRows(s)[i] = Assign(NullRow(cols), s.columns, s.values[i], cols)
      BY <2>2 DEF NewRows
    <3>2. NullRow(cols) \in Seq(Value) /\ Len(NullRow(cols)) = Len(cols)
      BY <1>1, NullRowType
    <3>3. s.values[i] \in Seq(Value) /\ Len(s.values[i]) = Len(s.columns)
      BY <1>2, <2>2
    <3> HIDE DEF cols
    <3> QED
      BY <1>1, <3>1, <3>2, <3>3, AssignType
  <2> QED
    BY <2>1, <2>2
<1>4. /\ NewRows(s) = [i \in 1 .. Len(s.values) |-> NewRows(s)[i]]
      /\ DOMAIN NewRows(s) = 1 .. Len(s.values)
  BY DEF NewRows
<1>5. NewRows(s) \in [1 .. Len(s.values) -> Row]
  BY <1>3, <1>4 DEF Row
<1>6. NewRows(s) \in Seq(Row)
  <2> DEFINE n == Len(s.values)
             R == NewRows(s)
  <2>1. n \in Nat /\ R \in [1 .. n -> Row]
    BY <1>1, <1>5
  <2> HIDE DEF n, R
  <2>2. R \in Seq(Row)
    BY <2>1
  <2> QED
    BY <2>2 DEF R
<1> QED
  BY <1>3, <1>4, <1>6

\* Every rewrite keeps a full row in every record.
LEMMA RewrittenType ==
    ASSUME NEW s \in Statement, s.op \in {"insert", "update", "delete"}, WellFormed(s),
           NEW recs \in Seq(Record), Full(recs, Columns[s.table]), NEW hits
    PROVE  /\ Rewritten(s, recs, hits) \in Seq(Record)
           /\ Full(Rewritten(s, recs, hits), Columns[s.table])
<1>1. s.table \in Tables /\ Columns[s.table] \in Seq(Column)
  BY StatementFields DEF TableOps, RowOps
<1>2. CASE s.op = "insert"
  <2>1. Rewritten(s, recs, hits) = appendRows(recs, NewRows(s))
    BY <1>2 DEF Rewritten
  <2> DEFINE rows == NewRows(s)
  <2>2. /\ rows \in Seq(Seq(Value))
        /\ \A i \in DOMAIN rows : Len(rows[i]) = Len(Columns[s.table])
    BY <1>2, NewRowsType DEF Row
  <2> HIDE DEF rows
  <2>3. /\ appendRows(recs, rows) \in Seq(Record)
        /\ Full(appendRows(recs, rows), Columns[s.table])
    BY <2>2, AppendRowsType
  <2> QED
    BY <2>1, <2>3 DEF rows
<1>3. CASE s.op = "update"
  <2>1. Rewritten(s, recs, hits) =
          updateRows(recs, hits, s.columns, s.value, Columns[s.table])
    BY <1>3 DEF Rewritten
  <2>2. s.columns \in Seq(ColumnName) /\ s.value \in Seq(Value) /\ Len(s.value) = Len(s.columns)
    BY <1>3, StatementFields DEF Row
  <2> QED
    BY <1>1, <2>1, <2>2, UpdateRowsType
<1>4. CASE s.op = "delete"
  <2>1. Rewritten(s, recs, hits) = deleteRows(recs, hits)
    BY <1>4 DEF Rewritten
  <2> QED
    BY <2>1, DeleteRowsType
<1> QED
  BY <1>2, <1>3, <1>4

-----------------------------------------------------------------------------
(* Which statement a thread can be at which step with.                     *)

Running(t, labels, ops) ==
    pc[t] \in labels => stmt[t] \in Statement /\ stmt[t].op \in ops

Fits(t) ==
    /\ Running(t, {"databaseExists", "mkdir", "rmdir", "listDatabases", "setDb"}, DbOps)
    /\ Running(t, {"requireDb"}, TableOps \cup RowOps)
    /\ Running(t, {"tableExists", "loadSchema"}, TableOps)
    /\ Running(t, {"requireTable", "rows"}, RowOps)
    /\ pc[t] = "rows" => WellFormed(stmt[t])
    /\ pc[t] = "idle" => result[t] = NoResult

TypedAndFit == TypeOK /\ \A t \in Threads : Fits(t)

\* A step of another thread, or one that leaves t's statement alone.
LEMMA FitsSame ==
    ASSUME NEW t \in Threads, Fits(t), pc'[t] = pc[t], stmt'[t] = stmt[t],
           result'[t] = result[t]
    PROVE  Fits(t)'
BY DEF Fits, Running, WellFormed, Named

LEMMA FitsAll ==
    ASSUME NEW t \in Threads, \A u \in Threads : Fits(u), Fits(t)',
           \A u \in Threads : u # t =>
               pc'[u] = pc[u] /\ stmt'[u] = stmt[u] /\ result'[u] = result[u]
    PROVE  \A u \in Threads : Fits(u)'
BY FitsSame

-----------------------------------------------------------------------------
(* Types: the calls of the storage engine.                                 *)

LEMMA ClosedType == Closed \in Stream
BY FilesType DEF Closed, Stream, catalogPath, Paths, Dirs

LEMMA NoWorkType == NoWork \in Work /\ NoResult \in Result /\ Success \in Result
<1>1. << >> \in Seq(Row)
  OBVIOUS
<1> QED
  BY <1>1, FilesType DEF NoWork, Work, NoResult, Success, Result, catalogPath, Paths, Dirs

LEMMA RemoveAllType ==
    ASSUME StorageTypeOK, NEW d, remove_all(d)
    PROVE  StorageTypeOK'
<1>1. files' \in [Paths -> File]
  BY FilesType DEF StorageTypeOK, remove_all
<1>2. stream' \in [Threads -> Stream]
  <2>1. ASSUME NEW u \in Threads
        PROVE  [stream[u] EXCEPT !.linked = FALSE] \in Stream
    BY DEF StorageTypeOK, Stream
  <2> QED
    BY <2>1 DEF StorageTypeOK, remove_all
<1> QED
  BY <1>1, <1>2 DEF StorageTypeOK, remove_all

LEMMA OpenTruncType ==
    ASSUME StorageTypeOK, NEW t \in Threads, NEW p \in Paths, NEW content \in File,
           OpenTrunc(t, p, content)
    PROVE  StorageTypeOK'
<1>1. files' \in [Paths -> File]
  BY FilesType DEF StorageTypeOK, OpenTrunc
<1>2. [path |-> p, content |-> content, base |-> files[p], linked |-> p[1] \in dirs] \in Stream
  BY DEF Stream, StorageTypeOK
<1>3. stream' \in [Threads -> Stream]
  BY <1>2 DEF StorageTypeOK, OpenTrunc
<1> QED
  BY <1>1, <1>3 DEF StorageTypeOK, OpenTrunc

LEMMA FlushStreamType ==
    ASSUME StorageTypeOK, NEW t \in Threads, FlushStream(t)
    PROVE  StorageTypeOK'
<1> DEFINE s == stream[t]
           count == Len(files[s.path].recs) + Buffer
           f == TableData(s.content.total, SubSeq(s.content.recs, 1, count))
<1>1. s.path \in Paths /\ s.content \in File
  BY DEF StorageTypeOK, Stream
<1>2. files[s.path] \in File
  BY <1>1 DEF StorageTypeOK
<1>3. count \in Nat
  BY <1>2 DEF File
<1>4. s.content.recs \in Seq(Record) /\ s.content.total \in Nat
  BY <1>1 DEF File
<1>5. count < Len(s.content.recs) /\ files' = [files EXCEPT ![s.path] = f]
  BY DEF FlushStream
<1> HIDE DEF count
<1>6. f \in File
  <2>1. SubSeq(s.content.recs, 1, count) \in Seq(Record)
    BY <1>3, <1>4, <1>5
  <2> QED
    BY <1>4, <2>1, FilesType
<1> HIDE DEF f, s
<1>7. files' \in [Paths -> File]
  BY <1>1, <1>5, <1>6 DEF StorageTypeOK
<1> QED
  BY <1>7 DEF StorageTypeOK, FlushStream

\* A function on 1 .. n is a sequence of that length.
LEMMA ListIs ==
    ASSUME NEW S, NEW n \in Nat, NEW f \in [1 .. n -> S]
    PROVE  f \in Seq(S) /\ Len(f) = n /\ DOMAIN f = 1 .. n
<1>1. f \in Seq(S)
  BY SeqDef
<1>2. Len(f) \in Nat /\ DOMAIN f = 1 .. Len(f)
  BY <1>1
<1>3. 1 .. Len(f) = 1 .. n
  BY <1>2
<1> QED
  BY <1>1, <1>2, <1>3

\* A record that takes the place of the i-th when a content is written over others.
OverRecord(content, bytes, i) ==
    IF i <= Len(content.recs)
    THEN [content.recs[i] EXCEPT !.vals = OverFields(@, bytes[i].vals)] ELSE bytes[i]

\* Its fields are those of the content, or fit the columns.
Overlaid(content, cols, i, rec) ==
    /\ rec \in Record /\ Len(rec.vals) = Len(cols)
    /\ \A c \in DOMAIN cols :
         \/ FieldOk(rec.vals[c], cols[c])
         \/ /\ i \in DOMAIN content.recs /\ c \in DOMAIN content.recs[i].vals
            /\ rec.vals[c] = content.recs[i].vals[c]

\* What is read of a content written over typed bytes: as many records as the
\* header counts, each with a field per column, its own as far as they go.
LEMMA OverIs ==
    ASSUME NEW content \in File, NEW cols \in Seq(Column),
           NEW bytes \in [1 .. content.total -> LeftRecords(cols)]
    PROVE  /\ Over(content, bytes) = TableData(content.total,
                  [i \in 1 .. content.total |-> OverRecord(content, bytes, i)])
           /\ \A i \in 1 .. content.total : Overlaid(content, cols, i, OverRecord(content, bytes, i))
<1>1. Over(content, bytes) = TableData(content.total,
         [i \in 1 .. content.total |-> OverRecord(content, bytes, i)])
  BY DEF Over, OverRecord
<1>2. DOMAIN cols = 1 .. Len(cols) /\ Len(cols) \in Nat
  OBVIOUS
<1>3. content.recs \in Seq(Record) /\ content.total \in Nat
  BY DEF File
<1>4. ASSUME NEW i \in 1 .. content.total
      PROVE  Overlaid(content, cols, i, OverRecord(content, bytes, i))
  <2> DEFINE left == bytes[i].vals
             rec  == content.recs[i]
             new  == OverFields(rec.vals, left)
  <2>1. /\ bytes[i] = [del |-> bytes[i].del, vals |-> left] /\ bytes[i].del \in BOOLEAN
        /\ left \in [DOMAIN cols -> Leftover] /\ RowOk(left, cols)
    BY DEF LeftRecords
  <2>2. left \in [1 .. Len(cols) -> Value]
    BY <1>2, <2>1, LeftoverAssumption
  <2>3. left \in Seq(Value) /\ Len(left) = Len(cols)
    <3> HIDE DEF left
    <3> QED
      BY <1>2, <2>2, ListIs
  <2>4. CASE i <= Len(content.recs)
    <3>1. i \in 1 .. Len(content.recs) /\ i \in DOMAIN content.recs
      BY <1>3, <2>4
    <3>2. rec \in Record /\ rec.vals \in Seq(Value)
      BY <1>3, <3>1, RecordAt
    <3> HIDE DEF left, rec
    <3>3. DOMAIN new = 1 .. Len(cols)
      BY <2>2 DEF OverFields
    <3>4. \A c \in 1 .. Len(cols) :
             new[c] \in Value /\ (new[c] = left[c] \/ (c \in DOMAIN rec.vals /\ new[c] = rec.vals[c]))
      <4> TAKE c \in 1 .. Len(cols)
      <4>1. new[c] = IF c <= Len(rec.vals) THEN rec.vals[c] ELSE left[c]
        BY <2>2 DEF OverFields
      <4>2. CASE c <= Len(rec.vals)
        <5>1. c \in DOMAIN rec.vals /\ rec.vals[c] \in Value
          BY <3>2, <4>2
        <5> QED
          BY <4>1, <4>2, <5>1
      <4>3. CASE ~ (c <= Len(rec.vals))
        BY <2>2, <4>1, <4>3
      <4> QED
        BY <4>2, <4>3
    <3>5. new \in [1 .. Len(cols) -> Value]
      <4>1. new = [c \in 1 .. Len(cols) |-> new[c]]
        BY <3>3 DEF OverFields
      <4> HIDE DEF new
      <4> QED
        BY <3>4, <4>1
    <3>6. new \in Seq(Value) /\ Len(new) = Len(cols)
      <4> HIDE DEF new
      <4> QED
        BY <1>2, <3>5, ListIs
    <3>7. OverRecord(content, bytes, i) = [rec EXCEPT !.vals = new]
      BY <2>4 DEF OverRecord, rec, left
    <3> HIDE DEF new
    <3>8. OverRecord(content, bytes, i) \in Record /\ OverRecord(content, bytes, i).vals = new
      BY <3>2, <3>6, <3>7 DEF Record
    <3>9. \A c \in DOMAIN cols : FieldOk(left[c], cols[c])
      BY <2>1 DEF RowOk
    <3> QED
      BY <1>2, <3>1, <3>4, <3>6, <3>8, <3>9 DEF rec, Overlaid
  <2>5. CASE ~ (i <= Len(content.recs))
    <3>1. OverRecord(content, bytes, i) = bytes[i]
      BY <2>5 DEF OverRecord
    <3> HIDE DEF left
    <3>2. bytes[i] \in Record /\ bytes[i].vals = left
      BY <2>1, <2>3 DEF Record, left
    <3> QED
      BY <2>1, <2>3, <3>1, <3>2 DEF RowOk, Overlaid
  <2> QED
    BY <2>4, <2>5
<1> QED
  BY <1>1, <1>4

\* What a stream leaves is a file.
LEMMA LeftByType ==
    ASSUME StorageTypeOK, NEW t \in Threads, NEW f \in LeftBy(t)
    PROVE  f \in File
<1> DEFINE content == stream[t].content
           tb == stream[t].path[2]
<1>1. content \in File
  BY DEF StorageTypeOK, Stream
<1>2. CASE f = content
  BY <1>1, <1>2
<1>3. ASSUME tb \in Tables, NEW bytes \in [1 .. content.total -> LeftRecords(Columns[tb])],
             f = Over(content, bytes)
      PROVE  f \in File
  <2>1. Columns[tb] \in Seq(Column)
    BY <1>3, NamesAssumption
  <2> HIDE DEF content, tb
  <2> DEFINE recs == [i \in 1 .. content.total |-> OverRecord(content, bytes, i)]
  <2>2. f = TableData(content.total, recs) /\ \A i \in 1 .. content.total : OverRecord(content, bytes, i) \in Record
    BY <1>1, <1>3, <2>1, OverIs DEF Overlaid
  <2>3. content.total \in Nat
    BY <1>1 DEF File
  <2>4. recs \in [1 .. content.total -> Record]
    BY <2>2
  <2> HIDE DEF recs
  <2>5. recs \in Seq(Record)
    BY <2>3, <2>4, ListIs
  <2> QED
    BY <2>2, <2>3, <2>5, FilesType
<1> QED
  BY <1>2, <1>3 DEF LeftBy

\* A thread that has no other beside it leaves what it wrote.
LEMMA LeftAlone ==
    ASSUME NEW t \in Threads, Threads = {t}
    PROVE  LeftBy(t) = {stream[t].content}
BY DEF LeftBy, WritesOver

LEMMA CloseStreamType ==
    ASSUME StorageTypeOK, NEW t \in Threads, CloseStream(t)
    PROVE  StorageTypeOK'
<1>1. stream[t].path \in Paths
  BY DEF StorageTypeOK, Stream
<1>2. files' \in [Paths -> File]
  <2>1. PICK f \in File : files' \in {files, [files EXCEPT ![stream[t].path] = f]}
    BY LeftByType, FilesType DEF CloseStream
  <2> QED
    BY <1>1, <2>1 DEF StorageTypeOK
<1>3. stream' \in [Threads -> Stream]
  BY ClosedType DEF StorageTypeOK, CloseStream
<1> QED
  BY <1>2, <1>3 DEF StorageTypeOK, CloseStream

-----------------------------------------------------------------------------
(* Types: the steps of a thread.                                           *)

PathsOfNames == \A d \in Dirs, x \in Tables \cup {"schema", "catalog"} : <<d, x>> \in Paths

LEMMA PathTypes == PathsOfNames
BY DEF PathsOfNames, Paths

\* What a listing holds can be listed again, with a name more or less.
LEMMA ListingTypes ==
    ASSUME TypeOK, NEW p \in Paths, NEW x \in Dbs \cup Tables
    PROVE  /\ Append(files[p].names, x) \in Seq(Name)
           /\ Without(files[p].names, x) \in Seq(Name)
<1>1. files[p].names \in Seq(Name)
  BY DEF TypeOK, StorageTypeOK, File
<1> QED
  BY <1>1, WithoutType

LEMMA PrepareType ==
    ASSUME TypeOK, NEW t \in Threads, NEW path \in Paths, NEW content \in File,
           NEW r \in Result, Prepare(t, path, content, r)
    PROVE  /\ work' \in [Threads -> Work] /\ result' \in [Threads -> Result]
           /\ pc' \in [Threads -> Labels]
BY DEF TypeOK, Prepare, Goto, Labels, Work

\* The content a thread is about to write is a file.
LEMMA RowsContent ==
    ASSUME NEW s \in Statement, s.op \in {"insert", "update", "delete"}, WellFormed(s),
           NEW f \in File, NEW hits
    PROVE  LET cols == Columns[s.table]
               new  == Rewritten(s, ReadRecords(f, cols), hits)
           IN  Rewrite(new, cols) \in File /\ GoodRecords(Rewrite(new, cols), cols)
<1> DEFINE cols == Columns[s.table]
           recs == ReadRecords(f, cols)
<1>1. cols \in Seq(Column)
  BY StatementFields DEF TableOps, RowOps
<1>2. recs \in Seq(Record) /\ Full(recs, cols)
  BY <1>1, ReadRecordsType
<1> DEFINE new == Rewritten(s, recs, hits)
<1> HIDE DEF recs
<1>3. new \in Seq(Record) /\ Full(new, cols)
  BY <1>2, RewrittenType
<1> HIDE DEF new, cols
<1>4. Rewrite(new, cols) \in File /\ GoodRecords(Rewrite(new, cols), cols)
  BY <1>1, <1>3, RewriteGood
<1> QED
  BY <1>4 DEF new, cols, recs

\* A step that leaves the statements alone: what is left to show.
LEMMA SameStatement ==
    ASSUME TypedAndFit, NEW t \in Threads, UNCHANGED stmt, Fits(t)',
           StorageTypeOK', currentDb' \in Dirs, pc' \in [Threads -> Labels],
           work' \in [Threads -> Work], result' \in [Threads -> Result],
           \A u \in Threads : u # t => pc'[u] = pc[u] /\ result'[u] = result[u]
    PROVE  TypedAndFit'
<1>1. \A u \in Threads : Fits(u)'
  BY FitsAll DEF TypedAndFit
<1>2. TypeOK'
  BY DEF TypedAndFit, TypeOK
<1> QED
  BY <1>1, <1>2 DEF TypedAndFit

\* A step of t that only moves it, perhaps with an answer.
LEMMA Moves ==
    ASSUME TypedAndFit, NEW t \in Threads, NEW label \in Labels,
           Goto(t, label), UNCHANGED <<stmt, work>>, StorageTypeOK', currentDb' \in Dirs,
           \/ UNCHANGED result
           \/ \E r \in Result : result' = [result EXCEPT ![t] = r],
           label # "idle",
           label \in {"databaseExists", "mkdir", "rmdir", "listDatabases", "setDb"}
               => stmt[t] \in Statement /\ stmt[t].op \in DbOps,
           label = "requireDb" => stmt[t] \in Statement /\ stmt[t].op \in TableOps \cup RowOps,
           label \in {"tableExists", "loadSchema"} => stmt[t] \in Statement /\ stmt[t].op \in TableOps,
           label \in {"requireTable", "rows"} => stmt[t] \in Statement /\ stmt[t].op \in RowOps,
           label = "rows" => WellFormed(stmt[t])
    PROVE  TypedAndFit'
<1>1. /\ pc' \in [Threads -> Labels] /\ pc'[t] = label
      /\ \A u \in Threads : u # t => pc'[u] = pc[u]
  BY DEF Goto, TypedAndFit, TypeOK
<1>2. /\ result' \in [Threads -> Result]
      /\ \A u \in Threads : u # t => result'[u] = result[u]
  BY DEF TypedAndFit, TypeOK
<1>3. work' \in [Threads -> Work] /\ stmt' = stmt
  BY DEF TypedAndFit, TypeOK
<1>4. WellFormed(stmt[t])' = WellFormed(stmt[t])
  BY <1>3 DEF WellFormed, Named
<1>5. Fits(t)'
  BY <1>1, <1>3, <1>4 DEF Fits, Running
<1> QED
  BY <1>1, <1>2, <1>3, <1>5, SameStatement

\* A step of t that knows what to write next.
LEMMA Prepares ==
    ASSUME TypedAndFit, NEW t \in Threads, NEW path \in Paths, NEW content \in File,
           NEW r \in Result, Prepare(t, path, content, r),
           UNCHANGED <<storageVars, currentDb, stmt>>
    PROVE  TypedAndFit'
<1>1. /\ work' \in [Threads -> Work] /\ result' \in [Threads -> Result]
      /\ pc' \in [Threads -> Labels]
  BY PrepareType DEF TypedAndFit
<1>2. /\ pc'[t] = "open"
      /\ \A u \in Threads : u # t => pc'[u] = pc[u] /\ result'[u] = result[u]
  BY DEF Prepare, Goto, TypedAndFit, TypeOK
<1>3. Fits(t)'
  BY <1>2 DEF Fits, Running
<1>4. StorageTypeOK' /\ currentDb' \in Dirs
  BY DEF TypedAndFit, TypeOK, StorageTypeOK, storageVars
<1> QED
  BY <1>1, <1>2, <1>3, <1>4, SameStatement

LEMMA Unchanged ==
    ASSUME TypeOK, UNCHANGED storageVars
    PROVE  StorageTypeOK'
BY DEF TypeOK, StorageTypeOK, storageVars

\* What Fits says of the statement of a thread that is somewhere.
LEMMA AtStep ==
    ASSUME TypedAndFit, NEW t \in Threads, pc[t] \notin {"idle", "open", "close", "compareDb", "resetDb", "respond"}
    PROVE  /\ stmt[t] \in Statement
           /\ pc[t] \in {"databaseExists", "mkdir", "rmdir", "listDatabases", "setDb"}
                => stmt[t].op \in DbOps /\ stmt[t].db \in Dbs
           /\ pc[t] = "requireDb" => stmt[t].op \in TableOps \cup RowOps
           /\ pc[t] \in {"tableExists", "loadSchema"}
                => stmt[t].op \in TableOps /\ stmt[t].table \in Tables
           /\ pc[t] \in {"requireTable", "rows"}
                => stmt[t].op \in RowOps /\ stmt[t].table \in Tables
           /\ pc[t] = "rows" => WellFormed(stmt[t])
<1>1. pc[t] \in Labels /\ Fits(t)
  BY DEF TypedAndFit, TypeOK
<1>2. stmt[t] \in Statement
  BY <1>1 DEF Fits, Running, Labels
<1> QED
  BY <1>1, <1>2, StatementFields DEF Fits, Running, TableOps, RowOps, DbOps

LEMMA ReceiveTyped ==
    ASSUME TypedAndFit, NEW t \in Threads, Receive(t)
    PROVE  TypedAndFit'
<1>1. PICK s \in Workload[t] : stmt' = [stmt EXCEPT ![t] = s] /\ Goto(t, FirstStep(s.op))
  BY DEF Receive
<1>2. s \in Statement /\ s.op \in DbOps \cup TableOps \cup RowOps
  BY StatementFields
<1>3. /\ FirstStep(s.op) \in {"databaseExists", "requireDb"}
      /\ FirstStep(s.op) = "databaseExists" <=> s.op \in DbOps
  BY <1>2 DEF FirstStep, DbOps, TableOps, RowOps
<1>4. /\ stmt' \in [Threads -> Statement \cup {NoStatement}]
      /\ pc' \in [Threads -> Labels] /\ pc'[t] = FirstStep(s.op) /\ stmt'[t] = s
      /\ \A u \in Threads : u # t => pc'[u] = pc[u] /\ stmt'[u] = stmt[u]
  BY <1>1, <1>2, <1>3 DEF TypedAndFit, TypeOK, Goto, Labels
<1>5. Fits(t)'
  BY <1>2, <1>3, <1>4 DEF Fits, Running
<1>6. result' = result /\ work' = work /\ currentDb' = currentDb /\ UNCHANGED storageVars
  BY DEF Receive
<1>7. TypeOK'
  BY <1>4, <1>6, Unchanged DEF TypedAndFit, TypeOK
<1>8. \A u \in Threads : Fits(u)'
  BY <1>4, <1>5, <1>6, FitsAll DEF TypedAndFit
<1> QED
  BY <1>7, <1>8 DEF TypedAndFit

LEMMA RespondTyped ==
    ASSUME TypedAndFit, NEW t \in Threads, Respond(t)
    PROVE  TypedAndFit'
<1>1. TypeOK'
  BY Unchanged, NoWorkType DEF Respond, TypedAndFit, TypeOK, Goto, Labels
<1>2. /\ pc'[t] = "idle" /\ result'[t] = NoResult
      /\ \A u \in Threads : u # t =>
            pc'[u] = pc[u] /\ stmt'[u] = stmt[u] /\ result'[u] = result[u]
  BY DEF Respond, Goto, TypedAndFit, TypeOK
<1>3. Fits(t)'
  BY <1>2 DEF Fits, Running
<1>4. \A u \in Threads : Fits(u)'
  BY <1>2, <1>3, FitsAll DEF TypedAndFit
<1> QED
  BY <1>1, <1>4 DEF TypedAndFit

\* CREATE DATABASE, DROP DATABASE and USE.
LEMMA DatabaseStepsTyped ==
    ASSUME TypedAndFit, NEW t \in Threads,
           \/ DatabaseExists(t) \/ MakeDirectory(t) \/ RemoveDirectory(t) \/ ListDatabases(t)
           \/ SetCurrentDatabase(t) \/ CompareDatabase(t) \/ ResetDatabase(t)
    PROVE  TypedAndFit'
<1>1. TypeOK /\ StorageTypeOK /\ currentDb \in Dirs
  BY DEF TypedAndFit, TypeOK
<1>2. CASE DatabaseExists(t)
  <2>1. stmt[t] \in Statement /\ stmt[t].op \in DbOps
    BY <1>2, AtStep DEF DatabaseExists, At
  <2>2. StorageTypeOK' /\ currentDb' \in Dirs /\ UNCHANGED <<stmt, work>>
    BY <1>1, <1>2, Unchanged DEF DatabaseExists
  <2>3. CASE Fail(t)
    BY <2>2, <2>3, Moves, NoWorkType DEF Fail, Answer, Labels
  <2>4. CASE ~ Fail(t)
    <3>1. PICK label \in {"mkdir", "rmdir", "setDb"} : Goto(t, label) /\ UNCHANGED result
      BY <1>2, <2>1, <2>4 DEF DatabaseExists, DbOps
    <3> QED
      BY <2>1, <2>2, <3>1, Moves DEF Labels
  <2> QED
    BY <2>3, <2>4
<1>3. CASE MakeDirectory(t) \/ RemoveDirectory(t)
  <2>1. stmt[t] \in Statement /\ stmt[t].op \in DbOps /\ stmt[t].db \in Dbs
    BY <1>3, AtStep DEF MakeDirectory, RemoveDirectory, At
  <2>2. StorageTypeOK'
    <3>1. CASE MakeDirectory(t)
      BY <1>1, <2>1, <3>1 DEF MakeDirectory, create_directories, StorageTypeOK, Dirs
    <3>2. CASE RemoveDirectory(t)
      BY <1>1, <3>2, RemoveAllType DEF RemoveDirectory
    <3> QED
      BY <1>3, <3>1, <3>2
  <2>3. /\ Goto(t, "listDatabases") /\ currentDb' \in Dirs
        /\ UNCHANGED <<stmt, work>> /\ UNCHANGED result
    BY <1>1, <1>3 DEF MakeDirectory, RemoveDirectory, threadVars
  <2> QED
    BY <2>1, <2>2, <2>3, Moves DEF Labels
<1>4. CASE ListDatabases(t)
  <2>1. stmt[t].db \in Dbs
    BY <1>4, AtStep DEF ListDatabases, At
  <2>2. StorageTypeOK' /\ currentDb' \in Dirs /\ UNCHANGED stmt
    BY <1>1, <1>4, Unchanged DEF ListDatabases
  <2>3. CASE Fail(t) /\ UNCHANGED work
    BY <2>2, <2>3, Moves, NoWorkType DEF Fail, Answer, Labels
  <2>4. CASE ~ (Fail(t) /\ UNCHANGED work)
    <3>1. catalogPath \in Paths
      BY PathTypes DEF PathsOfNames, catalogPath, Dirs
    <3>2. PICK content \in File : Prepare(t, catalogPath, content, Success)
      <4>1. /\ Append(listDatabases, stmt[t].db) \in Seq(Name)
            /\ Without(listDatabases, stmt[t].db) \in Seq(Name)
        BY <1>1, <2>1, <3>1, ListingTypes DEF listDatabases
      <4>2. /\ CatalogFile(Append(listDatabases, stmt[t].db)) \in File
            /\ CatalogFile(Without(listDatabases, stmt[t].db)) \in File
        BY <4>1, FilesType
      <4> QED
        BY <1>4, <2>4, <4>2 DEF ListDatabases
    <3> QED
      BY <1>4, <3>1, <3>2, Prepares, NoWorkType DEF ListDatabases
  <2> QED
    BY <2>3, <2>4
<1>5. CASE SetCurrentDatabase(t)
  <2>1. stmt[t].db \in Dbs
    BY <1>5, AtStep DEF SetCurrentDatabase, At
  <2>2. StorageTypeOK' /\ currentDb' \in Dirs /\ UNCHANGED <<stmt, work>>
    BY <1>1, <1>5, <2>1, Unchanged DEF SetCurrentDatabase, Dirs
  <2> QED
    BY <1>5, <2>2, Moves, NoWorkType DEF SetCurrentDatabase, Answer, Labels
<1>6. CASE CompareDatabase(t)
  <2>1. /\ StorageTypeOK' /\ currentDb' \in Dirs
        /\ UNCHANGED <<stmt, work>> /\ UNCHANGED result
    BY <1>1, <1>6, Unchanged DEF CompareDatabase, threadVars
  <2>2. PICK label \in {"resetDb", "respond"} : Goto(t, label)
    BY <1>6 DEF CompareDatabase
  <2> QED
    BY <2>1, <2>2, Moves DEF Labels
<1>7. CASE ResetDatabase(t)
  <2>1. /\ StorageTypeOK' /\ currentDb' \in Dirs /\ Goto(t, "respond")
        /\ UNCHANGED <<stmt, work>> /\ UNCHANGED result
    BY <1>1, <1>7, Unchanged DEF ResetDatabase, threadVars, Dirs
  <2> QED
    BY <2>1, Moves DEF Labels
<1> QED
  BY <1>2, <1>3, <1>4, <1>5, <1>6, <1>7

\* CREATE TABLE and DROP TABLE up to the rewrite, and the checks before rows.
LEMMA TableStepsTyped ==
    ASSUME TypedAndFit, NEW t \in Threads,
           RequireDb(t) \/ TableExists(t) \/ LoadSchema(t) \/ RequireTable(t)
    PROVE  TypedAndFit'
<1>1. TypeOK /\ StorageTypeOK /\ currentDb \in Dirs
  BY DEF TypedAndFit, TypeOK
<1>2. StorageTypeOK' /\ currentDb' \in Dirs /\ UNCHANGED stmt
  BY <1>1, Unchanged DEF RequireDb, TableExists, LoadSchema, RequireTable
<1>3. ASSUME Fail(t), UNCHANGED work
      PROVE  TypedAndFit'
  BY <1>2, <1>3, Moves, NoWorkType DEF Fail, Answer, Labels
<1>4. CASE RequireDb(t)
  <2>1. stmt[t] \in Statement /\ stmt[t].op \in TableOps \cup RowOps /\ UNCHANGED work
    BY <1>4, AtStep DEF RequireDb, At
  <2>2. CASE ~ Fail(t)
    <3>1. PICK label \in {"tableExists", "loadSchema", "requireTable"} :
            /\ Goto(t, label) /\ UNCHANGED result
            /\ label \in {"tableExists", "loadSchema"} <=> stmt[t].op \in TableOps
      BY <1>4, <2>1, <2>2 DEF RequireDb, TableOps, RowOps
    <3>2. label \in {"tableExists", "loadSchema"} \/ stmt[t].op \in RowOps
      BY <2>1, <3>1
    <3>3. stmt[t].op \in TableOps => stmt[t].op \notin RowOps
      BY DEF TableOps, RowOps
    <3> QED
      BY <1>2, <2>1, <3>1, <3>2, <3>3, Moves DEF Labels
  <2> QED
    BY <1>3, <2>1, <2>2
<1>5. CASE TableExists(t)
  <2>1. stmt[t] \in Statement /\ stmt[t].op \in TableOps /\ UNCHANGED work
    BY <1>5, AtStep DEF TableExists, At
  <2>2. CASE ~ Fail(t)
    <3>1. Goto(t, "loadSchema") /\ UNCHANGED result
      BY <1>5, <2>2 DEF TableExists
    <3> QED
      BY <1>2, <2>1, <3>1, Moves DEF Labels
  <2> QED
    BY <1>3, <2>1, <2>2
<1>6. CASE LoadSchema(t)
  <2>1. stmt[t].table \in Tables /\ schemaPath(currentDb) \in Paths
    BY <1>1, <1>6, AtStep, PathTypes DEF LoadSchema, At, PathsOfNames, schemaPath
  <2>2. CASE ~ (Fail(t) /\ UNCHANGED work)
    <3>1. PICK content \in File : Prepare(t, schemaPath(currentDb), content, Success)
      <4>1. /\ Append(loadSchema(currentDb), stmt[t].table) \in Seq(Name)
            /\ Without(loadSchema(currentDb), stmt[t].table) \in Seq(Name)
        BY <1>1, <2>1, ListingTypes DEF loadSchema
      <4>2. /\ SchemaFile(Append(loadSchema(currentDb), stmt[t].table)) \in File
            /\ SchemaFile(Without(loadSchema(currentDb), stmt[t].table)) \in File
        BY <4>1, FilesType
      <4> QED
        BY <1>6, <2>2, <4>2 DEF LoadSchema
    <3> QED
      BY <1>6, <2>1, <3>1, Prepares, NoWorkType DEF LoadSchema
  <2> QED
    BY <1>3, <2>2
<1>7. CASE RequireTable(t)
  <2>1. stmt[t] \in Statement /\ stmt[t].op \in RowOps /\ UNCHANGED work
    BY <1>7, AtStep DEF RequireTable, At
  <2>2. CASE ~ Fail(t)
    <3>1. Goto(t, "rows") /\ UNCHANGED result /\ WellFormed(stmt[t])
      BY <1>7, <2>2 DEF RequireTable
    <3> QED
      BY <1>2, <2>1, <3>1, Moves DEF Labels
  <2> QED
    BY <1>3, <2>1, <2>2
<1> QED
  BY <1>4, <1>5, <1>6, <1>7

\* The path of the rows, what is read from it, and what of it matches.
LEMMA RowsRead ==
    ASSUME TypedAndFit, NEW t \in Threads, pc[t] = "rows"
    PROVE  LET path == tablePath(currentDb, stmt[t].table)
               cols == Columns[stmt[t].table]
               recs == recordsOf(path, stmt[t].table)
           IN  /\ stmt[t] \in Statement /\ stmt[t].op \in RowOps
               /\ stmt[t].table \in Tables /\ WellFormed(stmt[t])
               /\ path \in Paths /\ files[path] \in File
               /\ cols \in Seq(Column) /\ recs \in Seq(Record) /\ Len(recs) = files[path].total
               /\ GoodRecords(files[path], cols) => \A i \in DOMAIN recs : RowOk(recs[i].vals, cols)
               /\ Full(recs, cols)
               /\ \A where : Matched(recs, cols, where) \subseteq DOMAIN recs
<1>1. /\ stmt[t] \in Statement /\ stmt[t].op \in RowOps
      /\ stmt[t].table \in Tables /\ WellFormed(stmt[t])
  BY AtStep
<1>2. tablePath(currentDb, stmt[t].table) \in Paths
  BY <1>1, PathTypes DEF PathsOfNames, tablePath, TypedAndFit, TypeOK
<1>3. files[tablePath(currentDb, stmt[t].table)] \in File
  BY <1>2 DEF TypedAndFit, TypeOK, StorageTypeOK
<1>4. Columns[stmt[t].table] \in Seq(Column)
  BY <1>1
<1> QED
  BY <1>1, <1>2, <1>3, <1>4, ReadRecordsType DEF recordsOf, Matched

\* The result of a SELECT.
LEMMA SelectResult ==
    ASSUME NEW recs \in Seq(Record), NEW hits, hits \subseteq DOMAIN recs
    PROVE  [Success EXCEPT !.rows = RowsAt(recs, hits)] \in Result
<1>1. RowsAt(recs, hits) \in Seq(Row)
  BY RowsAtType DEF Row
<1> QED
  BY <1>1, NoWorkType DEF Result

\* The result of a write that changes count rows.
LEMMA WriteResult ==
    ASSUME NEW count \in Nat
    PROVE  [Success EXCEPT !.affected = count] \in Result
BY NoWorkType DEF Result

LEMMA RowsTyped ==
    ASSUME TypedAndFit, NEW t \in Threads, Rows(t)
    PROVE  TypedAndFit'
<1> DEFINE s    == stmt[t]
           cols == Columns[s.table]
           path == tablePath(currentDb, s.table)
           recs == recordsOf(path, s.table)
           hits == Matched(recs, cols, s.where)
<1>1. pc[t] = "rows" /\ UNCHANGED <<storageVars, currentDb, stmt>>
  BY DEF Rows, At
<1>2. /\ s \in Statement /\ s.op \in RowOps /\ WellFormed(s)
      /\ path \in Paths /\ files[path] \in File
      /\ cols \in Seq(Column) /\ recs \in Seq(Record)
      /\ hits \subseteq DOMAIN recs
  BY <1>1, RowsRead
<1>3. StorageTypeOK' /\ currentDb' \in Dirs
  BY <1>1, Unchanged DEF TypedAndFit, TypeOK
<1>4. ASSUME NEW r \in Result, Answer(t, r), UNCHANGED work
      PROVE  TypedAndFit'
  BY <1>1, <1>3, <1>4, Moves DEF Answer, Labels
<1>5. CASE SelectRows(t, path)
  <2>1. [Success EXCEPT !.rows = RowsAt(recs, hits)] \in Result
    BY <1>2, SelectResult
  <2>2. UNCHANGED work /\ (\/ Answer(t, NoResult)
                          \/ Answer(t, [Success EXCEPT !.rows = RowsAt(recs, hits)]))
    BY <1>5 DEF SelectRows, Fail
  <2> HIDE DEF recs, hits
  <2> QED
    BY <1>4, <2>1, <2>2, NoWorkType
<1>6. CASE ChangeRows(t, path)
  <2> DEFINE wanted == IF s.op = "insert" THEN {} ELSE hits
             new    == Rewritten(s, recs, wanted)
             count  == IF s.op = "insert" THEN Len(s.values) ELSE Cardinality(wanted)
             r      == IF WriteThrows(new, cols) THEN NoResult
                       ELSE [Success EXCEPT !.affected = count]
  <2>1. \/ Answer(t, NoResult) /\ UNCHANGED work
        \/ Answer(t, Success) /\ UNCHANGED work
        \/ s.op # "select" /\ Prepare(t, path, Rewrite(new, cols), r)
    BY <1>6 DEF ChangeRows, Fail
  <2>2. CASE s.op # "select" /\ Prepare(t, path, Rewrite(new, cols), r)
    <3>1. s.op \in {"insert", "update", "delete"}
      BY <1>2, <2>2 DEF RowOps
    <3>2. Rewrite(new, cols) \in File
      BY <1>2, <3>1, RowsContent DEF recordsOf
    <3>3. count \in Nat
      <4>1. s.op = "insert" => Len(s.values) \in Nat
        BY <1>2, StatementFields
      <4>2. Cardinality(hits) \in Nat
        <5>1. hits \subseteq 1 .. Len(recs) /\ Len(recs) \in Nat
          BY <1>2
        <5> HIDE DEF hits, recs
        <5> QED
          BY <5>1, RankInjective, FS_CardinalityType
      <4> HIDE DEF hits
      <4> QED
        BY <4>1, <4>2
    <3> HIDE DEF count
    <3>4. r \in Result
      BY <3>3, WriteResult, NoWorkType
    <3> HIDE DEF r, new, cols, path
    <3> QED
      BY <1>1, <1>2, <2>2, <3>2, <3>4, Prepares
  <2> HIDE DEF r, new, recs, cols
  <2> QED
    BY <1>4, <2>1, <2>2, NoWorkType
<1> QED
  BY <1>5, <1>6 DEF Rows

\* The rewrite of a file.
LEMMA WriteStepsTyped ==
    ASSUME TypedAndFit, NEW t \in Threads, Open(t) \/ Flush(t) \/ Close(t)
    PROVE  TypedAndFit'
<1>1. TypeOK /\ StorageTypeOK /\ currentDb \in Dirs
  BY DEF TypedAndFit, TypeOK
<1>2. /\ currentDb' \in Dirs /\ UNCHANGED <<stmt, work>> /\ UNCHANGED result
  BY <1>1 DEF Open, Flush, Close, threadVars
<1>3. CASE Open(t)
  <2>1. work[t].path \in Paths /\ work[t].content \in File
    BY <1>1 DEF TypeOK, Work
  <2>2. TargetPath(t) \in Paths
    BY <1>1, <2>1, PathTypes DEF TargetPath, schemaPath, PathsOfNames
  <2>3. StorageTypeOK'
    BY <1>1, <1>3, <2>1, <2>2, OpenTruncType DEF Open
  <2>4. Goto(t, "close")
    BY <1>3 DEF Open
  <2> QED
    BY <1>2, <2>3, <2>4, Moves DEF Labels
<1>4. CASE Flush(t)
  <2>1. StorageTypeOK'
    BY <1>1, <1>4, FlushStreamType DEF Flush
  <2>2. pc' = pc /\ pc' \in [Threads -> Labels]
    BY <1>1, <1>4 DEF Flush, TypeOK
  <2>3. Fits(t)'
    BY <1>2, <2>2, FitsSame DEF TypedAndFit
  <2>4. work' \in [Threads -> Work] /\ result' \in [Threads -> Result]
    BY <1>1, <1>2 DEF TypeOK
  <2> QED
    BY <1>2, <2>1, <2>2, <2>3, <2>4, SameStatement
<1>5. CASE Close(t)
  <2>1. StorageTypeOK'
    BY <1>1, <1>5, CloseStreamType DEF Close
  <2>2. PICK label \in {"compareDb", "respond"} : Goto(t, label)
    BY <1>5 DEF Close
  <2> QED
    BY <1>2, <2>1, <2>2, Moves DEF Labels
<1> QED
  BY <1>3, <1>4, <1>5

LEMMA RestartTyped ==
    ASSUME TypedAndFit, Restart
    PROVE  TypedAndFit'
<1>1. StorageTypeOK'
  BY ClosedType DEF TypedAndFit, TypeOK, StorageTypeOK, Restart, LoseStreams
<1>2. TypeOK'
  BY <1>1, NoWorkType DEF Restart, TypeOK, Dirs, Labels
<1>3. \A t \in Threads : Fits(t)'
  BY DEF Restart, Fits, Running
<1> QED
  BY <1>2, <1>3 DEF TypedAndFit

LEMMA InitTyped == Init => TypedAndFit
<1> SUFFICES ASSUME Init
             PROVE  TypedAndFit
  OBVIOUS
<1>1. Installed \in Seq(Name) /\ InstalledTables \in Seq(Name)
  OBVIOUS
<1>2. CatalogFile(Installed) \in File /\ SchemaFile(InstalledTables) \in File
  BY <1>1, FilesType
<1>3. files \in [Paths -> File]
  BY <1>2, FilesType DEF Init, StorageInit
<1>4. dirs \in SUBSET Dirs
  BY DEF Init, StorageInit, Dirs
<1>5. stream \in [Threads -> Stream]
  BY ClosedType DEF Init, StorageInit
<1>6. TypeOK
  BY <1>3, <1>4, <1>5, NoWorkType DEF Init, TypeOK, StorageTypeOK, Dirs, Labels
<1>7. \A t \in Threads : Fits(t)
  BY DEF Init, Fits, Running
<1> QED
  BY <1>6, <1>7 DEF TypedAndFit

LEMMA NextTyped == TypedAndFit /\ [Next]_vars => TypedAndFit'
<1> SUFFICES ASSUME TypedAndFit, [Next]_vars
             PROVE  TypedAndFit'
  OBVIOUS
<1>1. ASSUME NEW t \in Threads, Step(t)
      PROVE  TypedAndFit'
  BY <1>1, RespondTyped, DatabaseStepsTyped, TableStepsTyped, RowsTyped, WriteStepsTyped
     DEF Step
<1>2. CASE UNCHANGED vars
  <2>1. TypeOK'
    BY <1>2, Unchanged DEF TypedAndFit, TypeOK, vars, storageVars
  <2>2. \A t \in Threads : Fits(t)'
    BY <1>2, FitsSame DEF TypedAndFit, vars
  <2> QED
    BY <2>1, <2>2 DEF TypedAndFit
<1> QED
  BY <1>1, <1>2, ReceiveTyped, RestartTyped DEF Next

\* Every variable keeps its type.
THEOREM ExecutorTypeCorrect == Spec => []TypeOK
<1>1. TypedAndFit => TypeOK
  BY DEF TypedAndFit
<1> QED
  BY <1>1, InitTyped, NextTyped, PTL DEF Spec

-----------------------------------------------------------------------------
(* What is on disk, in a stream or still to be written is good for the     *)
(* path it is or will be at.  A path is built again when the stream opens, *)
(* but only for CREATE TABLE and DROP TABLE, which write no records.       *)

GoodFile(f, x) ==
    IF f.magic = "table" THEN x \in Tables /\ GoodRecords(f, Columns[x]) ELSE f.total = 0

FilesSound   == \A p \in Paths : GoodFile(files[p], p[2])
StreamsSound == \A t \in Threads : GoodFile(stream[t].content, stream[t].path[2])
WorkSound    == \A t \in Threads :
                    /\ GoodFile(work[t].content, work[t].path[2])
                    /\ work[t].content.magic = "table"
                         => pc[t] # "idle" /\ stmt[t].op \notin TableOps

Sound == FilesSound /\ StreamsSound /\ WorkSound

LEMMA NoRecordsGood ==
    \A x : /\ GoodFile(Absent, x) /\ GoodFile(Empty, x)
          /\ \A names : GoodFile(CatalogFile(names), x) /\ GoodFile(SchemaFile(names), x)
BY DEF GoodFile, Absent, Empty, CatalogFile, SchemaFile

\* A step that writes no file and prepares nothing.
LEMMA SoundSame ==
    ASSUME Sound, UNCHANGED <<files, work, stmt>>,
           \A u \in Threads : /\ stream'[u].content = stream[u].content
                              /\ stream'[u].path = stream[u].path
                              /\ pc'[u] = "idle" => pc[u] = "idle"
    PROVE  Sound'
BY Zenon DEF Sound, FilesSound, StreamsSound, WorkSound, GoodFile

\* A step that only prepares what t writes.
LEMMA SoundPrepare ==
    ASSUME TypedAndFit, Sound, UNCHANGED <<storageVars, stmt>>, NEW t \in Threads,
           NEW path, NEW content, NEW r, Prepare(t, path, content, r), GoodFile(content, path[2]),
           content.magic = "table" => stmt[t].op \notin TableOps
    PROVE  Sound'
<1>1. /\ work'[t].path = path /\ work'[t].content = content /\ pc'[t] = "open"
      /\ \A u \in Threads : u # t => work'[u] = work[u] /\ pc'[u] = pc[u]
      /\ files' = files /\ stream' = stream /\ stmt' = stmt
  BY DEF Prepare, Goto, TypedAndFit, TypeOK, storageVars
<1>2. FilesSound' /\ StreamsSound'
  BY <1>1 DEF Sound, FilesSound, StreamsSound, GoodFile
<1>3. ASSUME NEW u \in Threads
      PROVE  /\ GoodFile(work'[u].content, work'[u].path[2])
             /\ work'[u].content.magic = "table" => pc'[u] # "idle" /\ stmt'[u].op \notin TableOps
  <2>1. CASE u = t
    BY <1>1, <2>1
  <2>2. CASE u # t
    BY <1>1, <2>2 DEF Sound, WorkSound
  <2> QED
    BY <2>1, <2>2
<1>4. WorkSound'
  BY <1>3 DEF WorkSound, GoodFile
<1> QED
  BY <1>2, <1>4 DEF Sound

LEMMA GotoElsewhere ==
    ASSUME TypedAndFit, NEW t \in Threads, NEW label, label # "idle", Goto(t, label)
    PROVE  \A u \in Threads : pc'[u] = "idle" => pc[u] = "idle"
BY DEF Goto, TypedAndFit, TypeOK

LEMMA OtherStepsSound ==
    ASSUME TypedAndFit, Sound, NEW t \in Threads,
           \/ DatabaseExists(t) \/ MakeDirectory(t) \/ SetCurrentDatabase(t)
           \/ CompareDatabase(t) \/ ResetDatabase(t)
           \/ RequireDb(t) \/ TableExists(t) \/ RequireTable(t)
    PROVE  Sound'
<1>1. UNCHANGED <<files, stream, work, stmt>>
  BY DEF DatabaseExists, MakeDirectory, SetCurrentDatabase, CompareDatabase, ResetDatabase,
         RequireDb, TableExists, RequireTable, create_directories, storageVars, threadVars
<1>2. PICK label \in Labels : label # "idle" /\ Goto(t, label)
  <2>1. CASE Fail(t) \/ SetCurrentDatabase(t)
    BY <2>1 DEF Fail, SetCurrentDatabase, Answer, Labels
  <2>2. CASE DatabaseExists(t) /\ ~ Fail(t)
    <3>1. stmt[t].op \in DbOps
      BY <2>2, AtStep DEF DatabaseExists, At
    <3> QED
      BY <2>2, <3>1 DEF DatabaseExists, DbOps, Labels
  <2>3. CASE MakeDirectory(t) \/ CompareDatabase(t) \/ ResetDatabase(t)
    BY <2>3 DEF MakeDirectory, CompareDatabase, ResetDatabase, Labels
  <2>4. CASE (RequireDb(t) \/ TableExists(t) \/ RequireTable(t)) /\ ~ Fail(t)
    BY <2>4 DEF RequireDb, TableExists, RequireTable, Labels
  <2> QED
    BY <2>1, <2>2, <2>3, <2>4
<1> QED
  BY <1>1, <1>2, GotoElsewhere, SoundSame

LEMMA ListingStepsSound ==
    ASSUME TypedAndFit, Sound, NEW t \in Threads, ListDatabases(t) \/ LoadSchema(t)
    PROVE  Sound'
<1>1. UNCHANGED <<storageVars, stmt>>
  BY DEF ListDatabases, LoadSchema
<1>2. CASE Fail(t) /\ UNCHANGED work
  BY <1>1, <1>2, GotoElsewhere, SoundSame DEF Fail, Answer, storageVars
<1>3. CASE ~ (Fail(t) /\ UNCHANGED work)
  <2>1. PICK path, content :
          /\ Prepare(t, path, content, Success)
          /\ \E names : content = CatalogFile(names) \/ content = SchemaFile(names)
    BY <1>3 DEF ListDatabases, LoadSchema
  <2>2. content.magic # "table"
    BY <2>1 DEF CatalogFile, SchemaFile, Absent
  <2>3. GoodFile(content, path[2])
    BY <2>1, NoRecordsGood
  <2> QED
    BY <1>1, <2>1, <2>2, <2>3, SoundPrepare
<1> QED
  BY <1>2, <1>3

LEMMA RowsSound ==
    ASSUME TypedAndFit, Sound, NEW t \in Threads, Rows(t)
    PROVE  Sound'
<1> DEFINE s    == stmt[t]
           cols == Columns[s.table]
           path == tablePath(currentDb, s.table)
           recs == recordsOf(path, s.table)
           hits == Matched(recs, cols, s.where)
           wanted == IF s.op = "insert" THEN {} ELSE hits
           new    == Rewritten(s, recs, wanted)
<1>1. pc[t] = "rows" /\ UNCHANGED <<storageVars, stmt>>
  BY DEF Rows, At
<1>2. /\ s \in Statement /\ s.op \in RowOps /\ WellFormed(s) /\ s.table \in Tables
      /\ files[path] \in File
  BY <1>1, RowsRead
<1>3. \/ (\E r : Answer(t, r)) /\ UNCHANGED work
      \/ s.op # "select" /\ \E r : Prepare(t, path, Rewrite(new, cols), r)
  BY DEF Rows, SelectRows, ChangeRows, Fail
<1>4. CASE (\E r : Answer(t, r)) /\ UNCHANGED work
  BY <1>1, <1>4, GotoElsewhere, SoundSame DEF Answer, storageVars
<1>5. CASE s.op # "select" /\ \E r : Prepare(t, path, Rewrite(new, cols), r)
  <2>1. s.op \in {"insert", "update", "delete"} /\ s.op \notin TableOps
    BY <1>2, <1>5 DEF RowOps, TableOps
  <2>2. GoodRecords(Rewrite(new, cols), cols)
    BY <1>2, <2>1, RowsContent DEF recordsOf
  <2>3. path[2] = s.table /\ Rewrite(new, cols).magic = "table"
    BY DEF tablePath, Rewrite, TableData, Absent
  <2>4. GoodFile(Rewrite(new, cols), path[2])
    BY <1>2, <2>2, <2>3 DEF GoodFile
  <2> HIDE DEF new, path, cols
  <2> QED
    BY <1>1, <1>5, <2>1, <2>4, SoundPrepare
<1> QED
  BY <1>3, <1>4, <1>5

LEMMA RemoveDirectorySound ==
    ASSUME TypedAndFit, Sound, NEW t \in Threads, RemoveDirectory(t)
    PROVE  Sound'
<1>1. /\ UNCHANGED <<work, stmt>> /\ Goto(t, "listDatabases")
      /\ \A p \in Paths : files'[p] \in {files[p], Absent}
  BY DEF RemoveDirectory, remove_all, threadVars
<1>2. ASSUME NEW u \in Threads
      PROVE  stream'[u].content = stream[u].content /\ stream'[u].path = stream[u].path
  <2>1. stream[u] \in Stream
    BY DEF TypedAndFit, TypeOK, StorageTypeOK
  <2>2. stream'[u] \in {stream[u], [stream[u] EXCEPT !.linked = FALSE]}
    BY DEF RemoveDirectory, remove_all
  <2> QED
    BY <2>1, <2>2 DEF Stream
<1>3. FilesSound'
  <2>1. \A p \in Paths : GoodFile(files'[p], p[2])
    BY <1>1, NoRecordsGood DEF Sound, FilesSound
  <2> QED
    BY <2>1 DEF FilesSound, GoodFile
<1>4. StreamsSound'
  <2>1. \A u \in Threads : GoodFile(stream'[u].content, stream'[u].path[2])
    BY <1>2 DEF Sound, StreamsSound
  <2> QED
    BY <2>1 DEF StreamsSound, GoodFile
<1>5. \A u \in Threads : pc'[u] = "idle" => pc[u] = "idle"
  BY <1>1, GotoElsewhere
<1>6. WorkSound'
  BY <1>1, <1>5 DEF Sound, WorkSound, GoodFile
<1> QED
  BY <1>3, <1>4, <1>6 DEF Sound

LEMMA OpenSound ==
    ASSUME TypedAndFit, Sound, NEW t \in Threads, Open(t)
    PROVE  Sound'
<1> DEFINE p == TargetPath(t)
           w == work[t].content
<1>1. UNCHANGED <<work, stmt>> /\ Goto(t, "close") /\ OpenTrunc(t, p, w)
  BY DEF Open, threadVars
<1>2. /\ files' = IF p[1] \in dirs THEN [files EXCEPT ![p] = Empty] ELSE files
      /\ stream'[t].content = w /\ stream'[t].path = p
      /\ \A u \in Threads : u # t => stream'[u] = stream[u]
  BY <1>1 DEF OpenTrunc, TypedAndFit, TypeOK, StorageTypeOK
<1>3. GoodFile(w, p[2])
  <2>1. CASE stmt[t].op \in TableOps
    <3>1. w.magic # "table"
      BY <2>1 DEF Sound, WorkSound
    <3>2. GoodFile(w, work[t].path[2])
      BY DEF Sound, WorkSound
    <3> HIDE DEF w, p
    <3> QED
      BY <3>1, <3>2 DEF GoodFile
  <2>2. CASE stmt[t].op \notin TableOps
    BY <2>2 DEF TargetPath, TableOps, Sound, WorkSound
  <2> QED
    BY <2>1, <2>2
<1> HIDE DEF w, p
<1>4. FilesSound'
  <2>1. \A q \in Paths : files'[q] \in {files[q], Empty}
    BY <1>2 DEF TypedAndFit, TypeOK, StorageTypeOK
  <2>2. \A q \in Paths : GoodFile(files'[q], q[2])
    BY <2>1, NoRecordsGood DEF Sound, FilesSound
  <2> QED
    BY <2>2 DEF FilesSound, GoodFile
<1>5. StreamsSound'
  <2>1. \A u \in Threads : GoodFile(stream'[u].content, stream'[u].path[2])
    BY <1>2, <1>3 DEF Sound, StreamsSound
  <2> QED
    BY <2>1 DEF StreamsSound, GoodFile
<1>6. \A u \in Threads : pc'[u] = "idle" => pc[u] = "idle"
  BY <1>1, GotoElsewhere
<1>7. WorkSound'
  BY <1>1, <1>6 DEF Sound, WorkSound, GoodFile
<1> QED
  BY <1>4, <1>5, <1>7 DEF Sound

\* What a stream leaves is as good as what it wrote, also over other bytes.
LEMMA LeftByGood ==
    ASSUME TypedAndFit, Sound, NEW t \in Threads, NEW f \in LeftBy(t)
    PROVE  GoodFile(f, stream[t].path[2])
<1> DEFINE content == stream[t].content
           tb == stream[t].path[2]
           cols == Columns[tb]
<1>1. content \in File
  BY DEF TypedAndFit, TypeOK, StorageTypeOK, Stream
<1>2. GoodFile(content, tb)
  BY DEF Sound, StreamsSound
<1>3. ASSUME tb \in Tables, content.magic = "table",
             NEW bytes \in [1 .. content.total -> LeftRecords(cols)], f = Over(content, bytes)
      PROVE  GoodFile(f, tb)
  <2> DEFINE recs == [i \in 1 .. content.total |-> OverRecord(content, bytes, i)]
  <2>1. cols \in Seq(Column) /\ GoodRecords(content, cols)
    BY <1>2, <1>3, NamesAssumption DEF GoodFile
  <2> HIDE DEF content, cols
  <2>2. /\ f = TableData(content.total, recs) /\ content.total \in Nat
        /\ \A i \in 1 .. content.total :
             /\ OverRecord(content, bytes, i) \in Record
             /\ Len(OverRecord(content, bytes, i).vals) = Len(cols)
             /\ \A c \in DOMAIN cols : FieldOk(OverRecord(content, bytes, i).vals[c], cols[c])
    <3>1. \A i \in DOMAIN content.recs : \A c \in DOMAIN content.recs[i].vals :
             FieldOk(content.recs[i].vals[c], cols[c])
      BY <2>1 DEF GoodRecords
    <3>2. content.total \in Nat
      BY <1>1 DEF File
    <3>3. f = TableData(content.total, recs)
      BY <1>1, <1>3, <2>1, OverIs
    <3>4. ASSUME NEW i \in 1 .. content.total
          PROVE  /\ OverRecord(content, bytes, i) \in Record
                 /\ Len(OverRecord(content, bytes, i).vals) = Len(cols)
                 /\ \A c \in DOMAIN cols : FieldOk(OverRecord(content, bytes, i).vals[c], cols[c])
      <4>1. Overlaid(content, cols, i, OverRecord(content, bytes, i))
        BY <1>1, <1>3, <2>1, OverIs
      <4> QED
        BY <3>1, <4>1 DEF Overlaid
    <3> QED
      BY <3>2, <3>3, <3>4
  <2>3. recs \in [1 .. content.total -> Record] /\ \A i \in 1 .. content.total : recs[i] = OverRecord(content, bytes, i)
    BY <2>2
  <2> HIDE DEF recs
  <2>4. recs \in Seq(Record) /\ Len(recs) = content.total /\ DOMAIN recs = 1 .. content.total
    BY <2>2, <2>3, ListIs
  <2>5. ASSUME NEW i \in DOMAIN recs
        PROVE  /\ Len(recs[i].vals) = Len(cols)
               /\ \A c \in DOMAIN recs[i].vals : FieldOk(recs[i].vals[c], cols[c])
    <3>1. recs[i].vals \in Seq(Value) /\ Len(recs[i].vals) = Len(cols)
      BY <2>2, <2>3, <2>4, RecordAt
    <3>2. DOMAIN recs[i].vals = DOMAIN cols
      BY <2>1, <3>1
    <3> QED
      BY <2>2, <2>3, <2>4, <3>1, <3>2
  <2>6. f.magic = "table" /\ f.total = content.total /\ f.recs = recs
    BY <2>2 DEF TableData, Absent
  <2>7. GoodRecords(f, cols)
    BY <2>2, <2>4, <2>5, <2>6 DEF GoodRecords
  <2> QED
    BY <1>3, <2>6, <2>7 DEF GoodFile, cols
<1> QED
  BY <1>2, <1>3 DEF LeftBy

\* Part of a good rewrite, or all of it, reaches the file it is for.
LEMMA WritesSound ==
    ASSUME TypedAndFit, Sound, NEW t \in Threads, Flush(t) \/ Close(t)
    PROVE  Sound'
<1> DEFINE p == stream[t].path
           c == stream[t].content
<1>1. /\ p \in Paths /\ c \in File /\ files \in [Paths -> File]
      /\ stream \in [Threads -> Stream]
  BY DEF TypedAndFit, TypeOK, StorageTypeOK, Stream
<1>2. GoodFile(c, p[2])
  BY DEF Sound, StreamsSound
<1>3. PICK f : GoodFile(f, p[2]) /\ files' \in {files, [files EXCEPT ![p] = f]}
  <2>1. CASE Flush(t)
    <3> DEFINE n == Len(files[p].recs) + Buffer
    <3>1. /\ c.magic = "table" /\ n < Len(c.recs)
          /\ files' = [files EXCEPT ![p] = TableData(c.total, SubSeq(c.recs, 1, n))]
      BY <2>1 DEF Flush, FlushStream
    <3>2. n \in Nat
      BY <1>1 DEF File
    <3>3. p[2] \in Tables /\ GoodRecords(c, Columns[p[2]]) /\ Columns[p[2]] \in Seq(Column)
      BY <1>2, <3>1 DEF GoodFile
    <3> HIDE DEF n, c, p
    <3>4. GoodRecords(TableData(c.total, SubSeq(c.recs, 1, n)), Columns[p[2]])
      BY <1>1, <3>1, <3>2, <3>3, PrefixGood
    <3>5. GoodFile(TableData(c.total, SubSeq(c.recs, 1, n)), p[2])
      BY <3>3, <3>4 DEF GoodFile, TableData, Absent
    <3> QED
      BY <3>1, <3>5
  <2>2. CASE Close(t)
    <3>1. \/ files' = files
          \/ \E f \in LeftBy(t) : files' = [files EXCEPT ![p] = f]
      BY <2>2 DEF Close, CloseStream
    <3>2. \A f \in LeftBy(t) : GoodFile(f, p[2])
      BY LeftByGood
    <3> QED
      BY <1>2, <3>1, <3>2
  <2> QED
    BY <2>1, <2>2
<1>4. FilesSound'
  <2> HIDE DEF p
  <2>1. \A q \in Paths : GoodFile(files'[q], q[2])
    BY <1>1, <1>3 DEF Sound, FilesSound
  <2> QED
    BY <2>1 DEF FilesSound, GoodFile
<1>5. StreamsSound'
  <2>1. \A u \in Threads : stream'[u] \in {stream[u], Closed}
    BY <1>1 DEF Flush, FlushStream, Close, CloseStream
  <2>2. GoodFile(Closed.content, Closed.path[2])
    BY NoRecordsGood DEF Closed
  <2>3. \A u \in Threads : GoodFile(stream'[u].content, stream'[u].path[2])
    BY <2>1, <2>2 DEF Sound, StreamsSound
  <2> QED
    BY <2>3 DEF StreamsSound, GoodFile
<1>6. \A u \in Threads : pc'[u] = "idle" => pc[u] = "idle"
  <2>1. CASE Flush(t)
    BY <2>1 DEF Flush
  <2>2. CASE Close(t)
    <3>1. PICK label \in {"compareDb", "respond"} : Goto(t, label)
      BY <2>2 DEF Close
    <3> QED
      BY <3>1, GotoElsewhere
  <2> QED
    BY <2>1, <2>2
<1>7. UNCHANGED <<work, stmt>>
  BY DEF Flush, Close, threadVars
<1>8. WorkSound'
  BY <1>6, <1>7 DEF Sound, WorkSound, GoodFile
<1> QED
  BY <1>4, <1>5, <1>8 DEF Sound

LEMMA NoWorkSound ==
    GoodFile(NoWork.content, NoWork.path[2]) /\ NoWork.content.magic # "table"
BY NoRecordsGood DEF NoWork, Absent

\* A thread that receives or has answered a statement has no work.
LEMMA EndsSound ==
    ASSUME TypedAndFit, Sound, NEW t \in Threads, Receive(t) \/ Respond(t)
    PROVE  Sound'
<1>1. files' = files /\ stream' = stream
  BY DEF Receive, Respond, storageVars
<1>2. FilesSound' /\ StreamsSound'
  BY <1>1 DEF Sound, FilesSound, StreamsSound, GoodFile
<1>3. work'[t].content.magic # "table" /\ GoodFile(work'[t].content, work'[t].path[2])
  <2>1. CASE Receive(t)
    BY <2>1 DEF Receive, At, Sound, WorkSound
  <2>2. CASE Respond(t)
    BY <2>2, NoWorkSound DEF Respond, TypedAndFit, TypeOK
  <2> QED
    BY <2>1, <2>2
<1>4. \A u \in Threads : u # t => work'[u] = work[u] /\ pc'[u] = pc[u] /\ stmt'[u] = stmt[u]
  BY DEF Receive, Respond, Goto, TypedAndFit, TypeOK
<1>5. WorkSound'
  BY <1>3, <1>4 DEF Sound, WorkSound, GoodFile
<1> QED
  BY <1>2, <1>5 DEF Sound

LEMMA RestartSound ==
    ASSUME Sound, Restart
    PROVE  Sound'
<1>1. files' = files
  BY DEF Restart, LoseStreams
<1>2. \A u \in Threads : stream'[u] = Closed /\ work'[u] = NoWork
  BY DEF Restart, LoseStreams
<1>3. GoodFile(Closed.content, Closed.path[2])
  BY NoRecordsGood DEF Closed
<1>4. FilesSound' /\ StreamsSound' /\ WorkSound'
  BY <1>1, <1>2, <1>3, NoWorkSound DEF Sound, FilesSound, StreamsSound, WorkSound, GoodFile
<1> QED
  BY <1>4 DEF Sound

LEMMA InitSound == Init => Sound
<1> SUFFICES ASSUME Init
             PROVE  Sound
  OBVIOUS
<1>1. FilesSound
  BY NoRecordsGood DEF Init, StorageInit, FilesSound
<1>2. StreamsSound
  BY NoRecordsGood DEF Init, StorageInit, StreamsSound, Closed
<1>3. WorkSound
  BY NoWorkSound DEF Init, WorkSound
<1> QED
  BY <1>1, <1>2, <1>3 DEF Sound

LEMMA NextSound == TypedAndFit /\ Sound /\ [Next]_vars => Sound'
<1> SUFFICES ASSUME TypedAndFit, Sound, [Next]_vars
             PROVE  Sound'
  OBVIOUS
<1>1. ASSUME NEW t \in Threads, Receive(t) \/ Step(t)
      PROVE  Sound'
  BY <1>1, EndsSound, OtherStepsSound, ListingStepsSound, RemoveDirectorySound, RowsSound,
     OpenSound, WritesSound DEF Step
<1>2. CASE UNCHANGED vars
  BY <1>2, SoundSame DEF vars
<1> QED
  BY <1>1, <1>2, RestartSound DEF Next

\* However statements interleave, fail or are cut off, also when one stream
\* writes over the bytes of another, a value a table file is read as holding is
\* NULL or of its column's type.
THEOREM FilesStayWellTyped == Spec => []FilesWellTyped
<1>1. Sound => FilesWellTyped
  <2> SUFFICES ASSUME Sound, NEW d \in Dirs, NEW tb \in Tables, IsTableFile(d, tb)
               PROVE  GoodRecords(files[<<d, tb>>], Columns[tb])
    BY DEF FilesWellTyped, GoodRecords
  <2>1. <<d, tb>> \in Paths
    BY PathTypes DEF PathsOfNames
  <2> QED
    BY <2>1 DEF Sound, FilesSound, GoodFile, IsTableFile
<1> QED
  BY <1>1, InitTyped, NextTyped, InitSound, NextSound, PTL DEF Spec

-----------------------------------------------------------------------------
(* What a SELECT answers: the records it read were good.                   *)

LEMMA NoRowsResults ==
    /\ NoResult.rows = << >> /\ Success.rows = << >>
    /\ \A n : [Success EXCEPT !.affected = n].rows = << >>
    /\ \A rs : [Success EXCEPT !.rows = rs].rows = rs
BY DEF NoResult, Success

\* The steps that give an answer with rows, or none.
LEMMA Answers ==
    ASSUME TypedAndFit, NEW t \in Threads, Receive(t) \/ Step(t)
    PROVE  /\ \A u \in Threads : u # t => result'[u] = result[u] /\ stmt'[u] = stmt[u]
           /\ \/ result'[t].rows = << >>
              \/ result'[t] = result[t] /\ stmt'[t] = stmt[t]
              \/ SelectRows(t, tablePath(currentDb, stmt[t].table)) /\ Rows(t)
<1> USE DEF TypedAndFit, TypeOK, Answer, Fail, NoResult, Success
<1>1. CASE Receive(t)
  <2>1. result[t] = NoResult /\ result' = result
    BY <1>1 DEF Receive, At, Fits
  <2> QED
    BY <1>1, <2>1 DEF Receive
<1>2. CASE Respond(t)
  BY <1>2 DEF Respond
<1>3. CASE \/ DatabaseExists(t) \/ MakeDirectory(t) \/ RemoveDirectory(t)
           \/ SetCurrentDatabase(t) \/ CompareDatabase(t) \/ ResetDatabase(t)
           \/ RequireDb(t) \/ TableExists(t) \/ RequireTable(t)
  BY <1>3 DEF DatabaseExists, MakeDirectory, RemoveDirectory, SetCurrentDatabase,
              CompareDatabase, ResetDatabase, RequireDb, TableExists, RequireTable, threadVars
<1>4. CASE ListDatabases(t) \/ LoadSchema(t)
  BY <1>4 DEF ListDatabases, LoadSchema, Prepare
<1>5. CASE Rows(t)
  <2>1. CASE ChangeRows(t, tablePath(currentDb, stmt[t].table))
    <3> DEFINE s    == stmt[t]
               path == tablePath(currentDb, s.table)
               cols == Columns[s.table]
               recs == recordsOf(path, s.table)
               hits == IF s.op = "insert" THEN {} ELSE Matched(recs, cols, s.where)
               new  == Rewritten(s, recs, hits)
               count == IF s.op = "insert" THEN Len(s.values) ELSE Cardinality(hits)
               r    == IF WriteThrows(new, cols) THEN NoResult
                       ELSE [Success EXCEPT !.affected = count]
    <3>1. \/ Answer(t, NoResult) \/ Answer(t, Success)
          \/ Prepare(t, path, Rewrite(new, cols), r)
      BY <2>1 DEF ChangeRows, Fail
    <3> HIDE DEF new, cols, count, path
    <3>2. r.rows = << >>
      BY NoRowsResults
    <3> HIDE DEF r
    <3>3. \E x : result' = [result EXCEPT ![t] = x] /\ x.rows = << >>
      BY <3>1, <3>2, NoRowsResults DEF Answer, Prepare
    <3> QED
      BY <1>5, <3>3 DEF Rows
  <2>2. CASE SelectRows(t, tablePath(currentDb, stmt[t].table))
    BY <1>5, <2>2 DEF Rows, SelectRows
  <2> QED
    BY <1>5, <2>1, <2>2 DEF Rows
<1>6. CASE Open(t) \/ Flush(t) \/ Close(t)
  BY <1>6 DEF Open, Flush, Close, threadVars
<1> QED
  BY <1>1, <1>2, <1>3, <1>4, <1>5, <1>6 DEF Step

LEMMA NextSelected ==
    TypedAndFit /\ Sound /\ SelectedRowsWellTyped /\ [Next]_vars => SelectedRowsWellTyped'
<1> SUFFICES ASSUME TypedAndFit, Sound, SelectedRowsWellTyped, [Next]_vars,
                    NEW u \in Threads, NEW k \in DOMAIN result'[u].rows
             PROVE  /\ Len(result'[u].rows[k]) = Len(Columns[stmt'[u].table])
                    /\ RowOk(result'[u].rows[k], Columns[stmt'[u].table])
  BY DEF SelectedRowsWellTyped, RowOk, FieldOk
<1>1. CASE result'[u] = result[u] /\ stmt'[u] = stmt[u]
  BY <1>1 DEF SelectedRowsWellTyped
<1>2. CASE result'[u].rows = << >>
  BY <1>2
<1>3. CASE Rows(u) /\ SelectRows(u, tablePath(currentDb, stmt[u].table))
  <2> DEFINE s    == stmt[u]
             cols == Columns[s.table]
             path == tablePath(currentDb, s.table)
             recs == recordsOf(path, s.table)
             hits == Matched(recs, cols, s.where)
  <2>1. pc[u] = "rows" /\ stmt' = stmt
    BY <1>3 DEF Rows, At
  <2>2. /\ s.table \in Tables /\ path \in Paths /\ files[path] \in File /\ path[2] = s.table
        /\ recs \in Seq(Record) /\ hits \subseteq DOMAIN recs /\ Full(recs, cols)
        /\ Len(recs) = files[path].total
        /\ GoodRecords(files[path], cols) => \A i \in DOMAIN recs : RowOk(recs[i].vals, cols)
    BY <2>1, RowsRead DEF tablePath
  <2>3. \/ result'[u].rows = << >>
        \/ result'[u].rows = RowsAt(recs, hits)
    <3>1. Answer(u, NoResult) \/ Answer(u, [Success EXCEPT !.rows = RowsAt(recs, hits)])
      BY <1>3 DEF SelectRows, Fail
    <3>2. result \in [Threads -> Result]
      BY DEF TypedAndFit, TypeOK
    <3> HIDE DEF recs, hits
    <3> QED
      BY <3>1, <3>2, NoRowsResults DEF Answer
  <2>4. \A i \in DOMAIN recs : Len(recs[i].vals) = Len(cols) /\ RowOk(recs[i].vals, cols)
    <3>1. GoodFile(files[path], s.table)
      BY <2>2 DEF Sound, FilesSound
    <3>2. CASE files[path].magic = "table"
      BY <2>2, <3>1, <3>2 DEF GoodFile, Full
    <3>3. CASE files[path].magic # "table"
      <4>1. Len(recs) = 0
        BY <2>2, <3>1, <3>3 DEF GoodFile
      <4> HIDE DEF recs
      <4>2. DOMAIN recs = {}
        BY <2>2, <4>1
      <4> QED
        BY <4>2
    <3> QED
      BY <3>2, <3>3
  <2> HIDE DEF recs, hits, cols
  <2>5. CASE result'[u].rows = RowsAt(recs, hits)
    <3>0. recs \in Seq(Record) /\ hits \subseteq DOMAIN recs
      BY <2>2
    <3>1. PICK i \in hits : result'[u].rows[k] = recs[i].vals
      <4>1. k \in DOMAIN RowsAt(recs, hits)
        BY <2>5
      <4>2. \E i \in hits : RowsAt(recs, hits)[k] = recs[i].vals
        BY <3>0, <4>1, RowsAtElement, SMTT(30)
      <4> QED
        BY <2>5, <4>2
    <3>2. /\ Len(result'[u].rows[k]) = Len(cols)
          /\ RowOk(result'[u].rows[k], cols)
      BY <2>2, <2>4, <3>1
    <3> QED
      BY <2>1, <3>2 DEF cols
  <2> QED
    BY <2>3, <2>5
<1>4. CASE Restart
  BY <1>4 DEF Restart, NoResult
<1>5. CASE UNCHANGED vars
  BY <1>1, <1>5 DEF vars
<1>6. ASSUME NEW t \in Threads, Receive(t) \/ Step(t)
      PROVE  \/ result'[u].rows = << >>
             \/ result'[u] = result[u] /\ stmt'[u] = stmt[u]
             \/ SelectRows(u, tablePath(currentDb, stmt[u].table)) /\ Rows(u)
  BY <1>6, Answers
<1> QED
  BY <1>1, <1>2, <1>3, <1>4, <1>5, <1>6 DEF Next

\* Whatever a file holds, torn or whole, a SELECT answers rows of its table.
THEOREM SelectsStayWellTyped == Spec => []SelectedRowsWellTyped
<1>1. Init => SelectedRowsWellTyped
  BY DEF Init, SelectedRowsWellTyped, NoResult
<1> QED
  BY <1>1, InitTyped, NextTyped, InitSound, NextSound, NextSelected, PTL DEF Spec
=============================================================================
