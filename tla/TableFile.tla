----------------------------- MODULE TableFile ------------------------------
(***************************************************************************)
(* The table file of StorageEngine.cpp: what streaming records to a file   *)
(* leaves in it, and what reading it back returns.                         *)
(*                                                                         *)
(* A file is its magic number, the names it lists (catalog.dat and         *)
(* schema.dat) and, for a table, the record count of its header and the    *)
(* records after it.  The count is written before the records, and reading *)
(* past the end yields zero bytes, so a file whose count exceeds its       *)
(* records reads as if zero records followed.  The last record of a file   *)
(* may be cut short: its `vals' then has fewer fields than the table.      *)
(***************************************************************************)
EXTENDS Values

CONSTANT Name            \* names of databases and tables

Record == [del : BOOLEAN, vals : Seq(Value)]
Magic  == {"absent", "empty", "catalog", "schema", "table"}
File   == [magic : Magic, names : Seq(Name), total : Nat, recs : Seq(Record)]

Absent             == [magic |-> "absent", names |-> <<>>, total |-> 0, recs |-> <<>>]
Empty              == [Absent EXCEPT !.magic = "empty"]
CatalogFile(names) == [Absent EXCEPT !.magic = "catalog", !.names = names]
SchemaFile(names)  == [Absent EXCEPT !.magic = "schema", !.names = names]
TableData(n, recs) == [Absent EXCEPT !.magic = "table", !.total = n, !.recs = recs]

-----------------------------------------------------------------------------
(* Writing.  std::get throws on a value of the wrong kind, after the null  *)
(* flag of that field went out: the stream keeps what was written before.  *)

\* Mutant: writeValue writes the bytes of whatever value it is given.
NeverIllTyped(recs, cols) == {}

IllTyped(recs, cols) == {i \in DOMAIN recs : ~ RowOk(recs[i].vals, cols)}

\* Writing these records ends in an exception.
WriteThrows(recs, cols) == IllTyped(recs, cols) # {}

\* The fields of a row that are written before the first wrong one.
WrittenFields(vals, cols) ==
    SubSeq(vals, 1, Min({c \in DOMAIN cols : ~ FieldOk(vals[c], cols[c])}) - 1)

\* The records that reach the stream.
Written(recs, cols) ==
    IF WriteThrows(recs, cols)
    THEN LET n == Min(IllTyped(recs, cols))
         IN  Append(SubSeq(recs, 1, n - 1),
                    [recs[n] EXCEPT !.vals = WrittenFields(recs[n].vals, cols)])
    ELSE recs

\* Mutant: the header counts only the records that are not deleted.
RewriteCountingLive(recs, cols) ==
    TableData(Cardinality({i \in DOMAIN recs : ~ recs[i].del}), Written(recs, cols))

\* The whole content a rewrite of a table streams out.
Rewrite(recs, cols) == TableData(Len(recs), Written(recs, cols))

-----------------------------------------------------------------------------
(* Reading.                                                                *)

\* Mutant: the row ends where the file ends.
ReadFieldsPresent(vals, cols) == vals

ReadFields(vals, cols) ==
    [c \in 1 .. Len(cols) |-> IF c <= Len(vals) THEN vals[c] ELSE Zero(cols[c].type)]

\* All records of a table file, deleted ones included.
ReadRecords(file, cols) ==
    [i \in 1 .. file.total |->
        IF i <= Len(file.recs)
        THEN [file.recs[i] EXCEPT !.vals = ReadFields(file.recs[i].vals, cols)]
        ELSE [del |-> FALSE, vals |-> ReadFields(<<>>, cols)]]

Live(rec) == ~ rec.del

-----------------------------------------------------------------------------
(* The three rewrites, on the records read.                                *)

\* Mutant: the records copied lose their deletion flag.
appendRowsUndeleting(recs, rows) ==
    [i \in 1 .. Len(recs) + Len(rows) |->
        [del |-> FALSE, vals |-> IF i <= Len(recs) THEN recs[i].vals ELSE rows[i - Len(recs)]]]

appendRows(recs, rows) ==
    recs \o [i \in 1 .. Len(rows) |-> [del |-> FALSE, vals |-> rows[i]]]

\* Mutant: deleted records are offered to the predicate too.
MatchedDeleted(recs, cols, where) == {i \in DOMAIN recs : matchesWhere(recs[i].vals, cols, where)}

\* The records predicate(row) selects.
Matched(recs, cols, where) ==
    {i \in DOMAIN recs : Live(recs[i]) /\ matchesWhere(recs[i].vals, cols, where)}

\* The fields of the records at these positions, in their order.
RowsAt(recs, hits) == [k \in 1 .. Cardinality(hits) |-> Keep(recs, hits)[k].vals]

\* Mutant: the flag is written as the predicate says, for deleted records too.
deleteRowsReviving(recs, hits) == [i \in 1 .. Len(recs) |-> [recs[i] EXCEPT !.del = i \in hits]]

deleteRows(recs, hits) ==
    [i \in 1 .. Len(recs) |-> [recs[i] EXCEPT !.del = i \in hits \/ recs[i].del]]

updateRows(recs, hits, names, values, cols) ==
    [i \in 1 .. Len(recs) |->
        IF i \in hits
        THEN [recs[i] EXCEPT !.vals = Assign(recs[i].vals, names, values, cols)]
        ELSE recs[i]]
=============================================================================
