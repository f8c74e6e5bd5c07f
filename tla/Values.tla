------------------------------- MODULE Values -------------------------------
(***************************************************************************)
(* The values, columns and row predicates of chapaBD: Types.h and the      *)
(* comparison of Statements.cpp.                                           *)
(*                                                                         *)
(* A value is a variant: its kind (which alternative the variant holds)    *)
(* and its datum.  The data of all kinds are integers, ordered as the code *)
(* orders them: 0 stands for 0, 0.0, FALSE and the empty string.           *)
(***************************************************************************)
EXTENDS Positions

CONSTANT ColumnName      \* names a column or a predicate may use

Types     == {"INT", "FLOAT", "BOOL", "TEXT", "VARCHAR"}
Kinds     == {"NULL", "INT", "FLOAT", "BOOL", "TEXT"}
CompareOp == {"EQ", "NEQ", "LT", "GT", "LE", "GE"}

Value  == [kind : Kinds, data : Int]
Column == [name : ColumnName, type : Types]

NULL == [kind |-> "NULL", data |-> 0]

\* Mutant: a VARCHAR column stores an alternative of its own.
KindOfItself(type) == type

\* The alternative of the variant a column of this type stores.
KindOf(type) == IF type = "VARCHAR" THEN "TEXT" ELSE type

\* What the bytes 0, 0, 0, ... denote in a column of this type.
Zero(type) == [kind |-> KindOf(type), data |-> 0]

-----------------------------------------------------------------------------

numericCompare(a, op, b) ==
    \/ op = "EQ"  /\ a = b
    \/ op = "NEQ" /\ a # b
    \/ op = "LT"  /\ a < b
    \/ op = "GT"  /\ a > b
    \/ op = "LE"  /\ a <= b
    \/ op = "GE"  /\ a >= b

\* Two numbers, or two strings: all six operators apply.
Ordered(a, b) == \/ {a.kind, b.kind} \subseteq {"INT", "FLOAT"}
                 \/ {a.kind, b.kind} = {"TEXT"}

\* NULL, and values of unrelated kinds, satisfy no comparison.
compareValues(a, op, b) ==
    /\ \/ Ordered(a, b)
       \/ {a.kind, b.kind} = {"BOOL"} /\ op \in {"EQ", "NEQ"}
    /\ numericCompare(a.data, op, b.data)

-----------------------------------------------------------------------------
(* A predicate is absent, a comparison, or NOT of a comparison.            *)

NoWhere == [op |-> "ALL"]
Where   == {NoWhere} \cup
           [op : CompareOp, column : ColumnName, value : Value, negated : BOOLEAN]

\* The first column of that name; 0 when there is none.
ColumnIndex(name, cols) ==
    LET found == {c \in DOMAIN cols : cols[c].name = name}
    IN  IF found = {} THEN 0 ELSE Min(found)

\* Evaluating the predicate on any row at all throws.
WhereThrows(where, cols) ==
    where # NoWhere /\ ColumnIndex(where.column, cols) = 0

matchesWhere(vals, cols, where) ==
    where = NoWhere \/
    where.negated # compareValues(vals[ColumnIndex(where.column, cols)], where.op, where.value)

-----------------------------------------------------------------------------
(* Rows.                                                                   *)

\* writeValue can write this value into this column.
FieldOk(v, col) == v.kind \in {"NULL", KindOf(col.type)}

RowOk(vals, cols) == \A c \in DOMAIN cols : FieldOk(vals[c], cols[c])

\* The row with each named column set; of a column named twice, the last.
Assign(row, names, values, cols) ==
    [c \in 1 .. Len(cols) |->
        LET given == {i \in DOMAIN names : ColumnIndex(names[i], cols) = c}
        IN  IF given = {} THEN row[c] ELSE values[Max(given)]]

NullRow(cols) == [c \in 1 .. Len(cols) |-> NULL]
=============================================================================
