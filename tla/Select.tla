------------------------------- MODULE Select -------------------------------
(***************************************************************************)
(* Executor::visit(SelectStatement&): one connection executes SELECTs, one *)
(* part of the function per action, while other connections write to the   *)
(* tables between its reads.                                               *)
(*                                                                         *)
(* A FLOAT is a whole number, except an average, which is counted in       *)
(* units of 1/Unit.  HAVING is no part of a statement here, since nothing  *)
(* reads it once it is parsed.                                             *)
(***************************************************************************)
EXTENDS Conditions

CONSTANTS
    Tables,
    Columns,        \* of each table
    Contents,       \* what the rows of each table may be
    Statements,     \* what clients may send
    Missing,        \* in place of the rows of a table that cannot be read
    NullWord,       \* the datum of the text 'NULL'
    Unit            \* of averages: divisible by the sizes of groups

AggFunc == {"NONE", "COUNT", "SUM", "AVG", "MIN", "MAX"}

SelectItem    == [agg : AggFunc, arg : ColumnName]
OrderByClause == [column : ColumnName, ascending : BOOLEAN]
JoinClause    == [table : Tables, leftCol : ColumnName, rightCol : ColumnName]

\* No items: SELECT *.  No limit: -1.
SelectStatement ==
    [table : Tables, joins : Seq(JoinClause), where : Seq(Comparison \cup Connective),
     items : Seq(SelectItem), groupBy : Seq(ColumnName), orderBy : Seq(OrderByClause),
     limit : Nat \cup {-1}, offset : Nat]

\* NULL has no datum.
Field == {v \in Value : v.kind = "NULL" => v = NULL}

ASSUME ColumnsAssumption == Columns \in [Tables -> Seq(Column)]
ASSUME ContentsAssumption ==
    \A tb \in Tables : <<>> \in Contents[tb] /\ \A rows \in Contents[tb] :
        /\ rows \in Seq(Seq(Field))
        /\ \A i \in DOMAIN rows : Len(rows[i]) = Len(Columns[tb]) /\ RowOk(rows[i], Columns[tb])
ASSUME StatementsAssumption == Statements \subseteq SelectStatement
ASSUME UnitAssumption == Unit \in Nat \ {0} /\ NullWord \in Int

VARIABLES
    stored,         \* the rows each table has, or Missing
    stmt,           \* the statement under way
    pc,             \* the part of visit that comes next
    reads,          \* what readRows has returned: allRows, then the rows of each joined table
    joinedRows,
    joinedSchema,
    filtered,
    result,         \* m_result: its columns, as the items they show, and its rows
    produced        \* history: the rows before ORDER BY and LIMIT

request == <<stored, stmt>>
working == <<reads, joinedRows, joinedSchema, filtered>>
answer  == <<result, produced>>
vars    == <<request, pc, working, answer>>

allRows  == reads[1]
NoResult == [columns |-> <<>>, rows |-> <<>>]

-----------------------------------------------------------------------------
(* Comparing for JOIN, ORDER BY, MIN and MAX: texts with texts, all else as *)
(* numbers, NULL before everything and equal to NULL.                      *)

toDouble(v) == IF v.kind \in {"INT", "FLOAT", "BOOL"} THEN v.data ELSE 0

Sign(n) == IF n < 0 THEN -1 ELSE IF n > 0 THEN 1 ELSE 0

\* Mutant: NULL is compared as the number 0.
compareForSortNullAsZero(a, b) ==
    IF {a.kind, b.kind} = {"TEXT"} THEN Sign(a.data - b.data)
    ELSE Sign(toDouble(a) - toDouble(b))

compareForSort(a, b) ==
    IF "NULL" \in {a.kind, b.kind}
    THEN IF a.kind = b.kind THEN 0 ELSE IF a.kind = "NULL" THEN -1 ELSE 1
    ELSE IF {a.kind, b.kind} = {"TEXT"}
         THEN Sign(a.data - b.data)
         ELSE Sign(toDouble(a) - toDouble(b))

-----------------------------------------------------------------------------
(* JOIN.                                                                   *)

NextJoin  == stmt.joins[Len(reads)]
NextTable == IF reads = <<>> THEN stmt.table ELSE NextJoin.table

\* The main table again whenever nothing has been joined.
LeftRows == IF joinedRows = <<>> THEN allRows ELSE joinedRows

leftIdx  == ColumnIndex(NextJoin.leftCol, joinedSchema)
rightIdx == ColumnIndex(NextJoin.rightCol, Columns[NextJoin.table])

\* Mutant: the row of the joined table comes first.
CombinedBackwards(lRow, rRow) == rRow \o lRow

Combined(lRow, rRow) == lRow \o rRow

\* The positions of the rows that belong together.
Matches(left, right, l, r) ==
    {p \in (DOMAIN left) \X (DOMAIN right) : compareForSort(left[p[1]][l], right[p[2]][r]) = 0}

\* The order of the nested loop.
Earlier(p, q) == p[1] < q[1] \/ (p[1] = q[1] /\ p[2] < q[2])

\* The k-th pair of S, counted from 1.
NthPair(S, k) == CHOOSE p \in S : Cardinality({q \in S : Earlier(q, p)}) = k - 1

Pairs(left, right, l, r) ==
    LET found == Matches(left, right, l, r)
    IN  [k \in 1 .. Cardinality(found) |->
            Combined(left[NthPair(found, k)[1]], right[NthPair(found, k)[2]])]

-----------------------------------------------------------------------------
(* Items of the answer.                                                    *)

Plain == stmt.groupBy = <<>> /\ \A i \in DOMAIN stmt.items : stmt.items[i].agg = "NONE"

\* SELECT * shows every position, also of names that are not unique.
colIndexes ==
    IF stmt.items = <<>> THEN [c \in DOMAIN joinedSchema |-> c]
    ELSE [i \in DOMAIN stmt.items |-> ColumnIndex(stmt.items[i].arg, joinedSchema)]

Projected(rows) ==
    [r \in DOMAIN rows |-> [i \in DOMAIN colIndexes |-> rows[r][colIndexes[i]]]]

Header ==
    IF Plain /\ stmt.items = <<>>
    THEN [c \in DOMAIN joinedSchema |-> [agg |-> "NONE", arg |-> joinedSchema[c].name]]
    ELSE stmt.items

Least(a, b)    == IF compareForSort(b, a) < 0 THEN b ELSE a
Greatest(a, b) == IF compareForSort(b, a) > 0 THEN b ELSE a

LeastOf(column)    == FoldLeft(Least, column[1], column)
GreatestOf(column) == FoldLeft(Greatest, column[1], column)
SumOf(column)      == FoldLeft(LAMBDA s, v : s + toDouble(v), 0, column)

calcAgg(f, arg, rows) ==
    LET c      == ColumnIndex(arg, joinedSchema)
        column == [i \in DOMAIN rows |-> rows[i][c]]
    IN  CASE f = "COUNT" -> [kind |-> "INT", data |-> Len(rows)]
          [] f # "COUNT" /\ rows = <<>> -> NULL
          [] f = "MIN" /\ rows # <<>> -> LeastOf(column)
          [] f = "MAX" /\ rows # <<>> -> GreatestOf(column)
          [] f = "SUM" /\ rows # <<>> -> [kind |-> "FLOAT", data |-> SumOf(column)]
          [] f = "AVG" /\ rows # <<>> -> [kind |-> "FLOAT", data |-> (SumOf(column) * Unit) \div Len(rows)]

\* A column beside aggregates is that of the first row.
ItemValue(item, rows) ==
    IF item.agg # "NONE" THEN calcAgg(item.agg, item.arg, rows)
    ELSE IF rows = <<>> THEN NULL
    ELSE rows[1][ColumnIndex(item.arg, joinedSchema)]

OutRow(rows) == [i \in DOMAIN stmt.items |-> ItemValue(stmt.items[i], rows)]

ItemThrows(item) == item.agg # "COUNT" /\ ColumnIndex(item.arg, joinedSchema) = 0
ItemPast(item, rows) ==
    item.agg # "COUNT" /\ \E i \in DOMAIN rows : ColumnIndex(item.arg, joinedSchema) \notin DOMAIN rows[i]

\* The items that cannot be computed; the first decides.
BadItems(rows) ==
    {i \in DOMAIN stmt.items : ItemThrows(stmt.items[i]) \/ ItemPast(stmt.items[i], rows)}
ItemsThrow(rows) == BadItems(rows) # {} /\ ItemThrows(stmt.items[Min(BadItems(rows))])
ItemsPast(rows)  == BadItems(rows) # {} /\ ~ItemThrows(stmt.items[Min(BadItems(rows))])

-----------------------------------------------------------------------------
(* GROUP BY.                                                               *)

groupIdxs == [i \in DOMAIN stmt.groupBy |-> ColumnIndex(stmt.groupBy[i], joinedSchema)]

\* The key is made of texts, and that of NULL is a text like another: the
\* text 'NULL', but no number.  The values of a column are of one kind.
Word(v)      == IF v.kind = "NULL" THEN [kind |-> "TEXT", data |-> NullWord] ELSE v
makeKey(row) == [i \in DOMAIN groupIdxs |-> Word(row[groupIdxs[i]])]

\* The positions of the rows that open a group.
Openers(rows) ==
    {i \in DOMAIN rows : \A j \in 1 .. i - 1 : makeKey(rows[j]) # makeKey(rows[i])}

\* Mutant: a row that opens a group is not put into it, unless it is alone.
GroupOfOthers(rows, i) ==
    LET others == {j \in DOMAIN rows : j # i /\ makeKey(rows[j]) = makeKey(rows[i])}
    IN  Keep(rows, IF others = {} THEN {i} ELSE others)

GroupOf(rows, i) == Keep(rows, {j \in DOMAIN rows : makeKey(rows[j]) = makeKey(rows[i])})

GroupRows(rows) ==
    [k \in 1 .. Cardinality(Openers(rows)) |-> OutRow(GroupOf(rows, Nth(Openers(rows), k)))]

-----------------------------------------------------------------------------
(* ORDER BY and LIMIT.                                                     *)

HeaderIndex(name, header) ==
    LET found == {i \in DOMAIN header : header[i] = [agg |-> "NONE", arg |-> name]}
    IN  IF found = {} THEN 0 ELSE Min(found)

\* Mutant: the tables come first.
KeyIndexInSchema(name, header, schema) ==
    IF ColumnIndex(name, schema) # 0 THEN ColumnIndex(name, schema) ELSE HeaderIndex(name, header)

\* A name is looked up in the answer, then in the tables.
KeyIndex(name, header, schema) ==
    IF HeaderIndex(name, header) # 0 THEN HeaderIndex(name, header) ELSE ColumnIndex(name, schema)

SortKeys(header) ==
    [k \in DOMAIN stmt.orderBy |->
        [index     |-> KeyIndex(stmt.orderBy[k].column, header, joinedSchema),
         ascending |-> stmt.orderBy[k].ascending]]

\* A key past the end of a row is skipped.
KeyOrder(a, b, key) ==
    IF key.index \notin DOMAIN a THEN 0 ELSE compareForSort(a[key.index], b[key.index])

RowBefore(a, b, keys) ==
    \E k \in DOMAIN keys :
        /\ KeyOrder(a, b, keys[k]) = IF keys[k].ascending THEN -1 ELSE 1
        /\ \A j \in 1 .. k - 1 : KeyOrder(a, b, keys[j]) = 0

\* Where stable_sort puts the i-th row.
Place(rows, i, keys) ==
    Cardinality({j \in DOMAIN rows :
        \/ RowBefore(rows[j], rows[i], keys)
        \/ j <= i /\ ~RowBefore(rows[i], rows[j], keys)})

StableSort(rows, keys) ==
    [p \in DOMAIN rows |-> rows[CHOOSE i \in DOMAIN rows : Place(rows, i, keys) = p]]

\* Mutant: LIMIT, then OFFSET.
LimitedFirst(rows) ==
    IF stmt.limit < 0 THEN rows
    ELSE SubSeq(rows, stmt.offset + 1, Min({Len(rows), stmt.limit}))

\* OFFSET, then LIMIT; neither without LIMIT.
Limited(rows) ==
    IF stmt.limit < 0 THEN rows
    ELSE SubSeq(rows, stmt.offset + 1, Min({Len(rows), stmt.offset + stmt.limit}))

-----------------------------------------------------------------------------
(* Where visit throws, and where it reads past the end of a row.           *)

PastIn(indexes, rows) ==
    \E i \in DOMAIN indexes : \E r \in DOMAIN rows : indexes[i] \notin DOMAIN rows[r]

\* Mutant: the column of the joined table is not checked.
JoinThrowsOnLeft == leftIdx = 0

JoinThrows == leftIdx = 0 \/ rightIdx = 0

ProjectThrows ==
    IF Plain THEN \E i \in DOMAIN colIndexes : colIndexes[i] = 0
    ELSE \/ \E i \in DOMAIN groupIdxs : groupIdxs[i] = 0
         \/ /\ stmt.groupBy = <<>> \/ filtered # <<>>
            /\ ~PastIn(groupIdxs, filtered)
            /\ ItemsThrow(filtered)

Throws ==
    \/ pc \in {"scan", "join"} /\ stored[NextTable] = Missing
    \/ pc = "join" /\ JoinThrows
    \/ pc = "filter" /\ Throwing(joinedRows, stmt.where, joinedSchema)
    \/ pc = "project" /\ ProjectThrows
    \/ pc = "sort" /\ \E k \in DOMAIN stmt.orderBy : SortKeys(result.columns)[k].index = 0

ReadsPast ==
    \/ /\ pc = "join" /\ stored[NextTable] # Missing /\ LeftRows # <<>> /\ stored[NextTable] # <<>>
       /\ PastIn(<<leftIdx>>, LeftRows) \/ PastIn(<<rightIdx>>, stored[NextTable])
    \/ pc = "project" /\ Plain /\ PastIn(colIndexes, filtered)
    \/ pc = "project" /\ ~Plain /\ (PastIn(groupIdxs, filtered) \/ ItemsPast(filtered))

\* The next part of visit runs to its end.
Reaches(label) == pc = label /\ ~Throws /\ ~ReadsPast

-----------------------------------------------------------------------------
Init ==
    /\ stored = [tb \in Tables |-> <<>>]
    /\ stmt \in Statements
    /\ pc = "idle"
    /\ reads = <<>> /\ joinedRows = <<>> /\ joinedSchema = <<>> /\ filtered = <<>>
    /\ result = NoResult /\ produced = <<>>

\* Another connection writes to a table, drops it or creates it.
Write(tb) ==
    /\ pc \in {"idle", "join"}
    /\ \E rows \in Contents[tb] \cup {Missing} : stored' = [stored EXCEPT ![tb] = rows]
    /\ UNCHANGED <<stmt, pc, working, answer>>

Receive ==
    /\ pc = "idle"
    /\ stmt' \in Statements
    /\ pc' = "scan"
    /\ UNCHANGED <<stored, working, answer>>

Scan ==
    /\ Reaches("scan")
    /\ reads' = <<stored[stmt.table]>>
    /\ joinedSchema' = Columns[stmt.table]
    /\ IF stmt.joins = <<>>
       THEN joinedRows' = stored[stmt.table] /\ pc' = "filter"
       ELSE joinedRows' = <<>> /\ pc' = "join"
    /\ UNCHANGED <<request, filtered, answer>>

Join ==
    /\ Reaches("join")
    /\ reads' = Append(reads, stored[NextJoin.table])
    /\ joinedRows' = Pairs(LeftRows, stored[NextJoin.table], leftIdx, rightIdx)
    /\ joinedSchema' = joinedSchema \o Columns[NextJoin.table]
    /\ pc' = IF Len(reads) = Len(stmt.joins) THEN "filter" ELSE "join"
    /\ UNCHANGED <<request, filtered, answer>>

Filter ==
    /\ Reaches("filter")
    /\ filtered' = Matching(joinedRows, stmt.where, joinedSchema)
    /\ pc' = "project"
    /\ UNCHANGED <<request, reads, joinedRows, joinedSchema, answer>>

Produce(rows) ==
    /\ result' = [columns |-> Header, rows |-> rows]
    /\ produced' = rows
    /\ pc' = "sort"
    /\ UNCHANGED <<request, working>>

Project ==
    /\ Reaches("project") /\ Plain
    /\ Produce(Projected(filtered))

Aggregate ==
    /\ Reaches("project") /\ ~Plain /\ stmt.groupBy = <<>>
    /\ Produce(<<OutRow(filtered)>>)

Group ==
    /\ Reaches("project") /\ stmt.groupBy # <<>>
    /\ Produce(GroupRows(filtered))

OrderBy ==
    /\ Reaches("sort")
    /\ result' = [result EXCEPT !.rows = StableSort(@, SortKeys(result.columns))]
    /\ pc' = "limit"
    /\ UNCHANGED <<request, working, produced>>

Limit ==
    /\ pc = "limit"
    /\ result' = [result EXCEPT !.rows = Limited(@)]
    /\ pc' = "answered"
    /\ UNCHANGED <<request, working, produced>>

\* An exception reaches Executor::execute; of m_result only the error is sent.
Fail ==
    /\ Throws
    /\ pc' = "failed"
    /\ UNCHANGED <<request, working, answer>>

\* vector::operator[] past the end: nothing is said of what follows.
RunPast ==
    /\ ReadsPast /\ ~Throws
    /\ pc' = "undefined"
    /\ UNCHANGED <<request, working, answer>>

\* The next statement has an Executor of its own.
Respond ==
    /\ pc \in {"answered", "failed", "undefined"}
    /\ pc' = "idle"
    /\ reads' = <<>> /\ joinedRows' = <<>> /\ joinedSchema' = <<>> /\ filtered' = <<>>
    /\ result' = NoResult /\ produced' = <<>>
    /\ UNCHANGED request

Next ==
    \/ \E tb \in Tables : Write(tb)
    \/ Receive \/ Scan \/ Join \/ Filter \/ Project \/ Aggregate \/ Group
    \/ OrderBy \/ Limit \/ Fail \/ RunPast \/ Respond

Spec == Init /\ [][Next]_vars

-----------------------------------------------------------------------------
(* What must hold.                                                         *)

RowsFit(rows, schema) ==
    \A i \in DOMAIN rows : Len(rows[i]) = Len(schema) /\ RowOk(rows[i], schema)

(* The types of the variables.  With at most one JOIN the rows joined are  *)
(* rows of the schema they are read by (lines 205-236).                    *)
TypeOK ==
    /\ \A tb \in Tables : stored[tb] \in Contents[tb] \cup {Missing}
    /\ stmt \in Statements
    /\ pc \in {"idle", "scan", "join", "filter", "project", "sort", "limit",
              "answered", "failed", "undefined"}
    /\ joinedSchema \in Seq(Column)
    /\ Len(stmt.joins) < 2 =>
          RowsFit(joinedRows, joinedSchema) /\ RowsFit(filtered, joinedSchema)
    /\ \A i \in DOMAIN result.rows :
          /\ result.rows[i] \in Seq(Value)
          /\ Len(result.rows[i]) = Len(result.columns)

(* JOIN compares with compareForSort, WHERE with compareValues (line 224   *)
(* against Statements.cpp:20).  On values of the same sort the two agree   *)
(* on which rows belong together, a NULL joins no value, and each pair of  *)
(* rows is joined once, whatever was written between the two reads.        *)
JoinAgreesWithWhere ==
    pc = "filter" /\ Len(stmt.joins) = 1 =>
        LET l == ColumnIndex(stmt.joins[1].leftCol, Columns[stmt.table])
            r == ColumnIndex(stmt.joins[1].rightCol, Columns[stmt.joins[1].table])
            all == (DOMAIN allRows) \X (DOMAIN reads[2])
            joined == {p \in all : Contains(joinedRows, allRows[p[1]] \o reads[2][p[2]])}
        IN  /\ \A p \in all :
                  LET a == allRows[p[1]][l]
                      b == reads[2][p[2]][r]
                  IN  /\ Ordered(a, b) => (p \in joined <=> compareValues(a, "EQ", b))
                      /\ (a = NULL) # (b = NULL) => p \notin joined
            /\ Len(joinedRows) = Cardinality(joined)

(* a AND b finds what b finds among the rows a has found, and fails when   *)
(* one of these two would; a OR b is NOT (NOT a AND NOT b), failures       *)
(* included (Statements.h:34, 43: the right side is evaluated on need).    *)
WhereShortCircuits ==
    pc = "filter" => \A m \in DOMAIN stmt.where :
        LET top   == Last(stmt.where)
            a     == SubSeq(stmt.where, 1, m)
            b     == SubSeq(stmt.where, m + 1, Len(stmt.where) - 1)
            found == Matching(joinedRows, a, joinedSchema)
            dual  == a \o <<Not>> \o b \o <<Not, And, Not>>
        IN  IsTree(a) /\ IsTree(b) =>
              /\ top = And =>
                    /\ Matching(joinedRows, stmt.where, joinedSchema) = Matching(found, b, joinedSchema)
                    /\ Throws <=> \/ Throwing(joinedRows, a, joinedSchema)
                                  \/ Throwing(found, b, joinedSchema)
              /\ top = Or =>
                    /\ Matching(joinedRows, stmt.where, joinedSchema) = Matching(joinedRows, dual, joinedSchema)
                    /\ Throws <=> Throwing(joinedRows, dual, joinedSchema)

\* The value the k-th group shows for the g-th column of GROUP BY, and what it
\* may show there for the value of one of its rows.
Shown(k, g)    == produced[k][HeaderIndex(stmt.groupBy[g], stmt.items)]
ShownFor(v, w) == v = w \/ {v, w} = {NULL, [kind |-> "TEXT", data |-> NullWord]}

(* Taken together the groups hold every row that matched, each once: their *)
(* counts and sums add up, the least of their minima is the minimum.       *)
(* Groups that show their columns differ in them, and every row has a      *)
(* group that shows its values: NULL is never taken for a number, only for *)
(* the text 'NULL' (lines 312-348).                                        *)
GroupTotalsAgree ==
    pc = "sort" /\ stmt.groupBy # <<>> /\ filtered # <<>> =>
        /\ \A i \in DOMAIN stmt.items :
              LET item   == stmt.items[i]
                  column == [k \in DOMAIN produced |-> produced[k][i]]
                  sum    == FoldLeft(LAMBDA s, v : s + v.data, 0, column)
              IN  /\ item.agg = "COUNT" => sum = Len(filtered)
                  /\ item.agg = "SUM" => sum = calcAgg("SUM", item.arg, filtered).data
                  /\ item.agg = "MIN" => LeastOf(column) = calcAgg("MIN", item.arg, filtered)
        /\ (\A g \in DOMAIN stmt.groupBy : HeaderIndex(stmt.groupBy[g], stmt.items) # 0) =>
              /\ \A k1, k2 \in DOMAIN produced : k1 # k2 =>
                    \E g \in DOMAIN stmt.groupBy : Shown(k1, g) # Shown(k2, g)
              /\ \A i \in DOMAIN filtered : \E k \in DOMAIN produced :
                    \A g \in DOMAIN stmt.groupBy : ShownFor(filtered[i][groupIdxs[g]], Shown(k, g))

\* Every ORDER BY names a column of the answer.
OrderedByAnswer ==
    \A k \in DOMAIN stmt.orderBy : HeaderIndex(stmt.orderBy[k].column, result.columns) # 0

\* WHERE has no order of truth values.
ValueBefore(a, b) ==
    /\ b # NULL
    /\ \/ a = NULL
       \/ compareValues(a, "LT", b)
       \/ {a.kind, b.kind} = {"BOOL"} /\ a.data < b.data

RowPrecedes(a, b) ==
    \E k \in DOMAIN stmt.orderBy :
        LET At(j) == HeaderIndex(stmt.orderBy[j].column, result.columns)
        IN  /\ IF stmt.orderBy[k].ascending THEN ValueBefore(a[At(k)], b[At(k)])
                                            ELSE ValueBefore(b[At(k)], a[At(k)])
            /\ \A j \in 1 .. k - 1 : ~ValueBefore(a[At(j)], b[At(j)]) /\ ~ValueBefore(b[At(j)], a[At(j)])

(* The p-th row answered has the rank OFFSET + p among all rows produced,  *)
(* in the order of WHERE's own comparison with NULL first, and nothing is  *)
(* missing at the end (lines 352-391).                                     *)
AnswerIsRanked ==
    pc = "answered" /\ OrderedByAnswer =>
        LET first == IF stmt.limit < 0 THEN 0 ELSE stmt.offset
            rest  == Max({0, Len(produced) - first})
        IN  /\ Len(result.rows) = IF stmt.limit < 0 THEN rest ELSE Min({stmt.limit, rest})
            /\ \A p \in DOMAIN result.rows :
                  LET row    == result.rows[p]
                      before == {i \in DOMAIN produced : RowPrecedes(produced[i], row)}
                      upTo   == {i \in DOMAIN produced : ~RowPrecedes(row, produced[i])}
                  IN  Cardinality(before) < first + p /\ first + p <= Cardinality(upTo)

\* The answer, had the rows been sorted by the columns of their tables.
SortedThenProjected ==
    LET keys == [k \in DOMAIN stmt.orderBy |->
                    [index     |-> ColumnIndex(stmt.orderBy[k].column, joinedSchema),
                     ascending |-> stmt.orderBy[k].ascending]]
    IN  Limited(Projected(StableSort(filtered, keys)))

(* Sorting the answer, as the code does, gives what sorting the rows of    *)
(* the tables would, ties in the order they were read, also when a column  *)
(* is answered at another place than it is stored (lines 355-368).         *)
OrderBeforeProjection ==
    pc = "answered" /\ Plain /\ OrderedByAnswer => result.rows = SortedThenProjected

(* The code never reads past a row unless a JOIN before the last one found *)
(* nothing and the main table was taken in its place (line 222).           *)
UndefinedOnlyAfterEmptyJoin ==
    pc = "undefined" =>
        /\ Len(stmt.joins) >= 2
        /\ Len(stmt.joins) = 2 =>
              LET jc == stmt.joins[1]
              IN  Pairs(allRows, reads[2], ColumnIndex(jc.leftCol, Columns[stmt.table]),
                        ColumnIndex(jc.rightCol, Columns[jc.table])) = <<>>
=============================================================================
