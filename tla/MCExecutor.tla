----------------------------- MODULE MCExecutor -----------------------------
(***************************************************************************)
(* Constants for checking Executor: the tables and the statements clients  *)
(* may send.                                                               *)
(***************************************************************************)
EXTENDS ExecutorRefinement

MCColumnName == {"id", "v", "w"}
MCName == Dbs \cup Tables \cup {"schema", "catalog"}

id == [name |-> "id", type |-> "INT"]
v  == [name |-> "v", type |-> "VARCHAR"]

\* Tables "t" and "schema" have the same two columns in another order, so
\* that the records of one never fit the other.
MCColumns == [tb \in Tables |->
    CASE tb = "t" -> <<id, v>> [] tb = "u" -> <<id>> [] tb = "schema" -> <<v, id>>]

NoNames == <<>>

I(n) == [kind |-> "INT", data |-> n]
S(n) == [kind |-> "TEXT", data |-> n]

\* Values that no statement writes.
MCLeftover == {I(7), S(0)}

IdIs(op, n)  == [op |-> op, column |-> "id", value |-> I(n), negated |-> FALSE]
NotId(op, n) == [IdIs(op, n) EXCEPT !.negated = TRUE]
Unknown      == [op |-> "EQ", column |-> "w", value |-> I(1), negated |-> FALSE]

Ddl(ops, ds)  == [op : ops, db : ds]
Tdl(ops, tbs) == [op : ops, table : tbs]
Insert(tb, names, rows) ==
    [op |-> "insert", table |-> tb, columns |-> names, values |-> rows]
Update(tb, names, value, where) ==
    [op |-> "update", table |-> tb, columns |-> names, value |-> value, where |-> where]
Select(tb, where) == [op |-> "select", table |-> tb, where |-> where]
Delete(tb, where) == [op |-> "delete", table |-> tb, where |-> where]

-----------------------------------------------------------------------------
(* One connection, statements that fit the columns.                        *)

SerialWorkload == [t \in Threads |->
    Ddl({"createDatabase", "dropDatabase", "use"}, Dbs)
    \cup Tdl({"createTable", "dropTable"}, {"t"})
    \cup {Insert("t", <<>>, <<<<I(1), S(1)>>>>),
          Insert("t", <<"v">>, <<<<S(2)>>>>),
          Insert("t", <<"w">>, <<<<S(2)>>>>),
          Insert("t", <<"v", "id">>, <<<<S(2)>>>>),
          Update("t", <<"id", "v">>, <<I(2), S(2)>>, IdIs("LT", 2)),
          Update("t", <<"v">>, <<I(2)>>, IdIs("EQ", 7)),
          Delete("t", NotId("GE", 2)),
          Delete("t", Unknown),
          Select("t", NoWhere), Select("t", IdIs("EQ", 1))}]

-----------------------------------------------------------------------------
(* One connection, any values, a table called schema, stops at any moment. *)

RoughWorkload == [t \in Threads |->
    Ddl({"createDatabase", "dropDatabase", "use"}, Dbs)
    \cup Tdl({"createTable", "dropTable"}, {"t", "schema"})
    \cup {Insert("t", <<>>, <<<<I(1), S(1)>>, <<I(1), I(1)>>>>),
          Insert("t", <<"id">>, <<<<I(2)>>>>),
          Update("t", <<"v">>, <<I(2)>>, IdIs("EQ", 1)),
          Delete("t", IdIs("EQ", 1)),
          Insert("schema", <<>>, <<<<S(1), I(1)>>>>),
          Select("t", NoWhere)}]

-----------------------------------------------------------------------------
(* Two connections, each with a table of its own.                          *)

TablesTU == <<"t", "u">>
TableT   == <<"t">>
DbA      == <<"a">>

ApartWorkload == [t \in Threads |->
    IF t = "c1"
    THEN {[op |-> "use", db |-> "a"],
          Insert("t", <<>>, <<<<I(1), S(1)>>>>),
          Update("t", <<"v">>, <<S(2)>>, IdIs("EQ", 1)),
          Delete("t", IdIs("EQ", 1))}
    ELSE {Insert("u", <<>>, <<<<NULL>>>>),
          Update("u", <<"id">>, <<I(1)>>, NotId("EQ", 1)),
          Select("u", NotId("NEQ", 1))}]

-----------------------------------------------------------------------------
(* Connections that insert into one table.                                 *)

InsertWorkload == [t \in Threads |->
    {Insert("t", <<>>, <<<<I(1), S(1)>>>>)}
    \cup (IF t = "c1" THEN {[op |-> "use", db |-> "a"]} ELSE {})]

-----------------------------------------------------------------------------
(* Connections that get in each other's way: on one table, and with the    *)
(* database dropped and created under the other's statements.              *)

SharedWorkload == [t \in Threads |->
    IF t = "c1"
    THEN Ddl({"use", "createDatabase", "dropDatabase"}, Dbs)
         \cup {Update("t", <<"v">>, <<I(2)>>, NoWhere)}
    ELSE Tdl({"createTable"}, {"t", "schema"})
         \cup {Insert("t", <<>>, <<<<I(1), S(1)>>>>), Insert("schema", <<"id">>, <<<<I(1)>>>>),
               Delete("t", IdIs("EQ", 7)),
               Select("t", NoWhere), Select("schema", NoWhere)}]
=============================================================================
