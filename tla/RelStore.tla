------------------------------ MODULE RelStore ------------------------------
(***************************************************************************)
(* What chapaBD promises its clients: a store of databases, tables and     *)
(* rows in which every statement takes effect at once, entirely or not at  *)
(* all, at some moment between its arrival and its answer.                 *)
(*                                                                         *)
(* One thing of this promise is the program's own choice: there is one     *)
(* current database for all connections.  One is left open: whether the    *)
(* rows of a table outlive DROP TABLE.  Executor.cpp:107 says they do not, *)
(* Executor.cpp:106-108 keeps them.                                        *)
(***************************************************************************)
EXTENDS Values

CONSTANTS Threads, Dbs, Tables, Columns, NoDb, Installed, InstalledTables, Workload

VARIABLES
    dbs,            \* the databases
    tabs,           \* the tables of each
    rows,           \* the rows of each table, in order of insertion
    cur,            \* the current database
    call            \* the statement of each connection, and its result

relVars == <<dbs, tabs, rows, cur, call>>

Idle    == [stmt |-> [op |-> "none"], done |-> FALSE, res |-> [ok |-> FALSE, rows |-> <<>>, affected |-> 0]]
Refusal == Idle.res
Ok      == [Refusal EXCEPT !.ok = TRUE]

Init ==
    /\ dbs  = {Installed[i] : i \in DOMAIN Installed}
    /\ tabs = [d \in Dbs |-> IF d \in dbs THEN {InstalledTables[i] : i \in DOMAIN InstalledTables} ELSE {}]
    /\ rows = [p \in Dbs \X Tables |-> <<>>]
    /\ cur  = NoDb
    /\ call = [t \in Threads |-> Idle]

Call(t) ==
    /\ call[t] = Idle
    /\ \E s \in Workload[t] : call' = [call EXCEPT ![t] = [Idle EXCEPT !.stmt = s]]
    /\ UNCHANGED <<dbs, tabs, rows, cur>>

Return(t) ==
    /\ call[t].done
    /\ call' = [call EXCEPT ![t] = Idle]
    /\ UNCHANGED <<dbs, tabs, rows, cur>>

Done(t, r) == call' = [call EXCEPT ![t].done = TRUE, ![t].res = r]

-----------------------------------------------------------------------------

CreateDatabase(t, d) ==
    /\ d \notin dbs
    /\ dbs' = dbs \cup {d}
    /\ Done(t, Ok)
    /\ UNCHANGED <<tabs, rows, cur>>

DropDatabase(t, d) ==
    /\ d \in dbs
    /\ dbs' = dbs \ {d}
    /\ tabs' = [tabs EXCEPT ![d] = {}]
    /\ rows' = [p \in Dbs \X Tables |-> IF p[1] = d THEN <<>> ELSE rows[p]]
    /\ cur' = IF cur = d THEN NoDb ELSE cur
    /\ Done(t, Ok)

Use(t, d) ==
    /\ d \in dbs
    /\ cur' = d
    /\ Done(t, Ok)
    /\ UNCHANGED <<dbs, tabs, rows>>

CreateTable(t, tb) ==
    /\ cur # NoDb /\ tb \notin tabs[cur]
    /\ tabs' = [tabs EXCEPT ![cur] = @ \cup {tb}]
    /\ Done(t, Ok)
    /\ UNCHANGED <<dbs, rows, cur>>

DropTable(t, tb) ==
    /\ cur # NoDb /\ tb \in tabs[cur]
    /\ tabs' = [tabs EXCEPT ![cur] = @ \ {tb}]
    /\ \/ UNCHANGED rows
       \/ rows' = [rows EXCEPT ![<<cur, tb>>] = <<>>]
    /\ Done(t, Ok)
    /\ UNCHANGED <<dbs, cur>>

-----------------------------------------------------------------------------
(* Statements on the rows of a table.                                      *)

Known(s) == \A i \in DOMAIN s.columns : ColumnIndex(s.columns[i], Columns[s.table]) # 0

Inserted(s) ==
    LET cols == Columns[s.table]
    IN  [i \in 1 .. Len(s.values) |->
            IF s.columns = <<>> THEN s.values[i]
            ELSE Assign(NullRow(cols), s.columns, s.values[i], cols)]

\* The values are as many as the columns they are for, and of their types.
InsertFits(s) ==
    /\ \A i \in DOMAIN s.values :
         Len(s.values[i]) = Len(IF s.columns = <<>> THEN Columns[s.table] ELSE s.columns)
    /\ \A i \in DOMAIN s.values : RowOk(Inserted(s)[i], Columns[s.table])

Insert(t, s) ==
    /\ Known(s) /\ InsertFits(s)
    /\ rows' = [rows EXCEPT ![<<cur, s.table>>] = @ \o Inserted(s)]
    /\ Done(t, [Ok EXCEPT !.affected = Len(s.values)])

\* A predicate on an unknown column is an error only if there is a row.
Evaluates(s) == WhereThrows(s.where, Columns[s.table]) => rows[<<cur, s.table>>] = <<>>

Selects(s, row) == matchesWhere(row, Columns[s.table], s.where)

Hits(s) == {i \in DOMAIN rows[<<cur, s.table>>] : Selects(s, rows[<<cur, s.table>>][i])}

Select(t, s) ==
    /\ Evaluates(s)
    /\ Done(t, [Ok EXCEPT !.rows = Keep(rows[<<cur, s.table>>], Hits(s))])
    /\ UNCHANGED rows

Updated(s, row) == Assign(row, s.columns, s.value, Columns[s.table])

UpdateFits(s) ==
    \A i \in Hits(s) : RowOk(Updated(s, rows[<<cur, s.table>>][i]), Columns[s.table])

Update(t, s) ==
    /\ Known(s) /\ Evaluates(s) /\ UpdateFits(s)
    /\ rows' = [rows EXCEPT ![<<cur, s.table>>] =
            [i \in 1 .. Len(@) |-> IF i \in Hits(s) THEN Updated(s, @[i]) ELSE @[i]]]
    /\ Done(t, [Ok EXCEPT !.affected = Cardinality(Hits(s))])

Delete(t, s) ==
    /\ Evaluates(s)
    /\ rows' = [rows EXCEPT ![<<cur, s.table>>] = Keep(@, DOMAIN @ \ Hits(s))]
    /\ Done(t, [Ok EXCEPT !.affected = Cardinality(Hits(s))])

OnRows(t, s) ==
    /\ cur # NoDb /\ s.table \in tabs[cur]
    /\ \/ s.op = "insert" /\ Insert(t, s)
       \/ s.op = "select" /\ Select(t, s)
       \/ s.op = "update" /\ Update(t, s)
       \/ s.op = "delete" /\ Delete(t, s)
    /\ UNCHANGED <<dbs, tabs, cur>>

-----------------------------------------------------------------------------

Succeed(t) ==
    LET s == call[t].stmt
    IN  \/ s.op = "createDatabase" /\ CreateDatabase(t, s.db)
        \/ s.op = "dropDatabase" /\ DropDatabase(t, s.db)
        \/ s.op = "use" /\ Use(t, s.db)
        \/ s.op = "createTable" /\ CreateTable(t, s.table)
        \/ s.op = "dropTable" /\ DropTable(t, s.table)
        \/ s.op \in {"insert", "select", "update", "delete"} /\ OnRows(t, s)

\* Why a statement may be refused.
Refused(s) ==
    \/ s.op = "createDatabase" /\ s.db \in dbs
    \/ s.op \in {"dropDatabase", "use"} /\ s.db \notin dbs
    \/ s.op \notin {"createDatabase", "dropDatabase", "use"} /\ cur = NoDb
    \/ s.op = "createTable" /\ s.table \in tabs[cur]
    \/ s.op \notin {"createDatabase", "dropDatabase", "use", "createTable"} /\ s.table \notin tabs[cur]
    \/ s.op \in {"insert", "update"} /\ ~ Known(s)
    \/ s.op \in {"select", "update", "delete"} /\ ~ Evaluates(s)
    \/ s.op = "insert" /\ ~ InsertFits(s)
    \/ s.op = "update" /\ ~ UpdateFits(s)

Effect(t) ==
    /\ call[t] # Idle /\ ~ call[t].done
    /\ \/ Succeed(t)
       \/ /\ Refused(call[t].stmt)
          /\ Done(t, Refusal)
          /\ UNCHANGED <<dbs, tabs, rows, cur>>

\* The server is stopped and started: it forgets its current database.
Restart ==
    /\ \A t \in Threads : call[t] = Idle
    /\ cur' = NoDb
    /\ UNCHANGED <<dbs, tabs, rows, call>>

Next == (\E t \in Threads : Call(t) \/ Effect(t) \/ Return(t)) \/ Restart

Spec == Init /\ [][Next]_relVars
=============================================================================
