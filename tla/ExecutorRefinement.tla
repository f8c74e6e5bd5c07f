------------------------- MODULE ExecutorRefinement -------------------------
(***************************************************************************)
(* The executor over its files implements RelStore, as long as statements  *)
(* fit the columns they write, the process stops only between statements   *)
(* and no two connections use the same table (or the catalog, or a         *)
(* schema) at a time.                                                      *)
(***************************************************************************)
EXTENDS Executor

\* While a file is being rewritten, clients are still promised what it was.
Content(p) ==
    LET writers == {t \in Threads : At(t, "close") /\ stream[t].linked /\ stream[t].path = p}
    IN  IF writers = {} THEN files[p] ELSE stream[CHOOSE t \in writers : TRUE].base

\* DROP DATABASE takes effect when it removes the directory.
Dropping(t) == stmt[t].op = "dropDatabase"
               /\ pc[t] \in {"listDatabases", "open", "close", "compareDb", "resetDb"}
Dropped(d)  == \E t \in Threads : Dropping(t) /\ stmt[t].db = d

Listed(p) == {Content(p).names[i] : i \in DOMAIN Content(p).names}

absDbs  == {d \in Listed(catalogPath) : ~ Dropped(d)}
absTabs == [d \in Dbs |-> Listed(schemaPath(d)) \cap Tables]
absRows == [p \in Dbs \X Tables |->
                LET recs == ReadRecords(Content(p), Columns[p[2]])
                IN  RowsAt(recs, {i \in DOMAIN recs : Live(recs[i])})]
absCur  == IF Dropped(currentDb) THEN NoDb ELSE currentDb
absCall == [t \in Threads |->
                [stmt |-> stmt[t],
                 done |-> At(t, "respond") \/ Dropping(t),
                 res  |-> IF Dropping(t) THEN Success
                          ELSE IF At(t, "respond") THEN result[t] ELSE NoResult]]

Promise == INSTANCE RelStore WITH
    dbs <- absDbs, tabs <- absTabs, rows <- absRows, cur <- absCur, call <- absCall

\* Every statement is answered as one atomic statement of the relational
\* store: Executor.cpp and StorageEngine.cpp implement the promise.
ImplementsRelStore == Promise!Spec
=============================================================================
