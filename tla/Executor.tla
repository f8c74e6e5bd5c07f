------------------------------ MODULE Executor ------------------------------
(***************************************************************************)
(* The executor of chapaBD (executor/Executor.cpp) over the storage engine *)
(* and the catalog (catalog/Catalog.cpp): every server thread runs one     *)
(* statement at a time through the visit method of that statement, and the *)
(* threads share the files and the current database.                       *)
(*                                                                         *)
(* A thread's pc names the next call that reads or writes shared state.    *)
(* dbName is a reference to the current database, so the table and schema  *)
(* paths are built from what it is when they are built.  Reading it is a   *)
(* data race with USE; names no longer than 8 characters of equal length   *)
(* are stored in one piece, so a read returns the old or the new name.     *)
(*                                                                         *)
(* SELECT is the scan with its WHERE clause; it has one table.             *)
(***************************************************************************)
EXTENDS StorageEngine

CONSTANTS
    Workload,       \* the statements each thread may be sent
    Installed,      \* databases that exist when the server first starts
    InstalledTables,\* tables each of them has
    MaxRecords,     \* bound: an INSERT is sent only while its file is shorter
    CrashAllowed    \* the process may stop in the middle of statements

Row == Seq(Value)

Statement ==
         [op : {"createDatabase", "dropDatabase", "use"}, db : Dbs]
    \cup [op : {"createTable", "dropTable"}, table : Tables]
    \cup [op : {"insert"}, table : Tables, columns : Seq(ColumnName), values : Seq(Row)]
    \cup {s \in [op : {"update"}, table : Tables, columns : Seq(ColumnName), value : Row,
                 where : Where] : Len(s.columns) = Len(s.value)}
    \cup [op : {"select", "delete"}, table : Tables, where : Where]

ASSUME WorkloadAssumption == Workload \in [Threads -> SUBSET Statement]
ASSUME InstalledAssumption == Installed \in Seq(Dbs) /\ InstalledTables \in Seq(Tables)
ASSUME MaxRecordsAssumption == MaxRecords \in Nat

VARIABLES
    currentDb,      \* Catalog::m_currentDb, shared by all connections
    pc,             \* the next step of each thread
    stmt,           \* the statement each thread runs
    work,           \* where the thread is going to write, and what
    result          \* the QueryResult of each thread

vars == <<files, dirs, stream, currentDb, pc, stmt, work, result>>
threadVars == <<stmt, work, result>>

NoStatement == [op |-> "none"]
NoWork      == [path |-> catalogPath, content |-> Absent]
NoResult    == [ok |-> FALSE, rows |-> <<>>, affected |-> 0]

Success == [NoResult EXCEPT !.ok = TRUE]
Labels  == {"idle", "databaseExists", "mkdir", "rmdir", "listDatabases", "setDb", "requireDb",
            "tableExists", "loadSchema", "requireTable", "rows", "open", "close",
            "compareDb", "resetDb", "respond"}

Init ==
    /\ StorageInit(Installed, InstalledTables)
    /\ currentDb = NoDb
    /\ pc     = [t \in Threads |-> "idle"]
    /\ stmt   = [t \in Threads |-> NoStatement]
    /\ work   = [t \in Threads |-> NoWork]
    /\ result = [t \in Threads |-> NoResult]

-----------------------------------------------------------------------------
(* Moves of a thread.                                                      *)

At(t, label)   == pc[t] = label
Goto(t, label) == pc' = [pc EXCEPT ![t] = label]

\* The statement is over; its result is still to be sent.
Answer(t, r) == result' = [result EXCEPT ![t] = r] /\ Goto(t, "respond")
Fail(t)      == Answer(t, NoResult)

\* What is to be written is known; `r' is the result if the write succeeds.
Prepare(t, path, content, r) ==
    /\ work' = [work EXCEPT ![t] = [path |-> path, content |-> content]]
    /\ result' = [result EXCEPT ![t] = r]
    /\ Goto(t, "open")

-----------------------------------------------------------------------------
(* Receiving a statement and sending its result.                           *)

FirstStep(op) ==
    CASE op \in {"createDatabase", "dropDatabase", "use"} -> "databaseExists"
      [] OTHER -> "requireDb"

\* Bounds: the files a statement may extend are short enough, those that
\* are being rewritten included.  Connections that race can list a name
\* again and again; here at most once too often.
Contents(name) ==
    {files[<<d, name>>] : d \in Dirs} \cup
    {work[t].content : t \in {u \in Threads : work[u].path[2] = name}}

WithinBound(s) ==
    /\ s.op = "insert" =>
         \A f \in Contents(s.table) : f.total < MaxRecords
    /\ s.op = "createTable" =>
         \A f \in Contents("schema") : Len(f.names) <= Cardinality(Tables)
    /\ s.op = "createDatabase" =>
         \A f \in Contents("catalog") : Len(f.names) <= Cardinality(Dbs)

Receive(t) ==
    /\ At(t, "idle")
    /\ \E s \in Workload[t] :
        /\ WithinBound(s)
        /\ stmt' = [stmt EXCEPT ![t] = s]
        /\ Goto(t, FirstStep(s.op))
    /\ UNCHANGED <<storageVars, currentDb, work, result>>

Respond(t) ==
    /\ At(t, "respond")
    /\ stmt'   = [stmt EXCEPT ![t] = NoStatement]
    /\ work'   = [work EXCEPT ![t] = NoWork]
    /\ result' = [result EXCEPT ![t] = NoResult]
    /\ Goto(t, "idle")
    /\ UNCHANGED <<storageVars, currentDb>>

-----------------------------------------------------------------------------
(* CREATE DATABASE, DROP DATABASE, USE.                                    *)

DatabaseExists(t) ==
    LET s  == stmt[t]
        ok == ~ CatalogBroken /\ (databaseExists(s.db) <=> s.op # "createDatabase")
    IN  /\ At(t, "databaseExists")
        /\ \/ /\ ~ ok
              /\ Fail(t)
           \/ /\ ok
              /\ Goto(t, CASE s.op = "createDatabase" -> "mkdir"
                           [] s.op = "dropDatabase"   -> "rmdir"
                           [] s.op = "use"            -> "setDb")
              /\ UNCHANGED result
        /\ UNCHANGED <<storageVars, currentDb, stmt, work>>

MakeDirectory(t) ==
    /\ At(t, "mkdir")
    /\ create_directories(stmt[t].db)
    /\ Goto(t, "listDatabases")
    /\ UNCHANGED <<currentDb, threadVars>>

RemoveDirectory(t) ==
    /\ At(t, "rmdir")
    /\ remove_all(stmt[t].db)
    /\ Goto(t, "listDatabases")
    /\ UNCHANGED <<currentDb, threadVars>>

ListDatabases(t) ==
    LET d == stmt[t].db
    IN  /\ At(t, "listDatabases")
        /\ \/ /\ CatalogBroken
              /\ Fail(t)
              /\ UNCHANGED work
           \/ /\ ~ CatalogBroken
              /\ Prepare(t, catalogPath,
                    CatalogFile(IF stmt[t].op = "createDatabase"
                                THEN Append(listDatabases, d)
                                ELSE Without(listDatabases, d)), Success)
        /\ UNCHANGED <<storageVars, currentDb, stmt>>

SetCurrentDatabase(t) ==
    /\ At(t, "setDb")
    /\ currentDb' = stmt[t].db
    /\ Answer(t, Success)
    /\ UNCHANGED <<storageVars, stmt, work>>

\* Mutant: the current database stays selected after it was dropped.
KeepCurrentDatabase(t) ==
    /\ At(t, "compareDb")
    /\ Goto(t, "respond")
    /\ UNCHANGED <<storageVars, currentDb, threadVars>>

\* The last steps of DROP DATABASE: the comparison takes no lock.
CompareDatabase(t) ==
    /\ At(t, "compareDb")
    /\ Goto(t, IF currentDb = stmt[t].db THEN "resetDb" ELSE "respond")
    /\ UNCHANGED <<storageVars, currentDb, threadVars>>

ResetDatabase(t) ==
    /\ At(t, "resetDb")
    /\ currentDb' = NoDb
    /\ Goto(t, "respond")
    /\ UNCHANGED <<storageVars, threadVars>>

-----------------------------------------------------------------------------
(* CREATE TABLE and DROP TABLE.                                            *)

RequireDb(t) ==
    /\ At(t, "requireDb")
    /\ \/ /\ currentDb = NoDb
          /\ Fail(t)
       \/ /\ currentDb # NoDb
          /\ Goto(t, CASE stmt[t].op = "createTable" -> "tableExists"
                       [] stmt[t].op = "dropTable"   -> "loadSchema"
                       [] OTHER -> "requireTable")
          /\ UNCHANGED result
    /\ UNCHANGED <<storageVars, currentDb, stmt, work>>

TableExists(t) ==
    LET ok == ~ SchemaBroken(currentDb) /\ ~ tableExists(currentDb, stmt[t].table)
    IN  /\ At(t, "tableExists")
        /\ \/ ~ ok /\ Fail(t)
           \/ ok /\ Goto(t, "loadSchema") /\ UNCHANGED result
        /\ UNCHANGED <<storageVars, currentDb, stmt, work>>

\* DROP TABLE takes the table out of the schema; its data file stays.
LoadSchema(t) ==
    LET s == stmt[t]
        tables == loadSchema(currentDb)
        ok == /\ ~ SchemaBroken(currentDb)
              /\ s.op = "dropTable" => tableExists(currentDb, s.table)
    IN  /\ At(t, "loadSchema")
        /\ \/ ~ ok /\ Fail(t) /\ UNCHANGED work
           \/ /\ ok
              /\ Prepare(t, schemaPath(currentDb),
                    SchemaFile(IF s.op = "createTable"
                               THEN Append(tables, s.table)
                               ELSE Without(tables, s.table)), Success)
        /\ UNCHANGED <<storageVars, currentDb, stmt>>

-----------------------------------------------------------------------------
(* SELECT, INSERT, UPDATE and DELETE.                                      *)

Named(names, cols) == \A i \in DOMAIN names : ColumnIndex(names[i], cols) # 0

\* The errors INSERT and UPDATE find in the statement itself.
WellFormed(s) ==
    LET cols == Columns[s.table]
    IN  /\ s.op = "insert" =>
            /\ Named(s.columns, cols)
            /\ \A i \in DOMAIN s.values :
                 Len(s.values[i]) = Len(IF s.columns = <<>> THEN cols ELSE s.columns)
        /\ s.op = "update" => Named(s.columns, cols)

RequireTable(t) ==
    LET ok == /\ ~ SchemaBroken(currentDb)
              /\ tableExists(currentDb, stmt[t].table)
              /\ WellFormed(stmt[t])
    IN  /\ At(t, "requireTable")
        /\ \/ ~ ok /\ Fail(t)
           \/ ok /\ Goto(t, "rows") /\ UNCHANGED result
        /\ UNCHANGED <<storageVars, currentDb, stmt, work>>

\* The rows an INSERT adds: columns it does not name are NULL.
NewRows(s) ==
    LET cols == Columns[s.table]
    IN  [i \in 1 .. Len(s.values) |->
            IF s.columns = <<>> THEN s.values[i]
            ELSE Assign(NullRow(cols), s.columns, s.values[i], cols)]

\* The records after an INSERT, UPDATE or DELETE that found `recs'.
Rewritten(s, recs, hits) ==
    CASE s.op = "insert" -> appendRows(recs, NewRows(s))
      [] s.op = "update" -> updateRows(recs, hits, s.columns, s.value, Columns[s.table])
      [] s.op = "delete" -> deleteRows(recs, hits)

\* The predicate throws on the first live row if its column is unknown.
PredicateThrows(s, recs) ==
    /\ s.op # "insert"
    /\ WhereThrows(s.where, Columns[s.table])
    /\ \E i \in DOMAIN recs : Live(recs[i])

\* readRows and the WHERE clause of a SELECT.
SelectRows(t, path) ==
    LET s    == stmt[t]
        cols == Columns[s.table]
        recs == recordsOf(path, s.table)
        hits == Matched(recs, cols, s.where)
    IN  /\ s.op = "select"
        /\ \/ /\ TableBroken(path) \/ PredicateThrows(s, recs)
              /\ Fail(t)
           \/ /\ ~ (TableBroken(path) \/ PredicateThrows(s, recs))
              /\ Answer(t, [Success EXCEPT !.rows = RowsAt(recs, hits)])
        /\ UNCHANGED work

\* appendRows, updateRows or deleteRows, up to the truncation of the file.
\* The result is the one of the write: an exception in it is a failure.
ChangeRows(t, path) ==
    LET s    == stmt[t]
        cols == Columns[s.table]
        recs == recordsOf(path, s.table)
        hits == IF s.op = "insert" THEN {} ELSE Matched(recs, cols, s.where)
        new  == Rewritten(s, recs, hits)
        count == IF s.op = "insert" THEN Len(s.values) ELSE Cardinality(hits)
    IN  /\ s.op # "select"
        /\ \/ /\ TableBroken(path) \/ PredicateThrows(s, recs)
              /\ Fail(t)
              /\ UNCHANGED work
           \/ /\ s.op # "insert" /\ ~ Exists(path)
              /\ Answer(t, Success)
              /\ UNCHANGED work
           \/ /\ s.op = "insert" \/ Exists(path)
              /\ ~ (TableBroken(path) \/ PredicateThrows(s, recs))
              /\ Prepare(t, path, Rewrite(new, cols),
                    IF WriteThrows(new, cols) THEN NoResult
                    ELSE [Success EXCEPT !.affected = count])

Rows(t) ==
    LET path == tablePath(currentDb, stmt[t].table)
    IN  /\ At(t, "rows")
        /\ SelectRows(t, path) \/ ChangeRows(t, path)
        /\ UNCHANGED <<storageVars, currentDb, stmt>>

-----------------------------------------------------------------------------
(* The rewrite of a file.                                                  *)

\* Mutant: the path of every rewrite is built as saveSchema builds its own.
SchemaTargetPath(t) == schemaPath(currentDb)

\* saveSchema builds its path only now, from the current database.
TargetPath(t) ==
    IF stmt[t].op \in {"createTable", "dropTable"} THEN schemaPath(currentDb) ELSE work[t].path

Open(t) ==
    /\ At(t, "open")
    /\ OpenTrunc(t, TargetPath(t), work[t].content)
    /\ Goto(t, "close")
    /\ UNCHANGED <<currentDb, threadVars>>

Flush(t) ==
    /\ At(t, "close")
    /\ FlushStream(t)
    /\ UNCHANGED <<currentDb, pc, threadVars>>

\* Mutant: a rewrite waits until no other is going on.
CloseAlone(t) ==
    /\ At(t, "close")
    /\ \A u \in Threads \ {t} : ~ At(u, "close")
    /\ CloseStream(t)
    /\ Goto(t, IF stmt[t].op = "dropDatabase" THEN "compareDb" ELSE "respond")
    /\ UNCHANGED <<currentDb, threadVars>>

Close(t) ==
    /\ At(t, "close")
    /\ CloseStream(t)
    /\ Goto(t, IF stmt[t].op = "dropDatabase" THEN "compareDb" ELSE "respond")
    /\ UNCHANGED <<currentDb, threadVars>>

-----------------------------------------------------------------------------
(* The process stops and starts again: main.cpp does not wait for threads  *)
(* that are in the middle of a statement.                                  *)

Restart ==
    /\ CrashAllowed \/ \A t \in Threads : At(t, "idle")
    /\ LoseStreams
    /\ currentDb' = NoDb
    /\ pc'     = [t \in Threads |-> "idle"]
    /\ stmt'   = [t \in Threads |-> NoStatement]
    /\ work'   = [t \in Threads |-> NoWork]
    /\ result' = [t \in Threads |-> NoResult]

-----------------------------------------------------------------------------

\* The steps a thread owes once it has received a statement.
Step(t) ==
    \/ Respond(t)
    \/ DatabaseExists(t) \/ MakeDirectory(t) \/ RemoveDirectory(t) \/ ListDatabases(t)
    \/ SetCurrentDatabase(t) \/ CompareDatabase(t) \/ ResetDatabase(t)
    \/ RequireDb(t) \/ TableExists(t) \/ LoadSchema(t)
    \/ RequireTable(t) \/ Rows(t)
    \/ Open(t) \/ Flush(t) \/ Close(t)

Next ==
    \/ \E t \in Threads : Receive(t) \/ Step(t)
    \/ Restart

Spec == Init /\ [][Next]_vars

\* The operating system keeps running every thread; clients need not send.
FairSpec == Spec /\ \A t \in Threads : WF_vars(Step(t))

-----------------------------------------------------------------------------
(* Properties.                                                             *)

Work   == [path : Paths, content : File]
Result == [ok : BOOLEAN, rows : Seq(Row), affected : Nat]

\* Every variable has its type: Executor.cpp and StorageEngine.cpp.
TypeOK ==
    /\ StorageTypeOK
    /\ currentDb \in Dirs
    /\ pc     \in [Threads -> Labels]
    /\ stmt   \in [Threads -> Statement \cup {NoStatement}]
    /\ work   \in [Threads -> Work]
    /\ result \in [Threads -> Result]

IsTableFile(d, tb) == files[<<d, tb>>].magic = "table"

\* A value a table file holds, or is read as holding, is NULL or of its
\* column's type, whatever statements ran together, failed in the middle or
\* were cut off: writeValue stops before the first value that does not fit
\* (StorageEngine.cpp:189-217), and bytes are decoded by the column.
FilesWellTyped ==
    \A d \in Dirs, tb \in Tables : IsTableFile(d, tb) =>
        \A i \in DOMAIN files[<<d, tb>>].recs :
            \A c \in DOMAIN files[<<d, tb>>].recs[i].vals :
                FieldOk(files[<<d, tb>>].recs[i].vals[c], Columns[tb][c])

\* Records stay aligned: the header counts at least the records present, and
\* none but the last may be cut short, so no read takes the bytes of one
\* field for another (readRows, StorageEngine.cpp:245-266; one connection).
RecordsAligned ==
    \A d \in Dirs, tb \in Tables : IsTableFile(d, tb) =>
        LET f == files[<<d, tb>>]
        IN  /\ Len(f.recs) <= f.total
            /\ \A i \in DOMAIN f.recs :
                 /\ Len(f.recs[i].vals) <= Len(Columns[tb])
                 /\ i < Len(f.recs) => Len(f.recs[i].vals) = Len(Columns[tb])

\* What a SELECT answers fits the columns of its table, even when the file
\* was torn and the missing part is read as zeros, or as what another stream
\* left there.
SelectedRowsWellTyped ==
    \A t \in Threads : \A i \in DOMAIN result[t].rows :
        /\ Len(result[t].rows[i]) = Len(Columns[stmt[t].table])
        /\ RowOk(result[t].rows[i], Columns[stmt[t].table])

\* Metadata and data never take each other's file, although a table may be
\* called schema: the magic number stops it (one connection).
MagicMatchesPath ==
    \A p \in Paths :
        /\ files[p].magic = "catalog" => p = catalogPath
        /\ files[p].magic = "schema"  => p[2] = "schema"
        /\ files[p].magic = "table"   => p[2] # "schema" /\ p # catalogPath

\* No name is listed twice in the catalog or in a schema (one connection).
NamesUnique ==
    \A p \in Paths : \A i, j \in DOMAIN files[p].names :
        files[p].names[i] = files[p].names[j] => i = j

Quiet == \A t \in Threads : At(t, "idle")

\* Between statements the current database, if any, is in the catalog
\* (DROP DATABASE resets it, Executor.cpp:60-63).
CurrentDbListed == Quiet /\ currentDb # NoDb => databaseExists(currentDb)

\* The records of the file thread t rewrites, before and after.
Before(t) == ReadRecords(stream[t].base, Columns[stmt[t].table])
After(t)  == ReadRecords(files'[stream[t].path], Columns[stmt[t].table])

\* Thread t ends the rewrite of a table in this step.
Finishes(t, ops) ==
    At(t, "close") /\ pc'[t] = "respond" /\ stmt[t].op \in ops /\ stream[t].linked

\* An INSERT, also one that fails in the middle of its own rows, leaves all
\* records before it as they were (appendRows; one connection).
InsertKeepsRecords ==
    [][\A t \in Threads : Finishes(t, {"insert"}) =>
        /\ Len(Before(t)) <= Len(After(t))
        /\ SubSeq(After(t), 1, Len(Before(t))) = Before(t)]_vars

Selected(t) == Matched(Before(t), Columns[stmt[t].table], stmt[t].where)

OthersUnchanged(t) ==
    /\ Len(After(t)) = Len(Before(t))
    /\ \A i \in DOMAIN Before(t) : i \notin Selected(t) => After(t)[i] = Before(t)[i]

\* A successful UPDATE or DELETE changes only the rows its WHERE selects:
\* no row appears, vanishes or is undeleted beside them (one connection).
SuccessIsLocal ==
    [][\A t \in Threads :
        Finishes(t, {"update", "delete"}) /\ result[t].ok => OthersUnchanged(t)]_vars

\* StorageEngine.h:45 says this of every UPDATE: it applies the updater to
\* the rows that match.  An UPDATE that fails should change no other row.
UpdateTouchesOnlyMatches ==
    [][\A t \in Threads : Finishes(t, {"update"}) => OthersUnchanged(t)]_vars

\* A statement that was received is answered, under FairSpec.
EveryStatementAnswered == \A t \in Threads : ~ At(t, "idle") ~> At(t, "idle")
=============================================================================
