-------------------------- MODULE ConnectionProofs --------------------------
(***************************************************************************)
(* Proofs about Executor for one connection: no two statements overlap,    *)
(* but any of them may be ill-typed or fail half-way, a table may have the *)
(* name of the schema file, and the process may stop at any step.  None of *)
(* what is proved here holds for two connections (ExecutorProofs has what  *)
(* does): every one of these invariants relates what a thread saw when it  *)
(* checked to what is there when it writes.                                *)
(***************************************************************************)
EXTENDS ExecutorProofs

\* All statements come from one connection.
OneConnection == \A t, u \in Threads : t = u

LEMMA OnlyThread ==
    ASSUME OneConnection, NEW t \in Threads
    PROVE  Threads = {t}
BY DEF OneConnection

\* No other thread writes to the file of its stream.
LEMMA Closes ==
    ASSUME OneConnection, NEW t \in Threads, Close(t)
    PROVE  /\ files' = IF stream[t].linked
                       THEN [files EXCEPT ![stream[t].path] = stream[t].content] ELSE files
           /\ stream' = [stream EXCEPT ![t] = Closed]
<1>1. LeftBy(t) = {stream[t].content}
  BY OnlyThread, LeftAlone
<1> QED
  BY <1>1 DEF Close, CloseStream

\* With one connection the records of a table file are those written to it, no
\* more than its header counts, and only the last may be short: no read takes
\* the bytes of one field for another (with several connections it may).
THEOREM RecordsStayAligned ==
    ASSUME OneConnection
    PROVE  Spec => []RecordsAligned
<1>1. Sound => RecordsAligned
  <2> SUFFICES ASSUME Sound, NEW d \in Dirs, NEW tb \in Tables, IsTableFile(d, tb)
               PROVE  GoodRecords(files[<<d, tb>>], Columns[tb])
    BY DEF RecordsAligned, GoodRecords
  <2>1. <<d, tb>> \in Paths
    BY PathTypes DEF PathsOfNames
  <2> QED
    BY <2>1 DEF Sound, FilesSound, GoodFile, IsTableFile
<1> QED
  BY <1>1, InitTyped, NextTyped, InitSound, NextSound, PTL DEF Spec

-----------------------------------------------------------------------------
(* The control flow of a thread, and which step changes what.              *)

LEMMA Went ==
    ASSUME TypedAndFit, NEW t \in Threads, NEW label, Goto(t, label)
    PROVE  pc'[t] = label
BY DEF TypedAndFit, TypeOK, Goto

LEMMA Answered ==
    ASSUME TypedAndFit, NEW t \in Threads, NEW r, Answer(t, r)
    PROVE  pc'[t] = "respond" /\ result'[t] = r
BY DEF TypedAndFit, TypeOK, Answer, Goto

LEMMA Prepared ==
    ASSUME TypedAndFit, NEW t \in Threads, NEW path, NEW content, NEW r,
           Prepare(t, path, content, r)
    PROVE  /\ pc'[t] = "open" /\ result'[t] = r
           /\ work'[t].path = path /\ work'[t].content = content
BY DEF TypedAndFit, TypeOK, Prepare, Goto

\* Which step leads where.
LEMMA ControlFlow ==
    ASSUME TypedAndFit, NEW t \in Threads, Receive(t) \/ Step(t)
    PROVE  /\ pc'[t] \in {"mkdir", "rmdir", "setDb"} => DatabaseExists(t)
           /\ pc'[t] = "listDatabases" => MakeDirectory(t) \/ RemoveDirectory(t)
           /\ pc'[t] \in {"tableExists", "requireTable"} => RequireDb(t)
           /\ pc'[t] = "loadSchema" => RequireDb(t) \/ TableExists(t)
           /\ pc'[t] = "rows" => RequireTable(t)
           /\ pc'[t] = "open" => ListDatabases(t) \/ LoadSchema(t) \/ Rows(t)
           /\ pc'[t] = "close" => Open(t) \/ Flush(t)
           /\ pc'[t] = "compareDb" => Close(t)
           /\ pc'[t] = "resetDb" => CompareDatabase(t)
           /\ pc'[t] = "idle" => Respond(t)
<1>1. CASE Receive(t)
  <2>1. PICK s \in Workload[t] : Goto(t, FirstStep(s.op))
    BY <1>1 DEF Receive
  <2>2. FirstStep(s.op) \in {"databaseExists", "requireDb"}
    BY DEF FirstStep
  <2> QED
    BY <2>1, <2>2, Went
<1>2. CASE \/ Respond(t) \/ MakeDirectory(t) \/ RemoveDirectory(t) \/ ResetDatabase(t)
           \/ SetCurrentDatabase(t) \/ Open(t)
  BY <1>2, Went, Answered
     DEF Respond, MakeDirectory, RemoveDirectory, ResetDatabase, SetCurrentDatabase, Open
<1>3. CASE DatabaseExists(t)
  <2>1. stmt[t].op \in DbOps
    BY <1>3, AtStep DEF DatabaseExists, At
  <2>2. Fail(t) \/ Goto(t, "mkdir") \/ Goto(t, "rmdir") \/ Goto(t, "setDb")
    BY <1>3, <2>1 DEF DatabaseExists, DbOps
  <2>3. pc'[t] \in {"respond", "mkdir", "rmdir", "setDb"}
    BY <2>2, Went, Answered DEF Fail
  <2> QED
    BY <1>3, <2>3
<1>4. CASE ListDatabases(t) \/ LoadSchema(t)
  <2>1. Fail(t) \/ \E path, content : Prepare(t, path, content, Success)
    BY <1>4 DEF ListDatabases, LoadSchema
  <2>2. pc'[t] \in {"respond", "open"}
    BY <2>1, Answered, Prepared DEF Fail
  <2> QED
    BY <1>4, <2>2
<1>5. CASE CompareDatabase(t)
  <2>1. pc'[t] \in {"respond", "resetDb"}
    BY <1>5, Went DEF CompareDatabase
  <2> QED
    BY <1>5, <2>1
<1>6. CASE RequireDb(t)
  <2>1. \/ Fail(t) \/ Goto(t, "tableExists") \/ Goto(t, "loadSchema")
        \/ Goto(t, "requireTable")
    BY <1>6 DEF RequireDb
  <2>2. pc'[t] \in {"respond", "tableExists", "loadSchema", "requireTable"}
    BY <2>1, Went, Answered DEF Fail
  <2> QED
    BY <1>6, <2>2
<1>7. CASE TableExists(t)
  <2>1. Fail(t) \/ Goto(t, "loadSchema")
    BY <1>7 DEF TableExists
  <2>2. pc'[t] \in {"respond", "loadSchema"}
    BY <2>1, Went, Answered DEF Fail
  <2> QED
    BY <1>7, <2>2
<1>8. CASE RequireTable(t)
  <2>1. Fail(t) \/ Goto(t, "rows")
    BY <1>8 DEF RequireTable
  <2>2. pc'[t] \in {"respond", "rows"}
    BY <2>1, Went, Answered DEF Fail
  <2> QED
    BY <1>8, <2>2
<1>9. CASE Rows(t)
  <2>1. (\E r : Answer(t, r)) \/ \E path, content, r : Prepare(t, path, content, r)
    BY <1>9 DEF Rows, SelectRows, ChangeRows, Fail
  <2>2. pc'[t] \in {"respond", "open"}
    BY <2>1, Answered, Prepared
  <2> QED
    BY <1>9, <2>2
<1>10. CASE Flush(t)
  <2>1. pc'[t] = "close"
    BY <1>10 DEF Flush, At
  <2> QED
    BY <1>10, <2>1
<1>11. CASE Close(t)
  <2>1. pc'[t] \in {"compareDb", "respond"}
    BY <1>11, Went DEF Close
  <2> QED
    BY <1>11, <2>1
<1> QED
  BY <1>1, <1>2, <1>3, <1>4, <1>5, <1>6, <1>7, <1>8, <1>9, <1>10, <1>11 DEF Step

\* Which step changes what.
LEMMA WhatChanges ==
    ASSUME NEW t \in Threads, Receive(t) \/ Step(t)
    PROVE  /\ files' = files \/ RemoveDirectory(t) \/ Open(t) \/ Flush(t) \/ Close(t)
           /\ dirs' = dirs \/ MakeDirectory(t) \/ RemoveDirectory(t)
           /\ stream' = stream \/ RemoveDirectory(t) \/ Open(t) \/ Close(t)
           /\ currentDb' = currentDb \/ SetCurrentDatabase(t) \/ ResetDatabase(t)
           /\ stmt' = stmt \/ Receive(t) \/ Respond(t)
           /\ work' = work \/ Respond(t) \/ ListDatabases(t) \/ LoadSchema(t) \/ Rows(t)
<1>1. CASE Receive(t) \/ Respond(t)
  BY <1>1 DEF Receive, Respond, storageVars
<1>2. CASE \/ DatabaseExists(t) \/ ListDatabases(t) \/ SetCurrentDatabase(t)
           \/ CompareDatabase(t) \/ ResetDatabase(t)
  BY <1>2 DEF DatabaseExists, ListDatabases, SetCurrentDatabase, CompareDatabase,
              ResetDatabase, storageVars, threadVars
<1>3. CASE MakeDirectory(t) \/ RemoveDirectory(t)
  BY <1>3 DEF MakeDirectory, RemoveDirectory, create_directories, threadVars
<1>4. CASE \/ RequireDb(t) \/ TableExists(t) \/ LoadSchema(t) \/ RequireTable(t) \/ Rows(t)
  BY <1>4 DEF RequireDb, TableExists, LoadSchema, RequireTable, Rows, storageVars
<1>5. CASE Open(t) \/ Flush(t) \/ Close(t)
  BY <1>5 DEF Open, Flush, Close, OpenTrunc, FlushStream, CloseStream, threadVars
<1> QED
  BY <1>1, <1>2, <1>3, <1>4, <1>5 DEF Step

\* Which statement is at which step: what Fits leaves open.
Routed ==
    \A t \in Threads :
        /\ pc[t] \in {"open", "close"} => stmt[t] \in Statement
        /\ pc[t] = "mkdir" => stmt[t].op = "createDatabase"
        /\ pc[t] \in {"rmdir", "compareDb", "resetDb"} => stmt[t].op = "dropDatabase"
        /\ pc[t] = "setDb" => stmt[t].op = "use"
        /\ pc[t] = "listDatabases" => stmt[t].op # "use"

LEMMA RoutedInit == Init => Routed
BY DEF Init, Routed

\* No other thread changes where t is and what it runs.
LEMMA OthersStay ==
    ASSUME TypedAndFit, NEW t \in Threads, Receive(t) \/ Step(t)
    PROVE  \A u \in Threads : u # t => pc'[u] = pc[u] /\ stmt'[u] = stmt[u]
<1>1. \A u \in Threads : u # t => stmt'[u] = stmt[u]
  BY Answers
<1>2. (\E label : Goto(t, label)) \/ pc' = pc
  <2>1. CASE Receive(t) \/ Respond(t)
    BY <2>1 DEF Receive, Respond
  <2>2. CASE \/ MakeDirectory(t) \/ RemoveDirectory(t) \/ SetCurrentDatabase(t)
             \/ CompareDatabase(t) \/ ResetDatabase(t) \/ Open(t) \/ Flush(t) \/ Close(t)
    BY <2>2 DEF MakeDirectory, RemoveDirectory, SetCurrentDatabase, CompareDatabase,
                ResetDatabase, Answer, Open, Flush, Close
  <2>3. CASE \/ DatabaseExists(t) \/ RequireDb(t) \/ TableExists(t) \/ RequireTable(t)
    BY <2>3 DEF DatabaseExists, RequireDb, TableExists, RequireTable, Fail, Answer
  <2>4. CASE ListDatabases(t) \/ LoadSchema(t) \/ Rows(t)
    <3>1. (\E r : Answer(t, r)) \/ \E path, content, r : Prepare(t, path, content, r)
      BY <2>4 DEF ListDatabases, LoadSchema, Rows, SelectRows, ChangeRows, Fail
    <3> QED
      BY <3>1 DEF Answer, Prepare
  <2> QED
    BY <2>1, <2>2, <2>3, <2>4 DEF Step
<1> QED
  BY <1>1, <1>2 DEF Goto, TypedAndFit, TypeOK

LEMMA RoutedStep ==
    ASSUME TypedAndFit, Routed, NEW t \in Threads, Receive(t) \/ Step(t)
    PROVE  Routed'
<1>1. /\ pc'[t] \in {"open", "close"} => stmt'[t] \in Statement
      /\ pc'[t] = "mkdir" => stmt'[t].op = "createDatabase"
      /\ pc'[t] \in {"rmdir", "compareDb", "resetDb"} => stmt'[t].op = "dropDatabase"
      /\ pc'[t] = "setDb" => stmt'[t].op = "use"
      /\ pc'[t] = "listDatabases" => stmt'[t].op # "use"
  <2>1. CASE DatabaseExists(t)
    <3>1. stmt[t].op \in DbOps /\ stmt' = stmt
      BY <2>1, AtStep DEF DatabaseExists, At
    <3>2. \/ Fail(t)
          \/ Goto(t, "mkdir") /\ stmt[t].op = "createDatabase"
          \/ Goto(t, "rmdir") /\ stmt[t].op = "dropDatabase"
          \/ Goto(t, "setDb") /\ stmt[t].op = "use"
      BY <2>1, <3>1 DEF DatabaseExists, DbOps
    <3> QED
      BY <3>1, <3>2, Went, Answered DEF Fail
  <2>2. CASE MakeDirectory(t) \/ RemoveDirectory(t)
    <3>1. stmt' = stmt /\ pc'[t] = "listDatabases"
      BY <2>2, Went DEF MakeDirectory, RemoveDirectory, threadVars
    <3> QED
      BY <2>2, <3>1 DEF MakeDirectory, RemoveDirectory, At, Routed
  <2>3. CASE ListDatabases(t) \/ LoadSchema(t) \/ Rows(t)
    <3>1. stmt' = stmt /\ stmt[t] \in Statement
      BY <2>3, AtStep DEF ListDatabases, LoadSchema, Rows, At
    <3> QED
      BY <2>3, <3>1, ControlFlow DEF DatabaseExists, MakeDirectory, RemoveDirectory, Close,
         CompareDatabase, ListDatabases, LoadSchema, Rows, At
  <2>4. CASE Open(t) \/ Flush(t) \/ Close(t) \/ CompareDatabase(t)
    <3>1. stmt' = stmt
      BY <2>4 DEF Open, Flush, Close, CompareDatabase, threadVars
    <3>2. CASE Open(t) \/ Flush(t)
      <4>1. pc'[t] = "close"
        BY <3>2, Went DEF Open, Flush, At
      <4> QED
        BY <3>1, <3>2, <4>1 DEF Open, Flush, At, Routed
    <3>3. CASE Close(t)
      BY <3>1, <3>3, Went DEF Close
    <3>4. CASE CompareDatabase(t)
      <4>1. pc'[t] \in {"resetDb", "respond"}
        BY <3>4, Went DEF CompareDatabase
      <4> QED
        BY <3>1, <3>4, <4>1 DEF CompareDatabase, At, Routed
    <3> QED
      BY <2>4, <3>2, <3>3, <3>4
  <2> QED
    BY <2>1, <2>2, <2>3, <2>4, ControlFlow
<1>2. \A u \in Threads : u # t => pc'[u] = pc[u] /\ stmt'[u] = stmt[u]
  BY OthersStay
<1> QED
  BY <1>1, <1>2 DEF Routed

LEMMA RoutedElse ==
    ASSUME Routed, Restart \/ UNCHANGED vars
    PROVE  Routed'
BY DEF Routed, Restart, vars

LEMMA NextRouted == TypedAndFit /\ Routed /\ [Next]_vars => Routed'
BY RoutedStep, RoutedElse DEF Next

-----------------------------------------------------------------------------
(* Every file, open stream and pending rewrite has a content its path may  *)
(* have, and only a file that lists names can list a table: a statement on *)
(* rows of a table called schema gets as far as reading the schema file,   *)
(* whose magic number is not that of a table.                              *)

KindFits(f, p) ==
    /\ f.magic = "catalog" => p = catalogPath
    /\ f.magic = "schema"  => p[2] = "schema"
    /\ f.magic = "table"   => p[2] # "schema" /\ p # catalogPath
    /\ f.names # << >>     => f.magic \in {"catalog", "schema"}

FilesFit   == \A p \in Paths : KindFits(files[p], p)
StreamsFit == \A t \in Threads : KindFits(stream[t].content, stream[t].path)
WorkFits   == \A t \in Threads : pc[t] = "open" => KindFits(work[t].content, TargetPath(t))

\* What the thread has seen still holds.
Seen ==
    \A t \in Threads :
        /\ pc[t] \in {"tableExists", "loadSchema", "requireTable", "rows"} => currentDb # NoDb
        /\ pc[t] = "rows" => /\ tableExists(currentDb, stmt[t].table)
                             /\ ~ SchemaBroken(currentDb)

LEMMA KindsOfFiles ==
    /\ \A p : KindFits(Absent, p) /\ KindFits(Empty, p)
    /\ \A names : KindFits(CatalogFile(names), catalogPath)
    /\ \A names, d : KindFits(SchemaFile(names), schemaPath(d))
    /\ \A n, recs, p : p[2] # "schema" /\ p # catalogPath => KindFits(TableData(n, recs), p)
BY DEF KindFits, Absent, Empty, CatalogFile, SchemaFile, TableData, schemaPath

LEMMA SeenInit == Init => Seen
BY DEF Init, Seen

LEMMA FitsInit == Init => FilesFit /\ StreamsFit /\ WorkFits
<1> SUFFICES ASSUME Init
             PROVE  FilesFit /\ StreamsFit /\ WorkFits
  OBVIOUS
<1>1. ASSUME NEW p \in Paths
      PROVE  KindFits(files[p], p)
  <2>1. \/ files[p] = CatalogFile(Installed) /\ p = catalogPath
        \/ files[p] = SchemaFile(InstalledTables) /\ p[2] = "schema"
        \/ files[p] = Absent
    BY DEF Init, StorageInit
  <2> QED
    BY <2>1, KindsOfFiles DEF KindFits, SchemaFile, Absent
<1>2. StreamsFit
  BY KindsOfFiles DEF Init, StorageInit, StreamsFit, Closed
<1>3. WorkFits
  BY DEF Init, WorkFits
<1> QED
  BY <1>1, <1>2, <1>3 DEF FilesFit

LEMMA SeenStep ==
    ASSUME OneConnection, TypedAndFit, Seen, NEW t \in Threads, Receive(t) \/ Step(t)
    PROVE  Seen'
<1>1. CASE RequireDb(t) \/ TableExists(t) \/ RequireTable(t)
  <2>1. currentDb # NoDb \/ pc'[t] = "respond"
    <3>1. CASE RequireDb(t)
      BY <3>1, Answered DEF RequireDb, Fail
    <3>2. CASE TableExists(t) \/ RequireTable(t)
      BY <3>2 DEF TableExists, RequireTable, At, Seen
    <3> QED
      BY <1>1, <3>1, <3>2
  <2>2. /\ currentDb' = currentDb /\ files' = files /\ stmt' = stmt
    BY <1>1 DEF RequireDb, TableExists, RequireTable, storageVars
  <2>3. pc'[t] = "rows" => /\ tableExists(currentDb, stmt[t].table)
                           /\ ~ SchemaBroken(currentDb)
    <3> SUFFICES ASSUME pc'[t] = "rows"
                 PROVE  /\ tableExists(currentDb, stmt[t].table) /\ ~ SchemaBroken(currentDb)
      OBVIOUS
    <3>1. RequireTable(t)
      BY <1>1, ControlFlow DEF Step
    <3>2. ~ Fail(t)
      BY Answered DEF Fail
    <3> QED
      BY <3>1, <3>2 DEF RequireTable
  <2> QED
    BY <2>1, <2>2, <2>3, OnlyThread
       DEF Seen, tableExists, SchemaBroken, loadSchema, schemaPath
<1>2. CASE ~ (RequireDb(t) \/ TableExists(t) \/ RequireTable(t))
  <2>1. pc'[t] \notin {"tableExists", "loadSchema", "requireTable", "rows"}
    BY <1>2, ControlFlow
  <2> QED
    BY <2>1, OnlyThread DEF Seen
<1> QED
  BY <1>1, <1>2

\* The rewrite of a table never has the path of a schema or of the catalog.
LEMMA RowsPath ==
    ASSUME TypedAndFit, FilesFit, Seen, NEW t \in Threads, pc[t] = "rows",
           ~ TableBroken(tablePath(currentDb, stmt[t].table))
    PROVE  /\ stmt[t].table # "schema"
           /\ tablePath(currentDb, stmt[t].table) # catalogPath
<1>1. /\ tableExists(currentDb, stmt[t].table) /\ ~ SchemaBroken(currentDb)
      /\ currentDb # NoDb /\ currentDb \in Dirs
  BY DEF Seen, TypedAndFit, TypeOK
<1>2. files[schemaPath(currentDb)].names # << >>
  BY <1>1 DEF tableExists, loadSchema
<1>3. schemaPath(currentDb) \in Paths
  BY <1>1, PathTypes DEF PathsOfNames, schemaPath
<1>4. files[schemaPath(currentDb)].magic = "schema"
  BY <1>1, <1>2, <1>3 DEF FilesFit, KindFits, SchemaBroken
<1>5. stmt[t].table # "schema"
  BY <1>4 DEF TableBroken, tablePath, schemaPath
<1> QED
  BY <1>1, <1>5 DEF tablePath, catalogPath

\* Where a rewrite that a step prepares goes, and of which kind it is.
LEMMA Prepares1 ==
    ASSUME TypedAndFit, FilesFit, Seen, NEW t \in Threads,
           ListDatabases(t) \/ LoadSchema(t) \/ Rows(t), pc'[t] = "open"
    PROVE  KindFits(work'[t].content, TargetPath(t)')
<1>1. stmt' = stmt /\ currentDb' = currentDb
  BY DEF ListDatabases, LoadSchema, Rows
<1>2. CASE ListDatabases(t)
  <2>1. PICK names : Prepare(t, catalogPath, CatalogFile(names), Success)
    BY <1>2, Answered DEF ListDatabases, Fail
  <2>2. stmt[t].op \notin {"createTable", "dropTable"}
    BY <1>2, AtStep DEF ListDatabases, At, DbOps
  <2> QED
    BY <1>1, <2>1, <2>2, Prepared, KindsOfFiles DEF TargetPath
<1>3. CASE LoadSchema(t)
  <2>1. PICK names : Prepare(t, schemaPath(currentDb), SchemaFile(names), Success)
    BY <1>3, Answered DEF LoadSchema, Fail
  <2>2. stmt[t].op \in {"createTable", "dropTable"}
    BY <1>3, AtStep DEF LoadSchema, At, TableOps
  <2> QED
    BY <1>1, <2>1, <2>2, Prepared, KindsOfFiles DEF TargetPath, schemaPath
<1>4. CASE Rows(t)
  <2> DEFINE path == tablePath(currentDb, stmt[t].table)
  <2>1. /\ ~ TableBroken(path)
        /\ \E recs, r : Prepare(t, path, Rewrite(recs, Columns[stmt[t].table]), r)
    <3>1. \A r : ~ Answer(t, r)
      BY Answered
    <3>2. ~ SelectRows(t, path)
      BY <3>1 DEF SelectRows, Fail
    <3>3. ChangeRows(t, path)
      BY <1>4, <3>2 DEF Rows
    <3> QED
      BY <3>1, <3>3 DEF ChangeRows, Fail
  <2>2. PICK recs, r : Prepare(t, path, Rewrite(recs, Columns[stmt[t].table]), r)
    BY <2>1
  <2>3. stmt[t].op \notin {"createTable", "dropTable"} /\ pc[t] = "rows"
    BY <1>4, RowsRead DEF Rows, At, RowOps
  <2>4. stmt[t].table # "schema" /\ path # catalogPath
    BY <2>1, <2>3, RowsPath
  <2>5. work'[t].path = path /\ work'[t].content = Rewrite(recs, Columns[stmt[t].table])
    BY <2>2, Prepared
  <2>6. KindFits(work'[t].content, path)
    BY <2>4, <2>5, KindsOfFiles DEF Rewrite, tablePath
  <2> QED
    BY <1>1, <2>3, <2>5, <2>6 DEF TargetPath
<1> QED
  BY <1>2, <1>3, <1>4

LEMMA FilesFitStep ==
    ASSUME OneConnection, TypedAndFit, FilesFit, StreamsFit, WorkFits, NEW t \in Threads, Receive(t) \/ Step(t)
    PROVE  FilesFit'
<1>1. files \in [Paths -> File] /\ stream \in [Threads -> Stream]
  BY DEF TypedAndFit, TypeOK, StorageTypeOK
<1>2. \A p \in Paths : KindFits(files'[p], p)
  <2>1. CASE files' = files
    BY <2>1 DEF FilesFit
  <2>2. CASE RemoveDirectory(t)
    BY <2>2, KindsOfFiles DEF RemoveDirectory, remove_all, FilesFit
  <2>3. CASE Open(t)
    <3>1. \A p \in Paths : files'[p] \in {files[p], Empty}
      BY <1>1, <2>3 DEF Open, OpenTrunc
    <3> QED
      BY <3>1, KindsOfFiles DEF FilesFit
  <2>4. CASE Flush(t)
    <3>1. PICK n, recs : files' = [files EXCEPT ![stream[t].path] = TableData(n, recs)]
      BY <2>4 DEF Flush, FlushStream
    <3>2. stream[t].content.magic = "table"
      BY <2>4 DEF Flush, FlushStream
    <3>3. KindFits(TableData(n, recs), stream[t].path)
      BY <3>2, KindsOfFiles DEF StreamsFit, KindFits
    <3> QED
      BY <1>1, <3>1, <3>3 DEF FilesFit
  <2>5. CASE Close(t)
    BY <1>1, <2>5, Closes DEF FilesFit, StreamsFit
  <2> QED
    BY <2>1, <2>2, <2>3, <2>4, <2>5, WhatChanges
<1> QED
  BY <1>2 DEF FilesFit, KindFits, catalogPath

LEMMA StreamsFitStep ==
    ASSUME OneConnection, TypedAndFit, StreamsFit, WorkFits, NEW t \in Threads, Receive(t) \/ Step(t)
    PROVE  StreamsFit'
<1>1. stream \in [Threads -> Stream]
  BY DEF TypedAndFit, TypeOK, StorageTypeOK
<1>2. KindFits(stream'[t].content, stream'[t].path)
  <2>1. CASE stream' = stream
    BY <2>1 DEF StreamsFit
  <2>2. CASE RemoveDirectory(t)
    <3>1. stream[t] \in Stream
      BY <1>1
    <3>2. stream'[t] \in {stream[t], [stream[t] EXCEPT !.linked = FALSE]}
      BY <2>2 DEF RemoveDirectory, remove_all
    <3>3. stream'[t].content = stream[t].content /\ stream'[t].path = stream[t].path
      BY <3>1, <3>2 DEF Stream
    <3> QED
      BY <3>3 DEF StreamsFit
  <2>3. CASE Open(t)
    BY <1>1, <2>3 DEF Open, OpenTrunc, At, WorkFits
  <2>4. CASE Close(t)
    BY <1>1, <2>4, Closes, KindsOfFiles DEF Closed
  <2> QED
    BY <2>1, <2>2, <2>3, <2>4, WhatChanges
<1> QED
  BY <1>2, OnlyThread DEF StreamsFit, KindFits, catalogPath

LEMMA FitsStep ==
    ASSUME OneConnection, TypedAndFit, FilesFit, StreamsFit, WorkFits, Seen,
           NEW t \in Threads, Receive(t) \/ Step(t)
    PROVE  FilesFit' /\ StreamsFit' /\ WorkFits'
<1>1. pc'[t] = "open" => KindFits(work'[t].content, TargetPath(t)')
  BY ControlFlow, Prepares1
<1>2. WorkFits'
  BY <1>1, OnlyThread DEF WorkFits, KindFits, catalogPath
<1> QED
  BY <1>2, FilesFitStep, StreamsFitStep

LEMMA FitsElse ==
    ASSUME FilesFit, StreamsFit, WorkFits, Seen, Restart \/ UNCHANGED vars
    PROVE  FilesFit' /\ StreamsFit' /\ WorkFits' /\ Seen'
<1>1. CASE Restart
  <2>1. /\ files' = files
        /\ \A t \in Threads : stream'[t] = Closed /\ pc'[t] = "idle"
    BY <1>1 DEF Restart, LoseStreams
  <2> QED
    BY <2>1, KindsOfFiles
       DEF FilesFit, StreamsFit, WorkFits, Seen, KindFits, catalogPath, Closed
<1>2. CASE UNCHANGED vars
  <2>1. \A t \in Threads : TargetPath(t)' = TargetPath(t)
    BY <1>2 DEF vars, TargetPath
  <2> QED
    BY <1>2, <2>1
       DEF vars, FilesFit, StreamsFit, WorkFits, Seen, KindFits, catalogPath, tableExists,
           SchemaBroken, loadSchema, schemaPath
<1> QED
  BY <1>1, <1>2

\* What one connection keeps about paths and contents, all together.
KindsKept == TypedAndFit /\ FilesFit /\ StreamsFit /\ WorkFits /\ Seen

LEMMA InitKinds == Init => KindsKept
BY InitTyped, FitsInit, SeenInit DEF KindsKept

LEMMA NextKinds == OneConnection /\ KindsKept /\ [Next]_vars => KindsKept'
<1> SUFFICES ASSUME OneConnection, KindsKept, [Next]_vars
             PROVE  KindsKept'
  OBVIOUS
<1>1. TypedAndFit'
  BY NextTyped DEF KindsKept
<1>2. FilesFit' /\ StreamsFit' /\ WorkFits' /\ Seen'
  BY FitsStep, SeenStep, FitsElse DEF KindsKept, Next
<1> QED
  BY <1>1, <1>2 DEF KindsKept

\* With one connection, no statement writes rows over the catalog or a schema,
\* or a listing over a table: a table called schema is refused when its rows
\* are read, and a torn file is neither (StorageEngine.cpp, the magic numbers).
THEOREM MetadataAndDataApart ==
    ASSUME OneConnection
    PROVE  Spec => []MagicMatchesPath
<1>1. KindsKept => MagicMatchesPath
  BY DEF KindsKept, FilesFit, KindFits, MagicMatchesPath
<1> QED
  BY <1>1, InitKinds, NextKinds, PTL DEF Spec

-----------------------------------------------------------------------------
(* Names: what is listed was looked for before, and nobody else lists it   *)
(* between the look and the rewrite.                                       *)

Once(names) == \A i, j \in DOMAIN names : names[i] = names[j] => i = j

\* The databases and tables of the installation are named once each.
InstalledOnce == Once(Installed) /\ Once(InstalledTables)

FilesOnce   == \A p \in Paths : Once(files[p].names)
StreamsOnce == \A t \in Threads : Once(stream[t].content.names)
WorkOnce    == \A t \in Threads : Once(work[t].content.names)

\* The name a statement is going to list is not listed yet.
NameIsNew ==
    \A t \in Threads :
        /\ pc[t] \in {"mkdir", "listDatabases"} /\ stmt[t].op = "createDatabase"
             => ~ databaseExists(stmt[t].db)
        /\ pc[t] = "loadSchema" /\ stmt[t].op = "createTable"
             => ~ tableExists(currentDb, stmt[t].table)

NamesKept == FilesOnce /\ StreamsOnce /\ WorkOnce /\ NameIsNew

LEMMA NamesOfFiles ==
    /\ Absent.names = << >> /\ Empty.names = << >>
    /\ \A names : CatalogFile(names).names = names /\ SchemaFile(names).names = names
    /\ \A n, recs : TableData(n, recs).names = << >>
    /\ Once(<< >>)
BY DEF Absent, Empty, CatalogFile, SchemaFile, TableData, Once

LEMMA AppendOnce ==
    ASSUME NEW E, NEW names \in Seq(E), Once(names), NEW x \in E,
           ~ \E i \in DOMAIN names : names[i] = x
    PROVE  Once(Append(names, x))
<1>1. /\ DOMAIN Append(names, x) = 1 .. Len(names) + 1 /\ DOMAIN names = 1 .. Len(names)
      /\ \A i \in DOMAIN names : Append(names, x)[i] = names[i]
      /\ Append(names, x)[Len(names) + 1] = x
  OBVIOUS
<1> QED
  BY <1>1 DEF Once

LEMMA WithoutOnce ==
    ASSUME NEW E, NEW names \in Seq(E), Once(names), NEW x
    PROVE  Once(Without(names, x))
<1> DEFINE S == {i \in DOMAIN names : names[i] # x}
<1>1. S \subseteq DOMAIN names
  OBVIOUS
<1>2. /\ \A k \in DOMAIN Keep(names, S) : Nth(S, k) \in S /\ Keep(names, S)[k] = names[Nth(S, k)]
      /\ DOMAIN Keep(names, S) = 1 .. Cardinality(S)
  BY <1>1, KeepType DEF Keep
<1>3. \A k, m \in 1 .. Cardinality(S) : k # m => Nth(S, k) # Nth(S, m)
  BY <1>1, KeepOrder
<1>4. Without(names, x) = Keep(names, S)
  BY DEF Without
<1> HIDE DEF S
<1> QED
  BY <1>1, <1>2, <1>3, <1>4 DEF Once

\* What CREATE or DROP is going to write lists every name once.
LEMMA ListingOnce ==
    ASSUME TypedAndFit, FilesOnce, NameIsNew, NEW t \in Threads, ListDatabases(t) \/ LoadSchema(t)
    PROVE  work' = work \/ Once(work'[t].content.names)
<1>1. CASE ListDatabases(t)
  <2>0. stmt[t].db \in Dbs /\ pc[t] = "listDatabases"
    <3>1. pc[t] = "listDatabases"
      BY <1>1 DEF ListDatabases, At
    <3> QED
      BY <3>1, AtStep
  <2>1. stmt[t].db \in Name
    BY <2>0, NamesAssumption
  <2>2. listDatabases \in Seq(Name) /\ Once(listDatabases)
    <3>1. catalogPath \in Paths
      BY PathTypes DEF PathsOfNames, catalogPath, Dirs
    <3> QED
      BY <3>1 DEF listDatabases, FilesOnce, TypedAndFit, TypeOK, StorageTypeOK, File
  <2>3. stmt[t].op = "createDatabase" => Once(Append(listDatabases, stmt[t].db))
    BY <2>0, <2>1, <2>2, AppendOnce DEF NameIsNew, databaseExists
  <2>4. Once(Without(listDatabases, stmt[t].db))
    BY <2>2, WithoutOnce
  <2>5. \/ work' = work
        \/ /\ stmt[t].op = "createDatabase"
           /\ Prepare(t, catalogPath, CatalogFile(Append(listDatabases, stmt[t].db)), Success)
        \/ Prepare(t, catalogPath, CatalogFile(Without(listDatabases, stmt[t].db)), Success)
    BY <1>1 DEF ListDatabases
  <2> QED
    BY <2>3, <2>4, <2>5, Prepared, NamesOfFiles
<1>2. CASE LoadSchema(t)
  <2>0. stmt[t].table \in Tables /\ pc[t] = "loadSchema"
    <3>1. pc[t] = "loadSchema"
      BY <1>2 DEF LoadSchema, At
    <3> QED
      BY <3>1, AtStep
  <2>1. stmt[t].table \in Name
    BY <2>0, NamesAssumption
  <2>2. loadSchema(currentDb) \in Seq(Name) /\ Once(loadSchema(currentDb))
    <3>1. schemaPath(currentDb) \in Paths
      BY PathTypes DEF PathsOfNames, schemaPath, TypedAndFit, TypeOK
    <3> QED
      BY <3>1 DEF loadSchema, FilesOnce, TypedAndFit, TypeOK, StorageTypeOK, File
  <2>3. stmt[t].op = "createTable" => Once(Append(loadSchema(currentDb), stmt[t].table))
    BY <2>0, <2>1, <2>2, AppendOnce DEF NameIsNew, tableExists
  <2>4. Once(Without(loadSchema(currentDb), stmt[t].table))
    BY <2>2, WithoutOnce
  <2>5. \/ work' = work
        \/ /\ stmt[t].op = "createTable"
           /\ Prepare(t, schemaPath(currentDb),
                      SchemaFile(Append(loadSchema(currentDb), stmt[t].table)), Success)
        \/ Prepare(t, schemaPath(currentDb),
                   SchemaFile(Without(loadSchema(currentDb), stmt[t].table)), Success)
    BY <1>2 DEF LoadSchema
  <2> QED
    BY <2>3, <2>4, <2>5, Prepared, NamesOfFiles
<1> QED
  BY <1>1, <1>2

LEMMA WorkOnceStep ==
    ASSUME TypedAndFit, FilesOnce, WorkOnce, NameIsNew, OneConnection,
           NEW t \in Threads, Receive(t) \/ Step(t)
    PROVE  WorkOnce'
<1>1. Once(work'[t].content.names)
  <2>1. CASE work' = work
    BY <2>1 DEF WorkOnce
  <2>2. CASE Respond(t)
    BY <2>2, NamesOfFiles DEF Respond, TypedAndFit, TypeOK, NoWork
  <2>3. CASE ListDatabases(t) \/ LoadSchema(t)
    BY <2>1, <2>3, ListingOnce
  <2>4. CASE Rows(t)
    <3>1. \/ work' = work
          \/ \E path, recs, r : Prepare(t, path, Rewrite(recs, Columns[stmt[t].table]), r)
      BY <2>4 DEF Rows, SelectRows, ChangeRows
    <3> QED
      BY <2>1, <3>1, Prepared, NamesOfFiles DEF Rewrite
  <2> QED
    BY <2>1, <2>2, <2>3, <2>4, WhatChanges
<1> QED
  BY <1>1, OnlyThread DEF WorkOnce, Once

LEMMA StreamsOnceStep ==
    ASSUME TypedAndFit, StreamsOnce, WorkOnce, OneConnection,
           NEW t \in Threads, Receive(t) \/ Step(t)
    PROVE  StreamsOnce'
<1>1. stream \in [Threads -> Stream]
  BY DEF TypedAndFit, TypeOK, StorageTypeOK
<1>2. Once(stream'[t].content.names)
  <2>1. CASE stream' = stream
    BY <2>1 DEF StreamsOnce
  <2>2. CASE RemoveDirectory(t)
    <3>1. stream[t] \in Stream
      BY <1>1
    <3>2. stream'[t] \in {stream[t], [stream[t] EXCEPT !.linked = FALSE]}
      BY <2>2 DEF RemoveDirectory, remove_all
    <3>3. stream'[t].content = stream[t].content
      BY <3>1, <3>2 DEF Stream
    <3> QED
      BY <3>3 DEF StreamsOnce
  <2>3. CASE Open(t)
    BY <1>1, <2>3 DEF Open, OpenTrunc, WorkOnce
  <2>4. CASE Close(t)
    BY <1>1, <2>4, Closes, NamesOfFiles DEF Closed
  <2> QED
    BY <2>1, <2>2, <2>3, <2>4, WhatChanges
<1> QED
  BY <1>2, OnlyThread DEF StreamsOnce, Once

LEMMA FilesOnceStep ==
    ASSUME OneConnection, TypedAndFit, FilesOnce, StreamsOnce, NEW t \in Threads, Receive(t) \/ Step(t)
    PROVE  FilesOnce'
<1>1. files \in [Paths -> File]
  BY DEF TypedAndFit, TypeOK, StorageTypeOK
<1>2. \A p \in Paths : Once(files'[p].names)
  <2>1. CASE files' = files
    BY <2>1 DEF FilesOnce
  <2>2. CASE RemoveDirectory(t)
    BY <2>2, NamesOfFiles DEF RemoveDirectory, remove_all, FilesOnce
  <2>3. CASE Open(t)
    <3>1. \A p \in Paths : files'[p] \in {files[p], Empty}
      BY <1>1, <2>3 DEF Open, OpenTrunc
    <3> QED
      BY <3>1, NamesOfFiles DEF FilesOnce
  <2>4. CASE Flush(t)
    <3>1. PICK n, recs : files' = [files EXCEPT ![stream[t].path] = TableData(n, recs)]
      BY <2>4 DEF Flush, FlushStream
    <3> QED
      BY <1>1, <3>1, NamesOfFiles DEF FilesOnce
  <2>5. CASE Close(t)
    BY <1>1, <2>5, Closes DEF FilesOnce, StreamsOnce
  <2> QED
    BY <2>1, <2>2, <2>3, <2>4, <2>5, WhatChanges
<1> QED
  BY <1>2 DEF FilesOnce, Once

LEMMA NameIsNewStep ==
    ASSUME TypedAndFit, Routed, NameIsNew, OneConnection, NEW t \in Threads, Receive(t) \/ Step(t)
    PROVE  NameIsNew'
<1>1. ASSUME pc'[t] \in {"mkdir", "listDatabases"}, stmt'[t].op = "createDatabase"
      PROVE  ~ databaseExists(stmt[t].db)' /\ stmt' = stmt
  <2>1. DatabaseExists(t) \/ MakeDirectory(t) \/ RemoveDirectory(t)
    BY <1>1, ControlFlow
  <2>2. stmt' = stmt
    BY <2>1 DEF DatabaseExists, MakeDirectory, RemoveDirectory, threadVars
  <2>3. CASE DatabaseExists(t)
    <3>1. ~ Fail(t)
      BY <1>1, Answered DEF Fail
    <3>2. ~ databaseExists(stmt[t].db) /\ files' = files
      BY <1>1, <2>2, <2>3, <3>1 DEF DatabaseExists, storageVars
    <3> QED
      BY <2>2, <3>2 DEF databaseExists, listDatabases
  <2>4. CASE MakeDirectory(t)
    <3>1. ~ databaseExists(stmt[t].db) /\ files' = files
      BY <1>1, <2>2, <2>4 DEF MakeDirectory, At, NameIsNew, create_directories
    <3> QED
      BY <2>2, <3>1 DEF databaseExists, listDatabases
  <2>5. CASE RemoveDirectory(t)
    BY <1>1, <2>2, <2>5 DEF RemoveDirectory, At, Routed
  <2> QED
    BY <2>1, <2>3, <2>4, <2>5
<1>2. ASSUME pc'[t] = "loadSchema", stmt'[t].op = "createTable"
      PROVE  ~ tableExists(currentDb, stmt[t].table)'
  <2>1. RequireDb(t) \/ TableExists(t)
    BY <1>2, ControlFlow
  <2>2. stmt' = stmt /\ files' = files /\ currentDb' = currentDb
    BY <2>1 DEF RequireDb, TableExists, storageVars
  <2>3. ~ Fail(t)
    BY <1>2, Answered DEF Fail
  <2>4. TableExists(t)
    <3>1. CASE RequireDb(t)
      <4>1. Goto(t, "tableExists")
        BY <1>2, <2>2, <2>3, <3>1 DEF RequireDb
      <4> QED
        BY <1>2, <4>1, Went
    <3> QED
      BY <2>1, <3>1
  <2>5. ~ tableExists(currentDb, stmt[t].table)
    BY <2>3, <2>4 DEF TableExists
  <2> QED
    BY <2>2, <2>5 DEF tableExists, loadSchema, schemaPath
<1> QED
  BY <1>1, <1>2, OnlyThread DEF NameIsNew


\* What one connection keeps about names, all together.
OnceKept == TypedAndFit /\ Routed /\ NamesKept

LEMMA InitOnce == Init /\ InstalledOnce => OnceKept
<1> SUFFICES ASSUME Init, InstalledOnce
             PROVE  OnceKept
  OBVIOUS
<1>1. ASSUME NEW p \in Paths
      PROVE  Once(files[p].names)
  <2>1. files[p] \in {CatalogFile(Installed), SchemaFile(InstalledTables), Absent}
    BY DEF Init, StorageInit
  <2> QED
    BY <2>1, NamesOfFiles DEF InstalledOnce
<1>2. StreamsOnce
  BY NamesOfFiles DEF Init, StorageInit, StreamsOnce, Closed
<1>3. WorkOnce /\ NameIsNew
  BY NamesOfFiles DEF Init, WorkOnce, NameIsNew, NoWork
<1> QED
  BY <1>1, <1>2, <1>3, InitTyped, RoutedInit DEF OnceKept, NamesKept, FilesOnce

LEMMA OnceElse ==
    ASSUME NamesKept, Restart \/ UNCHANGED vars
    PROVE  NamesKept'
<1>1. CASE Restart
  <2>1. /\ files' = files
        /\ \A t \in Threads : stream'[t] = Closed /\ pc'[t] = "idle" /\ work'[t] = NoWork
    BY <1>1 DEF Restart, LoseStreams
  <2>2. FilesOnce' /\ StreamsOnce' /\ WorkOnce'
    BY <2>1, NamesOfFiles
       DEF NamesKept, FilesOnce, StreamsOnce, WorkOnce, Once, Closed, NoWork
  <2>3. NameIsNew'
    BY <2>1 DEF NameIsNew
  <2> QED
    BY <2>2, <2>3 DEF NamesKept
<1>2. CASE UNCHANGED vars
  BY <1>2 DEF vars, NamesKept, FilesOnce, StreamsOnce, WorkOnce, NameIsNew, Once,
              databaseExists, listDatabases, tableExists, loadSchema, schemaPath
<1> QED
  BY <1>1, <1>2

LEMMA NextOnce == OneConnection /\ OnceKept /\ [Next]_vars => OnceKept'
<1> SUFFICES ASSUME OneConnection, OnceKept, [Next]_vars
             PROVE  OnceKept'
  OBVIOUS
<1>1. TypedAndFit' /\ Routed'
  BY NextTyped, NextRouted DEF OnceKept
<1>2. ASSUME NEW t \in Threads, Receive(t) \/ Step(t)
      PROVE  NamesKept'
  BY <1>2, FilesOnceStep, StreamsOnceStep, WorkOnceStep, NameIsNewStep DEF OnceKept, NamesKept
<1> QED
  BY <1>1, <1>2, OnceElse DEF OnceKept, Next

\* With one connection, and an installation that names nothing twice, CREATE
\* DATABASE and CREATE TABLE list no name again (Executor.cpp looks for it
\* before it appends), also when statements fail or are cut off.
THEOREM NamesStayUnique ==
    ASSUME OneConnection, InstalledOnce
    PROVE  Spec => []NamesUnique
<1>1. OnceKept => NamesUnique
  BY DEF OnceKept, NamesKept, FilesOnce, Once, NamesUnique
<1> QED
  BY <1>1, InitOnce, NextOnce, PTL DEF Spec

-----------------------------------------------------------------------------
(* The current database: while the catalog is being rewritten it is listed *)
(* in what is written, or DROP DATABASE is about to reset it.              *)

Holds(f, x) == \E i \in DOMAIN f.names : f.names[i] = x

\* The listing f that t writes keeps the current database, unless t drops it.
Spares(t, f) ==
    currentDb # NoDb => \/ Holds(f, currentDb)
                        \/ stmt[t].op = "dropDatabase" /\ stmt[t].db = currentDb

\* The catalog is being rewritten, or the current database to be reset.
Pending(t) ==
    \/ pc[t] = "close" /\ stmt[t].op \in DbOps
    \/ pc[t] \in {"compareDb", "resetDb"} /\ stmt[t].db = currentDb

CurrentKept ==
    currentDb # NoDb => databaseExists(currentDb) \/ \E t \in Threads : Pending(t)

CatalogSafe ==
    \A t \in Threads :
        /\ pc[t] = "setDb" => databaseExists(stmt[t].db)
        /\ pc[t] = "resetDb" => stmt[t].db = currentDb
        /\ pc[t] = "open" =>
             IF stmt[t].op \in DbOps
             THEN work[t].path = catalogPath /\ Spares(t, work[t].content)
             ELSE TargetPath(t)[1] # NoDb
        /\ pc[t] = "close" =>
             IF stmt[t].op \in DbOps
             THEN /\ stream[t].path = catalogPath /\ stream[t].linked
                  /\ Spares(t, stream[t].content)
             ELSE stream[t].path[1] # NoDb

\* The data directory itself is never removed.
RootExists == NoDb \in dirs

CurrentInv == RootExists /\ CurrentKept /\ CatalogSafe

LEMMA ExistsHolds == \A d : databaseExists(d) <=> Holds(files[catalogPath], d)
BY DEF databaseExists, listDatabases, Holds

LEMMA OpsApart ==
    /\ \A op : op \in TableOps \cup RowOps => op \notin DbOps
    /\ \A op : op \in {"createTable", "dropTable"} <=> op \in TableOps
    /\ \A op : op \in RowOps => op \notin TableOps
BY DEF DbOps, TableOps, RowOps

\* The two listings a statement on databases may write.
LEMMA HoldsListing ==
    ASSUME NEW names \in Seq(Name), NEW d \in Name, NEW x,
           \E i \in DOMAIN names : names[i] = x
    PROVE  /\ Holds(CatalogFile(Append(names, d)), x)
           /\ x # d => Holds(CatalogFile(Without(names, d)), x)
<1>1. PICK i \in DOMAIN names : names[i] = x
  OBVIOUS
<1>2. Holds(CatalogFile(Append(names, d)), x)
  <2>1. i \in DOMAIN Append(names, d) /\ Append(names, d)[i] = x
    BY <1>1
  <2> QED
    BY <2>1, NamesOfFiles DEF Holds
<1>3. ASSUME x # d
      PROVE  Holds(CatalogFile(Without(names, d)), x)
  <2> DEFINE S == {j \in DOMAIN names : names[j] # d}
  <2>1. S \subseteq DOMAIN names /\ i \in S
    BY <1>1, <1>3
  <2>2. Without(names, d) = Keep(names, S)
    BY DEF Without
  <2> HIDE DEF S
  <2>3. \E k \in DOMAIN Keep(names, S) : Nth(S, k) = i /\ Keep(names, S)[k] = names[i]
    BY <2>1, KeepAll
  <2> QED
    BY <1>1, <2>2, <2>3, NamesOfFiles DEF Holds
<1> QED
  BY <1>2, <1>3

LEMMA RootStep ==
    ASSUME TypedAndFit, RootExists, NEW t \in Threads, Receive(t) \/ Step(t)
    PROVE  RootExists'
<1>1. CASE MakeDirectory(t)
  BY <1>1 DEF MakeDirectory, create_directories, RootExists
<1>2. CASE RemoveDirectory(t)
  <2>1. pc[t] = "rmdir"
    BY <1>2 DEF RemoveDirectory, At
  <2>2. stmt[t].db # NoDb
    BY <2>1, AtStep, NamesAssumption
  <2> QED
    BY <1>2, <2>2 DEF RemoveDirectory, remove_all, RootExists
<1> QED
  BY <1>1, <1>2, WhatChanges DEF RootExists

\* A step that does not touch the catalog file.
LEMMA CatalogLeftAlone ==
    ASSUME TypedAndFit, CatalogSafe, NEW t \in Threads, Receive(t) \/ Step(t),
           Open(t) \/ Flush(t) \/ Close(t) => stmt[t].op \notin DbOps
    PROVE  files'[catalogPath] = files[catalogPath]
<1>1. files \in [Paths -> File] /\ catalogPath \in Paths /\ catalogPath[1] = NoDb
  BY PathTypes DEF PathsOfNames, TypedAndFit, TypeOK, StorageTypeOK, catalogPath, Dirs
<1>2. CASE RemoveDirectory(t)
  <2>1. pc[t] = "rmdir"
    BY <1>2 DEF RemoveDirectory, At
  <2>2. stmt[t].db # NoDb
    BY <2>1, AtStep, NamesAssumption
  <2> QED
    BY <1>1, <1>2, <2>2 DEF RemoveDirectory, remove_all
<1>3. CASE Open(t)
  <2>1. TargetPath(t) # catalogPath
    BY <1>1, <1>3 DEF Open, At, CatalogSafe
  <2> QED
    BY <1>1, <1>3, <2>1 DEF Open, OpenTrunc
<1>4. CASE Flush(t) \/ Close(t)
  <2>1. stream[t].path # catalogPath
    BY <1>1, <1>4 DEF Flush, Close, At, CatalogSafe
  <2> QED
    BY <1>1, <1>4, <2>1 DEF Flush, FlushStream, Close, CloseStream
<1> QED
  BY <1>2, <1>3, <1>4, WhatChanges

LEMMA CurrentKeptStep ==
    ASSUME OneConnection, TypedAndFit, Routed, CurrentKept, CatalogSafe,
           NEW t \in Threads, Receive(t) \/ Step(t)
    PROVE  CurrentKept'
<1> SUFFICES ASSUME currentDb' # NoDb
             PROVE  Holds(files'[catalogPath], currentDb') \/ Pending(t)'
  BY OnlyThread DEF CurrentKept, databaseExists, listDatabases, Holds
<1>1. CASE SetCurrentDatabase(t)
  BY <1>1, ExistsHolds DEF SetCurrentDatabase, At, CatalogSafe, storageVars
<1>2. CASE ResetDatabase(t)
  BY <1>2 DEF ResetDatabase
<1>3. CASE ~ (SetCurrentDatabase(t) \/ ResetDatabase(t))
  <2>1. currentDb' = currentDb
    BY <1>3, WhatChanges
  <2>2. Holds(files[catalogPath], currentDb) \/ Pending(t)
    BY <2>1, OnlyThread, ExistsHolds DEF CurrentKept
  <2>3. CASE Close(t) /\ stmt[t].op \in DbOps
    <3>1. /\ stream[t].path = catalogPath /\ stream[t].linked /\ Spares(t, stream[t].content)
      BY <2>3 DEF Close, At, CatalogSafe
    <3>2. files'[catalogPath] = stream[t].content
      <4>1. files \in [Paths -> File] /\ catalogPath \in Paths
        BY PathTypes DEF PathsOfNames, TypedAndFit, TypeOK, StorageTypeOK, catalogPath, Dirs
      <4> QED
        BY <2>3, <3>1, <4>1, Closes
    <3>3. stmt[t].op = "dropDatabase" => pc'[t] = "compareDb"
      BY <2>3, Went DEF Close
    <3>4. stmt' = stmt
      BY <2>3 DEF Close, threadVars
    <3>5. Holds(stream[t].content, currentDb) \/ (pc'[t] = "compareDb" /\ stmt[t].db = currentDb)
      BY <2>1, <3>1, <3>3 DEF Spares
    <3> QED
      BY <2>1, <3>2, <3>4, <3>5 DEF Pending
  <2>4. CASE (Open(t) \/ Flush(t)) /\ stmt[t].op \in DbOps
    <3>1. pc'[t] = "close" /\ stmt' = stmt
      BY <2>4, Went DEF Open, Flush, At, threadVars
    <3> QED
      BY <2>4, <3>1 DEF Pending
  <2>5. CASE Open(t) \/ Flush(t) \/ Close(t) => stmt[t].op \notin DbOps
    <3>1. files'[catalogPath] = files[catalogPath]
      BY <2>5, CatalogLeftAlone
    <3>2. CASE Pending(t)
      <4>1. pc[t] \in {"close", "compareDb", "resetDb"}
        BY <3>2 DEF Pending
      <4>2. Flush(t) \/ Close(t) \/ CompareDatabase(t) \/ ResetDatabase(t)
        BY <4>1 DEF Receive, Step, Respond, DatabaseExists, MakeDirectory, RemoveDirectory,
           ListDatabases, SetCurrentDatabase, RequireDb, TableExists, LoadSchema, RequireTable,
           Rows, Open, At
      <4>3. CompareDatabase(t)
        BY <1>3, <2>5, <3>2, <4>2 DEF Flush, Close, At, Pending
      <4>4. pc'[t] = "resetDb" /\ stmt' = stmt
        <5>1. pc[t] = "compareDb"
          BY <4>3 DEF CompareDatabase, At
        <5>2. currentDb = stmt[t].db
          BY <3>2, <5>1 DEF Pending
        <5> QED
          BY <4>3, <5>2, Went DEF CompareDatabase, threadVars
      <4> QED
        BY <2>1, <3>2, <4>1, <4>3, <4>4 DEF Pending, CompareDatabase, At
    <3>3. CASE Holds(files[catalogPath], currentDb)
      BY <2>1, <3>1, <3>3
    <3> QED
      BY <2>2, <3>2, <3>3
  <2> QED
    BY <2>3, <2>4, <2>5
<1> QED
  BY <1>1, <1>2, <1>3


\* What a step is about to write keeps the current database listed.
LEMMA OpenSafe ==
    ASSUME OneConnection, TypedAndFit, Routed, Seen, CurrentKept, NEW t \in Threads,
           ListDatabases(t) \/ LoadSchema(t) \/ Rows(t), pc'[t] = "open"
    PROVE  IF stmt'[t].op \in DbOps
           THEN work'[t].path = catalogPath /\ Spares(t, work[t].content)'
           ELSE TargetPath(t)'[1] # NoDb
<1>1. stmt' = stmt /\ currentDb' = currentDb
  BY DEF ListDatabases, LoadSchema, Rows
<1>2. CASE ListDatabases(t)
  <2>1. pc[t] = "listDatabases"
    BY <1>2 DEF ListDatabases, At
  <2>2. stmt[t].op \in DbOps /\ stmt[t].db \in Dbs /\ stmt[t].op # "use"
    BY <2>1, AtStep DEF Routed
  <2>3. stmt[t].db \in Name
    BY <2>2, NamesAssumption
  <2>4. listDatabases \in Seq(Name)
    <3>1. catalogPath \in Paths
      BY PathTypes DEF PathsOfNames, catalogPath, Dirs
    <3> QED
      BY <3>1 DEF listDatabases, TypedAndFit, TypeOK, StorageTypeOK, File
  <2>5. PICK content :
          /\ Prepare(t, catalogPath, content, Success)
          /\ content = CatalogFile(IF stmt[t].op = "createDatabase"
                                   THEN Append(listDatabases, stmt[t].db)
                                   ELSE Without(listDatabases, stmt[t].db))
    BY <1>2, Answered DEF ListDatabases, Fail
  <2>6. work'[t].path = catalogPath /\ work'[t].content = content
    BY <2>5, Prepared
  <2>7. ASSUME currentDb # NoDb
        PROVE  Holds(content, currentDb) \/ (stmt[t].op = "dropDatabase" /\ stmt[t].db = currentDb)
    <3>1. \E i \in DOMAIN listDatabases : listDatabases[i] = currentDb
      <4>1. ~ Pending(t)
        BY <2>1 DEF Pending
      <4> QED
        BY <2>7, <4>1, OnlyThread DEF CurrentKept, databaseExists
    <3>2. Holds(CatalogFile(Append(listDatabases, stmt[t].db)), currentDb)
      BY <2>3, <2>4, <3>1, HoldsListing
    <3>3. stmt[t].db # currentDb => Holds(CatalogFile(Without(listDatabases, stmt[t].db)), currentDb)
      BY <2>3, <2>4, <3>1, HoldsListing
    <3> QED
      BY <2>2, <2>5, <3>2, <3>3 DEF DbOps
  <2> QED
    BY <1>1, <2>2, <2>6, <2>7 DEF Spares, Holds
<1>3. CASE LoadSchema(t)
  <2>1. pc[t] = "loadSchema"
    BY <1>3 DEF LoadSchema, At
  <2>2. stmt[t].op \in TableOps /\ currentDb # NoDb
    BY <2>1, AtStep DEF Seen
  <2> QED
    BY <1>1, <2>2, OpsApart DEF TargetPath, schemaPath
<1>4. CASE Rows(t)
  <2>1. pc[t] = "rows"
    BY <1>4 DEF Rows, At
  <2>2. stmt[t].op \in RowOps /\ currentDb # NoDb
    BY <2>1, AtStep DEF Seen
  <2>3. PICK content, r : Prepare(t, tablePath(currentDb, stmt[t].table), content, r)
    BY <1>4, Answered DEF Rows, SelectRows, ChangeRows, Fail
  <2> QED
    BY <1>1, <2>2, <2>3, OpsApart, Prepared DEF TargetPath, tablePath
<1> QED
  BY <1>2, <1>3, <1>4

LEMMA CatalogSafeStep ==
    ASSUME OneConnection, TypedAndFit, Routed, Seen, RootExists, CurrentKept, CatalogSafe,
           NEW t \in Threads, Receive(t) \/ Step(t)
    PROVE  CatalogSafe'
<1>0. stream \in [Threads -> Stream]
  BY DEF TypedAndFit, TypeOK, StorageTypeOK
<1>1. pc'[t] = "setDb" => databaseExists(stmt[t].db)'
  <2> SUFFICES ASSUME pc'[t] = "setDb"
               PROVE  databaseExists(stmt[t].db)'
    OBVIOUS
  <2>1. DatabaseExists(t)
    BY ControlFlow
  <2>2. ~ Fail(t) /\ stmt' = stmt /\ files' = files
    BY <2>1, Answered DEF Fail, DatabaseExists, storageVars
  <2>3. stmt[t].op # "createDatabase"
    <3>1. stmt[t].op = "createDatabase" => pc'[t] = "mkdir"
      BY <2>1, <2>2, Went DEF DatabaseExists
    <3> QED
      BY <3>1
  <2>4. databaseExists(stmt[t].db)
    BY <2>1, <2>2, <2>3 DEF DatabaseExists
  <2> QED
    BY <2>2, <2>4 DEF databaseExists, listDatabases
<1>2. pc'[t] = "resetDb" => stmt'[t].db = currentDb'
  <2> SUFFICES ASSUME pc'[t] = "resetDb"
               PROVE  stmt'[t].db = currentDb'
    OBVIOUS
  <2>1. CompareDatabase(t)
    BY ControlFlow
  <2> QED
    BY <2>1, Went DEF CompareDatabase, threadVars
<1>3. pc'[t] = "open" => IF stmt'[t].op \in DbOps
                         THEN work'[t].path = catalogPath /\ Spares(t, work[t].content)'
                         ELSE TargetPath(t)'[1] # NoDb
  BY ControlFlow, OpenSafe
<1>4. pc'[t] = "close" => IF stmt'[t].op \in DbOps
                          THEN /\ stream'[t].path = catalogPath /\ stream'[t].linked
                               /\ Spares(t, stream[t].content)'
                          ELSE stream'[t].path[1] # NoDb
  <2> SUFFICES ASSUME pc'[t] = "close"
               PROVE  IF stmt'[t].op \in DbOps
                      THEN /\ stream'[t].path = catalogPath /\ stream'[t].linked
                           /\ Spares(t, stream[t].content)'
                      ELSE stream'[t].path[1] # NoDb
    OBVIOUS
  <2>1. CASE Open(t)
    <3>1. /\ stream'[t].path = TargetPath(t) /\ stream'[t].content = work[t].content
          /\ TargetPath(t)[1] \in dirs => stream'[t].linked
          /\ stmt' = stmt /\ currentDb' = currentDb /\ pc[t] = "open"
      BY <1>0, <2>1 DEF Open, OpenTrunc, threadVars, At
    <3>2. CASE stmt[t].op \in DbOps
      <4>1. TargetPath(t) = catalogPath /\ Spares(t, work[t].content)
        BY <3>1, <3>2 DEF CatalogSafe, TargetPath, DbOps
      <4>2. stream'[t].linked
        BY <3>1, <4>1 DEF RootExists, catalogPath
      <4>3. Spares(t, stream[t].content)'
        BY <3>1, <4>1 DEF Spares, Holds
      <4> QED
        BY <3>1, <3>2, <4>1, <4>2, <4>3
    <3>3. CASE stmt[t].op \notin DbOps
      BY <3>1, <3>3 DEF CatalogSafe
    <3> QED
      BY <3>2, <3>3
  <2>2. CASE Flush(t)
    <3>1. stream' = stream /\ stmt' = stmt /\ currentDb' = currentDb /\ pc[t] = "close"
      BY <2>2 DEF Flush, FlushStream, threadVars, At
    <3> QED
      BY <3>1 DEF CatalogSafe, Spares, Holds
  <2> QED
    BY <2>1, <2>2, ControlFlow
<1> QED
  BY <1>1, <1>2, <1>3, <1>4, OnlyThread DEF CatalogSafe, catalogPath


\* What one connection keeps about the current database, all together.
CurrentIsKept == KindsKept /\ Routed /\ CurrentInv

LEMMA InitCurrent == Init => CurrentIsKept
<1> SUFFICES ASSUME Init
             PROVE  CurrentIsKept
  OBVIOUS
<1>1. CurrentInv
  BY DEF Init, StorageInit, CurrentInv, RootExists, CurrentKept, CatalogSafe
<1> QED
  BY <1>1, InitKinds, RoutedInit DEF CurrentIsKept

LEMMA CurrentElse ==
    ASSUME CurrentInv, Restart \/ UNCHANGED vars
    PROVE  CurrentInv'
<1>1. CASE Restart
  BY <1>1 DEF Restart, LoseStreams, CurrentInv, RootExists, CurrentKept, CatalogSafe
<1>2. CASE UNCHANGED vars
  <2>1. \A t \in Threads : TargetPath(t)' = TargetPath(t)
    BY <1>2 DEF vars, TargetPath
  <2>2. RootExists' /\ CatalogSafe'
    BY <1>2, <2>1 DEF vars, CurrentInv, RootExists, CatalogSafe, Spares, Holds, databaseExists,
       listDatabases, catalogPath
  <2>3. CurrentKept'
    BY <1>2 DEF vars, CurrentInv, CurrentKept, Pending, databaseExists, listDatabases
  <2> QED
    BY <2>2, <2>3 DEF CurrentInv
<1> QED
  BY <1>1, <1>2

LEMMA NextCurrent == OneConnection /\ CurrentIsKept /\ [Next]_vars => CurrentIsKept'
<1> SUFFICES ASSUME OneConnection, CurrentIsKept, [Next]_vars
             PROVE  CurrentIsKept'
  OBVIOUS
<1>1. KindsKept' /\ Routed'
  BY NextKinds, NextRouted DEF CurrentIsKept, KindsKept
<1>2. ASSUME NEW t \in Threads, Receive(t) \/ Step(t)
      PROVE  CurrentInv'
  BY <1>2, RootStep, CurrentKeptStep, CatalogSafeStep DEF CurrentIsKept, CurrentInv, KindsKept
<1> QED
  BY <1>1, <1>2, CurrentElse DEF CurrentIsKept, Next

\* With one connection the current database is in the catalog between
\* statements: USE looked for it, and DROP DATABASE resets it after the
\* rewrite of the catalog (Executor.cpp:60-63), whatever fails or stops.
THEOREM CurrentDatabaseListed ==
    ASSUME OneConnection
    PROVE  Spec => []CurrentDbListed
<1>1. CurrentIsKept => CurrentDbListed
  <2> SUFFICES ASSUME CurrentIsKept, Quiet, currentDb # NoDb
               PROVE  databaseExists(currentDb)
    BY DEF CurrentDbListed
  <2>1. \A t \in Threads : ~ Pending(t)
    BY DEF Quiet, At, Pending
  <2> QED
    BY <2>1 DEF CurrentIsKept, CurrentInv, CurrentKept
<1> QED
  BY <1>1, InitCurrent, NextCurrent, PTL DEF Spec

-----------------------------------------------------------------------------
(* Rows: what a stream is going to leave in a table is what the statement  *)
(* makes of the records that were in the file when it was truncated.  With *)
(* one connection nobody writes to it between the read and the rewrite.    *)

Hits(s, recs) == IF s.op = "insert" THEN {} ELSE Matched(recs, Columns[s.table], s.where)

NewRecords(s, recs) == Rewritten(s, recs, Hits(s, recs))

Carries(t, base, content) ==
    LET s    == stmt[t]
        cols == Columns[s.table]
        recs == ReadRecords(base, cols)
    IN  /\ base \in File /\ \A i \in DOMAIN recs : RowOk(recs[i].vals, cols)
        /\ WellFormed(s)
        /\ content = Rewrite(NewRecords(s, recs), cols)
        /\ result[t].ok => ~ WriteThrows(NewRecords(s, recs), cols)

RowsKept ==
    \A t \in Threads : stmt[t].op \in {"insert", "update", "delete"} =>
        /\ pc[t] = "open"  => Carries(t, files[work[t].path], work[t].content)
        /\ pc[t] = "close" => Carries(t, stream[t].base, stream[t].content)

\* The records a thread reads before it changes them fit their columns.
LEMMA ReadWell ==
    ASSUME TypedAndFit, Sound, NEW t \in Threads, pc[t] = "rows"
    PROVE  LET cols == Columns[stmt[t].table]
               recs == recordsOf(tablePath(currentDb, stmt[t].table), stmt[t].table)
           IN  \A i \in DOMAIN recs : RowOk(recs[i].vals, cols)
<1> DEFINE tb   == stmt[t].table
           cols == Columns[tb]
           path == tablePath(currentDb, tb)
           recs == recordsOf(path, tb)
<1>1. /\ path \in Paths /\ path[2] = tb
      /\ recs \in Seq(Record) /\ Len(recs) = files[path].total
      /\ GoodRecords(files[path], cols) => \A i \in DOMAIN recs : RowOk(recs[i].vals, cols)
  BY RowsRead DEF tablePath
<1>2. GoodFile(files[path], tb)
  BY <1>1 DEF Sound, FilesSound
<1> SUFFICES \A i \in DOMAIN recs : RowOk(recs[i].vals, cols)
  OBVIOUS
<1> HIDE DEF recs, path
<1>3. CASE files[path].magic = "table"
  BY <1>1, <1>2, <1>3 DEF GoodFile
<1>4. CASE files[path].magic # "table"
  <2>1. Len(recs) = 0
    BY <1>1, <1>2, <1>4 DEF GoodFile
  <2>2. DOMAIN recs = {}
    BY <1>1, <2>1
  <2> QED
    BY <2>2
<1> QED
  BY <1>3, <1>4

LEMMA RowsPrepared ==
    ASSUME TypedAndFit, Sound, NEW t \in Threads, Rows(t), pc'[t] = "open"
    PROVE  Carries(t, files[work[t].path], work[t].content)'
<1> DEFINE s    == stmt[t]
           cols == Columns[s.table]
           path == tablePath(currentDb, s.table)
           recs == recordsOf(path, s.table)
           new  == NewRecords(s, recs)
<1>1. pc[t] = "rows" /\ stmt' = stmt /\ files' = files
  BY DEF Rows, At, storageVars
<1>2. WellFormed(s) /\ files[path] \in File
  BY <1>1, RowsRead
<1>3. \A i \in DOMAIN recs : RowOk(recs[i].vals, cols)
  BY <1>1, ReadWell
<1>4. PICK n : Prepare(t, path, Rewrite(new, cols),
                  IF WriteThrows(new, cols) THEN NoResult ELSE [Success EXCEPT !.affected = n])
  <2>1. \A r : ~ Answer(t, r)
    BY Answered
  <2>2. ~ SelectRows(t, path)
    BY <2>1 DEF SelectRows, Fail
  <2>3. ChangeRows(t, path)
    BY <2>2 DEF Rows
  <2> QED
    BY <2>1, <2>3 DEF ChangeRows, Fail, NewRecords, Hits
<1>5. /\ work'[t].path = path /\ work'[t].content = Rewrite(new, cols)
      /\ result'[t].ok => ~ WriteThrows(new, cols)
  BY <1>4, Prepared DEF NoResult
<1>6. recs = ReadRecords(files[path], cols)
  BY DEF recordsOf
<1>7. WellFormed(s)'
  BY <1>1, <1>2 DEF WellFormed, Named
<1> HIDE DEF path, new, recs
<1>8. /\ files'[work'[t].path] = files[path]
  BY <1>1, <1>5
<1> QED
  BY <1>1, <1>2, <1>3, <1>5, <1>6, <1>7, <1>8 DEF Carries, new

LEMMA RowsStep ==
    ASSUME OneConnection, TypedAndFit, Routed, Sound, RowsKept,
           NEW t \in Threads, Receive(t) \/ Step(t)
    PROVE  RowsKept'
<1>0. stream \in [Threads -> Stream]
  BY DEF TypedAndFit, TypeOK, StorageTypeOK
<1> SUFFICES ASSUME stmt'[t].op \in {"insert", "update", "delete"}
             PROVE  /\ pc'[t] = "open"  => Carries(t, files[work[t].path], work[t].content)'
                    /\ pc'[t] = "close" => Carries(t, stream[t].base, stream[t].content)'
  BY OnlyThread DEF RowsKept
<1>1. ASSUME pc'[t] = "open"
      PROVE  Carries(t, files[work[t].path], work[t].content)'
  <2>1. ListDatabases(t) \/ LoadSchema(t) \/ Rows(t)
    BY <1>1, ControlFlow
  <2>2. CASE ListDatabases(t)
    <3>1. stmt[t].op \in DbOps /\ stmt' = stmt
      BY <2>2, AtStep DEF ListDatabases, At
    <3> QED
      BY <3>1 DEF DbOps
  <2>3. CASE LoadSchema(t)
    <3>1. stmt[t].op \in TableOps /\ stmt' = stmt
      BY <2>3, AtStep DEF LoadSchema, At
    <3> QED
      BY <3>1 DEF TableOps
  <2> QED
    BY <1>1, <2>1, <2>2, <2>3, RowsPrepared
<1>2. ASSUME pc'[t] = "close"
      PROVE  Carries(t, stream[t].base, stream[t].content)'
  <2>1. CASE Open(t)
    <3>1. /\ stmt' = stmt /\ result' = result /\ pc[t] = "open"
          /\ stream'[t].base = files[TargetPath(t)] /\ stream'[t].content = work[t].content
      BY <1>0, <2>1 DEF Open, OpenTrunc, threadVars, At
    <3>2. TargetPath(t) = work[t].path
      BY <3>1 DEF TargetPath
    <3>3. Carries(t, files[work[t].path], work[t].content)
      BY <3>1 DEF RowsKept
    <3> QED
      BY <3>1, <3>2, <3>3 DEF Carries, WellFormed, Named
  <2>2. CASE Flush(t)
    <3>1. stmt' = stmt /\ result' = result /\ pc[t] = "close" /\ stream' = stream
      BY <2>2 DEF Flush, FlushStream, threadVars, At
    <3>2. Carries(t, stream[t].base, stream[t].content)
      BY <3>1 DEF RowsKept
    <3> QED
      BY <3>1, <3>2 DEF Carries, WellFormed, Named
  <2> QED
    BY <1>2, <2>1, <2>2, ControlFlow
<1> QED
  BY <1>1, <1>2


\* What one connection keeps about rows, all together.
RowsInv == TypedAndFit /\ Routed /\ Sound /\ RowsKept

LEMMA InitRows == Init => RowsInv
<1>1. Init => RowsKept
  BY DEF Init, RowsKept
<1> QED
  BY <1>1, InitTyped, InitSound, RoutedInit DEF RowsInv

LEMMA NextRows == OneConnection /\ RowsInv /\ [Next]_vars => RowsInv'
<1> SUFFICES ASSUME OneConnection, RowsInv, [Next]_vars
             PROVE  RowsInv'
  OBVIOUS
<1>1. TypedAndFit' /\ Routed' /\ Sound'
  BY NextTyped, NextRouted, NextSound DEF RowsInv
<1>2. ASSUME NEW t \in Threads, Receive(t) \/ Step(t)
      PROVE  RowsKept'
  BY <1>2, RowsStep DEF RowsInv
<1>3. ASSUME Restart
      PROVE  RowsKept'
  BY <1>3 DEF Restart, RowsKept, NoStatement
<1>4. ASSUME UNCHANGED vars
      PROVE  RowsKept'
  <2>1. /\ pc' = pc /\ stmt' = stmt /\ work' = work /\ stream' = stream /\ files' = files
        /\ result' = result
    BY <1>4 DEF vars
  <2>2. \A t \in Threads : \A base, content :
            Carries(t, base, content) => Carries(t, base, content)'
    BY <2>1 DEF Carries, WellFormed, Named
  <2> QED
    BY <2>1, <2>2 DEF RowsKept, RowsInv
<1> QED
  BY <1>1, <1>2, <1>3, <1>4 DEF RowsInv, Next

\* A rewrite that ends leaves what its stream carried.
LEMMA Finished ==
    ASSUME OneConnection, RowsInv, [Next]_vars, NEW t \in Threads, NEW ops,
           ops \subseteq {"insert", "update", "delete"}, Finishes(t, ops)
    PROVE  LET s    == stmt[t]
               cols == Columns[s.table]
               new  == NewRecords(s, Before(t))
           IN  /\ s \in Statement /\ s.op \in ops /\ WellFormed(s)
               /\ cols \in Seq(Column)
               /\ Before(t) \in Seq(Record) /\ Full(Before(t), cols)
               /\ \A i \in DOMAIN Before(t) : RowOk(Before(t)[i].vals, cols)
               /\ new \in Seq(Record) /\ Full(new, cols)
               /\ After(t) = ReadRecords(Rewrite(new, cols), cols)
               /\ result[t].ok => ~ WriteThrows(new, cols)
<1> DEFINE s    == stmt[t]
           cols == Columns[s.table]
           recs == Before(t)
           new  == NewRecords(s, recs)
<1>1. /\ pc[t] = "close" /\ pc'[t] = "respond" /\ s.op \in ops /\ stream[t].linked
  BY DEF Finishes, At
<1>2. Close(t)
  <2>1. ~ Restart /\ ~ UNCHANGED vars
    BY <1>1 DEF Restart, vars
  <2>2. Receive(t) \/ Step(t)
    BY <2>1, OnlyThread DEF Next
  <2>3. ~ Flush(t)
    BY <1>1 DEF Flush
  <2> QED
    BY <1>1, <2>2, <2>3 DEF Receive, Step, Respond, DatabaseExists, MakeDirectory, RemoveDirectory,
       ListDatabases, SetCurrentDatabase, CompareDatabase, ResetDatabase, RequireDb, TableExists,
       LoadSchema, RequireTable, Rows, Open, At
<1>3. s \in Statement /\ Carries(t, stream[t].base, stream[t].content)
  BY <1>1 DEF RowsInv, Routed, RowsKept
<1>4. cols \in Seq(Column)
  <2>1. s.table \in Tables
    BY <1>1, <1>3, StatementFields DEF RowOps
  <2> QED
    BY <2>1, NamesAssumption
<1>5. /\ stream[t].base \in File /\ WellFormed(s)
      /\ \A i \in DOMAIN recs : RowOk(recs[i].vals, cols)
      /\ stream[t].content = Rewrite(new, cols)
      /\ result[t].ok => ~ WriteThrows(new, cols)
  BY <1>3 DEF Carries, Before
<1>6. recs \in Seq(Record) /\ Full(recs, cols)
  BY <1>4, <1>5, ReadRecordsType DEF Before
<1>7. After(t) = ReadRecords(stream[t].content, cols)
  <2>1. stream[t].path \in Paths /\ files \in [Paths -> File]
    BY DEF RowsInv, TypedAndFit, TypeOK, StorageTypeOK, Stream
  <2>2. files'[stream[t].path] = stream[t].content
    BY <1>1, <1>2, <2>1, Closes
  <2> QED
    BY <2>2 DEF After
<1>8. new \in Seq(Record) /\ Full(new, cols)
  BY <1>1, <1>3, <1>5, <1>6, RewrittenType DEF NewRecords
<1> HIDE DEF new, recs, cols
<1>9. After(t) = ReadRecords(Rewrite(new, cols), cols)
  BY <1>5, <1>7
<1> QED
  BY <1>1, <1>3, <1>4, <1>5, <1>6, <1>8, <1>9 DEF new, recs, cols


\* With one connection an INSERT, also one that fails in the middle of its own
\* rows, leaves the records before it as they were (appendRows).
THEOREM InsertsKeepRecords ==
    ASSUME OneConnection
    PROVE  Spec => InsertKeepsRecords
<1>1. RowsInv /\ [Next]_vars =>
        [\A t \in Threads : Finishes(t, {"insert"}) =>
            /\ Len(Before(t)) <= Len(After(t))
            /\ SubSeq(After(t), 1, Len(Before(t))) = Before(t)]_vars
  <2> SUFFICES ASSUME RowsInv, [Next]_vars, NEW t \in Threads, Finishes(t, {"insert"})
               PROVE  /\ Len(Before(t)) <= Len(After(t))
                      /\ SubSeq(After(t), 1, Len(Before(t))) = Before(t)
    OBVIOUS
  <2> DEFINE s    == stmt[t]
             cols == Columns[s.table]
             new  == NewRecords(s, Before(t))
  <2>1. /\ s \in Statement /\ s.op = "insert" /\ WellFormed(s) /\ cols \in Seq(Column)
        /\ Before(t) \in Seq(Record)
        /\ \A i \in DOMAIN Before(t) : RowOk(Before(t)[i].vals, cols)
        /\ new \in Seq(Record) /\ Full(new, cols)
        /\ After(t) = ReadRecords(Rewrite(new, cols), cols)
    BY Finished
  <2> HIDE DEF cols
  <2>2. PICK recs : recs = Before(t)
    OBVIOUS
  <2>3. PICK after : after = After(t)
    OBVIOUS
  <2>4. PICK rows : rows = NewRows(s)
    OBVIOUS
  <2>5. rows \in Seq(Row) /\ recs \in Seq(Record) /\ new = appendRows(recs, rows)
    BY <2>1, <2>2, <2>4, NewRowsType DEF NewRecords, Rewritten
  <2>6. /\ Len(recs) <= Len(new) /\ \A i \in 1 .. Len(recs) : new[i] = recs[i]
    <3> DEFINE added == [i \in 1 .. Len(rows) |-> [del |-> FALSE, vals |-> rows[i]]]
    <3>1. added \in Seq(Record)
      BY <2>5 DEF Record, Row
    <3>2. new = recs \o added
      BY <2>5 DEF appendRows
    <3> HIDE DEF added, new
    <3> QED
      BY <2>5, <3>1, <3>2
  <2> HIDE DEF new
  <2>7. \A i \in 1 .. Len(recs) : RowOk(new[i].vals, cols)
    BY <2>1, <2>2, <2>5, <2>6
  <2>8. /\ after \in Seq(Record) /\ Len(after) = Len(new)
        /\ \A i \in 1 .. Len(recs) : after[i] = new[i]
    <3>1. Len(recs) \in Nat /\ Len(recs) <= Len(new)
      BY <2>5, <2>6
    <3>2. /\ ReadRecords(Rewrite(new, cols), cols) \in Seq(Record)
          /\ Len(ReadRecords(Rewrite(new, cols), cols)) = Len(new)
          /\ \A i \in 1 .. Len(recs) : ReadRecords(Rewrite(new, cols), cols)[i] = new[i]
      BY <2>1, <2>7, <3>1, ReadBack
    <3> QED
      BY <2>1, <2>3, <3>2
  <2>9. Len(recs) <= Len(after) /\ SubSeq(after, 1, Len(recs)) = recs
    <3>1. /\ Len(recs) <= Len(after)
          /\ \A i \in 1 .. Len(recs) : after[i] = recs[i]
      BY <2>6, <2>8
    <3>2. /\ SubSeq(after, 1, Len(recs)) \in Seq(Record)
          /\ Len(SubSeq(after, 1, Len(recs))) = Len(recs)
          /\ \A i \in 1 .. Len(recs) : SubSeq(after, 1, Len(recs))[i] = recs[i]
      BY <2>5, <2>8, <3>1
    <3>3. PICK first : first = SubSeq(after, 1, Len(recs))
      OBVIOUS
    <3>4. first = recs
      <4>1. /\ first \in Seq(Record) /\ Len(first) = Len(recs)
            /\ \A i \in 1 .. Len(recs) : first[i] = recs[i]
        BY <3>2, <3>3
      <4> QED
        BY <2>5, <4>1
    <3> QED
      BY <3>1, <3>3, <3>4
  <2> QED
    BY <2>2, <2>3, <2>9
<1> QED
  BY <1>1, InitRows, NextRows, PTL DEF Spec, InsertKeepsRecords

\* With one connection an UPDATE or DELETE that succeeds changes only the rows
\* its WHERE selects: none beside them appears, vanishes or is undeleted.
THEOREM SuccessStaysLocal ==
    ASSUME OneConnection
    PROVE  Spec => SuccessIsLocal
<1>1. RowsInv /\ [Next]_vars =>
        [\A t \in Threads :
            Finishes(t, {"update", "delete"}) /\ result[t].ok => OthersUnchanged(t)]_vars
  <2> SUFFICES ASSUME RowsInv, [Next]_vars, NEW t \in Threads,
                      Finishes(t, {"update", "delete"}), result[t].ok
               PROVE  OthersUnchanged(t)
    OBVIOUS
  <2> DEFINE s    == stmt[t]
             cols == Columns[s.table]
             new  == NewRecords(s, Before(t))
  <2>1. /\ s \in Statement /\ s.op \in {"update", "delete"} /\ cols \in Seq(Column)
        /\ Before(t) \in Seq(Record)
        /\ new \in Seq(Record) /\ Full(new, cols) /\ ~ WriteThrows(new, cols)
        /\ After(t) = ReadRecords(Rewrite(new, cols), cols)
    BY Finished
  <2>2. PICK recs : recs = Before(t)
    OBVIOUS
  <2>3. PICK after : after = After(t)
    OBVIOUS
  <2>4. PICK hits : hits = Selected(t)
    OBVIOUS
  <2>5. recs \in Seq(Record)
    BY <2>1, <2>2
  <2>6. /\ Len(new) = Len(recs)
        /\ \A i \in 1 .. Len(recs) : i \notin hits => new[i] = recs[i]
    <3>1. new = Rewritten(s, recs, hits)
      BY <2>1, <2>2, <2>4 DEF NewRecords, Hits, Selected
    <3>2. CASE s.op = "update"
      <4>1. new = updateRows(recs, hits, s.columns, s.value, cols)
        BY <3>1, <3>2 DEF Rewritten
      <4> HIDE DEF new
      <4> QED
        BY <2>5, <4>1 DEF updateRows
    <3>3. CASE s.op = "delete"
      <4>1. new = deleteRows(recs, hits)
        BY <3>1, <3>3 DEF Rewritten
      <4> HIDE DEF new
      <4>2. /\ Len(new) = Len(recs)
            /\ \A i \in 1 .. Len(recs) :
                 new[i] = [recs[i] EXCEPT !.del = i \in hits \/ recs[i].del]
        BY <2>5, <4>1 DEF deleteRows
      <4>3. \A i \in 1 .. Len(recs) : i \notin hits =>
              [recs[i] EXCEPT !.del = i \in hits \/ recs[i].del] = recs[i]
        <5> SUFFICES ASSUME NEW i \in 1 .. Len(recs), i \notin hits
                     PROVE  [recs[i] EXCEPT !.del = i \in hits \/ recs[i].del] = recs[i]
          OBVIOUS
        <5>1. recs[i] \in Record
          BY <2>5
        <5>2. (i \in hits \/ recs[i].del) = recs[i].del
          BY <5>1 DEF Record
        <5> QED
          BY <5>1, <5>2 DEF Record
      <4> QED
        BY <4>2, <4>3
    <3> QED
      BY <2>1, <3>2, <3>3
  <2> HIDE DEF new, cols
  <2>7. after = new
    BY <2>1, <2>3, RewriteIsReadBack
  <2>8. /\ Len(after) = Len(recs)
        /\ \A i \in DOMAIN recs : i \notin hits => after[i] = recs[i]
    BY <2>5, <2>6, <2>7
  <2> QED
    BY <2>2, <2>3, <2>4, <2>8 DEF OthersUnchanged
<1> QED
  BY <1>1, InitRows, NextRows, PTL DEF Spec, SuccessIsLocal
=============================================================================
