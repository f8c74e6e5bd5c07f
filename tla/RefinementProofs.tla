-------------------------- MODULE RefinementProofs --------------------------
(***************************************************************************)
(* The refinement: for one connection, every step of the executor over its *)
(* files is a step of RelStore or leaves the databases, tables and rows    *)
(* clients are promised as they are.                                       *)
(***************************************************************************)
EXTENDS ExecutorRefinement, ConnectionProofs

-----------------------------------------------------------------------------
(* RelStore has the operators of Values of its own: they are the same.     *)

LEMMA SameOperators ==
    /\ \A s, S : Promise!Keep(s, S) = Keep(s, S)
    /\ \A S : Promise!Cardinality(S) = Cardinality(S)
    /\ \A name, cols : Promise!ColumnIndex(name, cols) = ColumnIndex(name, cols)
    /\ \A row, names, values, cols :
         Promise!Assign(row, names, values, cols) = Assign(row, names, values, cols)
    /\ \A cols : Promise!NullRow(cols) = NullRow(cols)
    /\ \A vals, cols : Promise!RowOk(vals, cols) = RowOk(vals, cols)
    /\ \A vals, cols, where :
         Promise!matchesWhere(vals, cols, where) = matchesWhere(vals, cols, where)
    /\ \A where, cols : Promise!WhereThrows(where, cols) = WhereThrows(where, cols)
<1>1. \A S : Promise!Min(S) = Min(S)
  BY DEF Promise!Min, Min
<1>3. \A S : Promise!Cardinality(S) = Cardinality(S)
  BY DEF Promise!Cardinality, Cardinality
<1>4. \A name, cols : Promise!ColumnIndex(name, cols) = ColumnIndex(name, cols)
  BY <1>1 DEF Promise!ColumnIndex, ColumnIndex
<1>5. \A s, S : Promise!Keep(s, S) = Keep(s, S)
  BY DEF Promise!Keep, Keep, Promise!Nth, Nth, Promise!Rank, Rank, Promise!Cardinality, Cardinality
<1>6. \A row, names, values, cols :
         Promise!Assign(row, names, values, cols) = Assign(row, names, values, cols)
  BY DEF Promise!Assign, Assign, Promise!ColumnIndex, ColumnIndex, Promise!Min, Min,
         Promise!Max, Max
<1>7. \A cols : Promise!NullRow(cols) = NullRow(cols)
  BY DEF Promise!NullRow, NullRow, Promise!NULL, NULL
<1>8. \A vals, cols : Promise!RowOk(vals, cols) = RowOk(vals, cols)
  BY DEF Promise!RowOk, RowOk, Promise!FieldOk, FieldOk, Promise!KindOf, KindOf
<1>9. \A vals, cols, where :
         Promise!matchesWhere(vals, cols, where) = matchesWhere(vals, cols, where)
  BY DEF Promise!ColumnIndex, ColumnIndex, Promise!Min, Min, Promise!matchesWhere, matchesWhere,
         Promise!NoWhere, NoWhere, Promise!compareValues, compareValues, Promise!Ordered, Ordered,
         Promise!numericCompare, numericCompare
<1>10. \A where, cols : Promise!WhereThrows(where, cols) = WhereThrows(where, cols)
  BY <1>4 DEF Promise!WhereThrows, WhereThrows, Promise!NoWhere, NoWhere
<1> QED
  BY <1>3, <1>4, <1>5, <1>6, <1>7, <1>8, <1>9, <1>10

-----------------------------------------------------------------------------
(* The refinement mapping for one connection.                              *)

LEMMA ContentOf ==
    ASSUME OneConnection, NEW t \in Threads
    PROVE  \A p : /\ Content(p) = IF pc[t] = "close" /\ stream[t].linked /\ stream[t].path = p
                                  THEN stream[t].base ELSE files[p]
                  /\ Content(p)' = IF pc'[t] = "close" /\ stream'[t].linked /\ stream'[t].path = p
                                   THEN stream'[t].base ELSE files'[p]
<1>1. Threads = {t}
  BY OnlyThread
<1>2. ASSUME NEW S, S = {} \/ S = {t}
      PROVE  S # {} => (CHOOSE u \in S : TRUE) = t
  BY <1>2
<1> TAKE p
<1>3. Content(p) = IF pc[t] = "close" /\ stream[t].linked /\ stream[t].path = p
                   THEN stream[t].base ELSE files[p]
  <2> DEFINE W == {u \in Threads : At(u, "close") /\ stream[u].linked /\ stream[u].path = p}
  <2>1. IF pc[t] = "close" /\ stream[t].linked /\ stream[t].path = p THEN W = {t} ELSE W = {}
    BY <1>1 DEF At
  <2>2. Content(p) = IF W = {} THEN files[p] ELSE stream[CHOOSE u \in W : TRUE].base
    BY DEF Content
  <2> HIDE DEF W
  <2>3. W # {} => (CHOOSE u \in W : TRUE) = t
    BY <1>2, <2>1
  <2> QED
    BY <2>1, <2>2, <2>3
<1>4. Content(p)' = IF pc'[t] = "close" /\ stream'[t].linked /\ stream'[t].path = p
                    THEN stream'[t].base ELSE files'[p]
  <2> DEFINE W == {u \in Threads : pc'[u] = "close" /\ stream'[u].linked /\ stream'[u].path = p}
  <2>1. IF pc'[t] = "close" /\ stream'[t].linked /\ stream'[t].path = p THEN W = {t} ELSE W = {}
    BY <1>1
  <2>2. Content(p)' = IF W = {} THEN files'[p] ELSE stream'[CHOOSE u \in W : TRUE].base
    BY DEF Content, At
  <2> HIDE DEF W
  <2>3. W # {} => (CHOOSE u \in W : TRUE) = t
    BY <1>2, <2>1
  <2> QED
    BY <2>1, <2>2, <2>3
<1> QED
  BY <1>3, <1>4

LEMMA DroppedBy ==
    ASSUME OneConnection, NEW t \in Threads
    PROVE  \A d : /\ Dropped(d) <=> Dropping(t) /\ stmt[t].db = d
                  /\ Dropped(d)' <=> Dropping(t)' /\ stmt'[t].db = d
BY OnlyThread DEF Dropped, Dropping

\* Which step starts and which ends a rewrite.
LEMMA Rewrites ==
    ASSUME TypedAndFit, NEW t \in Threads, Receive(t) \/ Step(t)
    PROVE  /\ pc[t] = "close" => Flush(t) \/ Close(t)
           /\ pc'[t] = "close" => Open(t) \/ Flush(t)
<1>1. pc[t] = "close" => Flush(t) \/ Close(t)
  BY DEF Step, Receive, Respond, DatabaseExists, MakeDirectory, RemoveDirectory, ListDatabases,
         SetCurrentDatabase, CompareDatabase, ResetDatabase, RequireDb, TableExists, LoadSchema,
         RequireTable, Rows, Open, At
<1> QED
  BY <1>1, ControlFlow

\* What clients are promised stays as it is.
SameContent == \A p \in Paths : Content(p)' = Content(p)

LEMMA ContentSteps ==
    ASSUME OneConnection, TypedAndFit, NEW t \in Threads, Receive(t) \/ Step(t)
    PROVE  /\ RemoveDirectory(t) =>
                \A p \in Paths : Content(p)' = IF p[1] = stmt[t].db THEN Absent ELSE Content(p)
           /\ Close(t) /\ stream[t].linked =>
                \A p \in Paths : Content(p)' = IF p = stream[t].path THEN stream[t].content
                                               ELSE Content(p)
           /\ RemoveDirectory(t) \/ Close(t) \/ SameContent
<1>0. stream \in [Threads -> Stream] /\ files \in [Paths -> File] /\ pc \in [Threads -> Labels]
  BY DEF TypedAndFit, TypeOK, StorageTypeOK
<1>1. \A p : /\ Content(p) = IF pc[t] = "close" /\ stream[t].linked /\ stream[t].path = p
                             THEN stream[t].base ELSE files[p]
             /\ Content(p)' = IF pc'[t] = "close" /\ stream'[t].linked /\ stream'[t].path = p
                              THEN stream'[t].base ELSE files'[p]
  BY ContentOf
<1>2. ASSUME RemoveDirectory(t)
      PROVE  \A p \in Paths : Content(p)' = IF p[1] = stmt[t].db THEN Absent ELSE Content(p)
  <2>1. pc[t] = "rmdir" /\ pc'[t] = "listDatabases"
    BY <1>2, Went DEF RemoveDirectory, At
  <2>2. \A p \in Paths : files'[p] = IF p[1] = stmt[t].db THEN Absent ELSE files[p]
    BY <1>2 DEF RemoveDirectory, remove_all
  <2> QED
    BY <1>1, <2>1, <2>2
<1>3. ASSUME Close(t), stream[t].linked
      PROVE  \A p \in Paths : Content(p)' = IF p = stream[t].path THEN stream[t].content
                                            ELSE Content(p)
  <2>1. pc[t] = "close" /\ pc'[t] # "close"
    <3>1. pc'[t] \in {"compareDb", "respond"}
      BY <1>3, Went DEF Close
    <3> QED
      BY <1>3, <3>1 DEF Close, At
  <2>2. \A p \in Paths : files'[p] = IF p = stream[t].path THEN stream[t].content ELSE files[p]
    BY <1>0, <1>3, Closes
  <2> QED
    BY <1>1, <1>3, <2>1, <2>2
<1>4. ASSUME Open(t)
      PROVE  SameContent
  <2>1. pc[t] = "open" /\ pc'[t] = "close"
    BY <1>4, Went DEF Open, At
  <2>2. PICK q : q = TargetPath(t)
    OBVIOUS
  <2>3. stream'[t].path = q /\ stream'[t].base = files[q] /\ (stream'[t].linked <=> q[1] \in dirs)
    BY <1>0, <1>4, <2>2 DEF Open, OpenTrunc
  <2>4. files' = IF q[1] \in dirs THEN [files EXCEPT ![q] = Empty] ELSE files
    BY <1>4, <2>2 DEF Open, OpenTrunc
  <2>5. \A p \in Paths : p # q \/ ~ q[1] \in dirs => files'[p] = files[p]
    BY <1>0, <2>4
  <2> QED
    BY <1>1, <2>1, <2>3, <2>5 DEF SameContent
<1>5. ASSUME Flush(t)
      PROVE  SameContent
  <2>1. pc[t] = "close" /\ pc'[t] = "close" /\ stream' = stream /\ stream[t].linked
    BY <1>5 DEF Flush, FlushStream, At
  <2>2. PICK q, f : q = stream[t].path /\ files' = [files EXCEPT ![q] = f]
    BY <1>5 DEF Flush, FlushStream
  <2>3. \A p \in Paths : p # q => files'[p] = files[p]
    BY <1>0, <2>2
  <2> QED
    BY <1>1, <2>1, <2>2, <2>3 DEF SameContent
<1>6. ASSUME ~ (RemoveDirectory(t) \/ Open(t) \/ Flush(t) \/ Close(t))
      PROVE  SameContent
  <2>1. files' = files /\ pc[t] # "close" /\ pc'[t] # "close"
    BY <1>6, WhatChanges, Rewrites
  <2> QED
    BY <1>1, <2>1 DEF SameContent
<1> QED
  BY <1>2, <1>3, <1>4, <1>5, <1>6

-----------------------------------------------------------------------------
(* The invariant.  The checks of a statement are still good when it takes  *)
(* effect, and what it is going to leave is what its promise says.         *)

NothingTorn == \A p \in Paths : Content(p).magic # "empty"

DatabasesHaveHomes == absDbs \subseteq dirs

CurrentIsHome == currentDb # NoDb => currentDb \in absDbs \/ Dropped(currentDb)

Destination(t) ==
    IF stmt[t].op \in DbOps THEN catalogPath
    ELSE IF stmt[t].op \in TableOps THEN schemaPath(currentDb)
    ELSE tablePath(currentDb, stmt[t].table)

\* The records of the table a statement is about.
Found(t) == ReadRecords(Content(Destination(t)), Columns[stmt[t].table])

RowsAffected(s, recs) == IF s.op = "insert" THEN Len(s.values) ELSE Cardinality(Hits(s, recs))

Intended(t) ==
    LET s == stmt[t]
        names == Content(Destination(t)).names
    IN  CASE s.op = "createDatabase" -> CatalogFile(Append(names, s.db))
          [] s.op = "dropDatabase"   -> CatalogFile(Without(names, s.db))
          [] s.op = "createTable"    -> SchemaFile(Append(names, s.table))
          [] s.op = "dropTable"      -> SchemaFile(Without(names, s.table))
          [] OTHER -> Rewrite(NewRecords(s, Found(t)), Columns[s.table])

Outcome(t) ==
    LET s == stmt[t]
    IN  IF s.op \notin RowOps THEN Success
        ELSE IF WriteThrows(NewRecords(s, Found(t)), Columns[s.table]) THEN NoResult
        ELSE [Success EXCEPT !.affected = RowsAffected(s, Found(t))]

\* The checks before a rewrite were passed, and still would be.
Allowed(t) ==
    LET s == stmt[t]
    IN  /\ s.op # "select" /\ s.op # "use"
        /\ s.op = "createDatabase" => s.db \notin absDbs /\ s.db \in dirs
        /\ s.op \notin DbOps => currentDb # NoDb
        /\ s.op = "createTable" => s.table \notin Listed(schemaPath(currentDb))
        /\ s.op = "dropTable" => s.table \in Listed(schemaPath(currentDb))
        /\ s.op \in RowOps => /\ s.table \in Listed(schemaPath(currentDb))
                              /\ WellFormed(s) /\ ~ PredicateThrows(s, Found(t))

Ready(t) == Allowed(t) /\ result[t] = Outcome(t)

Checked ==
    \A t \in Threads :
        /\ pc[t] = "idle" => stmt[t] = NoStatement
        /\ pc[t] = "mkdir" => stmt[t].db \notin absDbs
        /\ pc[t] \in {"rmdir", "setDb"} => stmt[t].db \in absDbs
        /\ pc[t] = "listDatabases" /\ stmt[t].op = "createDatabase" =>
             stmt[t].db \notin absDbs /\ stmt[t].db \in dirs
        /\ pc[t] = "tableExists" => stmt[t].op = "createTable"
        /\ pc[t] = "loadSchema" /\ stmt[t].op = "createTable" =>
             stmt[t].table \notin Listed(schemaPath(currentDb))
        /\ pc[t] = "open" =>
             /\ Ready(t)
             /\ TargetPath(t) = Destination(t) /\ work[t].content = Intended(t)
        /\ pc[t] = "close" =>
             /\ Ready(t) /\ stream[t].linked
             /\ stream[t].path = Destination(t) /\ stream[t].content = Intended(t)
        /\ pc[t] \in {"compareDb", "resetDb"} =>
             result[t] = Success /\ stmt[t].db \notin Listed(catalogPath)
        /\ pc[t] = "resetDb" => currentDb = stmt[t].db

RefInv == NothingTorn /\ DatabasesHaveHomes /\ CurrentIsHome /\ Checked

Kept == KindsKept /\ Routed /\ Sound /\ RootExists /\ RefInv

-----------------------------------------------------------------------------
(* Steps that leave the promise alone.                                     *)

LEMMA PromisedPaths ==
    ASSUME TypedAndFit
    PROVE  /\ catalogPath \in Paths /\ schemaPath(currentDb) \in Paths
           /\ \A d \in Dbs : schemaPath(d) \in Paths
           /\ \A p \in Dbs \X Tables : p \in Paths /\ p[1] \in Dbs /\ p[2] \in Tables
<1>1. currentDb \in Dirs
  BY DEF TypedAndFit, TypeOK
<1> QED
  BY <1>1 DEF Paths, Dirs, catalogPath, schemaPath

\* The tables and rows clients are promised are those of the files.
LEMMA SameTables ==
    ASSUME \A d \in Dbs : Content(schemaPath(d))' = Content(schemaPath(d))
    PROVE  absTabs' = absTabs
<1>1. \A d \in Dbs : (Listed(schemaPath(d)) \cap Tables)' = Listed(schemaPath(d)) \cap Tables
  BY DEF Listed, schemaPath
<1> QED
  BY <1>1 DEF absTabs

LEMMA SameRows ==
    ASSUME \A p \in Dbs \X Tables : Content(p)' = Content(p)
    PROVE  absRows' = absRows
<1> DEFINE Of(f, p) == LET recs == ReadRecords(f, Columns[p[2]])
                       IN  RowsAt(recs, {i \in DOMAIN recs : Live(recs[i])})
<1>1. /\ absRows = [p \in Dbs \X Tables |-> Of(Content(p), p)]
      /\ absRows' = [p \in Dbs \X Tables |-> Of(Content(p)', p)]
  BY DEF absRows
<1> HIDE DEF Of
<1> QED
  BY <1>1

LEMMA SameListing ==
    ASSUME NEW p, Content(p)' = Content(p)
    PROVE  Listed(p)' = Listed(p)
BY DEF Listed

LEMMA SameDbs ==
    ASSUME OneConnection, NEW t \in Threads, Content(catalogPath)' = Content(catalogPath),
           Dropping(t)' <=> Dropping(t), stmt'[t].db = stmt[t].db \/ ~ Dropping(t)
    PROVE  absDbs' = absDbs
<1>1. \A d : Dropped(d)' <=> Dropped(d)
  BY DroppedBy
<1>2. Listed(catalogPath)' = Listed(catalogPath)
  BY SameListing DEF Listed, catalogPath
<1> QED
  BY <1>1, <1>2 DEF absDbs

LEMMA SameCurrent ==
    ASSUME OneConnection, NEW t \in Threads, currentDb' = currentDb,
           Dropping(t)' <=> Dropping(t), stmt'[t].db = stmt[t].db \/ ~ Dropping(t)
    PROVE  absCur' = absCur
<1>1. \A d : Dropped(d)' <=> Dropped(d)
  BY DroppedBy
<1> QED
  BY <1>1 DEF absCur

\* The promised statement of t and how far it is.
CallOf(t) ==
    [stmt |-> stmt[t],
     done |-> At(t, "respond") \/ Dropping(t),
     res  |-> IF Dropping(t) THEN Success ELSE IF At(t, "respond") THEN result[t] ELSE NoResult]

LEMMA CallsAre ==
    ASSUME OneConnection, NEW t \in Threads
    PROVE  /\ absCall[t] = CallOf(t) /\ absCall'[t] = CallOf(t)'
           /\ \A x : CallOf(t)' = x => absCall' = [absCall EXCEPT ![t] = x]
           /\ CallOf(t)' = CallOf(t) => absCall' = absCall
<1>1. Threads = {t}
  BY OnlyThread
<1>2. absCall = [u \in Threads |-> CallOf(u)] /\ absCall' = [u \in Threads |-> CallOf(u)']
  BY DEF absCall, CallOf
<1> QED
  BY <1>1, <1>2

\* Waiting for its effect, or for its answer to be sent.
Waiting(t) == pc[t] \notin {"idle", "respond"} /\ ~ Dropping(t)

Begun(s)       == [stmt |-> s, done |-> FALSE, res |-> NoResult]
Ended(s, r) == [stmt |-> s, done |-> TRUE, res |-> r]

LEMMA CallRecords ==
    /\ Promise!Idle = Begun(NoStatement)
    /\ \A s : [Promise!Idle EXCEPT !.stmt = s] = Begun(s)
    /\ \A s, r : [Begun(s) EXCEPT !.done = TRUE, !.res = r] = Ended(s, r)
    /\ Promise!Refusal = NoResult /\ Promise!Ok = Success
    /\ \A s, r : Begun(s).stmt = s /\ Begun(s).done = FALSE
                 /\ Ended(s, r).stmt = s /\ Ended(s, r).done = TRUE
<1>1. Promise!Idle = Begun(NoStatement)
  BY DEF Promise!Idle, Begun, NoStatement, NoResult
<1>2. ASSUME NEW s
      PROVE  [Begun(NoStatement) EXCEPT !.stmt = s] = Begun(s)
  <2>1. PICK n, x : n = NoStatement /\ x = Begun(n)
    OBVIOUS
  <2> DEFINE R == [stmt : {s, n}, done : {FALSE}, res : {NoResult}]
  <2>2. x \in R
    BY <2>1 DEF Begun
  <2>3. PICK z : z = [x EXCEPT !.stmt = s]
    OBVIOUS
  <2>4. z \in R /\ z.stmt = s
    BY <2>2, <2>3
  <2>5. z = [stmt |-> s, done |-> FALSE, res |-> NoResult]
    BY <2>4
  <2> QED
    BY <2>1, <2>3, <2>5 DEF Begun
<1>3. ASSUME NEW s, NEW r
      PROVE  [Begun(s) EXCEPT !.done = TRUE, !.res = r] = Ended(s, r)
  <2>1. PICK x : x = Begun(s)
    OBVIOUS
  <2> DEFINE R == [stmt : {s}, done : {TRUE, FALSE}, res : {NoResult, r}]
  <2>2. x \in R
    BY <2>1 DEF Begun
  <2>3. PICK z : z = [x EXCEPT !.done = TRUE, !.res = r]
    OBVIOUS
  <2>4. z \in R /\ z.done = TRUE /\ z.res = r
    BY <2>2, <2>3
  <2>5. z = [stmt |-> s, done |-> TRUE, res |-> r]
    BY <2>4
  <2> QED
    BY <2>1, <2>3, <2>5 DEF Ended
<1>4. Promise!Refusal = NoResult
  BY <1>1 DEF Promise!Refusal, Begun
<1>5. Promise!Ok = Success
  BY <1>4 DEF Promise!Ok, Success
<1> QED
  BY <1>1, <1>2, <1>3, <1>4, <1>5 DEF Begun, Ended

LEMMA Phases ==
    ASSUME NEW t \in Threads
    PROVE  /\ pc[t] = "idle" /\ stmt[t] = NoStatement => CallOf(t) = Promise!Idle
           /\ Waiting(t) => CallOf(t) = Begun(stmt[t])
           /\ Dropping(t) => CallOf(t) = Ended(stmt[t], Success)
           /\ pc[t] = "respond" => CallOf(t) = Ended(stmt[t], result[t])
<1>1. /\ pc[t] = "idle" => ~ (At(t, "respond") \/ Dropping(t))
      /\ Waiting(t) => ~ (At(t, "respond") \/ Dropping(t))
      /\ pc[t] = "respond" => At(t, "respond") /\ ~ Dropping(t)
  BY DEF Dropping, Waiting, At
<1>2. ~ (At(t, "respond") \/ Dropping(t)) => CallOf(t) = Begun(stmt[t])
  BY DEF CallOf, Begun
<1>3. Dropping(t) => CallOf(t) = Ended(stmt[t], Success)
  BY DEF CallOf, Ended
<1>4. At(t, "respond") /\ ~ Dropping(t) => CallOf(t) = Ended(stmt[t], result[t])
  BY DEF CallOf, Ended
<1> QED
  BY <1>1, <1>2, <1>3, <1>4, CallRecords

LEMMA NextPhases ==
    ASSUME NEW t \in Threads
    PROVE  /\ pc'[t] = "idle" /\ stmt'[t] = NoStatement => CallOf(t)' = Promise!Idle
           /\ Waiting(t)' => CallOf(t)' = Begun(stmt'[t])
           /\ Dropping(t)' => CallOf(t)' = Ended(stmt'[t], Success)
           /\ pc'[t] = "respond" => CallOf(t)' = Ended(stmt'[t], result'[t])
<1>1. /\ pc'[t] = "idle" => ~ (At(t, "respond") \/ Dropping(t))'
      /\ Waiting(t)' => ~ (At(t, "respond") \/ Dropping(t))'
      /\ pc'[t] = "respond" => At(t, "respond")' /\ ~ Dropping(t)'
  BY DEF Dropping, Waiting, At
<1>2. ~ (At(t, "respond") \/ Dropping(t))' => CallOf(t)' = Begun(stmt'[t])
  BY DEF CallOf, Begun, NoResult
<1>3. Dropping(t)' => CallOf(t)' = Ended(stmt'[t], Success)
  BY DEF CallOf, Ended, Success, NoResult
<1>4. At(t, "respond")' /\ ~ Dropping(t)' => CallOf(t)' = Ended(stmt'[t], result'[t])
  BY DEF CallOf, Ended
<1> QED
  BY <1>1, <1>2, <1>3, <1>4, CallRecords

\* Promise!Done in terms of the one connection.
LEMMA DoneIs ==
    ASSUME OneConnection, NEW t \in Threads, NEW s, NEW r,
           CallOf(t) = Begun(s), CallOf(t)' = Ended(s, r)
    PROVE  Promise!Done(t, r)
<1>1. absCall[t] = Begun(s) /\ absCall' = [absCall EXCEPT ![t] = Ended(s, r)]
  BY CallsAre
<1>2. Ended(s, r) = [absCall[t] EXCEPT !.done = TRUE, !.res = r]
  BY <1>1, CallRecords
<1>3. absCall' = [absCall EXCEPT ![t] = [@ EXCEPT !.done = TRUE, !.res = r]]
  BY <1>1, <1>2
<1> QED
  BY <1>3 DEF Promise!Done

-----------------------------------------------------------------------------
(* What a statement reads while it runs.                                   *)

LEMMA Reads ==
    ASSUME OneConnection, "schema" \notin Tables, Kept, NEW t \in Threads, pc[t] # "close"
    PROVE  /\ \A p : files[p] = Content(p)
           /\ ~ CatalogBroken /\ ~ SchemaBroken(currentDb)
           /\ \A tb \in Tables : currentDb # NoDb => ~ TableBroken(tablePath(currentDb, tb))
           /\ \A d : databaseExists(d) <=> d \in Listed(catalogPath)
           /\ \A x : tableExists(currentDb, x) <=> x \in Listed(schemaPath(currentDb))
           /\ listDatabases = Content(catalogPath).names
           /\ loadSchema(currentDb) = Content(schemaPath(currentDb)).names
<1>1. \A p : files[p] = Content(p)
  BY ContentOf
<1>2. TypedAndFit /\ files \in [Paths -> File] /\ currentDb \in Dirs
  BY DEF Kept, KindsKept, TypedAndFit, TypeOK, StorageTypeOK
<1>3. \A p \in Paths : files[p].magic \in {"absent", "catalog", "schema", "table"} /\ KindFits(files[p], p)
  BY <1>1, <1>2 DEF Kept, RefInv, NothingTorn, KindsKept, FilesFit, File, Magic
<1>4. catalogPath \in Paths /\ schemaPath(currentDb) \in Paths
  BY <1>2, PromisedPaths
<1>5. ~ CatalogBroken
  BY <1>3, <1>4 DEF CatalogBroken, KindFits, catalogPath
<1>6. ~ SchemaBroken(currentDb)
  BY <1>3, <1>4 DEF SchemaBroken, KindFits, catalogPath, schemaPath
<1>7. ASSUME NEW tb \in Tables, currentDb # NoDb
      PROVE  ~ TableBroken(tablePath(currentDb, tb))
  <2>1. tablePath(currentDb, tb) \in Paths
    BY <1>2 DEF tablePath, Paths
  <2>2. tb # "schema"
    OBVIOUS
  <2> QED
    BY <1>3, <1>7, <2>1, <2>2 DEF TableBroken, KindFits, catalogPath, tablePath
<1>8. \A d : databaseExists(d) <=> d \in Listed(catalogPath)
  BY <1>1 DEF databaseExists, listDatabases, Listed
<1>9. \A x : tableExists(currentDb, x) <=> x \in Listed(schemaPath(currentDb))
  BY <1>1 DEF tableExists, loadSchema, Listed
<1>10. /\ listDatabases = Content(catalogPath).names
       /\ loadSchema(currentDb) = Content(schemaPath(currentDb)).names
  BY <1>1 DEF listDatabases, loadSchema
<1> QED
  BY <1>1, <1>5, <1>6, <1>7, <1>8, <1>9, <1>10

\* What the end of a rewrite leaves.
LEMMA CloseLeaves ==
    ASSUME OneConnection, Kept, NEW t \in Threads, Close(t)
    PROVE  /\ pc[t] = "close" /\ stmt[t] \in Statement
           /\ stmt' = stmt /\ result' = result /\ currentDb' = currentDb /\ dirs' = dirs
           /\ pc'[t] = IF stmt[t].op = "dropDatabase" THEN "compareDb" ELSE "respond"
           /\ Ready(t) /\ Destination(t) \in Paths
           /\ \A p \in Paths : Content(p)' = IF p = Destination(t) THEN Intended(t) ELSE Content(p)
<1>1. TypedAndFit
  BY DEF Kept, KindsKept
<1>2. pc[t] = "close" /\ stmt[t] \in Statement
  BY DEF Close, At, Kept, Routed
<1>3. stmt' = stmt /\ result' = result /\ currentDb' = currentDb /\ dirs' = dirs
  BY DEF Close, CloseStream, threadVars
<1>4. pc'[t] = IF stmt[t].op = "dropDatabase" THEN "compareDb" ELSE "respond"
  BY <1>1, Went DEF Close
<1>5. /\ Ready(t) /\ stream[t].linked
      /\ stream[t].path = Destination(t) /\ stream[t].content = Intended(t)
  BY <1>2 DEF Kept, RefInv, Checked
<1>6. Destination(t) \in Paths
  BY <1>1, <1>5 DEF TypedAndFit, TypeOK, StorageTypeOK, Stream
<1>7. \A p \in Paths : Content(p)' = IF p = Destination(t) THEN Intended(t) ELSE Content(p)
  <2>1. \A p \in Paths : Content(p)' = IF p = stream[t].path THEN stream[t].content ELSE Content(p)
    BY <1>1, <1>5, ContentSteps DEF Step
  <2> QED
    BY <1>5, <2>1
<1> QED
  BY <1>2, <1>3, <1>4, <1>5, <1>6, <1>7

LEMMA RemoveLeaves ==
    ASSUME OneConnection, Kept, NEW t \in Threads, RemoveDirectory(t)
    PROVE  /\ pc[t] = "rmdir" /\ pc'[t] = "listDatabases"
           /\ stmt[t].op = "dropDatabase" /\ stmt[t].db \in Dbs
           /\ stmt' = stmt /\ result' = result /\ currentDb' = currentDb
           /\ dirs' = dirs \ {stmt[t].db}
           /\ \A p \in Paths : Content(p)' = IF p[1] = stmt[t].db THEN Absent ELSE Content(p)
           /\ Content(catalogPath)' = Content(catalogPath)
<1>1. TypedAndFit
  BY DEF Kept, KindsKept
<1>2. pc[t] = "rmdir" /\ pc'[t] = "listDatabases"
  BY <1>1, Went DEF RemoveDirectory, At
<1>3. stmt[t].op = "dropDatabase" /\ stmt[t].db \in Dbs
  BY <1>1, <1>2, AtStep DEF Kept, Routed
<1>4. /\ stmt' = stmt /\ result' = result /\ currentDb' = currentDb
      /\ dirs' = dirs \ {stmt[t].db}
  BY DEF RemoveDirectory, remove_all, threadVars
<1>5. \A p \in Paths : Content(p)' = IF p[1] = stmt[t].db THEN Absent ELSE Content(p)
  BY <1>1, ContentSteps DEF Step
<1>6. catalogPath \in Paths /\ catalogPath[1] # stmt[t].db
  BY <1>1, <1>3, PromisedPaths, NamesAssumption DEF catalogPath
<1> QED
  BY <1>2, <1>3, <1>4, <1>5, <1>6 DEF catalogPath

-----------------------------------------------------------------------------
(* The databases clients are promised.                                     *)

DropLabels == {"listDatabases", "open", "close", "compareDb", "resetDb"}

LEMMA DropSteps ==
    ASSUME TypedAndFit, NEW t \in Threads, Receive(t) \/ Step(t)
    PROVE  /\ pc[t] \in DropLabels =>
                \/ ListDatabases(t) \/ Open(t) \/ Flush(t) \/ Close(t)
                \/ CompareDatabase(t) \/ ResetDatabase(t)
           /\ pc'[t] \in DropLabels =>
                \/ MakeDirectory(t) \/ RemoveDirectory(t) \/ ListDatabases(t) \/ LoadSchema(t)
                \/ Rows(t) \/ Open(t) \/ Flush(t) \/ Close(t) \/ CompareDatabase(t)
<1>1. pc[t] \in DropLabels =>
        \/ ListDatabases(t) \/ Open(t) \/ Flush(t) \/ Close(t)
        \/ CompareDatabase(t) \/ ResetDatabase(t)
  BY DEF DropLabels, Step, Receive, Respond, DatabaseExists, MakeDirectory, RemoveDirectory,
         SetCurrentDatabase, RequireDb, TableExists, LoadSchema, RequireTable, Rows, At
<1> QED
  BY <1>1, ControlFlow DEF DropLabels

\* Which steps move a statement in or out of the end of DROP DATABASE.
LEMMA DroppingSteps ==
    ASSUME OneConnection, "schema" \notin Tables, Kept, NEW t \in Threads, Receive(t) \/ Step(t)
    PROVE  /\ RemoveDirectory(t) => ~ Dropping(t) /\ Dropping(t)'
           /\ CompareDatabase(t) =>
                /\ Dropping(t) /\ (Dropping(t)' <=> pc'[t] = "resetDb")
                /\ pc'[t] = IF currentDb = stmt[t].db THEN "resetDb" ELSE "respond"
           /\ ResetDatabase(t) => Dropping(t) /\ ~ Dropping(t)'
           /\ \/ RemoveDirectory(t) \/ CompareDatabase(t) \/ ResetDatabase(t)
              \/ Dropping(t)' <=> Dropping(t)
           /\ stmt' = stmt \/ ~ (Dropping(t) \/ Dropping(t)')
<1> USE DEF DropLabels
<1>1. TypedAndFit
  BY DEF Kept, KindsKept
<1>2. ASSUME RemoveDirectory(t)
      PROVE  ~ Dropping(t) /\ Dropping(t)' /\ stmt' = stmt
  BY <1>2, RemoveLeaves DEF Dropping
<1>3. ASSUME CompareDatabase(t)
      PROVE  /\ Dropping(t) /\ (Dropping(t)' <=> pc'[t] = "resetDb")
             /\ pc'[t] = IF currentDb = stmt[t].db THEN "resetDb" ELSE "respond"
             /\ stmt' = stmt
  <2>1. pc[t] = "compareDb" /\ stmt' = stmt /\ stmt[t].op = "dropDatabase"
    BY <1>3 DEF CompareDatabase, At, threadVars, Kept, Routed
  <2>2. pc'[t] = IF currentDb = stmt[t].db THEN "resetDb" ELSE "respond"
    BY <1>1, <1>3, Went DEF CompareDatabase
  <2> QED
    BY <2>1, <2>2 DEF Dropping
<1>4. ASSUME ResetDatabase(t)
      PROVE  Dropping(t) /\ ~ Dropping(t)' /\ stmt' = stmt
  <2>1. pc[t] = "resetDb" /\ stmt' = stmt /\ stmt[t].op = "dropDatabase"
    BY <1>4 DEF ResetDatabase, At, threadVars, Kept, Routed
  <2>2. pc'[t] = "respond"
    BY <1>1, <1>4, Went DEF ResetDatabase
  <2> QED
    BY <2>1, <2>2 DEF Dropping
<1>5. ASSUME MakeDirectory(t)
      PROVE  ~ Dropping(t) /\ ~ Dropping(t)'
  BY <1>5 DEF MakeDirectory, At, threadVars, Kept, Routed, Dropping
<1>6. ASSUME LoadSchema(t) \/ Rows(t)
      PROVE  ~ Dropping(t) /\ ~ Dropping(t)'
  <2>1. stmt' = stmt /\ stmt[t].op \in TableOps \cup RowOps
    BY <1>1, <1>6, AtStep DEF LoadSchema, Rows, At
  <2> QED
    BY <2>1 DEF Dropping, TableOps, RowOps
<1>7. ASSUME ListDatabases(t)
      PROVE  (Dropping(t)' <=> Dropping(t)) /\ stmt' = stmt
  <2>1. pc[t] = "listDatabases" /\ stmt' = stmt
    BY <1>7 DEF ListDatabases, At
  <2>2. pc'[t] = "open"
    <3>1. ~ CatalogBroken
      BY <2>1, Reads
    <3>2. \E path, content : Prepare(t, path, content, Success)
      BY <1>7, <3>1 DEF ListDatabases
    <3> QED
      BY <1>1, <3>2, Prepared
  <2> QED
    BY <2>1, <2>2 DEF Dropping
<1>8. ASSUME Open(t) \/ Flush(t)
      PROVE  (Dropping(t)' <=> Dropping(t)) /\ stmt' = stmt
  <2>1. pc[t] \in {"open", "close"} /\ pc'[t] = "close" /\ stmt' = stmt
    BY <1>1, <1>8, Went DEF Open, Flush, At, threadVars
  <2> QED
    BY <2>1 DEF Dropping
<1>9. ASSUME Close(t)
      PROVE  (Dropping(t)' <=> Dropping(t)) /\ stmt' = stmt
  BY <1>9, CloseLeaves DEF Dropping
<1>10. ASSUME ~ (\/ MakeDirectory(t) \/ RemoveDirectory(t) \/ ListDatabases(t) \/ LoadSchema(t)
                 \/ Rows(t) \/ Open(t) \/ Flush(t) \/ Close(t) \/ CompareDatabase(t)
                 \/ ResetDatabase(t))
       PROVE  ~ Dropping(t) /\ ~ Dropping(t)'
  <2>1. pc[t] \notin DropLabels /\ pc'[t] \notin DropLabels
    BY <1>1, <1>10, DropSteps
  <2> QED
    BY <2>1 DEF Dropping
<1>11. \/ RemoveDirectory(t) \/ CompareDatabase(t) \/ ResetDatabase(t)
       \/ Dropping(t)' <=> Dropping(t)
  BY <1>5, <1>6, <1>7, <1>8, <1>9, <1>10
<1>12. stmt' = stmt \/ ~ (Dropping(t) \/ Dropping(t)')
  BY <1>2, <1>3, <1>4, <1>5, <1>6, <1>7, <1>8, <1>9, <1>10, CloseLeaves
<1> QED
  BY <1>2, <1>3, <1>4, <1>11, <1>12

\* The names of a listing, with one more or one less.
NamesIn(names) == {names[i] : i \in DOMAIN names}

LEMMA NamesMoreOrLess ==
    ASSUME NEW E, NEW names \in Seq(E), NEW x \in E
    PROVE  /\ NamesIn(Append(names, x)) = NamesIn(names) \cup {x}
           /\ NamesIn(Without(names, x)) = NamesIn(names) \ {x}
<1>1. NamesIn(Append(names, x)) = NamesIn(names) \cup {x}
  <2>1. PICK n, a : n = Len(names) /\ a = Append(names, x)
    OBVIOUS
  <2>2. /\ DOMAIN a = 1 .. n + 1 /\ DOMAIN names = 1 .. n /\ n \in Nat /\ a[n + 1] = x
        /\ \A i \in 1 .. n : a[i] = names[i]
    BY <2>1
  <2>3. \A i \in 1 .. n + 1 : i \in 1 .. n \/ i = n + 1
    BY <2>2
  <2>4. 1 .. n \subseteq 1 .. n + 1 /\ n + 1 \in 1 .. n + 1
    BY <2>2
  <2>5. ASSUME NEW y
        PROVE  y \in NamesIn(a) <=> y \in NamesIn(names) \/ y = x
    BY <2>2, <2>3, <2>4 DEF NamesIn
  <2> QED
    BY <2>1, <2>5
<1>2. NamesIn(Without(names, x)) = NamesIn(names) \ {x}
  <2>1. PICK S, k : S = {i \in DOMAIN names : names[i] # x} /\ k = Keep(names, S)
    OBVIOUS
  <2>2. S \subseteq DOMAIN names
    BY <2>1
  <2>3. \A j \in DOMAIN k : Nth(S, j) \in S /\ k[j] = names[Nth(S, j)]
    BY <2>1, <2>2, KeepType
  <2>4. \A i \in S : \E j \in DOMAIN k : k[j] = names[i]
    <3> TAKE i \in S
    <3>1. \E j \in DOMAIN Keep(names, S) : Nth(S, j) = i /\ Keep(names, S)[j] = names[i]
      BY <2>2, KeepAll
    <3> QED
      BY <2>1, <3>1
  <2>5. ASSUME NEW y
        PROVE  y \in NamesIn(k) <=> y \in NamesIn(names) /\ y # x
    <3>1. y \in NamesIn(k) => y \in NamesIn(names) /\ y # x
      <4> SUFFICES ASSUME NEW j \in DOMAIN k, k[j] = y
                   PROVE  y \in NamesIn(names) /\ y # x
        BY DEF NamesIn
      <4>1. PICK i : i = Nth(S, j)
        OBVIOUS
      <4>2. i \in S /\ y = names[i]
        BY <2>3, <4>1
      <4> QED
        BY <2>1, <4>2 DEF NamesIn
    <3>2. y \in NamesIn(names) /\ y # x => y \in NamesIn(k)
      <4> SUFFICES ASSUME NEW i \in DOMAIN names, names[i] = y, y # x
                   PROVE  y \in NamesIn(k)
        BY DEF NamesIn
      <4>1. i \in S
        BY <2>1
      <4> QED
        BY <2>4, <4>1 DEF NamesIn
    <3> QED
      BY <3>1, <3>2
  <2>6. Without(names, x) = k
    BY <2>1 DEF Without
  <2> QED
    BY <2>5, <2>6
<1> QED
  BY <1>1, <1>2

LEMMA ContentType ==
    ASSUME OneConnection, TypedAndFit, NEW t \in Threads, NEW p \in Paths
    PROVE  Content(p) \in File
<1>1. files[p] \in File /\ stream[t].base \in File
  BY DEF TypedAndFit, TypeOK, StorageTypeOK, Stream
<1> QED
  BY <1>1, ContentOf

\* What a statement on databases or tables lists instead.
LEMMA IntendedNames ==
    ASSUME OneConnection, TypedAndFit, NEW t \in Threads, stmt[t] \in Statement,
           Destination(t) \in Paths
    PROVE  /\ stmt[t].op = "createDatabase" =>
                NamesIn(Intended(t).names) = Listed(Destination(t)) \cup {stmt[t].db}
           /\ stmt[t].op = "dropDatabase" =>
                NamesIn(Intended(t).names) = Listed(Destination(t)) \ {stmt[t].db}
           /\ stmt[t].op = "createTable" =>
                NamesIn(Intended(t).names) = Listed(Destination(t)) \cup {stmt[t].table}
           /\ stmt[t].op = "dropTable" =>
                NamesIn(Intended(t).names) = Listed(Destination(t)) \ {stmt[t].table}
<1>1. PICK names : names = Content(Destination(t)).names
  OBVIOUS
<1>2. names \in Seq(Name) /\ Listed(Destination(t)) = NamesIn(names)
  <2>1. Content(Destination(t)) \in File
    BY ContentType
  <2> QED
    BY <1>1, <2>1 DEF File, Listed, NamesIn
<1>3. /\ stmt[t].op \in DbOps => stmt[t].db \in Name
      /\ stmt[t].op \in TableOps => stmt[t].table \in Name
  BY StatementFields, NamesAssumption
<1>4. /\ stmt[t].op = "createDatabase" => Intended(t).names = Append(names, stmt[t].db)
      /\ stmt[t].op = "dropDatabase" => Intended(t).names = Without(names, stmt[t].db)
      /\ stmt[t].op = "createTable" => Intended(t).names = Append(names, stmt[t].table)
      /\ stmt[t].op = "dropTable" => Intended(t).names = Without(names, stmt[t].table)
  BY <1>1, NamesOfFiles DEF Intended
<1>5. \A x \in Name : /\ NamesIn(Append(names, x)) = NamesIn(names) \cup {x}
                      /\ NamesIn(Without(names, x)) = NamesIn(names) \ {x}
  BY <1>2, NamesMoreOrLess
<1> QED
  BY <1>2, <1>3, <1>4, <1>5 DEF DbOps, TableOps

LEMMA DbsSteps ==
    ASSUME OneConnection, "schema" \notin Tables, Kept, NEW t \in Threads, Receive(t) \/ Step(t)
    PROVE  /\ RemoveDirectory(t) => absDbs' = absDbs \ {stmt[t].db}
           /\ Close(t) /\ stmt[t].op = "createDatabase" => absDbs' = absDbs \cup {stmt[t].db}
           /\ \/ RemoveDirectory(t)
              \/ Close(t) /\ stmt[t].op = "createDatabase"
              \/ absDbs' = absDbs
<1>1. /\ TypedAndFit /\ catalogPath \in Paths
      /\ \A d : Dropped(d) <=> Dropping(t) /\ stmt[t].db = d
      /\ \A d : Dropped(d)' <=> Dropping(t)' /\ stmt'[t].db = d
  BY PromisedPaths, DroppedBy DEF Kept, KindsKept
<1>2. ASSUME RemoveDirectory(t)
      PROVE  absDbs' = absDbs \ {stmt[t].db}
  <2>1. ~ Dropping(t) /\ Dropping(t)' /\ stmt' = stmt
    BY <1>2, DroppingSteps, RemoveLeaves
  <2>2. Listed(catalogPath)' = Listed(catalogPath)
    BY <1>2, RemoveLeaves, SameListing DEF Listed, catalogPath
  <2> QED
    BY <1>1, <2>1, <2>2 DEF absDbs
<1>3. ASSUME Close(t)
      PROVE  IF stmt[t].op = "createDatabase" THEN absDbs' = absDbs \cup {stmt[t].db}
             ELSE absDbs' = absDbs
  <2>1. /\ stmt' = stmt /\ stmt[t] \in Statement /\ Ready(t) /\ pc[t] = "close"
        /\ Destination(t) \in Paths
        /\ Content(catalogPath)' = IF catalogPath = Destination(t) THEN Intended(t)
                                   ELSE Content(catalogPath)
    BY <1>1, <1>3, CloseLeaves DEF catalogPath
  <2>2. Dropping(t)' <=> Dropping(t)
    <3>1. ~ RemoveDirectory(t) /\ ~ CompareDatabase(t) /\ ~ ResetDatabase(t)
      BY <1>3 DEF Close, RemoveDirectory, CompareDatabase, ResetDatabase, At
    <3> QED
      BY <3>1, DroppingSteps
  <2>3. catalogPath = Destination(t) <=> stmt[t].op \in DbOps
    <3>1. stmt[t].op \notin DbOps => currentDb # NoDb
      BY <2>1 DEF Ready, Allowed
    <3> QED
      BY <3>1 DEF Destination, catalogPath, schemaPath, tablePath
  <2>4. Listed(catalogPath)' = IF catalogPath = Destination(t) THEN NamesIn(Intended(t).names)
                               ELSE Listed(catalogPath)
    BY <2>1 DEF Listed, NamesIn, catalogPath
  <2>5. stmt[t].op \in DbOps => stmt[t].op \in {"createDatabase", "dropDatabase"}
    BY <2>1 DEF Ready, Allowed, DbOps
  <2>6. CASE stmt[t].op = "createDatabase"
    <3>1. ~ Dropping(t)
      BY <2>6 DEF Dropping
    <3>2. Listed(catalogPath)' = Listed(catalogPath) \cup {stmt[t].db}
      BY <1>1, <2>1, <2>3, <2>4, <2>6, IntendedNames DEF DbOps
    <3> QED
      BY <1>1, <2>1, <2>2, <2>6, <3>1, <3>2 DEF absDbs
  <2>7. CASE stmt[t].op = "dropDatabase"
    <3>1. Dropping(t)
      BY <2>1, <2>7 DEF Dropping
    <3>2. Listed(catalogPath)' = Listed(catalogPath) \ {stmt[t].db}
      BY <1>1, <2>1, <2>3, <2>4, <2>7, IntendedNames DEF DbOps
    <3> QED
      BY <1>1, <2>1, <2>2, <2>7, <3>1, <3>2 DEF absDbs
  <2>8. CASE stmt[t].op \notin DbOps
    <3>1. Listed(catalogPath)' = Listed(catalogPath)
      BY <2>3, <2>4, <2>8
    <3> QED
      BY <1>1, <2>1, <2>2, <2>8, <3>1 DEF absDbs, DbOps
  <2> QED
    BY <2>5, <2>6, <2>7, <2>8
<1>4. ASSUME ~ RemoveDirectory(t), ~ Close(t)
      PROVE  absDbs' = absDbs
  <2>1. Content(catalogPath)' = Content(catalogPath)
    BY <1>1, <1>4, ContentSteps DEF SameContent, catalogPath
  <2>2. Listed(catalogPath)' = Listed(catalogPath)
    BY <2>1 DEF Listed, catalogPath
  <2>3. CASE CompareDatabase(t) \/ ResetDatabase(t)
    <3>1. pc[t] \in {"compareDb", "resetDb"}
      BY <2>3 DEF CompareDatabase, ResetDatabase, At
    <3>2. stmt[t].db \notin Listed(catalogPath)
      BY <3>1 DEF Kept, RefInv, Checked
    <3>3. stmt' = stmt
      BY <2>3 DEF CompareDatabase, ResetDatabase, threadVars
    <3> QED
      BY <1>1, <2>2, <3>2, <3>3 DEF absDbs
  <2>4. CASE ~ (CompareDatabase(t) \/ ResetDatabase(t))
    <3>1. (Dropping(t)' <=> Dropping(t)) /\ (stmt' = stmt \/ ~ Dropping(t))
      BY <1>4, <2>4, DroppingSteps
    <3> QED
      BY <1>1, <2>2, <3>1 DEF absDbs
  <2> QED
    BY <2>3, <2>4
<1> QED
  BY <1>2, <1>3, <1>4

-----------------------------------------------------------------------------
(* The invariant is inductive: files, directories and the current database.*)

LEMMA NothingTornStep ==
    ASSUME OneConnection, Kept, NEW t \in Threads, Receive(t) \/ Step(t)
    PROVE  NothingTorn'
<1>1. TypedAndFit /\ NothingTorn
  BY DEF Kept, KindsKept, RefInv
<1>2. Intended(t).magic # "empty"
  BY DEF Intended, CatalogFile, SchemaFile, Rewrite, TableData, Absent
<1>3. ASSUME NEW p \in Paths
      PROVE  Content(p)'.magic # "empty"
  <2>1. Content(p)' = Content(p) \/ Content(p)' = Absent \/ Content(p)' = Intended(t)
    <3>1. CASE RemoveDirectory(t)
      BY <3>1, RemoveLeaves
    <3>2. CASE Close(t)
      BY <3>2, CloseLeaves
    <3>3. CASE ~ (RemoveDirectory(t) \/ Close(t))
      BY <1>1, <3>3, ContentSteps DEF SameContent
    <3> QED
      BY <3>1, <3>2, <3>3
  <2> QED
    BY <1>1, <1>2, <2>1 DEF NothingTorn, Absent
<1> QED
  BY <1>3 DEF NothingTorn

LEMMA HomesStep ==
    ASSUME OneConnection, "schema" \notin Tables, Kept, NEW t \in Threads, Receive(t) \/ Step(t)
    PROVE  DatabasesHaveHomes'
<1>1. TypedAndFit /\ absDbs \subseteq dirs
  BY DEF Kept, KindsKept, RefInv, DatabasesHaveHomes
<1>2. CASE RemoveDirectory(t)
  <2>1. absDbs' = absDbs \ {stmt[t].db}
    BY <1>2, DbsSteps
  <2>2. dirs' = dirs \ {stmt[t].db}
    BY <1>2, RemoveLeaves
  <2> QED
    BY <1>1, <2>1, <2>2 DEF DatabasesHaveHomes
<1>3. CASE Close(t) /\ stmt[t].op = "createDatabase"
  <2>1. absDbs' = absDbs \cup {stmt[t].db}
    BY <1>3, DbsSteps
  <2>2. dirs' = dirs /\ stmt[t].db \in dirs
    BY <1>3, CloseLeaves DEF Ready, Allowed
  <2> QED
    BY <1>1, <2>1, <2>2 DEF DatabasesHaveHomes
<1>4. CASE ~ (RemoveDirectory(t) \/ (Close(t) /\ stmt[t].op = "createDatabase"))
  <2>1. absDbs' = absDbs
    BY <1>4, DbsSteps
  <2>2. dirs' = dirs \/ dirs' = dirs \cup {stmt[t].db}
    BY <1>4, WhatChanges DEF MakeDirectory, create_directories
  <2> QED
    BY <1>1, <2>1, <2>2 DEF DatabasesHaveHomes
<1> QED
  BY <1>2, <1>3, <1>4

LEMMA CurrentHomeStep ==
    ASSUME OneConnection, "schema" \notin Tables, Kept, NEW t \in Threads, Receive(t) \/ Step(t)
    PROVE  CurrentIsHome'
<1>1. /\ CurrentIsHome
      /\ \A d : Dropped(d) <=> Dropping(t) /\ stmt[t].db = d
      /\ \A d : Dropped(d)' <=> Dropping(t)' /\ stmt'[t].db = d
  BY DroppedBy DEF Kept, RefInv
<1>2. CASE SetCurrentDatabase(t)
  <2>1. pc[t] = "setDb" /\ currentDb' = stmt[t].db
    BY <1>2 DEF SetCurrentDatabase, At
  <2>2. stmt[t].db \in absDbs
    BY <2>1 DEF Kept, RefInv, Checked
  <2>3. ~ RemoveDirectory(t) /\ ~ Close(t)
    BY <2>1 DEF RemoveDirectory, Close, At
  <2>4. absDbs' = absDbs
    BY <2>3, DbsSteps
  <2> QED
    BY <2>1, <2>2, <2>4 DEF CurrentIsHome
<1>3. CASE ResetDatabase(t)
  BY <1>3 DEF ResetDatabase, CurrentIsHome
<1>4. CASE ~ (SetCurrentDatabase(t) \/ ResetDatabase(t))
  <2>1. currentDb' = currentDb
    BY <1>4, WhatChanges
  <2> SUFFICES ASSUME currentDb # NoDb
               PROVE  currentDb \in absDbs' \/ Dropped(currentDb)'
    BY <2>1 DEF CurrentIsHome, Dropped
  <2>2. PICK cur : cur = currentDb
    OBVIOUS
  <2>3. cur \in absDbs \/ (Dropping(t) /\ stmt[t].db = cur)
    BY <1>1, <2>2 DEF CurrentIsHome
  <2>4. cur \in absDbs' \/ (Dropping(t)' /\ stmt'[t].db = cur)
    <3>1. CASE RemoveDirectory(t)
      <4>1. absDbs' = absDbs \ {stmt[t].db} /\ ~ Dropping(t) /\ Dropping(t)' /\ stmt' = stmt
        BY <3>1, DbsSteps, DroppingSteps, RemoveLeaves
      <4> QED
        BY <2>3, <4>1
    <3>2. CASE ~ RemoveDirectory(t) /\ cur \in absDbs
      <4>1. absDbs \subseteq absDbs'
        BY <3>2, DbsSteps
      <4> QED
        BY <3>2, <4>1
    <3>3. CASE ~ RemoveDirectory(t) /\ Dropping(t) /\ stmt[t].db = cur
      <4>1. Dropping(t)' /\ stmt' = stmt
        BY <1>4, <2>2, <3>3, DroppingSteps
      <4> QED
        BY <3>3, <4>1
    <3> QED
      BY <2>3, <3>1, <3>2, <3>3
  <2> QED
    BY <1>1, <2>1, <2>2, <2>4 DEF Dropped
<1> QED
  BY <1>2, <1>3, <1>4

-----------------------------------------------------------------------------
(* The invariant is inductive: the checks of a statement.                  *)

\* A step that changes no content changes nothing of what was checked.
LEMMA StatementStays ==
    ASSUME OneConnection, TypedAndFit, NEW t \in Threads, stmt[t] \in Statement,
           SameContent, currentDb' = currentDb, stmt' = stmt
    PROVE  /\ Destination(t) \in Paths
           /\ Destination(t)' = Destination(t) /\ Found(t)' = Found(t)
           /\ Intended(t)' = Intended(t) /\ Outcome(t)' = Outcome(t)
           /\ Listed(schemaPath(currentDb))' = Listed(schemaPath(currentDb))
           /\ absDbs' = absDbs /\ dirs' = dirs => (Allowed(t)' <=> Allowed(t))
<1>1. schemaPath(currentDb) \in Paths /\ catalogPath \in Paths /\ currentDb \in Dirs
  BY PromisedPaths DEF TypedAndFit, TypeOK
<1>2. Destination(t) \in Paths
  <2>1. stmt[t].op \notin DbOps \cup TableOps => stmt[t].table \in Tables
    BY StatementFields
  <2> QED
    BY <1>1, <2>1 DEF Destination, tablePath, Paths
<1>3. Destination(t)' = Destination(t)
  BY DEF Destination, catalogPath, schemaPath, tablePath
<1>4. Content(Destination(t))' = Content(Destination(t))
  <2>1. PICK p \in Paths : p = Destination(t)
    BY <1>2
  <2>2. Content(p)' = Content(p)
    BY DEF SameContent
  <2>3. Content(Destination(t))' = Content(p)'
    BY <1>3, <2>1 DEF Content
  <2> QED
    BY <2>1, <2>2, <2>3
<1>5. Content(schemaPath(currentDb))' = Content(schemaPath(currentDb))
  <2>1. PICK p \in Paths : p = schemaPath(currentDb)
    BY <1>1
  <2>2. Content(p)' = Content(p)
    BY DEF SameContent
  <2>3. Content(schemaPath(currentDb))' = Content(p)'
    BY <2>1 DEF Content, schemaPath
  <2> QED
    BY <2>1, <2>2, <2>3
<1>6. Found(t)' = Found(t)
  BY <1>4 DEF Found
<1>7. Intended(t)' = Intended(t)
  BY <1>4, <1>6 DEF Intended
<1>8. Outcome(t)' = Outcome(t)
  BY <1>6 DEF Outcome, Success, NoResult
<1>9. Listed(schemaPath(currentDb))' = Listed(schemaPath(currentDb))
  BY <1>5 DEF Listed
<1>10. absDbs' = absDbs /\ dirs' = dirs => (Allowed(t)' <=> Allowed(t))
  BY <1>6, <1>9 DEF Allowed
<1> QED
  BY <1>2, <1>3, <1>6, <1>7, <1>8, <1>9, <1>10

\* Which steps leave the files, or the promised databases, as they are.
LEMMA QuietSteps ==
    ASSUME OneConnection, "schema" \notin Tables, Kept, NEW t \in Threads, Receive(t) \/ Step(t),
           pc[t] # "rmdir", pc[t] # "close"
    PROVE  SameContent /\ absDbs' = absDbs
<1>1. ~ RemoveDirectory(t) /\ ~ Close(t)
  BY DEF RemoveDirectory, Close, At
<1>2. TypedAndFit
  BY DEF Kept, KindsKept
<1> QED
  BY <1>1, <1>2, ContentSteps, DbsSteps

LEMMA ExistsChecked ==
    ASSUME OneConnection, "schema" \notin Tables, Kept, NEW t \in Threads, Receive(t) \/ Step(t)
    PROVE  /\ pc'[t] = "mkdir" => stmt'[t].db \notin absDbs'
           /\ pc'[t] \in {"rmdir", "setDb"} => stmt'[t].db \in absDbs'
<1> SUFFICES ASSUME pc'[t] \in {"mkdir", "rmdir", "setDb"}
             PROVE  /\ pc'[t] = "mkdir" => stmt'[t].db \notin absDbs'
                    /\ pc'[t] \in {"rmdir", "setDb"} => stmt'[t].db \in absDbs'
  OBVIOUS
<1>1. TypedAndFit /\ Routed
  BY DEF Kept, KindsKept
<1>2. DatabaseExists(t)
  BY <1>1, ControlFlow
<1>3. pc[t] = "databaseExists" /\ stmt' = stmt /\ ~ Fail(t) /\ ~ Dropping(t)
  BY <1>1, <1>2, Answered DEF DatabaseExists, Fail, At, Dropping
<1>4. pc'[t] = "mkdir" <=> stmt[t].op = "createDatabase"
  <2>1. stmt[t].op \in DbOps
    BY <1>1, <1>3, AtStep
  <2>2. Goto(t, CASE stmt[t].op = "createDatabase" -> "mkdir"
                  [] stmt[t].op = "dropDatabase"   -> "rmdir"
                  [] stmt[t].op = "use"            -> "setDb")
    BY <1>2, <1>3 DEF DatabaseExists
  <2> QED
    BY <1>1, <2>1, <2>2, Went DEF DbOps
<1>5. databaseExists(stmt[t].db) <=> stmt[t].op # "createDatabase"
  BY <1>2, <1>3 DEF DatabaseExists
<1>6. stmt[t].db \in absDbs <=> stmt[t].op # "createDatabase"
  <2>1. \A d : ~ Dropped(d)
    BY <1>3, DroppedBy
  <2>2. databaseExists(stmt[t].db) <=> stmt[t].db \in Listed(catalogPath)
    BY <1>3, Reads
  <2> QED
    BY <1>5, <2>1, <2>2 DEF absDbs
<1>7. absDbs' = absDbs
  BY <1>3, QuietSteps
<1> QED
  BY <1>3, <1>4, <1>6, <1>7

LEMMA ListsChecked ==
    ASSUME OneConnection, "schema" \notin Tables, Kept, NEW t \in Threads, Receive(t) \/ Step(t),
           pc'[t] = "listDatabases", stmt'[t].op = "createDatabase"
    PROVE  stmt'[t].db \notin absDbs' /\ stmt'[t].db \in dirs'
<1>1. TypedAndFit
  BY DEF Kept, KindsKept
<1>2. MakeDirectory(t)
  <2>1. RemoveDirectory(t) => stmt' = stmt /\ stmt[t].op = "dropDatabase"
    BY RemoveLeaves
  <2> QED
    BY <1>1, <2>1, ControlFlow
<1>3. pc[t] = "mkdir" /\ stmt' = stmt /\ dirs' = dirs \cup {stmt[t].db}
  BY <1>2 DEF MakeDirectory, create_directories, threadVars, At
<1>4. stmt[t].db \notin absDbs
  BY <1>3 DEF Kept, RefInv, Checked
<1> QED
  BY <1>3, <1>4, QuietSteps

LEMMA SchemaChecked ==
    ASSUME OneConnection, "schema" \notin Tables, Kept, NEW t \in Threads, Receive(t) \/ Step(t),
           pc'[t] = "loadSchema", stmt'[t].op = "createTable"
    PROVE  stmt'[t].table \notin Listed(schemaPath(currentDb))'
<1>1. TypedAndFit
  BY DEF Kept, KindsKept
<1>2. TableExists(t)
  <2>1. RequireDb(t) => stmt' = stmt
    BY DEF RequireDb
  <2>2. RequireDb(t) /\ stmt[t].op = "createTable" => Fail(t) \/ Goto(t, "tableExists")
    BY DEF RequireDb
  <2> QED
    BY <1>1, <2>1, <2>2, ControlFlow, Went, Answered DEF Fail
<1>3. /\ pc[t] = "tableExists" /\ stmt' = stmt /\ currentDb' = currentDb
      /\ ~ tableExists(currentDb, stmt[t].table)
  BY <1>1, <1>2, Answered DEF TableExists, Fail, At
<1>4. stmt[t].table \notin Listed(schemaPath(currentDb)) /\ stmt[t] \in Statement
  BY <1>1, <1>3, Reads, AtStep
<1>5. SameContent
  BY <1>3, QuietSteps
<1> QED
  BY <1>1, <1>3, <1>4, <1>5, StatementStays

\* A listing is ready to be written.
LEMMA ListingReady ==
    ASSUME OneConnection, "schema" \notin Tables, Kept, NEW t \in Threads,
           ListDatabases(t) \/ LoadSchema(t), pc'[t] = "open"
    PROVE  /\ Allowed(t) /\ result'[t] = Outcome(t)
           /\ TargetPath(t)' = Destination(t) /\ work'[t].content = Intended(t)
<1>1. /\ TypedAndFit /\ Routed /\ Seen
      /\ stmt' = stmt /\ currentDb' = currentDb
  BY DEF Kept, KindsKept, ListDatabases, LoadSchema
<1>2. CASE ListDatabases(t)
  <2>1. pc[t] = "listDatabases" /\ ~ Fail(t)
    BY <1>1, <1>2, Answered DEF ListDatabases, At, Fail
  <2>2. stmt[t].op \in {"createDatabase", "dropDatabase"}
    BY <1>1, <2>1, AtStep DEF Routed, DbOps
  <2>3. stmt[t].op = "createDatabase" => stmt[t].db \notin absDbs /\ stmt[t].db \in dirs
    BY <2>1 DEF Kept, RefInv, Checked
  <2>4. Allowed(t) /\ Outcome(t) = Success /\ Destination(t) = catalogPath
    BY <2>2, <2>3 DEF Allowed, Outcome, Destination, DbOps, RowOps
  <2>5. PICK content : /\ Prepare(t, catalogPath, content, Success)
                       /\ content = CatalogFile(IF stmt[t].op = "createDatabase"
                                                THEN Append(listDatabases, stmt[t].db)
                                                ELSE Without(listDatabases, stmt[t].db))
    BY <1>2, <2>1 DEF ListDatabases
  <2>6. result'[t] = Success /\ work'[t].path = catalogPath /\ work'[t].content = content
    BY <1>1, <2>5, Prepared
  <2>7. content = Intended(t)
    BY <2>1, <2>2, <2>4, <2>5, Reads DEF Intended
  <2>8. TargetPath(t)' = work'[t].path
    BY <1>1, <2>2 DEF TargetPath
  <2> QED
    BY <2>4, <2>6, <2>7, <2>8
<1>3. CASE LoadSchema(t)
  <2>1. pc[t] = "loadSchema" /\ ~ Fail(t)
    BY <1>1, <1>3, Answered DEF LoadSchema, At, Fail
  <2>2. stmt[t].op \in TableOps /\ currentDb # NoDb
    BY <1>1, <2>1, AtStep DEF Seen
  <2>3. /\ stmt[t].op = "createTable" => stmt[t].table \notin Listed(schemaPath(currentDb))
        /\ stmt[t].op = "dropTable" => stmt[t].table \in Listed(schemaPath(currentDb))
    <3>1. stmt[t].op = "dropTable" => tableExists(currentDb, stmt[t].table)
      BY <1>3, <2>1 DEF LoadSchema
    <3>2. stmt[t].op = "dropTable" => stmt[t].table \in Listed(schemaPath(currentDb))
      BY <2>1, <3>1, Reads
    <3> QED
      BY <2>1, <3>2 DEF Kept, RefInv, Checked
  <2>4. Allowed(t) /\ Outcome(t) = Success /\ Destination(t) = schemaPath(currentDb)
    BY <2>2, <2>3 DEF Allowed, Outcome, Destination, DbOps, TableOps, RowOps
  <2>5. PICK content :
          /\ Prepare(t, schemaPath(currentDb), content, Success)
          /\ content = SchemaFile(IF stmt[t].op = "createTable"
                                  THEN Append(loadSchema(currentDb), stmt[t].table)
                                  ELSE Without(loadSchema(currentDb), stmt[t].table))
    BY <1>3, <2>1 DEF LoadSchema
  <2>6. result'[t] = Success /\ work'[t].content = content
    BY <1>1, <2>5, Prepared
  <2>7. content = Intended(t)
    BY <2>1, <2>2, <2>4, <2>5, Reads DEF Intended, TableOps
  <2>8. TargetPath(t)' = schemaPath(currentDb)
    BY <1>1, <2>2 DEF TargetPath, schemaPath, TableOps
  <2> QED
    BY <2>4, <2>6, <2>7, <2>8
<1> QED
  BY <1>2, <1>3

\* What a thread about to run a statement on rows reads.
LEMMA AtRows ==
    ASSUME OneConnection, "schema" \notin Tables, Kept, NEW t \in Threads, pc[t] = "rows"
    PROVE  LET path == tablePath(currentDb, stmt[t].table)
               recs == recordsOf(path, stmt[t].table)
           IN  /\ stmt[t] \in Statement /\ stmt[t].op \in RowOps /\ stmt[t].table \in Tables
               /\ currentDb # NoDb /\ currentDb \in Dbs /\ WellFormed(stmt[t])
               /\ stmt[t].table \in Listed(schemaPath(currentDb))
               /\ path = Destination(t) /\ path \in Paths /\ ~ TableBroken(path)
               /\ files[path] = Content(Destination(t))
               /\ recs = Found(t) /\ recs \in Seq(Record)
<1>1. TypedAndFit /\ Seen
  BY DEF Kept, KindsKept
<1>2. /\ stmt[t] \in Statement /\ stmt[t].op \in RowOps /\ stmt[t].table \in Tables
      /\ WellFormed(stmt[t]) /\ tablePath(currentDb, stmt[t].table) \in Paths
      /\ recordsOf(tablePath(currentDb, stmt[t].table), stmt[t].table) \in Seq(Record)
  BY <1>1, RowsRead
<1>3. currentDb # NoDb /\ currentDb \in Dbs /\ tableExists(currentDb, stmt[t].table)
  BY <1>1 DEF Seen, TypedAndFit, TypeOK, Dirs
<1>4. stmt[t].table \in Listed(schemaPath(currentDb)) /\ ~ TableBroken(tablePath(currentDb, stmt[t].table))
  BY <1>2, <1>3, Reads
<1>5. tablePath(currentDb, stmt[t].table) = Destination(t)
  BY <1>2 DEF Destination, DbOps, TableOps, RowOps
<1>6. \A p : files[p] = Content(p)
  BY Reads
<1>7. files[tablePath(currentDb, stmt[t].table)] = Content(Destination(t))
  BY <1>5, <1>6
<1>8. recordsOf(tablePath(currentDb, stmt[t].table), stmt[t].table) = Found(t)
  BY <1>7 DEF recordsOf, Found
<1> QED
  BY <1>2, <1>3, <1>4, <1>5, <1>7, <1>8

\* The rows of a table are ready to be written.
LEMMA RewriteReady ==
    ASSUME OneConnection, "schema" \notin Tables, Kept, NEW t \in Threads,
           Rows(t), pc'[t] = "open"
    PROVE  /\ Allowed(t) /\ result'[t] = Outcome(t)
           /\ work'[t].path = Destination(t) /\ work'[t].content = Intended(t)
<1> DEFINE s    == stmt[t]
           path == tablePath(currentDb, s.table)
           recs == recordsOf(path, s.table)
<1>1. TypedAndFit
  BY DEF Kept, KindsKept
<1>2. pc[t] = "rows" /\ ~ \E r : Answer(t, r)
  BY <1>1, Answered DEF Rows, At
<1>3. /\ s \in Statement /\ s.op \in RowOps /\ currentDb # NoDb /\ WellFormed(s)
      /\ s.table \in Listed(schemaPath(currentDb)) /\ path = Destination(t) /\ recs = Found(t)
  BY <1>2, AtRows
<1>4. /\ s.op # "select" /\ ~ PredicateThrows(s, recs)
      /\ Prepare(t, path, Rewrite(NewRecords(s, recs), Columns[s.table]),
                 IF WriteThrows(NewRecords(s, recs), Columns[s.table]) THEN NoResult
                 ELSE [Success EXCEPT !.affected = RowsAffected(s, recs)])
  BY <1>2 DEF Rows, SelectRows, ChangeRows, Fail, NewRecords, Hits, RowsAffected
<1>5. /\ result'[t] = (IF WriteThrows(NewRecords(s, recs), Columns[s.table]) THEN NoResult
                       ELSE [Success EXCEPT !.affected = RowsAffected(s, recs)])
      /\ work'[t].path = path
      /\ work'[t].content = Rewrite(NewRecords(s, recs), Columns[s.table])
  BY <1>1, <1>4, Prepared
<1> HIDE DEF path, recs
<1>6. Outcome(t) = IF WriteThrows(NewRecords(s, recs), Columns[s.table]) THEN NoResult
                   ELSE [Success EXCEPT !.affected = RowsAffected(s, recs)]
  BY <1>3 DEF Outcome
<1>7. Intended(t) = Rewrite(NewRecords(s, recs), Columns[s.table])
  BY <1>3 DEF Intended, RowOps
<1>8. Allowed(t)
  BY <1>3, <1>4 DEF Allowed, RowOps, DbOps, TableOps
<1> QED
  BY <1>3, <1>5, <1>6, <1>7, <1>8

LEMMA OpenChecked ==
    ASSUME OneConnection, "schema" \notin Tables, Kept, NEW t \in Threads, Receive(t) \/ Step(t),
           pc'[t] = "open"
    PROVE  Ready(t)' /\ TargetPath(t)' = Destination(t)' /\ work'[t].content = Intended(t)'
<1>1. TypedAndFit
  BY DEF Kept, KindsKept
<1>2. ListDatabases(t) \/ LoadSchema(t) \/ Rows(t)
  BY <1>1, ControlFlow
<1>3. /\ pc[t] \in {"listDatabases", "loadSchema", "rows"}
      /\ stmt' = stmt /\ currentDb' = currentDb /\ dirs' = dirs
  BY <1>2 DEF ListDatabases, LoadSchema, Rows, At, storageVars
<1>4. stmt[t] \in Statement /\ SameContent /\ absDbs' = absDbs
  BY <1>1, <1>3, QuietSteps, AtStep
<1>5. /\ Destination(t)' = Destination(t) /\ Intended(t)' = Intended(t)
      /\ Outcome(t)' = Outcome(t) /\ (Allowed(t)' <=> Allowed(t))
  BY <1>1, <1>3, <1>4, StatementStays
<1>6. CASE ListDatabases(t) \/ LoadSchema(t)
  <2>1. /\ Allowed(t) /\ result'[t] = Outcome(t)
        /\ TargetPath(t)' = Destination(t) /\ work'[t].content = Intended(t)
    BY <1>6, ListingReady
  <2> QED
    BY <1>5, <2>1 DEF Ready
<1>7. CASE Rows(t)
  <2>1. /\ Allowed(t) /\ result'[t] = Outcome(t)
        /\ work'[t].path = Destination(t) /\ work'[t].content = Intended(t)
    BY <1>7, RewriteReady
  <2>2. stmt[t].op \in RowOps
    BY <1>7, AtRows DEF Rows, At
  <2>3. TargetPath(t)' = work'[t].path
    BY <1>3, <2>2 DEF TargetPath, RowOps
  <2> QED
    BY <1>5, <2>1, <2>3 DEF Ready
<1> QED
  BY <1>2, <1>6, <1>7

LEMMA CloseChecked ==
    ASSUME OneConnection, "schema" \notin Tables, Kept, NEW t \in Threads, Receive(t) \/ Step(t),
           pc'[t] = "close"
    PROVE  /\ Ready(t)' /\ stream'[t].linked
           /\ stream'[t].path = Destination(t)' /\ stream'[t].content = Intended(t)'
<1>1. TypedAndFit /\ Routed /\ RootExists /\ stream \in [Threads -> Stream]
  BY DEF Kept, KindsKept, TypedAndFit, TypeOK, StorageTypeOK
<1>2. Open(t) \/ Flush(t)
  BY <1>1, ControlFlow
<1>3. /\ pc[t] \in {"open", "close"} /\ stmt' = stmt /\ currentDb' = currentDb /\ dirs' = dirs
      /\ result' = result
  BY <1>2 DEF Open, Flush, OpenTrunc, FlushStream, At, threadVars
<1>4. stmt[t] \in Statement /\ ~ RemoveDirectory(t) /\ ~ Close(t)
  <2>1. ~ Close(t)
    <3>1. Close(t) => pc'[t] \in {"compareDb", "respond"}
      BY <1>1, Went DEF Close
    <3> QED
      BY <3>1
  <2> QED
    BY <1>1, <1>3, <2>1 DEF Routed, RemoveDirectory, At
<1>5. SameContent /\ absDbs' = absDbs
  BY <1>1, <1>4, ContentSteps, DbsSteps
<1>6. /\ Destination(t)' = Destination(t) /\ Intended(t)' = Intended(t)
      /\ Outcome(t)' = Outcome(t) /\ (Allowed(t)' <=> Allowed(t))
  BY <1>1, <1>3, <1>4, <1>5, StatementStays
<1>7. Ready(t)
  BY <1>3 DEF Kept, RefInv, Checked
<1>8. Ready(t)'
  BY <1>3, <1>6, <1>7 DEF Ready
<1>9. CASE Open(t)
  <2>1. pc[t] = "open"
    BY <1>9 DEF Open, At
  <2>2. TargetPath(t) = Destination(t) /\ work[t].content = Intended(t)
    BY <2>1 DEF Kept, RefInv, Checked
  <2>3. PICK q : q = TargetPath(t)
    OBVIOUS
  <2>4. /\ stream'[t].path = q /\ stream'[t].content = work[t].content
        /\ q[1] \in dirs => stream'[t].linked
    BY <1>1, <1>9, <2>3 DEF Open, OpenTrunc
  <2>5. q[1] \in dirs
    <3>1. stmt[t].op \in DbOps => q = catalogPath
      BY <2>2, <2>3 DEF Destination
    <3>2. stmt[t].op \notin DbOps => q[1] = currentDb /\ currentDb # NoDb
      BY <1>7, <2>2, <2>3 DEF Ready, Allowed, Destination, schemaPath, tablePath
    <3>3. stmt[t].op \notin DbOps => currentDb \in dirs
      <4> SUFFICES ASSUME stmt[t].op \notin DbOps
                   PROVE  currentDb \in dirs
        OBVIOUS
      <4>1. ~ Dropping(t)
        BY DEF Dropping, DbOps
      <4>2. ~ Dropped(currentDb)
        BY <4>1, OnlyThread DEF Dropped
      <4> QED
        BY <3>2, <4>2 DEF Kept, RefInv, CurrentIsHome, DatabasesHaveHomes
    <3> QED
      BY <1>1, <3>1, <3>2, <3>3 DEF RootExists, catalogPath
  <2> QED
    BY <1>6, <1>8, <2>2, <2>3, <2>4, <2>5
<1>10. CASE Flush(t)
  <2>1. pc[t] = "close" /\ stream' = stream
    BY <1>10 DEF Flush, FlushStream, At
  <2>2. /\ stream[t].linked
        /\ stream[t].path = Destination(t) /\ stream[t].content = Intended(t)
    BY <2>1 DEF Kept, RefInv, Checked
  <2> QED
    BY <1>6, <1>8, <2>1, <2>2
<1> QED
  BY <1>2, <1>9, <1>10

LEMMA DropChecked ==
    ASSUME OneConnection, "schema" \notin Tables, Kept, NEW t \in Threads, Receive(t) \/ Step(t)
    PROVE  /\ pc'[t] \in {"compareDb", "resetDb"} =>
                result'[t] = Success /\ stmt'[t].db \notin Listed(catalogPath)'
           /\ pc'[t] = "resetDb" => currentDb' = stmt'[t].db
<1>1. TypedAndFit /\ Routed
  BY DEF Kept, KindsKept
<1>2. ASSUME pc'[t] = "compareDb"
      PROVE  result'[t] = Success /\ stmt'[t].db \notin Listed(catalogPath)'
  <2>1. Close(t)
    BY <1>1, <1>2, ControlFlow
  <2>2. /\ stmt' = stmt /\ result' = result /\ stmt[t] \in Statement /\ Ready(t)
        /\ stmt[t].op = "dropDatabase" /\ Destination(t) \in Paths
        /\ \A p \in Paths : Content(p)' = IF p = Destination(t) THEN Intended(t) ELSE Content(p)
    BY <1>2, <2>1, CloseLeaves
  <2>3. Destination(t) = catalogPath /\ Outcome(t) = Success
    BY <2>2 DEF Destination, Outcome, DbOps, RowOps
  <2>4. NamesIn(Intended(t).names) = Listed(catalogPath) \ {stmt[t].db}
    BY <1>1, <2>2, <2>3, IntendedNames
  <2>5. Content(catalogPath)' = Intended(t)
    BY <2>2, <2>3 DEF catalogPath
  <2>6. Listed(catalogPath)' = NamesIn(Intended(t).names)
    BY <2>5 DEF Listed, NamesIn, catalogPath
  <2> QED
    BY <2>2, <2>3, <2>4, <2>6 DEF Ready
<1>3. ASSUME pc'[t] = "resetDb"
      PROVE  /\ result'[t] = Success /\ stmt'[t].db \notin Listed(catalogPath)'
             /\ currentDb' = stmt'[t].db
  <2>1. CompareDatabase(t)
    BY <1>1, <1>3, ControlFlow
  <2>2. pc[t] = "compareDb" /\ stmt' = stmt /\ result' = result /\ currentDb' = currentDb
    BY <2>1 DEF CompareDatabase, At, threadVars
  <2>3. currentDb = stmt[t].db
    BY <1>3, <2>1, DroppingSteps
  <2>4. SameContent /\ catalogPath \in Paths
    BY <1>1, <2>2, QuietSteps, PromisedPaths
  <2>5. Listed(catalogPath)' = Listed(catalogPath)
    BY <2>4 DEF SameContent, Listed, catalogPath
  <2> QED
    BY <2>2, <2>3, <2>5 DEF Kept, RefInv, Checked
<1> QED
  BY <1>2, <1>3

LEMMA CheckedStep ==
    ASSUME OneConnection, "schema" \notin Tables, Kept, NEW t \in Threads, Receive(t) \/ Step(t)
    PROVE  Checked'
<1>1. TypedAndFit
  BY DEF Kept, KindsKept
<1>2. pc'[t] = "idle" => stmt'[t] = NoStatement
  <2>1. Respond(t) => stmt'[t] = NoStatement
    BY <1>1 DEF Respond, TypedAndFit, TypeOK
  <2> QED
    BY <1>1, <2>1, ControlFlow
<1>3. /\ pc'[t] = "mkdir" => stmt'[t].db \notin absDbs'
      /\ pc'[t] \in {"rmdir", "setDb"} => stmt'[t].db \in absDbs'
  BY ExistsChecked
<1>4. pc'[t] = "listDatabases" /\ stmt'[t].op = "createDatabase" =>
        stmt'[t].db \notin absDbs' /\ stmt'[t].db \in dirs'
  BY ListsChecked
<1>5. pc'[t] = "loadSchema" /\ stmt'[t].op = "createTable" =>
        stmt'[t].table \notin Listed(schemaPath(currentDb))'
  BY SchemaChecked
<1>6. pc'[t] = "open" =>
        Ready(t)' /\ TargetPath(t)' = Destination(t)' /\ work'[t].content = Intended(t)'
  BY OpenChecked
<1>7. pc'[t] = "close" =>
        /\ Ready(t)' /\ stream'[t].linked
        /\ stream'[t].path = Destination(t)' /\ stream'[t].content = Intended(t)'
  BY CloseChecked
<1>8. /\ pc'[t] \in {"compareDb", "resetDb"} =>
           result'[t] = Success /\ stmt'[t].db \notin Listed(catalogPath)'
      /\ pc'[t] = "resetDb" => currentDb' = stmt'[t].db
  BY DropChecked
<1>9. pc'[t] = "tableExists" => stmt'[t].op = "createTable"
  <2> SUFFICES ASSUME pc'[t] = "tableExists"
               PROVE  stmt'[t].op = "createTable"
    OBVIOUS
  <2>1. RequireDb(t)
    BY <1>1, ControlFlow
  <2>2. stmt[t].op # "createTable" => Fail(t) \/ Goto(t, "loadSchema") \/ Goto(t, "requireTable")
    BY <2>1 DEF RequireDb
  <2>3. stmt[t].op # "createTable" => pc'[t] \in {"respond", "loadSchema", "requireTable"}
    BY <1>1, <2>2, Went, Answered DEF Fail
  <2> QED
    BY <2>1, <2>3 DEF RequireDb
<1>10. Threads = {t}
  BY OnlyThread
<1> QED
  BY <1>2, <1>3, <1>4, <1>5, <1>6, <1>7, <1>8, <1>9, <1>10
     DEF Checked, Success, NoResult, NoStatement, catalogPath, schemaPath, Listed

\* Between statements clients are promised what is in the files.
LEMMA AllIdle ==
    ASSUME \A t \in Threads : pc[t] = "idle"
    PROVE  /\ \A p : Content(p) = files[p]
           /\ \A d : ~ Dropped(d)
           /\ absDbs = Listed(catalogPath) /\ absCur = currentDb
<1>1. \A p : Content(p) = files[p]
  BY DEF Content, At
<1>2. \A d : ~ Dropped(d)
  BY DEF Dropped, Dropping
<1> QED
  BY <1>1, <1>2 DEF absDbs, absCur

LEMMA NextAllIdle ==
    ASSUME \A t \in Threads : pc'[t] = "idle"
    PROVE  /\ \A p : Content(p)' = files'[p]
           /\ \A d : ~ Dropped(d)'
           /\ absDbs' = Listed(catalogPath)' /\ absCur' = currentDb'
<1>1. \A p : Content(p)' = files'[p]
  BY DEF Content, At
<1>2. \A d : ~ Dropped(d)'
  BY DEF Dropped, Dropping
<1> QED
  BY <1>1, <1>2 DEF absDbs, absCur

LEMMA InitListed ==
    ASSUME Init
    PROVE  /\ Listed(catalogPath) = NamesIn(Installed)
           /\ \A d \in Dbs : Listed(schemaPath(d)) =
                IF d \in NamesIn(Installed) THEN NamesIn(InstalledTables) ELSE {}
           /\ \A p \in Paths : files[p].magic # "empty" /\ files[p].total = 0
<1>1. \A p : Content(p) = files[p]
  BY AllIdle DEF Init
<1>2. \A p \in Paths : files[p] = IF p = catalogPath /\ Installed # << >> THEN CatalogFile(Installed)
                                  ELSE IF p[2] = "schema" /\ InstalledTables # << >>
                                          /\ p[1] \in NamesIn(Installed)
                                  THEN SchemaFile(InstalledTables) ELSE Absent
  BY DEF Init, StorageInit, NamesIn
<1>3. /\ catalogPath \in Paths /\ catalogPath[2] # "schema"
      /\ \A d \in Dbs : /\ schemaPath(d) \in Paths /\ schemaPath(d) # catalogPath
                        /\ schemaPath(d)[1] = d /\ schemaPath(d)[2] = "schema"
  BY DEF Paths, Dirs, catalogPath, schemaPath
<1>4. NamesIn(<< >>) = {} /\ \A p : Listed(p) = NamesIn(files[p].names)
  BY <1>1 DEF NamesIn, Listed
<1>5. Listed(catalogPath) = NamesIn(Installed)
  <2>1. files[catalogPath].names = Installed
    BY <1>2, <1>3, NamesOfFiles
  <2> QED
    BY <1>4, <2>1
<1>6. ASSUME NEW d \in Dbs
      PROVE  Listed(schemaPath(d)) =
               IF d \in NamesIn(Installed) THEN NamesIn(InstalledTables) ELSE {}
  <2>1. files[schemaPath(d)].names = IF d \in NamesIn(Installed) THEN InstalledTables ELSE << >>
    BY <1>2, <1>3, NamesOfFiles
  <2> QED
    BY <1>4, <2>1
<1>7. ASSUME NEW p \in Paths
      PROVE  files[p].magic # "empty" /\ files[p].total = 0
  <2>1. \/ files[p] = CatalogFile(Installed) \/ files[p] = SchemaFile(InstalledTables)
        \/ files[p] = Absent
    BY <1>2
  <2>2. /\ CatalogFile(Installed).magic = "catalog" /\ CatalogFile(Installed).total = 0
        /\ SchemaFile(InstalledTables).magic = "schema" /\ SchemaFile(InstalledTables).total = 0
        /\ Absent.magic = "absent" /\ Absent.total = 0
    BY DEF CatalogFile, SchemaFile, Absent
  <2>3. \A f : (f = CatalogFile(Installed) \/ f = SchemaFile(InstalledTables) \/ f = Absent) =>
            f.magic # "empty" /\ f.total = 0
    BY <2>2
  <2> QED
    BY <2>1, <2>3
<1> QED
  BY <1>5, <1>6, <1>7

LEMMA InitKept == Init => Kept
<1> SUFFICES ASSUME Init
             PROVE  Kept
  OBVIOUS
<1>1. \A t \in Threads : pc[t] = "idle" /\ stmt[t] = NoStatement
  BY DEF Init
<1>2. absDbs = NamesIn(Installed) /\ NothingTorn
  BY <1>1, AllIdle, InitListed DEF NothingTorn
<1>3. dirs = NamesIn(Installed) \cup {NoDb} /\ currentDb = NoDb
  BY DEF Init, StorageInit, NamesIn
<1>4. RefInv /\ RootExists
  BY <1>1, <1>2, <1>3 DEF RefInv, DatabasesHaveHomes, CurrentIsHome, Checked, RootExists
<1> QED
  BY <1>4, InitKinds, InitSound, RoutedInit DEF Kept

LEMMA RestartKept ==
    ASSUME ~ CrashAllowed, Kept, Restart
    PROVE  RefInv' /\ RootExists'
<1>1. /\ \A t \in Threads : pc[t] = "idle" /\ pc'[t] = "idle" /\ stmt'[t] = NoStatement
      /\ files' = files /\ dirs' = dirs /\ currentDb' = NoDb
  BY DEF Restart, LoseStreams, At
<1>2. \A p : Content(p)' = Content(p)
  BY <1>1, AllIdle, NextAllIdle
<1>3. absDbs' = absDbs
  <2>1. Listed(catalogPath)' = Listed(catalogPath)
    BY <1>2 DEF Listed, catalogPath
  <2> QED
    BY <1>1, <2>1, AllIdle, NextAllIdle
<1>4. NothingTorn'
  BY <1>2 DEF Kept, RefInv, NothingTorn
<1>5. Checked'
  BY <1>1 DEF Checked
<1>6. DatabasesHaveHomes' /\ CurrentIsHome' /\ RootExists'
  BY <1>1, <1>3 DEF Kept, RefInv, DatabasesHaveHomes, CurrentIsHome, RootExists
<1> QED
  BY <1>4, <1>5, <1>6 DEF RefInv

LEMMA StutterKept ==
    ASSUME Kept, UNCHANGED vars
    PROVE  RefInv' /\ RootExists'
<1> USE DEF vars
<1>1. \A p : Content(p)' = Content(p)
  BY DEF Content, At
<1>2. absDbs' = absDbs /\ Listed(catalogPath)' = Listed(catalogPath)
  BY <1>1 DEF absDbs, Listed, Dropped, Dropping, catalogPath
<1>3. NothingTorn' /\ DatabasesHaveHomes' /\ CurrentIsHome' /\ RootExists'
  BY <1>1, <1>2 DEF Kept, RefInv, NothingTorn, DatabasesHaveHomes, CurrentIsHome, RootExists,
                    Dropped, Dropping
<1>4. ASSUME NEW t \in Threads
      PROVE  /\ Content(Destination(t))' = Content(Destination(t))
             /\ Content(schemaPath(currentDb))' = Content(schemaPath(currentDb))
             /\ Destination(t)' = Destination(t) /\ TargetPath(t)' = TargetPath(t)
  BY DEF Content, At, Destination, TargetPath, schemaPath, tablePath, catalogPath
<1>5. ASSUME NEW t \in Threads
      PROVE  /\ Found(t)' = Found(t) /\ Intended(t)' = Intended(t) /\ Outcome(t)' = Outcome(t)
             /\ Listed(schemaPath(currentDb))' = Listed(schemaPath(currentDb))
  BY <1>4 DEF Found, Intended, Outcome, Listed, Success, NoResult
<1>6. ASSUME NEW t \in Threads
      PROVE  Ready(t)' <=> Ready(t)
  BY <1>2, <1>5 DEF Ready, Allowed
<1>7. Checked'
  BY <1>2, <1>4, <1>5, <1>6
     DEF Kept, RefInv, Checked, Success, NoResult, NoStatement
<1> QED
  BY <1>3, <1>7 DEF RefInv

LEMMA NextKept ==
    ASSUME OneConnection, ~ CrashAllowed, "schema" \notin Tables, Kept, [Next]_vars
    PROVE  Kept'
<1>1. KindsKept' /\ Routed' /\ Sound'
  BY NextKinds, NextRouted, NextSound DEF Kept, KindsKept
<1>2. ASSUME NEW t \in Threads, Receive(t) \/ Step(t)
      PROVE  RefInv' /\ RootExists'
  <2>1. NothingTorn' /\ DatabasesHaveHomes' /\ CurrentIsHome' /\ Checked'
    BY <1>2, NothingTornStep, HomesStep, CurrentHomeStep, CheckedStep
  <2>2. RootExists'
    BY <1>2, RootStep DEF Kept, KindsKept
  <2> QED
    BY <2>1, <2>2 DEF RefInv
<1> QED
  BY <1>1, <1>2, RestartKept, StutterKept DEF Kept, Next

-----------------------------------------------------------------------------
(* Steps: what the promise says of each.                                   *)

Stays == absDbs' = absDbs /\ absTabs' = absTabs /\ absRows' = absRows /\ absCur' = absCur

Silent == UNCHANGED Promise!relVars

LEMMA SilentIs ==
    ASSUME OneConnection, NEW t \in Threads, Stays, CallOf(t)' = CallOf(t)
    PROVE  Silent
BY CallsAre DEF Silent, Stays, Promise!relVars

LEMMA StoreStays ==
    ASSUME OneConnection, TypedAndFit, NEW t \in Threads,
           SameContent, absDbs' = absDbs, currentDb' = currentDb,
           Dropping(t)' <=> Dropping(t), stmt'[t].db = stmt[t].db \/ ~ Dropping(t)
    PROVE  Stays
<1>1. absTabs' = absTabs /\ absRows' = absRows
  BY PromisedPaths, SameTables, SameRows DEF SameContent
<1>2. absCur' = absCur
  BY SameCurrent
<1> QED
  BY <1>1, <1>2 DEF Stays

\* A statement is more than none.
LEMMA NotIdle ==
    ASSUME NEW s \in Statement
    PROVE  Begun(s) # Promise!Idle
<1>1. s.op # "none"
  BY StatementFields DEF DbOps, TableOps, RowOps
<1>2. s # NoStatement
  BY <1>1 DEF NoStatement
<1>3. Promise!Idle = Begun(NoStatement)
  BY CallRecords
<1>4. Begun(s).stmt = s /\ Begun(NoStatement).stmt = NoStatement
  BY DEF Begun
<1> QED
  BY <1>2, <1>3, <1>4

LEMMA ReceiveStep ==
    ASSUME OneConnection, "schema" \notin Tables, Kept, NEW t \in Threads, Receive(t)
    PROVE  Promise!Call(t)
<1>1. TypedAndFit
  BY DEF Kept, KindsKept
<1>2. PICK s \in Workload[t] : stmt' = [stmt EXCEPT ![t] = s] /\ Goto(t, FirstStep(s.op))
  BY DEF Receive
<1>3. pc[t] = "idle" /\ stmt[t] = NoStatement /\ currentDb' = currentDb
  BY DEF Receive, At, Kept, RefInv, Checked
<1>4. pc'[t] \in {"databaseExists", "requireDb"} /\ stmt'[t] = s
  <2>1. FirstStep(s.op) \in {"databaseExists", "requireDb"}
    BY DEF FirstStep
  <2> QED
    BY <1>1, <1>2, <2>1, Went DEF TypedAndFit, TypeOK
<1>5. ~ Dropping(t) /\ ~ Dropping(t)' /\ Waiting(t)'
  BY <1>3, <1>4 DEF Dropping, Waiting
<1>6. Stays
  BY <1>1, <1>3, <1>5, QuietSteps, StoreStays
<1>7. CallOf(t) = Promise!Idle /\ CallOf(t)' = Begun(s)
  BY <1>3, <1>4, <1>5, Phases, NextPhases
<1>8. absCall[t] = Promise!Idle /\ absCall' = [absCall EXCEPT ![t] = Begun(s)]
  BY <1>7, CallsAre
<1>9. Begun(s) = [Promise!Idle EXCEPT !.stmt = s]
  BY CallRecords
<1> QED
  BY <1>6, <1>8, <1>9 DEF Promise!Call, Stays

LEMMA RespondStep ==
    ASSUME OneConnection, "schema" \notin Tables, Kept, NEW t \in Threads, Respond(t)
    PROVE  Promise!Return(t)
<1>1. TypedAndFit
  BY DEF Kept, KindsKept
<1>2. /\ pc[t] = "respond" /\ pc'[t] = "idle" /\ stmt'[t] = NoStatement
      /\ currentDb' = currentDb
  BY <1>1, Went DEF Respond, At, TypedAndFit, TypeOK
<1>3. ~ Dropping(t) /\ ~ Dropping(t)'
  BY <1>2 DEF Dropping
<1>4. Stays
  BY <1>1, <1>2, <1>3, QuietSteps, StoreStays DEF Step
<1>5. CallOf(t) = Ended(stmt[t], result[t]) /\ CallOf(t)' = Promise!Idle
  BY <1>2, Phases, NextPhases
<1>6. absCall[t] = Ended(stmt[t], result[t]) /\ absCall' = [absCall EXCEPT ![t] = Promise!Idle]
  BY <1>5, CallsAre
<1>7. absCall[t].done
  BY <1>6 DEF Ended
<1> QED
  BY <1>4, <1>6, <1>7 DEF Promise!Return, Stays

\* A statement on its way, or already done, goes on.
LEMMA OnItsWay ==
    ASSUME OneConnection, NEW t \in Threads, Waiting(t), Waiting(t)', Stays, stmt' = stmt
    PROVE  Silent
<1>1. CallOf(t) = Begun(stmt[t]) /\ CallOf(t)' = Begun(stmt[t])
  BY Phases, NextPhases
<1> QED
  BY <1>1, SilentIs

\* The statement has its effect in this step.
LEMMA EffectIs ==
    ASSUME OneConnection, NEW t \in Threads, Waiting(t), stmt[t] \in Statement, stmt' = stmt,
           NEW r, (pc'[t] = "respond" /\ result'[t] = r) \/ (Dropping(t)' /\ r = Success)
    PROVE  /\ absCall[t].stmt = stmt[t] /\ absCall[t] # Promise!Idle /\ ~ absCall[t].done
           /\ Promise!Done(t, r)
<1>1. CallOf(t) = Begun(stmt[t]) /\ CallOf(t)' = Ended(stmt[t], r)
  BY Phases, NextPhases
<1>2. absCall[t] = Begun(stmt[t])
  BY <1>1, CallsAre
<1>3. Promise!Done(t, r)
  BY <1>1, DoneIs
<1>4. absCall[t] # Promise!Idle
  BY <1>2, NotIdle
<1>5. absCall[t].stmt = stmt[t] /\ ~ absCall[t].done
  BY <1>2 DEF Begun
<1> QED
  BY <1>3, <1>4, <1>5

LEMMA RefusalIs ==
    ASSUME OneConnection, NEW t \in Threads, Waiting(t), stmt[t] \in Statement,
           TypedAndFit, Fail(t), stmt' = stmt, Stays, Promise!Refused(stmt[t])
    PROVE  Promise!Effect(t)
<1>1. pc'[t] = "respond" /\ result'[t] = NoResult
  BY Answered DEF Fail
<1>2. /\ absCall[t].stmt = stmt[t] /\ absCall[t] # Promise!Idle /\ ~ absCall[t].done
      /\ Promise!Done(t, NoResult)
  BY <1>1, EffectIs
<1>3. Promise!Refusal = NoResult
  BY CallRecords
<1> QED
  BY <1>2, <1>3 DEF Promise!Effect, Stays

\* What is looked at is what is promised.
LEMMA Promised ==
    ASSUME OneConnection, "schema" \notin Tables, Kept, NEW t \in Threads, ~ Dropping(t)
    PROVE  /\ absCur = currentDb /\ absDbs = Listed(catalogPath)
           /\ \A tb \in Tables : currentDb # NoDb =>
                (tb \in absTabs[absCur] <=> tb \in Listed(schemaPath(currentDb)))
<1>1. \A d : ~ Dropped(d)
  BY DroppedBy
<1>2. absCur = currentDb /\ absDbs = Listed(catalogPath)
  BY <1>1 DEF absCur, absDbs
<1>3. ASSUME NEW tb \in Tables, currentDb # NoDb
      PROVE  tb \in absTabs[absCur] <=> tb \in Listed(schemaPath(currentDb))
  <2>1. PICK d : d = currentDb
    OBVIOUS
  <2>2. d \in Dbs
    BY <1>3, <2>1 DEF Kept, KindsKept, TypedAndFit, TypeOK, Dirs
  <2>3. absTabs[d] = Listed(schemaPath(d)) \cap Tables
    BY <2>2 DEF absTabs
  <2> QED
    BY <1>2, <2>1, <2>3
<1> QED
  BY <1>2, <1>3

LEMMA DatabaseExistsStep ==
    ASSUME OneConnection, "schema" \notin Tables, Kept, NEW t \in Threads, DatabaseExists(t)
    PROVE  Silent \/ Promise!Effect(t)
<1>1. TypedAndFit
  BY DEF Kept, KindsKept
<1>2. pc[t] = "databaseExists" /\ stmt' = stmt /\ currentDb' = currentDb /\ ~ Dropping(t)
  BY DEF DatabaseExists, At, Dropping
<1>3. stmt[t] \in Statement /\ stmt[t].op \in DbOps /\ Waiting(t)
  BY <1>1, <1>2, AtStep DEF Waiting
<1>4. /\ ~ CatalogBroken /\ absDbs = Listed(catalogPath)
      /\ databaseExists(stmt[t].db) <=> stmt[t].db \in Listed(catalogPath)
  BY <1>2, Reads, Promised
<1>5. \/ Fail(t) /\ ~ (stmt[t].db \in absDbs <=> stmt[t].op # "createDatabase")
      \/ Goto(t, "mkdir") \/ Goto(t, "rmdir") \/ Goto(t, "setDb")
  BY <1>3, <1>4 DEF DatabaseExists, DbOps
<1>6. ~ Dropping(t)' /\ pc'[t] \in {"respond", "mkdir", "rmdir", "setDb"}
  <2>1. pc'[t] \in {"respond", "mkdir", "rmdir", "setDb"}
    BY <1>1, <1>5, Went, Answered DEF Fail
  <2> QED
    BY <2>1 DEF Dropping
<1>7. Stays
  BY <1>1, <1>2, <1>6, QuietSteps, StoreStays DEF Step
<1>8. CASE Fail(t) /\ ~ (stmt[t].db \in absDbs <=> stmt[t].op # "createDatabase")
  <2>1. Promise!Refused(stmt[t])
    BY <1>3, <1>8 DEF Promise!Refused, DbOps
  <2> QED
    BY <1>1, <1>2, <1>3, <1>7, <1>8, <2>1, RefusalIs
<1>9. CASE Goto(t, "mkdir") \/ Goto(t, "rmdir") \/ Goto(t, "setDb")
  <2>1. pc'[t] \in {"mkdir", "rmdir", "setDb"}
    BY <1>1, <1>9, Went
  <2>2. Waiting(t)'
    BY <1>6, <2>1 DEF Waiting
  <2> QED
    BY <1>2, <1>3, <1>7, <2>2, OnItsWay
<1> QED
  BY <1>5, <1>8, <1>9

LEMMA RequireDbStep ==
    ASSUME OneConnection, "schema" \notin Tables, Kept, NEW t \in Threads, RequireDb(t)
    PROVE  Silent \/ Promise!Effect(t)
<1>1. TypedAndFit
  BY DEF Kept, KindsKept
<1>2. pc[t] = "requireDb" /\ stmt' = stmt /\ currentDb' = currentDb /\ ~ Dropping(t)
  BY DEF RequireDb, At, Dropping
<1>3. stmt[t] \in Statement /\ stmt[t].op \in TableOps \cup RowOps /\ Waiting(t)
  BY <1>1, <1>2, AtStep DEF Waiting
<1>4. absCur = currentDb
  BY <1>2, Promised
<1>5. \/ Fail(t) /\ currentDb = NoDb
      \/ Goto(t, "tableExists") \/ Goto(t, "loadSchema") \/ Goto(t, "requireTable")
  BY DEF RequireDb
<1>6. ~ Dropping(t)' /\ pc'[t] \in {"respond", "tableExists", "loadSchema", "requireTable"}
  <2>1. pc'[t] \in {"respond", "tableExists", "loadSchema", "requireTable"}
    BY <1>1, <1>5, Went, Answered DEF Fail
  <2> QED
    BY <2>1 DEF Dropping
<1>7. Stays
  BY <1>1, <1>2, <1>6, QuietSteps, StoreStays DEF Step
<1>8. CASE Fail(t) /\ currentDb = NoDb
  <2>1. Promise!Refused(stmt[t])
    BY <1>3, <1>4, <1>8 DEF Promise!Refused, TableOps, RowOps
  <2> QED
    BY <1>1, <1>2, <1>3, <1>7, <1>8, <2>1, RefusalIs
<1>9. CASE Goto(t, "tableExists") \/ Goto(t, "loadSchema") \/ Goto(t, "requireTable")
  <2>1. pc'[t] \in {"tableExists", "loadSchema", "requireTable"}
    BY <1>1, <1>9, Went
  <2>2. Waiting(t)'
    BY <1>6, <2>1 DEF Waiting
  <2> QED
    BY <1>2, <1>3, <1>7, <2>2, OnItsWay
<1> QED
  BY <1>5, <1>8, <1>9

LEMMA TableExistsStep ==
    ASSUME OneConnection, "schema" \notin Tables, Kept, NEW t \in Threads, TableExists(t)
    PROVE  Silent \/ Promise!Effect(t)
<1>1. TypedAndFit /\ Seen
  BY DEF Kept, KindsKept
<1>2. pc[t] = "tableExists" /\ stmt' = stmt /\ currentDb' = currentDb /\ ~ Dropping(t)
  BY DEF TableExists, At, Dropping
<1>3. /\ stmt[t] \in Statement /\ stmt[t].op \in TableOps /\ stmt[t].table \in Tables
      /\ Waiting(t) /\ currentDb # NoDb
  BY <1>1, <1>2, AtStep DEF Waiting, Seen
<1>4. /\ ~ SchemaBroken(currentDb)
      /\ tableExists(currentDb, stmt[t].table) <=> stmt[t].table \in absTabs[absCur]
  BY <1>2, <1>3, Reads, Promised
<1>5. (Fail(t) /\ stmt[t].table \in absTabs[absCur]) \/ Goto(t, "loadSchema")
  BY <1>4 DEF TableExists
<1>6. ~ Dropping(t)' /\ (Goto(t, "loadSchema") => pc'[t] = "loadSchema")
  <2>1. pc'[t] \in {"respond", "loadSchema"} /\ (Goto(t, "loadSchema") => pc'[t] = "loadSchema")
    BY <1>1, <1>5, Went, Answered DEF Fail
  <2> QED
    BY <2>1 DEF Dropping
<1>7. Stays
  BY <1>1, <1>2, <1>6, QuietSteps, StoreStays DEF Step
<1>8. CASE Fail(t) /\ stmt[t].table \in absTabs[absCur]
  <2>1. stmt[t].op = "createTable"
    BY <1>2 DEF Kept, RefInv, Checked
  <2>2. Promise!Refused(stmt[t])
    BY <1>8, <2>1 DEF Promise!Refused
  <2> QED
    BY <1>1, <1>2, <1>3, <1>7, <1>8, <2>2, RefusalIs
<1>9. CASE Goto(t, "loadSchema")
  <2>1. Waiting(t)'
    BY <1>6, <1>9 DEF Waiting
  <2> QED
    BY <1>2, <1>3, <1>7, <2>1, OnItsWay
<1> QED
  BY <1>5, <1>8, <1>9

LEMMA LoadSchemaStep ==
    ASSUME OneConnection, "schema" \notin Tables, Kept, NEW t \in Threads, LoadSchema(t)
    PROVE  Silent \/ Promise!Effect(t)
<1>1. TypedAndFit /\ Seen
  BY DEF Kept, KindsKept
<1>2. pc[t] = "loadSchema" /\ stmt' = stmt /\ currentDb' = currentDb /\ ~ Dropping(t)
  BY DEF LoadSchema, At, Dropping
<1>3. /\ stmt[t] \in Statement /\ stmt[t].op \in TableOps /\ stmt[t].table \in Tables
      /\ Waiting(t) /\ currentDb # NoDb
  BY <1>1, <1>2, AtStep DEF Waiting, Seen
<1>4. /\ ~ SchemaBroken(currentDb)
      /\ tableExists(currentDb, stmt[t].table) <=> stmt[t].table \in absTabs[absCur]
  BY <1>2, <1>3, Reads, Promised
<1>5. \/ Fail(t) /\ stmt[t].op = "dropTable" /\ stmt[t].table \notin absTabs[absCur]
      \/ \E path, content : Prepare(t, path, content, Success)
  BY <1>4 DEF LoadSchema
<1>6. ~ Dropping(t)'
  BY <1>2, <1>3 DEF Dropping, TableOps
<1>7. Stays
  BY <1>1, <1>2, <1>6, QuietSteps, StoreStays DEF Step
<1>8. CASE Fail(t) /\ stmt[t].op = "dropTable" /\ stmt[t].table \notin absTabs[absCur]
  <2>1. Promise!Refused(stmt[t])
    BY <1>8 DEF Promise!Refused
  <2> QED
    BY <1>1, <1>2, <1>3, <1>7, <1>8, <2>1, RefusalIs
<1>9. CASE \E path, content : Prepare(t, path, content, Success)
  <2>1. pc'[t] = "open"
    BY <1>1, <1>9, Prepared
  <2>2. Waiting(t)'
    BY <1>6, <2>1 DEF Waiting
  <2> QED
    BY <1>2, <1>3, <1>7, <2>2, OnItsWay
<1> QED
  BY <1>5, <1>8, <1>9

\* What the statement itself has wrong.
LEMMA IllFormed ==
    ASSUME NEW s \in Statement, s.op \in RowOps, ~ WellFormed(s)
    PROVE  Promise!Refused(s)
<1>1. \A names, cols : Named(names, cols) <=> \A i \in DOMAIN names : ColumnIndex(names[i], cols) # 0
  BY DEF Named
<1>2. Promise!Known(s) <=> Named(s.columns, Columns[s.table])
  BY <1>1, SameOperators DEF Promise!Known
<1>3. Promise!InsertFits(s) =>
        \A i \in DOMAIN s.values :
          Len(s.values[i]) = Len(IF s.columns = << >> THEN Columns[s.table] ELSE s.columns)
  BY DEF Promise!InsertFits
<1>4. \/ s.op \in {"insert", "update"} /\ ~ Promise!Known(s)
      \/ s.op = "insert" /\ ~ Promise!InsertFits(s)
  BY <1>2, <1>3 DEF WellFormed
<1> QED
  BY <1>4 DEF Promise!Refused

LEMMA RequireTableStep ==
    ASSUME OneConnection, "schema" \notin Tables, Kept, NEW t \in Threads, RequireTable(t)
    PROVE  Silent \/ Promise!Effect(t)
<1>1. TypedAndFit /\ Seen
  BY DEF Kept, KindsKept
<1>2. pc[t] = "requireTable" /\ stmt' = stmt /\ currentDb' = currentDb /\ ~ Dropping(t)
  BY DEF RequireTable, At, Dropping
<1>3. /\ stmt[t] \in Statement /\ stmt[t].op \in RowOps /\ stmt[t].table \in Tables
      /\ Waiting(t) /\ currentDb # NoDb
  BY <1>1, <1>2, AtStep DEF Waiting, Seen
<1>4. /\ ~ SchemaBroken(currentDb)
      /\ tableExists(currentDb, stmt[t].table) <=> stmt[t].table \in absTabs[absCur]
  BY <1>2, <1>3, Reads, Promised
<1>5. \/ Fail(t) /\ (stmt[t].table \notin absTabs[absCur] \/ ~ WellFormed(stmt[t]))
      \/ Goto(t, "rows")
  BY <1>4 DEF RequireTable
<1>6. ~ Dropping(t)'
  BY <1>2, <1>3 DEF Dropping, RowOps
<1>7. Stays
  BY <1>1, <1>2, <1>6, QuietSteps, StoreStays DEF Step
<1>8. CASE Fail(t) /\ (stmt[t].table \notin absTabs[absCur] \/ ~ WellFormed(stmt[t]))
  <2>1. stmt[t].table \notin absTabs[absCur] => Promise!Refused(stmt[t])
    BY <1>3 DEF Promise!Refused, RowOps
  <2>2. Promise!Refused(stmt[t])
    BY <1>3, <1>8, <2>1, IllFormed
  <2> QED
    BY <1>1, <1>2, <1>3, <1>7, <1>8, <2>2, RefusalIs
<1>9. CASE Goto(t, "rows")
  <2>1. pc'[t] = "rows"
    BY <1>1, <1>9, Went
  <2>2. Waiting(t)'
    BY <1>6, <2>1 DEF Waiting
  <2> QED
    BY <1>2, <1>3, <1>7, <2>2, OnItsWay
<1> QED
  BY <1>5, <1>8, <1>9

\* The steps no client can see.
LEMMA SilentSteps ==
    ASSUME OneConnection, "schema" \notin Tables, Kept, NEW t \in Threads,
           MakeDirectory(t) \/ ListDatabases(t) \/ Open(t) \/ Flush(t)
    PROVE  Silent
<1>1. TypedAndFit /\ Routed
  BY DEF Kept, KindsKept
<1>2. /\ stmt' = stmt /\ currentDb' = currentDb
      /\ pc[t] \in {"mkdir", "listDatabases", "open", "close"}
  BY DEF MakeDirectory, ListDatabases, Open, Flush, At, threadVars
<1>3. pc'[t] \in {"listDatabases", "open", "close"}
  <2>1. ASSUME ListDatabases(t)
        PROVE  pc'[t] = "open"
    <3>1. pc[t] = "listDatabases"
      BY <2>1 DEF ListDatabases, At
    <3>2. ~ CatalogBroken
      BY <3>1, Reads
    <3>3. \E path, content : Prepare(t, path, content, Success)
      BY <2>1, <3>2 DEF ListDatabases
    <3> QED
      BY <1>1, <3>3, Prepared
  <2>2. MakeDirectory(t) => pc'[t] = "listDatabases"
    BY <1>1, Went DEF MakeDirectory
  <2>3. Open(t) => pc'[t] = "close"
    BY <1>1, Went DEF Open
  <2>4. Flush(t) => pc'[t] = "close"
    BY DEF Flush, At
  <2> QED
    BY <2>1, <2>2, <2>3, <2>4
<1>4. /\ ~ RemoveDirectory(t) /\ ~ CompareDatabase(t) /\ ~ ResetDatabase(t) /\ ~ Close(t)
      /\ ~ SetCurrentDatabase(t)
  <2>1. Close(t) => pc'[t] \in {"compareDb", "respond"}
    BY <1>1, Went DEF Close
  <2> QED
    BY <1>2, <1>3, <2>1
       DEF RemoveDirectory, CompareDatabase, ResetDatabase, SetCurrentDatabase, At
<1>5. Receive(t) \/ Step(t)
  BY DEF Step
<1>6. (Dropping(t)' <=> Dropping(t)) /\ absDbs' = absDbs /\ SameContent
  BY <1>1, <1>4, <1>5, DroppingSteps, DbsSteps, ContentSteps
<1>7. Stays
  BY <1>1, <1>2, <1>6, StoreStays
<1>8. CallOf(t)' = CallOf(t)
  <2>1. CASE Dropping(t)
    BY <1>2, <1>6, <2>1, Phases, NextPhases
  <2>2. CASE ~ Dropping(t)
    <3>1. Waiting(t) /\ Waiting(t)'
      BY <1>2, <1>3, <1>6, <2>2 DEF Waiting
    <3> QED
      BY <1>2, <3>1, Phases, NextPhases
  <2> QED
    BY <2>1, <2>2
<1> QED
  BY <1>7, <1>8, SilentIs

-----------------------------------------------------------------------------
(* Steps on databases and tables.                                          *)

\* The rows a file means.
RowsOf(f, tb) == LiveRows(ReadRecords(f, Columns[tb]))

LEMMA AbsRowsAre ==
    /\ absRows = [p \in Dbs \X Tables |-> RowsOf(Content(p), p[2])]
    /\ absRows' = [p \in Dbs \X Tables |-> RowsOf(Content(p)', p[2])]
BY DEF absRows, RowsOf, LiveRows, LiveAt

LEMMA LiveOrEmpty ==
    ASSUME NEW recs \in Seq(Record)
    PROVE  LiveRows(recs) = << >> <=> ~ \E i \in DOMAIN recs : Live(recs[i])
<1>1. LiveAt(recs) \subseteq DOMAIN recs
  BY DEF LiveAt
<1>2. AreRows(recs, LiveAt(recs))
  BY <1>1, RowsAtAre
<1>3. PICK n, R : n = Cardinality(LiveAt(recs)) /\ R = LiveRows(recs)
  OBVIOUS
<1>4. R \in Seq(Seq(Value)) /\ Len(R) = n
  BY <1>2, <1>3 DEF AreRows, LiveRows
<1>5. n = 0 <=> LiveAt(recs) = {}
  <2>1. DOMAIN recs = 1 .. Len(recs) /\ Len(recs) \in Nat
    OBVIOUS
  <2>2. IsFiniteSet(LiveAt(recs))
    BY <1>1, <2>1, RankInjective
  <2> QED
    BY <1>3, <2>2, FS_EmptySet
<1>6. R = << >> <=> n = 0
  BY <1>4
<1> QED
  BY <1>3, <1>5, <1>6 DEF LiveAt

LEMMA NoRecords ==
    ASSUME NEW f \in File, f.total = 0, NEW cols \in Seq(Column)
    PROVE  ReadRecords(f, cols) = << >> /\ LiveRows(ReadRecords(f, cols)) = << >>
<1>1. PICK recs : recs = ReadRecords(f, cols)
  OBVIOUS
<1>2. recs \in Seq(Record) /\ Len(recs) = 0
  BY <1>1, ReadRecordsType
<1>3. recs = << >> /\ \A i \in DOMAIN recs : FALSE
  BY <1>2
<1>4. LiveRows(recs) = << >>
  BY <1>2, <1>3, LiveOrEmpty
<1> QED
  BY <1>1, <1>3, <1>4

LEMMA RemoveDirectoryStep ==
    ASSUME OneConnection, "schema" \notin Tables, Kept, NEW t \in Threads, RemoveDirectory(t)
    PROVE  Promise!Effect(t)
<1>1. TypedAndFit
  BY DEF Kept, KindsKept
<1>2. /\ pc[t] = "rmdir" /\ stmt[t].op = "dropDatabase" /\ stmt[t].db \in Dbs /\ stmt' = stmt
      /\ currentDb' = currentDb
      /\ \A p \in Paths : Content(p)' = IF p[1] = stmt[t].db THEN Absent ELSE Content(p)
  BY RemoveLeaves
<1>3. stmt[t] \in Statement /\ ~ Dropping(t) /\ Dropping(t)' /\ Waiting(t)
  BY <1>1, <1>2, AtStep, DroppingSteps DEF Waiting, Step
<1>4. PICK d : d = stmt[t].db
  OBVIOUS
<1>5. d \in absDbs /\ absDbs' = absDbs \ {d}
  BY <1>2, <1>4, DbsSteps DEF Kept, RefInv, Checked, Step
<1>6. absTabs' = [absTabs EXCEPT ![d] = {}]
  <2>1. ASSUME NEW e \in Dbs
        PROVE  (Listed(schemaPath(e)) \cap Tables)' =
                 IF e = d THEN {} ELSE Listed(schemaPath(e)) \cap Tables
    <3>1. schemaPath(e) \in Paths /\ schemaPath(e)[1] = e
      BY DEF Paths, Dirs, schemaPath
    <3>2. Content(schemaPath(e))' = IF e = d THEN Absent ELSE Content(schemaPath(e))
      BY <1>2, <1>4, <3>1 DEF schemaPath
    <3>3. Listed(schemaPath(e))' = IF e = d THEN {} ELSE Listed(schemaPath(e))
      BY <3>2, NamesOfFiles DEF Listed, schemaPath
    <3> QED
      BY <3>3
  <2> QED
    BY <2>1 DEF absTabs
<1>7. absRows' = [p \in Dbs \X Tables |-> IF p[1] = d THEN << >> ELSE absRows[p]]
  <2>1. ASSUME NEW p \in Dbs \X Tables
        PROVE  RowsOf(Content(p)', p[2]) = IF p[1] = d THEN << >> ELSE RowsOf(Content(p), p[2])
    <3>1. Content(p)' = IF p[1] = d THEN Absent ELSE Content(p)
      BY <1>1, <1>2, <1>4, PromisedPaths
    <3>2. Columns[p[2]] \in Seq(Column)
      BY NamesAssumption
    <3>3. RowsOf(Absent, p[2]) = << >>
      <4>1. Absent \in File /\ Absent.total = 0
        BY FilesType DEF Absent
      <4> QED
        BY <3>2, <4>1, NoRecords DEF RowsOf
    <3> QED
      BY <3>1, <3>3
  <2> QED
    BY <2>1, AbsRowsAre
<1>8. absCur' = IF absCur = d THEN NoDb ELSE absCur
  <2>1. absCur = currentDb
    BY <1>3, Promised
  <2>2. \A e : Dropped(e)' <=> e = d
    BY <1>2, <1>3, <1>4, DroppedBy
  <2>3. PICK cur : cur = currentDb
    OBVIOUS
  <2>4. absCur' = IF Dropped(cur)' THEN NoDb ELSE cur
    BY <1>2, <2>3 DEF absCur, Dropped
  <2> QED
    BY <2>1, <2>2, <2>3, <2>4
<1>9. /\ absCall[t].stmt = stmt[t] /\ absCall[t] # Promise!Idle /\ ~ absCall[t].done
      /\ Promise!Done(t, Success)
  BY <1>2, <1>3, EffectIs
<1>10. Promise!Ok = Success
  BY CallRecords
<1>11. Promise!DropDatabase(t, d)
  BY <1>5, <1>6, <1>7, <1>8, <1>9, <1>10 DEF Promise!DropDatabase
<1> QED
  BY <1>2, <1>4, <1>9, <1>11 DEF Promise!Effect, Promise!Succeed

LEMMA SetCurrentDatabaseStep ==
    ASSUME OneConnection, "schema" \notin Tables, Kept, NEW t \in Threads, SetCurrentDatabase(t)
    PROVE  Promise!Effect(t)
<1>1. TypedAndFit
  BY DEF Kept, KindsKept
<1>2. /\ pc[t] = "setDb" /\ pc'[t] = "respond" /\ result'[t] = Success /\ stmt' = stmt
      /\ currentDb' = stmt[t].db
  BY <1>1, Answered DEF SetCurrentDatabase, At
<1>3. /\ stmt[t] \in Statement /\ stmt[t].op = "use" /\ stmt[t].db \in absDbs
      /\ ~ Dropping(t) /\ ~ Dropping(t)' /\ Waiting(t)
  BY <1>1, <1>2, AtStep DEF Waiting, Dropping, Kept, Routed, RefInv, Checked
<1>4. SameContent /\ absDbs' = absDbs
  BY <1>1, <1>2, QuietSteps DEF Step
<1>5. absTabs' = absTabs /\ absRows' = absRows
  BY <1>1, <1>4, PromisedPaths, SameTables, SameRows DEF SameContent
<1>6. absCur' = stmt[t].db
  <2>1. Threads = {t}
    BY OnlyThread
  <2> QED
    BY <1>2, <1>3, <2>1 DEF absCur, Dropped
<1>7. /\ absCall[t].stmt = stmt[t] /\ absCall[t] # Promise!Idle /\ ~ absCall[t].done
      /\ Promise!Done(t, Success)
  BY <1>2, <1>3, EffectIs
<1>8. Promise!Ok = Success
  BY CallRecords
<1>9. Promise!Use(t, stmt[t].db)
  BY <1>3, <1>4, <1>5, <1>6, <1>7, <1>8 DEF Promise!Use
<1> QED
  BY <1>3, <1>7, <1>9 DEF Promise!Effect, Promise!Succeed

\* DROP DATABASE has had its effect; now the server forgets the database.
LEMMA ForgetStep ==
    ASSUME OneConnection, "schema" \notin Tables, Kept, NEW t \in Threads,
           CompareDatabase(t) \/ ResetDatabase(t)
    PROVE  Silent
<1>1. TypedAndFit
  BY DEF Kept, KindsKept
<1>2. /\ pc[t] \in {"compareDb", "resetDb"} /\ stmt' = stmt /\ result' = result
      /\ ResetDatabase(t) => pc[t] = "resetDb" /\ currentDb' = NoDb
      /\ CompareDatabase(t) => currentDb' = currentDb
  BY DEF CompareDatabase, ResetDatabase, At, threadVars
<1>3. /\ result[t] = Success /\ (ResetDatabase(t) => currentDb = stmt[t].db)
  BY <1>2 DEF Kept, RefInv, Checked
<1>4. /\ Dropping(t)
      /\ CompareDatabase(t) => /\ Dropping(t)' <=> pc'[t] = "resetDb"
                               /\ pc'[t] = IF currentDb = stmt[t].db THEN "resetDb" ELSE "respond"
      /\ ResetDatabase(t) => ~ Dropping(t)' /\ pc'[t] = "respond"
  BY <1>1, DroppingSteps, Went DEF Step, ResetDatabase
<1>5. SameContent /\ absDbs' = absDbs
  BY <1>2, QuietSteps DEF Step
<1>6. absTabs' = absTabs /\ absRows' = absRows
  BY <1>1, <1>5, PromisedPaths, SameTables, SameRows DEF SameContent
<1>7. PICK cur, next : cur = currentDb /\ next = currentDb'
  OBVIOUS
<1>8. /\ Dropped(cur) <=> stmt[t].db = cur
      /\ Dropped(next)' <=> Dropping(t)' /\ stmt[t].db = next
  BY <1>2, <1>4, DroppedBy
<1>9. absCur = (IF Dropped(cur) THEN NoDb ELSE cur) /\ absCur' = IF Dropped(next)' THEN NoDb ELSE next
  BY <1>7 DEF absCur, Dropped
<1>10. absCur' = absCur
  BY <1>2, <1>3, <1>4, <1>7, <1>8, <1>9
<1>11. CallOf(t) = Ended(stmt[t], Success) /\ CallOf(t)' = Ended(stmt[t], Success)
  BY <1>2, <1>3, <1>4, Phases, NextPhases
<1> QED
  BY <1>5, <1>6, <1>10, <1>11, SilentIs DEF Stays

-----------------------------------------------------------------------------
(* Statements on rows.                                                     *)

LEMMA FoundRows ==
    ASSUME OneConnection, TypedAndFit, NEW t \in Threads, stmt[t] \in Statement,
           stmt[t].op \in RowOps, currentDb \in Dbs
    PROVE  /\ <<currentDb, stmt[t].table>> \in Dbs \X Tables
           /\ Destination(t) = <<currentDb, stmt[t].table>>
           /\ Columns[stmt[t].table] \in Seq(Column) /\ Content(Destination(t)) \in File
           /\ Found(t) \in Seq(Record) /\ Full(Found(t), Columns[stmt[t].table])
           /\ absRows[<<currentDb, stmt[t].table>>] = LiveRows(Found(t))
<1>1. stmt[t].table \in Tables
  BY StatementFields
<1>2. PICK tb \in Tables, k \in Dbs \X Tables : tb = stmt[t].table /\ k = <<currentDb, tb>>
  BY <1>1
<1>3. Destination(t) = k /\ k[2] = tb
  BY <1>2 DEF Destination, tablePath, DbOps, TableOps, RowOps
<1>4. Columns[tb] \in Seq(Column)
  BY NamesAssumption
<1>5. Content(k) \in File
  BY PromisedPaths, ContentType
<1>6. Found(t) = ReadRecords(Content(k), Columns[tb])
  BY <1>2, <1>3 DEF Found
<1>7. Found(t) \in Seq(Record) /\ Full(Found(t), Columns[tb])
  BY <1>4, <1>5, <1>6, ReadRecordsType
<1>8. absRows[k] = RowsOf(Content(k), tb)
  BY <1>3, AbsRowsAre
<1> QED
  BY <1>2, <1>3, <1>4, <1>5, <1>6, <1>7, <1>8 DEF RowsOf

\* The rows a predicate picks are promised to be those.
LEMMA PromisedHits ==
    ASSUME NEW s, NEW recs \in Seq(Record), absRows[<<absCur, s.table>>] = LiveRows(recs),
           s.op # "insert"
    PROVE  /\ Promise!Hits(s) = Picks(LiveRows(recs), Columns[s.table], s.where)
           /\ Promise!Evaluates(s) <=> ~ PredicateThrows(s, recs)
<1>1. PICK R : R = absRows[<<absCur, s.table>>]
  OBVIOUS
<1>2. \A row : Promise!Selects(s, row) <=> matchesWhere(row, Columns[s.table], s.where)
  BY SameOperators DEF Promise!Selects
<1>3. Promise!Hits(s) = {i \in DOMAIN R : matchesWhere(R[i], Columns[s.table], s.where)}
  BY <1>1, <1>2 DEF Promise!Hits
<1>4. Promise!Evaluates(s) <=> (WhereThrows(s.where, Columns[s.table]) => R = << >>)
  BY <1>1, SameOperators DEF Promise!Evaluates
<1>5. R = << >> <=> ~ \E i \in DOMAIN recs : Live(recs[i])
  BY <1>1, LiveOrEmpty
<1> QED
  BY <1>1, <1>3, <1>4, <1>5 DEF Picks, PredicateThrows

\* The rows of an INSERT, as the program and as the promise make them.
LEMMA PromisedInsert ==
    ASSUME NEW s \in Statement, s.op = "insert", WellFormed(s), NEW recs \in Seq(Record),
           ~ WriteThrows(appendRows(recs, NewRows(s)), Columns[s.table])
    PROVE  /\ Promise!Known(s) /\ Promise!InsertFits(s)
           /\ Promise!Inserted(s) = NewRows(s) /\ NewRows(s) \in Seq(Seq(Value))
<1>1. Promise!Inserted(s) = NewRows(s)
  BY SameOperators DEF Promise!Inserted, NewRows
<1>2. NewRows(s) \in Seq(Seq(Value)) /\ DOMAIN NewRows(s) = 1 .. Len(s.values)
  BY NewRowsType DEF Row, NewRows
<1>3. Promise!Known(s)
  BY SameOperators DEF Promise!Known, WellFormed, Named
<1>4. PICK rs, new : rs = NewRows(s) /\ new = appendRows(recs, rs)
  OBVIOUS
<1>5. ASSUME NEW i \in DOMAIN rs
      PROVE  RowOk(rs[i], Columns[s.table])
  <2>1. PICK n, m, added : /\ n = Len(recs) /\ m = Len(rs)
                           /\ added = [k \in 1 .. m |-> [del |-> FALSE, vals |-> rs[k]]]
    OBVIOUS
  <2>2. n \in Nat /\ m \in Nat /\ i \in 1 .. m /\ rs \in Seq(Seq(Value))
    BY <1>2, <1>4, <2>1
  <2>3. added \in Seq(Record) /\ Len(added) = m
    <3>1. \A k \in 1 .. m : rs[k] \in Seq(Value)
      BY <2>1, <2>2
    <3>2. \A k \in 1 .. m : [del |-> FALSE, vals |-> rs[k]] \in Record
      BY <3>1 DEF Record
    <3> QED
      BY <2>1, <2>2, <3>2
  <2>4. new = recs \o added
    BY <1>4, <2>1 DEF appendRows
  <2>5. n + i \in DOMAIN new /\ new[n + i] = added[i]
    BY <2>1, <2>2, <2>3, <2>4, Concatenated
  <2>6. added[i].vals = rs[i]
    BY <2>1, <2>2
  <2>7. \A j \in DOMAIN new : RowOk(new[j].vals, Columns[s.table])
    BY <1>4 DEF WriteThrows, IllTyped
  <2> QED
    BY <2>5, <2>6, <2>7
<1>6. \A i \in DOMAIN s.values : RowOk(NewRows(s)[i], Columns[s.table])
  <2>1. DOMAIN s.values = 1 .. Len(s.values)
    BY StatementFields
  <2> QED
    BY <1>2, <1>4, <1>5, <2>1
<1>7. Promise!InsertFits(s)
  BY <1>1, <1>6, SameOperators DEF Promise!InsertFits, WellFormed
<1> QED
  BY <1>1, <1>2, <1>3, <1>7

LEMMA PromisedUpdate ==
    ASSUME NEW s \in Statement, s.op = "update", WellFormed(s), NEW recs \in Seq(Record),
           absRows[<<absCur, s.table>>] = LiveRows(recs),
           ~ WriteThrows(NewRecords(s, recs), Columns[s.table])
    PROVE  Promise!Known(s) /\ Promise!UpdateFits(s)
<1> DEFINE cols == Columns[s.table]
<1>1. Promise!Known(s)
  BY SameOperators DEF Promise!Known, WellFormed, Named
<1>2. PICK R, S, hits, new :
        /\ R = LiveRows(recs) /\ S = LiveAt(recs) /\ hits = Matched(recs, cols, s.where)
        /\ new = updateRows(recs, hits, s.columns, s.value, cols)
  OBVIOUS
<1>3. \A j \in DOMAIN new : RowOk(new[j].vals, cols)
  BY <1>2 DEF WriteThrows, IllTyped, NewRecords, Rewritten, Hits
<1>4. AreRows(recs, S)
  <2>1. S \subseteq DOMAIN recs
    BY <1>2 DEF LiveAt
  <2> QED
    BY <2>1, RowsAtAre
<1>5. ASSUME NEW k \in Picks(R, cols, s.where)
      PROVE  RowOk(Assign(R[k], s.columns, s.value, cols), cols)
  <2>1. k \in DOMAIN R /\ matchesWhere(R[k], cols, s.where)
    BY DEF Picks
  <2>2. k \in 1 .. Cardinality(S)
    BY <1>2, <1>4, <2>1 DEF AreRows, LiveRows
  <2>3. PICK j : j = Nth(S, k)
    OBVIOUS
  <2>4. j \in S /\ R[k] = recs[j].vals
    BY <1>2, <1>4, <2>2, <2>3 DEF AreRows, LiveRows
  <2>5. j \in hits /\ j \in 1 .. Len(recs) /\ recs[j] \in Record
    <3>1. j \in DOMAIN recs /\ Live(recs[j])
      BY <1>2, <2>4 DEF LiveAt
    <3> QED
      BY <1>2, <2>1, <2>4, <3>1 DEF Matched
  <2>6. j \in DOMAIN new /\ new[j] = [recs[j] EXCEPT !.vals = Assign(recs[j].vals, s.columns, s.value, cols)]
    BY <1>2, <2>5 DEF updateRows
  <2>7. new[j].vals = Assign(R[k], s.columns, s.value, cols)
    BY <2>4, <2>5, <2>6 DEF Record
  <2> QED
    BY <1>3, <2>6, <2>7
<1>6. Promise!Hits(s) = Picks(R, cols, s.where)
  BY <1>2, PromisedHits
<1>7. absRows[<<absCur, s.table>>] = R
  BY <1>2
<1>8. Promise!UpdateFits(s)
  BY <1>5, <1>6, <1>7, SameOperators DEF Promise!UpdateFits, Promise!Updated
<1> QED
  BY <1>1, <1>8

\* A change of rows that was allowed and can be written is the promised one.
LEMMA ChangeIs ==
    ASSUME OneConnection, "schema" \notin Tables, TypedAndFit, NEW t \in Threads,
           stmt[t] \in Statement, stmt[t].op \in {"insert", "update", "delete"},
           absCur = currentDb, currentDb \in Dbs, currentDb # NoDb,
           stmt[t].table \in absTabs[absCur], WellFormed(stmt[t]),
           ~ PredicateThrows(stmt[t], Found(t)),
           ~ WriteThrows(NewRecords(stmt[t], Found(t)), Columns[stmt[t].table]),
           absRows' = [absRows EXCEPT ![<<currentDb, stmt[t].table>>] =
                         LiveRows(NewRecords(stmt[t], Found(t)))],
           absDbs' = absDbs, absTabs' = absTabs, absCur' = absCur,
           Promise!Done(t, [Success EXCEPT !.affected = RowsAffected(stmt[t], Found(t))])
    PROVE  Promise!OnRows(t, stmt[t])
<1> DEFINE s    == stmt[t]
           recs == Found(t)
           cols == Columns[s.table]
           k == <<absCur, s.table>>
<1>1. /\ k \in Dbs \X Tables /\ cols \in Seq(Column)
      /\ recs \in Seq(Record) /\ Full(recs, cols) /\ absRows[k] = LiveRows(recs)
  BY FoundRows DEF RowOps
<1>2. Promise!Ok = Success
  BY CallRecords
<1>3. CASE s.op = "insert"
  <2>1. NewRecords(s, recs) = appendRows(recs, NewRows(s)) /\ RowsAffected(s, recs) = Len(s.values)
    BY <1>3 DEF NewRecords, Rewritten, RowsAffected
  <2>2. /\ Promise!Known(s) /\ Promise!InsertFits(s)
        /\ Promise!Inserted(s) = NewRows(s) /\ NewRows(s) \in Seq(Seq(Value))
    BY <1>1, <1>3, <2>1, PromisedInsert
  <2>3. LiveRows(NewRecords(s, recs)) = absRows[k] \o Promise!Inserted(s)
    BY <1>1, <2>1, <2>2, AppendedRows
  <2>4. Promise!Insert(t, s)
    BY <1>2, <2>1, <2>2, <2>3 DEF Promise!Insert
  <2> QED
    BY <1>3, <2>4 DEF Promise!OnRows
<1>4. CASE s.op # "insert"
  <2>1. /\ Promise!Hits(s) = Picks(LiveRows(recs), cols, s.where) /\ Promise!Evaluates(s)
        /\ Hits(s, recs) = Matched(recs, cols, s.where)
    BY <1>1, <1>4, PromisedHits DEF Hits
  <2>2. RowsAffected(s, recs) = Promise!Cardinality(Promise!Hits(s))
    <3>1. Cardinality(Hits(s, recs)) = Cardinality(Promise!Hits(s))
      BY <1>1, <2>1, PickedRows
    <3> QED
      BY <1>4, <3>1, SameOperators DEF RowsAffected
  <2>3. CASE s.op = "delete"
    <3>1. NewRecords(s, recs) = deleteRows(recs, Matched(recs, cols, s.where))
      BY <2>1, <2>3 DEF NewRecords, Rewritten
    <3>2. LiveRows(NewRecords(s, recs)) =
            Keep(LiveRows(recs), DOMAIN LiveRows(recs) \ Picks(LiveRows(recs), cols, s.where))
      BY <1>1, <3>1, DeletedRows
    <3>3. LiveRows(NewRecords(s, recs)) =
            Promise!Keep(absRows[k], DOMAIN absRows[k] \ Promise!Hits(s))
      BY <1>1, <2>1, <3>2, SameOperators
    <3>4. Promise!Delete(t, s)
      BY <1>2, <2>1, <2>2, <3>3 DEF Promise!Delete
    <3> QED
      BY <2>3, <3>4 DEF Promise!OnRows
  <2>4. CASE s.op = "update"
    <3>1. NewRecords(s, recs) =
            updateRows(recs, Matched(recs, cols, s.where), s.columns, s.value, cols)
      BY <2>1, <2>4 DEF NewRecords, Rewritten
    <3>2. /\ s.columns \in Seq(ColumnName) /\ s.value \in Seq(Value)
          /\ Len(s.value) = Len(s.columns)
      BY <2>4, StatementFields DEF Row
    <3>3. PICK rs, cs, ns, vs, w, L, H :
            /\ rs = recs /\ cs = cols /\ ns = s.columns /\ vs = s.value /\ w = s.where
            /\ L = LiveRows(recs) /\ H = Promise!Hits(s)
      OBVIOUS
    <3>4. LiveRows(NewRecords(s, recs)) =
            [i \in 1 .. Len(absRows[k]) |-> IF i \in Promise!Hits(s)
                                            THEN Promise!Updated(s, absRows[k][i])
                                            ELSE absRows[k][i]]
      <4>1. LiveRows(updateRows(rs, Matched(rs, cs, w), ns, vs, cs)) =
              [i \in 1 .. Len(LiveRows(rs)) |-> IF i \in Picks(LiveRows(rs), cs, w)
                                                THEN Assign(LiveRows(rs)[i], ns, vs, cs)
                                                ELSE LiveRows(rs)[i]]
        <5>1. /\ cs \in Seq(Column) /\ rs \in Seq(Record) /\ Full(rs, cs)
              /\ ns \in Seq(ColumnName) /\ vs \in Seq(Value) /\ Len(vs) = Len(ns)
          BY <1>1, <3>2, <3>3
        <5> QED
          BY <5>1, UpdatedRows
      <4>2. H = Picks(L, cs, w) /\ L = LiveRows(rs)
        BY <2>1, <3>3
      <4>3. \A row : Promise!Updated(s, row) = Assign(row, ns, vs, cs)
        BY <3>3, SameOperators DEF Promise!Updated
      <4>4. LiveRows(NewRecords(s, recs)) = LiveRows(updateRows(rs, Matched(rs, cs, w), ns, vs, cs))
        BY <3>1, <3>3
      <4>5. LiveRows(NewRecords(s, recs)) =
              [i \in 1 .. Len(L) |-> IF i \in H THEN Promise!Updated(s, L[i]) ELSE L[i]]
        BY <4>1, <4>2, <4>3, <4>4
      <4>6. absRows[k] = L
        BY <1>1, <3>3
      <4> QED
        BY <3>3, <4>5, <4>6
    <3>5. Promise!Known(s) /\ Promise!UpdateFits(s)
      BY <1>1, <2>4, PromisedUpdate
    <3>6. Promise!Update(t, s)
      BY <1>2, <2>1, <2>2, <3>4, <3>5 DEF Promise!Update
    <3> QED
      BY <2>4, <3>6 DEF Promise!OnRows
  <2> QED
    BY <1>4, <2>3, <2>4
<1> QED
  BY <1>3, <1>4

\* A table without a file has no rows, and stays so.
LEMMA NothingThere ==
    ASSUME NEW s \in Statement, s.op \in {"update", "delete"}
    PROVE  /\ NewRecords(s, << >>) = << >> /\ RowsAffected(s, << >>) = 0
           /\ ~ WriteThrows(NewRecords(s, << >>), Columns[s.table])
<1>1. Hits(s, << >>) = {}
  BY DEF Hits, Matched
<1>2. Cardinality({}) = 0
  BY FS_EmptySet
<1>3. NewRecords(s, << >>) = << >>
  BY DEF NewRecords, Rewritten, updateRows, deleteRows
<1> QED
  BY <1>1, <1>2, <1>3 DEF RowsAffected, WriteThrows, IllTyped

\* Without effect: [Success EXCEPT !.affected = 0] is Success.
LEMMA NoneAffected == [Success EXCEPT !.affected = 0] = Success
<1> DEFINE R == [ok : {TRUE, FALSE}, rows : {<< >>}, affected : {0}]
<1>1. PICK n : n = NoResult
  OBVIOUS
<1>2. n \in R
  BY <1>1 DEF NoResult
<1>3. PICK x : x = [n EXCEPT !.ok = TRUE]
  OBVIOUS
<1>4. x \in R
  BY <1>2, <1>3
<1>5. [x EXCEPT !.affected = 0] = x
  BY <1>4
<1> QED
  BY <1>1, <1>3, <1>5 DEF Success

LEMMA RowsAnswer ==
    ASSUME OneConnection, "schema" \notin Tables, Kept, NEW t \in Threads, Rows(t)
    PROVE  Silent \/ Promise!Effect(t)
<1> DEFINE s    == stmt[t]
           path == tablePath(currentDb, s.table)
           recs == Found(t)
           cols == Columns[s.table]
           hits == Matched(recs, cols, s.where)
           k    == <<absCur, s.table>>
<1>1. TypedAndFit
  BY DEF Kept, KindsKept
<1>2. pc[t] = "rows" /\ stmt' = stmt /\ currentDb' = currentDb /\ ~ Dropping(t)
  BY DEF Rows, At, Dropping
<1>3. /\ s \in Statement /\ s.op \in RowOps /\ s.table \in Tables
      /\ currentDb # NoDb /\ currentDb \in Dbs /\ WellFormed(s)
      /\ s.table \in Listed(schemaPath(currentDb))
      /\ path = Destination(t) /\ path \in Paths /\ ~ TableBroken(path)
      /\ files[path] = Content(Destination(t)) /\ recordsOf(path, s.table) = recs
  BY <1>2, AtRows
<1>4. Waiting(t) /\ ~ Dropping(t)' /\ s.op \notin DbOps
  BY <1>2, <1>3 DEF Waiting, Dropping, RowOps, DbOps
<1>5. Stays
  BY <1>1, <1>2, <1>4, QuietSteps, StoreStays DEF Step
<1>6. absCur = currentDb /\ s.table \in absTabs[absCur]
  BY <1>2, <1>3, Promised
<1>7. /\ cols \in Seq(Column) /\ recs \in Seq(Record) /\ absRows[k] = LiveRows(recs)
      /\ k \in Dbs \X Tables /\ Content(Destination(t)) \in File
  BY <1>1, <1>3, <1>6, FoundRows
<1>8. \/ Fail(t) /\ PredicateThrows(s, recs)
      \/ /\ s.op = "select" /\ ~ PredicateThrows(s, recs)
         /\ Answer(t, [Success EXCEPT !.rows = RowsAt(recs, hits)])
      \/ s.op \in {"update", "delete"} /\ ~ Exists(path) /\ Answer(t, Success)
      \/ \E p, content, r : Prepare(t, p, content, r)
  BY <1>3 DEF Rows, SelectRows, ChangeRows, RowOps
<1> HIDE DEF recs, path
<1>9. CASE Fail(t) /\ PredicateThrows(s, recs)
  <2>1. s.op \in {"select", "update", "delete"}
    BY <1>3, <1>9 DEF PredicateThrows, RowOps
  <2>2. ~ Promise!Evaluates(s)
    BY <1>7, <1>9, <2>1, PromisedHits
  <2>3. Promise!Refused(s)
    BY <2>1, <2>2 DEF Promise!Refused
  <2> QED
    BY <1>1, <1>2, <1>3, <1>4, <1>5, <1>9, <2>3, RefusalIs
<1>10. CASE /\ s.op = "select" /\ ~ PredicateThrows(s, recs)
            /\ Answer(t, [Success EXCEPT !.rows = RowsAt(recs, hits)])
  <2>1. Promise!Hits(s) = Picks(LiveRows(recs), cols, s.where) /\ Promise!Evaluates(s)
    BY <1>7, <1>10, PromisedHits
  <2>2. RowsAt(recs, hits) = Keep(LiveRows(recs), Picks(LiveRows(recs), cols, s.where))
    BY <1>7, PickedRows
  <2>3. RowsAt(recs, hits) = Promise!Keep(absRows[k], Promise!Hits(s))
    BY <1>7, <2>1, <2>2, SameOperators
  <2>4. PICK r, x : x = RowsAt(recs, hits) /\ r = [Success EXCEPT !.rows = x]
    OBVIOUS
  <2>5. pc'[t] = "respond" /\ result'[t] = r
    BY <1>1, <1>10, <2>4, Answered
  <2>6. /\ absCall[t].stmt = s /\ absCall[t] # Promise!Idle /\ ~ absCall[t].done
        /\ Promise!Done(t, r)
    BY <1>2, <1>3, <1>4, <2>5, EffectIs
  <2>7. Promise!Ok = Success
    BY CallRecords
  <2>8. Promise!Select(t, s)
    BY <1>5, <2>1, <2>3, <2>4, <2>6, <2>7 DEF Promise!Select, Stays
  <2>9. Promise!OnRows(t, s)
    BY <1>3, <1>5, <1>6, <1>10, <2>8 DEF Promise!OnRows, Stays
  <2> QED
    BY <1>10, <2>6, <2>9 DEF Promise!Effect, Promise!Succeed
<1>11. CASE s.op \in {"update", "delete"} /\ ~ Exists(path) /\ Answer(t, Success)
  <2>1. recs = << >>
    <3>1. files[path].total = 0
      BY <1>3, <1>11 DEF Exists, Kept, Sound, FilesSound, GoodFile
    <3> QED
      BY <1>3, <1>7, <3>1, NoRecords DEF Found, recs
  <2>2. /\ NewRecords(s, recs) = << >> /\ RowsAffected(s, recs) = 0
        /\ ~ WriteThrows(NewRecords(s, recs), cols)
    BY <1>3, <1>11, <2>1, NothingThere
  <2>3. pc'[t] = "respond" /\ result'[t] = Success
    BY <1>1, <1>11, Answered
  <2>4. /\ absCall[t].stmt = s /\ absCall[t] # Promise!Idle /\ ~ absCall[t].done
        /\ Promise!Done(t, Success)
    BY <1>2, <1>3, <1>4, <2>3, EffectIs
  <2>5. Promise!Done(t, [Success EXCEPT !.affected = RowsAffected(s, recs)])
    BY <2>2, <2>4, NoneAffected
  <2>6. ~ PredicateThrows(s, recs)
    BY <2>1 DEF PredicateThrows
  <2>7. absRows' = [absRows EXCEPT ![<<currentDb, s.table>>] = LiveRows(NewRecords(s, recs))]
    <3>1. LiveRows(NewRecords(s, recs)) = absRows[k]
      BY <1>7, <2>1, <2>2
    <3>2. absRows = [absRows EXCEPT ![k] = absRows[k]]
      BY AbsRowsAre
    <3> QED
      BY <1>5, <1>6, <3>1, <3>2 DEF Stays
  <2>8. Promise!OnRows(t, s)
    BY <1>1, <1>3, <1>5, <1>6, <1>11, <2>2, <2>5, <2>6, <2>7, ChangeIs DEF Stays, recs
  <2> QED
    BY <1>11, <2>4, <2>8 DEF Promise!Effect, Promise!Succeed
<1>12. CASE \E p, content, r : Prepare(t, p, content, r)
  <2>1. pc'[t] = "open"
    BY <1>1, <1>12, Prepared
  <2>2. Waiting(t)'
    BY <1>4, <2>1 DEF Waiting
  <2> QED
    BY <1>2, <1>4, <1>5, <2>2, OnItsWay
<1> QED
  BY <1>8, <1>9, <1>10, <1>11, <1>12

-----------------------------------------------------------------------------
(* The end of a rewrite.                                                   *)

\* What the end of a rewrite leaves of everything else.
LEMMA CloseStays ==
    ASSUME OneConnection, "schema" \notin Tables, Kept, NEW t \in Threads, Close(t)
    PROVE  /\ stmt[t].op \notin TableOps => absTabs' = absTabs
           /\ stmt[t].op \notin RowOps => absRows' = absRows
           /\ stmt[t].op # "createDatabase" => absDbs' = absDbs
           /\ absCur' = absCur /\ (Dropping(t)' <=> Dropping(t))
<1>1. TypedAndFit
  BY DEF Kept, KindsKept
<1>2. /\ pc[t] = "close" /\ stmt' = stmt /\ currentDb' = currentDb
      /\ stmt[t].op \in DbOps \cup TableOps \cup RowOps
      /\ \A p \in Paths : Content(p)' = IF p = Destination(t) THEN Intended(t) ELSE Content(p)
  BY CloseLeaves, StatementFields
<1>3. Receive(t) \/ Step(t)
  BY DEF Step
<1>4. ~ RemoveDirectory(t) /\ ~ CompareDatabase(t) /\ ~ ResetDatabase(t)
  BY <1>2 DEF RemoveDirectory, CompareDatabase, ResetDatabase, At
<1>5. Dropping(t)' <=> Dropping(t)
  BY <1>3, <1>4, DroppingSteps
<1>6. absCur' = absCur
  BY <1>2, <1>5, SameCurrent
<1>7. stmt[t].op # "createDatabase" => absDbs' = absDbs
  BY <1>3, <1>4, DbsSteps
<1>8. ASSUME stmt[t].op \notin TableOps
      PROVE  absTabs' = absTabs
  <2>1. Destination(t) = catalogPath \/ Destination(t) = tablePath(currentDb, stmt[t].table)
    BY <1>8 DEF Destination
  <2>2. stmt[t].op \in RowOps => stmt[t].table \in Tables /\ stmt[t].table # "schema"
    BY CloseLeaves, StatementFields
  <2>3. \A d \in Dbs : Destination(t) # schemaPath(d)
    BY <1>2, <1>8, <2>2
       DEF Destination, catalogPath, schemaPath, tablePath, DbOps, TableOps, RowOps
  <2>4. \A d \in Dbs : Content(schemaPath(d))' = Content(schemaPath(d))
    BY <1>1, <1>2, <2>3, PromisedPaths DEF schemaPath
  <2> QED
    BY <2>4, SameTables
<1>9. ASSUME stmt[t].op \notin RowOps
      PROVE  absRows' = absRows
  <2>1. \/ Destination(t) = catalogPath
        \/ Destination(t) = schemaPath(currentDb)
    BY <1>2, <1>9 DEF Destination
  <2>2. \A p \in Dbs \X Tables : p[1] # NoDb /\ p[2] # "schema"
    BY NamesAssumption
  <2>3. \A p \in Dbs \X Tables : p # Destination(t)
    BY <2>1, <2>2 DEF catalogPath, schemaPath
  <2>4. \A p \in Dbs \X Tables : Content(p)' = Content(p)
    BY <1>1, <1>2, <2>3, PromisedPaths
  <2> QED
    BY <2>4, SameRows
<1> QED
  BY <1>5, <1>6, <1>7, <1>8, <1>9

LEMMA CloseListing ==
    ASSUME OneConnection, "schema" \notin Tables, Kept, NEW t \in Threads, Close(t),
           stmt[t].op \in DbOps
    PROVE  Silent \/ Promise!Effect(t)
<1>1. /\ pc[t] = "close" /\ stmt[t] \in Statement /\ stmt' = stmt /\ result' = result
      /\ pc'[t] = IF stmt[t].op = "dropDatabase" THEN "compareDb" ELSE "respond"
      /\ Ready(t)
  BY CloseLeaves
<1>2. /\ absTabs' = absTabs /\ absRows' = absRows /\ absCur' = absCur
      /\ (Dropping(t)' <=> Dropping(t))
      /\ stmt[t].op # "createDatabase" => absDbs' = absDbs
  BY CloseStays DEF DbOps, TableOps, RowOps
<1>3. CASE stmt[t].op = "dropDatabase"
  <2>1. Dropping(t) /\ Dropping(t)'
    BY <1>1, <1>2, <1>3 DEF Dropping
  <2>2. CallOf(t)' = CallOf(t)
    BY <1>1, <2>1, Phases, NextPhases
  <2> QED
    BY <1>2, <1>3, <2>2, SilentIs DEF Stays
<1>4. CASE stmt[t].op = "createDatabase"
  <2>1. stmt[t].db \notin absDbs /\ absDbs' = absDbs \cup {stmt[t].db}
    BY <1>1, <1>4, DbsSteps DEF Ready, Allowed, Step
  <2>2. result'[t] = Success /\ pc'[t] = "respond" /\ Waiting(t)
    BY <1>1, <1>4 DEF Ready, Outcome, RowOps, Waiting, Dropping
  <2>3. /\ absCall[t].stmt = stmt[t] /\ absCall[t] # Promise!Idle /\ ~ absCall[t].done
        /\ Promise!Done(t, Success)
    BY <1>1, <2>2, EffectIs
  <2>4. Promise!Ok = Success
    BY CallRecords
  <2>5. Promise!CreateDatabase(t, stmt[t].db)
    BY <1>2, <2>1, <2>3, <2>4 DEF Promise!CreateDatabase
  <2> QED
    BY <1>4, <2>3, <2>5 DEF Promise!Effect, Promise!Succeed
<1> QED
  BY <1>1, <1>3, <1>4 DEF DbOps, Ready, Allowed

LEMMA CloseSchema ==
    ASSUME OneConnection, "schema" \notin Tables, Kept, NEW t \in Threads, Close(t),
           stmt[t].op \in TableOps
    PROVE  Promise!Effect(t)
<1>1. TypedAndFit
  BY DEF Kept, KindsKept
<1>2. /\ pc[t] = "close" /\ stmt[t] \in Statement /\ stmt' = stmt /\ result' = result
      /\ currentDb' = currentDb /\ Destination(t) \in Paths
      /\ pc'[t] = "respond" /\ Ready(t)
      /\ \A p \in Paths : Content(p)' = IF p = Destination(t) THEN Intended(t) ELSE Content(p)
  BY CloseLeaves DEF TableOps
<1>3. /\ absRows' = absRows /\ absCur' = absCur /\ absDbs' = absDbs
      /\ stmt[t].op \in {"createTable", "dropTable"} /\ ~ Dropping(t) /\ Waiting(t)
  BY <1>2, CloseStays DEF TableOps, RowOps, Dropping, Waiting
<1>4. stmt[t].table \in Tables /\ stmt[t].op \notin DbOps /\ stmt[t].op \notin RowOps
  BY <1>2, StatementFields DEF TableOps, DbOps, RowOps
<1>5. currentDb # NoDb /\ currentDb \in Dbs /\ Destination(t) = schemaPath(currentDb)
  BY <1>1, <1>2, <1>4 DEF Ready, Allowed, Destination, TypedAndFit, TypeOK, Dirs
<1>6. PICK c, tb : c = currentDb /\ tb = stmt[t].table
  OBVIOUS
<1>7. absCur = c /\ (tb \in absTabs[c] <=> tb \in Listed(schemaPath(c)))
  BY <1>3, <1>4, <1>5, <1>6, Promised
<1>8. PICK L : L = NamesIn(Intended(t).names) \cap Tables
  OBVIOUS
<1>9. absTabs' = [absTabs EXCEPT ![c] = L]
  <2>1. ASSUME NEW d \in Dbs
        PROVE  (Listed(schemaPath(d)) \cap Tables)' =
                 IF d = c THEN L ELSE Listed(schemaPath(d)) \cap Tables
    <3>1. schemaPath(d) \in Paths /\ (schemaPath(d) = Destination(t) <=> d = c)
      BY <1>1, <1>5, <1>6, PromisedPaths DEF schemaPath
    <3>2. Content(schemaPath(d))' = IF d = c THEN Intended(t) ELSE Content(schemaPath(d))
      BY <1>2, <3>1 DEF schemaPath
    <3>3. Listed(schemaPath(d))' =
            IF d = c THEN NamesIn(Intended(t).names) ELSE Listed(schemaPath(d))
      BY <3>2 DEF Listed, NamesIn, schemaPath
    <3> QED
      BY <1>8, <3>3
  <2> QED
    BY <2>1 DEF absTabs
<1>10. result'[t] = Success
  BY <1>2, <1>4 DEF Ready, Outcome
<1>11. /\ absCall[t].stmt = stmt[t] /\ absCall[t] # Promise!Idle /\ ~ absCall[t].done
       /\ Promise!Done(t, Success)
  BY <1>2, <1>3, <1>10, EffectIs
<1>12. Promise!Ok = Success
  BY CallRecords
<1>13. absTabs[c] = Listed(schemaPath(c)) \cap Tables
  BY <1>5, <1>6 DEF absTabs
<1>14. CASE stmt[t].op = "createTable"
  <2>1. tb \notin absTabs[c]
    BY <1>2, <1>6, <1>7, <1>14 DEF Ready, Allowed
  <2>2. L = absTabs[c] \cup {tb}
    BY <1>1, <1>2, <1>4, <1>5, <1>6, <1>8, <1>13, <1>14, IntendedNames
  <2>3. Promise!CreateTable(t, tb)
    BY <1>3, <1>5, <1>6, <1>7, <1>9, <1>11, <1>12, <2>1, <2>2 DEF Promise!CreateTable
  <2> QED
    BY <1>6, <1>11, <1>14, <2>3 DEF Promise!Effect, Promise!Succeed
<1>15. CASE stmt[t].op = "dropTable"
  <2>1. tb \in absTabs[c]
    BY <1>2, <1>6, <1>7, <1>15 DEF Ready, Allowed
  <2>2. L = absTabs[c] \ {tb}
    BY <1>1, <1>2, <1>4, <1>5, <1>6, <1>8, <1>13, <1>15, IntendedNames
  <2>3. Promise!DropTable(t, tb)
    BY <1>3, <1>5, <1>6, <1>7, <1>9, <1>11, <1>12, <2>1, <2>2 DEF Promise!DropTable
  <2> QED
    BY <1>6, <1>11, <1>15, <2>3 DEF Promise!Effect, Promise!Succeed
<1> QED
  BY <1>3, <1>14, <1>15

LEMMA CloseRows ==
    ASSUME OneConnection, "schema" \notin Tables, Kept, NEW t \in Threads, Close(t),
           stmt[t].op \in RowOps, result[t].ok
    PROVE  Promise!Effect(t)
<1> DEFINE s    == stmt[t]
           recs == Found(t)
           cols == Columns[s.table]
           new  == NewRecords(s, recs)
           k    == <<currentDb, s.table>>
<1>1. TypedAndFit
  BY DEF Kept, KindsKept
<1>2. /\ pc[t] = "close" /\ s \in Statement /\ stmt' = stmt /\ result' = result
      /\ Destination(t) \in Paths /\ pc'[t] = "respond" /\ Ready(t)
      /\ \A p \in Paths : Content(p)' = IF p = Destination(t) THEN Intended(t) ELSE Content(p)
  BY CloseLeaves DEF RowOps
<1>3. /\ absTabs' = absTabs /\ absCur' = absCur /\ absDbs' = absDbs
      /\ ~ Dropping(t) /\ Waiting(t) /\ s.op \notin DbOps /\ s.op \notin TableOps
  BY <1>2, CloseStays DEF TableOps, RowOps, DbOps, Dropping, Waiting
<1>4. /\ s.op \in {"insert", "update", "delete"} /\ currentDb # NoDb /\ currentDb \in Dbs
      /\ s.table \in Listed(schemaPath(currentDb)) /\ WellFormed(s) /\ ~ PredicateThrows(s, recs)
  BY <1>1, <1>2, <1>3 DEF Ready, Allowed, RowOps, TypedAndFit, TypeOK, Dirs
<1>5. s.table \in Tables
  BY <1>2, StatementFields
<1>6. absCur = currentDb /\ s.table \in absTabs[absCur]
  BY <1>3, <1>4, <1>5, Promised
<1>7. /\ k \in Dbs \X Tables /\ Destination(t) = k /\ cols \in Seq(Column)
      /\ recs \in Seq(Record) /\ Full(recs, cols)
  BY <1>1, <1>2, <1>4, FoundRows
<1>8. /\ ~ WriteThrows(new, cols)
      /\ result[t] = [Success EXCEPT !.affected = RowsAffected(s, recs)]
  <2>1. NoResult.ok = FALSE
    BY DEF NoResult
  <2> QED
    BY <1>2, <2>1 DEF Ready, Outcome
<1>9. new \in Seq(Record) /\ Full(new, cols)
  BY <1>2, <1>4, <1>7, RewrittenType DEF NewRecords
<1>10. Intended(t) = Rewrite(new, cols)
  BY <1>4 DEF Intended
<1>11. RowsOf(Intended(t), s.table) = LiveRows(new)
  BY <1>7, <1>8, <1>9, <1>10, RewriteIsReadBack DEF RowsOf
<1>12. absRows' = [absRows EXCEPT ![k] = LiveRows(new)]
  <2>1. PICK key, tb, L : key = k /\ tb = s.table /\ L = LiveRows(new)
    OBVIOUS
  <2>2. ASSUME NEW p \in Dbs \X Tables
        PROVE  RowsOf(Content(p)', p[2]) = IF p = key THEN L ELSE RowsOf(Content(p), p[2])
    <3>1. Content(p)' = IF p = key THEN Intended(t) ELSE Content(p)
      BY <1>1, <1>2, <1>7, <2>1, PromisedPaths
    <3>2. key[2] = tb
      BY <2>1
    <3> QED
      BY <1>11, <2>1, <3>1, <3>2
  <2> HIDE DEF k, new
  <2> QED
    BY <2>1, <2>2, AbsRowsAre
<1>13. /\ absCall[t].stmt = s /\ absCall[t] # Promise!Idle /\ ~ absCall[t].done
       /\ Promise!Done(t, [Success EXCEPT !.affected = RowsAffected(s, recs)])
  BY <1>2, <1>3, <1>8, EffectIs
<1>14. Promise!OnRows(t, s)
  BY <1>1, <1>2, <1>3, <1>4, <1>6, <1>8, <1>12, <1>13, ChangeIs
<1> QED
  BY <1>4, <1>13, <1>14 DEF Promise!Effect, Promise!Succeed

LEMMA CloseStep ==
    ASSUME OneConnection, "schema" \notin Tables, Kept, NEW t \in Threads, Close(t), result[t].ok
    PROVE  Silent \/ Promise!Effect(t)
<1>1. stmt[t].op \in DbOps \cup TableOps \cup RowOps
  BY CloseLeaves, StatementFields
<1> QED
  BY <1>1, CloseListing, CloseSchema, CloseRows

-----------------------------------------------------------------------------
(* Every step is a step of the promise, or none.                           *)

\* What is to be written fits the columns it is written to: no statement
\* fails after it began to rewrite a file.
WritesSucceed == \A t \in Threads : pc[t] = "close" => result[t].ok

LEMMA ThreadStep ==
    ASSUME OneConnection, "schema" \notin Tables, Kept, WritesSucceed,
           NEW t \in Threads, Receive(t) \/ Step(t)
    PROVE  Promise!Next \/ Silent
<1>1. Promise!Call(t) \/ Promise!Effect(t) \/ Promise!Return(t) \/ Silent
  <2>1. CASE Close(t)
    BY <2>1, CloseStep DEF WritesSucceed, Close, At
  <2>2. CASE Receive(t) \/ Respond(t)
    BY <2>2, ReceiveStep, RespondStep
  <2>3. CASE MakeDirectory(t) \/ ListDatabases(t) \/ Open(t) \/ Flush(t)
             \/ CompareDatabase(t) \/ ResetDatabase(t)
    BY <2>3, SilentSteps, ForgetStep
  <2>4. CASE RemoveDirectory(t) \/ SetCurrentDatabase(t)
    BY <2>4, RemoveDirectoryStep, SetCurrentDatabaseStep
  <2>5. CASE DatabaseExists(t) \/ RequireDb(t) \/ TableExists(t) \/ LoadSchema(t) \/ RequireTable(t)
    BY <2>5, DatabaseExistsStep, RequireDbStep, TableExistsStep, LoadSchemaStep, RequireTableStep
  <2>6. CASE Rows(t)
    BY <2>6, RowsAnswer
  <2> QED
    BY <2>1, <2>2, <2>3, <2>4, <2>5, <2>6 DEF Step
<1> QED
  BY <1>1 DEF Promise!Next

\* The promised statements between two statements.
LEMMA IdleCalls ==
    /\ (\A t \in Threads : pc[t] = "idle" /\ stmt[t] = NoStatement) =>
         absCall = [t \in Threads |-> Promise!Idle]
    /\ (\A t \in Threads : pc'[t] = "idle" /\ stmt'[t] = NoStatement) =>
         absCall' = [t \in Threads |-> Promise!Idle]
<1>1. absCall = [t \in Threads |-> CallOf(t)] /\ absCall' = [t \in Threads |-> CallOf(t)']
  BY DEF absCall, CallOf
<1>2. \A t \in Threads :
        /\ pc[t] = "idle" /\ stmt[t] = NoStatement => CallOf(t) = Promise!Idle
        /\ pc'[t] = "idle" /\ stmt'[t] = NoStatement => CallOf(t)' = Promise!Idle
  BY Phases, NextPhases
<1> QED
  BY <1>1, <1>2

LEMMA RestartStep ==
    ASSUME ~ CrashAllowed, Kept, Restart
    PROVE  Promise!Restart
<1>1. /\ \A t \in Threads : /\ pc[t] = "idle" /\ stmt[t] = NoStatement
                            /\ pc'[t] = "idle" /\ stmt'[t] = NoStatement
      /\ files' = files /\ currentDb' = NoDb
  BY DEF Restart, LoseStreams, At, Kept, RefInv, Checked
<1>2. \A p : Content(p)' = Content(p)
  BY <1>1, AllIdle, NextAllIdle
<1>3. absDbs' = absDbs /\ absCur' = NoDb
  <2>1. Listed(catalogPath)' = Listed(catalogPath)
    BY <1>2 DEF Listed, catalogPath
  <2> QED
    BY <1>1, <2>1, AllIdle, NextAllIdle
<1>4. absTabs' = absTabs
  <2>1. \A d \in Dbs : Content(schemaPath(d))' = Content(schemaPath(d))
    BY <1>2 DEF schemaPath
  <2> QED
    BY <2>1, SameTables
<1>5. absRows' = absRows
  BY <1>2, SameRows
<1>6. absCall' = absCall /\ \A t \in Threads : absCall[t] = Promise!Idle
  BY <1>1, IdleCalls
<1> QED
  BY <1>3, <1>4, <1>5, <1>6 DEF Promise!Restart

LEMMA StutterStep == UNCHANGED vars => Silent
<1> SUFFICES ASSUME UNCHANGED vars
             PROVE  Silent
  OBVIOUS
<1> USE DEF vars
<1>1. \A p : Content(p)' = Content(p)
  BY DEF Content, At
<1>2. (\A d : Dropped(d)' <=> Dropped(d)) /\ (\A t : Dropping(t)' <=> Dropping(t))
  BY DEF Dropped, Dropping
<1>3. absDbs' = absDbs /\ absCur' = absCur
  BY <1>1, <1>2 DEF absDbs, absCur, Listed, catalogPath, Dropped, Dropping
<1>4. absTabs' = absTabs
  <2>1. \A d \in Dbs : Content(schemaPath(d))' = Content(schemaPath(d))
    BY <1>1 DEF schemaPath
  <2> QED
    BY <2>1, SameTables
<1>5. absRows' = absRows
  BY <1>1, SameRows
<1>6. absCall' = absCall
  BY <1>2 DEF absCall, At, Success, NoResult, Dropping
<1> QED
  BY <1>3, <1>4, <1>5, <1>6 DEF Silent, Promise!relVars

LEMMA NextPromised ==
    ASSUME OneConnection, ~ CrashAllowed, "schema" \notin Tables, Kept, WritesSucceed, [Next]_vars
    PROVE  [Promise!Next]_(Promise!relVars)
<1>1. Promise!Next \/ Silent
  BY ThreadStep, RestartStep, StutterStep DEF Next, Promise!Next
<1> QED
  BY <1>1 DEF Silent

LEMMA InitPromised == Init => Promise!Init
<1> SUFFICES ASSUME Init
             PROVE  Promise!Init
  OBVIOUS
<1>1. \A t \in Threads : pc[t] = "idle" /\ stmt[t] = NoStatement
  BY DEF Init
<1>2. absDbs = NamesIn(Installed) /\ absCur = NoDb
  BY <1>1, AllIdle, InitListed DEF Init
<1>3. absTabs = [d \in Dbs |-> IF d \in absDbs THEN NamesIn(InstalledTables) ELSE {}]
  <2>1. NamesIn(InstalledTables) \subseteq Tables
    BY InstalledAssumption DEF NamesIn
  <2>2. \A d \in Dbs : Listed(schemaPath(d)) \cap Tables =
                         IF d \in absDbs THEN NamesIn(InstalledTables) ELSE {}
    BY <1>2, <2>1, InitListed
  <2> QED
    BY <2>2 DEF absTabs
<1>4. absRows = [p \in Dbs \X Tables |-> << >>]
  <2>1. ASSUME NEW p \in Dbs \X Tables
        PROVE  RowsOf(Content(p), p[2]) = << >>
    <3>1. TypedAndFit
      BY InitTyped
    <3>2. p \in Paths /\ files[p] \in File /\ Columns[p[2]] \in Seq(Column)
      BY <3>1, PromisedPaths, NamesAssumption DEF TypedAndFit, TypeOK, StorageTypeOK
    <3>3. Content(p) = files[p] /\ files[p].total = 0
      BY <1>1, <3>2, AllIdle, InitListed
    <3> QED
      BY <3>2, <3>3, NoRecords DEF RowsOf
  <2> QED
    BY <2>1, AbsRowsAre
<1>5. absCall = [t \in Threads |-> Promise!Idle]
  BY <1>1, IdleCalls
<1> QED
  BY <1>2, <1>3, <1>4, <1>5 DEF Promise!Init, NamesIn

\* With one connection, and as long as the process stops only between
\* statements and no write fails in the middle of a file, every statement the
\* executor runs over its files, in up to six steps and two rewrites, has the
\* effect and the answer RelStore gives it at one moment between its arrival
\* and its answer (Executor.cpp and StorageEngine.cpp).
THEOREM ConnectionIsAtomic ==
    ASSUME OneConnection, ~ CrashAllowed, "schema" \notin Tables
    PROVE  Spec /\ []WritesSucceed => ImplementsRelStore
<1>1. Init => Kept /\ Promise!Init
  BY InitKept, InitPromised
<1>2. Kept /\ [Next]_vars => Kept'
  BY NextKept
<1>3. Kept /\ WritesSucceed /\ [Next]_vars => [Promise!Next]_(Promise!relVars)
  BY NextPromised
<1> QED
  BY <1>1, <1>2, <1>3, PTL DEF Spec, ImplementsRelStore, Promise!Spec

-----------------------------------------------------------------------------
(* Statements that give every column a value of its type never fail in the *)
(* middle of a file.                                                       *)

\* The values of an INSERT or UPDATE are of the types of their columns.
ValuesFit(s) ==
    LET cols == Columns[s.table]
    IN  /\ s.op = "insert" /\ WellFormed(s) => \A i \in DOMAIN NewRows(s) : RowOk(NewRows(s)[i], cols)
        /\ s.op = "update" => \A i \in DOMAIN s.columns, c \in DOMAIN cols :
                ColumnIndex(s.columns[i], cols) = c => FieldOk(s.value[i], cols[c])

WorkloadFits == \A t \in Threads : \A s \in Workload[t] : ValuesFit(s)

LEMMA AssignOk ==
    ASSUME NEW cols \in Seq(Column), NEW row, RowOk(row, cols),
           NEW names \in Seq(ColumnName), NEW values,
           \A i \in DOMAIN names, c \in DOMAIN cols :
             ColumnIndex(names[i], cols) = c => FieldOk(values[i], cols[c])
    PROVE  RowOk(Assign(row, names, values, cols), cols)
<1> DEFINE given(c) == {i \in DOMAIN names : ColumnIndex(names[i], cols) = c}
<1>1. ASSUME NEW c \in DOMAIN cols, given(c) # {}
      PROVE  FieldOk(values[Max(given(c))], cols[c])
  <2>1. given(c) \subseteq 1 .. Len(names) /\ Len(names) \in Nat
    OBVIOUS
  <2>2. \A i \in given(c) : i \in DOMAIN names /\ ColumnIndex(names[i], cols) = c
    OBVIOUS
  <2> HIDE DEF given
  <2>3. Max(given(c)) \in given(c)
    BY <1>1, <2>1, MaxIsGreatest
  <2> QED
    BY <2>2, <2>3
<1>2. \A c \in DOMAIN cols : FieldOk(row[c], cols[c])
  BY DEF RowOk
<1>3. Assign(row, names, values, cols) =
        [c \in 1 .. Len(cols) |-> IF given(c) = {} THEN row[c] ELSE values[Max(given(c))]]
  BY DEF Assign
<1> HIDE DEF given
<1>4. \A c \in DOMAIN cols : FieldOk(Assign(row, names, values, cols)[c], cols[c])
  BY <1>1, <1>2, <1>3
<1> QED
  BY <1>4 DEF RowOk

\* Records that fit are replaced by records that fit.
LEMMA NewRecordsFit ==
    ASSUME NEW s \in Statement, s.op \in {"insert", "update", "delete"}, WellFormed(s), ValuesFit(s),
           NEW recs \in Seq(Record), \A i \in DOMAIN recs : RowOk(recs[i].vals, Columns[s.table])
    PROVE  ~ WriteThrows(NewRecords(s, recs), Columns[s.table])
<1> DEFINE cols == Columns[s.table]
<1>1. cols \in Seq(Column)
  <2>1. s.table \in Tables
    BY StatementFields DEF RowOps
  <2> QED
    BY <2>1, NamesAssumption
<1>2. PICK new : new = NewRecords(s, recs)
  OBVIOUS
<1>3. \A i \in DOMAIN new : RowOk(new[i].vals, cols)
  <2>1. CASE s.op = "insert"
    <3>1. PICK rs : rs = NewRows(s)
      OBVIOUS
    <3>2. rs \in Seq(Seq(Value)) /\ \A i \in DOMAIN rs : RowOk(rs[i], cols)
      BY <2>1, <3>1, NewRowsType DEF Row, ValuesFit
    <3>3. PICK n, m, added : /\ n = Len(recs) /\ m = Len(rs)
                             /\ added = [i \in 1 .. m |-> [del |-> FALSE, vals |-> rs[i]]]
      OBVIOUS
    <3>4. new = recs \o added
      BY <1>2, <2>1, <3>1, <3>3 DEF NewRecords, Rewritten, appendRows
    <3>5. added \in Seq(Record) /\ Len(added) = m /\ \A i \in 1 .. m : added[i].vals = rs[i]
      BY <3>2, <3>3 DEF Record
    <3>6. ASSUME NEW i \in DOMAIN new
          PROVE  RowOk(new[i].vals, cols)
      <4>1. \/ i \in DOMAIN recs /\ new[i] = recs[i]
            \/ i - n \in 1 .. m /\ new[i] = added[i - n]
        BY <3>3, <3>4, <3>5
      <4>2. CASE i \in DOMAIN recs /\ new[i] = recs[i]
        BY <4>2
      <4>3. CASE i - n \in 1 .. m /\ new[i] = added[i - n]
        <5>1. i - n \in DOMAIN rs /\ new[i].vals = rs[i - n]
          BY <3>2, <3>3, <3>5, <4>3
        <5> QED
          BY <3>2, <5>1
      <4> QED
        BY <4>1, <4>2, <4>3
    <3> QED
      BY <3>6
  <2>2. CASE s.op = "update"
    <3>1. PICK H : H = Hits(s, recs)
      OBVIOUS
    <3>2. new = updateRows(recs, H, s.columns, s.value, cols)
      BY <1>2, <2>2, <3>1 DEF NewRecords, Rewritten
    <3>3. ASSUME NEW i \in DOMAIN new
          PROVE  RowOk(new[i].vals, cols)
      <4>1. /\ i \in DOMAIN recs /\ recs[i] \in Record
            /\ new[i] = IF i \in H THEN [recs[i] EXCEPT !.vals = Assign(recs[i].vals, s.columns, s.value, cols)]
                        ELSE recs[i]
        BY <3>2 DEF updateRows
      <4>2. i \in H => new[i].vals = Assign(recs[i].vals, s.columns, s.value, cols)
        BY <4>1 DEF Record
      <4>3. RowOk(Assign(recs[i].vals, s.columns, s.value, cols), cols)
        <5>1. s.columns \in Seq(ColumnName)
          BY <2>2, StatementFields
        <5>2. \A j \in DOMAIN s.columns, c \in DOMAIN cols :
                ColumnIndex(s.columns[j], cols) = c => FieldOk(s.value[j], cols[c])
          BY <2>2 DEF ValuesFit
        <5> QED
          BY <1>1, <4>1, <5>1, <5>2, AssignOk
      <4> QED
        BY <4>1, <4>2, <4>3
    <3> QED
      BY <3>3
  <2>3. CASE s.op = "delete"
    <3>1. PICK H : H = Hits(s, recs)
      OBVIOUS
    <3>2. new = deleteRows(recs, H)
      BY <1>2, <2>3, <3>1 DEF NewRecords, Rewritten
    <3>3. ASSUME NEW i \in DOMAIN new
          PROVE  i \in DOMAIN recs /\ new[i].vals = recs[i].vals
      <4>1. i \in DOMAIN recs /\ new[i] = [recs[i] EXCEPT !.del = i \in H \/ recs[i].del]
        BY <3>2 DEF deleteRows
      <4>2. recs[i] \in Record
        BY <4>1
      <4> QED
        BY <4>1, <4>2 DEF Record
    <3> QED
      BY <3>3
  <2> QED
    BY <2>1, <2>2, <2>3
<1> QED
  BY <1>2, <1>3 DEF WriteThrows, IllTyped

\* A thread runs a statement it was sent.
Sent == \A t \in Threads : stmt[t] # NoStatement => stmt[t] \in Workload[t]

FitInv == Kept /\ RowsInv /\ Sent

LEMMA SentStep ==
    ASSUME OneConnection, Sent, [Next]_vars
    PROVE  Sent'
<1>1. ASSUME NEW t \in Threads, Receive(t) \/ Step(t)
      PROVE  Sent'
  <2>1. Threads = {t}
    BY OnlyThread
  <2>2. CASE stmt' = stmt
    BY <2>2 DEF Sent
  <2>3. CASE Receive(t)
    <3>1. PICK s \in Workload[t] : stmt' = [stmt EXCEPT ![t] = s]
      BY <2>3 DEF Receive
    <3>2. stmt'[t] = s \/ stmt'[t] = stmt[t]
      BY <3>1
    <3> QED
      BY <2>1, <3>1, <3>2 DEF Sent
  <2>4. CASE Respond(t)
    <3>1. stmt' = [stmt EXCEPT ![t] = NoStatement]
      BY <2>4 DEF Respond
    <3>2. stmt'[t] = NoStatement \/ stmt'[t] = stmt[t]
      BY <3>1
    <3> QED
      BY <2>1, <3>2 DEF Sent, NoStatement
  <2> QED
    BY <1>1, <2>2, <2>3, <2>4, WhatChanges
<1>2. CASE Restart
  BY <1>2 DEF Restart, Sent, NoStatement
<1>3. CASE UNCHANGED vars
  BY <1>3 DEF vars, Sent, NoStatement
<1> QED
  BY <1>1, <1>2, <1>3 DEF Next

LEMMA FitWrites ==
    ASSUME OneConnection, WorkloadFits, FitInv
    PROVE  WritesSucceed
<1> SUFFICES ASSUME NEW t \in Threads, pc[t] = "close"
             PROVE  result[t].ok
  BY DEF WritesSucceed
<1> DEFINE s    == stmt[t]
           recs == Found(t)
           cols == Columns[s.table]
<1>1. s \in Statement /\ Ready(t) /\ stream[t].linked /\ stream[t].path = Destination(t)
  BY DEF FitInv, Kept, Routed, RefInv, Checked
<1>2. Success.ok = TRUE /\ \A n : [Success EXCEPT !.affected = n].ok = TRUE
  BY DEF Success, NoResult
<1>3. CASE s.op \notin RowOps
  BY <1>1, <1>2, <1>3 DEF Ready, Outcome
<1>4. CASE s.op \in RowOps
  <2>1. s.op \in {"insert", "update", "delete"}
    BY <1>1, <1>4 DEF Ready, Allowed, RowOps
  <2>2. Carries(t, stream[t].base, stream[t].content)
    BY <2>1 DEF FitInv, RowsInv, RowsKept
  <2>3. Content(Destination(t)) = stream[t].base
    BY <1>1, ContentOf
  <2>4. /\ WellFormed(s) /\ stream[t].base \in File
        /\ \A i \in DOMAIN recs : RowOk(recs[i].vals, cols)
    BY <2>2, <2>3 DEF Carries, Found
  <2>5. cols \in Seq(Column) /\ recs \in Seq(Record)
    <3>1. cols \in Seq(Column)
      BY <1>1, <1>4, StatementFields, NamesAssumption
    <3> QED
      BY <2>3, <2>4, <3>1, ReadRecordsType DEF Found
  <2>6. ValuesFit(s)
    <3>1. s # NoStatement
      BY <1>4 DEF NoStatement, RowOps
    <3> QED
      BY <3>1 DEF FitInv, Sent, WorkloadFits
  <2>7. ~ WriteThrows(NewRecords(s, recs), cols)
    BY <1>1, <2>1, <2>4, <2>5, <2>6, NewRecordsFit
  <2> QED
    BY <1>1, <1>2, <1>4, <2>7 DEF Ready, Outcome
<1> QED
  BY <1>3, <1>4

LEMMA InitFit == Init => FitInv
<1>1. Init => Sent
  BY DEF Init, Sent
<1> QED
  BY <1>1, InitKept, InitRows DEF FitInv

LEMMA NextFit ==
    ASSUME OneConnection, ~ CrashAllowed, "schema" \notin Tables, FitInv, [Next]_vars
    PROVE  FitInv'
BY NextKept, NextRows, SentStep DEF FitInv

\* With one connection, statements whose values are of the types of their
\* columns, and a process that stops only between statements, the executor
\* implements RelStore: no condition on what happens while it runs is left.
THEOREM FittingWorkloadIsAtomic ==
    ASSUME OneConnection, ~ CrashAllowed, "schema" \notin Tables, WorkloadFits
    PROVE  Spec => ImplementsRelStore
<1>1. Init => FitInv /\ Promise!Init
  BY InitFit, InitPromised
<1>2. FitInv /\ [Next]_vars => FitInv'
  BY NextFit
<1>3. FitInv /\ [Next]_vars => [Promise!Next]_(Promise!relVars)
  BY FitWrites, NextPromised DEF FitInv
<1> QED
  BY <1>1, <1>2, <1>3, PTL DEF Spec, ImplementsRelStore, Promise!Spec
=============================================================================
