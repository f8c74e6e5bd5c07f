# chapaBD in TLA+

chapaBD is a small relational database in C++17: a TCP server and an HTTP
server parse SQL, an executor runs each statement against binary files, and a
singleton keeps users and privileges. This directory models the parts of it
that are hard to test: what statements do to the files when they fail half
way, when connections interleave and when the process is stopped; what a SELECT
answers; the user list with its mutex and its file; the way of a statement from
the terminal through the client library, the socket, the lexer and the parser,
and of its answer back; and the web page with its requests. TLC checks the
models on small instances; TLAPS proves the type invariants, most of the safety
properties and two refinements for every value of the constants.

Paths below are relative to the repository root (`src/storage/...`,
`lib/src/...`).

## 1. The system

| Component | State | Operations | Correct when |
|---|---|---|---|
| Storage engine `src/storage/StorageEngine.cpp` | `catalog.dat`, one directory per database with `schema.dat` and one `.dat` per table; no state in memory, no lock | `createDatabase`, `dropDatabase`, `listDatabases`, `loadSchema`, `saveSchema`, `tableExists`, `readRows`, `appendRows`, `deleteRows`, `updateRows` | what is read back is what was written; files stay readable after failures; a write touches only what it should |
| Catalog `src/catalog/Catalog.cpp` | the storage engine, `m_currentDb` (one for the whole process) | `currentDatabase`, `setCurrentDatabase`, `hasCurrentDatabase` | the current database exists |
| Executor `src/executor/Executor.cpp` | one `QueryResult` per statement | one `visit` per statement | every statement is answered as if it ran alone and at once |
| Condition tree `src/parser/ast/Statements.*` | none | `evaluate`, `compareValues` | comparisons follow the kinds of the values; NULL matches nothing |
| Users `src/auth/AuthManager.cpp` | `m_users`, `m_mutex`, `users.dat` | `init`, `createUser`, `dropUser`, `grantPrivilege`, `revokePrivilege`, `authenticate`, `can*`, `getRole`, `listUsers` | names unique, an admin exists, the file follows the memory, GRANT and REVOKE do what they say |
| TCP server `src/network/Server.cpp` | one detached thread per connection | `run`, `stop`, `handleClient`, `processQuery`, JSON building | one answer per request, in order |
| HTTP server and web API `src/web/*` | one thread per request; in the page `currentDb`, the tree and the results | `POST /api/query`, `/api/databases`, `/api/tables`; `loadDatabases`, `toggleDb`, `selectTable`, `executeQuery` | a query runs on the database the page named; the page shows what is there |
| Client library `lib/src/Client.cpp` | a socket | `connect`, `execute`, `disconnect`, JSON parsing | an answer belongs to its request and decodes to what was sent |
| Lexer, parser `src/lexer`, `src/parser` | position in the text / tokens | `tokenize`, `parse` | the tree is the one the grammar gives |
| `src/main.cpp` | pointers to the servers | start, signal handler | what was answered survives a stop |
| Terminal client `client/main.cpp` | a buffer of lines | the loop over lines, `execute` at a semicolon | each statement typed is executed once, in order |

How they interact. Every connection is a detached thread (`Server::run`,
`HttpServer::listen`). A request is lexed, parsed and given to a fresh
`Executor`; its `visit` method calls the `Catalog` singleton for the current
database and the storage engine, or the `AuthManager` singleton. So threads
share three things: the files, the current database, and the user list. The
user list has a mutex that is held through the rewrite of `users.dat`. The
current database has a mutex in its setter only. The files have nothing: every
write reads the whole file, changes it in memory, truncates it and streams it
out again, and two threads may be anywhere in that sequence.

What is hard: interleaved rewrites of one file; a reader that meets a truncated
file; the current database changing under a statement (`requireDb` returns a
reference to it, and paths are built from it later); `std::get` throwing on an
ill-typed value in the middle of a rewrite; reading past the end of a short
file, which yields zeros; a stop between two steps (`main` does not wait for
the threads); a save of `users.dat` that fails after the list was changed; a
connection that ends between the parts of a request or an answer, where only the
order on the socket says which answer belongs to which request; requests of one
page that overtake one another.
`PROJECT.json` lists each hazard at its line with the properties that cover it.

## 2. The modules

```
Positions  --  Values  --  TableFile  --  StorageEngine  --  Executor  --  ExecutorRefinement  --  MCExecutor  --  MCAcknowledged
                  \                                                            |
                   \------------------------- RelStore ------------- INSTANCE -/
Positions  --  Values  --  Conditions  --  Select  --  MCSelect
Positions  --  AuthManager  --  MCAuthManager
Protocol  --  Cli  --  MCSession                    Rpc -- INSTANCE in Protocol
Wire  ---------------/
Lexer  --------------/
Conditions -- Parser /  (Lexer and Parser also in MCSelect)
Positions  --  Web

PositionsProofs  --  ExecutorProofs  --  ConnectionProofs  --  RefinementProofs
                                         (RefinementProofs also extends ExecutorRefinement)
PositionsProofs  --  SelectProofs           PositionsProofs  --  AuthManagerProofs
PositionsProofs  --  WebProofs              ProtocolProofs
```

| Module | Models | Correspondence |
|---|---|---|
| `Positions` | loops that keep some elements of a vector in order | `Keep(s, S)` is `remove_if`/`erase` or a loop with a condition around `push_back` |
| `Values` | `Types.h`, `Statements.cpp` | a `Value` is the alternative of the variant and a datum; `compareValues`, `matchesWhere`, and `FieldOk`, the values `writeValue` accepts |
| `TableFile` | the content of a file and the pure part of `appendRows`, `deleteRows`, `updateRows`, `readRows` | a file is its magic number, the names it lists, the header count and the records that are really there, the last one possibly short |
| `StorageEngine` | files, directories and output streams | `OpenTrunc` is `std::ofstream(path, trunc)`, `CloseStream` its destructor (also on unwinding), which writes from offset 0 over whatever another stream has put there since (`LeftBy`), `FlushStream` a full buffer, `remove_all` unlinks under open streams |
| `Executor` | `Executor.cpp` over the engine and the catalog, one statement per thread | `pc[t]` names the next access to shared state; `Receive`/`Respond` are `handleClient`; each `visit` is the path of labels below |
| `RelStore` | the promise: an atomic relational store | abstract specification |
| `ExecutorRefinement` | the refinement mapping | `ImplementsRelStore == Promise!Spec` |
| `AuthManager` | `AuthManager.cpp` and its use by `main` and the executor | `Lock`, `Body`, `SaveOpen`, `SaveWrite`, `Unlock` are one call; `Load`, `BootOpen`, `BootWrite` are `init` |
| `Conditions` | the condition tree of `Statements.h` | a tree is its nodes in the order children, parent; `evaluate` gives true, false or an exception, and the right side of AND and OR counts only when the left does not decide |
| `Select` | `Executor::visit(SelectStatement&)` with `calcAgg`, `compareForSort`, `findColIndex` | the variables of the function are the variables of the module; `Scan`, `Join` (once per JOIN), `Filter`, `Project`, `Aggregate` or `Group`, `OrderBy`, `Limit` are its parts in their order; `Throws` and `ReadsPast` say where a part ends in an exception or reads `values[i]` past the end |
| `Lexer` | `Lexer.cpp` | `tokenize(text)` is the sequence of tokens, or position 0 for an exception; `readNumber`, `readString`, `readIdentifierOrKeyword` are the methods |
| `Parser` | `Parser.cpp` | each `parse...` method is an operator of the tokens and `m_pos` that yields the value and the position behind it; position 0 is an exception. `parse` yields the statements `Select` and `Executor` run |
| `Wire` | the JSON functions of `Server.cpp` and `Client.cpp` | `Json(result)` is the end of `processQuery`, `Status` the error flag, `parseResponse` the reader of the library |
| `Rpc` | the promise of `Client::execute` | abstract specification: a call is run at most once, and an answer shows what its run returned |
| `Protocol` | `Client` (connect, disconnect, execute) and the connection threads of `Server`, over sockets | each `send` and `recv` is an action; what one `sendAll` sends is one part under way; `Throw` is the catch of `execute`, `Close` the end of a thread, `Cut` the loss of a connection, `Stop` the end of the process; what is written for a result and read from it are the constants `Encoded`, `ErrorFlag`, `Decoded` and `Expected`, which are `Json`, `Status`, `parseResponse` and `ShownResult` of `Wire` in `MCSession` |
| `Cli` | `client/main.cpp` | `Enter` is an iteration of the loop that reaches the buffer, `Ignore` one that does not |
| `Web` | the handlers of `WebApi.cpp` and the script of its page | a function of the page runs from one `await` to the next; `Check`, `UseDb`, `RunQuery` are `POST /api/query`, `ListDatabases`, `CurrentDatabase` and `LoadSchema` the two GETs; `FetchFails` is a request that is lost, `CutShort` one that `handleClient` of the HTTP server handles though its end is missing |
| `MCExecutor`, `MCAcknowledged`, `MCAuthManager`, `MCSelect`, `MCSession` | constants, workloads and one history variable for TLC | |

The labels a statement goes through in `Executor`:

```
CREATE DATABASE   databaseExists, mkdir, listDatabases, open, close, respond
DROP DATABASE     databaseExists, rmdir, listDatabases, open, close, compareDb, resetDb, respond
USE               databaseExists, setDb, respond
CREATE TABLE      requireDb, tableExists, loadSchema, open, close, respond
DROP TABLE        requireDb, loadSchema, open, close, respond
SELECT            requireDb, requireTable, rows, respond
INSERT/UPDATE/DELETE  requireDb, requireTable, rows, open, close, respond
```

Errors go to `respond` with a failed result from wherever the code throws. An
ill-typed value makes the result a failure and the content of the stream the
prefix that was written before the exception.

### Abstractions

* Data of values are integers in the order the code compares them; 0 stands for
  0, 0.0, FALSE and the empty string, which is what zero bytes decode to.
* The columns of a table are fixed by its name (`Columns`). A table created
  again with other columns is therefore not modelled.
* A predicate is absent, a comparison, or NOT of a comparison.
* In `Executor` a SELECT is its scan; the rest of it touches nothing shared and
  is modelled in `Select`, where the other connections are one action, `Write`:
  any of its contents may be in a table before the statement and between the
  reads of a JOIN, or the table may be missing. (It may also be that of another
  database, when a USE comes in between.)
* In `Select` a FLOAT is a whole number, so the six decimals of the group key
  never merge two; an average is counted in units of 1/12. Reading a vector past
  its end is a state of its own, `undefined`, of which nothing more is said: the
  build may crash there or show anything. The key of NULL in a group is the text
  'NULL' in a column of any kind, another key than any number. A statement of
  `Select` has no HAVING: the parser reads its condition and the tree has no
  place for it. The run `having` shows what becomes of one that is written.
* A read of a file is one step. With several threads the files of the model fit
  the 8191-byte buffer of a stream, so a file is read by one `read` and written
  by one `write` at the end. With one thread (`Threads = {t}`), `Buffer`
  records at a time may reach the file before the end, so that a stop can cut a
  file after any number of records; a stop inside the bytes of one record is
  not modelled (an exception inside one is).
* A stream truncates its file when it is opened and writes from offset 0 when
  it is closed. If another stream was closed on the path in between, a content
  that ends early (an exception) lies over the bytes of the other: its header
  says how many records to read, those it has are its own, and of the rest,
  which starts anywhere in the other's bytes, `readValue` makes values of the
  columns' types, whatever they are: any record of values from `Leftover`. The
  last of its own records keeps the fields it has. A content that is complete
  covers all that is read later. `schema.dat` and `catalog.dat` are only written
  complete. A length of a text that does not fit into memory, which would end
  the read in an exception, is not modelled.
* `remove_all` is one step.
* Reading `m_currentDb` while another thread assigns it is a data race. Names
  of equal length within the small-string buffer are read as the old or the new
  one; longer names, where a read could mix them, are not modelled.
* A stop keeps what was handed to the operating system (the process dies, not
  the machine). A full disk is not modelled; a directory that does not exist is:
  the stream is then not linked and what it writes is lost.
* In an empty `users.dat` the magic number is read from an unset variable
  (`AuthManager.cpp:56`). The model takes it to be another number than
  0xCBD4: `load` runs before anything in the process had that number.
* `users.dat` fits one buffer; it is whole or empty.
* In `Lexer` a run of letters of which no part matters counts as one character;
  lines and columns of tokens are left out. A literal is compared with `MaxInt`
  instead of 2^31 - 1.
* In `Protocol` a part is what one `sendAll` sends (a length, the text, the
  status, the JSON). A part that is cut in its middle counts as lost, since its
  reader waits for all of it. A connection that is lost is noticed by both ends
  (TCP resets it); a peer that is silent for ever is not modelled. A `recv` may
  fail at any time, as a signal may interrupt it. What `processQuery` answers to
  a text is one of `Answers`; `Executor` and `Select` say which it is.
* In `Wire` a number, a key or a literal of JSON is one character, and a cell
  has its kind and the text it prints as.
* In `Web` a statement is one step (`Executor` has its steps), tables are left
  out, and so are the parts of a request and the JSON of its answer. A request
  or its answer may be lost, and a POST may be handled though its end has not
  arrived (`HttpServer.cpp:106-129`): `parseRequest` fills the body up with zero
  bytes. A POST of a query that is cut behind "sql" is one without "db" and runs
  on whatever is current; one that is cut before has a text the lexer refuses,
  which is the loss of it. The page has no answer either way. The statements of
  other connections are one action.
* Names: the parser never yields an empty name or a database called `*`.

What `Lexer`, `Parser` and `Wire` compute for the few texts of an instance is
kept in tables (`Readings` and `Unread` of `MCSelect`; `Tokens`, `Meant`,
`Responses` and `Misread` of `MCSession`), which are constants of those modules
so that TLC computes them once.

History variables, read by no guard: `produced` in `Select` (the rows before
ORDER BY), the field `base` of a stream (the file
before it was truncated), `unsaved` in `AuthManager`, `acknowledged` in
`MCAcknowledged`, `calls` in `Protocol` (for the text of the call under way it
is also where the local variable `sql` is), the field `call` of a part and of a
thread, `read` in `Cli`, and the fields `ran` and `switched` of a request in
`Web` (`ran` is also the `current` of the answer to `/api/databases`; `switched`
has the databases others selected since the handler's last step). `acts`,
`troubles` and `calm` in `Web` bound what happens and name what nobody else did.

## 3. What the runs check

| Run | Instance | Shows |
|---|---|---|
| `serial` | 1 connection, 2 databases, 1 table, files of up to 2 records before an INSERT, restarts between statements | `ImplementsRelStore`: each statement is one atomic statement of `RelStore`, errors included; `TypeOK` |
| `rough` | 1 connection, 1 database, tables `t` and `schema`, ill-typed INSERT and UPDATE, stops anywhere, 1 record per buffer | `FilesWellTyped`, `RecordsAligned`, `MagicMatchesPath`, `NamesUnique`, `CurrentDbListed`; `InsertKeepsRecords`: even a failing INSERT keeps the records before it; `SuccessIsLocal`: a successful UPDATE or DELETE changes no other row |
| `apart` | 2 connections with a table each, fair | the interleaving of two rewrites on different files implements `RelStore`; `EveryStatementAnswered` |
| `shared` | 2 connections; one drops, creates and selects the database and updates (also with a value of the wrong type), the other inserts into and reads `t` and `schema`; files of up to 2 records before an INSERT, so that a rewrite that fails may lie over a longer one; stops anywhere | `FilesWellTyped`, `SelectedRowsWellTyped`: whatever is lost or mixed, no file holds and no SELECT answers a value of a wrong type |
| `select` | 27 statements, at least one for each branch and exception of the function; `t(id INT, v VARCHAR)` with up to 4 rows, `u(v VARCHAR, w INT)` with up to 2; NULLs, the text 'NULL', equal rows | `JoinAgreesWithWhere`: JOIN and WHERE agree where values are of one sort; `WhereShortCircuits`: AND is two filters in a row, OR its dual, exceptions included; `GroupTotalsAgree`: groups partition the rows; `AnswerIsRanked`: every row answered has the rank ORDER BY, OFFSET and LIMIT give it; `OrderBeforeProjection`: sorting the answer is sorting the tables; `UndefinedOnlyAfterEmptyJoin`; `RowsMeanTheText`: the rows are those that the text of the condition means when it is read with NOT before AND before OR, through `Parser` |
| `auth` | 2 threads, admin and bob, 2 passwords, a table and the wildcard, `users.dat` may not open, stops anywhere, fair | mutual exclusion, unique names, an admin, one entry per table, file = memory, GRANT/REVOKE/CREATE USER effective, the mutex is given back |
| `session` | 9 terminal sessions (statements on several lines, two on a line, comments, a string with quotes, semicolons, backslashes and a line end, a text that is too long) or a program that connects, calls and disconnects as it likes; 2 calls, 2 sockets, one lost connection or a stop; a text for every branch of the parser; answers with every kind of cell, the word "error" in each place, and every escape | `StatementsAsTyped`: who types tidily gets his statements executed, each once, in order, as meant; `StatementsAsWritten`: the statement built from a text consists of its words; `ConnectionsInStep`: what is under way on a connection fits the call its client is in; `ImplementsRpc`: client, socket and server implement `Rpc`; `EveryCallReturns`, `ThreadsEnd` |
| `web` | 2 databases, a page whose user does up to 4 things if he waits and is alone, else up to 2 things that also others do or that get lost or cut short, the refresh button and reloads included, fair | `QueriesRunWhereSent`: a query that arrived whole, or is answered, runs on the database the page showed, or on one somebody else selected between two steps of its handler; `PageTellsTheTruth`: alone and waiting, the user sees the databases there are and the one his queries run on; `EveryQueryIsShown`: the page never waits for ever |

Four runs are expected to find a violation. Each checks one sentence of the
repository that the code does not keep:

| Run | Sentence | What happens |
|---|---|---|
| `update_fails` | `StorageEngine.h:45`: rewrites the rows, applying the updater to those that matched | `UPDATE t SET v = 2` with `v VARCHAR` truncates the file, throws at the first match, and every later row reads as zeros |
| `having` | `README.md:61` lists `HAVING` among the SQL it supports | the parser drops the condition (`Parser.cpp:235`); groups for which it is false are answered |
| `insert_race` | `StorageEngine.cpp:293`: we append new records; `test_persistence.cpp:45` finds every inserted row | two INSERTs read the same file; the second rewrite drops the row of the first, both answered with success |
| `stop` | `README.md:270`: data survives a restart | a stop between truncation and write loses every row of the table |

### Bounds, and why they are enough

`MaxRecords` limits the records of a file when an INSERT arrives (1 to 3): a
rewrite has three kinds of records, before, at and after the one that matters
(the match, the wrong value, the cut), and rough has room for all three. Two
connections are enough for every race in the code: each is a check or read of
one thread overtaken by a write of another. `WithinBound` lets a name be listed
at most once too often, which is where the duplicates show. One or two
databases tell "this one" from "another one". In `select`, two rows are enough
for each pair of kinds a comparison tells apart, three for a stable sort with a
tie, four for a group between the rows of another; two JOINs are the least that
reach line 222 twice. The buffer of one record is the
worst case of flushing.

In `session`, `MaxCalls = 2` gives a call that ends badly and the next one,
which is all that an answer can be mistaken across; two sockets are the old and
the new connection. `OneFault` allows one lost connection, or the stop of the
server after which connecting fails; a terminal and the program are run in
behaviours of their own, as they share nothing but the process. In `web`,
`MaxActs = 4` lets the tree be opened, a database be dropped and created again
and a table be selected; `MaxEvents = 2` is the pair of a request and whatever
disturbs it, such as a `USE` of another connection between `UseDb` and
`RunQuery`.

### Fairness

`FairSpec` assumes weak fairness of each thread's `Step`, one condition per
thread: connections are detached `std::thread`s, which the operating system
keeps running, and no step of the executor waits for another thread. Clients
need not send anything (`Receive`, `Invoke` are not fair) and the process need
not stop. In `AuthManager` weak fairness says nothing about who gets the mutex,
as `std::mutex` promises no order: so only `MutexReleased` is checked, not that
each waiting call is served.

`Fairness` of `Protocol` is weak fairness of each client inside of `execute` and
of each connection thread: both are threads that only wait for their socket.
Calling, connecting, a lost connection and a stop are not fair; nor is an
interrupted `recv`. `Fairness` of `Web` lets handler threads and the event loop
of the page go on.

### Where the promise does not hold

The refinement is checked where the code keeps it: statements whose values fit,
stops between statements, connections on different tables and no DDL beside
another statement. Outside that, `insert_race`, `update_fails` and `stop` show
the failures. `RelStore` itself says one thing a reader may not expect, because
the code does: there is one current database for all connections. It leaves
open whether rows outlive DROP TABLE: `Executor.cpp:107` says that the data file
is deleted, but nothing deletes it, and a table created again under the name
has the old rows. DROP DATABASE takes effect when the directory is removed,
before the catalog is rewritten.

`Rpc` promises no more than the library keeps: a call that ends in a connection
error may have been run or may be run later, so a caller that repeats it may run
it twice. `ShownResult` in `Wire` says what an answer looks like to a caller: a
NULL and the text `null` are the same, a control character becomes its number.

Two sentences of the repository fail in a way the properties leave out, each
with a condition that names it. `ORDER BY` a column that is not answered sorts
by another one (`Executor.cpp:363` says the schema is used "if selectAll", and
nothing asks for it: `SELECT v FROM t ORDER BY id` sorts by v); hence
`OrderedByAnswer` in `OrderBeforeProjection`. A `GRANT` on a table after a
`GRANT ... ON *` adds an entry `checkPrivilege` never reaches, though
`AuthManager.h:56` promises the right; hence `Shadowed` in `GrantTakesEffect`.

The page tells the truth only to a user who is alone and waits. A typed `USE` is
undone by the next query (the page still names the database it shows, and
`POST /api/query` selects it again); clicking a table of another database
queries the one shown before (`WebApi.cpp:548` does not wait); a database that
somebody else drops stays selected in the page, whose queries are then refused.
A query whose request loses its end behind the statement runs on the current
database, whichever that is, and nobody is told: hence `whole` and `waiting` in
`QueriesRunWhereSent`.

`NamesUnique`, `MagicMatchesPath`, `CurrentDbListed`, `RecordsAligned`,
`InsertKeepsRecords` and `SuccessIsLocal` hold for one connection only: with
two, a CREATE DATABASE between the check and the append of another lists a name
twice, a USE between the check of a table and its path sends rows into
`schema.dat`, a rewrite overtaken by another drops its rows, and a rewrite that
fails over the bytes of another is read out of step with the records. They are
checked and proved for one.

## 4. What is proved

All theorems are about `Spec` with any constants that satisfy the named
assumptions: `NamesAssumption`, `BufferAssumption`, `LeftoverAssumption`,
`WorkloadAssumption`, `InstalledAssumption` and `MaxRecordsAssumption` of the
executor (types of the
constants, nothing more), `NamesAssumption` and `CallsAssumption` of
`AuthManager`, and `SocketAssumption`, `RequestAssumption` and `FlagAssumption`
of `Protocol` (-1 is no socket; a request has a length; the byte before an
answer is 0 or 1). `Web` needs none. Those of `Select` are `ColumnsAssumption`,
`StatementsAssumption` and `UnitAssumption` (types), and `ContentsAssumption`:
a row a table may hold has a field for each of its columns, each NULL or of the
column's kind, and a table may be empty. That is what `SelectsStayWellTyped`
proves of the rows `readRows` returns in `Executor`. TLC evaluates them in every
run that uses their module.

Some theorems have hypotheses of their own:

* `RemoteCall`: `AnswersSurvive`, the library reads from what the server wrote
  what a caller should read. That is a matter of `Wire`, which is recursive over
  the text, and is checked by `session` for its answers.
* `ConnectionProofs` and `RefinementProofs`: `OneConnection`, at most one
  connection; any databases, tables, statements and buffers.
* `NamesStayUnique` of the executor: `InstalledOnce`, the installation the
  process starts with names no database and no table twice.
* `ConnectionIsAtomic` and `FittingWorkloadIsAtomic`: `~ CrashAllowed` (stops
  only between statements) and no table called `schema` (its data file would be
  the schema file, which its magic number saves: statements on its rows are
  refused, where `RelStore` would run them). The first also takes `[]WritesSucceed`, no statement fails
  after it began to rewrite a file; the second has instead `WorkloadFits`, the
  values of every statement are of the types of their columns, and proves
  `WritesSucceed` from it. `insert_race`, `stop` and `update_fails` show what
  happens with a second connection, a stop or a write that fails. The instance of `serial` meets
  those of `ConnectionIsAtomic`: its one ill-typed UPDATE matches no row.

| Theorem | Says | Argument |
|---|---|---|
| `ExecutorTypeCorrect` | `[]TypeOK` | with `TypedAndFit`: types alone are not inductive, since `Assign` and the indexing of fields need the values of a statement to fit its columns once it is past `requireTable`; `Fits(t)` says so |
| `FilesStayWellTyped` | `[]FilesWellTyped` for any number of connections racing and being stopped, rewrites that lie over one another included | the inductive invariant is `Sound`: not only the files but every content on its way to one (`work[t].content`, an open `stream[t].content`) is `GoodFile`. `RewriteGood` shows that a rewrite, also one that throws, yields such a content; `PrefixGood` that a flushed prefix of it is one, and `LeftByGood` that what is read where one lies over another fits the columns |
| `RecordsStayAligned` | `[]RecordsAligned` for one connection, with stops and exceptions in the middle of a rewrite | from `Sound`: with one thread no stream finds another's bytes (`WritesOver`), so a record that is short is the last one there |
| `SelectsStayWellTyped` | `[]SelectedRowsWellTyped` | from `Sound`: reading a good file, with zeros past its end, gives rows that fit |
| `RewriteIsReadBack` | whatever `readRows` takes from a file, written back as it is, is read as the same rows | the rows read fit their columns, so no record is cut; `PrefixReads`: a file of whole records is read to its end |
| `MetadataAndDataApart` | `[]MagicMatchesPath` for one connection: no data file is where a catalog or schema belongs, nor the reverse | `Routed`: a thread between two accesses has the path its statement asks for (`ControlFlow` gives the kind of statement from the label), and the file it works on has that path's magic number (`KindsKept`) |
| `NamesStayUnique` | `[]NamesUnique` for one connection | `OnceKept`: besides the files, the names in `work` and in an open stream are listed once, and the name to be appended is not among them; true only as nobody writes between check and append |
| `CurrentDatabaseListed` | `[]CurrentDbListed` for one connection | `CurrentIsKept`: between the removal of a directory and `resetDb` the one thread is the one that dropped the current database |
| `InsertsKeepRecords`, `SuccessStaysLocal` | `[][...]_vars` for one connection: an INSERT, failing or not, keeps the records before it; an UPDATE or DELETE answered with success changes no row its condition does not match | `RowsInv`: what an open stream holds is a rewrite of the file as it was before the truncation (`base`), statement by statement |
| `ConnectionIsAtomic`, `FittingWorkloadIsAtomic` | `ImplementsRelStore` for one connection: each statement, in up to six steps over files that are truncated and rewritten, has the effect and the answer of one atomic statement of `RelStore` | see below |
| `TypeCorrect` | `[]TypeOK` of `AuthManager` | one lemma per action |
| `Exclusive` | `[]MutualExclusion` for any number of threads | `Alone`: a thread inside is the holder, and serving has begun |
| `NamesStayUnique` | `[]UserNamesUnique` | uniqueness of list and file together; uses `Exclusive` so that the list cannot change between a check and its append |
| `AdminStays` | `[]AdminPresent` | `Administered`: also while a save is under way the list in memory has its admin, so the file that is written has one |
| `FileFollowsMemory` | `[]FileMatchesMemory` | `Saved`: whoever holds the mutex and has not reached the write accounts for the difference |
| `EntriesStayUnique` | `[]EntriesUnique` | the same of `users.dat`, from which the list may be loaded; `ChangedEntry` and `AddedEntry` say what `GRANT` and `REVOKE` do to the entries of a user |
| `CreatedStays`, `GrantsAllow`, `RevokesDeny` | `[]CreatedUserIsSaved`, `[]GrantTakesEffect`, `[]RevokeTakesEffect` for any number of threads | `Effects`: from the body of a call until its thread gives the mutex back, the list shows what the call asked for, as nobody else is inside (`Exclusion`), and `reply` is set by a complete save only; `EntryDecides` turns the entry into the answer of `checkPrivilege` |
| `InStep` | `[]ConnectionsInStep` of `Protocol`, for any number of clients, sockets, requests and calls, cut or stopped at any time | the property is its own inductive invariant once the types are complete (`IInv`). What keeps it inductive: a request is under way on one socket only, so a step elsewhere leaves it alone; a socket belongs to one client; the parts under way plus the parts taken are the parts sent, and fewer only when the connection is cut; a client that was thrown out of a call has `connected` false and cannot call again on that socket. `LocalStep` says once that a step on one socket disturbs no other; each action then shows its own socket, client and thread |
| `RemoteCall` | `Spec => ImplementsRpc` | under `IInv` each step of the library and of the server is a step of `Rpc` or none: `Execute` is `Call` (an idle client has no open call), `processQuery` is `Run` (what is under way is not run yet), `RecvJson` is `Return` (the last part is the JSON of this call's run, its status came with it), `Throw` is `Lose` |
| `WebTypeCorrect` | `[]TypeOK` of `Web` | requests are a sequence from which one may be removed anywhere and to which several may be appended (`RemoveAtKeeps`, `ConcatElements`) |
| `QueriesStay` | `[]QueriesRunWhereSent`, for any databases, users, reloads and losses | `Sent`: a request of which the page waits for the answer has arrived whole or not at all (`Cut`); from the moment the handler has compared or selected, every database others select is known to the request (`switched`), so what is current when it runs is the database it named or one of those |
| `PageIsTrue` | `[]PageTellsTheTruth` | while nobody disturbs (`calm`), `OneAtATime`: apart from the tree's requests at most one request is under way, every request is one that the page's state expects (`Expected`: a refresh of the list, of the current database or of a query, and what it will say), and when there is none the page shows what is there |

`PositionsProofs` has the facts about `Keep` these rest on (`KeepType`,
`KeepOrder`, `KeepAll`: the elements kept, in their order, none added), and what
`Select` needs of loops: `Counting`, induction as a fact about finite sets of
numbers (the least number that is missing); `NumbersTaken`, a ranking without
ties takes each number once; `FoldExists` and `TraceInduction`, what a fold
passes through and what holds of all of it; `PartsAddUp`, a measure that adds
over the first element and the rest adds over any partition of a sequence.
`ExecutorProofs` has the facts about reading and writing records.

All seven safety properties of `Select` are proved (`SelectProofs`).

| Theorem | Says | Argument |
|---|---|---|
| `SelectInvariant` | `[]IInv` | between any two parts: what has been read is what the tables held at some time (`ReadsOk`), what is joined is what the joins make of it (`JoinedOk`), its rows fit their schema unless an earlier join may have found nothing (`FitOk`, `Off`), and what was produced is what the items make of the rows that matched (`ResultOk`, `Made`) |
| `SelectTypeCorrect` | `[]TypeOK` | from `IInv` |
| `SelectUndefined` | `[]UndefinedOnlyAfterEmptyJoin` | `FitOk`: unless `Off`, rows have a value for each column of the schema, and every index comes from `ColumnIndex` of it |
| `JoinAgrees` | `[]JoinAgreesWithWhere` | the pairs of the nested loop are numbered in its order, each once (`NthPairs`); on values of one sort `compareForSort` is 0 exactly where `compareValues` says EQ |
| `OrderThenProject` | `[]OrderBeforeProjection` | `compareForSort` orders NULL and the values of one kind (`CompareOrders`), so rows are weakly ordered by their keys (`RowsOrdered`) and a stable sort gives each position one row (`PlacesTaken`); a row and its projection have the same keys, so both take the same places |
| `AnswerRanked` | `[]AnswerIsRanked` | a row's place is between the number of rows strictly before it and the number of rows not after it |
| `ShortCircuits` | `[]WhereShortCircuits` | a list of nodes is evaluated from left to right over a stack (`Runs`); a tree leaves one value on it, whatever was below, so the two sides of AND and OR can be cut out and put together again |
| `GroupTotals` | `[]GroupTotalsAgree` | the groups are a partition of the rows (`GroupsSplit`): every row is in the group of its key, in order; counts and sums are measures (`PartsAddUp`), and the least of the least is the least (`LeastTrace`) |

The refinement of `RelStore` (`RefinementProofs`) has four parts.

1. The mapping promises what `Content(p)` says, the file as it was before a
   rewrite that is under way. `ContentSteps` says that only `RemoveDirectory`
   and `Close` change it, so all other steps leave databases, tables and rows
   alone (`SilentSteps`, `OnItsWay`).
2. `Kept` is the inductive invariant (`InitKept`, `NextKept`). To what the
   other proofs keep it adds `Checked`: at every label, the checks the
   statement has passed would still be passed now, and from `open` on, what is
   to be written is `Intended`, the new content computed from the present
   `Content`, and the result is its `Outcome`. That is where one connection is
   used: with two, another rewrite comes in between.
3. `DatabasesHaveHomes` (a promised database has its directory) is what makes
   the silent `ofstream` harmless: a stream opened in a missing directory would
   lose the write and answer success.
4. Rows: `RowsAt`, `Keep`, `appendRows`, `updateRows` and `deleteRows` work on
   records with deletion flags, `RelStore` on rows. `PickedRows`,
   `AppendedRows`, `UpdatedRows` and `DeletedRows` of `ExecutorProofs` say that
   the live rows of the records change as the rows of the promise do (by
   counting positions, `Nth`, not by induction), and `RewriteIsReadBack` that
   the next statement reads them.

Model-checked only:

* the refinement of `RelStore` by two connections on different tables (`apart`).
  The proof for one connection uses that what a statement has checked cannot
  change under it; with two, each invariant would have to say which of the
  files belong to whom;
* `StatementsAsTyped` of `Cli`, and what `Lexer`, `Parser` and `Wire` compute
  (`StatementsAsWritten`, `RowsMeanTheText`, `AnswersSurvive`): they are defined
  by recursion over a text with RECURSIVE operators, of which the provers take
  no proof. Where `Select` folds over rows, the fold is one function with an
  equation for each position, and induction on positions is enough;
* liveness (`EveryStatementAnswered`, `MutexReleased`, `EveryCallReturns`,
  `ThreadsEnd`, `EveryQueryIsShown`), as the prover has no rules for fairness
  and ENABLED.

## 5. Mutants

Every property of a passing run has a mutant: an operator named in a comment
`\* Mutant:` beside the definition it replaces, changed the way a bug in that
code would (a forgotten comparison, a lost flag, a path built from the wrong
name). `PROJECT.json` pairs them; each violates its property.

## 6. Not modelled, and why

Found on the way, and stated by the models without a sentence of the repository
against it: a text beside a number counts as 0, so `ON id = v` joins id 0 with
every text; a NULL joins a NULL; MIN is NULL when there is one, and an average
counts it as 0; the groups of NULL and of the text 'NULL' are one; `SELECT * ...
GROUP BY` answers one empty row per group. HAVING is read and never applied (the
run `having`); `HAVING AVG(salary) > 50000` of `README.md:160` is a syntax error
even before that, as a condition has no aggregates. `GRANT UPDATE, SELECT` is refused: rights
have an order. What follows the first statement of a text is passed over, so
`DELETE FROM t WHER id = 1;` deletes every row. In the terminal a comment line
hides the statement below it.

Not modelled:

* the reading of an HTTP request from its socket (but for what becomes of a
  request whose end does not arrive, `CutShort`), routing, the JSON of the web
  API and the HTML of the page: one request per connection with no state behind
  it; `Web` takes requests and answers as they are after that;
* start-up: a signal that comes before `run` has set `m_running`, or before
  `g_server` is set, is lost (`main.cpp:52`); argument parsing, socket options;
* the role table of `README.md:188-192`: no statement asks `checkPrivilege` yet;
* `users.dat` larger than one buffer, and a full disk;
* password hashing (any function to numbers), the wording of messages, how the
  terminal client prints a table.

What a next step would add: a proof of the refinement of `RelStore` for
connections that never use the same file.
