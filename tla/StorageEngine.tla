--------------------------- MODULE StorageEngine ----------------------------
(***************************************************************************)
(* The storage engine of chapaBD (storage/StorageEngine.cpp): the files    *)
(* under the data directory, the directories of the databases, and the     *)
(* output stream each server thread may have open.  The engine has no lock *)
(* and no state of its own besides the files; a thread interleaves with    *)
(* the others between any two calls that reach the file system.            *)
(*                                                                         *)
(* Abstractions.  A read of a file is one step: the files of the model fit *)
(* one 8191-byte stream buffer when several threads run, so each is read   *)
(* by one read() and written by one write() when the stream is closed.     *)
(* With one thread, Buffer records at a time reach the file (FlushStream). *)
(* remove_all is one step.  A stream whose file was unlinked goes on       *)
(* writing to it unseen.  A stop of the process keeps what write() handed  *)
(* to the operating system.                                                *)
(*                                                                         *)
(* A stream truncates its file when it is opened and writes from its start *)
(* when it is closed, over what another stream has put there in between.   *)
(* The rest of that stays behind a shorter write, but readers take only as *)
(* many records, or names, as the header counts: they come to the rest     *)
(* only when the write ended in an exception.  Fields are then read from   *)
(* bytes that were never meant as them: the model takes any values of the  *)
(* right types from Leftover, for lengths of texts that fit into memory.   *)
(***************************************************************************)
EXTENDS TableFile

CONSTANTS
    Threads,        \* the server threads, one per connection
    Dbs,            \* names of databases
    Tables,         \* names of tables, among them perhaps "schema"
    Columns,        \* the columns a table of that name is created with
    NoDb,           \* the empty name: no database is selected
    Buffer,         \* records per stream buffer
    Leftover        \* what the bytes another stream left behind are read as

Dirs  == Dbs \cup {NoDb}
Paths == Dirs \X (Tables \cup {"schema", "catalog"})

ASSUME NamesAssumption ==
    /\ NoDb \notin Dbs
    /\ Dbs \cup Tables \cup {"schema", "catalog"} \subseteq Name
    /\ Columns \in [Tables -> Seq(Column)]

ASSUME BufferAssumption == Buffer \in Nat \ {0}
ASSUME LeftoverAssumption == Leftover \subseteq Value

VARIABLES
    files,          \* the content of every path
    dirs,           \* the directories that exist
    stream          \* the ofstream each thread has open

storageVars == <<files, dirs, stream>>

-----------------------------------------------------------------------------
(* Paths.  The directory of the empty name is the data directory itself;   *)
(* a table called schema has the path of the schema file.                  *)

catalogPath     == <<NoDb, "catalog">>
schemaPath(d)   == <<d, "schema">>
tablePath(d, t) == <<d, t>>

-----------------------------------------------------------------------------
(* Reading.  Broken: the magic number read is another one, which throws.   *)

Exists(p) == files[p].magic # "absent"

CatalogBroken == files[catalogPath].magic \notin {"absent", "catalog"}
listDatabases == files[catalogPath].names
databaseExists(d) == \E i \in DOMAIN listDatabases : listDatabases[i] = d

SchemaBroken(d) == files[schemaPath(d)].magic \notin {"absent", "schema"}
loadSchema(d) == files[schemaPath(d)].names
\* Mutant: only the first table of the schema is compared.
tableIsFirst(d, t) == loadSchema(d) # <<>> /\ loadSchema(d)[1] = t

tableExists(d, t) == \E i \in DOMAIN loadSchema(d) : loadSchema(d)[i] = t

\* Mutant: the magic number of a table file is not looked at.
TableNeverBroken(p) == FALSE

TableBroken(p) == files[p].magic \notin {"absent", "table"}
recordsOf(p, t) == ReadRecords(files[p], Columns[t])

-----------------------------------------------------------------------------
(* Writing.  A stream remembers its path and what it is to write; `linked' *)
(* says that its file is still the one of that path.  `base', the content  *)
(* of the file before it was truncated, is history: no guard reads it.     *)

Stream == [path : Paths, content : File, base : File, linked : BOOLEAN]
Closed == [path |-> catalogPath, content |-> Absent, base |-> Absent, linked |-> FALSE]

create_directories(d) == dirs' = dirs \cup {d} /\ UNCHANGED <<files, stream>>

remove_all(d) ==
    /\ dirs' = dirs \ {d}
    /\ files' = [p \in Paths |-> IF p[1] = d THEN Absent ELSE files[p]]
    /\ stream' = [u \in Threads |->
                    IF stream[u].path[1] = d
                    THEN [stream[u] EXCEPT !.linked = FALSE] ELSE stream[u]]

\* std::ofstream(path, trunc).  Nobody looks whether it opened: in a
\* directory that does not exist every later write is lost in silence.
OpenTrunc(t, p, content) ==
    /\ stream' = [stream EXCEPT ![t] =
            [path |-> p, content |-> content, base |-> files[p], linked |-> p[1] \in dirs]]
    /\ files' = IF p[1] \in dirs THEN [files EXCEPT ![p] = Empty] ELSE files
    /\ UNCHANGED dirs

\* Buffer more records reach the file, and others are still to follow.
FlushStream(t) ==
    LET s     == stream[t]
        count == Len(files[s.path].recs) + Buffer
    IN  /\ Threads = {t}
        /\ s.linked /\ s.content.magic = "table"
        /\ count < Len(s.content.recs)
        /\ files' = [files EXCEPT ![s.path] =
                        TableData(s.content.total, SubSeq(s.content.recs, 1, count))]
        /\ UNCHANGED <<dirs, stream>>

\* Records of a table with these columns, as other bytes may be read.
LeftRecords(cols) ==
    [del : BOOLEAN, vals : {vals \in [DOMAIN cols -> Leftover] : RowOk(vals, cols)}]

\* What is read of a content that is written over `bytes'.
OverFields(vals, left) == [c \in DOMAIN left |-> IF c <= Len(vals) THEN vals[c] ELSE left[c]]

Over(content, bytes) ==
    TableData(content.total,
        [i \in 1 .. content.total |->
            IF i <= Len(content.recs)
            THEN [content.recs[i] EXCEPT !.vals = OverFields(@, bytes[i].vals)] ELSE bytes[i]])

\* Another stream has been closed on the path since t opened its own.
WritesOver(t) == Threads # {t} /\ files[stream[t].path] # Empty

\* What the file of stream t may hold when it is closed.  A content that is
\* complete covers all that is read later.
LeftBy(t) ==
    LET content == stream[t].content
        tb      == stream[t].path[2]
    IN  IF WritesOver(t) /\ content.magic = "table" /\ tb \in Tables
        THEN {Over(content, bytes) : bytes \in [1 .. content.total -> LeftRecords(Columns[tb])]}
        ELSE {content}

\* The destructor of the stream, on the normal path and on unwinding.
CloseStream(t) ==
    /\ IF stream[t].linked
       THEN \E content \in LeftBy(t) : files' = [files EXCEPT ![stream[t].path] = content]
       ELSE UNCHANGED files
    /\ stream' = [stream EXCEPT ![t] = Closed]
    /\ UNCHANGED dirs

\* The process is gone, the files stay as far as they were written.
LoseStreams == stream' = [t \in Threads |-> Closed] /\ UNCHANGED <<files, dirs>>

-----------------------------------------------------------------------------

StorageTypeOK ==
    /\ files  \in [Paths -> File]
    /\ dirs   \in SUBSET Dirs
    /\ stream \in [Threads -> Stream]

\* The data directory as an earlier run of the server left it: the
\* databases `installed' with these tables in each, no data yet.
StorageInit(installed, tables) ==
    /\ files = [p \in Paths |->
            IF p = catalogPath /\ installed # <<>> THEN CatalogFile(installed)
            ELSE IF p[2] = "schema" /\ tables # <<>>
                    /\ \E i \in DOMAIN installed : installed[i] = p[1]
            THEN SchemaFile(tables) ELSE Absent]
    /\ dirs = {installed[i] : i \in DOMAIN installed} \cup {NoDb}
    /\ stream = [t \in Threads |-> Closed]
=============================================================================
