\* Two connections that share a database, a table and the current database;
\* the process may stop at any moment.
SPECIFICATION Spec
CONSTANTS
    Threads = {"c1", "c2"}
    Dbs = {"a"}
    Tables = {"t", "schema"}
    NoDb = ""
    Buffer = 9
    MaxRecords = 2
    CrashAllowed = TRUE
    Installed <- DbA
    InstalledTables <- TableT
    ColumnName <- MCColumnName
    Name <- MCName
    Leftover <- MCLeftover
    Columns <- MCColumns
    Workload <- SharedWorkload
INVARIANTS
    FilesWellTyped
    SelectedRowsWellTyped
