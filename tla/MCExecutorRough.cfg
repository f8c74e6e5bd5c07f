\* One connection, ill-typed values, a table called schema, and a process
\* that may stop at any moment.
SPECIFICATION Spec
CONSTANTS
    Threads = {"c1"}
    Dbs = {"a"}
    Tables = {"t", "schema"}
    NoDb = ""
    Buffer = 1
    MaxRecords = 3
    CrashAllowed = TRUE
    Installed <- NoNames
    InstalledTables <- NoNames
    ColumnName <- MCColumnName
    Name <- MCName
    Leftover <- MCLeftover
    Columns <- MCColumns
    Workload <- RoughWorkload
INVARIANTS
    FilesWellTyped
    RecordsAligned
    MagicMatchesPath
    NamesUnique
    CurrentDbListed
PROPERTIES
    InsertKeepsRecords
    SuccessIsLocal
