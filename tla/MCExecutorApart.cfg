\* Two connections, each with a table of its own.
SPECIFICATION FairSpec
CONSTANTS
    Threads = {"c1", "c2"}
    Dbs = {"a"}
    Tables = {"t", "u"}
    NoDb = ""
    Buffer = 9
    MaxRecords = 2
    CrashAllowed = FALSE
    Installed <- DbA
    InstalledTables <- TablesTU
    ColumnName <- MCColumnName
    Name <- MCName
    Leftover <- MCLeftover
    Columns <- MCColumns
    Workload <- ApartWorkload
PROPERTIES
    ImplementsRelStore
    EveryStatementAnswered
