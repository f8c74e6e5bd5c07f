\* Two connections insert into one table.
SPECIFICATION HistorySpec
CONSTANTS
    Threads = {"c1", "c2"}
    Dbs = {"a"}
    Tables = {"t"}
    NoDb = ""
    Buffer = 9
    MaxRecords = 2
    CrashAllowed = FALSE
    Installed <- DbA
    InstalledTables <- TableT
    ColumnName <- MCColumnName
    Name <- MCName
    Leftover <- MCLeftover
    Columns <- MCColumns
    Workload <- InsertWorkload
INVARIANTS
    AcknowledgedRowsKept
