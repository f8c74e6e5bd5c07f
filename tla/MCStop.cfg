\* One connection inserts, the server is stopped.
SPECIFICATION HistorySpec
CONSTANTS
    Threads = {"c1"}
    Dbs = {"a"}
    Tables = {"t"}
    NoDb = ""
    Buffer = 9
    MaxRecords = 2
    CrashAllowed = TRUE
    Installed <- DbA
    InstalledTables <- TableT
    ColumnName <- MCColumnName
    Name <- MCName
    Leftover <- MCLeftover
    Columns <- MCColumns
    Workload <- InsertWorkload
INVARIANTS
    AcknowledgedRowsKept
