\* One connection; the process restarts between statements.
SPECIFICATION Spec
CONSTANTS
    Threads = {"c1"}
    Dbs = {"a", "b"}
    Tables = {"t"}
    NoDb = ""
    Buffer = 9
    MaxRecords = 2
    CrashAllowed = FALSE
    Installed <- NoNames
    InstalledTables <- NoNames
    ColumnName <- MCColumnName
    Name <- MCName
    Leftover <- MCLeftover
    Columns <- MCColumns
    Workload <- SerialWorkload
INVARIANTS
    TypeOK
PROPERTIES
    ImplementsRelStore
