\* One connection, an UPDATE with a value of the wrong type.
SPECIFICATION Spec
CONSTANTS
    Threads = {"c1"}
    Dbs = {"a"}
    Tables = {"t", "schema"}
    NoDb = ""
    Buffer = 9
    MaxRecords = 3
    CrashAllowed = FALSE
    Installed <- NoNames
    InstalledTables <- NoNames
    ColumnName <- MCColumnName
    Name <- MCName
    Leftover <- MCLeftover
    Columns <- MCColumns
    Workload <- RoughWorkload
PROPERTIES
    UpdateTouchesOnlyMatches
