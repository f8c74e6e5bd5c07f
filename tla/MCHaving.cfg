\* One statement with HAVING.
SPECIFICATION Spec
CONSTANTS
    Tables = {"t", "u"}
    Missing = Missing
    NullWord = 2
    Unit = 12
    MaxInt = 9
    Number <- MCNumber
    ColumnName <- MCColumnName
    Columns <- MCColumns
    Contents <- MCContents
    Statements <- MCHavingStatements
    Readings <- MCReadings
    Unread <- MCUnread
INVARIANTS
    HavingKeepsGroups
