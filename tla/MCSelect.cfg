\* One SELECT at a time; the tables change before it and between its reads.
SPECIFICATION Spec
CONSTANTS
    Tables = {"t", "u"}
    Missing = Missing
    NullWord = 2
    Unit = 12
    MaxInt = 9
    Number <- MCNumber
    ColumnName <- MCColumnName
    Columns <- MCColumns
    Contents <- MCContents
    Statements <- MCStatements
    Readings <- MCReadings
    Unread <- MCUnread
INVARIANTS
    TypeOK
    JoinAgreesWithWhere
    WhereShortCircuits
    GroupTotalsAgree
    AnswerIsRanked
    OrderBeforeProjection
    UndefinedOnlyAfterEmptyJoin
    RowsMeanTheText
