\* Two databases, a user of the page and another connection.
\* The user may have done all he may do: nothing is left then.
CHECK_DEADLOCK FALSE
SPECIFICATION FairSpec
CONSTANTS
    Database = {d1, d2}
    None = None
    MaxActs = 4
    MaxEvents = 2
INVARIANTS
    QueriesRunWhereSent
    PageTellsTheTruth
PROPERTIES
    EveryQueryIsShown
