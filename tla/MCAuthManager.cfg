\* Two threads, a file that may refuse to open, stops at any moment.
SPECIFICATION FairSpec
CONSTANTS
    Threads = {"c1", "c2"}
    NoThread = "none"
    UserName = {"admin", "bob"}
    Password = {"admin", "pw"}
    Db = {"a"}
    Table = {"t", "*"}
    Any = "*"
    hashPassword <- MCHash
    Calls <- MCCalls
INVARIANTS
    TypeOK
    MutualExclusion
    UserNamesUnique
    AdminPresent
    EntriesUnique
    FileMatchesMemory
    GrantTakesEffect
    RevokeTakesEffect
    CreatedUserIsSaved
PROPERTIES
    MutexReleased
