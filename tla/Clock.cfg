CONSTANTS
    Requests = {"a", "b", "c"}
    MaxTime = 2
    MaxVersions = 3
    MaxSetbacks = 1
SPECIFICATION FairSpec
INVARIANTS
    StampsInOrder
PROPERTIES
    TimelyAgain
CHECK_DEADLOCK FALSE
