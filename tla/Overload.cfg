CONSTANTS
    Requests = {"a", "b"}
    Keys <- Commands
    Expects <- ExpectedVersions
    Queries = 2
    MaxStarts = 2
SPECIFICATION Spec
INVARIANTS
    AnswerTellsEffect
    HolderWorks
PROPERTIES
    WorkEnds
    ShutdownEnds
CHECK_DEADLOCK FALSE
