SPECIFICATION FairSpec
CONSTANTS
    MaxTasks = 3
CHECK_DEADLOCK FALSE
INVARIANTS
    TypeOK
    HandledTasksKnown
    NothingOutlivesManager
PROPERTIES
    SubmittedCompletes
