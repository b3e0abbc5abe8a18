\* Without AUTO_RELOGIN and a session file the worker ends with an error, and
\* nothing goes on until a person logs in.
CONSTANTS
    Attempts = 1
    MaxTasks = 1
    MaxSpent = 2
    MaxRotations = 1
CHECK_DEADLOCK FALSE
SPECIFICATION FairSpec
INVARIANTS
    TypeOK
    LoginsHaveACause
PROPERTIES
    DeadOnlyIfOvertaken
    Recovers
    CopiesCatchUp
