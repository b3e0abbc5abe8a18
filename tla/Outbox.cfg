\* Outbox rows under crashes, lost answers and retries.
SPECIFICATION FairSpec
CONSTANTS
    Events = {1, 2, 3, 4}
    Kind <- MCKind
    DrainLimit = 2
    ListLimit = 3
    CardLimit = 2
    MaxAttempts = 2
    MaxBackoff = 1
    MaxFaults = 1
INVARIANTS
    TypeOK
    SentWasDelivered
    RepeatsOnlyAfterLoss
    GivesUpAtMaxAttempts
PROPERTIES
    SettledForGood
    BackoffRespected
    ImplementsDelivery
    EverythingSettles
