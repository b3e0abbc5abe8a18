\* The daily duties of the worker loop across midnight: liveness.
SPECIFICATION FairSpec
CONSTANTS
    Orders = {o1}
    LastSlot = 1
    WorkStart = 0
    WorkEnd = 1
    At <- MCAtLive
    AutoPrint = TRUE
    CancelCards = TRUE
    MaxDay = 1
    MaxFaults = 0
    None = None
INVARIANT
    RepeatsOnlyAfterRestart
PROPERTIES
    BacklogTaken
    FailureIsContained
