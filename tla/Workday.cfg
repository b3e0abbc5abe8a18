\* The daily duties of the worker loop on one day: safety.
SPECIFICATION Spec
CONSTANTS
    Orders = {o1, o2}
    LastSlot = 2
    WorkStart = 1
    WorkEnd = 2
    At <- MCAt
    AutoPrint = TRUE
    CancelCards = TRUE
    MaxDay = 0
    MaxFaults = 1
    None = None
INVARIANTS
    TypeOK
    PickListMailedOnce
    RepeatsOnlyAfterRestart
