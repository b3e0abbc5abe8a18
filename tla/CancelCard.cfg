\* The cancel card goes out before the evening cancel sync.
SPECIFICATION Spec
CONSTANTS
    Orders = {o1}
    LastSlot = 2
    WorkStart = 1
    WorkEnd = 2
    At <- MCAt
    AutoPrint = TRUE
    CancelCards = TRUE
    MaxDay = 1
    MaxFaults = 0
    None = None
PROPERTY
    CardFollowsCancelSync
