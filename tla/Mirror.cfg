\* Two syncers cross, labels are printed, one fault: safety.
SPECIFICATION Spec
CONSTANTS
    Orders = {1, 2}
    Hidden = {1}
    Flow <- MCShort
    PageSize = 1
    MaxPages <- MCMaxPages
    Window = 1
    Horizon = 2
    Cap = 1
    ShippedEvery = 1
    Cycle = 1
    Tasks = {"api"}
    Labelled = {1}
    MaxFaults = 1
INVARIANTS TypeOK
PROPERTIES NoStepBack ArchivesTheUnseen
