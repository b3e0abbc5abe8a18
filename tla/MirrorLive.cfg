\* The worker alone, one order the search loses: the table converges.
SPECIFICATION FairSpec
CONSTANTS
    Orders = {1, 2}
    Hidden = {2}
    Flow <- MCFlow
    PageSize = 1
    MaxPages <- MCMaxPages
    Window = 1
    Horizon = 3
    Cap = 2
    ShippedEvery = 2
    Cycle = 2
    Tasks = {}
    Labelled = {}
    MaxFaults = 1
PROPERTIES Converges HealsNew
