\* Two orders, a midnight, two syncers, two desks that also print a selection, one fault.
SPECIFICATION Spec
CONSTANTS
    Orders = {1, 2}
    Flow <- MCFlow
    Undated = {2}
    Summarized = {2}
    NoLabel = {2}
    Writers = {w1, w2}
    Beside <- MCBeside
    Desks = {d1, d2}
    Slots = 2
    DayLen = 1
    Fresh = 1
    Old = 0
    PageSize = 1
    Limit = 1
    LabelCap = 1
    Selections = {{1}}
    MaxCalls = 2
    MaxFaults = 1
    Carrier <- MCCarrier
    Platform <- MCPlatform
    Code <- MCCode
    Amount <- MCAmount
    Items <- MCItems
    Catalog <- MCCatalog
    InCancel = {1}
    SkuCap = 2
    ReportCap = 2
    GroupCap = 2
    MaxCard = 1
    RowLines = {0, 3, 17, 90}
    MaxRows = 6
    Lengths = {12, 40, 80}
    MaxWords = 6
    Lines = {1, 3}
    MaxOrders = 2
INVARIANTS
    TypeOK
    MissedOnlyIfLate
    PagingSkipsAtMostTheLeavers
    ReportsAgree
    SheetsFit
    CardsFit
PROPERTY PrintsHaveACause
SYMMETRY Alike
CHECK_DEADLOCK FALSE
