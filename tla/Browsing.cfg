SPECIFICATION Spec
CONSTANTS
    Rows <- MCRows
    First <- MCFirst
    Waiting <- MCWaiting
    Filters <- MCFilters
    PageSize = 1
    Pages <- MCPages
    MaxReadings = 0
    MaxRequests = 1
    MaxChanges = 2
CHECK_DEADLOCK FALSE
INVARIANTS
    PagesFit
    OwnChangeShown
PROPERTIES
    EveryViewSettles
