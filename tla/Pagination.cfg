SPECIFICATION DiligentSpec
CONSTANTS
    Names = {1, 2, 3}
    Outcomes = {"SUCCEEDED"}
    MaxTime = 3
    PageSizes <- SizesAround
    DefaultPageSize = 1
    MaxPageSize = 2
    NoFilter = NoFilter
    Filters <- StateOrAll
    NoToken = NoToken
INVARIANTS
    ExactlyOnce
    NewRowsOnFirstPage
    PagingInv
PROPERTIES
    EveryListingEnds
