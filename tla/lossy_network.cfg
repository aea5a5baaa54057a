SPECIFICATION FairSpec
CONSTANTS
    Id = {i1, i2, i3}
    i1 = i1
    i2 = i2
    i3 = i3
    NoId = NoId
    Lossy = TRUE
    Duplicated = FALSE
    Slow = FALSE
INVARIANTS
    ReportsInOrder
PROPERTIES
    DeliveredIsReturned
    KeepsReporting
