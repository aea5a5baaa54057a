SPECIFICATION FairSpec
CONSTANTS
    Id = {i1, i2, i3}
    i1 = i1
    i2 = i2
    i3 = i3
    NoId = NoId
    Lossy = FALSE
    Duplicated = FALSE
    Slow = FALSE
PROPERTIES
    EoaAnswered
