SPECIFICATION Spec
CONSTANTS
    Id = {i1, i2, i3}
    i1 = i1
    i2 = i2
    i3 = i3
    NoId = NoId
    Lossy = FALSE
    Duplicated = TRUE
    Slow = TRUE
SYMMETRY Permuted
INVARIANTS
    ListIntact
    NoUseAfterFree
    ReturnsItsAnswer
    AsksOncePositioned
