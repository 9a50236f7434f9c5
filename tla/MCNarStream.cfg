SPECIFICATION Spec
CONSTANTS
    Trees <- MCTrees
    NotUtf8 = {3}
    Cap = 3
    Align = 2
    Sizes = {0, 1, 4}
INVARIANTS
    TypeOK
    EntriesOfTheTree
    FinishedIsWhole
    ErrorsHaveACause
PROPERTY StreamEnds
CHECK_DEADLOCK FALSE
