SPECIFICATION MCSpec
\* A list that was read, and a call that has ended, go no further.
CHECK_DEADLOCK FALSE
CONSTANTS
    Calls = {c1, c2}
    MaxVersion = 3
    PerObject = 2
    Shared = 4
    MaxObjects = 3
    MaxValues = 5
    MaxBytes = 4
    Window = 2
INVARIANTS
    ListsAreWhole
    LimitsAreExact
    ResultsAreTrue
    CutsAreExact
    StatusesAgree
PROPERTIES
    UpdatesAreNotLost
