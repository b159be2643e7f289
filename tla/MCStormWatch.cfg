SPECIFICATION Spec
CONSTANTS
    Kinds <- MCKinds
    MaxTime = 2
    MaxStarted = 4
    WindowS = 1
    StormMin = 3
INVARIANTS
    TypeOK
    BurstIsLargest
    SameStorm
    FiledOnce
    OrderDoesNotMatter
PROPERTIES
    StormStaysSeen
CHECK_DEADLOCK FALSE
