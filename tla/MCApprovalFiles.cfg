SPECIFICATION FairSpec
CONSTANTS
    Controllers = {c1, c2}
    Requests = {r1, r2}
    Actions = {restart}
    None = none
    Partial = partial
    MaxAsks = 2
    MaxFailures = 1
INVARIANTS
    OneDecisionPerCall
PROPERTIES
    Implements
    EveryDecideEnds
CHECK_DEADLOCK FALSE
