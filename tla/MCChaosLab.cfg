SPECIFICATION Spec
CONSTANTS
    Machines = {m1}
    Nobody = nobody
    Requests = {r1, r2}
    Host = m1
    SpikeSystems = {m1}
    NoRequest = norequest
    MaxFaults = 2
    MaxManual = 1
INVARIANTS
    TypeOK
    TripMeansOff
    ClearRestores
    FailedPostIsUndone
    StormIsVisible
    HangIsReal
PROPERTIES
    ClearLeavesCommandedOff
    OneTakeAtATime
    EveryPostAnswered
