SPECIFICATION Spec
CONSTANTS
    NDevices = 5
    NTenants = 1
    Asked = {1, 5, 6}
    PageSize = 2
    MaxPages = 2
    MaxFaults = 2
    MaxSeedings = 3
INVARIANTS
    TypeOK
    SeededOnce
    SeededMeansAll
    AnswersAreWhole
PROPERTIES
    EveryQueryAnswered
