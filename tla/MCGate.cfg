SPECIFICATION Spec
CONSTANTS
    Safe = {silence}
    Destructive = {restart, poweroff}
    Unregistered = {rm}
    Closeout = silence
    Covering = {silence}
    ACTIONS_MAX = 2
    REPLANS_MAX = 2
    PARSE_RETRIES_MAX = 2
    VERIFY_ATTEMPTS_MAX = 1
    RUN_TIMEOUT = 1
    Bridge = "web"
    MaxFailures = 1
    MaxIntakeFaults = 0
INVARIANTS
    TypeOK
    GateHolds
    NodesCanRun
    AllowIsActedOn
    OutcomeMatchesPage
    CloseoutBeforeVerify
PROPERTIES
    SettledIsFinal
    DeniedNotReplanned
    RecoveryIsFinal
    NoWorkPastBudget
