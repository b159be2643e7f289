SPECIFICATION UntimedSpec
CONSTANTS
    Safe = {silence}
    Destructive = {restart, poweroff}
    Unregistered = {rm}
    Closeout = silence
    Covering = {silence}
    ACTIONS_MAX = 1
    REPLANS_MAX = 1
    PARSE_RETRIES_MAX = 2
    VERIFY_ATTEMPTS_MAX = 2
    RUN_TIMEOUT = 1
    Bridge = "web"
    MaxFailures = 0
    MaxIntakeFaults = 5
INVARIANTS
    CountersBounded
PROPERTIES
    RetriesEnd
CHECK_DEADLOCK FALSE
