SPECIFICATION Spec
CONSTANTS
    Safe = {silence}
    Destructive = {restart, poweroff}
    Unregistered = {rm}
    Closeout = silence
    Covering = {silence}
    ACTIONS_MAX = 2
    REPLANS_MAX = 2
    PARSE_RETRIES_MAX = 2
    VERIFY_ATTEMPTS_MAX = 1
    RUN_TIMEOUT = 1
    Bridge = "web"
    MaxFailures = 0
    MaxIntakeFaults = 0
INVARIANTS
    NotAskedAgain
