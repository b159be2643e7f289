SPECIFICATION FairSpec
CONSTANTS
    Safe = {silence}
    Destructive = {restart}
    Unregistered = {rm}
    Closeout = silence
    Covering = {silence}
    ACTIONS_MAX = 1
    REPLANS_MAX = 1
    PARSE_RETRIES_MAX = 2
    VERIFY_ATTEMPTS_MAX = 1
    RUN_TIMEOUT = 1
    Bridge = "web"
    MaxFailures = 2
    MaxIntakeFaults = 1
PROPERTIES
    Terminates
