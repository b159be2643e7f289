SPECIFICATION Spec
CONSTANTS
    Threads = {t1, t2}
    Tools = {"reset_system"}
    Keys = {k1, nokey}
    NoKey = nokey
    Args = {"ForceRestart", "Reboot"}
    Free = free
    MaxCalls = 3
    MaxRestarts = 0
    MaxFaults = 1
INVARIANTS
    AcceptedOnce
CHECK_DEADLOCK FALSE
