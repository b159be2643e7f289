SPECIFICATION FairSpec
CONSTANTS
    Threads = {t1, t2}
    Tools = {"reset_system"}
    Keys = {k1, nokey}
    NoKey = nokey
    Args = {"ForceRestart", "ForceOff", "Reboot"}
    Free = free
    MaxCalls = 3
    MaxRestarts = 1
    MaxFaults = 1
PROPERTIES
    NoSecondReset
    EveryCallAnswered
CHECK_DEADLOCK FALSE
