SPECIFICATION Spec
CONSTANTS
    Threads = {t1, t2}
    Tools = {"cordon_node", "uncordon_node", "drain_node"}
    Keys = {k1, nokey}
    NoKey = nokey
    Args = {node}
    Free = free
    MaxCalls = 3
    MaxRestarts = 1
    MaxFaults = 1
    Pods = {web, db, agent}
    Protected = {agent}
INVARIANTS
    ReplayedAsAnswered
PROPERTIES
    DrainedIsEmpty
CHECK_DEADLOCK FALSE
