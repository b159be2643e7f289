-------------------------- MODULE KubernetesServer --------------------------
(***************************************************************************)
(* The Kubernetes tool server's three changes to a node, mcp/hush_mcp/     *)
(* kubernetes.py, run under the idempotency wrapper: cordon_node,          *)
(* uncordon_node and drain_node, which cordons the node, lists its pods    *)
(* and evicts them one by one.                                             *)
(*                                                                         *)
(* The cluster goes on meanwhile: its scheduler puts pods on a node that   *)
(* is not cordoned, pods end by themselves, a disruption budget may hold   *)
(* one back, and any call of its API may fail.  One node is modelled; an   *)
(* evicted pod counts as gone once its eviction is accepted.               *)
(***************************************************************************)
EXTENDS IdempotentTools

CONSTANTS
    Pods,        \* the pods that may be on the node
    Protected,   \* DaemonSet pods and those of PROTECTED_NAMESPACES
    MaxFaults    \* bound: failures of the API server

ASSUME ClusterAssumption ==
    /\ Protected \subseteq Pods
    /\ MaxFaults \in Nat

VARIABLES
    unschedulable,  \* of the node
    pods,           \* the pods on the node
    todo,           \* of each thread: the listed pods it has not tried yet
    blocked,        \* of each thread: the pods a disruption budget held back
    reopened,       \* of each thread: the node was uncordoned under its drain
    faults          \* how many failures happened

vars == <<toolVars, unschedulable, pods, todo, blocked, reopened, faults>>

cluster == <<unschedulable, pods>>
drain   == <<todo, blocked, reopened>>

Init ==
    /\ ToolsInit
    /\ unschedulable = FALSE
    /\ pods \in SUBSET Pods
    /\ todo = [t \in Threads |-> {}]
    /\ blocked = [t \in Threads |-> {}]
    /\ reopened = [t \in Threads |-> FALSE]
    /\ faults = 0

Runs(t, tool) == at[t] = "tool" /\ call[t].tool = tool

Fault ==
    /\ faults < MaxFaults
    /\ faults' = faults + 1

\* The patch of the node raises: the API server refused it, or did it and the
\* answer was lost.
PatchFailed(t) ==
    /\ at[t] = "tool"
    /\ Fault
    /\ \E done \in BOOLEAN :
          /\ unschedulable' = IF done THEN ~Runs(t, "uncordon_node") ELSE unschedulable
          /\ reopened' = [u \in Threads |-> reopened[u] \/ (done /\ Runs(t, "uncordon_node"))]
    /\ Finish(t, "error")
    /\ UNCHANGED <<pods, todo, blocked>>

\* The listing or an eviction raises: the drain ends where it is.
ApiFailed(t) ==
    /\ at[t] \in {"cordoned", "evicting"}
    /\ Fault
    /\ Finish(t, "error")
    /\ UNCHANGED <<cluster, drain>>

Cordon(t) ==
    /\ Runs(t, "cordon_node")
    /\ unschedulable' = TRUE
    /\ Finish(t, "ok")
    /\ UNCHANGED <<pods, drain, faults>>

Uncordon(t) ==
    /\ Runs(t, "uncordon_node")
    /\ unschedulable' = FALSE
    /\ reopened' = [u \in Threads |-> TRUE]
    /\ Finish(t, "ok")
    /\ UNCHANGED <<pods, todo, blocked, faults>>

\* Mutated form of DrainCordon: the node stays open for the scheduler.
DrainCordonLeftOut(t) ==
    /\ Runs(t, "drain_node")
    /\ reopened' = [reopened EXCEPT ![t] = FALSE]
    /\ Goes(t, "cordoned")
    /\ UNCHANGED <<cluster, todo, blocked, faults>>

DrainCordon(t) ==
    /\ Runs(t, "drain_node")
    /\ unschedulable' = TRUE
    /\ reopened' = [reopened EXCEPT ![t] = FALSE]
    /\ Goes(t, "cordoned")
    /\ UNCHANGED <<pods, todo, blocked, faults>>

DrainList(t) ==
    /\ at[t] = "cordoned"
    /\ todo' = [todo EXCEPT ![t] = pods \ Protected]
    /\ blocked' = [blocked EXCEPT ![t] = {}]
    /\ Goes(t, "evicting")
    /\ UNCHANGED <<cluster, reopened, faults>>

Evict(t) ==
    /\ at[t] = "evicting"
    /\ \E p \in todo[t] :
          /\ p \in pods
          /\ pods' = pods \ {p}
          /\ todo' = [todo EXCEPT ![t] = @ \ {p}]
    /\ Goes(t, "evicting")
    /\ UNCHANGED <<unschedulable, blocked, reopened, faults>>

\* 429: a disruption budget holds the pod back.
EvictBlocked(t) ==
    /\ at[t] = "evicting"
    /\ \E p \in todo[t] :
          /\ p \in pods
          /\ todo' = [todo EXCEPT ![t] = @ \ {p}]
          /\ blocked' = [blocked EXCEPT ![t] = @ \cup {p}]
    /\ Goes(t, "evicting")
    /\ UNCHANGED <<cluster, reopened, faults>>

\* 404: the pod went between the listing and its turn, and the drain raises.
EvictGone(t) ==
    /\ at[t] = "evicting"
    /\ \E p \in todo[t] : p \notin pods
    /\ Finish(t, "error")
    /\ UNCHANGED <<cluster, drain, faults>>

DrainDone(t) ==
    /\ at[t] = "evicting"
    /\ todo[t] = {}
    /\ Finish(t, "ok")
    /\ UNCHANGED <<cluster, drain, faults>>

Wrapper(t) ==
    /\ Enter(t) \/ Replay(t)
    /\ UNCHANGED <<cluster, drain, faults>>

Serve(t) ==
    \/ Wrapper(t) \/ PatchFailed(t) \/ ApiFailed(t)
    \/ Cordon(t) \/ Uncordon(t) \/ DrainCordon(t) \/ DrainList(t) \/ Evict(t) \/ EvictBlocked(t) \/ EvictGone(t) \/ DrainDone(t)

Caller ==
    /\ \E t \in Threads : Invoke(t)
    /\ UNCHANGED <<cluster, drain, faults>>

RestartServer ==
    /\ Restart
    /\ UNCHANGED <<cluster, drain, faults>>

PodStarts ==
    /\ ~unschedulable
    /\ \E p \in Pods : pods' = pods \cup {p}
    /\ UNCHANGED <<toolVars, unschedulable, drain, faults>>

PodEnds ==
    /\ \E p \in pods : pods' = pods \ {p}
    /\ UNCHANGED <<toolVars, unschedulable, drain, faults>>

Next ==
    \/ Caller \/ RestartServer \/ PodStarts \/ PodEnds
    \/ \E t \in Threads : Serve(t)

Spec == Init /\ [][Next]_vars

----------------------------------------------------------------------------

\* A drain answered as done has left nothing on the node but what it must not
\* evict and what it reports as blocked, however the scheduler and other
\* drains ran meanwhile, unless somebody uncordoned the node under it: the
\* machine can be powered off (kubernetes.py:153-161).
DrainedIsEmpty ==
    [][\A t \in Threads :
          at[t] = "evicting" /\ DrainDone(t) /\ ~reopened[t] =>
              pods \ Protected \subseteq blocked[t]]_vars
============================================================================
