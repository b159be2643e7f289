--------------------------- MODULE RedfishServer ---------------------------
(***************************************************************************)
(* The Redfish tool server's destructive tool, reset_system of             *)
(* mcp/hush_mcp/redfish.py, run under the idempotency wrapper: the reset   *)
(* is posted to the BMC, the kind node that stands for the machine is      *)
(* thawed, and the newest log entry is read for the answer.                *)
(*                                                                         *)
(* Each of the three talks to something that may fail: the BMC may refuse  *)
(* the post, carry it out and lose the answer, or not answer the read; the *)
(* cluster may not be reachable; docker may not thaw the node.             *)
(***************************************************************************)
EXTENDS IdempotentTools

CONSTANT MaxFaults    \* bound: failures of the BMC

ASSUME FaultsAssumption == MaxFaults \in Nat

VARIABLES
    resets,     \* how often the BMC carried out a reset, by cache key
    accepted,   \* how often it said so, by cache key, to this server process
    frozen,     \* whether the machine's kind node is paused
    unpaused,   \* of each thread: "none" (no node), "yes" or "no"
    faults      \* how many failures happened

vars == <<toolVars, resets, accepted, frozen, unpaused, faults>>

ResetTypes == {"On", "GracefulShutdown", "ForceOff", "GracefulRestart", "ForceRestart"}

PowerOnResets == {"On", "GracefulRestart", "ForceRestart"}

Stages == {"idle", "lock", "tool", "posted", "thawed"}

Init ==
    /\ ToolsInit
    /\ resets = [k \in CacheKeys |-> 0]
    /\ accepted = [k \in CacheKeys |-> 0]
    /\ frozen \in BOOLEAN
    /\ unpaused = [t \in Threads |-> "none"]
    /\ faults = 0

Fault ==
    /\ faults < MaxFaults
    /\ faults' = faults + 1

Counted(counter, t) == [counter EXCEPT ![CacheKey(call[t])] = @ + 1]

\* ValueError: the reset type is none of RESET_TYPES.
BadType(t) ==
    /\ at[t] = "tool"
    /\ call[t].args \notin ResetTypes
    /\ Finish(t, "error")
    /\ UNCHANGED <<resets, accepted, frozen, unpaused, faults>>

PostAccepted(t) ==
    /\ at[t] = "tool"
    /\ call[t].args \in ResetTypes
    /\ resets' = Counted(resets, t)
    /\ accepted' = Counted(accepted, t)
    /\ Goes(t, "posted")
    /\ UNCHANGED <<frozen, unpaused, faults>>

\* The post fails: the BMC refused it, or did it and the answer was lost.
PostFailed(t) ==
    /\ at[t] = "tool"
    /\ call[t].args \in ResetTypes
    /\ Fault
    /\ \E done \in BOOLEAN : resets' = IF done THEN Counted(resets, t) ELSE resets
    /\ Finish(t, "error")
    /\ UNCHANGED <<accepted, frozen, unpaused>>

\* docker unpause succeeds on a paused node only, and may fail on that.
Thaw(t) ==
    /\ at[t] = "posted"
    /\ \E found \in BOOLEAN, works \in BOOLEAN :
          LET tried  == call[t].args \in PowerOnResets /\ found
              thawed == tried /\ works /\ frozen
          IN  /\ unpaused' = [unpaused EXCEPT ![t] =
                                IF ~tried THEN "none" ELSE IF thawed THEN "yes" ELSE "no"]
              /\ frozen' = (frozen /\ ~thawed)
    /\ Goes(t, "thawed")
    /\ UNCHANGED <<resets, accepted, faults>>

ReadLog(t) ==
    /\ at[t] = "thawed"
    /\ Finish(t, IF unpaused[t] = "no" THEN "not_ok" ELSE "ok")
    /\ UNCHANGED <<resets, accepted, frozen, unpaused, faults>>

ReadLogFailed(t) ==
    /\ at[t] = "thawed"
    /\ Fault
    /\ Finish(t, "error")
    /\ UNCHANGED <<resets, accepted, frozen, unpaused>>

Wrapper(t) ==
    /\ Enter(t) \/ Replay(t)
    /\ UNCHANGED <<resets, accepted, frozen, unpaused, faults>>

Serve(t) ==
    \/ Wrapper(t) \/ BadType(t) \/ PostAccepted(t) \/ PostFailed(t)
    \/ Thaw(t) \/ ReadLog(t) \/ ReadLogFailed(t)

Caller ==
    /\ \E t \in Threads : Invoke(t)
    /\ UNCHANGED <<resets, accepted, frozen, unpaused, faults>>

RestartServer ==
    /\ Restart
    /\ accepted' = [k \in CacheKeys |-> 0]
    /\ unpaused' = [t \in Threads |-> "none"]
    /\ UNCHANGED <<resets, frozen, faults>>

Next == Caller \/ RestartServer \/ \E t \in Threads : Serve(t)

Spec == Init /\ [][Next]_vars

\* A thread runs on, and a lock that is free is taken by a thread that waits.
FairSpec == Spec /\ \A t \in Threads : WF_vars(Serve(t))

----------------------------------------------------------------------------

\* A machine is not reset for a key that this server process has answered
\* without an error, nor for one that another call is still working on: the
\* cache check and the reset are one, and a thaw that failed is an answer
\* like any other (common.py:83-95, redfish.py:212-215).
NoSecondReset ==
    [][\A k \in CacheKeys : resets'[k] # resets[k] /\ k[2] # NoKey =>
          /\ \A a \in answers : CacheKey(a.call) = k => a.outcome = "error"
          /\ \A t, u \in Threads :
                InTool(t) /\ InTool(u) /\ CacheKey(call[t]) = k /\ CacheKey(call[u]) = k
                    => t = u]_vars

\* redfish.py:212-214: once the BMC has accepted the reset, a second call with
\* the same key replays the answer and does not power-cycle the machine again.
AcceptedOnce == \A k \in CacheKeys : k[2] # NoKey => accepted[k] <= 1
============================================================================
