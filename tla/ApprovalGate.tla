---------------------------- MODULE ApprovalGate ----------------------------
(***************************************************************************)
(* What an approval bridge promises (hush/src/graph.ts, ApprovalBridge):   *)
(* every held call is asked about once; the question ends at most once,    *)
(* and with a human's answer only if a human gave that answer for that     *)
(* very call.  How the question and the answer travel is not said here.    *)
(***************************************************************************)
EXTENDS Integers

CONSTANT Toks    \* the toolCallIds of the held calls

VARIABLES
    result,    \* of each call: how its question stands
    posted     \* the answers humans gave: <<tok, allow>>

Results == {"unasked", "asked", "allow", "deny", "timeout", "error"}

Init ==
    /\ result = [t \in Toks |-> "unasked"]
    /\ posted = {}

Ask(t) ==
    /\ result[t] = "unasked"
    /\ result' = [result EXCEPT ![t] = "asked"]
    /\ UNCHANGED posted

\* A human may answer late, twice, or in two ways.
Post(t, allow) ==
    /\ result[t] # "unasked"
    /\ posted' = posted \cup {<<t, allow>>}
    /\ UNCHANGED result

Conclude(t, outcome) ==
    /\ result[t] = "asked"
    /\ outcome = "allow" => <<t, TRUE>> \in posted
    /\ outcome = "deny" => <<t, FALSE>> \in posted
    /\ result' = [result EXCEPT ![t] = outcome]
    /\ UNCHANGED posted

Next ==
    \E t \in Toks :
        \/ Ask(t)
        \/ \E allow \in BOOLEAN : Post(t, allow)
        \/ \E outcome \in Results \ {"unasked", "asked"} : Conclude(t, outcome)

Spec == Init /\ [][Next]_<<result, posted>>
============================================================================
