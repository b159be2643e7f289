-------------------------------- MODULE Take --------------------------------
(***************************************************************************)
(* What the console promises of its incident button (POST /api/incidents,  *)
(* hush/src/ui-server.ts): there is one take at a time.  The lab is set up *)
(* for a take, then a run works on it until it ends, and only then may the *)
(* lab be touched again.  How a scenario is injected is not said here.     *)
(***************************************************************************)
EXTENDS Integers

CONSTANTS
    Takers,   \* who may want a take
    NoTaker   \* nobody has it

VARIABLES
    taker,    \* whose take is being set up
    live      \* a run is at work

Init ==
    /\ taker = NoTaker
    /\ live = FALSE

SetUp(t) ==
    /\ taker = NoTaker /\ ~live
    /\ taker' = t
    /\ UNCHANGED live

\* The run starts, and its taker is answered some time after.
Start ==
    /\ taker # NoTaker /\ ~live
    /\ live' = TRUE
    /\ UNCHANGED taker

Answer ==
    /\ taker # NoTaker
    /\ taker' = NoTaker
    /\ UNCHANGED live

End ==
    /\ live
    /\ live' = FALSE
    /\ UNCHANGED taker

Next == Start \/ Answer \/ End \/ \E t \in Takers : SetUp(t)

Spec == Init /\ [][Next]_<<taker, live>>
============================================================================
