--------------------------- MODULE ApprovalFiles ---------------------------
(***************************************************************************)
(* The web approval bridge: WebApproval.decide (hush/src/approval.ts) in   *)
(* the controller and POST /api/approval (hush/src/ui-server.ts) in the    *)
(* console.  The two share nothing but two files of the run's directory:   *)
(* the controller writes approval-pending.json in place and polls for      *)
(* approval-decision.json, which the console renames into place.           *)
(*                                                                         *)
(* Nothing keeps two controllers from resuming the same run, a killed      *)
(* controller leaves its files behind, and the console answers several     *)
(* requests at a time and may be restarted.  One run is modelled.          *)
(***************************************************************************)
EXTENDS Integers, Sequences, FiniteSets

CONSTANTS
    Controllers,    \* processes that run or resume the run
    Requests,       \* posts of a decision; bound: one use each
    Actions,        \* ids of planned actions
    None,           \* no file
    Partial,        \* a file that is being written
    MaxAsks,        \* bound: questions asked
    MaxFailures     \* bound: kills, restarts of the console and failed writes

Toks == 1 .. MaxAsks

\* A held call: its toolCallId, which fixes tool and arguments, and the
\* planned action it was held for.
Question == [tok: Toks, action: Actions]

Decision == [tok: Toks, action: Actions, allow: BOOLEAN]

ASSUME ApprovalAssumption ==
    /\ Actions # {} /\ MaxAsks \in Nat \ {0}
    /\ None # Partial
    /\ {None, Partial} \cap (Question \cup Decision) = {}
    /\ MaxFailures \in Nat

VARIABLES
    pending,     \* approval-pending.json
    decision,    \* approval-decision.json
    stage,       \* where in decide() each controller is
    question,    \* what it asks, or asked last
    verdict,     \* what decide() is about to return
    asked,       \* how many calls were asked about
    result,      \* of each call: how its question stands
    request,     \* of each post: its stage, payload and what it read
    recorded,    \* recordedDecisions of this console process
    posted,      \* what humans posted: <<tok, allow>>
    placed,      \* how many decisions this console accepted, by call
    shown,       \* the questions that were there to be read
    failures     \* how many failures happened

controllers == <<stage, question, verdict, asked, result, shown>>
console     == <<request, recorded, posted, placed>>

vars == <<pending, decision, controllers, console, failures>>

Stages == {"idle", "cleared", "writing", "polling", "closing", "closed"}

Outcomes == {"allow", "deny", "timeout", "error"}

Init ==
    /\ pending = None
    /\ decision = None
    /\ stage = [c \in Controllers |-> "idle"]
    /\ question = [c \in Controllers |-> CHOOSE q \in Question : TRUE]
    /\ verdict = [c \in Controllers |-> "timeout"]
    /\ asked = 0
    /\ result = [t \in Toks |-> "unasked"]
    /\ request = [r \in Requests |->
                    [stage |-> "unused", for |-> CHOOSE q \in Question : TRUE,
                     allow |-> FALSE, seen |-> None]]
    /\ recorded = {}
    /\ posted = {}
    /\ placed = [t \in Toks |-> 0]
    /\ shown = {}
    /\ failures = 0

Failure ==
    /\ failures < MaxFailures
    /\ failures' = failures + 1

----------------------------------------------------------------------------
(* The controller: decide().                                               *)

Moves(c, from, to) ==
    /\ stage[c] = from
    /\ stage' = [stage EXCEPT ![c] = to]

\* N6 has a held call; whatever decision lies about is removed.
Ask(c) ==
    /\ Moves(c, "idle", "cleared")
    /\ asked < MaxAsks
    /\ asked' = asked + 1
    /\ \E a \in Actions :
          question' = [question EXCEPT ![c] = [tok |-> asked + 1, action |-> a]]
    /\ result' = [result EXCEPT ![asked + 1] = "asked"]
    /\ decision' = None
    /\ UNCHANGED <<pending, verdict, shown, console, failures>>

\* The held call is not the planned one: decide() throws before its try block,
\* and an old pending file stays.
HeldUnplanned(c) ==
    /\ Moves(c, "cleared", "idle")
    /\ result' = [result EXCEPT ![question[c].tok] = "error"]
    /\ UNCHANGED <<pending, decision, question, verdict, asked, shown, console, failures>>

OpenPending(c) ==
    /\ Moves(c, "cleared", "writing")
    /\ pending' = Partial
    /\ UNCHANGED <<decision, question, verdict, asked, result, shown, console, failures>>

WritePending(c) ==
    /\ Moves(c, "writing", "polling")
    /\ pending' = question[c]
    /\ shown' = shown \cup {question[c]}
    /\ UNCHANGED <<decision, question, verdict, asked, result, console, failures>>

\* Mutated form of Answers: an answer to any call held for the action.
AnswersAction(d, q) == d.action = q.action

Answers(d, q) == d.action = q.action /\ d.tok = q.tok

\* A decision for anything but this call makes decide() throw.
Poll(c) ==
    /\ Moves(c, "polling", "closing")
    /\ decision # None
    /\ verdict' = [verdict EXCEPT ![c] =
                     IF ~Answers(decision, question[c]) THEN "error"
                     ELSE IF decision.allow THEN "allow" ELSE "deny"]
    /\ UNCHANGED <<pending, decision, question, asked, result, shown, console, failures>>

\* Mutated form of Expire: the deadline is only looked at after an answer.
ExpireAnswered(c) ==
    /\ Moves(c, "polling", "closing")
    /\ decision # None
    /\ verdict' = [verdict EXCEPT ![c] = "timeout"]
    /\ UNCHANGED <<pending, decision, question, asked, result, shown, console, failures>>

\* APPROVAL_TIMEOUT_S is over, whether or not a decision has just arrived.
Expire(c) ==
    /\ Moves(c, "polling", "closing")
    /\ verdict' = [verdict EXCEPT ![c] = "timeout"]
    /\ UNCHANGED <<pending, decision, question, asked, result, shown, console, failures>>

\* finally: both files are removed, whoever's they are by now.
RemovePending(c) ==
    /\ Moves(c, "closing", "closed")
    /\ pending' = None
    /\ UNCHANGED <<decision, question, verdict, asked, result, shown, console, failures>>

RemoveDecision(c) ==
    /\ Moves(c, "closed", "idle")
    /\ decision' = None
    /\ result' = [result EXCEPT ![question[c].tok] = verdict[c]]
    /\ UNCHANGED <<pending, question, verdict, asked, shown, console, failures>>

Die(c) ==
    /\ stage[c] # "idle"
    /\ Failure
    /\ stage' = [stage EXCEPT ![c] = "idle"]
    /\ UNCHANGED <<pending, decision, question, verdict, asked, result, shown, console>>

----------------------------------------------------------------------------
(* The console: POST /api/approval.                                        *)

Becomes(r, from, to) ==
    /\ request[r].stage = from
    /\ request' = [request EXCEPT ![r].stage = to]

\* A human answers a question that is on the page, or was.
Post(r) ==
    /\ request[r].stage = "unused"
    /\ \E q \in shown, allow \in BOOLEAN :
          /\ request' = [request EXCEPT ![r] =
                           [stage |-> "received", for |-> q, allow |-> allow, seen |-> None]]
          /\ posted' = posted \cup {<<q.tok, allow>>}
    /\ UNCHANGED <<pending, decision, controllers, recorded, placed, failures>>

\* A file that is half written does not parse: 500.
ReadPending(r) ==
    /\ request[r].stage = "received"
    /\ request' = [request EXCEPT
                     ![r].seen = IF pending = Partial THEN None ELSE pending,
                     ![r].stage = IF pending = Partial THEN "refused" ELSE "read"]
    /\ UNCHANGED <<pending, decision, controllers, recorded, posted, placed, failures>>

Refused(r) ==
    /\ request[r].seen # request[r].for \/ request[r].for \in recorded
    /\ Becomes(r, "read", "refused")
    /\ UNCHANGED <<pending, decision, controllers, recorded, posted, placed, failures>>

\* Mutated form of Recorded: the decision is not kept.
RecordedNowhere(r) ==
    /\ request[r].seen = request[r].for
    /\ request[r].for \notin recorded
    /\ Becomes(r, "read", "recorded")
    /\ UNCHANGED <<pending, decision, controllers, recorded, posted, placed, failures>>

Recorded(r) ==
    /\ request[r].seen = request[r].for
    /\ request[r].for \notin recorded
    /\ Becomes(r, "read", "recorded")
    /\ recorded' = recorded \cup {request[r].for}
    /\ UNCHANGED <<pending, decision, controllers, posted, placed, failures>>

\* The decision is complete in a temporary file and renamed into place: 202.
Place(r) ==
    LET q == request[r].for IN
    /\ Becomes(r, "recorded", "accepted")
    /\ decision' = [tok |-> q.tok, action |-> q.action, allow |-> request[r].allow]
    /\ placed' = [placed EXCEPT ![q.tok] = @ + 1]
    /\ UNCHANGED <<pending, controllers, recorded, posted, failures>>

\* The run's directory cannot be made.  That is before the try block: the key
\* stays recorded, and no later post is accepted for the question.
MkdirFailed(r) ==
    /\ Failure
    /\ Becomes(r, "recorded", "refused")
    /\ UNCHANGED <<pending, decision, controllers, recorded, posted, placed>>

\* The write fails: the human may post again.
PlaceFailed(r) ==
    /\ Failure
    /\ Becomes(r, "recorded", "refused")
    /\ recorded' = recorded \ {request[r].for}
    /\ UNCHANGED <<pending, decision, controllers, posted, placed>>

RestartConsole ==
    /\ Failure
    /\ request' = [r \in Requests |->
                     IF request[r].stage = "unused" THEN request[r]
                     ELSE [request[r] EXCEPT !.stage = "refused"]]
    /\ recorded' = {}
    /\ placed' = [t \in Toks |-> 0]
    /\ UNCHANGED <<pending, decision, controllers, posted>>

----------------------------------------------------------------------------

Decide(c) ==
    \/ HeldUnplanned(c) \/ OpenPending(c) \/ WritePending(c) \/ Poll(c) \/ Expire(c)
    \/ RemovePending(c) \/ RemoveDecision(c)

Serve(r) ==
    \/ Post(r) \/ ReadPending(r) \/ Refused(r) \/ Recorded(r)
    \/ MkdirFailed(r) \/ Place(r) \/ PlaceFailed(r)

Next ==
    \/ \E c \in Controllers : Ask(c) \/ Decide(c) \/ Die(c)
    \/ \E r \in Requests : Serve(r)
    \/ RestartConsole

Spec == Init /\ [][Next]_vars

\* A controller that waits for an answer goes on polling.
FairSpec == Spec /\ \A c \in Controllers : WF_vars(Decide(c))

----------------------------------------------------------------------------

Gate == INSTANCE ApprovalGate WITH Toks <- Toks, result <- result, posted <- posted

\* The bridge keeps the promise of ApprovalGate: through stale files, posts
\* that come late, twice or in two tabs, a second controller, kills and
\* restarts, a question ends with a human's answer only if one was given for
\* that very call (approval.ts:134-161, ui-server.ts:349-399).
Implements == Gate!Spec

\* Within the life of a console no more than one decision is put in place for
\* a call, however the posts interleave: an allow is not overwritten by a
\* denial that was accepted as well (ui-server.ts:371-376).
OneDecisionPerCall == \A t \in Toks : placed[t] <= 1

\* Every decide() comes to an end, whatever happens to the files it shares
\* (approval.ts:130-176).
EveryDecideEnds ==
    \A c \in Controllers : stage[c] # "idle" ~> stage[c] = "idle"
============================================================================
