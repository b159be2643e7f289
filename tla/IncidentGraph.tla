--------------------------- MODULE IncidentGraph ---------------------------
(***************************************************************************)
(* The incident controller: runIncident (hush/src/incident.ts) driving the *)
(* nodes N0 .. N10 (hush/src/nodes/), its checkpoint on disk, its run      *)
(* budget, and the two parties it talks to: the harness, which holds every *)
(* destructive tool call until it is told to let it go, and the human who  *)
(* answers for it.                                                         *)
(*                                                                         *)
(* A pass of the loop is "head" (the budget check) and then the node.  A   *)
(* node whose effect on the outside comes before the checkpoint that       *)
(* records it is split there: that is where a crash hurts.  The patch, the *)
(* edge and the atomic save that ends a pass are one step, since nothing   *)
(* outside can see between them.                                           *)
(*                                                                         *)
(* The process may die at any point (a kill, or a node that throws), and   *)
(* the operator may resume it from the last checkpoint.                    *)
(***************************************************************************)
EXTENDS IncidentState

CONSTANTS
    RUN_TIMEOUT,       \* the run budget, in ticks of the clock
    Bridge,            \* HUSH_APPROVAL_MODE: "terminal" or "web"
    MaxFailures,       \* bound: kills, throws and timeouts of N9 and N10
    MaxIntakeFaults    \* bound: unusable answers of N1 and N2

ASSUME ControllerAssumption ==
    /\ RUN_TIMEOUT \in Nat \ {0}
    /\ Bridge \in {"terminal", "web"}
    /\ MaxFailures \in Nat
    /\ MaxIntakeFaults \in Nat

VARIABLES
    st,        \* the run state in memory
    meter,     \* spentMs in memory
    disk,      \* <<>> or <<[run, spent]>>: the last checkpoint
    until,     \* the --until option: "N3" or "DONE"
    proc,      \* "running", "stopped" (runIncident returned) or "dead"
    phase,     \* where in a pass the process is
    calls,     \* every tool call the harness has held in this run, by toolCallId
    polling,   \* the questions whose node has been given up while decide() goes on
    paged,     \* whether a human was paged
    failures   \* how many failures happened, up to MaxFailures

vars == <<st, meter, disk, until, proc, phase, calls, polling, paged, failures>>

Phases == {"head", "node", "asked", "answered", "fired"}

\* shown is the call the human was shown when the answer was asked for.
HeldCall ==
    [call: Destructive, shown: Destructive,
     answer: {"none", "allow", "deny", "timeout"},
     state: {"held", "fired", "refused"}]

TypeOK ==
    /\ st \in RunState
    /\ meter \in 0 .. RUN_TIMEOUT
    /\ disk \in Seq([run: RunState, spent: 0 .. RUN_TIMEOUT]) /\ Len(disk) <= 1
    /\ until \in {"N3", "DONE"}
    /\ proc \in {"running", "stopped", "dead"}
    /\ phase \in Phases
    /\ calls \in Seq(HeldCall)
    /\ polling \subseteq DOMAIN calls
    /\ paged \in BOOLEAN
    /\ failures \in 0 .. MaxFailures

Init ==
    /\ st = InitialState
    /\ meter = 0
    /\ disk = <<>>
    /\ until \in {"N3", "DONE"}
    /\ proc = "running"
    /\ phase = "head"
    /\ calls = <<>>
    /\ polling = {}
    /\ paged = FALSE
    /\ failures = 0

----------------------------------------------------------------------------
(* The loop: incident.ts.                                                  *)

\* Mutated form of Terminal: the report is charged to the run budget.
TerminalN9Only == st.node = "N9"

Terminal == st.node \in {"N9", "N10"}

Expired == meter >= RUN_TIMEOUT

\* stamped(next), written by saveCheckpoint.
Save(s) == disk' = <<[run |-> s, spent |-> meter]>>

In(node, ph) == proc = "running" /\ phase = ph /\ st.node = node

\* The end of a pass: the patched state s takes its edge and is saved.
Finish(s) ==
    LET next == Edge(s) IN
    /\ st' = next
    /\ Save(next)
    /\ phase' = "head"
    /\ proc' = IF s.node = until THEN "stopped" ELSE "running"
    /\ UNCHANGED <<meter, until, polling, failures>>

EscalateTimeout ==
    LET next == [st EXCEPT !.node = "N9", !.outcome = "escalated"] IN
    /\ st' = next
    /\ Save(next)
    /\ proc' = "stopped"
    /\ phase' = "head"
    /\ UNCHANGED <<meter, until, calls, paged, failures>>

LoopDone ==
    /\ In("DONE", "head")
    /\ proc' = "stopped"
    /\ UNCHANGED <<st, meter, disk, until, phase, calls, polling, paged, failures>>

LoopTimeout ==
    /\ proc = "running" /\ phase = "head"
    /\ ~Terminal /\ st.node # "DONE"
    /\ Expired
    /\ EscalateTimeout
    /\ UNCHANGED polling

LoopEnter ==
    /\ proc = "running" /\ phase = "head"
    /\ st.node # "DONE"
    /\ Terminal \/ ~Expired
    /\ phase' = "node"
    /\ UNCHANGED <<st, meter, disk, until, proc, calls, polling, paged, failures>>

\* runWithTimeout gives up on a node when the rest of the budget is spent.  It
\* aborts the requests to the harness, but decide() is not given the signal: a
\* question that was asked stays open in the process that nobody waits for.
NodeTimeout ==
    /\ proc = "running" /\ phase # "head"
    /\ ~Terminal
    /\ Expired
    /\ EscalateTimeout
    /\ polling' = polling \cup {t \in DOMAIN calls : phase = "asked" /\ t = Len(calls)}

\* Such a question still takes an answer.  What comes of it is lost: an allow
\* is a patch that nobody merges, and the refusal throws on the aborted signal.
LateAnswer ==
    /\ \E t \in polling, answer \in {"allow", "deny", "timeout"} :
          /\ calls' = [calls EXCEPT ![t].answer = answer]
          /\ polling' = polling \ {t}
    /\ UNCHANGED <<st, meter, disk, until, proc, phase, paged, failures>>

\* N9 and N10 have a timer of their own; the run stays where it is.
TerminalTimeout ==
    /\ proc = "running" /\ phase # "head"
    /\ Terminal
    /\ failures < MaxFailures
    /\ failures' = failures + 1
    /\ Save(st)
    /\ proc' = "stopped"
    /\ phase' = "head"
    /\ UNCHANGED <<st, meter, until, calls, polling, paged>>

Tick ==
    /\ proc = "running"
    /\ meter < RUN_TIMEOUT
    /\ meter' = meter + 1
    /\ UNCHANGED <<st, disk, until, proc, phase, calls, polling, paged, failures>>

Die ==
    /\ proc = "running"
    /\ failures < MaxFailures
    /\ failures' = failures + 1
    /\ proc' = "dead"
    /\ UNCHANGED <<st, meter, disk, until, phase, calls, polling, paged>>

\* Mutated form of Resume: every resume starts with a full budget.
ResumeFreshBudget ==
    /\ proc # "running" /\ disk # <<>>
    /\ st' = disk[1].run
    /\ meter' = 0
    /\ until' = "DONE"
    /\ proc' = "running"
    /\ phase' = "head"
    /\ UNCHANGED <<disk, calls, polling, paged, failures>>

\* hush resume: the last checkpoint, and only the budget it left.
Resume ==
    /\ proc # "running" /\ disk # <<>>
    /\ st' = disk[1].run
    /\ meter' = disk[1].spent
    /\ until' = "DONE"
    /\ proc' = "running"
    /\ phase' = "head"
    /\ UNCHANGED <<disk, calls, polling, paged, failures>>

\* Nothing was checkpointed: the operator runs hush incident again.
StartOver ==
    /\ proc = "dead" /\ disk = <<>>
    /\ st' = InitialState
    /\ meter' = 0
    /\ proc' = "running"
    /\ phase' = "head"
    /\ UNCHANGED <<disk, until, calls, polling, paged, failures>>

----------------------------------------------------------------------------
(* Intake: N0 watch, N1 triage, N2 enrich.                                 *)

Watch ==
    /\ In("N0", "node")
    /\ Finish(st)
    /\ UNCHANGED <<calls, paged>>

IntakeFaults == st.parseRetries + Cardinality(st.marks)

TriageOk ==
    /\ In("N1", "node")
    /\ \E incident \in Incidents \ {"none"} :
          Finish([st EXCEPT !.session = TRUE, !.incident = incident])
    /\ UNCHANGED <<calls, paged>>

TriageUnparsed ==
    /\ In("N1", "node")
    /\ IntakeFaults < MaxIntakeFaults
    /\ Finish([st EXCEPT !.session = TRUE, !.parseRetries = @ + 1])
    /\ UNCHANGED <<calls, paged>>

EnrichUnparsed ==
    /\ In("N2", "node")
    /\ st.session /\ st.incident # "none"
    /\ IntakeFaults < MaxIntakeFaults
    /\ Finish([st EXCEPT
          !.parseRetries = @ + 1,
          !.n2errors = @ + 1,
          !.layers = IF st.n2errors + 1 >= PARSE_RETRIES_MAX THEN Required ELSE @])
    /\ UNCHANGED <<calls, paged>>

\* Mutated form of EnrichFanoutLow: a low fan-out is retried every time.
EnrichFanoutLowAgain ==
    /\ In("N2", "node")
    /\ st.session /\ st.incident # "none"
    /\ IntakeFaults < MaxIntakeFaults
    /\ Finish([st EXCEPT !.marks = @ \cup {"subagent_count_low"}])
    /\ UNCHANGED <<calls, paged>>

\* Fewer than three subagents, seen for the first time.
EnrichFanoutLow ==
    /\ In("N2", "node")
    /\ st.session /\ st.incident # "none"
    /\ "subagent_count_low" \notin st.marks
    /\ IntakeFaults < MaxIntakeFaults
    /\ Finish([st EXCEPT !.marks = @ \cup {"subagent_count_low"}])
    /\ UNCHANGED <<calls, paged>>

\* The evidence of an answer with a layer missing is dropped the first time
\* and completed with fallback evidence after a retry of either kind.
EnrichAnswered ==
    /\ In("N2", "node")
    /\ st.session /\ st.incident # "none"
    /\ \E present \in SUBSET Required :
          LET complete == present = Required
              seen     == IF complete THEN {} ELSE {"enrich_missing_layers"}
          IN  /\ complete \/ seen \subseteq st.marks \/ IntakeFaults < MaxIntakeFaults
              /\ Finish([st EXCEPT
                    !.marks = @ \cup seen,
                    !.layers = IF complete \/ st.marks # {} THEN Required ELSE @])
    /\ UNCHANGED <<calls, paged>>

----------------------------------------------------------------------------
(* Planning and execution: N3 plan, N4 route, N5 - N7 exec.                *)

Plan ==
    /\ In("N3", "node")
    /\ st.session /\ st.incident # "none"
    /\ \E proposals \in Plans(st) :
          LET plan == WithCloseout(st, proposals) IN
          \E ids \in [DOMAIN plan -> ActionIds] :
             /\ IsNumbering(ids, st, plan)
             /\ Finish(Planned(st, plan, ids))
    /\ UNCHANGED <<calls, paged>>

PlanUnparsed ==
    /\ In("N3", "node")
    /\ st.session /\ st.incident # "none"
    /\ Finish(Unplanned(st))
    /\ UNCHANGED <<calls, paged>>

RouteFirst(s) ==
    LET first == FirstRanked(Proposed(s)) IN
    IF first = {} THEN s ELSE [s EXCEPT !.pending = (CHOOSE a \in first : TRUE).id]

Route ==
    /\ In("N4", "node")
    /\ Finish(RouteFirst(st))
    /\ UNCHANGED <<calls, paged>>

Update(s, a) == [s EXCEPT !.actions = MergeById(@, {a})]

Settled(s, a, status) ==
    [Update(s, [a EXCEPT !.status = status]) EXCEPT !.pending = 0]

ExecSafe ==
    /\ In("N5", "node")
    /\ \E a \in ById(st, st.pending), status \in {"executed", "failed"} :
          /\ a.call \in Safe
          /\ Finish(Settled(st, a, status))
    /\ UNCHANGED <<calls, paged>>

\* Mutated form of Comparable: the web bridge compares nothing.
ComparableAlways(held, a) == TRUE

(* The turn of N6 ends with a destructive call held.  Nothing obliges the  *)
(* model to hold the planned one: the web bridge compares them and throws, *)
(* the terminal bridge shows the plan.                                     *)
Comparable(held, a) == Bridge = "web" => held = a.call

AskHuman ==
    /\ In("N6", "node")
    /\ \E a \in ById(st, st.pending), held \in Destructive :
          /\ a.call \in Destructive
          /\ Comparable(held, a)
          /\ calls' = Append(calls, [call |-> held, shown |-> a.call,
                                     answer |-> "none", state |-> "held"])
    /\ phase' = "asked"
    /\ UNCHANGED <<st, meter, disk, until, proc, polling, paged, failures>>

HeldUnplanned ==
    /\ In("N6", "node")
    /\ failures < MaxFailures
    /\ \E a \in ById(st, st.pending), held \in Destructive :
          /\ a.call \in Destructive
          /\ ~Comparable(held, a)
          /\ calls' = Append(calls, [call |-> held, shown |-> a.call,
                                     answer |-> "none", state |-> "held"])
    /\ failures' = failures + 1
    /\ proc' = "dead"
    /\ UNCHANGED <<st, meter, disk, until, phase, polling, paged>>

\* decide(): the human allows or denies, or APPROVAL_TIMEOUT_S runs out.
Answer ==
    /\ In("N6", "asked")
    /\ \E answer \in {"allow", "deny", "timeout"} :
          calls' = [calls EXCEPT ![Len(calls)].answer = answer]
    /\ phase' = "answered"
    /\ UNCHANGED <<st, meter, disk, until, proc, polling, paged, failures>>

\* A refusal is passed on to the harness before it is recorded.
Refuse ==
    /\ In("N6", "answered")
    /\ calls # <<>> /\ calls[Len(calls)].answer # "allow"
    /\ calls[Len(calls)].state = "held"
    /\ calls' = [calls EXCEPT ![Len(calls)].state = "refused"]
    /\ UNCHANGED <<st, meter, disk, until, proc, phase, polling, paged, failures>>

\* Mutated form of Approved: the routed action is forgotten.
ApprovedUnrouted(s, a, tok) ==
    [Update(s, [a EXCEPT !.status = "approved", !.tok = tok]) EXCEPT !.pending = 0]

Approved(s, a, tok) ==
    Update(s, [a EXCEPT !.status = "approved", !.tok = tok])

Refused(s, a, tok) ==
    [Settled(s, [a EXCEPT !.tok = tok], "denied") EXCEPT !.replans = @ + 1]

RecordAllow ==
    /\ In("N6", "answered")
    /\ calls # <<>> /\ calls[Len(calls)].answer = "allow"
    /\ \E a \in ById(st, st.pending) : Finish(Approved(st, a, Len(calls)))
    /\ UNCHANGED <<calls, paged>>

RecordDeny ==
    /\ In("N6", "answered")
    /\ calls # <<>> /\ calls[Len(calls)].state = "refused"
    /\ \E a \in ById(st, st.pending) : Finish(Refused(st, a, Len(calls)))
    /\ UNCHANGED <<calls, paged>>

\* Letting the held call go.  A call that a previous process already let go
\* is no longer held and does not run again.
Fireable(a) == a.status = "approved" /\ a.tok \in DOMAIN calls

Fire ==
    /\ In("N7", "node")
    /\ \E a \in ById(st, st.pending) :
          /\ Fireable(a)
          /\ calls' = IF calls[a.tok].state = "held"
                      THEN [calls EXCEPT ![a.tok].state = "fired"]
                      ELSE calls
    /\ phase' = "fired"
    /\ UNCHANGED <<st, meter, disk, until, proc, polling, paged, failures>>

ExecDestructive ==
    /\ In("N7", "fired")
    /\ \E a \in ById(st, st.pending), status \in {"executed", "failed"} :
          Finish(Settled(st, a, status))
    /\ UNCHANGED <<calls, paged>>

----------------------------------------------------------------------------
(* Verification and the ends: N8 verify, N9 escalate, N10 report.          *)

Verify ==
    /\ In("N8", "node")
    /\ st.session /\ st.incident # "none"
    /\ \E outcome \in {"none", "recovered"} :
          Finish([st EXCEPT !.outcome = outcome, !.verifyAttempts = @ + 1])
    /\ UNCHANGED <<calls, paged>>

\* A run that escalates before N1 succeeded has no session yet: the one that
\* N9 opens is checkpointed before anybody is paged.
OpenSession ==
    /\ In("N9", "node")
    /\ ~st.session
    /\ st' = [st EXCEPT !.session = TRUE]
    /\ Save(st')
    /\ UNCHANGED <<meter, until, proc, phase, calls, polling, paged, failures>>

Page ==
    /\ In("N9", "node")
    /\ st.session
    /\ paged' = TRUE
    /\ phase' = "fired"
    /\ UNCHANGED <<st, meter, disk, until, proc, calls, polling, failures>>

Escalate ==
    /\ In("N9", "fired")
    /\ Finish([st EXCEPT !.outcome = "escalated"])
    /\ UNCHANGED <<calls, paged>>

Report ==
    /\ In("N10", "node")
    /\ Finish(st)
    /\ UNCHANGED <<calls, paged>>

----------------------------------------------------------------------------

Loop == LoopDone \/ LoopTimeout \/ LoopEnter \/ NodeTimeout

Intake ==
    \/ Watch \/ TriageOk \/ TriageUnparsed
    \/ EnrichUnparsed \/ EnrichFanoutLow \/ EnrichAnswered

Remedy ==
    \/ Plan \/ PlanUnparsed \/ Route \/ ExecSafe
    \/ AskHuman \/ HeldUnplanned \/ Answer \/ Refuse
    \/ RecordAllow \/ RecordDeny \/ Fire \/ ExecDestructive \/ Verify

Ending == OpenSession \/ Page \/ Escalate \/ Report

Operator == Resume \/ StartOver

Next ==
    \/ Loop \/ Tick \/ TerminalTimeout \/ Die \/ Operator
    \/ Intake \/ Remedy \/ Ending \/ LateAnswer

Spec == Init /\ [][Next]_vars

(* The operator resumes a run that stopped short, and the timer of a node  *)
(* always fires; neither the model nor the human is assumed to answer.     *)
Fairness ==
    /\ WF_vars(Loop)
    /\ WF_vars(Tick)
    /\ WF_vars(Ending)
    /\ WF_vars(Operator)

FairSpec == Spec /\ Fairness

(* A run in which the clock never bites and every question is answered:    *)
(* what is left to end it are the retry limits alone.                      *)
NextUntimed == Loop \/ Intake \/ Remedy \/ Ending

UntimedSpec == Init /\ [][NextUntimed]_vars /\ WF_vars(NextUntimed)

----------------------------------------------------------------------------
(* Safety.                                                                 *)

\* The human gate: a destructive call runs only if a human was shown that
\* very call and allowed it, whatever the model held, however often the
\* process died between the turn, the answer, the checkpoint and the call
\* (exec.ts:88-179, approval.ts:106-112).
GateHolds ==
    \A t \in DOMAIN calls :
        calls[t].state = "fired" =>
            calls[t].answer = "allow" /\ calls[t].shown = calls[t].call

\* No node is entered, or resumed into, in a state in which it could only
\* throw: the guards of enrich.ts:39-40, plan.ts:95-96, exec.ts:35, 57, 90,
\* 163 and verify.ts:84 never fire, so no checkpoint is a dead end.
NodesCanRun ==
    proc = "running" =>
        /\ st.node \in {"N2", "N3", "N8"} => st.session /\ st.incident # "none"
        /\ st.node \in {"N5", "N6", "N7"} =>
              /\ Cardinality(ById(st, st.pending)) = 1
              /\ \A a \in ById(st, st.pending) :
                    CASE st.node = "N5" -> a.call \in Safe /\ a.status = "proposed"
                      [] st.node = "N6" -> a.call \in Destructive /\ a.status = "proposed"
                      [] st.node = "N7" -> a.status = "approved" /\ a.tok \in DOMAIN calls

\* An allow is acted on: an approved action is the one N7 is about to let
\* go, or the run has been escalated to a human (edges.ts:54-60).
AllowIsActedOn ==
    \A a \in WithStatus(st, "approved") :
        \/ st.node = "N7" /\ st.pending = a.id
        \/ st.outcome = "escalated"

\* A finished run either recovered without paging anybody or escalated and
\* paged: the report never says one while the human was told the other
\* (escalate.ts:14-17, verify.ts:122, edges.ts:64-69).
OutcomeMatchesPage ==
    st.node = "DONE" =>
        \/ st.outcome = "recovered" /\ ~paged
        \/ st.outcome = "escalated" /\ paged

\* Verification of a scoped incident never starts before a silence of its
\* residual storm was planned and tried, whatever was denied, replanned or
\* kept from an earlier plan: without one its alerts alone would keep N8 from
\* seeing a recovery (plan.ts:28-33).  Tried is not silenced: N8 follows on a
\* silence that failed too, with the storm still firing (exec.ts:39-46).
CloseoutBeforeVerify ==
    st.node = "N8" /\ st.incident = "scoped" =>
        \E a \in st.actions : a.call \in Covering /\ a.status \in {"executed", "failed"}

\* The retry limits of graph.ts:76-80 bound what they are meant to bound.  N1
\* and N2 share the counter parseRetries but each retries on its own account,
\* so that together they may count past PARSE_RETRIES_MAX (edges.ts:16-19,
\* enrich.ts:64-69).
CountersBounded ==
    /\ st.replans <= REPLANS_MAX
    /\ st.verifyAttempts <= VERIFY_ATTEMPTS_MAX
    /\ st.n2errors <= PARSE_RETRIES_MAX
    /\ st.parseRetries < 2 * PARSE_RETRIES_MAX
    /\ Cardinality(Proposed(st)) <= ACTIONS_MAX

----------------------------------------------------------------------------
(* Action properties.                                                      *)

Last(d) == d[1].run

\* What the checkpoint says was done to an action is never rewritten: a
\* replan, a crash or a resume leaves executed, failed, denied and skipped
\* actions as they are (plan.ts:208-215, graph.ts:91-99).
SettledIsFinal ==
    [][disk # <<>> =>
         {a \in Last(disk).actions : a.status \notin {"proposed", "approved"}}
             \subseteq Last(disk').actions]_vars

\* A later plan never offers a pair that was denied before it was made
\* (plan.ts:107-109, 166, 174-177).
DeniedNotReplanned ==
    [][\A a \in st'.actions :
         (\A b \in st.actions : b.id # a.id) => a.call \notin Denied(st)]_vars

\* A recovery that was checkpointed stays the outcome: neither the budget
\* nor a failing report turns it into a page (incident.ts:134-135, 185-197).
RecoveryIsFinal ==
    [][disk # <<>> /\ Last(disk).outcome = "recovered" =>
         Last(disk').outcome = "recovered" /\ paged' = paged]_vars

\* Once a checkpoint says that the budget is spent, no tool call is held,
\* refused or let go any more, however often the run is resumed
\* (incident.ts:85-98, 133-149).  A human may still answer a question that N6
\* left open when its time was up (exec.ts:114, approval.ts:131-165): the
\* answer moves neither the run nor its checkpoint.
NoWorkPastBudget ==
    [][disk # <<>> /\ disk[1].spent >= RUN_TIMEOUT =>
         /\ DOMAIN calls' = DOMAIN calls
         /\ \A t \in DOMAIN calls : calls'[t].state = calls[t].state
         /\ calls' # calls => UNCHANGED <<st, disk, proc>>]_vars

----------------------------------------------------------------------------
(* Liveness.                                                               *)

\* With an operator who resumes it, every run ends in DONE, even if the
\* model and the human never answer (incident.ts:132-217).
Terminates == <>[](disk # <<>> /\ Last(disk).node = "DONE")

\* The retry limits end every run on their own, without the budget.
RetriesEnd == <>(proc = "stopped")

----------------------------------------------------------------------------
(* What the documents say, where the code does something else.             *)

\* specs/graph.md:207: a denied (tool, args) pair is blacklisted for the run,
\* so nobody is asked about it again.
NotAskedAgain ==
    In("N6", "asked") => calls[Len(calls)].shown \notin Denied(st)
=============================================================================
