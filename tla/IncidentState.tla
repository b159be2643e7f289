--------------------------- MODULE IncidentState ---------------------------
(***************************************************************************)
(* The data of one incident run and the pure functions over it: the record *)
(* that is checkpointed (hush/src/state.ts), the patch merge               *)
(* (hush/src/graph.ts), the tool registry (hush/src/registry.ts), the      *)
(* routing table (hush/src/edges.ts) and the plan that N3 puts on the      *)
(* table (hush/src/nodes/plan.ts).                                         *)
(*                                                                         *)
(* A call is a tool with its arguments; two calls with the same tool and   *)
(* the same arguments are the same element of Calls, as they are the same  *)
(* key in plan.ts.  An action is one planned execution of a call.          *)
(***************************************************************************)
EXTENDS Integers, FiniteSets, Sequences

CONSTANTS
    Safe,              \* calls to tools the registry marks "safe"
    Destructive,       \* calls to tools the registry marks "destructive"
    Unregistered,      \* calls to tools the registry does not know
    Closeout,          \* the silence the controller itself appends to a plan
    Covering,          \* silences that cover the incident's own alerts
    ACTIONS_MAX,       \* LIMITS of hush/src/graph.ts
    REPLANS_MAX,
    PARSE_RETRIES_MAX,
    VERIFY_ATTEMPTS_MAX

ASSUME RegistryAssumption ==
    /\ Safe \cap Destructive = {}
    /\ (Safe \cup Destructive) \cap Unregistered = {}
    /\ Covering \subseteq Safe
    /\ Closeout \in Covering

ASSUME LimitsAssumption ==
    /\ ACTIONS_MAX \in Nat \ {0}
    /\ REPLANS_MAX \in Nat \ {0}
    /\ PARSE_RETRIES_MAX \in Nat \ {0}
    /\ VERIFY_ATTEMPTS_MAX \in Nat \ {0}

----------------------------------------------------------------------------
(* The run's state: state.ts.                                              *)

Calls == Safe \cup Destructive \cup Unregistered

Registered == Safe \cup Destructive

Policy(c) ==
    IF c \in Safe THEN "safe" ELSE IF c \in Destructive THEN "destructive" ELSE "none"

Nodes == {"N0", "N1", "N2", "N3", "N4", "N5", "N6", "N7", "N8", "N9", "N10", "DONE"}

Required == {"redfish", "netbox", "kubernetes"}

\* The two one-time retries of N2 are remembered as timeline events.
Marks == {"subagent_count_low", "enrich_missing_layers"}

\* A scoped incident names a rack or exactly one node, so that a silence can
\* be limited to it; an unscoped one names neither.
Incidents == {"none", "scoped", "unscoped"}

Statuses == {"proposed", "approved", "denied", "executed", "failed", "skipped"}

\* Every visit of N3 adds at most ACTIONS_MAX actions and there are fewer
\* visits than REPLANS_MAX + VERIFY_ATTEMPTS_MAX, so the names never run out.
ActionIds == 1 .. (ACTIONS_MAX * (REPLANS_MAX + VERIFY_ATTEMPTS_MAX))

\* tok is the toolCallId of the held call kept in result.pendingApproval
\* (0 for none).
Action == [id: ActionIds, call: Calls, rank: 1 .. ACTIONS_MAX, status: Statuses, tok: Nat]

RunState ==
    [node: Nodes,
     session: BOOLEAN,
     incident: Incidents,
     layers: SUBSET Required,
     marks: SUBSET Marks,
     n2errors: Nat,
     parseRetries: Nat,
     replans: Nat,
     verifyAttempts: Nat,
     actions: SUBSET Action,
     pending: ActionIds \cup {0},
     outcome: {"none", "recovered", "escalated"}]

InitialState ==
    [node |-> "N0", session |-> FALSE, incident |-> "none", layers |-> {},
     marks |-> {}, n2errors |-> 0, parseRetries |-> 0, replans |-> 0,
     verifyAttempts |-> 0, actions |-> {}, pending |-> 0, outcome |-> "none"]

WithStatus(s, status) == {a \in s.actions : a.status = status}

Proposed(s) == WithStatus(s, "proposed")

\* The (tool, args) pairs a human refused in this run.
Denied(s) == {a.call : a \in WithStatus(s, "denied")}

\* Mutated form of MergeById: the patch is appended to what it replaces.
MergeByAppending(current, patch) == current \cup patch

\* mergeById: an action of the patch replaces the one with the same id.
MergeById(current, patch) ==
    {a \in current : \A b \in patch : b.id # a.id} \cup patch

\* The actions with the given id: at most one in a reachable state.
ById(s, i) == {a \in s.actions : a.id = i}

FirstRanked(as) == {a \in as : \A b \in as : a.rank <= b.rank}
----------------------------------------------------------------------------
(* The plan N3 puts on the table: nodes/plan.ts.                           *)

\* Mutated form of Offerable: the denied pairs are not filtered out.
OfferableUnfiltered(s) == Registered

(* What survives the filter on a model's plan: registered calls that no    *)
(* human has refused.  Any list of proposals, filtered and cut to          *)
(* ACTIONS_MAX, is one of Plans(s), and each of them is such a list.       *)
Offerable(s) == Registered \ Denied(s)

Plans(s) == UNION {[1 .. n -> Offerable(s)] : n \in 0 .. ACTIONS_MAX}

\* The close-out takes the last slot when the model filled every one.
LacksCloseout(s, plan) ==
    /\ plan # <<>>
    /\ s.incident = "scoped"
    /\ \A i \in DOMAIN plan : plan[i] \notin Covering
    /\ Closeout \notin Denied(s)

\* Mutated form of WithCloseout: a full plan gets no close-out.
WithCloseoutIfRoom(s, plan) ==
    IF LacksCloseout(s, plan) /\ Len(plan) < ACTIONS_MAX
    THEN Append(plan, Closeout) ELSE plan

WithCloseout(s, plan) ==
    IF LacksCloseout(s, plan)
    THEN LET kept == IF Len(plan) < ACTIONS_MAX THEN Len(plan) ELSE ACTIONS_MAX - 1
         IN  [i \in 1 .. kept + 1 |-> IF i <= kept THEN plan[i] ELSE Closeout]
    ELSE plan

\* The names act-n are the smallest ones the run does not use yet.
IsNumbering(ids, s, plan) ==
    LET used == {a.id : a \in s.actions} IN
    /\ ids \in [DOMAIN plan -> ActionIds \ used]
    /\ \A i, j \in DOMAIN plan : i < j => ids[i] < ids[j]
    /\ \A i \in DOMAIN plan : \A n \in 1 .. ids[i] :
           n \in used \/ \E j \in DOMAIN plan : ids[j] = n

\* Mutated form of NewActions: ranks from zero.
NewActionsFromZero(plan, ids) ==
    {[id |-> ids[i], call |-> plan[i], rank |-> i - 1, status |-> "proposed", tok |-> 0] :
        i \in DOMAIN plan}

NewActions(plan, ids) ==
    {[id |-> ids[i], call |-> plan[i], rank |-> i, status |-> "proposed", tok |-> 0] :
        i \in DOMAIN plan}

Skip(as) == {[a EXCEPT !.status = "skipped"] : a \in as}

\* Mutated form of Planned: everything but the new plan is skipped.
PlannedSkippingAll(s, plan, ids) ==
    LET superseded == IF plan = <<>> THEN {} ELSE Skip(s.actions) IN
    [s EXCEPT !.actions = MergeById(@, superseded \cup NewActions(plan, ids))]

\* A plan supersedes the one on the table only when it has something to offer.
Planned(s, plan, ids) ==
    LET superseded == IF plan = <<>> THEN {} ELSE Skip(Proposed(s)) IN
    [s EXCEPT !.actions = MergeById(@, superseded \cup NewActions(plan, ids))]

\* Both turns of N3 failed to parse.
Unplanned(s) == [s EXCEPT !.actions = MergeById(@, Skip(Proposed(s)))]

----------------------------------------------------------------------------
(* The routing table: edges.ts.  Edge(s) is the state in which the loop    *)
(* goes on once the node s.node has patched it to s; two of the edge       *)
(* functions change more than the node.                                    *)

Goto(s, node) == [s EXCEPT !.node = node]

N1Edge(s) ==
    IF s.incident # "none" THEN "N2"
    ELSE IF s.parseRetries < PARSE_RETRIES_MAX THEN "N1" ELSE "N9"

N2Edge(s) == IF s.layers = Required THEN "N3" ELSE "N2"

N3Edge(s) ==
    LET known == {a \in Proposed(s) : Policy(a.call) # "none"}
        valid == {a \in known : Cardinality({b \in known : b.rank < a.rank}) < ACTIONS_MAX}
    IN  Goto([s EXCEPT !.actions = (@ \ Proposed(s)) \cup valid],
             IF valid # {} THEN "N4" ELSE "N9")

Routed(s) ==
    IF ById(s, s.pending) # {} THEN ById(s, s.pending) ELSE FirstRanked(Proposed(s))

N4Edge(s) ==
    IF Routed(s) = {} THEN Goto(s, "N8")
    ELSE LET a == CHOOSE a \in Routed(s) : TRUE IN
         IF Policy(a.call) = "none" THEN Goto(s, "N9")
         ELSE Goto([s EXCEPT !.pending = a.id],
                   IF Policy(a.call) = "safe" THEN "N5" ELSE "N6")

\* Mutated form of N6Edge: a denial always replans.
N6EdgeUnbounded(s) ==
    IF \E a \in ById(s, s.pending) : a.status = "approved" THEN "N7" ELSE "N3"

N6Edge(s) ==
    IF \E a \in ById(s, s.pending) : a.status = "approved" THEN "N7"
    ELSE IF s.replans < REPLANS_MAX THEN "N3" ELSE "N9"

AfterExec(s) == IF Proposed(s) # {} THEN "N4" ELSE "N8"

\* Mutated form of N8Edge: out of attempts, the run is only reported.
N8EdgeUnpaged(s) ==
    IF s.outcome # "recovered" /\ s.verifyAttempts < VERIFY_ATTEMPTS_MAX
    THEN "N3" ELSE "N10"

N8Edge(s) ==
    IF s.outcome = "recovered" THEN "N10"
    ELSE IF s.verifyAttempts < VERIFY_ATTEMPTS_MAX THEN "N3" ELSE "N9"

Edge(s) ==
    CASE s.node = "N0" -> Goto(s, "N1")
      [] s.node = "N1" -> Goto(s, N1Edge(s))
      [] s.node = "N2" -> Goto(s, N2Edge(s))
      [] s.node = "N3" -> N3Edge(s)
      [] s.node = "N4" -> N4Edge(s)
      [] s.node = "N6" -> Goto(s, N6Edge(s))
      [] s.node \in {"N5", "N7"} -> Goto(s, AfterExec(s))
      [] s.node = "N8" -> Goto(s, N8Edge(s))
      [] s.node = "N9" -> Goto(s, "N10")
      [] s.node \in {"N10", "DONE"} -> Goto(s, "DONE")
============================================================================
