------------------------- MODULE IncidentRunProofs -------------------------
(***************************************************************************)
(* Theorems about the course of a run of IncidentGraph, for every registry *)
(* and every limit: the nodes can run, an allow is acted on, the outcome   *)
(* matches what the human was told, the close-out precedes verification,   *)
(* the retry limits bound the counters, and what the checkpoint says was   *)
(* settled, denied or recovered stays so.                                  *)
(*                                                                         *)
(* All of them rest on one observation, Saved: whatever changes the run    *)
(* state in memory also checkpoints it, so that a resume loads the state   *)
(* the last process had.  A crash loses time and the place in a node, but  *)
(* no part of the run state.                                               *)
(***************************************************************************)
EXTENDS IncidentGraphProofs, FiniteSetTheorems

Early   == {"N0", "N1", "N2"}
Working == {"N2", "N3", "N4", "N5", "N6", "N7", "N8"}

Saved == IF disk = <<>> THEN st = InitialState ELSE disk[1].run = st

\* The names of actions are unique, and so are the ranks of a plan on the table.
ActionsSound(s) ==
    /\ \A a, b \in s.actions : a.id = b.id => a = b
    /\ \A a, b \in Proposed(s) : a.rank = b.rank => a = b
    /\ \A a \in s.actions : a.call \in Registered
    /\ \A a \in s.actions : a.status = "denied" => a.call \in Destructive
    /\ s.node \in Early => s.actions = {}

IntakeSound(s) ==
    /\ s.incident # "none" => s.session
    /\ s.node \in {"N0", "N1"} => s.incident = "none"
    /\ s.node \in Working => s.incident # "none"

\* What a node that runs an action finds in the state.
Runnable(s, a) ==
    /\ a.id = s.pending
    /\ s.node = "N5" => a.call \in Safe /\ a.status = "proposed"
    /\ s.node = "N6" => a.call \in Destructive /\ a.status = "proposed"
    /\ s.node = "N7" => a.status = "approved"

RouteSound(s) ==
    /\ s.node \notin {"N5", "N6", "N7"} \cup Ended => s.pending = 0
    /\ s.node \in {"N5", "N6", "N7"} => \E a \in s.actions : Runnable(s, a)
    /\ \A a \in s.actions : a.status = "approved" =>
          \/ s.node = "N7" /\ s.pending = a.id
          \/ s.outcome = "escalated"

EndSound ==
    /\ st.outcome = "escalated" => st.node \in Ended
    /\ st.outcome = "recovered" => st.node \in {"N10", "DONE"}
    /\ st.node \in {"N10", "DONE"} =>
          st.outcome # "none" /\ (paged <=> st.outcome = "escalated")
    /\ paged => st.node \in Ended
    /\ phase # "head" => st.node # "DONE"
    /\ phase = "fired" /\ st.node = "N9" => paged

\* The plan on the table or what was done of it silences the incident.
Covered(as) ==
    \E a \in as : a.call \in Covering /\ a.status \in {"proposed", "executed", "failed"}

CoverSound(s) ==
    /\ s.incident = "scoped" /\ (s.node \in {"N4", "N5", "N6", "N7", "N8"} \/ Proposed(s) # {})
          => Covered(s.actions)
    /\ s.node = "N8" => Proposed(s) = {}

CountersSound(s) ==
    /\ s.node \notin Ended => s.replans < REPLANS_MAX /\ s.verifyAttempts < VERIFY_ATTEMPTS_MAX
    /\ s.replans <= REPLANS_MAX /\ s.verifyAttempts <= VERIFY_ATTEMPTS_MAX
    /\ s.node \in {"N0", "N1"} => s.n2errors = 0 /\ s.parseRetries < PARSE_RETRIES_MAX
    /\ s.node = "N2" => s.n2errors < PARSE_RETRIES_MAX
    /\ s.node \in Working => s.parseRetries < PARSE_RETRIES_MAX + s.n2errors
    /\ s.n2errors <= PARSE_RETRIES_MAX
    /\ s.parseRetries < 2 * PARSE_RETRIES_MAX

----------------------------------------------------------------------------
(* What an edge does to the run state besides moving on.                   *)

\* Two run states that differ in the node, the routed action and the actions
\* at most.
SameBut(s, t) ==
    /\ t.session = s.session /\ t.incident = s.incident /\ t.layers = s.layers
    /\ t.marks = s.marks /\ t.n2errors = s.n2errors /\ t.parseRetries = s.parseRetries
    /\ t.replans = s.replans /\ t.verifyAttempts = s.verifyAttempts /\ t.outcome = s.outcome

\* Moving on changes the node alone (incident.ts:212-214).
LEMMA GotoFields ==
    ASSUME NEW s \in RunState, NEW n \in Nodes
    PROVE  /\ SameBut(s, Goto(s, n)) /\ Goto(s, n).node = n
           /\ Goto(s, n).pending = s.pending /\ Goto(s, n).actions = s.actions
BY DEF Goto, RunState, SameBut

\* A non-empty set of numbers, such as the ranks of a plan, has a least one.
LEMMA LeastNat ==
    ASSUME NEW T \in SUBSET Nat, T # {}
    PROVE  \E x \in T : \A y \in T : x <= y
<1>1. PICK R : IsWellFoundedOn(R, Nat) /\ \A i, j \in Nat : i < j => <<i, j>> \in R
  <2>1. \A i, j \in Nat : i < j => <<i, j>> \in OpToRel(<, Nat)
    BY DEF OpToRel
  <2> QED
    BY <2>1, NatLessThanWellFounded, Zenon
<1>2. IsWellFoundedOn(R, Nat)
  BY <1>1
<1>3. PICK x \in T : \A y \in T : ~ (<<y, x>> \in R)
  BY <1>2, WFMin
<1>4. \A y \in T : ~ (y < x)
  BY <1>1, <1>3
<1> QED
  BY <1>4

\* A non-empty set of actions has one of the lowest rank: N4 finds something
\* to route whenever something is proposed (route.ts:5-23, edges.ts:42-46).
LEMMA FirstExists ==
    ASSUME NEW as \in SUBSET Action, as # {}
    PROVE  FirstRanked(as) # {}
<1> DEFINE rs == {a.rank : a \in as}
<1>1. ASSUME NEW a \in as PROVE a.rank \in Nat
  <2>1. a.rank \in 1 .. ACTIONS_MAX
    BY DEF Action
  <2> QED
    BY <2>1, LimitsAssumption
<1>2. rs \in SUBSET Nat /\ rs # {}
  BY <1>1
<1> HIDE DEF rs
<1>3. PICK r \in rs : \A q \in rs : r <= q
  BY <1>2, LeastNat
<1>4. PICK a \in as : a.rank = r
  BY <1>3 DEF rs
<1>5. \A b \in as : a.rank <= b.rank
  BY <1>3, <1>4 DEF rs
<1> QED
  BY <1>4, <1>5 DEF FirstRanked

\* A plan on the table, with ranks of its own, is within ACTIONS_MAX.
LEMMA RankedFits ==
    ASSUME NEW as \in SUBSET Action, \A a, b \in as : a.rank = b.rank => a = b,
           NEW m \in Nat, \A a \in as : a.rank <= m
    PROVE  IsFiniteSet(as) /\ Cardinality(as) \in Nat /\ Cardinality(as) <= m
<1> DEFINE f == [a \in as |-> a.rank]
<1>1. ASSUME NEW a \in as PROVE a.rank \in 1 .. m
  <2>1. a.rank \in 1 .. ACTIONS_MAX
    BY DEF Action
  <2>2. a.rank <= m
    OBVIOUS
  <2> QED
    BY <2>1, <2>2, LimitsAssumption
<1>2. f \in Injection(as, 1 .. m)
  BY <1>1 DEF Injection, IsInjective
<1>3. IsFiniteSet(1 .. m) /\ Cardinality(1 .. m) = m
  BY FS_Interval
<1> HIDE DEF f
<1>4. IsFiniteSet(as) /\ Cardinality(as) <= m
  BY <1>2, <1>3, FS_Injection
<1> QED
  BY <1>4, FS_CardinalityType

\* E3 keeps every action, as a plan has at most ACTIONS_MAX registered calls,
\* and goes on to N4 exactly when something is proposed (edges.ts:30-40).
LEMMA N3Keeps ==
    ASSUME NEW s \in RunState, ActionsSound(s)
    PROVE  N3Edge(s) = Goto(s, IF Proposed(s) # {} THEN "N4" ELSE "N9")
<1> DEFINE known == {a \in Proposed(s) : Policy(a.call) # "none"}
           valid == {a \in known : Cardinality({b \in known : b.rank < a.rank}) < ACTIONS_MAX}
<1>1. Proposed(s) \subseteq s.actions /\ s.actions \in SUBSET Action
  BY DEF Proposed, WithStatus, RunState
<1>2. known = Proposed(s)
  BY <1>1 DEF ActionsSound, Policy, Registered
<1>3. ASSUME NEW a \in known
      PROVE  Cardinality({b \in known : b.rank < a.rank}) < ACTIONS_MAX
  <2> DEFINE lower == {b \in known : b.rank < a.rank}
  <2>1. a.rank \in 1 .. ACTIONS_MAX
    BY <1>1, <1>2, <1>3 DEF Action
  <2>2. a.rank - 1 \in Nat /\ a.rank - 1 < ACTIONS_MAX /\ ACTIONS_MAX \in Nat
    BY <2>1, LimitsAssumption
  <2>3. lower \in SUBSET Action /\ \A b, c \in lower : b.rank = c.rank => b = c
    BY <1>1, <1>2 DEF ActionsSound
  <2>4. \A b \in lower : b.rank <= a.rank - 1
    BY <2>1, <2>3, LimitsAssumption DEF Action
  <2> HIDE DEF lower
  <2>5. Cardinality(lower) \in Nat /\ Cardinality(lower) <= a.rank - 1
    BY <2>2, <2>3, <2>4, RankedFits
  <2> QED
    BY <2>2, <2>5 DEF lower
<1>4. valid = known
  BY <1>3
<1>5. N3Edge(s) = Goto([s EXCEPT !.actions = (s.actions \ Proposed(s)) \cup valid],
                       IF valid # {} THEN "N4" ELSE "N9")
  BY DEF N3Edge
<1> HIDE DEF known, valid
<1>6. (s.actions \ Proposed(s)) \cup valid = s.actions
  BY <1>1, <1>2, <1>4
<1>7. [s EXCEPT !.actions = s.actions] = s
  BY DEF RunState
<1> QED
  BY <1>2, <1>4, <1>5, <1>6, <1>7

\* The edges of the other nodes only move on (edges.ts:12-69).
LEMMA PlainEdges ==
    ASSUME NEW s \in RunState
    PROVE  /\ s.node = "N0" => Edge(s) = Goto(s, "N1")
           /\ s.node = "N1" => Edge(s) = Goto(s, N1Edge(s))
           /\ s.node = "N2" => Edge(s) = Goto(s, N2Edge(s))
           /\ s.node = "N3" => Edge(s) = N3Edge(s)
           /\ s.node = "N4" => Edge(s) = N4Edge(s)
           /\ s.node \in {"N5", "N7"} => Edge(s) = Goto(s, AfterExec(s))
           /\ s.node = "N6" => Edge(s) = Goto(s, N6Edge(s))
           /\ s.node = "N8" => Edge(s) = Goto(s, N8Edge(s))
           /\ s.node = "N9" => Edge(s) = Goto(s, "N10")
           /\ s.node \in {"N10", "DONE"} => Edge(s) = Goto(s, "DONE")
BY DEF Edge

\* N4 routes an action that is proposed, by its policy, and goes to N8 only
\* when nothing is (route.ts:5-23, edges.ts:42-52).
LEMMA N4Routes ==
    ASSUME st \in RunState, ActionsSound(st), st.node = "N4", st.pending = 0,
           NEW next, next = Edge(RouteFirst(st))
    PROVE  /\ SameBut(st, next) /\ next.actions = st.actions
           /\ \/ Proposed(st) = {} /\ next.node = "N8" /\ next.pending = 0
              \/ \E a \in Proposed(st) :
                    /\ next.pending = a.id
                    /\ \/ a.call \in Safe /\ next.node = "N5"
                       \/ a.call \in Destructive /\ next.node = "N6"
<1>1. Proposed(st) \subseteq st.actions /\ st.actions \in SUBSET Action
  BY DEF Proposed, WithStatus, RunState
<1>2. ById(st, 0) = {}
  <2>1. ASSUME NEW a \in st.actions PROVE a.id # 0
    <3>1. a.id \in ActionIds
      BY <1>1, <2>1 DEF Action
    <3>2. \A i \in ActionIds : i # 0
      BY DEF ActionIds
    <3> QED
      BY <3>1, <3>2
  <2> QED
    BY <2>1 DEF ById
<1>3. CASE Proposed(st) = {}
  <2>1. FirstRanked(Proposed(st)) = {}
    BY <1>3 DEF FirstRanked
  <2>2. RouteFirst(st) = st /\ Routed(st) = {}
    BY <1>2, <2>1 DEF RouteFirst, Routed
  <2>3. next = Goto(st, "N8")
    BY <2>2, PlainEdges DEF N4Edge
  <2> QED
    BY <1>3, <2>3, GotoFields DEF Nodes
<1>4. CASE Proposed(st) # {}
  <2> DEFINE first == FirstRanked(Proposed(st))
             a     == CHOOSE b \in first : TRUE
             s     == [st EXCEPT !.pending = a.id]
  <2>1. first # {}
    BY <1>1, <1>4, FirstExists
  <2>2. a \in Proposed(st) /\ a \in st.actions /\ a \in Action
    BY <1>1, <2>1 DEF FirstRanked
  <2>3. RouteFirst(st) = s
    BY <2>1 DEF RouteFirst
  <2> HIDE DEF a, first
  <2>4. a.id \in ActionIds \cup {0} /\ a.call \in Registered
    BY <2>2 DEF Action, ActionsSound
  <2>5. s \in RunState /\ s.actions = st.actions /\ s.node = "N4" /\ s.pending = a.id
        /\ SameBut(st, s)
    BY <2>4 DEF RunState, SameBut
  <2> HIDE DEF s
  <2>6. ById(s, s.pending) = {a}
    BY <2>2, <2>5 DEF ById, ActionsSound
  <2>7. Routed(s) = {a} /\ (CHOOSE b \in {a} : TRUE) = a
    BY <2>6 DEF Routed
  <2>8. Policy(a.call) # "none" /\ (Policy(a.call) = "safe" <=> a.call \in Safe)
    BY <2>4 DEF Policy, Registered
  <2>9. [s EXCEPT !.pending = a.id] = s
    BY <2>5 DEF RunState
  <2>10. next = Goto(s, IF Policy(a.call) = "safe" THEN "N5" ELSE "N6")
    BY <2>3, <2>5, <2>7, <2>8, <2>9, PlainEdges DEF N4Edge
  <2>11. CASE a.call \in Safe
    <3>1. next = Goto(s, "N5")
      BY <2>8, <2>10, <2>11
    <3>2. SameBut(s, next) /\ next.node = "N5" /\ next.pending = s.pending /\ next.actions = s.actions
      BY <2>5, <3>1, GotoFields DEF Nodes
    <3> QED
      BY <2>2, <2>5, <2>11, <3>2 DEF SameBut
  <2>12. CASE a.call \notin Safe
    <3>1. next = Goto(s, "N6") /\ a.call \in Destructive
      BY <2>4, <2>8, <2>10, <2>12 DEF Registered
    <3>2. SameBut(s, next) /\ next.node = "N6" /\ next.pending = s.pending /\ next.actions = s.actions
      BY <2>5, <3>1, GotoFields DEF Nodes
    <3> QED
      BY <2>2, <2>5, <3>1, <3>2 DEF SameBut
  <2> QED
    BY <2>11, <2>12
<1> QED
  BY <1>3, <1>4

----------------------------------------------------------------------------
(* The checkpoint and the memory agree.                                    *)

\* A pass saves what it goes on with (incident.ts:212-217).
LEMMA FinishSaved ==
    ASSUME NEW s, Finish(s)
    PROVE  Saved'
BY DEF Finish, Save, Saved

\* Every step that changes the run state saves it or has loaded it
\* (incident.ts:132-226, cli.ts:46-82).
LEMMA SavedStep == Saved /\ [Next]_vars => Saved'
<1> SUFFICES ASSUME Saved, [Next]_vars PROVE Saved'
  OBVIOUS
<1>1. CASE Loop
  BY <1>1 DEF Loop, LoopDone, LoopTimeout, LoopEnter, NodeTimeout, EscalateTimeout, Save, Saved
<1>2. CASE Tick \/ Die \/ TerminalTimeout
  BY <1>2 DEF Tick, Die, TerminalTimeout, Save, Saved
<1>3. CASE Operator
  BY <1>3 DEF Operator, Resume, StartOver, Saved
<1>4. CASE Intake
  BY <1>4, FinishSaved DEF Intake, Watch, TriageOk, TriageUnparsed, EnrichUnparsed,
     EnrichFanoutLow, EnrichAnswered
<1>5. CASE Plan
  BY <1>5, FinishSaved DEF Plan
<1>6. CASE PlanUnparsed \/ Route \/ ExecSafe \/ ExecDestructive \/ RecordAllow \/ RecordDeny
           \/ Verify
  BY <1>6, FinishSaved DEF PlanUnparsed, Route, ExecSafe, ExecDestructive, RecordAllow,
     RecordDeny, Verify
<1>7. CASE AskHuman \/ HeldUnplanned \/ Answer \/ Refuse \/ Fire
  BY <1>7 DEF AskHuman, HeldUnplanned, Answer, Refuse, Fire, Saved
<1>8. CASE Ending
  <2>1. CASE OpenSession
    BY <2>1 DEF OpenSession, Save, Saved
  <2>2. CASE Page
    BY <2>2 DEF Page, Saved
  <2>3. CASE Escalate \/ Report
    BY <2>3, FinishSaved DEF Escalate, Report
  <2> QED
    BY <1>8, <2>1, <2>2, <2>3 DEF Ending
<1>9. CASE LateAnswer \/ UNCHANGED vars
  BY <1>9 DEF LateAnswer, vars, Saved
<1> QED
  BY <1>1, <1>2, <1>3, <1>4, <1>5, <1>6, <1>7, <1>8, <1>9 DEF Next, Remedy

----------------------------------------------------------------------------
(* What N3 does to the actions.                                            *)

\* A plan with the close-out offers no call that is unknown or was refused,
\* and silences a scoped incident if it offers anything (plan.ts:162-180).
LEMMA CloseoutPlan ==
    ASSUME NEW s \in RunState, Closeout \notin Denied(s), NEW proposals \in Plans(s)
    PROVE  \E n \in 0 .. ACTIONS_MAX :
              /\ WithCloseout(s, proposals) \in [1 .. n -> Registered \ Denied(s)]
              /\ n > 0 /\ s.incident = "scoped" =>
                    \E i \in 1 .. n : WithCloseout(s, proposals)[i] \in Covering
<1> USE LimitsAssumption
<1>1. Offerable(s) = Registered \ Denied(s) /\ Closeout \in Offerable(s) /\ Closeout \in Covering
  BY RegistryAssumption DEF Offerable, Registered
<1>2. PICK n \in 0 .. ACTIONS_MAX : proposals \in [1 .. n -> Offerable(s)]
  BY DEF Plans
<1>3. Len(proposals) = n /\ (n > 0 => proposals # <<>>) /\ DOMAIN proposals = 1 .. n
  BY <1>2
<1>4. CASE ~LacksCloseout(s, proposals)
  <2>1. WithCloseout(s, proposals) = proposals
    BY <1>4 DEF WithCloseout
  <2>2. n > 0 /\ s.incident = "scoped" => \E i \in 1 .. n : proposals[i] \in Covering
    BY <1>1, <1>3, <1>4 DEF LacksCloseout, Offerable
  <2> QED
    BY <1>1, <1>2, <2>1, <2>2
<1>5. CASE LacksCloseout(s, proposals)
  <2> DEFINE kept == IF Len(proposals) < ACTIONS_MAX THEN Len(proposals) ELSE ACTIONS_MAX - 1
             plan == [i \in 1 .. kept + 1 |-> IF i <= kept THEN proposals[i] ELSE Closeout]
  <2>1. kept \in 0 .. ACTIONS_MAX - 1 /\ kept <= n
    BY <1>2, <1>3
  <2>2. WithCloseout(s, proposals) = plan
    BY <1>5 DEF WithCloseout
  <2> HIDE DEF kept
  <2>3. \A i \in 1 .. kept : proposals[i] \in Offerable(s)
    BY <1>2, <2>1
  <2>4. plan \in [1 .. kept + 1 -> Offerable(s)]
    BY <1>1, <2>1, <2>3
  <2>5. kept + 1 \in 0 .. ACTIONS_MAX /\ kept + 1 \in 1 .. kept + 1
    BY <2>1
  <2>6. plan[kept + 1] = Closeout
    BY <2>1, <2>5
  <2> HIDE DEF plan
  <2>7. \E i \in 1 .. kept + 1 : plan[i] \in Covering
    BY <1>1, <2>5, <2>6
  <2> QED
    BY <1>1, <2>2, <2>4, <2>5, <2>7
<1> QED
  BY <1>4, <1>5

\* Actions a planning turn may add: proposed, with names the run does not use
\* yet, with ranks of their own, registered and never refused.
Fresh(s, new) ==
    /\ new \in SUBSET Action
    /\ \A a \in new : a.status = "proposed" /\ a.call \in Registered \ Denied(s)
    /\ \A a \in new, b \in s.actions : a.id # b.id
    /\ \A a, b \in new : a.id = b.id \/ a.rank = b.rank => a = b

\* The actions made of a plan are fresh (plan.ts:183-201).
LEMMA NewFresh ==
    ASSUME NEW s \in RunState, NEW n \in 0 .. ACTIONS_MAX,
           NEW plan \in [1 .. n -> Registered \ Denied(s)],
           NEW ids \in [DOMAIN plan -> ActionIds], IsNumbering(ids, s, plan)
    PROVE  Fresh(s, NewActions(plan, ids))
<1> DEFINE new == NewActions(plan, ids)
<1>1. DOMAIN plan = 1 .. n /\ plan \in [1 .. n -> Calls]
  BY DEF Registered, Calls
<1>2. new \in SUBSET Action /\ \A b \in new : b.status = "proposed"
  BY <1>1, NewActionsType
<1>3. ASSUME NEW a \in new
      PROVE  \E i \in 1 .. n : a.id = ids[i] /\ a.call = plan[i] /\ a.rank = i
                 /\ a = [id |-> ids[i], call |-> plan[i], rank |-> i, status |-> "proposed", tok |-> 0]
  BY <1>1, <1>3 DEF NewActions
<1> HIDE DEF new
<1>4. \A a \in new : a.call \in Registered \ Denied(s)
  BY <1>3
<1>5. ASSUME NEW a \in new, NEW b \in s.actions PROVE a.id # b.id
  <2>1. \A i \in 1 .. n : ids[i] \notin {c.id : c \in s.actions}
    BY <1>1 DEF IsNumbering
  <2> QED
    BY <1>3, <2>1
<1>6. ASSUME NEW i \in 1 .. n, NEW j \in 1 .. n, ids[i] = ids[j] PROVE i = j
  <2>1. ids[i] \in Int /\ ids[j] \in Int
    BY <1>1 DEF ActionIds
  <2>2. \A k, m \in 1 .. n : k < m => ids[k] < ids[m]
    BY <1>1 DEF IsNumbering
  <2>3. ~(i < j) /\ ~(j < i)
    BY <1>6, <2>1, <2>2
  <2> QED
    BY <2>3
<1>7. ASSUME NEW a \in new, NEW b \in new, a.id = b.id \/ a.rank = b.rank PROVE a = b
  <2>1. PICK i \in 1 .. n : a.id = ids[i] /\ a.rank = i
          /\ a = [id |-> ids[i], call |-> plan[i], rank |-> i, status |-> "proposed", tok |-> 0]
    BY <1>3
  <2>2. PICK j \in 1 .. n : b.id = ids[j] /\ b.rank = j
          /\ b = [id |-> ids[j], call |-> plan[j], rank |-> j, status |-> "proposed", tok |-> 0]
    BY <1>3
  <2>3. i = j
    BY <1>6, <1>7, <2>1, <2>2
  <2> QED
    BY <2>1, <2>2, <2>3
<1> QED
  BY <1>2, <1>4, <1>5, <1>7 DEF Fresh, new

\* Superseding is skipping: nothing else of an action changes (plan.ts:208-213).
LEMMA SkipKeeps ==
    ASSUME NEW as \in SUBSET Action
    PROVE  /\ Skip(as) \in SUBSET Action
           /\ \A b \in Skip(as) : b.status = "skipped" /\ \E a \in as : b.id = a.id /\ b.call = a.call
           /\ \A a \in as : \E b \in Skip(as) : b.id = a.id
<1>1. Skip(as) \in SUBSET Action /\ \A b \in Skip(as) : b.status = "skipped"
  BY SkipType
<1>2. ASSUME NEW b \in Skip(as) PROVE \E a \in as : b.id = a.id /\ b.call = a.call
  <2>1. PICK a \in as : b = [a EXCEPT !.status = "skipped"]
    BY <1>2 DEF Skip
  <2>2. a \in Action
    OBVIOUS
  <2> QED
    BY <2>1, <2>2 DEF Action
<1>3. ASSUME NEW a \in as PROVE \E b \in Skip(as) : b.id = a.id
  <2>1. [a EXCEPT !.status = "skipped"] \in Skip(as)
    BY DEF Skip
  <2>2. [a EXCEPT !.status = "skipped"].id = a.id
    BY DEF Action
  <2> QED
    BY <2>1, <2>2
<1> QED
  BY <1>1, <1>2, <1>3

\* What a planning turn leaves of the actions as, having superseded sup.
Replanned(as, sup, new) == (as \ sup) \cup Skip(sup) \cup new

\* The merge by id replaces the superseded actions alone (graph.ts:91-99).
LEMMA MergeReplans ==
    ASSUME NEW s \in RunState, ActionsSound(s), NEW sup \in SUBSET Proposed(s),
           NEW new, Fresh(s, new)
    PROVE  MergeById(s.actions, Skip(sup) \cup new) = Replanned(s.actions, sup, new)
<1>1. sup \subseteq s.actions /\ s.actions \in SUBSET Action
  BY DEF Proposed, WithStatus, RunState
<1>2. ASSUME NEW a \in s.actions
      PROVE  (\A b \in Skip(sup) \cup new : b.id # a.id) <=> a \notin sup
  <2>1. \A b \in new : b.id # a.id
    BY DEF Fresh
  <2>2. ASSUME a \in sup PROVE \E b \in Skip(sup) : b.id = a.id
    BY <1>1, <2>2, SkipKeeps
  <2>3. ASSUME NEW b \in Skip(sup), b.id = a.id PROVE a \in sup
    <3>1. PICK c \in sup : b.id = c.id
      BY <1>1, SkipKeeps
    <3>2. c \in s.actions
      BY <1>1
    <3> QED
      BY <2>3, <3>1, <3>2 DEF ActionsSound
  <2> QED
    BY <2>1, <2>2, <2>3
<1>3. {a \in s.actions : \A b \in Skip(sup) \cup new : b.id # a.id} = s.actions \ sup
  BY <1>2
<1> QED
  BY <1>3 DEF MergeById, Replanned

\* Names stay unique, and ranks among what is proposed, whether a plan
\* replaces the one on the table or nothing does.
LEMMA ReplannedSound ==
    ASSUME NEW s \in RunState, ActionsSound(s), s.node \notin Early, NEW t \in RunState,
           t.node = s.node, NEW sup, sup = {} \/ sup = Proposed(s),
           NEW new, Fresh(s, new), new # {} => sup = Proposed(s),
           t.actions = Replanned(s.actions, sup, new)
    PROVE  /\ ActionsSound(t)
           /\ Proposed(t) = (Proposed(s) \ sup) \cup new
<1>1. /\ Proposed(s) \subseteq s.actions /\ s.actions \in SUBSET Action
      /\ sup \subseteq s.actions /\ sup \in SUBSET Action
  BY DEF Proposed, WithStatus, RunState
<1>2. /\ \A b \in Skip(sup) : b.status = "skipped" /\ \E a \in sup : b.id = a.id /\ b.call = a.call
      /\ Skip(sup) \in SUBSET Action
  BY <1>1, SkipKeeps
<1>3. Proposed(t) = (Proposed(s) \ sup) \cup new
  <2>1. \A b \in Skip(sup) : b.status # "proposed"
    BY <1>2
  <2>2. \A b \in new : b.status = "proposed"
    BY DEF Fresh
  <2> QED
    BY <2>1, <2>2 DEF Proposed, WithStatus, Replanned
<1>4. ASSUME NEW a \in t.actions
      PROVE  /\ a.call \in Registered
             /\ a.status = "denied" => a.call \in Destructive
  <2>1. CASE a \in s.actions
    BY <2>1 DEF ActionsSound
  <2>2. CASE a \in Skip(sup)
    BY <1>1, <1>2, <2>2 DEF ActionsSound
  <2>3. CASE a \in new
    BY <2>3 DEF Fresh
  <2> QED
    BY <2>1, <2>2, <2>3 DEF Replanned
<1>5. ASSUME NEW a \in t.actions, NEW b \in t.actions, a.id = b.id PROVE a = b
  <2>1. \A c \in t.actions : c \in new \/ \E d \in s.actions : c.id = d.id /\ (c # d => d \in sup)
    BY <1>1, <1>2 DEF Replanned
  <2>2. CASE a \in new \/ b \in new
    BY <1>5, <2>1, <2>2 DEF Fresh
  <2>3. CASE a \notin new /\ b \notin new
    <3>1. CASE a \in s.actions \ sup /\ b \in s.actions \ sup
      BY <1>5, <3>1 DEF ActionsSound
    <3>2. CASE a \in Skip(sup) /\ b \in Skip(sup)
      <4>1. PICK c \in sup : a = [c EXCEPT !.status = "skipped"]
        BY <3>2 DEF Skip
      <4>2. PICK d \in sup : b = [d EXCEPT !.status = "skipped"]
        BY <3>2 DEF Skip
      <4>3. c \in Action /\ d \in Action /\ c \in s.actions /\ d \in s.actions
        BY <1>1
      <4>4. a.id = c.id /\ b.id = d.id
        BY <4>1, <4>2, <4>3 DEF Action
      <4>5. c = d
        BY <1>5, <4>3, <4>4 DEF ActionsSound
      <4> QED
        BY <4>1, <4>2, <4>5
    <3>3. CASE a \in Skip(sup) /\ b \in s.actions \ sup
      BY <1>1, <1>2, <1>5, <3>3 DEF ActionsSound
    <3>4. CASE a \in s.actions \ sup /\ b \in Skip(sup)
      BY <1>1, <1>2, <1>5, <3>4 DEF ActionsSound
    <3> QED
      BY <2>3, <3>1, <3>2, <3>3, <3>4 DEF Replanned
  <2> QED
    BY <2>2, <2>3
<1>6. ASSUME NEW a \in Proposed(t), NEW b \in Proposed(t), a.rank = b.rank PROVE a = b
  <2>1. CASE new = {}
    BY <1>3, <1>6, <2>1 DEF ActionsSound
  <2>2. CASE new # {}
    BY <1>3, <1>6, <2>2 DEF Fresh
  <2> QED
    BY <2>1, <2>2
<1> QED
  BY <1>3, <1>4, <1>5, <1>6 DEF ActionsSound

----------------------------------------------------------------------------
(* What a pass does to the run state, node by node: the patch and the edge *)
(* together.                                                               *)

IntakeKept  == st'.session = st.session /\ st'.incident = st.incident
RetriesKept == st'.n2errors = st.n2errors /\ st'.parseRetries = st.parseRetries
LimitsKept  == st'.replans = st.replans /\ st'.verifyAttempts = st.verifyAttempts
ActionsKept == st'.actions = st.actions /\ st'.pending = st.pending
OutcomeKept == st'.outcome = st.outcome

RestKept == IntakeKept /\ RetriesKept /\ LimitsKept /\ OutcomeKept

AllKept == RestKept /\ ActionsKept

PassEnds == phase' = "head" /\ paged' = paged

Triaged ==
    /\ st.node = "N1" /\ LimitsKept /\ ActionsKept /\ OutcomeKept /\ st'.session
    /\ st'.n2errors = st.n2errors
    /\ \/ /\ st'.incident # "none" /\ st'.parseRetries = st.parseRetries /\ st'.node = "N2"
       \/ /\ st'.incident = st.incident /\ st'.parseRetries = st.parseRetries + 1
          /\ st.incident = "none" =>
                st'.node = IF st'.parseRetries < PARSE_RETRIES_MAX THEN "N1" ELSE "N9"

Enriched ==
    /\ st.node = "N2" /\ IntakeKept /\ LimitsKept /\ ActionsKept /\ OutcomeKept
    /\ st'.node \in {"N2", "N3"}
    /\ \/ RetriesKept
       \/ /\ st'.n2errors = st.n2errors + 1 /\ st'.parseRetries = st.parseRetries + 1
          /\ st'.n2errors >= PARSE_RETRIES_MAX => st'.node = "N3"

PlannedAs(sup, new) ==
    /\ st.node = "N3" /\ RestKept /\ st'.pending = st.pending
    /\ sup = {} \/ sup = Proposed(st)
    /\ Fresh(st, new)
    /\ new # {} => sup = Proposed(st)
    /\ new # {} /\ st.incident = "scoped" => \E a \in new : a.call \in Covering
    /\ st'.actions = Replanned(st.actions, sup, new)
    /\ Proposed(st') = (Proposed(st) \ sup) \cup new
    /\ ActionsSound(st')
    /\ st'.node = IF Proposed(st') # {} THEN "N4" ELSE "N9"

RoutedOn ==
    /\ st.node = "N4" /\ RestKept /\ st'.actions = st.actions
    /\ \/ Proposed(st) = {} /\ st'.node = "N8" /\ st'.pending = 0
       \/ \E a \in Proposed(st) :
             /\ st'.pending = a.id
             /\ \/ a.call \in Safe /\ st'.node = "N5"
                \/ a.call \in Destructive /\ st'.node = "N6"

\* Action a of the state, the one that was routed, becomes b.
Becomes(a, b) ==
    /\ a \in st.actions /\ b \in Action
    /\ a.id = st.pending /\ b.id = a.id /\ b.call = a.call /\ b.rank = a.rank
    /\ st'.actions = (st.actions \ {a}) \cup {b}

Executed(a, b) ==
    /\ st.node \in {"N5", "N7"} /\ RestKept
    /\ Becomes(a, b) /\ b.status \in {"executed", "failed"} /\ st'.pending = 0
    /\ st'.node = IF Proposed(st') # {} THEN "N4" ELSE "N8"

Allowed(a, b) ==
    /\ st.node = "N6" /\ RestKept
    /\ Becomes(a, b) /\ b.status = "approved" /\ st'.pending = st.pending
    /\ st'.node = "N7"

DeniedAs(a, b) ==
    /\ st.node = "N6" /\ IntakeKept /\ RetriesKept /\ OutcomeKept
    /\ st'.replans = st.replans + 1 /\ st'.verifyAttempts = st.verifyAttempts
    /\ Becomes(a, b) /\ b.status = "denied" /\ st'.pending = 0
    /\ st'.node = IF st'.replans < REPLANS_MAX THEN "N3" ELSE "N9"

Verified ==
    /\ st.node = "N8" /\ IntakeKept /\ RetriesKept /\ ActionsKept
    /\ st'.replans = st.replans /\ st'.verifyAttempts = st.verifyAttempts + 1
    /\ \/ st'.outcome = "recovered" /\ st'.node = "N10"
       \/ /\ st'.outcome = "none"
          /\ st'.node = IF st'.verifyAttempts < VERIFY_ATTEMPTS_MAX THEN "N3" ELSE "N9"

TimedOut ==
    /\ st.node \notin Ended /\ IntakeKept /\ RetriesKept /\ LimitsKept /\ ActionsKept
    /\ st'.outcome = "escalated" /\ st'.node = "N9"

SessionOpened ==
    /\ st.node = "N9" /\ RetriesKept /\ LimitsKept /\ ActionsKept /\ OutcomeKept
    /\ st'.session /\ st'.incident = st.incident /\ st'.node = "N9"

Escalated ==
    /\ st.node = "N9" /\ IntakeKept /\ RetriesKept /\ LimitsKept /\ ActionsKept
    /\ st'.outcome = "escalated" /\ st'.node = "N10"

\* A pass whose patch does not touch the actions, and whose edge only moves on.
LEMMA PassMoves ==
    ASSUME NEW s \in RunState, NEW n \in Nodes, Edge(s) = Goto(s, n), Finish(s)
    PROVE  /\ st'.session = s.session /\ st'.incident = s.incident
           /\ st'.n2errors = s.n2errors /\ st'.parseRetries = s.parseRetries
           /\ st'.replans = s.replans /\ st'.verifyAttempts = s.verifyAttempts
           /\ st'.outcome = s.outcome /\ st'.node = n
           /\ st'.pending = s.pending /\ st'.actions = s.actions /\ phase' = "head"
<1>1. st' = Goto(s, n) /\ phase' = "head"
  BY DEF Finish
<1> QED
  BY <1>1, GotoFields DEF SameBut

\* N0 only watches (watch.ts:20-44).
LEMMA WatchPass ==
    ASSUME TypeOK, Watch
    PROVE  st.node = "N0" /\ st'.node = "N1" /\ AllKept /\ PassEnds
<1>1. st \in RunState /\ st.node = "N0" /\ Finish(st) /\ paged' = paged
  BY DEF TypeOK, Watch, In
<1>2. Edge(st) = Goto(st, "N1") /\ "N1" \in Nodes
  BY <1>1, PlainEdges DEF Nodes
<1> QED
  BY <1>1, <1>2, PassMoves DEF AllKept, RestKept, IntakeKept, RetriesKept, LimitsKept, ActionsKept,
     OutcomeKept, PassEnds

\* N1 finds the incident or counts a failed parse (triage.ts:47-103).
LEMMA TriagePass ==
    ASSUME TypeOK, TriageOk \/ TriageUnparsed
    PROVE  Triaged /\ PassEnds
<1>1. st \in RunState /\ st.node = "N1" /\ paged' = paged
  BY DEF TypeOK, TriageOk, TriageUnparsed, In
<1>2. CASE TriageOk
  <2>1. PICK incident \in Incidents \ {"none"} :
          Finish([st EXCEPT !.session = TRUE, !.incident = incident])
    BY <1>2 DEF TriageOk
  <2> DEFINE s == [st EXCEPT !.session = TRUE, !.incident = incident]
  <2>2. /\ s \in RunState /\ s.node = "N1" /\ s.session = TRUE /\ s.incident = incident
        /\ s.n2errors = st.n2errors /\ s.parseRetries = st.parseRetries
        /\ s.replans = st.replans /\ s.verifyAttempts = st.verifyAttempts
        /\ s.outcome = st.outcome /\ s.pending = st.pending /\ s.actions = st.actions
    BY <1>1 DEF RunState
  <2>3. Finish(s)
    BY <2>1
  <2> HIDE DEF s
  <2>4. Edge(s) = Goto(s, "N2") /\ "N2" \in Nodes
    BY <2>2, PlainEdges DEF N1Edge, Nodes
  <2> QED
    BY <1>1, <2>2, <2>3, <2>4, PassMoves DEF Triaged, LimitsKept, ActionsKept, OutcomeKept, PassEnds
<1>3. CASE TriageUnparsed
  <2> DEFINE n == st.parseRetries + 1
             s == [st EXCEPT !.session = TRUE, !.parseRetries = n]
  <2>1. n \in Nat
    BY <1>1 DEF RunState
  <2>2. Finish(s)
    BY <1>3 DEF TriageUnparsed
  <2> HIDE DEF n
  <2>3. /\ s \in RunState /\ s.node = "N1" /\ s.session = TRUE /\ s.incident = st.incident
        /\ s.n2errors = st.n2errors /\ s.parseRetries = n
        /\ s.replans = st.replans /\ s.verifyAttempts = st.verifyAttempts
        /\ s.outcome = st.outcome /\ s.pending = st.pending /\ s.actions = st.actions
    BY <1>1, <2>1 DEF RunState
  <2> HIDE DEF s
  <2>4. Edge(s) = Goto(s, N1Edge(s)) /\ N1Edge(s) \in Nodes
    BY <2>3, PlainEdges DEF N1Edge, Nodes
  <2>5. st.incident = "none" => N1Edge(s) = IF n < PARSE_RETRIES_MAX THEN "N1" ELSE "N9"
    BY <2>3 DEF N1Edge
  <2>6. /\ st'.session = s.session /\ st'.incident = s.incident
        /\ st'.n2errors = s.n2errors /\ st'.parseRetries = s.parseRetries
        /\ st'.replans = s.replans /\ st'.verifyAttempts = s.verifyAttempts
        /\ st'.outcome = s.outcome /\ st'.node = N1Edge(s)
        /\ st'.pending = s.pending /\ st'.actions = s.actions /\ phase' = "head"
    BY <2>2, <2>3, <2>4, PassMoves
  <2> QED
    BY <1>1, <2>3, <2>5, <2>6 DEF n, Triaged, LimitsKept, ActionsKept, OutcomeKept, PassEnds
<1> QED
  BY <1>2, <1>3

\* N2 completes the evidence, or goes round and counts why (enrich.ts:38-133).
LEMMA EnrichPass ==
    ASSUME TypeOK, EnrichUnparsed \/ EnrichFanoutLow \/ EnrichAnswered
    PROVE  Enriched /\ PassEnds
<1>1. st \in RunState /\ st.node = "N2" /\ paged' = paged
  BY DEF TypeOK, EnrichUnparsed, EnrichFanoutLow, EnrichAnswered, In
<1>2. ASSUME NEW s \in RunState, Finish(s), s.node = "N2", s.session = st.session,
             s.incident = st.incident, s.replans = st.replans,
             s.verifyAttempts = st.verifyAttempts, s.outcome = st.outcome,
             s.pending = st.pending, s.actions = st.actions,
             \/ s.n2errors = st.n2errors /\ s.parseRetries = st.parseRetries
             \/ /\ s.n2errors = st.n2errors + 1 /\ s.parseRetries = st.parseRetries + 1
                /\ s.n2errors >= PARSE_RETRIES_MAX => s.layers = Required
      PROVE  Enriched /\ PassEnds
  <2>1. Edge(s) = Goto(s, N2Edge(s)) /\ N2Edge(s) \in {"N2", "N3"} /\ {"N2", "N3"} \subseteq Nodes
    BY <1>2, PlainEdges DEF N2Edge, Nodes
  <2>2. s.layers = Required => N2Edge(s) = "N3"
    BY DEF N2Edge
  <2>3. /\ st'.session = s.session /\ st'.incident = s.incident
        /\ st'.n2errors = s.n2errors /\ st'.parseRetries = s.parseRetries
        /\ st'.replans = s.replans /\ st'.verifyAttempts = s.verifyAttempts
        /\ st'.outcome = s.outcome /\ st'.node = N2Edge(s)
        /\ st'.pending = s.pending /\ st'.actions = s.actions /\ phase' = "head"
    BY <1>2, <2>1, PassMoves
  <2> QED
    BY <1>1, <1>2, <2>1, <2>2, <2>3 DEF Enriched, IntakeKept, RetriesKept, LimitsKept,
       ActionsKept, OutcomeKept, PassEnds
<1>3. CASE EnrichUnparsed
  <2> DEFINE layers == IF st.n2errors + 1 >= PARSE_RETRIES_MAX THEN Required ELSE st.layers
             n == st.parseRetries + 1
             m == st.n2errors + 1
             s == [st EXCEPT !.parseRetries = n, !.n2errors = m, !.layers = layers]
  <2>1. layers \in SUBSET Required /\ n \in Nat /\ m \in Nat
    BY <1>1 DEF RunState
  <2>2. Finish(s)
    BY <1>3 DEF EnrichUnparsed
  <2>3. m >= PARSE_RETRIES_MAX => layers = Required
    OBVIOUS
  <2> HIDE DEF layers, n, m
  <2>4. /\ s \in RunState /\ s.node = "N2" /\ s.session = st.session /\ s.incident = st.incident
        /\ s.n2errors = m /\ s.parseRetries = n /\ s.layers = layers
        /\ s.replans = st.replans /\ s.verifyAttempts = st.verifyAttempts
        /\ s.outcome = st.outcome /\ s.pending = st.pending /\ s.actions = st.actions
    BY <1>1, <2>1 DEF RunState
  <2> HIDE DEF s
  <2>5. s.n2errors = st.n2errors + 1 /\ s.parseRetries = st.parseRetries + 1
    BY <2>4 DEF n, m
  <2> QED
    BY <1>2, <2>2, <2>3, <2>4, <2>5
<1>4. CASE EnrichFanoutLow \/ EnrichAnswered
  <2>1. PICK marks \in SUBSET Marks, layers \in SUBSET Required :
            Finish([st EXCEPT !.marks = marks, !.layers = layers])
    <3>1. CASE EnrichFanoutLow
      <4>1. st.marks \cup {"subagent_count_low"} \in SUBSET Marks /\ st.layers \in SUBSET Required
        BY <1>1 DEF RunState, Marks
      <4>2. [st EXCEPT !.marks = @ \cup {"subagent_count_low"}]
              = [st EXCEPT !.marks = st.marks \cup {"subagent_count_low"}, !.layers = st.layers]
        BY <1>1 DEF RunState
      <4>3. Finish([st EXCEPT !.marks = st.marks \cup {"subagent_count_low"}, !.layers = st.layers])
        BY <3>1, <4>2 DEF EnrichFanoutLow
      <4> QED
        BY <4>1, <4>3
    <3>2. CASE EnrichAnswered
      <4>1. PICK present \in SUBSET Required :
              Finish([st EXCEPT
                !.marks = @ \cup (IF present = Required THEN {} ELSE {"enrich_missing_layers"}),
                !.layers = IF present = Required \/ st.marks # {} THEN Required ELSE @])
        BY <3>2 DEF EnrichAnswered
      <4> DEFINE ms == st.marks \cup
                         (IF present = Required THEN {} ELSE {"enrich_missing_layers"})
                 ls == IF present = Required \/ st.marks # {} THEN Required ELSE st.layers
      <4>2. ms \in SUBSET Marks /\ ls \in SUBSET Required
        BY <1>1 DEF RunState, Marks
      <4>3. Finish([st EXCEPT !.marks = ms, !.layers = ls])
        BY <4>1
      <4> QED
        BY <4>2, <4>3
    <3> QED
      BY <1>4, <3>1, <3>2
  <2> DEFINE s == [st EXCEPT !.marks = marks, !.layers = layers]
  <2>2. /\ s \in RunState /\ s.node = "N2" /\ s.session = st.session /\ s.incident = st.incident
        /\ s.n2errors = st.n2errors /\ s.parseRetries = st.parseRetries
        /\ s.replans = st.replans /\ s.verifyAttempts = st.verifyAttempts
        /\ s.outcome = st.outcome /\ s.pending = st.pending /\ s.actions = st.actions
    BY <1>1 DEF RunState
  <2>3. Finish(s)
    BY <2>1
  <2> HIDE DEF s
  <2> QED
    BY <1>2, <2>2, <2>3
<1> QED
  BY <1>3, <1>4

\* A pass of N3 that patches the actions to a replanned set: E3 drops nothing
\* of it (plan.ts:202-228, edges.ts:30-40).
LEMMA ReplanPass ==
    ASSUME st \in RunState, ActionsSound(st), st.node = "N3",
           NEW sup, sup = {} \/ sup = Proposed(st), NEW new, Fresh(st, new),
           new # {} => sup = Proposed(st),
           new # {} /\ st.incident = "scoped" => \E a \in new : a.call \in Covering,
           Finish([st EXCEPT !.actions = Replanned(st.actions, sup, new)])
    PROVE  PlannedAs(sup, new) /\ phase' = "head"
<1> DEFINE as == Replanned(st.actions, sup, new)
           s  == [st EXCEPT !.actions = as]
           n  == IF Proposed(s) # {} THEN "N4" ELSE "N9"
<1>1. as \in SUBSET Action
  <2>1. sup \in SUBSET Action /\ st.actions \in SUBSET Action
    BY DEF Proposed, WithStatus, RunState
  <2>2. Skip(sup) \in SUBSET Action /\ new \in SUBSET Action
    BY <2>1, SkipKeeps DEF Fresh
  <2> QED
    BY <2>1, <2>2 DEF Replanned
<1>2. Finish(s)
  OBVIOUS
<1> HIDE DEF as
<1>3. /\ s \in RunState /\ s.node = "N3" /\ s.session = st.session /\ s.incident = st.incident
      /\ s.n2errors = st.n2errors /\ s.parseRetries = st.parseRetries
      /\ s.replans = st.replans /\ s.verifyAttempts = st.verifyAttempts
      /\ s.outcome = st.outcome /\ s.pending = st.pending /\ s.actions = as
  BY <1>1 DEF RunState
<1> HIDE DEF s
<1>4. ActionsSound(s) /\ Proposed(s) = (Proposed(st) \ sup) \cup new
  BY <1>3, ReplannedSound DEF as, Early
<1>5. Edge(s) = Goto(s, n) /\ n \in Nodes
  BY <1>3, <1>4, PlainEdges, N3Keeps DEF Nodes
<1> HIDE DEF n
<1>6. /\ st'.session = s.session /\ st'.incident = s.incident
      /\ st'.n2errors = s.n2errors /\ st'.parseRetries = s.parseRetries
      /\ st'.replans = s.replans /\ st'.verifyAttempts = s.verifyAttempts
      /\ st'.outcome = s.outcome /\ st'.node = n
      /\ st'.pending = s.pending /\ st'.actions = s.actions /\ phase' = "head"
  BY <1>2, <1>3, <1>5, PassMoves
<1>7. Proposed(st') = Proposed(s)
  BY <1>6 DEF Proposed, WithStatus
<1>8. st'.node \in {"N4", "N9"} /\ st'.node = IF Proposed(st') # {} THEN "N4" ELSE "N9"
  BY <1>6, <1>7 DEF n
<1>9. ActionsSound(st')
  BY <1>4, <1>6, <1>7, <1>8 DEF ActionsSound, Early
<1> QED
  BY <1>3, <1>4, <1>6, <1>7, <1>8, <1>9 DEF as, PlannedAs, RestKept, IntakeKept, RetriesKept,
     LimitsKept, OutcomeKept

\* The close-out is a safe call, so it is never refused (exec.ts:55-86).
LEMMA CloseoutOffered ==
    ASSUME NEW s, ActionsSound(s)
    PROVE  Closeout \notin Denied(s)
<1>1. \A a \in s.actions : a.status = "denied" => a.call # Closeout
  BY RegistryAssumption DEF ActionsSound
<1> QED
  BY <1>1 DEF Denied, WithStatus

\* N3 puts a plan on the table, or takes the old one off it (plan.ts:94-228).
LEMMA PlanPass ==
    ASSUME TypeOK, ActionsSound(st), Plan \/ PlanUnparsed
    PROVE  PassEnds /\ \E sup, new : PlannedAs(sup, new)
<1>1. st \in RunState /\ st.node = "N3" /\ paged' = paged
  BY DEF TypeOK, Plan, PlanUnparsed, In
<1>2. CASE Plan
  <2>1. PICK proposals \in Plans(st) :
          \E ids \in [DOMAIN WithCloseout(st, proposals) -> ActionIds] :
              /\ IsNumbering(ids, st, WithCloseout(st, proposals))
              /\ Finish(Planned(st, WithCloseout(st, proposals), ids))
    BY <1>2 DEF Plan
  <2> DEFINE plan == WithCloseout(st, proposals)
  <2>2. PICK ids \in [DOMAIN plan -> ActionIds] :
          IsNumbering(ids, st, plan) /\ Finish(Planned(st, plan, ids))
    BY <2>1
  <2>3. PICK n \in 0 .. ACTIONS_MAX :
          /\ plan \in [1 .. n -> Registered \ Denied(st)]
          /\ n > 0 /\ st.incident = "scoped" => \E i \in 1 .. n : plan[i] \in Covering
    BY <1>1, CloseoutOffered, CloseoutPlan
  <2> HIDE DEF plan
  <2> DEFINE new == NewActions(plan, ids)
             sup == IF plan = <<>> THEN {} ELSE Proposed(st)
  <2>4. Fresh(st, new)
    BY <1>1, <2>2, <2>3, NewFresh
  <2>5. DOMAIN plan = 1 .. n /\ (plan = <<>> <=> n = 0)
    BY <2>3
  <2>6. new # {} => n > 0 /\ sup = Proposed(st)
    BY <2>5 DEF NewActions
  <2>7. new # {} /\ st.incident = "scoped" => \E a \in new : a.call \in Covering
    <3>1. ASSUME NEW i \in 1 .. n PROVE \E a \in new : a.call = plan[i]
      <4> DEFINE a == [id |-> ids[i], call |-> plan[i], rank |-> i, status |-> "proposed", tok |-> 0]
      <4>1. a \in new /\ a.call = plan[i]
        BY <2>5 DEF NewActions
      <4> QED
        BY <4>1
    <3> QED
      BY <2>3, <2>6, <3>1
  <2>8. sup = {} \/ sup = Proposed(st)
    OBVIOUS
  <2>9. Planned(st, plan, ids) = [st EXCEPT !.actions = MergeById(st.actions, Skip(sup) \cup new)]
    <3>1. Skip({}) = {}
      BY DEF Skip
    <3> QED
      BY <3>1 DEF Planned
  <2> HIDE DEF new, sup
  <2>10. MergeById(st.actions, Skip(sup) \cup new) = Replanned(st.actions, sup, new)
    BY <1>1, <2>4, <2>8, MergeReplans
  <2>11. Finish([st EXCEPT !.actions = Replanned(st.actions, sup, new)])
    BY <2>2, <2>9, <2>10
  <2>12. PlannedAs(sup, new) /\ phase' = "head"
    BY <1>1, <2>4, <2>6, <2>7, <2>8, <2>11, ReplanPass
  <2> QED
    BY <1>1, <2>12 DEF PassEnds
<1>3. CASE PlanUnparsed
  <2>1. Fresh(st, {})
    BY DEF Fresh
  <2>2. MergeById(st.actions, Skip(Proposed(st)) \cup {}) = Replanned(st.actions, Proposed(st), {})
    BY <1>1, <2>1, MergeReplans
  <2>3. Finish([st EXCEPT !.actions = Replanned(st.actions, Proposed(st), {})])
    BY <1>3, <2>2 DEF PlanUnparsed, Unplanned
  <2>4. PlannedAs(Proposed(st), {}) /\ phase' = "head"
    BY <1>1, <2>1, <2>3, ReplanPass
  <2> QED
    BY <1>1, <2>4 DEF PassEnds
<1> QED
  BY <1>2, <1>3

\* N4 routes what is proposed first (route.ts:5-23).
LEMMA RoutePass ==
    ASSUME TypeOK, ActionsSound(st), RouteSound(st), Route
    PROVE  RoutedOn /\ PassEnds
<1>1. st \in RunState /\ st.node = "N4" /\ paged' = paged /\ Finish(RouteFirst(st))
  BY DEF TypeOK, Route, In
<1>2. st.pending = 0
  BY <1>1 DEF RouteSound, Ended
<1>3. st' = Edge(RouteFirst(st)) /\ phase' = "head"
  BY <1>1 DEF Finish
<1>4. /\ SameBut(st, st') /\ st'.actions = st.actions
      /\ \/ Proposed(st) = {} /\ st'.node = "N8" /\ st'.pending = 0
         \/ \E a \in Proposed(st) :
               /\ st'.pending = a.id
               /\ \/ a.call \in Safe /\ st'.node = "N5"
                  \/ a.call \in Destructive /\ st'.node = "N6"
  BY <1>1, <1>2, <1>3, N4Routes
<1> QED
  BY <1>1, <1>3, <1>4 DEF RoutedOn, RestKept, IntakeKept, RetriesKept, LimitsKept, OutcomeKept,
     SameBut, PassEnds

\* An update replaces one action, as names are unique (graph.ts:91-109).
LEMMA UpdateExact ==
    ASSUME NEW s \in RunState, ActionsSound(s), NEW a \in s.actions, NEW b \in Action, b.id = a.id
    PROVE  /\ Update(s, b) \in RunState
           /\ SameBut(s, Update(s, b)) /\ Update(s, b).node = s.node
           /\ Update(s, b).pending = s.pending
           /\ Update(s, b).actions = (s.actions \ {a}) \cup {b}
<1> DEFINE as == MergeById(s.actions, {b})
<1>1. as = (s.actions \ {a}) \cup {b}
  <2>1. \A c \in s.actions : c.id # b.id <=> c # a
    BY DEF ActionsSound
  <2> QED
    BY <2>1 DEF MergeById
<1>2. as \in SUBSET Action
  BY <1>1 DEF RunState
<1>3. Update(s, b) = [s EXCEPT !.actions = as]
  BY DEF Update
<1> HIDE DEF as
<1> QED
  BY <1>1, <1>2, <1>3 DEF RunState, SameBut

\* The run state after an action was settled or approved moves on by a plain
\* edge (exec.ts:39-46).
LEMMA UpdatePass ==
    ASSUME st \in RunState, ActionsSound(st), NEW a \in ById(st, st.pending), NEW b \in Action,
           b.id = a.id, b.call = a.call, b.rank = a.rank,
           NEW p \in ActionIds \cup {0}, NEW r \in Nat, NEW n \in Nodes,
           NEW s, s = [Update(st, b) EXCEPT !.pending = p, !.replans = r],
           Finish(s), Edge(s) = Goto(s, n)
    PROVE  /\ Becomes(a, b) /\ IntakeKept /\ RetriesKept /\ OutcomeKept
           /\ st'.replans = r /\ st'.verifyAttempts = st.verifyAttempts
           /\ st'.pending = p /\ st'.node = n /\ phase' = "head"
<1>1. a \in st.actions /\ a.id = st.pending
  BY DEF ById
<1> DEFINE u == Update(st, b)
<1>2. /\ u \in RunState /\ SameBut(st, u) /\ u.node = st.node
      /\ u.actions = (st.actions \ {a}) \cup {b}
  BY <1>1, UpdateExact
<1> HIDE DEF u
<1>3. /\ s \in RunState /\ s.session = u.session /\ s.incident = u.incident
      /\ s.n2errors = u.n2errors /\ s.parseRetries = u.parseRetries
      /\ s.replans = r /\ s.verifyAttempts = u.verifyAttempts
      /\ s.outcome = u.outcome /\ s.pending = p /\ s.actions = u.actions
  BY <1>2 DEF RunState, u
<1>4. /\ st'.session = s.session /\ st'.incident = s.incident
      /\ st'.n2errors = s.n2errors /\ st'.parseRetries = s.parseRetries
      /\ st'.replans = s.replans /\ st'.verifyAttempts = s.verifyAttempts
      /\ st'.outcome = s.outcome /\ st'.node = n
      /\ st'.pending = s.pending /\ st'.actions = s.actions /\ phase' = "head"
  BY <1>3, PassMoves
<1> QED
  BY <1>1, <1>2, <1>3, <1>4 DEF Becomes, SameBut, IntakeKept, RetriesKept, OutcomeKept

\* N5 runs a safe call, N7 records what became of the one it let go
\* (exec.ts:55-86, 161-178).
LEMMA ExecPass ==
    ASSUME TypeOK, ActionsSound(st), ExecSafe \/ ExecDestructive
    PROVE  PassEnds /\ \E a, b : Executed(a, b) /\ (st.node = "N5" => a.call \in Safe)
<1>1. /\ st \in RunState /\ st.node \in {"N5", "N7"} /\ paged' = paged
      /\ st.replans \in Nat /\ 0 \in ActionIds \cup {0}
  BY DEF TypeOK, RunState, ExecSafe, ExecDestructive, In
<1>2. PICK a \in ById(st, st.pending), status \in {"executed", "failed"} :
        Finish(Settled(st, a, status)) /\ (st.node = "N5" => a.call \in Safe)
  BY DEF ExecSafe, ExecDestructive, In
<1> DEFINE b == [a EXCEPT !.status = status]
           s == [Update(st, b) EXCEPT !.pending = 0, !.replans = st.replans]
<1>3. a \in Action /\ a \in st.actions
  BY <1>1, ByIdType
<1>4. b \in Action /\ b.status = status /\ b.id = a.id /\ b.call = a.call /\ b.rank = a.rank
  BY <1>3 DEF Action, Statuses
<1>5. Settled(st, a, status) = [Update(st, b) EXCEPT !.pending = 0]
  BY DEF Settled
<1> HIDE DEF b
<1>6. Update(st, b) \in RunState /\ Update(st, b).replans = st.replans
  BY <1>1, <1>3, <1>4, UpdateExact DEF SameBut
<1>7. Settled(st, a, status) = s
  BY <1>5, <1>6 DEF RunState
<1>8. s \in RunState /\ s.node = st.node /\ s.actions = (st.actions \ {a}) \cup {b}
  <2> DEFINE u == Update(st, b)
  <2>1. /\ u \in RunState /\ u.node = st.node /\ u.actions = (st.actions \ {a}) \cup {b}
    BY <1>1, <1>3, <1>4, UpdateExact DEF SameBut
  <2> HIDE DEF u
  <2>2. s = [u EXCEPT !.pending = 0, !.replans = st.replans]
    BY DEF u
  <2> QED
    BY <1>1, <2>1, <2>2 DEF RunState
<1>9. Edge(s) = Goto(s, AfterExec(s)) /\ AfterExec(s) \in Nodes
  BY <1>1, <1>8, PlainEdges DEF AfterExec, Nodes
<1>10. /\ Becomes(a, b) /\ IntakeKept /\ RetriesKept /\ OutcomeKept
       /\ st'.replans = st.replans /\ st'.verifyAttempts = st.verifyAttempts
       /\ st'.pending = 0 /\ st'.node = AfterExec(s) /\ phase' = "head"
  <2> HIDE DEF s
  <2>1. Finish(s) /\ s = [Update(st, b) EXCEPT !.pending = 0, !.replans = st.replans]
    BY <1>2, <1>7 DEF s
  <2> QED
    BY <1>1, <1>4, <1>9, <2>1, UpdatePass
<1>11. AfterExec(s) = IF Proposed(st') # {} THEN "N4" ELSE "N8"
  BY <1>8, <1>10 DEF Becomes, AfterExec, Proposed, WithStatus
<1> QED
  BY <1>1, <1>2, <1>4, <1>10, <1>11 DEF Executed, RestKept, LimitsKept, PassEnds

\* N6 records an allow (exec.ts:148-158).
LEMMA AllowPass ==
    ASSUME TypeOK, ActionsSound(st), RecordAllow
    PROVE  PassEnds /\ \E a, b : Allowed(a, b)
<1>1. /\ st \in RunState /\ st.node = "N6" /\ paged' = paged /\ st.replans \in Nat
      /\ st.pending \in ActionIds \cup {0} /\ Len(calls) \in Nat
  BY DEF TypeOK, RunState, RecordAllow, In
<1>2. PICK a \in ById(st, st.pending) : Finish(Approved(st, a, Len(calls)))
  BY DEF RecordAllow
<1> DEFINE tok == Len(calls)
           b == [a EXCEPT !.status = "approved", !.tok = tok]
           s == [Update(st, b) EXCEPT !.pending = st.pending, !.replans = st.replans]
<1>3. a \in Action /\ a \in st.actions /\ a.id = st.pending
  BY <1>1, ByIdType DEF ById
<1>4. Approved(st, a, Len(calls)) = Update(st, b)
  BY DEF Approved
<1> HIDE DEF tok
<1>5. b \in Action /\ b.status = "approved" /\ b.id = a.id /\ b.call = a.call /\ b.rank = a.rank
  BY <1>1, <1>3 DEF Action, Statuses, tok
<1> HIDE DEF b
<1>6. /\ Update(st, b) \in RunState /\ Update(st, b).replans = st.replans
      /\ Update(st, b).pending = st.pending
  BY <1>1, <1>3, <1>5, UpdateExact DEF SameBut
<1>7. Approved(st, a, Len(calls)) = s
  BY <1>4, <1>6 DEF RunState
<1>8. /\ s \in RunState /\ s.node = "N6" /\ s.pending = a.id
      /\ s.actions = (st.actions \ {a}) \cup {b}
  <2> DEFINE u == Update(st, b)
  <2>1. /\ u \in RunState /\ u.node = st.node /\ u.actions = (st.actions \ {a}) \cup {b}
    BY <1>1, <1>3, <1>5, UpdateExact DEF SameBut
  <2> HIDE DEF u
  <2>2. s = [u EXCEPT !.pending = st.pending, !.replans = st.replans]
    BY DEF u
  <2> QED
    BY <1>1, <1>3, <2>1, <2>2 DEF RunState
<1>9. N6Edge(s) = "N7"
  BY <1>5, <1>8 DEF N6Edge, ById
<1>10. Edge(s) = Goto(s, "N7") /\ "N7" \in Nodes
  BY <1>8, <1>9, PlainEdges DEF Nodes
<1>11. /\ Becomes(a, b) /\ IntakeKept /\ RetriesKept /\ OutcomeKept
       /\ st'.replans = st.replans /\ st'.verifyAttempts = st.verifyAttempts
       /\ st'.pending = st.pending /\ st'.node = "N7" /\ phase' = "head"
  <2> HIDE DEF s
  <2>1. Finish(s) /\ s = [Update(st, b) EXCEPT !.pending = st.pending, !.replans = st.replans]
    BY <1>2, <1>7 DEF s
  <2> QED
    BY <1>1, <1>5, <1>10, <2>1, UpdatePass
<1> QED
  BY <1>1, <1>5, <1>11 DEF Allowed, RestKept, LimitsKept, PassEnds

\* N6 records a refusal and goes back to N3 while it may (exec.ts:133-147,
\* edges.ts:54-60).
LEMMA DenyPass ==
    ASSUME TypeOK, ActionsSound(st), RecordDeny
    PROVE  PassEnds /\ \E a, b : DeniedAs(a, b)
<1>1. /\ st \in RunState /\ st.node = "N6" /\ paged' = paged /\ st.replans \in Nat
      /\ 0 \in ActionIds \cup {0} /\ Len(calls) \in Nat
  BY DEF TypeOK, RunState, RecordDeny, In
<1>2. PICK a \in ById(st, st.pending) : Finish(Refused(st, a, Len(calls)))
  BY DEF RecordDeny
<1> DEFINE tok == Len(calls)
           c == [a EXCEPT !.tok = tok]
           b == [c EXCEPT !.status = "denied"]
           r == st.replans + 1
           s == [Update(st, b) EXCEPT !.pending = 0, !.replans = r]
<1>3. a \in Action /\ a \in st.actions
  BY <1>1, ByIdType
<1>4. Refused(st, a, Len(calls)) = [[Update(st, b) EXCEPT !.pending = 0] EXCEPT !.replans = @ + 1]
  BY DEF Refused, Settled
<1> HIDE DEF tok
<1>5. b \in Action /\ b.status = "denied" /\ b.id = a.id /\ b.call = a.call /\ b.rank = a.rank
  BY <1>1, <1>3 DEF Action, Statuses, tok
<1>6. r \in Nat
  BY <1>1
<1> HIDE DEF b
<1>7. Update(st, b) \in RunState /\ Update(st, b).replans = st.replans
  BY <1>1, <1>3, <1>5, UpdateExact DEF SameBut
<1>8. Refused(st, a, Len(calls)) = s
  BY <1>4, <1>7 DEF RunState
<1> HIDE DEF r
<1>9. /\ s \in RunState /\ s.node = "N6" /\ s.pending = 0 /\ s.replans = r
      /\ s.actions = (st.actions \ {a}) \cup {b}
  <2> DEFINE u == Update(st, b)
  <2>1. /\ u \in RunState /\ u.node = st.node /\ u.actions = (st.actions \ {a}) \cup {b}
    BY <1>1, <1>3, <1>5, UpdateExact DEF SameBut
  <2> HIDE DEF u
  <2>2. s = [u EXCEPT !.pending = 0, !.replans = r]
    BY DEF u
  <2> QED
    BY <1>1, <1>6, <2>1, <2>2 DEF RunState
<1>10. N6Edge(s) = IF r < REPLANS_MAX THEN "N3" ELSE "N9"
  <2>1. ASSUME NEW d \in s.actions PROVE d.id # 0
    <3>1. d.id \in ActionIds
      BY <1>9 DEF RunState, Action
    <3>2. \A i \in ActionIds : i # 0
      BY DEF ActionIds
    <3> QED
      BY <3>1, <3>2
  <2>2. ById(s, s.pending) = {}
    BY <1>9, <2>1 DEF ById
  <2> QED
    BY <1>9, <2>2 DEF N6Edge
<1>11. Edge(s) = Goto(s, N6Edge(s)) /\ N6Edge(s) \in Nodes
  BY <1>9, PlainEdges DEF N6Edge, Nodes
<1>12. /\ Becomes(a, b) /\ IntakeKept /\ RetriesKept /\ OutcomeKept
       /\ st'.replans = r /\ st'.verifyAttempts = st.verifyAttempts
       /\ st'.pending = 0 /\ st'.node = N6Edge(s) /\ phase' = "head"
  <2> HIDE DEF s
  <2>1. Finish(s) /\ s = [Update(st, b) EXCEPT !.pending = 0, !.replans = r]
    BY <1>2, <1>8 DEF s
  <2> QED
    BY <1>1, <1>5, <1>6, <1>11, <2>1, UpdatePass
<1> QED
  BY <1>1, <1>5, <1>10, <1>12 DEF DeniedAs, r, PassEnds

\* N8 counts an attempt and goes on by its outcome (verify.ts:83-140, edges.ts:64-69).
LEMMA VerifyPass ==
    ASSUME TypeOK, Verify
    PROVE  Verified /\ PassEnds
<1>1. st \in RunState /\ st.node = "N8" /\ paged' = paged
  BY DEF TypeOK, Verify, In
<1>2. PICK outcome \in {"none", "recovered"} :
        Finish([st EXCEPT !.outcome = outcome, !.verifyAttempts = @ + 1])
  BY DEF Verify
<1> DEFINE n == st.verifyAttempts + 1
           s == [st EXCEPT !.outcome = outcome, !.verifyAttempts = n]
<1>3. n \in Nat
  BY <1>1 DEF RunState
<1>4. Finish(s)
  BY <1>2
<1> HIDE DEF n
<1>5. /\ s \in RunState /\ s.node = "N8" /\ s.session = st.session /\ s.incident = st.incident
      /\ s.n2errors = st.n2errors /\ s.parseRetries = st.parseRetries
      /\ s.replans = st.replans /\ s.verifyAttempts = n
      /\ s.outcome = outcome /\ s.pending = st.pending /\ s.actions = st.actions
  BY <1>1, <1>3 DEF RunState
<1> HIDE DEF s
<1>6. Edge(s) = Goto(s, N8Edge(s)) /\ N8Edge(s) \in Nodes
  BY <1>5, PlainEdges DEF N8Edge, Nodes
<1>7. /\ st'.session = s.session /\ st'.incident = s.incident
      /\ st'.n2errors = s.n2errors /\ st'.parseRetries = s.parseRetries
      /\ st'.replans = s.replans /\ st'.verifyAttempts = s.verifyAttempts
      /\ st'.outcome = s.outcome /\ st'.node = N8Edge(s)
      /\ st'.pending = s.pending /\ st'.actions = s.actions /\ phase' = "head"
  BY <1>4, <1>5, <1>6, PassMoves
<1>8. CASE outcome = "recovered"
  BY <1>1, <1>5, <1>7, <1>8 DEF n, N8Edge, Verified, IntakeKept, RetriesKept, ActionsKept, PassEnds
<1>9. CASE outcome = "none"
  BY <1>1, <1>5, <1>7, <1>9 DEF n, N8Edge, Verified, IntakeKept, RetriesKept, ActionsKept, PassEnds
<1> QED
  BY <1>8, <1>9

\* A spent budget sends the run to N9, escalated (incident.ts:198-210).
LEMMA TimeoutPass ==
    ASSUME TypeOK, EndSound, LoopTimeout \/ NodeTimeout
    PROVE  TimedOut /\ PassEnds
<1>1. st \in RunState /\ ~Terminal /\ EscalateTimeout
  BY DEF TypeOK, LoopTimeout, NodeTimeout
<1>2. st.node \notin Ended
  BY <1>1 DEF LoopTimeout, NodeTimeout, EndSound, Terminal, Ended
<1>3. st' = [st EXCEPT !.node = "N9", !.outcome = "escalated"] /\ phase' = "head" /\ paged' = paged
  BY <1>1 DEF EscalateTimeout
<1> QED
  BY <1>1, <1>2, <1>3 DEF RunState, TimedOut, IntakeKept, RetriesKept, LimitsKept, ActionsKept,
     PassEnds

\* N9 opens the session it lacks, pages and escalates; N10 reports
\* (incident.ts:156-163, escalate.ts, report.ts).
LEMMA SessionPass ==
    ASSUME TypeOK, OpenSession
    PROVE  SessionOpened /\ phase' = phase /\ paged' = paged
<1>1. /\ st \in RunState /\ st.node = "N9" /\ st' = [st EXCEPT !.session = TRUE]
      /\ phase' = phase /\ paged' = paged
  BY DEF TypeOK, OpenSession, In
<1> QED
  BY <1>1 DEF RunState, SessionOpened, RetriesKept, LimitsKept, ActionsKept, OutcomeKept

\* The page was sent before the outcome is recorded (escalate.ts:35-61).
LEMMA EscalatePass ==
    ASSUME TypeOK, Escalate
    PROVE  Escalated /\ PassEnds /\ phase = "fired"
<1>1. st \in RunState /\ st.node = "N9" /\ paged' = paged /\ phase = "fired"
  BY DEF TypeOK, Escalate, In
<1> DEFINE s == [st EXCEPT !.outcome = "escalated"]
<1>2. Finish(s)
  BY DEF Escalate
<1>3. /\ s \in RunState /\ s.node = "N9" /\ s.session = st.session /\ s.incident = st.incident
      /\ s.n2errors = st.n2errors /\ s.parseRetries = st.parseRetries
      /\ s.replans = st.replans /\ s.verifyAttempts = st.verifyAttempts
      /\ s.outcome = "escalated" /\ s.pending = st.pending /\ s.actions = st.actions
  BY <1>1 DEF RunState
<1> HIDE DEF s
<1>4. Edge(s) = Goto(s, "N10") /\ "N10" \in Nodes
  BY <1>3, PlainEdges DEF Nodes
<1> QED
  BY <1>1, <1>2, <1>3, <1>4, PassMoves DEF Escalated, IntakeKept, RetriesKept, LimitsKept,
     ActionsKept, PassEnds

\* The report changes nothing of the run (report.ts:77-124).
LEMMA ReportPass ==
    ASSUME TypeOK, Report
    PROVE  st.node = "N10" /\ st'.node = "DONE" /\ AllKept /\ PassEnds
<1>1. st \in RunState /\ st.node = "N10" /\ Finish(st) /\ paged' = paged
  BY DEF TypeOK, Report, In
<1>2. Edge(st) = Goto(st, "DONE") /\ "DONE" \in Nodes
  BY <1>1, PlainEdges DEF Nodes
<1> QED
  BY <1>1, <1>2, PassMoves DEF AllKept, RestKept, IntakeKept, RetriesKept, LimitsKept, ActionsKept,
     OutcomeKept, PassEnds

----------------------------------------------------------------------------
(* What a step does to the run: it stays where it is, or goes on as one of *)
(* the passes above says.                                                  *)

\* The loop, the clock, a death, a resume, the turn with the human and the
\* page to them leave the run state as it is.
Stays ==
    /\ st' = st
    /\ \/ /\ paged' = paged
          /\ \/ phase' \in {"head", phase}
             \/ st.node # "DONE" /\ (phase' = "fired" => st.node = "N7")
       \/ st.node = "N9" /\ paged' = TRUE

Watched  == st.node = "N0" /\ st'.node = "N1" /\ AllKept
Reported == st.node = "N10" /\ st'.node = "DONE" /\ AllKept

Moves ==
    \/ Watched \/ Triaged \/ Enriched
    \/ \E sup, new : PlannedAs(sup, new)
    \/ RoutedOn
    \/ \E a, b : Executed(a, b)
    \/ \E a, b : Allowed(a, b)
    \/ \E a, b : DeniedAs(a, b)
    \/ Verified \/ TimedOut \/ Reported
    \/ Escalated /\ phase = "fired"

Course ==
    \/ Stays
    \/ Moves /\ PassEnds
    \/ SessionOpened /\ phase' = phase /\ paged' = paged

\* Resuming, or starting over when nothing was saved, finds the run state that
\* the last process had (cli.ts:46-82).
LEMMA OperatorStays == Saved /\ Operator => Stays
BY DEF Operator, Resume, StartOver, Saved, Stays

\* Every step is one of these (incident.ts:132-226).
LEMMA RunStep ==
    ASSUME TypeOK, ActionsSound(st), RouteSound(st), EndSound, Saved, [Next]_vars
    PROVE  Course
<1>1. CASE LoopTimeout \/ NodeTimeout
  BY <1>1, TimeoutPass DEF Course, Moves
<1>2. CASE LoopDone \/ LoopEnter \/ Tick \/ TerminalTimeout \/ Die
  BY <1>2 DEF LoopDone, LoopEnter, Tick, TerminalTimeout, Die, Course, Stays
<1>3. CASE Operator
  BY <1>3, OperatorStays DEF Course
<1>4. CASE Intake
  <2>1. CASE Watch
    BY <2>1, WatchPass DEF Course, Moves, Watched
  <2>2. CASE TriageOk \/ TriageUnparsed
    BY <2>2, TriagePass DEF Course, Moves
  <2>3. CASE EnrichUnparsed \/ EnrichFanoutLow \/ EnrichAnswered
    BY <2>3, EnrichPass DEF Course, Moves
  <2> QED
    BY <1>4, <2>1, <2>2, <2>3 DEF Intake
<1>5. CASE Remedy
  <2>1. CASE Plan \/ PlanUnparsed
    BY <2>1, PlanPass DEF Course, Moves
  <2>2. CASE Route
    BY <2>2, RoutePass DEF Course, Moves
  <2>3. CASE ExecSafe \/ ExecDestructive
    BY <2>3, ExecPass DEF Course, Moves
  <2>4. CASE RecordAllow
    BY <2>4, AllowPass DEF Course, Moves
  <2>5. CASE RecordDeny
    BY <2>5, DenyPass DEF Course, Moves
  <2>6. CASE Verify
    BY <2>6, VerifyPass DEF Course, Moves
  <2>7. CASE AskHuman \/ HeldUnplanned \/ Answer \/ Refuse \/ Fire
    BY <2>7 DEF AskHuman, HeldUnplanned, Answer, Refuse, Fire, In, Course, Stays
  <2> QED
    BY <1>5, <2>1, <2>2, <2>3, <2>4, <2>5, <2>6, <2>7 DEF Remedy
<1>6. CASE Ending
  <2>1. CASE OpenSession
    BY <2>1, SessionPass DEF Course
  <2>2. CASE Page
    BY <2>2 DEF Page, In, Course, Stays
  <2>3. CASE Escalate
    BY <2>3, EscalatePass DEF Course, Moves
  <2>4. CASE Report
    BY <2>4, ReportPass DEF Course, Moves, Reported
  <2> QED
    BY <1>6, <2>1, <2>2, <2>3, <2>4 DEF Ending
<1>7. CASE LateAnswer \/ UNCHANGED vars
  BY <1>7 DEF LateAnswer, vars, Course, Stays
<1> QED
  BY <1>1, <1>2, <1>3, <1>4, <1>5, <1>6, <1>7 DEF Next, Loop

----------------------------------------------------------------------------
(* The parts of the invariant, step by step.                               *)

\* The action that was routed is the one N6 may ask about (exec.ts:88-97).
LEMMA AskedIsDestructive ==
    ASSUME ActionsSound(st), RouteSound(st), st.node = "N6", NEW a \in st.actions, a.id = st.pending
    PROVE  a.call \in Destructive
<1>1. PICK c \in st.actions : Runnable(st, c)
  BY DEF RouteSound
<1>2. c = a
  BY <1>1 DEF ActionsSound, Runnable
<1> QED
  BY <1>1, <1>2 DEF Runnable

\* Settling or approving an action leaves the names and the ranks alone
\* (graph.ts:91-109).
LEMMA BecomesSound ==
    ASSUME ActionsSound(st), NEW a, NEW b, Becomes(a, b), b.status # "proposed",
           b.status = "denied" => a.call \in Destructive, st'.node \notin Early
    PROVE  ActionsSound(st') /\ Proposed(st') = Proposed(st) \ {a}
<1>1. Proposed(st') = Proposed(st) \ {a}
  BY DEF Becomes, Proposed, WithStatus
<1>2. \A c, d \in st'.actions : c.id = d.id => c = d
  <2>1. \A c \in st.actions : c.id = b.id => c = a
    BY DEF Becomes, ActionsSound
  <2> QED
    BY <2>1 DEF Becomes, ActionsSound
<1>3. \A c \in st'.actions : c.call \in Registered /\ (c.status = "denied" => c.call \in Destructive)
  BY DEF Becomes, ActionsSound
<1> QED
  BY <1>1, <1>2, <1>3 DEF ActionsSound

\* Names and ranks stay unique, and a denied call is a destructive one
\* (graph.ts:91-109, plan.ts:183-201).
LEMMA ActionsStep ==
    ASSUME ActionsSound(st), RouteSound(st), Course
    PROVE  ActionsSound(st')
<1>1. ASSUME st'.actions = st.actions, st'.node \in Early => st.node \in Early
      PROVE  ActionsSound(st')
  BY <1>1 DEF ActionsSound, Proposed, WithStatus
<1>2. CASE Stays
  BY <1>2 DEF Stays
<1>3. CASE SessionOpened
  BY <1>1, <1>3 DEF SessionOpened, ActionsKept, Early
<1>4. CASE Watched \/ Triaged \/ Enriched
  BY <1>1, <1>4 DEF Watched, Triaged, Enriched, AllKept, ActionsKept, Early
<1>5. ASSUME NEW sup, NEW new, PlannedAs(sup, new) PROVE ActionsSound(st')
  BY <1>5 DEF PlannedAs
<1>6. CASE RoutedOn
  BY <1>1, <1>6 DEF RoutedOn, Early
<1>7. ASSUME NEW a, NEW b, Executed(a, b) \/ Allowed(a, b) PROVE ActionsSound(st')
  BY <1>7, BecomesSound DEF Executed, Allowed, Early
<1>8. ASSUME NEW a, NEW b, DeniedAs(a, b) PROVE ActionsSound(st')
  <2>1. a.call \in Destructive
    BY <1>8, AskedIsDestructive DEF DeniedAs, Becomes
  <2> QED
    BY <1>8, <2>1, BecomesSound DEF DeniedAs, Early
<1>9. CASE Verified \/ TimedOut \/ Escalated \/ Reported
  BY <1>1, <1>9 DEF Verified, TimedOut, Escalated, Reported, AllKept, ActionsKept, Early
<1> QED
  BY <1>2, <1>3, <1>4, <1>5, <1>6, <1>7, <1>8, <1>9 DEF Course, Moves

\* A scoped incident has a session, and the nodes after N1 have an incident
\* (triage.ts:47-103).
LEMMA IntakeStep ==
    ASSUME IntakeSound(st), Course
    PROVE  IntakeSound(st')
<1>1. CASE Stays
  BY <1>1 DEF Stays
<1>2. CASE SessionOpened
  BY <1>2 DEF SessionOpened, IntakeSound, Working
<1>3. CASE Triaged
  BY <1>3 DEF Triaged, IntakeSound, Working
<1>4. ASSUME IntakeKept, st'.node \notin {"N0"}, st'.node = "N1" => st.node = "N0",
             st'.node \in Working => st.node \in Working
      PROVE  IntakeSound(st')
  BY <1>4 DEF IntakeSound, IntakeKept
<1>5. CASE Watched \/ Enriched \/ RoutedOn \/ Verified \/ TimedOut \/ Escalated \/ Reported
  BY <1>4, <1>5 DEF Watched, Enriched, RoutedOn, Verified, TimedOut, Escalated, Reported, AllKept,
     RestKept, Working
<1>6. ASSUME NEW sup, NEW new, PlannedAs(sup, new) PROVE IntakeSound(st')
  BY <1>4, <1>6 DEF PlannedAs, RestKept, Working
<1>7. ASSUME NEW a, NEW b, Executed(a, b) \/ Allowed(a, b) \/ DeniedAs(a, b) PROVE IntakeSound(st')
  BY <1>4, <1>7 DEF Executed, Allowed, DeniedAs, RestKept, Working
<1> QED
  BY <1>1, <1>2, <1>3, <1>5, <1>6, <1>7 DEF Course, Moves

\* What is routed can be run, and an approved action is the routed one or the
\* run was escalated (route.ts:5-23, edges.ts:42-60).
LEMMA RouteStep ==
    ASSUME TypeOK, ActionsSound(st), IntakeSound(st), RouteSound(st), EndSound, Course
    PROVE  RouteSound(st')
<1>2. ASSUME st.node \notin Ended, NEW a \in st.actions, a.status = "approved"
      PROVE  st.node = "N7" /\ a.id = st.pending
  BY <1>2 DEF RouteSound, EndSound
<1>3. ASSUME st'.actions = st.actions, st'.pending = st.pending, OutcomeKept,
             st.node \notin {"N5", "N6", "N7"}, st'.node \notin {"N5", "N6", "N7"},
             st.node \in Ended => st'.node \in Ended
      PROVE  RouteSound(st')
  BY <1>3 DEF RouteSound, OutcomeKept
<1>4. CASE Stays
  BY <1>4 DEF Stays
<1>5. CASE SessionOpened
  BY <1>3, <1>5 DEF SessionOpened, ActionsKept, Ended
<1>6. CASE Watched \/ Enriched \/ Reported
  BY <1>3, <1>6 DEF Watched, Enriched, Reported, AllKept, RestKept, ActionsKept, Ended
<1>7. CASE Triaged
  <2>1. st.actions = {} /\ st.pending = 0
    BY <1>7 DEF Triaged, ActionsSound, RouteSound, Early, Ended
  <2>2. st'.node \in {"N1", "N2", "N9"}
    BY <1>7 DEF Triaged, IntakeSound
  <2> QED
    BY <1>7, <2>1, <2>2 DEF Triaged, ActionsKept, RouteSound
<1>8. ASSUME NEW sup, NEW new, PlannedAs(sup, new) PROVE RouteSound(st')
  <2>1. st.node = "N3" /\ st.pending = 0 /\ st'.pending = 0 /\ st'.node \in {"N4", "N9"}
    BY <1>8 DEF PlannedAs, RouteSound, Ended
  <2>2. ASSUME NEW a \in st'.actions PROVE a.status # "approved"
    <3>1. CASE a \in st.actions
      BY <1>2, <2>1, <3>1 DEF Ended
    <3>2. CASE a \in Skip(sup)
      <4>1. sup \in SUBSET Action
        BY <1>8 DEF PlannedAs, Proposed, WithStatus, TypeOK, RunState
      <4> QED
        BY <3>2, <4>1, SkipKeeps
    <3>3. CASE a \in new
      BY <1>8, <3>3 DEF PlannedAs, Fresh
    <3> QED
      BY <1>8, <3>1, <3>2, <3>3 DEF PlannedAs, Replanned
  <2> QED
    BY <2>1, <2>2 DEF RouteSound
<1>9. CASE RoutedOn
  <2>1. st.node = "N4" /\ \A a \in st'.actions : a.status # "approved"
    BY <1>2, <1>9 DEF RoutedOn, Ended
  <2>2. CASE st'.node = "N8" /\ st'.pending = 0
    BY <2>1, <2>2 DEF RouteSound
  <2>3. CASE \E a \in Proposed(st) :
                /\ st'.pending = a.id
                /\ \/ a.call \in Safe /\ st'.node = "N5"
                   \/ a.call \in Destructive /\ st'.node = "N6"
    <3>1. \E a \in st'.actions : Runnable(st', a)
      BY <1>9, <2>3 DEF RoutedOn, Proposed, WithStatus, Runnable
    <3> QED
      BY <2>1, <2>3, <3>1 DEF RouteSound
  <2> QED
    BY <1>9, <2>2, <2>3 DEF RoutedOn
<1>10. ASSUME NEW a, NEW b, Becomes(a, b), st.node \in {"N5", "N6", "N7"},
              NEW c \in st'.actions, c.status = "approved"
       PROVE  c = b
  <2>1. CASE c \in st.actions \ {a}
    <3>1. c.id = st.pending
      BY <1>2, <1>10, <2>1 DEF Ended
    <3> QED
      BY <1>10, <2>1, <3>1 DEF Becomes, ActionsSound
  <2> QED
    BY <1>10, <2>1 DEF Becomes
<1>11. ASSUME NEW a, NEW b, Executed(a, b) \/ DeniedAs(a, b) PROVE RouteSound(st')
  <2>1. /\ Becomes(a, b) /\ st.node \in {"N5", "N6", "N7"} /\ b.status # "approved"
        /\ st'.pending = 0 /\ st'.node \in {"N3", "N4", "N8", "N9"}
    BY <1>11 DEF Executed, DeniedAs
  <2>2. \A c \in st'.actions : c.status # "approved"
    BY <1>10, <2>1
  <2> QED
    BY <2>1, <2>2 DEF RouteSound
<1>12. ASSUME NEW a, NEW b, Allowed(a, b) PROVE RouteSound(st')
  <2>1. /\ Becomes(a, b) /\ st.node = "N6" /\ b.status = "approved"
        /\ st'.pending = b.id /\ st'.node = "N7" /\ b \in st'.actions
    BY <1>12 DEF Allowed, Becomes
  <2>2. \A c \in st'.actions : c.status = "approved" => c = b
    BY <1>10, <2>1
  <2>3. Runnable(st', b)
    BY <2>1 DEF Runnable
  <2> QED
    BY <2>1, <2>2, <2>3 DEF RouteSound, Ended
<1>13. CASE Verified
  <2>1. /\ st.node = "N8" /\ st.pending = 0 /\ st'.pending = 0
        /\ st'.node \in {"N3", "N9", "N10"} /\ st'.actions = st.actions
    BY <1>13 DEF Verified, ActionsKept, RouteSound, Ended
  <2>2. \A a \in st'.actions : a.status # "approved"
    BY <1>2, <2>1 DEF Ended
  <2> QED
    BY <2>1, <2>2 DEF RouteSound
<1>14. CASE TimedOut \/ Escalated
  BY <1>14 DEF TimedOut, Escalated, RouteSound, Ended
<1> QED
  BY <1>4, <1>5, <1>6, <1>7, <1>8, <1>9, <1>11, <1>12, <1>13, <1>14 DEF Course, Moves

\* The outcome and the page agree (escalate.ts:14-61, verify.ts:122-140).
LEMMA EndStep ==
    ASSUME TypeOK, IntakeSound(st), EndSound, Course
    PROVE  EndSound'
<1>1. st.outcome \in {"none", "recovered", "escalated"} /\ paged \in BOOLEAN
  BY DEF TypeOK, RunState
<1>2. CASE Stays
  BY <1>2 DEF Stays, EndSound, Ended
<1>3. CASE SessionOpened /\ phase' = phase /\ paged' = paged
  BY <1>3 DEF SessionOpened, OutcomeKept, EndSound, Ended
<1>4. ASSUME OutcomeKept, PassEnds, st.node \notin Ended, st'.node \notin {"N10", "DONE"}
      PROVE  EndSound'
  <2>1. st.outcome = "none" /\ ~paged
    BY <1>1, <1>4 DEF EndSound, Ended
  <2> QED
    BY <1>4, <2>1 DEF OutcomeKept, PassEnds, EndSound
<1>5. CASE (Watched \/ Enriched \/ RoutedOn) /\ PassEnds
  BY <1>4, <1>5 DEF Watched, Enriched, RoutedOn, AllKept, RestKept, Ended
<1>11. CASE Triaged /\ PassEnds
  BY <1>4, <1>11 DEF Triaged, IntakeSound, Ended
<1>6. ASSUME NEW sup, NEW new, PlannedAs(sup, new), PassEnds PROVE EndSound'
  BY <1>4, <1>6 DEF PlannedAs, RestKept, Ended
<1>7. ASSUME NEW a, NEW b, Executed(a, b) \/ Allowed(a, b) \/ DeniedAs(a, b), PassEnds
      PROVE  EndSound'
  BY <1>4, <1>7 DEF Executed, Allowed, DeniedAs, RestKept, Ended
<1>8. CASE (Verified \/ TimedOut) /\ PassEnds
  <2>1. st.outcome = "none" /\ ~paged
    BY <1>1, <1>8 DEF Verified, TimedOut, EndSound, Ended
  <2> QED
    BY <1>8, <2>1 DEF Verified, TimedOut, PassEnds, EndSound, Ended
<1>9. CASE Escalated /\ phase = "fired" /\ PassEnds
  BY <1>9 DEF Escalated, PassEnds, EndSound, Ended
<1>10. CASE Reported /\ PassEnds
  BY <1>10 DEF Reported, AllKept, RestKept, OutcomeKept, PassEnds, EndSound, Ended
<1> QED
  BY <1>2, <1>3, <1>5, <1>6, <1>7, <1>8, <1>9, <1>10, <1>11 DEF Course, Moves

\* Once a plan silences the incident, no step takes that back (plan.ts:162-228,
\* exec.ts:55-86).
LEMMA CoverStep ==
    ASSUME TypeOK, ActionsSound(st), IntakeSound(st), RouteSound(st), CoverSound(st), Course
    PROVE  CoverSound(st')
<1>1. CASE Stays
  BY <1>1 DEF Stays
<1>2. ASSUME st'.actions = st.actions, st'.incident = st.incident,
             st'.node \notin {"N4", "N5", "N6", "N7", "N8"}
      PROVE  CoverSound(st')
  BY <1>2 DEF CoverSound, Proposed, WithStatus
<1>3. CASE SessionOpened \/ Watched \/ Enriched \/ Reported \/ Verified \/ TimedOut \/ Escalated
  BY <1>2, <1>3 DEF SessionOpened, Watched, Enriched, Reported, Verified, TimedOut, Escalated,
     AllKept, RestKept, IntakeKept, ActionsKept
<1>4. CASE Triaged
  <2>1. st'.actions = {} /\ st'.node \in {"N1", "N2", "N9"}
    BY <1>4 DEF Triaged, ActionsKept, ActionsSound, IntakeSound, Early
  <2> QED
    BY <2>1 DEF CoverSound, Proposed, WithStatus
<1>5. ASSUME NEW sup, NEW new, PlannedAs(sup, new) PROVE CoverSound(st')
  <2>1. st'.node \in {"N4", "N9"} /\ (st'.node = "N4" => Proposed(st') # {})
    BY <1>5 DEF PlannedAs
  <2>2. ASSUME st.incident = "scoped", Proposed(st') # {} PROVE Covered(st'.actions)
    <3>1. CASE new # {}
      <4>1. PICK a \in new : a.call \in Covering
        BY <1>5, <2>2, <3>1 DEF PlannedAs
      <4>2. a.status = "proposed" /\ a \in st'.actions
        BY <1>5 DEF PlannedAs, Fresh, Replanned
      <4> QED
        BY <4>1, <4>2 DEF Covered
    <3>2. CASE new = {}
      <4>1. sup = {} /\ Proposed(st) # {}
        BY <1>5, <2>2, <3>2 DEF PlannedAs
      <4>2. st.actions \subseteq st'.actions
        BY <1>5, <4>1 DEF PlannedAs, Replanned
      <4>3. Covered(st.actions)
        BY <2>2, <4>1 DEF CoverSound
      <4> QED
        BY <4>2, <4>3 DEF Covered
    <3> QED
      BY <3>1, <3>2
  <2>3. st'.incident = st.incident
    BY <1>5 DEF PlannedAs, RestKept, IntakeKept
  <2> QED
    BY <2>1, <2>2, <2>3 DEF CoverSound
<1>6. CASE RoutedOn
  <2>1. /\ st.node = "N4" /\ st'.actions = st.actions /\ st'.incident = st.incident
        /\ st'.node = "N8" => Proposed(st) = {}
    BY <1>6 DEF RoutedOn, RestKept, IntakeKept
  <2> QED
    BY <2>1 DEF CoverSound, Proposed, WithStatus
<1>7. ASSUME NEW a, NEW b, Becomes(a, b), Covered(st.actions),
             a.call \in Covering => b.status \in {"executed", "failed"}
      PROVE  Covered(st'.actions)
  <2>1. PICK c \in st.actions :
          c.call \in Covering /\ c.status \in {"proposed", "executed", "failed"}
    BY <1>7 DEF Covered
  <2>2. CASE c = a
    <3>1. b \in st'.actions /\ b.call = a.call
      BY <1>7 DEF Becomes
    <3> QED
      BY <1>7, <2>1, <2>2, <3>1 DEF Covered
  <2>3. CASE c # a
    <3>1. c \in st'.actions
      BY <1>7, <2>3 DEF Becomes
    <3> QED
      BY <2>1, <3>1 DEF Covered
  <2> QED
    BY <2>2, <2>3
<1>8. ASSUME NEW a, NEW b, Executed(a, b) PROVE CoverSound(st')
  <2>1. st.incident = "scoped" => Covered(st'.actions)
    BY <1>7, <1>8 DEF Executed, CoverSound
  <2>2. st'.incident = st.incident /\ (st'.node = "N8" => Proposed(st') = {})
    BY <1>8 DEF Executed, RestKept, IntakeKept
  <2> QED
    BY <2>1, <2>2 DEF CoverSound
<1>9. ASSUME NEW a, NEW b, Allowed(a, b) \/ DeniedAs(a, b) PROVE CoverSound(st')
  <2>1. Becomes(a, b) /\ st.node = "N6" /\ st'.incident = st.incident /\ st'.node # "N8"
    BY <1>9 DEF Allowed, DeniedAs, RestKept, IntakeKept
  <2>2. a.call \in Destructive
    BY <2>1, AskedIsDestructive DEF Becomes
  <2>3. a.call \notin Covering
    BY <2>2, RegistryAssumption
  <2>4. st.incident = "scoped" => Covered(st'.actions)
    BY <1>7, <2>1, <2>3 DEF CoverSound
  <2> QED
    BY <2>1, <2>4 DEF CoverSound
<1> QED
  BY <1>1, <1>3, <1>4, <1>5, <1>6, <1>8, <1>9 DEF Course, Moves

\* The counters stay within their limits (graph.ts:76-80, edges.ts:14-69).
LEMMA CountersStep ==
    ASSUME TypeOK, IntakeSound(st), CountersSound(st), Course
    PROVE  CountersSound(st')
<1> USE LimitsAssumption
<1>1. /\ st.replans \in Nat /\ st.verifyAttempts \in Nat
      /\ st.n2errors \in Nat /\ st.parseRetries \in Nat
  BY DEF TypeOK, RunState
<1>2. CASE Stays
  BY <1>2 DEF Stays
<1>3. ASSUME RetriesKept, LimitsKept, st'.node \notin {"N0", "N1"} \/ st.node = "N0",
             st'.node \in Working => st.node \in Working, st'.node = "N2" => st.node = "N2",
             st'.node \notin Ended => st.node \notin Ended
      PROVE  CountersSound(st')
  BY <1>3 DEF CountersSound, RetriesKept, LimitsKept
<1>4. CASE SessionOpened
  BY <1>3, <1>4 DEF SessionOpened, Working, Ended
<1>5. CASE Watched \/ RoutedOn \/ TimedOut \/ Escalated \/ Reported
  BY <1>3, <1>5 DEF Watched, RoutedOn, TimedOut, Escalated, Reported, AllKept, RestKept,
     Working, Ended
<1>6. ASSUME NEW sup, NEW new, PlannedAs(sup, new) PROVE CountersSound(st')
  BY <1>3, <1>6 DEF PlannedAs, RestKept, Working, Ended
<1>7. ASSUME NEW a, NEW b, Executed(a, b) \/ Allowed(a, b) PROVE CountersSound(st')
  BY <1>3, <1>7 DEF Executed, Allowed, RestKept, Working, Ended
<1>8. CASE Triaged
  <2>1. /\ LimitsKept /\ st.node = "N1" /\ st'.n2errors = st.n2errors
        /\ \/ st'.node = "N2" /\ st'.parseRetries = st.parseRetries
           \/ /\ st'.parseRetries = st.parseRetries + 1
              /\ st'.node = IF st'.parseRetries < PARSE_RETRIES_MAX THEN "N1" ELSE "N9"
    BY <1>8 DEF Triaged, IntakeSound
  <2> QED
    BY <1>1, <2>1 DEF CountersSound, LimitsKept, Working, Ended
<1>9. CASE Enriched
  BY <1>1, <1>9 DEF Enriched, RetriesKept, LimitsKept, CountersSound, Working, Ended
<1>10. ASSUME NEW a, NEW b, DeniedAs(a, b) PROVE CountersSound(st')
  BY <1>1, <1>10 DEF DeniedAs, RetriesKept, CountersSound, Working, Ended
<1>11. CASE Verified
  BY <1>1, <1>11 DEF Verified, RetriesKept, CountersSound, Working, Ended
<1> QED
  BY <1>2, <1>4, <1>5, <1>6, <1>7, <1>8, <1>9, <1>10, <1>11 DEF Course, Moves

----------------------------------------------------------------------------
(* The inductive invariant.                                                *)

RunInv ==
    /\ IInv
    /\ Saved
    /\ ActionsSound(st)
    /\ IntakeSound(st)
    /\ RouteSound(st)
    /\ EndSound
    /\ CoverSound(st)
    /\ CountersSound(st)

\* A run begins at N0 with nothing found, planned, counted or saved
\* (state.ts, graph.ts:76-80).
LEMMA RunInit == Init => RunInv
<1> SUFFICES ASSUME Init PROVE RunInv
  OBVIOUS
<1>1. st = InitialState /\ disk = <<>> /\ phase = "head" /\ paged = FALSE
  BY DEF Init
<1>2. Saved /\ IntakeSound(st) /\ EndSound
  BY <1>1 DEF InitialState, Saved, IntakeSound, EndSound, Working, Ended
<1>3. ActionsSound(st) /\ RouteSound(st) /\ CoverSound(st)
  BY <1>1 DEF InitialState, ActionsSound, RouteSound, CoverSound, Proposed, WithStatus
<1>4. CountersSound(st)
  BY <1>1, LimitsAssumption DEF InitialState, CountersSound, Working, Ended
<1> QED
  BY <1>2, <1>3, <1>4, InitInv DEF RunInv

\* Every step is one of Course and keeps every part of the invariant.
LEMMA RunKeeps == RunInv /\ [Next]_vars => RunInv' /\ Course
<1> SUFFICES ASSUME RunInv, [Next]_vars PROVE RunInv' /\ Course
  OBVIOUS
<1>1. TypeOK
  BY DEF RunInv, IInv, HeldInv
<1>2. Course
  BY <1>1, RunStep DEF RunInv
<1>3. IInv' /\ Saved'
  BY StepInv, SavedStep DEF RunInv
<1>4. ActionsSound(st') /\ IntakeSound(st')
  BY <1>2, ActionsStep, IntakeStep DEF RunInv
<1>5. RouteSound(st') /\ EndSound'
  BY <1>1, <1>2, RouteStep, EndStep DEF RunInv
<1>6. CoverSound(st') /\ CountersSound(st')
  BY <1>1, <1>2, CoverStep, CountersStep DEF RunInv
<1> QED
  BY <1>2, <1>3, <1>4, <1>5, <1>6 DEF RunInv

\* The invariant holds in every state of a run, whatever crashed and was
\* resumed before (incident.ts:132-226).
THEOREM RunInvariance == Spec => []RunInv
<1> QED
  BY RunInit, RunKeeps, PTL DEF Spec

----------------------------------------------------------------------------
(* The theorems.                                                           *)

\* The checkpoint holds the run state that the process has in memory, in every
\* state of every run: a crash loses time and the place in a node, and nothing
\* of what the run knows (incident.ts:156-163, 212-217).
THEOREM CheckpointIsCurrent == Spec => []Saved
<1>1. RunInv => Saved
  BY DEF RunInv
<1> QED
  BY <1>1, RunInvariance, PTL

\* The nodes that run an action find exactly the one that was routed.
LEMMA RoutedIsOne ==
    ASSUME RunInv, st.node \in {"N5", "N6", "N7"}
    PROVE  \E a \in st.actions : ById(st, st.pending) = {a} /\ Runnable(st, a)
<1>1. PICK a \in st.actions : Runnable(st, a)
  BY DEF RunInv, RouteSound
<1>2. ById(st, st.pending) = {a}
  BY <1>1 DEF RunInv, ActionsSound, Runnable, ById
<1> QED
  BY <1>1, <1>2

\* No node is entered, or resumed into, in a state in which it could only
\* throw, for every registry, every limit and any number of crashes
\* (enrich.ts:39-40, plan.ts:95-96, exec.ts:35, 57, 90, 163, verify.ts:84).
THEOREM NodesRun == Spec => []NodesCanRun
<1>1. RunInv => NodesCanRun
  <2> SUFFICES ASSUME RunInv PROVE NodesCanRun
    OBVIOUS
  <2>1. st.node \in {"N2", "N3", "N8"} => st.session /\ st.incident # "none"
    BY DEF RunInv, IntakeSound, Working
  <2>2. ASSUME st.node \in {"N5", "N6", "N7"}
        PROVE  /\ Cardinality(ById(st, st.pending)) = 1
               /\ \A a \in ById(st, st.pending) :
                     CASE st.node = "N5" -> a.call \in Safe /\ a.status = "proposed"
                       [] st.node = "N6" -> a.call \in Destructive /\ a.status = "proposed"
                       [] st.node = "N7" -> a.status = "approved" /\ a.tok \in DOMAIN calls
    <3>1. PICK a \in st.actions : ById(st, st.pending) = {a} /\ Runnable(st, a)
      BY <2>2, RoutedIsOne
    <3>2. Cardinality(ById(st, st.pending)) = 1
      BY <3>1, FS_Singleton
    <3>3. a.status = "approved" => a.tok \in DOMAIN calls
      BY DEF RunInv, IInv, HeldInv, ApprovalsBacked, Backed
    <3>4. CASE st.node = "N5"
      BY <3>1, <3>2, <3>4 DEF Runnable
    <3>5. CASE st.node = "N6"
      BY <3>1, <3>2, <3>5 DEF Runnable
    <3>6. CASE st.node = "N7"
      BY <3>1, <3>2, <3>3, <3>6 DEF Runnable
    <3> QED
      BY <2>2, <3>4, <3>5, <3>6
  <2> QED
    BY <2>1, <2>2 DEF NodesCanRun
<1> QED
  BY <1>1, RunInvariance, PTL

\* What a human allowed is let go next, or the run has been handed to a human
\* (edges.ts:54-60, incident.ts:198-210).
THEOREM AllowedIsActedOn == Spec => []AllowIsActedOn
<1>1. RunInv => AllowIsActedOn
  BY DEF RunInv, RouteSound, AllowIsActedOn, WithStatus
<1> QED
  BY <1>1, RunInvariance, PTL

\* A finished run says recovered exactly when nobody was paged
\* (escalate.ts:14-17, verify.ts:122, edges.ts:64-69).
THEOREM OutcomeIsHonest == Spec => []OutcomeMatchesPage
<1>1. RunInv => OutcomeMatchesPage
  <2> SUFFICES ASSUME RunInv, st.node = "DONE"
               PROVE  \/ st.outcome = "recovered" /\ ~paged
                      \/ st.outcome = "escalated" /\ paged
    BY DEF OutcomeMatchesPage
  <2>1. st.outcome \in {"none", "recovered", "escalated"}
    BY DEF RunInv, IInv, HeldInv, TypeOK, RunState
  <2>2. st.outcome # "none" /\ (paged <=> st.outcome = "escalated")
    BY DEF RunInv, EndSound
  <2> QED
    BY <2>1, <2>2
<1> QED
  BY <1>1, RunInvariance, PTL

\* Before a scoped incident is verified a silence of its alerts was tried, with
\* success or without, whatever was denied, replanned or kept (plan.ts:28-33,
\* 162-180, exec.ts:39-46).
THEOREM SilenceTriedBeforeVerify == Spec => []CloseoutBeforeVerify
<1>1. RunInv => CloseoutBeforeVerify
  <2> SUFFICES ASSUME RunInv, st.node = "N8", st.incident = "scoped"
               PROVE  \E a \in st.actions :
                          a.call \in Covering /\ a.status \in {"executed", "failed"}
    BY DEF CloseoutBeforeVerify
  <2>1. Covered(st.actions) /\ Proposed(st) = {}
    BY DEF RunInv, CoverSound
  <2>2. PICK a \in st.actions :
          a.call \in Covering /\ a.status \in {"proposed", "executed", "failed"}
    BY <2>1 DEF Covered
  <2>3. a.status # "proposed"
    BY <2>1 DEF Proposed, WithStatus
  <2> QED
    BY <2>2, <2>3
<1> QED
  BY <1>1, RunInvariance, PTL

\* The retry limits bound the counters and the plan on the table, for every
\* value of the limits (graph.ts:76-80, edges.ts:14-69).
LEMMA LimitsHold == RunInv => CountersBounded
<1> SUFFICES ASSUME RunInv PROVE CountersBounded
  OBVIOUS
<1>1. Proposed(st) \in SUBSET Action /\ ACTIONS_MAX \in Nat
  BY LimitsAssumption DEF RunInv, IInv, HeldInv, TypeOK, RunState, Proposed, WithStatus
<1>2. ASSUME NEW a \in Proposed(st) PROVE a.rank <= ACTIONS_MAX
  <2>1. a.rank \in 1 .. ACTIONS_MAX
    BY <1>1 DEF Action
  <2> QED
    BY <1>1, <2>1
<1>3. \A a, b \in Proposed(st) : a.rank = b.rank => a = b
  BY DEF RunInv, ActionsSound
<1>4. Cardinality(Proposed(st)) <= ACTIONS_MAX
  BY <1>1, <1>2, <1>3, RankedFits
<1> QED
  BY <1>4 DEF RunInv, CountersSound, CountersBounded

\* A run within its limits, with the clock and without it
\* (graph.ts:76-80, edges.ts:14-69).
THEOREM LimitsBound ==
    /\ Spec => []CountersBounded
    /\ UntimedSpec => []CountersBounded
<1>1. NextUntimed => Next
  BY DEF NextUntimed, Next
<1>2. Init /\ [][NextUntimed]_vars => []RunInv
  BY <1>1, RunInit, RunKeeps, PTL
<1>3. Spec => []CountersBounded
  BY LimitsHold, RunInvariance, PTL
<1>4. UntimedSpec => []CountersBounded
  BY <1>2, LimitsHold, PTL DEF UntimedSpec
<1> QED
  BY <1>3, <1>4

----------------------------------------------------------------------------
(* What a step never does.                                                 *)

\* A checkpoint, once there, is only replaced (checkpoint.ts:54-64).
LEMMA DiskStays == disk # <<>> /\ [Next]_vars => disk' # <<>>
<1> SUFFICES ASSUME disk # <<>>, [Next]_vars PROVE disk' # <<>>
  OBVIOUS
<1>1. \A s : Save(s) => disk' # <<>>
  BY DEF Save
<1>2. \A s : Finish(s) => disk' # <<>>
  BY <1>1 DEF Finish
<1>3. CASE Loop \/ Tick \/ TerminalTimeout \/ Die \/ Operator
  BY <1>1, <1>3 DEF Loop, LoopDone, LoopTimeout, LoopEnter, NodeTimeout, EscalateTimeout, Tick,
     TerminalTimeout, Die, Operator, Resume, StartOver
<1>4. CASE Intake
  BY <1>2, <1>4 DEF Intake, Watch, TriageOk, TriageUnparsed, EnrichUnparsed,
     EnrichFanoutLow, EnrichAnswered
<1>5. CASE Plan \/ PlanUnparsed \/ Route \/ ExecSafe \/ ExecDestructive \/ RecordAllow
           \/ RecordDeny \/ Verify
  BY <1>2, <1>5 DEF Plan, PlanUnparsed, Route, ExecSafe, ExecDestructive, RecordAllow,
     RecordDeny, Verify
<1>6. CASE AskHuman \/ HeldUnplanned \/ Answer \/ Refuse \/ Fire
  BY <1>6 DEF AskHuman, HeldUnplanned, Answer, Refuse, Fire
<1>7. CASE Ending
  BY <1>1, <1>2, <1>7 DEF Ending, OpenSession, Page, Escalate, Report
<1>8. CASE LateAnswer \/ UNCHANGED vars
  BY <1>8 DEF LateAnswer, vars
<1> QED
  BY <1>3, <1>4, <1>5, <1>6, <1>7, <1>8 DEF Next, Remedy

\* A step from a checkpoint to the next, read off the memory.
LEMMA CheckpointStep ==
    ASSUME RunInv, [Next]_vars, disk # <<>>
    PROVE  /\ Course /\ RunInv'
           /\ Last(disk) = st /\ Last(disk') = st'
BY RunKeeps, DiskStays DEF RunInv, Saved, Last

\* What the checkpoint says was done to an action is never rewritten
\* (plan.ts:208-215, graph.ts:91-99).
THEOREM SettledStays == Spec => SettledIsFinal
<1> DEFINE settled(s) == {a \in s.actions : a.status \notin {"proposed", "approved"}}
<1>1. ASSUME RunInv, [Next]_vars, disk # <<>>
      PROVE  settled(Last(disk)) \subseteq Last(disk').actions
  <2>1. Course /\ Last(disk) = st /\ Last(disk') = st'
    BY <1>1, CheckpointStep
  <2>2. CASE st'.actions = st.actions
    BY <2>1, <2>2
  <2>3. ASSUME NEW sup, NEW new, PlannedAs(sup, new)
        PROVE  settled(st) \subseteq st'.actions
    BY <2>3 DEF PlannedAs, Replanned, Proposed, WithStatus
  <2>4. ASSUME NEW a, NEW b, Becomes(a, b), st.node \in {"N5", "N6", "N7"}
        PROVE  settled(st) \subseteq st'.actions
    <3>1. PICK c \in st.actions : ById(st, st.pending) = {c} /\ Runnable(st, c)
      BY <1>1, <2>4, RoutedIsOne
    <3>2. a = c
      BY <2>4, <3>1 DEF Becomes, ById
    <3>3. a.status \in {"proposed", "approved"}
      BY <2>4, <3>1, <3>2 DEF Runnable
    <3> QED
      BY <2>4, <3>3 DEF Becomes
  <2>5. CASE \E a, b : Executed(a, b) \/ Allowed(a, b) \/ DeniedAs(a, b)
    BY <2>1, <2>4, <2>5 DEF Executed, Allowed, DeniedAs
  <2>6. \/ st'.actions = st.actions
        \/ \E sup, new : PlannedAs(sup, new)
        \/ \E a, b : Executed(a, b) \/ Allowed(a, b) \/ DeniedAs(a, b)
    BY <2>1 DEF Course, Moves, Stays, SessionOpened, Watched, Triaged, Enriched, RoutedOn,
       Verified, TimedOut, Escalated, Reported, AllKept, ActionsKept
  <2> QED
    BY <2>1, <2>2, <2>3, <2>5, <2>6
<1>2. RunInv /\ [Next]_vars =>
        [disk # <<>> => settled(Last(disk)) \subseteq Last(disk').actions]_vars
  BY <1>1
<1> QED
  BY <1>2, RunInvariance, PTL DEF Spec, SettledIsFinal

\* A later plan never offers a pair that was denied before it was made
\* (plan.ts:107-109, 166, 174-177).
THEOREM DeniedIsNotReplanned == Spec => DeniedNotReplanned
<1>1. ASSUME RunInv, [Next]_vars, NEW a \in st'.actions, \A b \in st.actions : b.id # a.id
      PROVE  a.call \notin Denied(st)
  <2>1. Course /\ a \notin st.actions
    BY <1>1, RunKeeps
  <2>2. ASSUME NEW c, NEW b, Becomes(c, b) PROVE FALSE
    BY <1>1, <2>1, <2>2 DEF Becomes
  <2>3. PICK sup, new : PlannedAs(sup, new)
    BY <2>1, <2>2 DEF Course, Moves, Stays, SessionOpened, Watched, Triaged, Enriched, RoutedOn,
       Executed, Allowed, DeniedAs, Verified, TimedOut, Escalated, Reported, AllKept, ActionsKept
  <2>4. a \notin Skip(sup)
    <3>1. sup \in SUBSET Action /\ sup \subseteq st.actions
      BY <1>1, <2>3 DEF PlannedAs, Proposed, WithStatus, RunInv, IInv, HeldInv, TypeOK, RunState
    <3> QED
      BY <1>1, <3>1, SkipKeeps
  <2>5. a \in new
    BY <2>1, <2>3, <2>4 DEF PlannedAs, Replanned
  <2> QED
    BY <2>3, <2>5 DEF PlannedAs, Fresh
<1>2. RunInv /\ [Next]_vars =>
        [\A a \in st'.actions :
            (\A b \in st.actions : b.id # a.id) => a.call \notin Denied(st)]_vars
  BY <1>1
<1> QED
  BY <1>2, RunInvariance, PTL DEF Spec, DeniedNotReplanned

\* A recovery that was checkpointed stays the outcome, and nobody is paged any
\* more (incident.ts:134-135, 185-197).
THEOREM RecoveryStays == Spec => RecoveryIsFinal
<1>1. ASSUME RunInv, [Next]_vars, disk # <<>>, Last(disk).outcome = "recovered"
      PROVE  Last(disk').outcome = "recovered" /\ paged' = paged
  <2>1. Course /\ Last(disk) = st /\ Last(disk') = st'
    BY <1>1, CheckpointStep
  <2>2. st.node \in {"N10", "DONE"}
    BY <1>1, <2>1 DEF RunInv, EndSound
  <2>3. Stays \/ (Reported /\ PassEnds)
    BY <2>1, <2>2 DEF Course, Moves, SessionOpened, Watched, Triaged, Enriched, PlannedAs,
       RoutedOn, Executed, Allowed, DeniedAs, Verified, TimedOut, Escalated, Ended
  <2>4. st'.outcome = st.outcome /\ paged' = paged
    BY <2>2, <2>3 DEF Stays, Reported, AllKept, RestKept, OutcomeKept, PassEnds
  <2> QED
    BY <1>1, <2>1, <2>4
<1>2. RunInv /\ [Next]_vars =>
        [disk # <<>> /\ Last(disk).outcome = "recovered" =>
            Last(disk').outcome = "recovered" /\ paged' = paged]_vars
  BY <1>1
<1> QED
  BY <1>2, RunInvariance, PTL DEF Spec, RecoveryIsFinal
============================================================================
