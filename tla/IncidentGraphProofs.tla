------------------------ MODULE IncidentGraphProofs ------------------------
(***************************************************************************)
(* Theorems about IncidentGraph for every value of its constants: its type *)
(* invariant, and the human gate in the web approval mode.                 *)
(***************************************************************************)
EXTENDS IncidentGraph, SequenceTheorems, TLAPS

----------------------------------------------------------------------------
(* The routing table keeps the type of the run state, and no edge adds an  *)
(* action or changes one.                                                  *)

\* What N4 routes is an action of the run (edges.ts:43-45).
LEMMA RoutedInActions ==
    ASSUME NEW s \in RunState
    PROVE  Routed(s) \subseteq s.actions
BY DEF Routed, ById, FirstRanked, Proposed, WithStatus

\* Moving to another node changes nothing else (incident.ts:212-214).
LEMMA GotoType ==
    ASSUME NEW s \in RunState, NEW n \in Nodes
    PROVE  Goto(s, n) \in RunState /\ Goto(s, n).actions = s.actions
BY DEF Goto, RunState

\* Setting the routed action leaves the actions as they are (edges.ts:42-52).
LEMMA PendingType ==
    ASSUME NEW s \in RunState, NEW i \in ActionIds \cup {0}
    PROVE  [s EXCEPT !.pending = i] \in RunState /\ [s EXCEPT !.pending = i].actions = s.actions
BY DEF RunState

\* Replacing the actions changes nothing else (graph.ts:101-109).
LEMMA ActionsType ==
    ASSUME NEW s \in RunState, NEW as \in SUBSET Action
    PROVE  [s EXCEPT !.actions = as] \in RunState /\ [s EXCEPT !.actions = as].actions = as
BY DEF RunState

\* E3 drops proposed actions and adds none (edges.ts:30-40).
LEMMA N3EdgeType ==
    ASSUME NEW s \in RunState
    PROVE  N3Edge(s) \in RunState /\ N3Edge(s).actions \subseteq s.actions
<1> DEFINE known == {a \in Proposed(s) : Policy(a.call) # "none"}
           valid == {a \in known : Cardinality({b \in known : b.rank < a.rank}) < ACTIONS_MAX}
           left  == (s.actions \ Proposed(s)) \cup valid
           t     == [s EXCEPT !.actions = left]
           n     == IF valid # {} THEN "N4" ELSE "N9"
<1>1. left \subseteq s.actions
  BY DEF Proposed, WithStatus
<1>2. left \in SUBSET Action
  BY <1>1 DEF RunState
<1>3. t \in RunState /\ t.actions = left
  <2> HIDE DEF left
  <2> QED
    BY <1>2, ActionsType
<1>4. n \in Nodes
  BY DEF Nodes
<1>5. N3Edge(s) = Goto(t, n)
  BY DEF N3Edge
<1> HIDE DEF left, t, n
<1> QED
  BY <1>1, <1>3, <1>4, <1>5, GotoType

\* E4 routes an action and changes none (edges.ts:42-52).
LEMMA N4EdgeType ==
    ASSUME NEW s \in RunState
    PROVE  N4Edge(s) \in RunState /\ N4Edge(s).actions = s.actions
<1> DEFINE a == CHOOSE b \in Routed(s) : TRUE
           t == [s EXCEPT !.pending = a.id]
           n == IF Policy(a.call) = "safe" THEN "N5" ELSE "N6"
<1>1. CASE Routed(s) = {}
  BY <1>1, GotoType DEF N4Edge, Nodes
<1>2. CASE Routed(s) # {}
  <2>1. a \in s.actions
    BY <1>2, RoutedInActions
  <2>2. a.id \in ActionIds \cup {0}
    BY <2>1 DEF RunState, Action
  <2>3. t \in RunState /\ t.actions = s.actions
    <3> HIDE DEF a
    <3> QED
      BY <2>2, PendingType
  <2>4. n \in Nodes /\ "N9" \in Nodes
    BY DEF Nodes
  <2>5. N4Edge(s) = IF Policy(a.call) = "none" THEN Goto(s, "N9") ELSE Goto(t, n)
    BY <1>2 DEF N4Edge
  <2> HIDE DEF a, t, n
  <2> QED
    BY <2>3, <2>4, <2>5, GotoType
<1> QED
  BY <1>1, <1>2

\* No edge adds an action or changes one (edges.ts:71-84).
LEMMA EdgeType ==
    ASSUME NEW s \in RunState
    PROVE  /\ Edge(s) \in RunState
           /\ Edge(s).actions \subseteq s.actions
<1>1. /\ N1Edge(s) \in Nodes /\ N2Edge(s) \in Nodes /\ N6Edge(s) \in Nodes
      /\ AfterExec(s) \in Nodes /\ N8Edge(s) \in Nodes
      /\ "N1" \in Nodes /\ "N10" \in Nodes /\ "DONE" \in Nodes
  BY DEF N1Edge, N2Edge, N6Edge, AfterExec, N8Edge, Nodes
<1>2. s.node \in Nodes
  BY DEF RunState
<1> QED
  BY <1>1, <1>2, GotoType, N3EdgeType, N4EdgeType DEF Edge, Nodes

----------------------------------------------------------------------------
(* The patches of the nodes keep the type of the run state.                *)

\* Merging actions into actions gives actions (graph.ts:91-99).
LEMMA MergeType ==
    ASSUME NEW current \in SUBSET Action, NEW patch \in SUBSET Action
    PROVE  MergeById(current, patch) \in SUBSET Action
BY DEF MergeById

\* A status change changes nothing else of an action (state.ts:42-57).
LEMMA StatusType ==
    ASSUME NEW a \in Action, NEW status \in Statuses
    PROVE  [a EXCEPT !.status = status] \in Action /\ [a EXCEPT !.status = status].status = status
BY DEF Action

\* Keeping the held call's id changes nothing else of an action (exec.ts:133-147).
LEMMA TokType ==
    ASSUME NEW a \in Action, NEW tok \in Nat
    PROVE  [a EXCEPT !.tok = tok] \in Action /\ [a EXCEPT !.tok = tok].tok = tok
BY DEF Action

\* An updated action replaces its old self only (graph.ts:91-109).
LEMMA UpdateType ==
    ASSUME NEW s \in RunState, NEW a \in Action
    PROVE  /\ Update(s, a) \in RunState
           /\ Update(s, a).actions \subseteq s.actions \cup {a}
<1>1. s.actions \in SUBSET Action /\ {a} \in SUBSET Action
  BY DEF RunState
<1>2. MergeById(s.actions, {a}) \in SUBSET Action
  BY <1>1, MergeType
<1>3. MergeById(s.actions, {a}) \subseteq s.actions \cup {a}
  BY DEF MergeById
<1> QED
  BY <1>2, <1>3, ActionsType DEF Update

\* Settling an action gives at most that action the status (exec.ts:39-46).
LEMMA SettledType ==
    ASSUME NEW s \in RunState, NEW a \in Action, NEW status \in Statuses
    PROVE  /\ Settled(s, a, status) \in RunState
           /\ \A b \in Settled(s, a, status).actions : b \in s.actions \/ b.status = status
<1> DEFINE b == [a EXCEPT !.status = status]
           u == Update(s, b)
<1>1. b \in Action /\ b.status = status
  BY StatusType
<1>2. u \in RunState /\ u.actions \subseteq s.actions \cup {b}
  <2> HIDE DEF b
  <2> QED
    BY <1>1, UpdateType
<1>3. Settled(s, a, status) = [u EXCEPT !.pending = 0]
  BY DEF Settled
<1> HIDE DEF b, u
<1> QED
  BY <1>1, <1>2, <1>3, PendingType

\* Superseded actions are skipped ones (plan.ts:208-213).
LEMMA SkipType ==
    ASSUME NEW as \in SUBSET Action
    PROVE  /\ Skip(as) \in SUBSET Action
           /\ \A b \in Skip(as) : b.status = "skipped"
<1>1. "skipped" \in Statuses
  BY DEF Statuses
<1>2. \A a \in as : /\ [a EXCEPT !.status = "skipped"] \in Action
                    /\ [a EXCEPT !.status = "skipped"].status = "skipped"
  BY <1>1, StatusType
<1> QED
  BY <1>2 DEF Skip

\* With the close-out a plan is still within ACTIONS_MAX (plan.ts:170-180).
LEMMA CloseoutType ==
    ASSUME NEW s \in RunState, NEW proposals \in Plans(s)
    PROVE  \E n \in 0 .. ACTIONS_MAX : WithCloseout(s, proposals) \in [1 .. n -> Calls]
<1> USE LimitsAssumption, RegistryAssumption
<1>1. Offerable(s) \subseteq Calls /\ Closeout \in Calls
  BY DEF Offerable, Registered, Calls
<1>2. PICK n \in 0 .. ACTIONS_MAX : proposals \in [1 .. n -> Offerable(s)]
  BY DEF Plans
<1>3. Len(proposals) = n
  BY <1>2
<1>4. CASE ~LacksCloseout(s, proposals)
  <2>1. proposals \in [1 .. n -> Calls]
    BY <1>1, <1>2
  <2> QED
    BY <1>4, <2>1 DEF WithCloseout
<1>5. CASE LacksCloseout(s, proposals)
  <2> DEFINE kept == IF Len(proposals) < ACTIONS_MAX THEN Len(proposals) ELSE ACTIONS_MAX - 1
             plan == [i \in 1 .. kept + 1 |-> IF i <= kept THEN proposals[i] ELSE Closeout]
  <2>1. kept \in 0 .. ACTIONS_MAX - 1 /\ kept <= n
    BY <1>2, <1>3
  <2>2. WithCloseout(s, proposals) = plan
    BY <1>5 DEF WithCloseout
  <2> HIDE DEF kept
  <2>3. \A i \in 1 .. kept : proposals[i] \in Calls
    BY <1>1, <1>2, <2>1
  <2>4. plan \in [1 .. kept + 1 -> Calls]
    BY <1>1, <2>1, <2>3
  <2>5. kept + 1 \in 0 .. ACTIONS_MAX
    BY <2>1
  <2> QED
    BY <2>2, <2>4, <2>5
<1> QED
  BY <1>4, <1>5

\* A plan becomes proposed actions with legal ranks (plan.ts:183-201).
LEMMA NewActionsType ==
    ASSUME NEW n \in 0 .. ACTIONS_MAX, NEW plan \in [1 .. n -> Calls],
           NEW ids \in [DOMAIN plan -> ActionIds]
    PROVE  /\ NewActions(plan, ids) \in SUBSET Action
           /\ \A b \in NewActions(plan, ids) : b.status = "proposed"
<1> USE LimitsAssumption
<1>1. ASSUME NEW i \in DOMAIN plan
      PROVE  /\ ids[i] \in ActionIds /\ plan[i] \in Calls /\ i \in 1 .. ACTIONS_MAX
             /\ "proposed" \in Statuses /\ 0 \in Nat
  BY DEF Statuses
<1> QED
  BY <1>1 DEF NewActions, Action

\* N3 approves nothing: what it adds is proposed or skipped (plan.ts:202-228).
LEMMA PlannedType ==
    ASSUME NEW s \in RunState, NEW n \in 0 .. ACTIONS_MAX, NEW plan \in [1 .. n -> Calls],
           NEW ids \in [DOMAIN plan -> ActionIds]
    PROVE  /\ Planned(s, plan, ids) \in RunState
           /\ \A b \in Planned(s, plan, ids).actions :
                 b \in s.actions \/ b.status \in {"skipped", "proposed"}
<1> DEFINE superseded == IF plan = <<>> THEN {} ELSE Skip(Proposed(s))
           new   == NewActions(plan, ids)
           patch == superseded \cup new
           as    == MergeById(s.actions, patch)
<1>1. s.actions \in SUBSET Action /\ Proposed(s) \in SUBSET Action
  BY DEF RunState, Proposed, WithStatus
<1>2. superseded \in SUBSET Action /\ \A b \in superseded : b.status = "skipped"
  BY <1>1, SkipType
<1>3. new \in SUBSET Action /\ \A b \in new : b.status = "proposed"
  BY NewActionsType
<1> HIDE DEF superseded, new
<1>4. patch \in SUBSET Action /\ \A b \in patch : b.status \in {"skipped", "proposed"}
  BY <1>2, <1>3
<1>5. Planned(s, plan, ids) = [s EXCEPT !.actions = as]
  BY DEF Planned, superseded, new
<1> HIDE DEF patch
<1>6. as \in SUBSET Action
  BY <1>1, <1>4, MergeType
<1>7. \A b \in as : b \in s.actions \/ b \in patch
  BY DEF MergeById
<1> HIDE DEF as
<1>8. [s EXCEPT !.actions = as] \in RunState /\ [s EXCEPT !.actions = as].actions = as
  BY <1>6, ActionsType
<1>9. Planned(s, plan, ids) \in RunState /\ Planned(s, plan, ids).actions = as
  BY <1>5, <1>8
<1> QED
  BY <1>4, <1>7, <1>9

\* A plan that does not parse only skips actions (plan.ts:148-160).
LEMMA UnplannedType ==
    ASSUME NEW s \in RunState
    PROVE  /\ Unplanned(s) \in RunState
           /\ \A b \in Unplanned(s).actions : b \in s.actions \/ b.status = "skipped"
<1> DEFINE patch == Skip(Proposed(s))
           as    == MergeById(s.actions, patch)
<1>1. s.actions \in SUBSET Action /\ Proposed(s) \in SUBSET Action
  BY DEF RunState, Proposed, WithStatus
<1>2. patch \in SUBSET Action /\ \A b \in patch : b.status = "skipped"
  BY <1>1, SkipType
<1>3. Unplanned(s) = [s EXCEPT !.actions = as]
  BY DEF Unplanned
<1> HIDE DEF patch
<1>4. as \in SUBSET Action
  BY <1>1, <1>2, MergeType
<1>5. \A b \in as : b \in s.actions \/ b \in patch
  BY DEF MergeById
<1> HIDE DEF as
<1> QED
  BY <1>2, <1>3, <1>4, <1>5, ActionsType

----------------------------------------------------------------------------
(* The inductive invariant.  An approved action, in memory or in the last  *)
(* checkpoint, names a held call that a human has allowed; an answer is    *)
(* given once, to the newest call, and to a call that was shown as it is.  *)

Backed(as) ==
    \A a \in as : a.status = "approved" =>
        a.tok \in DOMAIN calls /\ calls[a.tok].answer = "allow"

ApprovalsBacked ==
    /\ Backed(st.actions)
    /\ disk # <<>> => Backed(disk[1].run.actions)

AskedFresh ==
    phase = "asked" =>
        /\ calls # <<>>
        /\ calls[Len(calls)].answer = "none"
        /\ calls[Len(calls)].state = "held"
        /\ Bridge = "web" => calls[Len(calls)].shown = calls[Len(calls)].call

AnsweredAsShown ==
    Bridge = "web" =>
        \A t \in DOMAIN calls : calls[t].answer # "none" => calls[t].shown = calls[t].call

FiredAllowed ==
    \A t \in DOMAIN calls : calls[t].state = "fired" => calls[t].answer = "allow"

HeldInv == TypeOK /\ ApprovalsBacked /\ AskedFresh /\ AnsweredAsShown /\ FiredAllowed

(* A question that outlived its node is unanswered, and the run has come   *)
(* to its end, in memory and in the checkpoint that a resume starts from:  *)
(* nobody asks, lets go or refuses beside it.                              *)

Ended == {"N9", "N10", "DONE"}

Polled ==
    /\ \A t \in polling :
          /\ calls[t].answer = "none"
          /\ Bridge = "web" => calls[t].shown = calls[t].call
    /\ polling # {} => st.node \in Ended /\ disk # <<>> /\ disk[1].run.node \in Ended
    /\ phase \in {"asked", "answered"} => st.node = "N6"

IInv == HeldInv /\ Polled

Checkpoints == [run: RunState, spent: 0 .. RUN_TIMEOUT]

\* A checkpoint holds the run state it is given (checkpoint.ts:54-64).
LEMMA SaveType ==
    ASSUME NEW s \in RunState, meter \in 0 .. RUN_TIMEOUT, Save(s)
    PROVE  /\ disk' \in Seq(Checkpoints) /\ Len(disk') <= 1
           /\ disk'[1].run = s
<1> DEFINE d == [run |-> s, spent |-> meter]
<1>1. d \in Checkpoints /\ d.run = s
  BY DEF Checkpoints
<1>2. disk' = <<d>>
  BY DEF Save
<1> HIDE DEF d
<1> QED
  BY <1>1, <1>2

\* A pass that patches the state to one with backed approvals and touches no
\* call keeps the invariant (incident.ts:212-217).
LEMMA FinishInv ==
    ASSUME HeldInv, NEW s \in RunState, Backed(s.actions), Finish(s),
           calls' = calls, paged' \in BOOLEAN
    PROVE  HeldInv'
<1> DEFINE next == Edge(s)
<1>1. next \in RunState /\ next.actions \subseteq s.actions
  BY EdgeType
<1>2. st' = next /\ Save(next) /\ phase' = "head" /\ proc' \in {"running", "stopped"}
      /\ meter' = meter /\ until' = until /\ failures' = failures /\ polling' = polling
  BY DEF Finish
<1> HIDE DEF next
<1>3. disk' \in Seq(Checkpoints) /\ Len(disk') <= 1 /\ disk'[1].run = next
  BY <1>1, <1>2, SaveType DEF HeldInv, TypeOK
<1>4. TypeOK'
  BY <1>1, <1>2, <1>3 DEF HeldInv, TypeOK, Phases, Checkpoints
<1>5. ApprovalsBacked'
  BY <1>1, <1>2, <1>3 DEF ApprovalsBacked, Backed
<1>6. AskedFresh' /\ AnsweredAsShown' /\ FiredAllowed'
  BY <1>2 DEF HeldInv, AskedFresh, AnsweredAsShown, FiredAllowed
<1> QED
  BY <1>4, <1>5, <1>6 DEF HeldInv

\* Replacing one held call leaves the others as they are.
LEMMA CallUpdate ==
    ASSUME NEW q \in Seq(HeldCall), NEW i \in 1 .. Len(q), NEW h \in HeldCall
    PROVE  /\ [q EXCEPT ![i] = h] \in Seq(HeldCall)
           /\ Len([q EXCEPT ![i] = h]) = Len(q)
           /\ DOMAIN [q EXCEPT ![i] = h] = DOMAIN q
           /\ \A j \in DOMAIN q : [q EXCEPT ![i] = h][j] = IF j = i THEN h ELSE q[j]
OBVIOUS

\* A new held call leaves the earlier ones as they are.
LEMMA CallAppend ==
    ASSUME NEW q \in Seq(HeldCall), NEW h \in HeldCall
    PROVE  /\ Append(q, h) \in Seq(HeldCall)
           /\ Len(Append(q, h)) = Len(q) + 1
           /\ DOMAIN Append(q, h) = DOMAIN q \cup {Len(q) + 1}
           /\ Append(q, h)[Len(q) + 1] = h
           /\ \A j \in DOMAIN q : Append(q, h)[j] = q[j]
OBVIOUS

\* The invariant holds when a run starts (incident.ts:55-106).
LEMMA InitInv == Init => IInv
<1> SUFFICES ASSUME Init PROVE IInv
  OBVIOUS
<1>1. InitialState \in RunState /\ InitialState.actions = {}
  BY DEF InitialState, RunState, Nodes, Incidents
<1>2. TypeOK
  <2>1. calls \in Seq(HeldCall)
    BY DEF Init
  <2>2. disk \in Seq([run: RunState, spent: 0 .. RUN_TIMEOUT]) /\ Len(disk) <= 1
    BY DEF Init
  <2>3. meter \in 0 .. RUN_TIMEOUT /\ failures \in 0 .. MaxFailures
    BY ControllerAssumption DEF Init
  <2> QED
    BY <1>1, <2>1, <2>2, <2>3 DEF Init, TypeOK, Phases
<1>3. ApprovalsBacked /\ AskedFresh /\ AnsweredAsShown /\ FiredAllowed
  BY <1>1 DEF Init, ApprovalsBacked, Backed, AskedFresh, AnsweredAsShown, FiredAllowed
<1>4. Polled
  BY DEF Init, Polled
<1> QED
  BY <1>2, <1>3, <1>4 DEF IInv, HeldInv

----------------------------------------------------------------------------
(* The loop, the clock, failures and the operator.                         *)

\* A step that changes no call, and no action in memory or on disk except
\* by saving or loading the whole run state.
LEMMA SameCalls ==
    ASSUME HeldInv, TypeOK', calls' = calls, phase' # "asked",
           Backed(st'.actions),
           disk' # <<>> => Backed(disk'[1].run.actions)
    PROVE  HeldInv'
BY DEF HeldInv, ApprovalsBacked, Backed, AskedFresh, AnsweredAsShown, FiredAllowed

\* The escalation of a spent budget keeps the invariant (incident.ts:198-210).
LEMMA EscalateTimeoutInv ==
    ASSUME HeldInv, EscalateTimeout, polling' \subseteq DOMAIN calls
    PROVE  HeldInv'
<1> DEFINE next == [st EXCEPT !.node = "N9", !.outcome = "escalated"]
<1>1. next \in RunState /\ next.actions = st.actions
  BY DEF HeldInv, TypeOK, RunState, Nodes
<1>2. /\ st' = next /\ Save(next) /\ proc' = "stopped" /\ phase' = "head"
      /\ UNCHANGED <<meter, until, calls, paged, failures>>
  BY DEF EscalateTimeout
<1> HIDE DEF next
<1>3. disk' \in Seq(Checkpoints) /\ Len(disk') <= 1 /\ disk'[1].run = next
  BY <1>1, <1>2, SaveType DEF HeldInv, TypeOK
<1>4. TypeOK'
  BY <1>1, <1>2, <1>3 DEF HeldInv, TypeOK, Phases, Checkpoints
<1>5. Backed(next.actions)
  BY <1>1 DEF HeldInv, ApprovalsBacked, Backed
<1> QED
  BY <1>2, <1>3, <1>4, <1>5, SameCalls

\* The head of the loop and the node timer keep the invariant (incident.ts:132-226).
LEMMA LoopInv ==
    ASSUME HeldInv, Loop
    PROVE  HeldInv'
<1>1. CASE LoopDone
  <2>1. TypeOK' /\ calls' = calls /\ phase' = "head"
    BY <1>1 DEF HeldInv, TypeOK, LoopDone, In
  <2> QED
    BY <1>1, <2>1, SameCalls DEF LoopDone, HeldInv, ApprovalsBacked
<1>2. CASE LoopEnter
  <2>1. TypeOK' /\ calls' = calls /\ phase' = "node"
    BY <1>2 DEF HeldInv, TypeOK, LoopEnter, Phases
  <2> QED
    BY <1>2, <2>1, SameCalls DEF LoopEnter, HeldInv, ApprovalsBacked
<1>3. CASE LoopTimeout \/ NodeTimeout
  <2>1. EscalateTimeout /\ polling' \subseteq DOMAIN calls
    BY <1>3 DEF LoopTimeout, NodeTimeout, HeldInv, TypeOK
  <2> QED
    BY <2>1, EscalateTimeoutInv
<1> QED
  BY <1>1, <1>2, <1>3 DEF Loop

\* The passing of time keeps the invariant (incident.ts:98-106).
LEMMA TickInv ==
    ASSUME HeldInv, Tick
    PROVE  HeldInv'
<1>1. TypeOK'
  BY ControllerAssumption DEF HeldInv, TypeOK, Tick
<1> QED
  BY <1>1 DEF Tick, HeldInv, ApprovalsBacked, Backed, AskedFresh, AnsweredAsShown, FiredAllowed

\* A crash keeps the invariant (cli.ts:134-158).
LEMMA DieInv ==
    ASSUME HeldInv, Die
    PROVE  HeldInv'
<1>1. TypeOK'
  BY ControllerAssumption DEF HeldInv, TypeOK, Die
<1> QED
  BY <1>1 DEF Die, HeldInv, ApprovalsBacked, Backed, AskedFresh, AnsweredAsShown, FiredAllowed

\* A timeout of N9 or N10 keeps the invariant (incident.ts:184-197).
LEMMA TerminalTimeoutInv ==
    ASSUME HeldInv, TerminalTimeout
    PROVE  HeldInv'
<1>1. Save(st) /\ st \in RunState /\ meter \in 0 .. RUN_TIMEOUT
  BY DEF TerminalTimeout, HeldInv, TypeOK
<1>2. disk' \in Seq(Checkpoints) /\ Len(disk') <= 1 /\ disk'[1].run = st
  BY <1>1, SaveType
<1>3. failures' \in 0 .. MaxFailures
  BY ControllerAssumption DEF HeldInv, TypeOK, TerminalTimeout
<1>4. TypeOK'
  BY <1>2, <1>3 DEF HeldInv, TypeOK, TerminalTimeout, Phases, Checkpoints
<1> QED
  BY <1>2, <1>4, SameCalls DEF TerminalTimeout, HeldInv, ApprovalsBacked

\* A resume, from the checkpoint or from nothing, keeps the invariant (cli.ts:46-82).
LEMMA OperatorInv ==
    ASSUME HeldInv, Operator
    PROVE  HeldInv'
<1>1. CASE Resume
  <2>1. disk[1] \in Checkpoints
    <3>1. disk \in Seq(Checkpoints) /\ disk # <<>>
      BY <1>1 DEF Resume, HeldInv, TypeOK, Checkpoints
    <3>2. Len(disk) \in Nat /\ Len(disk) # 0
      BY <3>1, EmptySeq
    <3> QED
      BY <3>1, <3>2
  <2>2. TypeOK'
    BY <1>1, <2>1 DEF Resume, HeldInv, TypeOK, Phases, Checkpoints
  <2> QED
    BY <1>1, <2>2, SameCalls DEF Resume, HeldInv, ApprovalsBacked
<1>2. CASE StartOver
  <2>1. InitialState \in RunState /\ InitialState.actions = {}
    BY DEF InitialState, RunState, Nodes, Incidents
  <2>2. TypeOK'
    BY <1>2, <2>1, ControllerAssumption DEF StartOver, HeldInv, TypeOK, Phases
  <2> QED
    BY <1>2, <2>1, <2>2, SameCalls DEF StartOver, Backed
<1> QED
  BY <1>1, <1>2 DEF Operator

----------------------------------------------------------------------------
(* The nodes.                                                              *)

\* A pass that ends in a patch without an action of its own.
LEMMA FinishSame ==
    ASSUME HeldInv, NEW s \in RunState, s.actions = st.actions, Finish(s),
           calls' = calls, paged' \in BOOLEAN
    PROVE  HeldInv'
<1>1. Backed(s.actions)
  BY DEF HeldInv, ApprovalsBacked, Backed
<1> QED
  BY <1>1, FinishInv

\* A pass that ends in a patch which approves nothing.
LEMMA FinishUnapproved ==
    ASSUME HeldInv, NEW s \in RunState,
           \A b \in s.actions : b \in st.actions \/ b.status # "approved",
           Finish(s), calls' = calls, paged' \in BOOLEAN
    PROVE  HeldInv'
<1>1. Backed(s.actions)
  BY DEF HeldInv, ApprovalsBacked, Backed
<1> QED
  BY <1>1, FinishInv

\* N0, N1 and N2 keep the invariant (watch.ts, triage.ts, enrich.ts).
LEMMA IntakeInv ==
    ASSUME HeldInv, Intake
    PROVE  HeldInv'
<1> USE DEF HeldInv, TypeOK
<1>1. CASE Watch
  BY <1>1, FinishSame DEF Watch
<1>2. CASE TriageOk
  <2>1. PICK incident \in Incidents \ {"none"} :
          Finish([st EXCEPT !.session = TRUE, !.incident = incident])
    BY <1>2 DEF TriageOk
  <2> DEFINE s == [st EXCEPT !.session = TRUE, !.incident = incident]
  <2>2. s \in RunState /\ s.actions = st.actions
    BY DEF RunState
  <2> HIDE DEF s
  <2>3. Finish(s)
    BY <2>1 DEF s
  <2> QED
    BY <1>2, <2>2, <2>3, FinishSame DEF TriageOk
<1>3. CASE TriageUnparsed
  <2> DEFINE n == st.parseRetries + 1
             s == [st EXCEPT !.session = TRUE, !.parseRetries = n]
  <2>1. n \in Nat
    BY DEF RunState
  <2>2. Finish(s)
    BY <1>3 DEF TriageUnparsed
  <2> HIDE DEF n
  <2>3. s \in RunState /\ s.actions = st.actions
    BY <2>1 DEF RunState
  <2> HIDE DEF s
  <2> QED
    BY <1>3, <2>2, <2>3, FinishSame DEF TriageUnparsed
<1>4. CASE EnrichUnparsed
  <2> DEFINE layers == IF st.n2errors + 1 >= PARSE_RETRIES_MAX THEN Required ELSE st.layers
             n == st.parseRetries + 1
             m == st.n2errors + 1
             s == [st EXCEPT !.parseRetries = n, !.n2errors = m, !.layers = layers]
  <2>1. layers \in SUBSET Required /\ n \in Nat /\ m \in Nat
    BY DEF RunState
  <2>2. Finish(s)
    BY <1>4 DEF EnrichUnparsed
  <2> HIDE DEF layers, n, m
  <2>3. s \in RunState /\ s.actions = st.actions
    BY <2>1 DEF RunState
  <2> HIDE DEF s
  <2> QED
    BY <1>4, <2>2, <2>3, FinishSame DEF EnrichUnparsed
<1>5. CASE EnrichFanoutLow
  <2> DEFINE s == [st EXCEPT !.marks = @ \cup {"subagent_count_low"}]
  <2>1. s \in RunState /\ s.actions = st.actions
    BY DEF RunState, Marks
  <2>2. Finish(s)
    BY <1>5 DEF EnrichFanoutLow
  <2> HIDE DEF s
  <2> QED
    BY <1>5, <2>1, <2>2, FinishSame DEF EnrichFanoutLow
<1>6. CASE EnrichAnswered
  <2>1. PICK present \in SUBSET Required :
          Finish([st EXCEPT
            !.marks = @ \cup (IF present = Required THEN {} ELSE {"enrich_missing_layers"}),
            !.layers = IF present = Required \/ st.marks # {} THEN Required ELSE @])
    BY <1>6 DEF EnrichAnswered
  <2> DEFINE marks  == st.marks \cup
                         (IF present = Required THEN {} ELSE {"enrich_missing_layers"})
             layers == IF present = Required \/ st.marks # {} THEN Required ELSE st.layers
             s      == [st EXCEPT !.marks = marks, !.layers = layers]
  <2>2. marks \in SUBSET Marks /\ layers \in SUBSET Required
    BY DEF RunState, Marks
  <2>3. Finish(s)
    BY <2>1
  <2> HIDE DEF marks, layers
  <2>4. s \in RunState /\ s.actions = st.actions
    BY <2>2 DEF RunState
  <2> HIDE DEF s
  <2> QED
    BY <1>6, <2>3, <2>4, FinishSame DEF EnrichAnswered
<1> QED
  BY <1>1, <1>2, <1>3, <1>4, <1>5, <1>6 DEF Intake

\* N9 and N10 keep the invariant (incident.ts:156-163, escalate.ts, report.ts).
LEMMA EndingInv ==
    ASSUME HeldInv, Ending
    PROVE  HeldInv'
<1> USE DEF HeldInv, TypeOK
<1>1. CASE OpenSession
  <2> DEFINE s == [st EXCEPT !.session = TRUE]
  <2>1. s \in RunState /\ s.actions = st.actions
    BY DEF RunState
  <2>2. st' = s /\ disk' = <<[run |-> s, spent |-> meter]>>
        /\ UNCHANGED <<meter, until, proc, phase, calls, polling, paged, failures>> /\ phase = "node"
    BY <1>1 DEF OpenSession, Save, In
  <2> HIDE DEF s
  <2>3. Save(s)
    BY <2>2 DEF Save
  <2>4. disk' \in Seq(Checkpoints) /\ Len(disk') <= 1 /\ disk'[1].run = s
    BY <2>1, <2>3, SaveType
  <2>5. TypeOK'
    BY <2>1, <2>2, <2>4 DEF Checkpoints
  <2> QED
    BY <2>1, <2>2, <2>4, <2>5, SameCalls DEF ApprovalsBacked, Backed
<1>2. CASE Page
  <2>1. TypeOK'
    BY <1>2 DEF Page, Phases
  <2> QED
    BY <1>2, <2>1, SameCalls DEF Page, ApprovalsBacked
<1>3. CASE Escalate
  <2> DEFINE s == [st EXCEPT !.outcome = "escalated"]
  <2>1. s \in RunState /\ s.actions = st.actions
    BY DEF RunState
  <2>2. Finish(s)
    BY <1>3 DEF Escalate
  <2> HIDE DEF s
  <2> QED
    BY <1>3, <2>1, <2>2, FinishSame DEF Escalate
<1>4. CASE Report
  BY <1>4, FinishSame DEF Report
<1> QED
  BY <1>1, <1>2, <1>3, <1>4 DEF Ending

\* Planning, routing, safe execution and verification approve nothing.
LEMMA PlanInv ==
    ASSUME HeldInv, Plan
    PROVE  HeldInv'
<1> USE DEF HeldInv, TypeOK
<1>1. PICK proposals \in Plans(st) :
        \E ids \in [DOMAIN WithCloseout(st, proposals) -> ActionIds] :
            Finish(Planned(st, WithCloseout(st, proposals), ids))
  BY DEF Plan
<1>2. PICK n \in 0 .. ACTIONS_MAX : WithCloseout(st, proposals) \in [1 .. n -> Calls]
  BY CloseoutType
<1> DEFINE plan == WithCloseout(st, proposals)
<1>3. PICK ids \in [DOMAIN plan -> ActionIds] : Finish(Planned(st, plan, ids))
  BY <1>1
<1> HIDE DEF plan
<1>4. plan \in [1 .. n -> Calls]
  BY <1>2 DEF plan
<1>5. /\ Planned(st, plan, ids) \in RunState
      /\ \A b \in Planned(st, plan, ids).actions :
            b \in st.actions \/ b.status \in {"skipped", "proposed"}
  BY <1>3, <1>4, PlannedType
<1>6. \A b \in Planned(st, plan, ids).actions : b \in st.actions \/ b.status # "approved"
  BY <1>5
<1> QED
  BY <1>3, <1>5, <1>6, FinishUnapproved DEF Plan

\* A plan that does not parse keeps the invariant (plan.ts:148-160).
LEMMA PlanUnparsedInv ==
    ASSUME HeldInv, PlanUnparsed
    PROVE  HeldInv'
<1>1. /\ Unplanned(st) \in RunState
      /\ \A b \in Unplanned(st).actions : b \in st.actions \/ b.status = "skipped"
  BY UnplannedType DEF HeldInv, TypeOK
<1>2. \A b \in Unplanned(st).actions : b \in st.actions \/ b.status # "approved"
  BY <1>1
<1>3. paged' \in BOOLEAN
  BY DEF HeldInv, TypeOK, PlanUnparsed
<1> QED
  BY <1>1, <1>2, <1>3, FinishUnapproved DEF PlanUnparsed

\* N4 keeps the invariant (route.ts:5-23).
LEMMA RouteInv ==
    ASSUME HeldInv, Route
    PROVE  HeldInv'
<1> DEFINE a == CHOOSE b \in FirstRanked(Proposed(st)) : TRUE
           s == RouteFirst(st)
<1>1. st \in RunState /\ Finish(s) /\ calls' = calls /\ paged' \in BOOLEAN
  BY DEF HeldInv, TypeOK, Route
<1>2. CASE FirstRanked(Proposed(st)) = {}
  BY <1>1, <1>2, FinishSame DEF RouteFirst
<1>3. CASE FirstRanked(Proposed(st)) # {}
  <2>1. a \in st.actions
    BY <1>3 DEF FirstRanked, Proposed, WithStatus
  <2>2. a.id \in ActionIds \cup {0}
    BY <1>1, <2>1 DEF RunState, Action
  <2>3. s = [st EXCEPT !.pending = a.id]
    BY <1>3 DEF RouteFirst
  <2> HIDE DEF a, s
  <2>4. s \in RunState /\ s.actions = st.actions
    BY <1>1, <2>2, <2>3, PendingType
  <2> QED
    BY <1>1, <2>4, FinishSame
<1> QED
  BY <1>2, <1>3

\* What is found by its id is an action of the run (exec.ts:31-37).
LEMMA ByIdType ==
    ASSUME NEW s \in RunState, NEW i, NEW a \in ById(s, i)
    PROVE  a \in Action /\ a \in s.actions
BY DEF ById, RunState

\* N5 and the record of N7 keep the invariant (exec.ts:55-86, 171-178).
LEMMA ExecInv ==
    ASSUME HeldInv, ExecSafe \/ ExecDestructive
    PROVE  HeldInv'
<1>1. /\ st \in RunState /\ calls' = calls /\ paged' \in BOOLEAN
      /\ \E a \in ById(st, st.pending), status \in {"executed", "failed"} :
            Finish(Settled(st, a, status))
  BY DEF HeldInv, TypeOK, ExecSafe, ExecDestructive
<1>2. PICK a \in ById(st, st.pending), status \in {"executed", "failed"} :
        Finish(Settled(st, a, status))
  BY <1>1
<1>3. a \in Action /\ status \in Statuses /\ status # "approved"
  BY <1>1, ByIdType DEF Statuses
<1>4. /\ Settled(st, a, status) \in RunState
      /\ \A b \in Settled(st, a, status).actions : b \in st.actions \/ b.status # "approved"
  BY <1>1, <1>3, SettledType
<1> QED
  BY <1>1, <1>2, <1>4, FinishUnapproved

\* N8 keeps the invariant (verify.ts:83-140).
LEMMA VerifyInv ==
    ASSUME HeldInv, Verify
    PROVE  HeldInv'
<1>1. PICK outcome \in {"none", "recovered"} :
        Finish([st EXCEPT !.outcome = outcome, !.verifyAttempts = @ + 1])
  BY DEF Verify
<1> DEFINE n == st.verifyAttempts + 1
           s == [st EXCEPT !.outcome = outcome, !.verifyAttempts = n]
<1>2. n \in Nat
  BY DEF HeldInv, TypeOK, RunState
<1>3. Finish(s)
  BY <1>1
<1> HIDE DEF n
<1>4. s \in RunState /\ s.actions = st.actions
  BY <1>2 DEF HeldInv, TypeOK, RunState
<1>5. calls' = calls /\ paged' \in BOOLEAN
  BY DEF HeldInv, TypeOK, Verify
<1> HIDE DEF s
<1> QED
  BY <1>3, <1>4, <1>5, FinishSame

\* A new held call moves no earlier one; it is unanswered.
LEMMA HoldInv ==
    ASSUME HeldInv, NEW h \in HeldCall, h.answer = "none", h.state = "held",
           calls' = Append(calls, h), TypeOK', st' = st, disk' = disk,
           phase' = "asked" => (Bridge = "web" => h.shown = h.call)
    PROVE  HeldInv'
<1>1. calls \in Seq(HeldCall) /\ Len(calls) \in Nat
  BY DEF HeldInv, TypeOK
<1>2. /\ Len(calls') = Len(calls) + 1
      /\ DOMAIN calls' = DOMAIN calls \cup {Len(calls) + 1}
      /\ calls'[Len(calls) + 1] = h
      /\ \A j \in DOMAIN calls : calls'[j] = calls[j]
  BY <1>1, CallAppend
<1>3. ApprovalsBacked'
  BY <1>2 DEF HeldInv, ApprovalsBacked, Backed
<1>4. calls' # <<>>
  BY <1>1
<1>5. AskedFresh'
  BY <1>2, <1>4 DEF AskedFresh
<1>6. AnsweredAsShown' /\ FiredAllowed'
  BY <1>2 DEF HeldInv, AnsweredAsShown, FiredAllowed
<1> QED
  BY <1>3, <1>5, <1>6 DEF HeldInv

\* A call that is held keeps the invariant, compared or not (exec.ts:88-122).
LEMMA AskHumanInv ==
    ASSUME HeldInv, AskHuman \/ HeldUnplanned
    PROVE  HeldInv'
<1>1. PICK a \in ById(st, st.pending), held \in Destructive :
        /\ a.call \in Destructive
        /\ calls' = Append(calls, [call |-> held, shown |-> a.call,
                                   answer |-> "none", state |-> "held"])
        /\ AskHuman => Comparable(held, a)
  BY DEF AskHuman, HeldUnplanned
<1> DEFINE h == [call |-> held, shown |-> a.call, answer |-> "none", state |-> "held"]
<1>2. h \in HeldCall /\ h.answer = "none" /\ h.state = "held"
  BY <1>1 DEF HeldCall
<1>3. AskHuman => (Bridge = "web" => h.shown = h.call)
  BY <1>1 DEF Comparable
<1>4. calls' = Append(calls, h)
  BY <1>1
<1> HIDE DEF h
<1>5. calls' \in Seq(HeldCall)
  BY <1>2, <1>4, CallAppend DEF HeldInv, TypeOK
<1>6. TypeOK' /\ st' = st /\ disk' = disk
  <2>1. DOMAIN calls \subseteq DOMAIN calls'
    BY <1>2, <1>4, CallAppend DEF HeldInv, TypeOK
  <2>2. polling' \subseteq DOMAIN calls'
    BY <2>1 DEF HeldInv, TypeOK, AskHuman, HeldUnplanned
  <2> QED
    BY <1>5, <2>2, ControllerAssumption DEF HeldInv, TypeOK, AskHuman, HeldUnplanned, Phases
<1>7. phase' = "asked" => AskHuman
  BY DEF HeldUnplanned, In
<1> QED
  BY <1>2, <1>3, <1>4, <1>6, <1>7, HoldInv

\* The newest call is there to be answered.
LEMMA NewestCall ==
    ASSUME TypeOK, calls # <<>>
    PROVE  /\ Len(calls) \in DOMAIN calls /\ Len(calls) \in 1 .. Len(calls)
           /\ calls[Len(calls)] \in HeldCall
<1>1. calls \in Seq(HeldCall)
  BY DEF TypeOK
<1>2. Len(calls) \in Nat \ {0}
  BY <1>1, EmptySeq
<1> QED
  BY <1>1, <1>2

\* An answer keeps the invariant: the call was shown as it is (approval.ts:130-176).
LEMMA AnswerInv ==
    ASSUME HeldInv, Answer
    PROVE  HeldInv'
<1> DEFINE n == Len(calls)
<1>1. PICK answer \in {"allow", "deny", "timeout"} :
        calls' = [calls EXCEPT ![n].answer = answer]
  BY DEF Answer
<1> DEFINE h == [calls[n] EXCEPT !.answer = answer]
<1>2. /\ calls # <<>> /\ calls[n].answer = "none" /\ calls[n].state = "held"
      /\ Bridge = "web" => calls[n].shown = calls[n].call
  BY DEF HeldInv, AskedFresh, Answer, In
<1>3. calls \in Seq(HeldCall) /\ n \in 1 .. Len(calls) /\ n \in DOMAIN calls /\ calls[n] \in HeldCall
  BY <1>2, NewestCall DEF HeldInv, TypeOK
<1>4. /\ h \in HeldCall /\ h.answer = answer /\ h.state = "held"
      /\ h.shown = calls[n].shown /\ h.call = calls[n].call
  BY <1>2, <1>3 DEF HeldCall
<1>5. calls' = [calls EXCEPT ![n] = h]
  BY <1>1
<1> HIDE DEF h, n
<1>6. /\ calls' \in Seq(HeldCall) /\ DOMAIN calls' = DOMAIN calls
      /\ \A j \in DOMAIN calls : calls'[j] = IF j = n THEN h ELSE calls[j]
  BY <1>3, <1>4, <1>5, CallUpdate
<1>7. st' = st /\ disk' = disk /\ phase' = "answered"
  BY DEF Answer
<1>8. TypeOK'
  BY <1>6 DEF HeldInv, TypeOK, Answer, Phases
<1>9. ApprovalsBacked'
  BY <1>2, <1>6, <1>7 DEF HeldInv, ApprovalsBacked, Backed
<1>10. AskedFresh'
  BY <1>7 DEF AskedFresh
<1>11. AnsweredAsShown'
  BY <1>2, <1>4, <1>6 DEF HeldInv, AnsweredAsShown
<1>12. FiredAllowed'
  BY <1>4, <1>6 DEF HeldInv, FiredAllowed
<1> QED
  BY <1>8, <1>9, <1>10, <1>11, <1>12 DEF HeldInv

\* Letting a call go or refusing it leaves its answer as it is.
LEMMA ResolveInv ==
    ASSUME HeldInv, NEW i \in DOMAIN calls, NEW result \in {"fired", "refused"},
           calls' = [calls EXCEPT ![i].state = result],
           result = "fired" => calls[i].answer = "allow",
           TypeOK', st' = st, disk' = disk, phase' # "asked"
    PROVE  HeldInv'
<1> DEFINE h == [calls[i] EXCEPT !.state = result]
<1>1. calls \in Seq(HeldCall) /\ i \in 1 .. Len(calls) /\ calls[i] \in HeldCall
  BY DEF HeldInv, TypeOK
<1>2. /\ h \in HeldCall /\ h.state = result /\ h.answer = calls[i].answer
      /\ h.shown = calls[i].shown /\ h.call = calls[i].call
  BY <1>1 DEF HeldCall
<1>3. calls' = [calls EXCEPT ![i] = h]
  OBVIOUS
<1> HIDE DEF h
<1>4. /\ DOMAIN calls' = DOMAIN calls
      /\ \A j \in DOMAIN calls : calls'[j] = IF j = i THEN h ELSE calls[j]
  BY <1>1, <1>2, <1>3, CallUpdate
<1>5. ApprovalsBacked'
  BY <1>2, <1>4 DEF HeldInv, ApprovalsBacked, Backed
<1>6. AskedFresh'
  BY DEF AskedFresh
<1>7. AnsweredAsShown'
  BY <1>2, <1>4 DEF HeldInv, AnsweredAsShown
<1>8. FiredAllowed'
  BY <1>2, <1>4 DEF HeldInv, FiredAllowed
<1> QED
  BY <1>5, <1>6, <1>7, <1>8 DEF HeldInv

\* A call let go or refused is still a held call's record.
LEMMA ResolveType ==
    ASSUME TypeOK, NEW i \in DOMAIN calls, NEW result \in {"fired", "refused"}
    PROVE  [calls EXCEPT ![i].state = result] \in Seq(HeldCall)
<1> DEFINE h == [calls[i] EXCEPT !.state = result]
<1>1. calls \in Seq(HeldCall) /\ i \in 1 .. Len(calls) /\ calls[i] \in HeldCall
  BY DEF TypeOK
<1>2. h \in HeldCall
  BY <1>1 DEF HeldCall
<1>3. [calls EXCEPT ![i].state = result] = [calls EXCEPT ![i] = h]
  OBVIOUS
<1> HIDE DEF h
<1> QED
  BY <1>1, <1>2, <1>3, CallUpdate

\* Passing on a refusal keeps the invariant (exec.ts:124-132).
LEMMA RefuseInv ==
    ASSUME HeldInv, Refuse
    PROVE  HeldInv'
<1>1. /\ Len(calls) \in DOMAIN calls /\ phase' = "answered"
      /\ calls' = [calls EXCEPT ![Len(calls)].state = "refused"]
      /\ st' = st /\ disk' = disk
  BY NewestCall DEF HeldInv, Refuse, In
<1>2. calls' \in Seq(HeldCall)
  BY <1>1, ResolveType DEF HeldInv
<1>3. TypeOK'
  BY <1>2 DEF HeldInv, TypeOK, Refuse
<1> QED
  BY <1>1, <1>3, ResolveInv

\* Letting go a call that was allowed keeps the invariant (exec.ts:161-170).
LEMMA FireInv ==
    ASSUME HeldInv, Fire
    PROVE  HeldInv'
<1>1. PICK a \in ById(st, st.pending) :
        /\ Fireable(a)
        /\ calls' = IF calls[a.tok].state = "held"
                    THEN [calls EXCEPT ![a.tok].state = "fired"] ELSE calls
  BY DEF Fire
<1>2. st' = st /\ disk' = disk /\ phase' = "fired"
  BY DEF Fire
<1>3. a.tok \in DOMAIN calls /\ calls[a.tok].answer = "allow"
  BY <1>1, ByIdType DEF HeldInv, TypeOK, Fireable, ApprovalsBacked, Backed
<1>4. CASE calls[a.tok].state = "held"
  <2>1. calls' \in Seq(HeldCall)
    BY <1>1, <1>3, <1>4, ResolveType DEF HeldInv
  <2>2. TypeOK'
    BY <2>1 DEF HeldInv, TypeOK, Fire, Phases
  <2> QED
    BY <1>1, <1>2, <1>3, <1>4, <2>2, ResolveInv
<1>5. CASE calls[a.tok].state # "held"
  <2>1. TypeOK'
    BY <1>1, <1>5 DEF HeldInv, TypeOK, Fire, Phases
  <2> QED
    BY <1>1, <1>2, <1>5, <2>1, SameCalls DEF HeldInv, ApprovalsBacked
<1> QED
  BY <1>4, <1>5

\* Recording the decision keeps the invariant (exec.ts:124-158).
LEMMA RecordInv ==
    ASSUME HeldInv, RecordAllow \/ RecordDeny
    PROVE  HeldInv'
<1> DEFINE tok == Len(calls)
<1>1. /\ st \in RunState /\ calls' = calls /\ paged' \in BOOLEAN
      /\ calls # <<>> /\ tok \in DOMAIN calls /\ tok \in Nat
  BY NewestCall DEF HeldInv, TypeOK, RecordAllow, RecordDeny
<1>2. CASE RecordAllow
  <2>1. PICK a \in ById(st, st.pending) : Finish(Approved(st, a, tok))
    BY <1>2 DEF RecordAllow
  <2>2. calls[tok].answer = "allow"
    BY <1>2 DEF RecordAllow
  <2> DEFINE b == [a EXCEPT !.status = "approved", !.tok = tok]
             s == Update(st, b)
  <2>3. a \in Action
    BY <1>1, ByIdType
  <2> HIDE DEF tok
  <2>4. b \in Action /\ b.tok = tok
    BY <1>1, <2>3 DEF Action, Statuses
  <2>5. Finish(s)
    BY <2>1 DEF Approved
  <2> HIDE DEF b
  <2>6. s \in RunState /\ s.actions \subseteq st.actions \cup {b}
    BY <1>1, <2>4, UpdateType
  <2>7. Backed(s.actions)
    BY <1>1, <2>2, <2>4, <2>6 DEF HeldInv, ApprovalsBacked, Backed
  <2> HIDE DEF s
  <2> QED
    BY <1>1, <2>5, <2>6, <2>7, FinishInv
<1>3. CASE RecordDeny
  <2>1. PICK a \in ById(st, st.pending) : Finish(Refused(st, a, tok))
    BY <1>3 DEF RecordDeny
  <2> DEFINE b == [a EXCEPT !.tok = tok]
             u == Settled(st, b, "denied")
             n == u.replans + 1
             s == [u EXCEPT !.replans = n]
  <2>2. a \in Action
    BY <1>1, ByIdType
  <2> HIDE DEF tok
  <2>3. b \in Action
    BY <1>1, <2>2, TokType
  <2>4. Finish(s)
    BY <2>1 DEF Refused
  <2> HIDE DEF b
  <2>5. u \in RunState /\ \A c \in u.actions : c \in st.actions \/ c.status = "denied"
    BY <1>1, <2>3, SettledType DEF Statuses
  <2> HIDE DEF u
  <2>6. n \in Nat
    BY <2>5 DEF RunState
  <2> HIDE DEF n
  <2>7. s \in RunState /\ s.actions = u.actions
    BY <2>5, <2>6 DEF RunState
  <2>8. \A c \in s.actions : c \in st.actions \/ c.status # "approved"
    BY <2>5, <2>7
  <2> HIDE DEF s
  <2> QED
    BY <1>1, <2>4, <2>7, <2>8, FinishUnapproved
<1> QED
  BY <1>2, <1>3

\* An answer to a question that N6 left behind disturbs nothing: it was shown
\* as it is, and no approval rests on it (exec.ts:114, approval.ts:131-165).
LEMMA LateAnswerInv ==
    ASSUME HeldInv, Polled, LateAnswer
    PROVE  HeldInv' /\ Polled'
<1>1. PICK t \in polling, answer \in {"allow", "deny", "timeout"} :
        calls' = [calls EXCEPT ![t].answer = answer] /\ polling' = polling \ {t}
  BY DEF LateAnswer
<1> DEFINE h == [calls[t] EXCEPT !.answer = answer]
<1>2. t \in DOMAIN calls /\ calls \in Seq(HeldCall)
  BY DEF HeldInv, TypeOK
<1>3. t \in 1 .. Len(calls) /\ calls[t] \in HeldCall
  BY <1>2
<1>4. calls[t].answer = "none" /\ (Bridge = "web" => calls[t].shown = calls[t].call)
  BY DEF Polled
<1>5. /\ h \in HeldCall /\ h.answer = answer /\ h.state = calls[t].state
      /\ h.shown = calls[t].shown /\ h.call = calls[t].call
  BY <1>3 DEF HeldCall
<1>6. calls' = [calls EXCEPT ![t] = h]
  BY <1>1
<1> HIDE DEF h
<1>7. /\ calls' \in Seq(HeldCall) /\ Len(calls') = Len(calls) /\ DOMAIN calls' = DOMAIN calls
      /\ \A j \in DOMAIN calls : calls'[j] = IF j = t THEN h ELSE calls[j]
  BY <1>2, <1>3, <1>5, <1>6, CallUpdate
<1>8. /\ UNCHANGED <<st, meter, disk, until, proc, phase, paged, failures>>
      /\ polling' \subseteq DOMAIN calls
  BY <1>1 DEF LateAnswer, HeldInv, TypeOK
<1>9. TypeOK'
  BY <1>7, <1>8 DEF HeldInv, TypeOK
<1>10. ApprovalsBacked'
  BY <1>4, <1>7, <1>8 DEF HeldInv, ApprovalsBacked, Backed
<1>11. phase # "asked"
  BY DEF Polled, Ended
<1>12. AskedFresh'
  BY <1>8, <1>11 DEF AskedFresh
<1>13. AnsweredAsShown'
  BY <1>4, <1>5, <1>7 DEF HeldInv, AnsweredAsShown
<1>14. FiredAllowed'
  BY <1>4, <1>5, <1>7 DEF HeldInv, FiredAllowed
<1>15. Polled'
  BY <1>1, <1>7, <1>8 DEF Polled, HeldInv, TypeOK
<1> QED
  BY <1>9, <1>10, <1>12, <1>13, <1>14, <1>15 DEF HeldInv

\* A pass that ends while no question is left behind.
LEMMA FinishPolled ==
    ASSUME NEW s, Finish(s), polling = {}
    PROVE  Polled'
BY DEF Finish, Polled

\* From the end of a run the edges lead on to its end (edges.ts:80-83).
LEMMA EndedPolled ==
    ASSUME Polled, NEW s \in RunState, s.node \in {"N9", "N10"}, Finish(s), calls' = calls
    PROVE  Polled'
<1>1. Edge(s).node \in Ended
  BY DEF Edge, Goto, Ended, RunState
<1>2. st' = Edge(s) /\ Save(Edge(s)) /\ phase' = "head" /\ polling' = polling
  BY DEF Finish
<1>3. disk' # <<>> /\ disk'[1].run = Edge(s)
  BY <1>2 DEF Save
<1> QED
  BY <1>1, <1>2, <1>3 DEF Polled

\* Every step keeps an abandoned question as it is, alone (incident.ts:132-226).
LEMMA PolledStep ==
    ASSUME HeldInv, Polled, [Next]_vars
    PROVE  Polled'
<1> USE DEF HeldInv
<1>1. CASE LoopDone \/ LoopEnter \/ Tick \/ Die
  BY <1>1 DEF LoopDone, LoopEnter, Tick, Die, Polled
<1>2. CASE LoopTimeout \/ NodeTimeout
  <2>1. EscalateTimeout /\ calls' = calls /\ phase' = "head"
    BY <1>2 DEF LoopTimeout, NodeTimeout, EscalateTimeout
  <2>2. st'.node \in Ended /\ disk' # <<>> /\ disk'[1].run.node \in Ended
    BY <2>1 DEF EscalateTimeout, Save, Ended, TypeOK, RunState
  <2>3. \A t \in polling' : t \in polling \/ (phase = "asked" /\ t = Len(calls))
    BY <1>2 DEF LoopTimeout, NodeTimeout
  <2>4. \A t \in polling' :
           /\ calls'[t].answer = "none"
           /\ Bridge = "web" => calls'[t].shown = calls'[t].call
    BY <2>1, <2>3 DEF Polled, AskedFresh
  <2>5. phase' \notin {"asked", "answered"}
    BY <2>1
  <2> QED
    BY <2>2, <2>4, <2>5 DEF Polled
<1>3. CASE TerminalTimeout
  <2>1. /\ calls' = calls /\ polling' = polling /\ st' = st /\ phase' = "head"
        /\ st.node \in Ended /\ disk' # <<>> /\ disk'[1].run = st
    BY <1>3 DEF TerminalTimeout, Save, Terminal, Ended
  <2> QED
    BY <2>1 DEF Polled
<1>4. CASE Operator
  BY <1>4 DEF Operator, Resume, StartOver, Polled
<1>5. CASE Intake
  <2>1. polling = {} /\ \E s : Finish(s)
    BY <1>5 DEF Intake, Watch, TriageOk, TriageUnparsed, EnrichUnparsed, EnrichFanoutLow,
       EnrichAnswered, In, Polled, Ended
  <2> QED
    BY <2>1, FinishPolled
<1>6. CASE Plan
  <2>1. polling = {} /\ \E s : Finish(s)
    BY <1>6 DEF Plan, In, Polled, Ended
  <2> QED
    BY <2>1, FinishPolled
<1>7. CASE PlanUnparsed \/ Route \/ ExecSafe \/ ExecDestructive \/ RecordAllow \/ RecordDeny
           \/ Verify
  <2>1. polling = {} /\ \E s : Finish(s)
    BY <1>7 DEF PlanUnparsed, Route, ExecSafe, ExecDestructive, RecordAllow, RecordDeny, Verify,
       In, Polled, Ended
  <2> QED
    BY <2>1, FinishPolled
<1>8. CASE AskHuman \/ HeldUnplanned \/ Answer \/ Refuse \/ Fire
  <2>1. polling = {} /\ polling' = polling /\ st' = st
    BY <1>8 DEF AskHuman, HeldUnplanned, Answer, Refuse, Fire, In, Polled, Ended
  <2>2. phase' \in {"asked", "answered"} => st.node = "N6"
    BY <1>8 DEF AskHuman, HeldUnplanned, Answer, Refuse, Fire, In
  <2> QED
    BY <2>1, <2>2 DEF Polled
<1>9. CASE OpenSession
  <2>1. /\ calls' = calls /\ polling' = polling /\ phase' = phase /\ phase = "node"
        /\ st'.node \in Ended /\ disk' # <<>> /\ disk'[1].run.node \in Ended
    BY <1>9 DEF OpenSession, In, Save, Ended, TypeOK, RunState
  <2> QED
    BY <2>1 DEF Polled
<1>10. CASE Page
  BY <1>10 DEF Page, Polled
<1>11. CASE Escalate \/ Report
  <2> DEFINE e == [st EXCEPT !.outcome = "escalated"]
  <2>1. st \in RunState /\ e \in RunState /\ e.node = st.node
    BY DEF TypeOK, RunState
  <2>2. (Finish(e) \/ Finish(st)) /\ calls' = calls /\ st.node \in {"N9", "N10"}
    BY <1>11 DEF Escalate, Report, In
  <2> HIDE DEF e
  <2> QED
    BY <2>1, <2>2, EndedPolled
<1>12. CASE LateAnswer
  BY <1>12, LateAnswerInv
<1>13. CASE UNCHANGED vars
  BY <1>13 DEF vars, Polled
<1> QED
  BY <1>1, <1>2, <1>3, <1>4, <1>5, <1>6, <1>7, <1>8, <1>9, <1>10, <1>11, <1>12, <1>13
  DEF Next, Loop, Remedy, Ending

\* Every step keeps the invariant: one case per part of Next.
LEMMA StepInv == IInv /\ [Next]_vars => IInv'
<1> SUFFICES ASSUME IInv, [Next]_vars PROVE HeldInv'
  BY PolledStep DEF IInv
<1> USE DEF IInv
<1>1. CASE Loop \/ Tick \/ Die \/ TerminalTimeout \/ Operator
  BY <1>1, LoopInv, TickInv, DieInv, TerminalTimeoutInv, OperatorInv
<1>2. CASE Intake \/ Ending
  BY <1>2, IntakeInv, EndingInv
<1>3. CASE Remedy
  BY <1>3, PlanInv, PlanUnparsedInv, RouteInv, ExecInv, AskHumanInv, AnswerInv, RefuseInv,
     RecordInv, FireInv, VerifyInv DEF Remedy
<1>4. CASE UNCHANGED vars
  BY <1>4 DEF vars, HeldInv, TypeOK, ApprovalsBacked, Backed, AskedFresh, AnsweredAsShown,
     FiredAllowed
<1>5. CASE LateAnswer
  BY <1>5, LateAnswerInv
<1> QED
  BY <1>1, <1>2, <1>3, <1>4, <1>5 DEF Next

\* The strengthening above holds in every state the controller can reach:
\* approvals are backed by an allowed call, in memory and in the checkpoint
\* that a resume starts from (exec.ts:133-170, checkpoint.ts:54-64).
THEOREM Invariance == Spec => []IInv
<1> QED
  BY InitInv, StepInv, PTL DEF Spec

----------------------------------------------------------------------------
(* The theorems.                                                           *)

\* Every reachable run state, in memory and in the checkpoint, is one that
\* the schema of state.ts accepts, so that no checkpoint fails to load.
THEOREM TypeCorrect == Spec => []TypeOK
<1>1. IInv => TypeOK
  BY DEF IInv, HeldInv
<1> QED
  BY <1>1, Invariance, PTL

\* In the web approval mode no destructive call runs without a human having
\* been shown that very call and having allowed it, for every registry,
\* every limit and any number of crashes (exec.ts:88-179).
THEOREM Gate ==
    ASSUME Bridge = "web"
    PROVE  Spec => []GateHolds
<1>1. IInv => GateHolds
  BY DEF IInv, HeldInv, FiredAllowed, AnsweredAsShown, GateHolds
<1> QED
  BY <1>1, Invariance, PTL

----------------------------------------------------------------------------
(* The run budget.  Once a checkpoint says that it is spent, a running     *)
(* process knows it too and is at the head of the loop or ending the run.  *)

BudgetInv ==
    disk # <<>> /\ disk[1].spent >= RUN_TIMEOUT /\ proc = "running" =>
        meter >= RUN_TIMEOUT /\ (phase = "head" \/ Terminal)

\* A pass leaves the meter and the checkpoint in agreement (incident.ts:98-106).
LEMMA FinishBudget ==
    ASSUME NEW s, Finish(s)
    PROVE  BudgetInv'
BY DEF Finish, Save, BudgetInv

\* Every step keeps a running process aware of a spent budget.
LEMMA BudgetStep == TypeOK /\ BudgetInv /\ [Next]_vars => BudgetInv'
<1> SUFFICES ASSUME TypeOK, BudgetInv, [Next]_vars PROVE BudgetInv'
  OBVIOUS
<1>1. CASE Loop
  BY <1>1 DEF Loop, LoopDone, LoopTimeout, LoopEnter, NodeTimeout, EscalateTimeout, In,
     Expired, Terminal, BudgetInv, TypeOK
<1>2. CASE Tick
  BY <1>2, ControllerAssumption DEF Tick, BudgetInv, Terminal, TypeOK
<1>3. CASE Die \/ TerminalTimeout
  BY <1>3 DEF Die, TerminalTimeout, BudgetInv
<1>4. CASE Operator
  BY <1>4 DEF Operator, Resume, StartOver, BudgetInv
<1>5. CASE Intake
  BY <1>5, FinishBudget DEF Intake, Watch, TriageOk, TriageUnparsed, EnrichUnparsed,
     EnrichFanoutLow, EnrichAnswered
<1>6. CASE Plan
  BY <1>6, FinishBudget DEF Plan
<1>7. CASE PlanUnparsed \/ Route \/ ExecSafe \/ ExecDestructive \/ RecordAllow \/ RecordDeny
           \/ Verify
  BY <1>7, FinishBudget DEF PlanUnparsed, Route, ExecSafe, ExecDestructive, RecordAllow,
     RecordDeny, Verify
<1>8. CASE AskHuman \/ HeldUnplanned \/ Answer \/ Refuse \/ Fire
  BY <1>8 DEF AskHuman, HeldUnplanned, Answer, Refuse, Fire, In, Terminal, BudgetInv
<1>9. CASE Ending
  <2>1. CASE OpenSession
    BY <2>1 DEF OpenSession, Save, In, Terminal, BudgetInv, TypeOK, RunState
  <2>2. CASE Page
    BY <2>2 DEF Page, In, Terminal, BudgetInv
  <2>3. CASE Escalate \/ Report
    BY <2>3, FinishBudget DEF Escalate, Report
  <2> QED
    BY <1>9, <2>1, <2>2, <2>3 DEF Ending
<1>10. CASE LateAnswer \/ UNCHANGED vars
  BY <1>10 DEF LateAnswer, vars, BudgetInv, Terminal
<1> QED
  BY <1>1, <1>2, <1>3, <1>4, <1>5, <1>6, <1>7, <1>8, <1>9, <1>10 DEF Next, Remedy

\* Such an answer changes what it answers and nothing else of a call.
LEMMA LateAnswerStays ==
    ASSUME TypeOK, LateAnswer
    PROVE  /\ DOMAIN calls' = DOMAIN calls
           /\ \A t \in DOMAIN calls : calls'[t].state = calls[t].state
           /\ UNCHANGED <<st, disk, proc>>
<1>1. PICK t \in polling, answer \in {"allow", "deny", "timeout"} :
        calls' = [calls EXCEPT ![t].answer = answer]
  BY DEF LateAnswer
<1> DEFINE h == [calls[t] EXCEPT !.answer = answer]
<1>2. t \in 1 .. Len(calls) /\ calls \in Seq(HeldCall) /\ calls[t] \in HeldCall
  BY DEF TypeOK
<1>3. h \in HeldCall /\ h.state = calls[t].state
  BY <1>2 DEF HeldCall
<1>4. calls' = [calls EXCEPT ![t] = h]
  BY <1>1
<1> HIDE DEF h
<1>5. /\ DOMAIN calls' = DOMAIN calls
      /\ \A j \in DOMAIN calls : calls'[j] = IF j = t THEN h ELSE calls[j]
  BY <1>2, <1>3, <1>4, CallUpdate
<1> QED
  BY <1>3, <1>5 DEF LateAnswer

\* What a step may do to the calls once the budget is spent.
AnswersOnly ==
    /\ DOMAIN calls' = DOMAIN calls
    /\ \A t \in DOMAIN calls : calls'[t].state = calls[t].state
    /\ calls' # calls => UNCHANGED <<st, disk, proc>>

\* A spent budget stays spent across every crash and resume: the step from
\* a checkpoint that says so never holds, refuses or releases a tool call.
LEMMA SpentBudgetStep ==
    ASSUME TypeOK, BudgetInv, [Next]_vars, disk # <<>>, disk[1].spent >= RUN_TIMEOUT
    PROVE  AnswersOnly
<1>1. ~(AskHuman \/ HeldUnplanned \/ Answer \/ Refuse \/ Fire)
  BY DEF AskHuman, HeldUnplanned, Answer, Refuse, Fire, In, Terminal, BudgetInv
<1>2. CASE Loop \/ Tick \/ Die \/ TerminalTimeout \/ Operator
  BY <1>2 DEF Loop, LoopDone, LoopTimeout, LoopEnter, NodeTimeout, EscalateTimeout, Tick, Die,
     TerminalTimeout, Operator, Resume, StartOver, AnswersOnly
<1>3. CASE Intake \/ Ending
  BY <1>3 DEF Intake, Watch, TriageOk, TriageUnparsed, EnrichUnparsed, EnrichFanoutLow,
     EnrichAnswered, Ending, OpenSession, Page, Escalate, Report, AnswersOnly
<1>4. CASE Plan \/ PlanUnparsed \/ Route \/ ExecSafe \/ ExecDestructive \/ RecordAllow
           \/ RecordDeny \/ Verify
  BY <1>4 DEF Plan, PlanUnparsed, Route, ExecSafe, ExecDestructive, RecordAllow, RecordDeny,
     Verify, AnswersOnly
<1>5. CASE LateAnswer
  BY <1>5, LateAnswerStays DEF AnswersOnly
<1>6. CASE UNCHANGED vars
  BY <1>6 DEF vars, AnswersOnly
<1> QED
  BY <1>1, <1>2, <1>3, <1>4, <1>5, <1>6 DEF Next, Remedy

\* For every budget and any number of failures, a run whose checkpoint says
\* that the budget is spent holds, refuses and lets go of no tool call, and
\* the answer that a question left open may still take moves nothing
\* (incident.ts:85-98, exec.ts:114).
THEOREM Budget == Spec => NoWorkPastBudget
<1>1. Init => BudgetInv
  BY DEF Init, BudgetInv
<1>2. TypeOK /\ BudgetInv /\ [Next]_vars =>
        [disk # <<>> /\ disk[1].spent >= RUN_TIMEOUT =>
            /\ DOMAIN calls' = DOMAIN calls
            /\ \A t \in DOMAIN calls : calls'[t].state = calls[t].state
            /\ calls' # calls => UNCHANGED <<st, disk, proc>>]_vars
  BY SpentBudgetStep DEF AnswersOnly
<1>3. Spec => []BudgetInv
  BY <1>1, BudgetStep, TypeCorrect, PTL DEF Spec
<1> QED
  BY <1>2, <1>3, TypeCorrect, PTL DEF Spec, NoWorkPastBudget
============================================================================
