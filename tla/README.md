# Hush, specified

TLA+ models of Hush, the incident controller that watches a storm of alerts,
lets a language model enrich and plan, asks a human before anything destructive
runs, verifies the result and writes a report; and of the demo lab around it: the
console that starts a take, the chaos commands, the simulated machines, the alarm
bus and the inventory. The modules are translated from the source (`hush/src`,
`mcp/hush_mcp`, `chaos/hush_chaos`, `mock-bmc/app`, `infra/netbox`), model-checked
with TLC and, where it matters most, proved with TLAPS.

## The system

| Part | State it keeps | Operations | Talks to |
|---|---|---|---|
| controller `hush/src/incident.ts`, `cli.ts` | run state in memory, the spent budget, one process | the loop over N0 to N10, node timers, resume | nodes, checkpoint, operator |
| nodes `hush/src/nodes/*` | none of their own: each returns a patch of the run state | watch, triage, enrich, plan, route, exec, verify, escalate, report | harness, approval bridge, Alertmanager |
| routing and data `state.ts`, `graph.ts`, `registry.ts`, `edges.ts` | the schema, the limits, the safe/destructive table | merge, edges | the loop |
| checkpoint `checkpoint.ts` | `runs/<id>/state.json` | write to a temporary file and rename, load | controller, console |
| approval bridges `approval.ts` | web bridge: `approval-pending.json`, `approval-decision.json` | decide | N6, console |
| console `ui-server.ts`, `ui/app.js` | the running incident, decisions already recorded | status, start an incident, post a decision | approval files, chaos command |
| harness client `trueforge.ts` | none; the harness holds destructive tool calls | turn, approve, deny | N1 to N10, tool servers |
| tool wrapper `mcp/hush_mcp/common.py` | cache of answers by tool and key, a lock for each | guarded, idempotent | every tool |
| seeding `infra/netbox/seed.py` | none: what it filed is in NetBox | look up, create | NetBox |
| tool servers `redfish.py`, `kubernetes.py`, `alertmanager.py`, `netbox.py`, `prometheus.py`, `correlate.py` | none besides the wrapper's | reset_system, cordon, uncordon, drain, silence, reads | BMC, cluster, Alertmanager |
| mock BMC `mock-bmc/app` | power, temperature and event log of each machine | tick, reset, chaos endpoints | Redfish server, chaos |
| chaos `chaos/hush_chaos` | none; it moves the lab | hang, crac, clear | mock BMC, cluster, Alertmanager |

What is hard about it: a destructive call is *held* by the harness, and the held
call need not be the planned one; the controller may die between the human's
answer, the checkpoint and the call; a budget is spread over several processes; a
replan has to respect what an earlier plan did; retries are counted in several
places with different limits; a tool call may be made twice at once or repeated
after an error; a tool has several steps and each may fail; the console and the
controller exchange files; a take of the lab is a chain of commands that may die
anywhere, over machines that two threads change without a lock.

What makes each part correct:

- *controller*: no destructive call runs that a human did not see and allow; no
  checkpoint is a dead end; a budget once spent stays spent; every run ends; the
  report and the page agree.
- *plan and routing*: settled actions are never rewritten, denied pairs never
  come back in a plan, a scoped run has planned and tried its close-out before it is
  verified, every retry is bounded.
- *tool wrapper*: one effect per key, no lock left held, no answer of another tool.
- *Redfish*: a machine is reset once per key. *Kubernetes*: a drained node is empty.
- *approval files*: an allow that the controller acts on is one a human gave for
  that very call; one decision is accepted for a call; every question ends.
- *console*: one take at a time; a take that fails leaves nothing behind; every post
  is answered and the button works again.
- *mock BMC*: a tripped machine is off; clearing chaos undoes chaos and nothing else.
- *chaos scenarios*: a clear that exits 0 has put the lab back, all but a node that
  docker refused to thaw; a scenario that succeeds can be seen, by the agent too.
- *storm watch and correlation*: both see the same storm, the largest there is, in
  whatever order the alerts come.
- *inventory*: nothing is seeded twice, and no answer is half a list.

## Modules

| Module | Models | Notes |
|---|---|---|
| `IncidentState` | `state.ts`, `graph.ts`, `registry.ts`, `edges.ts`, `nodes/plan.ts` | pure operators, no variables |
| `IncidentGraph` | `incident.ts`, `cli.ts`, `nodes/*`, the harness and human as N6 and N7 meet them | extends `IncidentState` |
| `IncidentGraphProofs` | theorems about `IncidentGraph`: types, the gate, the budget | |
| `IncidentRunProofs` | theorems about the course of a run | extends `IncidentGraphProofs` |
| `MCIncidentGraph` | instances for TLC | five `.cfg` |
| `IdempotentTools` | `common.py` | the wrapper: everything but the tool itself |
| `RedfishServer` | `reset_system` of `redfish.py` | extends `IdempotentTools` |
| `KubernetesServer` | `cordon_node`, `uncordon_node`, `drain_node` of `kubernetes.py` | extends `IdempotentTools` |
| `RedfishServerProofs`, `KubernetesServerProofs` | theorems about the two servers and their wrapper | |
| `ApprovalGate` | what an approval bridge promises (`ApprovalBridge` of `graph.ts`) | abstract |
| `ApprovalFiles` | `WebApproval` of `approval.ts` and `POST /api/approval` of `ui-server.ts` | implements `ApprovalGate` |
| `ApprovalFilesProofs` | theorems about `ApprovalFiles` | |
| `Fleet` | the machines of the mock BMC (`state.py`), its tick loop and its handlers | |
| `ChaosLab` | `POST /api/incidents` of `ui-server.ts`, `hush-chaos` (`scenarios.py`), the node, the alarm bus | extends `Fleet`, implements `Take` |
| `Take` | what the incident button promises | abstract |
| `ChaosLabProofs` | theorems about `Fleet` and `ChaosLab` | |
| `StormWatch` | `storm.ts`, the fetch of `nodes/watch.ts`, `correlate.py` | pure operators over a changing bus |
| `StormWatchProofs` | theorems about both algorithms | |
| `Inventory` | `netbox.py` and `infra/netbox/seed.py` | |
| `InventoryProofs` | theorems about the seeding and the pages | |
| `MCRedfishServer`, `MCKubernetesServer`, `MCApprovalFiles`, `MCChaosLab`, `MCStormWatch`, `MCInventory` | instances for TLC | `MCRedfishServer` has two `.cfg` |

### The controller

`st` is the run state in memory, `meter` the time spent, `disk` the checkpoint,
`phase` the place in a pass. `LoopEnter`, `LoopDone` and `LoopTimeout` are the head
of the loop in `runIncident`; each node is one or more actions named after what
they do; `Finish` is the patch, the edge and the save that end a pass. A node is
split only where it touches something outside before its checkpoint: N6 into
`AskHuman` (the turn that holds a call), `Answer`, `Refuse` and the two records; N7
into `Fire` and `ExecDestructive`; N9 into `OpenSession`, `Page` and `Escalate`.
`Die` may strike between any of them. `calls` is the harness's memory of held calls and survives
a crash; so do `disk` and `paged`.

A *call* is a tool with its arguments, one element of `Safe`, `Destructive` or
`Unregistered`. The model's free text is a choice: any list of proposals that
`plan.ts` would keep (`Plans`), any held call, any set of evidence layers. The
harness holds every destructive call and none of the safe ones, as the registry
and the harness's own configuration have it.

The timer of a node (`NodeTimeout`) ends the node for the loop, but N6 does not pass
its abort signal to the bridge (`exec.ts:114`): the question it asked goes on *polling*
beside the rest of the run, until it is answered, its own timer ends or the process
stops. `polling` holds such questions. `LateAnswer` is an answer to one: the harness's
record of the call changes and nothing else does, as the allow is a patch that nobody
merges and the refusal throws on the aborted signal.

`Fire` takes for granted that the harness lets a held call go once: a resume between
`Fire` and its checkpoint approves the same call again, and whether the tool then runs
twice is the harness's affair (and, for a reset, the wrapper's).

What the model leaves out of N5, N7 and N8: a reply with no JSON block, which
throws after the call has run. For N7 this is the crash between `Fire` and
`ExecDestructive`.

### The tool servers

A call on thread `t` goes from `idle` to `lock` (with a key) or straight to the
tool (without one). `Enter` takes the lock with an empty cache, `Replay` answers
from the cache, `Finish` answers, caches what is not an error and lets the lock
go. What happens in between is the server's: for Redfish the post, the thaw and
the log read; for Kubernetes the cordon, the listing and one eviction at a time.
A request that fails may have been carried out. `accepted`, `resets` and
`reopened` are history variables: they are read by properties only.

### The approval files

`IncidentGraph` takes the question and the answer for one step each; here they are
taken apart. `pending` and `decision` are the two files, `None` when absent and
`Partial` while a write is under way; only the pending file can be seen so, as
the decision is renamed into place. `stage` follows a controller through
`WebApproval.decide`, one action between two points where it waits, and
`request` follows a post through the console's handler: received, the pending
file read, recorded in `recordedDecisions`, placed. The check against
`recordedDecisions` and the addition to it are one step, because the handler does not
wait between them; the read before them and the rename after them are not.
A call is its number: the `toolCallId` fixes tool and arguments.

A post may fail in two places. If the file cannot be placed the key leaves
`recordedDecisions` again (`PlaceFailed`); if the run's directory cannot be made it does
not (`MkdirFailed`), as the `mkdir` comes before the `try` (`ui-server.ts:377`): every
further post for that call is then answered 409 and its question ends as a timeout.

`Gate` is the instance of `ApprovalGate` over `result` and `posted`: asking maps to
`Ask`, a human's post to `Post`, the end of decide(), where the bridge returns or
throws, to `Conclude`, and everything else to a stutter.

### The lab

`Fleet` holds a record for each machine. The tick loop of `main.py` runs in the
event loop, FastAPI runs the handlers on its thread pool, and nothing locks a
machine. The interpreter changes threads at calls and at the turn of a loop, so
between two such points assignments are one step: a handler is one step,
`clear_chaos` one for each machine, and the tick four for each machine (`TickSense`,
`TickHeat`, `TickPsu`, `TickTrip`). While a tick runs, the event loop sends no answer:
`unanswered` says whose command waits for that. A temperature is kept as over the
trip point or not; whether it may rise was decided when the target was computed
(`ticking.rises`), however the machine has changed since. `offBy` is observed only.
A clear takes the room and then the machines, one by one, with no lock (`ClearChaos`):
one may begin while another, of a command that was killed, is still at its machines. The
two are merged into one that has every machine before it. Left out by this is
an abandoned clear that comes to a machine after the later one has been there and
something has changed since. A trip and the power-off it causes are one step.

`ChaosLab` has, for each post, where the console's handler is (`request`) and the
`hush-chaos` process it runs (`cli`), with the scenario's steps one action each and
what is left of a loop in `todo`. Any step may fail, and `Die` is the rest: an
uncaught error, a lost answer, a kill by the console's timer. `child` is the agent's
process and `running` what the console knows of it. `AgentActs` is what the agent's
tools may do to the same lab, `ByHand` a chaos request or a reset of somebody else
between two takes. `T` is the instance of `Take` over the post under way and `child`.

### The storm

N0 asks Alertmanager itself and keeps the alerts that are active (`nodes/watch.ts`):
`bus` is that answer, in an order of its own, and `FiringAlerts(bus)` what N0 keeps.
Alerts start at any time in any order, are suppressed by a silence, released, and end.
N1 supplies N0's alerts to the agent and tells it to call `correlate_alerts` with them
(`prompts/triage.md:4`). The agent is a language model, so what it passes on is its own
choice: `SameStorm` takes any part of N0's alerts that still has the burst in it, and
`OrderDoesNotMatter` any order. If the agent leaves out some of the burst the grouping is
about another storm, and nothing in the code notices.

`StormWatch` computes `stormBurst` as `storm.ts` does, by two pointers over the sorted
alerts, and the groups as `correlate.py` does, by counting for each alert the window
that starts at it. The properties compare the two algorithms with a plain definition
of the largest window and with each other.

The other way to the alerts, the tool `list_alerts` of `alertmanager.py`, is not
modelled: it judges by `endsAt`, keeps alerts that are inhibited and stops at
`MAX_ALERTS`, so its answer need not be N0's. N1 is told to use it only for labels that
are missing; what is said here of the storm does not hold of alerts taken from there.

A filter or a sort is a list of places ordered by rank: `Listed(S, R)` puts at place
`k` the member of `S` that `k - 1` others come before, `Picked(s, I)` is what `s` has
at the places `I`. So are the lists of `Inventory` (`InOrder`). The library's
`SelectSeq` and `SortSeq` compute the same, but the provers cannot see into them. The
left pointer of `stormBurst` is a recursive function, not an operator, for the same
reason.

### The inventory

`store` is what NetBox was told to file, in that order. `seeder` is at an object of
`Plan` with a lookup (`get`) or a create (`post`) under way; a failure ends the run
with exit code 1, and what it posted may have been filed. `query` is a tool call in
the middle of its pages, while the seeder goes on. A device is a number, which is
also its place in NetBox's list. A query asks for one page more than `MAX_PAGES` before
it gives up and answers from the seed file (`netbox.py:80-92`), and so does `ReadPage`.

## Runs

| Run | Checks | What it shows |
|---|---|---|
| `gate` | `TypeOK`, `GateHolds`, `NodesCanRun`, `AllowIsActedOn`, `OutcomeMatchesPage`, `CloseoutBeforeVerify`, `SettledIsFinal`, `DeniedNotReplanned`, `RecoveryIsFinal`, `NoWorkPastBudget` | the safety of a run with a crash, a throw or a terminal timeout anywhere |
| `retries` | `CountersBounded`, `RetriesEnd` | the retry limits end a run on their own |
| `ends` | `Terminates` | with an operator who resumes, a run reaches DONE though nobody answers |
| `not_asked_again` | `NotAskedAgain` (violated) | a denied pair can be asked about again, though `specs/graph.md:207` says it is blacklisted |
| `terminal_gate` | `GateHolds` (violated) | the terminal bridge shows the planned call and lets the held one go |
| `redfish` | `NoSecondReset`, `EveryCallAnswered` | the wrapper around a tool with three failing steps and a restart |
| `redfish_once` | `AcceptedOnce` (violated) | the log read after the reset can raise, and a retry resets again |
| `kubernetes` | `ReplayedAsAnswered`, `DrainedIsEmpty` | drains, cordons and uncordons over a living cluster |
| `approval` | `OneDecisionPerCall`, `Implements`, `EveryDecideEnds` | the web bridge over its files keeps the promise of `ApprovalGate` |
| `lab` | `TypeOK`, `TripMeansOff`, `ClearRestores`, `FailedPostIsUndone`, `StormIsVisible`, `HangIsReal`, `ClearLeavesCommandedOff`, `OneTakeAtATime`, `EveryPostAnswered` | takes of the lab, from post to answer, with the run, ticks, hands and failures in between |
| `storm` | `TypeOK`, `BurstIsLargest`, `SameStorm`, `FiledOnce`, `OrderDoesNotMatter`, `StormStaysSeen` | the two window algorithms on every small answer of Alertmanager, on every part of it that has the burst and in every order |
| `inventory` | `TypeOK`, `SeededOnce`, `SeededMeansAll`, `AnswersAreWhole`, `EveryQueryAnswered` | seeding and paged reads, cut short anywhere |

Bounds. `gate` has two destructive calls, so that the held one may be the wrong
one, one safe call, which is the close-out silence, and one the registry does not
know; plans of two, so that a plan can be full, repeat a pair or leave an action
staged; `REPLANS_MAX` of two, which allows a plan and one replan, and one verification;
one tick of budget, which is enough because only "spent or not" is ever read; one
failure, anywhere. `retries` drops the clock and counts five unusable answers of
N1 and N2, more than both limits together allow, so that the bound itself never
stops a retry. `ends` allows two failures, so that the run may be stopped at N9
and at N10. `redfish` and `kubernetes` have two threads, the fewest that can race for a lock, and
three calls: one to answer, one to race, one to replay. Three pods give one that
is evicted, one that is held back and one that is protected. `approval` has two
controllers of one run, the fewest that can remove each other's files; two
questions, so that an answer can be meant for the other one; two posts, which
can race for one question; one planned action, so that the two questions share an
action id and only the call tells them apart; and one failure, placed anywhere.

`lab` has one machine, which the node runs on and `crac` heats: the properties are
about one machine at a time, machines meet only in the room's temperature, and what
is proved holds for any number. Two posts are the fewest that can race for the
lab; two failures, so that a rollback can fail as well; one change by hand, so that
a take may find a machine off, hung or without its supplies. Takes follow each other
without a bound, so every scenario starts on what the last one left. `storm` has four
alerts at three times with a window of one: a window too wide, windows that tie, and
alerts exactly one window apart; a rack whose cooling fails and what it drags behind
it, and alerts without a rack; a storm of three, so that one alert may be outside. `inventory` has
five devices in pages of two, so that two pages are not enough for all, two pages,
the fewest that can be mixed, a name no device has, two failed requests, and three
runs of the seeding, so that two may be cut short.

Every bound is a constant (`MaxFailures`, `MaxIntakeFaults`, `MaxCalls`, `MaxRestarts`, `MaxFaults`, `MaxAsks`, `MaxManual`, `MaxStarted`, `MaxTime`, `MaxSeedings`, `Asked`) and a guard
of the action it bounds. `CHECK_DEADLOCK FALSE` is set where the system really
stops: `retries` (the run is over), the tool servers (no caller is left),
`approval` (every question and post is used up) and `storm` (all alerts have ended).

## Fairness

`FairSpec` of `IncidentGraph` assumes that the process goes on (`Loop`, `Ending`),
that time passes (`Tick`) and that the operator resumes a run that stopped short
(`Operator`). It assumes nothing of the model or the human: no weak fairness on
the nodes that wait for an answer, because every one of them is bounded by the
timer of `runWithTimeout`, which is part of `Loop`. `UntimedSpec` is the other
half: no clock, and every answer comes, so that only the retry limits can end
the run.

`FairSpec` of `RedfishServer` assumes weak fairness of each thread's steps: every
request it makes has a timeout, and a `threading.Lock` that is free is taken by a
thread that waits. Calls do run on several threads: the wrapper takes a lock for
exactly that reason (`common.py:94-96`).

`FairSpec` of `ApprovalFiles` assumes that a controller inside decide() goes on: its
loop waits on a timer only. It assumes nothing of the human or the console.

`ChaosLab` assumes weak fairness of each handler and of the steps of its command, as
every call of a command has a timeout and the console kills a command that runs too
long (`ui-server.ts:190-233`), and of the server's own threads: a tick that has begun
ends, and a clear reaches its machines. It does not assume that a tick begins, that
anybody posts, or that the run ends.

`Inventory` assumes that a tool call reads on: each request is answered or given up
after `TIMEOUT_S`. It assumes nothing of the seeding.

## Proofs

`IncidentGraphProofs` proves, for every registry, every limit and every bound:

- `Invariance`: `IInv` is an invariant. `IInv` is the type invariant, *approvals
  are backed* (an approved action in memory or in the checkpoint names a held
  call that was allowed), *asked fresh* (the question under way is the newest
  call, unanswered and, with the web bridge, shown as it is), *answered as shown*
  and *only allowed calls are fired* (together `HeldInv`), and *polled* (`Polled`: a
  question that goes on polling after its node timed out is unanswered, and the run has
  come to its end, N9 or later, in memory and in the checkpoint).
- `TypeCorrect`: `Spec => []TypeOK`.
- `Gate`: with the web bridge, `Spec => []GateHolds`.
- `Budget`: `Spec => NoWorkPastBudget`. Once a checkpoint says that the budget is spent,
  no call is held, refused or let go. A late answer to a question that was open before
  may still be recorded, and then neither the run nor its checkpoint moves.

`GateHolds` is not inductive: it says nothing about the approved action that
`Fire` acts on, which may come from a checkpoint written before a crash. The
backing of approvals carries the human's answer through the checkpoint. The
proofs assume the named assumptions of the modules (disjoint registry classes,
limits that are positive, a close-out that is a safe covering silence) and nothing else.

`IncidentRunProofs`, from the same assumptions, for the rest of the run's safety:

- `RunInvariance`: `RunInv` is an invariant beside `IInv`. Its parts say of a run state
  that actions have names and ranks of their own (`ActionsSound`), that what the intake
  found is there once it is over (`IntakeSound`), that the routed action is one the node
  can run and an approved one is about to be let go or the run escalated (`RouteSound`),
  how outcome, page and node go together (`EndSound`), that the plan or what was done of
  it silences the incident (`CoverSound`), and how the counters bound each other
  (`CountersSound`).
- `CheckpointIsCurrent`: the checkpoint *always* holds the run state of the process
  (`Saved`): every action that changes the state saves it or has just loaded it. A crash
  therefore loses time and the place in a node, and nothing of the run state, and one
  invariant over the state in memory serves for what a resume finds.
- `NodesRun`, `AllowedIsActedOn`, `OutcomeIsHonest`, `SilenceTriedBeforeVerify`, `LimitsBound`:
  the other five invariants of the runs `gate` and `retries`. None is inductive:
  that N7 finds an approved action, say, needs unique names, so that recording a
  decision changes one action only, and unique ranks for N4 to route one.
- `SettledStays`, `DeniedIsNotReplanned`, `RecoveryStays`: the action properties, from
  the same invariant. They compare checkpoints, which `Saved` ties to the steps.

`ApprovalFilesProofs`, for any number of controllers, posts, actions, calls and
failures:

- `Invariance`: an open decide() has a question of its own that has not ended
  (`OpenInv`); decisions in flight, on disk and in verdicts carry what a human
  posted (`TrueInv`); questions that were shown are told apart by their call, and a
  recorded one has at most one decision placed or about to be (`OnceInv`).
- `OneDecision`: `Spec => []OneDecisionPerCall`. Not inductive by itself: a post
  that has been recorded and not yet placed must exclude every other one.
- `Implementation`: `Spec => Implements`, step by step under the mapping above. The
  removal of the files in `finally` needs `OpenInv`: what it concludes was asked and
  is still open.

`RedfishServerProofs`, for any threads, keys and tools:

- `Invariance`: a thread inside a keyed tool holds the lock of its key and the
  cache is empty there (`HoldersInv`); an answer that is not an error is cached
  (`KeptInv`).
- `ResetOnce`: `Spec => NoSecondReset`, as the step that resets is inside a tool.

`KubernetesServerProofs`, for any threads, keys, pods, failures and restarts:

- `Invariance`: what the cache holds, this process has answered to that tool and key
  (`CachedAsAnswered`); while a drain is under way and nobody has uncordoned the node,
  the node is closed and the drain knows every pod on it that it may evict
  (`DrainsAhead`).
- `Replayed`, `Drained`: `Spec => []ReplayedAsAnswered` and `Spec => []DrainedIsEmpty`.
  `Drained` needs `DrainsAhead` because a drain is answered long after its listing, with
  other threads cordoning and uncordoning in between.

`ChaosLabProofs`, for any machines, posts, failures and hands:

- `Invariance`: every machine is *sound* (its trip stands only while it is off, and
  what a command switched off is off and not marked as switched off by chaos;
  `FleetInv`), commands go over machines only where they post to them (`CliInv`), and
  the post that is being handled is the only one, holds `incidentStarting` and has no
  run beside it before its spawn (`TakeInv`). That every step of the lab changes the fleet by the fleet's own
  operations (`NextFleet`) lets the fleet's lemmas carry over.
- `TypeCorrect`, `TripOff`: `Spec => []TypeOK` and `Spec => []TripMeansOff`.
- `CommandedOff`: `Spec => ClearLeavesCommandedOff`. It rests on soundness: a machine
  a command switched off has its `chaos_powered_off` reset, through later trips too.
- `OneTake`: `Spec => OneTakeAtATime`, the refinement of `Take`. Neither flag is enough:
  `TakeInv` ties `incidentStarting` to the post under way and `incidentRunning` to the child.
- `TakeInvariance`: `LabInv` is an invariant beside `IInv`. It says of the post that sets
  the lab up what its command has achieved when it is at each of its steps (`Achieved`):
  silences ended, machines cleared so far sane (`Cleaned`), all of them up, the node
  thawed and uncordoned unless the command has noted a failure, the fault posted. What
  was achieved stays because nobody else moves the lab then (`TakeInv`) but a tick and a
  clear that is at its machines; those are *calm*: a sane machine goes off by a trip
  alone and is never switched on (`Calm`).
- `ClearPutsBack`, `FailedPostPutsBack`, `StormIsSeen`, `HangStandsStill`:
  `Spec => []ClearRestores`, `[]FailedPostIsUndone`, `[]StormIsVisible` and `[]HangIsReal`.
  The first two speak of the whole lab but a node that docker refused to thaw: the
  command does not look at that, so that of such a node they say nothing.

`StormWatchProofs`, for any bus, labels, times and width of the window:

- `Invariance`, `TypeCorrect`: fingerprints are given out once; `Spec => []TypeOK`.
- `LargestBurst`, `StormIsTheSame`: `Spec => []BurstIsLargest` and `Spec => []SameStorm`.
  Both algorithms find what the first of the fullest windows holds (`IsStart`), and
  there is one such window (`StartUnique`), ties included: `WindowStartIs` shows it of
  `correlate.py`, `BurstIs` of `storm.ts`. For the latter the pointer, which never goes
  back, is shown to stop at the first alert of every window (`LeftEdgeIs`): in a sorted
  list these edges do not fall. What the agent leaves out of N0's alerts does not move
  the window as long as the burst is there (`StartOfPart`).
- `EachFiledOnce`: `Spec => []FiledOnce`: the groups are the racks of the storm, and what
  is in none is noise (`CorrelateIs`).
- `AnyOrder`: `Spec => []OrderDoesNotMatter`, for every permutation of the firing alerts:
  the burst, the groups and the noise are functions of their *set*, because the window is.
- `StormIsKeptInSight`: `Spec => StormStaysSeen`: only the burst has to go on firing. Its
  window is then still there, whatever else ended or was silenced, and the new burst is
  no smaller than any window.

`InventoryProofs`, for any inventory, failures and runs of the seeding:

- `Invariance`: what a run has passed is in NetBox, what it is about to file is not,
  and nothing is there twice (`SeedInv`). This needs one seeding at a time.
- `NothingTwice`, `AllSeeded`: `Spec => []SeededOnce` and `Spec => []SeededMeansAll`.
- `InventoryInvariance`: devices are filed in the order NetBox lists them
  (`DevicesInOrder`), so that a list only grows at its end; hence, unless NetBox is
  runaway (says there is a next page when there is none), what a query has read is the
  beginning of the list as it is *now* (`ReadSoFar`), though it changed under the pages.
- `TypeCorrect`, `WholeAnswers`: `Spec => []TypeOK` and `Spec => []AnswersAreWhole`. An answer
  needs no lock around its pages because of the order of filing, and only of that.

## Where the documents say something else

Besides the runs that expect a violation, the modelling met these:

- The budget leaves a run in N9, unpaged and unreported, until it is resumed
  (`incident.ts:136-148`, `LoopTimeout`); `specs/graph.md:61-62` says that it always
  ends in N10.
- An approval nobody answers is a denial and replans (`edges.ts:59`, `RecordDeny`);
  `specs/graph.md:208` says that it escalates.
- `docker unpause` fails on a node that was never paused, so a reset of its machine is
  answered as not ok with "still paused" (`redfish.py:187`, `Thaw`), though
  `redfish.py:179` says it is tolerant of that.
- `scenarios.py:103` and `chaos/tests/test_scenarios.py:146` say that `/chaos/clear`
  leaves a thermal trip standing; `state.py:245` clears it (`Cleared`). The machine may
  trip again at once, if it is still hot: `NothingLeft` allows for that.
- `state.py:138-139` says that a machine with no power is off, not hung; `hang` on a
  machine that is off leaves it both (`Hang`).
- `log_sel` says "newest last" (`state.py:97`); two threads may append in the other
  order than they took their ids.
- A `docker unpause` that fails on a frozen node is not looked at
  (`scenarios.py:117-119`, `Unpause`): a clear exits 0 with the node frozen, though
  `scenarios.py:101` says "nodes thawed and schedulable". `NothingLeft` states the
  exception (`refused`): without it TLC finds such a clear at once.
- The page tells a human whose allow came after N6 had timed out "Approved. The exact
  tool call resumes." (`ui/app.js:913`); nothing resumes (`LateAnswer`).
- `specs/graph.md:224-226` says that a scoped incident's symptom alerts are silenced when
  it is verified. A close-out silence that *failed* leads on to N8 like one that worked
  (`exec.ts:39-46`, `edges.ts`), with the alerts still firing; N8 then finds them. So
  `CloseoutBeforeVerify` says "planned and tried", and no more.
- `specs/graph.md:60` has at most two parse retries. N1 and N2 share one counter, which
  retries on its own account, so that it may pass two (`CountersBounded` has the bound that
  holds).
- `specs/graph.md:255-258` groups alerts by rack *and* node and calls a single alert that
  flaps noise. `correlate.py` groups by rack, keeps no history of an alert, and calls
  noise what is outside the window and a lone alert without a rack (`Correlate`,
  `Orphan`).
- `MAX_PAGES` pages are read, but one more is asked for (`netbox.py:87`, `ReadPage`).
- `drain_node` answers when every eviction was accepted (`kubernetes.py:171-175`); the pods
  have 30 s of grace to go. In `KubernetesServer` an evicted pod goes at once: `DrainedIsEmpty`
  says that none is left that was not told to go.
- `netbox.py:5-6` says that NetBox has one timeout to answer; it is one for each page.
- `get_blast_radius([])` sends no filter (`netbox.py:134`, `Matching`): NetBox answers
  with all devices, the fallback with none.

## Checked only, and not modelled

Liveness (`Terminates`, `RetriesEnd`, `EveryCallAnswered`, `EveryDecideEnds`,
`EveryPostAnswered`, `EveryQueryAnswered`) is out of the prover's reach and is checked
by TLC alone. Every other property of a passing run is a theorem too: the run shows it
on a small instance, the theorem for every value of the constants. The three runs that
expect a violation are refutations, which only TLC can give.

The library's induction theorems take an operator as a parameter, which the provers
cannot instantiate. Where a proof goes along a list it counts the places (an ordered
set fills them all, `Places`) or takes the least counterexample of a finite set of
numbers (the left pointer of `stormBurst`, `LeftEdgeIs`) instead.

Left out of the modules above: the event log, sensors, fans and watts of the
machines, and the NMI, which only logs; the scenario that only posts a storm; the
expiry of alerts and silences during a take, and a docker command that acts after
its process was killed, and an abandoned clear that reaches a machine after a later one;
`list_alerts`, and the order in which clusters are listed; two seedings at once, and NetBox's own rules on names.

Not modelled, with the reason of each in `PROJECT.json`: the Prometheus and other
read-only tools, the page, the probes, the fake cluster and the scripts (no state
that matters); two controllers over one checkpoint; the steps of the checkpoint's
file; the content of reports.

## Plan

1. *done* `IncidentState`, `IncidentGraph` with the proof of its type, the gate
   and the budget.
2. *done* `IdempotentTools` under `RedfishServer` and `KubernetesServer`, with the
   proof of `NoSecondReset`.
3. *done* `ApprovalGate` and `ApprovalFiles`, which implements it, with the proofs of
   the refinement and of `OneDecisionPerCall`.
4. *done* `Fleet`, `ChaosLab` and `Take`: a take of the lab from post to answer, with
   the proofs of the trip, of the clear and of the mutual exclusion.
5. *done* `StormWatch`: the window algorithms against a plain definition.
6. *done* `Inventory`, with the proofs about the seeding.
7. *done* The proofs of every other safety property: the course of a run, the
   Kubernetes server, the commands of a take, the storm, the pages of the inventory.
8. `CheckpointFile`: two saves of a process through one temporary file, against the
   abstract register that `IncidentGraph` assumes, and two controllers over it.
9. Silences and alerts that expire, and the reads of the remaining tools.
