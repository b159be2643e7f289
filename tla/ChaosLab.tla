------------------------------ MODULE ChaosLab ------------------------------
(***************************************************************************)
(* One take of the demo lab: POST /api/incidents of the console            *)
(* (hush/src/ui-server.ts) runs the commands of hush-chaos (chaos/         *)
(* hush_chaos) one after the other, and these change the fleet (module     *)
(* Fleet), the kind node that runs on one of its machines, and the         *)
(* symptoms and silences on the alarm bus.  Then it starts the run of the  *)
(* agent, a process of its own, which changes the same things.             *)
(*                                                                         *)
(* Any command may die at any of its steps (a service that does not        *)
(* answer, an answer that is lost, a TimeoutExpired of docker or kubectl,  *)
(* the SIGKILL of the console's timer); the steps before it have happened. *)
(* Alerts and silences are taken not to run out during a take.             *)
(***************************************************************************)
EXTENDS Fleet

CONSTANTS
    Requests,    \* posts the console is handling; bound on how many at once
    Host,        \* the machine the kind node runs on
    SpikeSystems,\* the machines the crac scenario heats
    NoRequest,   \* no post
    MaxFaults,   \* bound: failures of a command or a service
    MaxManual    \* bound: changes made by hand between two takes

ASSUME LabAssumption ==
    /\ Host \in Machines /\ SpikeSystems \subseteq Machines
    /\ NoRequest \notin Requests
    /\ MaxFaults \in Nat /\ MaxManual \in Nat

VARIABLES
    frozen,      \* the container of the kind node is paused
    cordoned,    \* the node is unschedulable
    symptoms,    \* alerts of origin hush-chaos are firing
    silences,    \* the authors with an active silence over them
    cli,         \* of each post: the hush-chaos process it runs
    unanswered,  \* the commands whose answer the BMC's event loop has yet to send
    request,     \* of each post: where in the handler it is, and its scenario
    starting,    \* incidentStarting
    running,     \* incidentRunning
    child,       \* the process of the agent's run is alive
    faults,      \* how many failures happened
    manual       \* how many changes were made by hand

world   == <<frozen, cordoned, symptoms, silences>>
console == <<request, starting, running, child>>

vars == <<fleet, world, cli, unanswered, console, faults, manual>>

Authors == {"hush-chaos", "hush"}

\* Mutated form of SilenceAuthors: only the silences of hush-chaos itself.
SilenceAuthorsOwn == {"hush-chaos"}

\* Whose silences a command ends before it does anything else.
SilenceAuthors == Authors

Scenarios == {"hang", "crac"}

\* The steps of the commands.
Busy == {"silences", "crac", "spike", "hang", "pause", "unhang", "symptoms", "clear", "clearing",
         "status", "power", "unpause", "uncordon", "stale", "expire", "silence"}

\* The steps of the handler.
Stages == {"idle", "clear", "inject", "undo", "spawn", "accepted", "failed"}

\* A command: what it has yet to do in its step, whether docker refused to
\* thaw a frozen node or kubectl to uncordon it, and its exit code.
Command == [cmd: {"none", "clear"} \cup Scenarios, at: Busy \cup {"none", "exited"},
            todo: SUBSET (Authors \cup Machines), refused: BOOLEAN, failed: BOOLEAN, ok: BOOLEAN]

NoCommand == [cmd |-> "none", at |-> "none", todo |-> {}, refused |-> FALSE, failed |-> FALSE,
              ok |-> FALSE]

Started(cmd) == [NoCommand EXCEPT !.cmd = cmd, !.at = "silences", !.todo = SilenceAuthors]

NoPost == [at |-> "idle", scenario |-> "hang"]

Init ==
    /\ FleetInit
    /\ frozen = FALSE /\ cordoned = FALSE
    /\ symptoms = FALSE /\ silences = {}
    /\ cli = [r \in Requests |-> NoCommand]
    /\ unanswered = {}
    /\ request = [r \in Requests |-> NoPost]
    /\ starting = FALSE /\ running = FALSE /\ child = FALSE
    /\ faults = 0 /\ manual = 0

Fault ==
    /\ faults < MaxFaults
    /\ faults' = faults + 1

----------------------------------------------------------------------------
\* The commands of hush-chaos

\* The command is at this step, and the answer to its last request is there:
\* while a tick runs, the event loop of the BMC sends none.
At(r, step) ==
    /\ cli[r].at = step
    /\ r \in unanswered => ticking = Idle

Goes(r, step) == cli' = [cli EXCEPT ![r].at = step, ![r].todo = {}]

GoesOver(r, step, todo) == cli' = [cli EXCEPT ![r].at = step, ![r].todo = todo]

\* One of todo is done; with the last one the step is over.
Did(r, x, step) ==
    cli' = [cli EXCEPT ![r].todo = @ \ {x}, ![r].at = IF cli[r].todo = {x} THEN step ELSE @]

Exits(r, ok) == cli' = [cli EXCEPT ![r].at = "exited", ![r].todo = {}, ![r].ok = ok]

\* A request to the BMC was handled.
Handled(r) == unanswered' = IF ticking = Idle THEN unanswered \ {r} ELSE unanswered \cup {r}

\* The next step has the name of the command.
EndSilences(r) ==
    /\ At(r, "silences")
    /\ \E a \in cli[r].todo :
          /\ silences' = silences \ {a}
          /\ Did(r, a, cli[r].cmd)
    /\ UNCHANGED <<fleet, frozen, cordoned, symptoms, unanswered, console, faults, manual>>

PostCrac(r) ==
    /\ At(r, "crac")
    /\ CracFail
    /\ Handled(r)
    /\ GoesOver(r, IF SpikeSystems = {} THEN "symptoms" ELSE "spike", SpikeSystems)
    /\ UNCHANGED <<world, console, faults, manual>>

PostSpike(r) ==
    /\ At(r, "spike")
    /\ \E m \in cli[r].todo :
          /\ ThermalSpike(m)
          /\ Did(r, m, "symptoms")
    /\ Handled(r)
    /\ UNCHANGED <<world, console, faults, manual>>

PostHang(r) ==
    /\ At(r, "hang")
    /\ Hang(Host)
    /\ Handled(r)
    /\ Goes(r, "pause")
    /\ UNCHANGED <<world, console, faults, manual>>

\* Mutated form of Pause: a node that could not be frozen counts as frozen.
PauseUnchecked(r) ==
    /\ At(r, "pause")
    /\ \/ frozen' = TRUE /\ UNCHANGED faults
       \/ Fault /\ UNCHANGED frozen
    /\ Goes(r, "symptoms")
    /\ UNCHANGED <<fleet, cordoned, symptoms, silences, unanswered, console, manual>>

\* docker refuses to pause a container that is paused.
Pause(r) ==
    /\ At(r, "pause")
    /\ \/ ~frozen /\ frozen' = TRUE /\ Goes(r, "symptoms") /\ UNCHANGED faults
       \/ frozen /\ Goes(r, "unhang") /\ UNCHANGED <<frozen, faults>>
       \/ Fault /\ Goes(r, "unhang") /\ UNCHANGED frozen
    /\ UNCHANGED <<fleet, cordoned, symptoms, silences, unanswered, console, manual>>

PostUnhang(r) ==
    /\ At(r, "unhang")
    /\ Unhang(Host)
    /\ Handled(r)
    /\ Exits(r, FALSE)
    /\ UNCHANGED <<world, console, faults, manual>>

\* After the sleep that lets the hardware alerts go first.
PostSymptoms(r) ==
    /\ At(r, "symptoms")
    /\ symptoms' = TRUE
    /\ Exits(r, TRUE)
    /\ UNCHANGED <<fleet, frozen, cordoned, silences, unanswered, console, faults, manual>>

PostClear(r) ==
    /\ At(r, "clear")
    /\ ClearChaos
    /\ Goes(r, "clearing")
    /\ UNCHANGED <<world, unanswered, console, faults, manual>>

\* Mutated form of ReadStatus: only a machine whose trip stands counts as off.
ReadStatusTripOnly(r) ==
    /\ At(r, "status")
    /\ LET off == {m \in Machines : machine[m].trip} IN
       GoesOver(r, IF off = {} THEN "unpause" ELSE "power", off)
    /\ Handled(r)
    /\ UNCHANGED <<fleet, world, console, faults, manual>>

ReadStatus(r) ==
    /\ At(r, "status")
    /\ LET off == {m \in Machines : machine[m].trip \/ machine[m].power # "On"} IN
       GoesOver(r, IF off = {} THEN "unpause" ELSE "power", off)
    /\ Handled(r)
    /\ UNCHANGED <<fleet, world, console, faults, manual>>

PowerOn(r) ==
    /\ At(r, "power")
    /\ \E m \in cli[r].todo :
          /\ Reset(m, "On")
          /\ Did(r, m, "unpause")
    /\ Handled(r)
    /\ UNCHANGED <<world, console, faults, manual>>

\* That docker failed is not looked at: it always does on a node that runs.
Unpause(r) ==
    /\ At(r, "unpause")
    /\ \/ frozen' = FALSE /\ UNCHANGED faults
       \/ frozen /\ Fault /\ UNCHANGED frozen
    /\ cli' = [cli EXCEPT ![r].at = "uncordon", ![r].refused = frozen']
    /\ UNCHANGED <<fleet, cordoned, symptoms, silences, unanswered, console, manual>>

Uncordon(r) ==
    /\ At(r, "uncordon")
    /\ \/ cordoned' = FALSE /\ Goes(r, "stale") /\ UNCHANGED faults
       \/ /\ Fault
          /\ cli' = [cli EXCEPT ![r].at = "stale", ![r].failed = TRUE]
          /\ UNCHANGED cordoned
    /\ UNCHANGED <<fleet, frozen, symptoms, silences, unanswered, console, manual>>

ListStale(r) ==
    /\ At(r, "stale")
    /\ IF symptoms THEN Goes(r, "expire") ELSE Exits(r, ~cli[r].failed)
    /\ UNCHANGED <<fleet, world, unanswered, console, faults, manual>>

\* The bus may take the alert that has ended and go on showing it.
Expire(r) ==
    /\ At(r, "expire")
    /\ \/ symptoms' = FALSE /\ UNCHANGED faults
       \/ Fault /\ UNCHANGED symptoms
    /\ Goes(r, "silence")
    /\ UNCHANGED <<fleet, frozen, cordoned, silences, unanswered, console, manual>>

Silence(r) ==
    /\ At(r, "silence")
    /\ silences' = silences \cup {"hush-chaos"}
    /\ Exits(r, ~cli[r].failed)
    /\ UNCHANGED <<fleet, frozen, cordoned, symptoms, unanswered, console, faults, manual>>

\* The command dies: an error that main does not catch, a ValueError of the
\* node map, or the console's SIGKILL.
Die(r) ==
    /\ cli[r].at \in Busy
    /\ Fault
    /\ Exits(r, FALSE)
    /\ UNCHANGED <<fleet, world, unanswered, console, manual>>

\* The steps of the command of r.
Works(r) ==
    \/ EndSilences(r)
    \/ PostCrac(r) \/ PostSpike(r) \/ PostHang(r) \/ Pause(r) \/ PostUnhang(r) \/ PostSymptoms(r)
    \/ PostClear(r) \/ ReadStatus(r) \/ PowerOn(r) \/ Unpause(r) \/ Uncordon(r)
    \/ ListStale(r) \/ Expire(r) \/ Silence(r)

----------------------------------------------------------------------------
\* The BMC

\* The handler of /chaos/clear goes on whoever waits for it.
Clearing ==
    /\ ClearMachine
    /\ unanswered' = IF clearing' = {} /\ ticking # Idle
                     THEN {r \in Requests : cli[r].at = "clearing"} ELSE unanswered
    /\ UNCHANGED <<world, cli, console, faults, manual>>

ClearAnswered(r) ==
    /\ At(r, "clearing") /\ clearing = {}
    /\ Goes(r, "status")
    /\ UNCHANGED <<fleet, world, unanswered, console, faults, manual>>

\* Between two ticks the event loop sends what there is to send.
TickBegins ==
    /\ TickStart
    /\ unanswered' = {}
    /\ UNCHANGED <<world, cli, console, faults, manual>>

TickGoesOn ==
    /\ TickStep
    /\ UNCHANGED <<world, cli, unanswered, console, faults, manual>>

----------------------------------------------------------------------------
\* The console

Runs(r, cmd) ==
    /\ cli' = [cli EXCEPT ![r] = Started(cmd)]
    /\ unanswered' = unanswered \ {r}

Stays == UNCHANGED <<fleet, world, cli, unanswered, manual>>

\* Mutated form of Free: the run that is at work is not looked at.
FreeWhileRunning == ~starting

\* No other post holds the lab and no run is at work; else the answer is 409.
Free == ~starting /\ ~running

\* Posts are alike: the next one is a fixed one of those not in use.
Slot ==
    IF \E r \in Requests : request[r].at = "idle"
    THEN CHOOSE r \in Requests : request[r].at = "idle" ELSE NoRequest

\* What a take sets up begins with hush-chaos clear.
Post(r, scenario) ==
    /\ r = Slot
    /\ Free
    /\ starting' = TRUE
    /\ request' = [request EXCEPT ![r] = [at |-> "clear", scenario |-> scenario]]
    /\ Runs(r, "clear")
    /\ UNCHANGED <<fleet, world, running, child, faults, manual>>

\* The command of this stage has exited.
Exited(r, stage, ok) == request[r].at = stage /\ cli[r].at = "exited" /\ cli[r].ok = ok

To(r, stage) ==
    /\ request' = [request EXCEPT ![r].at = stage]
    /\ UNCHANGED <<starting, running, child>>

Inject(r) ==
    /\ Exited(r, "clear", TRUE)
    /\ To(r, "inject")
    /\ Runs(r, request[r].scenario)
    /\ UNCHANGED <<fleet, world, faults, manual>>

\* The lab could not be cleared: nothing has been injected.
ClearFailed(r) ==
    /\ Exited(r, "clear", FALSE)
    /\ To(r, "failed")
    /\ Stays /\ UNCHANGED faults

\* Mutated form of InjectFailed: the error goes straight to the answer.
InjectFailedNotUndone(r) ==
    /\ Exited(r, "inject", FALSE)
    /\ To(r, "failed")
    /\ Stays /\ UNCHANGED faults

\* A scenario that failed on the way is rolled back.
InjectFailed(r) ==
    /\ Exited(r, "inject", FALSE)
    /\ To(r, "undo")
    /\ Runs(r, "clear")
    /\ UNCHANGED <<fleet, world, faults, manual>>

Injected(r) ==
    /\ Exited(r, "inject", TRUE)
    /\ To(r, "spawn")
    /\ Stays /\ UNCHANGED faults

Spawn(r) ==
    /\ request[r].at = "spawn"
    /\ child' = TRUE /\ running' = TRUE
    /\ request' = [request EXCEPT ![r].at = "accepted"]
    /\ UNCHANGED starting
    /\ Stays /\ UNCHANGED faults

SpawnFailed(r) ==
    /\ request[r].at = "spawn"
    /\ Fault
    /\ To(r, "undo")
    /\ Runs(r, "clear")
    /\ UNCHANGED <<fleet, world, manual>>

\* Whether the rollback worked is not looked at.
Undone(r) ==
    /\ \E ok \in BOOLEAN : Exited(r, "undo", ok)
    /\ To(r, "failed")
    /\ Stays /\ UNCHANGED faults

\* Mutated form of Answer: the flag is reset only when all went well.
AnswerFlagKept(r) ==
    /\ request[r].at \in {"accepted", "failed"}
    /\ starting' = (request[r].at = "failed")
    /\ request' = [request EXCEPT ![r] = NoPost]
    /\ cli' = [cli EXCEPT ![r] = NoCommand]
    /\ UNCHANGED <<fleet, world, unanswered, running, child, faults, manual>>

Answer(r) ==
    /\ request[r].at \in {"accepted", "failed"}
    /\ starting' = FALSE
    /\ request' = [request EXCEPT ![r] = NoPost]
    /\ cli' = [cli EXCEPT ![r] = NoCommand]
    /\ UNCHANGED <<fleet, world, unanswered, running, child, faults, manual>>

Handler(r) ==
    \/ Inject(r) \/ ClearFailed(r) \/ InjectFailed(r) \/ Injected(r)
    \/ Spawn(r) \/ SpawnFailed(r) \/ Undone(r) \/ Answer(r)

\* The run's process ends, and the console sees it.
RunEnds ==
    /\ child
    /\ child' = FALSE
    /\ UNCHANGED <<request, starting, running>>
    /\ Stays /\ UNCHANGED faults

ExitSeen ==
    /\ running /\ ~child
    /\ running' = FALSE
    /\ UNCHANGED <<request, starting, child>>
    /\ Stays /\ UNCHANGED faults

----------------------------------------------------------------------------
\* What the run's tool calls do to the lab, and what is done to it by hand

AgentActs ==
    /\ child
    /\ \/ \E type \in {"ForceRestart", "ForceOff", "GracefulShutdown"} :
             Reset(Host, type) /\ UNCHANGED world
       \/ \E node \in [frozen: {frozen, FALSE}, cordoned: BOOLEAN] :
             /\ frozen' = node.frozen /\ cordoned' = node.cordoned
             /\ UNCHANGED <<fleet, symptoms, silences>>
       \/ silences' = silences \cup {"hush"} /\ UNCHANGED <<fleet, frozen, cordoned, symptoms>>
    /\ UNCHANGED <<cli, unanswered, console, faults, manual>>

ByHand ==
    /\ ~starting /\ ~running
    /\ manual < MaxManual
    /\ manual' = manual + 1
    /\ \/ \E m \in Machines, p \in Psus : PsuFail(m, p) \/ PsuRestore(m, p)
       \/ \E m \in Machines : ThermalSpike(m) \/ Hang(m) \/ Unhang(m) \/ Reset(m, "ForceOff")
       \/ CracFail \/ CracRestore
    /\ UNCHANGED <<world, cli, unanswered, console, faults>>

----------------------------------------------------------------------------

Next ==
    \/ \E r \in Requests :
          \/ \E scenario \in Scenarios : Post(r, scenario)
          \/ Handler(r) \/ Works(r) \/ ClearAnswered(r) \/ Die(r)
    \/ Clearing \/ TickBegins \/ TickGoesOn
    \/ RunEnds \/ ExitSeen \/ AgentActs \/ ByHand

\* Every call of a command and of a handler has a timeout; the server's
\* threads go on; nothing makes anybody press the button, the run end or a
\* step fail.
Fairness ==
    /\ \A r \in Requests : WF_vars(Handler(r)) /\ WF_vars(Works(r)) /\ WF_vars(ClearAnswered(r))
    /\ WF_vars(Clearing) /\ WF_vars(TickGoesOn)

Spec == Init /\ [][Next]_vars /\ Fairness

----------------------------------------------------------------------------

TypeOK ==
    /\ FleetTypeOK
    /\ frozen \in BOOLEAN /\ cordoned \in BOOLEAN /\ symptoms \in BOOLEAN
    /\ silences \subseteq Authors
    /\ cli \in [Requests -> Command]
    /\ unanswered \subseteq Requests
    /\ request \in [Requests -> [at: Stages, scenario: Scenarios]]
    /\ starting \in BOOLEAN /\ running \in BOOLEAN /\ child \in BOOLEAN
    /\ faults \in 0 .. MaxFaults /\ manual \in 0 .. MaxManual

\* No fault of a scenario is left in the lab but a node that docker did not
\* thaw, which the command does not look at.  A machine may be off only
\* because it is still so hot from the last take that it has tripped again.
NothingLeft(r) ==
    /\ ~ambient /\ ~cordoned
    /\ frozen => cli[r].refused
    /\ symptoms => silences # {}
    /\ \A m \in Machines :
          LET q == machine[m] IN
          ~q.spiked /\ q.lost = {} /\ ~q.hung /\ (q.power = "On" \/ q.trip)

\* A clear that exits 0 has put the lab back, all but a node docker refused to
\* thaw, though scenarios.py:101 says nodes are thawed: the room cool, no
\* fault on a machine, the machines on, the node schedulable and the symptoms
\* gone or silenced.  So it is whatever the last takes, their runs and the
\* hands in between left in it, and whatever the tick loop did between the
\* clear, the status and the resets (scenarios.py:100-144).
ClearRestores ==
    \A r \in Requests :
        request[r].at \in {"clear", "undo"} /\ cli[r].at = "exited" /\ cli[r].ok => NothingLeft(r)

\* A post that is answered with an error leaves no half-injected fault to the
\* next take, unless the command that should put the lab back failed itself
\* or docker refused it to thaw the node (ui-server.ts:244-250, 312-317).
FailedPostIsUndone ==
    \A r \in Requests :
        request[r].at = "failed" => NothingLeft(r) \/ (cli[r].cmd = "clear" /\ ~cli[r].ok)

\* When the run starts, the symptoms of its scenario are to be seen on the
\* bus: no silence of the last clear or the last run swallows them
\* (scenarios.py:33-45).
StormIsVisible ==
    \A r \in Requests : request[r].at = "spawn" => symptoms /\ silences = {}

\* The run of a hang is shown a node that does stand still, on a machine that
\* is hung or has lost its power since: NotReady is not claimed of a healthy
\* node (scenarios.py:88-92).
HangIsReal ==
    \A r \in Requests :
        request[r].at = "spawn" /\ request[r].scenario = "hang" =>
            frozen /\ (machine[Host].hung \/ machine[Host].power = "Off")

\* Who sets up a take: the post that is on its way.
Taker ==
    IF \E r \in Requests : request[r].at # "idle"
    THEN CHOOSE r \in Requests : request[r].at # "idle"
    ELSE NoRequest

T == INSTANCE Take WITH Takers <- Requests, NoTaker <- NoRequest, taker <- Taker, live <- child

\* The two flags make one take at a time of it: no two posts set the lab up at
\* once, and none does while a run is at work (ui-server.ts:304-320).
OneTakeAtATime == T!Spec

\* Every post is answered, however its commands and the spawn fail, and the
\* button works again (ui-server.ts:310-321).
EveryPostAnswered == starting ~> ~starting

============================================================================
