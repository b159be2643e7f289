--------------------------- MODULE ChaosLabProofs ---------------------------
(***************************************************************************)
(* Theorems about ChaosLab for any number of machines, posts, failures and *)
(* changes by hand: a tripped machine is off, clearing chaos switches on   *)
(* nothing that somebody powered off, the console's two flags make one     *)
(* take at a time, and a take's commands do what they say: a clear that    *)
(* exits 0 has put the lab back, a scenario that exits 0 can be seen.      *)
(***************************************************************************)
EXTENDS ChaosLab, TLAPS

----------------------------------------------------------------------------
\* The machines.  What every operation of Fleet keeps: types, that a machine
\* whose trip stands is off, and that one which somebody powered off is not
\* taken for one that chaos switched off.

\* A machine in agreement with itself.
Sound(r) ==
    /\ r.trip => r.power = "Off"
    /\ r.offBy = "command" => r.power = "Off" /\ ~r.chaosOff

SoundMachines == {r \in Machine : Sound(r)}

FleetInv ==
    /\ machine \in [Machines -> SoundMachines]
    /\ ambient \in BOOLEAN
    /\ ticking \in [left: SUBSET Machines, at: Machines \cup {Nobody}, block: Blocks, rises: BOOLEAN]
    /\ clearing \subseteq Machines

\* All that a request or the tick loop does to the fleet in one step.
FleetStep ==
    \/ \E m \in Machines :
          \/ \E type \in {"On", "ForceRestart", "GracefulRestart", "ForceOff", "GracefulShutdown"} :
                Reset(m, type)
          \/ \E p \in Psus : PsuFail(m, p) \/ PsuRestore(m, p)
          \/ ThermalSpike(m) \/ Hang(m) \/ Unhang(m)
    \/ CracFail \/ CracRestore \/ ClearChaos \/ ClearMachine
    \/ TickStart \/ TickStep
    \/ UNCHANGED fleet

\* The invariant says what the two properties of the fleet need.
LEMMA FleetInvImplies == FleetInv => FleetTypeOK /\ TripMeansOff
BY DEF FleetInv, FleetTypeOK, TripMeansOff, SoundMachines, Sound

\* A fleet starts with every machine on (state.py:77-84).
LEMMA FleetInitInv == FleetInit => FleetInv
<1> SUFFICES ASSUME FleetInit PROVE FleetInv
  OBVIOUS
<1>1. PICK lost \in {{}, {1}} : machine = [m \in Machines |-> [NewMachine EXCEPT !.lost = lost]]
  BY DEF FleetInit
<1>2. [NewMachine EXCEPT !.lost = lost] \in SoundMachines
  BY DEF NewMachine, SoundMachines, Sound, Machine, Psus
<1> QED
  BY <1>1, <1>2 DEF FleetInit, FleetInv, Idle, Blocks

\* A reset leaves a machine in agreement with itself (state.py:162-186).
LEMMA ResetSound ==
    ASSUME NEW r \in SoundMachines,
           NEW type \in {"On", "ForceRestart", "GracefulRestart", "ForceOff", "GracefulShutdown"}
    PROVE  AfterReset(r, type) \in SoundMachines
<1>1. PoweredOn(r) \in SoundMachines
  BY DEF SoundMachines, Sound, Machine, PoweredOn
<1>2. PoweredOff(r) \in SoundMachines
  BY DEF SoundMachines, Sound, Machine, PoweredOff
<1> QED
  BY <1>1, <1>2 DEF AfterReset

\* So does clear_chaos: it powers on what it also relieves of its trip
\* (state.py:240-248).
LEMMA ClearedSound ==
    ASSUME NEW r \in SoundMachines
    PROVE  Cleared(r) \in SoundMachines
BY DEF SoundMachines, Sound, Machine, Cleared

\* And a trip, which takes a machine for switched off by chaos only if it ran
\* (state.py:142-146).
LEMMA TrippedSound ==
    ASSUME NEW r \in SoundMachines
    PROVE  Tripped(r) \in SoundMachines
BY DEF SoundMachines, Sound, Machine, Tripped

\* A request that changes one machine to a sound one (chaos.py:51-57).
LEMMA ChangedInv ==
    ASSUME FleetInv, NEW m \in Machines, NEW r \in SoundMachines, Changed(m, r)
    PROVE  FleetInv'
BY DEF FleetInv, Changed

\* No step of a tick leaves a machine at odds with itself, whatever requests
\* came between it and the step before (state.py:112-152).
LEMMA TickInv ==
    ASSUME FleetInv, TickStep
    PROVE  FleetInv'
<1> DEFINE m == ticking.at
           r == machine[m]
<1>1. ticking.at # Nobody
  BY DEF TickStep, TickSense, TickHeat, TickPsu, TickTrip
<1>2. m \in Machines /\ r \in SoundMachines
  BY <1>1 DEF FleetInv
<1>3. CASE TickSense
  <2>1. PICK spiked \in {r.spiked, FALSE} :
           /\ machine' = [machine EXCEPT ![m].spiked = spiked]
           /\ ticking' = [ticking EXCEPT !.block = "heat",
                             !.rises = r.power = "On" /\ ~r.trip /\ (spiked \/ ambient)]
    BY <1>3 DEF TickSense
  <2>2. [r EXCEPT !.spiked = spiked] \in SoundMachines
    BY <1>2 DEF SoundMachines, Sound, Machine
  <2>3. machine' \in [Machines -> SoundMachines]
    BY <1>2, <2>1, <2>2 DEF FleetInv
  <2>4. (r.power = "On" /\ ~r.trip /\ (spiked \/ ambient)) \in BOOLEAN
    OBVIOUS
  <2>5. ticking' \in [left: SUBSET Machines, at: Machines \cup {Nobody}, block: Blocks, rises: BOOLEAN]
    BY <2>1, <2>4 DEF FleetInv, Blocks
  <2> QED
    BY <1>3, <2>3, <2>5 DEF FleetInv, TickSense
<1>4. CASE TickHeat
  <2>1. PICK over \in BOOLEAN : machine' = [machine EXCEPT ![m].over = over]
    BY <1>4 DEF TickHeat
  <2>2. [r EXCEPT !.over = over] \in SoundMachines
    BY <1>2 DEF SoundMachines, Sound, Machine
  <2>3. machine' \in [Machines -> SoundMachines]
    BY <1>2, <2>1, <2>2 DEF FleetInv
  <2> QED
    BY <1>4, <2>3 DEF FleetInv, TickHeat, Blocks
<1>5. CASE TickPsu
  <2>1. [r EXCEPT !.chaosOff = TRUE, !.power = "Off", !.hung = FALSE, !.offBy = "fault"]
           \in SoundMachines
    BY <1>2 DEF SoundMachines, Sound, Machine
  <2>2. machine' \in [Machines -> SoundMachines]
    BY <1>2, <1>5, <2>1 DEF FleetInv, TickPsu
  <2> QED
    BY <1>5, <2>2 DEF FleetInv, TickPsu, Blocks
<1>6. CASE TickTrip
  <2>1. Tripped(r) \in SoundMachines
    BY <1>2, TrippedSound
  <2>2. machine' \in [Machines -> SoundMachines]
    BY <1>2, <1>6, <2>1 DEF FleetInv, TickTrip
  <2>3. ticking' \in [left: SUBSET Machines, at: Machines \cup {Nobody}, block: Blocks, rises: BOOLEAN]
    <3>1. CASE ticking.left = {}
      <4>1. ticking' = Idle
        BY <1>6, <3>1 DEF TickTrip
      <4>2. Idle \in [left: SUBSET Machines, at: Machines \cup {Nobody}, block: Blocks, rises: BOOLEAN]
        BY DEF Idle, Blocks
      <4> QED
        BY <4>1, <4>2
    <3>2. CASE ticking.left # {}
      <4>1. PICK n \in ticking.left :
               ticking' = [left |-> ticking.left \ {n}, at |-> n, block |-> "sense", rises |-> FALSE]
        BY <1>6, <3>2 DEF TickTrip
      <4>2. ticking.left \subseteq Machines
        BY DEF FleetInv
      <4> QED
        BY <4>1, <4>2 DEF Blocks
    <3> QED
      BY <3>1, <3>2
  <2> QED
    BY <1>6, <2>2, <2>3 DEF FleetInv, TickTrip
<1> QED
  BY <1>3, <1>4, <1>5, <1>6 DEF TickStep

\* Every step of the fleet keeps its machines sound, however requests, clears
\* and ticks fall between each other (state.py:112-248).
LEMMA FleetStepInv ==
    ASSUME FleetInv, FleetStep
    PROVE  FleetInv'
<1>1. ASSUME NEW m \in Machines,
             NEW type \in {"On", "ForceRestart", "GracefulRestart", "ForceOff", "GracefulShutdown"},
             Reset(m, type)
      PROVE  FleetInv'
  <2>1. machine[m] \in SoundMachines
    BY DEF FleetInv
  <2> QED
    BY <1>1, <2>1, ResetSound, ChangedInv DEF Reset
<1>2. ASSUME NEW m \in Machines, NEW p \in Psus, PsuFail(m, p) \/ PsuRestore(m, p)
      PROVE  FleetInv'
  <2>1. /\ [machine[m] EXCEPT !.lost = @ \cup {p}] \in SoundMachines
        /\ [machine[m] EXCEPT !.lost = @ \ {p}] \in SoundMachines
    BY DEF FleetInv, SoundMachines, Sound, Machine
  <2> QED
    BY <1>2, <2>1, ChangedInv DEF PsuFail, PsuRestore
<1>3. ASSUME NEW m \in Machines, ThermalSpike(m) \/ Hang(m) \/ Unhang(m)
      PROVE  FleetInv'
  <2>1. /\ [machine[m] EXCEPT !.spiked = TRUE] \in SoundMachines
        /\ [machine[m] EXCEPT !.hung = TRUE] \in SoundMachines
        /\ [machine[m] EXCEPT !.hung = FALSE] \in SoundMachines
    BY DEF FleetInv, SoundMachines, Sound, Machine
  <2> QED
    BY <1>3, <2>1, ChangedInv DEF ThermalSpike, Hang, Unhang
<1>4. CASE CracFail \/ CracRestore \/ ClearChaos
  BY <1>4 DEF FleetInv, CracFail, CracRestore, ClearChaos
<1>5. CASE ClearMachine
  <2>1. PICK m \in clearing :
           /\ machine' = [machine EXCEPT ![m] = Cleared(@)]
           /\ clearing' = clearing \ {m}
    BY <1>5 DEF ClearMachine
  <2>2. m \in Machines /\ Cleared(machine[m]) \in SoundMachines
    BY <2>1, ClearedSound DEF FleetInv
  <2>3. machine' \in [Machines -> SoundMachines]
    BY <2>1, <2>2 DEF FleetInv
  <2> QED
    BY <1>5, <2>1, <2>3 DEF FleetInv, ClearMachine
<1>6. CASE TickStart
  BY <1>6 DEF FleetInv, TickStart, Blocks
<1>7. CASE TickStep
  BY <1>7, TickInv
<1>8. CASE UNCHANGED fleet
  BY <1>8 DEF FleetInv, fleet
<1> QED
  BY <1>1, <1>2, <1>3, <1>4, <1>5, <1>6, <1>7, <1>8 DEF FleetStep

\* What clear_chaos reaches and somebody had powered off stays off
\* (state.py:246-247).
LEMMA FleetStepLeavesOff ==
    ASSUME FleetInv, FleetStep, NEW m \in Machines,
           m \in clearing, m \notin clearing', machine[m].offBy = "command"
    PROVE  machine'[m].power = "Off"
<1>1. ClearMachine
  BY DEF FleetStep, Reset, PsuFail, PsuRestore, ThermalSpike, Hang, Unhang, Changed, CracFail,
         CracRestore, ClearChaos, TickStart, TickStep, TickSense, TickHeat, TickPsu, TickTrip, fleet
<1>2. machine' = [machine EXCEPT ![m] = Cleared(@)]
  BY <1>1 DEF ClearMachine
<1>3. machine[m] \in Machine /\ machine[m].power = "Off" /\ ~machine[m].chaosOff
  BY DEF FleetInv, SoundMachines, Sound
<1> QED
  BY <1>2, <1>3 DEF Cleared, Machine, FleetInv

----------------------------------------------------------------------------
\* The commands, the console and the world around them.

\* A command goes over machines only where it posts to them.
Commands == {q \in Command : q.at \in {"spike", "power"} => q.todo \subseteq Machines}

CliInv == cli \in [Requests -> Commands]

WorldInv ==
    /\ frozen \in BOOLEAN /\ cordoned \in BOOLEAN /\ symptoms \in BOOLEAN
    /\ silences \subseteq Authors
    /\ unanswered \subseteq Requests

CountersInv == faults \in 0 .. MaxFaults /\ manual \in 0 .. MaxManual

Active(r) == request[r].at # "idle"

\* A post that is being handled holds the lab by incidentStarting, and no run
\* is at work before it has spawned one; a live run is known to the console.
TakeInv ==
    /\ request \in [Requests -> [at: Stages, scenario: Scenarios]]
    /\ starting \in BOOLEAN /\ running \in BOOLEAN /\ child \in BOOLEAN
    /\ \A r, s \in Requests : Active(r) /\ Active(s) => r = s
    /\ starting <=> \E r \in Requests : Active(r)
    /\ child => running
    /\ \A r \in Requests : request[r].at \in {"clear", "inject", "undo", "spawn"} => ~running

IInv == FleetInv /\ CliInv /\ WorldInv /\ CountersInv /\ TakeInv

\* The handler of the console and what it starts, apart from the commands.
Console ==
    \/ \E r \in Requests :
          \/ \E scenario \in Scenarios : Post(r, scenario)
          \/ Handler(r)
    \/ RunEnds \/ ExitSeen

----------------------------------------------------------------------------
\* The fleet

\* The lab changes its machines by nothing but the fleet's own operations
\* (scenarios.py, chaos.py, redfish.py).
LEMMA NextFleet ==
    ASSUME CliInv, [Next]_vars
    PROVE  FleetStep
<1>1. Host \in Machines /\ SpikeSystems \subseteq Machines
  BY LabAssumption
<1>2. ASSUME NEW r \in Requests, NEW scenario \in Scenarios, Post(r, scenario)
      PROVE  FleetStep
  BY <1>2 DEF Post, FleetStep
<1>3. ASSUME NEW r \in Requests, Handler(r)
      PROVE  FleetStep
  BY <1>3 DEF Handler, Inject, ClearFailed, InjectFailed, Injected, Spawn, SpawnFailed, Undone,
              Answer, Stays, FleetStep
<1>4. ASSUME NEW r \in Requests, Works(r)
      PROVE  FleetStep
  <2>1. CASE PostCrac(r)
    BY <2>1 DEF PostCrac, FleetStep
  <2>2. CASE PostSpike(r)
    <3>1. PICK m \in cli[r].todo : ThermalSpike(m)
      BY <2>2 DEF PostSpike
    <3>2. m \in Machines
      BY <2>2 DEF PostSpike, At, CliInv, Commands
    <3> QED
      BY <3>1, <3>2 DEF FleetStep
  <2>3. CASE PostHang(r) \/ PostUnhang(r)
    BY <1>1, <2>3 DEF PostHang, PostUnhang, FleetStep
  <2>4. CASE PostClear(r)
    BY <2>4 DEF PostClear, FleetStep
  <2>5. CASE PowerOn(r)
    <3>1. PICK m \in cli[r].todo : Reset(m, "On")
      BY <2>5 DEF PowerOn
    <3>2. m \in Machines
      BY <2>5 DEF PowerOn, At, CliInv, Commands
    <3> QED
      BY <3>1, <3>2 DEF FleetStep
  <2>6. CASE \/ EndSilences(r) \/ Pause(r) \/ PostSymptoms(r) \/ ReadStatus(r) \/ Unpause(r)
             \/ Uncordon(r) \/ ListStale(r) \/ Expire(r) \/ Silence(r)
    BY <2>6 DEF EndSilences, Pause, PostSymptoms, ReadStatus, Unpause, Uncordon, ListStale, Expire,
                Silence, FleetStep
  <2> QED
    BY <1>4, <2>1, <2>2, <2>3, <2>4, <2>5, <2>6 DEF Works
<1>5. ASSUME NEW r \in Requests, ClearAnswered(r) \/ Die(r)
      PROVE  FleetStep
  BY <1>5 DEF ClearAnswered, Die, FleetStep
<1>6. CASE Clearing \/ TickBegins \/ TickGoesOn
  BY <1>6 DEF Clearing, TickBegins, TickGoesOn, FleetStep
<1>7. CASE RunEnds \/ ExitSeen
  BY <1>7 DEF RunEnds, ExitSeen, Stays, FleetStep
<1>8. CASE AgentActs
  BY <1>1, <1>8 DEF AgentActs, FleetStep
<1>9. CASE ByHand
  BY <1>9 DEF ByHand, FleetStep
<1>10. CASE UNCHANGED vars
  BY <1>10 DEF vars, FleetStep
<1> QED
  BY <1>2, <1>3, <1>4, <1>5, <1>6, <1>7, <1>8, <1>9, <1>10 DEF Next

----------------------------------------------------------------------------
\* The commands

\* A command that goes to another step (cli.py:41-61).
LEMMA GoesOverInv ==
    ASSUME CliInv, NEW r \in Requests, NEW step \in Busy \ {"spike", "power"},
           Goes(r, step)
    PROVE  CliInv'
<1>1. cli[r] \in Commands
  BY DEF CliInv
<1> DEFINE q == [cli[r] EXCEPT !.at = step, !.todo = {}]
<1>2. q \in Commands
  BY <1>1 DEF Commands, Command, Busy
<1>3. cli' = [cli EXCEPT ![r] = q]
  BY <1>1 DEF Goes, Commands, Command, CliInv
<1> QED
  BY <1>2, <1>3 DEF CliInv

\* A command that starts on a set of machines (scenarios.py:54, 111).
LEMMA GoesOverMachinesInv ==
    ASSUME CliInv, NEW r \in Requests, NEW step \in Busy, NEW todo \in SUBSET Machines,
           GoesOver(r, step, todo)
    PROVE  CliInv'
<1>1. cli[r] \in Commands
  BY DEF CliInv
<1> DEFINE q == [cli[r] EXCEPT !.at = step, !.todo = todo]
<1>2. q \in Commands
  BY <1>1 DEF Commands, Command, Busy
<1>3. cli' = [cli EXCEPT ![r] = q]
  BY <1>1 DEF GoesOver, Commands, Command, CliInv
<1> QED
  BY <1>2, <1>3 DEF CliInv

\* A command that is done with one of what it has to do.
LEMMA DidInv ==
    ASSUME CliInv, NEW r \in Requests, NEW x, NEW step, Did(r, x, step),
           step \in (Busy \ {"spike", "power"}) \cup {"none"}
    PROVE  CliInv'
<1>1. cli[r] \in Commands
  BY DEF CliInv
<1> DEFINE q == [cli[r] EXCEPT !.todo = @ \ {x}, !.at = IF cli[r].todo = {x} THEN step ELSE @]
<1>2. q \in Commands
  BY <1>1 DEF Commands, Command, Busy
<1>3. cli' = [cli EXCEPT ![r] = q]
  BY <1>1 DEF Did, Commands, Command, CliInv
<1> QED
  BY <1>2, <1>3 DEF CliInv

\* A command that ends (cli.py:52-61).
LEMMA ExitsInv ==
    ASSUME CliInv, NEW r \in Requests, NEW ok \in BOOLEAN, Exits(r, ok)
    PROVE  CliInv'
<1>1. cli[r] \in Commands
  BY DEF CliInv
<1> DEFINE q == [cli[r] EXCEPT !.at = "exited", !.todo = {}, !.ok = ok]
<1>2. q \in Commands
  BY <1>1 DEF Commands, Command
<1>3. cli' = [cli EXCEPT ![r] = q]
  BY <1>1 DEF Exits, Commands, Command, CliInv
<1> QED
  BY <1>2, <1>3 DEF CliInv

\* A command that is started by the console (ui-server.ts:190-199).
LEMMA RunsInv ==
    ASSUME CliInv, NEW r \in Requests, NEW cmd \in {"clear"} \cup Scenarios, Runs(r, cmd)
    PROVE  CliInv'
<1>1. Started(cmd) \in Commands
  BY DEF Started, NoCommand, Commands, Command, SilenceAuthors, Authors, Busy
<1> QED
  BY <1>1 DEF CliInv, Runs

\* Every step of a command leaves it where a command may be (scenarios.py:48-144).
LEMMA WorksInv ==
    ASSUME CliInv, WorldInv, NEW r \in Requests, Works(r)
    PROVE  CliInv'
<1>1. CASE EndSilences(r)
  <2>1. PICK a \in cli[r].todo : Did(r, a, cli[r].cmd)
    BY <1>1 DEF EndSilences
  <2>2. cli[r].cmd \in {"none", "clear", "hang", "crac"}
    BY DEF CliInv, Commands, Command, Scenarios
  <2> QED
    BY <2>1, <2>2, DidInv DEF Busy
<1>2. CASE PostCrac(r)
  <2>1. (IF SpikeSystems = {} THEN "symptoms" ELSE "spike") \in Busy /\ SpikeSystems \in SUBSET Machines
    BY LabAssumption DEF Busy
  <2> QED
    BY <1>2, <2>1, GoesOverMachinesInv DEF PostCrac
<1>3. CASE PostSpike(r)
  BY <1>3, DidInv DEF PostSpike, Busy
<1>4. CASE PostHang(r) \/ PostClear(r) \/ Expire(r)
  BY <1>4, GoesOverInv DEF PostHang, PostClear, Expire, Busy
<1>5. CASE Pause(r)
  BY <1>5, GoesOverInv DEF Pause, Busy
<1>6. CASE PostUnhang(r) \/ PostSymptoms(r)
  BY <1>6, ExitsInv DEF PostUnhang, PostSymptoms
<1>7. CASE ReadStatus(r)
  <2> DEFINE off == {m \in Machines : machine[m].trip \/ machine[m].power # "On"}
  <2>1. GoesOver(r, IF off = {} THEN "unpause" ELSE "power", off)
    BY <1>7 DEF ReadStatus
  <2>2. (IF off = {} THEN "unpause" ELSE "power") \in Busy /\ off \in SUBSET Machines
    BY DEF Busy
  <2> HIDE DEF off
  <2> QED
    BY <2>1, <2>2, GoesOverMachinesInv
<1>8. CASE PowerOn(r)
  BY <1>8, DidInv DEF PowerOn, Busy
<1>9. CASE Unpause(r)
  <2>1. frozen' \in BOOLEAN
    BY <1>9 DEF Unpause, WorldInv
  <2>2. cli[r] \in Commands
    BY DEF CliInv
  <2> DEFINE q == [cli[r] EXCEPT !.at = "uncordon", !.refused = frozen']
  <2>3. q \in Commands
    BY <2>1, <2>2 DEF Commands, Command, Busy
  <2>4. cli' = [cli EXCEPT ![r] = q]
    BY <1>9, <2>2 DEF Unpause, Commands, Command, CliInv
  <2> QED
    BY <2>3, <2>4 DEF CliInv
<1>10. CASE Uncordon(r)
  <2>1. CASE Goes(r, "stale")
    BY <2>1, GoesOverInv DEF Busy
  <2>2. CASE cli' = [cli EXCEPT ![r].at = "stale", ![r].failed = TRUE]
    <3>1. cli[r] \in Commands
      BY DEF CliInv
    <3> DEFINE q == [cli[r] EXCEPT !.at = "stale", !.failed = TRUE]
    <3>2. q \in Commands
      BY <3>1 DEF Commands, Command, Busy
    <3>3. cli' = [cli EXCEPT ![r] = q]
      BY <2>2, <3>1 DEF Commands, Command, CliInv
    <3> QED
      BY <3>2, <3>3 DEF CliInv
  <2> QED
    BY <1>10, <2>1, <2>2 DEF Uncordon
<1>11. CASE ListStale(r) \/ Silence(r)
  <2>1. (~cli[r].failed) \in BOOLEAN
    OBVIOUS
  <2> QED
    BY <1>11, <2>1, GoesOverInv, ExitsInv DEF ListStale, Silence, Busy
<1> QED
  BY <1>1, <1>2, <1>3, <1>4, <1>5, <1>6, <1>7, <1>8, <1>9, <1>10, <1>11 DEF Works

\* So does every other step of the lab.
LEMMA NextCli ==
    ASSUME CliInv, WorldInv, TakeInv, [Next]_vars
    PROVE  CliInv'
<1>1. ASSUME NEW r \in Requests, NEW scenario \in Scenarios, Post(r, scenario)
      PROVE  CliInv'
  BY <1>1, RunsInv DEF Post
<1>2. ASSUME NEW r \in Requests, Handler(r)
      PROVE  CliInv'
  <2>1. CASE Inject(r)
    <3>1. PICK cmd \in Scenarios : Runs(r, cmd)
      BY <2>1 DEF Inject, TakeInv
    <3> QED
      BY <3>1, RunsInv
  <2>2. CASE InjectFailed(r) \/ SpawnFailed(r)
    BY <2>2, RunsInv DEF InjectFailed, SpawnFailed
  <2>3. CASE ClearFailed(r) \/ Injected(r) \/ Spawn(r) \/ Undone(r)
    BY <2>3 DEF ClearFailed, Injected, Spawn, Undone, Stays, CliInv
  <2>4. CASE Answer(r)
    <3>1. NoCommand \in Commands
      BY DEF NoCommand, Commands, Command
    <3> QED
      BY <2>4, <3>1 DEF Answer, CliInv
  <2> QED
    BY <1>2, <2>1, <2>2, <2>3, <2>4 DEF Handler
<1>3. ASSUME NEW r \in Requests, Works(r)
      PROVE  CliInv'
  BY <1>3, WorksInv
<1>4. ASSUME NEW r \in Requests, ClearAnswered(r) \/ Die(r)
      PROVE  CliInv'
  BY <1>4, GoesOverInv, ExitsInv DEF ClearAnswered, Die, Busy
<1>5. CASE Clearing \/ TickBegins \/ TickGoesOn
  BY <1>5 DEF Clearing, TickBegins, TickGoesOn, CliInv
<1>6. CASE RunEnds \/ ExitSeen \/ AgentActs \/ ByHand
  BY <1>6 DEF RunEnds, ExitSeen, AgentActs, ByHand, Stays, CliInv
<1>7. CASE UNCHANGED vars
  BY <1>7 DEF vars, CliInv
<1> QED
  BY <1>1, <1>2, <1>3, <1>4, <1>5, <1>6, <1>7 DEF Next

----------------------------------------------------------------------------
\* The node, the alarm bus and the counters

\* Commands change the world within its types (scenarios.py:33-144).
LEMMA CommandsWorld ==
    ASSUME WorldInv, NEW r \in Requests, Works(r) \/ ClearAnswered(r) \/ Die(r)
    PROVE  WorldInv'
<1>1. CASE EndSilences(r)
  BY <1>1 DEF EndSilences, WorldInv
<1>2. CASE PostCrac(r) \/ PostSpike(r) \/ PostHang(r) \/ PostUnhang(r) \/ ReadStatus(r) \/ PowerOn(r)
  BY <1>2 DEF PostCrac, PostSpike, PostHang, PostUnhang, ReadStatus, PowerOn, Handled, world, WorldInv
<1>3. CASE Pause(r)
  BY <1>3 DEF Pause, WorldInv
<1>4. CASE PostSymptoms(r) \/ Silence(r)
  BY <1>4 DEF PostSymptoms, Silence, Authors, WorldInv
<1>5. CASE PostClear(r) \/ ListStale(r) \/ ClearAnswered(r)
  BY <1>5 DEF PostClear, ListStale, ClearAnswered, world, WorldInv
<1>6. CASE Unpause(r)
  BY <1>6 DEF Unpause, WorldInv
<1>7. CASE Uncordon(r)
  BY <1>7 DEF Uncordon, WorldInv
<1>8. CASE Expire(r)
  BY <1>8 DEF Expire, WorldInv
<1>9. CASE Die(r)
  BY <1>9 DEF Die, world, WorldInv
<1> QED
  BY <1>1, <1>2, <1>3, <1>4, <1>5, <1>6, <1>7, <1>8, <1>9 DEF Works

\* So does every other step of the lab.
LEMMA NextWorld ==
    ASSUME WorldInv, [Next]_vars
    PROVE  WorldInv'
<1>1. ASSUME NEW r \in Requests, NEW scenario \in Scenarios, Post(r, scenario)
      PROVE  WorldInv'
  BY <1>1 DEF Post, Runs, world, WorldInv
<1>2. ASSUME NEW r \in Requests, Handler(r)
      PROVE  WorldInv'
  <2>1. CASE Inject(r) \/ InjectFailed(r)
    BY <2>1 DEF Inject, InjectFailed, Runs, world, WorldInv
  <2>2. CASE SpawnFailed(r)
    BY <2>2 DEF SpawnFailed, Runs, world, WorldInv
  <2>3. CASE ClearFailed(r) \/ Injected(r) \/ Spawn(r) \/ Undone(r)
    BY <2>3 DEF ClearFailed, Injected, Spawn, Undone, Stays, world, WorldInv
  <2>4. CASE Answer(r)
    BY <2>4 DEF Answer, world, WorldInv
  <2> QED
    BY <1>2, <2>1, <2>2, <2>3, <2>4 DEF Handler
<1>3. ASSUME NEW r \in Requests, Works(r) \/ ClearAnswered(r) \/ Die(r)
      PROVE  WorldInv'
  BY <1>3, CommandsWorld
<1>4. CASE Clearing \/ TickBegins \/ TickGoesOn
  BY <1>4 DEF Clearing, TickBegins, TickGoesOn, world, WorldInv
<1>5. CASE RunEnds \/ ExitSeen
  BY <1>5 DEF RunEnds, ExitSeen, Stays, world, WorldInv
<1>6. CASE AgentActs
  BY <1>6 DEF AgentActs, Authors, world, WorldInv
<1>7. CASE ByHand
  BY <1>7 DEF ByHand, world, WorldInv
<1>8. CASE UNCHANGED vars
  BY <1>8 DEF vars, world, WorldInv
<1> QED
  BY <1>1, <1>2, <1>3, <1>4, <1>5, <1>6, <1>7, <1>8 DEF Next

\* The two bounds hold: a failure is counted by Fault, a change by hand in its
\* own action.
LEMMA NextCounters ==
    ASSUME CountersInv, [Next]_vars
    PROVE  CountersInv'
<1> USE LabAssumption DEF CountersInv
<1>1. ASSUME UNCHANGED manual, Fault \/ UNCHANGED faults
      PROVE  CountersInv'
  BY <1>1 DEF Fault
<1>2. ASSUME NEW r \in Requests, NEW scenario \in Scenarios, Post(r, scenario)
      PROVE  CountersInv'
  BY <1>1, <1>2 DEF Post
<1>3. ASSUME NEW r \in Requests, Handler(r)
      PROVE  CountersInv'
  BY <1>1, <1>3 DEF Handler, Inject, ClearFailed, InjectFailed, Injected, Spawn, SpawnFailed, Undone,
                    Answer, Stays
<1>4. ASSUME NEW r \in Requests, Works(r)
      PROVE  CountersInv'
  BY <1>1, <1>4 DEF Works, EndSilences, PostCrac, PostSpike, PostHang, Pause, PostUnhang,
                    PostSymptoms, PostClear, ReadStatus, PowerOn, Unpause, Uncordon, ListStale,
                    Expire, Silence
<1>5. ASSUME NEW r \in Requests, ClearAnswered(r) \/ Die(r)
      PROVE  CountersInv'
  BY <1>1, <1>5 DEF ClearAnswered, Die
<1>6. CASE Clearing \/ TickBegins \/ TickGoesOn \/ RunEnds \/ ExitSeen \/ AgentActs
  BY <1>1, <1>6 DEF Clearing, TickBegins, TickGoesOn, RunEnds, ExitSeen, Stays, AgentActs
<1>7. CASE ByHand
  BY <1>7 DEF ByHand
<1>8. CASE UNCHANGED vars
  BY <1>1, <1>8 DEF vars
<1> QED
  BY <1>2, <1>3, <1>4, <1>5, <1>6, <1>7, <1>8 DEF Next

----------------------------------------------------------------------------
\* The console

\* All that is not the console leaves its state alone.
LEMMA NextConsole ==
    ASSUME [Next]_vars
    PROVE  Console \/ UNCHANGED console
<1>1. ASSUME NEW r \in Requests, Works(r)
      PROVE  UNCHANGED console
  BY <1>1 DEF Works, EndSilences, PostCrac, PostSpike, PostHang, Pause, PostUnhang, PostSymptoms,
              PostClear, ReadStatus, PowerOn, Unpause, Uncordon, ListStale, Expire, Silence
<1>2. ASSUME NEW r \in Requests, ClearAnswered(r) \/ Die(r)
      PROVE  UNCHANGED console
  BY <1>2 DEF ClearAnswered, Die
<1>3. CASE Clearing \/ TickBegins \/ TickGoesOn \/ AgentActs \/ ByHand
  BY <1>3 DEF Clearing, TickBegins, TickGoesOn, AgentActs, ByHand
<1>4. CASE UNCHANGED vars
  BY <1>4 DEF vars
<1> QED
  BY <1>1, <1>2, <1>3, <1>4 DEF Next, Console

\* A post that goes on to another stage keeps the lab, and no step but the
\* spawn has a run at work (ui-server.ts:236-274).
LEMMA ToInv ==
    ASSUME TakeInv, NEW r \in Requests, NEW stage \in Stages \ {"idle"}, Active(r), To(r, stage),
           stage \in {"clear", "inject", "undo", "spawn"} =>
               request[r].at \in {"clear", "inject", "undo", "spawn"}
    PROVE  TakeInv'
<1>1. request'[r].at = stage /\ \A s \in Requests \ {r} : request'[s] = request[s]
  BY DEF To, TakeInv
<1>2. request' \in [Requests -> [at: Stages, scenario: Scenarios]]
  BY DEF To, TakeInv
<1>3. \A s \in Requests : Active(s)' <=> Active(s)
  BY <1>1 DEF Active
<1>4. UNCHANGED <<starting, running, child>>
  BY DEF To
<1> QED
  BY <1>1, <1>2, <1>3, <1>4 DEF TakeInv

\* Of the posts being handled there is one, which holds the lab until it is
\* answered (ui-server.ts:304-321).
LEMMA ConsoleInv ==
    ASSUME TakeInv, Console
    PROVE  TakeInv'
<1>1. ASSUME NEW r \in Requests, NEW scenario \in Scenarios, Post(r, scenario)
      PROVE  TakeInv'
  <2>1. \A s \in Requests : ~Active(s)
    BY <1>1 DEF Post, Free, TakeInv
  <2>2. /\ request'[r].at = "clear"
        /\ \A s \in Requests \ {r} : request'[s] = request[s]
    BY <1>1 DEF Post, TakeInv
  <2>3. request' \in [Requests -> [at: Stages, scenario: Scenarios]]
    BY <1>1 DEF Post, TakeInv, Stages
  <2>4. \A s \in Requests : Active(s)' <=> s = r
    BY <2>1, <2>2 DEF Active
  <2>5. starting' = TRUE /\ ~running /\ UNCHANGED <<running, child>>
    BY <1>1 DEF Post, Free
  <2> QED
    BY <2>2, <2>3, <2>4, <2>5 DEF TakeInv, Active
<1>2. ASSUME NEW r \in Requests, Handler(r)
      PROVE  TakeInv'
  <2>1. CASE Inject(r) \/ ClearFailed(r) \/ InjectFailed(r) \/ Injected(r) \/ SpawnFailed(r) \/ Undone(r)
    BY <2>1, ToInv DEF Inject, ClearFailed, InjectFailed, Injected, SpawnFailed, Undone, Exited,
                       Active, Stages
  <2>2. CASE Spawn(r)
    <3>1. Active(r) /\ \A s \in Requests \ {r} : request'[s] = request[s] /\ ~Active(s)
      BY <2>2 DEF Spawn, Active, TakeInv
    <3>2. request'[r].at = "accepted"
      BY <2>2 DEF Spawn, TakeInv
    <3>3. request' \in [Requests -> [at: Stages, scenario: Scenarios]]
      BY <2>2 DEF Spawn, TakeInv, Stages
    <3>4. \A s \in Requests : Active(s)' <=> Active(s)
      BY <3>1, <3>2 DEF Active
    <3>5. running' = TRUE /\ child' = TRUE /\ starting' = starting
      BY <2>2 DEF Spawn
    <3>6. \A s \in Requests : request'[s].at \notin {"clear", "inject", "undo", "spawn"}
      BY <3>1, <3>2 DEF Active
    <3> QED
      BY <3>3, <3>4, <3>5, <3>6 DEF TakeInv
  <2>3. CASE Answer(r)
    <3>1. Active(r)
      BY <2>3 DEF Answer, Active
    <3>2. \A s \in Requests : ~Active(s)'
      BY <2>3, <3>1 DEF Answer, Active, TakeInv, NoPost
    <3>3. request' \in [Requests -> [at: Stages, scenario: Scenarios]]
      BY <2>3 DEF Answer, TakeInv, Stages, Scenarios, NoPost
    <3>4. starting' = FALSE /\ UNCHANGED <<running, child>>
      BY <2>3 DEF Answer
    <3> QED
      BY <3>2, <3>3, <3>4 DEF TakeInv, Active
  <2> QED
    BY <1>2, <2>1, <2>2, <2>3 DEF Handler
<1>3. CASE RunEnds
  BY <1>3 DEF RunEnds, TakeInv, Active
<1>4. CASE ExitSeen
  <2>1. UNCHANGED <<request, starting, child>> /\ running' = FALSE /\ ~child
    BY <1>4 DEF ExitSeen
  <2>2. \A r \in Requests : Active(r)' <=> Active(r)
    BY <2>1 DEF Active
  <2> QED
    BY <2>1, <2>2 DEF TakeInv
<1> QED
  BY <1>1, <1>2, <1>3, <1>4 DEF Console

\* Every step of the lab keeps the console's take.
LEMMA NextTake ==
    ASSUME TakeInv, [Next]_vars
    PROVE  TakeInv'
<1>1. CASE UNCHANGED console
  BY <1>1 DEF console, TakeInv, Active
<1> QED
  BY <1>1, NextConsole, ConsoleInv

----------------------------------------------------------------------------
\* The invariant

\* The lab starts sound.
LEMMA InitInv == Init => IInv
<1> SUFFICES ASSUME Init PROVE IInv
  OBVIOUS
<1>1. FleetInv
  BY FleetInitInv DEF Init
<1>2. NoCommand \in Commands
  BY DEF NoCommand, Commands, Command
<1>3. CliInv
  BY <1>2 DEF Init, CliInv
<1>4. WorldInv
  BY DEF Init, WorldInv
<1>5. CountersInv
  BY LabAssumption DEF Init, CountersInv
<1>6. TakeInv
  BY DEF Init, TakeInv, Active, NoPost, Stages, Scenarios
<1> QED
  BY <1>1, <1>3, <1>4, <1>5, <1>6 DEF IInv

\* Every step leaves it sound.
LEMMA NextInv == IInv /\ [Next]_vars => IInv'
<1> SUFFICES ASSUME IInv, [Next]_vars PROVE IInv'
  OBVIOUS
<1>1. FleetInv'
  BY NextFleet, FleetStepInv DEF IInv
<1> QED
  BY <1>1, NextCli, NextWorld, NextCounters, NextTake DEF IInv

\* The invariant holds in every behaviour of the lab.
THEOREM Invariance == Spec => []IInv
<1>1. Init => IInv
  BY InitInv
<1>2. IInv /\ [Next]_vars => IInv'
  BY NextInv
<1> QED
  BY <1>1, <1>2, PTL DEF Spec

\* Every variable of the lab keeps its type.
THEOREM TypeCorrect == Spec => []TypeOK
<1>1. ASSUME IInv PROVE TypeOK
  <2>1. FleetTypeOK
    BY <1>1, FleetInvImplies DEF IInv
  <2>2. cli \in [Requests -> Command]
    BY <1>1 DEF IInv, CliInv, Commands
  <2> QED
    BY <1>1, <2>1, <2>2 DEF IInv, WorldInv, CountersInv, TakeInv, TypeOK
<1> QED
  BY <1>1, Invariance, PTL

\* A machine whose thermal trip stands is off, whatever the ticks, the
\* commands, the agent's resets and the hands do to it and in which order
\* (state.py:96-157, 217-252).
THEOREM TripOff == Spec => []TripMeansOff
<1>1. IInv => TripMeansOff
  BY FleetInvImplies DEF IInv
<1> QED
  BY <1>1, Invariance, PTL

\* What was powered off by a command is not switched on by clearing chaos
\* (state.py:144, 246-247).
THEOREM CommandedOff == Spec => ClearLeavesCommandedOff
<1>1. ASSUME IInv, [Next]_vars
      PROVE  [\A m \in Machines :
                 m \in clearing /\ m \notin clearing' /\ machine[m].offBy = "command" =>
                     machine'[m].power = "Off"]_fleet
  BY <1>1, NextFleet, FleetStepLeavesOff DEF IInv
<1> QED
  BY <1>1, Invariance, PTL DEF Spec, ClearLeavesCommandedOff

----------------------------------------------------------------------------
\* One take at a time

TakerFits ==
    /\ \A r \in Requests : Active(r) => Taker = r
    /\ (\A r \in Requests : ~Active(r)) => Taker = NoRequest

\* The post that is being handled is the taker; without one there is none.
LEMMA TakerIs == TakeInv => TakerFits
<1> SUFFICES ASSUME TakeInv PROVE TakerFits
  OBVIOUS
<1>1. ASSUME NEW r \in Requests, Active(r)
      PROVE  Taker = r
  <2>1. \E s \in Requests : request[s].at # "idle"
    BY <1>1 DEF Active
  <2>2. Taker \in Requests /\ request[Taker].at # "idle"
    BY <2>1 DEF Taker
  <2> QED
    BY <1>1, <2>2 DEF TakeInv, Active
<1>2. ASSUME \A r \in Requests : ~Active(r)
      PROVE  Taker = NoRequest
  BY <1>2 DEF Active, Taker
<1> QED
  BY <1>1, <1>2 DEF TakerFits

\* A step of the console is a step of a take, or the take does not see it.
LEMMA ConsoleTake ==
    ASSUME TakeInv, TakerFits, TakerFits', Console
    PROVE  T!Next \/ UNCHANGED <<Taker, child>>
<1>0. /\ \A r \in Requests : Active(r) => Taker = r
      /\ (\A r \in Requests : ~Active(r)) => Taker = NoRequest
  BY DEF TakerFits
<1>1. /\ \A r \in Requests : Active(r)' => Taker' = r
      /\ (\A r \in Requests : ~Active(r)') => Taker' = NoRequest
  BY DEF TakerFits
<1>2. \A r \in Requests : r # NoRequest
  BY LabAssumption
<1>3. ASSUME NEW r \in Requests, NEW scenario \in Scenarios, Post(r, scenario)
      PROVE  T!Next
  <2>1. Taker = NoRequest /\ ~child
    BY <1>0, <1>3 DEF Post, Free, TakeInv
  <2>2. Active(r)' /\ child' = child
    BY <1>3 DEF Post, TakeInv, Active
  <2> QED
    BY <1>1, <2>1, <2>2 DEF T!Next, T!SetUp
<1>4. ASSUME NEW r \in Requests, Handler(r)
      PROVE  T!Next \/ UNCHANGED <<Taker, child>>
  <2>1. CASE Inject(r) \/ ClearFailed(r) \/ InjectFailed(r) \/ Injected(r) \/ SpawnFailed(r) \/ Undone(r)
    <3>1. Active(r) /\ child' = child
      BY <2>1 DEF Inject, ClearFailed, InjectFailed, Injected, SpawnFailed, Undone, Exited, To, Active
    <3>2. Active(r)'
      BY <2>1 DEF Inject, ClearFailed, InjectFailed, Injected, SpawnFailed, Undone, To, Active, TakeInv
    <3> QED
      BY <1>0, <1>1, <3>1, <3>2
  <2>2. CASE Spawn(r)
    <3>1. Active(r) /\ ~child /\ child' = TRUE
      BY <2>2 DEF Spawn, Active, TakeInv
    <3>2. Active(r)'
      BY <2>2 DEF Spawn, Active, TakeInv
    <3> QED
      BY <1>0, <1>1, <1>2, <3>1, <3>2 DEF T!Next, T!Start
  <2>3. CASE Answer(r)
    <3>1. Active(r) /\ child' = child
      BY <2>3 DEF Answer, Active
    <3>2. \A s \in Requests : ~Active(s)'
      BY <2>3, <3>1 DEF Answer, Active, TakeInv, NoPost
    <3> QED
      BY <1>0, <1>1, <1>2, <3>1, <3>2 DEF T!Next, T!Answer
  <2> QED
    BY <1>4, <2>1, <2>2, <2>3 DEF Handler
<1>5. CASE RunEnds
  BY <1>5 DEF RunEnds, Taker, T!Next, T!End
<1>6. CASE ExitSeen
  BY <1>6 DEF ExitSeen, Taker
<1> QED
  BY <1>3, <1>4, <1>5, <1>6 DEF Console

\* The console implements Take: with the post on its way for the taker and
\* the child for the live run, its two flags admit one take at a time
\* (ui-server.ts:304-320).
THEOREM OneTake == Spec => OneTakeAtATime
<1>1. Init => T!Init
  BY DEF Init, T!Init, Taker, NoPost
<1>2. IInv => TakerFits
  BY TakerIs DEF IInv
<1>3. IInv /\ TakerFits /\ TakerFits' /\ [Next]_vars => [T!Next]_<<Taker, child>>
  <2> SUFFICES ASSUME IInv, TakerFits, TakerFits', [Next]_vars
               PROVE  [T!Next]_<<Taker, child>>
    OBVIOUS
  <2>1. CASE Console
    BY <2>1, ConsoleTake DEF IInv
  <2>2. CASE UNCHANGED console
    BY <2>2 DEF console, Taker
  <2> QED
    BY <2>1, <2>2, NextConsole
<1> QED
  BY <1>1, <1>2, <1>3, Invariance, PTL DEF Spec, OneTakeAtATime, T!Spec

----------------------------------------------------------------------------
(* What a take finds in the lab.  The post that has it is alone with the   *)
(* tick loop and a clear of the BMC that may still be at work for somebody *)
(* who is gone, so that what its commands achieve, step by step, stays.    *)

\* The steps of a clear from the one in which the machines are cleared on.
FromUncordon == {"uncordon", "stale", "expire", "silence"}
FromUnpause  == {"unpause"} \cup FromUncordon
FromStatus   == {"status", "power"} \cup FromUnpause
FromClearing == {"clearing"} \cup FromStatus

\* The stages of a post in which it has the lab for itself.
SetsUp == {"clear", "inject", "undo", "spawn", "failed"}

\* The command of a post is the one its stage runs.
Fits(r) ==
    /\ cli[r].at \in {"clear"} \cup FromClearing => cli[r].cmd = "clear"
    /\ cli[r].at \in {"crac", "spike"} => cli[r].cmd = "crac"
    /\ cli[r].at \in {"hang", "pause", "unhang"} => cli[r].cmd = "hang"
    /\ cli[r].at = "symptoms" => cli[r].cmd \in Scenarios
    /\ cli[r].at = "silences" => cli[r].cmd # "none"
    /\ request[r].at = "idle" => cli[r].at = "none"
    /\ request[r].at \in {"clear", "undo", "failed"} => cli[r].cmd = "clear"
    /\ request[r].at \in {"inject", "spawn", "accepted"} => cli[r].cmd = request[r].scenario
    /\ request[r].at \in {"spawn", "accepted", "failed"} => cli[r].at = "exited"
    /\ request[r].at = "spawn" => cli[r].ok

Sane(q) == ~q.spiked /\ q.lost = {} /\ ~q.hung

Up(q) == q.power = "On" \/ q.trip

StandsStill(q) == q.hung \/ q.power = "Off"

\* The machines that the clear at work has been at are sane.
Cleaned == ~ambient /\ \A m \in Machines \ clearing : Sane(machine[m])

AllUp == \A m \in Machines : Up(machine[m])

\* What the command of a post has achieved when it is at its step.
Achieved(r) ==
    /\ cli[r].at = "silences" => silences \subseteq cli[r].todo
    /\ cli[r].at \in Busy \ {"silences"} => silences = {}
    /\ cli[r].at \in FromClearing => Cleaned
    /\ cli[r].at \in FromStatus \/ cli[r].cmd \in Scenarios => clearing = {}
    /\ cli[r].at = "power" => \A m \in Machines \ cli[r].todo : Up(machine[m])
    /\ cli[r].at \in FromUnpause => AllUp
    /\ cli[r].at \in FromUncordon => (frozen => cli[r].refused)
    /\ cli[r].at \in FromUncordon \ {"uncordon"} => ~cordoned \/ cli[r].failed
    /\ cli[r].at = "exited" /\ cli[r].ok /\ cli[r].cmd = "clear" =>
          /\ Cleaned /\ clearing = {} /\ AllUp
          /\ ~cordoned /\ (frozen => cli[r].refused) /\ (symptoms => silences # {})
    /\ cli[r].at = "pause" => StandsStill(machine[Host])
    /\ cli[r].cmd = "hang" /\ (cli[r].at = "symptoms" \/ (cli[r].at = "exited" /\ cli[r].ok)) =>
          frozen /\ StandsStill(machine[Host])
    /\ cli[r].cmd \in Scenarios /\ cli[r].at = "exited" /\ cli[r].ok =>
          symptoms /\ silences = {}

LabInv ==
    \A r \in Requests : Fits(r) /\ (request[r].at \in SetsUp => ~running /\ Achieved(r))

----------------------------------------------------------------------------
\* The machines while a take is set up

\* What a tick and a clear may do to a machine.
Calm(q, p) ==
    /\ Sane(q) => Sane(p)
    /\ Sane(q) /\ Up(q) => Up(p)
    /\ StandsStill(q) => StandsStill(p)

\* No tick takes sanity from a machine: with both supplies there it goes off
\* by a trip alone, and never comes back on (state.py:112-152).
LEMMA TickCalm ==
    ASSUME FleetInv, TickStep, NEW k \in Machines
    PROVE  Calm(machine[k], machine'[k])
<1> DEFINE m == ticking.at
           r == machine[m]
<1>1. m \in Machines /\ r \in Machine /\ machine \in [Machines -> SoundMachines]
  BY DEF FleetInv, SoundMachines, TickStep, TickSense, TickHeat, TickPsu, TickTrip
<1>2. Calm(machine[k], machine[k])
  BY DEF Calm
<1>3. ASSUME NEW p, machine' = [machine EXCEPT ![m] = p], Calm(r, p)
      PROVE  Calm(machine[k], machine'[k])
  BY <1>1, <1>2, <1>3
<1>4. CASE TickSense
  <2>1. PICK spiked \in {r.spiked, FALSE} : machine' = [machine EXCEPT ![m].spiked = spiked]
    BY <1>4 DEF TickSense
  <2>2. Calm(r, [r EXCEPT !.spiked = spiked])
    BY <1>1 DEF Calm, Sane, Up, StandsStill, Machine
  <2> QED
    BY <1>3, <2>1, <2>2
<1>5. CASE TickHeat
  <2>1. PICK over \in BOOLEAN : machine' = [machine EXCEPT ![m].over = over]
    BY <1>5 DEF TickHeat
  <2>2. Calm(r, [r EXCEPT !.over = over])
    BY <1>1 DEF Calm, Sane, Up, StandsStill, Machine
  <2> QED
    BY <1>3, <2>1, <2>2
<1>6. CASE TickPsu
  <2>1. r.lost = Psus
    BY <1>6 DEF TickPsu, NoPower
  <2>2. Calm(r, [r EXCEPT !.chaosOff = TRUE, !.power = "Off", !.hung = FALSE, !.offBy = "fault"])
    BY <1>1, <2>1 DEF Calm, Sane, Up, StandsStill, Machine, Psus
  <2> QED
    BY <1>3, <1>6, <2>2 DEF TickPsu
<1>7. CASE TickTrip
  <2>1. Calm(r, Tripped(r))
    BY <1>1 DEF Calm, Sane, Up, StandsStill, Machine, Tripped
  <2> QED
    BY <1>2, <1>3, <1>7, <2>1 DEF TickTrip
<1> QED
  BY <1>4, <1>5, <1>6, <1>7 DEF TickStep

\* Clearing and switching on make a machine sane and keep it up
\* (state.py:162-186, 230-252).
LEMMA ClearedSane ==
    ASSUME NEW q \in Machine
    PROVE  /\ Sane(Cleared(q))
           /\ Sane(q) => Sane(AfterReset(q, "On"))
           /\ Up(AfterReset(q, "On"))
<1>1. AfterReset(q, "On") = PoweredOn(q)
  BY DEF AfterReset
<1> QED
  BY <1>1 DEF Sane, Up, Cleared, PoweredOn, Machine

\* While nothing of the lab but the tick loop moves, what was achieved stays.
LEMMA AchievedStays ==
    ASSUME FleetInv, NEW r \in Requests, Achieved(r), UNCHANGED <<cli, world>>,
           UNCHANGED fleet \/ TickStart \/ TickStep
    PROVE  Achieved(r)'
<1>1. ambient' = ambient /\ clearing' = clearing
  BY DEF fleet, TickStart, TickStep, TickSense, TickHeat, TickPsu, TickTrip
<1>2. ASSUME NEW m \in Machines PROVE Calm(machine[m], machine'[m])
  <2>1. CASE UNCHANGED machine
    BY <2>1 DEF Calm
  <2> QED
    BY <2>1, TickCalm DEF fleet, TickStart
<1>3. Cleaned => Cleaned'
  BY <1>1, <1>2 DEF Cleaned, Calm
<1>4. Cleaned /\ clearing = {} /\ AllUp => AllUp'
  BY <1>2 DEF Cleaned, Calm, AllUp
<1>5. Cleaned /\ clearing = {} /\ (\A m \in Machines \ cli[r].todo : Up(machine[m])) =>
          \A m \in Machines \ cli[r].todo : Up(machine'[m])
  BY <1>2 DEF Cleaned, Calm
<1>6. StandsStill(machine[Host]) => StandsStill(machine'[Host])
  BY <1>2, LabAssumption DEF Calm
<1>7. UNCHANGED <<cli, frozen, cordoned, symptoms, silences>>
  BY DEF world
<1> QED
  BY <1>1, <1>3, <1>4, <1>5, <1>6, <1>7 DEF Achieved, FromClearing, FromStatus, FromUnpause

\* So it does while the BMC clears its machines (state.py:230-252).
LEMMA AchievedClearing ==
    ASSUME FleetInv, NEW r \in Requests, Fits(r), Achieved(r), UNCHANGED <<cli, world>>, ClearMachine
    PROVE  Achieved(r)'
<1>1. PICK m \in clearing :
        machine' = [machine EXCEPT ![m] = Cleared(@)] /\ clearing' = clearing \ {m}
  BY DEF ClearMachine
<1>2. ambient' = ambient /\ clearing # {} /\ machine \in [Machines -> SoundMachines] /\ m \in Machines
  BY <1>1 DEF ClearMachine, FleetInv
<1>3. Cleaned => Cleaned'
  <2>1. machine[m] \in Machine
    BY <1>2 DEF SoundMachines
  <2>2. Sane(Cleared(machine[m]))
    BY <2>1, ClearedSane
  <2> QED
    BY <1>1, <1>2, <2>2 DEF Cleaned
<1>4. UNCHANGED <<cli, frozen, cordoned, symptoms, silences>>
  BY DEF world
<1> QED
  BY <1>2, <1>3, <1>4 DEF Achieved, Fits, FromClearing, FromStatus, FromUnpause, FromUncordon,
     Scenarios

----------------------------------------------------------------------------
\* The commands of the take

\* The command of r goes on, those of the other posts do not.
Alone(r) == \A s \in Requests \ {r} : cli'[s] = cli[s]

\* What a step of a command does to it besides what it is for.
Moves(r, step, todo) ==
    /\ cli'[r].at = step /\ cli'[r].todo = todo /\ cli'[r].cmd = cli[r].cmd
    /\ Alone(r)

Kept(r) ==
    cli'[r].refused = cli[r].refused /\ cli'[r].failed = cli[r].failed /\ cli'[r].ok = cli[r].ok

\* The four ways in which a command goes on (cli.py:41-61).
LEMMA CommandFields ==
    ASSUME CliInv, NEW r \in Requests
    PROVE  /\ \A step : Goes(r, step) => Moves(r, step, {}) /\ Kept(r)
           /\ \A step, todo : GoesOver(r, step, todo) => Moves(r, step, todo) /\ Kept(r)
           /\ \A x, step : Did(r, x, step) =>
                 /\ Moves(r, IF cli[r].todo = {x} THEN step ELSE cli[r].at, cli[r].todo \ {x})
                 /\ Kept(r)
           /\ \A ok : Exits(r, ok) =>
                 /\ Moves(r, "exited", {}) /\ cli'[r].ok = ok
                 /\ cli'[r].refused = cli[r].refused /\ cli'[r].failed = cli[r].failed
<1>1. cli[r] \in Command /\ DOMAIN cli = Requests
  BY DEF CliInv, Commands
<1>2. ASSUME NEW step PROVE Goes(r, step) => Moves(r, step, {}) /\ Kept(r)
  BY <1>1 DEF Goes, Moves, Kept, Alone, Command, CliInv
<1>3. ASSUME NEW step, NEW todo PROVE GoesOver(r, step, todo) => Moves(r, step, todo) /\ Kept(r)
  BY <1>1 DEF GoesOver, Moves, Kept, Alone, Command, CliInv
<1>4. ASSUME NEW x, NEW step, Did(r, x, step)
      PROVE  /\ Moves(r, IF cli[r].todo = {x} THEN step ELSE cli[r].at, cli[r].todo \ {x})
             /\ Kept(r)
  BY <1>1, <1>4 DEF Did, Moves, Kept, Alone, Command, CliInv
<1>5. ASSUME NEW ok, Exits(r, ok)
      PROVE  /\ Moves(r, "exited", {}) /\ cli'[r].ok = ok
             /\ cli'[r].refused = cli[r].refused /\ cli'[r].failed = cli[r].failed
  BY <1>1, <1>5 DEF Exits, Moves, Alone, Command, CliInv
<1> QED
  BY <1>2, <1>3, <1>4, <1>5

\* A command runs only while its post sets the lab up (ui-server.ts:236-274).
LEMMA BusyStage ==
    ASSUME TakeInv, LabInv, NEW r \in Requests, cli[r].at \in Busy
    PROVE  request[r].at \in {"clear", "inject", "undo"} /\ Fits(r) /\ Achieved(r)
<1>1. request[r].at \in Stages /\ Fits(r)
  BY DEF TakeInv, LabInv
<1>2. request[r].at \in {"clear", "inject", "undo"}
  BY <1>1 DEF Fits, Stages, Busy
<1> QED
  BY <1>1, <1>2 DEF LabInv, SetsUp

\* Where the fleet stays as it is, so does what is said of it.
LEMMA SameFleet ==
    ASSUME UNCHANGED fleet
    PROVE  /\ Cleaned' <=> Cleaned
           /\ AllUp' <=> AllUp
           /\ StandsStill(machine'[Host]) <=> StandsStill(machine[Host])
           /\ clearing' = clearing /\ machine' = machine
BY DEF fleet, Cleaned, AllUp

\* A command that goes on alone keeps the invariant of the lab if it keeps
\* its own part.
LEMMA CommandOnly ==
    ASSUME TakeInv, LabInv, NEW r \in Requests, cli[r].at \in Busy, UNCHANGED console, Alone(r),
           cli'[r].cmd = cli[r].cmd, cli'[r].at \in Busy \cup {"exited"},
           cli'[r].at \in {"clear"} \cup FromClearing => cli[r].cmd = "clear",
           cli'[r].at \in {"crac", "spike"} => cli[r].cmd = "crac",
           cli'[r].at \in {"hang", "pause", "unhang"} => cli[r].cmd = "hang",
           cli'[r].at = "symptoms" => cli[r].cmd \in Scenarios,
           cli'[r].at = "silences" => cli[r].cmd # "none",
           Achieved(r)'
    PROVE  LabInv'
<1>1. request[r].at \in {"clear", "inject", "undo"} /\ Fits(r) /\ Achieved(r)
  BY BusyStage
<1>2. request' = request /\ running' = running
  BY DEF console
<1>3. Fits(r)'
  BY <1>1, <1>2 DEF Fits
<1>4. ASSUME NEW s \in Requests \ {r} PROVE request[s].at = "idle" /\ Fits(s)'
  <2>1. request[s].at = "idle"
    BY <1>1 DEF TakeInv, Active
  <2>2. Fits(s) /\ cli'[s] = cli[s]
    BY DEF LabInv, Alone
  <2> QED
    BY <1>2, <2>1, <2>2 DEF Fits
<1>5. ~running'
  BY <1>1, <1>2 DEF LabInv, SetsUp
<1> QED
  BY <1>2, <1>3, <1>4, <1>5 DEF LabInv, SetsUp

\* A scenario: the silences are ended, the fault is posted, the node is frozen
\* and the symptoms are on the bus (scenarios.py:33-97).
LEMMA ScenarioSteps ==
    ASSUME FleetInv, CliInv, TakeInv, LabInv, NEW r \in Requests,
           EndSilences(r) \/ PostCrac(r) \/ PostSpike(r) \/ PostHang(r) \/ Pause(r)
               \/ PostUnhang(r) \/ PostSymptoms(r)
    PROVE  LabInv'
<1> DEFINE q == cli[r]
<1>1. q.at \in Busy /\ UNCHANGED console
  BY DEF EndSilences, PostCrac, PostSpike, PostHang, Pause, PostUnhang, PostSymptoms, At, Busy
<1>2. Fits(r) /\ Achieved(r) /\ Host \in Machines /\ SpikeSystems \subseteq Machines
      /\ q \in Command
  BY <1>1, BusyStage, LabAssumption DEF CliInv, Commands
<1>3. CASE EndSilences(r)
  <2>1. PICK a \in q.todo : silences' = silences \ {a} /\ Did(r, a, q.cmd)
    BY <1>3 DEF EndSilences
  <2>2. /\ Moves(r, IF q.todo = {a} THEN q.cmd ELSE q.at, q.todo \ {a}) /\ Kept(r)
        /\ UNCHANGED <<fleet, frozen, cordoned, symptoms>> /\ q.at = "silences"
    BY <1>3, <2>1, CommandFields DEF EndSilences, At
  <2>3. q.cmd \in {"clear", "hang", "crac"} /\ silences \subseteq q.todo
    BY <1>2, <2>2 DEF Fits, Achieved, Command, Scenarios
  <2>4. Achieved(r)'
    BY <1>2, <2>1, <2>2, <2>3, SameFleet DEF Achieved, Moves, Kept, Busy, FromClearing, FromStatus,
       FromUnpause, FromUncordon
  <2> QED
    BY <1>1, <2>2, <2>3, <2>4, CommandOnly DEF Moves, Busy, FromClearing, FromStatus, FromUnpause,
       FromUncordon, Scenarios
<1>4. CASE PostCrac(r)
  <2>1. /\ Moves(r, IF SpikeSystems = {} THEN "symptoms" ELSE "spike", SpikeSystems) /\ Kept(r)
        /\ UNCHANGED <<clearing, frozen, cordoned, symptoms, silences>> /\ q.at = "crac"
    BY <1>4, CommandFields DEF PostCrac, At, CracFail, world
  <2>2. q.cmd = "crac" /\ clearing = {} /\ silences = {}
    BY <1>2, <2>1 DEF Fits, Achieved, Scenarios, Busy
  <2>3. Achieved(r)'
    BY <2>1, <2>2 DEF Achieved, Moves, FromClearing, FromStatus, FromUnpause, FromUncordon
  <2> QED
    BY <1>1, <2>1, <2>2, <2>3, CommandOnly DEF Moves, Busy, FromClearing, FromStatus, FromUnpause,
       FromUncordon, Scenarios
<1>5. CASE PostSpike(r)
  <2>1. PICK m \in q.todo : ThermalSpike(m) /\ Did(r, m, "symptoms")
    BY <1>5 DEF PostSpike
  <2>2. /\ Moves(r, IF q.todo = {m} THEN "symptoms" ELSE q.at, q.todo \ {m}) /\ Kept(r)
        /\ UNCHANGED <<clearing, frozen, cordoned, symptoms, silences>> /\ q.at = "spike"
    BY <1>5, <2>1, CommandFields DEF PostSpike, At, ThermalSpike, Changed, world
  <2>3. q.cmd = "crac" /\ clearing = {} /\ silences = {}
    BY <1>2, <2>2 DEF Fits, Achieved, Scenarios, Busy
  <2>4. Achieved(r)'
    BY <2>2, <2>3 DEF Achieved, Moves, FromClearing, FromStatus, FromUnpause, FromUncordon
  <2> QED
    BY <1>1, <2>2, <2>3, <2>4, CommandOnly DEF Moves, Busy, FromClearing, FromStatus, FromUnpause,
       FromUncordon, Scenarios
<1>6. CASE PostHang(r)
  <2>1. /\ Moves(r, "pause", {}) /\ Kept(r)
        /\ UNCHANGED <<clearing, frozen, cordoned, symptoms, silences>> /\ q.at = "hang"
        /\ machine' = [machine EXCEPT ![Host] = [machine[Host] EXCEPT !.hung = TRUE]]
    BY <1>6, CommandFields DEF PostHang, At, Hang, Changed, world
  <2>2. q.cmd = "hang" /\ clearing = {} /\ silences = {}
    BY <1>2, <2>1 DEF Fits, Achieved, Scenarios, Busy
  <2>3. StandsStill(machine'[Host])
    <3>1. machine[Host] \in Machine /\ machine \in [Machines -> SoundMachines]
      BY <1>2 DEF FleetInv, SoundMachines
    <3> QED
      BY <1>2, <2>1, <3>1 DEF StandsStill, Machine
  <2>4. Achieved(r)'
    BY <2>1, <2>2, <2>3 DEF Achieved, Moves, FromClearing, FromStatus, FromUnpause, FromUncordon
  <2> QED
    BY <1>1, <2>1, <2>2, <2>4, CommandOnly DEF Moves, Busy, FromClearing, FromStatus, FromUnpause,
       FromUncordon, Scenarios
<1>7. CASE Pause(r)
  <2>1. /\ UNCHANGED <<fleet, cordoned, symptoms, silences>> /\ q.at = "pause"
        /\ \/ Moves(r, "symptoms", {}) /\ Kept(r) /\ frozen' = TRUE
           \/ Moves(r, "unhang", {}) /\ Kept(r) /\ frozen' = frozen
    BY <1>7, CommandFields DEF Pause, At
  <2>2. q.cmd = "hang" /\ clearing = {} /\ silences = {} /\ StandsStill(machine[Host])
    BY <1>2, <2>1 DEF Fits, Achieved, Scenarios, Busy
  <2>3. Achieved(r)'
    BY <2>1, <2>2, SameFleet DEF Achieved, Moves, FromClearing, FromStatus, FromUnpause, FromUncordon
  <2> QED
    BY <1>1, <2>1, <2>2, <2>3, CommandOnly DEF Moves, Busy, FromClearing, FromStatus, FromUnpause,
       FromUncordon, Scenarios
<1>8. CASE PostUnhang(r)
  <2>1. /\ Moves(r, "exited", {}) /\ cli'[r].ok = FALSE /\ q.at = "unhang"
        /\ clearing' = clearing
    BY <1>8, CommandFields DEF PostUnhang, At, Unhang, Changed
  <2>2. q.cmd = "hang" /\ clearing = {}
    BY <1>2, <2>1 DEF Fits, Achieved, Scenarios
  <2>3. Achieved(r)'
    BY <2>1, <2>2 DEF Achieved, Moves, Busy, FromClearing, FromStatus, FromUnpause, FromUncordon
  <2> QED
    BY <1>1, <2>1, <2>2, <2>3, CommandOnly DEF Moves, Busy, FromClearing, FromStatus, FromUnpause,
       FromUncordon, Scenarios
<1>9. CASE PostSymptoms(r)
  <2>1. /\ Moves(r, "exited", {}) /\ q.at = "symptoms" /\ symptoms' = TRUE
        /\ UNCHANGED <<fleet, frozen, cordoned, silences>>
    BY <1>9, CommandFields DEF PostSymptoms, At
  <2>2. /\ q.cmd \in {"hang", "crac"} /\ clearing = {} /\ silences = {}
        /\ q.cmd = "hang" => frozen /\ StandsStill(machine[Host])
    BY <1>2, <2>1 DEF Fits, Achieved, Scenarios, Busy
  <2>3. Achieved(r)'
    BY <2>1, <2>2, SameFleet DEF Achieved, Moves, Busy, FromClearing, FromStatus, FromUnpause,
       FromUncordon
  <2> QED
    BY <1>1, <2>1, <2>2, <2>3, CommandOnly DEF Moves, Busy, FromClearing, FromStatus, FromUnpause,
       FromUncordon, Scenarios
<1> QED
  BY <1>3, <1>4, <1>5, <1>6, <1>7, <1>8, <1>9

\* A clear: the silences are ended, the machines cleared and switched on, the
\* node thawed and uncordoned, the symptoms ended or silenced
\* (scenarios.py:100-144).
LEMMA ClearSteps ==
    ASSUME FleetInv, CliInv, TakeInv, LabInv, NEW r \in Requests,
           PostClear(r) \/ ClearAnswered(r) \/ ReadStatus(r) \/ PowerOn(r) \/ Unpause(r)
               \/ Uncordon(r) \/ ListStale(r) \/ Expire(r) \/ Silence(r)
    PROVE  LabInv'
<1> DEFINE q == cli[r]
<1> USE DEF FromClearing, FromStatus, FromUnpause, FromUncordon, Scenarios, Busy, Moves
<1>1. /\ UNCHANGED console
      /\ q.at \in {"clear", "clearing", "status", "power", "unpause", "uncordon", "stale",
                   "expire", "silence"}
  BY DEF PostClear, ClearAnswered, ReadStatus, PowerOn, Unpause, Uncordon, ListStale, Expire,
         Silence, At
<1>2. Fits(r) /\ Achieved(r) /\ q \in Command /\ machine \in [Machines -> SoundMachines]
  BY <1>1, BusyStage DEF CliInv, Commands, FleetInv
<1>3. q.cmd = "clear" /\ silences = {} /\ (q.at # "clear" => Cleaned)
      /\ (q.at \notin {"clear", "clearing"} => clearing = {})
  BY <1>1, <1>2 DEF Fits, Achieved
<1>4. CASE PostClear(r)
  <2>1. /\ Moves(r, "clearing", {}) /\ Kept(r)
        /\ UNCHANGED <<frozen, cordoned, symptoms, silences>>
        /\ ambient' = FALSE /\ clearing' = Machines
    BY <1>4, CommandFields DEF PostClear, ClearChaos, world
  <2>2. Cleaned'
    BY <2>1 DEF Cleaned
  <2>3. Achieved(r)'
    BY <1>3, <2>1, <2>2 DEF Achieved
  <2> QED
    BY <1>1, <1>3, <2>1, <2>3, CommandOnly
<1>5. CASE ClearAnswered(r)
  <2>1. /\ Moves(r, "status", {}) /\ Kept(r) /\ UNCHANGED <<fleet, world>>
        /\ clearing = {} /\ q.at = "clearing"
    BY <1>5, CommandFields DEF ClearAnswered, At
  <2>2. Achieved(r)'
    BY <1>3, <2>1, SameFleet DEF Achieved, world
  <2> QED
    BY <1>1, <1>3, <2>1, <2>2, CommandOnly
<1>6. CASE ReadStatus(r)
  <2> DEFINE off == {m \in Machines : machine[m].trip \/ machine[m].power # "On"}
  <2>1. /\ Moves(r, IF off = {} THEN "unpause" ELSE "power", off) /\ Kept(r)
        /\ UNCHANGED <<fleet, world>> /\ q.at = "status"
    BY <1>6, CommandFields DEF ReadStatus, At
  <2>2. \A m \in Machines \ off : Up(machine[m])
    BY DEF Up
  <2> HIDE DEF off
  <2>3. off = {} => AllUp
    BY <2>2 DEF AllUp
  <2>4. Achieved(r)'
    BY <1>3, <2>1, <2>2, <2>3, SameFleet DEF Achieved, world
  <2> QED
    BY <1>1, <1>3, <2>1, <2>4, CommandOnly
<1>7. CASE PowerOn(r)
  <2>1. PICK m \in q.todo : Reset(m, "On") /\ Did(r, m, "unpause")
    BY <1>7 DEF PowerOn
  <2>2. /\ Moves(r, IF q.todo = {m} THEN "unpause" ELSE q.at, q.todo \ {m}) /\ Kept(r)
        /\ UNCHANGED <<ambient, clearing, frozen, cordoned, symptoms, silences>> /\ q.at = "power"
        /\ machine' = [machine EXCEPT ![m] = AfterReset(machine[m], "On")]
    BY <1>7, <2>1, CommandFields DEF PowerOn, At, Reset, Changed, world
  <2>3. m \in Machines /\ machine[m] \in Machine
    BY <1>2, <2>1, <2>2 DEF CliInv, Commands, SoundMachines
  <2>4. /\ Sane(machine[m]) => Sane(machine'[m])
        /\ Up(machine'[m])
        /\ \A k \in Machines \ {m} : machine'[k] = machine[k]
    BY <1>2, <2>2, <2>3, ClearedSane
  <2>5. Cleaned'
    BY <1>3, <2>2, <2>4 DEF Cleaned
  <2>6. \A k \in Machines \ (q.todo \ {m}) : Up(machine'[k])
    BY <1>2, <2>2, <2>4 DEF Achieved
  <2>7. q.todo = {m} => AllUp'
    BY <2>6 DEF AllUp
  <2>8. Achieved(r)'
    BY <1>3, <2>2, <2>5, <2>6, <2>7 DEF Achieved
  <2> QED
    BY <1>1, <1>3, <2>2, <2>8, CommandOnly
<1>8. CASE Unpause(r)
  <2>1. /\ cli'[r].at = "uncordon" /\ cli'[r].cmd = q.cmd /\ cli'[r].refused = frozen'
        /\ cli'[r].todo = q.todo /\ Alone(r)
        /\ UNCHANGED <<fleet, cordoned, symptoms, silences>> /\ q.at = "unpause"
    BY <1>2, <1>8 DEF Unpause, At, Alone, CliInv, Command
  <2>2. AllUp
    BY <1>2, <2>1 DEF Achieved
  <2>3. Achieved(r)'
    BY <1>3, <2>1, <2>2, SameFleet DEF Achieved
  <2> QED
    BY <1>1, <1>3, <2>1, <2>3, CommandOnly
<1>9. CASE Uncordon(r)
  <2>1. /\ cli'[r].at = "stale" /\ cli'[r].cmd = q.cmd /\ cli'[r].refused = q.refused /\ Alone(r)
        /\ ~cordoned' \/ cli'[r].failed
        /\ UNCHANGED <<fleet, frozen, symptoms, silences>> /\ q.at = "uncordon"
    BY <1>2, <1>9, CommandFields DEF Uncordon, At, Alone, Kept, CliInv, Command
  <2>2. AllUp /\ (frozen => q.refused)
    BY <1>2, <2>1 DEF Achieved
  <2>3. Achieved(r)'
    BY <1>3, <2>1, <2>2, SameFleet DEF Achieved
  <2> QED
    BY <1>1, <1>3, <2>1, <2>3, CommandOnly
<1>10. CASE ListStale(r) \/ Expire(r) \/ Silence(r)
  <2>1. /\ q.at \notin {"clear", "clearing"} /\ AllUp
        /\ (frozen => q.refused) /\ (~cordoned \/ q.failed)
    BY <1>2, <1>10 DEF Achieved, ListStale, Expire, Silence, At
  <2>2. UNCHANGED <<fleet, frozen, cordoned>>
    BY <1>10 DEF ListStale, Expire, Silence, world
  <2>3. cli'[r].cmd = q.cmd /\ cli'[r].refused = q.refused /\ cli'[r].failed = q.failed /\ Alone(r)
    BY <1>10, CommandFields DEF ListStale, Expire, Silence, Kept
  <2>4. \/ cli'[r].at \in {"expire", "silence"} /\ silences' = silences
        \/ cli'[r].at = "exited" /\ cli'[r].ok = ~q.failed /\ (symptoms' => silences' # {})
    BY <1>10, CommandFields DEF ListStale, Expire, Silence, Kept, world
  <2>5. cli'[r].at = "exited" /\ cli'[r].ok => ~q.failed
    BY <2>4
  <2>6. Cleaned' /\ AllUp' /\ clearing' = {}
    BY <1>3, <2>1, <2>2, SameFleet
  <2>7. /\ ~cordoned' \/ cli'[r].failed
        /\ frozen' => cli'[r].refused
        /\ cli'[r].at = "exited" /\ cli'[r].ok => ~cordoned'
    BY <2>1, <2>2, <2>3, <2>5
  <2>8. ASSUME cli'[r].at \in {"expire", "silence"}, silences' = silences
        PROVE  Achieved(r)'
    BY <1>3, <2>3, <2>6, <2>7, <2>8 DEF Achieved
  <2>9. ASSUME cli'[r].at = "exited", symptoms' => silences' # {}
        PROVE  Achieved(r)'
    BY <1>3, <2>3, <2>6, <2>7, <2>9 DEF Achieved
  <2>10. Achieved(r)'
    BY <2>4, <2>8, <2>9
  <2> QED
    BY <1>1, <1>3, <2>3, <2>4, <2>10, CommandOnly
<1> QED
  BY <1>4, <1>5, <1>6, <1>7, <1>8, <1>9, <1>10

\* A command that dies has achieved nothing that is asked of it
\* (ui-server.ts:190-199).
LEMMA DieStep ==
    ASSUME CliInv, TakeInv, LabInv, NEW r \in Requests, Die(r)
    PROVE  LabInv'
<1>1. cli[r].at \in Busy /\ UNCHANGED console /\ UNCHANGED fleet
  BY DEF Die
<1>2. Moves(r, "exited", {}) /\ cli'[r].ok = FALSE
  BY CommandFields DEF Die
<1>3. cli[r].cmd \in Scenarios => clearing = {}
  BY <1>1, BusyStage DEF Achieved
<1>4. Achieved(r)'
  BY <1>1, <1>2, <1>3, SameFleet DEF Achieved, Moves, Busy, FromClearing, FromStatus, FromUnpause,
     FromUncordon
<1> QED
  BY <1>1, <1>2, <1>4, CommandOnly DEF Moves, Busy, FromClearing, FromStatus, FromUnpause,
     FromUncordon, Scenarios

----------------------------------------------------------------------------
\* The console and the take

\* A command starts with the silences that are to be ended (cli.py:41-61).
LEMMA StartAchieved ==
    ASSUME CliInv, WorldInv, NEW r \in Requests, NEW cmd \in {"clear"} \cup Scenarios, Runs(r, cmd),
           UNCHANGED <<fleet, world>>, cmd \in Scenarios => clearing = {}
    PROVE  /\ Achieved(r)' /\ Alone(r)
           /\ cli'[r].at = "silences" /\ cli'[r].cmd = cmd
<1>1. cli'[r] = Started(cmd) /\ Alone(r)
  BY DEF Runs, CliInv, Alone
<1>2. /\ cli'[r].at = "silences" /\ cli'[r].cmd = cmd /\ cli'[r].todo = Authors
  BY <1>1 DEF Started, NoCommand, SilenceAuthors
<1>3. silences' \subseteq Authors /\ (cmd \in Scenarios => clearing' = {})
  BY DEF WorldInv, world, fleet
<1>4. Achieved(r)'
  BY <1>2, <1>3 DEF Achieved, Busy, FromClearing, FromStatus, FromUnpause, FromUncordon, Scenarios
<1> QED
  BY <1>1, <1>2, <1>4

\* A handler that goes on to another stage keeps the invariant if its command
\* fits there.
LEMMA StageOnly ==
    ASSUME TakeInv, LabInv, NEW r \in Requests, Active(r), Alone(r),
           \A s \in Requests \ {r} : request'[s] = request[s],
           Fits(r)', request'[r].at \in SetsUp => ~running' /\ Achieved(r)'
    PROVE  LabInv'
<1>1. ASSUME NEW s \in Requests \ {r} PROVE request'[s].at = "idle" /\ Fits(s)'
  <2>1. request[s].at = "idle" /\ Fits(s)
    BY DEF TakeInv, Active, LabInv
  <2> QED
    BY <2>1 DEF Fits, Alone
<1> QED
  BY <1>1 DEF LabInv, SetsUp

\* The handler runs a clear, then the scenario, and undoes what failed
\* (ui-server.ts:236-274, 304-321).
LEMMA HandlerSteps ==
    ASSUME FleetInv, CliInv, WorldInv, TakeInv, LabInv, NEW r \in Requests, Handler(r)
    PROVE  LabInv'
<1> USE DEF Busy, FromClearing, FromStatus, FromUnpause, FromUncordon, SetsUp
<1>1. /\ Fits(r) /\ (request[r].at \in SetsUp => ~running /\ Achieved(r))
      /\ request[r] \in [at: Stages, scenario: Scenarios] /\ DOMAIN request = Requests
  BY DEF LabInv, TakeInv
<1>2. ASSUME NEW stage \in Stages, To(r, stage)
      PROVE  /\ request'[r].at = stage /\ request'[r].scenario = request[r].scenario
             /\ \A s \in Requests \ {r} : request'[s] = request[s]
             /\ running' = running
  BY <1>1, <1>2 DEF To, TakeInv
<1>3. CASE Inject(r)
  <2>1. /\ request[r].at = "clear" /\ cli[r].at = "exited" /\ cli[r].ok /\ To(r, "inject")
        /\ Runs(r, request[r].scenario) /\ UNCHANGED <<fleet, world>>
    BY <1>3 DEF Inject, Exited
  <2>2. clearing = {} /\ Active(r) /\ ~running
    BY <1>1, <2>1 DEF Fits, Achieved, Active
  <2>3. /\ Achieved(r)' /\ Alone(r) /\ cli'[r].at = "silences"
        /\ cli'[r].cmd = request[r].scenario
    BY <1>1, <2>1, <2>2, StartAchieved
  <2>4. /\ request'[r].at = "inject" /\ request'[r].scenario = request[r].scenario
        /\ \A s \in Requests \ {r} : request'[s] = request[s]
        /\ running' = running
    BY <1>2, <2>1 DEF Stages
  <2>5. Fits(r)'
    BY <1>1, <2>3, <2>4 DEF Fits, Scenarios
  <2> QED
    BY <2>2, <2>3, <2>4, <2>5, StageOnly
<1>4. CASE InjectFailed(r) \/ SpawnFailed(r)
  <2>1. /\ request[r].at \in {"inject", "spawn"} /\ To(r, "undo")
        /\ Runs(r, "clear") /\ UNCHANGED <<fleet, world>>
    BY <1>4 DEF InjectFailed, SpawnFailed, Exited
  <2>2. Active(r) /\ ~running
    BY <1>1, <2>1 DEF Active
  <2>3. /\ Achieved(r)' /\ Alone(r) /\ cli'[r].at = "silences" /\ cli'[r].cmd = "clear"
    BY <2>1, StartAchieved DEF Scenarios
  <2>4. /\ request'[r].at = "undo" /\ \A s \in Requests \ {r} : request'[s] = request[s]
        /\ running' = running
    BY <1>2, <2>1 DEF Stages
  <2>5. Fits(r)'
    BY <2>3, <2>4 DEF Fits
  <2> QED
    BY <2>2, <2>3, <2>4, <2>5, StageOnly
<1>5. CASE ClearFailed(r) \/ Undone(r) \/ Injected(r)
  <2>1. /\ request[r].at \in {"clear", "undo", "inject"} /\ cli[r].at = "exited"
        /\ \/ request[r].at # "inject" /\ To(r, "failed")
           \/ request[r].at = "inject" /\ cli[r].ok /\ To(r, "spawn")
        /\ UNCHANGED <<fleet, world, cli>>
    BY <1>5 DEF ClearFailed, Undone, Injected, Exited, Stays
  <2>2. Active(r) /\ ~running /\ Achieved(r) /\ Alone(r)
    BY <1>1, <2>1 DEF Active, Alone
  <2>3. Achieved(r)'
    BY <2>1, <2>2, AchievedStays
  <2>4. /\ request'[r].scenario = request[r].scenario
        /\ \A s \in Requests \ {r} : request'[s] = request[s]
        /\ running' = running
        /\ \/ request[r].at # "inject" /\ request'[r].at = "failed"
           \/ request[r].at = "inject" /\ cli[r].ok /\ request'[r].at = "spawn"
    BY <1>2, <2>1 DEF Stages
  <2>5. Fits(r)'
    BY <1>1, <2>1, <2>4 DEF Fits
  <2> QED
    BY <2>2, <2>3, <2>4, <2>5, StageOnly
<1>6. CASE Spawn(r)
  <2>1. /\ request[r].at = "spawn" /\ request'[r].at = "accepted"
        /\ request'[r].scenario = request[r].scenario
        /\ \A s \in Requests \ {r} : request'[s] = request[s]
        /\ UNCHANGED cli
    BY <1>1, <1>6 DEF Spawn, Stays, TakeInv
  <2>2. Active(r) /\ Alone(r) /\ Fits(r)'
    BY <1>1, <2>1 DEF Active, Alone, Fits
  <2> QED
    BY <2>1, <2>2, StageOnly
<1>7. CASE Answer(r)
  <2>1. /\ Active(r) /\ request'[r].at = "idle" /\ cli'[r] = NoCommand /\ Alone(r)
        /\ \A s \in Requests \ {r} : request'[s] = request[s]
    BY <1>1, <1>7 DEF Answer, Active, NoPost, Alone, CliInv, TakeInv
  <2>2. Fits(r)'
    BY <2>1 DEF Fits, NoCommand
  <2> QED
    BY <2>1, <2>2, StageOnly
<1> QED
  BY <1>3, <1>4, <1>5, <1>6, <1>7 DEF Handler

\* A post takes the lab when nobody has it (ui-server.ts:304-312).
LEMMA PostStep ==
    ASSUME CliInv, WorldInv, TakeInv, LabInv, NEW r \in Requests, NEW scenario \in Scenarios,
           Post(r, scenario)
    PROVE  LabInv'
<1>1. \A s \in Requests : request[s].at = "idle"
  BY DEF Post, Free, TakeInv, Active
<1>2. /\ request'[r].at = "clear" /\ ~running' /\ Runs(r, "clear") /\ UNCHANGED <<fleet, world>>
      /\ \A s \in Requests \ {r} : request'[s] = request[s]
  BY DEF Post, Free, TakeInv
<1>3. Achieved(r)' /\ Alone(r) /\ cli'[r].at = "silences" /\ cli'[r].cmd = "clear"
  BY <1>2, StartAchieved DEF Scenarios
<1>4. Fits(r)'
  BY <1>2, <1>3 DEF Fits, FromClearing, FromStatus, FromUnpause, FromUncordon
<1>5. ASSUME NEW s \in Requests \ {r} PROVE request'[s].at = "idle" /\ Fits(s)'
  BY <1>1, <1>2, <1>3 DEF LabInv, Fits, Alone
<1> QED
  BY <1>2, <1>3, <1>4, <1>5 DEF LabInv, SetsUp

\* Nothing else moves what a post has achieved: the run and the hands are kept
\* out of the lab while it is set up.
LEMMA NextLab ==
    ASSUME IInv, LabInv, [Next]_vars
    PROVE  LabInv'
<1>1. FleetInv /\ CliInv /\ WorldInv /\ TakeInv
  BY DEF IInv
<1>2. ASSUME UNCHANGED <<cli, request>>,
             running' = running \/ running' = FALSE,
             \A r \in Requests : request[r].at \in SetsUp => Achieved(r)'
      PROVE  LabInv'
  BY <1>2 DEF LabInv, Fits
<1>3. ASSUME NEW r \in Requests, Works(r) \/ ClearAnswered(r)
      PROVE  LabInv'
  BY <1>1, <1>3, ScenarioSteps, ClearSteps DEF Works
<1>4. ASSUME NEW r \in Requests, NEW scenario \in Scenarios, Post(r, scenario) PROVE LabInv'
  BY <1>1, <1>4, PostStep
<1>5. ASSUME NEW r \in Requests, Handler(r) \/ Die(r) PROVE LabInv'
  BY <1>1, <1>5, HandlerSteps, DieStep
<1>6. CASE Clearing
  <2>1. UNCHANGED <<cli, request, running, world>> /\ ClearMachine
    BY <1>6 DEF Clearing, console
  <2> QED
    BY <1>1, <1>2, <2>1, AchievedClearing DEF LabInv
<1>7. CASE TickBegins \/ TickGoesOn
  <2>1. UNCHANGED <<cli, request, running, world>> /\ (TickStart \/ TickStep)
    BY <1>7 DEF TickBegins, TickGoesOn, console
  <2> QED
    BY <1>1, <1>2, <2>1, AchievedStays DEF LabInv
<1>8. CASE RunEnds \/ ExitSeen \/ UNCHANGED vars
  <2>1. UNCHANGED <<cli, request, world, fleet>> /\ (running' = running \/ running' = FALSE)
    BY <1>8 DEF RunEnds, ExitSeen, Stays, vars, console
  <2> QED
    BY <1>1, <1>2, <2>1, AchievedStays DEF LabInv
<1>9. CASE AgentActs
  <2>1. UNCHANGED <<cli, request, running>> /\ running
    BY <1>1, <1>9 DEF AgentActs, console, TakeInv
  <2> QED
    BY <1>2, <2>1 DEF LabInv
<1>10. CASE ByHand
  <2>1. UNCHANGED <<cli, request, running>> /\ \A r \in Requests : request[r].at = "idle"
    BY <1>1, <1>10 DEF ByHand, console, TakeInv, Active
  <2> QED
    BY <1>2, <2>1 DEF SetsUp
<1> QED
  BY <1>3, <1>4, <1>5, <1>6, <1>7, <1>8, <1>9, <1>10 DEF Next

\* The lab starts with nobody setting it up.
LEMMA InitLab == Init => LabInv
BY DEF Init, LabInv, Fits, SetsUp, NoCommand, NoPost, FromClearing, FromStatus, FromUnpause,
   FromUncordon

\* What the commands of a take achieve holds in every behaviour of the lab
\* (scenarios.py:33-144, ui-server.ts:236-274).
THEOREM TakeInvariance == Spec => []LabInv
<1>1. Init => LabInv
  BY InitLab
<1>2. IInv /\ LabInv /\ [Next]_vars => LabInv'
  BY NextLab
<1> QED
  BY <1>1, <1>2, Invariance, PTL DEF Spec

\* A command that has exited with 0 and whose post has the lab has achieved
\* what it is for (scenarios.py:33-144).
LEMMA Exits0 ==
    ASSUME IInv, LabInv, NEW r \in Requests, request[r].at \in SetsUp, cli[r].at = "exited", cli[r].ok
    PROVE  /\ cli[r].cmd = "clear" => NothingLeft(r)
           /\ cli[r].cmd \in Scenarios => symptoms /\ silences = {}
           /\ cli[r].cmd = "hang" => frozen /\ StandsStill(machine[Host])
<1>1. Achieved(r)
  BY DEF LabInv
<1>2. ASSUME cli[r].cmd = "clear" PROVE NothingLeft(r)
  <2>1. /\ Cleaned /\ clearing = {} /\ AllUp
        /\ ~cordoned /\ (frozen => cli[r].refused) /\ (symptoms => silences # {})
    BY <1>1, <1>2 DEF Achieved
  <2> QED
    BY <2>1 DEF NothingLeft, Cleaned, AllUp, Sane, Up
<1> QED
  BY <1>1, <1>2 DEF Achieved

\* A clear that exits 0 has put the lab back, all but a node that docker refused
\* to thaw, whatever was left in it and whatever the tick loop did meanwhile
\* (scenarios.py:100-144).
THEOREM ClearPutsBack == Spec => []ClearRestores
<1>1. IInv /\ LabInv => ClearRestores
  <2> SUFFICES ASSUME IInv, LabInv, NEW r \in Requests, request[r].at \in {"clear", "undo"},
                      cli[r].at = "exited", cli[r].ok
               PROVE  NothingLeft(r)
    BY DEF ClearRestores
  <2>1. cli[r].cmd = "clear"
    BY DEF LabInv, Fits
  <2> QED
    BY <2>1, Exits0 DEF SetsUp
<1> QED
  BY <1>1, Invariance, TakeInvariance, PTL

\* A post that is answered with an error leaves no half-injected fault, unless
\* the command that should have put the lab back failed itself or docker refused
\* it to thaw the node (ui-server.ts:244-250, 312-317).
THEOREM FailedPostPutsBack == Spec => []FailedPostIsUndone
<1>1. IInv /\ LabInv => FailedPostIsUndone
  <2> SUFFICES ASSUME IInv, LabInv, NEW r \in Requests, request[r].at = "failed"
               PROVE  NothingLeft(r) \/ (cli[r].cmd = "clear" /\ ~cli[r].ok)
    BY DEF FailedPostIsUndone
  <2>1. cli[r].cmd = "clear" /\ cli[r].at = "exited"
    BY DEF LabInv, Fits
  <2>2. cli[r].ok => NothingLeft(r)
    BY <2>1, Exits0 DEF SetsUp
  <2> QED
    BY <2>1, <2>2
<1> QED
  BY <1>1, Invariance, TakeInvariance, PTL

\* A post that is about to spawn the run has had its scenario injected
\* (ui-server.ts:252-274).
LEMMA ToSpawn ==
    ASSUME IInv, LabInv, NEW r \in Requests, request[r].at = "spawn"
    PROVE  /\ symptoms /\ silences = {}
           /\ request[r].scenario = "hang" => frozen /\ StandsStill(machine[Host])
<1>1. cli[r].at = "exited" /\ cli[r].ok /\ cli[r].cmd = request[r].scenario
  BY DEF LabInv, Fits
<1>2. request[r].scenario \in Scenarios
  BY DEF IInv, TakeInv
<1> QED
  BY <1>1, <1>2, Exits0 DEF SetsUp

\* When the run starts no silence of the last clear or the last run swallows
\* the symptoms of its scenario (scenarios.py:33-45).
THEOREM StormIsSeen == Spec => []StormIsVisible
<1>1. IInv /\ LabInv => StormIsVisible
  BY ToSpawn DEF StormIsVisible
<1> QED
  BY <1>1, Invariance, TakeInvariance, PTL

\* The run of a hang is shown a node that does stand still, on a machine that
\* is hung or off (scenarios.py:88-92).
THEOREM HangStandsStill == Spec => []HangIsReal
<1>1. IInv /\ LabInv => HangIsReal
  BY ToSpawn DEF HangIsReal, StandsStill
<1> QED
  BY <1>1, Invariance, TakeInvariance, PTL
============================================================================
