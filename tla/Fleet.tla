------------------------------- MODULE Fleet -------------------------------
(***************************************************************************)
(* The simulated machines behind the mock BMC, mock-bmc/app/state.py, with *)
(* the two threads that change them: the tick loop of app/main.py, which   *)
(* runs in the server's event loop, and the request handlers of            *)
(* app/chaos.py and app/redfish.py, which run on its thread pool.          *)
(*                                                                         *)
(* Nothing locks a machine.  The interpreter changes threads at calls and  *)
(* at the turn of a loop, so a run of assignments without a call between   *)
(* them is one step: a whole handler, except clear_chaos, which is one     *)
(* step for each machine; and four steps of a tick for each machine.       *)
(*                                                                         *)
(* Of a temperature it is kept whether it is over the trip point.  The     *)
(* event log, the fans and the watts decide nothing and are left out.      *)
(***************************************************************************)
EXTENDS Integers, FiniteSets

CONSTANTS
    Machines,   \* the system ids of the fleet
    Nobody      \* no machine

ASSUME FleetAssumption ==
    /\ IsFiniteSet(Machines) /\ Machines # {}
    /\ Nobody \notin Machines

VARIABLES
    machine,    \* of each system id: its Machine
    ambient,    \* ambient_offset_c # 0: the cooling of the room has failed
    ticking,    \* the tick in progress
    clearing    \* the machines that a clear_chaos in progress has yet to reach

fleet == <<machine, ambient, ticking, clearing>>

\* The two power supplies.
Psus == {1, 2}

Machine == [power: {"On", "Off"},
            hung: BOOLEAN,
            over: BOOLEAN,         \* cpu_temp_c >= 97
            spiked: BOOLEAN,       \* thermal_offset_c # 0
            lost: SUBSET Psus,     \* the p with ~psu_ok[p]
            trip: BOOLEAN,         \* thermal_trip
            chaosOff: BOOLEAN,     \* chaos_powered_off
            offBy: {"none", "fault", "command"}]  \* observed: what switched it off last

\* The steps of a tick on one machine, in their order.
Blocks == {"sense", "heat", "psu", "trip"}

\* No tick in progress.
Idle == [left |-> {}, at |-> Nobody, block |-> "sense", rises |-> FALSE]

NewMachine == [power |-> "On", hung |-> FALSE, over |-> FALSE, spiked |-> FALSE, lost |-> {},
               trip |-> FALSE, chaosOff |-> FALSE, offBy |-> "none"]

\* The fleet as it starts, or after supply 1 was failed on every machine.
FleetInit ==
    /\ machine \in {[m \in Machines |-> [NewMachine EXCEPT !.lost = lost]] : lost \in {{}, {1}}}
    /\ ambient = FALSE
    /\ ticking = Idle
    /\ clearing = {}

----------------------------------------------------------------------------
\* What the handlers do to one machine

PoweredOn(r) == [r EXCEPT !.chaosOff = FALSE, !.trip = FALSE, !.hung = FALSE, !.power = "On",
                          !.offBy = "none"]

\* A machine that is off already keeps its trip, but its being off is wanted now.
PoweredOff(r) == [r EXCEPT !.chaosOff = FALSE, !.power = "Off", !.hung = FALSE, !.offBy = "command"]

\* Mutated form of AfterReset: a restart forgets to reset the trip.
AfterResetTripKept(r, type) ==
    CASE type \in {"ForceRestart", "GracefulRestart"} -> [PoweredOn(r) EXCEPT !.trip = r.trip]
      [] type = "On" -> PoweredOn(r)
      [] OTHER -> PoweredOff(r)

\* "Nmi" only logs and is left out.
AfterReset(r, type) ==
    CASE type \in {"On", "ForceRestart", "GracefulRestart"} -> PoweredOn(r)
      [] type \in {"ForceOff", "GracefulShutdown"} -> PoweredOff(r)

\* What clear_chaos does to one machine: it comes back on if a fault it can
\* undo has switched it off.
Cleared(r) ==
    [r EXCEPT !.spiked = FALSE, !.lost = {}, !.hung = FALSE, !.trip = FALSE, !.chaosOff = FALSE,
              !.power = IF r.chaosOff THEN "On" ELSE @,
              !.offBy = IF r.chaosOff THEN "none" ELSE @]

Changed(m, r) ==
    /\ machine' = [machine EXCEPT ![m] = r]
    /\ UNCHANGED <<ambient, ticking, clearing>>

Reset(m, type) == Changed(m, AfterReset(machine[m], type))

ThermalSpike(m) == Changed(m, [machine[m] EXCEPT !.spiked = TRUE])

\* Mutated form of PsuFail: the supplies are counted from zero.
PsuFailUnchecked(m, p) == Changed(m, [machine[m] EXCEPT !.lost = @ \cup {p - 1}])

PsuFail(m, p) == Changed(m, [machine[m] EXCEPT !.lost = @ \cup {p}])

PsuRestore(m, p) == Changed(m, [machine[m] EXCEPT !.lost = @ \ {p}])

Hang(m) == Changed(m, [machine[m] EXCEPT !.hung = TRUE])

Unhang(m) == Changed(m, [machine[m] EXCEPT !.hung = FALSE])

CracFail ==
    /\ ambient' = TRUE
    /\ UNCHANGED <<machine, ticking, clearing>>

CracRestore ==
    /\ ambient' = FALSE
    /\ UNCHANGED <<machine, ticking, clearing>>

\* clear_chaos cools the room and goes from machine to machine.  Nothing keeps
\* it from one whose caller was killed: that one is ahead of it in the same
\* order, and what it has yet to do is done with this one.
ClearChaos ==
    /\ ambient' = FALSE
    /\ clearing' = Machines
    /\ UNCHANGED <<machine, ticking>>

ClearMachine ==
    /\ \E m \in clearing :
          /\ machine' = [machine EXCEPT ![m] = Cleared(@)]
          /\ clearing' = clearing \ {m}
    /\ UNCHANGED <<ambient, ticking>>

----------------------------------------------------------------------------
\* The tick loop

TickStart ==
    /\ ticking = Idle
    /\ \E m \in Machines :
          ticking' = [left |-> Machines \ {m}, at |-> m, block |-> "sense", rises |-> FALSE]
    /\ UNCHANGED <<machine, ambient, clearing>>

\* A spike may have run out (thermal_until); then the machine is found on or
\* not, and its target temperature is computed from what heats it now.
TickSense ==
    /\ ticking.at # Nobody /\ ticking.block = "sense"
    /\ LET r == machine[ticking.at] IN
       \E spiked \in {r.spiked, FALSE} :
          /\ machine' = [machine EXCEPT ![ticking.at].spiked = spiked]
          /\ ticking' = [ticking EXCEPT
                !.block = "heat",
                !.rises = r.power = "On" /\ ~r.trip /\ (spiked \/ ambient)]
    /\ UNCHANGED <<ambient, clearing>>

\* Without extra heat the target is below the trip point: a machine that is
\* over it cools within some ticks, one that is not stays so.
TickHeat ==
    /\ ticking.at # Nobody /\ ticking.block = "heat"
    /\ \E over \in BOOLEAN :
          /\ over => ticking.rises \/ machine[ticking.at].over
          /\ machine' = [machine EXCEPT ![ticking.at].over = over]
    /\ ticking' = [ticking EXCEPT !.block = "psu", !.rises = FALSE]
    /\ UNCHANGED <<ambient, clearing>>

NoPower(r) == r.power = "On" /\ r.lost = Psus

\* The log entry of the power loss lets other threads in before the trip.
TickPsu ==
    /\ ticking.at # Nobody /\ ticking.block = "psu"
    /\ NoPower(machine[ticking.at])
    /\ machine' = [machine EXCEPT ![ticking.at].chaosOff = TRUE, ![ticking.at].power = "Off",
                                  ![ticking.at].hung = FALSE, ![ticking.at].offBy = "fault"]
    /\ ticking' = [ticking EXCEPT !.block = "trip"]
    /\ UNCHANGED <<ambient, clearing>>

\* Mutated form of Tripped: the machine counts as switched off by chaos.
TrippedIsChaosOff(r) ==
    [r EXCEPT !.trip = TRUE, !.chaosOff = TRUE, !.power = "Off", !.hung = FALSE,
              !.offBy = IF r.power = "On" THEN "fault" ELSE @]

\* A machine that trips while it is off was not switched off by the trip.
Tripped(r) ==
    [r EXCEPT !.trip = TRUE, !.chaosOff = @ \/ r.power = "On", !.power = "Off", !.hung = FALSE,
              !.offBy = IF r.power = "On" THEN "fault" ELSE @]

\* The last step of a machine; the tick goes on with another one or ends.
TickTrip ==
    /\ ticking.at # Nobody
    /\ \/ ticking.block = "trip"
       \/ ticking.block = "psu" /\ ~NoPower(machine[ticking.at])
    /\ LET r == machine[ticking.at] IN
       machine' = IF r.over /\ ~r.trip THEN [machine EXCEPT ![ticking.at] = Tripped(r)] ELSE machine
    /\ IF ticking.left = {}
       THEN ticking' = Idle
       ELSE \E m \in ticking.left :
               ticking' = [left |-> ticking.left \ {m}, at |-> m, block |-> "sense", rises |-> FALSE]
    /\ UNCHANGED <<ambient, clearing>>

TickStep == TickSense \/ TickHeat \/ TickPsu \/ TickTrip

----------------------------------------------------------------------------

FleetTypeOK ==
    /\ machine \in [Machines -> Machine]
    /\ ambient \in BOOLEAN
    /\ ticking \in [left: SUBSET Machines, at: Machines \cup {Nobody}, block: Blocks, rises: BOOLEAN]
    /\ clearing \subseteq Machines

\* A machine whose thermal trip stands is off, through every interleaving of
\* ticks, resets and clears: one that ran with its trip standing would never
\* be heated nor tripped again, state.py:121 and 142.
TripMeansOff == \A m \in Machines : machine[m].trip => machine[m].power = "Off"

\* Clearing chaos switches on what chaos switched off and nothing else: a
\* machine that somebody powered off, even one that had tripped before or
\* trips afterwards, stays off (state.py:144 and 246-247).
ClearLeavesCommandedOff ==
    [][\A m \in Machines :
          m \in clearing /\ m \notin clearing' /\ machine[m].offBy = "command" =>
              machine'[m].power = "Off"]_fleet
============================================================================
