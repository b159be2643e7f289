----------------------------- MODULE StormWatch -----------------------------
(***************************************************************************)
(* The storm, seen twice.  N0 asks Alertmanager for its alerts and keeps   *)
(* the active ones (hush/src/nodes/watch.ts); its gate looks for a burst   *)
(* in them (hush/src/storm.ts).  N1 supplies those alerts to the agent,    *)
(* which passes them to correlate_alerts (mcp/hush_mcp/correlate.py).  The *)
(* gate and the grouping are written in two languages and with two         *)
(* algorithms, and must see the same storm.                                *)
(*                                                                         *)
(* Alertmanager is external.  Alerts start, are suppressed by a silence,   *)
(* are released and end.  It lists them in an order of its own, and one    *)
(* that arrives may have started long before: it is posted again, or its   *)
(* rule has fired for a while.  What the agent passes on is its own        *)
(* choice: the properties quantify over the parts and the orders of what   *)
(* it was given.                                                           *)
(***************************************************************************)
EXTENDS Integers, Sequences, FiniteSets, SequencesExt

CONSTANTS
    Kinds,       \* the labels an alert may have: <<rack, layer>>
    MaxTime,     \* bound: the times at which alerts start
    MaxStarted,  \* bound: alerts started
    WindowS,     \* WINDOW_S
    StormMin     \* STORM_MIN

\* "unknown" is what an alert without a rack is filed under.
Racks == {"R4", "R2", "unknown"}

Layers == {"facility", "bmc", "app"}

ASSUME StormAssumption ==
    /\ Kinds \subseteq Racks \X Layers
    /\ {MaxTime, MaxStarted, WindowS} \subseteq Nat
    /\ StormMin \in Nat \ {0}

VARIABLES
    bus,     \* what Alertmanager answers, in the order it lists them
    started  \* how many alerts started: their fingerprints are 1 .. started

vars == <<bus, started>>

\* `at` is the startsAt of an alert, and it is `firing` if its state is
\* "active": N0 drops one that is suppressed.  correlate.py drops what is not
\* firing as well, should the agent pass it on.
Alert == [id: 1 .. MaxStarted, at: 0 .. MaxTime, firing: BOOLEAN, rack: Racks, layer: Layers]

Init ==
    /\ bus = <<>>
    /\ started = 0

----------------------------------------------------------------------------
\* The algorithms

Firing(a) == a.firing

\* The members of S in the order R, a set of pairs.
Listed(S, R) == [k \in 1 .. Cardinality(S) |->
                    CHOOSE i \in S : Cardinality({j \in S : <<j, i>> \in R}) = k - 1]

\* What s has at the places I, in its order.
Picked(s, I) ==
    LET place == Listed(I, {p \in I \X I : p[1] < p[2]})
    IN  [k \in 1 .. Cardinality(I) |-> s[place[k]]]

\* The alerts of N0.
FiringAlerts(s) == Picked(s, {i \in DOMAIN s : Firing(s[i])})

Ids(s) == {s[i].id : i \in DOMAIN s}

\* The alerts by their start; those that started together stay in order.
ByTime(s) ==
    LET Before(i, j) == s[i].at < s[j].at \/ (s[i].at = s[j].at /\ i < j)
        place == Listed(DOMAIN s, {p \in (DOMAIN s) \X (DOMAIN s) : Before(p[1], p[2])})
    IN  [k \in DOMAIN s |-> s[place[k]]]

\* Mutated form of LeftEdge: a window of exactly WINDOW_S is too wide.
LeftEdgeStrict(s) ==
    LET left[right \in DOMAIN s] ==
          LET from == IF right = 1 THEN 1 ELSE left[right - 1] IN
          CHOOSE l \in from .. right :
             /\ l = right \/ s[right].at - s[l].at < WindowS
             /\ \A k \in from .. l - 1 : s[right].at - s[k].at >= WindowS
    IN  left

\* The left edge of the window that ends at each alert of the sorted s: it
\* moves on while the window is too wide, and never goes back.
LeftEdge(s) ==
    LET left[right \in DOMAIN s] ==
          LET from == IF right = 1 THEN 1 ELSE left[right - 1] IN
          CHOOSE l \in from .. right :
             /\ s[right].at - s[l].at <= WindowS
             /\ \A k \in from .. l - 1 : s[right].at - s[k].at > WindowS
    IN  left

\* Mutated form of StormBurst: the window is anchored to the oldest alert.
StormBurstOldest(alerts) ==
    IF alerts = <<>> THEN <<>> ELSE
    LET s == ByTime(alerts) IN Picked(s, {i \in DOMAIN s : s[i].at - s[1].at <= WindowS})

\* storm.ts: of the windows that end at an alert, the first that is longest.
StormBurst(alerts) ==
    IF alerts = <<>> THEN <<>> ELSE
    LET s == ByTime(alerts)
        left == LeftEdge(s)
        Length(right) == right - left[right] + 1
        best == CHOOSE right \in DOMAIN s :
                   \A other \in DOMAIN s :
                      \/ Length(other) < Length(right)
                      \/ Length(other) = Length(right) /\ other >= right
    IN  SubSeq(s, left[best], best)

IsStorm(alerts) == Len(StormBurst(FiringAlerts(alerts))) >= StormMin

\* correlate.py: facility < bmc < everything else.
Rank(a) ==
    CASE a.layer = "facility" -> 0
      [] a.layer = "bmc" -> 1
      [] OTHER -> 2

InWindow(a, start) == 0 <= a.at - start /\ a.at - start <= WindowS

\* Mutated form of WindowStart: the window opens on the oldest alert.
WindowStartOldest(s) == s[1].at

\* Of the windows that start at an alert, the first that holds most.
WindowStart(s) ==
    LET Count(i) == Cardinality({j \in DOMAIN s : InWindow(s[j], s[i].at)})
        best == CHOOSE i \in DOMAIN s :
                   \A j \in DOMAIN s : Count(j) < Count(i) \/ (Count(j) = Count(i) /\ i <= j)
    IN  s[best].at

\* Mutated form of Leads: time before layer.
LeadsByTime(a, b) == a.at < b.at \/ (a.at = b.at /\ Rank(a) <= Rank(b))

\* Layer before time.
Leads(a, b) == Rank(a) < Rank(b) \/ (Rank(a) = Rank(b) /\ a.at <= b.at)

\* The first of a group that leads all of it.
Lead(group) ==
    LET lead == CHOOSE i \in DOMAIN group :
                   /\ \A j \in DOMAIN group : Leads(group[i], group[j])
                   /\ \A k \in 1 .. i - 1 : \E j \in DOMAIN group : ~Leads(group[k], group[j])
    IN  group[lead].id

\* Mutated form of Orphan: any alert without a rack is filed as noise as well.
OrphanAlways(c) == c.rack = "unknown"

\* A lone alert without a rack is no cluster.
Orphan(c) == Len(c.alerts) = 1 /\ c.rack = "unknown"

\* The clusters, and the ids of the noise.  (Their order, by size and first
\* alert, is left out: clusters are a set here.)
Correlate(alerts) ==
    LET firing == ByTime(FiringAlerts(alerts))
        start == WindowStart(firing)
        inWindow == Picked(firing, {i \in DOMAIN firing : InWindow(firing[i], start)})
        Group(rack) == Picked(inWindow, {i \in DOMAIN inWindow : inWindow[i].rack = rack})
        racks == {inWindow[i].rack : i \in DOMAIN inWindow}
        clusters == {[rack |-> rack, alerts |-> Group(rack), lead |-> Lead(Group(rack))] : rack \in racks}
        orphans == {c \in clusters : Orphan(c)}
    IN  IF firing = <<>>
        THEN [clusters |-> {}, noise |-> {}]
        ELSE [clusters |-> clusters \ orphans,
              noise |-> (Ids(firing) \ Ids(inWindow)) \cup {c.alerts[1].id : c \in orphans}]

----------------------------------------------------------------------------
\* The bus

\* Mutated form of Start: an alert without a rack is filed under no name.
StartUnnamed(kind, at) ==
    /\ started < MaxStarted
    /\ started' = started + 1
    /\ bus' = Append(bus, [id |-> started + 1, at |-> at, firing |-> TRUE,
                           rack |-> IF kind[1] = "unknown" THEN "" ELSE kind[1], layer |-> kind[2]])

Start(kind, at) ==
    /\ started < MaxStarted
    /\ started' = started + 1
    /\ bus' = Append(bus, [id |-> started + 1, at |-> at, firing |-> TRUE,
                           rack |-> kind[1], layer |-> kind[2]])

\* A silence begins to match it.
Suppress(i) ==
    /\ bus[i].firing
    /\ bus' = [bus EXCEPT ![i].firing = FALSE]
    /\ UNCHANGED started

\* The silence expires or is deleted.
Release(i) ==
    /\ ~bus[i].firing
    /\ bus' = [bus EXCEPT ![i].firing = TRUE]
    /\ UNCHANGED started

\* Alertmanager does not list an alert that has ended.
End(i) ==
    /\ bus' = RemoveAt(bus, i)
    /\ UNCHANGED started

Next ==
    \/ \E kind \in Kinds, at \in 0 .. MaxTime : Start(kind, at)
    \/ \E i \in DOMAIN bus : Suppress(i) \/ Release(i) \/ End(i)

Spec == Init /\ [][Next]_vars

----------------------------------------------------------------------------

TypeOK ==
    /\ bus \in Seq(Alert)
    /\ started \in 0 .. MaxStarted

\* The clusters of an answer hold the burst and nothing else; a lone alert of
\* it without a rack may be noise.
Groups(answer, burst) ==
    LET grouped == UNION {Ids(c.alerts) : c \in answer.clusters}
    IN  /\ grouped \subseteq Ids(burst)
        /\ \A i \in DOMAIN burst :
              burst[i].id \in grouped
              \/ /\ burst[i].rack = "unknown"
                 /\ \A j \in DOMAIN burst : burst[j].rack = "unknown" => i = j

\* The gate of N0 counts the largest set of firing alerts that fits into any
\* window, wherever it starts: the two pointers of stormBurst miss none
\* (storm.ts:16-31).
BurstIsLargest ==
    \A start \in 0 .. MaxTime :
        Cardinality({i \in DOMAIN bus : Firing(bus[i]) /\ InWindow(bus[i], start)})
            <= Len(StormBurst(FiringAlerts(bus)))

\* The grouping is about the very storm the gate has let through, whichever
\* of N0's other alerts the agent leaves out when it passes the storm on:
\* outside the burst of storm.ts there is nothing but noise, and all that is
\* in it is in a cluster, save a lone alert without a rack
\* (correlate.py:83-86, 114).
SameStorm ==
    LET alerts == FiringAlerts(bus)
        burst == StormBurst(alerts)
    IN  \A I \in SUBSET DOMAIN alerts :
           ToSet(burst) \subseteq {alerts[i] : i \in I} =>
               Groups(Correlate(Picked(alerts, I)), burst)

\* Every firing alert of the answer is in one cluster or in the noise, never
\* in both and never lost, and what has ended is in neither
\* (correlate.py:85-86, 111-118).
FiledOnce ==
    LET answer == Correlate(bus)
        grouped == UNION {Ids(c.alerts) : c \in answer.clusters}
    IN  /\ grouped \cup answer.noise = Ids(FiringAlerts(bus))
        /\ grouped \cap answer.noise = {}
        /\ \A c, d \in answer.clusters : c # d => Ids(c.alerts) \cap Ids(d.alerts) = {}

\* What is made of an answer: the storm, its clusters and the noise.
Filed(alerts) ==
    LET answer == Correlate(alerts)
    IN  [storm  |-> Ids(StormBurst(FiringAlerts(alerts))),
         groups |-> {<<c.rack, Ids(c.alerts)>> : c \in answer.clusters},
         noise  |-> answer.noise]

\* In whatever order the alerts are listed or passed on, the storm, the
\* clusters and the noise are the same, and the leading alert is one of the
\* lowest layer that fired first (storm.ts:23-26, correlate.py:80-98).
OrderDoesNotMatter ==
    LET alerts == FiringAlerts(bus)
        filed == Filed(bus)
    IN  /\ \A p \in Bijection(DOMAIN alerts, DOMAIN alerts) :
              Filed([k \in DOMAIN alerts |-> alerts[p[k]]]) = filed
        /\ \A c \in Correlate(bus).clusters : \A i, j \in DOMAIN c.alerts :
              c.alerts[i].id = c.lead =>
                  /\ c.alerts[j].layer = "facility" => c.alerts[i].layer = "facility"
                  /\ c.alerts[i].layer = "app" => c.alerts[j].layer = "app"
                  /\ c.alerts[i].layer = c.alerts[j].layer => c.alerts[i].at <= c.alerts[j].at

\* A storm that is there stays seen for as long as the alerts of its burst
\* fire, whatever else starts, ends or is silenced, be it alerts far older
\* than the storm (storm.ts:8-15).
StormStaysSeen ==
    [][IsStorm(bus) /\ ToSet(StormBurst(FiringAlerts(bus))) \subseteq ToSet(bus')
           => IsStorm(bus')]_vars
============================================================================
