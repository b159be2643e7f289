------------------------------ MODULE Inventory ------------------------------
(***************************************************************************)
(* The inventory an approval turns on: NetBox, the seeding that fills it   *)
(* (infra/netbox/seed.py) and the tools that read it page by page, or      *)
(* answer from seed.json (mcp/hush_mcp/netbox.py).                         *)
(*                                                                         *)
(* NetBox is only known by its clients: it files what is posted, under     *)
(* whatever name, lists devices by name, and cuts the list into pages.     *)
(* Nothing else writes to it, and one seeding runs at a time.  A request   *)
(* its client has given up was handled by then or never is.                *)
(***************************************************************************)
EXTENDS Integers, Sequences, FiniteSets, SequencesExt

CONSTANTS
    NDevices,    \* devices of seed.json
    NTenants,    \* tenants of seed.json
    Asked,       \* bound: the names the agent asks for
    PageSize,    \* devices of a page
    MaxPages,    \* MAX_PAGES
    MaxFaults,   \* bound: requests that fail
    MaxSeedings  \* bound: how often seed.py is run

ASSUME InventoryAssumption ==
    /\ {NDevices, NTenants, MaxFaults, MaxSeedings} \subseteq Nat
    /\ {PageSize, MaxPages} \subseteq Nat \ {0}
    /\ Asked \subseteq 1 .. NDevices + 1

VARIABLES
    store,     \* what NetBox holds, in the order it was filed
    seeder,    \* the run of seed.py: the object it is at, and the call
    exit,      \* how the last run of seed.py ended
    seedings,  \* how many were started
    query,     \* the tool call being answered, or the last answer
    runaway,   \* NetBox says of every page that there is another one
    faults     \* how many requests failed

seeding == <<store, seeder, exit, seedings>>

vars == <<seeding, query, runaway, faults>>

\* A device is known by its number, which is also its place among the names.
Devices == 1 .. NDevices

\* There is a name no device has.
Names == 1 .. NDevices + 1

Each(kind, n) == [i \in 1 .. n |-> <<kind, i>>]

\* What seed ensures, in its order; every later entry names ids of earlier ones.
Plan ==
    Each("site", 1) \o Each("tenant", NTenants) \o Each("rack", 1) \o Each("manufacturer", 1)
        \o Each("device_type", 1) \o Each("device_role", 1) \o Each("custom_field", 1)
        \o Each("device", NDevices)

Objects == ToSet(Plan)

Tools == {"get_device", "list_rack_devices", "get_blast_radius"}

Sources == {"none", "live", "fallback", "error"}

Query == [at: {"idle", "page", "answered"}, tool: Tools, want: SUBSET Names, pages: 0 .. MaxPages,
          devices: Seq(Devices),
          missing: SUBSET Names,
          source: Sources,
          began: SUBSET Devices]  \* observed: the devices NetBox held when it was asked

Held == {d \in Devices : <<"device", d>> \in ToSet(store)}

NoQuery == [at |-> "idle", tool |-> "get_device", want |-> {}, pages |-> 0, devices |-> <<>>,
            missing |-> {}, source |-> "none", began |-> {}]

Init ==
    /\ store = <<>>
    /\ seeder = [at |-> 1, call |-> "none"]
    /\ exit = "none"
    /\ seedings = 0
    /\ query = NoQuery
    /\ runaway \in BOOLEAN
    /\ faults = 0

Fault ==
    /\ faults < MaxFaults
    /\ faults' = faults + 1

----------------------------------------------------------------------------
\* seed.py

SeedStarts ==
    /\ seeder.call = "none"
    /\ seedings < MaxSeedings
    /\ seedings' = seedings + 1
    /\ seeder' = [at |-> 1, call |-> "get"]
    /\ exit' = "none"
    /\ UNCHANGED <<store, query, runaway, faults>>

\* The object is there: seed goes on with the next one, or is done.
Ensured ==
    IF seeder.at < Len(Plan)
    THEN seeder' = [at |-> seeder.at + 1, call |-> "get"] /\ UNCHANGED exit
    ELSE seeder' = [at |-> 1, call |-> "none"] /\ exit' = "ok"

\* Mutated form of Lookup: what is to be filed is not looked for first.
LookupSkipped ==
    /\ seeder.call = "get"
    /\ seeder' = [seeder EXCEPT !.call = "post"] /\ UNCHANGED exit
    /\ UNCHANGED <<store, seedings, query, runaway, faults>>

Lookup ==
    /\ seeder.call = "get"
    /\ IF Plan[seeder.at] \in ToSet(store)
       THEN Ensured
       ELSE seeder' = [seeder EXCEPT !.call = "post"] /\ UNCHANGED exit
    /\ UNCHANGED <<store, seedings, query, runaway, faults>>

Filed == store' = Append(store, Plan[seeder.at])

Create ==
    /\ seeder.call = "post"
    /\ Filed
    /\ Ensured
    /\ UNCHANGED <<seedings, query, runaway, faults>>

\* Mutated form of SeedFails: an object that could not be ensured is passed over.
SeedFailsOn ==
    /\ seeder.call # "none"
    /\ Fault
    /\ UNCHANGED store \/ (seeder.call = "post" /\ Filed)
    /\ Ensured
    /\ UNCHANGED <<seedings, query, runaway>>

\* A call that is refused or not answered ends the run with exit code 1, and
\* so does its death; what it wanted filed may have been.
SeedFails ==
    /\ seeder.call # "none"
    /\ Fault
    /\ UNCHANGED store \/ (seeder.call = "post" /\ Filed)
    /\ seeder' = [at |-> 1, call |-> "none"]
    /\ exit' = "failed"
    /\ UNCHANGED <<seedings, query, runaway>>

----------------------------------------------------------------------------
\* The tools

\* The nodes or the name asked for, or those of the rack.
Wants(tool) ==
    CASE tool = "get_device" -> {{n} : n \in Asked}
      [] tool = "list_rack_devices" -> {Devices, {}}
      [] tool = "get_blast_radius" -> SUBSET Asked

Ask(tool, want) ==
    /\ query.at # "page"
    /\ query' = [NoQuery EXCEPT !.at = "page", !.tool = tool, !.want = want, !.began = Held]
    /\ UNCHANGED <<seeding, runaway, faults>>

\* A list of no names is no filter: all devices are asked for.
Matching(tool, want) == IF tool = "get_blast_radius" /\ want = {} THEN Devices ELSE want

\* The devices of S in the order of their names.
InOrder(S) == [i \in 1 .. Cardinality(S) |-> CHOOSE d \in S : Cardinality({c \in S : c <= d}) = i]

Listing == InOrder(Held \cap Matching(query.tool, query.want))

Page(n) ==
    LET last == IF Len(Listing) < (n + 1) * PageSize THEN Len(Listing) ELSE (n + 1) * PageSize
    IN  SubSeq(Listing, n * PageSize + 1, last)

HasNext(n) == runaway \/ Len(Listing) > (n + 1) * PageSize

\* A single device is the first of the list.
Answers(source, devices) ==
    LET told == IF query.tool = "get_device" THEN SubSeq(devices, 1, IF devices = <<>> THEN 0 ELSE 1)
                ELSE devices
    IN  query' = [query EXCEPT
                     !.at = "answered", !.pages = 0, !.source = source, !.devices = told,
                     !.missing = IF query.tool = "get_blast_radius" /\ source # "error"
                                 THEN query.want \ ToSet(devices) ELSE {}]

Seeded == InOrder(Devices \cap query.want)

\* Mutated form of ReadPage: the first page is taken for the list.
ReadPageFirst ==
    /\ query.at = "page"
    /\ Answers("live", Page(0))
    /\ UNCHANGED <<seeding, runaway, faults>>

\* Mutated form of ReadPage: one page too many is read.
ReadPageTooMany ==
    /\ query.at = "page"
    /\ \/ /\ query.pages <= MaxPages /\ HasNext(query.pages)
          /\ query' = [query EXCEPT !.pages = @ + 1, !.devices = @ \o Page(query.pages)]
       \/ /\ query.pages <= MaxPages /\ ~HasNext(query.pages)
          /\ Answers("live", query.devices \o Page(query.pages))
       \/ query.pages > MaxPages /\ Answers("fallback", Seeded)
    /\ UNCHANGED <<seeding, runaway, faults>>

\* Mutated form of ReadPage: it is read on for as long as there is a next page.
ReadPageForever ==
    /\ query.at = "page"
    /\ \/ /\ query.pages < MaxPages /\ HasNext(query.pages)
          /\ query' = [query EXCEPT !.pages = @ + 1, !.devices = @ \o Page(query.pages)]
       \/ /\ query.pages < MaxPages /\ ~HasNext(query.pages)
          /\ Answers("live", query.devices \o Page(query.pages))
       \/ query.pages = MaxPages /\ UNCHANGED query
    /\ UNCHANGED <<seeding, runaway, faults>>

\* The answer to a request is a page of the list, up to MAX_PAGES of them.  The
\* page after these is requested as well, but not looked at: seed.json answers.
ReadPage ==
    /\ query.at = "page"
    /\ \/ /\ query.pages < MaxPages /\ HasNext(query.pages)
          /\ query' = [query EXCEPT !.pages = @ + 1, !.devices = @ \o Page(query.pages)]
       \/ /\ query.pages < MaxPages /\ ~HasNext(query.pages)
          /\ Answers("live", query.devices \o Page(query.pages))
       \/ query.pages = MaxPages /\ Answers("fallback", Seeded)
    /\ UNCHANGED <<seeding, runaway, faults>>

\* A page that does not come, is refused or is no JSON; or one that is no
\* object or has no URL for the next, of which only the wrapper of the tools
\* makes an answer.
PageFails ==
    /\ query.at = "page"
    /\ Fault
    /\ Answers("fallback", Seeded) \/ Answers("error", <<>>)
    /\ UNCHANGED <<seeding, runaway>>

----------------------------------------------------------------------------

Next ==
    \/ SeedStarts \/ Lookup \/ Create \/ SeedFails
    \/ \E tool \in Tools : \E want \in Wants(tool) : Ask(tool, want)
    \/ ReadPage \/ PageFails

\* A request is answered or given up after TIMEOUT_S.
Fairness == WF_vars(ReadPage)

Spec == Init /\ [][Next]_vars /\ Fairness

----------------------------------------------------------------------------

TypeOK ==
    /\ store \in Seq(Objects)
    /\ seeder \in [at: DOMAIN Plan, call: {"none", "get", "post"}]
    /\ exit \in {"none", "ok", "failed"}
    /\ seedings \in 0 .. MaxSeedings
    /\ query \in Query
    /\ runaway \in BOOLEAN
    /\ faults \in 0 .. MaxFaults

\* However often seeding is cut short and run again, and though what it wanted
\* filed may have been filed unseen, nothing is filed twice (seed.py:32-43).
SeededOnce == IsInjective(store)

\* A seeding that exits 0 leaves the whole fleet in NetBox, whatever part of
\* it earlier ones had left there (seed.py:129-138).
SeededMeansAll == exit = "ok" => ToSet(store) = Objects

\* A live answer names every device asked for that NetBox held when it was
\* asked, over all its pages and while devices are being filed, and none of
\* them twice.  A fallback is all of seed.json's answer, with no live page in
\* it.  A node of a blast radius is in the answer or named as missing
\* (netbox.py:69-103, 129-144).
AnswersAreWhole ==
    query.at = "answered" =>
        LET found == ToSet(query.devices) IN
        /\ query.source = "live" =>
              /\ query.began \cap Matching(query.tool, query.want) \subseteq found
              /\ found \subseteq Held \cap Matching(query.tool, query.want)
        /\ query.source = "fallback" => found = Devices \cap query.want
        /\ IsInjective(query.devices)
        /\ query.tool = "get_blast_radius" /\ query.source # "error" =>
              query.want \subseteq found \cup query.missing /\ found \cap query.missing = {}

\* Every question is answered, though NetBox goes on for ever about a next
\* page (netbox.py:65-92).
EveryQueryAnswered == query.at = "page" ~> query.at = "answered"
============================================================================
