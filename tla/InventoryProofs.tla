-------------------------- MODULE InventoryProofs --------------------------
(***************************************************************************)
(* Theorems about Inventory, for any number of devices and tenants, of     *)
(* failures, runs and pages: nothing is filed twice, a run that exits 0    *)
(* has left everything in NetBox, and an answer read page by page while    *)
(* devices are being filed is whole.                                       *)
(***************************************************************************)
EXTENDS Inventory, SequenceTheorems, FiniteSetTheorems, TLAPS

Stored(x) == \E i \in DOMAIN store : store[i] = x

\* What seed has passed is in NetBox, what it is about to file is not, and
\* nothing is there twice.
SeedInv ==
    /\ store \in Seq(Objects)
    /\ \A i, j \in DOMAIN store : store[i] = store[j] => i = j
    /\ seeder \in [at: DOMAIN Plan, call: {"none", "get", "post"}]
    /\ seeder.call = "post" => ~Stored(Plan[seeder.at])
    /\ seeder.call # "none" => \A i \in 1 .. seeder.at - 1 : Stored(Plan[i])
    /\ exit = "ok" => \A i \in DOMAIN Plan : Stored(Plan[i])

----------------------------------------------------------------------------

Kinds == {"site", "tenant", "rack", "manufacturer", "device_type", "device_role", "custom_field",
          "device"}

Items == Kinds \X Nat

SetUp == (Kinds \ {"device"}) \X Nat

\* A function on 1 .. n is a sequence of length n.
LEMMA FunctionIsSeq ==
    ASSUME NEW S, NEW n \in Nat, NEW f \in [1 .. n -> S]
    PROVE  f \in Seq(S) /\ Len(f) = n
OBVIOUS

\* The objects of one kind, in their order (seed.py:46-126).
LEMMA EachIsSeq ==
    ASSUME NEW kind, NEW n \in Nat
    PROVE  /\ Each(kind, n) \in Seq({kind} \X Nat) /\ Len(Each(kind, n)) = n
           /\ kind \in Kinds => Each(kind, n) \in Seq(Items)
           /\ kind \in Kinds \ {"device"} => Each(kind, n) \in Seq(SetUp)
<1>1. ASSUME NEW i \in Nat PROVE <<kind, i>> \in {kind} \X Nat
  BY Zenon
<1>2. \A i \in 1 .. n : i \in Nat
  OBVIOUS
<1>3. [i \in 1 .. n |-> <<kind, i>>] \in [1 .. n -> {kind} \X Nat]
  BY <1>1, <1>2, Zenon
<1>4. Each(kind, n) \in Seq({kind} \X Nat) /\ Len(Each(kind, n)) = n
  BY <1>3, FunctionIsSeq DEF Each
<1>5. /\ kind \in Kinds => {kind} \X Nat \subseteq Items
      /\ kind \in Kinds \ {"device"} => {kind} \X Nat \subseteq SetUp
  BY DEF Items, SetUp
<1> QED
  BY <1>4, <1>5, SeqMonotonic

\* What the plan of seed.py puts before the devices is a sequence, and not an
\* empty one: there is a site at least (seed.py:46-92).
LEMMA PlanParts ==
    \E s \in Seq(SetUp) : Len(s) >= 1 /\ Plan = s \o Each("device", NDevices)
<1>1. NTenants \in Nat
  BY InventoryAssumption
<1> DEFINE site == Each("site", 1)
           tenant == Each("tenant", NTenants)
           rack == Each("rack", 1)
           manufacturer == Each("manufacturer", 1)
           type == Each("device_type", 1)
           role == Each("device_role", 1)
           field == Each("custom_field", 1)
           device == Each("device", NDevices)
<1>2. /\ site \in Seq(SetUp) /\ Len(site) = 1
      /\ tenant \in Seq(SetUp) /\ rack \in Seq(SetUp) /\ manufacturer \in Seq(SetUp)
      /\ type \in Seq(SetUp) /\ role \in Seq(SetUp) /\ field \in Seq(SetUp)
  <2>1. \A n \in Nat : \A kind \in Kinds \ {"device"} :
            Each(kind, n) \in Seq(SetUp) /\ Len(Each(kind, n)) = n
    BY EachIsSeq DEF SetUp
  <2>2. \A kind \in Kinds \ {"device"} : Each(kind, 1) \in Seq(SetUp) /\ Len(Each(kind, 1)) = 1
    <3>1. 1 \in Nat
      OBVIOUS
    <3> QED
      BY <2>1, <3>1, Zenon
  <2>3. {"site", "tenant", "rack", "manufacturer", "device_type", "device_role", "custom_field"}
            \subseteq Kinds \ {"device"}
    BY DEF Kinds
  <2>4. site \in Seq(SetUp) /\ Len(site) = 1
    BY <2>2, <2>3, Zenon
  <2>5. rack \in Seq(SetUp) /\ manufacturer \in Seq(SetUp) /\ type \in Seq(SetUp)
    BY <2>2, <2>3, Zenon
  <2>6. role \in Seq(SetUp) /\ field \in Seq(SetUp)
    BY <2>2, <2>3, Zenon
  <2>7. tenant \in Seq(SetUp)
    BY <1>1, <2>1, <2>3, Zenon
  <2> QED
    BY <2>4, <2>5, <2>6, <2>7
<1>3. Plan = site \o tenant \o rack \o manufacturer \o type \o role \o field \o device
  BY DEF Plan
<1> HIDE DEF site, tenant, rack, manufacturer, type, role, field, device
<1> DEFINE s0 == site \o tenant
           s1 == s0 \o rack
           s2 == s1 \o manufacturer
           s3 == s2 \o type
           s4 == s3 \o role
           s5 == s4 \o field
<1>4. Plan = s5 \o device
  BY <1>3
<1> HIDE DEF s5
<1>5. s0 \in Seq(SetUp) /\ Len(s0) >= 1
  <2>1. Len(s0) = Len(site) + Len(tenant) /\ s0 \in Seq(SetUp)
    BY <1>2, ConcatProperties
  <2>2. Len(tenant) \in Nat
    BY <1>2
  <2> QED
    BY <1>2, <2>1, <2>2
<1> HIDE DEF s0
<1>5a. s1 \in Seq(SetUp) /\ Len(s1) >= 1
  BY <1>2, <1>5, ConcatProperties
<1> HIDE DEF s1
<1>6. s2 \in Seq(SetUp) /\ Len(s2) >= 1
  BY <1>2, <1>5a, ConcatProperties
<1> HIDE DEF s2
<1>7. s3 \in Seq(SetUp) /\ Len(s3) >= 1
  BY <1>2, <1>6, ConcatProperties
<1> HIDE DEF s3
<1>8. s4 \in Seq(SetUp) /\ Len(s4) >= 1
  BY <1>2, <1>7, ConcatProperties
<1> HIDE DEF s4
<1>9. s5 \in Seq(SetUp) /\ Len(s5) >= 1
  BY <1>2, <1>8, ConcatProperties DEF s5
<1> QED
  BY <1>4, <1>9, Zenon DEF device

\* The devices come last in the plan, in the order of their names
\* (seed.py:93-126).
LEMMA PlanEnds ==
    \E b \in Nat \ {0} :
       /\ Plan \in Seq(Items) /\ Len(Plan) = b + NDevices /\ DOMAIN Plan = 1 .. b + NDevices
       /\ \A d \in Devices : Plan[b + d] = <<"device", d>>
       /\ \A i \in 1 .. b : Plan[i] \in SetUp
<1>1. PICK s \in Seq(SetUp) : Len(s) >= 1 /\ Plan = s \o Each("device", NDevices)
  BY PlanParts
<1>2. NDevices \in Nat /\ "device" \in Kinds
  BY InventoryAssumption DEF Kinds
<1> DEFINE device == Each("device", NDevices)
<1>3. device \in Seq(Items) /\ Len(device) = NDevices
  BY <1>2, EachIsSeq
<1>4. \A d \in Devices : device[d] = <<"device", d>>
  BY DEF Each, Devices
<1> HIDE DEF device
<1>5. s \in Seq(Items) /\ Len(s) \in Nat \ {0}
  <2>1. SetUp \subseteq Items
    BY DEF SetUp, Items
  <2> QED
    BY <1>1, <2>1, SeqMonotonic
<1>6. Plan = s \o device
  BY <1>1 DEF device
<1>7. /\ Plan \in Seq(Items) /\ Len(Plan) = Len(s) + NDevices
      /\ \A i \in 1 .. Len(s) + NDevices : Plan[i] = IF i <= Len(s) THEN s[i] ELSE device[i - Len(s)]
  BY <1>3, <1>5, <1>6, ConcatProperties
<1>8. DOMAIN Plan = 1 .. Len(s) + NDevices
  BY <1>7, LenProperties
<1>9. ASSUME NEW d \in Devices PROVE Plan[Len(s) + d] = <<"device", d>>
  <2>1. PICK j \in 1 .. Len(s) + NDevices : j = Len(s) + d
    BY <1>2, <1>5 DEF Devices
  <2>2. ~(j <= Len(s)) /\ j - Len(s) = d
    BY <1>5, <2>1 DEF Devices
  <2>3. Plan[j] = device[j - Len(s)]
    BY <1>7, <2>2
  <2> QED
    BY <1>4, <2>1, <2>2, <2>3
<1>10. ASSUME NEW i \in 1 .. Len(s) PROVE Plan[i] \in SetUp
  <2>1. i \in 1 .. Len(s) + NDevices /\ i <= Len(s)
    BY <1>2, <1>5
  <2>2. s[i] \in SetUp
    BY ElementOfSeq
  <2> QED
    BY <1>7, <2>1, <2>2
<1> QED
  BY <1>5, <1>7, <1>8, <1>9, <1>10

\* The plan of seed.py is a sequence, and not an empty one (seed.py:46-126).
LEMMA PlanIsSeq == Plan \in Seq(Items) /\ Len(Plan) \in Nat \ {0} /\ DOMAIN Plan = 1 .. Len(Plan)
<1>1. NDevices \in Nat
  BY InventoryAssumption
<1>2. PICK b \in Nat \ {0} : Plan \in Seq(Items) /\ Len(Plan) = b + NDevices
  BY PlanEnds
<1>3. b + NDevices \in Nat \ {0}
  BY <1>1
<1> QED
  BY <1>2, <1>3, LenProperties

----------------------------------------------------------------------------
\* The steps of a run of seed.py

\* Filing something that is not there keeps all that is, and files it once.
LEMMA AppendOnce ==
    ASSUME store \in Seq(Objects), NEW x \in Objects, ~Stored(x),
           \A i, j \in DOMAIN store : store[i] = store[j] => i = j,
           store' = Append(store, x)
    PROVE  /\ store' \in Seq(Objects)
           /\ \A i, j \in DOMAIN store' : store'[i] = store'[j] => i = j
           /\ Stored(x)'
           /\ \A y : Stored(y) => Stored(y)'
<1>1. /\ store' \in Seq(Objects)
      /\ Len(store') = Len(store) + 1
      /\ \A i \in 1 .. Len(store) : store'[i] = store[i]
      /\ store'[Len(store) + 1] = x
  BY AppendProperties
<1>2. /\ DOMAIN store = 1 .. Len(store) /\ Len(store) \in Nat
      /\ DOMAIN store' = 1 .. Len(store) + 1
  BY <1>1, LenProperties
<1>3. \A i \in 1 .. Len(store) : store[i] # x
  BY <1>2 DEF Stored
<1>4. \A i, j \in DOMAIN store' : store'[i] = store'[j] => i = j
  <2> SUFFICES ASSUME NEW i \in 1 .. Len(store) + 1, NEW j \in 1 .. Len(store) + 1,
                      store'[i] = store'[j]
               PROVE  i = j
    BY <1>2
  <2>1. CASE i \in 1 .. Len(store) /\ j \in 1 .. Len(store)
    BY <1>1, <1>2, <2>1
  <2>2. CASE i \in 1 .. Len(store) /\ j = Len(store) + 1
    BY <1>1, <1>3, <2>2
  <2>3. CASE i = Len(store) + 1 /\ j \in 1 .. Len(store)
    BY <1>1, <1>3, <2>3
  <2>4. CASE i = Len(store) + 1 /\ j = Len(store) + 1
    BY <2>4
  <2> QED
    BY <1>2, <2>1, <2>2, <2>3, <2>4
<1>5. Stored(x)'
  <2>1. Len(store) + 1 \in DOMAIN store'
    BY <1>2
  <2> QED
    BY <1>1, <2>1 DEF Stored
<1>6. ASSUME NEW y, Stored(y) PROVE Stored(y)'
  <2>1. PICK i \in DOMAIN store : store[i] = y
    BY <1>6 DEF Stored
  <2>2. i \in DOMAIN store' /\ store'[i] = y
    BY <1>1, <1>2, <2>1
  <2> QED
    BY <2>2 DEF Stored
<1> QED
  BY <1>1, <1>4, <1>5, <1>6

\* Once an object is there the run may go on: what it has passed is there,
\* and with the last object all of it is (seed.py:32-43, 129-138).
LEMMA EnsuredInv ==
    ASSUME SeedInv, Ensured, seeder.call # "none",
           store' \in Seq(Objects),
           \A i, j \in DOMAIN store' : store'[i] = store'[j] => i = j,
           NEW x, x = Plan[seeder.at], Stored(x)',
           \A y : Stored(y) => Stored(y)'
    PROVE  SeedInv'
<1>1. seeder.at \in 1 .. Len(Plan) /\ Len(Plan) \in Nat \ {0} /\ DOMAIN Plan = 1 .. Len(Plan)
  BY PlanIsSeq DEF SeedInv
<1>2. \A i \in 1 .. seeder.at - 1 : Stored(Plan[i])'
  BY DEF SeedInv
<1>3. \A i \in 1 .. seeder.at : Stored(Plan[i])'
  BY <1>1, <1>2
<1>4. CASE seeder.at < Len(Plan)
  <2>1. seeder' = [at |-> seeder.at + 1, call |-> "get"] /\ exit' = exit
    BY <1>4 DEF Ensured
  <2>2. seeder' \in [at: DOMAIN Plan, call: {"none", "get", "post"}]
    BY <1>1, <1>4, <2>1
  <2>3. seeder'.at - 1 = seeder.at /\ seeder'.call = "get"
    BY <1>1, <2>1
  <2>4. exit' = "ok" => \A i \in DOMAIN Plan : Stored(Plan[i])'
    BY <2>1 DEF SeedInv
  <2> QED
    BY <1>3, <2>2, <2>3, <2>4 DEF SeedInv
<1>5. CASE ~(seeder.at < Len(Plan))
  <2>1. seeder' = [at |-> 1, call |-> "none"] /\ exit' = "ok"
    BY <1>5 DEF Ensured
  <2>2. seeder' \in [at: DOMAIN Plan, call: {"none", "get", "post"}]
    BY <1>1, <2>1
  <2>3. \A i \in DOMAIN Plan : Stored(Plan[i])'
    BY <1>1, <1>3, <1>5
  <2> QED
    BY <2>1, <2>2, <2>3 DEF SeedInv
<1> QED
  BY <1>4, <1>5

\* What is filed is the object the run is at, which was not there.
LEMMA FiledInv ==
    ASSUME SeedInv, Filed, seeder.call = "post", NEW x, x = Plan[seeder.at]
    PROVE  /\ store' \in Seq(Objects)
           /\ \A i, j \in DOMAIN store' : store'[i] = store'[j] => i = j
           /\ Stored(x)'
           /\ \A y : Stored(y) => Stored(y)'
<1>1. x \in Objects
  BY DEF SeedInv, Objects, ToSet
<1> QED
  BY <1>1, AppendOnce DEF SeedInv, Filed

\* Every step of seed.py, of NetBox and of the tools keeps the invariant.
LEMMA NextInv == SeedInv /\ [Next]_vars => SeedInv'
<1> SUFFICES ASSUME SeedInv, [Next]_vars PROVE SeedInv'
  OBVIOUS
<1>0. 1 \in DOMAIN Plan
  BY PlanIsSeq
<1>1. CASE SeedStarts
  <2>1. seeder' = [at |-> 1, call |-> "get"] /\ exit' = "none" /\ store' = store
    BY <1>1 DEF SeedStarts
  <2>2. seeder' \in [at: DOMAIN Plan, call: {"none", "get", "post"}]
    BY <1>0, <2>1
  <2>3. \A i \in 1 .. seeder'.at - 1 : FALSE
    BY <2>1
  <2> QED
    BY <2>1, <2>2, <2>3 DEF SeedInv, Stored
<1>2. CASE Lookup
  <2>1. store' = store /\ seeder.call = "get"
    BY <1>2 DEF Lookup
  <2>2. CASE Plan[seeder.at] \in ToSet(store)
    <3>1. Ensured
      BY <1>2, <2>2 DEF Lookup
    <3>2. PICK x : x = Plan[seeder.at]
      OBVIOUS
    <3>3. Stored(x)'
      BY <2>1, <2>2, <3>2 DEF ToSet, Stored
    <3>4. \A y : Stored(y) => Stored(y)'
      BY <2>1 DEF Stored
    <3> QED
      BY <2>1, <3>1, <3>2, <3>3, <3>4, EnsuredInv DEF SeedInv
  <2>3. CASE Plan[seeder.at] \notin ToSet(store)
    <3>1. seeder' = [seeder EXCEPT !.call = "post"] /\ exit' = exit
      BY <1>2, <2>3 DEF Lookup
    <3>2. seeder' \in [at: DOMAIN Plan, call: {"none", "get", "post"}] /\ seeder'.at = seeder.at
      BY <3>1 DEF SeedInv
    <3>3. ~Stored(Plan[seeder.at])'
      BY <2>1, <2>3, <3>2 DEF ToSet, Stored
    <3> QED
      BY <2>1, <3>1, <3>2, <3>3 DEF SeedInv, Stored
  <2> QED
    BY <2>2, <2>3
<1>3. CASE Create
  <2>1. PICK x : x = Plan[seeder.at]
    OBVIOUS
  <2>2. seeder.call = "post" /\ Filed /\ Ensured
    BY <1>3 DEF Create
  <2> QED
    BY <2>1, <2>2, FiledInv, EnsuredInv
<1>4. CASE SeedFails
  <2>1. seeder' = [at |-> 1, call |-> "none"] /\ exit' = "failed"
    BY <1>4 DEF SeedFails
  <2>2. seeder' \in [at: DOMAIN Plan, call: {"none", "get", "post"}]
    BY <1>0, <2>1
  <2>3. store' \in Seq(Objects) /\ \A i, j \in DOMAIN store' : store'[i] = store'[j] => i = j
    BY <1>4, FiledInv DEF SeedFails, SeedInv
  <2> QED
    BY <2>1, <2>2, <2>3 DEF SeedInv
<1>5. CASE UNCHANGED seeding
  BY <1>5 DEF seeding, SeedInv, Stored
<1> QED
  BY <1>1, <1>2, <1>3, <1>4, <1>5 DEF Next, Ask, ReadPage, PageFails, vars

\* NetBox starts empty.
LEMMA InitInv == Init => SeedInv
<1> SUFFICES ASSUME Init PROVE SeedInv
  OBVIOUS
<1>1. 1 \in DOMAIN Plan
  BY PlanIsSeq
<1>2. store = <<>> /\ seeder = [at |-> 1, call |-> "none"] /\ exit = "none"
  BY DEF Init
<1>3. store \in Seq(Objects) /\ DOMAIN store = {}
  BY <1>2
<1>4. seeder \in [at: DOMAIN Plan, call: {"none", "get", "post"}]
  BY <1>1, <1>2
<1> QED
  BY <1>2, <1>3, <1>4 DEF SeedInv

----------------------------------------------------------------------------

\* The invariant of the seeding holds in every behaviour.
THEOREM Invariance == Spec => []SeedInv
BY InitInv, NextInv, PTL DEF Spec

\* However often seed.py is cut short, with or without its last object filed,
\* and run again, NetBox holds nothing twice (seed.py:32-43).
THEOREM NothingTwice == Spec => []SeededOnce
<1>1. SeedInv => SeededOnce
  BY DEF SeedInv, SeededOnce, IsInjective
<1> QED
  BY <1>1, Invariance, PTL

\* A run that exits 0 has left the whole plan in NetBox, and nothing else is
\* there (seed.py:129-138).
THEOREM AllSeeded == Spec => []SeededMeansAll
<1>1. SeedInv => SeededMeansAll
  <2> SUFFICES ASSUME SeedInv, exit = "ok" PROVE ToSet(store) = Objects
    BY DEF SeededMeansAll
  <2>1. \A i \in DOMAIN Plan : Plan[i] \in ToSet(store)
    BY DEF SeedInv, Stored, ToSet
  <2>2. \A i \in DOMAIN store : store[i] \in Objects
    BY LenProperties, ElementOfSeq DEF SeedInv
  <2>3. Objects = {Plan[i] : i \in DOMAIN Plan} /\ ToSet(store) = {store[i] : i \in DOMAIN store}
    BY DEF Objects, ToSet
  <2> QED
    BY <2>1, <2>2, <2>3
<1> QED
  BY <1>1, Invariance, PTL

----------------------------------------------------------------------------
(* The tools read NetBox page by page while devices are being filed.  What *)
(* makes a live answer whole is that devices are filed in the order in     *)
(* which they are listed: a new one comes after the pages already read.    *)

Upto(S, d) == {c \in S : c <= d}

\* The place of a device among those of S, and that no two share one.
LEMMA Places ==
    ASSUME NEW S \in SUBSET Nat, IsFiniteSet(S)
    PROVE  /\ Cardinality(S) \in Nat
           /\ \A d \in S : Cardinality(Upto(S, d)) \in 1 .. Cardinality(S)
           /\ \A c, d \in S : c < d => Cardinality(Upto(S, c)) < Cardinality(Upto(S, d))
           /\ \A i \in 1 .. Cardinality(S) : \E d \in S : Cardinality(Upto(S, d)) = i
<1> DEFINE n == Cardinality(S)
           place == [d \in S |-> Cardinality(Upto(S, d))]
<1>1. n \in Nat
  BY FS_CardinalityType
<1>2. \A d \in S : /\ Upto(S, d) \in SUBSET S /\ IsFiniteSet(Upto(S, d))
                   /\ Cardinality(Upto(S, d)) \in Nat /\ Cardinality(Upto(S, d)) <= n
                   /\ Cardinality(Upto(S, d)) # 0
  <2> SUFFICES ASSUME NEW d \in S
               PROVE  /\ Upto(S, d) \in SUBSET S /\ IsFiniteSet(Upto(S, d))
                      /\ Cardinality(Upto(S, d)) \in Nat /\ Cardinality(Upto(S, d)) <= n
                      /\ Cardinality(Upto(S, d)) # 0
    OBVIOUS
  <2>1. Upto(S, d) \in SUBSET S /\ d \in Upto(S, d)
    BY DEF Upto
  <2>2. IsFiniteSet(Upto(S, d)) /\ Cardinality(Upto(S, d)) <= n
    BY <2>1, FS_Subset
  <2>3. Cardinality(Upto(S, d)) \in Nat /\ Cardinality(Upto(S, d)) # 0
    BY <2>1, <2>2, FS_CardinalityType, FS_EmptySet
  <2> QED
    BY <2>1, <2>2, <2>3
<1>3. \A d \in S : Cardinality(Upto(S, d)) \in 1 .. n
  BY <1>1, <1>2
<1>4. ASSUME NEW c \in S, NEW d \in S, c < d
      PROVE  Cardinality(Upto(S, c)) < Cardinality(Upto(S, d))
  <2>1. \A e \in S : e <= c => e <= d
    BY <1>4
  <2>2. ~(d <= c) /\ d <= d
    BY <1>4
  <2>3. Upto(S, c) \in SUBSET Upto(S, d) /\ d \in Upto(S, d) /\ d \notin Upto(S, c)
    BY <2>1, <2>2 DEF Upto
  <2>4. /\ Cardinality(Upto(S, c)) <= Cardinality(Upto(S, d))
        /\ Cardinality(Upto(S, c)) # Cardinality(Upto(S, d))
    BY <1>2, <2>3, FS_Subset
  <2> QED
    BY <1>2, <2>4
<1>5. place \in Injection(S, 1 .. n)
  <2>1. place \in [S -> 1 .. n]
    BY <1>3
  <2>2. ASSUME NEW c \in S, NEW d \in S, place[c] = place[d] PROVE c = d
    <3>1. ~(c < d) /\ ~(d < c)
      BY <1>3, <1>4, <2>2
    <3> QED
      BY <3>1
  <2> QED
    BY <2>1, <2>2 DEF Injection, IsInjective
<1>6. IsFiniteSet(1 .. n) /\ Cardinality(1 .. n) = n
  BY <1>1, FS_Interval
<1>7. place \in Surjection(S, 1 .. n)
  BY <1>5, <1>6, FS_Injection
<1>8. \A i \in 1 .. n : \E d \in S : place[d] = i
  BY <1>7 DEF Surjection
<1> QED
  BY <1>1, <1>3, <1>4, <1>8

\* InOrder lists the set, each of its members once, in their order.
LEMMA InOrderLists ==
    ASSUME NEW S \in SUBSET Nat, IsFiniteSet(S)
    PROVE  /\ InOrder(S) \in Seq(S) /\ Len(InOrder(S)) = Cardinality(S)
           /\ \A i, j \in 1 .. Cardinality(S) : i < j => InOrder(S)[i] < InOrder(S)[j]
           /\ \A d \in S : \E i \in 1 .. Cardinality(S) : InOrder(S)[i] = d
           /\ \A i \in 1 .. Cardinality(S), d \in S :
                 InOrder(S)[i] = d <=> Cardinality(Upto(S, d)) = i
<1> DEFINE n == Cardinality(S)
<1>1. /\ n \in Nat
      /\ \A d \in S : Cardinality(Upto(S, d)) \in 1 .. n
      /\ \A c, d \in S : c < d => Cardinality(Upto(S, c)) < Cardinality(Upto(S, d))
      /\ \A i \in 1 .. n : \E d \in S : Cardinality(Upto(S, d)) = i
  BY Places
<1>2. InOrder(S) = [i \in 1 .. n |-> CHOOSE d \in S : Cardinality(Upto(S, d)) = i]
  BY DEF InOrder, Upto
<1>3. \A i \in 1 .. n : InOrder(S)[i] \in S /\ Cardinality(Upto(S, InOrder(S)[i])) = i
  BY <1>1, <1>2
<1>4. \A c, d \in S : Cardinality(Upto(S, c)) = Cardinality(Upto(S, d)) => c = d
  <2> SUFFICES ASSUME NEW c \in S, NEW d \in S, Cardinality(Upto(S, c)) = Cardinality(Upto(S, d))
               PROVE  c = d
    OBVIOUS
  <2>1. ~(c < d) /\ ~(d < c)
    BY <1>1
  <2> QED
    BY <2>1
<1>5. \A i \in 1 .. n, d \in S : InOrder(S)[i] = d <=> Cardinality(Upto(S, d)) = i
  BY <1>3, <1>4
<1>6. \A d \in S : \E i \in 1 .. n : InOrder(S)[i] = d
  BY <1>1, <1>5
<1>7. ASSUME NEW i \in 1 .. n, NEW j \in 1 .. n, i < j PROVE InOrder(S)[i] < InOrder(S)[j]
  <2>1. PICK c \in S : c = InOrder(S)[i] /\ Cardinality(Upto(S, c)) = i
    BY <1>3
  <2>2. PICK d \in S : d = InOrder(S)[j] /\ Cardinality(Upto(S, d)) = j
    BY <1>3
  <2>3. c # d /\ ~(d < c)
    BY <1>1, <1>7, <2>1, <2>2
  <2> QED
    BY <2>1, <2>2, <2>3
<1>8. InOrder(S) \in [1 .. n -> S]
  BY <1>2, <1>3
<1>9. InOrder(S) \in Seq(S) /\ Len(InOrder(S)) = n
  BY <1>1, <1>8
<1> QED
  BY <1>5, <1>6, <1>7, <1>9

\* What comes after all of S is listed after all of S.
LEMMA InOrderGrows ==
    ASSUME NEW S \in SUBSET Nat, NEW T \in SUBSET Nat, IsFiniteSet(T), S \subseteq T,
           \A s \in S : \A t \in T \ S : s < t
    PROVE  /\ Cardinality(S) <= Cardinality(T)
           /\ \A i \in 1 .. Cardinality(S) : InOrder(T)[i] = InOrder(S)[i]
<1>1. /\ IsFiniteSet(S) /\ Cardinality(S) <= Cardinality(T)
      /\ Cardinality(S) \in Nat /\ Cardinality(T) \in Nat
  <2>1. IsFiniteSet(S) /\ Cardinality(S) <= Cardinality(T)
    BY FS_Subset
  <2>2. Cardinality(S) \in Nat
    BY <2>1, FS_CardinalityType
  <2>3. Cardinality(T) \in Nat
    BY FS_CardinalityType
  <2> QED
    BY <2>1, <2>2, <2>3
<1>2. \A s \in S : Upto(T, s) = Upto(S, s)
  <2> SUFFICES ASSUME NEW s \in S PROVE Upto(T, s) = Upto(S, s)
    OBVIOUS
  <2>1. \A t \in T : t <= s => t \in S
    BY s \in Nat, \A t \in T \ S : t \in Nat /\ s < t
  <2> QED
    BY <2>1 DEF Upto
<1>3. ASSUME NEW i \in 1 .. Cardinality(S) PROVE InOrder(T)[i] = InOrder(S)[i]
  <2>1. PICK s \in S : s = InOrder(S)[i]
    <3>1. InOrder(S) \in Seq(S) /\ Len(InOrder(S)) = Cardinality(S)
      BY <1>1, InOrderLists
    <3> QED
      BY <1>1, <3>1, ElementOfSeq
  <2>2. Cardinality(Upto(S, s)) = i
    BY <1>1, <2>1, InOrderLists
  <2>3. Cardinality(Upto(T, s)) = i /\ s \in T /\ i \in 1 .. Cardinality(T)
    BY <1>1, <1>2, <2>2
  <2> QED
    BY <2>1, <2>3, InOrderLists
<1> QED
  BY <1>1, <1>3

\* The devices in NetBox are the first ones of the plan.
DevicesInOrder == \A d \in Held : \A c \in 1 .. d : c \in Held

Asks ==
    query.at # "idle" =>
        /\ query.tool = "get_device" => \E n \in Names : query.want = {n}
        /\ query.tool = "list_rack_devices" => query.want \subseteq Devices

\* Unless NetBox is runaway, what was read so far is the beginning of the list.
ReadSoFar ==
    query.at = "page" =>
        /\ query.began \subseteq Held
        /\ ~runaway =>
              /\ query.pages * PageSize <= Len(Listing)
              /\ query.devices = SubSeq(Listing, 1, query.pages * PageSize)

QueryInv == query \in Query /\ Asks /\ ReadSoFar /\ AnswersAreWhole

CountersInv ==
    /\ seedings \in 0 .. MaxSeedings
    /\ runaway \in BOOLEAN
    /\ faults \in 0 .. MaxFaults
    /\ exit \in {"none", "ok", "failed"}

IInv == SeedInv /\ DevicesInOrder /\ QueryInv /\ CountersInv

\* The devices NetBox holds are of the plan, and finitely many.
LEMMA HeldType ==
    /\ Devices \in SUBSET Nat /\ Names \in SUBSET Nat /\ Devices \subseteq Names
    /\ \A S \in SUBSET Devices : IsFiniteSet(S) /\ S \in SUBSET Nat
    /\ Held \in SUBSET Devices
    /\ \A d \in Devices : d \in Held <=> Stored(<<"device", d>>)
<1>1. NDevices \in Nat
  BY InventoryAssumption
<1>2. Devices \in SUBSET Nat /\ Names \in SUBSET Nat /\ Devices \subseteq Names
  BY <1>1 DEF Devices, Names
<1>3. IsFiniteSet(Devices)
  BY <1>1, FS_Interval DEF Devices
<1>4. \A S \in SUBSET Devices : IsFiniteSet(S) /\ S \in SUBSET Nat
  BY <1>2, <1>3, FS_Subset
<1>5. Held \in SUBSET Devices /\ \A d \in Devices : d \in Held <=> Stored(<<"device", d>>)
  BY DEF Held, Stored, ToSet
<1> QED
  BY <1>2, <1>4, <1>5

\* A device is filed after all that come before it by name, and is the last of
\* those in NetBox (seed.py:93-126).
LEMMA FiledInOrder ==
    ASSUME SeedInv, DevicesInOrder, Filed, seeder.call = "post"
    PROVE  /\ DevicesInOrder' /\ Held \subseteq Held'
           /\ \A h \in Held : \A n \in Held' \ Held : h < n
<1>1. PICK x : x = Plan[seeder.at]
  OBVIOUS
<1>2. /\ store' = Append(store, x) /\ store \in Seq(Objects) /\ x \in Objects
      /\ seeder.at \in DOMAIN Plan /\ ~Stored(x)
      /\ \A i \in 1 .. seeder.at - 1 : Stored(Plan[i])
  BY <1>1 DEF SeedInv, Filed, Objects, ToSet
<1>3. \A y : Stored(y)' <=> Stored(y) \/ y = x
  <2>1. /\ Len(store') = Len(store) + 1 /\ Len(store) \in Nat
        /\ \A i \in 1 .. Len(store) : store'[i] = store[i]
        /\ store'[Len(store) + 1] = x
    BY <1>2, AppendProperties
  <2>2. DOMAIN store = 1 .. Len(store) /\ DOMAIN store' = 1 .. Len(store) + 1
    BY <1>2, <2>1, AppendProperties, LenProperties
  <2>3. \A i \in DOMAIN store' : store'[i] = x \/ \E j \in DOMAIN store : store[j] = store'[i]
    BY <2>1, <2>2
  <2>4. \A i \in DOMAIN store : i \in DOMAIN store' /\ store'[i] = store[i]
    BY <2>1, <2>2
  <2>5. Len(store) + 1 \in DOMAIN store'
    BY <2>1, <2>2
  <2> QED
    BY <2>1, <2>3, <2>4, <2>5 DEF Stored
<1>4. \A d \in Devices : d \in Held' <=> (d \in Held \/ x = <<"device", d>>)
  <2>1. \A d \in Devices : d \in Held' <=> Stored(<<"device", d>>)'
    BY DEF Held, Stored, ToSet
  <2> QED
    BY <1>3, <2>1, HeldType
<1>5. PICK b \in Nat \ {0} : /\ DOMAIN Plan = 1 .. b + NDevices
                             /\ \A d \in Devices : Plan[b + d] = <<"device", d>>
                             /\ \A i \in 1 .. b : Plan[i] \in SetUp
  BY PlanEnds
<1>6. ASSUME NEW d \in Devices, x = <<"device", d>>
      PROVE  d \notin Held /\ \A c \in 1 .. d - 1 : c \in Held
  <2>1. d \notin Held
    BY <1>2, <1>6, HeldType
  <2>2. ~(seeder.at \in 1 .. b)
    <3>1. <<"device", d>> \notin SetUp
      BY DEF SetUp
    <3>2. x \notin SetUp
      BY <1>6, <3>1, Zenon
    <3> QED
      BY <1>1, <1>5, <3>2
  <2>3. NDevices \in Nat /\ seeder.at \in 1 .. b + NDevices
    BY <1>2, <1>5, InventoryAssumption
  <2>4. PICK e \in Devices : seeder.at = b + e
    <3>1. seeder.at - b \in Devices /\ seeder.at = b + (seeder.at - b)
      BY <2>2, <2>3 DEF Devices
    <3> QED
      BY <3>1
  <2>5. e = d
    <3>1. <<"device", e>> = <<"device", d>>
      BY <1>1, <1>5, <1>6, <2>4, Zenon
    <3> QED
      BY <3>1
  <2>6. ASSUME NEW c \in 1 .. d - 1 PROVE c \in Held
    <3>1. c \in Devices /\ b + c \in 1 .. seeder.at - 1
      BY <2>3, <2>4, <2>5 DEF Devices
    <3>2. Stored(Plan[b + c])
      BY <1>2, <3>1
    <3> QED
      BY <1>5, <3>1, <3>2, HeldType
  <2> QED
    BY <2>1, <2>6
<1>7. Held' \in SUBSET Devices
  BY DEF Held
<1>8. ASSUME NEW n \in Held', n \notin Held
      PROVE  x = <<"device", n>> /\ n \in Devices /\ n \in Nat
  BY <1>4, <1>7, <1>8, HeldType
<1>9. DevicesInOrder'
  <2> SUFFICES ASSUME NEW d \in Held', NEW c \in 1 .. d PROVE c \in Held'
    BY DEF DevicesInOrder
  <2>1. d \in Devices /\ d \in Nat
    BY <1>7, HeldType
  <2>2. CASE d \in Held
    <3>1. c \in Held
      BY <2>2 DEF DevicesInOrder
    <3> QED
      BY <1>4, <3>1, HeldType
  <2>3. CASE d \notin Held
    <3>1. x = <<"device", d>>
      BY <1>8, <2>3
    <3>2. c = d \/ c \in 1 .. d - 1
      BY <2>1
    <3>3. c = d \/ c \in Held
      BY <1>6, <2>1, <3>1, <3>2
    <3> QED
      BY <1>4, <3>3, HeldType
  <2> QED
    BY <2>2, <2>3
<1>10. ASSUME NEW h \in Held, NEW n \in Held' \ Held PROVE h < n
  <2>1. x = <<"device", n>> /\ n \in Devices /\ n \in Nat /\ h \in Nat
    BY <1>8, HeldType
  <2>2. n \notin 1 .. h
    BY DEF DevicesInOrder
  <2> QED
    BY <2>1, <2>2 DEF Devices
<1>11. Held \subseteq Held'
  BY <1>4, HeldType
<1> QED
  BY <1>9, <1>10, <1>11

\* A list in order names all of its set, and nothing twice.
LEMMA InOrderNames ==
    ASSUME NEW S \in SUBSET Devices
    PROVE  /\ InOrder(S) \in Seq(Devices) /\ Len(InOrder(S)) = Cardinality(S) /\ Cardinality(S) \in Nat
           /\ ToSet(InOrder(S)) = S
           /\ IsInjective(InOrder(S))
           /\ \A n : S \subseteq {n} => Len(InOrder(S)) <= 1
<1>1. S \in SUBSET Nat /\ IsFiniteSet(S)
  BY HeldType
<1>2. /\ InOrder(S) \in Seq(S) /\ Len(InOrder(S)) = Cardinality(S)
      /\ \A i, j \in 1 .. Cardinality(S) : i < j => InOrder(S)[i] < InOrder(S)[j]
      /\ \A d \in S : \E i \in 1 .. Cardinality(S) : InOrder(S)[i] = d
  BY <1>1, InOrderLists
<1>3. /\ DOMAIN InOrder(S) = 1 .. Cardinality(S)
      /\ \A i \in 1 .. Cardinality(S) : InOrder(S)[i] \in S
  BY <1>2, LenProperties, ElementOfSeq
<1>4. InOrder(S) \in Seq(Devices)
  BY <1>2, SeqMonotonic
<1>5. ToSet(InOrder(S)) = S
  BY <1>2, <1>3 DEF ToSet
<1>6. IsInjective(InOrder(S))
  <2> SUFFICES ASSUME NEW i \in 1 .. Cardinality(S), NEW j \in 1 .. Cardinality(S),
                      InOrder(S)[i] = InOrder(S)[j]
               PROVE  i = j
    BY <1>3 DEF IsInjective
  <2>1. InOrder(S)[i] \in Nat
    BY <1>1, <1>3
  <2>2. ~(i < j) /\ ~(j < i)
    BY <1>2, <2>1
  <2> QED
    BY <2>2
<1>7. Cardinality(S) \in Nat
  BY <1>1, FS_CardinalityType
<1>8. ASSUME NEW n, S \subseteq {n} PROVE Cardinality(S) <= 1
  <2>1. IsFiniteSet({n}) /\ Cardinality({n}) = 1
    BY FS_Singleton
  <2> QED
    BY <1>8, <2>1, FS_Subset
<1> QED
  BY <1>2, <1>4, <1>5, <1>6, <1>7, <1>8

Found == Held \cap Matching(query.tool, query.want)

\* What NetBox lists are the devices it holds that match (netbox.py:69-79).
LEMMA ListingIs ==
    ASSUME QueryInv, query.at # "idle"
    PROVE  Found \in SUBSET Devices /\ Listing = InOrder(Found)
BY HeldType DEF Found, Listing

\* Devices filed meanwhile come after what was read of the list, and take
\* nothing from an answer (netbox.py:69-92).
LEMMA HeldGrows ==
    ASSUME QueryInv, UNCHANGED <<query, runaway>>, Held \subseteq Held', Held' \in SUBSET Devices,
           \A h \in Held : \A n \in Held' \ Held : h < n
    PROVE  QueryInv'
<1>1. Asks' /\ query' \in Query
  BY DEF QueryInv, Asks
<1>2. AnswersAreWhole'
  <2> SUFFICES ASSUME query.at = "answered" PROVE AnswersAreWhole'
    BY DEF AnswersAreWhole
  <2> DEFINE found == ToSet(query.devices)
  <2>1. query.source = "live" => found \subseteq Held' \cap Matching(query.tool, query.want)
    BY DEF QueryInv, AnswersAreWhole
  <2> QED
    BY <2>1 DEF QueryInv, AnswersAreWhole
<1>3. ReadSoFar'
  <2> SUFFICES ASSUME query.at = "page" PROVE ReadSoFar'
    BY DEF ReadSoFar
  <2>1. query.began \subseteq Held'
    BY DEF QueryInv, ReadSoFar
  <2>2. CASE runaway
    BY <2>1, <2>2 DEF ReadSoFar
  <2>3. CASE ~runaway
    <3> DEFINE m == query.pages * PageSize
               T == Held' \cap Matching(query.tool, query.want)
    <3>1. m \in Nat
      BY InventoryAssumption DEF QueryInv, Query
    <3>2. m <= Len(Listing) /\ query.devices = SubSeq(Listing, 1, m)
      BY <2>3 DEF QueryInv, ReadSoFar
    <3> HIDE DEF m
    <3>3. /\ Found \in SUBSET Devices /\ Listing = InOrder(Found)
          /\ T \in SUBSET Devices /\ Listing' = InOrder(T) /\ Found \subseteq T
          /\ \A s \in Found : \A t \in T \ Found : s < t
      BY ListingIs DEF Found, Listing
    <3>4. /\ Cardinality(Found) <= Cardinality(T)
          /\ \A i \in 1 .. Cardinality(Found) : InOrder(T)[i] = InOrder(Found)[i]
      BY <3>3, HeldType, InOrderGrows
    <3>5. /\ Listing \in Seq(Devices) /\ Len(Listing) = Cardinality(Found)
          /\ Listing' \in Seq(Devices) /\ Len(Listing') = Cardinality(T)
          /\ Cardinality(Found) \in Nat /\ Cardinality(T) \in Nat
      BY <3>3, InOrderNames
    <3>6. \A i \in 1 .. m : Listing'[i] = Listing[i] /\ Listing[i] \in Devices
      <4> SUFFICES ASSUME NEW i \in 1 .. m
                   PROVE  Listing'[i] = Listing[i] /\ Listing[i] \in Devices
        OBVIOUS
      <4>1. i \in 1 .. Len(Listing) /\ i \in 1 .. Cardinality(Found)
        BY <3>1, <3>2, <3>5
      <4>2. Listing[i] \in Devices
        BY <3>5, <4>1, ElementOfSeq
      <4> QED
        BY <3>3, <3>4, <4>1, <4>2
    <3>7. SubSeq(Listing', 1, m) = SubSeq(Listing, 1, m)
      BY <3>1, <3>6
    <3>8. m <= Len(Listing')
      BY <3>1, <3>2, <3>4, <3>5
    <3> QED
      BY <2>1, <3>2, <3>7, <3>8 DEF ReadSoFar, m
  <2> QED
    BY <2>2, <2>3
<1> QED
  BY <1>1, <1>2, <1>3 DEF QueryInv

\* A list read to its end, or seed.json's answer, is told in full
\* (netbox.py:95-103, 106-144).
LEMMA AnswerInv ==
    ASSUME QueryInv, query.at = "page", UNCHANGED <<store, runaway>>,
           NEW source \in {"live", "fallback"}, NEW S \in SUBSET Devices,
           Answers(source, InOrder(S)),
           source = "live" => S = Found,
           source = "fallback" => S = Devices \cap query.want
    PROVE  QueryInv'
<1> DEFINE all == InOrder(S)
           told == IF query.tool = "get_device" THEN SubSeq(all, 1, IF all = <<>> THEN 0 ELSE 1)
                   ELSE all
           missing == IF query.tool = "get_blast_radius" THEN query.want \ S ELSE {}
<1>1. /\ all \in Seq(Devices) /\ Len(all) \in Nat /\ ToSet(all) = S /\ IsInjective(all)
      /\ \A n : S \subseteq {n} => Len(all) <= 1
  BY InOrderNames
<1>2. query.tool = "get_device" => Len(all) <= 1
  <2> SUFFICES ASSUME query.tool = "get_device" PROVE Len(all) <= 1
    OBVIOUS
  <2>1. PICK n \in Names : query.want = {n}
    BY DEF QueryInv, Asks
  <2>2. S \subseteq {n}
    BY <2>1 DEF Found, Matching
  <2> QED
    BY <1>1, <2>2
<1> HIDE DEF all
<1>3. told = all
  <2>1. CASE query.tool # "get_device"
    BY <2>1
  <2>2. CASE query.tool = "get_device" /\ all = <<>>
    BY <1>1, <2>2
  <2>3. CASE query.tool = "get_device" /\ all # <<>>
    <3>1. PICK n \in Nat : n = Len(all)
      BY <1>1
    <3>2. n <= 1 /\ n # 0
      BY <1>1, <1>2, <2>3, <3>1
    <3>3. Len(all) = 1
      <4>1. n = 1
        BY <3>2
      <4> QED
        BY <3>1, <4>1
    <3> QED
      BY <1>1, <2>3, <3>3, SubSeqFull
  <2> QED
    BY <2>1, <2>2, <2>3
<1>4. query' = [query EXCEPT !.at = "answered", !.pages = 0, !.source = source, !.devices = told,
                             !.missing = missing]
  BY <1>1 DEF Answers, all
<1> HIDE DEF told
<1>5. missing \in SUBSET Names /\ (query.tool = "get_blast_radius" => missing = query.want \ S)
  BY DEF QueryInv, Query
<1> HIDE DEF missing
<1>6. /\ query' \in Query /\ query'.at = "answered" /\ query'.source = source
      /\ query'.devices = all /\ query'.missing = missing
      /\ query'.tool = query.tool /\ query'.want = query.want /\ query'.began = query.began
  <2>1. 0 \in 0 .. MaxPages /\ source \in Sources
    BY InventoryAssumption DEF Sources
  <2>2. query \in Query
    BY DEF QueryInv
  <2> QED
    BY <1>1, <1>3, <1>4, <1>5, <2>1, <2>2 DEF Query
<1>7. Asks' /\ ReadSoFar'
  BY <1>6 DEF QueryInv, Asks, ReadSoFar
<1>8. Held' = Held
  BY DEF Held
<1>9. AnswersAreWhole'
  <2>1. query'.source = "live" =>
            /\ query'.began \cap Matching(query'.tool, query'.want) \subseteq S
            /\ S \subseteq Held' \cap Matching(query'.tool, query'.want)
    BY <1>6, <1>8 DEF QueryInv, ReadSoFar, Found
  <2>2. query'.source = "fallback" => S = Devices \cap query'.want
    BY <1>6
  <2>3. query'.tool = "get_blast_radius" =>
            query'.want \subseteq S \cup query'.missing /\ S \cap query'.missing = {}
    BY <1>5, <1>6
  <2> QED
    BY <1>1, <1>6, <2>1, <2>2, <2>3 DEF AnswersAreWhole
<1> QED
  BY <1>6, <1>7, <1>9 DEF QueryInv

\* A question begins with the first page, and knows what NetBox holds then
\* (netbox.py:69-79).
LEMMA AskInv ==
    ASSUME IInv, NEW tool \in Tools, NEW want \in Wants(tool), Ask(tool, want)
    PROVE  QueryInv'
<1>1. /\ want \in SUBSET Names
      /\ tool = "get_device" => \E n \in Names : want = {n}
      /\ tool = "list_rack_devices" => want \subseteq Devices
  <2>1. Asked \subseteq Names
    BY InventoryAssumption DEF Names
  <2> QED
    BY <2>1, HeldType DEF Wants, Tools
<1>2. query' = [NoQuery EXCEPT !.at = "page", !.tool = tool, !.want = want, !.began = Held]
      /\ store' = store /\ runaway' = runaway
  BY DEF Ask, seeding
<1>3. query' = [at |-> "page", tool |-> tool, want |-> want, pages |-> 0, devices |-> <<>>,
                missing |-> {}, source |-> "none", began |-> Held]
  BY <1>2 DEF NoQuery
<1>4. query' \in Query
  BY <1>1, <1>3, HeldType, InventoryAssumption DEF Query, Sources
<1>5. Held' = Held /\ Held \in SUBSET Devices
  BY <1>2, HeldType DEF Held
<1>6. ReadSoFar'
  <2>1. 0 * PageSize = 0 /\ PageSize \in Nat
    BY InventoryAssumption
  <2>2. query'.pages * PageSize = 0
    BY <1>3, <2>1
  <2>3. Len(Listing') \in Nat /\ SubSeq(Listing', 1, 0) = <<>>
    <3>1. PICK T \in SUBSET Devices : Listing' = InOrder(T)
      BY <1>5, HeldType DEF Listing
    <3> QED
      BY <3>1, InOrderNames
  <2> QED
    BY <1>3, <1>5, <2>2, <2>3 DEF ReadSoFar
<1> QED
  BY <1>1, <1>3, <1>4, <1>6 DEF QueryInv, Asks, AnswersAreWhole

\* A page with a next one is a full page of the list: unless NetBox is
\* runaway, it continues what was read before (netbox.py:80-87).
LEMMA PageContinues ==
    ASSUME QueryInv, query.at = "page", ~runaway
    PROVE  LET read == query.pages * PageSize
               next == (query.pages + 1) * PageSize IN
           /\ HasNext(query.pages) =>
                 /\ next <= Len(Listing)
                 /\ query.devices \o Page(query.pages) = SubSeq(Listing, 1, next)
           /\ ~HasNext(query.pages) => query.devices \o Page(query.pages) = Listing
<1> DEFINE read == query.pages * PageSize
           next == (query.pages + 1) * PageSize
           all == query.devices \o Page(query.pages)
<1> SUFFICES /\ HasNext(query.pages) => next <= Len(Listing) /\ all = SubSeq(Listing, 1, next)
             /\ ~HasNext(query.pages) => all = Listing
  OBVIOUS
<1>1. /\ read \in Nat /\ next \in Nat /\ read <= next
  <2>1. query.pages \in Nat /\ PageSize \in Nat
    BY InventoryAssumption DEF QueryInv, Query
  <2>2. next = read + PageSize
    BY <2>1
  <2>3. read \in Nat
    BY <2>1
  <2> QED
    BY <2>1, <2>2, <2>3
<1>2. /\ Listing \in Seq(Devices) /\ Len(Listing) \in Nat
      /\ read <= Len(Listing) /\ query.devices = SubSeq(Listing, 1, read)
  <2>1. Listing \in Seq(Devices) /\ Len(Listing) \in Nat
    BY ListingIs, InOrderNames
  <2> QED
    BY <2>1 DEF QueryInv, ReadSoFar
<1>3. /\ Page(query.pages) = SubSeq(Listing, read + 1, IF Len(Listing) < next THEN Len(Listing) ELSE next)
      /\ HasNext(query.pages) <=> Len(Listing) > next
  BY DEF Page, HasNext
<1> HIDE DEF read, next
<1>4. CASE Len(Listing) > next
  <2>1. Page(query.pages) = SubSeq(Listing, read + 1, next)
    BY <1>1, <1>2, <1>3, <1>4
  <2>2. SubSeq(Listing, 1, read) \o SubSeq(Listing, read + 1, next) = SubSeq(Listing, 1, next)
    <3>1. 1 \in 1 .. Len(Listing) + 1 /\ read \in 1 - 1 .. Len(Listing) /\ next \in read .. Len(Listing)
      BY <1>1, <1>2, <1>4
    <3> QED
      BY <1>2, <3>1, ConcatAdjacentSubSeq
  <2>3. all = SubSeq(Listing, 1, next)
    BY <1>2, <2>1, <2>2
  <2>4. next <= Len(Listing)
    BY <1>1, <1>2, <1>4
  <2>5. HasNext(query.pages)
    BY <1>3, <1>4
  <2> QED
    BY <2>3, <2>4, <2>5
<1>5. CASE ~(Len(Listing) > next)
  <2>1. Page(query.pages) = SubSeq(Listing, read + 1, Len(Listing))
    BY <1>1, <1>2, <1>3, <1>5
  <2>2. SubSeq(Listing, 1, read) \o SubSeq(Listing, read + 1, Len(Listing))
            = SubSeq(Listing, 1, Len(Listing))
    <3>1. /\ 1 \in 1 .. Len(Listing) + 1 /\ read \in 1 - 1 .. Len(Listing)
          /\ Len(Listing) \in read .. Len(Listing)
      BY <1>1, <1>2
    <3> QED
      BY <1>2, <3>1, ConcatAdjacentSubSeq
  <2>3. SubSeq(Listing, 1, Len(Listing)) = Listing
    BY <1>2, SubSeqFull
  <2> QED
    BY <1>2, <1>3, <1>5, <2>1, <2>2, <2>3
<1> QED
  BY <1>4, <1>5

\* A page is a list of devices, however short (netbox.py:82-83).
LEMMA PageType ==
    ASSUME QueryInv, query.at = "page"
    PROVE  query.devices \o Page(query.pages) \in Seq(Devices)
<1>1. query.pages \in Nat /\ PageSize \in Nat /\ query.devices \in Seq(Devices)
  BY InventoryAssumption DEF QueryInv, Query
<1>2. Listing \in Seq(Devices) /\ Len(Listing) \in Nat
  BY ListingIs, InOrderNames
<1> DEFINE first == query.pages * PageSize + 1
           next == (query.pages + 1) * PageSize
           last == IF Len(Listing) < next THEN Len(Listing) ELSE next
<1>3. first \in Nat \ {0} /\ next \in Nat
  <2>1. query.pages * PageSize \in Nat
    BY <1>1
  <2>2. (query.pages + 1) * PageSize = query.pages * PageSize + PageSize
    BY <1>1
  <2> QED
    BY <1>1, <2>1, <2>2
<1>4. Page(query.pages) = SubSeq(Listing, first, last)
  BY DEF Page
<1> HIDE DEF first, next
<1>5. last \in Nat /\ last <= Len(Listing)
  BY <1>2, <1>3
<1> HIDE DEF last
<1>6. \A i \in first .. last : Listing[i] \in Devices
  <2> SUFFICES ASSUME NEW i \in first .. last PROVE Listing[i] \in Devices
    OBVIOUS
  <2>1. i \in 1 .. Len(Listing)
    BY <1>2, <1>3, <1>5
  <2> QED
    BY <1>2, <2>1, ElementOfSeq
<1>7. Page(query.pages) \in Seq(Devices)
  BY <1>3, <1>4, <1>5, <1>6, SubSeqProperties
<1> QED
  BY <1>1, <1>7, ConcatProperties

\* An answer of seed.json is told in full (netbox.py:98-103).
LEMMA FallbackInv ==
    ASSUME QueryInv, query.at = "page", UNCHANGED <<store, runaway>>, Answers("fallback", Seeded)
    PROVE  QueryInv'
<1>1. Devices \cap query.want \in SUBSET Devices
  OBVIOUS
<1> QED
  BY <1>1, AnswerInv DEF Seeded

\* Reading a page keeps the invariant of the question, however far it is
\* (netbox.py:65-95).
LEMMA ReadInv ==
    ASSUME QueryInv, ReadPage, runaway \in BOOLEAN
    PROVE  QueryInv'
<1>1. query.at = "page" /\ UNCHANGED <<store, runaway>>
  BY DEF ReadPage, seeding
<1> DEFINE devices == query.devices \o Page(query.pages)
<1>2. CASE ~HasNext(query.pages) /\ Answers("live", devices)
  <2>1. Answers("live", devices) /\ ~runaway
    BY <1>2 DEF HasNext
  <2>2. devices = InOrder(Found) /\ Found \in SUBSET Devices
    BY <1>1, <1>2, <2>1, ListingIs, PageContinues
  <2>3. Answers("live", InOrder(Found))
    BY <2>1, <2>2
  <2> QED
    BY <1>1, <2>2, <2>3, AnswerInv
<1>3. CASE /\ query.pages < MaxPages /\ HasNext(query.pages)
           /\ query' = [query EXCEPT !.pages = @ + 1, !.devices = @ \o Page(query.pages)]
  <2>1. devices \in Seq(Devices)
    BY <1>1, PageType
  <2>2. ~runaway => /\ (query.pages + 1) * PageSize <= Len(Listing)
                    /\ devices = SubSeq(Listing, 1, (query.pages + 1) * PageSize)
    BY <1>1, <1>3, PageContinues
  <2>3. query' = [query EXCEPT !.pages = query.pages + 1, !.devices = devices]
    BY <1>3
  <2> HIDE DEF devices
  <2>4. query.pages + 1 \in 0 .. MaxPages
    BY <1>3, InventoryAssumption DEF QueryInv, Query
  <2>5. /\ query' \in Query /\ query'.at = "page" /\ query'.pages = query.pages + 1
        /\ query'.devices = devices /\ query'.tool = query.tool /\ query'.want = query.want
        /\ query'.began = query.began
    BY <1>1, <2>1, <2>3, <2>4 DEF QueryInv, Query
  <2>6. Held' = Held /\ Listing' = Listing
    BY <1>1, <2>5 DEF Held, Listing
  <2>7. ReadSoFar'
    BY <1>1, <2>2, <2>5, <2>6 DEF QueryInv, ReadSoFar
  <2>8. Asks' /\ AnswersAreWhole'
    BY <1>1, <2>5 DEF QueryInv, Asks, AnswersAreWhole
  <2> QED
    BY <2>5, <2>7, <2>8 DEF QueryInv
<1>4. CASE Answers("fallback", Seeded)
  BY <1>1, <1>4, FallbackInv
<1> QED
  BY <1>2, <1>3, <1>4 DEF ReadPage

\* A page that does not come makes seed.json answer, or an error
\* (netbox.py:93-103, common.py).
LEMMA FailInv ==
    ASSUME QueryInv, PageFails
    PROVE  QueryInv'
<1>1. query.at = "page" /\ UNCHANGED <<store, runaway>>
  BY DEF PageFails, seeding
<1>2. CASE Answers("fallback", Seeded)
  BY <1>1, <1>2, FallbackInv
<1>3. CASE Answers("error", <<>>)
  <2>1. query' = [query EXCEPT !.at = "answered", !.pages = 0, !.source = "error",
                               !.devices = <<>>, !.missing = {}]
    <3>1. SubSeq(<<>>, 1, 0) = <<>>
      BY SubSeqEmpty
    <3> QED
      BY <1>3, <3>1 DEF Answers
  <2>2. 0 \in 0 .. MaxPages /\ "error" \in Sources /\ <<>> \in Seq(Devices)
    BY InventoryAssumption DEF Sources
  <2>3. query \in Query
    BY DEF QueryInv
  <2>4. /\ query' \in Query /\ query'.at = "answered" /\ query'.source = "error"
        /\ query'.devices = <<>> /\ query'.tool = query.tool /\ query'.want = query.want
    BY <2>1, <2>2, <2>3 DEF Query
  <2>5. IsInjective(<<>>)
    BY DEF IsInjective
  <2>6. AnswersAreWhole'
    BY <2>4, <2>5 DEF AnswersAreWhole
  <2> QED
    BY <1>1, <2>4, <2>6 DEF QueryInv, Asks, ReadSoFar
<1> QED
  BY <1>1, <1>2, <1>3 DEF PageFails

\* A step of the seeding keeps the devices in order and the answers whole
\* (seed.py:32-43, 129-138).
LEMMA SeedingInv ==
    ASSUME IInv, SeedStarts \/ Lookup \/ Create \/ SeedFails
    PROVE  DevicesInOrder' /\ QueryInv'
<1>1. UNCHANGED <<query, runaway>>
  BY DEF SeedStarts, Lookup, Create, SeedFails
<1>2. CASE UNCHANGED store
  <2>1. Held' = Held /\ Held \in SUBSET Devices
    BY <1>2 DEF Held
  <2>2. QueryInv'
    BY <1>1, <2>1, HeldGrows DEF IInv
  <2> QED
    BY <2>1, <2>2 DEF IInv, DevicesInOrder
<1>3. CASE seeder.call = "post" /\ Filed
  <2>1. Held' \in SUBSET Devices
    BY DEF Held
  <2> QED
    BY <1>1, <1>3, <2>1, FiledInOrder, HeldGrows DEF IInv
<1> QED
  BY <1>2, <1>3 DEF SeedStarts, Lookup, Create, SeedFails

\* The counters stay within their bounds.
LEMMA NextCounters == CountersInv /\ [Next]_vars => CountersInv'
<1> SUFFICES ASSUME CountersInv, [Next]_vars PROVE CountersInv'
  OBVIOUS
<1>1. MaxSeedings \in Nat /\ MaxFaults \in Nat
  BY InventoryAssumption
<1>2. seedings' = seedings \/ (seedings < MaxSeedings /\ seedings' = seedings + 1)
  BY DEF Next, SeedStarts, Lookup, Create, SeedFails, Ask, ReadPage, PageFails, seeding, vars
<1>3. runaway' = runaway
  BY DEF Next, SeedStarts, Lookup, Create, SeedFails, Ask, ReadPage, PageFails, vars
<1>4. faults' = faults \/ (faults < MaxFaults /\ faults' = faults + 1)
  BY DEF Next, SeedStarts, Lookup, Create, SeedFails, Ask, ReadPage, PageFails, vars, Fault
<1>5. seedings' \in 0 .. MaxSeedings
  BY <1>1, <1>2 DEF CountersInv
<1>6. faults' \in 0 .. MaxFaults
  BY <1>1, <1>4 DEF CountersInv
<1>7. exit' = exit \/ exit' = "none" \/ exit' = "ok" \/ exit' = "failed"
  BY DEF Next, SeedStarts, Lookup, Create, SeedFails, Ensured, Ask, ReadPage, PageFails, seeding, vars
<1>8. exit' \in {"none", "ok", "failed"}
  BY <1>7 DEF CountersInv
<1> QED
  BY <1>3, <1>5, <1>6, <1>8 DEF CountersInv

\* The seeding and the tools keep the invariant of both.
LEMMA NextAll == IInv /\ [Next]_vars => IInv'
<1> SUFFICES ASSUME IInv, [Next]_vars PROVE IInv'
  OBVIOUS
<1>1. SeedInv' /\ CountersInv'
  BY NextInv, NextCounters DEF IInv
<1>2. ASSUME UNCHANGED store PROVE DevicesInOrder'
  BY <1>2 DEF IInv, DevicesInOrder, Held
<1>3. CASE SeedStarts \/ Lookup \/ Create \/ SeedFails
  BY <1>1, <1>3, SeedingInv DEF IInv
<1>4. ASSUME NEW tool \in Tools, NEW want \in Wants(tool), Ask(tool, want) PROVE IInv'
  BY <1>1, <1>2, <1>4, AskInv DEF IInv, Ask, seeding
<1>5. CASE ReadPage
  <2>1. QueryInv' /\ UNCHANGED store
    BY <1>5, ReadInv DEF IInv, CountersInv, ReadPage, seeding
  <2> QED
    BY <1>1, <1>2, <2>1 DEF IInv
<1>6. CASE PageFails
  <2>1. QueryInv' /\ UNCHANGED store
    BY <1>6, FailInv DEF IInv, PageFails, seeding
  <2> QED
    BY <1>1, <1>2, <2>1 DEF IInv
<1>7. CASE UNCHANGED vars
  <2>1. UNCHANGED <<store, query, runaway>>
    BY <1>7 DEF vars, seeding
  <2>2. Held' = Held /\ Held \in SUBSET Devices
    BY <2>1 DEF Held
  <2> QED
    BY <1>1, <1>2, <2>1, <2>2, HeldGrows DEF IInv
<1> QED
  BY <1>3, <1>4, <1>5, <1>6, <1>7 DEF Next

\* Nothing is filed and nothing is asked at first.
LEMMA InitAll == Init => IInv
<1> SUFFICES ASSUME Init PROVE IInv
  OBVIOUS
<1>1. Held = {}
  BY DEF Init, Held, ToSet
<1>2. QueryInv
  <2>1. query = NoQuery
    BY DEF Init
  <2>2. 0 \in 0 .. MaxPages
    BY InventoryAssumption
  <2>3. query \in Query /\ query.at = "idle"
    BY <2>1, <2>2 DEF NoQuery, Query, Tools, Sources
  <2> QED
    BY <2>3 DEF QueryInv, Asks, ReadSoFar, AnswersAreWhole
<1>3. CountersInv
  BY InventoryAssumption DEF Init, CountersInv
<1> QED
  BY <1>1, <1>2, <1>3, InitInv DEF IInv, DevicesInOrder

\* The invariant of the seeding and the tools holds in every behaviour.
THEOREM InventoryInvariance == Spec => []IInv
BY InitAll, NextAll, PTL DEF Spec

\* Every variable keeps its type, for every size of the inventory.
THEOREM TypeCorrect == Spec => []TypeOK
<1>1. ASSUME IInv PROVE TypeOK
  <2>1. SeedInv /\ query \in Query /\ CountersInv
    BY <1>1 DEF IInv, QueryInv
  <2>2. exit \in {"none", "ok", "failed"}
    BY <2>1 DEF CountersInv
  <2> QED
    BY <2>1, <2>2 DEF SeedInv, CountersInv, TypeOK
<1> QED
  BY <1>1, InventoryInvariance, PTL

\* A live answer names every matching device NetBox held when it was asked,
\* once, over any number of pages and while devices are being filed; a fallback
\* is seed.json's answer and nothing else (netbox.py:69-103, 129-144).
THEOREM WholeAnswers == Spec => []AnswersAreWhole
<1>1. IInv => AnswersAreWhole
  BY DEF IInv, QueryInv
<1> QED
  BY <1>1, InventoryInvariance, PTL
============================================================================
