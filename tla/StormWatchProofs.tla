-------------------------- MODULE StormWatchProofs --------------------------
(***************************************************************************)
(* What the watch and the grouping of a storm have in common, for any      *)
(* alerts, labels and times.  storm.ts and correlate.py look for the storm *)
(* in two ways: with two pointers over the sorted alerts, and by counting  *)
(* the alerts of the window that opens on each.  Both find what the first  *)
(* of the fullest windows holds (IsStart), and there is one such window,   *)
(* whatever order the alerts are listed in: so the answers depend on the   *)
(* set of firing alerts alone.                                             *)
(***************************************************************************)
EXTENDS StormWatch, FiniteSetTheorems, SequenceTheorems, TLAPS

----------------------------------------------------------------------------
\* Lists.

\* R is a strict order of S, and orders any two of its members.
Orders(R, S) ==
    /\ \A a \in S : <<a, a>> \notin R
    /\ \A a, b \in S : a # b => <<a, b>> \in R \/ <<b, a>> \in R
    /\ \A a, b, c \in S : <<a, b>> \in R /\ <<b, c>> \in R => <<a, c>> \in R

Below(S, R, i) == {j \in S : <<j, i>> \in R}

\* How many come before each member of an ordered set: every number below its
\* size, once.
LEMMA Places ==
    ASSUME NEW S, IsFiniteSet(S), NEW R, Orders(R, S)
    PROVE  /\ Cardinality(S) \in Nat
           /\ \A d \in S : Cardinality(Below(S, R, d)) \in 0 .. Cardinality(S) - 1
           /\ \A c, d \in S : <<c, d>> \in R => Cardinality(Below(S, R, c)) < Cardinality(Below(S, R, d))
           /\ \A i \in 1 .. Cardinality(S) : \E d \in S : Cardinality(Below(S, R, d)) = i - 1
<1> DEFINE n == Cardinality(S)
           place == [d \in S |-> Cardinality(Below(S, R, d)) + 1]
<1>1. n \in Nat
  BY FS_CardinalityType
<1>2. \A d \in S : /\ IsFiniteSet(Below(S, R, d))
                   /\ Cardinality(Below(S, R, d)) \in Nat /\ Cardinality(Below(S, R, d)) < n
  <2> SUFFICES ASSUME NEW d \in S
               PROVE  /\ IsFiniteSet(Below(S, R, d))
                      /\ Cardinality(Below(S, R, d)) \in Nat /\ Cardinality(Below(S, R, d)) < n
    OBVIOUS
  <2>1. Below(S, R, d) \in SUBSET S /\ d \notin Below(S, R, d)
    BY DEF Below, Orders
  <2>2. /\ IsFiniteSet(Below(S, R, d)) /\ Cardinality(Below(S, R, d)) <= n
        /\ Cardinality(Below(S, R, d)) # n
    BY <2>1, FS_Subset
  <2>3. Cardinality(Below(S, R, d)) \in Nat
    BY <2>2, FS_CardinalityType
  <2> QED
    BY <1>1, <2>2, <2>3
<1>3. \A d \in S : Cardinality(Below(S, R, d)) \in 0 .. n - 1
  BY <1>1, <1>2
<1>4. ASSUME NEW c \in S, NEW d \in S, <<c, d>> \in R
      PROVE  Cardinality(Below(S, R, c)) < Cardinality(Below(S, R, d))
  <2>1. /\ Below(S, R, c) \in SUBSET Below(S, R, d)
        /\ c \in Below(S, R, d) /\ c \notin Below(S, R, c)
    BY <1>4 DEF Below, Orders
  <2>2. /\ Cardinality(Below(S, R, c)) <= Cardinality(Below(S, R, d))
        /\ Cardinality(Below(S, R, c)) # Cardinality(Below(S, R, d))
    BY <1>2, <2>1, FS_Subset
  <2> QED
    BY <1>2, <2>2
<1>5. place \in Injection(S, 1 .. n)
  <2>1. place \in [S -> 1 .. n]
    BY <1>1, <1>3
  <2>2. ASSUME NEW c \in S, NEW d \in S, place[c] = place[d] PROVE c = d
    <3>1. Cardinality(Below(S, R, c)) = Cardinality(Below(S, R, d))
      BY <1>2, <2>2
    <3>2. <<c, d>> \notin R /\ <<d, c>> \notin R
      BY <1>2, <1>4, <3>1
    <3> QED
      BY <3>2 DEF Orders
  <2> QED
    BY <2>1, <2>2 DEF Injection, IsInjective
<1>6. IsFiniteSet(1 .. n) /\ Cardinality(1 .. n) = n
  BY <1>1, FS_Interval
<1>7. place \in Surjection(S, 1 .. n)
  BY <1>5, <1>6, FS_Injection
<1>8. \A i \in 1 .. n : \E d \in S : Cardinality(Below(S, R, d)) = i - 1
  <2> SUFFICES ASSUME NEW i \in 1 .. n PROVE \E d \in S : Cardinality(Below(S, R, d)) = i - 1
    OBVIOUS
  <2>1. PICK d \in S : place[d] = i
    BY <1>7 DEF Surjection
  <2> QED
    BY <1>2, <2>1
<1> QED
  BY <1>1, <1>3, <1>4, <1>8

\* Listed names every member of the set once, in its order.
LEMMA ListedIs ==
    ASSUME NEW S, IsFiniteSet(S), NEW R, Orders(R, S)
    PROVE  /\ Cardinality(S) \in Nat
           /\ Listed(S, R) \in [1 .. Cardinality(S) -> S]
           /\ \A i, j \in 1 .. Cardinality(S) : i < j => <<Listed(S, R)[i], Listed(S, R)[j]>> \in R
           /\ \A d \in S : \E i \in 1 .. Cardinality(S) : Listed(S, R)[i] = d
<1> DEFINE n == Cardinality(S)
           list == Listed(S, R)
<1>1. /\ n \in Nat
      /\ \A d \in S : Cardinality(Below(S, R, d)) \in 0 .. n - 1
      /\ \A c, d \in S : <<c, d>> \in R => Cardinality(Below(S, R, c)) < Cardinality(Below(S, R, d))
      /\ \A i \in 1 .. n : \E d \in S : Cardinality(Below(S, R, d)) = i - 1
  BY Places
<1>2. list = [i \in 1 .. n |-> CHOOSE d \in S : Cardinality(Below(S, R, d)) = i - 1]
  BY DEF Listed, Below
<1>3. \A i \in 1 .. n : list[i] \in S /\ Cardinality(Below(S, R, list[i])) = i - 1
  BY <1>1, <1>2
<1>4. list \in [1 .. n -> S]
  BY <1>2, <1>3
<1> HIDE DEF list
<1>5. ASSUME NEW i \in 1 .. n, NEW j \in 1 .. n, i < j PROVE <<list[i], list[j]>> \in R
  <2>1. PICK c \in S : c = list[i] /\ Cardinality(Below(S, R, c)) = i - 1
    BY <1>3
  <2>2. PICK d \in S : d = list[j] /\ Cardinality(Below(S, R, d)) = j - 1
    BY <1>3
  <2>3. c # d /\ ~(<<d, c>> \in R)
    BY <1>1, <1>5, <2>1, <2>2
  <2> QED
    BY <2>1, <2>2, <2>3 DEF Orders
<1>6. ASSUME NEW d \in S PROVE \E i \in 1 .. n : list[i] = d
  <2>1. PICK i \in 1 .. n : Cardinality(Below(S, R, d)) = i - 1
    <3>1. Cardinality(Below(S, R, d)) + 1 \in 1 .. n
      BY <1>1
    <3>2. PICK i \in 1 .. n : i = Cardinality(Below(S, R, d)) + 1
      BY <3>1
    <3> QED
      BY <1>1, <3>2
  <2>2. PICK c \in S : c = list[i] /\ Cardinality(Below(S, R, c)) = i - 1
    BY <1>3
  <2>3. ~(<<c, d>> \in R) /\ ~(<<d, c>> \in R)
    BY <1>1, <2>1, <2>2
  <2> QED
    BY <2>2, <2>3 DEF Orders
<1>7. list = Listed(S, R)
  BY DEF list
<1> HIDE DEF n
<1> QED
  BY <1>1, <1>4, <1>5, <1>6, <1>7 DEF n

\* A finite, nonempty set of numbers has a least and a greatest member.
LEMMA Extremes ==
    ASSUME NEW S \in SUBSET Nat, IsFiniteSet(S), S # {}
    PROVE  /\ \E m \in S : \A k \in S : m <= k
           /\ \E m \in S : \A k \in S : k <= m
<1> DEFINE R == {p \in S \X S : p[1] < p[2]}
           n == Cardinality(S)
<1>1. \A a, b \in S : <<a, b>> \in R <=> a < b
  OBVIOUS
<1>2. Orders(R, S)
  <2> HIDE DEF R
  <2> QED
    BY <1>1 DEF Orders
<1> HIDE DEF R
<1>3. /\ n \in Nat
      /\ \A d \in S : Cardinality(Below(S, R, d)) \in 0 .. n - 1
      /\ \A c, d \in S : <<c, d>> \in R => Cardinality(Below(S, R, c)) < Cardinality(Below(S, R, d))
      /\ \A i \in 1 .. n : \E d \in S : Cardinality(Below(S, R, d)) = i - 1
  BY <1>2, Places
<1> HIDE DEF n
<1>4. 1 \in 1 .. n /\ n \in 1 .. n
  <2>1. PICK d \in S : TRUE
    OBVIOUS
  <2> QED
    BY <1>3, <2>1
<1>5. PICK low \in S : Cardinality(Below(S, R, low)) = 1 - 1
  BY <1>3, <1>4
<1>6. PICK top \in S : Cardinality(Below(S, R, top)) = n - 1
  BY <1>3, <1>4
<1>7. \A k \in S : ~(k < low) /\ ~(top < k)
  <2> SUFFICES ASSUME NEW k \in S PROVE ~(k < low) /\ ~(top < k)
    OBVIOUS
  <2>1. Cardinality(Below(S, R, k)) \in 0 .. n - 1
    BY <1>3
  <2>2. ~(<<k, low>> \in R) /\ ~(<<top, k>> \in R)
    BY <1>3, <1>5, <1>6, <2>1
  <2> QED
    BY <1>1, <2>2
<1> QED
  BY <1>7

\* The list t has each member of the set F once and nothing else.
Holds(t, F) ==
    /\ t \in Seq(Alert)
    /\ \A i \in 1 .. Len(t) : t[i] \in F
    /\ \A a \in F : \E i \in 1 .. Len(t) : t[i] = a
    /\ \A i, j \in 1 .. Len(t) : t[i] = t[j] => i = j

Sorted(t) == \A i, j \in 1 .. Len(t) : i < j => t[i].at <= t[j].at

\* The alerts that t has at the places I.
InAt(t, I) == {t[i] : i \in I}

Onto(p, n, I) == \A d \in I : \E i \in 1 .. n : p[i] = d

\* The members of a list.
LEMMA HoldsSet ==
    ASSUME NEW t, NEW F, Holds(t, F)
    PROVE  DOMAIN t = 1 .. Len(t) /\ ToSet(t) = F
<1>1. DOMAIN t = 1 .. Len(t)
  BY DEF Holds
<1> QED
  BY <1>1 DEF Holds, ToSet

\* What is at places of a list is a list.
LEMMA FromPlaces ==
    ASSUME NEW t \in Seq(Alert), NEW n \in Nat, NEW p \in [1 .. n -> 1 .. Len(t)],
           NEW u, u = [k \in 1 .. n |-> t[p[k]]]
    PROVE  u \in Seq(Alert) /\ Len(u) = n /\ \A k \in 1 .. n : u[k] = t[p[k]]
<1>1. ASSUME NEW k \in 1 .. n PROVE u[k] = t[p[k]] /\ t[p[k]] \in Alert
  <2>1. p[k] \in 1 .. Len(t)
    OBVIOUS
  <2> QED
    BY <2>1
<1> QED
  BY <1>1

\* A list made of a list by taking other places, each once, has what is at them.
LEMMA Rearranged ==
    ASSUME NEW t, NEW F, Holds(t, F), NEW I \in SUBSET (1 .. Len(t)), NEW n \in Nat,
           NEW p \in [1 .. n -> I],
           \A i, j \in 1 .. n : i < j => p[i] # p[j],
           Onto(p, n, I),
           NEW u \in Seq(Alert), Len(u) = n, \A k \in 1 .. n : u[k] = t[p[k]]
    PROVE  Holds(u, InAt(t, I))
<1>1. t \in Seq(Alert)
  BY DEF Holds
<1>2. \A k \in 1 .. n : p[k] \in I /\ p[k] \in 1 .. Len(t) /\ u[k] = t[p[k]]
  OBVIOUS
<1>4. \A i \in 1 .. n : u[i] \in InAt(t, I)
  BY <1>2 DEF InAt
<1>5. \A a \in InAt(t, I) : \E i \in 1 .. n : u[i] = a
  <2> SUFFICES ASSUME NEW d \in I PROVE \E i \in 1 .. n : u[i] = t[d]
    BY DEF InAt
  <2>1. PICK i \in 1 .. n : p[i] = d
    BY DEF Onto
  <2> QED
    BY <1>2, <2>1
<1>6. ASSUME NEW i \in 1 .. n, NEW j \in 1 .. n, u[i] = u[j] PROVE i = j
  <2>1. p[i] = p[j]
    BY <1>2, <1>6 DEF Holds
  <2>2. ~(i < j) /\ ~(j < i)
    BY <2>1
  <2> QED
    BY <2>2
<1> QED
  BY <1>4, <1>5, <1>6 DEF Holds

\* What is picked of a list is what is at the places picked, in the same order.
LEMMA PickedIs ==
    ASSUME NEW t, NEW F, Holds(t, F), NEW I \in SUBSET (1 .. Len(t))
    PROVE  /\ Holds(Picked(t, I), InAt(t, I))
           /\ Sorted(t) => Sorted(Picked(t, I))
<1> DEFINE R == {p \in I \X I : p[1] < p[2]}
           n == Cardinality(I)
           place == Listed(I, R)
<1>1. t \in Seq(Alert) /\ Len(t) \in Nat /\ I \in SUBSET Nat
  BY DEF Holds
<1>2. IsFiniteSet(I)
  <2>1. IsFiniteSet(1 .. Len(t))
    BY <1>1, FS_Interval
  <2> QED
    BY <2>1, FS_Subset
<1>3. \A a, b \in I : <<a, b>> \in R <=> a < b
  OBVIOUS
<1>4. Orders(R, I)
  <2> HIDE DEF R
  <2> QED
    BY <1>1, <1>3 DEF Orders
<1>5. Picked(t, I) = [k \in 1 .. n |-> t[place[k]]]
  BY DEF Picked
<1> HIDE DEF R
<1>6. /\ n \in Nat /\ place \in [1 .. n -> I]
      /\ \A i, j \in 1 .. n : i < j => <<place[i], place[j]>> \in R
      /\ \A d \in I : \E i \in 1 .. n : place[i] = d
  BY <1>2, <1>4, ListedIs
<1> HIDE DEF n, place
<1>7. \A i, j \in 1 .. n : i < j => place[i] < place[j] /\ place[i] # place[j]
  <2> SUFFICES ASSUME NEW i \in 1 .. n, NEW j \in 1 .. n, i < j
               PROVE  place[i] < place[j] /\ place[i] # place[j]
    OBVIOUS
  <2>1. PICK a \in I : a = place[i]
    BY <1>6
  <2>2. PICK b \in I : b = place[j]
    BY <1>6
  <2>3. a < b
    BY <1>3, <1>6, <2>1, <2>2
  <2>4. a \in Nat /\ b \in Nat
    BY <1>1
  <2> QED
    BY <2>1, <2>2, <2>3, <2>4
<1>8. Holds(Picked(t, I), InAt(t, I)) /\ Len(Picked(t, I)) = n
  <2>1. PICK u, p : u = Picked(t, I) /\ p = place
    OBVIOUS
  <2>2. \A i, j \in 1 .. n : i < j => p[i] # p[j]
    BY <1>7, <2>1
  <2>3. u = [k \in 1 .. n |-> t[p[k]]]
    BY <1>5, <2>1
  <2>4. Onto(p, n, I)
    BY <1>6, <2>1 DEF Onto
  <2>5. n \in Nat /\ p \in [1 .. n -> I] /\ p \in [1 .. n -> 1 .. Len(t)]
    BY <1>6, <2>1
  <2>6. u \in Seq(Alert) /\ Len(u) = n /\ \A k \in 1 .. n : u[k] = t[p[k]]
    BY <1>1, <2>3, <2>5, FromPlaces
  <2>7. Holds(u, InAt(t, I))
    BY <2>4, <2>2, <2>5, <2>6, Rearranged
  <2> QED
    BY <2>1, <2>6, <2>7
<1>9. ASSUME Sorted(t) PROVE Sorted(Picked(t, I))
  <2> SUFFICES ASSUME NEW i \in 1 .. n, NEW j \in 1 .. n, i < j
               PROVE  Picked(t, I)[i].at <= Picked(t, I)[j].at
    BY <1>8 DEF Sorted
  <2>1. place[i] \in 1 .. Len(t) /\ place[j] \in 1 .. Len(t) /\ place[i] < place[j]
    BY <1>6, <1>7
  <2>2. t[place[i]].at <= t[place[j]].at
    BY <1>9, <2>1 DEF Sorted
  <2> QED
    BY <1>5, <2>2
<1> QED
  BY <1>8, <1>9

\* Sorting a list by the starts of its alerts leaves what is in it.
LEMMA ByTimeIs ==
    ASSUME NEW t, NEW F, Holds(t, F)
    PROVE  Holds(ByTime(t), F) /\ Sorted(ByTime(t)) /\ Len(ByTime(t)) = Len(t)
<1> DEFINE n == Len(t)
           Before(i, j) == t[i].at < t[j].at \/ (t[i].at = t[j].at /\ i < j)
           R == {p \in (1 .. n) \X (1 .. n) : Before(p[1], p[2])}
           place == Listed(1 .. n, R)
<1>1. t \in Seq(Alert) /\ n \in Nat /\ DOMAIN t = 1 .. n
  BY DEF Holds
<1>2. \A i \in 1 .. n : t[i].at \in Int
  <2> SUFFICES ASSUME NEW i \in 1 .. n PROVE t[i].at \in Int
    OBVIOUS
  <2>1. t[i] \in Alert
    BY <1>1
  <2> QED
    BY <2>1 DEF Alert
<1>3. \A a, b \in 1 .. n : <<a, b>> \in R <=> Before(a, b)
  OBVIOUS
<1>4. Orders(R, 1 .. n)
  <2> HIDE DEF R
  <2>1. \A a \in 1 .. n : ~Before(a, a)
    BY <1>2
  <2>2. \A a, b \in 1 .. n : a # b => Before(a, b) \/ Before(b, a)
    BY <1>2
  <2>3. \A a, b, c \in 1 .. n : Before(a, b) /\ Before(b, c) => Before(a, c)
    BY <1>2
  <2> HIDE DEF Before
  <2> QED
    BY <1>3, <2>1, <2>2, <2>3 DEF Orders
<1>5. ByTime(t) = [k \in 1 .. n |-> t[place[k]]]
  BY <1>1 DEF ByTime
<1>6. IsFiniteSet(1 .. n) /\ Cardinality(1 .. n) = n
  BY <1>1, FS_Interval
<1> HIDE DEF R
<1>7. /\ place \in [1 .. n -> 1 .. n]
      /\ \A i, j \in 1 .. n : i < j => <<place[i], place[j]>> \in R
      /\ \A d \in 1 .. n : \E i \in 1 .. n : place[i] = d
  BY <1>4, <1>6, ListedIs
<1> HIDE DEF place
<1>8. \A i, j \in 1 .. n : i < j => place[i] # place[j] /\ t[place[i]].at <= t[place[j]].at
  <2> SUFFICES ASSUME NEW i \in 1 .. n, NEW j \in 1 .. n, i < j
               PROVE  place[i] # place[j] /\ t[place[i]].at <= t[place[j]].at
    OBVIOUS
  <2>1. PICK a \in 1 .. n : a = place[i]
    BY <1>7
  <2>2. PICK b \in 1 .. n : b = place[j]
    BY <1>7
  <2>3. Before(a, b)
    BY <1>3, <1>7, <2>1, <2>2
  <2>4. a # b /\ t[a].at <= t[b].at
    BY <1>2, <2>3
  <2> QED
    BY <2>1, <2>2, <2>4
<1>9. Holds(ByTime(t), InAt(t, 1 .. n)) /\ Len(ByTime(t)) = n
  <2>1. PICK u, p : u = ByTime(t) /\ p = place
    OBVIOUS
  <2>2. \A i, j \in 1 .. n : i < j => p[i] # p[j]
    BY <1>8, <2>1
  <2>3. u = [k \in 1 .. n |-> t[p[k]]]
    BY <1>5, <2>1
  <2>4. Onto(p, n, 1 .. n)
    BY <1>7, <2>1 DEF Onto
  <2>5. n \in Nat /\ p \in [1 .. n -> 1 .. n] /\ 1 .. n \in SUBSET (1 .. Len(t))
    BY <1>1, <1>7, <2>1
  <2>6. u \in Seq(Alert) /\ Len(u) = n /\ \A k \in 1 .. n : u[k] = t[p[k]]
    BY <1>1, <2>3, <2>5, FromPlaces
  <2>7. Holds(u, InAt(t, 1 .. n))
    BY <2>4, <2>2, <2>5, <2>6, Rearranged
  <2> QED
    BY <2>1, <2>6, <2>7
<1>10. InAt(t, 1 .. n) = F
  BY DEF Holds, InAt
<1>11. Sorted(ByTime(t))
  BY <1>5, <1>8, <1>9 DEF Sorted
<1> QED
  BY <1>9, <1>10, <1>11

\* A part of a set has as many members as places in the list of the set.
LEMMA HoldsCount ==
    ASSUME NEW t, NEW F, Holds(t, F), NEW G \in SUBSET F
    PROVE  LET I == {i \in 1 .. Len(t) : t[i] \in G}
           IN  /\ IsFiniteSet(I) /\ IsFiniteSet(G)
               /\ Cardinality(I) \in Nat /\ Cardinality(I) = Cardinality(G)
<1> DEFINE I == {i \in 1 .. Len(t) : t[i] \in G}
           f == [i \in I |-> t[i]]
<1>1. Len(t) \in Nat /\ IsFiniteSet(1 .. Len(t))
  BY FS_Interval DEF Holds
<1>2. IsFiniteSet(I)
  BY <1>1, FS_Subset
<1>3. f \in Surjection(I, G)
  <2>1. f \in [I -> G]
    OBVIOUS
  <2>2. \A a \in G : \E i \in I : f[i] = a
    BY DEF Holds
  <2> QED
    BY <2>1, <2>2 DEF Surjection
<1>4. f \in Injection(I, G)
  <2>1. \A i, j \in I : f[i] = f[j] => i = j
    BY DEF Holds
  <2> QED
    BY <1>3, <2>1 DEF Injection, Surjection, IsInjective
<1> HIDE DEF I, f
<1>5. IsFiniteSet(G) /\ Cardinality(G) = Cardinality(I)
  BY <1>2, <1>3, <1>4, FS_Surjection
<1>6. Cardinality(I) \in Nat
  BY <1>2, FS_CardinalityType
<1> QED
  BY <1>2, <1>5, <1>6 DEF I

\* A set that a list holds has as many members as the list is long.
LEMMA HoldsLen ==
    ASSUME NEW t, NEW F, Holds(t, F)
    PROVE  IsFiniteSet(F) /\ Len(t) \in Nat /\ Cardinality(F) = Len(t)
<1>1. {i \in 1 .. Len(t) : t[i] \in F} = 1 .. Len(t)
  BY DEF Holds
<1>2. Len(t) \in Nat
  <2>1. t \in Seq(Alert)
    BY DEF Holds
  <2> QED
    BY <2>1
<1>3. Cardinality(1 .. Len(t)) = Len(t)
  <2>1. PICK n \in Nat : n = Len(t)
    BY <1>2
  <2>2. Cardinality(1 .. n) = n
    BY FS_Interval
  <2> QED
    BY <2>1, <2>2
<1>4. IsFiniteSet(F) /\ Cardinality({i \in 1 .. Len(t) : t[i] \in F}) = Cardinality(F)
  BY HoldsCount
<1> QED
  BY <1>1, <1>2, <1>3, <1>4

----------------------------------------------------------------------------
\* The left edge of storm.ts.

\* l is the first alert of the sorted s that is in a window with `right`.
IsEdge(s, right, l) ==
    /\ l \in 1 .. right
    /\ s[right].at - s[l].at <= WindowS
    /\ \A k \in 1 .. l - 1 : s[right].at - s[k].at > WindowS

\* Where the left pointer goes when it starts at `from`.
Moved(s, from, right) ==
    CHOOSE l \in from .. right :
        /\ s[right].at - s[l].at <= WindowS
        /\ \A k \in from .. l - 1 : s[right].at - s[k].at > WindowS

Starts(s, n) == \A i \in 1 .. n : s[i].at \in Int

\* The alerts of a list start at some time.
LEMMA StartsAreTimes ==
    ASSUME NEW s \in Seq(Alert)
    PROVE  Len(s) \in Nat /\ Starts(s, Len(s)) /\ \A i \in 1 .. Len(s) : s[i] \in Alert
<1> SUFFICES ASSUME NEW i \in 1 .. Len(s) PROVE s[i].at \in Int /\ s[i] \in Alert
  BY DEF Starts
<1>1. s[i] \in Alert
  OBVIOUS
<1>2. MaxTime \in Nat
  BY StormAssumption
<1> QED
  BY <1>1, <1>2 DEF Alert

\* There is one first alert for each window, ...
LEMMA EdgeExists ==
    ASSUME NEW s, NEW n \in Nat, Starts(s, n), NEW r \in 1 .. n
    PROVE  \E l \in 1 .. r : IsEdge(s, r, l)
<1> DEFINE S == {l \in 1 .. r : s[r].at - s[l].at <= WindowS}
<1>1. WindowS \in Nat
  BY StormAssumption
<1>2. r \in S
  BY <1>1 DEF Starts
<1>3. IsFiniteSet(1 .. r) /\ S \in SUBSET (1 .. r) /\ S \in SUBSET Nat
  BY FS_Interval
<1>4. IsFiniteSet(S)
  BY <1>3, FS_Subset
<1>5. PICK l \in S : \A k \in S : l <= k
  <2> HIDE DEF S
  <2> QED
    BY <1>2, <1>3, <1>4, Extremes
<1>6. ASSUME NEW k \in 1 .. l - 1 PROVE s[r].at - s[k].at > WindowS
  <2>1. k \in 1 .. r /\ ~(l <= k) /\ k \in 1 .. n
    BY <1>5
  <2>2. s[r].at \in Int /\ s[k].at \in Int
    BY <2>1 DEF Starts
  <2> QED
    BY <1>1, <1>5, <2>1, <2>2
<1> QED
  BY <1>5, <1>6 DEF IsEdge

\* ... and only one.
LEMMA EdgeUnique ==
    ASSUME NEW s, NEW n \in Nat, Starts(s, n), NEW r \in 1 .. n, NEW l \in 1 .. r, NEW m \in 1 .. r,
           IsEdge(s, r, l), IsEdge(s, r, m)
    PROVE  l = m
<1>1. WindowS \in Nat /\ s[r].at \in Int /\ s[l].at \in Int /\ s[m].at \in Int
  BY StormAssumption DEF Starts
<1>2. ~(l < m)
  <2> SUFFICES ASSUME l < m PROVE FALSE
    OBVIOUS
  <2>1. l \in 1 .. m - 1
    OBVIOUS
  <2>2. s[r].at - s[l].at > WindowS /\ s[r].at - s[l].at <= WindowS
    BY <2>1 DEF IsEdge
  <2> QED
    BY <1>1, <2>2
<1>3. ~(m < l)
  <2> SUFFICES ASSUME m < l PROVE FALSE
    OBVIOUS
  <2>1. m \in 1 .. l - 1
    OBVIOUS
  <2>2. s[r].at - s[m].at > WindowS /\ s[r].at - s[m].at <= WindowS
    BY <2>1 DEF IsEdge
  <2> QED
    BY <1>1, <2>2
<1> QED
  BY <1>2, <1>3

\* The left pointer that starts no later than the edge stops at the edge.
LEMMA MovedToEdge ==
    ASSUME NEW s, NEW n \in Nat, Starts(s, n), NEW r \in 1 .. n, NEW l \in 1 .. r, IsEdge(s, r, l),
           NEW from \in 1 .. l
    PROVE  Moved(s, from, r) = l
<1> DEFINE P(m) == s[r].at - s[m].at <= WindowS /\ \A k \in from .. m - 1 : s[r].at - s[k].at > WindowS
<1>1. WindowS \in Nat /\ s[r].at \in Int /\ \A m \in 1 .. r : s[m].at \in Int
  BY StormAssumption DEF Starts
<1>2. l \in from .. r /\ from .. l - 1 \subseteq 1 .. l - 1
  OBVIOUS
<1>3. P(l)
  BY <1>2 DEF IsEdge
<1>4. ASSUME NEW m \in from .. r, P(m) PROVE m = l
  <2>1. m \in 1 .. r /\ s[r].at - s[m].at <= WindowS
    BY <1>4
  <2>2. ~(m < l)
    <3> SUFFICES ASSUME m < l PROVE FALSE
      OBVIOUS
    <3>1. m \in 1 .. l - 1
      BY <2>1
    <3>2. s[r].at - s[m].at > WindowS
      BY <3>1 DEF IsEdge
    <3> QED
      BY <1>1, <2>1, <3>2
  <2>3. ~(l < m)
    <3> SUFFICES ASSUME l < m PROVE FALSE
      OBVIOUS
    <3>1. l \in from .. m - 1
      BY <2>1
    <3>2. s[r].at - s[l].at > WindowS /\ s[r].at - s[l].at <= WindowS
      BY <1>4, <3>1 DEF IsEdge
    <3> QED
      BY <1>1, <3>2
  <2> QED
    BY <2>1, <2>2, <2>3
<1>5. Moved(s, from, r) = CHOOSE m \in from .. r : P(m)
  BY DEF Moved
<1> HIDE DEF P
<1> QED
  BY <1>2, <1>3, <1>4, <1>5

\* In a sorted list no edge is before that of an earlier window.
LEMMA EdgesRise ==
    ASSUME NEW s, NEW n \in Nat, Starts(s, n), NEW r \in 2 .. n, s[r - 1].at <= s[r].at,
           NEW l \in 1 .. r - 1, IsEdge(s, r - 1, l), NEW m \in 1 .. r, IsEdge(s, r, m)
    PROVE  l <= m
<1> SUFFICES ASSUME m < l PROVE FALSE
  OBVIOUS
<1>1. m \in 1 .. l - 1 /\ m \in 1 .. n /\ r \in 1 .. n /\ r - 1 \in 1 .. n
  OBVIOUS
<1>2. WindowS \in Nat /\ s[m].at \in Int /\ s[r].at \in Int /\ s[r - 1].at \in Int
  BY <1>1, StormAssumption DEF Starts
<1>3. s[r - 1].at - s[m].at > WindowS
  BY <1>1 DEF IsEdge
<1>4. s[r].at - s[m].at <= WindowS
  BY DEF IsEdge
<1> QED
  BY <1>2, <1>3, <1>4

\* The two pointers stop at the edge of every window: the left one may go on
\* from where it was, and need never go back (storm.ts:19-25).
LEMMA LeftEdgeIs ==
    ASSUME NEW s \in Seq(Alert), Sorted(s)
    PROVE  \A r \in 1 .. Len(s) : LeftEdge(s)[r] \in 1 .. r /\ IsEdge(s, r, LeftEdge(s)[r])
<1> DEFINE n == Len(s)
           From(f, r) == IF r = 1 THEN 1 ELSE f[r - 1]
           Recurs(f) == f = [r \in 1 .. n |-> Moved(s, From(f, r), r)]
           edge == [r \in 1 .. n |-> CHOOSE l \in 1 .. r : IsEdge(s, r, l)]
           left == LeftEdge(s)
<1>1. n \in Nat /\ Starts(s, n) /\ DOMAIN s = 1 .. n
  BY StartsAreTimes
<1>2. left = CHOOSE f : Recurs(f)
  BY <1>1 DEF LeftEdge, Moved
<1>3. \A r \in 1 .. n : edge[r] \in 1 .. r /\ IsEdge(s, r, edge[r])
  <2> HIDE DEF n
  <2> QED
    BY <1>1, EdgeExists
<1>4. edge = [r \in 1 .. n |-> edge[r]]
  OBVIOUS
<1> HIDE DEF edge, left
<1>5. \A r \in 2 .. n : r - 1 \in 1 .. n /\ r \in 1 .. n /\ s[r - 1].at <= s[r].at
  BY <1>1 DEF Sorted
<1> HIDE DEF n
<1>6. \A r \in 1 .. n : From(edge, r) \in 1 .. edge[r]
  <2> SUFFICES ASSUME NEW r \in 1 .. n PROVE From(edge, r) \in 1 .. edge[r]
    OBVIOUS
  <2>1. CASE r = 1
    BY <1>3, <2>1
  <2>2. CASE r # 1
    <3>1. r \in 2 .. n /\ r - 1 \in 1 .. n
      BY <1>1, <2>2
    <3>2. PICK l \in 1 .. r - 1 : l = edge[r - 1] /\ IsEdge(s, r - 1, l)
      BY <1>3, <3>1
    <3>3. PICK m \in 1 .. r : m = edge[r] /\ IsEdge(s, r, m)
      BY <1>3
    <3>4. l <= m
      BY <1>1, <1>5, <3>1, <3>2, <3>3, EdgesRise
    <3> QED
      BY <2>2, <3>2, <3>3, <3>4
  <2> QED
    BY <2>1, <2>2
<1>7. \A r \in 1 .. n : \A from \in 1 .. edge[r] : Moved(s, from, r) = edge[r]
  BY <1>1, <1>3, MovedToEdge
<1>8. Recurs(edge)
  <2>1. \A r \in 1 .. n : Moved(s, From(edge, r), r) = edge[r]
    BY <1>6, <1>7
  <2> HIDE DEF From
  <2> QED
    BY <1>4, <2>1
<1>9. Recurs(left)
  <2> HIDE DEF Recurs
  <2> QED
    BY <1>2, <1>8
<1>10. \A r \in 1 .. n : left[r] = Moved(s, From(left, r), r)
  <2> HIDE DEF From
  <2> QED
    BY <1>9
<1>11. \A r \in 1 .. n : left[r] = edge[r]
  <2> DEFINE wrong == {r \in 1 .. n : left[r] # edge[r]}
  <2> SUFFICES ASSUME wrong # {} PROVE FALSE
    OBVIOUS
  <2>1. wrong \in SUBSET (1 .. n) /\ wrong \in SUBSET Nat /\ IsFiniteSet(1 .. n)
    BY <1>1, FS_Interval
  <2>2. IsFiniteSet(wrong)
    BY <2>1, FS_Subset
  <2>3. PICK r \in wrong : \A k \in wrong : r <= k
    <3> HIDE DEF wrong
    <3> QED
      BY <2>1, <2>2, Extremes
  <2>4. r \in 1 .. n /\ left[r] # edge[r]
    BY <2>3
  <2>5. From(left, r) = From(edge, r)
    <3>1. CASE r = 1
      BY <3>1
    <3>2. CASE r # 1
      <4>1. r - 1 \in 1 .. n /\ ~(r <= r - 1)
        BY <1>1, <2>4, <3>2
      <4>2. r - 1 \notin wrong
        BY <2>3, <4>1
      <4> QED
        BY <3>2, <4>1, <4>2
    <3> QED
      BY <3>1, <3>2
  <2>6. left[r] = Moved(s, From(edge, r), r)
    BY <1>10, <2>4, <2>5
  <2> HIDE DEF From
  <2> QED
    BY <1>6, <1>7, <2>4, <2>6
<1> QED
  BY <1>3, <1>11 DEF left, n

----------------------------------------------------------------------------
\* The storm: what both algorithms look for.

Within(F, start) == {a \in F : InWindow(a, start)}

Size(F, start) == Cardinality(Within(F, start))

\* Of the windows that hold most of F, the one that opens first.
IsStart(F, start) ==
    /\ \E a \in F : a.at = start
    /\ \A a \in F : \/ Size(F, a.at) < Size(F, start)
                    \/ Size(F, a.at) = Size(F, start) /\ start <= a.at

\* A function has a first place at which it is greatest.
LEMMA FirstGreatest ==
    ASSUME NEW n \in Nat, n # 0, NEW m \in Nat, NEW f \in [1 .. n -> 0 .. m]
    PROVE  \E b \in 1 .. n : \A o \in 1 .. n : f[o] < f[b] \/ (f[o] = f[b] /\ b <= o)
<1> DEFINE V == {f[i] : i \in 1 .. n}
<1>1. V \in SUBSET (0 .. m) /\ V \in SUBSET Nat /\ f[1] \in V
  OBVIOUS
<1>2. IsFiniteSet(0 .. m)
  BY FS_Interval
<1>3. IsFiniteSet(V)
  BY <1>1, <1>2, FS_Subset
<1>4. PICK v \in V : \A w \in V : w <= v
  <2> HIDE DEF V
  <2> QED
    BY <1>1, <1>3, Extremes
<1> DEFINE B == {i \in 1 .. n : f[i] = v}
<1>5. B \in SUBSET (1 .. n) /\ B \in SUBSET Nat /\ B # {}
  <2>1. PICK i \in 1 .. n : f[i] = v
    BY <1>4
  <2>2. i \in B
    BY <2>1
  <2> QED
    BY <2>2
<1>6. IsFiniteSet(1 .. n)
  BY 1 \in Int, n \in Int, FS_Interval
<1>7. IsFiniteSet(B)
  BY <1>5, <1>6, FS_Subset
<1>8. PICK b \in B : \A o \in B : b <= o
  <2> HIDE DEF B
  <2> QED
    BY <1>5, <1>7, Extremes
<1>9. ASSUME NEW o \in 1 .. n PROVE f[o] < f[b] \/ (f[o] = f[b] /\ b <= o)
  <2>1. f[o] \in V /\ f[b] = v /\ f[o] \in Nat /\ v \in Nat
    BY <1>1, <1>4, <1>8
  <2>2. f[o] <= v
    BY <1>4, <2>1
  <2>3. CASE f[o] = v
    BY <1>8, <2>1, <2>3
  <2>4. CASE f[o] # v
    BY <2>1, <2>2, <2>4
  <2> QED
    BY <2>3, <2>4
<1> QED
  BY <1>8, <1>9

\* The first of the fullest windows is one.
LEMMA StartUnique ==
    ASSUME NEW F \in SUBSET Alert, IsFiniteSet(F), NEW t, NEW u, IsStart(F, t), IsStart(F, u)
    PROVE  t = u
<1>1. PICK a \in F : a.at = t
  BY DEF IsStart
<1>2. PICK b \in F : b.at = u
  BY DEF IsStart
<1>3. t \in Int /\ u \in Int
  BY <1>1, <1>2, StormAssumption DEF Alert
<1>4. Size(F, t) \in Nat /\ Size(F, u) \in Nat
  <2>1. IsFiniteSet(Within(F, t)) /\ IsFiniteSet(Within(F, u))
    BY FS_Subset DEF Within
  <2> QED
    BY <2>1, FS_CardinalityType DEF Size
<1>5. Size(F, u) < Size(F, t) \/ (Size(F, u) = Size(F, t) /\ t <= u)
  BY <1>2 DEF IsStart
<1>6. Size(F, t) < Size(F, u) \/ (Size(F, t) = Size(F, u) /\ u <= t)
  BY <1>1 DEF IsStart
<1> QED
  BY <1>3, <1>4, <1>5, <1>6

\* The first of the fullest windows is that of every part of the alerts that
\* keeps what it holds.
LEMMA StartOfPart ==
    ASSUME NEW F \in SUBSET Alert, IsFiniteSet(F), NEW t, IsStart(F, t),
           NEW S \in SUBSET F, Within(F, t) \subseteq S
    PROVE  IsStart(S, t) /\ Within(S, t) = Within(F, t)
<1>1. Within(S, t) = Within(F, t)
  BY DEF Within
<1>2. ASSUME NEW u
      PROVE  Size(S, u) \in Nat /\ Size(F, u) \in Nat /\ Size(S, u) <= Size(F, u)
  <2>1. Within(F, u) \in SUBSET F /\ Within(S, u) \in SUBSET Within(F, u)
    BY DEF Within
  <2>2. IsFiniteSet(Within(F, u))
    BY <2>1, FS_Subset
  <2>3. IsFiniteSet(Within(S, u)) /\ Cardinality(Within(S, u)) <= Cardinality(Within(F, u))
    BY <2>1, <2>2, FS_Subset
  <2> QED
    BY <2>2, <2>3, FS_CardinalityType DEF Size
<1>3. Size(S, t) = Size(F, t)
  BY <1>1 DEF Size
<1>4. PICK a \in F : a.at = t
  BY DEF IsStart
<1>5. a \in S
  <2>1. a.at \in Int /\ WindowS \in Nat
    BY StormAssumption DEF Alert
  <2>2. InWindow(a, t)
    BY <1>4, <2>1 DEF InWindow
  <2> QED
    BY <2>2 DEF Within
<1>6. ASSUME NEW b \in S
      PROVE  Size(S, b.at) < Size(S, t) \/ (Size(S, b.at) = Size(S, t) /\ t <= b.at)
  <2>1. PICK v : v = b.at
    OBVIOUS
  <2>2. Size(F, v) < Size(F, t) \/ (Size(F, v) = Size(F, t) /\ t <= v)
    BY <2>1 DEF IsStart
  <2>3. Size(S, v) \in Nat /\ Size(F, v) \in Nat /\ Size(S, v) <= Size(F, v)
    BY <1>2
  <2>4. Size(S, t) \in Nat
    BY <1>2
  <2>5. Size(S, v) < Size(S, t) \/ (Size(S, v) = Size(S, t) /\ t <= v)
    BY <1>3, <2>2, <2>3, <2>4
  <2> QED
    BY <2>1, <2>5
<1> QED
  BY <1>1, <1>4, <1>5, <1>6 DEF IsStart

\* A window that opens between the starts of alerts holds no more than one
\* that opens on an alert.
LEMMA NoWindowHoldsMore ==
    ASSUME NEW F \in SUBSET Alert, IsFiniteSet(F), NEW t, IsStart(F, t), NEW u \in Int
    PROVE  Size(F, u) <= Size(F, t) /\ Size(F, t) \in Nat /\ Size(F, u) \in Nat
<1> DEFINE V == {a.at : a \in Within(F, u)}
<1>1. \A v : IsFiniteSet(Within(F, v)) /\ Size(F, v) \in Nat
  <2> SUFFICES ASSUME NEW v PROVE IsFiniteSet(Within(F, v)) /\ Size(F, v) \in Nat
    OBVIOUS
  <2>1. IsFiniteSet(Within(F, v))
    BY FS_Subset DEF Within
  <2> QED
    BY <2>1, FS_CardinalityType DEF Size
<1>2. CASE Within(F, u) = {}
  <2>1. Size(F, u) = 0
    BY <1>2, FS_EmptySet DEF Size
  <2> QED
    BY <1>1, <2>1
<1>3. CASE Within(F, u) # {}
  <2>1. MaxTime \in Nat /\ WindowS \in Nat
    BY StormAssumption
  <2>2. V \in SUBSET (0 .. MaxTime) /\ V \in SUBSET Nat /\ V # {}
    BY <1>3, <2>1 DEF Within, Alert
  <2>3. IsFiniteSet(0 .. MaxTime)
    BY <2>1, FS_Interval
  <2>4. IsFiniteSet(V)
    BY <2>2, <2>3, FS_Subset
  <2>5. PICK v \in V : \A w \in V : v <= w
    <3> HIDE DEF V
    <3> QED
      BY <2>2, <2>4, Extremes
  <2>6. PICK a \in Within(F, u) : v = a.at
    BY <2>5
  <2>7. ASSUME NEW b \in Within(F, u) PROVE b \in Within(F, v)
    <3>1. b \in F /\ b.at \in V /\ b.at \in Int /\ v \in Int /\ v <= b.at
      BY <2>2, <2>5, <2>7 DEF Within
    <3>2. 0 <= b.at - u /\ b.at - u <= WindowS /\ 0 <= v - u
      BY <2>6, <2>7 DEF Within, InWindow
    <3>3. 0 <= b.at - v /\ b.at - v <= WindowS
      BY <2>1, <3>1, <3>2
    <3> QED
      BY <3>1, <3>3 DEF Within, InWindow
  <2>8. Size(F, u) <= Size(F, v)
    <3>1. Within(F, u) \in SUBSET Within(F, v)
      BY <2>7
    <3> QED
      BY <1>1, <3>1, FS_Subset DEF Size
  <2>9. Size(F, v) <= Size(F, t)
    <3>1. a \in F /\ a.at = v
      BY <2>6 DEF Within
    <3>2. Size(F, v) < Size(F, t) \/ Size(F, v) = Size(F, t)
      BY <3>1 DEF IsStart
    <3> QED
      BY <1>1, <3>2
  <2> QED
    BY <1>1, <2>8, <2>9
<1> QED
  BY <1>2, <1>3

\* The places of a window in a list, and how many there are.
LEMMA PlacesWithin ==
    ASSUME NEW s, NEW F, Holds(s, F), NEW start
    PROVE  LET I == {j \in 1 .. Len(s) : InWindow(s[j], start)}
           IN  /\ IsFiniteSet(I) /\ Cardinality(I) \in Nat /\ Cardinality(I) = Size(F, start)
               /\ InAt(s, I) = Within(F, start)
<1>1. {j \in 1 .. Len(s) : InWindow(s[j], start)} = {j \in 1 .. Len(s) : s[j] \in Within(F, start)}
  BY DEF Holds, Within
<1>2. Within(F, start) \in SUBSET F
  BY DEF Within
<1>3. LET I == {j \in 1 .. Len(s) : s[j] \in Within(F, start)}
      IN  /\ IsFiniteSet(I)
          /\ Cardinality(I) \in Nat /\ Cardinality(I) = Cardinality(Within(F, start))
  BY <1>2, HoldsCount
<1>4. InAt(s, {j \in 1 .. Len(s) : InWindow(s[j], start)}) = Within(F, start)
  BY DEF InAt, Within, Holds
<1> QED
  BY <1>1, <1>3, <1>4 DEF Size

\* The window of correlate.py is the first of the fullest (correlate.py:57-80).
LEMMA WindowStartIs ==
    ASSUME NEW s, NEW F, Holds(s, F), Sorted(s), F # {}
    PROVE  IsStart(F, WindowStart(s))
<1> DEFINE n == Len(s)
           count == [i \in 1 .. n |-> Size(F, s[i].at)]
           First(b) == \A j \in 1 .. n : count[j] < count[b] \/ (count[j] = count[b] /\ b <= j)
<1>1. s \in Seq(Alert) /\ n \in Nat /\ DOMAIN s = 1 .. n /\ Starts(s, n)
  BY StartsAreTimes DEF Holds
<1>2. n # 0
  BY DEF Holds
<1>3. \A i \in 1 .. n : Cardinality({j \in DOMAIN s : InWindow(s[j], s[i].at)}) = count[i]
  BY <1>1, PlacesWithin
<1>4. count \in [1 .. n -> 0 .. n]
  <2>1. IsFiniteSet(F) /\ Cardinality(F) = n
    BY HoldsLen
  <2>2. ASSUME NEW t PROVE Size(F, t) \in 0 .. n
    <3>1. Within(F, t) \in SUBSET F
      BY DEF Within
    <3>2. IsFiniteSet(Within(F, t)) /\ Size(F, t) <= n
      BY <2>1, <3>1, FS_Subset DEF Size
    <3>3. Size(F, t) \in Nat
      BY <3>2, FS_CardinalityType DEF Size
    <3> QED
      BY <1>1, <3>2, <3>3
  <2> QED
    BY <2>2
<1>5. \E b \in 1 .. n : First(b)
  <2> HIDE DEF count, n
  <2> QED
    BY <1>1, <1>2, <1>4, FirstGreatest
<1>6. PICK b \in 1 .. n : First(b) /\ WindowStart(s) = s[b].at
  <2> DEFINE Count(i) == Cardinality({j \in DOMAIN s : InWindow(s[j], s[i].at)})
             Best(i) == \A j \in DOMAIN s : Count(j) < Count(i) \/ (Count(j) = Count(i) /\ i <= j)
  <2>1. \A i \in 1 .. n : Best(i) <=> First(i)
    <3> HIDE DEF count, n
    <3> QED
      BY <1>1, <1>3
  <2>2. WindowStart(s) = s[CHOOSE i \in DOMAIN s : Best(i)].at
    BY DEF WindowStart
  <2> HIDE DEF Best, First
  <2> QED
    BY <1>1, <1>5, <2>1, <2>2
<1>7. ASSUME NEW a \in F
      PROVE  \/ Size(F, a.at) < Size(F, s[b].at)
             \/ Size(F, a.at) = Size(F, s[b].at) /\ s[b].at <= a.at
  <2>1. PICK j \in 1 .. n : a = s[j]
    BY DEF Holds
  <2>2. Size(F, a.at) < Size(F, s[b].at) \/ (Size(F, a.at) = Size(F, s[b].at) /\ b <= j)
    BY <1>6, <2>1
  <2>3. ASSUME b <= j PROVE s[b].at <= s[j].at
    <3>1. s[b].at \in Int /\ s[j].at \in Int
      BY <1>1 DEF Starts
    <3>2. CASE b = j
      BY <3>1, <3>2
    <3>3. CASE b < j
      BY <3>3 DEF Sorted
    <3> QED
      BY <1>1, <2>3, <3>2, <3>3
  <2> QED
    BY <2>1, <2>2, <2>3
<1>8. s[b] \in F
  BY DEF Holds
<1> QED
  BY <1>6, <1>7, <1>8 DEF IsStart

\* Of the sorted s, `right` ends the first of the longest windows.
Longest(s, left, right) ==
    \A other \in DOMAIN s :
        \/ other - left[other] + 1 < right - left[right] + 1
        \/ other - left[other] + 1 = right - left[right] + 1 /\ other >= right

\* What StormBurst computes, with its sorted list and its pointers named.
LEMMA BurstOf ==
    ASSUME NEW alerts, NEW F, Holds(alerts, F), F # {}
    PROVE  \E s : \E left : \E right \in 1 .. Len(s) :
              /\ Holds(s, F) /\ Sorted(s)
              /\ \A r \in 1 .. Len(s) : left[r] \in 1 .. r /\ IsEdge(s, r, left[r])
              /\ Longest(s, left, right)
              /\ StormBurst(alerts) = SubSeq(s, left[right], right)
<1>1. PICK s, left : s = ByTime(alerts) /\ left = LeftEdge(s)
  OBVIOUS
<1>2. Holds(s, F) /\ Sorted(s)
  BY <1>1, ByTimeIs
<1>3. s \in Seq(Alert) /\ Len(s) \in Nat /\ DOMAIN s = 1 .. Len(s) /\ Len(s) # 0
  BY <1>2 DEF Holds
<1>4. \A r \in 1 .. Len(s) : left[r] \in 1 .. r /\ IsEdge(s, r, left[r])
  BY <1>1, <1>2, <1>3, LeftEdgeIs
<1>5. \E right \in 1 .. Len(s) : Longest(s, left, right)
  <2> DEFINE n == Len(s)
             length == [r \in 1 .. n |-> r - left[r] + 1]
  <2>1. length \in [1 .. n -> 0 .. n]
    <3> SUFFICES ASSUME NEW r \in 1 .. n PROVE r - left[r] + 1 \in 0 .. n
      OBVIOUS
    <3>1. PICK l \in 1 .. r : l = left[r]
      BY <1>4
    <3> QED
      BY <1>3, <3>1
  <2>2. \A r \in 1 .. n : length[r] = r - left[r] + 1
    OBVIOUS
  <2> HIDE DEF length
  <2>3. PICK b \in 1 .. n : \A o \in 1 .. n : length[o] < length[b] \/ (length[o] = length[b] /\ b <= o)
    <3> HIDE DEF n
    <3>1. n \in Nat /\ n # 0
      BY <1>3 DEF n
    <3> QED
      BY <2>1, <3>1, FirstGreatest
  <2>4. ASSUME NEW o \in 1 .. n
        PROVE  \/ o - left[o] + 1 < b - left[b] + 1
               \/ o - left[o] + 1 = b - left[b] + 1 /\ o >= b
    BY <2>2, <2>3
  <2> QED
    BY <1>3, <2>4 DEF Longest
<1>6. PICK right \in 1 .. Len(s) :
          Longest(s, left, right) /\ StormBurst(alerts) = SubSeq(s, left[right], right)
  <2> DEFINE best == CHOOSE r \in DOMAIN s : Longest(s, left, r)
  <2>1. alerts # <<>>
    BY DEF Holds
  <2>2. StormBurst(alerts) = SubSeq(s, left[best], best)
    BY <1>1, <2>1 DEF StormBurst, Longest
  <2>3. best \in 1 .. Len(s) /\ Longest(s, left, best)
    BY <1>3, <1>5
  <2> QED
    BY <2>2, <2>3
<1> QED
  BY <1>2, <1>4, <1>6

\* The window from the left edge of a longest burst holds the burst and no more.
LEMMA BurstIsWindow ==
    ASSUME NEW s, NEW F, Holds(s, F), Sorted(s), NEW left, NEW right \in 1 .. Len(s),
           \A r \in 1 .. Len(s) : left[r] \in 1 .. r /\ IsEdge(s, r, left[r]),
           Longest(s, left, right)
    PROVE  {j \in 1 .. Len(s) : InWindow(s[j], s[left[right]].at)} = left[right] .. right
<1>1. s \in Seq(Alert) /\ Len(s) \in Nat /\ Starts(s, Len(s)) /\ WindowS \in Nat
  BY StartsAreTimes, StormAssumption DEF Holds
<1>2. PICK n \in Nat : n = Len(s)
  BY <1>1
<1>3. PICK l \in 1 .. right : l = left[right] /\ IsEdge(s, right, l)
  OBVIOUS
<1>4. l \in 1 .. n /\ right \in 1 .. n /\ s[l].at \in Int /\ s[right].at \in Int
  BY <1>1, <1>2, <1>3 DEF Starts
<1>5. s[right].at - s[l].at <= WindowS
  BY <1>3 DEF IsEdge
<1>6. ASSUME NEW j \in l .. right PROVE j \in 1 .. n /\ InWindow(s[j], s[l].at)
  <2>1. j \in 1 .. n
    BY <1>4
  <2>2. s[j].at \in Int
    BY <1>1, <1>2, <2>1 DEF Starts
  <2>3. s[l].at <= s[j].at
    <3>1. CASE l = j
      BY <1>4, <3>1
    <3>2. CASE l # j
      BY <1>2, <1>4, <2>1, <3>2 DEF Sorted
    <3> QED
      BY <3>1, <3>2
  <2>4. s[j].at <= s[right].at
    <3>1. CASE right = j
      BY <1>4, <3>1
    <3>2. CASE right # j
      BY <1>2, <1>4, <2>1, <3>2 DEF Sorted
    <3> QED
      BY <3>1, <3>2
  <2>5. 0 <= s[j].at - s[l].at /\ s[j].at - s[l].at <= WindowS
    BY <1>1, <1>4, <1>5, <2>2, <2>3, <2>4
  <2> QED
    BY <2>1, <2>5 DEF InWindow
<1>7. ASSUME NEW j \in 1 .. n, InWindow(s[j], s[l].at) PROVE j \in l .. right
  <2>1. s[j].at \in Int /\ 0 <= s[j].at - s[l].at /\ s[j].at - s[l].at <= WindowS
    BY <1>1, <1>2, <1>7 DEF Starts, InWindow
  <2>2. ~(j < l)
    <3> SUFFICES ASSUME j < l PROVE FALSE
      OBVIOUS
    <3>1. s[j].at <= s[l].at
      BY <1>2, <1>4 DEF Sorted
    <3>2. j \in 1 .. l - 1
      BY <1>4
    <3>3. s[right].at - s[j].at > WindowS
      BY <1>3, <3>2 DEF IsEdge
    <3> QED
      BY <1>1, <1>4, <1>5, <2>1, <3>1, <3>3
  <2>3. ~(right < j)
    <3> SUFFICES ASSUME right < j PROVE FALSE
      OBVIOUS
    <3>1. PICK e \in 1 .. j : e = left[j] /\ IsEdge(s, j, e)
      BY <1>2
    <3>2. ~(l < e)
      <4> SUFFICES ASSUME l < e PROVE FALSE
        OBVIOUS
      <4>1. l \in 1 .. e - 1
        BY <1>4
      <4>2. s[j].at - s[l].at > WindowS
        BY <3>1, <4>1 DEF IsEdge
      <4> QED
        BY <1>1, <1>4, <2>1, <4>2
    <3>3. j - e + 1 < right - l + 1 \/ (j - e + 1 = right - l + 1 /\ j >= right)
      BY <1>1, <1>2, <1>3, <3>1 DEF Longest
    <3> QED
      BY <1>4, <3>2, <3>3
  <2> QED
    BY <1>4, <2>2, <2>3
<1> QED
  BY <1>2, <1>3, <1>6, <1>7

\* No window that opens on an alert holds more than a longest burst, and none
\* that opens earlier holds as many.
LEMMA BurstIsFullest ==
    ASSUME NEW s, NEW F, Holds(s, F), Sorted(s), NEW left, NEW right \in 1 .. Len(s),
           \A r \in 1 .. Len(s) : left[r] \in 1 .. r /\ IsEdge(s, r, left[r]),
           Longest(s, left, right), NEW i \in 1 .. Len(s)
    PROVE  \/ Size(F, s[i].at) < right - left[right] + 1
           \/ Size(F, s[i].at) = right - left[right] + 1 /\ s[left[right]].at <= s[i].at
<1> DEFINE J == {j \in 1 .. Len(s) : InWindow(s[j], s[i].at)}
<1>1. s \in Seq(Alert) /\ Len(s) \in Nat /\ Starts(s, Len(s)) /\ WindowS \in Nat
  BY StartsAreTimes, StormAssumption DEF Holds
<1>2. PICK n \in Nat : n = Len(s)
  BY <1>1
<1>3. PICK l \in 1 .. right : l = left[right] /\ IsEdge(s, right, l)
  OBVIOUS
<1>4. l \in 1 .. n /\ right \in 1 .. n /\ i \in 1 .. n
  BY <1>2, <1>3
<1>5. \A j \in 1 .. n : s[j].at \in Int
  BY <1>1, <1>2 DEF Starts
<1>6. J \in SUBSET (1 .. n) /\ J \in SUBSET Nat
  BY <1>2
<1>7. i \in J
  BY <1>1, <1>2, <1>4, <1>5 DEF InWindow
<1>8. IsFiniteSet(J)
  <2>1. IsFiniteSet(1 .. n)
    BY FS_Interval
  <2> HIDE DEF J
  <2> QED
    BY <1>6, <2>1, FS_Subset
<1>9. (\E m \in J : \A k \in J : m <= k) /\ (\E m \in J : \A k \in J : k <= m)
  <2> HIDE DEF J
  <2> QED
    BY <1>6, <1>7, <1>8, Extremes
<1>10. PICK f \in J : \A k \in J : f <= k
  BY <1>9
<1>11. PICK r \in J : \A k \in J : k <= r
  BY <1>9
<1>12. f \in 1 .. n /\ r \in 1 .. n /\ f <= i /\ f <= r
  BY <1>6, <1>7, <1>10, <1>11
<1>13. s[r].at - s[f].at <= WindowS
  <2>1. s[r].at - s[i].at <= WindowS /\ 0 <= s[f].at - s[i].at
    BY <1>10, <1>11 DEF InWindow
  <2> QED
    BY <1>1, <1>4, <1>5, <1>12, <2>1
<1>14. PICK e \in 1 .. r : e = left[r] /\ IsEdge(s, r, e)
  BY <1>2, <1>12
<1>15. e <= f
  <2> SUFFICES ASSUME f < e PROVE FALSE
    BY <1>12
  <2>1. f \in 1 .. e - 1
    BY <1>12
  <2>2. s[r].at - s[f].at > WindowS
    BY <1>14, <2>1 DEF IsEdge
  <2> QED
    BY <1>1, <1>5, <1>12, <1>13, <2>2
<1>16. Cardinality(J) \in Nat /\ Cardinality(J) <= r - f + 1
  <2>1. J \in SUBSET (f .. r)
    BY <1>6, <1>10, <1>11, <1>12
  <2>2. IsFiniteSet(f .. r) /\ Cardinality(f .. r) = r - f + 1
    BY <1>12, FS_Interval
  <2> HIDE DEF J
  <2> QED
    BY <1>8, <2>1, <2>2, FS_Subset, FS_CardinalityType
<1>17. r - e + 1 < right - l + 1 \/ (r - e + 1 = right - l + 1 /\ r >= right)
  BY <1>1, <1>2, <1>3, <1>12, <1>14 DEF Longest
<1>18. PICK size \in Nat : size = Cardinality(J) /\ size = Size(F, s[i].at)
  BY <1>16, PlacesWithin
<1>19. size < right - l + 1 \/ (size = right - l + 1 /\ l <= f)
  BY <1>4, <1>12, <1>15, <1>16, <1>17, <1>18
<1>20. ASSUME l <= f PROVE s[l].at <= s[i].at
  <2>1. CASE l = i
    BY <1>4, <1>5, <2>1
  <2>2. CASE l # i
    BY <1>2, <1>4, <1>12, <1>20, <2>2 DEF Sorted
  <2> QED
    BY <2>1, <2>2
<1> QED
  BY <1>3, <1>18, <1>19, <1>20

\* The burst of storm.ts is what the first of the fullest windows holds, each
\* alert once (storm.ts:16-31).
LEMMA BurstIs ==
    ASSUME NEW alerts, NEW F, Holds(alerts, F), F # {}
    PROVE  \E t : IsStart(F, t) /\ Holds(StormBurst(alerts), Within(F, t))
<1>1. PICK s : \E left : \E right \in 1 .. Len(s) :
          /\ Holds(s, F) /\ Sorted(s)
          /\ \A r \in 1 .. Len(s) : left[r] \in 1 .. r /\ IsEdge(s, r, left[r])
          /\ Longest(s, left, right)
          /\ StormBurst(alerts) = SubSeq(s, left[right], right)
  BY BurstOf
<1>2. PICK left : \E right \in 1 .. Len(s) :
          /\ Holds(s, F) /\ Sorted(s)
          /\ \A r \in 1 .. Len(s) : left[r] \in 1 .. r /\ IsEdge(s, r, left[r])
          /\ Longest(s, left, right)
          /\ StormBurst(alerts) = SubSeq(s, left[right], right)
  BY <1>1
<1>3. PICK right \in 1 .. Len(s) :
          /\ Holds(s, F) /\ Sorted(s)
          /\ \A r \in 1 .. Len(s) : left[r] \in 1 .. r /\ IsEdge(s, r, left[r])
          /\ Longest(s, left, right)
          /\ StormBurst(alerts) = SubSeq(s, left[right], right)
  BY <1>2
<1>4. PICK l \in 1 .. right : l = left[right]
  BY <1>3
<1>5. s \in Seq(Alert) /\ Len(s) \in Nat
  BY <1>3 DEF Holds
<1>6. {j \in 1 .. Len(s) : InWindow(s[j], s[l].at)} = l .. right
  BY <1>3, <1>4, BurstIsWindow
<1>7. Size(F, s[l].at) = right - l + 1 /\ InAt(s, l .. right) = Within(F, s[l].at)
  <2>1. Cardinality(l .. right) = right - l + 1
    BY <1>5, FS_Interval
  <2> QED
    BY <1>3, <1>6, <2>1, PlacesWithin
<1>8. ASSUME NEW a \in F
      PROVE  \/ Size(F, a.at) < Size(F, s[l].at)
             \/ Size(F, a.at) = Size(F, s[l].at) /\ s[l].at <= a.at
  <2>1. PICK i \in 1 .. Len(s) : a = s[i]
    BY <1>3 DEF Holds
  <2>2. \/ Size(F, s[i].at) < right - l + 1
        \/ Size(F, s[i].at) = right - l + 1 /\ s[l].at <= s[i].at
    BY <1>3, <1>4, BurstIsFullest
  <2> QED
    BY <1>7, <2>1, <2>2
<1>9. IsStart(F, s[l].at)
  <2>1. s[l] \in F
    BY <1>3, <1>5 DEF Holds
  <2> QED
    BY <1>8, <2>1 DEF IsStart
<1>10. Holds(StormBurst(alerts), Within(F, s[l].at))
  <2>1. PICK u, n, p : /\ u = StormBurst(alerts) /\ n = right - l + 1
                       /\ p = [k \in 1 .. n |-> l + k - 1]
    OBVIOUS
  <2>2. n \in Nat /\ l .. right \in SUBSET (1 .. Len(s))
    BY <1>5, <2>1
  <2>3. \A k \in 1 .. n : p[k] = l + k - 1 /\ p[k] \in l .. right
    BY <2>1, <2>2
  <2>4. p \in [1 .. n -> l .. right]
    BY <2>1, <2>3
  <2>5. u \in Seq(Alert) /\ Len(u) = n /\ \A k \in 1 .. n : u[k] = s[l + k - 1]
    BY <1>3, <1>4, <1>5, <2>1, <2>2, SubSeqProperties
  <2>6. \A k \in 1 .. n : u[k] = s[p[k]]
    BY <2>3, <2>5
  <2>7. \A i, j \in 1 .. n : i < j => p[i] # p[j]
    BY <2>2, <2>3
  <2>8. Onto(p, n, l .. right)
    <3> SUFFICES ASSUME NEW d \in l .. right PROVE \E i \in 1 .. n : p[i] = d
      BY DEF Onto
    <3>1. PICK i \in 1 .. n : i = d - l + 1
      BY <2>1
    <3> QED
      BY <2>3, <3>1
  <2>9. Holds(u, InAt(s, l .. right))
    BY <1>3, <2>2, <2>4, <2>5, <2>6, <2>7, <2>8, Rearranged
  <2> QED
    BY <1>7, <2>1, <2>9
<1> QED
  BY <1>9, <1>10

----------------------------------------------------------------------------
\* What correlate_alerts answers.

Fired(A) == {a \in A : a.firing}

IdsOf(S) == {a.id : a \in S}

\* No two alerts have a fingerprint.
Distinct(A) == \A a, b \in A : a.id = b.id => a = b

OfRack(W, rack) == {a \in W : a.rack = rack}

Lone(W, rack) == rack = "unknown" /\ Cardinality(OfRack(W, rack)) = 1

\* One alert of the group, its id the lead's, is first by layer, then by time.
Led(c) ==
    /\ \E i \in 1 .. Len(c.alerts) : c.alerts[i].id = c.lead
    /\ \A i, j \in 1 .. Len(c.alerts) : c.alerts[i].id = c.lead => Leads(c.alerts[i], c.alerts[j])

\* The answer r about the storm W among the firing alerts F.
Answers(r, F, W) ==
    /\ \A c \in r.clusters : /\ Holds(c.alerts, OfRack(W, c.rack)) /\ OfRack(W, c.rack) # {}
                             /\ ~Lone(W, c.rack) /\ Led(c)
    /\ \A a \in W : ~Lone(W, a.rack) => \E c \in r.clusters : c.rack = a.rack
    /\ \A c, d \in r.clusters : c.rack = d.rack => c = d
    /\ r.noise = IdsOf(F \ W) \cup IdsOf({a \in W : Lone(W, a.rack)})

\* The firing alerts of a list are those of its set.
LEMMA FiringIs ==
    ASSUME NEW b, NEW A, Holds(b, A)
    PROVE  Holds(FiringAlerts(b), Fired(A))
<1> DEFINE I == {i \in DOMAIN b : Firing(b[i])}
<1>1. DOMAIN b = 1 .. Len(b)
  BY DEF Holds
<1>2. InAt(b, I) = Fired(A)
  BY <1>1 DEF InAt, Fired, Firing, Holds
<1>3. FiringAlerts(b) = Picked(b, I) /\ I \in SUBSET (1 .. Len(b))
  BY <1>1 DEF FiringAlerts
<1> HIDE DEF I
<1> QED
  BY <1>2, <1>3, PickedIs

\* The ids of a list are those of its set.
LEMMA IdsAre ==
    ASSUME NEW b, NEW A, Holds(b, A)
    PROVE  Ids(b) = IdsOf(A)
<1>1. DOMAIN b = 1 .. Len(b)
  BY DEF Holds
<1> QED
  BY <1>1 DEF Ids, IdsOf, Holds

\* Distinct ids tell sets of alerts apart.
LEMMA IdsTell ==
    ASSUME NEW A, Distinct(A), NEW S \in SUBSET A, NEW T \in SUBSET A
    PROVE  IdsOf(S) \ IdsOf(T) = IdsOf(S \ T) /\ IdsOf(S) \cap IdsOf(T) = IdsOf(S \cap T)
BY DEF Distinct, IdsOf

\* A group has a first of those that lead it (correlate.py:83-98).
LEMMA LeadIs ==
    ASSUME NEW group, NEW G, Holds(group, G), Distinct(G), G # {}
    PROVE  /\ \E i \in 1 .. Len(group) : group[i].id = Lead(group)
           /\ \A i, j \in 1 .. Len(group) : group[i].id = Lead(group) => Leads(group[i], group[j])
<1> DEFINE All(i) == \A j \in DOMAIN group : Leads(group[i], group[j])
           Before(i) == \A k \in 1 .. i - 1 : \E j \in DOMAIN group : ~Leads(group[k], group[j])
           key == [i \in 1 .. Len(group) |->
                      (2 - Rank(group[i])) * (MaxTime + 1) + (MaxTime - group[i].at)]
<1>1. PICK n \in Nat : n = Len(group) /\ n # 0 /\ DOMAIN group = 1 .. n
  BY DEF Holds
<1>2. MaxTime \in Nat
  BY StormAssumption
<1>3. \A i \in 1 .. n : group[i] \in G /\ group[i] \in Alert
  BY <1>1 DEF Holds
<1>4. \A i \in 1 .. n : Rank(group[i]) \in {0, 1, 2} /\ group[i].at \in 0 .. MaxTime
  BY <1>3 DEF Alert, Rank
<1>5. \A i \in 1 .. n : /\ key[i] \in 0 .. 3 * MaxTime + 2
                        /\ Rank(group[i]) = 0 => key[i] = 2 * MaxTime + 2 + MaxTime - group[i].at
                        /\ Rank(group[i]) = 1 => key[i] = MaxTime + 1 + MaxTime - group[i].at
                        /\ Rank(group[i]) = 2 => key[i] = MaxTime - group[i].at
  <2> SUFFICES ASSUME NEW i \in 1 .. n
               PROVE  /\ key[i] \in 0 .. 3 * MaxTime + 2
                      /\ Rank(group[i]) = 0 => key[i] = 2 * MaxTime + 2 + MaxTime - group[i].at
                      /\ Rank(group[i]) = 1 => key[i] = MaxTime + 1 + MaxTime - group[i].at
                      /\ Rank(group[i]) = 2 => key[i] = MaxTime - group[i].at
    OBVIOUS
  <2>1. key[i] = (2 - Rank(group[i])) * (MaxTime + 1) + (MaxTime - group[i].at)
    BY <1>1
  <2>2. PICK rank, at : rank = Rank(group[i]) /\ at = group[i].at
    OBVIOUS
  <2>3. rank \in {0, 1, 2} /\ at \in 0 .. MaxTime /\ key[i] = (2 - rank) * (MaxTime + 1) + (MaxTime - at)
    BY <1>4, <2>1, <2>2
  <2>4. CASE rank = 0
    <3>1. key[i] = 2 * (MaxTime + 1) + (MaxTime - at)
      BY <1>2, <2>3, <2>4
    <3> QED
      BY <1>2, <2>2, <2>3, <2>4, <3>1
  <2>5. CASE rank = 1
    <3>1. key[i] = MaxTime + 1 + (MaxTime - at)
      BY <1>2, <2>3, <2>5
    <3> QED
      BY <1>2, <2>2, <2>3, <2>5, <3>1
  <2>6. CASE rank = 2
    <3>1. key[i] = MaxTime - at
      BY <1>2, <2>3, <2>6
    <3> QED
      BY <1>2, <2>2, <2>3, <2>6, <3>1
  <2> QED
    BY <2>3, <2>4, <2>5, <2>6
<1>6. key \in [1 .. n -> 0 .. 3 * MaxTime + 2]
  BY <1>1, <1>5
<1> HIDE DEF key
<1>7. PICK top \in 1 .. n : \A j \in 1 .. n : key[j] <= key[top]
  <2>1. 3 * MaxTime + 2 \in Nat
    BY <1>2
  <2>2. PICK top \in 1 .. n : \A j \in 1 .. n : key[j] < key[top] \/ (key[j] = key[top] /\ top <= j)
    BY <1>1, <1>6, <2>1, FirstGreatest
  <2> QED
    BY <1>2, <1>5, <2>2
<1>8. All(top)
  <2> SUFFICES ASSUME NEW j \in 1 .. n PROVE Leads(group[top], group[j])
    BY <1>1
  <2>1. key[j] <= key[top]
    BY <1>7
  <2>2. Rank(group[top]) <= Rank(group[j])
    BY <1>2, <1>4, <1>5, <2>1
  <2>3. Rank(group[top]) = Rank(group[j]) => group[top].at <= group[j].at
    BY <1>2, <1>4, <1>5, <2>1
  <2> QED
    BY <1>4, <2>2, <2>3 DEF Leads
<1>9. \E i \in 1 .. n : All(i) /\ Before(i)
  <2> DEFINE C == {i \in 1 .. n : All(i)}
  <2>1. C \in SUBSET (1 .. n) /\ C \in SUBSET Nat /\ top \in C /\ IsFiniteSet(1 .. n)
    BY <1>8, 1 \in Int, n \in Int, FS_Interval
  <2>2. IsFiniteSet(C)
    BY <2>1, FS_Subset
  <2>3. PICK i \in C : \A k \in C : i <= k
    <3> HIDE DEF C
    <3> QED
      BY <2>1, <2>2, Extremes
  <2>4. i \in 1 .. n /\ All(i)
    BY <2>3
  <2>5. ASSUME NEW k \in 1 .. i - 1 PROVE \E j \in DOMAIN group : ~Leads(group[k], group[j])
    <3>1. k \in 1 .. n /\ ~(i <= k)
      BY <2>4
    <3>2. ~All(k)
      BY <2>3, <3>1
    <3> QED
      BY <3>2
  <2> QED
    BY <2>4, <2>5
<1>10. PICK lead \in 1 .. n : All(lead) /\ Lead(group) = group[lead].id
  <2> DEFINE first == CHOOSE i \in DOMAIN group : All(i) /\ Before(i)
  <2>1. Lead(group) = group[first].id
    BY DEF Lead
  <2> HIDE DEF All, Before
  <2>2. first \in 1 .. n /\ All(first)
    BY <1>1, <1>9
  <2> QED
    BY <2>1, <2>2
<1>11. \A i \in 1 .. n : group[i].id = Lead(group) => i = lead
  BY <1>1, <1>3, <1>10 DEF Distinct, Holds
<1> QED
  BY <1>1, <1>10, <1>11

\* The groups are the racks of the storm, and a rack is left out only if it is a
\* lone alert's that has none (correlate.py:83-118).
LEMMA CorrelateIs ==
    ASSUME NEW b, NEW A, Holds(b, A), Distinct(A), Fired(A) # {}
    PROVE  \E t : IsStart(Fired(A), t) /\ Answers(Correlate(b), Fired(A), Within(Fired(A), t))
<1> DEFINE F == Fired(A)
           r == Correlate(b)
<1>1. PICK firing : firing = ByTime(FiringAlerts(b))
  OBVIOUS
<1>2. Holds(firing, F) /\ Sorted(firing)
  BY <1>1, FiringIs, ByTimeIs
<1>3. PICK start : start = WindowStart(firing)
  OBVIOUS
<1>4. IsStart(F, start)
  BY <1>2, <1>3, WindowStartIs
<1>5. PICK inWindow : inWindow = Picked(firing, {i \in DOMAIN firing : InWindow(firing[i], start)})
  OBVIOUS
<1> DEFINE W == Within(F, start)
<1>6. Holds(inWindow, W)
  <2>1. DOMAIN firing = 1 .. Len(firing)
    BY <1>2 DEF Holds
  <2>2. InAt(firing, {i \in DOMAIN firing : InWindow(firing[i], start)}) = Within(F, start)
    BY <1>2, <2>1, PlacesWithin
  <2>3. PICK I \in SUBSET (1 .. Len(firing)) : I = {i \in DOMAIN firing : InWindow(firing[i], start)}
    BY <2>1
  <2> QED
    BY <1>2, <1>5, <2>2, <2>3, PickedIs
<1>7. firing # <<>>
  BY <1>2 DEF Holds
<1> DEFINE Group(rack) == Picked(inWindow, {i \in DOMAIN inWindow : inWindow[i].rack = rack})
           racks == {inWindow[i].rack : i \in DOMAIN inWindow}
           Cluster(rack) == [rack |-> rack, alerts |-> Group(rack), lead |-> Lead(Group(rack))]
           clusters == {Cluster(rack) : rack \in racks}
           orphans == {c \in clusters : Orphan(c)}
<1>8. r = [clusters |-> clusters \ orphans,
           noise |-> (Ids(firing) \ Ids(inWindow)) \cup {c.alerts[1].id : c \in orphans}]
  BY <1>1, <1>3, <1>5, <1>7 DEF Correlate
<1>9. /\ r.clusters = clusters \ orphans
      /\ r.noise = (Ids(firing) \ Ids(inWindow)) \cup {c.alerts[1].id : c \in orphans}
  <2> HIDE DEF clusters, orphans
  <2> QED
    BY <1>8
<1>10. W \in SUBSET F /\ F \in SUBSET A /\ Distinct(W)
  BY DEF Within, Fired, Distinct
<1>11. racks = {a.rack : a \in W}
  <2>1. DOMAIN inWindow = 1 .. Len(inWindow)
    BY <1>6 DEF Holds
  <2> HIDE DEF W
  <2> QED
    BY <1>6, <2>1 DEF Holds
<1> HIDE DEF racks, W
<1>12. ASSUME NEW rack \in racks
      PROVE  /\ Holds(Group(rack), OfRack(W, rack)) /\ OfRack(W, rack) # {}
             /\ Distinct(OfRack(W, rack))
  <2>1. DOMAIN inWindow = 1 .. Len(inWindow)
    BY <1>6 DEF Holds
  <2>2. PICK I \in SUBSET (1 .. Len(inWindow)) : I = {i \in DOMAIN inWindow : inWindow[i].rack = rack}
    BY <2>1
  <2>3. InAt(inWindow, I) = OfRack(W, rack)
    <3>1. ASSUME NEW i \in I PROVE inWindow[i] \in OfRack(W, rack)
      BY <1>6, <2>1, <2>2 DEF OfRack, Holds
    <3>2. ASSUME NEW a \in OfRack(W, rack) PROVE \E i \in I : a = inWindow[i]
      <4>1. PICK i \in 1 .. Len(inWindow) : inWindow[i] = a
        BY <1>6 DEF OfRack, Holds
      <4>2. i \in I
        BY <2>1, <2>2, <4>1 DEF OfRack
      <4> QED
        BY <4>1, <4>2
    <3> QED
      BY <3>1, <3>2 DEF InAt
  <2>4. Holds(Group(rack), OfRack(W, rack))
    BY <1>6, <2>2, <2>3, PickedIs
  <2>5. OfRack(W, rack) # {} /\ Distinct(OfRack(W, rack))
    BY <1>10, <1>11 DEF OfRack, Distinct
  <2> QED
    BY <2>4, <2>5
<1> HIDE DEF Group
<1>13. ASSUME NEW rack \in racks PROVE Orphan(Cluster(rack)) <=> Lone(W, rack)
  <2>1. Cardinality(OfRack(W, rack)) = Len(Group(rack))
    BY <1>12, HoldsLen
  <2> QED
    BY <2>1 DEF Orphan, Lone
<1>14. ASSUME NEW rack \in racks PROVE Led(Cluster(rack))
  BY <1>12, LeadIs DEF Led
<1>15. \A rack \in racks : /\ Cluster(rack).rack = rack /\ Cluster(rack).alerts = Group(rack)
                          /\ Cluster(rack).lead = Lead(Group(rack))
  OBVIOUS
<1> HIDE DEF Cluster
<1>16. \A c : c \in r.clusters <=> \E rack \in racks : c = Cluster(rack) /\ ~Lone(W, rack)
  BY <1>9, <1>13
<1>17. \A c : c \in orphans <=> \E rack \in racks : c = Cluster(rack) /\ Lone(W, rack)
  BY <1>13
<1>18. ASSUME NEW c \in r.clusters
       PROVE  /\ Holds(c.alerts, OfRack(W, c.rack)) /\ OfRack(W, c.rack) # {}
              /\ ~Lone(W, c.rack) /\ Led(c)
  BY <1>12, <1>14, <1>15, <1>16
<1>19. ASSUME NEW a \in W, ~Lone(W, a.rack) PROVE \E c \in r.clusters : c.rack = a.rack
  BY <1>11, <1>15, <1>16, <1>19
<1>20. ASSUME NEW c \in r.clusters, NEW d \in r.clusters, c.rack = d.rack PROVE c = d
  BY <1>15, <1>16, <1>20
<1>21. r.noise = IdsOf(F \ W) \cup IdsOf({a \in W : Lone(W, a.rack)})
  <2>1. Ids(firing) \ Ids(inWindow) = IdsOf(F \ W)
    <3>1. Ids(firing) = IdsOf(F) /\ Ids(inWindow) = IdsOf(W)
      BY <1>2, <1>6, IdsAre
    <3> QED
      BY <1>10, <3>1, IdsTell
  <2>2. ASSUME NEW rack \in racks, Lone(W, rack)
        PROVE  \A a : a \in OfRack(W, rack) <=> a = Cluster(rack).alerts[1]
    <3>1. Len(Group(rack)) = 1
      BY <1>12, <2>2, HoldsLen DEF Lone
    <3> QED
      BY <1>12, <1>15, <3>1 DEF Holds
  <2>3. ASSUME NEW x PROVE x \in {c.alerts[1].id : c \in orphans} <=> x \in IdsOf({a \in W : Lone(W, a.rack)})
    <3>1. ASSUME NEW c \in orphans, x = c.alerts[1].id PROVE x \in IdsOf({a \in W : Lone(W, a.rack)})
      <4>1. PICK rack \in racks : c = Cluster(rack) /\ Lone(W, rack)
        BY <1>17
      <4>2. c.alerts[1] \in OfRack(W, rack)
        BY <2>2, <4>1
      <4> QED
        BY <3>1, <4>1, <4>2 DEF OfRack, IdsOf
    <3>2. ASSUME NEW a \in W, Lone(W, a.rack), x = a.id PROVE \E c \in orphans : x = c.alerts[1].id
      <4>1. PICK rack \in racks : rack = a.rack
        BY <1>11
      <4>2. a \in OfRack(W, rack) /\ Lone(W, rack)
        BY <3>2, <4>1 DEF OfRack
      <4>3. a = Cluster(rack).alerts[1] /\ Cluster(rack) \in orphans
        BY <1>17, <2>2, <4>2
      <4> QED
        BY <3>2, <4>3
    <3> HIDE DEF orphans
    <3> QED
      BY <3>1, <3>2 DEF IdsOf
  <2> HIDE DEF orphans
  <2> QED
    BY <1>9, <2>1, <2>3
<1>22. Answers(r, F, W)
  BY <1>18, <1>19, <1>20, <1>21 DEF Answers
<1> QED
  BY <1>4, <1>22 DEF W

\* With no alert firing there is nothing to group.
LEMMA NothingFires ==
    ASSUME NEW b, NEW A, Holds(b, A), Fired(A) = {}
    PROVE  FiringAlerts(b) = <<>> /\ Correlate(b) = [clusters |-> {}, noise |-> {}]
<1>1. Holds(FiringAlerts(b), {}) /\ Holds(ByTime(FiringAlerts(b)), {})
  BY FiringIs, ByTimeIs
<1>2. ASSUME NEW u, Holds(u, {}) PROVE u = <<>>
  <2>1. u \in Seq(Alert) /\ Len(u) \in Nat /\ ~(1 \in 1 .. Len(u))
    BY <1>2 DEF Holds
  <2> QED
    BY <2>1
<1>3. FiringAlerts(b) = <<>> /\ ByTime(FiringAlerts(b)) = <<>>
  BY <1>1, <1>2
<1> QED
  BY <1>3 DEF Correlate

----------------------------------------------------------------------------
\* The bus.

\* Fingerprints are given out once, in the order alerts start.
StormInv ==
    /\ TypeOK
    /\ \A i \in 1 .. Len(bus) : bus[i].id <= started
    /\ \A i, j \in 1 .. Len(bus) : bus[i].id = bus[j].id => i = j

\* A list of alerts with different ids holds its set.
LEMMA SetOfList ==
    ASSUME NEW b \in Seq(Alert), \A i, j \in 1 .. Len(b) : b[i].id = b[j].id => i = j
    PROVE  Holds(b, ToSet(b)) /\ Distinct(ToSet(b)) /\ ToSet(b) \in SUBSET Alert
<1>1. DOMAIN b = 1 .. Len(b) /\ ToSet(b) = {b[i] : i \in 1 .. Len(b)}
  BY DEF ToSet
<1>2. \A i \in 1 .. Len(b) : b[i] \in Alert /\ b[i] \in ToSet(b)
  BY <1>1
<1>3. \A a \in ToSet(b) : \E i \in 1 .. Len(b) : b[i] = a
  BY <1>1
<1>4. Holds(b, ToSet(b))
  BY <1>2, <1>3 DEF Holds
<1>5. Distinct(ToSet(b))
  BY <1>3 DEF Distinct
<1> QED
  BY <1>2, <1>3, <1>4, <1>5

\* The bus is empty at first.
LEMMA InitInv == Init => StormInv
<1> SUFFICES ASSUME Init PROVE StormInv
  OBVIOUS
<1>1. bus = <<>> /\ started = 0 /\ MaxStarted \in Nat
  BY StormAssumption DEF Init
<1>2. bus \in Seq(Alert) /\ Len(bus) = 0
  BY <1>1
<1> QED
  BY <1>1, <1>2 DEF StormInv, TypeOK

\* An alert that starts gets a fingerprint of its own.
LEMMA StartInv ==
    ASSUME StormInv, NEW kind \in Kinds, NEW at \in 0 .. MaxTime, Start(kind, at)
    PROVE  StormInv'
<1> DEFINE a == [id |-> started + 1, at |-> at, firing |-> TRUE, rack |-> kind[1], layer |-> kind[2]]
<1>1. started \in 0 .. MaxStarted /\ started < MaxStarted /\ started' = started + 1 /\ MaxStarted \in Nat
  BY StormAssumption DEF StormInv, TypeOK, Start
<1>2. kind[1] \in Racks /\ kind[2] \in Layers
  BY StormAssumption
<1>3. a \in Alert /\ a.id = started + 1
  BY <1>1, <1>2 DEF Alert
<1>4. bus \in Seq(Alert) /\ bus' = Append(bus, a)
  BY DEF StormInv, TypeOK, Start
<1> HIDE DEF a
<1>5. bus' \in Seq(Alert) /\ Len(bus') = Len(bus) + 1 /\ Len(bus) \in Nat
  BY <1>3, <1>4
<1>6. \A i \in 1 .. Len(bus') : \/ i = Len(bus) + 1 /\ bus'[i] = a
                                \/ i \in 1 .. Len(bus) /\ bus'[i] = bus[i]
  BY <1>3, <1>4, <1>5
<1>7. \A i \in 1 .. Len(bus) : bus[i].id \in Nat /\ bus[i].id <= started
  <2> SUFFICES ASSUME NEW i \in 1 .. Len(bus) PROVE bus[i].id \in Nat /\ bus[i].id <= started
    OBVIOUS
  <2>1. bus[i] \in Alert
    BY <1>4
  <2> QED
    BY <2>1 DEF Alert, StormInv
<1>8. ASSUME NEW i \in 1 .. Len(bus') PROVE bus'[i].id <= started'
  <2>1. CASE bus'[i] = a
    BY <1>1, <1>3, <2>1
  <2>2. CASE i \in 1 .. Len(bus) /\ bus'[i] = bus[i]
    BY <1>1, <1>7, <2>2
  <2> QED
    BY <1>6, <2>1, <2>2
<1>9. ASSUME NEW i \in 1 .. Len(bus'), NEW j \in 1 .. Len(bus'), bus'[i].id = bus'[j].id PROVE i = j
  <2>1. CASE i = Len(bus) + 1 /\ bus'[i] = a
    BY <1>1, <1>3, <1>6, <1>7, <1>9, <2>1
  <2>2. CASE j = Len(bus) + 1 /\ bus'[j] = a
    BY <1>1, <1>3, <1>6, <1>7, <1>9, <2>2
  <2>3. CASE i \in 1 .. Len(bus) /\ j \in 1 .. Len(bus) /\ bus'[i] = bus[i] /\ bus'[j] = bus[j]
    BY <1>9, <2>3 DEF StormInv
  <2> QED
    BY <1>6, <2>1, <2>2, <2>3
<1>10. started' \in 0 .. MaxStarted
  BY <1>1
<1> QED
  BY <1>5, <1>8, <1>9, <1>10 DEF StormInv, TypeOK

\* An alert that is suppressed or released keeps its fingerprint.
LEMMA SuppressInv ==
    ASSUME StormInv, NEW i \in DOMAIN bus, Suppress(i) \/ Release(i)
    PROVE  StormInv'
<1>1. bus \in Seq(Alert) /\ DOMAIN bus = 1 .. Len(bus) /\ started' = started
  BY DEF StormInv, TypeOK, Suppress, Release
<1>2. PICK v \in BOOLEAN : bus' = [bus EXCEPT ![i] = [bus[i] EXCEPT !.firing = v]]
  BY DEF Suppress, Release
<1>3. bus[i] \in Alert
  BY <1>1
<1>4. [bus[i] EXCEPT !.firing = v] \in Alert /\ [bus[i] EXCEPT !.firing = v].id = bus[i].id
  BY <1>3 DEF Alert
<1>5. bus' \in Seq(Alert) /\ Len(bus') = Len(bus)
  BY <1>1, <1>2, <1>4
<1>6. \A j \in 1 .. Len(bus) : bus'[j].id = bus[j].id
  BY <1>1, <1>2, <1>4
<1> QED
  BY <1>1, <1>5, <1>6 DEF StormInv, TypeOK

\* An alert that ends leaves the others as they were.
LEMMA EndInv == ASSUME StormInv, NEW i \in DOMAIN bus, End(i) PROVE StormInv'
<1>1. bus \in Seq(Alert) /\ DOMAIN bus = 1 .. Len(bus) /\ started' = started /\ Len(bus) \in Nat
  BY DEF StormInv, TypeOK, End
<1>2. PICK n \in Nat : n = Len(bus) /\ i \in 1 .. n
  BY <1>1
<1> DEFINE from == [j \in 1 .. n - 1 |-> IF j < i THEN j ELSE j + 1]
<1>3. bus' = SubSeq(bus, 1, i - 1) \o SubSeq(bus, i + 1, Len(bus))
  BY DEF End, RemoveAt
<1>4. /\ SubSeq(bus, 1, i - 1) \in Seq(Alert) /\ Len(SubSeq(bus, 1, i - 1)) = i - 1
      /\ \A j \in 1 .. i - 1 : SubSeq(bus, 1, i - 1)[j] = bus[j]
  <2>1. \A j \in 1 .. i - 1 : bus[j] \in Alert
    BY <1>1, <1>2
  <2>2. 1 \in Int /\ i - 1 \in Int /\ i - 1 - 1 + 1 = i - 1
    BY <1>2
  <2> QED
    BY <1>2, <2>1, <2>2, SubSeqProperties
<1>5. /\ SubSeq(bus, i + 1, n) \in Seq(Alert) /\ Len(SubSeq(bus, i + 1, n)) = n - i
      /\ \A j \in 1 .. n - i : SubSeq(bus, i + 1, n)[j] = bus[i + j]
  <2>1. \A j \in i + 1 .. n : bus[j] \in Alert
    BY <1>1, <1>2
  <2>2. i + 1 \in Int /\ n \in Int /\ n - (i + 1) + 1 = n - i /\ \A j \in 1 .. n - i : i + 1 + j - 1 = i + j
    BY <1>2
  <2> QED
    BY <1>2, <2>1, <2>2, SubSeqProperties
<1>6. bus' \in Seq(Alert) /\ Len(bus') = n - 1
  BY <1>2, <1>3, <1>4, <1>5
<1>7. \A j \in 1 .. n - 1 : from[j] \in 1 .. n /\ bus'[j] = bus[from[j]]
  <2> SUFFICES ASSUME NEW j \in 1 .. n - 1 PROVE from[j] \in 1 .. n /\ bus'[j] = bus[from[j]]
    OBVIOUS
  <2>1. CASE j < i
    BY <1>2, <1>3, <1>4, <1>5, <2>1
  <2>2. CASE ~(j < i)
    <3>1. j - (i - 1) \in 1 .. n - i /\ i + (j - (i - 1)) = j + 1
      BY <1>2, <2>2
    <3>2. bus'[j] = SubSeq(bus, i + 1, n)[j - (i - 1)]
      <4>1. PICK x, y : x = SubSeq(bus, 1, i - 1) /\ y = SubSeq(bus, i + 1, n)
        OBVIOUS
      <4>2. x \in Seq(Alert) /\ Len(x) = i - 1 /\ y \in Seq(Alert) /\ Len(y) = n - i
        BY <1>4, <1>5, <4>1
      <4>3. bus' = x \o y
        BY <1>2, <1>3, <4>1
      <4>4. j \in 1 .. Len(x) + Len(y) /\ ~(j <= Len(x))
        BY <1>2, <2>2, <4>2
      <4>5. bus'[j] = y[j - Len(x)]
        BY <4>2, <4>3, <4>4, ConcatProperties
      <4> QED
        BY <4>1, <4>2, <4>5
    <3>3. bus'[j] = bus[j + 1]
      BY <1>5, <3>1, <3>2
    <3> QED
      BY <1>2, <2>2, <3>3
  <2> QED
    BY <2>1, <2>2
<1>8. \A j, k \in 1 .. n - 1 : from[j] = from[k] => j = k
  BY <1>2
<1> HIDE DEF from
<1>9. \A j \in 1 .. Len(bus') : bus'[j].id <= started'
  <2> SUFFICES ASSUME NEW j \in 1 .. n - 1 PROVE bus'[j].id <= started
    BY <1>1, <1>6
  <2>1. PICK k \in 1 .. Len(bus) : bus'[j] = bus[k]
    BY <1>2, <1>7
  <2> QED
    BY <2>1 DEF StormInv
<1>10. \A j, k \in 1 .. Len(bus') : bus'[j].id = bus'[k].id => j = k
  <2> SUFFICES ASSUME NEW j \in 1 .. n - 1, NEW k \in 1 .. n - 1, bus'[j].id = bus'[k].id
               PROVE  j = k
    BY <1>6
  <2>1. PICK c \in 1 .. Len(bus) : c = from[j] /\ bus'[j] = bus[c]
    BY <1>2, <1>7
  <2>2. PICK d \in 1 .. Len(bus) : d = from[k] /\ bus'[k] = bus[d]
    BY <1>2, <1>7
  <2>3. c = d
    BY <2>1, <2>2 DEF StormInv
  <2> QED
    BY <1>8, <2>1, <2>2, <2>3
<1> QED
  BY <1>1, <1>6, <1>9, <1>10 DEF StormInv, TypeOK

\* Every step keeps the fingerprints apart.
LEMMA NextInv == StormInv /\ [Next]_vars => StormInv'
<1> SUFFICES ASSUME StormInv, [Next]_vars PROVE StormInv'
  OBVIOUS
<1>1. CASE UNCHANGED vars
  BY <1>1 DEF vars, StormInv, TypeOK
<1>2. CASE Next
  BY <1>2, StartInv, SuppressInv, EndInv DEF Next
<1> QED
  BY <1>1, <1>2

\* Fingerprints are given out once, in every behaviour.
THEOREM Invariance == Spec => []StormInv
BY InitInv, NextInv, PTL DEF Spec

\* The bus keeps its type, for any labels, times and number of alerts.
THEOREM TypeCorrect == Spec => []TypeOK
<1>1. StormInv => TypeOK
  BY DEF StormInv
<1> QED
  BY <1>1, Invariance, PTL

\* The bus is a list of its alerts, which their ids tell apart.
LEMMA BusHolds ==
    ASSUME StormInv
    PROVE  Holds(bus, ToSet(bus)) /\ Distinct(ToSet(bus)) /\ ToSet(bus) \in SUBSET Alert
BY SetOfList DEF StormInv, TypeOK

----------------------------------------------------------------------------
\* The two views of the storm.

\* The burst of a list is a fullest window, and nothing if no alert fires.
LEMMA BurstOfList ==
    ASSUME NEW b, NEW A \in SUBSET Alert, Holds(b, A)
    PROVE  /\ Fired(A) = {} => StormBurst(FiringAlerts(b)) = <<>>
           /\ Fired(A) # {} => \E t : /\ IsStart(Fired(A), t)
                                      /\ Holds(StormBurst(FiringAlerts(b)), Within(Fired(A), t))
                                      /\ Len(StormBurst(FiringAlerts(b))) = Size(Fired(A), t)
           /\ IsFiniteSet(Fired(A)) /\ Fired(A) \in SUBSET Alert
           /\ Len(StormBurst(FiringAlerts(b))) \in Nat
<1> DEFINE F == Fired(A)
           burst == StormBurst(FiringAlerts(b))
<1>1. Holds(FiringAlerts(b), F)
  BY FiringIs
<1>2. IsFiniteSet(F) /\ F \in SUBSET Alert
  BY <1>1, HoldsLen DEF Fired
<1>3. CASE F = {}
  <2>1. FiringAlerts(b) = <<>>
    BY <1>3, NothingFires
  <2>2. burst = <<>>
    BY <2>1 DEF StormBurst
  <2> QED
    BY <1>2, <1>3, <2>2
<1>4. CASE F # {}
  <2> HIDE DEF F, burst
  <2>1. PICK t : IsStart(F, t) /\ Holds(burst, Within(F, t))
    BY <1>1, <1>4, BurstIs DEF burst
  <2>2. Len(burst) = Size(F, t) /\ Len(burst) \in Nat
    BY <2>1, HoldsLen DEF Size
  <2> QED
    BY <1>2, <1>4, <2>1, <2>2 DEF F, burst
<1> QED
  BY <1>3, <1>4

\* The length of the burst is the size of a window, and no window is larger.
LEMMA BurstBounds ==
    ASSUME NEW b, NEW A \in SUBSET Alert, Holds(b, A), NEW u \in Int
    PROVE  Size(Fired(A), u) \in Nat /\ Size(Fired(A), u) <= Len(StormBurst(FiringAlerts(b)))
<1> DEFINE F == Fired(A)
           burst == StormBurst(FiringAlerts(b))
<1>1. CASE F = {}
  <2>1. Within(F, u) = {}
    BY <1>1 DEF Within
  <2>2. Size(F, u) = 0
    BY <2>1, FS_EmptySet DEF Size
  <2>3. Len(burst) \in Nat
    BY BurstOfList
  <2> QED
    BY <2>2, <2>3
<1>2. CASE F # {}
  <2> HIDE DEF F, burst
  <2>1. PICK t : IsStart(F, t) /\ Len(burst) = Size(F, t)
    BY <1>2, BurstOfList DEF F, burst
  <2>2. IsFiniteSet(F) /\ F \in SUBSET Alert
    BY BurstOfList DEF F
  <2>3. Size(F, u) <= Size(F, t) /\ Size(F, u) \in Nat
    BY <2>1, <2>2, NoWindowHoldsMore
  <2> QED
    BY <2>1, <2>3 DEF F, burst
<1> QED
  BY <1>1, <1>2

\* The gate of N0 misses no window: neither one that opens on an alert nor any
\* other holds more than the burst of storm.ts (storm.ts:16-31).
THEOREM LargestBurst == Spec => []BurstIsLargest
<1>1. ASSUME StormInv PROVE BurstIsLargest
  <2> DEFINE A == ToSet(bus)
             F == Fired(A)
             burst == StormBurst(FiringAlerts(bus))
  <2>1. Holds(bus, A) /\ A \in SUBSET Alert
    BY <1>1, BusHolds
  <2>2. DOMAIN bus = 1 .. Len(bus)
    BY <2>1 DEF Holds
  <2>3. ASSUME NEW start \in 0 .. MaxTime
        PROVE  Cardinality({i \in DOMAIN bus : Firing(bus[i]) /\ InWindow(bus[i], start)}) <= Len(burst)
    <3> HIDE DEF A, burst
    <3>1. {i \in DOMAIN bus : Firing(bus[i]) /\ InWindow(bus[i], start)}
              = {i \in 1 .. Len(bus) : bus[i] \in Within(F, start)}
      BY <2>1, <2>2 DEF Firing, Within, Fired, Holds
    <3>2. Within(F, start) \in SUBSET A
      BY DEF Within, Fired
    <3>3. Cardinality({i \in 1 .. Len(bus) : bus[i] \in Within(F, start)}) = Size(F, start)
      BY <2>1, <3>2, HoldsCount DEF Size
    <3>4. Size(F, start) <= Len(burst)
      <4>1. start \in Int
        BY StormAssumption
      <4> QED
        BY <2>1, <4>1, BurstBounds DEF burst
    <3> QED
      BY <3>1, <3>3, <3>4
  <2> QED
    BY <2>3 DEF BurstIsLargest
<1> QED
  BY <1>1, Invariance, PTL

\* What the grouping says of a storm.
LEMMA GroupedAre ==
    ASSUME NEW r, NEW F, NEW W, Answers(r, F, W), W \in SUBSET F, Distinct(F)
    PROVE  /\ UNION {Ids(c.alerts) : c \in r.clusters} = IdsOf({a \in W : ~Lone(W, a.rack)})
           /\ \A c \in r.clusters : Ids(c.alerts) = IdsOf(OfRack(W, c.rack))
<1>1. ASSUME NEW c \in r.clusters PROVE Ids(c.alerts) = IdsOf(OfRack(W, c.rack)) /\ ~Lone(W, c.rack)
  BY IdsAre DEF Answers
<1>2. ASSUME NEW x \in UNION {Ids(c.alerts) : c \in r.clusters}
      PROVE  x \in IdsOf({a \in W : ~Lone(W, a.rack)})
  <2>1. PICK c \in r.clusters : x \in Ids(c.alerts)
    BY <1>2
  <2>2. PICK a \in OfRack(W, c.rack) : x = a.id
    BY <1>1, <2>1 DEF IdsOf
  <2> QED
    BY <1>1, <2>2 DEF OfRack, IdsOf
<1>3. ASSUME NEW a \in W, ~Lone(W, a.rack) PROVE a.id \in UNION {Ids(c.alerts) : c \in r.clusters}
  <2>1. PICK c \in r.clusters : c.rack = a.rack
    BY <1>3 DEF Answers
  <2>2. a.id \in Ids(c.alerts)
    BY <1>1, <2>1 DEF IdsOf, OfRack
  <2> QED
    BY <2>2
<1>4. IdsOf({a \in W : ~Lone(W, a.rack)}) \subseteq UNION {Ids(c.alerts) : c \in r.clusters}
  BY <1>3 DEF IdsOf
<1> QED
  BY <1>1, <1>2, <1>4

\* The storm that is grouped is the burst of the gate, the first of the
\* fullest windows.
LEMMA SameWindow ==
    ASSUME NEW b, NEW A \in SUBSET Alert, Holds(b, A), Distinct(A), Fired(A) # {}
    PROVE  \E W \in SUBSET Fired(A) : /\ Holds(StormBurst(FiringAlerts(b)), W)
                                      /\ Answers(Correlate(b), Fired(A), W)
                                      /\ \E t : IsStart(Fired(A), t) /\ W = Within(Fired(A), t)
<1>1. PICK t : IsStart(Fired(A), t) /\ Holds(StormBurst(FiringAlerts(b)), Within(Fired(A), t))
  BY BurstOfList
<1>2. PICK u : IsStart(Fired(A), u) /\ Answers(Correlate(b), Fired(A), Within(Fired(A), u))
  BY CorrelateIs
<1>3. t = u
  BY <1>1, <1>2, BurstOfList, StartUnique
<1>4. Within(Fired(A), t) \in SUBSET Fired(A)
  BY DEF Within
<1> QED
  BY <1>1, <1>2, <1>3, <1>4

\* A part of N0's alerts that keeps the burst is answered about the burst.
LEMMA SameBurst ==
    ASSUME NEW alerts, NEW F \in SUBSET Alert, IsFiniteSet(F), Fired(F) = F, Distinct(F),
           NEW t, IsStart(F, t),
           NEW S \in SUBSET F, Within(F, t) \subseteq S, Holds(alerts, S)
    PROVE  Answers(Correlate(alerts), S, Within(F, t))
<1>1. Fired(S) = S /\ Distinct(S) /\ S \in SUBSET Alert
  BY DEF Fired, Distinct
<1>2. IsFiniteSet(S)
  BY FS_Subset
<1>3. IsStart(S, t) /\ Within(S, t) = Within(F, t)
  BY StartOfPart
<1>4. S # {}
  BY <1>3 DEF IsStart
<1>5. PICK u : IsStart(S, u) /\ Answers(Correlate(alerts), S, Within(S, u))
  BY <1>1, <1>4, CorrelateIs
<1>6. t = u
  BY <1>1, <1>2, <1>3, <1>5, StartUnique
<1> QED
  BY <1>3, <1>5, <1>6

\* An answer about the burst groups it.
LEMMA GroupsIs ==
    ASSUME NEW r, NEW S, NEW W \in SUBSET S, Answers(r, S, W), Distinct(S),
           NEW burst, Holds(burst, W)
    PROVE  Groups(r, burst)
<1> DEFINE grouped == UNION {Ids(c.alerts) : c \in r.clusters}
<1>3. grouped = IdsOf({a \in W : ~Lone(W, a.rack)})
  BY GroupedAre
<1>4. Ids(burst) = IdsOf(W) /\ DOMAIN burst = 1 .. Len(burst)
  BY IdsAre DEF Holds
<1>5. grouped \subseteq Ids(burst)
  BY <1>3, <1>4 DEF IdsOf
<1>6. ASSUME NEW i \in DOMAIN burst, burst[i].id \notin grouped
      PROVE  /\ burst[i].rack = "unknown"
             /\ \A j \in DOMAIN burst : burst[j].rack = "unknown" => i = j
  <2>1. burst[i] \in W
    BY <1>4 DEF Holds
  <2>2. Lone(W, burst[i].rack)
    BY <1>3, <1>6, <2>1 DEF IdsOf
  <2>3. burst[i].rack = "unknown" /\ Cardinality(OfRack(W, "unknown")) = 1
    BY <2>2 DEF Lone
  <2>4. IsFiniteSet(OfRack(W, "unknown"))
    <3>1. IsFiniteSet(W) /\ OfRack(W, "unknown") \in SUBSET W
      BY HoldsLen DEF OfRack
    <3> QED
      BY <3>1, FS_Subset
  <2>5. PICK x : OfRack(W, "unknown") = {x}
    BY <2>3, <2>4, FS_Singleton
  <2>6. ASSUME NEW j \in DOMAIN burst, burst[j].rack = "unknown" PROVE i = j
    <3>1. burst[i] = x /\ burst[j] = x
      BY <1>4, <2>1, <2>3, <2>5, <2>6 DEF OfRack, Holds
    <3> QED
      BY <1>4, <3>1 DEF Holds
  <2> QED
    BY <2>3, <2>6
<1> QED
  BY <1>5, <1>6 DEF Groups

\* correlate_alerts groups the very burst that made N0 start the run, save a
\* lone alert without a rack, whichever of N0's other alerts it is not given
\* (correlate.py:57-118, storm.ts:16-31).
THEOREM StormIsTheSame == Spec => []SameStorm
<1>1. ASSUME StormInv PROVE SameStorm
  <2> DEFINE A == ToSet(bus)
             F == Fired(A)
             alerts == FiringAlerts(bus)
             burst == StormBurst(alerts)
  <2>1. Holds(bus, A) /\ A \in SUBSET Alert /\ Distinct(A)
    BY <1>1, BusHolds
  <2>2. Holds(alerts, F) /\ DOMAIN alerts = 1 .. Len(alerts)
    BY <2>1, FiringIs, HoldsSet
  <2>3. F \in SUBSET Alert /\ IsFiniteSet(F) /\ Fired(F) = F /\ Distinct(F)
    BY <2>1, BurstOfList DEF Fired, Distinct
  <2>4. F # {} => \E t : IsStart(F, t) /\ Holds(burst, Within(F, t))
    BY <2>1, BurstOfList
  <2>5. F = {} => burst = <<>>
    BY <2>1, BurstOfList
  <2> HIDE DEF A, F, alerts, burst
  <2>6. ASSUME NEW I \in SUBSET DOMAIN alerts, ToSet(burst) \subseteq {alerts[i] : i \in I}
        PROVE  Groups(Correlate(Picked(alerts, I)), burst)
    <3> DEFINE S == InAt(alerts, I)
    <3>1. Holds(Picked(alerts, I), S) /\ S \in SUBSET F
      <4>1. I \in SUBSET (1 .. Len(alerts))
        BY <2>2
      <4>2. InAt(alerts, I) \subseteq F
        BY <2>2, <4>1 DEF InAt, Holds
      <4> QED
        BY <2>2, <4>1, <4>2, PickedIs
    <3>2. CASE F = {}
      <4>1. Fired(S) = {}
        BY <3>1, <3>2 DEF Fired
      <4>2. Correlate(Picked(alerts, I)).clusters = {}
        BY <3>1, <4>1, NothingFires
      <4>3. burst = <<>>
        BY <2>5, <3>2
      <4> QED
        BY <4>2, <4>3 DEF Groups, Ids
    <3>3. CASE F # {}
      <4>1. PICK t : IsStart(F, t) /\ Holds(burst, Within(F, t))
        BY <2>4, <3>3
      <4>2. Within(F, t) \subseteq S
        <5>1. Within(F, t) = ToSet(burst)
          BY <4>1, HoldsSet
        <5> QED
          BY <2>6, <5>1 DEF InAt
      <4>3. Distinct(S)
        BY <2>3, <3>1 DEF Distinct
      <4> HIDE DEF S
      <4>4. Answers(Correlate(Picked(alerts, I)), S, Within(F, t))
        BY <2>3, <3>1, <4>1, <4>2, SameBurst
      <4> QED
        BY <4>1, <4>2, <4>3, <4>4, GroupsIs
    <3> QED
      BY <3>2, <3>3
  <2> QED
    BY <2>6 DEF SameStorm, alerts, burst
<1> QED
  BY <1>1, Invariance, PTL

\* No firing alert is lost or told of twice (correlate.py:85-86, 111-118).
THEOREM EachFiledOnce == Spec => []FiledOnce
<1>1. ASSUME StormInv PROVE FiledOnce
  <2> DEFINE A == ToSet(bus)
             F == Fired(A)
             answer == Correlate(bus)
             grouped == UNION {Ids(c.alerts) : c \in answer.clusters}
  <2>1. Holds(bus, A) /\ A \in SUBSET Alert /\ Distinct(A)
    BY <1>1, BusHolds
  <2>2. Ids(FiringAlerts(bus)) = IdsOf(F)
    BY <2>1, FiringIs, IdsAre
  <2>3. CASE F = {}
    <3>1. answer.clusters = {} /\ answer.noise = {}
      BY <2>1, <2>3, NothingFires
    <3>2. IdsOf(F) = {}
      BY <2>3 DEF IdsOf
    <3> QED
      BY <2>2, <3>1, <3>2 DEF FiledOnce
  <2>4. CASE F # {}
    <3>1. PICK W \in SUBSET F : Answers(answer, F, W)
      BY <2>1, <2>4, SameWindow
    <3>2. Distinct(F)
      BY <2>1 DEF Distinct, Fired
    <3> HIDE DEF F, answer
    <3>3. /\ grouped = IdsOf({a \in W : ~Lone(W, a.rack)})
          /\ \A c \in answer.clusters : Ids(c.alerts) = IdsOf(OfRack(W, c.rack))
      BY <3>1, <3>2, GroupedAre
    <3>4. answer.noise = IdsOf(F \ W) \cup IdsOf({a \in W : Lone(W, a.rack)})
      BY <3>1 DEF Answers
    <3>5. grouped \cup answer.noise = IdsOf(F)
      BY <3>3, <3>4 DEF IdsOf
    <3>6. grouped \cap answer.noise = {}
      BY <3>2, <3>3, <3>4 DEF IdsOf, Distinct
    <3>7. ASSUME NEW c \in answer.clusters, NEW d \in answer.clusters, c # d
          PROVE  Ids(c.alerts) \cap Ids(d.alerts) = {}
      <4>1. c.rack # d.rack
        BY <3>1, <3>7 DEF Answers
      <4>2. OfRack(W, c.rack) \cap OfRack(W, d.rack) = {}
        BY <4>1 DEF OfRack
      <4> QED
        BY <3>2, <3>3, <4>2 DEF OfRack, IdsOf, Distinct
    <3> QED
      BY <2>2, <3>5, <3>6, <3>7 DEF FiledOnce, answer
  <2> QED
    BY <2>3, <2>4
<1> QED
  BY <1>1, Invariance, PTL

\* A list in another order has the same alerts.
LEMMA ReorderedIs ==
    ASSUME NEW b, NEW A, Holds(b, A), NEW q \in Bijection(DOMAIN b, DOMAIN b)
    PROVE  Holds([k \in DOMAIN b |-> b[q[k]]], A)
<1>1. b \in Seq(Alert) /\ Len(b) \in Nat /\ DOMAIN b = 1 .. Len(b)
  BY DEF Holds
<1>2. PICK n, u, p : n = Len(b) /\ u = [k \in DOMAIN b |-> b[p[k]]] /\ p = q
  OBVIOUS
<1>3. n \in Nat /\ 1 .. n \in SUBSET (1 .. Len(b)) /\ DOMAIN b = 1 .. n
  BY <1>1, <1>2
<1>4. p \in [1 .. n -> 1 .. n] /\ p \in [1 .. n -> 1 .. Len(b)]
  BY <1>2, <1>3 DEF Bijection, Injection
<1>5. \A i, j \in 1 .. n : i < j => p[i] # p[j]
  BY <1>2, <1>3 DEF Bijection, Injection, IsInjective
<1>6. Onto(p, n, 1 .. n)
  BY <1>2, <1>3 DEF Bijection, Surjection, Onto
<1>7. u = [k \in 1 .. n |-> b[p[k]]]
  BY <1>2, <1>3
<1>8. u \in Seq(Alert) /\ Len(u) = n /\ \A k \in 1 .. n : u[k] = b[p[k]]
  BY <1>1, <1>3, <1>4, <1>7, FromPlaces
<1>9. Holds(u, InAt(b, 1 .. n))
  BY <1>3, <1>4, <1>5, <1>6, <1>8, Rearranged
<1>10. InAt(b, 1 .. n) = A
  BY <1>2 DEF InAt, Holds
<1> QED
  BY <1>2, <1>9, <1>10

\* Two answers about one storm have the same groups and the same noise.
LEMMA SameGroups ==
    ASSUME NEW r, NEW q, NEW F, NEW W, Answers(r, F, W), Answers(q, F, W), W \in SUBSET F, Distinct(F)
    PROVE  /\ {<<c.rack, Ids(c.alerts)>> : c \in r.clusters}
              \subseteq {<<c.rack, Ids(c.alerts)>> : c \in q.clusters}
           /\ r.noise = q.noise
<1>1. r.noise = q.noise
  BY DEF Answers
<1>2. ASSUME NEW c \in r.clusters
      PROVE  \E d \in q.clusters : <<d.rack, Ids(d.alerts)>> = <<c.rack, Ids(c.alerts)>>
  <2>1. OfRack(W, c.rack) # {} /\ ~Lone(W, c.rack)
    BY DEF Answers
  <2>2. PICK a \in W : a.rack = c.rack
    BY <2>1 DEF OfRack
  <2>3. PICK d \in q.clusters : d.rack = c.rack
    BY <2>1, <2>2 DEF Answers
  <2>4. Ids(c.alerts) = IdsOf(OfRack(W, c.rack)) /\ Ids(d.alerts) = IdsOf(OfRack(W, d.rack))
    BY GroupedAre
  <2> QED
    BY <2>3, <2>4
<1> QED
  BY <1>1, <1>2

\* Two lists of the same firing alerts are answered alike.
LEMMA SameAnswer ==
    ASSUME NEW b, NEW A \in SUBSET Alert, Holds(b, A), Distinct(A),
           NEW e, NEW B \in SUBSET Alert, Holds(e, B), Distinct(B),
           Fired(A) = Fired(B)
    PROVE  Filed(b) = Filed(e)
<1> DEFINE F == Fired(A)
           Clusters(answer) == {<<c.rack, Ids(c.alerts)>> : c \in answer.clusters}
<1>1. CASE F = {}
  <2>1. FiringAlerts(b) = <<>> /\ Correlate(b) = [clusters |-> {}, noise |-> {}]
    BY <1>1, NothingFires
  <2>2. FiringAlerts(e) = <<>> /\ Correlate(e) = [clusters |-> {}, noise |-> {}]
    BY <1>1, NothingFires
  <2> QED
    BY <2>1, <2>2 DEF Filed
<1>2. CASE F # {}
  <2>1. PICK W \in SUBSET F : /\ Holds(StormBurst(FiringAlerts(b)), W)
                             /\ Answers(Correlate(b), F, W)
                             /\ \E t : IsStart(F, t) /\ W = Within(F, t)
    BY <1>2, SameWindow
  <2>2. PICK V \in SUBSET F : /\ Holds(StormBurst(FiringAlerts(e)), V)
                             /\ Answers(Correlate(e), F, V)
                             /\ \E t : IsStart(F, t) /\ V = Within(F, t)
    BY <1>2, SameWindow
  <2>3. W = V
    BY <2>1, <2>2, BurstOfList, StartUnique
  <2>4. Distinct(F)
    BY DEF Distinct, Fired
  <2> HIDE DEF F
  <2>5. Clusters(Correlate(b)) \subseteq Clusters(Correlate(e)) /\ Correlate(b).noise = Correlate(e).noise
    BY <2>1, <2>2, <2>3, <2>4, SameGroups
  <2>6. Clusters(Correlate(e)) \subseteq Clusters(Correlate(b))
    BY <2>1, <2>2, <2>3, <2>4, SameGroups
  <2>7. Ids(StormBurst(FiringAlerts(b))) = Ids(StormBurst(FiringAlerts(e)))
    BY <2>1, <2>2, <2>3, IdsAre
  <2> QED
    BY <2>5, <2>6, <2>7 DEF Filed
<1> QED
  BY <1>1, <1>2

\* The burst and the answer are about the alerts, not about the order they are
\* listed in; and the leads are of the lowest layer, and of these the first
\* (storm.ts:23-26, correlate.py:80-98).
THEOREM AnyOrder == Spec => []OrderDoesNotMatter
<1>1. ASSUME StormInv PROVE OrderDoesNotMatter
  <2> DEFINE A == ToSet(bus)
             alerts == FiringAlerts(bus)
             answer == Correlate(bus)
  <2>1. Holds(bus, A) /\ A \in SUBSET Alert /\ Distinct(A)
    BY <1>1, BusHolds
  <2>2. /\ Holds(alerts, Fired(A)) /\ Fired(A) \in SUBSET Alert
        /\ Distinct(Fired(A)) /\ Fired(Fired(A)) = Fired(A)
    BY <2>1, FiringIs DEF Fired, Distinct
  <2>3. ASSUME NEW p \in Bijection(DOMAIN alerts, DOMAIN alerts)
        PROVE  Filed([k \in DOMAIN alerts |-> alerts[p[k]]]) = Filed(bus)
    <3> HIDE DEF A, alerts
    <3>1. PICK e : e = [k \in DOMAIN alerts |-> alerts[p[k]]]
      OBVIOUS
    <3>2. Holds(e, Fired(A))
      BY <2>2, <3>1, ReorderedIs
    <3>3. Filed(e) = Filed(bus)
      BY <2>1, <2>2, <3>2, SameAnswer
    <3> QED
      BY <3>1, <3>3
  <2>5. ASSUME NEW c \in answer.clusters, NEW i \in DOMAIN c.alerts, NEW j \in DOMAIN c.alerts,
               c.alerts[i].id = c.lead
        PROVE  /\ c.alerts[j].layer = "facility" => c.alerts[i].layer = "facility"
               /\ c.alerts[i].layer = "app" => c.alerts[j].layer = "app"
               /\ c.alerts[i].layer = c.alerts[j].layer => c.alerts[i].at <= c.alerts[j].at
    <3>1. Fired(A) # {}
      <4> SUFFICES ASSUME Fired(A) = {} PROVE FALSE
        OBVIOUS
      <4>1. answer.clusters = {}
        BY <2>1, NothingFires
      <4> QED
        BY <4>1
    <3>2. PICK W : Answers(answer, Fired(A), W)
      BY <2>1, <3>1, SameWindow
    <3>3. PICK x, y : x = c.alerts[i] /\ y = c.alerts[j]
      OBVIOUS
    <3>4. x \in Alert /\ y \in Alert /\ Leads(x, y)
      <4>1. Holds(c.alerts, OfRack(W, c.rack)) /\ Led(c)
        BY <3>2 DEF Answers
      <4>2. c.alerts \in Seq(Alert) /\ DOMAIN c.alerts = 1 .. Len(c.alerts)
        BY <4>1 DEF Holds
      <4> QED
        BY <2>5, <3>3, <4>1, <4>2 DEF Led
    <3>5. x.layer \in Layers /\ y.layer \in Layers /\ x.at \in Int /\ y.at \in Int
      BY <3>4, StormAssumption DEF Alert
    <3>6. /\ y.layer = "facility" => x.layer = "facility"
          /\ x.layer = "app" => y.layer = "app"
          /\ x.layer = y.layer => x.at <= y.at
      BY <3>4, <3>5 DEF Leads, Rank, Layers
    <3> QED
      BY <3>3, <3>6
  <2> QED
    BY <2>3, <2>5 DEF OrderDoesNotMatter
<1> QED
  BY <1>1, Invariance, PTL

\* A storm is one by the set of its alerts alone.
LEMMA IsStormIs ==
    ASSUME NEW b, NEW A \in SUBSET Alert, Holds(b, A)
    PROVE  IsStorm(b) <=> \E t \in Int : Size(Fired(A), t) >= StormMin
<1> DEFINE F == Fired(A)
           burst == StormBurst(FiringAlerts(b))
<1>1. StormMin \in Nat \ {0} /\ Len(burst) \in Nat
  BY BurstOfList, StormAssumption
<1>2. ASSUME IsStorm(b) PROVE \E t \in Int : Size(F, t) >= StormMin
  <2>1. Len(burst) >= StormMin
    BY <1>2 DEF IsStorm
  <2>2. F # {}
    <3> SUFFICES ASSUME F = {} PROVE FALSE
      OBVIOUS
    <3>1. burst = <<>>
      BY BurstOfList
    <3>2. Len(burst) = 0
      BY <3>1
    <3> QED
      BY <1>1, <2>1, <3>2
  <2>3. PICK t : IsStart(F, t) /\ Len(burst) = Size(F, t)
    BY <2>2, BurstOfList
  <2>4. t \in Int
    BY <2>3, StormAssumption DEF IsStart, Fired, Alert
  <2> QED
    BY <2>1, <2>3, <2>4
<1>3. ASSUME NEW t \in Int, Size(F, t) >= StormMin PROVE IsStorm(b)
  <2>1. Size(F, t) \in Nat /\ Size(F, t) <= Len(burst)
    BY BurstBounds
  <2> QED
    BY <1>1, <1>3, <2>1 DEF IsStorm
<1> QED
  BY <1>2, <1>3

\* Whatever starts or ends beside it, a storm whose burst goes on firing is
\* seen by the gate of N0 (storm.ts:8-31).
THEOREM StormIsKeptInSight == Spec => StormStaysSeen
<1>1. ASSUME StormInv, StormInv', IsStorm(bus),
             ToSet(StormBurst(FiringAlerts(bus))) \subseteq ToSet(bus')
      PROVE  IsStorm(bus')
  <2> DEFINE A == ToSet(bus)
             B == ToSet(bus')
             burst == StormBurst(FiringAlerts(bus))
  <2>1. Holds(bus, A) /\ A \in SUBSET Alert
    BY <1>1, BusHolds
  <2>2. Holds(bus', B) /\ B \in SUBSET Alert
    BY <1>1, SetOfList DEF StormInv, TypeOK
  <2>3. Fired(A) # {}
    <3> SUFFICES ASSUME Fired(A) = {} PROVE FALSE
      OBVIOUS
    <3>1. burst = <<>>
      BY <2>1, BurstOfList
    <3>2. Len(burst) = 0
      BY <3>1
    <3> QED
      BY <1>1, <3>2, StormAssumption DEF IsStorm
  <2>4. PICK t : /\ IsStart(Fired(A), t) /\ Holds(burst, Within(Fired(A), t))
                 /\ Len(burst) = Size(Fired(A), t)
    <3> HIDE DEF A, burst
    <3> QED
      BY <2>1, <2>3, BurstOfList DEF burst
  <2>5. t \in Int
    BY <2>1, <2>4, StormAssumption DEF IsStart, Fired, Alert
  <2>6. Within(Fired(A), t) \in SUBSET Within(Fired(B), t)
    <3>1. Within(Fired(A), t) = ToSet(burst)
      <4> HIDE DEF A, burst
      <4> QED
        BY <2>4, HoldsSet
    <3> QED
      BY <1>1, <3>1 DEF Within, Fired
  <2> HIDE DEF A, B, burst
  <2>7. Size(Fired(A), t) <= Size(Fired(B), t)
    <3>1. IsFiniteSet(Fired(B)) /\ Within(Fired(B), t) \in SUBSET Fired(B)
      BY <2>2, BurstOfList DEF Within
    <3>2. IsFiniteSet(Within(Fired(B), t))
      BY <3>1, FS_Subset
    <3> QED
      BY <2>6, <3>2, FS_Subset DEF Size
  <2>8. Size(Fired(A), t) \in Nat /\ Size(Fired(B), t) \in Nat
    BY <2>1, <2>2, <2>5, BurstBounds
  <2>9. Size(Fired(B), t) >= StormMin
    BY <1>1, <2>4, <2>7, <2>8, StormAssumption DEF IsStorm, burst
  <2> QED
    BY <2>2, <2>5, <2>9, IsStormIs
<1>2. StormInv /\ [Next]_vars =>
          [IsStorm(bus) /\ ToSet(StormBurst(FiringAlerts(bus))) \subseteq ToSet(bus')
               => IsStorm(bus')]_vars
  BY <1>1, NextInv
<1> QED
  BY <1>2, Invariance, PTL DEF Spec, StormStaysSeen
=============================================================================
