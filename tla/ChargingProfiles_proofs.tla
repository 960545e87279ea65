----------------------- MODULE ChargingProfiles_proofs -----------------------
(***************************************************************************)
(* Proofs about ChargingProfiles, for any profiles, windows and numbers of *)
(* connectors.                                                             *)
(***************************************************************************)
EXTENDS ChargingProfiles, FiniteSetTheorems, WellFoundedInduction, SequenceTheorems, TLAPS

(* Finite orders *)

\* A finite nonempty set ordered by up (up[x]: what is above x) has a top element.
LEMMA FiniteTop ==
  ASSUME NEW S, IsFiniteSet(S), S # {}, NEW up \in [S -> SUBSET S],
         \A x \in S : x \notin up[x],
         \A x \in S : \A y \in up[x] : up[y] \subseteq up[x]
  PROVE  \E x \in S : up[x] = {}
  <1> DEFINE T == {up[x] : x \in S}
  <1>1. T \subseteq FiniteSubsetsOf(S) /\ T # {}
    BY FS_FiniteSubsetsOfFinite
  <1>2. PICK u \in T : \A w \in T : ~(<<w, u>> \in StrictSubsetOrdering(S))
    <2> HIDE DEF T
    <2> QED BY <1>1, WFMin, FS_StrictSubsetOrderingWellFounded
  <1>3. PICK x \in S : u = up[x]
    BY <1>2
  <1>4. ASSUME NEW y \in up[x] PROVE FALSE
    <2>1. y \in S /\ up[y] \in T /\ up[y] \subseteq up[x] /\ up[y] # up[x]
      BY <1>4
    <2>2. <<up[y], up[x]>> \in (SUBSET S) \X (SUBSET S)
      BY <2>1
    <2>3. <<up[y], up[x]>> \in StrictSubsetOrdering(S)
      BY <2>1, <2>2 DEF StrictSubsetOrdering
    <2> QED BY <1>2, <1>3, <2>1, <2>3
  <1> QED BY <1>4

\* A finite nonempty set of numbers has a greatest element, Max,
LEMMA MaxOf ==
  ASSUME NEW S, IsFiniteSet(S), S # {}, S \subseteq Int
  PROVE  Max(S) \in S /\ \A y \in S : y <= Max(S)
  <1> DEFINE up == [x \in S |-> {y \in S : y > x}]
  <1>1. \E x \in S : up[x] = {}
    <2>1. up \in [S -> SUBSET S]
      OBVIOUS
    <2>2. \A x \in S : x \notin up[x]
      OBVIOUS
    <2>3. ASSUME NEW x \in S, NEW y \in up[x], NEW z \in up[y] PROVE z \in up[x]
      <3>1. x \in Int /\ y \in Int /\ z \in Int /\ y \in S /\ z \in S
        OBVIOUS
      <3>2. y > x /\ z > y
        BY <3>1
      <3> QED BY <3>1, <3>2
    <2> HIDE DEF up
    <2> QED BY <2>1, <2>2, <2>3, FiniteTop
  <1>2. \E x \in S : \A y \in S : x >= y
    BY <1>1
  <1> QED BY <1>2 DEF Max

\* and a least one, Min.
LEMMA MinOf ==
  ASSUME NEW S, IsFiniteSet(S), S # {}, S \subseteq Int
  PROVE  Min(S) \in S /\ \A y \in S : Min(S) <= y
  <1> DEFINE up == [x \in S |-> {y \in S : y < x}]
  <1>1. \E x \in S : up[x] = {}
    <2>1. up \in [S -> SUBSET S]
      OBVIOUS
    <2>2. \A x \in S : x \notin up[x]
      OBVIOUS
    <2>3. ASSUME NEW x \in S, NEW y \in up[x], NEW z \in up[y] PROVE z \in up[x]
      <3>1. x \in Int /\ y \in Int /\ z \in Int /\ y \in S /\ z \in S
        OBVIOUS
      <3>2. y < x /\ z < y
        BY <3>1
      <3> QED BY <3>1, <3>2
    <2> HIDE DEF up
    <2> QED BY <2>1, <2>2, <2>3, FiniteTop
  <1>2. \E x \in S : \A y \in S : x <= y
    BY <1>1
  <1> QED BY <1>2 DEF Min

\* InOrder lists every element of a finite, totally ordered set once.
LEMMA InOrderLists ==
  ASSUME NEW S, IsFiniteSet(S), NEW before \in [S -> SUBSET S],
         \A x \in S : x \notin before[x],
         \A x \in S, y \in S : x \in before[y] => before[x] \subseteq before[y],
         \A x \in S, y \in S : x # y => x \in before[y] \/ y \in before[x]
  PROVE  /\ Cardinality(S) \in Nat
         /\ InOrder(before) \in [1..Cardinality(S) -> S]
         /\ \A x \in S : \E k \in 1..Cardinality(S) : InOrder(before)[k] = x
         /\ \A k, l \in 1..Cardinality(S) : InOrder(before)[k] = InOrder(before)[l] => k = l
  <1> DEFINE n == Cardinality(S)
             rank == [x \in S |-> Cardinality(before[x]) + 1]
             list == InOrder(before)
  <1>1. n \in Nat
    BY FS_CardinalityType
  <1>2. \A x \in S : IsFiniteSet(before[x]) /\ Cardinality(before[x]) \in 0..(n - 1)
    <2> SUFFICES ASSUME NEW x \in S
                 PROVE  IsFiniteSet(before[x]) /\ Cardinality(before[x]) \in 0..(n - 1)
      OBVIOUS
    <2>1. before[x] \in SUBSET S /\ before[x] # S
      OBVIOUS
    <2>2. /\ IsFiniteSet(before[x]) /\ Cardinality(before[x]) <= n
          /\ (n = Cardinality(before[x]) => S = before[x])
      BY <2>1, FS_Subset
    <2>3. Cardinality(before[x]) \in Nat
      BY <2>2, FS_CardinalityType
    <2> QED BY <1>1, <2>1, <2>2, <2>3
  <1>3. \A x, y \in S : x \in before[y] => Cardinality(before[x]) < Cardinality(before[y])
    <2> SUFFICES ASSUME NEW x \in S, NEW y \in S, x \in before[y]
                 PROVE  Cardinality(before[x]) < Cardinality(before[y])
      OBVIOUS
    <2>1. before[x] \in SUBSET before[y] /\ before[x] # before[y]
      OBVIOUS
    <2>2. Cardinality(before[x]) <= Cardinality(before[y])
          /\ (Cardinality(before[y]) = Cardinality(before[x]) => before[y] = before[x])
      BY <1>2, <2>1, FS_Subset
    <2> QED BY <1>1, <1>2, <2>1, <2>2
  <1>4. rank \in [S -> 1..n]
    BY <1>1, <1>2
  <1>5. \A x, y \in S : rank[x] = rank[y] => x = y
    BY <1>1, <1>2, <1>3
  <1>6. rank \in Injection(S, 1..n)
    BY <1>4, <1>5 DEF Injection, IsInjective
  <1>7. IsFiniteSet(1..n) /\ Cardinality(1..n) = n
    BY <1>1, FS_Interval
  <1>8. rank \in Surjection(S, 1..n)
    <2> HIDE DEF rank, n
    <2>1. Cardinality(S) = Cardinality(1..n)
      BY <1>7 DEF n
    <2> QED BY <1>6, <1>7, <2>1, FS_Injection
  <1>9. \A k \in 1..n : \E x \in S : Cardinality(before[x]) = k - 1
    <2> SUFFICES ASSUME NEW k \in 1..n PROVE \E x \in S : Cardinality(before[x]) = k - 1
      OBVIOUS
    <2>1. PICK x \in S : rank[x] = k
      BY <1>8 DEF Surjection
    <2> QED BY <1>1, <1>2, <2>1
  <1>10. \A k \in 1..n : list[k] \in S /\ Cardinality(before[list[k]]) = k - 1
    BY <1>9 DEF InOrder
  <1>11. list \in [1..n -> S]
    BY <1>10 DEF InOrder
  <1>12. ASSUME NEW x \in S PROVE \E k \in 1..n : list[k] = x
    <2>1. rank[x] \in 1..n /\ rank[x] - 1 = Cardinality(before[x])
      BY <1>1, <1>2
    <2>2. list[rank[x]] \in S /\ Cardinality(before[list[rank[x]]]) = Cardinality(before[x])
      BY <1>10, <2>1
    <2>3. list[rank[x]] = x
      BY <1>5, <2>2
    <2> QED BY <2>1, <2>3
  <1>13. ASSUME NEW k \in 1..n, NEW l \in 1..n, list[k] = list[l] PROVE k = l
    BY <1>1, <1>10, <1>13
  <1> QED BY <1>1, <1>11, <1>12, <1>13

(* The stores *)

\* Vec::retain drops what is gone, keeps the rest and repeats nothing.
LEMMA Retained ==
  ASSUME NEW A, NEW s \in Seq(A), NEW gone
  PROVE  /\ Retain(s, gone) \in Seq(A)
         /\ Range(Retain(s, gone)) = Range(s) \ gone
         /\ IsInjective(s) => IsInjective(Retain(s, gone))
  <1> DEFINE kept == {i \in DOMAIN s : s[i] \notin gone}
             before == [i \in kept |-> {j \in kept : j < i}]
             n == Cardinality(kept)
             index == InOrder(before)
             rest == [k \in 1..n |-> s[index[k]]]
  <1>1. DOMAIN s = 1..Len(s) /\ Len(s) \in Nat /\ \A i \in DOMAIN s : s[i] \in A
    BY ElementOfSeq, LenProperties
  <1>2. IsFiniteSet(kept)
    <2>1. IsFiniteSet(1..Len(s)) /\ kept \in SUBSET (1..Len(s))
      BY <1>1, FS_Interval
    <2> QED BY <2>1, FS_Subset
  <1>3. kept \subseteq Int
    BY <1>1
  <1>4. /\ n \in Nat /\ index \in [1..n -> kept]
        /\ \A x \in kept : \E k \in 1..n : index[k] = x
        /\ \A k, l \in 1..n : index[k] = index[l] => k = l
    <2>1. before \in [kept -> SUBSET kept]
      OBVIOUS
    <2>2. \A x \in kept : x \notin before[x]
      BY <1>3
    <2>3. ASSUME NEW x \in kept, NEW y \in kept, x \in before[y], NEW z \in before[x]
          PROVE  z \in before[y]
      <3>1. z \in kept /\ z < x /\ x < y
        BY <2>3
      <3>2. x \in Int /\ y \in Int /\ z \in Int
        BY <1>3, <3>1
      <3> QED BY <3>1, <3>2
    <2>4. \A x \in kept, y \in kept : x # y => x \in before[y] \/ y \in before[x]
      BY <1>3
    <2>5. \A x \in kept, y \in kept : x \in before[y] => before[x] \subseteq before[y]
      BY <2>3
    <2> HIDE DEF kept, before
    <2> QED BY <1>2, <2>1, <2>2, <2>4, <2>5, InOrderLists DEF n, index
  <1>5. Retain(s, gone) = rest
    BY DEF Retain
  <1> HIDE DEF n, index
  <1>6. \A k \in 1..n : index[k] \in DOMAIN s /\ rest[k] = s[index[k]] /\ rest[k] \notin gone
    BY <1>4
  <1>7. rest \in Seq(A)
    BY <1>1, <1>4, <1>6, IsASeq
  <1>8. DOMAIN rest = 1..n
    OBVIOUS
  <1>9. Range(rest) = Range(s) \ gone
    <2>1. ASSUME NEW q \in Range(rest) PROVE q \in Range(s) \ gone
      BY <1>6, <1>8, <2>1 DEF Range
    <2>2. ASSUME NEW q \in Range(s) \ gone PROVE q \in Range(rest)
      <3>1. PICK i \in DOMAIN s : q = s[i]
        BY <2>2 DEF Range
      <3>2. PICK k \in 1..n : index[k] = i
        BY <1>4, <2>2, <3>1
      <3> QED BY <1>6, <1>8, <3>1, <3>2 DEF Range
    <2> QED BY <2>1, <2>2
  <1>10. ASSUME IsInjective(s) PROVE IsInjective(rest)
    <2>1. ASSUME NEW k \in 1..n, NEW l \in 1..n, rest[k] = rest[l] PROVE k = l
      <3>1. index[k] = index[l]
        BY <1>6, <1>10, <2>1 DEF IsInjective
      <3> QED BY <1>4, <3>1
    <2> QED BY <1>8, <2>1 DEF IsInjective
  <1> QED BY <1>5, <1>7, <1>9, <1>10

\* Vec::push: the new element is last; nothing is repeated if it is new.
LEMMA Pushed ==
  ASSUME NEW A, NEW s \in Seq(A), NEW p \in A
  PROVE  /\ Append(s, p) \in Seq(A)
         /\ Range(Append(s, p)) = Range(s) \cup {p}
         /\ IsInjective(s) /\ p \notin Range(s) => IsInjective(Append(s, p))
  <1> DEFINE t == Append(s, p)
             n == Len(s)
  <1>1. n \in Nat /\ DOMAIN s = 1..n
    BY LenProperties
  <1>2. t \in Seq(A) /\ Len(t) = n + 1 /\ t[n + 1] = p /\ \A i \in 1..n : t[i] = s[i]
    BY AppendProperties
  <1>3. DOMAIN t = 1..(n + 1)
    BY <1>2, LenProperties
  <1> HIDE DEF t, n
  <1>4. Range(t) = Range(s) \cup {p}
    BY <1>1, <1>2, <1>3 DEF Range
  <1>5. ASSUME IsInjective(s), p \notin Range(s) PROVE IsInjective(t)
    <2>1. ASSUME NEW i \in 1..(n + 1), NEW j \in 1..(n + 1), t[i] = t[j] PROVE i = j
      <3>1. CASE i \in 1..n /\ j \in 1..n
        BY <1>1, <1>2, <1>5, <2>1, <3>1 DEF IsInjective
      <3>2. CASE i = n + 1 /\ j \in 1..n
        BY <1>1, <1>2, <1>5, <2>1, <3>2 DEF Range
      <3>3. CASE j = n + 1 /\ i \in 1..n
        BY <1>1, <1>2, <1>5, <2>1, <3>3 DEF Range
      <3>4. CASE i = n + 1 /\ j = n + 1
        BY <3>4
      <3> QED BY <1>1, <3>1, <3>2, <3>3, <3>4
    <2> QED BY <1>3, <2>1 DEF IsInjective
  <1> QED BY <1>2, <1>4, <1>5 DEF t

\* A profile q of connector d stays when p is set for c.
Stays(q, p, d, c) ==
    q.id # p.id /\ (d = c => ~(q.purpose = p.purpose /\ q.stack = p.stack))

\* ChargingProfileStore::set: what each connector holds afterwards.
LEMMA Installed16 ==
  ASSUME NEW store \in [Ids -> Seq(Profiles16)], NEW c \in Ids, NEW p \in Profiles16,
         NEW new, new = Install16(store, c, p)
  PROVE  /\ new \in [Ids -> Seq(Profiles16)]
         /\ \A d \in Ids : \A q \in Range(new[d]) :
               (d = c /\ q = p) \/ (q \in Range(store[d]) /\ Stays(q, p, d, c))
         /\ (\A d \in Ids : IsInjective(store[d])) => \A d \in Ids : IsInjective(new[d])
  <1> DEFINE without == [d \in Ids |-> Retain(store[d], SameId(store, d, p))]
             free == Retain(without[c], SamePlace(without, c, p))
  <1>1. \A d \in Ids : /\ without[d] \in Seq(Profiles16)
                       /\ Range(without[d]) = {q \in Range(store[d]) : q.id # p.id}
                       /\ IsInjective(store[d]) => IsInjective(without[d])
    <2> SUFFICES ASSUME NEW d \in Ids
                 PROVE  /\ without[d] \in Seq(Profiles16)
                        /\ Range(without[d]) = {q \in Range(store[d]) : q.id # p.id}
                        /\ IsInjective(store[d]) => IsInjective(without[d])
      OBVIOUS
    <2>1. without[d] = Retain(store[d], SameId(store, d, p))
      OBVIOUS
    <2>2. /\ without[d] \in Seq(Profiles16)
          /\ Range(without[d]) = Range(store[d]) \ SameId(store, d, p)
          /\ IsInjective(store[d]) => IsInjective(without[d])
      <3> HIDE DEF without
      <3> QED BY <2>1, Retained
    <2>3. Range(store[d]) \ SameId(store, d, p) = {q \in Range(store[d]) : q.id # p.id}
      BY DEF SameId
    <2> QED BY <2>2, <2>3
  <1>2. /\ free \in Seq(Profiles16)
        /\ Range(free) = {q \in Range(without[c]) : ~(q.purpose = p.purpose /\ q.stack = p.stack)}
        /\ IsInjective(without[c]) => IsInjective(free)
    <2> HIDE DEF without
    <2>1. /\ free \in Seq(Profiles16)
          /\ Range(free) = Range(without[c]) \ SamePlace(without, c, p)
          /\ IsInjective(without[c]) => IsInjective(free)
      BY <1>1, Retained
    <2> QED BY <2>1 DEF SamePlace
  <1>3. new = [without EXCEPT ![c] = Append(free, p)]
    BY DEF Install16
  <1> HIDE DEF without, free
  <1>4. /\ Append(free, p) \in Seq(Profiles16)
        /\ Range(Append(free, p)) = Range(free) \cup {p}
        /\ IsInjective(free) /\ p \notin Range(free) => IsInjective(Append(free, p))
    BY <1>2, Pushed
  <1>5. without \in [Ids -> Seq(Profiles16)]
    BY <1>1 DEF without
  <1>6. /\ new \in [Ids -> Seq(Profiles16)]
        /\ new[c] = Append(free, p)
        /\ \A d \in Ids : d # c => new[d] = without[d]
    BY <1>3, <1>4, <1>5
  <1>7. p \notin Range(free)
    BY <1>2
  <1>8. Range(free) = {q \in Range(store[c]) :
                         q.id # p.id /\ ~(q.purpose = p.purpose /\ q.stack = p.stack)}
    BY <1>1, <1>2
  <1>9. ASSUME \A d \in Ids : IsInjective(store[d]), NEW d \in Ids PROVE IsInjective(new[d])
    <2>1. CASE d = c
      BY <1>1, <1>2, <1>4, <1>6, <1>7, <1>9, <2>1
    <2>2. CASE d # c
      BY <1>1, <1>6, <1>9, <2>2
    <2> QED BY <2>1, <2>2
  <1>10. ASSUME NEW d \in Ids, NEW q \in Range(new[d])
         PROVE  (d = c /\ q = p) \/ (q \in Range(store[d]) /\ Stays(q, p, d, c))
    <2>1. CASE d = c
      BY <1>4, <1>6, <1>8, <2>1 DEF Stays
    <2>2. CASE d # c
      BY <1>1, <1>6, <2>2 DEF Stays
    <2> QED BY <2>1, <2>2
  <1> QED BY <1>6, <1>9, <1>10

(* The inductive invariant.  The 1.6J store: *)

\* an id is installed once, a connector has one profile per purpose and stack level,
UniqueInv ==
    \A c, d \in Ids : \A q \in Range(profiles[c]), r \in Range(profiles[d]) :
        /\ q.id = r.id => c = d /\ q = r
        /\ c = d /\ q.purpose = r.purpose /\ q.stack = r.stack => q = r

\* no list repeats a profile,
OnceInv == \A c \in Ids : IsInjective(profiles[c])

\* and ceilings are the station's, TxProfiles a connector's.
Place16Inv ==
    \A c \in Ids : \A q \in Range(profiles[c]) :
        /\ c = 0 \/ c \in Connectors
        /\ q.purpose = "ChargePointMaxProfile" => c = 0
        /\ q.purpose = "TxProfile" => c # 0

\* The 2.0.1 stores hold profiles of their own purposes only.
Place201Inv ==
    \A c \in Ids :
        /\ txProfiles[c] # None => txProfiles[c].purpose = "TxProfile"
        /\ txDefaults[c] # None => txDefaults[c].purpose = "TxDefaultProfile"
        /\ \A k \in CeilingKinds : ceilings[k][c] # None =>
              /\ ceilings[k][c].purpose \in {"ChargingStationMaxProfile",
                                             "ChargingStationExternalConstraints"}
              /\ KindOf(ceilings[k][c].purpose) = k

\* An answer is the one the present state gives: nothing moves until it is sent.
ReplyInv ==
    /\ reply.op = "Composite" =>
          \E c \in Ids, d \in Durations, u \in {"A", "W", None} :
              reply = IF version = "V16J" THEN Schedule16(c, d, u) ELSE Schedule201(c, d, u)
    /\ reply.op = "Sample" =>
          /\ version = "V201"
          /\ \E c \in Connectors : /\ txStart[c] # None
                                   /\ reply = [op |-> "Sample", connector |-> c,
                                               power |-> MeteredPower(c)]
    /\ reply.op = "Report" => /\ version = "V201"
                              /\ reply.matched \subseteq Snapshot201
                              /\ reply.pages = ReportPages(reply.matched)

StoresInv == TypeOK /\ UniqueInv /\ OnceInv /\ Place16Inv /\ Place201Inv

IInv == StoresInv /\ ReplyInv

\* The pairs of a 2.0.1 snapshot: an EVSE and what one of its stores holds.
LEMMA SnapshotOf ==
  ASSUME NEW e
  PROVE  e \in Snapshot201 <=>
           \E c \in Ids :
              \/ txProfiles[c] # None /\ e = <<c, txProfiles[c]>>
              \/ txDefaults[c] # None /\ e = <<c, txDefaults[c]>>
              \/ \E k \in CeilingKinds : ceilings[k][c] # None /\ e = <<c, ceilings[k][c]>>
  BY DEF Snapshot201

\* A snapshot is empty exactly if every store is.
LEMMA SnapshotEmpty ==
  Snapshot201 = {} <=> \A c \in Ids : /\ txProfiles[c] = None /\ txDefaults[c] = None
                                      /\ \A k \in CeilingKinds : ceilings[k][c] = None
  <1>1. ASSUME Snapshot201 = {}, NEW c \in Ids
        PROVE  /\ txProfiles[c] = None /\ txDefaults[c] = None
               /\ \A k \in CeilingKinds : ceilings[k][c] = None
    <2>1. txProfiles[c] = None
      BY <1>1, SnapshotOf
    <2>2. txDefaults[c] = None
      BY <1>1, SnapshotOf
    <2>3. ASSUME NEW k \in CeilingKinds PROVE ceilings[k][c] = None
      BY <1>1, SnapshotOf
    <2> QED BY <2>1, <2>2, <2>3
  <1>2. ASSUME \A c \in Ids : /\ txProfiles[c] = None /\ txDefaults[c] = None
                              /\ \A k \in CeilingKinds : ceilings[k][c] = None
        PROVE  Snapshot201 = {}
    BY <1>2, SnapshotOf
  <1> QED BY <1>1, <1>2

\* The initial state: empty stores and no answer.
LEMMA InitInv == Init => IInv
  <1> SUFFICES ASSUME Init PROVE IInv
    OBVIOUS
  <1>1. Snapshot201 = {}
    BY SnapshotEmpty DEF Init
  <1>2. TypeOK
    <2>1. 0 \in 0..MaxClock
      BY ProfilesAssumption
    <2>2. <<>> \in Seq(Profiles16)
      BY EmptySeq
    <2> QED BY <1>1, <2>1, <2>2 DEF Init, TypeOK
  <1>3. \A c \in Ids : profiles[c] = <<>> /\ Range(profiles[c]) = {} /\ IsInjective(profiles[c])
    <2>1. Range(<<>>) = {} /\ IsInjective(<<>>)
      BY DEF Range, IsInjective
    <2> QED BY <2>1 DEF Init
  <1>4. UniqueInv /\ OnceInv /\ Place16Inv
    BY <1>3 DEF UniqueInv, OnceInv, Place16Inv
  <1>5. Place201Inv
    BY DEF Init, Place201Inv
  <1>6. ReplyInv
    BY DEF Init, ReplyInv, NoReply
  <1> QED BY <1>2, <1>4, <1>5, <1>6 DEF IInv, StoresInv

\* Every step preserves the invariant of the stores.
LEMMA StoresStep == StoresInv /\ [Next]_vars => StoresInv'
  <1> SUFFICES ASSUME StoresInv, [Next]_vars PROVE StoresInv'
    OBVIOUS
  <1> USE DEF StoresInv
  <1>0. ASSUME UNCHANGED <<version, clock, txStart, profiles, txProfiles, txDefaults, ceilings>>
        PROVE  StoresInv'
    BY <1>0 DEF TypeOK, UniqueInv, OnceInv, Place16Inv, Place201Inv, Snapshot201
  <1>1. ASSUME NEW c \in Ids, NEW p \in Profiles16, SetChargingProfile16(c, p) PROVE StoresInv'
    <2>1. /\ version = "V16J" /\ UNCHANGED <<version, clock, txStart, txProfiles, txDefaults, ceilings>>
          /\ profiles' = IF Placeable16(c, p) THEN Install16(profiles, c, p) ELSE profiles
      BY <1>1 DEF SetChargingProfile16, Free
    <2>2. CASE ~Placeable16(c, p)
      BY <1>0, <2>1, <2>2
    <2>3. CASE Placeable16(c, p)
      <3>1. profiles' = Install16(profiles, c, p)
        BY <2>1, <2>3
      <3>2. profiles \in [Ids -> Seq(Profiles16)]
        BY DEF TypeOK
      <3>3. /\ profiles' \in [Ids -> Seq(Profiles16)]
            /\ \A d \in Ids : \A q \in Range(profiles'[d]) :
                  (d = c /\ q = p) \/ (q \in Range(profiles[d]) /\ Stays(q, p, d, c))
            /\ (\A d \in Ids : IsInjective(profiles[d])) => \A d \in Ids : IsInjective(profiles'[d])
        <4> HIDE DEF StoresInv
        <4> QED BY <3>1, <3>2, Installed16
      <3>4. TypeOK'
        BY <2>1, <3>3 DEF TypeOK, Snapshot201
      <3>5. OnceInv'
        BY <3>3 DEF OnceInv
      <3>7. UniqueInv'
        BY <3>3 DEF UniqueInv, Stays
      <3>8. Place16Inv'
        <4>1. /\ c = 0 \/ c \in Connectors
              /\ p.purpose = "ChargePointMaxProfile" => c = 0
              /\ p.purpose = "TxProfile" => c # 0
          BY <2>3 DEF Placeable16, Known
        <4> QED BY <3>3, <4>1 DEF Place16Inv
      <3>9. Place201Inv'
        BY <2>1 DEF Place201Inv
      <3> QED BY <3>4, <3>5, <3>7, <3>8, <3>9
    <2> QED BY <2>2, <2>3
  <1>2. ASSUME NEW c \in Ids, NEW p \in Profiles201, SetChargingProfile201(c, p) PROVE StoresInv'
    <2>1. /\ version = "V201" /\ UNCHANGED <<version, clock, txStart, profiles>>
          /\ \/ txProfiles' = txProfiles
             \/ p.purpose = "TxProfile" /\ txProfiles' = [txProfiles EXCEPT ![c] = p]
          /\ \/ txDefaults' = txDefaults
             \/ p.purpose = "TxDefaultProfile" /\ txDefaults' = [txDefaults EXCEPT ![c] = p]
          /\ \/ ceilings' = ceilings
             \/ /\ p.purpose \notin {"TxProfile", "TxDefaultProfile"}
                /\ ceilings' = [ceilings EXCEPT ![KindOf(p.purpose)][c] = p]
      BY <1>2 DEF SetChargingProfile201, Free
    <2>2. txProfiles' \in [Ids -> Profiles201 \cup {None}]
      BY <2>1 DEF TypeOK
    <2>3. txDefaults' \in [Ids -> Profiles201 \cup {None}]
      BY <2>1 DEF TypeOK
    <2>4. KindOf(p.purpose) \in CeilingKinds
      BY DEF KindOf, CeilingKinds
    <2>5. ceilings' \in [CeilingKinds -> [Ids -> Profiles201 \cup {None}]]
      BY <2>1, <2>4 DEF TypeOK
    <2>6. TypeOK'
      BY <2>1, <2>2, <2>3, <2>5 DEF TypeOK
    <2>7. UniqueInv' /\ OnceInv' /\ Place16Inv'
      BY <2>1 DEF UniqueInv, OnceInv, Place16Inv
    <2>8. ASSUME NEW d \in Ids
          PROVE  /\ txProfiles'[d] # None => txProfiles'[d].purpose = "TxProfile"
                 /\ txDefaults'[d] # None => txDefaults'[d].purpose = "TxDefaultProfile"
      BY <2>1 DEF TypeOK, Place201Inv
    <2>9. ASSUME NEW d \in Ids, NEW k \in CeilingKinds, ceilings'[k][d] # None
          PROVE  /\ ceilings'[k][d].purpose \in {"ChargingStationMaxProfile",
                                                 "ChargingStationExternalConstraints"}
                 /\ KindOf(ceilings'[k][d].purpose) = k
      <3>1. CASE ceilings'[k][d] = ceilings[k][d]
        BY <2>9, <3>1 DEF Place201Inv
      <3>2. CASE ceilings'[k][d] # ceilings[k][d]
        <4>1. /\ p.purpose \notin {"TxProfile", "TxDefaultProfile"}
              /\ k = KindOf(p.purpose) /\ d = c /\ ceilings'[k][d] = p
          BY <2>1, <2>4, <3>2 DEF TypeOK
        <4> QED BY <4>1, ProfilesAssumption
      <3> QED BY <3>1, <3>2
    <2> QED BY <2>6, <2>7, <2>8, <2>9 DEF Place201Inv
  <1>3. ASSUME NEW sel, ClearChargingProfile16(sel) PROVE StoresInv'
    <2>1. /\ version = "V16J" /\ UNCHANGED <<version, clock, txStart, txProfiles, txDefaults, ceilings>>
          /\ profiles' = [c \in Ids |->
                Retain(profiles[c], {q \in Range(profiles[c]) : Selects(sel, c, q)})]
      BY <1>3 DEF ClearChargingProfile16, Free
    <2>2. ASSUME NEW c \in Ids
          PROVE  /\ profiles'[c] \in Seq(Profiles16)
                 /\ Range(profiles'[c]) \subseteq Range(profiles[c])
                 /\ IsInjective(profiles[c]) => IsInjective(profiles'[c])
      <3>1. profiles[c] \in Seq(Profiles16)
        BY DEF TypeOK
      <3>2. profiles'[c] = Retain(profiles[c], {q \in Range(profiles[c]) : Selects(sel, c, q)})
        BY <2>1
      <3> QED BY <3>1, <3>2, Retained
    <2>3. profiles' \in [Ids -> Seq(Profiles16)]
      BY <2>1, <2>2
    <2>4. TypeOK'
      BY <2>1, <2>3 DEF TypeOK, Snapshot201
    <2>5. OnceInv'
      BY <2>2 DEF OnceInv
    <2>6. UniqueInv'
      <3>1. ASSUME NEW c \in Ids, NEW d \in Ids,
                   NEW q \in Range(profiles'[c]), NEW r \in Range(profiles'[d])
            PROVE  /\ q.id = r.id => c = d /\ q = r
                   /\ c = d /\ q.purpose = r.purpose /\ q.stack = r.stack => q = r
        <4>1. q \in Range(profiles[c]) /\ r \in Range(profiles[d])
          BY <2>2
        <4> QED BY <4>1 DEF UniqueInv
      <3> QED BY <3>1 DEF UniqueInv
    <2>7. Place16Inv'
      BY <2>2 DEF Place16Inv
    <2>8. Place201Inv'
      BY <2>1 DEF Place201Inv
    <2> QED BY <2>4, <2>5, <2>6, <2>7, <2>8
  <1>4. ASSUME NEW sel, ClearChargingProfile201(sel) PROVE StoresInv'
    BY <1>0, <1>4 DEF ClearChargingProfile201, stores
  <1>15. ASSUME NEW e, ClearMatch(e) PROVE StoresInv'
    <2>1. UNCHANGED <<version, clock, txStart, profiles>>
      BY <1>15 DEF ClearMatch
    <2>2. /\ txProfiles' \in [Ids -> Profiles201 \cup {None}]
          /\ \A c \in Ids : txProfiles'[c] \in {None, txProfiles[c]}
      BY <1>15 DEF ClearMatch, TypeOK
    <2>3. /\ txDefaults' \in [Ids -> Profiles201 \cup {None}]
          /\ \A c \in Ids : txDefaults'[c] \in {None, txDefaults[c]}
      BY <1>15 DEF ClearMatch, TypeOK
    <2>4. /\ ceilings' \in [CeilingKinds -> [Ids -> Profiles201 \cup {None}]]
          /\ \A k \in CeilingKinds, c \in Ids : ceilings'[k][c] \in {None, ceilings[k][c]}
      BY <1>15 DEF ClearMatch, TypeOK
    <2>5. version = "V16J" => Snapshot201' = {}
      <3> SUFFICES ASSUME version = "V16J" PROVE Snapshot201' = {}
        OBVIOUS
      <3>1. \A d \in Ids : /\ txProfiles[d] = None /\ txDefaults[d] = None
                           /\ \A k \in CeilingKinds : ceilings[k][d] = None
        BY SnapshotEmpty DEF TypeOK
      <3>2. \A d \in Ids : /\ txProfiles'[d] = None /\ txDefaults'[d] = None
                           /\ \A k \in CeilingKinds : ceilings'[k][d] = None
        BY <2>2, <2>3, <2>4, <3>1
      <3> QED BY <3>2 DEF Snapshot201
    <2>6. TypeOK'
      BY <2>1, <2>2, <2>3, <2>4, <2>5 DEF TypeOK
    <2>7. UniqueInv' /\ OnceInv' /\ Place16Inv'
      BY <2>1 DEF UniqueInv, OnceInv, Place16Inv
    <2>8. Place201Inv'
      BY <2>2, <2>3, <2>4 DEF Place201Inv
    <2> QED BY <2>6, <2>7, <2>8
  <1>16. CASE ClearAnswered
    BY <1>0, <1>16 DEF ClearAnswered, stores
  <1>5. ASSUME NEW c \in Connectors, NEW p \in Profiles201 \cup {None}, OpenTransaction(c, p)
        PROVE  StoresInv'
    <2>1. /\ UNCHANGED <<version, clock, profiles, txDefaults, ceilings>>
          /\ p # None => version = "V201" /\ p.purpose = "TxProfile"
          /\ txStart' = [txStart EXCEPT ![c] = clock]
          /\ txProfiles' = IF p = None THEN txProfiles ELSE [txProfiles EXCEPT ![c] = p]
      BY <1>5 DEF OpenTransaction
    <2>2. txProfiles' \in [Ids -> Profiles201 \cup {None}]
      BY <2>1 DEF TypeOK
    <2>3. txStart' \in [Connectors -> 0..MaxClock \cup {None}]
      BY <2>1 DEF TypeOK
    <2>4. version = "V16J" => Snapshot201' = {}
      BY <2>1 DEF TypeOK, Snapshot201
    <2>5. TypeOK'
      BY <2>1, <2>2, <2>3, <2>4 DEF TypeOK
    <2>6. UniqueInv' /\ OnceInv' /\ Place16Inv'
      BY <2>1 DEF UniqueInv, OnceInv, Place16Inv
    <2>7. Place201Inv'
      BY <2>1 DEF Place201Inv, TypeOK
    <2> QED BY <2>5, <2>6, <2>7
  <1>6. ASSUME NEW c \in Connectors, NEW p \in Profiles201, BindTxProfile(c, p) PROVE StoresInv'
    <2>1. /\ version = "V201" /\ UNCHANGED <<version, clock, txStart, profiles, txDefaults, ceilings>>
          /\ p.purpose = "TxProfile" /\ txProfiles' = [txProfiles EXCEPT ![c] = p]
      BY <1>6 DEF BindTxProfile, Free
    <2>2. TypeOK'
      BY <2>1 DEF TypeOK
    <2>3. UniqueInv' /\ OnceInv' /\ Place16Inv'
      BY <2>1 DEF UniqueInv, OnceInv, Place16Inv
    <2>4. Place201Inv'
      BY <2>1 DEF Place201Inv, TypeOK
    <2> QED BY <2>2, <2>3, <2>4
  <1>7. ASSUME NEW c \in Connectors, CloseTransaction(c) PROVE StoresInv'
    <2>1. /\ UNCHANGED <<version, clock, profiles, txDefaults, ceilings>>
          /\ txStart' = [txStart EXCEPT ![c] = None]
          /\ txProfiles' = [txProfiles EXCEPT ![c] = None]
      BY <1>7 DEF CloseTransaction
    <2>2. c \in Ids
      BY ProfilesAssumption DEF Ids, Connectors
    <2>3. \A d \in Ids : txProfiles'[d] \in {None, txProfiles[d]}
      BY <2>1 DEF TypeOK
    <2>4. version = "V16J" => Snapshot201' = {}
      <3> SUFFICES ASSUME version = "V16J" PROVE Snapshot201' = {}
        OBVIOUS
      <3>1. \A d \in Ids : /\ txProfiles[d] = None /\ txDefaults[d] = None
                           /\ \A k \in CeilingKinds : ceilings[k][d] = None
        BY SnapshotEmpty DEF TypeOK
      <3>2. \A d \in Ids : /\ txProfiles'[d] = None /\ txDefaults'[d] = None
                           /\ \A k \in CeilingKinds : ceilings'[k][d] = None
        BY <2>1, <2>3, <3>1
      <3> QED BY <3>2 DEF Snapshot201
    <2>5. TypeOK'
      BY <2>1, <2>4 DEF TypeOK
    <2>6. UniqueInv' /\ OnceInv' /\ Place16Inv'
      BY <2>1 DEF UniqueInv, OnceInv, Place16Inv
    <2>7. Place201Inv'
      BY <2>1, <2>3 DEF Place201Inv
    <2> QED BY <2>5, <2>6, <2>7
  <1>8. ASSUME Tick PROVE StoresInv'
    <2>1. /\ UNCHANGED <<version, txStart, profiles, txProfiles, txDefaults, ceilings>>
          /\ clock < MaxClock /\ clock' = clock + 1
      BY <1>8 DEF Tick, stores
    <2>2. clock' \in 0..MaxClock
      BY <2>1, ProfilesAssumption DEF TypeOK
    <2> QED BY <2>1, <2>2 DEF TypeOK, UniqueInv, OnceInv, Place16Inv, Place201Inv, Snapshot201
  <1>9. ASSUME NEW c, NEW d, NEW u, GetCompositeSchedule16(c, d, u) PROVE StoresInv'
    BY <1>0, <1>9 DEF GetCompositeSchedule16, stores
  <1>10. ASSUME NEW c, NEW d, NEW u, GetCompositeSchedule201(c, d, u) PROVE StoresInv'
    BY <1>0, <1>10 DEF GetCompositeSchedule201, stores
  <1>11. ASSUME NEW c, NEW q, GetChargingProfiles(c, q) PROVE StoresInv'
    BY <1>0, <1>11 DEF GetChargingProfiles, stores
  <1>12. ASSUME NEW c, Sample(c) PROVE StoresInv'
    BY <1>0, <1>12 DEF Sample, stores
  <1>13. CASE ReplySent
    BY <1>0, <1>13 DEF ReplySent, stores
  <1>14. CASE UNCHANGED vars
    BY <1>0, <1>14 DEF vars, stores
  <1> QED
    BY <1>1, <1>2, <1>3, <1>4, <1>5, <1>6, <1>7, <1>8, <1>9, <1>10, <1>11, <1>12, <1>13, <1>14, <1>15,
       <1>16
    DEF Next

\* What the answers are computed from.
LEMMA SameAnswers ==
  ASSUME UNCHANGED <<version, clock, txStart, profiles, txProfiles, txDefaults, ceilings>>
  PROVE  /\ \A c, d, u : Schedule16(c, d, u)' = Schedule16(c, d, u)
         /\ \A c, d, u : Schedule201(c, d, u)' = Schedule201(c, d, u)
         /\ \A c : MeteredPower(c)' = MeteredPower(c)
         /\ Snapshot201' = Snapshot201
  <1>1. \A c : Candidates(c)' = Candidates(c)
    BY DEF Candidates
  <1>2. \A c : BaseFor(c)' = BaseFor(c)
    BY DEF BaseFor, EffectiveFor
  <1>3. \A c : CeilingsFor(c)' = CeilingsFor(c)
    BY DEF CeilingsFor, EffectiveFor
  <1>4. \A c, d, u : Schedule16(c, d, u)' = Schedule16(c, d, u)
    BY <1>1 DEF Schedule16
  <1>5. \A c, d, u : Schedule201(c, d, u)' = Schedule201(c, d, u)
    BY <1>2, <1>3 DEF Schedule201
  <1>6. \A c : MeteredPower(c)' = MeteredPower(c)
    BY <1>2, <1>3 DEF MeteredPower
  <1> QED BY <1>4, <1>5, <1>6 DEF Snapshot201

\* Every step preserves ReplyInv.
LEMMA ReplyStep == ReplyInv /\ [Next]_vars => ReplyInv'
  <1> SUFFICES ASSUME ReplyInv, [Next]_vars PROVE ReplyInv'
    OBVIOUS
  <1>0. ASSUME reply'.op \in {"None", "Set", "Clear"} PROVE ReplyInv'
    BY <1>0 DEF ReplyInv
  <1>1. ASSUME NEW c \in Ids, NEW p \in Profiles16, SetChargingProfile16(c, p) PROVE ReplyInv'
    BY <1>0, <1>1 DEF SetChargingProfile16
  <1>2. ASSUME NEW c \in Ids, NEW p \in Profiles201, SetChargingProfile201(c, p) PROVE ReplyInv'
    BY <1>0, <1>2 DEF SetChargingProfile201
  <1>3. ASSUME NEW sel, ClearChargingProfile16(sel) PROVE ReplyInv'
    BY <1>0, <1>3 DEF ClearChargingProfile16, ClearReply
  <1>4. ASSUME NEW sel, ClearChargingProfile201(sel) PROVE ReplyInv'
    BY <1>0, <1>4 DEF ClearChargingProfile201, Free, NoReply
  <1>15. ASSUME NEW e, ClearMatch(e) PROVE ReplyInv'
    BY <1>0, <1>15 DEF ClearMatch, NoReply
  <1>16. CASE ClearAnswered
    BY <1>0, <1>16 DEF ClearAnswered, ClearReply
  <1>5. ASSUME NEW c \in Connectors, NEW p \in Profiles201 \cup {None}, OpenTransaction(c, p)
        PROVE  ReplyInv'
    BY <1>0, <1>5 DEF OpenTransaction, NoReply
  <1>6. ASSUME NEW c \in Connectors, NEW p \in Profiles201, BindTxProfile(c, p) PROVE ReplyInv'
    BY <1>0, <1>6 DEF BindTxProfile, NoReply
  <1>7. ASSUME NEW c \in Connectors, CloseTransaction(c) PROVE ReplyInv'
    BY <1>0, <1>7 DEF CloseTransaction, NoReply
  <1>8. CASE Tick
    BY <1>0, <1>8 DEF Tick, NoReply
  <1>9. ASSUME NEW c \in Ids, NEW d \in Durations, NEW u \in {"A", "W", None},
               GetCompositeSchedule16(c, d, u)
        PROVE  ReplyInv'
    <2>1. /\ version = "V16J" /\ version' = "V16J"
          /\ UNCHANGED <<version, clock, txStart, profiles, txProfiles, txDefaults, ceilings>>
          /\ reply' = Schedule16(c, d, u)
      BY <1>9 DEF GetCompositeSchedule16, Free, stores
    <2>2. reply'.op = "Composite"
      BY <2>1 DEF Schedule16, CompositeReply
    <2>3. reply' = Schedule16(c, d, u)'
      BY <2>1, SameAnswers
    <2> QED BY <2>1, <2>2, <2>3 DEF ReplyInv
  <1>10. ASSUME NEW c \in Ids, NEW d \in Durations, NEW u \in {"A", "W", None},
                GetCompositeSchedule201(c, d, u)
         PROVE  ReplyInv'
    <2>1. /\ version = "V201" /\ version' = "V201"
          /\ UNCHANGED <<version, clock, txStart, profiles, txProfiles, txDefaults, ceilings>>
          /\ reply' = Schedule201(c, d, u)
      BY <1>10 DEF GetCompositeSchedule201, Free, stores
    <2>2. reply'.op = "Composite"
      BY <2>1 DEF Schedule201, CompositeReply
    <2>3. reply' = Schedule201(c, d, u)'
      BY <2>1, SameAnswers
    <2> QED BY <2>1, <2>2, <2>3 DEF ReplyInv
  <1>11. ASSUME NEW c, NEW q, GetChargingProfiles(c, q) PROVE ReplyInv'
    <2>1. /\ version = "V201" /\ version' = "V201"
          /\ UNCHANGED <<version, clock, txStart, profiles, txProfiles, txDefaults, ceilings>>
      BY <1>11 DEF GetChargingProfiles, Free, stores
    <2>2. PICK m : /\ m \subseteq Snapshot201
                   /\ reply' = [op |-> "Report", matched |-> m, pages |-> ReportPages(m),
                                status |-> IF m = {} THEN "NoProfiles" ELSE "Accepted"]
      BY <1>11 DEF GetChargingProfiles
    <2>3. Snapshot201' = Snapshot201
      BY <2>1, SameAnswers
    <2>4. reply'.op = "Report" /\ reply'.matched = m /\ reply'.pages = ReportPages(m)
      BY <2>2
    <2> QED BY <2>1, <2>2, <2>3, <2>4 DEF ReplyInv
  <1>12. ASSUME NEW c \in Connectors, Sample(c) PROVE ReplyInv'
    <2>1. /\ version = "V201" /\ version' = "V201" /\ txStart[c] # None
          /\ UNCHANGED <<version, clock, txStart, profiles, txProfiles, txDefaults, ceilings>>
          /\ reply' = [op |-> "Sample", connector |-> c, power |-> MeteredPower(c)]
      BY <1>12 DEF Sample, Busy, Free, stores
    <2>2. reply'.op = "Sample"
      BY <2>1
    <2>3. reply' = [op |-> "Sample", connector |-> c, power |-> MeteredPower(c)']
      BY <2>1, SameAnswers
    <2> QED BY <2>1, <2>2, <2>3 DEF ReplyInv
  <1>13. CASE ReplySent
    BY <1>0, <1>13 DEF ReplySent, NoReply
  <1>14. CASE UNCHANGED vars
    <2>1. /\ UNCHANGED <<version, clock, txStart, profiles, txProfiles, txDefaults, ceilings>>
          /\ UNCHANGED reply
      BY <1>14 DEF vars, stores
    <2>2. /\ \A c, d, u : Schedule16(c, d, u)' = Schedule16(c, d, u)
          /\ \A c, d, u : Schedule201(c, d, u)' = Schedule201(c, d, u)
          /\ \A c : MeteredPower(c)' = MeteredPower(c)
          /\ Snapshot201' = Snapshot201
      BY <2>1, SameAnswers
    <2> QED BY <2>1, <2>2 DEF ReplyInv
  <1> QED
    BY <1>1, <1>2, <1>3, <1>4, <1>5, <1>6, <1>7, <1>8, <1>9, <1>10, <1>11, <1>12, <1>13, <1>14, <1>15,
       <1>16
    DEF Next

\* The invariant of every state of the station.
LEMMA Invariant == Spec => []IInv
  <1>1. IInv /\ [Next]_vars => IInv'
    BY StoresStep, ReplyStep DEF IInv
  <1> QED BY <1>1, InitInv, PTL DEF Spec

\* The stores hold profiles only, under the ids a request may name, and only
\* those of the station's protocol version are filled.
THEOREM TypeCorrect == Spec => []TypeOK
  <1>1. IInv => TypeOK
    BY DEF IInv, StoresInv
  <1> QED BY <1>1, Invariant, PTL

\* Lexicographic order of three numbers.
LEMMA LexLess3 ==
  ASSUME NEW a \in Int, NEW b \in Int, NEW c \in Int,
         NEW d \in Int, NEW e \in Int, NEW f \in Int
  PROVE  LexLess(<<a, b, c>>, <<d, e, f>>) <=>
            a < d \/ (a = d /\ b < e) \/ (a = d /\ b = e /\ c < f)
  <1> DEFINE u == <<a, b, c>>
             v == <<d, e, f>>
  <1>1. /\ DOMAIN u = {1, 2, 3} /\ u[1] = a /\ u[2] = b /\ u[3] = c
        /\ v[1] = d /\ v[2] = e /\ v[3] = f
    OBVIOUS
  <1> HIDE DEF u, v
  <1>2. 1..(1 - 1) = {} /\ 1..(2 - 1) = {1} /\ 1..(3 - 1) = {1, 2}
    OBVIOUS
  <1>3. LexLess(u, v) <=> \E i \in {1, 2, 3} : u[i] < v[i] /\ \A j \in 1..(i - 1) : u[j] = v[j]
    BY <1>1 DEF LexLess
  <1>4. LexLess(u, v) <=> \/ u[1] < v[1]
                          \/ u[2] < v[2] /\ u[1] = v[1]
                          \/ u[3] < v[3] /\ u[1] = v[1] /\ u[2] = v[2]
    BY <1>2, <1>3
  <1> QED BY <1>1, <1>4 DEF u, v

\* Lexicographic order of single numbers.
LEMMA LexLess1 ==
  ASSUME NEW a \in Int, NEW b \in Int
  PROVE  LexLess(<<a>>, <<b>>) <=> a < b
  <1> DEFINE u == <<a>>
             v == <<b>>
  <1>1. DOMAIN u = {1} /\ u[1] = a /\ v[1] = b
    OBVIOUS
  <1> HIDE DEF u, v
  <1>2. 1..(1 - 1) = {}
    OBVIOUS
  <1>3. LexLess(u, v) <=> u[1] < v[1]
    BY <1>1, <1>2 DEF LexLess
  <1> QED BY <1>1, <1>3 DEF u, v

(* The stores are sound *)

\* What a 1.6J station has installed.
LEMMA InstalledAt16 ==
  ASSUME version = "V16J", NEW e
  PROVE  e \in Installed <=> \E c \in Ids : \E q \in Range(profiles[c]) : e = <<c, q>>
  BY DEF Installed

\* A list that repeats nothing is as long as its set of elements.
LEMMA LenOfInjective ==
  ASSUME NEW A, NEW s \in Seq(A), IsInjective(s)
  PROVE  Len(s) = Cardinality(Range(s))
  <1>1. Len(s) \in Nat /\ DOMAIN s = 1..Len(s) /\ s \in [1..Len(s) -> A]
    BY LenProperties
  <1>2. s \in [1..Len(s) -> Range(s)] /\ \A t \in Range(s) : \E i \in 1..Len(s) : s[i] = t
    BY <1>1 DEF Range
  <1>3. s \in Injection(1..Len(s), Range(s)) /\ s \in Surjection(1..Len(s), Range(s))
    BY <1>1, <1>2 DEF Injection, Surjection, IsInjective
  <1>4. IsFiniteSet(1..Len(s)) /\ Cardinality(1..Len(s)) = Len(s)
    BY <1>1, FS_Interval
  <1>5. Cardinality(Range(s)) = Cardinality(1..Len(s))
    BY <1>3, <1>4, FS_Surjection
  <1> QED BY <1>4, <1>5

\* Among the profiles that bear on a connector, of two of one purpose one outranks
\* the other.
LEMMA RankedApart ==
  ASSUME StoresInv, version = "V16J", NEW e \in Installed, NEW f \in Installed,
         e # f, e[2].purpose = f[2].purpose
  PROVE  Outranks(e, f) \/ Outranks(f, e)
  <1>1. PICK c \in Ids : \E q \in Range(profiles[c]) : e = <<c, q>>
    BY InstalledAt16
  <1>2. PICK q \in Range(profiles[c]) : e = <<c, q>>
    BY <1>1
  <1>3. PICK d \in Ids : \E r \in Range(profiles[d]) : f = <<d, r>>
    BY InstalledAt16
  <1>4. PICK r \in Range(profiles[d]) : f = <<d, r>>
    BY <1>3
  <1>5. e[1] = c /\ e[2] = q /\ f[1] = d /\ f[2] = r
    BY <1>2, <1>4
  <1>6. q \in Profiles16 /\ r \in Profiles16
    BY ElementOfSeq DEF StoresInv, TypeOK, Range
  <1>7. q.stack \in Int /\ r.stack \in Int /\ c \in Int /\ d \in Int
    BY <1>6, ProfilesAssumption DEF IsProfile, Ids
  <1>8. q.purpose = r.purpose /\ ~(c = d /\ q = r)
    BY <1>2, <1>4, <1>5
  <1>9. ~(c = d /\ q.stack = r.stack)
    BY <1>8 DEF StoresInv, UniqueInv
  <1>10. PICK t \in {0, 1} : /\ t = IF q.purpose = "TxProfile" THEN 1 ELSE 0
                             /\ t = IF r.purpose = "TxProfile" THEN 1 ELSE 0
    BY <1>8
  <1>11. /\ Outranks(e, f) <=> LexLess(<<t, d, r.stack>>, <<t, c, q.stack>>)
         /\ Outranks(f, e) <=> LexLess(<<t, c, q.stack>>, <<t, d, r.stack>>)
    BY <1>5, <1>10 DEF Outranks
  <1>12. t \in Int
    OBVIOUS
  <1>13. /\ LexLess(<<t, d, r.stack>>, <<t, c, q.stack>>) <=> d < c \/ (d = c /\ r.stack < q.stack)
         /\ LexLess(<<t, c, q.stack>>, <<t, d, r.stack>>) <=> c < d \/ (d = c /\ q.stack < r.stack)
    BY <1>7, <1>12, LexLess3
  <1> QED BY <1>7, <1>9, <1>11, <1>13

\* However profiles are installed, replaced and cleared, ids and places stay unique
\* and ranks distinct (charging_profiles.rs, set and clear).
THEOREM StackIsSoundHolds == Spec => []StackIsSound
  <1>1. ASSUME IInv PROVE StackIsSound
    <2> SUFFICES ASSUME version = "V16J"
                 PROVE  /\ \A e, f \in Installed : e[2].id = f[2].id => e = f
                        /\ \A c \in Ids : \A e, f \in {x \in Installed : x[1] \in {0, c}} :
                              e # f /\ e[2].purpose = f[2].purpose =>
                                  Outranks(e, f) \/ Outranks(f, e)
                        /\ \A c \in Ids : Len(profiles[c]) = Cardinality(Range(profiles[c]))
      BY DEF StackIsSound
    <2>1. ASSUME NEW e \in Installed, NEW f \in Installed, e[2].id = f[2].id PROVE e = f
      <3>1. PICK c \in Ids : \E q \in Range(profiles[c]) : e = <<c, q>>
        BY InstalledAt16
      <3>2. PICK q \in Range(profiles[c]) : e = <<c, q>>
        BY <3>1
      <3>3. PICK d \in Ids : \E r \in Range(profiles[d]) : f = <<d, r>>
        BY InstalledAt16
      <3>4. PICK r \in Range(profiles[d]) : f = <<d, r>>
        BY <3>3
      <3>5. q.id = r.id
        BY <2>1, <3>2, <3>4
      <3>6. c = d /\ q = r
        BY <1>1, <3>5 DEF IInv, StoresInv, UniqueInv
      <3> QED BY <3>2, <3>4, <3>6
    <2>2. ASSUME NEW e \in Installed, NEW f \in Installed, e # f, e[2].purpose = f[2].purpose
          PROVE  Outranks(e, f) \/ Outranks(f, e)
      BY <1>1, <2>2, RankedApart DEF IInv
    <2>3. ASSUME NEW c \in Ids PROVE Len(profiles[c]) = Cardinality(Range(profiles[c]))
      <3>1. profiles[c] \in Seq(Profiles16) /\ IsInjective(profiles[c])
        BY <1>1 DEF IInv, StoresInv, TypeOK, OnceInv
      <3> QED BY <3>1, LenOfInjective
    <2> QED BY <2>1, <2>2, <2>3
  <1> QED BY <1>1, Invariant, PTL

(* Clearing.  A clear under way is followed by its snapshot b, the matches m, those *)
(* still to be removed l, and the EVSEs r whose TxProfile another task wrote.       *)

\* Two profiles of one slot.
SameSlot(e, f) == f[1] = e[1] /\ f[2].purpose = e[2].purpose

\* An EVSE and a profile of a purpose that a 2.0.1 store is there for.
Slotted(e) ==
    e[1] \in Ids /\ e[2].purpose \in {"TxProfile", "TxDefaultProfile", "ChargingStationMaxProfile",
                                      "ChargingStationExternalConstraints"}

\* Of the slots no other task wrote, the set S of installed profiles holds what the
\* snapshot held less the matches that were removed.
Tracks(S, b, m, l, r) ==
    /\ l \subseteq m /\ m \subseteq b
    /\ \A e \in b : Slotted(e)
    /\ \A e : ~Raced(e, r) => (e \in S <=> (e \in b /\ (e \in m => e \in l)))

\* The invariant of a clear under way.
ClearInv ==
    clearing # None =>
        /\ version = "V201"
        /\ \E b, m, l, r : /\ clearing = [before |-> b, matches |-> m, left |-> l, raced |-> r]
                           /\ Tracks(Snapshot201, b, m, l, r)

\* It starts from the snapshot,
LEMMA TracksStart ==
  ASSUME NEW S, NEW m, m \subseteq S, \A e \in S : Slotted(e)
  PROVE  Tracks(S, S, m, m, {})
  BY DEF Tracks, Raced

\* it bears the TxProfile of one EVSE being written,
LEMMA TracksWrite ==
  ASSUME NEW S, NEW T, NEW b, NEW m, NEW l, NEW r, NEW c, Tracks(S, b, m, l, r),
         \A f : ~(f[2].purpose = "TxProfile" /\ f[1] = c) => (f \in T <=> f \in S)
  PROVE  Tracks(T, b, m, l, r \cup {c})
  <1>1. ASSUME NEW e, ~Raced(e, r \cup {c})
        PROVE  e \in T <=> (e \in b /\ (e \in m => e \in l))
    <2>1. ~Raced(e, r) /\ ~(e[2].purpose = "TxProfile" /\ e[1] = c)
      BY <1>1 DEF Raced
    <2> QED BY <2>1 DEF Tracks
  <1> QED BY <1>1 DEF Tracks

\* and it goes on when the slot of a match is emptied.
LEMMA TracksClear ==
  ASSUME NEW S, NEW T, NEW b, NEW m, NEW l, NEW r, NEW e \in l, Tracks(S, b, m, l, r),
         \A f : f \in T <=> (f \in S /\ ~SameSlot(e, f)),
         \A f, g \in S : SameSlot(f, g) => f = g
  PROVE  Tracks(T, b, m, l \ {e}, r)
  <1>0. e \in m /\ e \in b
    BY DEF Tracks
  <1>1. ASSUME NEW f, ~Raced(f, r)
        PROVE  f \in T <=> (f \in b /\ (f \in m => f \in l \ {e}))
    <2>1. f \in S <=> (f \in b /\ (f \in m => f \in l))
      BY <1>1 DEF Tracks
    <2>2. CASE Raced(e, r)
      <3>1. ~SameSlot(e, f)
        BY <1>1, <2>2 DEF Raced, SameSlot
      <3>2. f # e
        BY <1>1, <2>2
      <3> QED BY <2>1, <3>1, <3>2
    <2>3. CASE ~Raced(e, r)
      <3>1. e \in S
        BY <1>0, <2>3 DEF Tracks
      <3>2. f \in S => (SameSlot(e, f) <=> f = e)
        BY <3>1 DEF SameSlot
      <3> QED BY <1>0, <2>1, <3>2
    <2> QED BY <2>2, <2>3
  <1> QED BY <1>1 DEF Tracks

\* A slot holds one profile.
LEMMA Slots ==
  ASSUME Place201Inv
  PROVE  /\ \A e \in Snapshot201 : Slotted(e)
         /\ \A e, f \in Snapshot201 : SameSlot(e, f) => e = f
  <1>1. ASSUME NEW e \in Snapshot201
        PROVE  /\ Slotted(e)
               /\ e = <<e[1], e[2]>>
               /\ e[2].purpose = "TxProfile" => e[2] = txProfiles[e[1]]
               /\ e[2].purpose = "TxDefaultProfile" => e[2] = txDefaults[e[1]]
               /\ e[2].purpose \notin {"TxProfile", "TxDefaultProfile"} =>
                     e[2] = ceilings[KindOf(e[2].purpose)][e[1]]
    <2>1. PICK c \in Ids :
              \/ txProfiles[c] # None /\ e = <<c, txProfiles[c]>>
              \/ txDefaults[c] # None /\ e = <<c, txDefaults[c]>>
              \/ \E k \in CeilingKinds : ceilings[k][c] # None /\ e = <<c, ceilings[k][c]>>
      BY SnapshotOf
    <2>2. CASE txProfiles[c] # None /\ e = <<c, txProfiles[c]>>
      <3>1. e[1] = c /\ e[2] = txProfiles[c] /\ e[2].purpose = "TxProfile"
        BY <2>2 DEF Place201Inv
      <3> QED BY <2>2, <3>1 DEF Slotted
    <2>3. CASE txDefaults[c] # None /\ e = <<c, txDefaults[c]>>
      <3>1. e[1] = c /\ e[2] = txDefaults[c] /\ e[2].purpose = "TxDefaultProfile"
        BY <2>3 DEF Place201Inv
      <3> QED BY <2>3, <3>1 DEF Slotted
    <2>4. ASSUME NEW k \in CeilingKinds, ceilings[k][c] # None, e = <<c, ceilings[k][c]>>
          PROVE  /\ Slotted(e)
                 /\ e = <<e[1], e[2]>>
                 /\ e[2].purpose \notin {"TxProfile", "TxDefaultProfile"}
                 /\ e[2] = ceilings[KindOf(e[2].purpose)][e[1]]
      <3>1. /\ e[1] = c /\ e[2] = ceilings[k][c] /\ KindOf(e[2].purpose) = k
            /\ e[2].purpose \in {"ChargingStationMaxProfile", "ChargingStationExternalConstraints"}
        BY <2>4 DEF Place201Inv
      <3> QED BY <2>4, <3>1 DEF Slotted
    <2> QED BY <2>1, <2>2, <2>3, <2>4
  <1>2. ASSUME NEW e \in Snapshot201, NEW f \in Snapshot201, SameSlot(e, f) PROVE e = f
    <2>1. e[1] = f[1] /\ e[2].purpose = f[2].purpose
      BY <1>2 DEF SameSlot
    <2>2. e[2] = f[2]
      BY <1>1, <2>1
    <2> QED BY <1>1, <2>1, <2>2
  <1> QED BY <1>1, <1>2

\* Emptying the slot of a match takes away what is in that slot.
LEMMA SlotEmptied ==
  ASSUME TypeOK, Place201Inv, NEW e, Slotted(e), ClearMatch(e), NEW f
  PROVE  f \in Snapshot201' <=> (f \in Snapshot201 /\ ~SameSlot(e, f))
  <1> DEFINE c == e[1]
             q == e[2].purpose
  <1>0. c \in Ids /\ q \in {"TxProfile", "TxDefaultProfile", "ChargingStationMaxProfile",
                            "ChargingStationExternalConstraints"}
    BY DEF Slotted
  <1>1. \A d \in Ids : txProfiles'[d] = IF q = "TxProfile" /\ d = c THEN None ELSE txProfiles[d]
    BY DEF ClearMatch, StoreOf, TypeOK
  <1>2. \A d \in Ids :
           txDefaults'[d] = IF q = "TxDefaultProfile" /\ d = c THEN None ELSE txDefaults[d]
    BY DEF ClearMatch, StoreOf, TypeOK
  <1>3. \A d \in Ids, k \in CeilingKinds :
           ceilings'[k][d] = IF /\ q \notin {"TxProfile", "TxDefaultProfile"}
                                /\ k = KindOf(q) /\ d = c
                             THEN None ELSE ceilings[k][d]
    <2>1. KindOf(q) \in CeilingKinds
      BY DEF KindOf, CeilingKinds
    <2>2. ceilings' = IF q \notin {"TxProfile", "TxDefaultProfile"}
                      THEN [ceilings EXCEPT ![KindOf(q)][c] = None] ELSE ceilings
      BY DEF ClearMatch, StoreOf
    <2> HIDE DEF c, q
    <2> QED BY <1>0, <2>1, <2>2 DEF TypeOK
  <1>4. SameSlot(e, f) <=> f[1] = c /\ f[2].purpose = q
    BY DEF SameSlot
  <1> HIDE DEF c, q
  <1>5. f \in Snapshot201' <=>
          \E d \in Ids :
            \/ txProfiles'[d] # None /\ f = <<d, txProfiles'[d]>>
            \/ txDefaults'[d] # None /\ f = <<d, txDefaults'[d]>>
            \/ \E k \in CeilingKinds : ceilings'[k][d] # None /\ f = <<d, ceilings'[k][d]>>
    BY DEF Snapshot201
  <1>6. \A d \in Ids : (txProfiles'[d] # None /\ f = <<d, txProfiles'[d]>>) <=>
           (txProfiles[d] # None /\ f = <<d, txProfiles[d]>> /\ ~SameSlot(e, f))
    BY <1>1, <1>4 DEF Place201Inv
  <1>7. \A d \in Ids : (txDefaults'[d] # None /\ f = <<d, txDefaults'[d]>>) <=>
           (txDefaults[d] # None /\ f = <<d, txDefaults[d]>> /\ ~SameSlot(e, f))
    BY <1>2, <1>4 DEF Place201Inv
  <1>8. ASSUME NEW d \in Ids, NEW k \in CeilingKinds
        PROVE  (ceilings'[k][d] # None /\ f = <<d, ceilings'[k][d]>>) <=>
                  (ceilings[k][d] # None /\ f = <<d, ceilings[k][d]>> /\ ~SameSlot(e, f))
    <2>1. ceilings[k][d] # None =>
             /\ ceilings[k][d].purpose \in {"ChargingStationMaxProfile",
                                            "ChargingStationExternalConstraints"}
             /\ KindOf(ceilings[k][d].purpose) = k
      BY DEF Place201Inv
    <2>2. ceilings[k][d] # None =>
             (ceilings[k][d].purpose = q <=> q \notin {"TxProfile", "TxDefaultProfile"} /\ k = KindOf(q))
      BY <1>0, <2>1 DEF KindOf
    <2> QED BY <1>3, <1>4, <2>2
  <1> QED BY <1>5, <1>6, <1>7, <1>8, SnapshotOf

\* A TxProfile written at one EVSE leaves the other slots alone.
LEMMA SlotWritten ==
  ASSUME TypeOK, Place201Inv, NEW c, NEW v, txProfiles' = [txProfiles EXCEPT ![c] = v],
         v # None => v.purpose = "TxProfile", UNCHANGED <<txDefaults, ceilings>>,
         NEW f, ~(f[2].purpose = "TxProfile" /\ f[1] = c)
  PROVE  f \in Snapshot201' <=> f \in Snapshot201
  <1>1. f \in Snapshot201' <=>
          \E d \in Ids :
            \/ txProfiles'[d] # None /\ f = <<d, txProfiles'[d]>>
            \/ txDefaults[d] # None /\ f = <<d, txDefaults[d]>>
            \/ \E k \in CeilingKinds : ceilings[k][d] # None /\ f = <<d, ceilings[k][d]>>
    BY DEF Snapshot201
  <1>2. \A d \in Ids : txProfiles'[d] = IF d = c THEN v ELSE txProfiles[d]
    BY DEF TypeOK
  <1>3. \A d \in Ids : (txProfiles'[d] # None /\ f = <<d, txProfiles'[d]>>) <=>
                          (txProfiles[d] # None /\ f = <<d, txProfiles[d]>>)
    BY <1>2 DEF Place201Inv
  <1> QED BY <1>1, <1>3, SnapshotOf

\* A clear under way bears a TxProfile being written.
LEMMA ClearBearsWrite ==
  ASSUME StoresInv, ClearInv, NEW c, NEW v, txProfiles' = [txProfiles EXCEPT ![c] = v],
         v # None => v.purpose = "TxProfile", UNCHANGED <<version, txDefaults, ceilings>>,
         clearing' = TxProfileWritten(c)
  PROVE  ClearInv'
  <1>1. CASE clearing = None
    BY <1>1 DEF TxProfileWritten, ClearInv
  <1>2. CASE clearing # None
    <2>1. PICK b, m, l, r : /\ clearing = [before |-> b, matches |-> m, left |-> l, raced |-> r]
                            /\ Tracks(Snapshot201, b, m, l, r)
      BY <1>2 DEF ClearInv
    <2>2. clearing' = [before |-> b, matches |-> m, left |-> l, raced |-> r \cup {c}]
      BY <1>2, <2>1 DEF TxProfileWritten
    <2>3. PICK S, T : S = Snapshot201 /\ T = Snapshot201'
      OBVIOUS
    <2>4. \A f : ~(f[2].purpose = "TxProfile" /\ f[1] = c) => (f \in T <=> f \in S)
      BY <2>3, SlotWritten DEF StoresInv
    <2>5. Tracks(T, b, m, l, r \cup {c})
      BY <2>1, <2>3, <2>4, TracksWrite
    <2>6. version' = "V201"
      BY <1>2 DEF ClearInv
    <2> QED BY <2>2, <2>3, <2>5, <2>6 DEF ClearInv
  <1> QED BY <1>1, <1>2

\* Every step preserves the invariant of a clear.
LEMMA ClearStep == StoresInv /\ ClearInv /\ [Next]_vars => ClearInv'
  <1> SUFFICES ASSUME StoresInv, ClearInv, [Next]_vars PROVE ClearInv'
    OBVIOUS
  <1>0. ASSUME UNCHANGED <<version, txProfiles, txDefaults, ceilings, clearing>> PROVE ClearInv'
    <2>1. Snapshot201' = Snapshot201
      BY <1>0 DEF Snapshot201
    <2> QED BY <1>0, <2>1 DEF ClearInv
  <1>1. ASSUME clearing' = None PROVE ClearInv'
    BY <1>1 DEF ClearInv
  <1>2. ASSUME NEW c \in Ids, NEW p \in Profiles16, SetChargingProfile16(c, p) PROVE ClearInv'
    BY <1>0, <1>2 DEF SetChargingProfile16
  <1>3. ASSUME NEW c \in Ids, NEW p \in Profiles201, SetChargingProfile201(c, p) PROVE ClearInv'
    BY <1>1, <1>3 DEF SetChargingProfile201, Free
  <1>4. ASSUME NEW sel, ClearChargingProfile16(sel) PROVE ClearInv'
    BY <1>0, <1>4 DEF ClearChargingProfile16
  <1>5. ASSUME NEW sel, ClearChargingProfile201(sel) PROVE ClearInv'
    <2>1. version' = "V201" /\ UNCHANGED <<txProfiles, txDefaults, ceilings>> /\ version = "V201"
      BY <1>5 DEF ClearChargingProfile201, Free, stores
    <2>2. PICK S, m : S = Snapshot201 /\ m = Matches(sel)
      OBVIOUS
    <2>3. m \subseteq S
      BY <2>1, <2>2 DEF Matches, Installed
    <2>4. \A e \in S : Slotted(e)
      BY <2>2, Slots DEF StoresInv
    <2>5. Tracks(S, S, m, m, {})
      BY <2>3, <2>4, TracksStart
    <2>6. clearing' = [before |-> S, matches |-> m, left |-> m, raced |-> {}]
      BY <1>5, <2>2 DEF ClearChargingProfile201
    <2>7. Snapshot201' = S
      BY <2>1, <2>2 DEF Snapshot201
    <2> QED BY <2>1, <2>5, <2>6, <2>7 DEF ClearInv
  <1>6. ASSUME NEW e \in Uncleared, ClearMatch(e) PROVE ClearInv'
    <2>1. clearing # None /\ e \in clearing.left
      BY <1>6 DEF Uncleared
    <2>2. PICK b, m, l, r : /\ clearing = [before |-> b, matches |-> m, left |-> l, raced |-> r]
                            /\ Tracks(Snapshot201, b, m, l, r)
      BY <2>1 DEF ClearInv
    <2>3. e \in l /\ Slotted(e)
      BY <2>1, <2>2 DEF Tracks
    <2>4. clearing' = [before |-> b, matches |-> m, left |-> l \ {e}, raced |-> r]
      BY <1>6, <2>2 DEF ClearMatch
    <2>5. PICK S, T : S = Snapshot201 /\ T = Snapshot201'
      OBVIOUS
    <2>6. \A f : f \in T <=> (f \in S /\ ~SameSlot(e, f))
      BY <1>6, <2>3, <2>5, SlotEmptied DEF StoresInv
    <2>7. \A f, g \in S : SameSlot(f, g) => f = g
      BY <2>5, Slots DEF StoresInv
    <2>8. Tracks(T, b, m, l \ {e}, r)
      BY <2>2, <2>3, <2>5, <2>6, <2>7, TracksClear
    <2>9. version' = "V201"
      BY <1>6, <2>1 DEF ClearMatch, ClearInv
    <2> QED BY <2>4, <2>5, <2>8, <2>9 DEF ClearInv
  <1>7. CASE ClearAnswered
    BY <1>1, <1>7 DEF ClearAnswered
  <1>8. ASSUME NEW c \in Connectors, NEW p \in Profiles201 \cup {None}, OpenTransaction(c, p)
        PROVE  ClearInv'
    <2>1. CASE p = None
      BY <1>0, <1>8, <2>1 DEF OpenTransaction
    <2>2. CASE p # None
      <3>1. /\ txProfiles' = [txProfiles EXCEPT ![c] = p] /\ clearing' = TxProfileWritten(c)
            /\ UNCHANGED <<version, txDefaults, ceilings>> /\ p.purpose = "TxProfile"
        BY <1>8, <2>2 DEF OpenTransaction
      <3> QED BY <3>1, ClearBearsWrite
    <2> QED BY <2>1, <2>2
  <1>9. ASSUME NEW c \in Connectors, NEW p \in Profiles201, BindTxProfile(c, p) PROVE ClearInv'
    BY <1>9, ClearBearsWrite DEF BindTxProfile
  <1>10. ASSUME NEW c \in Connectors, CloseTransaction(c) PROVE ClearInv'
    BY <1>10, ClearBearsWrite DEF CloseTransaction
  <1>11. CASE Tick
    BY <1>0, <1>11 DEF Tick, stores
  <1>12. ASSUME NEW c, NEW d, NEW u, GetCompositeSchedule16(c, d, u) PROVE ClearInv'
    BY <1>0, <1>12 DEF GetCompositeSchedule16, stores
  <1>13. ASSUME NEW c, NEW d, NEW u, GetCompositeSchedule201(c, d, u) PROVE ClearInv'
    BY <1>0, <1>13 DEF GetCompositeSchedule201, stores
  <1>14. ASSUME NEW c, NEW q, GetChargingProfiles(c, q) PROVE ClearInv'
    BY <1>0, <1>14 DEF GetChargingProfiles, stores
  <1>15. ASSUME NEW c, Sample(c) PROVE ClearInv'
    BY <1>0, <1>15 DEF Sample, stores
  <1>16. CASE ReplySent
    BY <1>0, <1>16 DEF ReplySent, stores
  <1>17. CASE UNCHANGED vars
    BY <1>0, <1>17 DEF vars, stores
  <1> QED
    BY <1>2, <1>3, <1>4, <1>5, <1>6, <1>7, <1>8, <1>9, <1>10, <1>11, <1>12, <1>13, <1>14, <1>15,
       <1>16, <1>17
    DEF Next

\* The 1.6J store after a clear.
LEMMA Cleared16 ==
  ASSUME StoresInv, NEW sel, ClearChargingProfile16(sel)
  PROVE  Installed' = {e \in Installed : ~Selects(sel, e[1], e[2])}
  <1>1. /\ version = "V16J" /\ version' = "V16J"
        /\ profiles' = [c \in Ids |->
              Retain(profiles[c], {q \in Range(profiles[c]) : Selects(sel, c, q)})]
    BY DEF ClearChargingProfile16, Free
  <1>2. ASSUME NEW c \in Ids, NEW q
        PROVE  q \in Range(profiles'[c]) <=> q \in Range(profiles[c]) /\ ~Selects(sel, c, q)
    <2>1. profiles[c] \in Seq(Profiles16)
      BY DEF StoresInv, TypeOK
    <2>2. profiles'[c] = Retain(profiles[c], {x \in Range(profiles[c]) : Selects(sel, c, x)})
      BY <1>1
    <2>3. Range(profiles'[c]) =
            Range(profiles[c]) \ {x \in Range(profiles[c]) : Selects(sel, c, x)}
      BY <2>1, <2>2, Retained
    <2> QED BY <2>3
  <1>3. Installed' = UNION {{<<c, q>> : q \in Range(profiles'[c])} : c \in Ids}
    BY <1>1 DEF Installed
  <1>4. Installed' = {e \in Installed : ~Selects(sel, e[1], e[2])}
    <2>1. ASSUME NEW e \in Installed' PROVE e \in Installed /\ ~Selects(sel, e[1], e[2])
      <3>1. PICK c \in Ids : \E q \in Range(profiles'[c]) : e = <<c, q>>
        BY <1>3, <2>1
      <3>2. PICK q \in Range(profiles'[c]) : e = <<c, q>>
        BY <3>1
      <3>3. q \in Range(profiles[c]) /\ ~Selects(sel, c, q)
        BY <1>2
      <3>4. e \in Installed
        BY <1>1, <3>2, <3>3, InstalledAt16
      <3> QED BY <3>2, <3>3, <3>4
    <2>2. ASSUME NEW e \in Installed, ~Selects(sel, e[1], e[2]) PROVE e \in Installed'
      <3>1. PICK c \in Ids : \E q \in Range(profiles[c]) : e = <<c, q>>
        BY <1>1, InstalledAt16
      <3>2. PICK q \in Range(profiles[c]) : e = <<c, q>>
        BY <3>1
      <3>3. ~Selects(sel, c, q)
        BY <2>2, <3>2
      <3>4. q \in Range(profiles'[c])
        BY <1>2, <3>3
      <3> QED BY <1>3, <3>2, <3>4
    <2> QED BY <2>1, <2>2
  <1> QED BY <1>4

\* What is removed when a clear is answered is what it matched, but for the slots
\* that another task wrote meanwhile, and it is Accepted exactly if it matched.
THEOREM ClearIsHonestHolds == Spec => []ClearIsHonest
  <1>1. Init => ClearInv /\ ClearIsHonest
    BY DEF Init, ClearInv, ClearIsHonest, NoReply
  <1>2. ASSUME StoresInv, ClearInv, ClearAnswered PROVE ClearIsHonest'
    <2>1. PICK b, m, l, r : /\ clearing = [before |-> b, matches |-> m, left |-> l, raced |-> r]
                            /\ Tracks(Snapshot201, b, m, l, r)
      BY <1>2 DEF ClearInv, ClearAnswered
    <2>2. l = {} /\ reply' = ClearReply(b, m, r)
      BY <1>2, <2>1 DEF ClearAnswered, Uncleared
    <2>3. Installed' = Snapshot201
      BY <1>2 DEF ClearAnswered, ClearInv, stores, Installed, Snapshot201
    <2>4. /\ reply'.before = b /\ reply'.matches = m /\ reply'.raced = r
          /\ reply'.status = IF m = {} THEN "Unknown" ELSE "Accepted"
      BY <2>2 DEF ClearReply
    <2>5. \A e : ~Raced(e, r) => (e \in Snapshot201 <=> e \in b \ m)
      BY <2>1, <2>2 DEF Tracks
    <2> QED BY <2>3, <2>4, <2>5 DEF ClearIsHonest
  <1>3. ASSUME StoresInv, NEW sel, ClearChargingProfile16(sel) PROVE ClearIsHonest'
    <2>1. Installed' = {e \in Installed : ~Selects(sel, e[1], e[2])}
      BY <1>3, Cleared16
    <2>2. PICK m : m = Matches(sel)
      OBVIOUS
    <2>3. /\ reply'.before = Installed /\ reply'.matches = m
          /\ reply'.status = IF m = {} THEN "Unknown" ELSE "Accepted"
      BY <1>3, <2>2 DEF ClearChargingProfile16, ClearReply
    <2>4. Installed' = Installed \ m
      BY <2>1, <2>2 DEF Matches
    <2> QED BY <2>3, <2>4 DEF ClearIsHonest
  <1>4. ASSUME IInv, ClearInv, ClearIsHonest, [Next]_vars PROVE ClearIsHonest'
    <2> USE <1>4
    <2>0. ASSUME reply'.op # "Clear" PROVE ClearIsHonest'
      BY <2>0 DEF ClearIsHonest
    <2>1. ASSUME NEW c, NEW p, SetChargingProfile16(c, p) PROVE reply'.op # "Clear"
      BY <2>1 DEF SetChargingProfile16
    <2>2. ASSUME NEW c, NEW p, SetChargingProfile201(c, p) PROVE reply'.op # "Clear"
      BY <2>2 DEF SetChargingProfile201
    <2>3. ASSUME NEW c, NEW d, NEW u, GetCompositeSchedule16(c, d, u) PROVE reply'.op # "Clear"
      BY <2>3 DEF GetCompositeSchedule16, Schedule16, CompositeReply
    <2>4. ASSUME NEW c, NEW d, NEW u, GetCompositeSchedule201(c, d, u) PROVE reply'.op # "Clear"
      BY <2>4 DEF GetCompositeSchedule201, Schedule201, CompositeReply
    <2>5. ASSUME NEW c, NEW q, GetChargingProfiles(c, q) PROVE reply'.op # "Clear"
      BY <2>5 DEF GetChargingProfiles
    <2>6. ASSUME NEW c, NEW p, OpenTransaction(c, p) PROVE reply'.op # "Clear"
      BY <2>6 DEF OpenTransaction, NoReply
    <2>7. ASSUME NEW c, NEW p, BindTxProfile(c, p) PROVE reply'.op # "Clear"
      BY <2>7 DEF BindTxProfile, NoReply
    <2>8. ASSUME NEW c, CloseTransaction(c) PROVE reply'.op # "Clear"
      BY <2>8 DEF CloseTransaction, NoReply
    <2>9. ASSUME NEW c, Sample(c) PROVE reply'.op # "Clear"
      BY <2>9 DEF Sample
    <2>10. ASSUME Tick \/ ReplySent PROVE reply'.op # "Clear"
      BY <2>10 DEF Tick, ReplySent, NoReply
    <2>11. ASSUME NEW sel, ClearChargingProfile201(sel) PROVE reply'.op # "Clear"
      BY <2>11 DEF ClearChargingProfile201, Free, NoReply
    <2>12. ASSUME NEW e, ClearMatch(e) PROVE reply'.op # "Clear"
      BY <2>12 DEF ClearMatch, NoReply
    <2>13. CASE UNCHANGED vars
      <3>1. UNCHANGED <<reply, Installed>>
        BY <2>13 DEF vars, stores, Installed, Snapshot201
      <3> QED BY <3>1 DEF ClearIsHonest
    <2>14. StoresInv
      BY DEF IInv
    <2> QED
      BY <1>2, <1>3, <2>0, <2>1, <2>2, <2>3, <2>4, <2>5, <2>6, <2>7, <2>8, <2>9, <2>10, <2>11,
         <2>12, <2>13, <2>14
      DEF Next
  <1>5. IInv /\ ClearInv /\ [Next]_vars => ClearInv'
    BY ClearStep DEF IInv
  <1> QED BY <1>1, <1>4, <1>5, Invariant, PTL DEF Spec

(* Reports *)

\* The page is for the EVSE and the source of e.
OnPage(e, page) == page.evse = e[1] /\ page.source = LimitSource(e[2].purpose)

\* There are n pages, one for each EVSE and source among the matched profiles.
Paged(pages, matched, n) ==
    /\ DOMAIN pages = 1..n /\ Len(pages) = n
    /\ \A i \in 1..n : pages[i].tbc = (i < n)
    /\ \A i \in 1..n : \A p : p \in pages[i].profiles <=>
          \E e \in matched : OnPage(e, pages[i]) /\ p = e[2]
    /\ \A i \in 1..n : \E e \in matched : OnPage(e, pages[i])
    /\ \A e \in matched : \E i \in 1..n : OnPage(e, pages[i])
    /\ \A i, j \in 1..n :
          pages[i].evse = pages[j].evse /\ pages[i].source = pages[j].source => i = j

\* The pages a ReportChargingProfiles stream is made of: one for each key (EVSE and
\* source) of the matched profiles, in some order.
LEMMA PagesOf ==
  ASSUME NEW matched, \A e \in matched : e[1] \in Ids,
         NEW pages, pages = ReportPages(matched)
  PROVE  \E n \in Nat : Paged(pages, matched, n)
  <1> DEFINE keyOf(e) == <<e[1], LimitSource(e[2].purpose)>>
             keys == {keyOf(e) : e \in matched}
             earlier(k) == {l \in keys : l[1] < k[1] \/ (l[1] = k[1] /\ l[2] = "SO" /\ k[2] = "CSO")}
             before == [k \in keys |-> earlier(k)]
             order == InOrder(before)
             n == Cardinality(keys)
  <1>1. keys \subseteq Ids \X {"CSO", "SO"}
    BY DEF LimitSource
  <1>2. IsFiniteSet(keys)
    <2>1. IsFiniteSet(Ids)
      BY ProfilesAssumption, FS_Interval DEF Ids
    <2>2. IsFiniteSet({"CSO", "SO"})
      <3>1. IsFiniteSet({"CSO"})
        BY FS_Singleton
      <3>2. {"CSO", "SO"} = {"CSO"} \cup {"SO"}
        OBVIOUS
      <3> QED BY <3>1, <3>2, FS_AddElement
    <2>3. IsFiniteSet(Ids \X {"CSO", "SO"})
      BY <2>1, <2>2, FS_Product
    <2> HIDE DEF keys
    <2> QED BY <1>1, <2>3, FS_Subset
  <1>3. \A k \in keys : /\ k[1] \in Int /\ k[2] \in {"CSO", "SO"}
                        /\ k = <<k[1], k[2]>>
    BY <1>1, ProfilesAssumption DEF Ids
  <1>4. /\ n \in Nat /\ order \in [1..n -> keys]
        /\ \A k \in keys : \E i \in 1..n : order[i] = k
        /\ \A i, j \in 1..n : order[i] = order[j] => i = j
    <2> HIDE DEF keys
    <2>1. before \in [keys -> SUBSET keys]
      OBVIOUS
    <2>2. \A k \in keys : k \notin before[k]
      BY <1>3
    <2>3. ASSUME NEW k \in keys, NEW l \in keys, k \in before[l], NEW m \in before[k]
          PROVE  m \in before[l]
      <3>1. m \in keys
        OBVIOUS
      <3>2. /\ k[1] < l[1] \/ (k[1] = l[1] /\ k[2] = "SO" /\ l[2] = "CSO")
            /\ m[1] < k[1] \/ (m[1] = k[1] /\ m[2] = "SO" /\ k[2] = "CSO")
        BY <2>3
      <3>3. m[1] < l[1] \/ (m[1] = l[1] /\ m[2] = "SO" /\ l[2] = "CSO")
        BY <1>3, <3>1, <3>2
      <3> QED BY <3>1, <3>3
    <2>4. \A k \in keys, l \in keys : k \in before[l] => before[k] \subseteq before[l]
      BY <2>3
    <2>5. ASSUME NEW k \in keys, NEW l \in keys, k # l PROVE k \in before[l] \/ l \in before[k]
      <3>1. k[1] # l[1] \/ k[2] # l[2]
        BY <1>3, <2>5
      <3>2. \/ k[1] < l[1] \/ (k[1] = l[1] /\ k[2] = "SO" /\ l[2] = "CSO")
            \/ l[1] < k[1] \/ (l[1] = k[1] /\ l[2] = "SO" /\ k[2] = "CSO")
        BY <1>3, <3>1
      <3> QED BY <3>2
    <2> HIDE DEF before
    <2> QED BY <1>2, <2>1, <2>2, <2>4, <2>5, InOrderLists DEF n, order
  <1>5. pages = [i \in DOMAIN order |->
                   [evse |-> order[i][1], source |-> order[i][2], tbc |-> i < n,
                    profiles |-> {e[2] : e \in {x \in matched : keyOf(x) = order[i]}}]]
    BY DEF ReportPages
  <1> HIDE DEF n, order, before, keys
  <1>6. DOMAIN order = 1..n /\ \A i \in 1..n : order[i] \in keys
    BY <1>4
  <1>7. DOMAIN pages = 1..n /\ Len(pages) = n
    BY <1>4, <1>5, <1>6
  <1>8. ASSUME NEW i \in 1..n
        PROVE  /\ pages[i].evse = order[i][1] /\ pages[i].source = order[i][2]
               /\ pages[i].tbc = (i < n)
               /\ pages[i].profiles = {e[2] : e \in {x \in matched : keyOf(x) = order[i]}}
    BY <1>5, <1>6
  <1>9. ASSUME NEW i \in 1..n, NEW e PROVE OnPage(e, pages[i]) <=> keyOf(e) = order[i]
    <2>1. order[i] = <<order[i][1], order[i][2]>>
      BY <1>3, <1>6
    <2> QED BY <1>8, <2>1 DEF OnPage
  <1> HIDE DEF keyOf
  <1>10. ASSUME NEW i \in 1..n, NEW p
         PROVE  p \in pages[i].profiles <=> \E e \in matched : OnPage(e, pages[i]) /\ p = e[2]
    BY <1>8, <1>9
  <1>11. \A i \in 1..n : \E e \in matched : OnPage(e, pages[i])
    BY <1>6, <1>9 DEF keys
  <1>12. \A e \in matched : \E i \in 1..n : OnPage(e, pages[i])
    BY <1>4, <1>9 DEF keys
  <1>13. ASSUME NEW i \in 1..n, NEW j \in 1..n,
                pages[i].evse = pages[j].evse, pages[i].source = pages[j].source
         PROVE  i = j
    <2>1. order[i] = order[j]
      BY <1>3, <1>6, <1>8, <1>13
    <2> QED BY <1>4, <2>1
  <1>14. \A i \in 1..n : pages[i].tbc = (i < n)
    BY <1>8
  <1> QED BY <1>4, <1>7, <1>10, <1>11, <1>12, <1>13, <1>14 DEF Paged

\* The pages carry every matched profile once, under its own EVSE and source, none
\* is empty, and only the last one ends the stream.
THEOREM ReportIsCompleteHolds == Spec => []ReportIsComplete
  <1>1. ASSUME IInv PROVE ReportIsComplete
    <2> SUFFICES ASSUME reply.op = "Report" PROVE ReportIsComplete
      BY DEF ReportIsComplete
    <2> DEFINE matched == reply.matched
               pages == reply.pages
    <2>1. matched \subseteq Snapshot201 /\ pages = ReportPages(matched)
      BY <1>1 DEF IInv, ReplyInv
    <2>2. ASSUME NEW e \in matched PROVE e[1] \in Ids /\ e = <<e[1], e[2]>>
      BY <2>1, SnapshotOf
    <2> HIDE DEF matched, pages
    <2>3. PICK n \in Nat : Paged(pages, matched, n)
      <3>1. \A e \in matched : e[1] \in Ids
        BY <2>2
      <3> QED BY <2>1, <3>1, PagesOf
    <2>4. \A i \in DOMAIN pages : pages[i].tbc = (i < Len(pages))
      BY <2>3 DEF Paged
    <2>5. \A i \in DOMAIN pages : pages[i].profiles # {}
      BY <2>3 DEF Paged
    <2>6. ASSUME NEW i \in DOMAIN pages, NEW p \in pages[i].profiles
          PROVE  <<pages[i].evse, p>> \in matched
      <3>1. PICK e \in matched : OnPage(e, pages[i]) /\ p = e[2]
        BY <2>3, <2>6 DEF Paged
      <3> QED BY <2>2, <3>1 DEF OnPage
    <2>7. ASSUME NEW e \in matched
          PROVE  Cardinality({i \in DOMAIN pages : /\ pages[i].evse = e[1]
                                                   /\ pages[i].source = LimitSource(e[2].purpose)
                                                   /\ e[2] \in pages[i].profiles}) = 1
      <3>1. PICK k \in DOMAIN pages : OnPage(e, pages[k])
        BY <2>3 DEF Paged
      <3>2. e[2] \in pages[k].profiles
        BY <2>3, <3>1 DEF Paged
      <3>3. ASSUME NEW i \in DOMAIN pages, pages[i].evse = e[1],
                   pages[i].source = LimitSource(e[2].purpose)
            PROVE  i = k
        BY <2>3, <3>1, <3>3 DEF OnPage, Paged
      <3>4. {i \in DOMAIN pages : /\ pages[i].evse = e[1]
                                  /\ pages[i].source = LimitSource(e[2].purpose)
                                  /\ e[2] \in pages[i].profiles} = {k}
        BY <3>1, <3>2, <3>3 DEF OnPage
      <3> QED BY <3>4, FS_Singleton
    <2> QED BY <2>4, <2>5, <2>6, <2>7 DEF ReportIsComplete, matched, pages
  <1> QED BY <1>1, Invariant, PTL

(* Arithmetic of ticks and seconds *)

\* Quotient and remainder,
LEMMA DivMod ==
  ASSUME NEW x \in Int, NEW n \in Nat \ {0}
  PROVE  \E q \in Int, r \in 0..(n - 1) : q = x \div n /\ r = x % n /\ x = n * q + r
  <1>1. PICK q, r : q = x \div n /\ r = x % n
    OBVIOUS
  <1>2. q \in Int /\ r \in 0..(n - 1) /\ x = q * n + r
    BY <1>1
  <1>3. x = n * q + r
    BY <1>2
  <1> QED BY <1>1, <1>2, <1>3

\* which are unique.
LEMMA DivUnique ==
  ASSUME NEW n \in Nat \ {0}, NEW q \in Int, NEW r \in 0..(n - 1), NEW x \in Int, x = n * q + r
  PROVE  x \div n = q /\ x % n = r
  <1>1. PICK d \in Int, m \in 0..(n - 1) : d = x \div n /\ m = x % n /\ x = n * d + m
    BY DivMod
  <1>2. PICK k \in Int : k = d - q
    OBVIOUS
  <1>3. n * k = n * d - n * q /\ n * d \in Int /\ n * q \in Int
    BY <1>2
  <1>4. n * k < n /\ n * k > -n
    BY <1>1, <1>3
  <1>5. k = 0
    <2>1. k >= 1 => n * k >= n
      OBVIOUS
    <2>2. k <= -1 => n * k <= -n
      OBVIOUS
    <2> QED BY <1>4, <2>1, <2>2
  <1>6. d = q
    BY <1>2, <1>5
  <1>7. m = r
    BY <1>1, <1>3, <1>6
  <1> QED BY <1>1, <1>6, <1>7

\* No rest: a multiple.
LEMMA Divides ==
  ASSUME NEW x \in Int, NEW n \in Nat \ {0}, x % n = 0
  PROVE  \E m \in Int : x = n * m
  <1>1. PICK m \in Int, r \in 0..(n - 1) : m = x \div n /\ r = x % n /\ x = n * m + r
    BY DivMod
  <1>2. x = n * m
    BY <1>1
  <1> QED BY <1>2

\* Comparing whole multiples: the rest does not matter.
LEMMA Scaled ==
  ASSUME NEW n \in Nat \ {0}, NEW x \in Int, NEW r \in 0..(n - 1), NEW s \in Int
  PROVE  s * n <= n * x + r <=> s <= x
  <1>1. s <= x => s * n <= n * x
    OBVIOUS
  <1>2. s >= x + 1 => s * n >= n * (x + 1)
    OBVIOUS
  <1>3. n * (x + 1) = n * x + n
    OBVIOUS
  <1> QED BY <1>1, <1>2, <1>3

\* num_seconds truncates towards zero.
LEMMA NumSecondsOf ==
  ASSUME NEW x \in Int
  PROVE  /\ NumSeconds(x) \in Int
         /\ x >= 0 => \E r \in 0..(TicksPerSecond - 1) : x = TicksPerSecond * NumSeconds(x) + r
         /\ x <= 0 => \E r \in 0..(TicksPerSecond - 1) : -x = TicksPerSecond * (-NumSeconds(x)) + r
         /\ \A k \in Int : x = TicksPerSecond * k => NumSeconds(x) = k
  <1> DEFINE T == TicksPerSecond
  <1>0. T \in Nat \ {0}
    BY TicksAssumption
  <1> HIDE DEF T
  <1>1. NumSeconds(x) = IF x < 0 THEN -((-x) \div T) ELSE x \div T
    BY DEF NumSeconds, T
  <1>2. PICK y \in Int : y = -x
    OBVIOUS
  <1>3. PICK q \in Int, r \in 0..(T - 1) : q = x \div T /\ r = x % T /\ x = T * q + r
    BY <1>0, DivMod
  <1>4. PICK s \in Int, t \in 0..(T - 1) : s = y \div T /\ t = y % T /\ y = T * s + t
    BY <1>0, DivMod
  <1>5. PICK k \in Int : k = NumSeconds(x) /\ k = IF x < 0 THEN -s ELSE q
    <2>1. CASE x < 0
      BY <1>1, <1>2, <1>4, <2>1
    <2>2. CASE ~(x < 0)
      BY <1>1, <1>3, <2>2
    <2> QED BY <2>1, <2>2
  <1>6. x >= 0 => x = T * k + r
    BY <1>3, <1>5
  <1>7. ASSUME x <= 0 PROVE \E z \in 0..(T - 1) : -x = T * (-k) + z
    <2>1. CASE x < 0
      <3>1. -k = s
        BY <1>5, <2>1
      <3> QED BY <1>2, <1>4, <3>1
    <2>2. CASE x = 0
      <3>1. 0 = T * 0 + 0 /\ 0 \in 0..(T - 1) /\ 0 \in Int
        BY <1>0
      <3>2. q = 0
        BY <1>0, <1>3, <2>2, <3>1, DivUnique
      <3>3. k = 0
        BY <1>5, <2>2, <3>2
      <3>4. T * (-k) = 0
        BY <1>0, <3>3
      <3> QED BY <1>0, <2>2, <3>1, <3>4
    <2> QED BY <1>7, <2>1, <2>2
  <1>8. ASSUME NEW m \in Int, x = T * m PROVE NumSeconds(x) = m
    <2>1. 0 \in 0..(T - 1)
      BY <1>0
    <2>2. CASE x >= 0
      <3>1. x = T * m + 0
        BY <1>0, <1>8
      <3>2. x \div T = m
        BY <1>0, <2>1, <3>1, DivUnique
      <3> QED BY <1>1, <2>2, <3>2
    <2>3. CASE x < 0
      <3>1. -x = T * (-m) + 0 /\ -x \in Int /\ -m \in Int
        BY <1>0, <1>8
      <3>2. (-x) \div T = -m
        BY <1>0, <2>1, <3>1, DivUnique
      <3> QED BY <1>1, <2>3, <3>2
    <2> QED BY <2>2, <2>3
  <1>9. NumSeconds(x) \in Int
    BY <1>5
  <1>10. x >= 0 => \E z \in 0..(T - 1) : x = T * NumSeconds(x) + z
    BY <1>5, <1>6
  <1>11. x <= 0 => \E z \in 0..(T - 1) : -x = T * (-NumSeconds(x)) + z
    BY <1>5, <1>7
  <1> QED BY <1>8, <1>9, <1>10, <1>11 DEF T

\* Offsets in a window of a schedule anchored a whole number of seconds into it,
\* or before it.
LEMMA RawOffset ==
  ASSUME NEW a \in Int, a > 0 => a % TicksPerSecond = 0, NEW o \in Nat
  PROVE  /\ NumSeconds(Seconds(o) - a) = o - NumSeconds(a)
         /\ \E r \in 0..(TicksPerSecond - 1) :
               Seconds(o) - a = TicksPerSecond * (o - NumSeconds(a)) + r
  <1> DEFINE T == TicksPerSecond
  <1>0. T \in Nat \ {0} /\ 0 \in 0..(T - 1)
    BY TicksAssumption
  <1>1. PICK b \in Int : b = Seconds(o) /\ b = T * o /\ b >= 0
    BY <1>0 DEF Seconds
  <1>2. PICK k \in Int : k = NumSeconds(a)
    BY NumSecondsOf
  <1>3. PICK r \in 0..(T - 1) : b - a = T * (o - k) + r
    <2>1. CASE a > 0
      <3> HIDE DEF T
      <3>1. a % T = 0
        BY <2>1 DEF T
      <3>2. PICK m \in Int : a = T * m
        BY <1>0, <3>1, Divides
      <3>3. k = m
        BY <1>2, <3>2, NumSecondsOf DEF T
      <3>4. T * (o - m) = T * o - T * m
        BY <1>0, <3>2
      <3> QED BY <1>0, <1>1, <3>2, <3>3, <3>4
    <2>2. CASE a <= 0
      <3> HIDE DEF T
      <3>1. PICK r \in 0..(T - 1) : -a = T * (-k) + r
        BY <1>2, <2>2, NumSecondsOf DEF T
      <3>2. T * (-k) = -(T * k) /\ T * (o - k) = T * o - T * k /\ T * k \in Int
        BY <1>0
      <3>3. b - a = T * (o - k) + r
        BY <1>1, <3>1, <3>2
      <3> QED BY <3>3
    <2> QED BY <2>1, <2>2
  <1>4. PICK x \in Int, d \in Int : x = b - a /\ d = o - k
    OBVIOUS
  <1> HIDE DEF T
  <1>5. x = T * d + r
    BY <1>3, <1>4
  <1>6. NumSeconds(x) = d
    <2>1. CASE a > 0
      <3>1. a % T = 0
        BY <2>1 DEF T
      <3>2. r = 0
        <4>1. PICK m \in Int : a = T * m
          BY <1>0, <3>1, Divides
        <4>2. PICK v \in Int : v = o - m
          OBVIOUS
        <4>3. T * v = T * o - T * m
          BY <1>0, <4>1, <4>2
        <4>4. x = T * v + 0
          BY <1>0, <1>1, <1>4, <4>1, <4>3
        <4>5. x % T = 0
          BY <1>0, <4>4, DivUnique
        <4>6. x % T = r
          BY <1>0, <1>5, DivUnique
        <4> QED BY <4>5, <4>6
      <3>3. x = T * d
        BY <1>0, <1>5, <3>2
      <3> QED BY <3>3, NumSecondsOf DEF T
    <2>2. CASE a <= 0
      <3>1. x >= 0
        BY <1>1, <1>4, <2>2
      <3>2. x \div T = d
        BY <1>0, <1>5, DivUnique
      <3> QED BY <3>1, <3>2 DEF NumSeconds, T
    <2> QED BY <2>1, <2>2
  <1> QED BY <1>1, <1>2, <1>3, <1>4, <1>6 DEF T

(* A demand over a window *)

\* A demand over a window changes at boundaries only.
Steady(D, offsets, duration) ==
    /\ duration \in Nat \ {0}
    /\ 0 \in offsets /\ offsets \subseteq 0..(duration - 1)
    /\ DOMAIN D = 0..(duration - 1)
    /\ \A o \in 1..(duration - 1) : o \in offsets \/ D[o] = D[o - 1]

\* From an offset back to the last boundary the demand is the same.
LEMMA SteadyRun ==
  ASSUME NEW D, NEW offsets, NEW duration, Steady(D, offsets, duration),
         NEW o \in 0..(duration - 1), NEW b \in 0..o,
         \A x \in offsets : ~(b < x /\ x <= o)
  PROVE  D[b] = D[o]
  <1> DEFINE S == {x \in b..o : D[x] # D[o]}
  <1>1. duration \in Nat /\ o \in Int /\ b \in Int
    BY DEF Steady
  <1>2. SUFFICES ASSUME S # {} PROVE FALSE
    BY <1>1
  <1>3. S \subseteq Int /\ IsFiniteSet(S)
    <2>1. IsFiniteSet(b..o) /\ S \in SUBSET (b..o)
      BY <1>1, FS_Interval
    <2> QED BY <1>1, <2>1, FS_Subset
  <1>4. PICK y \in Int : y \in S /\ \A z \in S : z <= y
    <2> HIDE DEF S
    <2> QED BY <1>2, <1>3, MaxOf
  <1>5. y < o /\ y >= b /\ D[y] # D[o]
    BY <1>1, <1>4
  <1>6. y + 1 \in b..o /\ y + 1 \notin S
    BY <1>1, <1>4, <1>5
  <1>7. D[y + 1] = D[o]
    BY <1>6
  <1>8. y + 1 \in 1..(duration - 1) /\ (y + 1) - 1 = y
    BY <1>1, <1>5
  <1>9. y + 1 \in offsets
    BY <1>5, <1>7, <1>8 DEF Steady
  <1> QED BY <1>1, <1>5, <1>9

\* What a reader of the emitted periods makes of offset o.
Reads(periods, D, o) == D[o] # None => Reported(periods, o) = D[o].limit

\* A demand at the boundaries.
Cut(D, offsets) == [o \in offsets |-> D[o]]

\* EmittedPeriods reports a demand that changes at boundaries only.
LEMMA Reporting ==
  ASSUME NEW D, NEW offsets, NEW duration, Steady(D, offsets, duration),
         NEW periods, periods = EmittedPeriods(Cut(D, offsets))
  PROVE  /\ \A o \in 0..(duration - 1) : Reads(periods, D, o)
         /\ periods # {} => \E o \in offsets : D[o] # None
  <1> DEFINE cur == [o \in offsets |-> D[o]]
             before(o) == {x \in offsets : x < o}
             fresh(o) == before(o) = {} \/ D[Max(before(o))] # D[o]
             rec(o) == [start |-> o, limit |-> D[o].limit, phases |-> D[o].phases]
  <1>0. /\ duration \in Nat \ {0}
        /\ 0 \in offsets /\ offsets \subseteq 0..(duration - 1) /\ offsets \subseteq Int
    BY DEF Steady
  <1>1. \A o \in offsets : /\ before(o) \subseteq offsets /\ IsFiniteSet(before(o))
                           /\ before(o) \subseteq Int
    <2> SUFFICES ASSUME NEW o \in offsets
                 PROVE  before(o) \subseteq offsets /\ IsFiniteSet(before(o))
      BY <1>0
    <2>1. IsFiniteSet(0..(duration - 1))
      BY <1>0, FS_Interval
    <2>2. before(o) \in SUBSET (0..(duration - 1))
      BY <1>0
    <2> QED BY <2>1, <2>2, FS_Subset
  <1>2. \A o \in offsets : before(o) # {} =>
           Max(before(o)) \in before(o) /\ \A y \in before(o) : y <= Max(before(o))
    <2> HIDE DEF before
    <2> QED BY <1>1, MaxOf
  <1>3. periods = {rec(o) : o \in {x \in offsets : D[x] # None /\ fresh(x)}}
    <2>1. periods = {[start |-> o, limit |-> cur[o].limit, phases |-> cur[o].phases] :
                       o \in {x \in offsets : /\ cur[x] # None
                                              /\ \/ before(x) = {}
                                                 \/ cur[Max(before(x))] # cur[x]}}
      BY DEF EmittedPeriods, Cut
    <2>2. \A x \in offsets : cur[x] = D[x]
      OBVIOUS
    <2>3. \A x \in offsets : before(x) # {} => cur[Max(before(x))] = D[Max(before(x))]
      BY <1>1, <1>2
    <2> HIDE DEF cur, before
    <2> QED BY <2>1, <2>2, <2>3
  <1> HIDE DEF fresh
  <1>4. periods # {} => \E o \in offsets : D[o] # None
    BY <1>3
  <1>5. ASSUME NEW o \in 0..(duration - 1), D[o] # None
        PROVE  Reported(periods, o) = D[o].limit
    <2>1. PICK m \in 0..o : m \in offsets /\ D[m] = D[o] /\ fresh(m)
                            /\ \A x \in offsets : m < x /\ x <= o => D[x] = D[o]
      <3> DEFINE S == {x \in 0..o : D[x] # D[o]}
      <3>0. o \in Int /\ o >= 0
        BY <1>0
      <3>1. CASE S = {}
        <4>1. \A x \in 0..o : D[x] = D[o]
          BY <3>1
        <4>2. before(0) = {}
          <5>1. \A x \in offsets : ~(x < 0)
            BY <1>0
          <5> QED BY <5>1
        <4>3. fresh(0)
          BY <4>2 DEF fresh
        <4>4. 0 \in 0..o
          BY <3>0
        <4>5. \A x \in offsets : 0 < x /\ x <= o => D[x] = D[o]
          BY <1>0, <4>1
        <4> QED BY <1>0, <4>1, <4>3, <4>4, <4>5
      <3>2. CASE S # {}
        <4>1. S \subseteq Int /\ IsFiniteSet(S)
          <5>1. IsFiniteSet(0..o) /\ S \in SUBSET (0..o)
            BY <3>0, FS_Interval
          <5> QED BY <5>1, FS_Subset
        <4>2. PICK y \in Int : y \in S /\ \A z \in S : z <= y
          <5> HIDE DEF S
          <5> QED BY <3>2, <4>1, MaxOf
        <4>3. y < o /\ y >= 0 /\ D[y] # D[o]
          BY <3>0, <4>2
        <4>4. PICK n \in Int : n = y + 1
          OBVIOUS
        <4>5. \A x \in n..o : D[x] = D[o]
          BY <3>0, <4>2, <4>3, <4>4
        <4>6. n \in 0..o /\ n \in 1..(duration - 1) /\ n - 1 = y /\ n \in n..o
          BY <1>0, <3>0, <4>3, <4>4
        <4>7. D[n] = D[o]
          BY <4>5, <4>6
        <4>8. n \in offsets
          BY <4>3, <4>6, <4>7 DEF Steady
        <4>9. fresh(n)
          <5>1. 0 \in before(n)
            BY <1>0, <4>6
          <5>2. PICK b \in Int : b = Max(before(n)) /\ b \in before(n) /\ \A z \in before(n) : z <= b
            BY <1>1, <1>2, <4>8, <5>1
          <5>3. b \in 0..y /\ y \in 0..(duration - 1)
            BY <1>0, <4>3, <4>4, <5>2
          <5>4. \A x \in offsets : ~(b < x /\ x <= y)
            BY <1>0, <4>4, <5>2
          <5>5. D[b] = D[y]
            BY <5>3, <5>4, SteadyRun
          <5> QED BY <4>3, <4>7, <5>2, <5>5 DEF fresh
        <4>10. \A x \in offsets : n < x /\ x <= o => D[x] = D[o]
          BY <1>0, <4>5
        <4> QED BY <4>6, <4>7, <4>8, <4>9, <4>10
      <3> QED BY <3>1, <3>2
    <2>2. rec(m) \in periods /\ rec(m).start = m /\ rec(m).limit = D[o].limit
      BY <1>3, <1>5, <2>1
    <2>3. ASSUME NEW q \in periods, q.start <= o, q.start >= m PROVE q = rec(m)
      <3>1. PICK x \in offsets : q = rec(x) /\ D[x] # None /\ fresh(x)
        BY <1>3
      <3>2. q.start = x /\ x <= o /\ x >= m
        BY <2>3, <3>1
      <3>3. CASE x = m
        BY <3>1, <3>3
      <3>4. CASE x # m
        <4>1. m < x /\ m \in before(x)
          BY <1>0, <2>1, <3>2, <3>4
        <4>2. PICK b \in Int : b = Max(before(x)) /\ b \in before(x) /\ \A z \in before(x) : z <= b
          BY <1>1, <1>2, <4>1
        <4>3. b \in offsets /\ m <= b /\ b < x /\ b <= o
          BY <1>0, <3>2, <4>1, <4>2
        <4>4. D[b] = D[o] /\ D[x] = D[o]
          <5>1. CASE b = m
            BY <2>1, <3>2, <4>1, <5>1
          <5>2. CASE b # m
            BY <2>1, <3>2, <4>1, <4>3, <5>2
          <5> QED BY <5>1, <5>2
        <4>5. FALSE
          BY <3>1, <4>1, <4>2, <4>4 DEF fresh
        <4> QED BY <4>5
      <3> QED BY <3>3, <3>4
    <2>4. \A q \in periods : q.start \in Int
      BY <1>0, <1>3
    <2> DEFINE begun == {q \in periods : q.start <= o}
               top == CHOOSE q \in begun : \A r \in begun : r.start <= q.start
    <2>5. rec(m) \in begun
      BY <2>1, <2>2
    <2>6. \A r \in begun : r.start <= rec(m).start
      <3> SUFFICES ASSUME NEW r \in begun, ~(r.start <= m) PROVE FALSE
        BY <2>2
      <3>1. r \in periods /\ r.start <= o /\ r.start >= m
        BY <1>0, <2>4
      <3>2. r = rec(m)
        BY <2>3, <3>1
      <3> QED BY <1>0, <2>2, <3>2
    <2>7. top \in begun /\ \A r \in begun : r.start <= top.start
      <3> HIDE DEF begun, rec
      <3> QED BY <2>5, <2>6
    <2>8. top \in periods /\ top.start <= o /\ top.start >= m
      <3> HIDE DEF top, rec
      <3> QED BY <2>2, <2>5, <2>7
    <2>9. top = rec(m)
      <3> HIDE DEF top, rec
      <3> QED BY <2>3, <2>8
    <2>10. Reported(periods, o) = top.limit
      <3>1. begun # {}
        BY <2>5
      <3> QED BY <3>1 DEF Reported
    <2> HIDE DEF top, rec
    <2> QED BY <2>2, <2>9, <2>10
  <1> QED BY <1>4, <1>5 DEF Reads

(* The greatest key *)

\* i comes after every other element of S, by key and then by position.
Tops(S, key, i) ==
    i \in S /\ \A j \in S \ {i} : LexLess(key[j], key[i]) \/ (key[j] = key[i] /\ j < i)

\* Iterator::max_by finds the greatest key, the last one on a tie, when the keys
\* are totally ordered.
LEMMA LastMaxOf ==
  ASSUME NEW S, IsFiniteSet(S), S # {}, S \subseteq Int, NEW key,
         \A i \in S : ~LexLess(key[i], key[i]),
         \A i, j, k \in S : LexLess(key[i], key[j]) /\ LexLess(key[j], key[k])
                               => LexLess(key[i], key[k]),
         \A i, j \in S : LexLess(key[i], key[j]) \/ key[i] = key[j] \/ LexLess(key[j], key[i])
  PROVE  Tops(S, key, LastMax(S, key))
  <1> DEFINE above(i, j) == LexLess(key[i], key[j]) \/ (key[i] = key[j] /\ i < j)
             up == [i \in S |-> {j \in S : above(i, j)}]
  <1>1. up \in [S -> SUBSET S]
    OBVIOUS
  <1>2. \A i \in S : i \notin up[i]
    OBVIOUS
  <1>3. ASSUME NEW i \in S, NEW j \in up[i], NEW k \in up[j] PROVE k \in up[i]
    <2>1. j \in S /\ k \in S /\ above(i, j) /\ above(j, k)
      BY <1>3
    <2>2. i \in Int /\ j \in Int /\ k \in Int
      BY <2>1
    <2>3. above(i, k)
      BY <2>1, <2>2
    <2> QED BY <2>1, <2>3
  <1>4. \E i \in S : up[i] = {}
    <2> HIDE DEF up
    <2> QED BY <1>1, <1>2, <1>3, FiniteTop
  <1>5. PICK i \in S : \A j \in S : ~above(i, j)
    BY <1>4
  <1>6. \A j \in S \ {i} : LexLess(key[j], key[i]) \/ (key[j] = key[i] /\ j < i)
    BY <1>5
  <1> QED BY <1>6 DEF LastMax, Tops

\* A key of one number, and the last of those with the greatest.
Keyed(S, f, key) == key = [j \in S |-> <<f[j]>>]
LastBy(S, f, i) == i \in S /\ \A j \in S \ {i} : f[j] < f[i] \/ (f[j] = f[i] /\ j < i)

\* The same, with a number for a key,
LEMMA LastMax1 ==
  ASSUME NEW S, IsFiniteSet(S), S # {}, S \subseteq Int, NEW f \in [S -> Int],
         NEW key, Keyed(S, f, key), NEW i, i = LastMax(S, key)
  PROVE  LastBy(S, f, i)
  <1>1. \A j, k \in S : LexLess(key[j], key[k]) <=> f[j] < f[k]
    <2> SUFFICES ASSUME NEW j \in S, NEW k \in S
                 PROVE  LexLess(key[j], key[k]) <=> f[j] < f[k]
      OBVIOUS
    <2>1. f[j] \in Int /\ f[k] \in Int /\ key[j] = <<f[j]>> /\ key[k] = <<f[k]>>
      BY DEF Keyed
    <2> QED BY <2>1, LexLess1
  <1>2. \A j, k \in S : key[j] = key[k] <=> f[j] = f[k]
    BY DEF Keyed
  <1>3. \A j \in S : f[j] \in Int
    OBVIOUS
  <1>5. Tops(S, key, i)
    <2>1. \A j \in S : ~LexLess(key[j], key[j])
      BY <1>1, <1>3
    <2>2. \A j, k, l \in S : LexLess(key[j], key[k]) /\ LexLess(key[k], key[l])
                               => LexLess(key[j], key[l])
      BY <1>1, <1>3
    <2>3. \A j, k \in S : LexLess(key[j], key[k]) \/ key[j] = key[k] \/ LexLess(key[k], key[j])
      BY <1>1, <1>2, <1>3
    <2>4. Tops(S, key, LastMax(S, key))
      BY <2>1, <2>2, <2>3, LastMaxOf
    <2> QED BY <2>4
  <1> QED BY <1>1, <1>2, <1>5 DEF Tops, LastBy

\* u is less than v, compared in three components.
Less3(u, v) == \/ u[1] < v[1]
               \/ u[1] = v[1] /\ u[2] < v[2]
               \/ u[1] = v[1] /\ u[2] = v[2] /\ u[3] < v[3]

\* and with three.
LEMMA LastMax3 ==
  ASSUME NEW S, IsFiniteSet(S), S # {}, S \subseteq Int, NEW key \in [S -> Int \X Int \X Int],
         NEW i, i = LastMax(S, key)
  PROVE  i \in S /\ \A j \in S : ~Less3(key[i], key[j])
  <1>1. \A j \in S : /\ key[j][1] \in Int /\ key[j][2] \in Int /\ key[j][3] \in Int
                     /\ key[j] = <<key[j][1], key[j][2], key[j][3]>>
    OBVIOUS
  <1>2. \A j, k \in S : LexLess(key[j], key[k]) <=> Less3(key[j], key[k])
    <2> SUFFICES ASSUME NEW j \in S, NEW k \in S
                 PROVE  LexLess(key[j], key[k]) <=> Less3(key[j], key[k])
      OBVIOUS
    <2>1. PICK a \in Int, b \in Int, c \in Int : key[j] = <<a, b, c>>
      OBVIOUS
    <2>2. PICK d \in Int, e \in Int, f \in Int : key[k] = <<d, e, f>>
      OBVIOUS
    <2>3. LexLess(<<a, b, c>>, <<d, e, f>>) <=>
            a < d \/ (a = d /\ b < e) \/ (a = d /\ b = e /\ c < f)
      BY LexLess3
    <2> QED BY <2>1, <2>2, <2>3 DEF Less3
  <1>3. \A j \in S : ~Less3(key[j], key[j])
    BY <1>1 DEF Less3
  <1>4. ASSUME NEW j \in S, NEW k \in S, NEW l \in S, Less3(key[j], key[k]), Less3(key[k], key[l])
        PROVE  Less3(key[j], key[l])
    BY <1>1, <1>4 DEF Less3
  <1>5. ASSUME NEW j \in S, NEW k \in S, ~Less3(key[j], key[k]), ~Less3(key[k], key[j])
        PROVE  key[j] = key[k]
    <2>1. key[j][1] = key[k][1] /\ key[j][2] = key[k][2] /\ key[j][3] = key[k][3]
      BY <1>1, <1>5 DEF Less3
    <2> QED BY <1>1, <2>1
  <1>6. Tops(S, key, i)
    <2>1. \A j \in S : ~LexLess(key[j], key[j])
      BY <1>2, <1>3
    <2>2. \A j, k, l \in S : LexLess(key[j], key[k]) /\ LexLess(key[k], key[l])
                               => LexLess(key[j], key[l])
      BY <1>2, <1>4
    <2>3. \A j, k \in S : LexLess(key[j], key[k]) \/ key[j] = key[k] \/ LexLess(key[k], key[j])
      BY <1>2, <1>5
    <2> QED BY <2>1, <2>2, <2>3, LastMaxOf
  <1>7. ASSUME NEW j \in S, Less3(key[i], key[j]) PROVE FALSE
    <2>1. j # i /\ i \in S
      BY <1>3, <1>6, <1>7 DEF Tops
    <2>2. Less3(key[j], key[i]) \/ key[j] = key[i]
      BY <1>2, <1>6, <2>1 DEF Tops
    <2>3. Less3(key[i], key[i])
      BY <1>4, <1>7, <2>1, <2>2
    <2> QED BY <1>3, <2>1, <2>3
  <1> QED BY <1>6, <1>7 DEF Tops

(* One profile *)

\* The offset into the schedule of p at an instant,
OffsetAt(p, at, w) ==
    LET raw == NumSeconds(at - Anchor(p, w))
    IN  IF RecurrencePeriod(p) = None THEN raw ELSE raw % RecurrencePeriod(p)

\* whether p is in force there,
InForce(p, at, off) ==
    /\ p.from # None => at >= p.from
    /\ p.to # None => at <= p.to
    /\ off >= 0
    /\ p.duration # None => off < p.duration

\* the periods that have begun,
Began(p, off) == {i \in DOMAIN p.periods : p.periods[i].start <= off}

\* and which of them is the latest.
Latest(p, S, i) ==
    /\ i \in S
    /\ \A j \in S \ {i} : \/ p.periods[j].start < p.periods[i].start
                          \/ p.periods[j].start = p.periods[i].start /\ j < i

\* The key the latest one is found by.
Starts(p, S) == [i \in S |-> <<p.periods[i].start>>]

\* The fields of a profile.
LEMMA ProfileFields ==
  ASSUME NEW p, IsProfile(p)
  PROVE  /\ p.from \in Int \cup {None} /\ p.to \in Int \cup {None} /\ p.start \in Int \cup {None}
         /\ p.duration \in Int \cup {None} /\ p.floor \in Int \cup {None}
         /\ RecurrencePeriod(p) = None \/
              (RecurrencePeriod(p) \in Nat \ {0} /\ p.kind = "Recurring")
         /\ DOMAIN p.periods \subseteq Int /\ IsFiniteSet(DOMAIN p.periods)
         /\ \A i \in DOMAIN p.periods : /\ p.periods[i] \in Periods /\ p.periods[i] # None
                                        /\ p.periods[i].start \in Nat
                                        /\ p.periods[i].limit \in Int
                                        /\ p.periods[i].phases \in Phases
  <1>1. /\ p.from \in Int \cup {None} /\ p.to \in Int \cup {None} /\ p.start \in Int \cup {None}
        /\ p.duration \in Int \cup {None} /\ p.floor \in Int \cup {None}
    BY DEF IsProfile
  <1>2. RecurrencePeriod(p) = None \/ (RecurrencePeriod(p) \in Nat \ {0} /\ p.kind = "Recurring")
    BY RecurrenceAssumption DEF IsProfile, RecurrencePeriod
  <1>3. p.periods \in Seq(Periods)
    BY DEF IsProfile
  <1>4. DOMAIN p.periods = 1..Len(p.periods) /\ Len(p.periods) \in Nat
    BY <1>3, LenProperties
  <1>5. DOMAIN p.periods \subseteq Int /\ IsFiniteSet(DOMAIN p.periods)
    <2>1. PICK n \in Nat : n = Len(p.periods)
      BY <1>4
    <2>2. IsFiniteSet(1..n)
      BY FS_Interval
    <2> QED BY <1>4, <2>1, <2>2
  <1>6. \A i \in DOMAIN p.periods : p.periods[i] \in Periods
    BY <1>3, <1>4, ElementOfSeq
  <1>7. \A q \in Periods : q # None /\ q.start \in Nat /\ q.limit \in Int /\ q.phases \in Phases
    BY NoneAssumption DEF Periods
  <1> QED BY <1>1, <1>2, <1>5, <1>6, <1>7

\* Offsets are whole numbers.
LEMMA OffsetType ==
  ASSUME NEW p, IsProfile(p), NEW at \in Int, NEW w \in Int
  PROVE  Anchor(p, w) \in Int /\ OffsetAt(p, at, w) \in Int
  <1>1. Anchor(p, w) \in Int
    BY ProfileFields DEF Anchor
  <1>2. NumSeconds(at - Anchor(p, w)) \in Int
    <2>1. at - Anchor(p, w) \in Int
      BY <1>1
    <2> QED BY <2>1, NumSecondsOf
  <1>3. PICK raw \in Int : raw = NumSeconds(at - Anchor(p, w))
    BY <1>2
  <1>4. CASE RecurrencePeriod(p) = None
    BY <1>1, <1>3, <1>4 DEF OffsetAt
  <1>5. CASE RecurrencePeriod(p) # None
    <2>1. PICK e \in Nat \ {0} : e = RecurrencePeriod(p)
      BY <1>5, ProfileFields
    <2>2. raw % e \in Int
      BY DivMod
    <2> QED BY <1>1, <1>3, <1>5, <2>1, <2>2 DEF OffsetAt
  <1> QED BY <1>4, <1>5

\* ActivePeriod, in these terms.
LEMMA ActiveUnfolded ==
  ASSUME NEW p, IsProfile(p), NEW at \in Int, NEW w \in Int,
         NEW off, off = OffsetAt(p, at, w), NEW S, S = Began(p, off)
  PROVE  ActivePeriod(p, at, w) =
           IF ~InForce(p, at, off) \/ S = {} THEN None ELSE p.periods[LastMax(S, Starts(p, S))]
  <1> DEFINE excluded == \/ p.from # None /\ at < p.from
                         \/ p.to # None /\ at > p.to
                         \/ off < 0
                         \/ p.duration # None /\ off >= p.duration
  <1>1. off \in Int
    BY OffsetType
  <1>2. excluded <=> ~InForce(p, at, off)
    BY <1>1, ProfileFields DEF InForce
  <1>3. ActivePeriod(p, at, w) = IF excluded \/ S = {} THEN None
           ELSE p.periods[LastMax(S, Starts(p, S))]
    BY DEF ActivePeriod, OffsetAt, Began, Starts
  <1> HIDE DEF excluded
  <1> QED BY <1>2, <1>3

\* The period in force is the latest that has begun.
LEMMA ActiveCases ==
  ASSUME NEW p, IsProfile(p), NEW at \in Int, NEW w \in Int,
         NEW off, off = OffsetAt(p, at, w)
  PROVE  \/ (~InForce(p, at, off) \/ Began(p, off) = {}) /\ ActivePeriod(p, at, w) = None
         \/ /\ InForce(p, at, off)
            /\ \E i \in DOMAIN p.periods : /\ Latest(p, Began(p, off), i)
                                           /\ ActivePeriod(p, at, w) = p.periods[i]
  <1> DEFINE S == Began(p, off)
  <1>1. CASE ~InForce(p, at, off) \/ S = {}
    BY <1>1, ActiveUnfolded
  <1>2. CASE InForce(p, at, off) /\ S # {}
    <2>1. S \subseteq DOMAIN p.periods
      BY DEF Began
    <2>2. IsFiniteSet(S) /\ S \subseteq Int
      BY <2>1, ProfileFields, FS_Subset
    <2>3. PICK f : f = [i \in S |-> p.periods[i].start]
      OBVIOUS
    <2>4. f \in [S -> Int]
      BY <2>1, <2>3, ProfileFields
    <2>5. PICK key : key = Starts(p, S)
      OBVIOUS
    <2>6. Keyed(S, f, key)
      BY <2>3, <2>5 DEF Starts, Keyed
    <2>7. PICK i : i = LastMax(S, key) /\ ActivePeriod(p, at, w) = p.periods[i]
      BY <1>2, <2>5, ActiveUnfolded
    <2> HIDE DEF S
    <2>8. LastBy(S, f, i)
      BY <1>2, <2>2, <2>4, <2>6, <2>7, LastMax1
    <2>9. Latest(p, S, i) /\ i \in DOMAIN p.periods
      BY <2>1, <2>3, <2>8 DEF Latest, LastBy
    <2> QED BY <1>2, <2>7, <2>9 DEF S
  <1> QED BY <1>1, <1>2

\* A period in force is a period of the schedule.
LEMMA ActiveType ==
  ASSUME NEW p, IsProfile(p), NEW at \in Int, NEW w \in Int
  PROVE  ActivePeriod(p, at, w) = None \/ ActivePeriod(p, at, w) \in Periods
  BY ActiveCases, ProfileFields

\* It is the same at two instants that agree on the force and on the periods begun,
LEMMA SameActive ==
  ASSUME NEW p, IsProfile(p), NEW at \in Int, NEW bt \in Int, NEW w \in Int,
         NEW off, off = OffsetAt(p, at, w), NEW pff, pff = OffsetAt(p, bt, w),
         \/ InForce(p, at, off) <=> InForce(p, bt, pff)
         \/ Began(p, off) = {},
         Began(p, off) = Began(p, pff)
  PROVE  ActivePeriod(p, at, w) = ActivePeriod(p, bt, w)
  <1>1. PICK S : S = Began(p, off)
    OBVIOUS
  <1>2. PICK key : key = Starts(p, S)
    OBVIOUS
  <1>3. ActivePeriod(p, at, w) =
          IF ~InForce(p, at, off) \/ S = {} THEN None ELSE p.periods[LastMax(S, key)]
    BY <1>1, <1>2, ActiveUnfolded
  <1>4. ActivePeriod(p, bt, w) =
          IF ~InForce(p, bt, pff) \/ S = {} THEN None ELSE p.periods[LastMax(S, key)]
    BY <1>1, <1>2, ActiveUnfolded
  <1> QED BY <1>1, <1>3, <1>4

\* and does not depend on the window if the schedule has a start of its own.
LEMMA AnchoredActive ==
  ASSUME NEW p, p.kind # "Relative", p.start # None, NEW at, NEW w, NEW v
  PROVE  ActivePeriod(p, at, w) = ActivePeriod(p, at, v)
  <1>1. Anchor(p, w) = Anchor(p, v)
    BY DEF Anchor
  <1> QED BY <1>1 DEF ActivePeriod

\* An instant is a whole number of seconds after w, or not after it.
Whole(t, w) == t # None /\ t > w => (t - w) % TicksPerSecond = 0

\* Where the exact clock stands in the schedule of p.
Phase(p, at, w) ==
    LET elapsed == at - Anchor(p, w)
    IN  IF RecurrencePeriod(p) = None THEN elapsed ELSE elapsed % Seconds(RecurrencePeriod(p))

\* At whole seconds of the window the offset is the number of seconds since the window
\* opened less that of the anchor.
LEMMA RawAt ==
  ASSUME NEW p, IsProfile(p), NEW w \in Int, Whole(p.start, w), NEW o \in Nat,
         NEW at, at = w + Seconds(o)
  PROVE  \E base \in Int, raw \in Int, r \in 0..(TicksPerSecond - 1) :
            /\ at \in Int
            /\ base = NumSeconds(Anchor(p, w) - w)
            /\ raw = NumSeconds(at - Anchor(p, w)) /\ raw = o - base
            /\ at - Anchor(p, w) = TicksPerSecond * raw + r
  <1> DEFINE T == TicksPerSecond
  <1>1. Seconds(o) \in Int
    BY TicksAssumption DEF Seconds
  <1>2. Anchor(p, w) \in Int
    BY ProfileFields DEF Anchor
  <1>3. PICK a \in Int : a = Anchor(p, w) - w
    BY <1>2
  <1>4. a > 0 => a % TicksPerSecond = 0
    BY <1>2, <1>3 DEF Whole, Anchor
  <1>5. PICK base \in Int : base = NumSeconds(a)
    BY NumSecondsOf
  <1>6. /\ NumSeconds(Seconds(o) - a) = o - base
        /\ \E r \in 0..(T - 1) : Seconds(o) - a = T * (o - base) + r
    BY <1>4, <1>5, RawOffset
  <1>7. PICK r \in 0..(T - 1) : Seconds(o) - a = T * (o - base) + r
    BY <1>6
  <1>8. at - Anchor(p, w) = Seconds(o) - a /\ at \in Int
    BY <1>1, <1>2, <1>3
  <1>9. PICK raw \in Int : raw = o - base
    OBVIOUS
  <1> QED BY <1>3, <1>5, <1>6, <1>7, <1>8, <1>9

\* The exact phase is the offset, and a fraction of a second.
LEMMA PhaseOf ==
  ASSUME NEW p, IsProfile(p), NEW w \in Int, Whole(p.start, w), NEW o \in Nat,
         NEW at, at = w + Seconds(o), NEW off, off = OffsetAt(p, at, w)
  PROVE  off \in Int /\ \E r \in 0..(TicksPerSecond - 1) : Phase(p, at, w) = TicksPerSecond * off + r
  <1> DEFINE T == TicksPerSecond
  <1>0. T \in Nat \ {0}
    BY TicksAssumption
  <1>1. PICK raw \in Int, r \in 0..(T - 1) :
          /\ raw = NumSeconds(at - Anchor(p, w)) /\ at - Anchor(p, w) = T * raw + r
    BY RawAt
  <1>2. PICK elapsed \in Int : elapsed = at - Anchor(p, w) /\ elapsed = T * raw + r
    BY <1>0, <1>1
  <1>3. CASE RecurrencePeriod(p) = None
    BY <1>1, <1>2, <1>3 DEF OffsetAt, Phase
  <1>4. CASE RecurrencePeriod(p) # None
    <2>1. PICK e \in Nat \ {0} : e = RecurrencePeriod(p)
      BY <1>4, ProfileFields
    <2>2. PICK q \in Int, f \in 0..(e - 1) : q = raw \div e /\ f = raw % e /\ raw = e * q + f
      BY DivMod
    <2>3. off = f
      BY <1>1, <1>4, <2>1, <2>2 DEF OffsetAt
    <2> HIDE DEF T
    <2>4. PICK n \in Int : n = e * T /\ n = Seconds(e)
      BY <1>0 DEF Seconds, T
    <2>5. n \in Nat \ {0}
      BY <1>0, <2>4
    <2>6. PICK x \in Int : x = T * f
      BY <1>0
    <2>7. x >= 0 /\ x <= n - T
      <3>1. x >= 0
        BY <1>0, <2>6
      <3>2. T * f <= T * (e - 1)
        BY <1>0
      <3>3. T * (e - 1) = n - T
        BY <1>0, <2>4
      <3> QED BY <2>6, <3>1, <3>2, <3>3
    <2>8. PICK m \in Int : m = x + r
      BY <1>1
    <2>9. m \in 0..(n - 1)
      BY <1>0, <2>5, <2>7, <2>8
    <2>10. elapsed = n * q + m
      <3>1. PICK y \in Int : y = e * q
        OBVIOUS
      <3>2. T * (y + f) = T * y + T * f
        BY <1>0, <3>1
      <3>3. T * y = n * q
        BY <1>0, <2>4, <3>1
      <3>4. n * q \in Int
        BY <2>5
      <3> QED BY <1>2, <2>2, <2>6, <2>8, <3>1, <3>2, <3>3, <3>4
    <2>11. elapsed % n = m
      BY <2>5, <2>9, <2>10, DivUnique
    <2>12. Phase(p, at, w) = m
      BY <1>2, <1>4, <2>1, <2>4, <2>11 DEF Phase
    <2> QED BY <2>3, <2>6, <2>8, <2>12 DEF T
  <1> QED BY <1>3, <1>4

\* What the exact clock makes of the profile is what ActivePeriod finds.
LEMMA Governing ==
  ASSUME NEW p, IsProfile(p), NEW w \in Int, Whole(p.start, w), NEW o \in Nat,
         NEW at, at = w + Seconds(o), NEW active, active = ActivePeriod(p, at, w)
  PROVE  GoverningPeriods(p, at, w) = {active} \ {None}
  <1> DEFINE T == TicksPerSecond
             begun == {i \in DOMAIN p.periods : Seconds(p.periods[i].start) <= Phase(p, at, w)}
             valid == /\ Phase(p, at, w) >= 0
                      /\ p.duration # None => Phase(p, at, w) < Seconds(p.duration)
                      /\ p.from # None => at >= p.from
                      /\ p.to # None => at <= p.to
  <1>0. T \in Nat \ {0} /\ at \in Int
    BY TicksAssumption DEF Seconds
  <1>1. PICK off : off = OffsetAt(p, at, w)
    OBVIOUS
  <1>2. off \in Int /\ \E r \in 0..(T - 1) : Phase(p, at, w) = T * off + r
    BY <1>1, PhaseOf
  <1>3. PICK r \in 0..(T - 1) : Phase(p, at, w) = T * off + r
    BY <1>2
  <1>4. \A s \in Int : Seconds(s) <= Phase(p, at, w) <=> s <= off
    BY <1>0, <1>2, <1>3, Scaled DEF Seconds
  <1>5. PICK phase \in Int : phase = Phase(p, at, w)
    BY <1>0, <1>2, <1>3
  <1>6. begun = Began(p, off)
    <2>1. \A i \in DOMAIN p.periods :
             Seconds(p.periods[i].start) <= Phase(p, at, w) <=> p.periods[i].start <= off
      BY <1>4, ProfileFields
    <2> QED BY <2>1 DEF Began
  <1>7. valid <=> InForce(p, at, off)
    <2>1. phase >= 0 <=> off >= 0
      <3>1. Seconds(0) = 0
        BY <1>0 DEF Seconds
      <3> QED BY <1>2, <1>4, <1>5, <3>1
    <2>2. ASSUME p.duration # None PROVE phase < Seconds(p.duration) <=> off < p.duration
      <3>1. p.duration \in Int
        BY <2>2, ProfileFields
      <3>2. Seconds(p.duration) \in Int
        BY <1>0, <3>1 DEF Seconds
      <3> QED BY <1>2, <1>4, <1>5, <3>1, <3>2
    <2> QED BY <1>5, <2>1, <2>2 DEF InForce
  <1>8. GoverningPeriods(p, at, w) =
          {p.periods[i] : i \in {x \in begun : Latest(p, begun, x) /\ valid}}
    BY DEF GoverningPeriods, Phase, Latest
  <1> HIDE DEF begun, valid
  <1>9. GoverningPeriods(p, at, w) =
          {p.periods[i] : i \in {x \in Began(p, off) : Latest(p, Began(p, off), x)
                                                       /\ InForce(p, at, off)}}
    BY <1>6, <1>7, <1>8
  <1>10. CASE (~InForce(p, at, off) \/ Began(p, off) = {}) /\ active = None
    BY <1>9, <1>10
  <1>11. CASE InForce(p, at, off) /\ \E i \in DOMAIN p.periods : /\ Latest(p, Began(p, off), i)
                                                                 /\ active = p.periods[i]
    <2>1. PICK i \in DOMAIN p.periods : Latest(p, Began(p, off), i) /\ active = p.periods[i]
      BY <1>11
    <2>2. i \in Began(p, off) /\ active # None
      BY <2>1, ProfileFields DEF Latest
    <2>3. ASSUME NEW j \in Began(p, off), Latest(p, Began(p, off), j) PROVE j = i
      <3>1. j \in DOMAIN p.periods
        BY DEF Began
      <3>2. /\ p.periods[i].start \in Int /\ p.periods[j].start \in Int
            /\ i \in Int /\ j \in Int
        BY <2>1, <3>1, ProfileFields
      <3>3. SUFFICES ASSUME i # j PROVE FALSE
        OBVIOUS
      <3>4. \/ p.periods[j].start < p.periods[i].start
            \/ p.periods[j].start = p.periods[i].start /\ j < i
        BY <2>1, <3>3 DEF Latest
      <3>5. \/ p.periods[i].start < p.periods[j].start
            \/ p.periods[i].start = p.periods[j].start /\ i < j
        BY <2>2, <2>3, <3>3 DEF Latest
      <3> QED BY <3>2, <3>4, <3>5
    <2>4. {x \in Began(p, off) : Latest(p, Began(p, off), x) /\ InForce(p, at, off)} = {i}
      BY <1>11, <2>1, <2>2, <2>3
    <2>5. GoverningPeriods(p, at, w) = {p.periods[i]}
      BY <1>9, <2>4
    <2> QED BY <2>1, <2>2, <2>5
  <1> QED BY <1>0, <1>1, <1>10, <1>11, ActiveCases

\* Division is monotonic.
LEMMA DivMono ==
  ASSUME NEW x \in Int, NEW y \in Int, x <= y, NEW n \in Nat \ {0}
  PROVE  x \div n <= y \div n
  <1>1. PICK q \in Int, r \in 0..(n - 1) : q = x \div n /\ r = x % n /\ x = n * q + r
    BY DivMod
  <1>2. PICK s \in Int, t \in 0..(n - 1) : s = y \div n /\ t = y % n /\ y = n * s + t
    BY DivMod
  <1>3. n * q \in Int /\ n * s \in Int /\ n * (s + 1) = n * s + n
    OBVIOUS
  <1>4. q >= s + 1 => n * q >= n * (s + 1)
    OBVIOUS
  <1>5. q <= s
    BY <1>1, <1>2, <1>3, <1>4
  <1> QED BY <1>1, <1>2, <1>5

\* From one second of the window to the next the schedule moves on by a second, unless
\* it begins again; the occurrence it is in is one that boundary_offsets lays out.
LEMMA OccurrenceOf ==
  ASSUME NEW p, IsProfile(p), NEW w \in Int, Whole(p.start, w), NEW duration \in Int,
         NEW o \in 1..(duration - 1), NEW at, at = w + Seconds(o), NEW bt, bt = w + Seconds(o - 1),
         NEW off, off = OffsetAt(p, at, w), NEW pff, pff = OffsetAt(p, bt, w)
  PROVE  /\ off \in Int /\ pff \in Int
         /\ \E occ \in Occurrences(p, w, duration) : occ \in Int /\ o = occ + off
         /\ pff = off - 1 \/ (off = 0 /\ p.kind = "Recurring" /\ pff >= 0)
  <1>0. o \in Nat /\ o - 1 \in Nat
    OBVIOUS
  <1>1. PICK base \in Int, raw \in Int :
          /\ base = NumSeconds(Anchor(p, w) - w)
          /\ raw = NumSeconds(at - Anchor(p, w)) /\ raw = o - base
    BY <1>0, RawAt
  <1>2. PICK sbase \in Int, sraw \in Int :
          /\ sbase = NumSeconds(Anchor(p, w) - w)
          /\ sraw = NumSeconds(bt - Anchor(p, w)) /\ sraw = (o - 1) - sbase
    BY <1>0, RawAt
  <1>3. sraw = raw - 1
    BY <1>1, <1>2
  <1>4. CASE RecurrencePeriod(p) = None
    <2>1. off = raw /\ pff = sraw
      BY <1>1, <1>2, <1>4 DEF OffsetAt
    <2>2. Occurrences(p, w, duration) = {base}
      BY <1>1, <1>4 DEF Occurrences
    <2> QED BY <1>1, <1>3, <2>1, <2>2
  <1>5. CASE RecurrencePeriod(p) # None
    <2>1. PICK e \in Nat \ {0} : e = RecurrencePeriod(p) /\ p.kind = "Recurring"
      BY <1>5, ProfileFields
    <2>2. PICK q \in Int, f \in 0..(e - 1) : q = raw \div e /\ f = raw % e /\ raw = e * q + f
      BY DivMod
    <2>3. off = f
      BY <1>1, <1>5, <2>1, <2>2 DEF OffsetAt
    <2>4. PICK z \in Int : z = q * e /\ z = e * q
      OBVIOUS
    <2>5. base + z \in Occurrences(p, w, duration)
      <3>1. q >= (-base) \div e
        <4>1. -base \in Int /\ -base <= raw
          BY <1>1
        <4> QED BY <2>2, <4>1, DivMono
      <3>2. q <= (duration - base) \div e
        <4>1. duration - base \in Int /\ raw <= duration - base
          BY <1>1
        <4> QED BY <2>2, <4>1, DivMono
      <3>3. base + z < duration
        BY <1>1, <2>2, <2>4
      <3>4. (-base) \div e \in Int /\ (duration - base) \div e \in Int
        <4>1. -base \in Int /\ duration - base \in Int
          OBVIOUS
        <4> QED BY <4>1, DivMod
      <3>5. q \in ((-base) \div e)..((duration - base) \div e)
        BY <3>1, <3>2, <3>4
      <3> DEFINE ks == {n \in ((-base) \div e)..((duration - base) \div e) : base + n * e < duration}
      <3>6. q \in ks
        BY <2>4, <3>3, <3>5
      <3>7. Occurrences(p, w, duration) = {base + k * e : k \in ks}
        BY <1>1, <1>5, <2>1 DEF Occurrences
      <3> HIDE DEF ks
      <3> QED BY <2>4, <3>6, <3>7
    <2>6. o = (base + z) + off
      <3>1. raw = z + f
        BY <2>2, <2>4
      <3>2. raw = o - base
        BY <1>1
      <3>3. o = (base + z) + f
        BY <3>1, <3>2
      <3> QED BY <2>3, <3>3
    <2>7. pff = sraw % e
      BY <1>2, <1>5, <2>1 DEF OffsetAt
    <2>8. PICK s \in Int, g \in 0..(e - 1) : s = sraw \div e /\ g = sraw % e /\ sraw = e * s + g
      BY DivMod
    <2>9. CASE f = 0
      <3>1. pff \in Int /\ pff >= 0 /\ off \in Int /\ off = 0
        BY <2>3, <2>7, <2>8, <2>9
      <3> QED BY <2>1, <2>5, <2>6, <3>1
    <2>10. CASE f # 0
      <3>1. PICK h \in 0..(e - 1) : h = f - 1
        BY <2>10
      <3>2. sraw = e * q + h
        BY <1>3, <2>2, <2>4, <3>1
      <3>3. sraw % e = h
        BY <3>2, DivUnique
      <3> QED BY <2>3, <2>5, <2>6, <2>7, <3>1, <3>3
    <2> QED BY <2>9, <2>10
  <1> QED BY <1>4, <1>5

\* What boundary_offsets collects, and nothing outside the window.
LEMMA BoundariesOf ==
  ASSUME NEW p, IsProfile(p), NEW w \in Int, NEW duration \in Int, NEW o \in 1..(duration - 1),
         o \notin BoundaryOffsets(p, w, duration)
  PROVE  /\ \A occ \in Occurrences(p, w, duration) : \A i \in DOMAIN p.periods :
               o # occ + p.periods[i].start
         /\ p.duration # None => \A occ \in Occurrences(p, w, duration) : o # occ + p.duration
         /\ p.from # None => o # NumSeconds(p.from - w)
         /\ p.to # None => o # NumSeconds(p.to - w) + 1
  <1>1. 0 < o /\ o < duration
    OBVIOUS
  <1>2. \A i \in DOMAIN p.periods : p.periods[i].start \in {q.start : q \in Range(p.periods)}
    BY DEF Range
  <1> DEFINE spans == {q.start : q \in Range(p.periods)}
                    \cup (IF p.duration = None THEN {} ELSE {p.duration})
             laid == {x + s : x \in Occurrences(p, w, duration), s \in spans}
             from == IF p.from = None THEN {} ELSE {NumSeconds(p.from - w)}
             to == IF p.to = None THEN {} ELSE {NumSeconds(p.to - w) + 1}
             edges == laid \cup from \cup to
  <1>3. BoundaryOffsets(p, w, duration) = {0} \cup {x \in edges : 0 < x /\ x < duration}
    BY DEF BoundaryOffsets
  <1>4. o \notin edges
    <2> HIDE DEF edges
    <2> QED BY <1>1, <1>3
  <1>5. o \notin laid /\ o \notin from /\ o \notin to
    <2> HIDE DEF laid, from, to
    <2> QED BY <1>4
  <1>6. \A i \in DOMAIN p.periods : p.periods[i].start \in spans
    BY <1>2
  <1>7. p.duration # None => p.duration \in spans
    OBVIOUS
  <1>8. \A x \in Occurrences(p, w, duration), s \in spans : o # x + s
    <2> HIDE DEF spans
    <2> QED BY <1>5
  <1> HIDE DEF spans, laid
  <1>9. \A occ \in Occurrences(p, w, duration) : \A i \in DOMAIN p.periods :
           o # occ + p.periods[i].start
    BY <1>6, <1>8
  <1>10. p.duration # None => \A occ \in Occurrences(p, w, duration) : o # occ + p.duration
    BY <1>7, <1>8
  <1> QED BY <1>5, <1>9, <1>10

\* Between boundaries nothing changes.
LEMMA StepSame ==
  ASSUME NEW p, IsProfile(p), NEW w \in Int, Whole(p.start, w), Whole(p.from, w),
         NEW duration \in Int, NEW o \in 1..(duration - 1),
         o \notin BoundaryOffsets(p, w, duration)
  PROVE  ActivePeriod(p, w + Seconds(o), w) = ActivePeriod(p, w + Seconds(o - 1), w)
  <1> DEFINE T == TicksPerSecond
  <1>0. T \in Nat \ {0}
    BY TicksAssumption
  <1>1. PICK at \in Int, bt \in Int : /\ at = w + Seconds(o) /\ bt = w + Seconds(o - 1)
                                      /\ at = w + T * o /\ bt = w + T * (o - 1)
    BY <1>0 DEF Seconds
  <1>2. PICK off, pff : off = OffsetAt(p, at, w) /\ pff = OffsetAt(p, bt, w)
    OBVIOUS
  <1>3. /\ off \in Int /\ pff \in Int
        /\ \E occ \in Occurrences(p, w, duration) : occ \in Int /\ o = occ + off
        /\ pff = off - 1 \/ (off = 0 /\ p.kind = "Recurring" /\ pff >= 0)
    BY <1>1, <1>2, OccurrenceOf
  <1>4. PICK occ \in Occurrences(p, w, duration) : occ \in Int /\ o = occ + off
    BY <1>3
  <1>5. \A i \in DOMAIN p.periods : p.periods[i].start # off
    BY <1>4, BoundariesOf
  <1>6. p.duration # None => p.duration # off
    BY <1>4, BoundariesOf
  <1>7. pff = off - 1
    BY <1>3, <1>5 DEF IsProfile
  <1>8. Began(p, off) = Began(p, pff)
    <2>1. \A i \in DOMAIN p.periods : p.periods[i].start <= off <=> p.periods[i].start <= pff
      BY <1>3, <1>5, <1>7, ProfileFields
    <2> QED BY <2>1 DEF Began
  <1> HIDE DEF T
  <1>9. ASSUME p.from # None PROVE at >= p.from <=> bt >= p.from
    <2>1. PICK f \in Int : f = p.from - w /\ p.from \in Int
      BY <1>9, ProfileFields
    <2>2. CASE f <= 0
      <3>1. T * o >= 0 /\ T * (o - 1) >= 0 /\ T * o \in Int /\ T * (o - 1) \in Int
        BY <1>0
      <3> QED BY <1>1, <2>1, <2>2, <3>1
    <2>3. CASE f > 0
      <3>1. f % T = 0
        BY <1>9, <2>1, <2>3 DEF Whole, T
      <3>2. PICK k \in Int : f = T * k
        BY <1>0, <3>1, Divides
      <3>3. k # o
        BY <1>9, <2>1, <3>2, BoundariesOf, NumSecondsOf DEF T
      <3>4. T * o >= T * k <=> o >= k
        <4>1. o >= k => T * o >= T * k
          BY <1>0
        <4>2. k >= o + 1 => T * k >= T * (o + 1)
          BY <1>0
        <4>3. T * (o + 1) > T * o
          BY <1>0
        <4>4. T * o \in Int /\ T * k \in Int /\ T * (o + 1) \in Int
          BY <1>0
        <4> QED BY <4>1, <4>2, <4>3, <4>4
      <3>5. T * (o - 1) >= T * k <=> o - 1 >= k
        <4>1. o - 1 >= k => T * (o - 1) >= T * k
          BY <1>0
        <4>2. k >= o => T * k >= T * o
          BY <1>0
        <4>3. T * o > T * (o - 1)
          BY <1>0
        <4>4. T * o \in Int /\ T * k \in Int /\ T * (o - 1) \in Int
          BY <1>0
        <4> QED BY <4>1, <4>2, <4>3, <4>4
      <3>6. T * o \in Int /\ T * k \in Int /\ T * (o - 1) \in Int
        BY <1>0
      <3> QED BY <1>1, <2>1, <3>2, <3>3, <3>4, <3>5, <3>6
    <2> QED BY <2>2, <2>3
  <1>10. ASSUME p.to # None PROVE at <= p.to <=> bt <= p.to
    <2>1. PICK t \in Int : t = p.to - w /\ p.to \in Int
      BY <1>10, ProfileFields
    <2>2. PICK x \in Int, y \in Int : x = T * o /\ y = T * (o - 1) /\ x >= 0 /\ y >= 0
      BY <1>0
    <2>3. CASE t < 0
      BY <1>1, <2>1, <2>2, <2>3
    <2>4. CASE t >= 0
      <3>1. PICK k \in Int : k = NumSeconds(t)
        BY NumSecondsOf
      <3>2. PICK r \in 0..(T - 1) : t = T * k + r
        BY <2>4, <3>1, NumSecondsOf DEF T
      <3>3. o # k + 1
        BY <1>10, <2>1, <3>1, BoundariesOf
      <3>4. o * T <= T * k + r <=> o <= k
        BY <1>0, <3>2, Scaled
      <3>5. (o - 1) * T <= T * k + r <=> o - 1 <= k
        BY <1>0, <3>2, Scaled
      <3>6. o * T = x /\ (o - 1) * T = y
        BY <1>0, <2>2
      <3>7. x <= t <=> y <= t
        BY <3>2, <3>3, <3>4, <3>5, <3>6
      <3> QED BY <1>1, <2>1, <2>2, <3>7
    <2> QED BY <2>3, <2>4
  <1>11. (InForce(p, at, off) <=> InForce(p, bt, pff)) \/ Began(p, off) = {}
    <2>1. CASE Began(p, off) = {}
      BY <2>1
    <2>2. CASE Began(p, off) # {}
      <3>1. PICK i \in DOMAIN p.periods : p.periods[i].start <= off
        BY <2>2 DEF Began
      <3>2. off >= 0 /\ pff >= 0
        BY <1>3, <1>5, <1>7, <3>1, ProfileFields
      <3>3. p.duration # None => (off < p.duration <=> pff < p.duration)
        BY <1>3, <1>6, <1>7, ProfileFields
      <3> QED BY <1>9, <1>10, <3>2, <3>3 DEF InForce
    <2> QED BY <2>1, <2>2
  <1>12. ActivePeriod(p, at, w) = ActivePeriod(p, bt, w)
    BY <1>2, <1>8, <1>11, SameActive
  <1> QED BY <1>1, <1>12

\* Boundaries lie in the window, and its start is one.
LEMMA BoundariesType ==
  ASSUME NEW p, IsProfile(p), NEW w \in Int, NEW duration \in Nat \ {0}
  PROVE  0 \in BoundaryOffsets(p, w, duration)
         /\ BoundaryOffsets(p, w, duration) \subseteq 0..(duration - 1)
  <1> DEFINE spans == {q.start : q \in Range(p.periods)}
                    \cup (IF p.duration = None THEN {} ELSE {p.duration})
             laid == {x + s : x \in Occurrences(p, w, duration), s \in spans}
             from == IF p.from = None THEN {} ELSE {NumSeconds(p.from - w)}
             to == IF p.to = None THEN {} ELSE {NumSeconds(p.to - w) + 1}
             edges == laid \cup from \cup to
  <1>1. BoundaryOffsets(p, w, duration) = {0} \cup {x \in edges : 0 < x /\ x < duration}
    BY DEF BoundaryOffsets
  <1>2. spans \subseteq Int
    <2>1. \A q \in Range(p.periods) : q.start \in Int
      BY ProfileFields DEF Range
    <2> QED BY <2>1, ProfileFields
  <1>3. Occurrences(p, w, duration) \subseteq Int
    <2>1. Anchor(p, w) - w \in Int
      BY ProfileFields DEF Anchor
    <2>2. PICK base \in Int : base = NumSeconds(Anchor(p, w) - w)
      BY <2>1, NumSecondsOf
    <2>3. CASE RecurrencePeriod(p) = None
      BY <2>2, <2>3 DEF Occurrences
    <2>4. CASE RecurrencePeriod(p) # None
      <3>1. PICK e \in Nat \ {0} : e = RecurrencePeriod(p)
        BY <2>4, ProfileFields
      <3> DEFINE ks == {n \in ((-base) \div e)..((duration - base) \div e) : base + n * e < duration}
      <3>2. ks \subseteq Int
        OBVIOUS
      <3>3. Occurrences(p, w, duration) = {base + k * e : k \in ks}
        BY <2>2, <2>4, <3>1 DEF Occurrences
      <3> HIDE DEF ks
      <3>4. \A k \in ks : base + k * e \in Int
        BY <3>2
      <3> QED BY <3>3, <3>4
    <2> QED BY <2>3, <2>4
  <1>4. laid \subseteq Int
    <2> HIDE DEF spans
    <2> QED BY <1>2, <1>3
  <1>5. from \subseteq Int
    <2>1. CASE p.from = None
      BY <2>1
    <2>2. CASE p.from # None
      <3>1. p.from - w \in Int
        BY <2>2, ProfileFields
      <3> QED BY <2>2, <3>1, NumSecondsOf
    <2> QED BY <2>1, <2>2
  <1>6. to \subseteq Int
    <2>1. CASE p.to = None
      BY <2>1
    <2>2. CASE p.to # None
      <3>1. p.to - w \in Int
        BY <2>2, ProfileFields
      <3>2. NumSeconds(p.to - w) \in Int
        BY <3>1, NumSecondsOf
      <3> QED BY <2>2, <3>2
    <2> QED BY <2>1, <2>2
  <1>7. edges \subseteq Int
    <2> HIDE DEF laid, from, to
    <2> QED BY <1>4, <1>5, <1>6
  <1> HIDE DEF edges
  <1>8. \A x \in edges : 0 < x /\ x < duration => x \in 0..(duration - 1)
    BY <1>7
  <1>9. 0 \in 0..(duration - 1)
    OBVIOUS
  <1> QED BY <1>1, <1>8, <1>9

(* Limits *)

\* The greater and the lesser of two numbers.
LEMMA OfTwo ==
  ASSUME NEW a \in Int, NEW b \in Int
  PROVE  /\ Max({a, b}) = IF a >= b THEN a ELSE b
         /\ Min({a, b}) = IF a <= b THEN a ELSE b
  <1>1. IsFiniteSet({a, b}) /\ {a, b} # {} /\ {a, b} \subseteq Int
    <2>1. {a, b} = {a} \cup {b} /\ IsFiniteSet({a})
      BY FS_Singleton
    <2> QED BY <2>1, FS_AddElement
  <1>2. PICK S : S = {a, b}
    OBVIOUS
  <1>3. Max(S) \in S /\ (\A y \in S : y <= Max(S)) /\ Min(S) \in S /\ \A y \in S : Min(S) <= y
    BY <1>1, <1>2, MaxOf, MinOf
  <1> QED BY <1>2, <1>3

\* A converted limit is a number.
LEMMA ConvertType ==
  ASSUME NEW limit \in Int, NEW from, NEW to, NEW phases \in Nat \ {0}, NEW voltage \in Nat \ {0}
  PROVE  Convert(limit, from, to, phases, voltage) \in Int
  <1>1. PICK n \in Nat \ {0} : n = voltage * phases
    OBVIOUS
  <1>2. limit \div n \in Int
    BY DivMod
  <1>3. limit * voltage * phases \in Int
    OBVIOUS
  <1> QED BY <1>1, <1>2, <1>3 DEF Convert

\* The phases and the limit of a period are numbers.
LEMMA PeriodParts ==
  ASSUME NEW p, IsProfile(p), NEW q \in Periods
  PROVE  EffectivePhases(q) \in Nat \ {0} /\ FlooredLimit(p, q) \in Int
  <1>1. q.limit \in Int /\ q.phases \in Phases
    BY DEF Periods
  <1>2. EffectivePhases(q) \in Nat \ {0}
    <2>1. CASE q.phases = None
      BY <2>1 DEF EffectivePhases
    <2>2. CASE q.phases # None
      <3>1. PICK n \in Nat \ {0} : n = q.phases
        BY <1>1, <2>2 DEF Phases
      <3>2. PICK m \in Int : m = Min({3, n})
        <4>1. Min({3, n}) = IF 3 <= n THEN 3 ELSE n
          BY OfTwo
        <4> QED BY <4>1
      <3>3. Max({1, m}) \in Nat \ {0}
        BY OfTwo
      <3> QED BY <2>2, <3>1, <3>2, <3>3 DEF EffectivePhases
    <2> QED BY <2>1, <2>2
  <1>3. FlooredLimit(p, q) \in Int
    <2>1. CASE p.floor = None
      BY <1>1, <2>1 DEF FlooredLimit
    <2>2. CASE p.floor # None
      <3>1. PICK f \in Int : f = p.floor
        BY <2>2, ProfileFields
      <3>2. Max({q.limit, f}) \in Int
        BY <1>1, OfTwo
      <3> QED BY <2>2, <3>1, <3>2 DEF FlooredLimit
    <2> QED BY <2>1, <2>2
  <1> QED BY <1>2, <1>3

\* What a profile demands under 2.0.1 is a number where a period is in force.
LEMMA LimitType ==
  ASSUME NEW p, IsProfile(p), NEW at \in Int, NEW w \in Int, NEW unit, NEW voltage \in Nat \ {0},
         NEW limit, limit = LimitAt201(p, at, w, unit, voltage)
  PROVE  /\ limit = None <=> ActivePeriod(p, at, w) = None
         /\ limit # None => limit \in Int
  <1>1. PICK q : q = ActivePeriod(p, at, w)
    OBVIOUS
  <1>2. CASE q = None
    BY <1>1, <1>2 DEF LimitAt201
  <1>3. CASE q # None
    <2>1. q \in Periods
      BY <1>1, <1>3, ActiveType
    <2>2. EffectivePhases(q) \in Nat \ {0} /\ FlooredLimit(p, q) \in Int
      BY <2>1, PeriodParts
    <2>3. limit = Convert(FlooredLimit(p, q), p.unit, unit, EffectivePhases(q), voltage)
      BY <1>1, <1>3 DEF LimitAt201
    <2>4. limit \in Int
      BY <2>2, <2>3, ConvertType
    <2> QED BY <1>1, <1>3, <2>4, NoneAssumption
  <1> QED BY <1>2, <1>3

\* The limits of a finite set of profiles.
LEMMA LimitsType ==
  ASSUME NEW ps, IsFiniteSet(ps), \A p \in ps : IsProfile(p), NEW at \in Int, NEW w \in Int,
         NEW unit, NEW voltage \in Nat \ {0}, NEW L, L = LimitsAt201(ps, at, w, unit, voltage)
  PROVE  /\ IsFiniteSet(L) /\ L \subseteq Int
         /\ \A p \in ps : ActivePeriod(p, at, w) # None => L # {}
  <1> DEFINE all == {LimitAt201(p, at, w, unit, voltage) : p \in ps}
  <1>1. L = all \ {None}
    BY DEF LimitsAt201
  <1>2. IsFiniteSet(all)
    <2>1. PICK f : f = [p \in ps |-> LimitAt201(p, at, w, unit, voltage)]
      OBVIOUS
    <2>2. f \in Surjection(ps, all)
      BY <2>1 DEF Surjection
    <2> HIDE DEF all
    <2> QED BY <2>2, FS_Surjection
  <1>3. IsFiniteSet(L)
    <2> HIDE DEF all
    <2> QED BY <1>1, <1>2, FS_Subset
  <1>4. L \subseteq Int
    BY <1>1, LimitType
  <1>5. \A p \in ps : ActivePeriod(p, at, w) # None => L # {}
    BY <1>1, LimitType
  <1> QED BY <1>3, <1>4, <1>5

(* The composite schedule of OCPP 2.0.1 *)

\* The limits, the demand at an instant, and the offsets it is looked at.
Limits201(base, ceils, at, w, unit, voltage) ==
    LimitsAt201({base} \cup ceils, at, w, unit, voltage)

Demand201(base, ceils, at, w, unit, voltage) ==
    IF ActivePeriod(base, at, w) = None THEN None
    ELSE [limit |-> Min(Limits201(base, ceils, at, w, unit, voltage)),
          phases |-> ActivePeriod(base, at, w).phases]

Offsets201(base, ceils, w, duration) ==
    UNION {BoundaryOffsets(p, w, duration) : p \in {base} \cup ceils}

Window201(base, ceils, w, duration, unit, voltage) ==
    [o \in 0..(duration - 1) |-> Demand201(base, ceils, w + Seconds(o), w, unit, voltage)]

\* A base profile and ceilings that the lemmas are about.
Stacked(base, ceils) ==
    IsProfile(base) /\ IsFiniteSet(ceils) /\ \A p \in ceils : IsProfile(p)

\* The demand is the least of the limits where the base profile is in force.
LEMMA Demand201Is ==
  ASSUME NEW base, NEW ceils, Stacked(base, ceils), NEW at \in Int, NEW w \in Int, NEW unit,
         NEW voltage \in Nat \ {0}, NEW d, d = Demand201(base, ceils, at, w, unit, voltage),
         NEW L, L = Limits201(base, ceils, at, w, unit, voltage)
  PROVE  /\ IsFiniteSet(L) /\ L \subseteq Int
         /\ d = None <=> ActivePeriod(base, at, w) = None
         /\ d # None => L # {} /\ d.limit = Min(L)
  <1>1. PICK ps : ps = {base} \cup ceils
    OBVIOUS
  <1>2. IsFiniteSet(ps) /\ (\A p \in ps : IsProfile(p)) /\ base \in ps
    <2>1. ps = ceils \cup {base}
      BY <1>1
    <2> QED BY <1>1, <2>1, FS_AddElement DEF Stacked
  <1>3. IsFiniteSet(L) /\ L \subseteq Int /\ (ActivePeriod(base, at, w) # None => L # {})
    BY <1>1, <1>2, LimitsType DEF Limits201
  <1>4. ASSUME ActivePeriod(base, at, w) # None
        PROVE  d # None /\ L # {} /\ d.limit = Min(L)
    <2>1. Min(L) \in Int
      BY <1>3, <1>4, MinOf
    <2>2. PICK q \in Periods : q = ActivePeriod(base, at, w)
      BY <1>4, ActiveType DEF Stacked
    <2>3. q.phases \in Phases
      BY DEF Periods
    <2>4. d = [limit |-> Min(L), phases |-> q.phases]
      BY <1>4, <2>2 DEF Demand201
    <2>5. d \in Demand
      BY <2>1, <2>3, <2>4 DEF Demand
    <2> QED BY <1>3, <1>4, <2>4, <2>5, NoneAssumption
  <1>5. ActivePeriod(base, at, w) = None => d = None
    BY DEF Demand201
  <1> QED BY <1>3, <1>4, <1>5

\* compose_composite_schedule_capped reports this demand,
LEMMA Composite201Is ==
  ASSUME NEW base, NEW ceils, NEW w, NEW duration \in Nat \ {0}, NEW unit, NEW voltage,
         Offsets201(base, ceils, w, duration) \subseteq 0..(duration - 1)
  PROVE  Composite201(base, ceils, w, duration, unit, voltage) =
           EmittedPeriods(Cut(Window201(base, ceils, w, duration, unit, voltage),
                              Offsets201(base, ceils, w, duration)))
  <1> DEFINE offsets == Offsets201(base, ceils, w, duration)
             D == Window201(base, ceils, w, duration, unit, voltage)
  <1>1. ~(duration <= 0)
    OBVIOUS
  <1>2. Cut(D, offsets) =
          [o \in offsets |-> Demand201(base, ceils, w + Seconds(o), w, unit, voltage)]
    BY DEF Window201, Cut
  <1>3. Composite201(base, ceils, w, duration, unit, voltage) =
          EmittedPeriods([o \in offsets |->
             Demand201(base, ceils, w + Seconds(o), w, unit, voltage)])
    BY <1>1 DEF Composite201, Offsets201, Demand201, Limits201
  <1> QED BY <1>2, <1>3

\* at offsets of the window only.
LEMMA Offsets201Type ==
  ASSUME NEW base, NEW ceils, Stacked(base, ceils), NEW w \in Int, NEW duration \in Nat \ {0}
  PROVE  /\ 0 \in Offsets201(base, ceils, w, duration)
         /\ Offsets201(base, ceils, w, duration) \subseteq 0..(duration - 1)
  <1>1. \A p \in {base} \cup ceils : /\ 0 \in BoundaryOffsets(p, w, duration)
                                     /\ BoundaryOffsets(p, w, duration) \subseteq 0..(duration - 1)
    BY BoundariesType DEF Stacked
  <1> QED BY <1>1 DEF Offsets201

\* Between these offsets it does not change, for schedules and validities that begin
\* a whole number of seconds into the window.
LEMMA Steady201 ==
  ASSUME NEW base, NEW ceils, Stacked(base, ceils), NEW w \in Int, NEW duration \in Nat \ {0},
         NEW unit, NEW voltage,
         \/ duration = 1
         \/ \A p \in {base} \cup ceils : Whole(p.start, w) /\ Whole(p.from, w)
  PROVE  Steady(Window201(base, ceils, w, duration, unit, voltage),
                Offsets201(base, ceils, w, duration), duration)
  <1> DEFINE offsets == Offsets201(base, ceils, w, duration)
             D == Window201(base, ceils, w, duration, unit, voltage)
  <1>1. 0 \in offsets /\ offsets \subseteq 0..(duration - 1)
    BY Offsets201Type
  <1>2. DOMAIN D = 0..(duration - 1)
    BY DEF Window201
  <1>3. ASSUME NEW o \in 1..(duration - 1), o \notin offsets PROVE D[o] = D[o - 1]
    <2>1. PICK at, bt : at = w + Seconds(o) /\ bt = w + Seconds(o - 1)
      OBVIOUS
    <2>2. \A p \in {base} \cup ceils : Whole(p.start, w) /\ Whole(p.from, w)
      BY <1>3
    <2>3. \A p \in {base} \cup ceils : IsProfile(p)
      BY DEF Stacked
    <2>4. \A p \in {base} \cup ceils : o \notin BoundaryOffsets(p, w, duration)
      BY <1>3 DEF Offsets201
    <2>5. duration \in Int
      OBVIOUS
    <2>6. ASSUME NEW p \in {base} \cup ceils PROVE ActivePeriod(p, at, w) = ActivePeriod(p, bt, w)
      BY <2>1, <2>2, <2>3, <2>4, <2>5, StepSame
    <2>7. \A p \in {base} \cup ceils :
             LimitAt201(p, at, w, unit, voltage) = LimitAt201(p, bt, w, unit, voltage)
      BY <2>6 DEF LimitAt201
    <2>8. LimitsAt201({base} \cup ceils, at, w, unit, voltage)
            = LimitsAt201({base} \cup ceils, bt, w, unit, voltage)
      BY <2>7 DEF LimitsAt201
    <2>9. Demand201(base, ceils, at, w, unit, voltage) = Demand201(base, ceils, bt, w, unit, voltage)
      BY <2>6, <2>8 DEF Demand201, Limits201
    <2>10. o \in 0..(duration - 1) /\ o - 1 \in 0..(duration - 1)
      OBVIOUS
    <2> QED BY <2>1, <2>9, <2>10 DEF Window201
  <1> QED BY <1>1, <1>2, <1>3 DEF Steady

\* So that the reported periods give the demand at every second of the window.
LEMMA Reports201 ==
  ASSUME NEW base, NEW ceils, Stacked(base, ceils), NEW w \in Int, NEW duration \in Nat \ {0},
         NEW unit, NEW voltage,
         \/ duration = 1
         \/ \A p \in {base} \cup ceils : Whole(p.start, w) /\ Whole(p.from, w),
         NEW D, D = Window201(base, ceils, w, duration, unit, voltage),
         NEW periods, periods = Composite201(base, ceils, w, duration, unit, voltage)
  PROVE  /\ \A o \in 0..(duration - 1) : Reads(periods, D, o)
         /\ periods # {} => \E o \in 0..(duration - 1) : D[o] # None
  <1>1. PICK offsets : offsets = Offsets201(base, ceils, w, duration)
    OBVIOUS
  <1>2. offsets \subseteq 0..(duration - 1)
    BY <1>1, Offsets201Type
  <1>3. periods = EmittedPeriods(Cut(D, offsets))
    BY <1>1, <1>2, Composite201Is
  <1>4. Steady(D, offsets, duration)
    BY <1>1, Steady201
  <1> QED BY <1>2, <1>3, <1>4, Reporting

\* The profiles the 2.0.1 stores give a connector.
LEMMA Profiles201Of ==
  ASSUME StoresInv, NEW c \in Ids
  PROVE  /\ BaseFor(c) # None =>
              Stacked(BaseFor(c), CeilingsFor(c)) /\ \E d \in Ids : <<d, BaseFor(c)>> \in Snapshot201
         /\ \A p \in CeilingsFor(c) : p # None /\ \E d \in Ids : <<d, p>> \in Snapshot201
         /\ VoltageOf(c) \in Nat \ {0}
  <1>0. 0 \in Ids
    BY ProfilesAssumption DEF Ids
  <1>1. /\ txProfiles \in [Ids -> Profiles201 \cup {None}]
        /\ txDefaults \in [Ids -> Profiles201 \cup {None}]
        /\ ceilings \in [CeilingKinds -> [Ids -> Profiles201 \cup {None}]]
    BY DEF StoresInv, TypeOK
  <1>2. \A p \in Profiles201 : IsProfile(p)
    BY ProfilesAssumption
  <1>3. BaseFor(c) # None =>
           IsProfile(BaseFor(c)) /\ \E d \in Ids : <<d, BaseFor(c)>> \in Snapshot201
    <2> SUFFICES ASSUME BaseFor(c) # None
                 PROVE  IsProfile(BaseFor(c)) /\ \E d \in Ids : <<d, BaseFor(c)>> \in Snapshot201
      OBVIOUS
    <2>1. \E d \in Ids : \/ BaseFor(c) = txProfiles[d] /\ txProfiles[d] # None
                         \/ BaseFor(c) = txDefaults[d] /\ txDefaults[d] # None
      BY <1>0 DEF BaseFor, EffectiveFor
    <2>2. PICK d \in Ids : \/ BaseFor(c) = txProfiles[d] /\ txProfiles[d] # None
                           \/ BaseFor(c) = txDefaults[d] /\ txDefaults[d] # None
      BY <2>1
    <2>3. BaseFor(c) \in Profiles201
      BY <1>1, <2>2
    <2>4. <<d, BaseFor(c)>> \in Snapshot201
      BY <2>2, SnapshotOf
    <2> QED BY <1>2, <2>3, <2>4
  <1>4. ASSUME NEW p \in CeilingsFor(c)
        PROVE  p # None /\ IsProfile(p) /\ \E d \in Ids : <<d, p>> \in Snapshot201
    <2>1. PICK k \in CeilingKinds : p = EffectiveFor(ceilings[k], c) /\ p # None
      BY DEF CeilingsFor
    <2>2. PICK d \in Ids : p = ceilings[k][d]
      BY <1>0, <2>1 DEF EffectiveFor
    <2>3. p \in Profiles201
      BY <1>1, <2>1, <2>2
    <2>4. <<d, p>> \in Snapshot201
      BY <2>1, <2>2, SnapshotOf
    <2> QED BY <1>2, <2>1, <2>3, <2>4
  <1>5. IsFiniteSet(CeilingsFor(c))
    <2>1. PICK a, b : a = EffectiveFor(ceilings["Max"], c) /\ b = EffectiveFor(ceilings["External"], c)
      OBVIOUS
    <2>2. IsFiniteSet({a} \cup {b})
      BY FS_Singleton, FS_AddElement
    <2>3. CeilingsFor(c) \in SUBSET ({a} \cup {b})
      BY <2>1 DEF CeilingsFor, CeilingKinds
    <2> QED BY <2>2, <2>3, FS_Subset
  <1>6. VoltageOf(c) \in Nat \ {0}
    BY ProfilesAssumption DEF VoltageOf
  <1> QED BY <1>3, <1>4, <1>5, <1>6 DEF Stacked

\* The least of a set and one more number.
LEMMA MinWith ==
  ASSUME NEW n \in Int, NEW L, IsFiniteSet(L), L # {}, L \subseteq Int
  PROVE  Min({n} \cup L) = Min({n, Min(L)})
  <1>1. PICK m \in Int : m = Min(L) /\ m \in L /\ \A y \in L : m <= y
    BY MinOf
  <1>2. PICK S : S = L \cup {n}
    OBVIOUS
  <1>3. IsFiniteSet(S) /\ S # {} /\ S \subseteq Int
    BY <1>2, FS_AddElement
  <1>4. PICK x \in Int : x = Min(S) /\ x \in S /\ \A y \in S : x <= y
    BY <1>3, MinOf
  <1>5. x = IF n <= m THEN n ELSE m
    BY <1>1, <1>2, <1>4
  <1>6. Min({n, m}) = IF n <= m THEN n ELSE m
    BY OfTwo
  <1>7. {n} \cup L = S
    BY <1>2
  <1> QED BY <1>1, <1>4, <1>5, <1>6, <1>7

\* The sampler's conversion to watts and the one of the composite agree where the
\* same period is in force.
LEMMA InWatts ==
  ASSUME NEW p, IsProfile(p), NEW at \in Int, NEW w1, NEW w2, NEW voltage \in Nat \ {0},
         w2 \in Int, ActivePeriod(p, at, w1) = ActivePeriod(p, at, w2)
  PROVE  ActiveLimitW(p, at, w1, voltage) = LimitAt201(p, at, w2, "W", voltage)
  <1>1. PICK period : period = ActivePeriod(p, at, w2)
    OBVIOUS
  <1>2. CASE period = None
    BY <1>1, <1>2 DEF ActiveLimitW, LimitAt201
  <1>3. CASE period # None
    <2>1. period \in Periods
      BY <1>1, <1>3, ActiveType
    <2>2. PICK limit \in Int : limit = FlooredLimit(p, period)
      BY <2>1, PeriodParts
    <2>3. PICK phases \in Nat \ {0} : phases = EffectivePhases(period)
      BY <2>1, PeriodParts
    <2>4. ActiveLimitW(p, at, w1, voltage)
             = limit * (IF p.unit = "W" THEN 1 ELSE voltage * phases)
      BY <1>1, <1>3, <2>2, <2>3 DEF ActiveLimitW
    <2>5. LimitAt201(p, at, w2, "W", voltage) = Convert(limit, p.unit, "W", phases, voltage)
      BY <1>1, <1>3, <2>2, <2>3 DEF LimitAt201
    <2> QED BY <2>2, <2>3, <2>4, <2>5 DEF Convert
  <1> QED BY <1>2, <1>3

\* The power a 2.0.1 transaction is metered at is the one the composite schedule of
\* that second reports, capped by the natural rate, for profiles with a start of
\* their own.
THEOREM SampleMatchesCompositeHolds == Spec => []SampleMatchesComposite
  <1>1. ASSUME IInv PROVE SampleMatchesComposite
    <2> DEFINE c == reply.connector
               base == BaseFor(c)
               ceils == CeilingsFor(c)
               voltage == VoltageOf(c)
               periods == Composite201(base, ceils, clock, 1, "W", voltage)
    <2> SUFFICES ASSUME reply.op = "Sample", base # None,
                        \A p \in {base} \cup ceils : p.kind # "Relative" /\ p.start # None,
                        periods # {}
                 PROVE  reply.power = Min({NaturalPower, Reported(periods, 0)})
      BY DEF SampleMatchesComposite
    <2>1. c \in Connectors /\ reply.power = MeteredPower(c) /\ txStart[c] # None
      BY <1>1 DEF IInv, ReplyInv
    <2>2. c \in Ids
      BY <2>1, ProfilesAssumption DEF Connectors, Ids
    <2>3. /\ Stacked(base, ceils) /\ voltage \in Nat \ {0}
          /\ \A p \in ceils : p # None
      BY <1>1, <2>2, Profiles201Of DEF IInv
    <2>4. clock \in Int /\ NaturalPower \in Int
      BY <1>1, ProfilesAssumption DEF IInv, StoresInv, TypeOK
    <2>5. txStart[c] \in Int
      BY <1>1, <2>1, ProfilesAssumption DEF IInv, StoresInv, TypeOK
    <2> HIDE DEF base, ceils, voltage, c
    <2>6. PICK L : L = Limits201(base, ceils, clock, clock, "W", voltage)
      OBVIOUS
    <2>7. PICK D : D = Window201(base, ceils, clock, 1, "W", voltage)
      OBVIOUS
    <2>8. PICK d : d = Demand201(base, ceils, clock, clock, "W", voltage)
      OBVIOUS
    <2>9. D[0] = d
      <3>1. clock + Seconds(0) = clock
        BY <2>4, TicksAssumption DEF Seconds
      <3> QED BY <2>7, <2>8, <3>1 DEF Window201
    <2>10. 1 \in Nat \ {0} /\ 0..(1 - 1) = {0}
      OBVIOUS
    <2>11. Reads(periods, D, 0) /\ D[0] # None
      <3>1. /\ \A o \in 0..(1 - 1) : Reads(periods, D, o)
            /\ periods # {} => \E o \in 0..(1 - 1) : D[o] # None
        <4> HIDE DEF periods
        <4>1. periods = Composite201(base, ceils, clock, 1, "W", voltage)
          BY DEF periods
        <4> QED BY <2>3, <2>4, <2>7, <2>10, <4>1, Reports201
      <3> QED BY <2>10, <3>1
    <2>12. Reported(periods, 0) = d.limit /\ d # None
      BY <2>9, <2>11 DEF Reads
    <2>13. IsFiniteSet(L) /\ L \subseteq Int /\ L # {} /\ d.limit = Min(L)
      <3>1. /\ IsFiniteSet(L) /\ L \subseteq Int
            /\ d # None => L # {} /\ d.limit = Min(L)
        BY <2>3, <2>4, <2>6, <2>8, Demand201Is
      <3> QED BY <2>12, <3>1
    <2>14. PowerLimits(base, ceils, clock, txStart[c], voltage) = L
      <3>1. \A p \in {base} \cup ceils :
               ActivePeriod(p, clock, txStart[c]) = ActivePeriod(p, clock, clock)
        BY AnchoredActive
      <3>2. ASSUME NEW p \in {base} \cup ceils
            PROVE  ActiveLimitW(p, clock, txStart[c], voltage) = LimitAt201(p, clock, clock, "W", voltage)
        <4>1. IsProfile(p)
          BY <2>3 DEF Stacked
        <4> QED BY <2>3, <2>4, <3>1, <3>2, <4>1, InWatts
      <3>3. ({base} \cup ceils) \ {None} = {base} \cup ceils
        BY <2>3
      <3> QED BY <2>6, <3>2, <3>3 DEF PowerLimits, LimitsAt201, Limits201
    <2>15. reply.power = Min({NaturalPower} \cup L)
      BY <2>1, <2>14 DEF MeteredPower, BoundedPower, base, ceils, voltage
    <2>16. Min({NaturalPower} \cup L) = Min({NaturalPower, Min(L)})
      BY <2>4, <2>13, MinWith
    <2> QED BY <2>12, <2>13, <2>15, <2>16
  <1> QED BY <1>1, Invariant, PTL

(* What the reply shows *)

\* The demand D is the one the reference finds, over the window.
Shows(D, c, duration, unit) ==
    \A o \in 0..(duration - 1) :
        /\ D[o] = None => Demanded(c, clock + Seconds(o), unit) = None
        /\ D[o] # None => /\ D[o].limit \in Int
                          /\ Demanded(c, clock + Seconds(o), unit) = D[o].limit

\* A reply that gives that demand at every second reports what is demanded.
LEMMA ReportsOf ==
  ASSUME NEW D, NEW periods, NEW duration, duration = reply.duration, periods = reply.periods,
         Shows(D, reply.connector, duration, reply.unit),
         \A o \in 0..(duration - 1) : Reads(periods, D, o),
         periods # {} => \E o \in 0..(duration - 1) : D[o] # None
  PROVE  ReportsDemand
  <1> DEFINE limits == [o \in 0..(reply.duration - 1) |->
                          Demanded(reply.connector, clock + Seconds(o), reply.unit)]
  <1>1. ASSUME NEW o \in DOMAIN limits, limits[o] # None
        PROVE  Reported(reply.periods, o) = limits[o]
    <2>1. o \in 0..(duration - 1) /\ limits[o] = Demanded(reply.connector, clock + Seconds(o), reply.unit)
      OBVIOUS
    <2> HIDE DEF limits
    <2>2. D[o] # None
      BY <1>1, <2>1 DEF Shows
    <2>3. limits[o] = D[o].limit
      BY <2>1, <2>2 DEF Shows
    <2> QED BY <2>1, <2>2, <2>3 DEF Reads
  <1>2. ASSUME reply.periods # {} PROVE \E o \in DOMAIN limits : limits[o] # None
    <2>1. PICK o \in 0..(duration - 1) : D[o] # None
      BY <1>2
    <2>2. Demanded(reply.connector, clock + Seconds(o), reply.unit) \in Int
      BY <2>1 DEF Shows
    <2>3. o \in DOMAIN limits /\ limits[o] \in Int
      BY <2>2
    <2> HIDE DEF limits
    <2> QED BY <2>3, NoneAssumption
  <1> QED BY <1>1, <1>2 DEF ReportsDemand

\* A rejected request, where nothing applies or the window is empty.
LEMMA ReportsNothing ==
  ASSUME reply.periods = {},
         \A o \in 0..(reply.duration - 1) :
            Demanded(reply.connector, clock + Seconds(o), reply.unit) = None
  PROVE  ReportsDemand
  BY DEF ReportsDemand

\* The whole seconds of one installed profile.
LEMMA WholeOf ==
  ASSUME WholeSeconds, NEW e \in Installed
  PROVE  Whole(e[2].start, clock) /\ Whole(e[2].from, clock)
  BY DEF WholeSeconds, Whole

(* OCPP 2.0.1 *)

\* A profile demands the limit of the period in force.
LEMMA Demands201 ==
  ASSUME version = "V201", NEW c \in Ids, NEW p, IsProfile(p), clock \in Int, Whole(p.start, clock),
         NEW o \in Nat, NEW at, at = clock + Seconds(o), NEW unit,
         NEW voltage \in Nat \ {0}, voltage = VoltageOf(c)
  PROVE  Demands(p, c, at, clock, unit) = {LimitAt201(p, at, clock, unit, voltage)} \ {None}
  <1> DEFINE one(q) == Convert(FlooredLimit(p, q), p.unit, unit, EffectivePhases(q), voltage)
  <1>1. Demands(p, c, at, clock, unit) = {one(q) : q \in GoverningPeriods(p, at, clock)}
    BY DEF Demands
  <1>2. PICK active : active = ActivePeriod(p, at, clock)
    OBVIOUS
  <1>3. GoverningPeriods(p, at, clock) = {active} \ {None}
    BY <1>2, Governing
  <1>4. at \in Int
    BY TicksAssumption DEF Seconds
  <1>5. CASE active = None
    BY <1>1, <1>2, <1>3, <1>5 DEF LimitAt201
  <1>6. CASE active # None
    <2>1. LimitAt201(p, at, clock, unit, voltage) = one(active)
      BY <1>2, <1>6 DEF LimitAt201
    <2>2. LimitAt201(p, at, clock, unit, voltage) # None
      BY <1>2, <1>4, <1>6, LimitType
    <2>3. Demands(p, c, at, clock, unit) = {one(active)}
      BY <1>1, <1>3, <1>6
    <2> HIDE DEF one
    <2> QED BY <2>1, <2>2, <2>3
  <1> QED BY <1>5, <1>6

\* The demand of the composite schedule is the one of the reference.
LEMMA Demanded201 ==
  ASSUME StoresInv, version = "V201", NEW c \in Ids, NEW base, base = BaseFor(c), base # None,
         NEW ceils, ceils = CeilingsFor(c), \A p \in {base} \cup ceils : Whole(p.start, clock),
         NEW o \in Nat, NEW at, at = clock + Seconds(o), NEW unit,
         NEW d, d = Demand201(base, ceils, at, clock, unit, VoltageOf(c))
  PROVE  /\ d = None => Demanded(c, at, unit) = None
         /\ d # None => d.limit \in Int /\ Demanded(c, at, unit) = d.limit
  <1>1. Stacked(base, ceils) /\ VoltageOf(c) \in Nat \ {0}
    BY Profiles201Of
  <1>2. clock \in Int
    BY ProfilesAssumption DEF StoresInv, TypeOK
  <1>3. at \in Int
    BY <1>2, TicksAssumption DEF Seconds
  <1>4. PICK L : L = Limits201(base, ceils, at, clock, unit, VoltageOf(c))
    OBVIOUS
  <1>5. /\ IsFiniteSet(L) /\ L \subseteq Int
        /\ d = None <=> ActivePeriod(base, at, clock) = None
        /\ d # None => L # {} /\ d.limit = Min(L)
    BY <1>1, <1>2, <1>3, <1>4, Demand201Is
  <1>6. PICK active : active = ActivePeriod(base, at, clock)
    OBVIOUS
  <1>7. Governs(base, at, clock) <=> active # None
    <2>1. GoverningPeriods(base, at, clock) = {active} \ {None}
      BY <1>1, <1>2, <1>6, Governing DEF Stacked
    <2> QED BY <2>1 DEF Governs
  <1>8. CASE active = None
    <2>1. Ruling201(c, at) = {}
      BY <1>7, <1>8 DEF Ruling201
    <2>2. Demanded(c, at, unit) = None
      BY <2>1 DEF Demanded
    <2> QED BY <1>5, <1>6, <1>8, <2>2
  <1>9. CASE active # None
    <2>1. Ruling201(c, at) = {base} \cup ceils
      BY <1>7, <1>9 DEF Ruling201
    <2>2. \A p \in {base} \cup ceils : Demands(p, c, at, clock, unit)
                                         = {LimitAt201(p, at, clock, unit, VoltageOf(c))} \ {None}
      BY <1>1, <1>2, Demands201 DEF Stacked
    <2>3. UNION {Demands(p, c, at, clock, unit) : p \in Ruling201(c, at)} = L
      <3>1. PICK ps : ps = {base} \cup ceils
        OBVIOUS
      <3>2. UNION {Demands(p, c, at, clock, unit) : p \in ps} =
              {LimitAt201(p, at, clock, unit, VoltageOf(c)) : p \in ps} \ {None}
        BY <2>2, <3>1
      <3> QED BY <1>4, <2>1, <3>1, <3>2 DEF LimitsAt201, Limits201
    <2>4. d # None /\ L # {}
      BY <1>5, <1>6, <1>9
    <2>5. Demanded(c, at, unit) = Min(L)
      BY <2>3, <2>4 DEF Demanded
    <2>6. Min(L) \in Int
      BY <1>5, <2>4, MinOf
    <2> QED BY <1>5, <2>4, <2>5, <2>6
  <1> QED BY <1>8, <1>9

\* GetCompositeSchedule of OCPP 2.0.1 reports what is demanded.
LEMMA Composite201Reports ==
  ASSUME StoresInv, version = "V201", WholeSeconds,
         NEW c \in Ids, NEW duration \in Durations, NEW u, reply = Schedule201(c, duration, u)
  PROVE  ReportsDemand
  <1>1. clock \in Int /\ duration \in Int
    BY ProfilesAssumption DEF StoresInv, TypeOK
  <1>2. PICK base, ceils, voltage :
          base = BaseFor(c) /\ ceils = CeilingsFor(c) /\ voltage = VoltageOf(c)
    OBVIOUS
  <1>3. CASE base = None
    <2>1. reply.periods = {} /\ reply.connector = c
      BY <1>2, <1>3 DEF Schedule201, CompositeReply
    <2>2. \A at, unit : Demanded(c, at, unit) = None
      BY <1>2, <1>3 DEF Demanded, Ruling201
    <2> QED BY <2>1, <2>2, ReportsNothing
  <1>4. CASE base # None
    <2>1. PICK unit : unit = IF u # None THEN u ELSE base.unit
      OBVIOUS
    <2>2. PICK periods : periods = Composite201(base, ceils, clock, duration, unit, voltage)
      OBVIOUS
    <2>3. reply = CompositeReply(c, duration, unit, periods)
      BY <1>2, <1>4, <2>1, <2>2 DEF Schedule201
    <2>4. /\ reply.periods = periods /\ reply.connector = c /\ reply.duration = duration
          /\ reply.unit = unit
      BY <2>3 DEF CompositeReply
    <2>5. CASE duration <= 0
      <3>1. periods = {}
        BY <2>2, <2>5 DEF Composite201
      <3>2. 0..(duration - 1) = {}
        BY <1>1, <2>5
      <3> QED BY <2>4, <3>1, <3>2, ReportsNothing
    <2>6. CASE duration > 0
      <3>1. duration \in Nat \ {0}
        BY <1>1, <2>6
      <3>2. /\ Stacked(base, ceils) /\ voltage \in Nat \ {0}
            /\ \E d \in Ids : <<d, base>> \in Snapshot201
            /\ \A p \in ceils : \E d \in Ids : <<d, p>> \in Snapshot201
        BY <1>2, <1>4, Profiles201Of
      <3>3. Installed = Snapshot201
        BY DEF Installed
      <3>4. \A p \in {base} \cup ceils : Whole(p.start, clock) /\ Whole(p.from, clock)
        <4> SUFFICES ASSUME NEW p \in {base} \cup ceils
                     PROVE  Whole(p.start, clock) /\ Whole(p.from, clock)
          OBVIOUS
        <4>1. PICK d \in Ids : <<d, p>> \in Installed
          BY <3>2, <3>3
        <4>2. PICK e \in Installed : e = <<d, p>>
          BY <4>1
        <4>3. e[2] = p
          BY <4>2
        <4> QED BY <4>2, <4>3, WholeOf
      <3>5. PICK D : D = Window201(base, ceils, clock, duration, unit, voltage)
        OBVIOUS
      <3>6. /\ \A o \in 0..(duration - 1) : Reads(periods, D, o)
            /\ periods # {} => \E o \in 0..(duration - 1) : D[o] # None
        BY <1>1, <2>2, <3>1, <3>2, <3>4, <3>5, Reports201
      <3>7. Shows(D, c, duration, unit)
        <4> SUFFICES ASSUME NEW o \in 0..(duration - 1)
                     PROVE  /\ D[o] = None => Demanded(c, clock + Seconds(o), unit) = None
                            /\ D[o] # None =>
                                 /\ D[o].limit \in Int
                                 /\ Demanded(c, clock + Seconds(o), unit) = D[o].limit
          BY DEF Shows
        <4>1. PICK at : at = clock + Seconds(o)
          OBVIOUS
        <4>2. D[o] = Demand201(base, ceils, at, clock, unit, voltage)
          BY <3>5, <4>1 DEF Window201
        <4>3. o \in Nat
          BY <1>1
        <4>4. PICK d : d = D[o]
          OBVIOUS
        <4>5. /\ d = None => Demanded(c, at, unit) = None
              /\ d # None => d.limit \in Int /\ Demanded(c, at, unit) = d.limit
          BY <1>2, <1>4, <3>4, <4>1, <4>2, <4>3, <4>4, Demanded201
        <4> QED BY <4>1, <4>4, <4>5
      <3> QED BY <2>4, <3>6, <3>7, ReportsOf
    <2> QED BY <1>1, <2>5, <2>6
  <1> QED BY <1>3, <1>4

(* OCPP 1.6J: the candidates *)

\* Candidate i of connector c is the installed profile e.
Entry(cands, c, i, e) ==
    /\ e \in Installed /\ e[1] \in {0, c}
    /\ cands[i].profile = e[2]
    /\ (IF cands[i].specific THEN 1 ELSE 0) = (IF e[1] = c THEN 1 ELSE 0)

\* A list of the profiles that bear on connector c.
Listing(cands, c) ==
    /\ DOMAIN cands \subseteq Int /\ IsFiniteSet(DOMAIN cands)
    /\ \A i \in DOMAIN cands : \E e : Entry(cands, c, i, e)
    /\ \A e \in Installed : e[1] \in {0, c} => \E i \in DOMAIN cands : Entry(cands, c, i, e)

\* Candidates lists the profiles installed for a connector and for the whole station.
LEMMA CandidatesOf ==
  ASSUME StoresInv, version = "V16J", NEW c \in Ids, NEW cands, cands = Candidates(c)
  PROVE  Listing(cands, c)
  <1> DEFINE tagged(d, mine) ==
               [i \in DOMAIN profiles[d] |-> [specific |-> mine, profile |-> profiles[d][i]]]
  <1>0. 0 \in Ids
    BY ProfilesAssumption DEF Ids
  <1>1. \A d \in Ids : DOMAIN profiles[d] = 1..Len(profiles[d]) /\ Len(profiles[d]) \in Nat
    BY LenProperties DEF StoresInv, TypeOK
  <1>2. PICK m \in Nat, n \in Nat : m = Len(profiles[c]) /\ n = Len(profiles[0])
    BY <1>0, <1>1
  <1>3. DOMAIN profiles[c] = 1..m /\ DOMAIN profiles[0] = 1..n
    BY <1>0, <1>1, <1>2
  <1>4. \A i \in 1..m : <<c, profiles[c][i]>> \in Installed
    BY <1>3 DEF Installed, Range
  <1>5. \A i \in 1..n : <<0, profiles[0][i]>> \in Installed
    BY <1>0, <1>3 DEF Installed, Range
  <1>6. ASSUME NEW e \in Installed, e[1] \in {0, c}
        PROVE  \/ \E i \in 1..m : e = <<c, profiles[c][i]>>
               \/ \E i \in 1..n : e = <<0, profiles[0][i]>>
    <2>1. PICK d \in Ids : \E q \in Range(profiles[d]) : e = <<d, q>>
      BY InstalledAt16
    <2>2. PICK i \in DOMAIN profiles[d] : e = <<d, profiles[d][i]>>
      BY <2>1 DEF Range
    <2>3. d \in {0, c}
      BY <1>6, <2>2
    <2> QED BY <1>3, <2>2, <2>3
  <1>7. CASE c = 0
    <2>1. cands = tagged(0, TRUE)
      BY <1>7 DEF Candidates
    <2>2. DOMAIN cands = 1..n
      BY <1>3, <2>1
    <2>3. ASSUME NEW i \in 1..n PROVE Entry(cands, c, i, <<0, profiles[0][i]>>)
      <3>1. cands[i] = [specific |-> TRUE, profile |-> profiles[0][i]]
        BY <1>3, <2>1
      <3> QED BY <1>5, <1>7, <3>1 DEF Entry
    <2>4. IsFiniteSet(1..n) /\ 1..n \subseteq Int
      BY FS_Interval
    <2>5. \A e \in Installed : e[1] \in {0, c} => \E i \in DOMAIN cands : Entry(cands, c, i, e)
      BY <1>2, <1>6, <1>7, <2>2, <2>3
    <2> QED BY <2>2, <2>3, <2>4, <2>5 DEF Listing
  <1>8. CASE c # 0
    <2>1. cands = tagged(c, TRUE) \o tagged(0, FALSE)
      BY <1>8 DEF Candidates
    <2>2. PICK s, t : s = tagged(c, TRUE) /\ t = tagged(0, FALSE)
      OBVIOUS
    <2>3. /\ DOMAIN s = 1..m /\ \A i \in 1..m : s[i] = [specific |-> TRUE, profile |-> profiles[c][i]]
          /\ DOMAIN t = 1..n /\ \A i \in 1..n : t[i] = [specific |-> FALSE, profile |-> profiles[0][i]]
      BY <1>3, <2>2
    <2>4. PICK A : s \in Seq(A) /\ t \in Seq(A)
      <3> DEFINE A == {s[i] : i \in 1..m} \cup {t[i] : i \in 1..n}
      <3>1. s \in Seq(A) /\ t \in Seq(A)
        <4>1. s = [i \in 1..m |-> s[i]] /\ t = [i \in 1..n |-> t[i]]
          BY <2>2, <2>3
        <4>2. (\A i \in 1..m : s[i] \in A) /\ (\A i \in 1..n : t[i] \in A)
          OBVIOUS
        <4> HIDE DEF A
        <4>3. s \in [1..m -> A] /\ t \in [1..n -> A]
          BY <4>1, <4>2
        <4> QED BY <4>3, SeqDef
      <3> QED BY <3>1
    <2>5. Len(s) = m /\ Len(t) = n
      BY <2>3, <2>4, LenProperties
    <2>6. /\ DOMAIN cands = 1..(m + n)
          /\ \A i \in 1..m : cands[i] = s[i]
          /\ \A i \in 1..n : cands[m + i] = t[i]
      <3>1. cands = s \o t
        BY <2>1, <2>2
      <3>2. cands \in Seq(A) /\ Len(cands) = m + n
        BY <2>4, <2>5, <3>1, ConcatProperties
      <3>3. \A i \in 1..(m + n) : cands[i] = IF i <= m THEN s[i] ELSE t[i - m]
        <4>1. \A i \in 1..(Len(s) + Len(t)) :
                 (s \o t)[i] = IF i <= Len(s) THEN s[i] ELSE t[i - Len(s)]
          BY <2>4, ConcatProperties
        <4> QED BY <2>5, <3>1, <4>1
      <3>4. DOMAIN cands = 1..(m + n)
        BY <3>2, LenProperties
      <3> QED BY <3>3, <3>4
    <2>7. ASSUME NEW i \in 1..m PROVE Entry(cands, c, i, <<c, profiles[c][i]>>)
      <3>1. cands[i] = [specific |-> TRUE, profile |-> profiles[c][i]]
        BY <2>3, <2>6
      <3> QED BY <1>4, <3>1 DEF Entry
    <2>8. ASSUME NEW i \in 1..n PROVE Entry(cands, c, m + i, <<0, profiles[0][i]>>)
      <3>1. cands[m + i] = [specific |-> FALSE, profile |-> profiles[0][i]]
        BY <2>3, <2>6
      <3> QED BY <1>5, <1>8, <3>1 DEF Entry
    <2>9. IsFiniteSet(1..(m + n)) /\ 1..(m + n) \subseteq Int
      <3>1. PICK k \in Nat : k = m + n
        OBVIOUS
      <3> QED BY <3>1, FS_Interval
    <2>10. \A i \in 1..(m + n) : \E e : Entry(cands, c, i, e)
      <3> SUFFICES ASSUME NEW i \in 1..(m + n) PROVE \E e : Entry(cands, c, i, e)
        OBVIOUS
      <3>1. CASE i <= m
        <4>1. i \in 1..m
          BY <3>1
        <4> QED BY <2>7, <4>1
      <3>2. CASE i > m
        <4>1. i - m \in 1..n /\ m + (i - m) = i
          BY <3>2
        <4> QED BY <2>8, <4>1
      <3> QED BY <3>1, <3>2
    <2>11. ASSUME NEW e \in Installed, e[1] \in {0, c}
           PROVE  \E i \in DOMAIN cands : Entry(cands, c, i, e)
      <3>1. CASE \E i \in 1..m : e = <<c, profiles[c][i]>>
        <4>1. PICK i \in 1..m : e = <<c, profiles[c][i]>>
          BY <3>1
        <4>2. i \in 1..(m + n)
          OBVIOUS
        <4> QED BY <2>6, <2>7, <4>1, <4>2
      <3>2. CASE \E i \in 1..n : e = <<0, profiles[0][i]>>
        <4>1. PICK i \in 1..n : e = <<0, profiles[0][i]>>
          BY <3>2
        <4>2. m + i \in 1..(m + n)
          OBVIOUS
        <4> QED BY <2>6, <2>8, <4>1, <4>2
      <3> QED BY <1>6, <2>11, <3>1, <3>2
    <2> QED BY <2>6, <2>9, <2>10, <2>11 DEF Listing
  <1> QED BY <1>7, <1>8

\* An installed 1.6J profile.
LEMMA Installed16Is ==
  ASSUME StoresInv, version = "V16J", NEW e \in Installed
  PROVE  /\ e[1] \in Nat /\ e[2] \in Profiles16 /\ IsProfile(e[2]) /\ e[2].stack \in Nat
         /\ e[2].purpose \in {"ChargePointMaxProfile", "TxDefaultProfile", "TxProfile"}
         /\ e[2].purpose = "ChargePointMaxProfile" => e[1] = 0
  <1>1. PICK d \in Ids : \E q \in Range(profiles[d]) : e = <<d, q>>
    BY InstalledAt16
  <1>2. PICK q \in Range(profiles[d]) : e = <<d, q>>
    BY <1>1
  <1>3. d \in Nat
    BY ProfilesAssumption DEF Ids
  <1>4. q \in Profiles16
    <2>1. profiles[d] \in Seq(Profiles16)
      BY DEF StoresInv, TypeOK
    <2>2. \A i \in DOMAIN profiles[d] : profiles[d][i] \in Profiles16
      BY <2>1, ElementOfSeq, LenProperties
    <2> QED BY <2>2 DEF Range
  <1>5. q.purpose = "ChargePointMaxProfile" => d = 0
    BY DEF StoresInv, Place16Inv
  <1>6. IsProfile(q) /\ q.purpose \in {"ChargePointMaxProfile", "TxDefaultProfile", "TxProfile"}
    BY <1>4, ProfilesAssumption
  <1>7. q.stack \in Nat
    BY <1>6 DEF IsProfile
  <1> QED BY <1>2, <1>3, <1>4, <1>5, <1>6, <1>7

\* Whether an entry is a ceiling.
Ceiling(e) == e[2].purpose = "ChargePointMaxProfile"

\* e outranks f: by purpose, then by connector, then by stack level.
LEMMA OutranksIs ==
  ASSUME StoresInv, version = "V16J", NEW e \in Installed, NEW f \in Installed,
         NEW a \in Int, a = IF e[2].purpose = "TxProfile" THEN 1 ELSE 0,
         NEW b \in Int, b = IF f[2].purpose = "TxProfile" THEN 1 ELSE 0
  PROVE  Outranks(e, f) <=>
           \/ b < a
           \/ b = a /\ f[1] < e[1]
           \/ b = a /\ f[1] = e[1] /\ f[2].stack < e[2].stack
  <1>1. /\ e[1] \in Int /\ f[1] \in Int /\ e[2].stack \in Int /\ f[2].stack \in Int
    BY Installed16Is
  <1>2. PICK x \in Int, y \in Int, u \in Int, v \in Int :
          x = e[1] /\ y = f[1] /\ u = e[2].stack /\ v = f[2].stack
    BY <1>1
  <1>3. Outranks(e, f) <=> LexLess(<<b, y, v>>, <<a, x, u>>)
    BY <1>2 DEF Outranks
  <1>4. LexLess(<<b, y, v>>, <<a, x, u>>) <=>
           b < a \/ (b = a /\ y < x) \/ (b = a /\ y = x /\ v < u)
    BY LexLess3
  <1> QED BY <1>2, <1>3, <1>4

\* Of two entries that are both ceilings, or both not, one outranks the other.
LEMMA ClassRanked ==
  ASSUME StoresInv, version = "V16J", NEW e \in Installed, NEW f \in Installed,
         e # f, Ceiling(e) <=> Ceiling(f)
  PROVE  Outranks(e, f) \/ Outranks(f, e)
  <1>1. CASE e[2].purpose = f[2].purpose
    BY <1>1, RankedApart
  <1>2. CASE e[2].purpose # f[2].purpose
    <2>1. /\ e[2].purpose \in {"ChargePointMaxProfile", "TxDefaultProfile", "TxProfile"}
          /\ f[2].purpose \in {"ChargePointMaxProfile", "TxDefaultProfile", "TxProfile"}
      BY Installed16Is
    <2>2. PICK a \in Int : a = IF e[2].purpose = "TxProfile" THEN 1 ELSE 0
      OBVIOUS
    <2>3. PICK b \in Int : b = IF f[2].purpose = "TxProfile" THEN 1 ELSE 0
      OBVIOUS
    <2>4. a < b \/ b < a
      BY <1>2, <2>1, <2>2, <2>3 DEF Ceiling
    <2>5. a < b => Outranks(f, e)
      BY <2>2, <2>3, OutranksIs
    <2>6. b < a => Outranks(e, f)
      BY <2>2, <2>3, OutranksIs
    <2> QED BY <2>4, <2>5, <2>6
  <1> QED BY <1>1, <1>2

(* OCPP 1.6J: the winners *)

\* The entries that bear on connector c at an instant, and those of a kind that no
\* other of that kind outranks.
Bearing16(c, at) == {e \in Installed : e[1] \in {0, c} /\ Governs(e[2], at, clock)}

Heads(c, at, kind) ==
    {x \in Bearing16(c, at) :
        /\ Ceiling(x) <=> kind = "ceiling"
        /\ \A y \in Bearing16(c, at) : (Ceiling(y) <=> kind = "ceiling") => ~Outranks(y, x)}

\* There is at most one.
LEMMA HeadsOf ==
  ASSUME StoresInv, version = "V16J", NEW c, NEW at, NEW kind \in {"override", "ceiling"},
         NEW e \in Bearing16(c, at), Ceiling(e) <=> kind = "ceiling",
         \A f \in Bearing16(c, at) : (Ceiling(f) <=> kind = "ceiling") => ~Outranks(f, e)
  PROVE  Heads(c, at, kind) = {e}
  <1>1. e \in Heads(c, at, kind)
    BY DEF Heads
  <1>2. ASSUME NEW x \in Heads(c, at, kind) PROVE x = e
    <2>1. x \in Bearing16(c, at) /\ (Ceiling(x) <=> kind = "ceiling") /\ ~Outranks(e, x)
      BY DEF Heads
    <2>2. ~Outranks(x, e)
      BY <2>1
    <2>3. x \in Installed /\ e \in Installed /\ (Ceiling(e) <=> Ceiling(x))
      BY <2>1 DEF Bearing16
    <2> QED BY <2>1, <2>2, <2>3, ClassRanked
  <1> QED BY <1>1, <1>2

\* The reference ruling, kind by kind.
LEMMA RulingOf ==
  ASSUME NEW c, NEW at
  PROVE  Ruling16(c, at) = {e[2] : e \in Heads(c, at, "override") \cup Heads(c, at, "ceiling")}
  <1>1. Ruling16(c, at) =
          {e[2] : e \in {x \in Bearing16(c, at) : \A y \in Bearing16(c, at) :
                            Ceiling(x) = Ceiling(y) => ~Outranks(y, x)}}
    BY DEF Ruling16, Bearing16, Ceiling
  <1>2. \A x, y : (Ceiling(x) = Ceiling(y)) <=> (Ceiling(x) <=> Ceiling(y))
    BY DEF Ceiling
  <1>3. {x \in Bearing16(c, at) : \A y \in Bearing16(c, at) :
            Ceiling(x) = Ceiling(y) => ~Outranks(y, x)}
          = Heads(c, at, "override") \cup Heads(c, at, "ceiling")
    <2>1. "override" # "ceiling"
      OBVIOUS
    <2> HIDE DEF Ceiling
    <2>2. ASSUME NEW x \in Bearing16(c, at)
          PROVE  (\A y \in Bearing16(c, at) : Ceiling(x) = Ceiling(y) => ~Outranks(y, x))
                   <=> x \in Heads(c, at, "override") \cup Heads(c, at, "ceiling")
      <3>1. CASE Ceiling(x)
        BY <1>2, <2>1, <3>1 DEF Heads
      <3>2. CASE ~Ceiling(x)
        BY <1>2, <2>1, <3>2 DEF Heads
      <3> QED BY <3>1, <3>2
    <2>3. \A k : Heads(c, at, k) \subseteq Bearing16(c, at)
      BY DEF Heads
    <2> QED BY <2>2, <2>3
  <1> QED BY <1>1, <1>3

\* A profile governs where a period of it is in force.
LEMMA GovernsIff ==
  ASSUME StoresInv, version = "V16J", WholeSeconds, NEW e \in Installed,
         NEW o \in Nat, NEW at, at = clock + Seconds(o)
  PROVE  Governs(e[2], at, clock) <=> ActivePeriod(e[2], at, clock) # None
  <1>1. IsProfile(e[2]) /\ Whole(e[2].start, clock)
    BY Installed16Is, WholeOf
  <1>2. clock \in Int
    BY ProfilesAssumption DEF StoresInv, TypeOK
  <1>3. PICK p, active : p = e[2] /\ active = ActivePeriod(p, at, clock)
    OBVIOUS
  <1>4. GoverningPeriods(p, at, clock) = {active} \ {None}
    BY <1>1, <1>2, <1>3, Governing
  <1> QED BY <1>3, <1>4 DEF Governs

\* The candidates in force, and the keys they are compared by.
Overriding(cands, at, w) ==
    {i \in DOMAIN cands : /\ OverrideRank(cands[i].profile.purpose) # None
                          /\ ActivePeriod(cands[i].profile, at, w) # None}
Capping(cands, at, w) ==
    {i \in DOMAIN cands : /\ OverrideRank(cands[i].profile.purpose) = None
                          /\ ActivePeriod(cands[i].profile, at, w) # None}
OverrideKey(cands, S) ==
    [i \in S |-> <<OverrideRank(cands[i].profile.purpose),
                   IF cands[i].specific THEN 1 ELSE 0, cands[i].profile.stack>>]
CeilingKey(cands, S) == [i \in S |-> <<cands[i].profile.stack>>]

\* override_limit_at and ceiling_limit_at.
OverrideAt(cands, at, w) == WinnerAt(cands, at, w, TRUE)
CeilingAt(cands, at, w) == WinnerAt(cands, at, w, FALSE)

\* The winners have the greatest key.
LEMMA WinnersUnfolded ==
  ASSUME NEW cands, NEW at, NEW w, NEW S, S = Overriding(cands, at, w),
         NEW C, C = Capping(cands, at, w)
  PROVE  /\ OverrideAt(cands, at, w) =
              IF S = {} THEN None ELSE cands[LastMax(S, OverrideKey(cands, S))].profile
         /\ CeilingAt(cands, at, w) =
              IF C = {} THEN None ELSE cands[LastMax(C, CeilingKey(cands, C))].profile
  <1>1. {i \in DOMAIN cands : /\ (OverrideRank(cands[i].profile.purpose) # None) = TRUE
                              /\ ActivePeriod(cands[i].profile, at, w) # None} = S
    BY DEF Overriding
  <1>2. {i \in DOMAIN cands : /\ (OverrideRank(cands[i].profile.purpose) # None) = FALSE
                              /\ ActivePeriod(cands[i].profile, at, w) # None} = C
    BY DEF Capping
  <1>3. OverrideAt(cands, at, w) =
          IF S = {} THEN None ELSE cands[LastMax(S, OverrideKey(cands, S))].profile
    BY <1>1 DEF WinnerAt, OverrideKey, OverrideAt
  <1>4. CeilingAt(cands, at, w) =
          IF C = {} THEN None ELSE cands[LastMax(C, CeilingKey(cands, C))].profile
    BY <1>2 DEF WinnerAt, CeilingKey, CeilingAt
  <1> QED BY <1>3, <1>4

\* The rank of a purpose.
LEMMA RankOf ==
  ASSUME NEW purpose, purpose \in {"ChargePointMaxProfile", "TxDefaultProfile", "TxProfile"},
         NEW r, r = OverrideRank(purpose)
  PROVE  /\ purpose = "ChargePointMaxProfile" <=> r = None
         /\ purpose = "TxProfile" => r = 2
         /\ purpose = "TxDefaultProfile" => r = 1
  BY NoneAssumption DEF OverrideRank

\* win is the profile of the only entry of H, or None if there is none.
Won(win, H) == \/ win = None /\ H = {}
               \/ \E e \in Installed : H = {e} /\ win = e[2]

\* A candidate in force is an entry that bears on the connector, and conversely.
LEMMA InForceIff ==
  ASSUME StoresInv, version = "V16J", WholeSeconds, NEW c \in Ids, NEW cands, Listing(cands, c),
         NEW o \in Nat, NEW at, at = clock + Seconds(o),
         NEW i \in DOMAIN cands, NEW e, Entry(cands, c, i, e)
  PROVE  /\ i \in Overriding(cands, at, clock) <=> e \in Bearing16(c, at) /\ ~Ceiling(e)
         /\ i \in Capping(cands, at, clock) <=> e \in Bearing16(c, at) /\ Ceiling(e)
  <1>1. e \in Installed /\ e[1] \in {0, c} /\ cands[i].profile = e[2]
    BY DEF Entry
  <1>2. Governs(e[2], at, clock) <=> ActivePeriod(e[2], at, clock) # None
    BY <1>1, GovernsIff
  <1>3. Ceiling(e) <=> OverrideRank(e[2].purpose) = None
    BY <1>1, Installed16Is, RankOf DEF Ceiling
  <1>4. e \in Bearing16(c, at) <=> ActivePeriod(e[2], at, clock) # None
    BY <1>1, <1>2 DEF Bearing16
  <1>5. i \in Overriding(cands, at, clock) <=>
           OverrideRank(e[2].purpose) # None /\ ActivePeriod(e[2], at, clock) # None
    BY <1>1 DEF Overriding
  <1>6. i \in Capping(cands, at, clock) <=>
           OverrideRank(e[2].purpose) = None /\ ActivePeriod(e[2], at, clock) # None
    BY <1>1 DEF Capping
  <1> QED BY <1>3, <1>4, <1>5, <1>6

\* override_limit_at finds the override that rules,
LEMMA WonOverride ==
  ASSUME StoresInv, version = "V16J", WholeSeconds, NEW c \in Ids, NEW cands, Listing(cands, c),
         NEW o \in Nat, NEW at, at = clock + Seconds(o),
         NEW win, win = OverrideAt(cands, at, clock)
  PROVE  Won(win, Heads(c, at, "override"))
  <1>1. PICK S : S = Overriding(cands, at, clock)
    OBVIOUS
  <1>2. PICK key : key = OverrideKey(cands, S)
    OBVIOUS
  <1>3. win = IF S = {} THEN None ELSE cands[LastMax(S, key)].profile
    <2>1. PICK C : C = Capping(cands, at, clock)
      OBVIOUS
    <2> QED BY <1>1, <1>2, <2>1, WinnersUnfolded
  <1>4. S \subseteq DOMAIN cands
    BY <1>1 DEF Overriding
  <1>5. "override" # "ceiling"
    OBVIOUS
  <1>6. CASE S = {}
    <2>1. ASSUME NEW x \in Heads(c, at, "override") PROVE FALSE
      <3>1. x \in Bearing16(c, at) /\ ~Ceiling(x)
        BY <1>5 DEF Heads
      <3>2. PICK i \in DOMAIN cands : Entry(cands, c, i, x)
        BY <3>1 DEF Bearing16, Listing
      <3>3. i \in S
        BY <1>1, <3>1, <3>2, InForceIff
      <3> QED BY <1>6, <3>3
    <2> QED BY <1>3, <1>6, <2>1 DEF Won
  <1>7. CASE S # {}
    <2>1. S \subseteq Int /\ IsFiniteSet(S)
      BY <1>4, FS_Subset DEF Listing
    <2>2. ASSUME NEW i \in S, NEW e, Entry(cands, c, i, e)
          PROVE  /\ e \in Bearing16(c, at) /\ ~Ceiling(e) /\ e \in Installed /\ e[1] \in {0, c}
                 /\ \E a \in {0, 1} :
                      /\ a = IF e[2].purpose = "TxProfile" THEN 1 ELSE 0
                      /\ key[i] = <<a + 1, IF e[1] = c THEN 1 ELSE 0, e[2].stack>>
      <3>1. e \in Bearing16(c, at) /\ ~Ceiling(e)
        BY <1>1, <1>4, <2>2, InForceIff
      <3>2. e \in Installed /\ e[1] \in {0, c} /\ cands[i].profile = e[2]
        BY <2>2 DEF Entry
      <3>3. PICK a \in {0, 1} : a = IF e[2].purpose = "TxProfile" THEN 1 ELSE 0
        OBVIOUS
      <3>4. OverrideRank(e[2].purpose) = a + 1
        BY <3>1, <3>2, <3>3, Installed16Is, RankOf DEF Ceiling
      <3>5. key[i] = <<OverrideRank(cands[i].profile.purpose),
                       IF cands[i].specific THEN 1 ELSE 0, cands[i].profile.stack>>
        BY <1>2 DEF OverrideKey
      <3>6. key[i] = <<a + 1, IF e[1] = c THEN 1 ELSE 0, e[2].stack>>
        BY <2>2, <3>2, <3>4, <3>5 DEF Entry
      <3> QED BY <3>1, <3>2, <3>3, <3>6
    <2>3. key \in [S -> Int \X Int \X Int]
      <3>1. ASSUME NEW i \in S PROVE key[i] \in Int \X Int \X Int
        <4>1. PICK e : Entry(cands, c, i, e)
          BY <1>4 DEF Listing
        <4>2. PICK a \in {0, 1} : key[i] = <<a + 1, IF e[1] = c THEN 1 ELSE 0, e[2].stack>>
          BY <2>2, <4>1
        <4>3. e[2].stack \in Int
          BY <2>2, <4>1, Installed16Is
        <4> QED BY <4>2, <4>3
      <3>2. key = [i \in S |-> key[i]]
        BY <1>2 DEF OverrideKey
      <3> QED BY <3>1, <3>2
    <2>4. PICK i : i = LastMax(S, key)
      OBVIOUS
    <2>5. i \in S /\ \A j \in S : ~Less3(key[i], key[j])
      BY <1>7, <2>1, <2>3, <2>4, LastMax3
    <2>6. PICK e : Entry(cands, c, i, e)
      BY <1>4, <2>5 DEF Listing
    <2>7. e \in Bearing16(c, at) /\ ~Ceiling(e) /\ e \in Installed /\ win = e[2]
      BY <1>3, <1>7, <2>2, <2>4, <2>5, <2>6 DEF Entry
    <2>8. ASSUME NEW f \in Bearing16(c, at), ~Ceiling(f) PROVE ~Outranks(f, e)
      <3>1. PICK j \in DOMAIN cands : Entry(cands, c, j, f)
        BY <2>8 DEF Bearing16, Listing
      <3>2. j \in S
        BY <1>1, <2>8, <3>1, InForceIff
      <3>3. ~Less3(key[i], key[j])
        BY <2>5, <3>2
      <3>4. f \in Installed /\ f[1] \in {0, c} /\ e[1] \in {0, c}
        BY <2>2, <2>5, <2>6, <3>1, <3>2
      <3>5. PICK a \in {0, 1} : /\ a = IF e[2].purpose = "TxProfile" THEN 1 ELSE 0
                                /\ key[i] = <<a + 1, IF e[1] = c THEN 1 ELSE 0, e[2].stack>>
        BY <2>2, <2>5, <2>6
      <3>6. PICK b \in {0, 1} : /\ b = IF f[2].purpose = "TxProfile" THEN 1 ELSE 0
                                /\ key[j] = <<b + 1, IF f[1] = c THEN 1 ELSE 0, f[2].stack>>
        BY <2>2, <3>1, <3>2
      <3>7. PICK x \in Nat, y \in Nat, u \in Nat, v \in Nat :
              x = e[1] /\ y = f[1] /\ u = e[2].stack /\ v = f[2].stack
        BY <2>7, <3>4, Installed16Is
      <3>8. PICK s \in {0, 1}, t \in {0, 1} :
              s = (IF x = c THEN 1 ELSE 0) /\ t = (IF y = c THEN 1 ELSE 0)
        OBVIOUS
      <3>9. key[i] = <<a + 1, s, u>> /\ key[j] = <<b + 1, t, v>>
        BY <3>5, <3>6, <3>7, <3>8
      <3>10. ~(a + 1 < b + 1) /\ ~(a + 1 = b + 1 /\ s < t) /\ ~(a + 1 = b + 1 /\ s = t /\ u < v)
        BY <3>3, <3>9 DEF Less3
      <3>11. x \in {0, c} /\ y \in {0, c} /\ c \in Nat
        BY <3>4, <3>7, ProfilesAssumption DEF Ids
      <3>12. ~(a < b) /\ ~(a = b /\ x < y) /\ ~(a = b /\ x = y /\ u < v)
        BY <3>8, <3>10, <3>11
      <3>13. a \in Int /\ b \in Int
        OBVIOUS
      <3>14. Outranks(f, e) <=> a < b \/ (a = b /\ x < y) \/ (a = b /\ x = y /\ u < v)
        BY <2>7, <3>4, <3>5, <3>6, <3>7, <3>13, OutranksIs
      <3> QED BY <3>12, <3>14
    <2>9. Heads(c, at, "override") = {e}
      <3>1. PICK kind \in {"override", "ceiling"} : kind = "override"
        OBVIOUS
      <3>2. Ceiling(e) <=> kind = "ceiling"
        BY <1>5, <2>7, <3>1
      <3>3. \A f \in Bearing16(c, at) : (Ceiling(f) <=> kind = "ceiling") => ~Outranks(f, e)
        BY <1>5, <2>8, <3>1
      <3> QED BY <2>7, <3>1, <3>2, <3>3, HeadsOf
    <2> QED BY <2>7, <2>9 DEF Won
  <1> QED BY <1>6, <1>7

\* and ceiling_limit_at the ceiling.
LEMMA WonCeiling ==
  ASSUME StoresInv, version = "V16J", WholeSeconds, NEW c \in Ids, NEW cands, Listing(cands, c),
         NEW o \in Nat, NEW at, at = clock + Seconds(o),
         NEW win, win = CeilingAt(cands, at, clock)
  PROVE  Won(win, Heads(c, at, "ceiling"))
  <1>1. PICK S : S = Capping(cands, at, clock)
    OBVIOUS
  <1>2. PICK key : key = CeilingKey(cands, S)
    OBVIOUS
  <1>3. win = IF S = {} THEN None ELSE cands[LastMax(S, key)].profile
    <2>1. PICK T : T = Overriding(cands, at, clock)
      OBVIOUS
    <2> QED BY <1>1, <1>2, <2>1, WinnersUnfolded
  <1>4. S \subseteq DOMAIN cands
    BY <1>1 DEF Capping
  <1>6. CASE S = {}
    <2>1. ASSUME NEW x \in Heads(c, at, "ceiling") PROVE FALSE
      <3>1. x \in Bearing16(c, at) /\ Ceiling(x)
        BY DEF Heads
      <3>2. PICK i \in DOMAIN cands : Entry(cands, c, i, x)
        BY <3>1 DEF Bearing16, Listing
      <3>3. i \in S
        BY <1>1, <3>1, <3>2, InForceIff
      <3> QED BY <1>6, <3>3
    <2> QED BY <1>3, <1>6, <2>1 DEF Won
  <1>7. CASE S # {}
    <2>1. S \subseteq Int /\ IsFiniteSet(S)
      BY <1>4, FS_Subset DEF Listing
    <2>2. ASSUME NEW i \in S, NEW e, Entry(cands, c, i, e)
          PROVE  /\ e \in Bearing16(c, at) /\ Ceiling(e) /\ e \in Installed
                 /\ cands[i].profile = e[2] /\ e[2].stack \in Int /\ e[1] = 0
      <3>1. e \in Bearing16(c, at) /\ Ceiling(e)
        BY <1>1, <1>4, <2>2, InForceIff
      <3>2. e \in Installed /\ cands[i].profile = e[2]
        BY <2>2 DEF Entry
      <3>3. e[2].stack \in Int /\ e[1] = 0
        BY <3>1, <3>2, Installed16Is DEF Ceiling
      <3> QED BY <3>1, <3>2, <3>3
    <2>3. PICK stack : stack = [i \in S |-> cands[i].profile.stack]
      OBVIOUS
    <2>4. stack \in [S -> Int]
      <3>1. ASSUME NEW i \in S PROVE cands[i].profile.stack \in Int
        <4>1. PICK e : Entry(cands, c, i, e)
          BY <1>4 DEF Listing
        <4> QED BY <2>2, <4>1
      <3> QED BY <2>3, <3>1
    <2>5. Keyed(S, stack, key)
      BY <1>2, <2>3 DEF Keyed, CeilingKey
    <2>6. PICK i : i = LastMax(S, key)
      OBVIOUS
    <2>7. LastBy(S, stack, i)
      BY <1>7, <2>1, <2>4, <2>5, <2>6, LastMax1
    <2>8. i \in S /\ \A j \in S : stack[j] <= stack[i]
      BY <2>4, <2>7 DEF LastBy
    <2>9. PICK e : Entry(cands, c, i, e)
      BY <1>4, <2>8 DEF Listing
    <2>10. e \in Bearing16(c, at) /\ Ceiling(e) /\ e \in Installed /\ win = e[2]
      BY <1>3, <1>7, <2>2, <2>6, <2>8, <2>9
    <2>11. ASSUME NEW f \in Bearing16(c, at), Ceiling(f) PROVE ~Outranks(f, e)
      <3>1. PICK j \in DOMAIN cands : Entry(cands, c, j, f)
        BY <2>11 DEF Bearing16, Listing
      <3>2. j \in S
        BY <1>1, <2>11, <3>1, InForceIff
      <3>3. stack[j] <= stack[i]
        BY <2>8, <3>2
      <3>4. /\ f \in Installed /\ f[1] = 0 /\ e[1] = 0
            /\ stack[j] = f[2].stack /\ stack[i] = e[2].stack
        BY <2>2, <2>3, <2>8, <2>9, <3>1, <3>2
      <3>5. PICK z \in Int : z = 0
        OBVIOUS
      <3>6. /\ z = IF e[2].purpose = "TxProfile" THEN 1 ELSE 0
            /\ z = IF f[2].purpose = "TxProfile" THEN 1 ELSE 0
        BY <2>10, <2>11, <3>5 DEF Ceiling
      <3>7. Outranks(f, e) <=> \/ z < z \/ (z = z /\ e[1] < f[1])
                               \/ (z = z /\ e[1] = f[1] /\ e[2].stack < f[2].stack)
        BY <2>10, <3>4, <3>6, OutranksIs
      <3>8. e[2].stack \in Int /\ f[2].stack \in Int
        BY <2>2, <2>8, <2>9, <3>1, <3>2
      <3> QED BY <3>3, <3>4, <3>5, <3>7, <3>8
    <2>12. Heads(c, at, "ceiling") = {e}
      <3>1. PICK kind \in {"override", "ceiling"} : kind = "ceiling"
        OBVIOUS
      <3>2. Ceiling(e) <=> kind = "ceiling"
        BY <2>10, <3>1
      <3>3. \A f \in Bearing16(c, at) : (Ceiling(f) <=> kind = "ceiling") => ~Outranks(f, e)
        BY <2>11, <3>1
      <3> QED BY <2>10, <3>1, <3>2, <3>3, HeadsOf
    <2> QED BY <2>10, <2>12 DEF Won
  <1> QED BY <1>6, <1>7

(* OCPP 1.6J: the composite schedule *)

\* What a profile contributes where a period of it is in force is a demand,
LEMMA ContributionType ==
  ASSUME NEW p, IsProfile(p), NEW at \in Int, NEW w \in Int, NEW unit, NEW voltage \in Nat \ {0},
         ActivePeriod(p, at, w) # None, NEW d, d = Contribution16(p, at, w, unit, voltage)
  PROVE  d \in Demand /\ d # None /\ d.limit \in Int
  <1>1. PICK q \in Periods : q = ActivePeriod(p, at, w)
    BY ActiveType
  <1>2. q.limit \in Int /\ q.phases \in Phases
    BY DEF Periods
  <1>3. PICK n \in Nat \ {0} : n = IF q.phases = None THEN 1 ELSE q.phases
    BY <1>2 DEF Phases
  <1>4. PICK x \in Int : x = Convert(q.limit, p.unit, unit, n, voltage)
    BY <1>2, ConvertType
  <1>5. d = [limit |-> x, phases |-> q.phases]
    BY <1>1, <1>3, <1>4 DEF Contribution16
  <1>6. d \in Demand
    BY <1>2, <1>5 DEF Demand
  <1> QED BY <1>5, <1>6, NoneAssumption

\* and the only limit the reference finds in it.
LEMMA Demands16 ==
  ASSUME version = "V16J", clock \in Int, NEW c, NEW p, IsProfile(p), Whole(p.start, clock),
         NEW o \in Nat, NEW at, at = clock + Seconds(o), NEW unit,
         ActivePeriod(p, at, clock) # None,
         NEW d, d = Contribution16(p, at, clock, unit, NominalVoltage)
  PROVE  Demands(p, c, at, clock, unit) = {d.limit}
  <1>1. PICK active : active = ActivePeriod(p, at, clock)
    OBVIOUS
  <1>2. GoverningPeriods(p, at, clock) = {active}
    <2>1. GoverningPeriods(p, at, clock) = {active} \ {None}
      BY <1>1, Governing
    <2> QED BY <1>1, <2>1
  <1> DEFINE one(q) == Convert(q.limit, p.unit, unit, IF q.phases = None THEN 1 ELSE q.phases,
                               NominalVoltage)
  <1>3. Demands(p, c, at, clock, unit) = {one(q) : q \in GoverningPeriods(p, at, clock)}
    BY DEF Demands
  <1>4. d.limit = one(active)
    BY <1>1 DEF Contribution16
  <1> HIDE DEF one
  <1> QED BY <1>2, <1>3, <1>4

\* The stricter of what an override and a ceiling contribute, None standing for neither.
Stricter(over, cap) ==
    IF over = None THEN cap
    ELSE IF cap = None \/ over.limit <= cap.limit THEN over ELSE cap

Contributed(p, at, w, unit) ==
    IF p = None THEN None ELSE Contribution16(p, at, w, unit, NominalVoltage)

\* effective_limit_at.
Effective16(cands, at, w, unit) ==
    Stricter(Contributed(OverrideAt(cands, at, w), at, w, unit),
             Contributed(CeilingAt(cands, at, w), at, w, unit))

\* It is EffectiveAt16.
LEMMA EffectiveUnfolded ==
  ASSUME NEW cands, NEW at, NEW w, NEW unit
  PROVE  EffectiveAt16(cands, at, w, unit, NominalVoltage) = Effective16(cands, at, w, unit)
  BY DEF EffectiveAt16, Effective16, Stricter, Contributed, OverrideAt, CeilingAt

\* The limits a winner stands for.
LimitsOf(H, c, at, unit) == UNION {Demands(e[2], c, at, clock, unit) : e \in H}

\* A winner contributes the only limit of its entry.
LEMMA WonLimits ==
  ASSUME StoresInv, version = "V16J", WholeSeconds, NEW c, NEW o \in Nat,
         NEW at, at = clock + Seconds(o), NEW unit, NEW kind, NEW H, H = Heads(c, at, kind),
         NEW win, Won(win, H), NEW d, d = Contributed(win, at, clock, unit)
  PROVE  \/ d = None /\ LimitsOf(H, c, at, unit) = {}
         \/ d # None /\ d.limit \in Int /\ LimitsOf(H, c, at, unit) = {d.limit}
  <1>0. clock \in Int /\ NominalVoltage \in Nat \ {0}
    BY ProfilesAssumption DEF StoresInv, TypeOK
  <1>1. at \in Int
    BY <1>0, TicksAssumption DEF Seconds
  <1>2. CASE win = None /\ H = {}
    BY <1>2 DEF Contributed, LimitsOf
  <1>3. CASE \E e \in Installed : H = {e} /\ win = e[2]
    <2>1. PICK e \in Installed : H = {e} /\ win = e[2]
      BY <1>3
    <2>2. IsProfile(win) /\ Whole(win.start, clock) /\ win # None
      BY <2>1, Installed16Is, WholeOf DEF IsProfile
    <2>3. e \in Bearing16(c, at)
      BY <2>1 DEF Heads
    <2>4. ActivePeriod(win, at, clock) # None
      BY <2>1, <2>3, GovernsIff DEF Bearing16
    <2>5. d = Contribution16(win, at, clock, unit, NominalVoltage)
      BY <2>2 DEF Contributed
    <2>6. d # None /\ d.limit \in Int
      BY <1>0, <1>1, <2>2, <2>4, <2>5, ContributionType
    <2>7. Demands(win, c, at, clock, unit) = {d.limit}
      BY <1>0, <2>2, <2>4, <2>5, Demands16
    <2>8. LimitsOf(H, c, at, unit) = {d.limit}
      BY <2>1, <2>7 DEF LimitsOf
    <2> QED BY <2>6, <2>8
  <1> QED BY <1>2, <1>3 DEF Won

\* The demand of the composite schedule is the one of the reference.
LEMMA Demanded16 ==
  ASSUME StoresInv, version = "V16J", WholeSeconds, NEW c \in Ids, NEW cands, Listing(cands, c),
         NEW o \in Nat, NEW at, at = clock + Seconds(o), NEW unit,
         NEW d, d = Effective16(cands, at, clock, unit)
  PROVE  /\ d = None => Demanded(c, at, unit) = None
         /\ d # None => d.limit \in Int /\ Demanded(c, at, unit) = d.limit
  <1>1. PICK wo, wc : wo = OverrideAt(cands, at, clock) /\ wc = CeilingAt(cands, at, clock)
    OBVIOUS
  <1>2. PICK G, H : G = Heads(c, at, "override") /\ H = Heads(c, at, "ceiling")
    OBVIOUS
  <1>3. Won(wo, G) /\ Won(wc, H)
    BY <1>1, <1>2, WonOverride, WonCeiling
  <1>4. PICK over, cap : /\ over = Contributed(wo, at, clock, unit)
                         /\ cap = Contributed(wc, at, clock, unit)
    OBVIOUS
  <1>5. PICK X, Y : X = LimitsOf(G, c, at, unit) /\ Y = LimitsOf(H, c, at, unit)
    OBVIOUS
  <1>6. (over = None /\ X = {}) \/ (over # None /\ over.limit \in Int /\ X = {over.limit})
    BY <1>2, <1>3, <1>4, <1>5, WonLimits
  <1>7. (cap = None /\ Y = {}) \/ (cap # None /\ cap.limit \in Int /\ Y = {cap.limit})
    BY <1>2, <1>3, <1>4, <1>5, WonLimits
  <1>8. d = Stricter(over, cap)
    BY <1>1, <1>4 DEF Effective16
  <1>9. Demanded(c, at, unit) = IF X \cup Y = {} THEN None ELSE Min(X \cup Y)
    <2>1. Ruling16(c, at) = {e[2] : e \in G \cup H}
      BY <1>2, RulingOf
    <2>2. UNION {Demands(p, c, at, clock, unit) : p \in Ruling16(c, at)} = X \cup Y
      BY <1>5, <2>1 DEF LimitsOf
    <2> QED BY <2>2 DEF Demanded
  <1>10. CASE over = None /\ cap = None
    BY <1>6, <1>7, <1>8, <1>9, <1>10 DEF Stricter
  <1>11. CASE over = None /\ cap # None
    <2>1. d = cap /\ X \cup Y = {cap.limit, cap.limit} /\ cap.limit \in Int
      BY <1>6, <1>7, <1>8, <1>11 DEF Stricter
    <2>2. Min({cap.limit, cap.limit}) = cap.limit
      BY <2>1, OfTwo
    <2> QED BY <1>9, <1>11, <2>1, <2>2
  <1>12. CASE over # None /\ cap = None
    <2>1. d = over /\ X \cup Y = {over.limit, over.limit} /\ over.limit \in Int
      BY <1>6, <1>7, <1>8, <1>12 DEF Stricter
    <2>2. Min({over.limit, over.limit}) = over.limit
      BY <2>1, OfTwo
    <2> QED BY <1>9, <1>12, <2>1, <2>2
  <1>13. CASE over # None /\ cap # None
    <2>1. X \cup Y = {over.limit, cap.limit} /\ over.limit \in Int /\ cap.limit \in Int
      BY <1>6, <1>7, <1>13
    <2>2. Min({over.limit, cap.limit}) = IF over.limit <= cap.limit THEN over.limit ELSE cap.limit
      BY <2>1, OfTwo
    <2>3. d = IF over.limit <= cap.limit THEN over ELSE cap
      BY <1>8, <1>13 DEF Stricter
    <2> QED BY <1>9, <1>13, <2>1, <2>2, <2>3
  <1> QED BY <1>10, <1>11, <1>12, <1>13

\* The demand over a window and the offsets it is looked at.
Window16(cands, w, duration, unit) ==
    [o \in 0..(duration - 1) |-> Effective16(cands, w + Seconds(o), w, unit)]

Offsets16(cands, w, duration) ==
    (UNION {BoundaryOffsets(cands[i].profile, w, duration) : i \in DOMAIN cands}) \cup {0}

\* Offsets lie in the window.
LEMMA Offsets16Type ==
  ASSUME NEW cands, NEW w \in Int, NEW duration \in Nat \ {0},
         \A i \in DOMAIN cands : IsProfile(cands[i].profile)
  PROVE  /\ 0 \in Offsets16(cands, w, duration)
         /\ Offsets16(cands, w, duration) \subseteq 0..(duration - 1)
  <1>1. \A i \in DOMAIN cands :
           BoundaryOffsets(cands[i].profile, w, duration) \subseteq 0..(duration - 1)
    BY BoundariesType
  <1>2. 0 \in 0..(duration - 1)
    OBVIOUS
  <1>3. ASSUME NEW x \in Offsets16(cands, w, duration) PROVE x \in 0..(duration - 1)
    <2>1. x = 0 \/ \E i \in DOMAIN cands : x \in BoundaryOffsets(cands[i].profile, w, duration)
      BY DEF Offsets16
    <2> QED BY <1>1, <1>2, <2>1
  <1> QED BY <1>3 DEF Offsets16

\* compute_composite reports the demand at these offsets,
LEMMA Composite16Is ==
  ASSUME NEW cands, NEW w, NEW duration \in Nat \ {0}, NEW unit,
         Offsets16(cands, w, duration) \subseteq 0..(duration - 1)
  PROVE  Composite16(cands, w, duration, unit, NominalVoltage) =
           EmittedPeriods(Cut(Window16(cands, w, duration, unit), Offsets16(cands, w, duration)))
  <1> DEFINE offsets == Offsets16(cands, w, duration)
             D == Window16(cands, w, duration, unit)
  <1>1. ~(duration <= 0)
    OBVIOUS
  <1>2. Cut(D, offsets) = [o \in offsets |-> Effective16(cands, w + Seconds(o), w, unit)]
    BY DEF Window16, Cut
  <1>3. Composite16(cands, w, duration, unit, NominalVoltage) =
          EmittedPeriods([o \in offsets |->
             EffectiveAt16(cands, w + Seconds(o), w, unit, NominalVoltage)])
    BY <1>1 DEF Composite16, Offsets16
  <1>4. [o \in offsets |-> EffectiveAt16(cands, w + Seconds(o), w, unit, NominalVoltage)] =
          [o \in offsets |-> Effective16(cands, w + Seconds(o), w, unit)]
    BY EffectiveUnfolded
  <1> QED BY <1>2, <1>3, <1>4

\* The profiles of a listing.
LEMMA Listed ==
  ASSUME StoresInv, version = "V16J", WholeSeconds, NEW c, NEW cands, Listing(cands, c),
         NEW i \in DOMAIN cands
  PROVE  /\ IsProfile(cands[i].profile)
         /\ Whole(cands[i].profile.start, clock) /\ Whole(cands[i].profile.from, clock)
  <1>1. PICK e : Entry(cands, c, i, e)
    BY DEF Listing
  <1>2. e \in Installed /\ cands[i].profile = e[2]
    BY <1>1 DEF Entry
  <1> QED BY <1>2, Installed16Is, WholeOf

\* between which it does not change.
LEMMA Steady16 ==
  ASSUME StoresInv, version = "V16J", WholeSeconds, NEW c \in Ids, NEW cands, Listing(cands, c),
         NEW duration \in Nat \ {0}, NEW unit
  PROVE  Steady(Window16(cands, clock, duration, unit), Offsets16(cands, clock, duration), duration)
  <1>0. clock \in Int
    BY ProfilesAssumption DEF StoresInv, TypeOK
  <1>1. PICK offsets, D : /\ offsets = Offsets16(cands, clock, duration)
                          /\ D = Window16(cands, clock, duration, unit)
    OBVIOUS
  <1>2. \A i \in DOMAIN cands : IsProfile(cands[i].profile)
    BY Listed
  <1>3. 0 \in offsets /\ offsets \subseteq 0..(duration - 1)
    BY <1>0, <1>1, <1>2, Offsets16Type
  <1>4. DOMAIN D = 0..(duration - 1)
    BY <1>1 DEF Window16
  <1>5. ASSUME NEW o \in 1..(duration - 1), o \notin offsets PROVE D[o] = D[o - 1]
    <2>1. PICK at, bt : at = clock + Seconds(o) /\ bt = clock + Seconds(o - 1)
      OBVIOUS
    <2>2. \A i \in DOMAIN cands : o \notin BoundaryOffsets(cands[i].profile, clock, duration)
      BY <1>1, <1>5 DEF Offsets16
    <2>3. duration \in Int /\ o \in Nat
      OBVIOUS
    <2>4. ASSUME NEW i \in DOMAIN cands
          PROVE  ActivePeriod(cands[i].profile, at, clock) = ActivePeriod(cands[i].profile, bt, clock)
      BY <1>0, <2>1, <2>2, <2>3, Listed, StepSame
    <2>5. Overriding(cands, at, clock) = Overriding(cands, bt, clock)
      BY <2>4 DEF Overriding
    <2>6. Capping(cands, at, clock) = Capping(cands, bt, clock)
      BY <2>4 DEF Capping
    <2>7. PICK S, C : S = Overriding(cands, at, clock) /\ C = Capping(cands, at, clock)
      OBVIOUS
    <2>8. PICK wo : wo = OverrideAt(cands, at, clock) /\ wo = OverrideAt(cands, bt, clock)
      BY <2>5, <2>6, <2>7, WinnersUnfolded
    <2>9. PICK wc : wc = CeilingAt(cands, at, clock) /\ wc = CeilingAt(cands, bt, clock)
      BY <2>5, <2>6, <2>7, WinnersUnfolded
    <2>10. ASSUME NEW win, NEW kind, Won(win, Heads(c, at, kind))
           PROVE  Contributed(win, at, clock, unit) = Contributed(win, bt, clock, unit)
      <3>1. CASE win = None
        BY <3>1 DEF Contributed
      <3>2. CASE \E e \in Installed : Heads(c, at, kind) = {e} /\ win = e[2]
        <4>1. PICK e \in Installed : Heads(c, at, kind) = {e} /\ win = e[2]
          BY <3>2
        <4>2. e[1] \in {0, c}
          BY <4>1 DEF Heads, Bearing16
        <4>3. PICK i \in DOMAIN cands : Entry(cands, c, i, e)
          BY <4>2 DEF Listing
        <4>4. ActivePeriod(win, at, clock) = ActivePeriod(win, bt, clock)
          BY <2>4, <4>1, <4>3 DEF Entry
        <4> QED BY <4>4 DEF Contributed, Contribution16
      <3> QED BY <2>10, <3>1, <3>2 DEF Won
    <2>11. Contributed(wo, at, clock, unit) = Contributed(wo, bt, clock, unit)
      <3>1. Won(wo, Heads(c, at, "override"))
        BY <2>1, <2>3, <2>8, WonOverride
      <3> QED BY <2>10, <3>1
    <2>12. Contributed(wc, at, clock, unit) = Contributed(wc, bt, clock, unit)
      <3>1. Won(wc, Heads(c, at, "ceiling"))
        BY <2>1, <2>3, <2>9, WonCeiling
      <3> QED BY <2>10, <3>1
    <2>13. Effective16(cands, at, clock, unit) = Effective16(cands, bt, clock, unit)
      BY <2>8, <2>9, <2>11, <2>12 DEF Effective16
    <2>14. o \in 0..(duration - 1) /\ o - 1 \in 0..(duration - 1)
      OBVIOUS
    <2> QED BY <1>1, <2>1, <2>13, <2>14 DEF Window16
  <1> QED BY <1>1, <1>3, <1>4, <1>5 DEF Steady

\* GetCompositeSchedule of OCPP 1.6J reports what is demanded.
LEMMA Composite16Reports ==
  ASSUME StoresInv, version = "V16J", WholeSeconds, NEW c \in Ids, c \in {0} \cup Connectors,
         NEW duration \in Durations, NEW u, reply = Schedule16(c, duration, u)
  PROVE  ReportsDemand
  <1>1. clock \in Int /\ duration \in Int
    BY ProfilesAssumption DEF StoresInv, TypeOK
  <1>2. PICK cands : cands = Candidates(c)
    OBVIOUS
  <1>3. PICK unit : unit = OutputUnit(cands, u)
    OBVIOUS
  <1>4. PICK periods : periods = Composite16(cands, clock, duration, unit, NominalVoltage)
    OBVIOUS
  <1>5. reply = CompositeReply(c, duration, unit, periods)
    BY <1>2, <1>3, <1>4 DEF Schedule16, Known
  <1>6. /\ reply.periods = periods /\ reply.connector = c /\ reply.duration = duration
        /\ reply.unit = unit
    BY <1>5 DEF CompositeReply
  <1>7. CASE duration <= 0
    <2>1. periods = {}
      BY <1>4, <1>7 DEF Composite16
    <2>2. 0..(duration - 1) = {}
      BY <1>1, <1>7
    <2> QED BY <1>6, <2>1, <2>2, ReportsNothing
  <1>8. CASE duration > 0
    <2>1. duration \in Nat \ {0}
      BY <1>1, <1>8
    <2>2. Listing(cands, c)
      BY <1>2, CandidatesOf
    <2>3. \A i \in DOMAIN cands : IsProfile(cands[i].profile)
      BY <2>2, Listed
    <2>4. PICK offsets, D : /\ offsets = Offsets16(cands, clock, duration)
                            /\ D = Window16(cands, clock, duration, unit)
      OBVIOUS
    <2>5. offsets \subseteq 0..(duration - 1)
      BY <1>1, <2>1, <2>3, <2>4, Offsets16Type
    <2>6. periods = EmittedPeriods(Cut(D, offsets))
      BY <1>4, <2>1, <2>4, <2>5, Composite16Is
    <2>7. Steady(D, offsets, duration)
      BY <2>1, <2>2, <2>4, Steady16
    <2>8. /\ \A o \in 0..(duration - 1) : Reads(periods, D, o)
          /\ periods # {} => \E o \in 0..(duration - 1) : D[o] # None
      BY <2>5, <2>6, <2>7, Reporting
    <2>9. Shows(D, c, duration, unit)
      <3> SUFFICES ASSUME NEW o \in 0..(duration - 1)
                   PROVE  /\ D[o] = None => Demanded(c, clock + Seconds(o), unit) = None
                          /\ D[o] # None =>
                               /\ D[o].limit \in Int
                               /\ Demanded(c, clock + Seconds(o), unit) = D[o].limit
        BY DEF Shows
      <3>1. PICK at : at = clock + Seconds(o)
        OBVIOUS
      <3>2. D[o] = Effective16(cands, at, clock, unit)
        BY <2>4, <3>1 DEF Window16
      <3>3. o \in Nat
        BY <1>1
      <3>4. PICK d : d = D[o]
        OBVIOUS
      <3>5. /\ d = None => Demanded(c, at, unit) = None
            /\ d # None => d.limit \in Int /\ Demanded(c, at, unit) = d.limit
        BY <2>2, <3>1, <3>2, <3>3, <3>4, Demanded16
      <3> QED BY <3>1, <3>4, <3>5
    <2> QED BY <1>6, <2>8, <2>9, ReportsOf
  <1> QED BY <1>1, <1>7, <1>8

\* The composite schedule gives, at every second of the window at which some profile
\* applies, the limit the stacking rules demand, under either protocol version, for
\* schedules and validities that begin a whole number of seconds from the query.
THEOREM CompositeIsEffectiveHolds == Spec => []CompositeIsEffective
  <1>1. ASSUME IInv PROVE CompositeIsEffective
    <2> SUFFICES ASSUME reply.op = "Composite",
                        version = "V16J" => reply.connector \in {0} \cup Connectors, WholeSeconds
                 PROVE  ReportsDemand
      BY DEF CompositeIsEffective
    <2>1. PICK c \in Ids, d \in Durations, u \in {"A", "W", None} :
            reply = IF version = "V16J" THEN Schedule16(c, d, u) ELSE Schedule201(c, d, u)
      BY <1>1 DEF IInv, ReplyInv
    <2>2. StoresInv /\ version \in {"V16J", "V201"}
      BY <1>1 DEF IInv, StoresInv, TypeOK
    <2>3. CASE version = "V16J"
      <3>1. reply = Schedule16(c, d, u)
        BY <2>1, <2>3
      <3>2. reply.connector = c
        BY <3>1 DEF Schedule16, CompositeReply
      <3> QED BY <2>2, <2>3, <3>1, <3>2, Composite16Reports
    <2>4. CASE version = "V201"
      <3>1. reply = Schedule201(c, d, u)
        BY <2>1, <2>4
      <3> QED BY <2>2, <2>4, <3>1, Composite201Reports
    <2> QED BY <2>2, <2>3, <2>4
  <1> QED BY <1>1, Invariant, PTL
=============================================================================
