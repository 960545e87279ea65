-------------------------- MODULE ChargingProfiles ---------------------------
(* The charging profiles a station holds and what it answers about them:      *)
(* SetChargingProfile, ClearChargingProfile, GetCompositeSchedule and, for    *)
(* OCPP 2.0.1, GetChargingProfiles and the metered power, over the 1.6J store *)
(* (charging_profiles.rs) or the three 2.0.1 stores (TxProfiles per EVSE,     *)
(* TxDefaultProfiles, station ceilings).  The handlers run one at a time on   *)
(* the inbound path.  The 2.0.1 clear takes a snapshot and then empties slot  *)
(* by slot, an await each; meanwhile, on other tasks, transactions open, bind *)
(* a TxProfile and close, the sampler reads and the clock advances.  Every    *)
(* other handler is one action.  A reply stays visible until the next step.   *)
EXTENDS ChargingSchedules

CONSTANTS
    NumConnectors,
    Profiles16,         \* profiles a CSMS may send, per protocol version
    Profiles201,
    Durations,          \* windows a CSMS asks for, in seconds
    MaxClock,           \* bound on the clock, in ticks
    MaxFilters,         \* bound on the fields a clear or a report fills in
    MaxInstalled,       \* bound on the 2.0.1 profiles the CSMS installs at a time
    NominalVoltage,     \* NOMINAL_VOLTAGE, and the fall-back of the 2.0.1 handler
    MaxVoltage,         \* max_voltage and max_power of a connector's config
    NaturalPower

ASSUME ProfilesAssumption ==
    /\ NumConnectors \in Nat \ {0}
    /\ MaxClock \in Nat
    /\ Durations \subseteq Int
    /\ {NominalVoltage, MaxVoltage} \subseteq Nat \ {0}
    /\ NaturalPower \in Nat
    /\ \A p \in Profiles16 :
          IsProfile(p) /\ p.purpose \in {"ChargePointMaxProfile", "TxDefaultProfile", "TxProfile"}
    /\ \A p \in Profiles201 :
          IsProfile(p) /\ p.purpose \in {"ChargingStationMaxProfile", "TxDefaultProfile",
                                         "ChargingStationExternalConstraints", "TxProfile"}

Connectors == 1..NumConnectors

\* The ids a request may name: the whole station, a connector, an unknown one.
Ids == 0..(NumConnectors + 1)

Known(c) == c \in Connectors

CeilingKinds == {"Max", "External"}

VARIABLES
    version,        \* protocol_version, fixed when the station is built
    clock,          \* Utc::now(), in ticks
    txStart,        \* when the running transaction of a connector began, or None
    profiles,       \* 1.6J ChargingProfileStore, in order of installation
    txProfiles,     \* V201TxProfileStore
    txDefaults,     \* V201TxDefaultProfileStore
    ceilings,       \* V201StationCeilingStore
    clearing,       \* the 2.0.1 clear under way, or None
    reply           \* the answer given by the last step

stores == <<profiles, txProfiles, txDefaults, ceilings>>
vars == <<version, clock, txStart, stores, clearing, reply>>

NoReply == [op |-> "None"]

Init ==
    /\ version \in {"V16J", "V201"}
    /\ clock = 0
    /\ txStart = [c \in Connectors |-> None]
    /\ profiles = [c \in Ids |-> <<>>]
    /\ txProfiles = [c \in Ids |-> None]
    /\ txDefaults = [c \in Ids |-> None]
    /\ ceilings = [k \in CeilingKinds |-> [c \in Ids |-> None]]
    /\ clearing = None
    /\ reply = NoReply

-----------------------------------------------------------------------------
(* The stores *)

\* active_transactions names the connector.
Busy(c) == Known(c) /\ txStart[c] # None

\* set_profile_status
Placeable16(c, p) ==
    /\ c # 0 => Known(c)
    /\ p.purpose = "ChargePointMaxProfile" => c = 0
    /\ p.purpose = "TxProfile" => c # 0 /\ Busy(c)

\* The elements of a finite set in ascending order, before[x] being the set of
\* those that come before x.
InOrder(before) ==
    [k \in 1..Cardinality(DOMAIN before) |->
        CHOOSE x \in DOMAIN before : Cardinality(before[x]) = k - 1]

\* Vec::retain: the sequence s without the elements in gone, in the same order.
Retain(s, gone) ==
    LET kept == {i \in DOMAIN s : s[i] \notin gone}
        index == InOrder([i \in kept |-> {j \in kept : j < i}])
    IN  [k \in 1..Cardinality(kept) |-> s[index[k]]]

SameId(store, d, p) == {q \in Range(store[d]) : q.id = p.id}

SamePlace(store, d, p) == {q \in Range(store[d]) : q.purpose = p.purpose /\ q.stack = p.stack}

\* Mutant of Install16: an id installed elsewhere is not evicted.
Install16HereOnly(store, c, p) ==
    [store EXCEPT ![c] = Append(Retain(@, SameId(store, c, p) \cup SamePlace(store, c, p)), p)]

\* ChargingProfileStore::set: the id goes from every connector, the (purpose,
\* stack level) place of the target is freed, and the profile is appended.
Install16(store, c, p) ==
    LET without == [d \in Ids |-> Retain(store[d], SameId(store, d, p))]
    IN  [without EXCEPT ![c] = Append(Retain(@, SamePlace(without, c, p)), p)]

\* from_purpose, used for the two ceiling purposes only.
KindOf(purpose) == IF purpose = "ChargingStationMaxProfile" THEN "Max" ELSE "External"

\* The three stores as one snapshot of (evse, profile) pairs.
Snapshot201 ==
    {e \in {<<c, txProfiles[c]>> : c \in Ids} \cup {<<c, txDefaults[c]>> : c \in Ids}
             \cup {<<c, ceilings[k][c]>> : k \in CeilingKinds, c \in Ids} : e[2] # None}

\* Every installed profile with the connector it is installed at.
Installed ==
    IF version = "V201" THEN Snapshot201
    ELSE UNION {{<<c, q>> : q \in Range(profiles[c])} : c \in Ids}

Wanted(filter, value) == filter = None \/ filter = value

\* ChargingProfileStore::clear conjoins its filters; in
\* v201_clear_charging_profile_matches an id is the only selector.
Selects(sel, c, p) ==
    IF version = "V201" /\ sel.id # None
    THEN p.id = sel.id
    ELSE /\ Wanted(sel.id, p.id)
         /\ Wanted(sel.connector, c)
         /\ Wanted(sel.purpose, p.purpose)
         /\ Wanted(sel.stack, p.stack)

\* The specific entry, else the one of the whole station.
EffectiveFor(store, c) == IF store[c] # None THEN store[c] ELSE store[0]

\* The TxProfile of an EVSE, else its TxDefaultProfile.
BaseFor(c) == IF txProfiles[c] # None THEN txProfiles[c] ELSE EffectiveFor(txDefaults, c)

CeilingsFor(c) == {EffectiveFor(ceilings[k], c) : k \in CeilingKinds} \ {None}

VoltageOf(c) == IF Known(c) THEN MaxVoltage ELSE NominalVoltage

\* v201_charging_limit_source
LimitSource(purpose) ==
    IF purpose = "ChargingStationExternalConstraints" THEN "SO" ELSE "CSO"

-----------------------------------------------------------------------------
(* Requests of the CSMS *)

\* The station speaks version v and owes no answer: the inbound task carries a
\* request through and writes its answer out before it takes the next one.
Free(v) == version = v /\ reply = NoReply /\ clearing = None

SetChargingProfile16(c, p) ==
    /\ Free("V16J")
    /\ profiles' = IF Placeable16(c, p) THEN Install16(profiles, c, p) ELSE profiles
    /\ reply' = [op |-> "Set", status |-> IF Placeable16(c, p) THEN "Accepted" ELSE "Rejected"]
    /\ UNCHANGED <<version, clock, txStart, txProfiles, txDefaults, ceilings, clearing>>

\* Only a TxProfile without a transaction is refused; the purpose picks the
\* store, and nothing asks whether the EVSE exists.
SetChargingProfile201(c, p) ==
    LET accepted == p.purpose = "TxProfile" => Busy(c)
        kind == KindOf(p.purpose)
    IN  /\ Free("V201")
        /\ Cardinality(Snapshot201) < MaxInstalled
        /\ txProfiles' = IF accepted /\ p.purpose = "TxProfile"
                         THEN [txProfiles EXCEPT ![c] = p] ELSE txProfiles
        /\ txDefaults' = IF p.purpose = "TxDefaultProfile"
                         THEN [txDefaults EXCEPT ![c] = p] ELSE txDefaults
        /\ ceilings' = IF p.purpose \in {"TxProfile", "TxDefaultProfile"} THEN ceilings
                       ELSE [ceilings EXCEPT ![kind][c] = p]
        /\ reply' = [op |-> "Set", status |-> IF accepted THEN "Accepted" ELSE "Rejected"]
        /\ UNCHANGED <<version, clock, txStart, profiles, clearing>>

\* The answer to a clear, with the profiles it found, those it matched, and the
\* EVSEs whose TxProfile another task wrote meanwhile.
ClearReply(before, matches, raced) ==
    [op |-> "Clear", status |-> IF matches = {} THEN "Unknown" ELSE "Accepted",
     before |-> before, matches |-> matches, raced |-> raced]

Matches(sel) == {e \in Installed : Selects(sel, e[1], e[2])}

ClearChargingProfile16(sel) ==
    /\ Free("V16J")
    /\ profiles' = [c \in Ids |->
           Retain(profiles[c], {q \in Range(profiles[c]) : Selects(sel, c, q)})]
    /\ reply' = ClearReply(Installed, Matches(sel), {})
    /\ UNCHANGED <<version, clock, txStart, txProfiles, txDefaults, ceilings, clearing>>

\* The matches are found in a snapshot.  Only TxProfiles are written by other
\* tasks, and their store is read first, so the snapshot is of one instant.
ClearChargingProfile201(sel) ==
    /\ Free("V201")
    /\ clearing' = [before |-> Snapshot201, matches |-> Matches(sel), left |-> Matches(sel),
                    raced |-> {}]
    /\ UNCHANGED <<version, clock, txStart, stores, reply>>

Uncleared == IF clearing = None THEN {} ELSE clearing.left

\* The store a purpose is routed to, in the order the snapshot lists them.
StoreOf(purpose) == IF purpose = "TxProfile" THEN 1 ELSE IF purpose = "TxDefaultProfile" THEN 2 ELSE 3

\* Mutant of ClearMatch: matched ceilings stay installed.
ClearMatchSparing(e) ==
    /\ reply = NoReply
    /\ \A f \in Uncleared : StoreOf(e[2].purpose) <= StoreOf(f[2].purpose)
    /\ txProfiles' = IF StoreOf(e[2].purpose) = 1 THEN [txProfiles EXCEPT ![e[1]] = None] ELSE txProfiles
    /\ txDefaults' = IF StoreOf(e[2].purpose) = 2 THEN [txDefaults EXCEPT ![e[1]] = None] ELSE txDefaults
    /\ clearing' = [clearing EXCEPT !.left = @ \ {e}]
    /\ UNCHANGED <<version, clock, txStart, profiles, ceilings, reply>>

\* The slot a match was found in is emptied, whatever it holds by now.
ClearMatch(e) ==
    LET c == e[1]
        store == StoreOf(e[2].purpose)
        kind == KindOf(e[2].purpose)
    IN  /\ reply = NoReply
        /\ \A f \in Uncleared : store <= StoreOf(f[2].purpose)
        /\ txProfiles' = IF store = 1 THEN [txProfiles EXCEPT ![c] = None] ELSE txProfiles
        /\ txDefaults' = IF store = 2 THEN [txDefaults EXCEPT ![c] = None] ELSE txDefaults
        /\ ceilings' = IF store = 3 THEN [ceilings EXCEPT ![kind][c] = None] ELSE ceilings
        /\ clearing' = [clearing EXCEPT !.left = @ \ {e}]
        /\ UNCHANGED <<version, clock, txStart, profiles, reply>>

ClearAnswered ==
    /\ reply = NoReply
    /\ clearing # None
    /\ Uncleared = {}
    /\ reply' = ClearReply(clearing.before, clearing.matches, clearing.raced)
    /\ clearing' = None
    /\ UNCHANGED <<version, clock, txStart, stores>>

\* A connector's own profiles, then those of the whole station.
Candidates(c) ==
    LET tagged(d, own) ==
            [i \in DOMAIN profiles[d] |-> [specific |-> own, profile |-> profiles[d][i]]]
    IN  IF c = 0 THEN tagged(0, TRUE) ELSE tagged(c, TRUE) \o tagged(0, FALSE)

CompositeReply(c, duration, unit, periods) ==
    [op |-> "Composite", connector |-> c, duration |-> duration, unit |-> unit,
     periods |-> periods, status |-> IF periods = {} THEN "Rejected" ELSE "Accepted"]

Schedule16(c, duration, requested) ==
    LET unit == OutputUnit(Candidates(c), requested)
        periods == Composite16(Candidates(c), clock, duration, unit, NominalVoltage)
    IN  CompositeReply(c, duration, unit, IF c = 0 \/ Known(c) THEN periods ELSE {})

GetCompositeSchedule16(c, duration, requested) ==
    /\ Free("V16J")
    /\ reply' = Schedule16(c, duration, requested)
    /\ UNCHANGED <<version, clock, txStart, stores, clearing>>

Schedule201(c, duration, requested) ==
    LET base == BaseFor(c)
        unit == IF requested # None THEN requested ELSE base.unit
        periods == Composite201(base, CeilingsFor(c), clock, duration, unit, VoltageOf(c))
    IN  IF base = None THEN CompositeReply(c, duration, None, {})
        ELSE CompositeReply(c, duration, unit, periods)

GetCompositeSchedule201(c, duration, requested) ==
    /\ Free("V201")
    /\ reply' = Schedule201(c, duration, requested)
    /\ UNCHANGED <<version, clock, txStart, stores, clearing>>

\* Mutant of ReportPages: one page for each EVSE, whatever the sources.
ReportPagesByEvse(matched) ==
    LET keys == {e[1] : e \in matched}
        order == InOrder([k \in keys |-> {l \in keys : l < k}])
    IN  [i \in DOMAIN order |->
            [evse |-> order[i], source |-> "CSO", tbc |-> i < Cardinality(keys),
             profiles |-> {e[2] : e \in {x \in matched : x[1] = order[i]}}]]

\* v201_report_charging_profiles_pages: a page for each (evse, source), in
\* ascending order, every one but the last announcing another.
ReportPages(matched) ==
    LET keyOf(e) == <<e[1], LimitSource(e[2].purpose)>>
        keys == {keyOf(e) : e \in matched}
        earlier(k) == {l \in keys : l[1] < k[1] \/ (l[1] = k[1] /\ l[2] = "SO" /\ k[2] = "CSO")}
        order == InOrder([k \in keys |-> earlier(k)])
    IN  [i \in DOMAIN order |->
            [evse |-> order[i][1], source |-> order[i][2], tbc |-> i < Cardinality(keys),
             profiles |-> {e[2] : e \in {x \in matched : keyOf(x) = order[i]}}]]

\* The match set is resolved on the inbound path and streamed from that copy.
GetChargingProfiles(evse, criterion) ==
    LET listed(list, x) == list = None \/ x \in list
        matched == {e \in Snapshot201 :
                      /\ Wanted(evse, e[1])
                      /\ Wanted(criterion.purpose, e[2].purpose)
                      /\ Wanted(criterion.stack, e[2].stack)
                      /\ listed(criterion.ids, e[2].id)
                      /\ listed(criterion.sources, LimitSource(e[2].purpose))}
    IN  /\ Free("V201")
        /\ reply' = [op |-> "Report", matched |-> matched, pages |-> ReportPages(matched),
                     status |-> IF matched = {} THEN "NoProfiles" ELSE "Accepted"]
        /\ UNCHANGED <<version, clock, txStart, stores, clearing>>

-----------------------------------------------------------------------------
(* Other tasks: transactions, the sampler and the clock *)

\* A TxProfile of EVSE c is written while a clear may be under way.
TxProfileWritten(c) == IF clearing = None THEN None ELSE [clearing EXCEPT !.raced = @ \cup {c}]

\* A transaction is registered; a 2.0.1 one may bring its TxProfile.
OpenTransaction(c, p) ==
    /\ reply = NoReply
    /\ txStart[c] = None
    /\ p # None => version = "V201" /\ p.purpose = "TxProfile"
    /\ txStart' = [txStart EXCEPT ![c] = clock]
    /\ txProfiles' = IF p = None THEN txProfiles ELSE [txProfiles EXCEPT ![c] = p]
    /\ clearing' = IF p = None THEN clearing ELSE TxProfileWritten(c)
    /\ UNCHANGED <<version, clock, profiles, txDefaults, ceilings, reply>>

\* A RequestStartTransaction that advances a session opened by the plug binds
\* its TxProfile to the transaction that is already running.
BindTxProfile(c, p) ==
    /\ version = "V201"
    /\ reply = NoReply
    /\ txStart[c] # None
    /\ p.purpose = "TxProfile"
    /\ txProfiles' = [txProfiles EXCEPT ![c] = p]
    /\ clearing' = TxProfileWritten(c)
    /\ UNCHANGED <<version, clock, txStart, profiles, txDefaults, ceilings, reply>>

\* A 2.0.1 TxProfile goes with its transaction; the 1.6J store is left alone.
CloseTransaction(c) ==
    /\ reply = NoReply
    /\ txStart[c] # None
    /\ txStart' = [txStart EXCEPT ![c] = None]
    /\ txProfiles' = [txProfiles EXCEPT ![c] = None]
    /\ clearing' = TxProfileWritten(c)
    /\ UNCHANGED <<version, clock, profiles, txDefaults, ceilings, reply>>

\* The periodic sampler: it resolves the limits a whole number of seconds after
\* the start of the transaction.
MeteredPower(c) ==
    BoundedPower(BaseFor(c), CeilingsFor(c), clock, txStart[c], NaturalPower, VoltageOf(c))

Sample(c) ==
    /\ version = "V201"
    /\ reply = NoReply
    /\ Busy(c)
    /\ (clock - txStart[c]) % TicksPerSecond = 0
    /\ reply' = [op |-> "Sample", connector |-> c, power |-> MeteredPower(c)]
    /\ UNCHANGED <<version, clock, txStart, stores, clearing>>

Tick ==
    /\ reply = NoReply
    /\ clock < MaxClock
    /\ clock' = clock + 1
    /\ UNCHANGED <<version, txStart, stores, clearing, reply>>

Fields(ps, f) == {p[f] : p \in ps}

AtMost(n, s) == Cardinality({f \in DOMAIN s : s[f] # None}) <= n

Selectors(ps) ==
    {s \in [id : Fields(ps, "id") \cup {None}, connector : Ids \cup {None},
            purpose : Fields(ps, "purpose") \cup {None}, stack : Fields(ps, "stack") \cup {None}] :
        AtMost(MaxFilters, s)}

Criteria(ps) ==
    {s \in [purpose : Fields(ps, "purpose") \cup {None}, stack : Fields(ps, "stack") \cup {None},
            ids : {{i} : i \in Fields(ps, "id")} \cup {None},
            sources : {{"CSO"}, {"SO"}, {"CSO", "SO"}, None}] :
        AtMost(MaxFilters, s)}

ReplySent ==
    /\ reply # NoReply
    /\ reply' = NoReply
    /\ UNCHANGED <<version, clock, txStart, stores, clearing>>

Next ==
    \/ \E c \in Ids, p \in Profiles16 : SetChargingProfile16(c, p)
    \/ \E c \in Ids, p \in Profiles201 : SetChargingProfile201(c, p)
    \/ \E s \in Selectors(Profiles16) : ClearChargingProfile16(s)
    \/ \E s \in Selectors(Profiles201) : ClearChargingProfile201(s)
    \/ \E e \in Uncleared : ClearMatch(e)
    \/ ClearAnswered
    \/ \E c \in Ids, d \in Durations, u \in {"A", "W", None} : GetCompositeSchedule16(c, d, u)
    \/ \E c \in Ids, d \in Durations, u \in {"A", "W", None} : GetCompositeSchedule201(c, d, u)
    \/ \E c \in Ids \cup {None}, q \in Criteria(Profiles201) : GetChargingProfiles(c, q)
    \/ \E c \in Connectors, p \in Profiles201 \cup {None} : OpenTransaction(c, p)
    \/ \E c \in Connectors, p \in Profiles201 : BindTxProfile(c, p)
    \/ \E c \in Connectors : CloseTransaction(c)
    \/ \E c \in Connectors : Sample(c)
    \/ Tick
    \/ ReplySent

Spec == Init /\ [][Next]_vars

-----------------------------------------------------------------------------
(* The reference: what is demanded at an exact instant *)

\* The period of p that governs the instant at, counted in ticks: the last one
\* that has begun, of two that begin together the one listed last.
GoverningPeriods(p, at, origin) ==
    LET elapsed == at - Anchor(p, origin)
        phase == IF RecurrencePeriod(p) = None THEN elapsed
                 ELSE elapsed % Seconds(RecurrencePeriod(p))
        begun == {i \in DOMAIN p.periods : Seconds(p.periods[i].start) <= phase}
        last(i) == \A j \in begun \ {i} :
                      \/ p.periods[j].start < p.periods[i].start
                      \/ p.periods[j].start = p.periods[i].start /\ j < i
        valid == /\ phase >= 0
                 /\ p.duration # None => phase < Seconds(p.duration)
                 /\ p.from # None => at >= p.from
                 /\ p.to # None => at <= p.to
    IN  {p.periods[i] : i \in {x \in begun : last(x) /\ valid}}

Governs(p, at, origin) == GoverningPeriods(p, at, origin) # {}

\* The limits p sets for connector c at an instant, at most one.
Demands(p, c, at, origin, unit) ==
    LET one(q) == IF version = "V16J"
                  THEN Convert(q.limit, p.unit, unit, IF q.phases = None THEN 1 ELSE q.phases,
                               NominalVoltage)
                  ELSE Convert(FlooredLimit(p, q), p.unit, unit, EffectivePhases(q), VoltageOf(c))
    IN  {one(q) : q \in GoverningPeriods(p, at, origin)}

\* Of the profiles that bear on connector c in 1.6J, the ones no other outranks.
Outranks(e, f) ==
    LET level(x) == <<IF x[2].purpose = "TxProfile" THEN 1 ELSE 0, x[1], x[2].stack>>
    IN  LexLess(level(f), level(e))

Ruling16(c, at) ==
    LET bearing == {e \in Installed : e[1] \in {0, c} /\ Governs(e[2], at, clock)}
        ceiling(e) == e[2].purpose = "ChargePointMaxProfile"
    IN  {e[2] : e \in {x \in bearing : \A y \in bearing :
                          ceiling(x) = ceiling(y) => ~Outranks(y, x)}}

\* In 2.0.1 a ceiling counts only where the base profile governs.
Ruling201(c, at) ==
    IF BaseFor(c) # None /\ Governs(BaseFor(c), at, clock)
    THEN {BaseFor(c)} \cup CeilingsFor(c) ELSE {}

\* What connector c may draw at an instant: the least of the ruling limits.
Demanded(c, at, unit) ==
    LET ruling == IF version = "V16J" THEN Ruling16(c, at) ELSE Ruling201(c, at)
        limits == UNION {Demands(p, c, at, clock, unit) : p \in ruling}
    IN  IF limits = {} THEN None ELSE Min(limits)

\* What a reader of the reported periods takes the limit at offset o to be.
Reported(periods, o) ==
    LET begun == {q \in periods : q.start <= o}
    IN  IF begun = {} THEN None
        ELSE (CHOOSE q \in begun : \A r \in begun : r.start <= q.start).limit

\* A schedule or a validity that begins in the future begins a whole number of
\* seconds from now.
WholeSeconds ==
    \A e \in Installed : \A t \in {e[2].start, e[2].from} :
        t # None /\ t > clock => (t - clock) % TicksPerSecond = 0

ReportsDemand ==
    LET limits == [o \in 0..(reply.duration - 1) |->
                     Demanded(reply.connector, clock + Seconds(o), reply.unit)]
    IN  /\ \A o \in DOMAIN limits :
              limits[o] # None => Reported(reply.periods, o) = limits[o]
        /\ reply.periods # {} => \E o \in DOMAIN limits : limits[o] # None

-----------------------------------------------------------------------------
(* Properties *)

\* The clock, the transactions and the stores hold values of their kinds, and
\* only the stores of the station's own protocol version are ever filled.
TypeOK ==
    /\ version \in {"V16J", "V201"}
    /\ clock \in 0..MaxClock
    /\ txStart \in [Connectors -> 0..MaxClock \cup {None}]
    /\ profiles \in [Ids -> Seq(Profiles16)]
    /\ txProfiles \in [Ids -> Profiles201 \cup {None}]
    /\ txDefaults \in [Ids -> Profiles201 \cup {None}]
    /\ ceilings \in [CeilingKinds -> [Ids -> Profiles201 \cup {None}]]
    /\ version = "V201" => profiles = [c \in Ids |-> <<>>]
    /\ version = "V16J" => Snapshot201 = {}

\* However profiles are installed, replaced and cleared, an id is installed
\* once and a connector holds one profile per purpose and stack level, so that
\* no two candidates for a connector are of equal rank and the order of
\* installation cannot decide which one rules (charging_profiles.rs, set).
StackIsSound ==
    version = "V16J" =>
        /\ \A e, f \in Installed : e[2].id = f[2].id => e = f
        /\ \A c \in Ids : \A e, f \in {x \in Installed : x[1] \in {0, c}} :
              e # f /\ e[2].purpose = f[2].purpose => Outranks(e, f) \/ Outranks(f, e)
        /\ \A c \in Ids : Len(profiles[c]) = Cardinality(Range(profiles[c]))

\* The schedule GetCompositeSchedule answers with gives, at every second of the
\* window at which some profile applies, the limit the stacking rules demand,
\* and the request is rejected only if none applies (composite.rs,
\* v201_charging_profiles.rs), for schedules and validities that begin a whole
\* number of seconds from the query or before it.
CompositeIsEffective ==
    reply.op = "Composite" /\ (version = "V16J" => reply.connector \in {0} \cup Connectors)
        /\ WholeSeconds
    => ReportsDemand

\* The power a 2.0.1 transaction is metered at is the one GetCompositeSchedule
\* reports for that instant, capped by the natural rate, whenever the base
\* profile applies and no profile involved is anchored at the start of the
\* transaction (bounded_power_w_capped against the composite of the handler).
SampleMatchesComposite ==
    LET c == reply.connector
        involved == {BaseFor(c)} \cup CeilingsFor(c)
        periods == Composite201(BaseFor(c), CeilingsFor(c), clock, 1, "W", VoltageOf(c))
    IN  reply.op = "Sample" /\ BaseFor(c) # None
            /\ (\A p \in involved : p.kind # "Relative" /\ p.start # None) /\ periods # {}
        => reply.power = Min({NaturalPower, Reported(periods, 0)})

\* A TxProfile slot that another task wrote while a clear was under way.
Raced(e, raced) == e[2].purpose = "TxProfile" /\ e[1] \in raced

\* When ClearChargingProfile is answered, the answer is Accepted exactly if the
\* request matched a profile; every profile it matched is gone and every other
\* one is still installed, whichever of the stores held it and whatever other
\* tasks did in the awaits between the snapshot and the last removal.  The
\* TxProfile of an EVSE at which a transaction opened with a profile, bound one
\* or closed in that time is left out: NothingSwapped is about that one.
ClearIsHonest ==
    reply.op = "Clear" =>
        /\ (reply.status = "Accepted") = (reply.matches # {})
        /\ \A e \in reply.before \cup Installed :
              ~Raced(e, reply.raced) => (e \in Installed) = (e \in reply.before \ reply.matches)

\* lib.rs:4988-4990: no profile is swapped underneath a clear between its
\* snapshot and a removal: the slot of a match holds that match or nothing.
NothingSwapped ==
    \A e \in Uncleared : \A f \in Snapshot201 :
        f[1] = e[1] /\ f[2].purpose = e[2].purpose => f = e

\* The pages of a ReportChargingProfiles stream carry every matched profile
\* once, under its own EVSE and source, and only the last one ends the stream.
ReportIsComplete ==
    reply.op = "Report" =>
        LET pages == reply.pages
        IN  /\ \A i \in DOMAIN pages : pages[i].tbc = (i < Len(pages))
            /\ \A i \in DOMAIN pages : pages[i].profiles # {}
            /\ \A e \in Snapshot201 : e \in reply.matched =>
                  Cardinality({i \in DOMAIN pages : /\ pages[i].evse = e[1]
                                                    /\ pages[i].source = LimitSource(e[2].purpose)
                                                    /\ e[2] \in pages[i].profiles}) = 1
            /\ \A i \in DOMAIN pages : \A p \in pages[i].profiles :
                  <<pages[i].evse, p>> \in reply.matched
=============================================================================
