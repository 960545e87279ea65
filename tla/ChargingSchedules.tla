-------------------------- MODULE ChargingSchedules --------------------------
(* What a charging profile demands at an instant, where its demands change,   *)
(* and how a list of demands becomes the composite schedule a station         *)
(* reports: composite.rs (OCPP 1.6J) and v201_charging_profiles.rs (2.0.1).   *)
(*                                                                            *)
(* Instants are ticks of the wall clock, TicksPerSecond to the second;        *)
(* schedules count in whole seconds, as on the wire.  A profile is a record   *)
(*   [id, purpose, stack, kind, recurrency, from, to, start, duration, unit,  *)
(*    floor, periods]                                                         *)
(* with from/to/start instants (validFrom, validTo, startSchedule), duration  *)
(* and floor (minChargingRate) numbers, each of them None when absent, and    *)
(* periods a sequence of [start, limit, phases].                              *)
EXTENDS Integers, Sequences, FiniteSetsExt, Functions

CONSTANTS
    None,               \* an absent optional field
    TicksPerSecond,     \* resolution of the wall clock
    RecurrenceSeconds   \* length of a "Daily" and of a "Weekly" recurrence

ASSUME TicksAssumption == TicksPerSecond \in Nat \ {0}
ASSUME RecurrenceAssumption ==
    \A k \in DOMAIN RecurrenceSeconds : RecurrenceSeconds[k] \in Nat \ {0}

\* A phase count, a chargingSchedulePeriod and a demand: a limit over phases.
Phases == (Nat \ {0}) \cup {None}
Periods == [start : Nat, limit : Int, phases : Phases]
Demand == [limit : Int, phases : Phases]

ASSUME NoneAssumption == None \notin Int /\ None \notin Periods /\ None \notin Demand

\* What a CSMS may send: at least one period (the schema asks for it), and in a
\* schedule that recurs a period from its very start (the specification does).
IsProfile(p) ==
    /\ p # None
    /\ p.stack \in Nat
    /\ p.recurrency \in DOMAIN RecurrenceSeconds \cup {None}
    /\ {p.from, p.to, p.start, p.duration, p.floor} \subseteq Int \cup {None}
    /\ p.periods \in Seq(Periods) \ {<<>>}
    /\ p.kind = "Recurring" => \E i \in DOMAIN p.periods : p.periods[i].start = 0

Seconds(n) == n * TicksPerSecond

\* chrono's Duration::num_seconds drops the fraction: it rounds toward zero.
NumSeconds(d) ==
    IF d < 0 THEN -((-d) \div TicksPerSecond) ELSE d \div TicksPerSecond

\* Lexicographic order on tuples of numbers.
LexLess(u, v) == \E i \in DOMAIN u : u[i] < v[i] /\ \A j \in 1..(i - 1) : u[j] = v[j]

\* Iterator::max_by / max_by_key: the greatest key, the last one on a tie.
LastMax(S, key) ==
    CHOOSE i \in S : \A j \in S \ {i} :
        LexLess(key[j], key[i]) \/ (key[j] = key[i] /\ j < i)

-----------------------------------------------------------------------------
(* One profile *)

\* The instant offset 0 of the schedule stands for.
Anchor(p, windowStart) ==
    IF p.kind = "Relative" \/ p.start = None THEN windowStart ELSE p.start

RecurrencePeriod(p) ==
    IF p.kind = "Recurring" /\ p.recurrency # None
    THEN RecurrenceSeconds[p.recurrency]
    ELSE None

\* profile_limit_at / resolve_active: the period in force at an instant.
ActivePeriod(p, at, windowStart) ==
    LET raw == NumSeconds(at - Anchor(p, windowStart))
        offset == IF RecurrencePeriod(p) = None THEN raw ELSE raw % RecurrencePeriod(p)
        started == {i \in DOMAIN p.periods : p.periods[i].start <= offset}
        excluded == \/ p.from # None /\ at < p.from
                    \/ p.to # None /\ at > p.to
                    \/ offset < 0
                    \/ p.duration # None /\ offset >= p.duration
    IN  IF excluded \/ started = {}
        THEN None
        ELSE p.periods[LastMax(started, [i \in started |-> <<p.periods[i].start>>])]

\* Mutant of Occurrences: a recurring schedule is laid out once.
OccurrencesOnce(p, windowStart, duration) ==
    {NumSeconds(Anchor(p, windowStart) - windowStart)}

\* The instants the schedule of p begins again at, as offsets into the window:
\* the occurrence the window opens in and every later one that starts in it.
Occurrences(p, windowStart, duration) ==
    LET base == NumSeconds(Anchor(p, windowStart) - windowStart)
        every == RecurrencePeriod(p)
    IN  IF every = None
        THEN {base}
        ELSE {base + k * every : k \in {n \in ((-base) \div every)..((duration - base) \div every) :
                                          base + n * every < duration}}

\* boundary_offsets / composite_boundary_offsets: where the limit may change.
BoundaryOffsets(p, windowStart, duration) ==
    LET spans == {q.start : q \in Range(p.periods)}
                    \cup (IF p.duration = None THEN {} ELSE {p.duration})
        edges == {o + s : o \in Occurrences(p, windowStart, duration), s \in spans}
                    \cup (IF p.from = None THEN {} ELSE {NumSeconds(p.from - windowStart)})
                    \cup (IF p.to = None THEN {} ELSE {NumSeconds(p.to - windowStart) + 1})
    IN  {0} \cup {o \in edges : 0 < o /\ o < duration}

\* The periods reported for a demand cur, a function of the boundary offsets:
\* one where the demand differs from the one at the boundary before.
EmittedPeriods(cur) ==
    LET before(o) == {x \in DOMAIN cur : x < o}
        fresh(o) == before(o) = {} \/ cur[Max(before(o))] # cur[o]
    IN  {[start |-> o, limit |-> cur[o].limit, phases |-> cur[o].phases] :
            o \in {x \in DOMAIN cur : cur[x] # None /\ fresh(x)}}

\* Amperes to watts and back at a voltage, over a number of phases.
Convert(limit, from, to, phases, voltage) ==
    IF from = to THEN limit
    ELSE IF to = "W" THEN limit * voltage * phases
    ELSE limit \div (voltage * phases)

-----------------------------------------------------------------------------
(* OCPP 1.6J: candidates is a sequence of [specific, profile] *)

OverrideRank(purpose) ==
    IF purpose = "TxProfile" THEN 2 ELSE IF purpose = "TxDefaultProfile" THEN 1 ELSE None

\* override_limit_at and ceiling_limit_at: the candidate of the greatest key
\* among those in force, overrides or ceilings, or None.
WinnerAt(candidates, at, windowStart, overrides) ==
    LET inForce == {i \in DOMAIN candidates :
                      /\ (OverrideRank(candidates[i].profile.purpose) # None) = overrides
                      /\ ActivePeriod(candidates[i].profile, at, windowStart) # None}
        key == [i \in inForce |->
                  IF overrides
                  THEN <<OverrideRank(candidates[i].profile.purpose),
                         IF candidates[i].specific THEN 1 ELSE 0,
                         candidates[i].profile.stack>>
                  ELSE <<candidates[i].profile.stack>>]
    IN  IF inForce = {} THEN None ELSE candidates[LastMax(inForce, key)].profile

OutputUnit(candidates, requested) ==
    LET overrides == {i \in DOMAIN candidates :
                        OverrideRank(candidates[i].profile.purpose) # None}
        key == [i \in overrides |-> <<OverrideRank(candidates[i].profile.purpose),
                                      candidates[i].profile.stack>>]
    IN  IF requested # None THEN requested
        ELSE IF overrides # {} THEN candidates[LastMax(overrides, key)].profile.unit
        ELSE IF candidates # <<>> THEN candidates[1].profile.unit
        ELSE "A"

\* The demand of profile p in the unit asked for; a period without a phase
\* count is single-phase.
Contribution16(p, at, windowStart, unit, voltage) ==
    LET period == ActivePeriod(p, at, windowStart)
    IN  [limit |-> Convert(period.limit, p.unit, unit,
                           IF period.phases = None THEN 1 ELSE period.phases, voltage),
         phases |-> period.phases]

\* effective_limit_at: the override, or the ceiling where that is stricter.
EffectiveAt16(candidates, at, windowStart, unit, voltage) ==
    LET demand(p) == IF p = None THEN None
                     ELSE Contribution16(p, at, windowStart, unit, voltage)
        override == demand(WinnerAt(candidates, at, windowStart, TRUE))
        ceiling == demand(WinnerAt(candidates, at, windowStart, FALSE))
    IN  IF override = None THEN ceiling
        ELSE IF ceiling = None \/ override.limit <= ceiling.limit THEN override
        ELSE ceiling

\* compute_composite: the reported periods, none when the request is rejected.
Composite16(candidates, start, duration, unit, voltage) ==
    LET offsets == (UNION {BoundaryOffsets(candidates[i].profile, start, duration) :
                              i \in DOMAIN candidates}) \cup {0}
    IN  IF duration <= 0 THEN {}
        ELSE EmittedPeriods([o \in offsets |->
                 EffectiveAt16(candidates, start + Seconds(o), start, unit, voltage)])

-----------------------------------------------------------------------------
(* OCPP 2.0.1: one base profile under a set of station ceilings *)

\* numberPhases defaults to three and is clamped to 1..3.
EffectivePhases(period) ==
    IF period.phases = None THEN 3 ELSE Max({1, Min({3, period.phases})})

\* floored_limit: minChargingRate lifts the limit.
FlooredLimit(p, period) ==
    IF p.floor = None THEN period.limit ELSE Max({period.limit, p.floor})

\* composite_contribution_at: the limit p imposes, in the unit asked for.
LimitAt201(p, at, windowStart, unit, voltage) ==
    LET period == ActivePeriod(p, at, windowStart)
    IN  IF period = None THEN None
        ELSE Convert(FlooredLimit(p, period), p.unit, unit, EffectivePhases(period), voltage)

LimitsAt201(ps, at, windowStart, unit, voltage) ==
    {LimitAt201(p, at, windowStart, unit, voltage) : p \in ps} \ {None}

\* compose_composite_schedule_capped: the reported periods.
Composite201(base, ceilings, start, duration, unit, voltage) ==
    LET offsets == UNION {BoundaryOffsets(p, start, duration) : p \in {base} \cup ceilings}
        demand(at) ==
            LET period == ActivePeriod(base, at, start)
            IN  IF period = None THEN None
                ELSE [limit |-> Min(LimitsAt201({base} \cup ceilings, at, start, unit, voltage)),
                      phases |-> period.phases]
    IN  IF duration <= 0 THEN {}
        ELSE EmittedPeriods([o \in offsets |-> demand(start + Seconds(o))])

\* Mutant of ActiveLimitW: an ampere limit is converted over a single phase.
ActiveLimitWSinglePhase(p, at, txStart, voltage) ==
    LET period == ActivePeriod(p, at, txStart)
    IN  IF period = None THEN None
        ELSE FlooredLimit(p, period) * (IF p.unit = "W" THEN 1 ELSE voltage)

\* active_limit_w: the limit p imposes on the metered power, in watts.
ActiveLimitW(p, at, txStart, voltage) ==
    LET period == ActivePeriod(p, at, txStart)
        watts == IF p.unit = "W" THEN 1 ELSE voltage * EffectivePhases(period)
    IN  IF period = None THEN None ELSE FlooredLimit(p, period) * watts

\* The limits that bound the metered power: of the base profile (None if there
\* is none) and of the ceilings, those in force.
PowerLimits(base, ceilings, at, txStart, voltage) ==
    {ActiveLimitW(p, at, txStart, voltage) : p \in ({base} \cup ceilings) \ {None}} \ {None}

\* bounded_power_w_capped: the metered power in watts, the natural rate unless
\* a limit is stricter.
BoundedPower(base, ceilings, at, txStart, natural, voltage) ==
    Min({natural} \cup PowerLimits(base, ceilings, at, txStart, voltage))
=============================================================================
