# A TLA+ model of ocpp-rs

`ocpp-rs` implements the two ends of OCPP-J, the JSON-over-WebSocket protocol
between a charge point (charging station) and a central system (CSMS), in the
versions 1.6J and 2.0.1. This directory holds TLA+ modules that model its
concurrent core and its request handling, TLC configurations that check them on
small instances, and machine-checked (TLAPS) proofs, for every instance, of all of
their safety properties. Paths below are relative to the repository root; `cp/` stands
for `crates/ocpp-cp/src/` and `tp/` for `crates/ocpp-transport/src/`.

## 1. Inventory

### The parts, their state and their operations

| Part | Source | State | Operations |
|---|---|---|---|
| Pending-call correlation | `tp/pending.rs` | unique_id -> oneshot sender | register, register_guarded, remove, resolve, reject, cancel_all, guard drop |
| Station client and `ChargePoint::call` | `tp/client.rs`, `cp/lib.rs` 5763-5920 | current client, combined send/receive task, outbound channel | establish_session, call, send_message, disconnect |
| CSMS server | `tp/server.rs` | `cp_handles` (routing), connection table, one session task per socket | call, start, stop, handshake, session loop and teardown, cleanup_idle_connections |
| CSMS inbound dispatch | `tp/server.rs` 1013-1236, `tp/dispatch_handler.rs`, `crates/ocpp-messages/src/dispatcher.rs` | the CALL being served, outbound channel, event channel, after-hook tasks | dispatch, emit events, answer, after-hook, teardown |
| Boot, heartbeat, connection flag | `cp/lib.rs` 5504-6117, 8828-8987 | current client, `is_connected`, registration status, heartbeat handle | start, stop, connect, disconnect, boot retry loop, start_heartbeat, Soft and Hard reset, Disconnected event |
| Transactions and command consumer | `cp/lib.rs` 8243-8912, 3611-4042 | `active_transactions`, `v201_sessions`, `v201_tx_profiles`, sampler handles, command channel, deferred reset and availability | start, stop, reset, availability, remote requests |
| TransactionEvent stream (2.0.1) | `cp/lib.rs` 6261-6415, 7372-7686, 8383-8653, 9996-10056, `cp/v201_transaction.rs` | per session: seqNo counter, charging-state mutex; samplers | plug_in_cable, transition, fold, sampler tick, trigger, Ended |
| Reservations | `cp/lib.rs` 4398-4719, 5391-5469, 8526-8561, `cp/connector.rs` | reservationId -> connector, expiry timer handles, connector status | ReserveNow, CancelReservation, expiry, consumption by a start |
| Connector | `cp/connector.rs` | status, physical state, fault, reserved_for | plug, unplug, lock, fault, status, reserve |
| Authorization | `cp/auth_cache.rs`, `cp/local_list.rs`, `cp/lib.rs` 6519-6573 | cache, local list and its version | authorize, SendLocalList, ClearCache |
| Charging profiles | `cp/charging_profiles.rs`, `cp/composite.rs`, `cp/v201_*profile*.rs`, `cp/v201_station_ceiling.rs` | installed profiles | install, clear, composite schedule |
| Jobs | `cp/v201_log_upload.rs`, `v201_firmware_update.rs`, `v201_publish_firmware.rs`, `v201_customer_information.rs`, `cp/lib.rs` 9390-10175 | request ids in flight, last status reported, command channel | begin, supersede, complete, status and page streams, triggered repeats |
| Reports, TriggerMessage | `cp/lib.rs` 3223-3564, 4054-4117, 9100-9355 | command channel | queue a snapshot, send its pages |
| Device model | `cp/v201_device_model.rs`, `cp/lib.rs` 2085-2322, 7170-7306 | variables, monitors, monitoring level, queued trips | SetVariables, install, replace and clear monitors, NotifyEvent |
| Certificates | `cp/v201_certificate_store.rs`, `cp/v201_pending_csr.rs`, `cp/lib.rs` 2417-2751, 2996-3040, 6614-6645 | one PEM per use, pending CSR marker | install, list, delete, sign, correlate |
| Display messages, cost, network profiles, data transfer | `cp/v201_*.rs`, `cp/data_transfer.rs` | keyed stores | get, set, clear |
| Messages and types | `crates/ocpp-messages`, `crates/ocpp-types` | none | encoding, validation, dispatch tables |
| Conformance | `crates/ocpp-conformance` | none | tests |

### How they interact

A station task calls `ChargePoint::call`, which registers a oneshot sender in
the map of the current client and hands a frame to that client's channel; the
client's combined task sends it and settles the entry when the answer is read.
The CSMS does the same over the session a station is routed to. An inbound CALL
runs a handler on the station's receive loop; a handler never calls back to the
CSMS itself but puts a command on the channel of the single consumer task, or
arms one of two slots that `stop_transaction` drains when the station goes idle.
Application tasks call `start_transaction`, `stop_transaction`, `plug_in_cable`
and `transition_charging_state` concurrently with the consumer. Samplers,
heartbeat and reservation timers are further tasks, stopped by `abort()`. All of
this state is behind separate `RwLock`s and atomics that are never held together
for a whole operation, apart from the two exceptions the code comments on: the
drain under the `active_transactions` guard and the charging-state mutex.

### What is hard

Every CALL is an await of up to the call timeout, during which the client may be
replaced, the session superseded, the transaction stopped or the reservation
expired. The hazards, each at its line, are in `PROJECT.json`; the main ones are

- client or session replaced between two steps of `call` (look-up, register,
  send), late and repeated answers, teardown of an old session after the station
  has reconnected, `stop()` while calls are in flight;
- stops of one transaction racing each other, a reset or their own start; a CALL
  of a start or stop failing half-way; a decision taken under a lock and carried
  out by another task later (deferred reset, deferred availability);
- four independent emitters numbering the events of one transaction;
- cancel, expiry and start settling one reservation at once;
- uploads and rollouts superseded or retried while the stream of the former
  request still runs on the consumer, which finds out only when it completes;
- reboots: an old heartbeat, an old client or a lost answer meeting the next boot;
- answers used after they were replaced: a cached authorization, a signing request
  that another one displaced, a monitor cleared while its trip is queued;
- composite schedules: edges of recurring and bounded schedules against a window
  whose start is any instant, and answers that must agree with what is metered.

### What makes each part correct

Calls: a call ends once, with an answer really given to it, and leaves nothing
behind. Routing: a connected station is reachable, a routed session is alive.
Transactions: session records and deferred slots stay tied to live transactions, a
profile installed while its transaction runs goes with it; a session is closed once
(2.0.1) and not before the CSMS knows (1.6J); a Scheduled reset happens. Events: unique numbers, only real transitions, no reading after Ended.
Reservations: a Reserved connector is held by someone who will free it, each end
is reported once, a charging connector is never freed. Profiles: one of each
rank, and a composite schedule that says at every second what the rules demand.
Jobs: each request is settled, by its own stream, and the last status tells of the
latest one. Link: one heartbeat that can be stopped, none before the boot is
answered, and operations that end. Authorization: an acceptance is the CSMS's, and
its last word unless CALLs for the tag overlapped. Certificates: no request is lost,
each is settled once. Device model: events that
can be attributed. Inbound: no CALL of a hook before the answer, no event for a
refused CALL, and none after the answer of its CALL.

## 2. Plan

Order, most important first:

1. `CallContract`, `StationCalls`, `CsmsSessions` and the proofs of
   `StationCalls` -- done.
2. `Transactions` (command consumer, start, stop, reset, deferred slots) -- done.
3. `Reservations` -- done.
4. `TransactionEvents` -- done.
5. `ChargingSchedules` and `ChargingProfiles` -- done.
6. `StationJobs` (log, firmware, publish and customer streams, reports, triggers)
   -- done.
7. `StationLink` (boot, heartbeat, resets, connection flag) -- done.
8. `Authorization`, `Certificates`, `DeviceModel`, `CsmsInbound` -- done.

Theorems: every safety property that a passing run checks is proved, and type
correctness of every state machine (section 5). Liveness is left to TLC.

## 3. Modules

Every module starts with a comment on what it abstracts; `PROJECT.json` maps
every definition to the lines it models. A definition whose comment begins with
"Mutant" is a broken variant of the one that follows it: no specification uses
it, and substituting it must make a property fail.

**CallContract** is the abstract specification of an OCPP-J call: idle -> open ->
done, a verdict that carries an answer needs that answer, every opened call ends.

**StationCalls** models `ChargePoint::call` over successive clients. `client` is
`ChargePoint.client`; `task[k]` the combined task of client k, whose end takes
three steps (loop left, `cancel_all`, receiver dropped); `pending`, `outq`,
`wire`, `answers` are per client; `phase`, `home`, `slot`, `verdict` per call.
Actions: CallRefused, CallRegister, CallSend, CallSendFails, CallReturns,
CallTimesOut, CallCancelled (`call`, one action per await); TaskSend,
TaskSendFails, TaskReceive, TaskBreak, TaskCancelAll, TaskEnd
(`connect_internal`); Establish, Disconnect; CsmsAnswers (external). unique_ids
are fresh (UUIDs), so a call is its own id.

**CsmsSessions** models `OcppServer`: sessions, the routing table `handle`, the
connection table, `OcppServer::call` on a cloned handle (no guard, so a dropped
future leaves its entry) and `stop`. A session's channel closes when its last
sender is dropped (`Holders`, SessionOrphaned).

**Transactions** models starts, stops, resets and availability changes. A task is
a record with a program counter per CALL it awaits; a lock is only held within
one action. The receive loop (`inbound`) runs one handler at a time; the 2.0.1
Reset and ChangeAvailability handlers take two steps because they drop the guard
under which they decide, and so does SetChargingProfile(TxProfile), which looks into
`active_transactions` and then writes the profile of the EVSE. `late` remembers the
transactions for which that write came after a stop had removed the session. `version`,
chosen at the start, selects the 1.6J or 2.0.1 branches. TxStartPoint is the default,
so no start folds.

**TransactionEvents** models the event stream of one EVSE with TxStartPoint
EVConnected. An emitter's look-up, lock, draw, send and acknowledgement are
separate actions; `sent` and `acks` record what went out and what was
acknowledged.

**Reservations** models the reservation map, the timer tasks and every writer of a
connector status. `WriteLock` says when a writer of the connector map may run;
`Abort` models `JoinHandle::abort`, which stops a task only at an await.

**ChargingSchedules** holds what `composite.rs` and `v201_charging_profiles.rs`
compute, as operators: the period of a profile in force at an instant, the
offsets where it may change, and the composite schedule. Instants are ticks, so
that the truncation of `num_seconds` is visible; periods come out as a set, their
starts being distinct. The two files define anchoring, the active period and the
boundary offsets in the same way, so one operator stands for both. The limit a sampler
applies (`ActiveLimitW`) and the limit the composite schedule reports (`LimitAt201` with
`Convert`) are two functions in the source and two in the model, each with its own
conversion to watts. Limits are integers: the instance uses values whose conversions are
exact.

**ChargingProfiles** is the state machine over them: the 1.6J store as sequences
(the order matters for the reported unit), the three 2.0.1 stores as functions,
one action per handler and version, the opening and closing of transactions, the
sampler and the clock. A handler that touches one store is one action. The 2.0.1
ClearChargingProfile takes a snapshot of three stores and then removes its matches one
by one, with an await between any two: `clearing` holds its snapshot and what is left to
remove, and transactions, samplers and the clock move in between (no second handler,
because the receive loop runs one at a time). `raced` collects the EVSEs whose TxProfile
another task wrote meanwhile. The module's reference
(`Demanded`) is written without offsets or boundaries: the profiles that govern
an instant in ticks, the ones no other outranks, the least of their limits.

**StationJobs** models the requests that are answered at once and worked off later.
A handler looks at its store, begins the request and queues a command; the consumer
turns a command into a sequence of steps (`Program`), one per CALL or store
operation, and handlers run between any two. GetLog and UpdateFirmware look at
their slot and begin in two lock acquisitions, hence in two actions. `report` is
what a CSMS assembles from the pages. The CSMS uses a new request id or repeats the
last one; Stop ends the consumer for good, as its receiver is not made anew.

**StationLink** models the reboots. An operation is a list of steps (`plan`) of the
application or of the consumer; each WebSocket session has a read loop that reports
its end, whichever client is in use by then. Both tasks may run at once; `clash`
records that a call met a reset, or that a session was opened over a running
heartbeat, which is when the code loses track of a heartbeat.

**Authorization** models `authorize()`, called by any number of tasks (`Askers`) for the
same or for different tags, with an action per lock and await, the cache
with its two readings (`get`, `get_stale`), ClearCache, and SendLocalList with the
checks in their order. The 2.0.1 list is converted to 1.6J statuses on the way in.
`told` and `overlapped` are histories: what the CSMS answered per tag, and the tags for
which two CALLs were under way at once.

**Certificates** models the store of trust anchors and the one-slot correlation of
SignCertificate with CertificateSigned; numbering and recording a request are two
actions, because `record` draws its number before it takes the lock. `credited` (which
delivery was taken for which request) and `displaced` are histories.

**DeviceModel** models writes, monitors and events. A trip is a copy of the monitors
taken under the lock of the write, queued, and filtered by the level in force when
the consumer emits it. Values are numbers or `Text`, which compares with nothing.

**CsmsInbound** models the session task of the CSMS serving one station: the raw
event, the dispatch, the semantic events, the answer, and the outbound channel that
is drained between two CALLs; an after-hook is a task of its own. `requests` is the
history of the CALLs read, so that a property can ask which events an answer needs.

The `*_proofs` modules hold the theorems, `StationParts_proofs` those of `StationLink`
and the last four modules; the `MC_*` modules instantiate the models.
`MC_StationParts` holds these five components, which share no state: a behaviour moves
one of them.

## 4. Runs

| Run | Instance | Shows |
|---|---|---|
| station_calls | 2 calls, 2 clients | NoResidue, AnswerIsOwn, ClearingWakesAll, and refinement of CallContract with termination |
| csms_sessions | 2 stations, 2 sessions, 2 calls | RoutedIsLive, AnswerFromTarget, OpenRouteKept, refinement of CallContract with termination, and UnroutedSessionEnds: a superseded session ends by itself |
| transactions | both versions, 2 connectors, 2 transactions, 1 application task and the consumer, 2 requests, 1 failed CALL | SessionIsLive, ProfileHasSession, EndedAtMostOnce, FiredOnce (2.0.1), ClosedIsReported (1.6J) |
| transactions_live | 2.0.1, 1 connector, 2 transactions, 2 requests, no failed CALL | ArmedResetHappens, CommandsFinish |
| transaction_events | 2 tasks, 2 transactions, 4 operations, 1 tick, 1 failed CALL | SeqUnique, TransitionsReal, MeteringBeforeEnded, OpsFinish |
| reservations | 2.0.1, 2 connectors, 2 ids, 2 timers, 3 events | ReservedIsHeld, ReportedOnce, ReleaseSparesCharging, ReservationEnds |
| charging_profiles | both versions, 1 connector, an unknown id, 6 and 5 profiles of which 4 are installed at once, half-second ticks | StackIsSound, CompositeIsEffective, SampleMatchesComposite, ReportIsComplete, ClearIsHonest |
| station_jobs | 3 requests of any kind, 2 request ids, both versions, 3 outcomes | DrainedIsSettled, ReportAssembles, JobsSettle |
| station_parts | link: 4 calls and resets, 1 boot retry; 2 tasks authorizing 1 tag, 1 list update; 3 CSRs by 2 tasks; 2 monitors; 2 CALLs | OneHeartbeat, HeartbeatsAfterBoot, OperationsFinish; GrantIsBacked; RequestsAccountedFor; EventsAreAttributable; AnswerBeforeHook, EventsAreTruthful |
| profile_outlives_transaction | violation | ProfileNeverOutlives: a TxProfile set while a stop awaits its CALLs is never removed |
| deferred_reset_cuts_session | violation | DeferredResetSparesSessions: the deferred reset is queued, and a start before it runs is cut off |
| swapped_under_clear | violation | NothingSwapped: a start replaces a TxProfile between the snapshot of a clear and its removal |

### Bounds

Two calls and two clients give every pairwise race of a call with another call,
with its own client's end and with the next client; a third adds no new pair.
Two stations are needed for an answer from the wrong one, two sessions for a
reconnection. In csms_sessions the constants are used in a fixed order, which leaves out
behaviours that differ in names only, and a second call is made while the first is under
way, on the only session or after a reconnection (`Bounds` of `MC_CsmsSessions`): with
liveness the full instance is beyond TLC; the safety properties are proved for all of
them. In `Transactions`, `MaxTx` bounds starts, `MaxRequests` CSMS
requests and `MaxFaults` failing CALLs: two transactions on two connectors let
them share a connector or not, and two requests let a deferred reset meet a
remote start or a second request. transactions_live has no failing CALL, because with
one ArmedResetHappens is refuted (section 6). `MaxOps = 4` in `TransactionEvents` is a plug,
two concurrent changes and a stop; two arms in `Reservations` let one timer
displace or outlive another. In `ChargingProfiles` a tick is half a second and the
clock takes three values, so queries come on and off whole seconds; a "day" is
four seconds in a window of six, so recurring schedules wrap inside it; the
profiles share ids, purposes and stack levels pairwise, and every kind, unit and
optional field occurs. Three requests in `StationJobs` are a request, one that
supersedes it and a retry or a third party; reports of up to three entries on pages
of two are empty, partial, full and split. In `StationLink` four operations are a
start, two resets or calls that follow or overlap, and one more; after an overlap
no further one begins, as the two properties make no claim there. In
`Authorization` the list holds one of two tags, so updates meet its capacity, the
clock outlives every expiry, and two tasks ask for one tag at once or in turn; in `Certificates` three requests let one displace
another before a third; two monitor ids let one be cleared and the next installed
while a trip waits; two CALLs let an answer and a hook meet the next CALL.
Schedules begin with a period at 0, as OCPP requires;
`MaxFilters` bounds the fields by which a clear or a report filters, and `MaxInstalled`
the profiles of a version that are installed at once. Deadlock checking is off in
the other instances because they run out of calls, requests or operations; that
running operations end is checked as liveness instead.

### Fairness

Weak fairness, only on steps the program itself takes: a polled future whose
await is ready is run again by tokio, and a CALL always returns because
`tokio::time::timeout` bounds it (`StationCalls` models the timeout as an action
that is always possible while a call waits). In `Transactions` (the steps of a start or
a stop, per task, of the consumer and of a handler that has decided), in `StationJobs`
and in `StationLink` (those of the consumer and of a running operation) the same holds;
`MC_StationParts` states the fairness of `StationLink` and no other. Expiry dates come. Nothing is
assumed of the CSMS, of the network, of the application, of samplers or of
environment events.

## 5. Proofs

The `*_proofs` modules prove, for every value of the constants, the safety
properties that the runs check on small instances: `Spec => []P` for an invariant
P, `Spec => P` for an action property. A bound such as `MaxTx` is then any natural
number, so a behaviour of any length is covered. The only assumptions are the named
ASSUMEs of the modules (the null values lie outside of their sets, bounds are
natural numbers, there are finitely many connectors), which TLC evaluates in the
runs, and for two theorems of `Reservations` the condition `FreshIds`.

`ChargingProfiles` assumes of the profiles what `IsProfile` says: at least one period,
numbers where OCPP has numbers, and in a schedule that recurs a period from its very
start. The last one is needed (section 6) and OCPP requires it.

Every module has the same layout: the inductive invariant as a conjunction of named
parts, lemmas about the operators of the model (what a move to the next await, a
send or an abort changes, and what it keeps), `InitInv`, `StepInv` with one step per
action and one below it per conjunct the action disturbs, and the theorems, which
follow with PTL. Each invariant was checked with TLC on the run's instance first.

| Module | Theorems besides TypeCorrect | What the inductive invariant adds |
|---|---|---|
| StationCalls_proofs | NoResidueHolds, ClearingWakesAllHolds, AnswerIsOwnHolds, Refinement | an entry lives only in the map of the call's home client and while the call is registered or sent; a filled slot holds an answer given on that connection; an open call whose slot is empty is in the map of its client |
| CsmsSessions_proofs | RoutedIsLiveHolds, AnswerFromTargetHolds, OpenRouteKeptHolds, Refinement | the chain from the wire to the caller: frames only of calls that sent, pending entries only of calls whose cloned handle leads to that map, slots filled on that session; a session has an owner from its handshake on |
| Transactions_proofs | SessionIsLiveHolds, ProfileHasSessionHolds, EndedAtMostOnceHolds, ClosedIsReportedHolds, FiredOnceHolds | the life of an id: its start has it to itself until it registers it, a stop that found it knows its connector, what a stop detached is gone for good; the profile of an EVSE is that of a session or of one that was detached before the profile came (`late`); a deferred reset is in its slot or in the hands of one task |
| TransactionEvents_proofs | SeqUniqueHolds, TransitionsRealHolds, MeteringBeforeEndedHolds | a number that was drawn is with one task, with one tick or on the wire, and below the counter; a reading's number is drawn while the session is there, that of Ended after it is gone; who emits a transition holds the mutex, and the stored state is the last acknowledged one |
| Reservations_proofs | ReleaseSparesChargingHolds; under FreshIds ReservedIsHeldHolds and ReportedOnceHolds | a reservation is claimed by the map, the handler, its own timer or a start, by one of them only, and what is claimed is not yet reported; the guard of a release keeps a start out between check and write |
| StationJobs_proofs | DrainedIsSettledHolds, ReportAssemblesHolds | ids of queued commands rise towards `latest`; a slot that is held has its command ahead, one that is free has its terminal status sent or as the last step; the pages received are the first i of the snapshot, with the arithmetic of the page count as lemmas |
| StationParts_proofs | GrantIsBackedHolds, RequestsAccountedForHolds, EventsAreAttributableHolds, AnswerBeforeHookHolds, EventsAreTruthfulHolds; of `StationLink`, OneHeartbeatHolds, HeartbeatsAfterBootHolds, BootIsBounded; type correctness as AuthTypeCorrect, CertTypeCorrect, DeviceTypeCorrect, InboundTypeCorrect, LinkTypeCorrect | per part: an answer a task holds and a cached one are answers the CSMS gave, and as long as no CALLs for the tag overlapped the cached one is the last, or the last is on its way into the cache; a numbered request is with one signer, in the slot, or settled; a tripped or installed monitor is the one named for its id; where the CALL being served stands determines which of its events and frames are out, and each frame stays behind the events of its CALL; what an operation of the link has left is one of 19 plans, and while one runs that will start a heartbeat without quiescing first, none is running; the heartbeats that run or may still be started are no more than the operations so far |
| ChargingProfiles_proofs | StackIsSoundHolds, ClearIsHonestHolds, ReportIsCompleteHolds, SampleMatchesCompositeHolds, CompositeIsEffectiveHolds | ids are unique, no profile is listed twice, one profile to a (purpose, stack level) of a connector, a ceiling only on connector 0 (1.6J), each store holds its own purposes (2.0.1); while a clear is under way, what is installed is its snapshot less the matches removed so far, outside the TxProfile slots that others wrote (`Tracks`); an answer is the one the handlers compute from the stores as they stand |

None of the invariants is inductive alone, except that RoutedIsLive nearly is. The
reason is the same everywhere: a property speaks of what is published (a map, a
report, a returned value), while the program works between two awaits with copies it
took earlier, so the invariant has to say what such a copy still tells.

`CompositeIsEffectiveHolds` compares two computations that share little: the program
evaluates a demand at the boundary offsets and drops repeats, the reference
(`Demanded`) looks at every second, in ticks, without offsets. The argument, in the
order of the module:

1. *Time.* `num_seconds` truncates towards zero. For instants a whole number of seconds
   into the window, or before it, the offset of the program is the exact phase of the
   schedule less a fraction of a second (`RawOffset`, `PhaseOf`), so that a period is
   in force for the program if and only if it governs for the reference (`Governing`).
2. *Boundaries.* From one second to the next a schedule moves on by one, unless it
   begins again; if a period begins, the schedule or its validity ends, or an occurrence
   begins, that second is among the offsets collected (`OccurrenceOf`, `StepSame`).
   Between two offsets the demand is the same.
3. *Emission.* A demand that changes at the collected offsets only is what a reader
   finds in the emitted periods at every second where there is a demand (`Reporting`),
   although repeated periods are dropped.
4. *Stacking.* Under 1.6J `max_by` over a key takes the candidate that no other outranks
   (`LastMax3`); by StackIsSound there is only one, so the order of the list does
   not matter, and the stricter of override and ceiling is the least of the limits the
   reference finds (`WonOverride`, `WonCeiling`, `Demanded16`). Under 2.0.1 the demand is
   the least of the limits where the base profile is in force (`Demanded201`).

SampleMatchesComposite follows from 3 with a window of one second: a profile with a start
of its own has the same period in force whatever it is asked relative to
(`AnchoredActive`), and the sampler's own conversion to watts gives what the composite
schedule's conversion gives (`InWatts`).

For the two refinements every action of the call path is mapped to a step of
`CallContract`: register to Open, refusal to Refuse, the ways of returning to
Finish, an answer to Answer, the rest to stuttering. Both ends of the connection
so implement the same contract.

`ReservedIsHeldHolds` and `ReportedOnceHolds` need `FreshIds`: with ids that are
reused TLC refutes the first (section 6). `OneHeartbeat` and `HeartbeatsAfterBoot`
carry their condition, `clash`, in the property itself.

Only model-checked: all liveness (the fairness part of CallContract,
UnroutedSessionEnds, ArmedResetHappens, CommandsFinish, OpsFinish, ReservationEnds, JobsSettle,
OperationsFinish), which the prover does not handle.

## 6. Findings and observations

The three violation runs are listed under "findings" with the comments they
contradict: a deferred reset that cuts off a new session, a TxProfile that outlives its
transaction, a TxProfile that a clear removes without having matched it.

More disagreements were found in the same way. The formulas of the first four are kept
in their modules, under the properties the code does keep; TLC refutes each when it is
added to the run of that module:

- NoneHangsAfterEnd: a CALL registered after `cancel_all` (client.rs:239) and sent before
  the receiver is dropped waits for its timeout on a closed client, although
  pending.rs:99-100 says that `cancel_all` is there so that no caller hangs until its
  timeout;
- ArmedResetHappens with `MaxFaults = 1` in transactions_live: a stop whose CALL fails
  after it took the id out of `active_transactions` returns before the drain
  (lib.rs:8725), and a Scheduled reset stays armed on the idle station, although
  lib.rs:1265-1268 says the station "reboots the moment the last session ends". With
  CALLs that are answered the property holds, also when Reset(OnIdle) arms its slot
  after the guard under which it decided (lib.rs:4038) was dropped;
- DisplacedIsUnsolicited and LaterIsOutstanding: v201_pending_csr.rs:131-136 says that
  the delivery of a superseded request is unsolicited and that numbers increase from one
  marker to the next; a delivery names no request and is credited to whichever is
  outstanding, and two requests may be recorded in the reverse of their numbers;
- StatusIsAccepted: the StatusNotification event (server.rs:1086) is also emitted for a
  CALL that the dispatcher answered with a CALLERROR, against the comment at
  server.rs:1050-1052;
- ReserveNow with an id that is still held (lib.rs:4425), for another connector,
  replaces the record and aborts the timer of the first one, which then stays
  Reserved, against lib.rs:1411-1413. With `FreshIds = FALSE` TLC finds ReservedIsHeld
  violated;
- `boundary_offsets` (composite.rs:318) truncates to whole seconds from a start that
  carries a fraction of one, so a change in the future falls just after the offset
  that is evaluated and is not reported, against composite.rs:268-271. This is why
  CompositeIsEffective speaks of queries on a whole second.

One more came out of a proof. `boundary_offsets` (composite.rs:272-328) collects the
starts of the periods of each occurrence and its end, if it has a duration, but not the
start of the occurrence. With a recurring schedule whose first period begins later than
0 and that has no duration, the demand ends where the next occurrence begins, and no
offset is evaluated there. OCPP requires the first startPeriod to be 0, which neither
the store nor this function checks; `IsProfile` assumes it.

Further observations; some are also hazards in `PROJECT.json`:

- `apply_v201_availability` (lib.rs:9069) sets the status of a connector that has
  begun to charge since the command was queued;
- a failed `TransactionEvent(Ended)` (lib.rs:8649) leaves the transaction active
  without its session, and a retried stop sends no Ended;
- the expiry timer (lib.rs:5434) frees a connector that left Reserved and was
  reserved again for another id; and a state change waiting for the mutex
  (lib.rs:7646) may draw a number after that of Ended;
- `OcppServer::stop` (server.rs:196) does not cancel a call in flight on a
  superseded session, which then ends by its timeout;
- a stop that completes while the start awaits StatusNotification(Charging)
  (lib.rs:8572) leaves the start to spawn a sampler for an ended transaction;
- a 1.6J TxProfile (charging_profiles.rs:64) stays installed when its transaction
  ends; a 2.0.1 GetCompositeSchedule for an EVSE that does not exist is answered
  from the station-wide default (lib.rs:5158);
- `start_heartbeat` (lib.rs:6116) does not abort the task it replaces: connect()
  after a lost link, without stop(), leaves two heartbeats; stop() (lib.rs:5528)
  quiesces before it aborts the consumer, so a reset in its boot starts a heartbeat
  that survives; and a StatusNotification that fails while an accepted boot announces
  its connectors (lib.rs:6019) leaves the station without one;
- the Disconnected event of an old client (lib.rs:1092) clears `is_connected` of the
  session that replaced it, and the heartbeat skips its ticks from then on;
- request ids used in the order 1, 2, 1 (v201_log_upload.rs:127) let the first stream
  settle the slot of the third request;
- an authorize() in flight re-inserts what ClearCache has just removed (lib.rs:6548),
  and of two tasks that ask for one tag the one with the older answer may insert last,
  so that an acceptance is served after a later refusal; this is why GrantIsBacked asks
  for the last word only where no CALLs for the tag overlapped;
- CertificateSigned may be handled before `record` (lib.rs:6636), and the marker is
  then left for a later, unrelated chain. Only the log depends on it;
- a value that is not a number hides a threshold crossing (v201_device_model.rs:882),
  and a monitor replaced by id is not compared with the others for a duplicate;
- a handler that calls the station it is serving blocks its loop until the timeout;
- `last_activity` (server.rs:829) is never refreshed, so the idle clean-up evicts live
  sessions from the connection table;
- `clear_fault` acts in any status, and `reserved_for` survives a fault of a Reserved
  connector, so that an Available connector refuses other tags (connector.rs:365);
- two plugs, or a plug and a start, that find no transaction each open one
  (lib.rs:7488); a transition to Charging before the start makes the start silent
  (lib.rs:8425); events may leave in another order than they are numbered
  (lib.rs:7656).

## 7. Not modelled

Message encoding, schema validation and data types, by far the largest part of the
repository (no state); WebSocket framing (I/O); simulated meter readings
(arithmetic); the stand-alone `TransactionManager`, `ConnectorStateMachine` and
`MessageHandler`, which `ChargePoint` does not use; the builders of requests and
answers in `v201_command.rs` and `v201_transaction.rs` (content without control);
single-lock keyed stores (display messages, cost, network profiles, data
transfer), which unit tests reach. Of the device
model, reading variables and filtering reports are left out as lookups.
