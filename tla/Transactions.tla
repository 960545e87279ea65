---------------------------- MODULE Transactions ----------------------------
(***************************************************************************)
(* The transaction core of the charge point (ocpp-cp/src/lib.rs): the      *)
(* commands CSMS requests put on the channel of the single consumer task,  *)
(* start_transaction and stop_transaction run by that task and by          *)
(* application tasks, the reset the consumer performs, and the two slots   *)
(* that defer a 2.0.1 Reset(OnIdle) or ChangeAvailability to the moment    *)
(* the station goes idle.                                                  *)
(*                                                                         *)
(* Every CALL to the CSMS is an await: a task stops at it and any other    *)
(* task may run before it returns.  A lock is held only inside one action. *)
(* Where a handler takes several locks with no CALL between them, the      *)
(* action covers those whose order no other task can observe.              *)
(*                                                                         *)
(* The station's TxStartPoint is the default [Authorized], so              *)
(* fold_authorization_onto_plug_open finds no plug-opened session and a    *)
(* start always opens a transaction.  Reservations, faults and the plug    *)
(* are other components, and so is ClearChargingProfile, which can only    *)
(* take a profile away (ChargingProfiles): here a connector is Available,  *)
(* Charging or Unavailable (Preparing and Finishing are reported, never    *)
(* stored).                                                                *)
(***************************************************************************)
EXTENDS Integers, FiniteSets, Sequences

CONSTANTS
    Versions,       \* the protocol versions the station may be configured with
    NumConnectors,  \* connectors are numbered 1 .. NumConnectors
    AppTasks,       \* application tasks that call the public API
    Consumer,       \* the command consumer task spawned by connect()
    MaxTx,          \* bound: transaction ids handed out
    MaxRequests,    \* bound: accepted CSMS requests
    MaxFaults       \* bound: CALLs that fail (timeout, CALLERROR, rejection)

ASSUME VersionAssumption == Versions \subseteq {"V16J", "V201"}
ASSUME BoundsAssumption ==
    /\ NumConnectors \in Nat \ {0}
    /\ MaxTx \in Nat
    /\ MaxRequests \in Nat
    /\ MaxFaults \in Nat
ASSUME ConsumerAssumption == Consumer \notin AppTasks

Connectors == 1..NumConnectors
Tx == 1..MaxTx
Tasks == AppTasks \cup {Consumer}

None == 0           \* no connector, no transaction, the whole station
Targets == {"Available", "Unavailable"}
Kinds == {"Soft", "Hard"}

VARIABLES
    version,        \* config.protocol_version
    status,         \* Connector::status of each connector
    active,         \* active_transactions: the connector of each live id, or None
    sessions,       \* keys of v201_sessions
    profile,        \* v201_tx_profiles: the transaction whose profile is installed
    samplers,       \* keys of meter_sampler_handles
    nextTx,         \* next_v201_transaction_id (or the CSMS's own counter, 1.6J)
    queue,          \* the command channel
    pendingReset,   \* pending_v201_reset
    pendingAvail,   \* pending_v201_availability
    task,           \* what each task is awaiting, and its local variables
    inbound,        \* the inbound-CALL handler between its read and its effect
    requests,       \* CSMS requests accepted so far
    faults,         \* CALLs failed so far
    starts,         \* starts called or accepted so far (at most MaxTx)
    closes,         \* history: closing CALLs sent for each transaction (2 = more)
    acked,          \* history: transactions whose closing CALL was answered
    scheduled,      \* history: resets answered Scheduled
    fired,          \* history: deferred resets put on the command channel
    late            \* history: transactions whose SetChargingProfile was installed
                    \* when they no longer ran

store == <<status, active, sessions, profile, samplers, nextTx>>
slots == <<pendingReset, pendingAvail>>
bounds == <<requests, faults, starts>>
history == <<closes, acked, scheduled, fired, late>>
vars == <<version, store, queue, slots, task, inbound, bounds, history>>

(* Commands *)

StartCommand(c, p) == [op |-> "start", connector |-> c, profile |-> p]
StopCommand(t) == [op |-> "stop", tx |-> t]
ResetCommand(k, d) == [op |-> "reset", kind |-> k, deferred |-> d]
ApplyCommand(c, to) == [op |-> "apply", connector |-> c, target |-> to]

Commands ==
    {StartCommand(c, p) : c \in Connectors, p \in BOOLEAN}
        \cup {StopCommand(t) : t \in Tx}
        \cup {ResetCommand(k, d) : k \in Kinds, d \in BOOLEAN}
        \cup {ApplyCommand(c, to) : c \in Connectors, to \in Targets}

NoAvail == [evse |-> None, target |-> "none"]
Avail == [evse : Connectors \cup {None}, target : Targets]

\* One V201ApplyAvailability per targeted connector, in ascending order.
ApplyCommands(a) ==
    IF a.evse = None
    THEN [c \in Connectors |-> ApplyCommand(c, a.target)]
    ELSE <<ApplyCommand(a.evse, a.target)>>

(* Tasks *)

Pcs == {"idle", "preparing", "opening", "register", "energize", "charging",
        "lookup", "close", "closing", "finishing", "unregister", "release",
        "available", "drain", "fire", "snapshot", "stopping", "rebooting",
        "applying"}

Idle == [pc |-> "idle", connector |-> None, tx |-> None, profile |-> FALSE,
         reset |-> "none", todo |-> {}, takenReset |-> "none", takenAvail |-> NoAvail]

\* A stop returns to its caller: the loop of perform_reset, or nobody.
Return(w) ==
    task' = [task EXCEPT ![w] =
        IF @.reset = "none" THEN Idle
        ELSE [@ EXCEPT !.pc = "stopping", !.tx = None, !.connector = None,
                       !.takenReset = "none", !.takenAvail = NoAvail]]

At(w, pc) == task[w].pc = pc
Goto(w, pc) == task' = [task EXCEPT ![w].pc = pc]
Fault == faults < MaxFaults /\ faults' = faults + 1 /\ UNCHANGED <<requests, starts>>
Begun == starts < MaxTx /\ starts' = starts + 1

ActiveTx == {t \in Tx : active[t] # None}

\* The receive loop runs an inbound handler to its end before it reads the next
\* frame, so the answer to a CALL is not read meanwhile.  The actions of a start
\* also do what follows the answer, which may run beside a handler, and leave
\* this out.
LoopReads == inbound.pc = "idle"

Init ==
    /\ version \in Versions
    /\ status = [c \in Connectors |-> "Available"]
    /\ active = [t \in Tx |-> None]
    /\ sessions = {}
    /\ profile = [c \in Connectors |-> None]
    /\ samplers = {}
    /\ nextTx = 1
    /\ queue = <<>>
    /\ pendingReset = "none"
    /\ pendingAvail = NoAvail
    /\ task = [w \in Tasks |-> Idle]
    /\ inbound = [pc |-> "idle"]
    /\ requests = 0
    /\ faults = 0
    /\ starts = 0
    /\ closes = [t \in Tx |-> 0]
    /\ acked = {}
    /\ scheduled = 0
    /\ fired = 0
    /\ late = {}

-----------------------------------------------------------------------------
(* start_transaction *)

StartBegin(w, c, p) ==
    task' = [task EXCEPT ![w] = [Idle EXCEPT !.pc = "preparing", !.connector = c, !.profile = p]]

\* The application's start_transaction: it carries no charging profile.
AppStart(w, c) ==
    /\ At(w, "idle")
    /\ Begun
    /\ StartBegin(w, c, FALSE)
    /\ UNCHANGED <<version, store, queue, slots, inbound, requests, faults, history>>

\* StatusNotification(Preparing) is answered; a 2.0.1 station picks the id and
\* sends TransactionEvent(Started), a 1.6J station sends StartTransaction.
StartPrepared(w) ==
    /\ At(w, "preparing")
    /\ nextTx <= MaxTx
    /\ IF version = "V201"
       THEN /\ task' = [task EXCEPT ![w].pc = "opening", ![w].tx = nextTx]
            /\ nextTx' = nextTx + 1
       ELSE Goto(w, "opening") /\ UNCHANGED nextTx
    /\ UNCHANGED <<version, status, active, sessions, profile, samplers, queue, slots,
                   inbound, bounds, history>>

\* The opening CALL is accepted: a 2.0.1 station stores the session and the
\* profile; on 1.6J the answer carries the id.
StartOpened(w) ==
    /\ At(w, "opening")
    /\ IF version = "V201"
       THEN /\ sessions' = sessions \cup {task[w].tx}
            /\ profile' = IF task[w].profile
                          THEN [profile EXCEPT ![task[w].connector] = task[w].tx]
                          ELSE profile
            /\ Goto(w, "register")
            /\ UNCHANGED nextTx
       ELSE /\ nextTx <= MaxTx
            /\ nextTx' = nextTx + 1
            /\ task' = [task EXCEPT ![w].pc = "register", ![w].tx = nextTx]
            /\ UNCHANGED <<sessions, profile>>
    /\ UNCHANGED <<version, status, active, samplers, queue, slots, inbound, bounds,
                   history>>

\* A CALL of the start fails or is rejected: the error is returned (or logged)
\* and nothing that was already changed is undone.
StartFails(w) ==
    /\ task[w].pc \in {"preparing", "opening", "charging"}
    /\ Fault
    /\ task' = [task EXCEPT ![w] = Idle]
    /\ UNCHANGED <<version, store, queue, slots, inbound, history>>

StartRegister(w) ==
    /\ At(w, "register")
    /\ active' = [active EXCEPT ![task[w].tx] = task[w].connector]
    /\ Goto(w, "energize")
    /\ UNCHANGED <<version, status, sessions, profile, samplers, nextTx, queue, slots,
                   inbound, bounds, history>>

\* energize_connector up to its StatusNotification(Charging).
StartEnergize(w) ==
    /\ At(w, "energize")
    /\ status' = [status EXCEPT ![task[w].connector] = "Charging"]
    /\ Goto(w, "charging")
    /\ UNCHANGED <<version, active, sessions, profile, samplers, nextTx, queue, slots,
                   inbound, bounds, history>>

\* The notification is answered: the sampler starts and the start returns.
StartSampler(w) ==
    /\ At(w, "charging")
    /\ samplers' = samplers \cup {task[w].tx}
    /\ task' = [task EXCEPT ![w] = Idle]
    /\ UNCHANGED <<version, status, active, sessions, profile, nextTx, queue, slots,
                   inbound, bounds, history>>

-----------------------------------------------------------------------------
(* stop_transaction *)

StopBegin(w, t) == task' = [task EXCEPT ![w].pc = "lookup", ![w].tx = t]

AppStop(w, t) ==
    /\ At(w, "idle")
    /\ active[t] # None
    /\ StopBegin(w, t)
    /\ UNCHANGED <<version, store, queue, slots, inbound, bounds, history>>

SendClose(t) == closes' = [closes EXCEPT ![t] = IF @ < 2 THEN @ + 1 ELSE @]

\* An unknown id is NotFound; a 1.6J station sends StopTransaction at once.
StopLookup(w) ==
    /\ At(w, "lookup")
    /\ IF active[task[w].tx] = None
       THEN Return(w) /\ UNCHANGED closes
       ELSE /\ task' = [task EXCEPT ![w].connector = active[task[w].tx],
                                    ![w].pc = IF version = "V201" THEN "close" ELSE "closing"]
            /\ IF version = "V201" THEN UNCHANGED closes ELSE SendClose(task[w].tx)
    /\ UNCHANGED <<version, store, queue, slots, inbound, bounds, acked, scheduled, fired,
                   late>>

\* Mutant: the session record is left behind.
StopDetachKeepsSession(w) ==
    /\ At(w, "close")
    /\ samplers' = samplers \ {task[w].tx}
    /\ profile' = [profile EXCEPT ![task[w].connector] = None]
    /\ Goto(w, "closing") /\ SendClose(task[w].tx)
    /\ UNCHANGED <<version, status, active, sessions, nextTx, queue, slots, inbound,
                   bounds, acked, scheduled, fired, late>>

\* Mutant: the profile of the EVSE is not cleared.
StopDetachKeepsProfile(w) ==
    /\ At(w, "close")
    /\ samplers' = samplers \ {task[w].tx}
    /\ sessions' = sessions \ {task[w].tx}
    /\ IF task[w].tx \in sessions
       THEN Goto(w, "closing") /\ SendClose(task[w].tx)
       ELSE Goto(w, "finishing") /\ UNCHANGED closes
    /\ UNCHANGED <<version, status, active, profile, nextTx, queue, slots, inbound,
                   bounds, acked, scheduled, fired, late>>

\* Mutant: Ended is sent whether or not a session was there to remove.
StopDetachAlwaysEnds(w) ==
    /\ At(w, "close")
    /\ samplers' = samplers \ {task[w].tx}
    /\ profile' = [profile EXCEPT ![task[w].connector] = None]
    /\ sessions' = sessions \ {task[w].tx}
    /\ Goto(w, "closing") /\ SendClose(task[w].tx)
    /\ UNCHANGED <<version, status, active, nextTx, queue, slots, inbound, bounds, acked,
                   scheduled, fired, late>>

\* 2.0.1 close_transaction: abort the sampler, clear the EVSE's profile, remove
\* the session; only the stop that removed it sends TransactionEvent(Ended).
StopDetach(w) ==
    /\ At(w, "close")
    /\ samplers' = samplers \ {task[w].tx}
    /\ profile' = [profile EXCEPT ![task[w].connector] = None]
    /\ sessions' = sessions \ {task[w].tx}
    /\ IF task[w].tx \in sessions
       THEN Goto(w, "closing") /\ SendClose(task[w].tx)
       ELSE Goto(w, "finishing") /\ UNCHANGED closes
    /\ UNCHANGED <<version, status, active, nextTx, queue, slots, inbound, bounds, acked,
                   scheduled, fired, late>>

StopClosed(w) ==
    /\ At(w, "closing")
    /\ LoopReads
    /\ acked' = acked \cup {task[w].tx}
    /\ Goto(w, "finishing")
    /\ UNCHANGED <<version, store, queue, slots, inbound, bounds, closes, scheduled,
                   fired, late>>

\* StatusNotification(Finishing) is answered.
StopFinishing(w) ==
    /\ At(w, "finishing")
    /\ LoopReads
    /\ Goto(w, "unregister")
    /\ UNCHANGED <<version, store, queue, slots, inbound, bounds, history>>

StopUnregister(w) ==
    /\ At(w, "unregister")
    /\ samplers' = samplers \ {task[w].tx}
    /\ active' = [active EXCEPT ![task[w].tx] = None]
    /\ Goto(w, "release")
    /\ UNCHANGED <<version, status, sessions, profile, nextTx, queue, slots, inbound,
                   bounds, history>>

StopRelease(w) ==
    /\ At(w, "release")
    /\ status' = [status EXCEPT ![task[w].connector] = "Available"]
    /\ Goto(w, "available")
    /\ UNCHANGED <<version, active, sessions, profile, samplers, nextTx, queue, slots,
                   inbound, bounds, history>>

\* StatusNotification(Available) is answered.
StopAvailable(w) ==
    /\ At(w, "available")
    /\ LoopReads
    /\ Goto(w, "drain")
    /\ UNCHANGED <<version, store, queue, slots, inbound, bounds, history>>

\* Mutant: a failed closing CALL is logged and the stop goes on.
StopFailsGoesOn(w) ==
    /\ At(w, "closing")
    /\ Fault
    /\ Goto(w, "finishing")
    /\ UNCHANGED <<version, store, queue, slots, inbound, history>>

\* A failed CALL ends the stop where it stands: what follows, the drain of the
\* deferred requests included, is skipped.
StopFails(w) ==
    /\ task[w].pc \in {"closing", "finishing", "available"}
    /\ Fault
    /\ Return(w)
    /\ UNCHANGED <<version, store, queue, slots, inbound, history>>

\* Mutant: only the availability slot is taken.
StopDrainForgetsReset(w) ==
    /\ At(w, "drain")
    /\ IF ActiveTx = {}
       THEN /\ task' = [task EXCEPT ![w].pc = "fire", ![w].takenAvail = pendingAvail]
            /\ pendingAvail' = NoAvail
       ELSE Return(w) /\ UNCHANGED pendingAvail
    /\ UNCHANGED <<version, store, queue, pendingReset, inbound, bounds, history>>

\* Mutant: the slots are read but not cleared.
StopDrainPeek(w) ==
    /\ At(w, "drain")
    /\ IF ActiveTx = {}
       THEN task' = [task EXCEPT ![w].pc = "fire", ![w].takenReset = pendingReset,
                                 ![w].takenAvail = pendingAvail]
       ELSE Return(w)
    /\ UNCHANGED <<version, store, queue, slots, inbound, bounds, history>>

\* Under the active_transactions read guard: take both slots if nothing is active.
StopDrain(w) ==
    /\ At(w, "drain")
    /\ IF ActiveTx = {}
       THEN /\ task' = [task EXCEPT ![w].pc = "fire", ![w].takenReset = pendingReset,
                                    ![w].takenAvail = pendingAvail]
            /\ pendingReset' = "none"
            /\ pendingAvail' = NoAvail
       ELSE Return(w) /\ UNCHANGED slots
    /\ UNCHANGED <<version, store, queue, inbound, bounds, history>>

\* Put what was taken on the command channel: availability first, then the reset.
StopFire(w) ==
    /\ At(w, "fire")
    /\ LET a == task[w].takenAvail
           k == task[w].takenReset
       IN /\ queue' = queue \o (IF a = NoAvail THEN <<>> ELSE ApplyCommands(a))
                            \o (IF k = "none" THEN <<>> ELSE <<ResetCommand(k, TRUE)>>)
          /\ fired' = IF k = "none" THEN fired ELSE fired + 1
    /\ Return(w)
    /\ UNCHANGED <<version, store, slots, inbound, bounds, closes, acked, scheduled,
                   late>>

-----------------------------------------------------------------------------
(* The command consumer *)

Consume(op) ==
    /\ At(Consumer, "idle")
    /\ queue # <<>>
    /\ Head(queue).op = op
    /\ queue' = Tail(queue)

ConsumeStart ==
    /\ Consume("start")
    /\ StartBegin(Consumer, Head(queue).connector, Head(queue).profile)
    /\ UNCHANGED <<version, store, slots, inbound, bounds, history>>

ConsumeStop ==
    /\ Consume("stop")
    /\ StopBegin(Consumer, Head(queue).tx)
    /\ UNCHANGED <<version, store, slots, inbound, bounds, history>>

\* perform_reset disarms the deferred reset first.
ConsumeReset ==
    /\ Consume("reset")
    /\ pendingReset' = "none"
    /\ task' = [task EXCEPT ![Consumer].pc = "snapshot", ![Consumer].reset = Head(queue).kind]
    /\ UNCHANGED <<version, store, pendingAvail, inbound, bounds, history>>

ResetSnapshot ==
    /\ At(Consumer, "snapshot")
    /\ task' = [task EXCEPT ![Consumer].pc = "stopping", ![Consumer].todo = ActiveTx]
    /\ UNCHANGED <<version, store, queue, slots, inbound, bounds, history>>

\* Mutant: an id stays in the snapshot when its stop begins.
ResetStopKeeps(t) ==
    /\ At(Consumer, "stopping")
    /\ t \in task[Consumer].todo
    /\ task' = [task EXCEPT ![Consumer].pc = "lookup", ![Consumer].tx = t]
    /\ UNCHANGED <<version, store, queue, slots, inbound, bounds, history>>

\* The ids of the snapshot are stopped one by one, in any order; errors are logged.
ResetStop(t) ==
    /\ At(Consumer, "stopping")
    /\ t \in task[Consumer].todo
    /\ task' = [task EXCEPT ![Consumer].pc = "lookup", ![Consumer].tx = t,
                            ![Consumer].todo = @ \ {t}]
    /\ UNCHANGED <<version, store, queue, slots, inbound, bounds, history>>

\* quiesce_background_tasks, then the boot sequence or the reconnection.
ResetQuiesce ==
    /\ At(Consumer, "stopping")
    /\ task[Consumer].todo = {}
    /\ samplers' = {}
    /\ Goto(Consumer, "rebooting")
    /\ UNCHANGED <<version, status, active, sessions, profile, nextTx, queue, slots,
                   inbound, bounds, history>>

\* The boot CALLs end, well or badly; either way the consumer goes on.
ResetDone ==
    /\ At(Consumer, "rebooting")
    /\ task' = [task EXCEPT ![Consumer] = Idle]
    /\ UNCHANGED <<version, store, queue, slots, inbound, bounds, history>>

\* apply_v201_availability sets the status whatever it was, then reports it.
ConsumeApply ==
    /\ Consume("apply")
    /\ status' = [status EXCEPT ![Head(queue).connector] = Head(queue).target]
    /\ Goto(Consumer, "applying")
    /\ UNCHANGED <<version, active, sessions, profile, samplers, nextTx, slots, inbound,
                   bounds, history>>

ApplyDone ==
    /\ At(Consumer, "applying")
    /\ Goto(Consumer, "idle")
    /\ UNCHANGED <<version, store, queue, slots, inbound, bounds, history>>

-----------------------------------------------------------------------------
(* Inbound CALL handlers: the receive loop runs one at a time *)

Accept ==
    /\ inbound.pc = "idle"
    /\ requests < MaxRequests
    /\ requests' = requests + 1
    /\ UNCHANGED faults

\* RemoteStartTransaction / RequestStartTransaction on a free connector; only
\* the 2.0.1 request may carry a TxProfile.
RemoteStart(c, p) ==
    /\ Accept
    /\ Begun
    /\ status[c] = "Available"
    /\ p => version = "V201"
    /\ queue' = Append(queue, StartCommand(c, p))
    /\ UNCHANGED <<version, store, slots, task, inbound, history>>

\* RemoteStopTransaction / RequestStopTransaction of a live id.
RemoteStop(t) ==
    /\ Accept
    /\ UNCHANGED starts
    /\ active[t] # None
    /\ queue' = Append(queue, StopCommand(t))
    /\ UNCHANGED <<version, store, slots, task, inbound, history>>

\* 1.6J Reset, or 2.0.1 Reset(Immediate): accepted and queued.
ResetNow(k) ==
    /\ Accept
    /\ UNCHANGED starts
    /\ version = "V201" => k = "Hard"
    /\ queue' = Append(queue, ResetCommand(k, FALSE))
    /\ UNCHANGED <<version, store, slots, task, inbound, history>>

\* 2.0.1 Reset(OnIdle): whether anything is active is read first ...
ResetOnIdle ==
    /\ version = "V201"
    /\ Accept
    /\ UNCHANGED starts
    /\ inbound' = [pc |-> "reset", busy |-> ActiveTx # {}]
    /\ UNCHANGED <<version, store, queue, slots, task, history>>

\* ... and the read guard is gone when the reset is queued or armed.
ResetOnIdleDecided ==
    /\ inbound.pc = "reset"
    /\ inbound' = [pc |-> "idle"]
    /\ IF inbound.busy
       THEN /\ pendingReset' = "Soft"
            /\ scheduled' = scheduled + 1
            /\ UNCHANGED queue
       ELSE /\ queue' = Append(queue, ResetCommand("Soft", FALSE))
            /\ UNCHANGED <<pendingReset, scheduled>>
    /\ UNCHANGED <<version, store, pendingAvail, task, bounds, closes, acked, fired,
                   late>>

\* 2.0.1 ChangeAvailability of one EVSE or (evse = None) of the station.
ChangeAvailability(a) ==
    /\ version = "V201"
    /\ Accept
    /\ UNCHANGED starts
    /\ inbound' = [pc |-> "avail", req |-> a,
                   busy |-> \E t \in ActiveTx : a.evse \in {None, active[t]}]
    /\ UNCHANGED <<version, store, queue, slots, task, history>>

ChangeAvailabilityDecided ==
    /\ inbound.pc = "avail"
    /\ inbound' = [pc |-> "idle"]
    /\ IF inbound.busy
       THEN pendingAvail' = inbound.req /\ UNCHANGED queue
       ELSE queue' = queue \o ApplyCommands(inbound.req) /\ UNCHANGED pendingAvail
    /\ UNCHANGED <<version, store, pendingReset, task, bounds, history>>

\* 2.0.1 SetChargingProfile(TxProfile) for t, on the EVSE t runs on: all that
\* is looked at is active_transactions, under a read guard that is dropped ...
SetTxProfile(t) ==
    /\ version = "V201"
    /\ Accept
    /\ UNCHANGED starts
    /\ active[t] # None
    /\ inbound' = [pc |-> "profile", evse |-> active[t], tx |-> t]
    /\ UNCHANGED <<version, store, queue, slots, task, history>>

\* ... before the profile replaces the EVSE's entry.
SetTxProfileDecided ==
    /\ inbound.pc = "profile"
    /\ inbound' = [pc |-> "idle"]
    /\ profile' = [profile EXCEPT ![inbound.evse] = inbound.tx]
    /\ late' = IF inbound.tx \in sessions /\ active[inbound.tx] = inbound.evse
               THEN late ELSE late \cup {inbound.tx}
    /\ UNCHANGED <<version, status, active, sessions, samplers, nextTx, queue, slots,
                   task, bounds, closes, acked, scheduled, fired>>

-----------------------------------------------------------------------------
StartStep(w) ==
    \/ StartPrepared(w) \/ StartOpened(w) \/ StartFails(w) \/ StartRegister(w)
    \/ StartEnergize(w) \/ StartSampler(w)

StopStep(w) ==
    \/ StopLookup(w) \/ StopDetach(w) \/ StopClosed(w) \/ StopFinishing(w)
    \/ StopUnregister(w) \/ StopRelease(w) \/ StopAvailable(w) \/ StopFails(w)
    \/ StopDrain(w) \/ StopFire(w)

ConsumerStep ==
    \/ ConsumeStart \/ ConsumeStop \/ ConsumeReset \/ ConsumeApply
    \/ ResetSnapshot \/ (\E t \in Tx : ResetStop(t)) \/ ResetQuiesce \/ ResetDone
    \/ ApplyDone

Request ==
    \/ \E c \in Connectors, p \in BOOLEAN : RemoteStart(c, p)
    \/ \E t \in Tx : RemoteStop(t)
    \/ \E k \in Kinds : ResetNow(k)
    \/ ResetOnIdle
    \/ \E a \in Avail : ChangeAvailability(a)
    \/ \E t \in Tx : SetTxProfile(t)

Decide == ResetOnIdleDecided \/ ChangeAvailabilityDecided \/ SetTxProfileDecided

Next ==
    \/ \E w \in AppTasks : \/ \E c \in Connectors : AppStart(w, c)
                           \/ \E t \in Tx : AppStop(w, t)
    \/ \E w \in Tasks : StartStep(w) \/ StopStep(w)
    \/ ConsumerStep
    \/ Request
    \/ Decide

Spec == Init /\ [][Next]_vars

\* Every task that can run does: CALLs return (StationCalls shows they time out)
\* and the runtime schedules every ready task.
FairSpec ==
    /\ Spec
    /\ \A w \in Tasks : WF_vars(StartStep(w) \/ StopStep(w))
    /\ WF_vars(ConsumerStep)
    /\ WF_vars(Decide)

-----------------------------------------------------------------------------
(* Properties *)

\* Type correctness of the station's shared state and of its tasks' locals.
TypeOK ==
    /\ version \in {"V16J", "V201"}
    /\ status \in [Connectors -> {"Available", "Charging", "Unavailable"}]
    /\ active \in [Tx -> Connectors \cup {None}]
    /\ sessions \subseteq Tx
    /\ profile \in [Connectors -> Tx \cup {None}]
    /\ samplers \subseteq Tx
    /\ nextTx \in 1..MaxTx + 1
    /\ queue \in Seq(Commands)
    /\ pendingReset \in Kinds \cup {"none"}
    /\ pendingAvail \in Avail \cup {NoAvail}
    /\ task \in [Tasks -> [pc : Pcs, connector : Connectors \cup {None},
                           tx : Tx \cup {None}, profile : BOOLEAN,
                           reset : Kinds \cup {"none"}, todo : SUBSET Tx,
                           takenReset : Kinds \cup {"none"},
                           takenAvail : Avail \cup {NoAvail}]]

\* The ids a start has opened but not yet put into active_transactions.
Opening == {task[w].tx : w \in {v \in Tasks : At(v, "register")}}

\* A 2.0.1 session record exists only for a transaction that is active or about
\* to be registered by the start that opened it, whatever stops, resets and
\* failed CALLs do (v201_sessions is "removed by stop_transaction in lockstep").
SessionIsLive == version = "V201" => sessions \subseteq ActiveTx \cup Opening

\* However many stops of one transaction race or are retried (application, remote
\* stop, reset), a 2.0.1 station sends TransactionEvent(Ended) at most once.
EndedAtMostOnce == version = "V201" => \A t \in Tx : closes[t] <= 1

\* A 1.6J transaction leaves active_transactions only once a StopTransaction for
\* it was answered: failed and racing stops never lose the stop of a paid session.
ClosedIsReported ==
    version = "V16J" => \A t \in Tx : closes[t] > 0 /\ active[t] = None => t \in acked

\* Whichever request installed it, and even when two transactions share the EVSE
\* it is keyed by, a TxProfile installed while its transaction runs is gone with
\* that transaction's session.  What can be left over is a SetChargingProfile
\* carried out for a transaction that a stop had already detached.
ProfileHasSession ==
    \A c \in Connectors : profile[c] # None => profile[c] \in sessions \cup late

\* A Scheduled reset is put on the command channel at most once: racing stops
\* never both take it, and it is gone from its slot once taken.
FiredOnce ==
    fired + (IF pendingReset = "none" THEN 0 ELSE 1)
          + Cardinality({w \in Tasks : task[w].takenReset # "none"}) <= scheduled

\* A reset answered Scheduled does not stay armed on a station that stays idle:
\* the handler arms the slot after it has let go of the guard under which it saw
\* a transaction, yet some stop still has its drain to do then.
ArmedResetHappens ==
    (pendingReset # "none" /\ ActiveTx = {}) ~> (pendingReset = "none" \/ ActiveTx # {})

\* Every command on the channel is carried out: the consumer never stays inside
\* a start, a stop, a reset or an apply, although the stops it runs put deferred
\* resets and availability changes on the channel it consumes.
CommandsFinish == (queue # <<>>) ~> (queue = <<>> /\ At(Consumer, "idle"))

(* What the comments of the source claim and the code does not keep *)

\* "an installed profile never outlives its transaction": SetChargingProfile sees
\* the id in active_transactions while the stop that already cleared the profile
\* and removed the session awaits its CALLs.
ProfileNeverOutlives == \A c \in Connectors : profile[c] # None => profile[c] \in sessions

\* "a concurrent start_transaction cannot slip a fresh session in ... and have the
\* reboot cut it off": a deferred reset never begins while a transaction is active.
DeferredResetSparesSessions ==
    [][ConsumeReset /\ Head(queue).deferred => ActiveTx = {}]_vars
=============================================================================
