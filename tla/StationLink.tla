---------------------------- MODULE StationLink ----------------------------
(***************************************************************************)
(* The life of a charge point's link to the CSMS (ocpp-cp/src/lib.rs):     *)
(* start, stop, connect and disconnect called by the application, the      *)
(* Soft and Hard reset the command consumer carries out, the boot          *)
(* handshake with its retries, the heartbeat task, and the read loop of    *)
(* each WebSocket client, which reports its end to the shared              *)
(* is_connected flag.                                                      *)
(*                                                                         *)
(* An operation is a sequence of steps with an await between any two; the  *)
(* application and the consumer each run one at a time.  A CALL is         *)
(* answered, fails or times out.  The transactions a reset stops first,    *)
(* the samplers and the reservation timers are other modules' (Transactions*)
(* and Reservations).                                                      *)
(***************************************************************************)
EXTENDS Naturals, Sequences, FiniteSets

CONSTANTS
    MaxBootRetries,  \* config.max_boot_retries
    MaxOps           \* bound: application calls and resets

ASSUME LinkAssumption ==
    /\ MaxBootRetries \in Nat
    /\ MaxOps \in Nat

None == 0
Sessions == 1..MaxOps           \* an operation opens at most one session
Beats == 1..MaxOps              \* and starts at most one heartbeat
Tasks == {"app", "consumer"}
Statuses == {"Accepted", "Pending", "Rejected"}
Resets == {"Soft", "Hard"}

VARIABLES
    plan,          \* each task: the steps left of the operation it runs
    attempt,       \* each task: the BootNotifications of its boot_sequence
    consumer,      \* "unborn" before the first connect(), "alive", "gone" after stop()
    resets,        \* Reset commands on the channel
    opened,        \* each task: the session it opened last
    client,        \* the session of the client in use, or None
    session,       \* "unused", "open", "ending" (loop left, event to come), "over"
    isConnected,   \* is_connected
    registration,  \* registration_status
    connectors,    \* the status start() and stop() last set all connectors to
    beats,         \* the heartbeat tasks that run
    handle,        \* heartbeat_handle: the task whose handle is kept, or None
    ops,           \* application calls and resets so far
    welcome,       \* history: the boot begun last was answered Accepted or Pending
    early,         \* history: a heartbeat went out on a boot that was not
    clash          \* history: a call met a reset under way, or a session was opened
                   \* over a running heartbeat

link == <<opened, client, session, isConnected>>
beat == <<beats, handle>>
vars == <<plan, attempt, consumer, resets, link, registration, connectors, beat, ops,
          welcome, early, clash>>

---------------------------------------------------------------------------
(* The operations, step by step *)

\* establish_session
EstablishSession == <<"open", "install", "flag", "boot">>

Disconnect == <<"close", "down">>

Stop == <<"quiesce", "kill">> \o Disconnect \o <<"unavailable">>

\* Mutant: the heartbeat is left running over the reboot.
ResetUnquieted(kind) ==
    IF kind = "Soft" THEN <<"boot">> ELSE Disconnect \o EstablishSession

\* perform_reset after the stops: a Soft reset boots again on the session there is.
Reset(kind) ==
    <<"quiesce">> \o IF kind = "Soft" THEN <<"boot">> ELSE Disconnect \o EstablishSession

---------------------------------------------------------------------------
Init ==
    /\ plan = [t \in Tasks |-> <<>>]
    /\ attempt = [t \in Tasks |-> 0]
    /\ consumer = "unborn"
    /\ resets = <<>>
    /\ opened = [t \in Tasks |-> None]
    /\ client = None
    /\ session = [k \in Sessions |-> "unused"]
    /\ isConnected = FALSE
    /\ registration = "Rejected"
    /\ connectors = "Available"
    /\ beats = {}
    /\ handle = None
    /\ ops = 0
    /\ welcome = FALSE
    /\ early = FALSE
    /\ clash = FALSE

(* The application.  It makes one call at a time, at any time: also while the *)
(* consumer carries out a reset.                                              *)

\* Bound: the operations of a run, of which the last may clash with another.
Room == ops < MaxOps /\ ~clash

AppCall(steps) ==
    /\ plan["app"] = <<>>
    /\ Room
    /\ ops' = ops + 1
    /\ plan' = [plan EXCEPT !["app"] = steps]
    /\ attempt' = [attempt EXCEPT !["app"] = 0]
    /\ clash' = (\/ resets # <<>> \/ plan["consumer"] # <<>>
                 \/ steps \in {EstablishSession, <<>>} /\ beats # {})

\* connect() spawns the consumer once; after stop() the receiver is gone.
SpawnConsumer == consumer' = IF consumer = "unborn" THEN "alive" ELSE consumer

Start ==
    /\ AppCall(EstablishSession)
    /\ SpawnConsumer
    /\ connectors' = "Available"
    /\ UNCHANGED <<resets, link, registration, beat, welcome, early>>

Connect ==
    /\ AppCall(EstablishSession)
    /\ SpawnConsumer
    /\ UNCHANGED <<resets, link, registration, connectors, beat, welcome, early>>

StopOrDisconnect ==
    /\ \E steps \in {Stop, Disconnect} : AppCall(steps)
    /\ UNCHANGED <<consumer, resets, link, registration, connectors, beat, welcome, early>>

\* start_heartbeat: spawn, and keep the handle over whatever was kept.
StartHeartbeat ==
    /\ handle' = CHOOSE b \in Beats : b \notin beats
    /\ beats' = beats \cup {handle'}

\* handle_boot_notification_response: unlike the boot sequence it starts no
\* heartbeat on Pending.
HandleBootNotificationResponse(status) ==
    /\ AppCall(<<>>)
    /\ registration' = status
    /\ welcome' = (status # "Rejected")
    /\ IF status = "Accepted" THEN StartHeartbeat ELSE UNCHANGED beat
    /\ UNCHANGED <<consumer, resets, link, connectors, early>>

\* An accepted Reset, on the channel; it comes in over a session.
RequestReset(kind) ==
    /\ client # None /\ session[client] = "open"
    /\ consumer = "alive"
    /\ Room
    /\ ops' = ops + 1
    /\ clash' = (plan["app"] # <<>>)
    /\ resets' = Append(resets, kind)
    /\ UNCHANGED <<plan, attempt, consumer, link, registration, connectors, beat, welcome, early>>

TakeReset ==
    /\ consumer = "alive"
    /\ plan["consumer"] = <<>>
    /\ resets # <<>>
    /\ plan' = [plan EXCEPT !["consumer"] = Reset(Head(resets))]
    /\ attempt' = [attempt EXCEPT !["consumer"] = 0]
    /\ resets' = Tail(resets)
    /\ UNCHANGED <<consumer, link, registration, connectors, beat, ops, welcome, early, clash>>

---------------------------------------------------------------------------
(* The steps *)

Doing(t, step) == plan[t] # <<>> /\ Head(plan[t]) = step
Done(t) == plan' = [plan EXCEPT ![t] = Tail(@)]
Then(t, steps) == plan' = [plan EXCEPT ![t] = steps \o Tail(@)]
Fail(t) == plan' = [plan EXCEPT ![t] = <<>>]       \* the error is returned or logged

\* WebSocketClient::new: the read loop runs from here on, and may end at once.
Open(t) ==
    /\ Doing(t, "open")
    /\ \/ \E k \in Sessions :
            /\ session[k] = "unused"
            /\ \A j \in Sessions : j < k => session[j] # "unused"
            /\ session' = [session EXCEPT ![k] = "open"]
            /\ opened' = [opened EXCEPT ![t] = k]
            /\ Done(t)
       \/ Fail(t) /\ UNCHANGED <<opened, session>>
    /\ UNCHANGED <<attempt, consumer, resets, client, isConnected, registration, connectors,
                   beat, ops, welcome, early, clash>>

\* self.client = Some(client).  The client in use before is dropped, and with it
\* the sender its loop waits on.
Install(t) ==
    /\ Doing(t, "install")
    /\ client' = opened[t]
    /\ session' = IF client # None /\ session[client] = "open"
                  THEN [session EXCEPT ![client] = "ending"] ELSE session
    /\ Done(t)
    /\ UNCHANGED <<opened, attempt, consumer, resets, isConnected, registration, connectors, beat,
                   ops, welcome, early, clash>>

SetFlag(t) ==
    /\ \/ Doing(t, "flag") /\ isConnected' = TRUE
       \/ Doing(t, "down") /\ isConnected' = FALSE
    /\ Done(t)
    /\ UNCHANGED <<opened, attempt, consumer, resets, client, session, registration, connectors,
                   beat, ops, welcome, early, clash>>

\* disconnect: take the client and abort its loop, which then reports nothing.
Close(t) ==
    /\ Doing(t, "close")
    /\ client' = None
    /\ session' = IF client # None THEN [session EXCEPT ![client] = "over"] ELSE session
    /\ Done(t)
    /\ UNCHANGED <<opened, attempt, consumer, resets, isConnected, registration, connectors, beat,
                   ops, welcome, early, clash>>

\* A CALL is answered only over an open session.
Answerable == client # None /\ session[client] = "open"

\* Mutant: a rejected boot is not counted.
AttemptsForgotten(t) == attempt[t]

\* The number of BootNotifications sent, this one included.
Attempts(t) == attempt[t] + 1

\* A round of boot_sequence begins: the BootNotification goes out.
Boot(t) ==
    /\ Doing(t, "boot")
    /\ attempt' = [attempt EXCEPT ![t] = Attempts(t)]
    /\ welcome' = FALSE
    /\ Then(t, <<"answer">>)
    /\ UNCHANGED <<consumer, resets, link, registration, connectors, beat, ops, early, clash>>

\* Its answer.  An accepted boot announces the connectors before the heartbeat
\* starts, a pending one starts it at once, a rejected one is sent again after the
\* interval while attempts are left.
BootAnswered(t, status) ==
    /\ Doing(t, "answer")
    /\ Answerable
    /\ registration' = status
    /\ welcome' = (status # "Rejected")
    /\ CASE status = "Accepted" -> Then(t, <<"announce", "beat">>)
         [] status = "Pending" -> Then(t, <<"beat">>)
         [] status = "Rejected" /\ attempt[t] < MaxBootRetries + 1 -> Then(t, <<"boot">>)
         [] OTHER -> Fail(t)                             \* BootRejected
    /\ UNCHANGED <<attempt, consumer, resets, link, connectors, beat, ops, early, clash>>

\* No answer: the CALL times out, is rejected, or its session ends.
BootFails(t) ==
    /\ Doing(t, "answer")
    /\ Fail(t)
    /\ UNCHANGED <<attempt, consumer, resets, link, registration, connectors, beat, ops,
                   welcome, early, clash>>

\* announce_connectors_available: a StatusNotification per connector; the first
\* that fails ends the boot, accepted as it is, without a heartbeat.
Announce(t) ==
    /\ Doing(t, "announce")
    /\ (Answerable /\ Done(t)) \/ Fail(t)
    /\ UNCHANGED <<attempt, consumer, resets, link, registration, connectors, beat, ops, welcome,
                   early, clash>>

SpawnHeartbeat(t) ==
    /\ Doing(t, "beat")
    /\ StartHeartbeat
    /\ Done(t)
    /\ UNCHANGED <<attempt, consumer, resets, link, registration, connectors, ops, welcome, early,
                   clash>>

\* Mutant: the handle is dropped, which detaches the task.
QuiesceDetaches(t) ==
    /\ Doing(t, "quiesce")
    /\ handle' = None
    /\ Done(t)
    /\ UNCHANGED <<attempt, consumer, resets, link, registration, connectors, beats, ops,
                   welcome, early, clash>>

\* quiesce_background_tasks
Quiesce(t) ==
    /\ Doing(t, "quiesce")
    /\ beats' = beats \ {handle}
    /\ handle' = None
    /\ Done(t)
    /\ UNCHANGED <<attempt, consumer, resets, link, registration, connectors, ops, welcome, early,
                   clash>>

\* stop() aborts the consumer, and with it whatever reset it runs.
KillConsumer ==
    /\ Doing("app", "kill")
    /\ consumer' = "gone"
    /\ plan' = [t \in Tasks |-> IF t = "app" THEN Tail(plan[t]) ELSE <<>>]
    /\ resets' = <<>>
    /\ UNCHANGED <<attempt, link, registration, connectors, beat, ops, welcome, early, clash>>

MakeUnavailable ==
    /\ Doing("app", "unavailable")
    /\ connectors' = "Unavailable"
    /\ Done("app")
    /\ UNCHANGED <<attempt, consumer, resets, link, registration, beat, ops, welcome, early, clash>>

---------------------------------------------------------------------------
(* The read loop of a client, and the heartbeat task *)

\* The socket ends, or a frame cannot be written.
LinkLost(k) ==
    /\ session[k] = "open"
    /\ session' = [session EXCEPT ![k] = "ending"]
    /\ UNCHANGED <<opened, plan, attempt, consumer, resets, client, isConnected, registration,
                   connectors, beat, ops, welcome, early, clash>>

\* CpHandler::handle_event(Disconnected), whichever client it is of.
ReportDisconnected(k) ==
    /\ session[k] = "ending"
    /\ session' = [session EXCEPT ![k] = "over"]
    /\ isConnected' = FALSE
    /\ UNCHANGED <<opened, plan, attempt, consumer, resets, client, registration, connectors, beat,
                   ops, welcome, early, clash>>

\* A tick: skipped offline; a frame that cannot be sent is logged.
Tick(b) ==
    /\ b \in beats
    /\ isConnected /\ Answerable
    /\ early' = (early \/ ~welcome)
    /\ UNCHANGED <<plan, attempt, consumer, resets, link, registration, connectors, beat, ops,
                   welcome, clash>>

TaskStep(t) ==
    \/ Open(t)
    \/ Install(t)
    \/ SetFlag(t)
    \/ Close(t)
    \/ Boot(t)
    \/ \E status \in Statuses : BootAnswered(t, status)
    \/ BootFails(t)
    \/ Announce(t)
    \/ SpawnHeartbeat(t)
    \/ Quiesce(t)

Next ==
    \/ Start
    \/ Connect
    \/ StopOrDisconnect
    \/ \E status \in Statuses : HandleBootNotificationResponse(status)
    \/ \E kind \in Resets : RequestReset(kind)
    \/ TakeReset
    \/ \E t \in Tasks : TaskStep(t)
    \/ KillConsumer
    \/ MakeUnavailable
    \/ \E k \in Sessions : LinkLost(k) \/ ReportDisconnected(k)
    \/ \E b \in Beats : Tick(b)

Spec == Init /\ [][Next]_vars

\* tokio resumes a task whose await is over; a CALL is over at the latest when its
\* timer is.
FairSpec ==
    /\ Spec
    /\ \A t \in Tasks : WF_vars(TaskStep(t))
    /\ WF_vars(TakeReset)
    /\ WF_vars(KillConsumer)
    /\ WF_vars(MakeUnavailable)

---------------------------------------------------------------------------
(* Properties *)

TypeOK ==
    /\ \A t \in Tasks : attempt[t] \in 0..(MaxBootRetries + 1)
    /\ consumer \in {"unborn", "alive", "gone"}
    /\ \A i \in DOMAIN resets : resets[i] \in Resets
    /\ opened \in [Tasks -> Sessions \cup {None}]
    /\ client \in Sessions \cup {None}
    /\ session \in [Sessions -> {"unused", "open", "ending", "over"}]
    /\ isConnected \in BOOLEAN
    /\ registration \in Statuses
    /\ connectors \in {"Available", "Unavailable"}
    /\ beats \subseteq Beats
    /\ handle \in Beats \cup {None}

\* However resets, lost links, failed CALLs and restarts follow each other, at most
\* one heartbeat task runs and it is the one whose handle is kept, so the next
\* quiesce ends it (lib.rs 8818-8835: a dropped handle only detaches its task).  The
\* code keeps this as long as no call of the application meets a reset under way
\* and no session is opened over a running heartbeat.
OneHeartbeat == clash \/ beats \subseteq {handle}

\* In the same circumstances no heartbeat goes out between the beginning of a boot
\* and the answer that lets the station in: the old one does not "race the fresh
\* boot" (lib.rs 8888-8891).
HeartbeatsAfterBoot == clash \/ ~early

\* start, stop and both resets come to an end, also against a CSMS that rejects
\* every boot and with the link lost at any step (boot_sequence is bounded by
\* max_boot_retries).
OperationsFinish == \A t \in Tasks : plan[t] # <<>> ~> plan[t] = <<>>

============================================================================
