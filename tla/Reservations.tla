---------------------------- MODULE Reservations ----------------------------
(***************************************************************************)
(* Reservations of the charge point (ocpp-cp/src/lib.rs, connector.rs):    *)
(* the ReserveNow and CancelReservation handlers, the auto-expiry timer    *)
(* tasks, and the start that consumes the reservations of its connector.   *)
(* They share the reservation map, the timer handles and the connector     *)
(* statuses; each of the three releases a reservation its own way.         *)
(*                                                                         *)
(* The connector map is behind a read-write lock.  start, stop, plug,      *)
(* fault and set_availability write a status under its write guard; the    *)
(* handlers and the timers do so under a read guard, which excludes those  *)
(* writers but not each other; apply_v201_availability holds no guard.     *)
(* WriteLock says when a writer may run.                                   *)
(*                                                                         *)
(* Left out: Connector::reserved_for, which no ChargePoint operation       *)
(* reads; transactions (here a connector is just Charging); stop().        *)
(***************************************************************************)
EXTENDS Integers, FiniteSets

CONSTANTS
    Version,       \* config.protocol_version: "V16J" or "V201"
    Connectors,
    Ids,           \* reservation ids the CSMS uses
    FreshIds,      \* TRUE: the CSMS never uses a reservation id twice
    None,          \* no connector, no id
    MaxArms,       \* bound: timer tasks spawned
    MaxEvents      \* bound: plug, fault, availability and start events

ASSUME ReservationsAssumption ==
    /\ Version \in {"V16J", "V201"}
    /\ FreshIds \in BOOLEAN
    /\ None \notin Connectors \cup Ids
    /\ MaxArms \in Nat
    /\ MaxEvents \in Nat

Arms == 1..MaxArms
Statuses == {"Available", "Reserved", "Preparing", "Charging", "Faulted", "Unavailable"}

VARIABLES
    status,        \* Connector::status
    plugged,       \* physical_state # Unplugged
    reservations,  \* reservationId -> connector, or None
    timers,        \* expiry_timers: reservationId -> timer task, or 0
    timer,         \* the timer tasks
    armed,         \* timer tasks spawned so far
    handler,       \* the inbound-CALL handler that is running
    start,         \* energize_connector of a running start
    events,        \* environment events so far
    used,          \* history: ids accepted
    endless,       \* history: was a reservation accepted without an expiry?
    reported       \* history: ReservationStatusUpdates sent per id (2 = more)

vars == <<status, plugged, reservations, timers, timer, armed, handler, start, events,
          used, endless, reported>>

NoHandler == [pc |-> "idle", id |-> None, connector |-> None, expiry |-> FALSE]
NoStart == [pc |-> "idle", connector |-> None, consumed |-> {}]
Unborn == [pc |-> "unborn", id |-> None, connector |-> None]

\* Is a connectors read guard held?  The 1.6J ReserveNow keeps its guard until
\* the timer is registered, the 2.0.1 one only while it reserves.
WriteLock ==
    /\ handler.pc \notin {"mark", "free"}
    /\ Version = "V16J" => handler.pc \notin {"record", "spawn", "hold"}
    /\ \A a \in Arms : timer[a].pc # "free"

Report(id) ==
    reported' = IF Version = "V201"
                THEN [reported EXCEPT ![id] = IF @ < 2 THEN @ + 1 ELSE @]
                ELSE reported

\* JoinHandle::abort of a set of timer tasks: a sleeping task never wakes; one that has
\* claimed its reservation stops if it is waiting for a lock and else goes on.
Abort(A) ==
    {[a \in Arms |-> IF (a \in A /\ timer[a].pc = "sleeping") \/ a \in S
                     THEN [timer[a] EXCEPT !.pc = "done"] ELSE timer[a]]
        : S \in SUBSET {a \in A : timer[a].pc \in {"check", "free"}}}

Init ==
    /\ status = [c \in Connectors |-> "Available"]
    /\ plugged = [c \in Connectors |-> FALSE]
    /\ reservations = [id \in Ids |-> None]
    /\ timers = [id \in Ids |-> 0]
    /\ timer = [a \in Arms |-> Unborn]
    /\ armed = 0
    /\ handler = NoHandler
    /\ start = NoStart
    /\ events = 0
    /\ used = {}
    /\ endless = FALSE
    /\ reported = [id \in Ids |-> 0]

-----------------------------------------------------------------------------
(* ReserveNow *)

\* An unexpired request for a free connector; a 2.0.1 expiry that does not parse
\* arms no timer.  1.6J goes straight to reserve() under the same guard.
ReserveNow(id, c, x) ==
    /\ handler.pc = "idle"
    /\ armed < MaxArms
    /\ FreshIds => id \notin used
    /\ Version = "V16J" => x
    /\ status[c] = "Available"
    /\ handler' = [pc |-> IF Version = "V16J" THEN "mark" ELSE "reserve",
                   id |-> id, connector |-> c, expiry |-> x]
    /\ used' = used \cup {id}
    /\ endless' = (endless \/ ~x)
    /\ UNCHANGED <<status, plugged, reservations, timers, timer, armed, start, events,
                   reported>>

\* 2.0.1: reserve() checks the status again; taken meanwhile means Rejected.
ReserveCheck ==
    /\ handler.pc = "reserve"
    /\ handler' = IF status[handler.connector] = "Available"
                  THEN [handler EXCEPT !.pc = "mark"] ELSE NoHandler
    /\ UNCHANGED <<status, plugged, reservations, timers, timer, armed, start, events, used,
                   endless, reported>>

ReserveMark ==
    /\ handler.pc = "mark"
    /\ status' = [status EXCEPT ![handler.connector] = "Reserved"]
    /\ handler' = [handler EXCEPT !.pc = "record"]
    /\ UNCHANGED <<plugged, reservations, timers, timer, armed, start, events, used,
                   endless, reported>>

ReserveRecord ==
    /\ handler.pc = "record"
    /\ reservations' = [reservations EXCEPT ![handler.id] = handler.connector]
    /\ handler' = IF handler.expiry THEN [handler EXCEPT !.pc = "spawn"] ELSE NoHandler
    /\ UNCHANGED <<status, plugged, timers, timer, armed, start, events, used, endless,
                   reported>>

\* Mutant: the handle is registered but no task sleeps behind it.
ReserveSpawnNothing ==
    /\ handler.pc = "spawn"
    /\ armed' = armed + 1
    /\ handler' = [handler EXCEPT !.pc = "hold"]
    /\ UNCHANGED <<status, plugged, reservations, timers, timer, start, events, used,
                   endless, reported>>

\* arm_reservation_expiry spawns the task ...
ReserveSpawn ==
    /\ handler.pc = "spawn"
    /\ armed' = armed + 1
    /\ timer' = [timer EXCEPT ![armed + 1] = [pc |-> "sleeping", id |-> handler.id,
                                              connector |-> handler.connector]]
    /\ handler' = [handler EXCEPT !.pc = "hold"]
    /\ UNCHANGED <<status, plugged, reservations, timers, start, events, used, endless,
                   reported>>

\* ... then prunes finished handles, stores its own and aborts the one it displaces.
ReserveHold ==
    /\ handler.pc = "hold"
    /\ LET live(h) == h # 0 /\ timer[h].pc # "done"
           old == {timers[handler.id]} \ {0}
       IN /\ timers' = [id \in Ids |-> IF id = handler.id THEN armed
                                       ELSE IF live(timers[id]) THEN timers[id] ELSE 0]
          /\ timer' \in Abort({h \in old : live(h)})
    /\ handler' = NoHandler
    /\ UNCHANGED <<status, plugged, reservations, armed, start, events, used, endless,
                   reported>>

-----------------------------------------------------------------------------
(* CancelReservation *)

CancelClaim(id) ==
    /\ handler.pc = "idle"
    /\ reservations[id] # None
    /\ reservations' = [reservations EXCEPT ![id] = None]
    /\ handler' = [NoHandler EXCEPT !.pc = "disarm", !.id = id, !.connector = reservations[id]]
    /\ UNCHANGED <<status, plugged, timers, timer, armed, start, events, used, endless,
                   reported>>

\* Mutant: the connector is not freed.
CancelDisarmOnly ==
    /\ handler.pc = "disarm"
    /\ timer' \in Abort({timers[handler.id]} \ {0})
    /\ timers' = [timers EXCEPT ![handler.id] = 0]
    /\ handler' = NoHandler
    /\ UNCHANGED <<status, plugged, reservations, armed, start, events, used, endless,
                   reported>>

CancelDisarm ==
    /\ handler.pc = "disarm"
    /\ timer' \in Abort({timers[handler.id]} \ {0})
    /\ timers' = [timers EXCEPT ![handler.id] = 0]
    /\ handler' = [handler EXCEPT !.pc = "check"]
    /\ UNCHANGED <<status, plugged, reservations, armed, start, events, used, endless,
                   reported>>

\* Mutant: whatever the connector does, it is freed.
CancelCheckBlind ==
    /\ handler.pc = "check"
    /\ handler' = [handler EXCEPT !.pc = "free"]
    /\ UNCHANGED <<reported, status, plugged, reservations, timers, timer, armed, start,
                   events, used, endless>>

\* Under a read guard: only a Reserved connector is freed.
CancelCheck ==
    /\ handler.pc = "check"
    /\ IF status[handler.connector] = "Reserved"
       THEN handler' = [handler EXCEPT !.pc = "free"] /\ UNCHANGED reported
       ELSE handler' = NoHandler /\ Report(handler.id)
    /\ UNCHANGED <<status, plugged, reservations, timers, timer, armed, start, events, used,
                   endless>>

CancelFree ==
    /\ handler.pc = "free"
    /\ status' = [status EXCEPT ![handler.connector] = "Available"]
    /\ handler' = NoHandler
    /\ Report(handler.id)
    /\ UNCHANGED <<plugged, reservations, timers, timer, armed, start, events, used,
                   endless>>

-----------------------------------------------------------------------------
(* The auto-expiry timer task *)

\* Mutant: the woken task does not look whether the reservation is still held.
TimerClaimBlind(a) ==
    /\ timer[a].pc = "sleeping"
    /\ reservations' = [reservations EXCEPT ![timer[a].id] = None]
    /\ timer' = [timer EXCEPT ![a].pc = "check"]
    /\ UNCHANGED <<status, plugged, timers, armed, handler, start, events, used, endless,
                   reported>>

\* It wakes and claims exactly its own (reservationId -> connector) entry.
TimerClaim(a) ==
    /\ timer[a].pc = "sleeping"
    /\ IF reservations[timer[a].id] = timer[a].connector
       THEN /\ reservations' = [reservations EXCEPT ![timer[a].id] = None]
            /\ timer' = [timer EXCEPT ![a].pc = "check"]
       ELSE /\ timer' = [timer EXCEPT ![a].pc = "done"]
            /\ UNCHANGED reservations
    /\ UNCHANGED <<status, plugged, timers, armed, handler, start, events, used, endless,
                   reported>>

TimerCheck(a) ==
    /\ timer[a].pc = "check"
    /\ IF status[timer[a].connector] = "Reserved"
       THEN timer' = [timer EXCEPT ![a].pc = "free"] /\ UNCHANGED reported
       ELSE timer' = [timer EXCEPT ![a].pc = "done"] /\ Report(timer[a].id)
    /\ UNCHANGED <<status, plugged, reservations, timers, armed, handler, start, events,
                   used, endless>>

TimerFree(a) ==
    /\ timer[a].pc = "free"
    /\ status' = [status EXCEPT ![timer[a].connector] = "Available"]
    /\ timer' = [timer EXCEPT ![a].pc = "done"]
    /\ Report(timer[a].id)
    /\ UNCHANGED <<plugged, reservations, timers, armed, handler, start, events, used,
                   endless>>

-----------------------------------------------------------------------------
(* energize_connector: a start consumes the reservations of its connector *)

Event == events < MaxEvents /\ events' = events + 1

StartConsume(c) ==
    /\ Event
    /\ start.pc = "idle"
    /\ start' = [pc |-> "disarm", connector |-> c,
                 consumed |-> {id \in Ids : reservations[id] = c}]
    /\ reservations' = [id \in Ids |-> IF reservations[id] = c THEN None ELSE reservations[id]]
    /\ UNCHANGED <<status, plugged, timers, timer, armed, handler, used, endless, reported>>

StartDisarm ==
    /\ start.pc = "disarm"
    /\ timer' \in Abort({timers[id] : id \in start.consumed} \ {0})
    /\ timers' = [id \in Ids |-> IF id \in start.consumed THEN 0 ELSE timers[id]]
    /\ start' = [start EXCEPT !.pc = "charge"]
    /\ UNCHANGED <<status, plugged, reservations, armed, handler, events, used, endless,
                   reported>>

StartCharge ==
    /\ start.pc = "charge"
    /\ WriteLock
    /\ status' = [status EXCEPT ![start.connector] = "Charging"]
    /\ start' = NoStart
    /\ UNCHANGED <<plugged, reservations, timers, timer, armed, handler, events, used,
                   endless, reported>>

-----------------------------------------------------------------------------
(* Everything else that writes a status *)

SetStatus(c, s) ==
    /\ status' = [status EXCEPT ![c] = s]
    /\ UNCHANGED <<reservations, timers, timer, armed, handler, start, used, endless,
                   reported>>

\* stop_transaction
StopTransaction(c) ==
    /\ WriteLock
    /\ status[c] = "Charging"
    /\ SetStatus(c, "Available")
    /\ UNCHANGED <<plugged, events>>

PlugIn(c) ==
    /\ Event
    /\ WriteLock
    /\ ~plugged[c]
    /\ plugged' = [plugged EXCEPT ![c] = TRUE]
    /\ SetStatus(c, IF status[c] \in {"Available", "Reserved"} THEN "Preparing" ELSE status[c])

PlugOut(c) ==
    /\ Event
    /\ WriteLock
    /\ plugged[c]
    /\ plugged' = [plugged EXCEPT ![c] = FALSE]
    /\ SetStatus(c, IF status[c] \in {"Preparing", "Charging"} THEN "Available" ELSE status[c])

SetFault(c) ==
    /\ Event
    /\ WriteLock
    /\ SetStatus(c, "Faulted")
    /\ UNCHANGED plugged

ClearFault(c) ==
    /\ Event
    /\ WriteLock
    /\ status[c] = "Faulted"
    /\ SetStatus(c, IF plugged[c] THEN "Preparing" ELSE "Available")
    /\ UNCHANGED plugged

\* set_availability under the write guard; apply_v201_availability under none.
SetAvailability(c, s) ==
    /\ Event
    /\ Version = "V16J" => WriteLock
    /\ SetStatus(c, s)
    /\ UNCHANGED plugged

-----------------------------------------------------------------------------
HandlerStep ==
    \/ ReserveCheck \/ ReserveMark \/ ReserveRecord \/ ReserveSpawn \/ ReserveHold
    \/ CancelDisarm \/ CancelCheck \/ CancelFree

TimerStep(a) == TimerClaim(a) \/ TimerCheck(a) \/ TimerFree(a)

StartStep == StartDisarm \/ StartCharge

Next ==
    \/ \E id \in Ids, c \in Connectors, x \in BOOLEAN : ReserveNow(id, c, x)
    \/ \E id \in Ids : CancelClaim(id)
    \/ HandlerStep
    \/ \E a \in Arms : TimerStep(a)
    \/ \E c \in Connectors : StartConsume(c)
    \/ StartStep
    \/ \E c \in Connectors :
          \/ StopTransaction(c) \/ PlugIn(c) \/ PlugOut(c) \/ SetFault(c) \/ ClearFault(c)
          \/ \E s \in {"Available", "Unavailable"} : SetAvailability(c, s)

Spec == Init /\ [][Next]_vars

\* Handlers and started tasks run on, and every expiry date comes.
FairSpec ==
    /\ Spec
    /\ WF_vars(HandlerStep)
    /\ WF_vars(StartStep)
    /\ \A a \in Arms : WF_vars(TimerStep(a))

-----------------------------------------------------------------------------
(* Properties *)

\* Type correctness of the shared maps, the timer tasks and the running handler.
TypeOK ==
    /\ status \in [Connectors -> Statuses]
    /\ plugged \in [Connectors -> BOOLEAN]
    /\ reservations \in [Ids -> Connectors \cup {None}]
    /\ timers \in [Ids -> Arms \cup {0}]
    /\ timer \in [Arms -> [pc : {"unborn", "sleeping", "check", "free", "done"},
                           id : Ids \cup {None}, connector : Connectors \cup {None}]]
    /\ handler \in [pc : {"idle", "reserve", "mark", "record", "spawn", "hold", "disarm",
                          "check", "free"},
                    id : Ids \cup {None}, connector : Connectors \cup {None},
                    expiry : BOOLEAN]
    /\ start \in [pc : {"idle", "disarm", "charge"}, connector : Connectors \cup {None},
                  consumed : SUBSET Ids]

\* A Reserved connector is held by a reservation in the map, or a handler, a timer
\* or a start is about to settle it: no race of ReserveNow, CancelReservation,
\* expiry and start strands a connector.  Needs reservation ids that are not reused.
ReservedIsHeld ==
    \A c \in Connectors : status[c] = "Reserved" =>
        \/ \E id \in Ids : reservations[id] = c
        \/ handler.connector = c /\ handler.pc \in {"record", "disarm", "check", "free"}
        \/ \E a \in Arms : timer[a].connector = c /\ timer[a].pc \in {"check", "free"}
        \/ start.connector = c

\* A reservation's end is reported once: a CancelReservation that reported Removed
\* can "never be double-reported" by the timer, nor the other way round.
ReportedOnce == \A id \in Ids : reported[id] <= 1

\* Cancelling or expiring a reservation never takes a charging connector away from
\* its transaction, although the status is checked before it is written.
ReleaseSparesCharging ==
    [][(CancelFree \/ \E a \in Arms : TimerFree(a)) =>
          \A c \in Connectors : status[c] = "Charging" => status'[c] = "Charging"]_vars

\* Reservations end: as long as every expiry could be parsed, a Reserved connector
\* is eventually freed or used, whatever cancel, expiry and start race.
ReservationEnds ==
    \A c \in Connectors :
        (status[c] = "Reserved" /\ ~endless) ~> (status[c] # "Reserved" \/ endless)
=============================================================================
