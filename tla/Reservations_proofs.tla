------------------------ MODULE Reservations_proofs ------------------------
(***************************************************************************)
(* Proofs about Reservations, for any connectors, ids and bounds.          *)
(*                                                                         *)
(* BInv needs nothing of the ids: what each task works on, which timer     *)
(* tasks exist, and that a connector about to be freed is not charging.    *)
(* ClaimInv, for ids that are not reused, says who may settle a            *)
(* reservation: nobody yet, the map, or exactly one of the handler, its    *)
(* timer and a start.                                                      *)
(***************************************************************************)
EXTENDS Reservations, TLAPS

TimerPcs == {"unborn", "sleeping", "check", "free", "done"}
HandlerPcs == {"idle", "reserve", "mark", "record", "spawn", "hold", "disarm", "check", "free"}
TimerRec == [pc : TimerPcs, id : Ids \cup {None}, connector : Connectors \cup {None}]
HandlerRec == [pc : HandlerPcs, id : Ids \cup {None}, connector : Connectors \cup {None},
               expiry : BOOLEAN]
StartRec == [pc : {"idle", "disarm", "charge"}, connector : Connectors \cup {None},
             consumed : SUBSET Ids]

(* The invariant without an assumption on the ids *)

StatusType == status \in [Connectors -> Statuses]
PlugType == plugged \in [Connectors -> BOOLEAN]
MapTypes == /\ reservations \in [Ids -> Connectors \cup {None}]
            /\ timers \in [Ids -> Arms \cup {0}]
TimerType == timer \in [Arms -> TimerRec]
HandlerType == handler \in HandlerRec
StartType == start \in StartRec
HistoryTypes == used \subseteq Ids /\ reported \in [Ids -> Nat]

\* Timer tasks are numbered in the order they are spawned, and there is room for
\* the one the running ReserveNow may spawn.
ArmInv ==
    /\ armed \in Nat /\ armed <= MaxArms
    /\ handler.pc \in {"reserve", "mark", "record", "spawn"} => armed < MaxArms
    /\ handler.pc = "hold" => armed >= 1
    /\ \A a \in Arms : timer[a].pc = "unborn" <=> a > armed

\* What a task works on is a reservation and a connector.
HandlerInv ==
    handler.pc # "idle" => /\ handler.id \in Ids /\ handler.id \in used
                           /\ handler.connector \in Connectors
UsedInv == \A id \in Ids : reservations[id] # None => id \in used
TimerInv ==
    \A a \in Arms : timer[a].pc # "unborn" => timer[a].id \in Ids /\ timer[a].connector \in Connectors
StartInv ==
    /\ start.pc # "idle" => start.connector \in Connectors
    /\ start.pc = "idle" => start.consumed = {} /\ start.connector = None

\* Between the check and the write of a release its read guard keeps a start out.
FreeInv ==
    /\ handler.pc = "free" => status[handler.connector] # "Charging"
    /\ \A a \in Arms : timer[a].pc = "free" => status[timer[a].connector] # "Charging"

BInv ==
    /\ StatusType /\ PlugType /\ MapTypes /\ TimerType /\ HandlerType /\ StartType
    /\ HistoryTypes /\ ArmInv /\ HandlerInv /\ UsedInv /\ TimerInv /\ StartInv /\ FreeInv

(* The invariant with ids that are not reused *)

HandlerHas(id) == handler.pc \in {"disarm", "check", "free"} /\ handler.id = id
TimerHas(a, id) == timer[a].pc \in {"check", "free"} /\ timer[a].id = id
StartHas(id) == id \in start.consumed
Born(a) == timer[a].pc # "unborn"

\* A reservation that is not yet in the map has left no trace.
FreshInv ==
    \A id \in Ids :
        (\/ id \notin used
         \/ handler.pc \in {"reserve", "mark", "record"} /\ handler.id = id) =>
            reservations[id] = None /\ ~StartHas(id) /\ reported[id] = 0

\* A timer task has its reservation to itself, from the spawn on.
TimerOfInv ==
    /\ \A a \in Arms : Born(a) => timer[a].id \in used
    /\ \A a, b \in Arms : Born(a) /\ Born(b) /\ timer[a].id = timer[b].id => a = b
    /\ handler.pc \in {"reserve", "mark", "record", "spawn"} =>
          \A a \in Arms : Born(a) => timer[a].id # handler.id
    /\ handler.pc = "hold" => armed \in Arms /\ timer[armed].id = handler.id

\* A kept handle is that of the reservation's own timer task.
HandleInv ==
    /\ \A id \in Ids : timers[id] # 0 => Born(timers[id]) /\ timer[timers[id]].id = id
    /\ handler.pc \in {"reserve", "mark", "record", "spawn", "hold"} => timers[handler.id] = 0

\* The map, the handler, a timer and a start exclude each other, and what one of
\* them holds has not been reported.
HeldInv ==
    \A id \in Ids : reservations[id] # None =>
        /\ ~HandlerHas(id) /\ ~StartHas(id) /\ \A a \in Arms : ~TimerHas(a, id)
        /\ reported[id] = 0
HandlerClaim ==
    \A id \in Ids : HandlerHas(id) =>
        ~StartHas(id) /\ (\A a \in Arms : ~TimerHas(a, id)) /\ reported[id] = 0
TimerClaims ==
    \A id \in Ids, a \in Arms : TimerHas(a, id) => ~StartHas(id) /\ reported[id] = 0

ClaimInv ==
    /\ FreshInv /\ TimerOfInv /\ HandleInv /\ HeldInv /\ HandlerClaim /\ TimerClaims
    /\ ReportedOnce /\ ReservedIsHeld

-----------------------------------------------------------------------------
(* What the operators do *)

\* The handler goes on with the reservation it works on.
HandlerGoes(pc) ==
    /\ HandlerType'
    /\ handler'.pc = pc /\ handler'.id = handler.id /\ handler'.connector = handler.connector

\* The handler has returned.
HandlerReturns == HandlerType' /\ handler'.pc = "idle" /\ handler'.id = None

\* Timer task a goes on; the others are where they were.
TimerGoes(a, pc) ==
    /\ TimerType'
    /\ timer'[a].pc = pc /\ timer'[a].id = timer[a].id /\ timer'[a].connector = timer[a].connector
    /\ \A b \in Arms : b # a => timer'[b] = timer[b]

\* Some timer tasks of A end.
TimersEnd(A) ==
    /\ TimerType'
    /\ \A a \in Arms : /\ timer'[a].id = timer[a].id /\ timer'[a].connector = timer[a].connector
                       /\ \/ timer'[a].pc = timer[a].pc
                          \/ a \in A /\ Born(a) /\ timer'[a].pc = "done"

\* The records of an idle handler, of no start and of a timer not yet spawned.
LEMMA Records ==
    /\ NoHandler \in HandlerRec /\ NoHandler.pc = "idle" /\ NoHandler.id = None
    /\ NoStart \in StartRec /\ NoStart.pc = "idle" /\ NoStart.consumed = {}
       /\ NoStart.connector = None
    /\ Unborn \in TimerRec /\ Unborn.pc = "unborn"
  BY DEF NoHandler, NoStart, Unborn, HandlerRec, HandlerPcs, StartRec, TimerRec, TimerPcs

\* A handler that moves to its next await keeps the rest of its record.
LEMMA Goes ==
    ASSUME HandlerType, NEW pc \in HandlerPcs, handler' = [handler EXCEPT !.pc = pc]
    PROVE  HandlerGoes(pc)
  BY DEF HandlerType, HandlerRec, HandlerGoes

\* A handler that returns leaves nothing behind.
LEMMA Returns == ASSUME handler' = NoHandler PROVE HandlerReturns
  BY Records DEF HandlerReturns, HandlerType

\* A timer task that moves keeps its reservation and its connector.
LEMMA Ticks ==
    ASSUME TimerType, NEW a \in Arms, NEW pc \in TimerPcs,
           timer' = [timer EXCEPT ![a].pc = pc]
    PROVE  TimerGoes(a, pc)
  BY DEF TimerType, TimerRec, TimerGoes

\* `abort` ends every timer of a set that has not passed its last await; one that
\* has may still run to its end.
LEMMA Aborts == ASSUME TimerType, NEW A, timer' \in Abort(A) PROVE TimersEnd(A)
  <1>1. PICK S \in SUBSET {a \in A : timer[a].pc \in {"check", "free"}} :
          timer' = [a \in Arms |-> IF (a \in A /\ timer[a].pc = "sleeping") \/ a \in S
                                   THEN [timer[a] EXCEPT !.pc = "done"] ELSE timer[a]]
    BY DEF Abort
  <1>2. ASSUME NEW a \in Arms
        PROVE  /\ [timer[a] EXCEPT !.pc = "done"] \in TimerRec
               /\ [timer[a] EXCEPT !.pc = "done"].pc = "done"
               /\ [timer[a] EXCEPT !.pc = "done"].id = timer[a].id
               /\ [timer[a] EXCEPT !.pc = "done"].connector = timer[a].connector
    BY DEF TimerType, TimerRec, TimerPcs
  <1>3. TimerType'
    BY <1>1, <1>2 DEF TimerType
  <1>4. QED
    BY <1>1, <1>2, <1>3 DEF TimersEnd, Born

\* One ReservationStatusUpdate counts for one id.
LEMMA Reports ==
    ASSUME HistoryTypes, NEW id \in Ids, Report(id)
    PROVE  /\ reported' \in [Ids -> Nat]
           /\ \A i \in Ids : i # id => reported'[i] = reported[i]
           /\ reported[id] = 0 => reported'[id] <= 1
  BY DEF Report, HistoryTypes

\* A station that starts holds no reservation.
LEMMA InitB == Init => BInv
  <1> SUFFICES ASSUME Init PROVE BInv
    OBVIOUS
  <1>1. StatusType /\ PlugType /\ MapTypes
    BY DEF Init, StatusType, PlugType, MapTypes, Statuses
  <1>2. TimerType /\ HandlerType /\ StartType /\ TimerInv /\ HandlerInv /\ StartInv /\ FreeInv
    BY Records DEF Init, TimerType, HandlerType, StartType, TimerInv, HandlerInv, StartInv, FreeInv
  <1>3. HistoryTypes /\ UsedInv
    BY DEF Init, HistoryTypes, UsedInv
  <1>4. ArmInv
    BY Records, ReservationsAssumption DEF Init, ArmInv, Arms
  <1>5. QED
    BY <1>1, <1>2, <1>3, <1>4 DEF BInv

-----------------------------------------------------------------------------
\* Every step keeps BInv.
LEMMA StepB == BInv /\ [Next]_vars => BInv'
  <1> SUFFICES ASSUME BInv, [Next]_vars PROVE BInv'
    OBVIOUS
  <1>1. ASSUME NEW id \in Ids, NEW c \in Connectors, NEW x \in BOOLEAN, ReserveNow(id, c, x) PROVE BInv'
    <2>1. UNCHANGED <<status, plugged, reservations, timers, timer, armed, start, reported>>
      BY <1>1 DEF ReserveNow
    <2>2. used' = used \cup {id} /\ armed < MaxArms
      BY <1>1 DEF ReserveNow
    <2>3. /\ HandlerType'
          /\ handler'.pc \in {"mark", "reserve"} /\ handler'.id = id /\ handler'.connector = c
      BY <1>1 DEF ReserveNow, HandlerType, HandlerRec, HandlerPcs
    <2>4. StatusType' /\ MapTypes' /\ TimerType' /\ StartType' /\ TimerInv' /\ StartInv'
      BY <2>1 DEF BInv, StatusType, MapTypes, TimerType, StartType, TimerInv, StartInv
    <2>5. PlugType'
      BY <2>1 DEF BInv, PlugType
    <2>6. HandlerType'
      BY <2>3
    <2>7. HistoryTypes'
      BY <2>1, <2>2 DEF BInv, HistoryTypes
    <2>8. ArmInv'
      BY <2>1, <2>2, <2>3 DEF BInv, ArmInv
    <2>9. HandlerInv'
      BY <2>2, <2>3 DEF BInv, HandlerInv
    <2>10. UsedInv'
      BY <2>1, <2>2 DEF BInv, UsedInv
    <2>11. FreeInv'
      BY <2>1, <2>3 DEF BInv, FreeInv
    <2>12. QED
      BY <2>4, <2>5, <2>6, <2>7, <2>8, <2>9, <2>10, <2>11 DEF BInv
  <1>2. ASSUME ReserveCheck PROVE BInv'
    <2>1. UNCHANGED <<status, plugged, reservations, timers, timer, armed, start, used, reported>>
      BY <1>2 DEF ReserveCheck
    <2>2. handler.pc = "reserve"
      BY <1>2 DEF ReserveCheck
    <2>3. HandlerGoes("mark") \/ HandlerReturns
      BY <1>2, Goes, Returns DEF BInv, ReserveCheck, HandlerPcs
    <2>4. /\ StatusType' /\ MapTypes' /\ TimerType' /\ StartType'
          /\ HistoryTypes' /\ UsedInv' /\ TimerInv' /\ StartInv'
      BY <2>1 DEF BInv, StatusType, MapTypes, TimerType, StartType, HistoryTypes, UsedInv, TimerInv,
         StartInv
    <2>5. PlugType'
      BY <2>1 DEF BInv, PlugType
    <2>6. HandlerType'
      BY <2>2, <2>3 DEF HandlerGoes, HandlerReturns
    <2>7. ArmInv'
      BY <2>1, <2>2, <2>3 DEF BInv, ArmInv, HandlerGoes, HandlerReturns
    <2>8. HandlerInv'
      BY <2>1, <2>2, <2>3 DEF BInv, HandlerInv, HandlerGoes, HandlerReturns
    <2>9. FreeInv'
      BY <2>1, <2>2, <2>3 DEF BInv, FreeInv, HandlerGoes, HandlerReturns
    <2>10. QED
      BY <2>4, <2>5, <2>6, <2>7, <2>8, <2>9 DEF BInv
  <1>3. ASSUME ReserveMark PROVE BInv'
    <2>1. UNCHANGED <<plugged, reservations, timers, timer, armed, start, used, reported>>
      BY <1>3 DEF ReserveMark
    <2>2. /\ handler.pc = "mark"
          /\ status' = [status EXCEPT ![handler.connector] = "Reserved"]
      BY <1>3 DEF ReserveMark
    <2>3. HandlerGoes("record")
      BY <1>3, Goes DEF BInv, ReserveMark, HandlerPcs
    <2>4. /\ MapTypes' /\ TimerType' /\ StartType' /\ HistoryTypes'
          /\ UsedInv' /\ TimerInv' /\ StartInv'
      BY <2>1 DEF BInv, MapTypes, TimerType, StartType, HistoryTypes, UsedInv, TimerInv, StartInv
    <2>5. PlugType'
      BY <2>1 DEF BInv, PlugType
    <2>6. StatusType'
      BY <2>2 DEF BInv, StatusType, Statuses
    <2>7. HandlerType'
      BY <2>2, <2>3 DEF HandlerGoes
    <2>8. ArmInv'
      BY <2>1, <2>2, <2>3 DEF BInv, ArmInv, HandlerGoes
    <2>9. HandlerInv'
      BY <2>1, <2>2, <2>3 DEF BInv, HandlerInv, HandlerGoes
    <2>10. FreeInv'
      BY <2>1, <2>2, <2>3 DEF BInv, FreeInv, HandlerGoes, HandlerInv, TimerInv, StatusType
    <2>11. QED
      BY <2>4, <2>5, <2>6, <2>7, <2>8, <2>9, <2>10 DEF BInv
  <1>4. ASSUME ReserveRecord PROVE BInv'
    <2>1. UNCHANGED <<status, plugged, timers, timer, armed, start, used, reported>>
      BY <1>4 DEF ReserveRecord
    <2>2. /\ handler.pc = "record"
          /\ reservations' = [reservations EXCEPT ![handler.id] = handler.connector]
      BY <1>4 DEF ReserveRecord
    <2>3. HandlerGoes("spawn") \/ HandlerReturns
      BY <1>4, Goes, Returns DEF BInv, ReserveRecord, HandlerPcs
    <2>4. StatusType' /\ TimerType' /\ StartType' /\ HistoryTypes' /\ TimerInv' /\ StartInv'
      BY <2>1 DEF BInv, StatusType, TimerType, StartType, HistoryTypes, TimerInv, StartInv
    <2>5. PlugType'
      BY <2>1 DEF BInv, PlugType
    <2>6. MapTypes'
      BY <2>1, <2>2 DEF BInv, MapTypes, HandlerInv
    <2>7. HandlerType'
      BY <2>2, <2>3 DEF HandlerGoes, HandlerReturns
    <2>8. ArmInv'
      BY <2>1, <2>2, <2>3 DEF BInv, ArmInv, HandlerGoes, HandlerReturns
    <2>9. HandlerInv'
      BY <2>1, <2>2, <2>3 DEF BInv, HandlerInv, HandlerGoes, HandlerReturns
    <2>10. UsedInv'
      BY <2>1, <2>2 DEF BInv, UsedInv, MapTypes, HandlerInv
    <2>11. FreeInv'
      BY <2>1, <2>2, <2>3 DEF BInv, FreeInv, HandlerGoes, HandlerReturns
    <2>12. QED
      BY <2>4, <2>5, <2>6, <2>7, <2>8, <2>9, <2>10, <2>11 DEF BInv
  <1>5. ASSUME ReserveSpawn PROVE BInv'
    <2>1. UNCHANGED <<status, plugged, reservations, timers, start, used, reported>>
      BY <1>5 DEF ReserveSpawn
    <2>2. /\ handler.pc = "spawn" /\ handler.id \in Ids /\ handler.connector \in Connectors
          /\ armed \in Nat /\ armed' = armed + 1 /\ armed' \in Arms
      BY <1>5, ReservationsAssumption DEF BInv, ReserveSpawn, ArmInv, HandlerInv, Arms
    <2>3. HandlerGoes("hold")
      BY <1>5, Goes DEF BInv, ReserveSpawn, HandlerPcs
    <2>4. PICK r \in TimerRec : /\ r.pc = "sleeping" /\ r.id = handler.id /\ r.connector = handler.connector
                                /\ timer' = [timer EXCEPT ![armed'] = r]
      BY <1>5, <2>2 DEF ReserveSpawn, TimerRec, TimerPcs
    <2>5. /\ TimerType' /\ timer'[armed'] = r
          /\ \A b \in Arms : b # armed' => timer'[b] = timer[b]
      BY <2>2, <2>4 DEF BInv, TimerType
    <2>6. StatusType' /\ MapTypes' /\ StartType' /\ HistoryTypes' /\ UsedInv' /\ StartInv'
      BY <2>1 DEF BInv, StatusType, MapTypes, StartType, HistoryTypes, UsedInv, StartInv
    <2>7. PlugType'
      BY <2>1 DEF BInv, PlugType
    <2>8. TimerType'
      BY <2>5
    <2>9. HandlerType'
      BY <2>3 DEF HandlerGoes
    <2>10. ArmInv'
      BY <2>2, <2>3, <2>4, <2>5 DEF BInv, ArmInv, HandlerGoes, Arms
    <2>11. HandlerInv'
      BY <2>1, <2>2, <2>3 DEF BInv, HandlerInv, HandlerGoes
    <2>12. TimerInv'
      BY <2>2, <2>4, <2>5 DEF BInv, TimerInv
    <2>13. FreeInv'
      BY <2>1, <2>3, <2>4, <2>5 DEF BInv, FreeInv, HandlerGoes
    <2>14. QED
      BY <2>6, <2>7, <2>8, <2>9, <2>10, <2>11, <2>12, <2>13 DEF BInv
  <1>6. ASSUME ReserveHold PROVE BInv'
    <2>1. UNCHANGED <<status, plugged, reservations, armed, start, used, reported>>
      BY <1>6 DEF ReserveHold
    <2>2. handler.pc = "hold" /\ armed \in Arms
      BY <1>6 DEF BInv, ReserveHold, ArmInv, Arms
    <2>3. HandlerReturns
      BY <1>6, Returns DEF ReserveHold
    <2>4. \E A : TimersEnd(A)
      BY <1>6, Aborts DEF BInv, ReserveHold
    <2>5. StatusType' /\ StartType' /\ HistoryTypes' /\ UsedInv' /\ StartInv'
      BY <2>1 DEF BInv, StatusType, StartType, HistoryTypes, UsedInv, StartInv
    <2>6. PlugType'
      BY <2>1 DEF BInv, PlugType
    <2>7. MapTypes'
      <3>1. \A id \in Ids : timers'[id] \in Arms \cup {0}
        BY <1>6, <2>2 DEF BInv, ReserveHold, MapTypes
      <3>2. timers' \in [Ids -> Arms \cup {0}]
        BY <1>6, <3>1 DEF ReserveHold
      <3>3. QED
        BY <2>1, <3>2 DEF BInv, MapTypes
    <2>8. TimerType'
      BY <2>2, <2>3, <2>4 DEF TimersEnd, HandlerReturns
    <2>9. HandlerType'
      BY <2>3 DEF HandlerReturns
    <2>10. ArmInv'
      BY <2>1, <2>2, <2>3, <2>4 DEF BInv, ArmInv, Born, TimersEnd, HandlerReturns
    <2>11. HandlerInv'
      BY <2>3 DEF BInv, HandlerInv, HandlerReturns
    <2>12. TimerInv'
      BY <2>1, <2>2, <2>3, <2>4 DEF BInv, TimerInv, Born, TimersEnd, HandlerReturns
    <2>13. FreeInv'
      BY <2>1, <2>2, <2>3, <2>4 DEF BInv, FreeInv, Born, TimersEnd, HandlerReturns
    <2>14. QED
      BY <2>5, <2>6, <2>7, <2>8, <2>9, <2>10, <2>11, <2>12, <2>13 DEF BInv
  <1>7. ASSUME NEW id \in Ids, CancelClaim(id) PROVE BInv'
    <2>1. UNCHANGED <<status, plugged, timers, timer, armed, start, used, reported>>
      BY <1>7 DEF CancelClaim
    <2>2. /\ reservations' = [reservations EXCEPT ![id] = None]
          /\ reservations[id] \in Connectors
      BY <1>7 DEF BInv, CancelClaim, MapTypes
    <2>3. /\ HandlerType' /\ handler'.pc = "disarm" /\ handler'.id = id
          /\ handler'.connector = reservations[id]
      BY <1>7, <2>2, Records DEF CancelClaim, HandlerType, HandlerRec, HandlerPcs
    <2>4. StatusType' /\ TimerType' /\ StartType' /\ HistoryTypes' /\ TimerInv' /\ StartInv'
      BY <2>1 DEF BInv, StatusType, TimerType, StartType, HistoryTypes, TimerInv, StartInv
    <2>5. PlugType'
      BY <2>1 DEF BInv, PlugType
    <2>6. MapTypes'
      BY <2>1, <2>2 DEF BInv, MapTypes
    <2>7. HandlerType'
      BY <2>3
    <2>8. ArmInv'
      BY <2>1, <2>3 DEF BInv, ArmInv
    <2>9. HandlerInv'
      BY <2>1, <2>2, <2>3, ReservationsAssumption DEF BInv, HandlerInv, UsedInv
    <2>10. UsedInv'
      BY <2>1, <2>2 DEF BInv, UsedInv, MapTypes
    <2>11. FreeInv'
      BY <2>1, <2>3 DEF BInv, FreeInv
    <2>12. QED
      BY <2>4, <2>5, <2>6, <2>7, <2>8, <2>9, <2>10, <2>11 DEF BInv
  <1>8. ASSUME CancelDisarm PROVE BInv'
    <2>1. UNCHANGED <<status, plugged, reservations, armed, start, used, reported>>
      BY <1>8 DEF CancelDisarm
    <2>2. handler.pc = "disarm" /\ timers' = [timers EXCEPT ![handler.id] = 0]
      BY <1>8 DEF CancelDisarm
    <2>3. HandlerGoes("check")
      BY <1>8, Goes DEF BInv, CancelDisarm, HandlerPcs
    <2>4. TimersEnd({timers[handler.id]} \ {0})
      BY <1>8, Aborts DEF BInv, CancelDisarm
    <2>5. StatusType' /\ StartType' /\ HistoryTypes' /\ UsedInv' /\ StartInv'
      BY <2>1 DEF BInv, StatusType, StartType, HistoryTypes, UsedInv, StartInv
    <2>6. PlugType'
      BY <2>1 DEF BInv, PlugType
    <2>7. MapTypes'
      BY <2>1, <2>2 DEF BInv, MapTypes, HandlerInv
    <2>8. TimerType'
      BY <2>2, <2>3, <2>4 DEF TimersEnd, HandlerGoes
    <2>9. HandlerType'
      BY <2>3 DEF HandlerGoes
    <2>10. ArmInv'
      BY <2>1, <2>2, <2>3, <2>4 DEF BInv, ArmInv, Born, TimersEnd, HandlerGoes
    <2>11. HandlerInv'
      BY <2>1, <2>2, <2>3 DEF BInv, HandlerInv, HandlerGoes
    <2>12. TimerInv'
      BY <2>1, <2>2, <2>3, <2>4 DEF BInv, TimerInv, Born, TimersEnd, HandlerGoes
    <2>13. FreeInv'
      BY <2>1, <2>2, <2>3, <2>4 DEF BInv, FreeInv, Born, TimersEnd, HandlerGoes
    <2>14. QED
      BY <2>5, <2>6, <2>7, <2>8, <2>9, <2>10, <2>11, <2>12, <2>13 DEF BInv
  <1>9. ASSUME CancelCheck PROVE BInv'
    <2>1. UNCHANGED <<status, plugged, reservations, timers, timer, armed, start, used>>
      BY <1>9 DEF CancelCheck
    <2>2. handler.pc = "check" /\ handler.id \in Ids
      BY <1>9 DEF BInv, CancelCheck, HandlerInv
    <2>3. \/ HandlerGoes("free") /\ status[handler.connector] = "Reserved"
          \/ HandlerReturns
      BY <1>9, Goes, Returns DEF BInv, CancelCheck, HandlerPcs
    <2>4. reported' \in [Ids -> Nat]
      BY <1>9, <2>2, Reports DEF BInv, CancelCheck, HistoryTypes
    <2>5. /\ StatusType' /\ MapTypes' /\ TimerType' /\ StartType'
          /\ UsedInv' /\ TimerInv' /\ StartInv'
      BY <2>1 DEF BInv, StatusType, MapTypes, TimerType, StartType, UsedInv, TimerInv, StartInv
    <2>6. PlugType'
      BY <2>1 DEF BInv, PlugType
    <2>7. HandlerType'
      BY <2>2, <2>3 DEF HandlerGoes, HandlerReturns
    <2>8. HistoryTypes'
      BY <2>1, <2>2, <2>3, <2>4 DEF BInv, HistoryTypes
    <2>9. ArmInv'
      BY <2>1, <2>2, <2>3 DEF BInv, ArmInv, HandlerGoes, HandlerReturns
    <2>10. HandlerInv'
      BY <2>1, <2>2, <2>3 DEF BInv, HandlerInv, HandlerGoes, HandlerReturns
    <2>11. FreeInv'
      BY <2>1, <2>2, <2>3 DEF BInv, FreeInv, HandlerGoes, HandlerReturns
    <2>12. QED
      BY <2>5, <2>6, <2>7, <2>8, <2>9, <2>10, <2>11 DEF BInv
  <1>10. ASSUME CancelFree PROVE BInv'
    <2>1. UNCHANGED <<plugged, reservations, timers, timer, armed, start, used>>
      BY <1>10 DEF CancelFree
    <2>2. /\ handler.pc = "free" /\ handler.id \in Ids
          /\ status' = [status EXCEPT ![handler.connector] = "Available"]
      BY <1>10 DEF BInv, CancelFree, HandlerInv
    <2>3. HandlerReturns
      BY <1>10, Returns DEF CancelFree
    <2>4. reported' \in [Ids -> Nat]
      BY <1>10, <2>2, Reports DEF BInv, CancelFree
    <2>5. MapTypes' /\ TimerType' /\ StartType' /\ UsedInv' /\ TimerInv' /\ StartInv'
      BY <2>1 DEF BInv, MapTypes, TimerType, StartType, UsedInv, TimerInv, StartInv
    <2>6. PlugType'
      BY <2>1 DEF BInv, PlugType
    <2>7. StatusType'
      BY <2>2 DEF BInv, StatusType, Statuses
    <2>8. HandlerType'
      BY <2>2, <2>3 DEF HandlerReturns
    <2>9. HistoryTypes'
      BY <2>1, <2>4 DEF BInv, HistoryTypes
    <2>10. ArmInv'
      BY <2>1, <2>2, <2>3 DEF BInv, ArmInv, HandlerReturns
    <2>11. HandlerInv'
      BY <2>1, <2>2, <2>3 DEF BInv, HandlerInv, HandlerReturns
    <2>12. FreeInv'
      BY <2>1, <2>2, <2>3 DEF BInv, FreeInv, HandlerReturns, TimerInv, StatusType
    <2>13. QED
      BY <2>5, <2>6, <2>7, <2>8, <2>9, <2>10, <2>11, <2>12 DEF BInv
  <1>11. ASSUME NEW a \in Arms, TimerClaim(a) PROVE BInv'
    <2>1. UNCHANGED <<status, plugged, timers, armed, handler, start, used, reported>>
      BY <1>11 DEF TimerClaim
    <2>2. timer[a].pc = "sleeping" /\ timer[a].id \in Ids
      BY <1>11 DEF BInv, TimerClaim, TimerInv
    <2>3. TimerGoes(a, "check") \/ TimerGoes(a, "done")
      BY <1>11, Ticks DEF BInv, TimerClaim, TimerPcs
    <2>4. \/ reservations' = reservations
          \/ reservations' = [reservations EXCEPT ![timer[a].id] = None]
      BY <1>11 DEF TimerClaim
    <2>5. StatusType' /\ HandlerType' /\ StartType' /\ HistoryTypes' /\ HandlerInv' /\ StartInv'
      BY <2>1 DEF BInv, StatusType, HandlerType, StartType, HistoryTypes, HandlerInv, StartInv
    <2>6. PlugType'
      BY <2>1 DEF BInv, PlugType
    <2>7. MapTypes'
      BY <2>1, <2>4 DEF BInv, MapTypes
    <2>8. TimerType'
      BY <2>2, <2>3 DEF TimerGoes
    <2>9. ArmInv'
      BY <2>1, <2>2, <2>3 DEF BInv, ArmInv, Born, TimerGoes
    <2>10. UsedInv'
      BY <2>1, <2>4 DEF BInv, UsedInv, MapTypes
    <2>11. TimerInv'
      BY <2>1, <2>2, <2>3 DEF BInv, TimerInv, Born, TimerGoes
    <2>12. FreeInv'
      BY <2>1, <2>2, <2>3 DEF BInv, FreeInv, Born, TimerGoes
    <2>13. QED
      BY <2>5, <2>6, <2>7, <2>8, <2>9, <2>10, <2>11, <2>12 DEF BInv
  <1>12. ASSUME NEW a \in Arms, TimerCheck(a) PROVE BInv'
    <2>1. UNCHANGED <<status, plugged, reservations, timers, armed, handler, start, used>>
      BY <1>12 DEF TimerCheck
    <2>2. timer[a].pc = "check" /\ timer[a].id \in Ids
      BY <1>12 DEF BInv, TimerCheck, TimerInv
    <2>3. \/ TimerGoes(a, "free") /\ status[timer[a].connector] = "Reserved"
          \/ TimerGoes(a, "done")
      BY <1>12, Ticks DEF BInv, TimerCheck, TimerPcs
    <2>4. reported' \in [Ids -> Nat]
      BY <1>12, <2>2, Reports DEF BInv, TimerCheck, HistoryTypes
    <2>5. /\ StatusType' /\ MapTypes' /\ HandlerType' /\ StartType'
          /\ HandlerInv' /\ UsedInv' /\ StartInv'
      BY <2>1 DEF BInv, StatusType, MapTypes, HandlerType, StartType, HandlerInv, UsedInv, StartInv
    <2>6. PlugType'
      BY <2>1 DEF BInv, PlugType
    <2>7. TimerType'
      BY <2>2, <2>3 DEF TimerGoes
    <2>8. HistoryTypes'
      BY <2>1, <2>4 DEF BInv, HistoryTypes
    <2>9. ArmInv'
      BY <2>1, <2>2, <2>3 DEF BInv, ArmInv, Born, TimerGoes
    <2>10. TimerInv'
      BY <2>1, <2>2, <2>3 DEF BInv, TimerInv, Born, TimerGoes
    <2>11. FreeInv'
      BY <2>1, <2>2, <2>3 DEF BInv, FreeInv, Born, TimerGoes
    <2>12. QED
      BY <2>5, <2>6, <2>7, <2>8, <2>9, <2>10, <2>11 DEF BInv
  <1>13. ASSUME NEW a \in Arms, TimerFree(a) PROVE BInv'
    <2>1. UNCHANGED <<plugged, reservations, timers, armed, handler, start, used>>
      BY <1>13 DEF TimerFree
    <2>2. /\ timer[a].pc = "free" /\ timer[a].id \in Ids
          /\ status' = [status EXCEPT ![timer[a].connector] = "Available"]
      BY <1>13 DEF BInv, TimerFree, TimerInv
    <2>3. TimerGoes(a, "done")
      BY <1>13, Ticks DEF BInv, TimerFree, TimerPcs
    <2>4. reported' \in [Ids -> Nat]
      BY <1>13, <2>2, Reports DEF BInv, TimerFree
    <2>5. MapTypes' /\ HandlerType' /\ StartType' /\ HandlerInv' /\ UsedInv' /\ StartInv'
      BY <2>1 DEF BInv, MapTypes, HandlerType, StartType, HandlerInv, UsedInv, StartInv
    <2>6. PlugType'
      BY <2>1 DEF BInv, PlugType
    <2>7. StatusType'
      BY <2>2 DEF BInv, StatusType, Statuses
    <2>8. TimerType'
      BY <2>2, <2>3 DEF TimerGoes
    <2>9. HistoryTypes'
      BY <2>1, <2>4 DEF BInv, HistoryTypes
    <2>10. ArmInv'
      BY <2>1, <2>2, <2>3 DEF BInv, ArmInv, Born, TimerGoes
    <2>11. TimerInv'
      BY <2>1, <2>2, <2>3 DEF BInv, TimerInv, Born, TimerGoes
    <2>12. FreeInv'
      BY <2>1, <2>2, <2>3 DEF BInv, FreeInv, TimerGoes, TimerInv, HandlerInv, StatusType
    <2>13. QED
      BY <2>5, <2>6, <2>7, <2>8, <2>9, <2>10, <2>11, <2>12 DEF BInv
  <1>14. ASSUME NEW c \in Connectors, StartConsume(c) PROVE BInv'
    <2>1. UNCHANGED <<status, plugged, timers, timer, armed, handler, used, reported>>
      BY <1>14 DEF StartConsume
    <2>2. reservations' = [id \in Ids |-> IF reservations[id] = c THEN None ELSE reservations[id]]
      BY <1>14 DEF StartConsume
    <2>3. StartType' /\ start'.pc = "disarm" /\ start'.connector = c
      BY <1>14 DEF StartConsume, StartType, StartRec
    <2>4. /\ StatusType' /\ TimerType' /\ HandlerType' /\ HistoryTypes'
          /\ ArmInv' /\ HandlerInv' /\ TimerInv' /\ FreeInv'
      BY <2>1 DEF BInv, StatusType, TimerType, HandlerType, HistoryTypes, ArmInv, HandlerInv,
         TimerInv, FreeInv
    <2>5. PlugType'
      BY <2>1 DEF BInv, PlugType
    <2>6. MapTypes'
      BY <2>1, <2>2 DEF BInv, MapTypes
    <2>7. StartType'
      BY <2>3
    <2>8. UsedInv'
      BY <2>1, <2>2 DEF BInv, UsedInv, MapTypes
    <2>9. StartInv'
      BY <2>3 DEF BInv, StartInv
    <2>10. QED
      BY <2>4, <2>5, <2>6, <2>7, <2>8, <2>9 DEF BInv
  <1>15. ASSUME StartDisarm PROVE BInv'
    <2>1. UNCHANGED <<status, plugged, reservations, armed, handler, used, reported>>
      BY <1>15 DEF StartDisarm
    <2>2. /\ StartType' /\ start'.pc = "charge" /\ start'.connector = start.connector
          /\ start.connector \in Connectors /\ start'.consumed = start.consumed
      BY <1>15 DEF BInv, StartDisarm, StartInv, StartType, StartRec
    <2>3. TimersEnd({timers[id] : id \in start.consumed} \ {0})
      BY <1>15, Aborts DEF BInv, StartDisarm
    <2>4. timers' = [id \in Ids |-> IF id \in start.consumed THEN 0 ELSE timers[id]]
      BY <1>15 DEF StartDisarm
    <2>5. StatusType' /\ HandlerType' /\ HistoryTypes' /\ HandlerInv' /\ UsedInv'
      BY <2>1 DEF BInv, StatusType, HandlerType, HistoryTypes, HandlerInv, UsedInv
    <2>6. PlugType'
      BY <2>1 DEF BInv, PlugType
    <2>7. MapTypes'
      BY <2>1, <2>4 DEF BInv, MapTypes
    <2>8. TimerType'
      BY <2>3 DEF TimersEnd
    <2>9. StartType'
      BY <2>2
    <2>10. ArmInv'
      BY <2>1, <2>3 DEF BInv, ArmInv, Born, TimersEnd
    <2>11. TimerInv'
      BY <2>1, <2>3 DEF BInv, TimerInv, Born, TimersEnd
    <2>12. StartInv'
      BY <2>2 DEF BInv, StartInv
    <2>13. FreeInv'
      BY <2>1, <2>3 DEF BInv, FreeInv, Born, TimersEnd
    <2>14. QED
      BY <2>5, <2>6, <2>7, <2>8, <2>9, <2>10, <2>11, <2>12, <2>13 DEF BInv
  <1>16. ASSUME StartCharge PROVE BInv'
    <2>1. UNCHANGED <<plugged, reservations, timers, timer, armed, handler, used, reported>>
      BY <1>16 DEF StartCharge
    <2>2. /\ status' = [status EXCEPT ![start.connector] = "Charging"]
          /\ handler.pc # "free" /\ \A a \in Arms : timer[a].pc # "free"
      BY <1>16 DEF StartCharge, WriteLock
    <2>3. StartType' /\ start'.pc = "idle" /\ start'.consumed = {} /\ start'.connector = None
      BY <1>16, Records DEF StartCharge, StartType
    <2>4. /\ MapTypes' /\ TimerType' /\ HandlerType' /\ HistoryTypes'
          /\ ArmInv' /\ HandlerInv' /\ UsedInv' /\ TimerInv'
      BY <2>1 DEF BInv, MapTypes, TimerType, HandlerType, HistoryTypes, ArmInv, HandlerInv, UsedInv,
         TimerInv
    <2>5. PlugType'
      BY <2>1 DEF BInv, PlugType
    <2>6. StatusType'
      BY <2>2 DEF BInv, StatusType, Statuses
    <2>7. StartType'
      BY <2>3
    <2>8. StartInv'
      BY <2>3 DEF BInv, StartInv
    <2>9. FreeInv'
      BY <2>1, <2>2 DEF BInv, FreeInv
    <2>10. QED
      BY <2>4, <2>5, <2>6, <2>7, <2>8, <2>9 DEF BInv
  <1>17. ASSUME NEW c \in Connectors, StopTransaction(c) PROVE BInv'
    <2>1. UNCHANGED <<plugged, reservations, timers, timer, armed, handler, start, used, reported>>
      BY <1>17 DEF StopTransaction, SetStatus
    <2>2. \E s \in Statuses : s # "Charging" /\ status' = [status EXCEPT ![c] = s]
      BY <1>17 DEF BInv, StopTransaction, SetStatus, StatusType, Statuses
    <2>3. /\ MapTypes' /\ TimerType' /\ HandlerType' /\ StartType' /\ HistoryTypes'
          /\ ArmInv' /\ HandlerInv' /\ UsedInv' /\ TimerInv' /\ StartInv'
      BY <2>1 DEF BInv, MapTypes, TimerType, HandlerType, StartType, HistoryTypes, ArmInv,
         HandlerInv, UsedInv, TimerInv, StartInv
    <2>4. PlugType'
      BY <2>1 DEF BInv, PlugType
    <2>5. StatusType'
      BY <2>2 DEF BInv, StatusType
    <2>6. FreeInv'
      BY <2>1, <2>2 DEF BInv, FreeInv, StatusType, HandlerInv, TimerInv
    <2>7. QED
      BY <2>3, <2>4, <2>5, <2>6 DEF BInv
  <1>18. ASSUME NEW c \in Connectors, PlugIn(c) PROVE BInv'
    <2>1. UNCHANGED <<reservations, timers, timer, armed, handler, start, used, reported>>
      BY <1>18 DEF PlugIn, SetStatus
    <2>2. \E s \in Statuses : /\ s = "Charging" => status[c] = "Charging"
                              /\ status' = [status EXCEPT ![c] = s]
      BY <1>18 DEF BInv, PlugIn, SetStatus, StatusType, Statuses
    <2>3. \E p \in BOOLEAN : plugged' = [plugged EXCEPT ![c] = p]
      BY <1>18 DEF PlugIn
    <2>4. /\ MapTypes' /\ TimerType' /\ HandlerType' /\ StartType' /\ HistoryTypes'
          /\ ArmInv' /\ HandlerInv' /\ UsedInv' /\ TimerInv' /\ StartInv'
      BY <2>1 DEF BInv, MapTypes, TimerType, HandlerType, StartType, HistoryTypes, ArmInv,
         HandlerInv, UsedInv, TimerInv, StartInv
    <2>5. StatusType'
      BY <2>2 DEF BInv, StatusType
    <2>6. PlugType'
      BY <2>3 DEF BInv, PlugType
    <2>7. FreeInv'
      BY <2>1, <2>2 DEF BInv, FreeInv, StatusType, HandlerInv, TimerInv
    <2>8. QED
      BY <2>4, <2>5, <2>6, <2>7 DEF BInv
  <1>19. ASSUME NEW c \in Connectors, PlugOut(c) PROVE BInv'
    <2>1. UNCHANGED <<reservations, timers, timer, armed, handler, start, used, reported>>
      BY <1>19 DEF PlugOut, SetStatus
    <2>2. \E s \in Statuses : /\ s = "Charging" => status[c] = "Charging"
                              /\ status' = [status EXCEPT ![c] = s]
      BY <1>19 DEF BInv, PlugOut, SetStatus, StatusType, Statuses
    <2>3. \E p \in BOOLEAN : plugged' = [plugged EXCEPT ![c] = p]
      BY <1>19 DEF PlugOut
    <2>4. /\ MapTypes' /\ TimerType' /\ HandlerType' /\ StartType' /\ HistoryTypes'
          /\ ArmInv' /\ HandlerInv' /\ UsedInv' /\ TimerInv' /\ StartInv'
      BY <2>1 DEF BInv, MapTypes, TimerType, HandlerType, StartType, HistoryTypes, ArmInv,
         HandlerInv, UsedInv, TimerInv, StartInv
    <2>5. StatusType'
      BY <2>2 DEF BInv, StatusType
    <2>6. PlugType'
      BY <2>3 DEF BInv, PlugType
    <2>7. FreeInv'
      BY <2>1, <2>2 DEF BInv, FreeInv, StatusType, HandlerInv, TimerInv
    <2>8. QED
      BY <2>4, <2>5, <2>6, <2>7 DEF BInv
  <1>20. ASSUME NEW c \in Connectors, SetFault(c) PROVE BInv'
    <2>1. UNCHANGED <<plugged, reservations, timers, timer, armed, handler, start, used, reported>>
      BY <1>20 DEF SetFault, SetStatus
    <2>2. \E s \in Statuses : s # "Charging" /\ status' = [status EXCEPT ![c] = s]
      BY <1>20 DEF BInv, SetFault, SetStatus, StatusType, Statuses
    <2>3. /\ MapTypes' /\ TimerType' /\ HandlerType' /\ StartType' /\ HistoryTypes'
          /\ ArmInv' /\ HandlerInv' /\ UsedInv' /\ TimerInv' /\ StartInv'
      BY <2>1 DEF BInv, MapTypes, TimerType, HandlerType, StartType, HistoryTypes, ArmInv,
         HandlerInv, UsedInv, TimerInv, StartInv
    <2>4. PlugType'
      BY <2>1 DEF BInv, PlugType
    <2>5. StatusType'
      BY <2>2 DEF BInv, StatusType
    <2>6. FreeInv'
      BY <2>1, <2>2 DEF BInv, FreeInv, StatusType, HandlerInv, TimerInv
    <2>7. QED
      BY <2>3, <2>4, <2>5, <2>6 DEF BInv
  <1>21. ASSUME NEW c \in Connectors, ClearFault(c) PROVE BInv'
    <2>1. UNCHANGED <<plugged, reservations, timers, timer, armed, handler, start, used, reported>>
      BY <1>21 DEF ClearFault, SetStatus
    <2>2. \E s \in Statuses : s # "Charging" /\ status' = [status EXCEPT ![c] = s]
      BY <1>21 DEF BInv, ClearFault, SetStatus, StatusType, Statuses
    <2>3. /\ MapTypes' /\ TimerType' /\ HandlerType' /\ StartType' /\ HistoryTypes'
          /\ ArmInv' /\ HandlerInv' /\ UsedInv' /\ TimerInv' /\ StartInv'
      BY <2>1 DEF BInv, MapTypes, TimerType, HandlerType, StartType, HistoryTypes, ArmInv,
         HandlerInv, UsedInv, TimerInv, StartInv
    <2>4. PlugType'
      BY <2>1 DEF BInv, PlugType
    <2>5. StatusType'
      BY <2>2 DEF BInv, StatusType
    <2>6. FreeInv'
      BY <2>1, <2>2 DEF BInv, FreeInv, StatusType, HandlerInv, TimerInv
    <2>7. QED
      BY <2>3, <2>4, <2>5, <2>6 DEF BInv
  <1>22. ASSUME NEW c \in Connectors, NEW s \in {"Available", "Unavailable"}, SetAvailability(c, s)
        PROVE BInv'
    <2>1. UNCHANGED <<plugged, reservations, timers, timer, armed, handler, start, used, reported>>
      BY <1>22 DEF SetAvailability, SetStatus
    <2>2. status' = [status EXCEPT ![c] = s]
      BY <1>22 DEF SetAvailability, SetStatus
    <2>3. /\ MapTypes' /\ TimerType' /\ HandlerType' /\ StartType' /\ HistoryTypes'
          /\ ArmInv' /\ HandlerInv' /\ UsedInv' /\ TimerInv' /\ StartInv'
      BY <2>1 DEF BInv, MapTypes, TimerType, HandlerType, StartType, HistoryTypes, ArmInv,
         HandlerInv, UsedInv, TimerInv, StartInv
    <2>4. PlugType'
      BY <2>1 DEF BInv, PlugType
    <2>5. StatusType'
      BY <2>2 DEF BInv, StatusType, Statuses
    <2>6. FreeInv'
      BY <2>1, <2>2 DEF BInv, FreeInv, StatusType, HandlerInv, TimerInv
    <2>7. QED
      BY <2>3, <2>4, <2>5, <2>6 DEF BInv
  <1>23. CASE UNCHANGED vars
    BY <1>23 DEF vars, BInv, StatusType, PlugType, MapTypes, TimerType, HandlerType, StartType,
       HistoryTypes, ArmInv, HandlerInv, UsedInv, TimerInv, StartInv, FreeInv
  <1>24. QED
    BY <1>1, <1>2, <1>3, <1>4, <1>5, <1>6, <1>7, <1>8, <1>9, <1>10, <1>11, <1>12, <1>13, <1>14,
       <1>15, <1>16, <1>17, <1>18, <1>19, <1>20, <1>21, <1>22, <1>23
       DEF Next, HandlerStep, TimerStep, StartStep

-----------------------------------------------------------------------------
\* At the start nobody claims a connector.
LEMMA InitClaim == Init => ClaimInv
  BY Records DEF Init, ClaimInv, FreshInv, TimerOfInv, HandleInv, HeldInv, HandlerClaim,
     TimerClaims, ReportedOnce, ReservedIsHeld, HandlerHas, TimerHas, StartHas, Born

\* With fresh ids every step keeps ClaimInv.
LEMMA StepClaim == ASSUME FreshIds PROVE BInv /\ ClaimInv /\ [Next]_vars => ClaimInv'
  <1> SUFFICES ASSUME BInv, ClaimInv, [Next]_vars PROVE ClaimInv'
    OBVIOUS
  <1>1. ASSUME NEW id \in Ids, NEW c \in Connectors, NEW x \in BOOLEAN, ReserveNow(id, c, x) PROVE ClaimInv'
    <2>1. UNCHANGED <<status, plugged, reservations, timers, timer, armed, start, reported>>
      BY <1>1 DEF ReserveNow
    <2>2. /\ handler.pc = "idle" /\ id \notin used /\ used' = used \cup {id}
          /\ handler'.pc \in {"mark", "reserve"} /\ handler'.id = id /\ handler'.connector = c
      BY <1>1 DEF ReserveNow
    <2>3. timers[id] = 0
      BY <2>2 DEF BInv, ClaimInv, HandleInv, TimerOfInv, MapTypes
    <2>4. TimerClaims' /\ ReportedOnce'
      BY <2>1 DEF ClaimInv, TimerClaims, TimerHas, StartHas, ReportedOnce
    <2>5. FreshInv'
      BY <2>1, <2>2, <2>3 DEF ClaimInv, FreshInv, StartHas
    <2>6. TimerOfInv'
      BY <2>1, <2>2, <2>3 DEF ClaimInv, TimerOfInv, Born
    <2>7. HandleInv'
      BY <2>1, <2>2, <2>3 DEF ClaimInv, HandleInv, Born
    <2>8. HeldInv'
      BY <2>1, <2>2, <2>3 DEF ClaimInv, HeldInv, HandlerHas, StartHas, TimerHas
    <2>9. HandlerClaim'
      BY <2>1, <2>2, <2>3 DEF ClaimInv, HandlerClaim, HandlerHas, StartHas, TimerHas
    <2>10. ReservedIsHeld'
      BY <2>1, <2>2, <2>3 DEF ClaimInv, ReservedIsHeld
    <2>11. QED
      BY <2>4, <2>5, <2>6, <2>7, <2>8, <2>9, <2>10 DEF ClaimInv
  <1>2. ASSUME ReserveCheck PROVE ClaimInv'
    <2>1. UNCHANGED <<status, plugged, reservations, timers, timer, armed, start, used, reported>>
      BY <1>2 DEF ReserveCheck
    <2>2. handler.pc = "reserve"
      BY <1>2 DEF ReserveCheck
    <2>3. HandlerGoes("mark") \/ HandlerReturns
      BY <1>2, Goes, Returns DEF BInv, ReserveCheck, HandlerPcs
    <2>4. TimerClaims' /\ ReportedOnce'
      BY <2>1 DEF ClaimInv, TimerClaims, TimerHas, StartHas, ReportedOnce
    <2>5. FreshInv'
      BY <2>1, <2>2, <2>3 DEF ClaimInv, FreshInv, StartHas, HandlerGoes, HandlerReturns, BInv,
         HandlerInv
    <2>6. TimerOfInv'
      BY <2>1, <2>2, <2>3 DEF ClaimInv, TimerOfInv, Born, HandlerGoes, HandlerReturns
    <2>7. HandleInv'
      BY <2>1, <2>2, <2>3 DEF ClaimInv, HandleInv, Born, HandlerGoes, HandlerReturns
    <2>8. HeldInv'
      BY <2>1, <2>2, <2>3 DEF ClaimInv, HeldInv, HandlerHas, StartHas, TimerHas, HandlerGoes,
         HandlerReturns
    <2>9. HandlerClaim'
      BY <2>1, <2>2, <2>3 DEF ClaimInv, HandlerClaim, HandlerHas, StartHas, TimerHas, HandlerGoes,
         HandlerReturns
    <2>10. ReservedIsHeld'
      BY <2>1, <2>2, <2>3 DEF ClaimInv, ReservedIsHeld, HandlerGoes, HandlerReturns
    <2>11. QED
      BY <2>4, <2>5, <2>6, <2>7, <2>8, <2>9, <2>10 DEF ClaimInv
  <1>3. ASSUME ReserveMark PROVE ClaimInv'
    <2>1. UNCHANGED <<plugged, reservations, timers, timer, armed, start, used, reported>>
      BY <1>3 DEF ReserveMark
    <2>2. /\ handler.pc = "mark"
          /\ status' = [status EXCEPT ![handler.connector] = "Reserved"]
      BY <1>3 DEF ReserveMark
    <2>3. HandlerGoes("record")
      BY <1>3, Goes DEF BInv, ReserveMark, HandlerPcs
    <2>4. TimerClaims' /\ ReportedOnce'
      BY <2>1 DEF ClaimInv, TimerClaims, TimerHas, StartHas, ReportedOnce
    <2>5. FreshInv'
      BY <2>1, <2>2, <2>3 DEF ClaimInv, FreshInv, StartHas, HandlerGoes
    <2>6. TimerOfInv'
      BY <2>1, <2>2, <2>3 DEF ClaimInv, TimerOfInv, Born, HandlerGoes
    <2>7. HandleInv'
      BY <2>1, <2>2, <2>3 DEF ClaimInv, HandleInv, Born, HandlerGoes
    <2>8. HeldInv'
      BY <2>1, <2>2, <2>3 DEF ClaimInv, HeldInv, HandlerHas, StartHas, TimerHas, HandlerGoes
    <2>9. HandlerClaim'
      BY <2>1, <2>2, <2>3 DEF ClaimInv, HandlerClaim, HandlerHas, StartHas, TimerHas, HandlerGoes
    <2>10. ReservedIsHeld'
      BY <2>1, <2>2, <2>3 DEF ClaimInv, ReservedIsHeld, HandlerGoes, BInv, StatusType
    <2>11. QED
      BY <2>4, <2>5, <2>6, <2>7, <2>8, <2>9, <2>10 DEF ClaimInv
  <1>4. ASSUME ReserveRecord PROVE ClaimInv'
    <2>1. UNCHANGED <<status, plugged, timers, timer, armed, start, used, reported>>
      BY <1>4 DEF ReserveRecord
    <2>2. /\ handler.pc = "record" /\ handler.id \in used /\ handler.id \in Ids
          /\ reservations' = [reservations EXCEPT ![handler.id] = handler.connector]
      BY <1>4 DEF BInv, HandlerInv, ReserveRecord
    <2>3. HandlerGoes("spawn") \/ HandlerReturns
      BY <1>4, Goes, Returns DEF BInv, ReserveRecord, HandlerPcs
    <2>4. /\ ~StartHas(handler.id) /\ reported[handler.id] = 0 /\ reservations[handler.id] = None
          /\ \A a \in Arms : ~TimerHas(a, handler.id)
      BY <2>2 DEF BInv, TimerInv, ClaimInv, FreshInv, TimerOfInv, TimerHas, Born
    <2>5. TimerClaims' /\ ReportedOnce'
      BY <2>1 DEF ClaimInv, TimerClaims, TimerHas, StartHas, ReportedOnce
    <2>6. FreshInv'
      BY <2>1, <2>2, <2>3, <2>4 DEF ClaimInv, FreshInv, StartHas, HandlerGoes, HandlerReturns, BInv,
         MapTypes
    <2>7. TimerOfInv'
      BY <2>1, <2>2, <2>3, <2>4 DEF ClaimInv, TimerOfInv, Born, HandlerGoes, HandlerReturns
    <2>8. HandleInv'
      BY <2>1, <2>2, <2>3, <2>4 DEF ClaimInv, HandleInv, Born, HandlerGoes, HandlerReturns
    <2>9. HeldInv'
      BY <2>1, <2>2, <2>3, <2>4 DEF ClaimInv, HeldInv, HandlerHas, StartHas, TimerHas, HandlerGoes,
         HandlerReturns, BInv, MapTypes
    <2>10. HandlerClaim'
      BY <2>1, <2>2, <2>3, <2>4 DEF ClaimInv, HandlerClaim, HandlerHas, StartHas, TimerHas,
         HandlerGoes, HandlerReturns
    <2>11. ReservedIsHeld'
      <3>1. \A c \in Connectors, id \in Ids : reservations[id] = c => reservations'[id] = c
        BY <2>2, <2>4, ReservationsAssumption DEF BInv, MapTypes
      <3>2. reservations'[handler.id] = handler.connector
        BY <2>2 DEF BInv, MapTypes
      <3>3. QED
        BY <2>1, <2>2, <2>3, <3>1, <3>2 DEF ClaimInv, ReservedIsHeld, HandlerGoes, HandlerReturns
    <2>12. QED
      BY <2>5, <2>6, <2>7, <2>8, <2>9, <2>10, <2>11 DEF ClaimInv
  <1>5. ASSUME ReserveSpawn PROVE ClaimInv'
    <2>1. UNCHANGED <<status, plugged, reservations, timers, start, used, reported>>
      BY <1>5 DEF ReserveSpawn
    <2>2. /\ handler.pc = "spawn" /\ handler.id \in used
          /\ armed' \in Arms /\ timer[armed'].pc = "unborn"
      BY <1>5, ReservationsAssumption DEF BInv, HandlerInv, ArmInv, ReserveSpawn, Arms
    <2>3. HandlerGoes("hold")
      BY <1>5, Goes DEF BInv, ReserveSpawn, HandlerPcs
    <2>4. /\ timer'[armed'].pc = "sleeping" /\ timer'[armed'].id = handler.id
          /\ \A b \in Arms : b # armed' => timer'[b] = timer[b]
      BY <1>5, <2>2 DEF BInv, TimerType, ReserveSpawn
    <2>5. ReportedOnce'
      BY <2>1 DEF ClaimInv, ReportedOnce
    <2>6. FreshInv'
      BY <2>1, <2>2, <2>3, <2>4 DEF ClaimInv, FreshInv, StartHas, HandlerGoes
    <2>7. TimerOfInv'
      BY <2>1, <2>2, <2>3, <2>4 DEF ClaimInv, TimerOfInv, Born, HandlerGoes
    <2>8. HandleInv'
      BY <2>1, <2>2, <2>3, <2>4 DEF ClaimInv, HandleInv, Born, HandlerGoes, BInv, MapTypes
    <2>9. HeldInv'
      BY <2>1, <2>2, <2>3, <2>4 DEF ClaimInv, HeldInv, HandlerHas, StartHas, TimerHas, HandlerGoes
    <2>10. HandlerClaim'
      BY <2>1, <2>2, <2>3, <2>4 DEF ClaimInv, HandlerClaim, HandlerHas, StartHas, TimerHas,
         HandlerGoes
    <2>11. TimerClaims'
      BY <2>1, <2>2, <2>3, <2>4 DEF ClaimInv, TimerClaims, TimerHas, StartHas, HandlerGoes
    <2>12. ReservedIsHeld'
      BY <2>1, <2>2, <2>3, <2>4 DEF ClaimInv, ReservedIsHeld, HandlerGoes
    <2>13. QED
      BY <2>5, <2>6, <2>7, <2>8, <2>9, <2>10, <2>11, <2>12 DEF ClaimInv
  <1>6. ASSUME ReserveHold PROVE ClaimInv'
    <2>1. UNCHANGED <<status, plugged, reservations, armed, start, used, reported>>
      BY <1>6 DEF ReserveHold
    <2>2. /\ handler.pc = "hold" /\ handler.id \in Ids /\ armed \in Arms
          /\ timers[handler.id] = 0
      BY <1>6 DEF BInv, HandlerInv, ArmInv, ClaimInv, HandleInv, ReserveHold, Arms
    <2>3. HandlerReturns
      BY <1>6, Returns DEF ReserveHold
    <2>4. \A a \in Arms : /\ timer'[a].pc = timer[a].pc /\ timer'[a].id = timer[a].id
                          /\ timer'[a].connector = timer[a].connector
      <3>1. TimersEnd({})
        BY <1>6, <2>2, Aborts DEF BInv, ReserveHold
      <3>2. QED
        BY <3>1 DEF TimersEnd
    <2>5. /\ timers'[handler.id] = armed
          /\ \A id \in Ids : id # handler.id => timers'[id] \in {timers[id], 0}
      BY <1>6, <2>2 DEF ReserveHold
    <2>6. Born(armed) /\ timer[armed].id = handler.id
      BY <2>2 DEF BInv, ArmInv, ClaimInv, TimerOfInv, Born
    <2>7. ReportedOnce'
      BY <2>1 DEF ClaimInv, ReportedOnce
    <2>8. FreshInv'
      BY <2>1, <2>2, <2>3, <2>4, <2>5, <2>6 DEF ClaimInv, FreshInv, StartHas, HandlerReturns
    <2>9. TimerOfInv'
      BY <2>1, <2>2, <2>3, <2>4, <2>5, <2>6 DEF ClaimInv, TimerOfInv, Born, HandlerReturns
    <2>10. HandleInv'
      BY <2>1, <2>2, <2>3, <2>4, <2>5, <2>6 DEF ClaimInv, HandleInv, Born, HandlerReturns, BInv,
         MapTypes
    <2>11. HeldInv'
      BY <2>1, <2>2, <2>3, <2>4, <2>5, <2>6 DEF ClaimInv, HeldInv, HandlerHas, StartHas, TimerHas,
         HandlerReturns
    <2>12. HandlerClaim'
      BY <2>1, <2>2, <2>3, <2>4, <2>5, <2>6 DEF ClaimInv, HandlerClaim, HandlerHas, StartHas,
         TimerHas, HandlerReturns
    <2>13. TimerClaims'
      BY <2>1, <2>2, <2>3, <2>4, <2>5, <2>6 DEF ClaimInv, TimerClaims, TimerHas, StartHas,
         HandlerReturns
    <2>14. ReservedIsHeld'
      BY <2>1, <2>2, <2>3, <2>4, <2>5, <2>6 DEF ClaimInv, ReservedIsHeld, HandlerReturns
    <2>15. QED
      BY <2>7, <2>8, <2>9, <2>10, <2>11, <2>12, <2>13, <2>14 DEF ClaimInv
  <1>7. ASSUME NEW id \in Ids, CancelClaim(id) PROVE ClaimInv'
    <2>1. UNCHANGED <<status, plugged, timers, timer, armed, start, used, reported>>
      BY <1>7 DEF CancelClaim
    <2>2. /\ handler.pc = "idle" /\ reservations[id] # None
          /\ reservations' = [reservations EXCEPT ![id] = None]
      BY <1>7 DEF CancelClaim
    <2>3. /\ handler'.pc = "disarm" /\ handler'.id = id
          /\ handler'.connector = reservations[id]
      BY <1>7, Records DEF CancelClaim, HandlerRec
    <2>4. TimerClaims' /\ ReportedOnce'
      BY <2>1 DEF ClaimInv, TimerClaims, TimerHas, StartHas, ReportedOnce
    <2>5. FreshInv'
      BY <2>1, <2>2, <2>3 DEF ClaimInv, FreshInv, StartHas, BInv, MapTypes
    <2>6. TimerOfInv'
      BY <2>1, <2>2, <2>3 DEF ClaimInv, TimerOfInv, Born
    <2>7. HandleInv'
      BY <2>1, <2>2, <2>3 DEF ClaimInv, HandleInv, Born
    <2>8. HeldInv'
      BY <2>1, <2>2, <2>3 DEF ClaimInv, HeldInv, HandlerHas, StartHas, TimerHas, BInv, MapTypes
    <2>9. HandlerClaim'
      BY <2>1, <2>2, <2>3 DEF ClaimInv, HandlerClaim, HandlerHas, StartHas, TimerHas, HeldInv
    <2>10. ReservedIsHeld'
      BY <2>1, <2>2, <2>3 DEF ClaimInv, ReservedIsHeld, BInv, MapTypes
    <2>11. QED
      BY <2>4, <2>5, <2>6, <2>7, <2>8, <2>9, <2>10 DEF ClaimInv
  <1>8. ASSUME CancelDisarm PROVE ClaimInv'
    <2>1. UNCHANGED <<status, plugged, reservations, armed, start, used, reported>>
      BY <1>8 DEF CancelDisarm
    <2>2. /\ handler.pc = "disarm" /\ handler.id \in Ids
          /\ timers' = [timers EXCEPT ![handler.id] = 0]
      BY <1>8 DEF BInv, HandlerInv, CancelDisarm
    <2>3. HandlerGoes("check")
      BY <1>8, Goes DEF BInv, CancelDisarm, HandlerPcs
    <2>4. \A a \in Arms : /\ timer'[a].id = timer[a].id /\ timer'[a].connector = timer[a].connector
                          /\ timer'[a].pc = "unborn" <=> timer[a].pc = "unborn"
                          /\ timer[a].pc \in {"check", "free"} => timer'[a].pc = timer[a].pc
                          /\ timer'[a].pc \in {"check", "free"} => timer'[a].pc = timer[a].pc
      <3>1. TimersEnd({timers[handler.id]} \ {0})
        BY <1>8, Aborts DEF BInv, CancelDisarm
      <3>2. \A a \in {timers[handler.id]} \ {0} : timer[a].pc \notin {"check", "free"}
        BY <2>2 DEF BInv, MapTypes, ClaimInv, HandleInv, HandlerClaim, HandlerHas, TimerHas
      <3>3. QED
        BY <3>1, <3>2 DEF TimersEnd, Born
    <2>5. ReportedOnce'
      BY <2>1 DEF ClaimInv, ReportedOnce
    <2>6. FreshInv'
      BY <2>1, <2>2, <2>3, <2>4 DEF ClaimInv, FreshInv, StartHas, HandlerGoes
    <2>7. TimerOfInv'
      BY <2>1, <2>2, <2>3, <2>4 DEF ClaimInv, TimerOfInv, Born, HandlerGoes
    <2>8. HandleInv'
      BY <2>1, <2>2, <2>3, <2>4 DEF ClaimInv, HandleInv, Born, HandlerGoes, BInv, MapTypes
    <2>9. HeldInv'
      BY <2>1, <2>2, <2>3, <2>4 DEF ClaimInv, HeldInv, HandlerHas, StartHas, TimerHas, HandlerGoes
    <2>10. HandlerClaim'
      BY <2>1, <2>2, <2>3, <2>4 DEF ClaimInv, HandlerClaim, HandlerHas, StartHas, TimerHas,
         HandlerGoes
    <2>11. TimerClaims'
      BY <2>1, <2>2, <2>3, <2>4 DEF ClaimInv, TimerClaims, TimerHas, StartHas, HandlerGoes
    <2>12. ReservedIsHeld'
      BY <2>1, <2>2, <2>3, <2>4 DEF ClaimInv, ReservedIsHeld, HandlerGoes
    <2>13. QED
      BY <2>5, <2>6, <2>7, <2>8, <2>9, <2>10, <2>11, <2>12 DEF ClaimInv
  <1>9. ASSUME CancelCheck PROVE ClaimInv'
    <2>1. UNCHANGED <<status, plugged, reservations, timers, timer, armed, start, used>>
      BY <1>9 DEF CancelCheck
    <2>2. handler.pc = "check" /\ handler.id \in Ids /\ handler.id \in used
      BY <1>9 DEF BInv, HandlerInv, CancelCheck
    <2>3. /\ reservations[handler.id] = None /\ reported[handler.id] = 0
          /\ \A a \in Arms : ~TimerHas(a, handler.id)
      BY <2>2 DEF ClaimInv, HeldInv, HandlerClaim, HandlerHas
    <2>4. \/ HandlerGoes("free") /\ reported' = reported
          \/ HandlerReturns /\ status[handler.connector] # "Reserved"
      BY <1>9, Goes, Returns DEF BInv, CancelCheck, HandlerPcs
    <2>5. /\ \A i \in Ids : i # handler.id => reported'[i] = reported[i]
          /\ reported'[handler.id] <= 1
      BY <1>9, <2>2, <2>3, Reports DEF BInv, CancelCheck
    <2>6. FreshInv'
      BY <2>1, <2>2, <2>3, <2>4, <2>5 DEF ClaimInv, FreshInv, StartHas, HandlerGoes, HandlerReturns
    <2>7. TimerOfInv'
      BY <2>1, <2>2, <2>3, <2>4, <2>5 DEF ClaimInv, TimerOfInv, Born, HandlerGoes, HandlerReturns
    <2>8. HandleInv'
      BY <2>1, <2>2, <2>3, <2>4, <2>5 DEF ClaimInv, HandleInv, Born, HandlerGoes, HandlerReturns
    <2>9. HeldInv'
      BY <2>1, <2>2, <2>3, <2>4, <2>5 DEF ClaimInv, HeldInv, HandlerHas, StartHas, TimerHas,
         HandlerGoes, HandlerReturns
    <2>10. HandlerClaim'
      BY <2>1, <2>2, <2>3, <2>4, <2>5 DEF ClaimInv, HandlerClaim, HandlerHas, StartHas, TimerHas,
         HandlerGoes, HandlerReturns
    <2>11. TimerClaims'
      BY <2>1, <2>2, <2>3, <2>4, <2>5 DEF ClaimInv, TimerClaims, TimerHas, StartHas, HandlerGoes,
         HandlerReturns
    <2>12. ReportedOnce'
      BY <2>1, <2>2, <2>3, <2>4, <2>5 DEF ClaimInv, ReportedOnce, HandlerGoes, HandlerReturns
    <2>13. ReservedIsHeld'
      BY <2>1, <2>2, <2>3, <2>4, <2>5 DEF ClaimInv, ReservedIsHeld, HandlerGoes, HandlerReturns
    <2>14. QED
      BY <2>6, <2>7, <2>8, <2>9, <2>10, <2>11, <2>12, <2>13 DEF ClaimInv
  <1>10. ASSUME CancelFree PROVE ClaimInv'
    <2>1. UNCHANGED <<plugged, reservations, timers, timer, armed, start, used>>
      BY <1>10 DEF CancelFree
    <2>2. /\ handler.pc = "free" /\ handler.id \in Ids /\ handler.id \in used
          /\ status' = [status EXCEPT ![handler.connector] = "Available"]
      BY <1>10 DEF BInv, HandlerInv, CancelFree
    <2>3. /\ reservations[handler.id] = None /\ reported[handler.id] = 0
          /\ \A a \in Arms : ~TimerHas(a, handler.id)
      BY <2>2 DEF ClaimInv, HeldInv, HandlerClaim, HandlerHas
    <2>4. HandlerReturns
      BY <1>10, Returns DEF CancelFree
    <2>5. /\ \A i \in Ids : i # handler.id => reported'[i] = reported[i]
          /\ reported'[handler.id] <= 1
      BY <1>10, <2>2, <2>3, Reports DEF BInv, CancelFree
    <2>6. FreshInv'
      BY <2>1, <2>2, <2>3, <2>4, <2>5 DEF ClaimInv, FreshInv, StartHas, HandlerReturns
    <2>7. TimerOfInv'
      BY <2>1, <2>2, <2>3, <2>4, <2>5 DEF ClaimInv, TimerOfInv, Born, HandlerReturns
    <2>8. HandleInv'
      BY <2>1, <2>2, <2>3, <2>4, <2>5 DEF ClaimInv, HandleInv, Born, HandlerReturns
    <2>9. HeldInv'
      BY <2>1, <2>2, <2>3, <2>4, <2>5 DEF ClaimInv, HeldInv, HandlerHas, StartHas, TimerHas,
         HandlerReturns
    <2>10. HandlerClaim'
      BY <2>1, <2>2, <2>3, <2>4, <2>5 DEF ClaimInv, HandlerClaim, HandlerHas, StartHas, TimerHas,
         HandlerReturns
    <2>11. TimerClaims'
      BY <2>1, <2>2, <2>3, <2>4, <2>5 DEF ClaimInv, TimerClaims, TimerHas, StartHas, HandlerReturns
    <2>12. ReportedOnce'
      BY <2>1, <2>2, <2>3, <2>4, <2>5 DEF ClaimInv, ReportedOnce, HandlerReturns
    <2>13. ReservedIsHeld'
      BY <2>1, <2>2, <2>3, <2>4, <2>5 DEF ClaimInv, ReservedIsHeld, HandlerReturns, BInv, StatusType
    <2>14. QED
      BY <2>6, <2>7, <2>8, <2>9, <2>10, <2>11, <2>12, <2>13 DEF ClaimInv
  <1>11. ASSUME NEW a \in Arms, TimerClaim(a) PROVE ClaimInv'
    <2>1. UNCHANGED <<status, plugged, timers, armed, handler, start, used, reported>>
      BY <1>11 DEF TimerClaim
    <2>2. timer[a].pc = "sleeping" /\ timer[a].id \in Ids /\ timer[a].connector # None
      BY <1>11, ReservationsAssumption DEF BInv, TimerInv, TimerClaim
    <2>3. \/ /\ TimerGoes(a, "check") /\ reservations[timer[a].id] = timer[a].connector
             /\ reservations' = [reservations EXCEPT ![timer[a].id] = None]
          \/ TimerGoes(a, "done") /\ reservations' = reservations
      BY <1>11, Ticks DEF BInv, TimerClaim, TimerPcs
    <2>4. ReportedOnce'
      BY <2>1 DEF ClaimInv, ReportedOnce
    <2>5. FreshInv'
      BY <2>1, <2>2, <2>3 DEF ClaimInv, FreshInv, StartHas, TimerGoes, BInv, MapTypes
    <2>6. TimerOfInv'
      BY <2>1, <2>2, <2>3 DEF ClaimInv, TimerOfInv, Born, TimerGoes
    <2>7. HandleInv'
      BY <2>1, <2>2, <2>3 DEF ClaimInv, HandleInv, Born, TimerGoes, BInv, MapTypes
    <2>8. HeldInv'
      BY <2>1, <2>2, <2>3 DEF ClaimInv, HeldInv, HandlerHas, StartHas, TimerHas, TimerGoes, BInv,
         MapTypes
    <2>9. HandlerClaim'
      BY <2>1, <2>2, <2>3 DEF ClaimInv, HandlerClaim, HandlerHas, StartHas, TimerHas, TimerGoes,
         HeldInv, BInv, MapTypes
    <2>10. TimerClaims'
      BY <2>1, <2>2, <2>3 DEF ClaimInv, TimerClaims, TimerHas, StartHas, TimerGoes, HeldInv, BInv,
         MapTypes
    <2>11. ReservedIsHeld'
      BY <2>1, <2>2, <2>3 DEF ClaimInv, ReservedIsHeld, TimerGoes, BInv, MapTypes
    <2>12. QED
      BY <2>4, <2>5, <2>6, <2>7, <2>8, <2>9, <2>10, <2>11 DEF ClaimInv
  <1>12. ASSUME NEW a \in Arms, TimerCheck(a) PROVE ClaimInv'
    <2>1. UNCHANGED <<status, plugged, reservations, timers, armed, handler, start, used>>
      BY <1>12 DEF TimerCheck
    <2>2. timer[a].pc = "check" /\ timer[a].id \in Ids
      BY <1>12 DEF BInv, TimerInv, TimerCheck
    <2>3. /\ reservations[timer[a].id] = None /\ reported[timer[a].id] = 0
          /\ ~HandlerHas(timer[a].id) /\ timer[a].id \in used
          /\ \A b \in Arms : b # a => ~TimerHas(b, timer[a].id)
          /\ ~(handler.pc \in {"reserve", "mark", "record"} /\ handler.id = timer[a].id)
      BY <2>2 DEF ClaimInv, HeldInv, HandlerClaim, TimerClaims, TimerOfInv, TimerHas, Born
    <2>4. \/ TimerGoes(a, "free") /\ reported' = reported
          \/ TimerGoes(a, "done") /\ status[timer[a].connector] # "Reserved"
      BY <1>12, Ticks DEF BInv, TimerCheck, TimerPcs
    <2>5. /\ \A i \in Ids : i # timer[a].id => reported'[i] = reported[i]
          /\ reported'[timer[a].id] <= 1
      BY <1>12, <2>2, <2>3, Reports DEF BInv, TimerCheck
    <2>6. FreshInv'
      BY <2>1, <2>2, <2>3, <2>4, <2>5 DEF ClaimInv, FreshInv, StartHas, TimerGoes
    <2>7. TimerOfInv'
      BY <2>1, <2>2, <2>3, <2>4, <2>5 DEF ClaimInv, TimerOfInv, Born, TimerGoes
    <2>8. HandleInv'
      BY <2>1, <2>2, <2>3, <2>4, <2>5 DEF ClaimInv, HandleInv, Born, TimerGoes, BInv, MapTypes
    <2>9. HeldInv'
      BY <2>1, <2>2, <2>3, <2>4, <2>5 DEF ClaimInv, HeldInv, HandlerHas, StartHas, TimerHas,
         TimerGoes
    <2>10. HandlerClaim'
      BY <2>1, <2>2, <2>3, <2>4, <2>5 DEF ClaimInv, HandlerClaim, HandlerHas, StartHas, TimerHas,
         TimerGoes
    <2>11. TimerClaims'
      BY <2>1, <2>2, <2>3, <2>4, <2>5 DEF ClaimInv, TimerClaims, TimerHas, StartHas, TimerGoes
    <2>12. ReportedOnce'
      BY <2>1, <2>2, <2>3, <2>4, <2>5 DEF ClaimInv, ReportedOnce, TimerGoes
    <2>13. ReservedIsHeld'
      BY <2>1, <2>2, <2>3, <2>4, <2>5 DEF ClaimInv, ReservedIsHeld, TimerGoes
    <2>14. QED
      BY <2>6, <2>7, <2>8, <2>9, <2>10, <2>11, <2>12, <2>13 DEF ClaimInv
  <1>13. ASSUME NEW a \in Arms, TimerFree(a) PROVE ClaimInv'
    <2>1. UNCHANGED <<plugged, reservations, timers, armed, handler, start, used>>
      BY <1>13 DEF TimerFree
    <2>2. /\ timer[a].pc = "free" /\ timer[a].id \in Ids
          /\ status' = [status EXCEPT ![timer[a].connector] = "Available"]
      BY <1>13 DEF BInv, TimerInv, TimerFree
    <2>3. /\ reservations[timer[a].id] = None /\ reported[timer[a].id] = 0
          /\ ~HandlerHas(timer[a].id) /\ timer[a].id \in used
          /\ \A b \in Arms : b # a => ~TimerHas(b, timer[a].id)
          /\ ~(handler.pc \in {"reserve", "mark", "record"} /\ handler.id = timer[a].id)
      BY <2>2 DEF ClaimInv, HeldInv, HandlerClaim, TimerClaims, TimerOfInv, TimerHas, Born
    <2>4. TimerGoes(a, "done")
      BY <1>13, Ticks DEF BInv, TimerFree, TimerPcs
    <2>5. /\ \A i \in Ids : i # timer[a].id => reported'[i] = reported[i]
          /\ reported'[timer[a].id] <= 1
      BY <1>13, <2>2, <2>3, Reports DEF BInv, TimerFree
    <2>6. FreshInv'
      BY <2>1, <2>2, <2>3, <2>4, <2>5 DEF ClaimInv, FreshInv, StartHas, TimerGoes
    <2>7. TimerOfInv'
      BY <2>1, <2>2, <2>3, <2>4, <2>5 DEF ClaimInv, TimerOfInv, Born, TimerGoes
    <2>8. HandleInv'
      BY <2>1, <2>2, <2>3, <2>4, <2>5 DEF ClaimInv, HandleInv, Born, TimerGoes, BInv, MapTypes
    <2>9. HeldInv'
      BY <2>1, <2>2, <2>3, <2>4, <2>5 DEF ClaimInv, HeldInv, HandlerHas, StartHas, TimerHas,
         TimerGoes
    <2>10. HandlerClaim'
      BY <2>1, <2>2, <2>3, <2>4, <2>5 DEF ClaimInv, HandlerClaim, HandlerHas, StartHas, TimerHas,
         TimerGoes
    <2>11. TimerClaims'
      BY <2>1, <2>2, <2>3, <2>4, <2>5 DEF ClaimInv, TimerClaims, TimerHas, StartHas, TimerGoes
    <2>12. ReportedOnce'
      BY <2>1, <2>2, <2>3, <2>4, <2>5 DEF ClaimInv, ReportedOnce, TimerGoes
    <2>13. ReservedIsHeld'
      BY <2>1, <2>2, <2>3, <2>4, <2>5 DEF ClaimInv, ReservedIsHeld, TimerGoes, BInv, StatusType
    <2>14. QED
      BY <2>6, <2>7, <2>8, <2>9, <2>10, <2>11, <2>12, <2>13 DEF ClaimInv
  <1>14. ASSUME NEW c \in Connectors, StartConsume(c) PROVE ClaimInv'
    <2>1. UNCHANGED <<status, plugged, timers, timer, armed, handler, used, reported>>
      BY <1>14 DEF StartConsume
    <2>2. /\ start.pc = "idle" /\ start.connector = None
          /\ reservations' = [id \in Ids |-> IF reservations[id] = c THEN None ELSE reservations[id]]
      BY <1>14 DEF BInv, StartInv, StartConsume
    <2>3. /\ start'.connector = c
          /\ start'.consumed = {id \in Ids : reservations[id] = c}
      BY <1>14 DEF StartConsume
    <2>4. c # None
      BY ReservationsAssumption
    <2>5. TimerOfInv' /\ HandleInv' /\ ReportedOnce'
      BY <2>1 DEF ClaimInv, TimerOfInv, Born, HandleInv, Born, ReportedOnce
    <2>6. FreshInv'
      BY <2>1, <2>2, <2>3, <2>4 DEF ClaimInv, FreshInv, StartHas
    <2>7. HeldInv'
      BY <2>1, <2>2, <2>3, <2>4 DEF ClaimInv, HeldInv, HandlerHas, StartHas, TimerHas
    <2>8. HandlerClaim'
      BY <2>1, <2>2, <2>3, <2>4 DEF ClaimInv, HandlerClaim, HandlerHas, StartHas, TimerHas, HeldInv
    <2>9. TimerClaims'
      BY <2>1, <2>2, <2>3, <2>4 DEF ClaimInv, TimerClaims, TimerHas, StartHas, HeldInv
    <2>10. ReservedIsHeld'
      <3>1. ASSUME NEW d \in Connectors, d # c, status[d] = "Reserved"
            PROVE  \/ \E id \in Ids : reservations'[id] = d
                   \/ handler.connector = d /\ handler.pc \in {"record", "disarm", "check", "free"}
                   \/ \E a \in Arms : timer[a].connector = d /\ timer[a].pc \in {"check", "free"}
        <4>1. \A id \in Ids : reservations[id] = d => reservations'[id] = d
          BY <2>2, <3>1
        <4>2. start.connector # d
          BY <2>2, ReservationsAssumption
        <4>3. QED
          BY <3>1, <4>1, <4>2 DEF ClaimInv, ReservedIsHeld
      <3>2. QED
        BY <2>1, <2>3, <3>1 DEF ReservedIsHeld
    <2>11. QED
      BY <2>5, <2>6, <2>7, <2>8, <2>9, <2>10 DEF ClaimInv
  <1>15. ASSUME StartDisarm PROVE ClaimInv'
    <2>1. UNCHANGED <<status, plugged, reservations, armed, handler, used, reported>>
      BY <1>15 DEF StartDisarm
    <2>2. /\ start'.connector = start.connector /\ start'.consumed = start.consumed
          /\ start.consumed \subseteq Ids
      BY <1>15 DEF BInv, StartDisarm, StartType, StartRec
    <2>3. timers' = [id \in Ids |-> IF id \in start.consumed THEN 0 ELSE timers[id]]
      BY <1>15 DEF StartDisarm
    <2>4. \A a \in Arms : /\ timer'[a].id = timer[a].id /\ timer'[a].connector = timer[a].connector
                          /\ timer'[a].pc = "unborn" <=> timer[a].pc = "unborn"
                          /\ timer[a].pc \in {"check", "free"} => timer'[a].pc = timer[a].pc
                          /\ timer'[a].pc \in {"check", "free"} => timer'[a].pc = timer[a].pc
      <3>1. TimersEnd({timers[id] : id \in start.consumed} \ {0})
        BY <1>15, Aborts DEF BInv, StartDisarm
      <3>2. \A a \in {timers[id] : id \in start.consumed} \ {0} : timer[a].pc \notin {"check", "free"}
        BY <2>2 DEF BInv, MapTypes, ClaimInv, HandleInv, TimerClaims, StartHas, TimerHas
      <3>3. QED
        BY <3>1, <3>2 DEF TimersEnd, Born
    <2>5. ReportedOnce'
      BY <2>1 DEF ClaimInv, ReportedOnce
    <2>6. FreshInv'
      BY <2>1, <2>2, <2>3, <2>4 DEF ClaimInv, FreshInv, StartHas
    <2>7. TimerOfInv'
      BY <2>1, <2>2, <2>3, <2>4 DEF ClaimInv, TimerOfInv, Born
    <2>8. HandleInv'
      BY <2>1, <2>2, <2>3, <2>4 DEF ClaimInv, HandleInv, Born, BInv, MapTypes, HandlerInv
    <2>9. HeldInv'
      BY <2>1, <2>2, <2>3, <2>4 DEF ClaimInv, HeldInv, HandlerHas, StartHas, TimerHas
    <2>10. HandlerClaim'
      BY <2>1, <2>2, <2>3, <2>4 DEF ClaimInv, HandlerClaim, HandlerHas, StartHas, TimerHas
    <2>11. TimerClaims'
      BY <2>1, <2>2, <2>3, <2>4 DEF ClaimInv, TimerClaims, TimerHas, StartHas
    <2>12. ReservedIsHeld'
      BY <2>1, <2>2, <2>3, <2>4 DEF ClaimInv, ReservedIsHeld
    <2>13. QED
      BY <2>5, <2>6, <2>7, <2>8, <2>9, <2>10, <2>11, <2>12 DEF ClaimInv
  <1>16. ASSUME StartCharge PROVE ClaimInv'
    <2>1. UNCHANGED <<plugged, reservations, timers, timer, armed, handler, used, reported>>
      BY <1>16 DEF StartCharge
    <2>2. /\ status' = [status EXCEPT ![start.connector] = "Charging"]
          /\ start'.consumed = {}
      BY <1>16, Records DEF StartCharge
    <2>3. TimerOfInv' /\ HandleInv' /\ ReportedOnce'
      BY <2>1 DEF ClaimInv, TimerOfInv, Born, HandleInv, Born, ReportedOnce
    <2>4. FreshInv'
      BY <2>1, <2>2 DEF ClaimInv, FreshInv, StartHas
    <2>5. HeldInv'
      BY <2>1, <2>2 DEF ClaimInv, HeldInv, HandlerHas, StartHas, TimerHas
    <2>6. HandlerClaim'
      BY <2>1, <2>2 DEF ClaimInv, HandlerClaim, HandlerHas, StartHas, TimerHas
    <2>7. TimerClaims'
      BY <2>1, <2>2 DEF ClaimInv, TimerClaims, TimerHas, StartHas
    <2>8. ReservedIsHeld'
      BY <2>1, <2>2 DEF ClaimInv, ReservedIsHeld, BInv, StatusType
    <2>9. QED
      BY <2>3, <2>4, <2>5, <2>6, <2>7, <2>8 DEF ClaimInv
  <1>17. ASSUME NEW c \in Connectors, StopTransaction(c) PROVE ClaimInv'
    <2>1. UNCHANGED <<plugged, reservations, timers, timer, armed, handler, start, used, reported>>
      BY <1>17 DEF StopTransaction, SetStatus
    <2>2. \E s : /\ s = "Reserved" => status[c] = "Reserved"
              /\ status' = [status EXCEPT ![c] = s]
      BY <1>17 DEF StopTransaction, SetStatus
    <2>3. /\ FreshInv' /\ TimerOfInv' /\ HandleInv' /\ HeldInv'
          /\ HandlerClaim' /\ TimerClaims' /\ ReportedOnce'
      BY <2>1 DEF ClaimInv, FreshInv, StartHas, TimerOfInv, Born, HandleInv, Born, HeldInv,
         HandlerHas, StartHas, TimerHas, HandlerClaim, HandlerHas, StartHas, TimerHas, TimerClaims,
         TimerHas, StartHas, ReportedOnce
    <2>4. ReservedIsHeld'
      BY <2>1, <2>2 DEF ClaimInv, ReservedIsHeld, BInv, StatusType
    <2>5. QED
      BY <2>3, <2>4 DEF ClaimInv
  <1>18. ASSUME NEW c \in Connectors, PlugIn(c) PROVE ClaimInv'
    <2>1. UNCHANGED <<reservations, timers, timer, armed, handler, start, used, reported>>
      BY <1>18 DEF PlugIn, SetStatus
    <2>2. \E s : /\ s = "Reserved" => status[c] = "Reserved"
              /\ status' = [status EXCEPT ![c] = s]
      BY <1>18 DEF PlugIn, SetStatus
    <2>3. /\ FreshInv' /\ TimerOfInv' /\ HandleInv' /\ HeldInv'
          /\ HandlerClaim' /\ TimerClaims' /\ ReportedOnce'
      BY <2>1 DEF ClaimInv, FreshInv, StartHas, TimerOfInv, Born, HandleInv, Born, HeldInv,
         HandlerHas, StartHas, TimerHas, HandlerClaim, HandlerHas, StartHas, TimerHas, TimerClaims,
         TimerHas, StartHas, ReportedOnce
    <2>4. ReservedIsHeld'
      BY <2>1, <2>2 DEF ClaimInv, ReservedIsHeld, BInv, StatusType
    <2>5. QED
      BY <2>3, <2>4 DEF ClaimInv
  <1>19. ASSUME NEW c \in Connectors, PlugOut(c) PROVE ClaimInv'
    <2>1. UNCHANGED <<reservations, timers, timer, armed, handler, start, used, reported>>
      BY <1>19 DEF PlugOut, SetStatus
    <2>2. \E s : /\ s = "Reserved" => status[c] = "Reserved"
              /\ status' = [status EXCEPT ![c] = s]
      BY <1>19 DEF PlugOut, SetStatus
    <2>3. /\ FreshInv' /\ TimerOfInv' /\ HandleInv' /\ HeldInv'
          /\ HandlerClaim' /\ TimerClaims' /\ ReportedOnce'
      BY <2>1 DEF ClaimInv, FreshInv, StartHas, TimerOfInv, Born, HandleInv, Born, HeldInv,
         HandlerHas, StartHas, TimerHas, HandlerClaim, HandlerHas, StartHas, TimerHas, TimerClaims,
         TimerHas, StartHas, ReportedOnce
    <2>4. ReservedIsHeld'
      BY <2>1, <2>2 DEF ClaimInv, ReservedIsHeld, BInv, StatusType
    <2>5. QED
      BY <2>3, <2>4 DEF ClaimInv
  <1>20. ASSUME NEW c \in Connectors, SetFault(c) PROVE ClaimInv'
    <2>1. UNCHANGED <<plugged, reservations, timers, timer, armed, handler, start, used, reported>>
      BY <1>20 DEF SetFault, SetStatus
    <2>2. \E s : /\ s = "Reserved" => status[c] = "Reserved"
              /\ status' = [status EXCEPT ![c] = s]
      BY <1>20 DEF SetFault, SetStatus
    <2>3. /\ FreshInv' /\ TimerOfInv' /\ HandleInv' /\ HeldInv'
          /\ HandlerClaim' /\ TimerClaims' /\ ReportedOnce'
      BY <2>1 DEF ClaimInv, FreshInv, StartHas, TimerOfInv, Born, HandleInv, Born, HeldInv,
         HandlerHas, StartHas, TimerHas, HandlerClaim, HandlerHas, StartHas, TimerHas, TimerClaims,
         TimerHas, StartHas, ReportedOnce
    <2>4. ReservedIsHeld'
      BY <2>1, <2>2 DEF ClaimInv, ReservedIsHeld, BInv, StatusType
    <2>5. QED
      BY <2>3, <2>4 DEF ClaimInv
  <1>21. ASSUME NEW c \in Connectors, ClearFault(c) PROVE ClaimInv'
    <2>1. UNCHANGED <<plugged, reservations, timers, timer, armed, handler, start, used, reported>>
      BY <1>21 DEF ClearFault, SetStatus
    <2>2. \E s : /\ s = "Reserved" => status[c] = "Reserved"
              /\ status' = [status EXCEPT ![c] = s]
      BY <1>21 DEF ClearFault, SetStatus
    <2>3. /\ FreshInv' /\ TimerOfInv' /\ HandleInv' /\ HeldInv'
          /\ HandlerClaim' /\ TimerClaims' /\ ReportedOnce'
      BY <2>1 DEF ClaimInv, FreshInv, StartHas, TimerOfInv, Born, HandleInv, Born, HeldInv,
         HandlerHas, StartHas, TimerHas, HandlerClaim, HandlerHas, StartHas, TimerHas, TimerClaims,
         TimerHas, StartHas, ReportedOnce
    <2>4. ReservedIsHeld'
      BY <2>1, <2>2 DEF ClaimInv, ReservedIsHeld, BInv, StatusType
    <2>5. QED
      BY <2>3, <2>4 DEF ClaimInv
  <1>22. ASSUME NEW c \in Connectors, NEW s \in {"Available", "Unavailable"}, SetAvailability(c, s)
        PROVE ClaimInv'
    <2>1. UNCHANGED <<plugged, reservations, timers, timer, armed, handler, start, used, reported>>
      BY <1>22 DEF SetAvailability, SetStatus
    <2>2. status' = [status EXCEPT ![c] = s]
      BY <1>22 DEF SetAvailability, SetStatus
    <2>3. /\ FreshInv' /\ TimerOfInv' /\ HandleInv' /\ HeldInv'
          /\ HandlerClaim' /\ TimerClaims' /\ ReportedOnce'
      BY <2>1 DEF ClaimInv, FreshInv, StartHas, TimerOfInv, Born, HandleInv, Born, HeldInv,
         HandlerHas, StartHas, TimerHas, HandlerClaim, HandlerHas, StartHas, TimerHas, TimerClaims,
         TimerHas, StartHas, ReportedOnce
    <2>4. ReservedIsHeld'
      BY <2>1, <2>2 DEF ClaimInv, ReservedIsHeld, BInv, StatusType
    <2>5. QED
      BY <2>3, <2>4 DEF ClaimInv
  <1>23. CASE UNCHANGED vars
    BY <1>23 DEF vars, ClaimInv, FreshInv, TimerOfInv, HandleInv, HeldInv, HandlerClaim,
       TimerClaims, ReportedOnce, ReservedIsHeld, HandlerHas, TimerHas, StartHas, Born
  <1>24. QED
    BY <1>1, <1>2, <1>3, <1>4, <1>5, <1>6, <1>7, <1>8, <1>9, <1>10, <1>11, <1>12, <1>13, <1>14,
       <1>15, <1>16, <1>17, <1>18, <1>19, <1>20, <1>21, <1>22, <1>23
       DEF Next, HandlerStep, TimerStep, StartStep

-----------------------------------------------------------------------------
(* Theorems *)

\* The part of the invariant that needs nothing of the ids.
LEMMA InvarianceB == Spec => []BInv
  BY InitB, StepB, PTL DEF Spec

\* The part about who holds a Reserved connector, for ids used once.
LEMMA InvarianceClaim == ASSUME FreshIds PROVE Spec => []ClaimInv
  BY InitClaim, StepClaim, InvarianceB, PTL DEF Spec

\* The maps, the timer tasks and the running handler keep their types.
THEOREM TypeCorrect == Spec => []TypeOK
  <1>1. BInv => TypeOK
    BY DEF BInv, TypeOK, StatusType, PlugType, MapTypes, TimerType, TimerRec, TimerPcs,
       HandlerType, HandlerRec, HandlerPcs, StartType, StartRec
  <1>2. QED
    BY <1>1, InvarianceB, PTL

\* As long as the CSMS does not reuse a reservation id, no race of ReserveNow,
\* CancelReservation, expiry and start leaves a connector Reserved by nobody.
THEOREM ReservedIsHeldHolds == ASSUME FreshIds PROVE Spec => []ReservedIsHeld
  <1>1. ClaimInv => ReservedIsHeld
    BY DEF ClaimInv
  <1>2. QED
    BY <1>1, InvarianceClaim, PTL

\* Under the same condition the end of a reservation is reported at most once.
THEOREM ReportedOnceHolds == ASSUME FreshIds PROVE Spec => []ReportedOnce
  <1>1. ClaimInv => ReportedOnce
    BY DEF ClaimInv
  <1>2. QED
    BY <1>1, InvarianceClaim, PTL

\* Whatever the ids, a cancelled or expired reservation never takes a charging
\* connector from its transaction: the read guard spans check and write.
THEOREM ReleaseSparesChargingHolds == Spec => ReleaseSparesCharging
  <1>1. ASSUME BInv, CancelFree, NEW c \in Connectors, status[c] = "Charging"
        PROVE  status'[c] = "Charging"
    BY <1>1 DEF BInv, FreeInv, CancelFree, StatusType
  <1>2. ASSUME BInv, NEW a \in Arms, TimerFree(a), NEW c \in Connectors, status[c] = "Charging"
        PROVE  status'[c] = "Charging"
    BY <1>2 DEF BInv, FreeInv, TimerFree, StatusType
  <1>3. BInv /\ [Next]_vars =>
          [(CancelFree \/ \E a \in Arms : TimerFree(a)) =>
              \A c \in Connectors : status[c] = "Charging" => status'[c] = "Charging"]_vars
    BY <1>1, <1>2
  <1>4. QED
    BY <1>3, InvarianceB, PTL DEF Spec, ReleaseSparesCharging

============================================================================
