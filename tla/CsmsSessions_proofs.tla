------------------------- MODULE CsmsSessions_proofs -------------------------
(***************************************************************************)
(* Proofs about CsmsSessions, for any set of stations, sessions and CALLs. *)
(*                                                                         *)
(* RoutedIsLive is almost inductive: it needs that a session which is not  *)
(* past its teardown has an owner (OwnerInv).  AnswerFromTarget needs the  *)
(* chain from the wire to the caller: a frame exists only for a call that  *)
(* sent it (FrameInv), an entry of a pending map is that of a call whose   *)
(* cloned handle leads to that very map (PendingInv), and what is in the   *)
(* channel of a call that waits was answered on its session (SlotInv).     *)
(***************************************************************************)
EXTENDS CsmsSessions, TLAPS

Open == {"resolved", "registered", "sent"}

\* A session has an owner from its handshake on.
OwnerInv == \A s \in Sessions : sess[s] # "unused" => owner[s] \in Stations

\* verdict is "none" until call() returns.
VerdictInv == \A c \in Calls : verdict[c] = "none" <=> phase[c] # "done"

\* The cloned handle led to a session of the station the call is addressed to.
HomeInv ==
    \A c \in Calls :
        /\ phase[c] \in Open => home[c] \in Sessions
        /\ home[c] \in Sessions => /\ sess[home[c]] # "unused"
                                   /\ owner[home[c]] = target[c]
                                   /\ phase[c] # "idle"

\* A pending map holds only entries of calls that registered with it.
PendingInv ==
    \A s \in Sessions : \A c \in pending[s] : home[c] = s /\ phase[c] \in {"registered", "sent", "done"}

\* What is in the channel of a waiting call was answered on its session.  A call
\* that gave up may have put an error into its own channel.
SlotInv ==
    \A c \in Calls : \A kind \in AnswerKinds :
        phase[c] \in {"registered", "sent"} /\ slot[c] = kind => <<c, kind>> \in answers[home[c]]

\* What call() returned was answered on its session.
OutcomeInv ==
    \A c \in Calls :
        /\ verdict[c] \in {"ok", "invalid"} =>
               home[c] \in Sessions /\ <<c, "result">> \in answers[home[c]]
        /\ verdict[c] = "callerror" =>
               home[c] \in Sessions /\ <<c, "error">> \in answers[home[c]]

\* Frames and answers exist only for calls that have sent.
FrameInv ==
    /\ \A s \in Sessions : \A i \in DOMAIN outq[s] : phase[outq[s][i]] \in {"sent", "done"}
    /\ \A s \in Sessions : \A c \in wire[s] : phase[c] \in {"sent", "done"}

IInv ==
    /\ TypeOK
    /\ RoutedIsLive
    /\ OwnerInv
    /\ VerdictInv
    /\ HomeInv
    /\ PendingInv
    /\ SlotInv
    /\ OutcomeInv
    /\ FrameInv

-----------------------------------------------------------------------------
\* The initial state: no session, no call, no route.
LEMMA InitInv == Init => IInv
  <1> SUFFICES ASSUME Init PROVE IInv
    OBVIOUS
  <1>1. TypeOK
    BY DEF Init, TypeOK, SessionStates, Phases, Slots, Verdicts
  <1>2. QED
    BY <1>1, NoneAssumption DEF Init, IInv, RoutedIsLive, OwnerInv, VerdictInv, HomeInv,
       PendingInv, SlotInv, OutcomeInv, FrameInv, Open, AnswerKinds

\* Type correctness is preserved by every step.
LEMMA TypeStep == TypeOK /\ [Next]_vars => TypeOK'
  <1> SUFFICES ASSUME TypeOK, [Next]_vars PROVE TypeOK'
    OBVIOUS
  <1> USE NoneAssumption DEF TypeOK, SessionStates, Phases, Slots, Verdicts, AnswerKinds,
          routeVars, sessVars, mapVars, netVars, callVars
  <1>1. CASE UNCHANGED vars
    BY <1>1 DEF vars
  <1>2. ASSUME NEW c \in Calls, NEW cp \in Stations, CallRefused(c, cp) PROVE TypeOK'
    BY <1>2 DEF CallRefused, Return
  <1>3. ASSUME NEW c \in Calls, NEW cp \in Stations, CallResolve(c, cp) PROVE TypeOK'
    BY <1>3 DEF CallResolve
  <1>4. ASSUME NEW c \in Calls, CallRegister(c) PROVE TypeOK'
    BY <1>4 DEF CallRegister
  <1>5. ASSUME NEW c \in Calls, CallSend(c) PROVE TypeOK'
    <2>1. home[c] \in Sessions => outq' \in [Sessions -> Seq(Calls)]
      BY <1>5 DEF CallSend
    <2>2. home[c] \notin Sessions => outq' = outq
      BY <1>5 DEF CallSend
    <2>3. QED
      BY <1>5, <2>1, <2>2 DEF CallSend
  <1>6. ASSUME NEW c \in Calls, CallSendFails(c) PROVE TypeOK'
    BY <1>6 DEF CallSendFails, Settle, Return
  <1>7. ASSUME NEW c \in Calls, CallReturns(c) PROVE TypeOK'
    BY <1>7 DEF CallReturns, Received, Return
  <1>8. ASSUME NEW c \in Calls, CallTimesOut(c) PROVE TypeOK'
    BY <1>8 DEF CallTimesOut, Settle, Return
  <1>9. ASSUME NEW c \in Calls, CallCancelled(c) PROVE TypeOK'
    BY <1>9 DEF CallCancelled, Return
  <1>10. ASSUME NEW s \in Sessions, NEW cp \in Stations, Handshake(s, cp) PROVE TypeOK'
    BY <1>10 DEF Handshake
  <1>11. ASSUME NEW s \in Sessions, SessionStart(s) PROVE TypeOK'
    BY <1>11 DEF SessionStart
  <1>12. ASSUME NEW s \in Sessions, SessionSend(s) PROVE TypeOK'
    BY <1>12 DEF SessionSend
  <1>13. ASSUME NEW s \in Sessions, SessionSendFails(s) PROVE TypeOK'
    BY <1>13 DEF SessionSendFails
  <1>14. ASSUME NEW s \in Sessions, SessionReceive(s) PROVE TypeOK'
    BY <1>14 DEF SessionReceive, Settle
  <1>15. ASSUME NEW s \in Sessions, SessionBreak(s) PROVE TypeOK'
    BY <1>15 DEF SessionBreak
  <1>16. ASSUME NEW s \in Sessions, SessionOrphaned(s) PROVE TypeOK'
    BY <1>16 DEF SessionOrphaned
  <1>17. ASSUME NEW s \in Sessions, SessionUnroute(s) PROVE TypeOK'
    BY <1>17 DEF SessionUnroute
  <1>18. ASSUME NEW s \in Sessions, SessionCancelAll(s) PROVE TypeOK'
    BY <1>18 DEF SessionCancelAll, CancelAllOf
  <1>19. ASSUME NEW s \in Sessions, SessionGone(s) PROVE TypeOK'
    BY <1>19 DEF SessionGone
  <1>20. ASSUME NEW s \in Sessions, CleanupIdle(s) PROVE TypeOK'
    BY <1>20 DEF CleanupIdle
  <1>21. ASSUME StopCancel PROVE TypeOK'
    BY <1>21 DEF StopCancel, CancelAllOf
  <1>22. ASSUME StopClear PROVE TypeOK'
    BY <1>22 DEF StopClear
  <1>23. ASSUME NEW c \in Calls, NEW s \in Sessions, StationAnswers(c, s) PROVE TypeOK'
    BY <1>23 DEF StationAnswers
  <1>24. QED
    BY <1>1, <1>2, <1>3, <1>4, <1>5, <1>6, <1>7, <1>8, <1>9, <1>10, <1>11, <1>12, <1>13, <1>14,
       <1>15, <1>16, <1>17, <1>18, <1>19, <1>20, <1>21, <1>22, <1>23
       DEF Next, CallStep, SessionStep

\* A step keeps SlotInv if every waiting call whose channel holds an answer waited
\* with that answer before, on the same session.
LEMMA SlotKept ==
  ASSUME HomeInv, SlotInv,
         \A s \in Sessions : answers[s] \subseteq answers'[s],
         \A d \in Calls : phase'[d] \in {"registered", "sent"} =>
             \/ slot'[d] \notin AnswerKinds
             \/ /\ phase[d] \in {"registered", "sent"}
                /\ home'[d] = home[d] /\ slot'[d] = slot[d]
  PROVE  SlotInv'
  <1> SUFFICES ASSUME NEW d \in Calls, NEW kind \in AnswerKinds,
                      phase'[d] \in {"registered", "sent"}, slot'[d] = kind
               PROVE  <<d, kind>> \in answers'[home'[d]]
    BY DEF SlotInv
  <1>1. /\ phase[d] \in {"registered", "sent"}
        /\ home'[d] = home[d] /\ slot[d] = kind
    OBVIOUS
  <1>2. home[d] \in Sessions /\ <<d, kind>> \in answers[home[d]]
    BY <1>1 DEF SlotInv, HomeInv, Open
  <1>3. QED
    BY <1>1, <1>2

\* A step keeps OutcomeInv if no call returns an answer in it.
LEMMA OutcomeKept ==
  ASSUME OutcomeInv,
         \A s \in Sessions : answers[s] \subseteq answers'[s],
         \A d \in Calls : \/ verdict'[d] \notin {"ok", "invalid", "callerror"}
                          \/ verdict'[d] = verdict[d] /\ home'[d] = home[d]
  PROVE  OutcomeInv'
  <1> SUFFICES ASSUME NEW d \in Calls, verdict'[d] \in {"ok", "invalid", "callerror"}
               PROVE  /\ verdict'[d] \in {"ok", "invalid"} =>
                           home'[d] \in Sessions /\ <<d, "result">> \in answers'[home'[d]]
                      /\ verdict'[d] = "callerror" =>
                           home'[d] \in Sessions /\ <<d, "error">> \in answers'[home'[d]]
    BY DEF OutcomeInv
  <1>1. verdict'[d] = verdict[d] /\ home'[d] = home[d]
    OBVIOUS
  <1>2. QED
    BY <1>1 DEF OutcomeInv

\* Every step preserves the inductive invariant.
LEMMA InvStep == IInv /\ [Next]_vars => IInv'
  <1> SUFFICES ASSUME IInv, [Next]_vars PROVE IInv'
    OBVIOUS
  <1> DEFINE Rest == /\ RoutedIsLive /\ OwnerInv /\ VerdictInv /\ HomeInv
                     /\ PendingInv /\ SlotInv /\ OutcomeInv /\ FrameInv
  <1>t. TypeOK /\ TypeOK'
    BY TypeStep DEF IInv
  <1>r. Rest
    BY DEF IInv
  <1>1. CASE UNCHANGED vars
    BY <1>1, <1>r, <1>t DEF vars, RoutedIsLive, OwnerInv, VerdictInv, HomeInv, PendingInv, SlotInv,
                      OutcomeInv, FrameInv, IInv, Open
  <1> USE <1>t, <1>r, NoneAssumption
      DEF TypeOK, Open, SessionStates, Phases, Slots, Verdicts, AnswerKinds,
          routeVars, sessVars, mapVars, netVars, callVars
  <1>2. ASSUME NEW c \in Calls, NEW cp \in Stations, CallRefused(c, cp) PROVE Rest'
    <2>1. RoutedIsLive' /\ OwnerInv'
      BY <1>2 DEF CallRefused, Return, RoutedIsLive, OwnerInv
    <2>2. VerdictInv' /\ HomeInv'
      BY <1>2 DEF CallRefused, Return, VerdictInv, HomeInv, RoutedIsLive
    <2>3. PendingInv'
      BY <1>2 DEF CallRefused, Return, PendingInv, HomeInv
    <2>4. SlotInv'
      BY <1>2, SlotKept DEF CallRefused, Return
    <2>5. OutcomeInv'
      BY <1>2, OutcomeKept DEF CallRefused, Return, VerdictInv
    <2>6. FrameInv'
      BY <1>2 DEF CallRefused, Return, FrameInv
    <2>7. QED
      BY <2>1, <2>2, <2>3, <2>4, <2>5, <2>6
  <1>3. ASSUME NEW c \in Calls, NEW cp \in Stations, CallResolve(c, cp) PROVE Rest'
    <2>1. RoutedIsLive' /\ OwnerInv'
      BY <1>3 DEF CallResolve, RoutedIsLive, OwnerInv
    <2>2. VerdictInv' /\ HomeInv'
      <3>0. handle[cp] # NoSession /\ handle[cp] \in Sessions
        BY <1>3 DEF CallResolve
      <3>1. owner[handle[cp]] = cp /\ sess[handle[cp]] # "unused"
        <4>1. owner[handle[cp]] = cp /\ sess[handle[cp]] \in {"open", "broken"}
          BY <3>0 DEF RoutedIsLive
        <4>2. QED
          BY <4>1
      <3>2. VerdictInv'
        BY <1>3 DEF CallResolve, VerdictInv
      <3>3. HomeInv'
        BY <1>3, <3>0, <3>1 DEF CallResolve, HomeInv
      <3>4. QED
        BY <3>2, <3>3
    <2>3. PendingInv'
      BY <1>3 DEF CallResolve, PendingInv, HomeInv
    <2>4. SlotInv'
      BY <1>3, SlotKept DEF CallResolve
    <2>5. OutcomeInv'
      <3>1. verdict' = verdict /\ answers' = answers /\ verdict[c] = "none"
        BY <1>3 DEF CallResolve, VerdictInv
      <3>2. \A d \in Calls : d # c => home'[d] = home[d]
        BY <1>3 DEF CallResolve
      <3>3. QED
        BY <3>1, <3>2, OutcomeKept
    <2>6. FrameInv'
      BY <1>3 DEF CallResolve, FrameInv
    <2>7. QED
      BY <2>1, <2>2, <2>3, <2>4, <2>5, <2>6
  <1>4. ASSUME NEW c \in Calls, CallRegister(c) PROVE Rest'
    <2>1. RoutedIsLive' /\ OwnerInv'
      BY <1>4 DEF CallRegister, RoutedIsLive, OwnerInv
    <2>2. VerdictInv' /\ HomeInv'
      BY <1>4 DEF CallRegister, VerdictInv, HomeInv, RoutedIsLive
    <2>3. PendingInv'
      BY <1>4 DEF CallRegister, PendingInv, HomeInv
    <2>4. SlotInv'
      BY <1>4, SlotKept DEF CallRegister
    <2>5. OutcomeInv'
      BY <1>4 DEF CallRegister, OutcomeInv, VerdictInv, HomeInv, SlotInv
    <2>6. FrameInv'
      BY <1>4 DEF CallRegister, FrameInv
    <2>7. QED
      BY <2>1, <2>2, <2>3, <2>4, <2>5, <2>6
  <1>5. ASSUME NEW c \in Calls, CallSend(c) PROVE Rest'
    <2>1. RoutedIsLive' /\ OwnerInv'
      BY <1>5 DEF CallSend, RoutedIsLive, OwnerInv
    <2>2. VerdictInv' /\ HomeInv'
      BY <1>5 DEF CallSend, VerdictInv, HomeInv, RoutedIsLive
    <2>3. PendingInv'
      BY <1>5 DEF CallSend, PendingInv, HomeInv
    <2>4. SlotInv'
      BY <1>5, SlotKept DEF CallSend
    <2>5. OutcomeInv'
      BY <1>5 DEF CallSend, OutcomeInv, VerdictInv, HomeInv, SlotInv
    <2>6. FrameInv'
      BY <1>5 DEF CallSend, FrameInv
    <2>7. QED
      BY <2>1, <2>2, <2>3, <2>4, <2>5, <2>6
  <1>6. ASSUME NEW c \in Calls, CallSendFails(c) PROVE Rest'
    <2>1. RoutedIsLive' /\ OwnerInv'
      BY <1>6 DEF CallSendFails, Settle, Return, RoutedIsLive, OwnerInv
    <2>2. VerdictInv' /\ HomeInv'
      BY <1>6 DEF CallSendFails, Settle, Return, VerdictInv, HomeInv, RoutedIsLive
    <2>3. PendingInv'
      BY <1>6 DEF CallSendFails, Settle, Return, PendingInv, HomeInv
    <2>4. SlotInv'
      BY <1>6, SlotKept DEF CallSendFails, Settle, Return
    <2>5. OutcomeInv'
      BY <1>6, OutcomeKept DEF CallSendFails, Settle, Return, VerdictInv
    <2>6. FrameInv'
      BY <1>6 DEF CallSendFails, Settle, Return, FrameInv
    <2>7. QED
      BY <2>1, <2>2, <2>3, <2>4, <2>5, <2>6
  <1>7. ASSUME NEW c \in Calls, CallReturns(c) PROVE Rest'
    <2>1. RoutedIsLive' /\ OwnerInv'
      BY <1>7 DEF CallReturns, Received, Return, RoutedIsLive, OwnerInv
    <2>2. VerdictInv' /\ HomeInv'
      BY <1>7 DEF CallReturns, Received, Return, VerdictInv, HomeInv, RoutedIsLive
    <2>3. PendingInv'
      BY <1>7 DEF CallReturns, Received, Return, PendingInv, HomeInv
    <2>4. SlotInv'
      BY <1>7, SlotKept DEF CallReturns, Received, Return
    <2>5. OutcomeInv'
      <3>1. PICK o \in Verdicts : <<slot[c], o>> \in Received /\ Return(c, o)
        BY <1>7 DEF CallReturns
      <3>2. /\ o \in {"ok", "invalid"} => slot[c] = "result"
            /\ o = "callerror" => slot[c] = "error"
        BY <3>1 DEF Received
      <3>3. /\ answers' = answers /\ home' = home
            /\ verdict' = [verdict EXCEPT ![c] = o]
        BY <1>7, <3>1 DEF CallReturns, Return
      <3>4. home[c] \in Sessions
        BY <1>7 DEF CallReturns, HomeInv
      <3> SUFFICES ASSUME NEW d \in Calls
                   PROVE  /\ verdict'[d] \in {"ok", "invalid"} =>
                               home[d] \in Sessions /\ <<d, "result">> \in answers[home[d]]
                          /\ verdict'[d] = "callerror" =>
                               home[d] \in Sessions /\ <<d, "error">> \in answers[home[d]]
        BY <3>3 DEF OutcomeInv
      <3>5. CASE d = c
        <4>1. verdict'[d] = o /\ phase[c] = "sent"
          BY <1>7, <3>3, <3>5 DEF CallReturns
        <4>2. QED
          BY <3>2, <3>4, <3>5, <4>1 DEF SlotInv
      <3>6. CASE d # c
        <4>1. verdict'[d] = verdict[d]
          BY <3>3, <3>6
        <4>2. QED
          BY <4>1 DEF OutcomeInv
      <3>7. QED
        BY <3>5, <3>6
    <2>6. FrameInv'
      BY <1>7 DEF CallReturns, Received, Return, FrameInv
    <2>7. QED
      BY <2>1, <2>2, <2>3, <2>4, <2>5, <2>6
  <1>8. ASSUME NEW c \in Calls, CallTimesOut(c) PROVE Rest'
    <2>1. RoutedIsLive' /\ OwnerInv'
      BY <1>8 DEF CallTimesOut, Settle, Return, RoutedIsLive, OwnerInv
    <2>2. VerdictInv' /\ HomeInv'
      BY <1>8 DEF CallTimesOut, Settle, Return, VerdictInv, HomeInv, RoutedIsLive
    <2>3. PendingInv'
      BY <1>8 DEF CallTimesOut, Settle, Return, PendingInv, HomeInv
    <2>4. SlotInv'
      BY <1>8, SlotKept DEF CallTimesOut, Settle, Return
    <2>5. OutcomeInv'
      BY <1>8, OutcomeKept DEF CallTimesOut, Settle, Return, VerdictInv
    <2>6. FrameInv'
      BY <1>8 DEF CallTimesOut, Settle, Return, FrameInv
    <2>7. QED
      BY <2>1, <2>2, <2>3, <2>4, <2>5, <2>6
  <1>9. ASSUME NEW c \in Calls, CallCancelled(c) PROVE Rest'
    <2>1. RoutedIsLive' /\ OwnerInv'
      BY <1>9 DEF CallCancelled, Return, RoutedIsLive, OwnerInv
    <2>2. VerdictInv' /\ HomeInv'
      BY <1>9 DEF CallCancelled, Return, VerdictInv, HomeInv, RoutedIsLive
    <2>3. PendingInv'
      BY <1>9 DEF CallCancelled, Return, PendingInv, HomeInv
    <2>4. SlotInv'
      BY <1>9, SlotKept DEF CallCancelled, Return
    <2>5. OutcomeInv'
      BY <1>9, OutcomeKept DEF CallCancelled, Return, VerdictInv
    <2>6. FrameInv'
      BY <1>9 DEF CallCancelled, Return, FrameInv
    <2>7. QED
      BY <2>1, <2>2, <2>3, <2>4, <2>5, <2>6
  <1>10. ASSUME NEW s \in Sessions, NEW cp \in Stations, Handshake(s, cp) PROVE Rest'
    <2>1. RoutedIsLive' /\ OwnerInv'
      BY <1>10 DEF Handshake, RoutedIsLive, OwnerInv
    <2>2. VerdictInv' /\ HomeInv'
      BY <1>10 DEF Handshake, VerdictInv, HomeInv, RoutedIsLive
    <2>3. PendingInv'
      BY <1>10 DEF Handshake, PendingInv, HomeInv
    <2>4. SlotInv'
      BY <1>10 DEF Handshake, SlotInv, HomeInv, PendingInv
    <2>5. OutcomeInv'
      BY <1>10 DEF Handshake, OutcomeInv, VerdictInv, HomeInv, SlotInv
    <2>6. FrameInv'
      BY <1>10 DEF Handshake, FrameInv
    <2>7. QED
      BY <2>1, <2>2, <2>3, <2>4, <2>5, <2>6
  <1>11. ASSUME NEW s \in Sessions, SessionStart(s) PROVE Rest'
    <2>1. RoutedIsLive' /\ OwnerInv'
      BY <1>11 DEF SessionStart, RoutedIsLive, OwnerInv
    <2>2. VerdictInv' /\ HomeInv'
      BY <1>11 DEF SessionStart, VerdictInv, HomeInv, RoutedIsLive
    <2>3. PendingInv'
      BY <1>11 DEF SessionStart, PendingInv, HomeInv
    <2>4. SlotInv'
      BY <1>11 DEF SessionStart, SlotInv, HomeInv, PendingInv
    <2>5. OutcomeInv'
      BY <1>11 DEF SessionStart, OutcomeInv, VerdictInv, HomeInv, SlotInv
    <2>6. FrameInv'
      BY <1>11 DEF SessionStart, FrameInv
    <2>7. QED
      BY <2>1, <2>2, <2>3, <2>4, <2>5, <2>6
  <1>12. ASSUME NEW s \in Sessions, SessionSend(s) PROVE Rest'
    <2>1. RoutedIsLive' /\ OwnerInv'
      BY <1>12 DEF SessionSend, RoutedIsLive, OwnerInv
    <2>2. VerdictInv' /\ HomeInv'
      BY <1>12 DEF SessionSend, VerdictInv, HomeInv, RoutedIsLive
    <2>3. PendingInv'
      BY <1>12 DEF SessionSend, PendingInv, HomeInv
    <2>4. SlotInv'
      BY <1>12 DEF SessionSend, SlotInv, HomeInv, PendingInv
    <2>5. OutcomeInv'
      BY <1>12 DEF SessionSend, OutcomeInv, VerdictInv, HomeInv, SlotInv
    <2>6. FrameInv'
      BY <1>12 DEF SessionSend, FrameInv
    <2>7. QED
      BY <2>1, <2>2, <2>3, <2>4, <2>5, <2>6
  <1>13. ASSUME NEW s \in Sessions, SessionSendFails(s) PROVE Rest'
    <2>1. RoutedIsLive' /\ OwnerInv'
      BY <1>13 DEF SessionSendFails, RoutedIsLive, OwnerInv
    <2>2. VerdictInv' /\ HomeInv'
      BY <1>13 DEF SessionSendFails, VerdictInv, HomeInv, RoutedIsLive
    <2>3. PendingInv'
      BY <1>13 DEF SessionSendFails, PendingInv, HomeInv
    <2>4. SlotInv'
      BY <1>13 DEF SessionSendFails, SlotInv, HomeInv, PendingInv
    <2>5. OutcomeInv'
      BY <1>13 DEF SessionSendFails, OutcomeInv, VerdictInv, HomeInv, SlotInv
    <2>6. FrameInv'
      BY <1>13 DEF SessionSendFails, FrameInv
    <2>7. QED
      BY <2>1, <2>2, <2>3, <2>4, <2>5, <2>6
  <1>14. ASSUME NEW s \in Sessions, SessionReceive(s) PROVE Rest'
    <2>1. RoutedIsLive' /\ OwnerInv'
      BY <1>14 DEF SessionReceive, Settle, RoutedIsLive, OwnerInv
    <2>2. VerdictInv' /\ HomeInv'
      BY <1>14 DEF SessionReceive, Settle, VerdictInv, HomeInv, RoutedIsLive
    <2>3. PendingInv'
      BY <1>14 DEF SessionReceive, Settle, PendingInv, HomeInv
    <2>4. SlotInv'
      <3>1. PICK a \in answers[s] : Settle(a[1], s, a[2])
        BY <1>14 DEF SessionReceive
      <3>2. a = <<a[1], a[2]>> /\ a[1] \in Calls /\ a[2] \in AnswerKinds
        OBVIOUS
      <3>3. answers' = answers /\ home' = home /\ phase' = phase
        BY <1>14 DEF SessionReceive
      <3> SUFFICES ASSUME NEW d \in Calls, NEW kind \in AnswerKinds,
                          phase[d] \in {"registered", "sent"}, slot'[d] = kind
                   PROVE  <<d, kind>> \in answers[home[d]]
        BY <3>3 DEF SlotInv
      <3>4. CASE d = a[1] /\ d \in pending[s]
        <4>1. kind = a[2] /\ home[d] = s
          BY <3>1, <3>2, <3>4 DEF Settle, PendingInv
        <4>2. <<d, kind>> = a
          BY <3>2, <3>4, <4>1
        <4>3. QED
          BY <4>1, <4>2
      <3>5. CASE ~(d = a[1] /\ d \in pending[s])
        <4>1. slot[d] = kind
          BY <3>1, <3>2, <3>5 DEF Settle
        <4>2. QED
          BY <4>1 DEF SlotInv
      <3>6. QED
        BY <3>4, <3>5
    <2>5. OutcomeInv'
      BY <1>14 DEF SessionReceive, Settle, OutcomeInv, VerdictInv, HomeInv, SlotInv
    <2>6. FrameInv'
      BY <1>14 DEF SessionReceive, Settle, FrameInv
    <2>7. QED
      BY <2>1, <2>2, <2>3, <2>4, <2>5, <2>6
  <1>15. ASSUME NEW s \in Sessions, SessionBreak(s) PROVE Rest'
    <2>1. RoutedIsLive' /\ OwnerInv'
      BY <1>15 DEF SessionBreak, RoutedIsLive, OwnerInv
    <2>2. VerdictInv' /\ HomeInv'
      BY <1>15 DEF SessionBreak, VerdictInv, HomeInv, RoutedIsLive
    <2>3. PendingInv'
      BY <1>15 DEF SessionBreak, PendingInv, HomeInv
    <2>4. SlotInv'
      BY <1>15 DEF SessionBreak, SlotInv, HomeInv, PendingInv
    <2>5. OutcomeInv'
      BY <1>15 DEF SessionBreak, OutcomeInv, VerdictInv, HomeInv, SlotInv
    <2>6. FrameInv'
      BY <1>15 DEF SessionBreak, FrameInv
    <2>7. QED
      BY <2>1, <2>2, <2>3, <2>4, <2>5, <2>6
  <1>16. ASSUME NEW s \in Sessions, SessionOrphaned(s) PROVE Rest'
    <2>1. RoutedIsLive' /\ OwnerInv'
      BY <1>16 DEF SessionOrphaned, RoutedIsLive, OwnerInv
    <2>2. VerdictInv' /\ HomeInv'
      BY <1>16 DEF SessionOrphaned, VerdictInv, HomeInv, RoutedIsLive
    <2>3. PendingInv'
      BY <1>16 DEF SessionOrphaned, PendingInv, HomeInv
    <2>4. SlotInv'
      BY <1>16 DEF SessionOrphaned, SlotInv, HomeInv, PendingInv
    <2>5. OutcomeInv'
      BY <1>16 DEF SessionOrphaned, OutcomeInv, VerdictInv, HomeInv, SlotInv
    <2>6. FrameInv'
      BY <1>16 DEF SessionOrphaned, FrameInv
    <2>7. QED
      BY <2>1, <2>2, <2>3, <2>4, <2>5, <2>6
  <1>17. ASSUME NEW s \in Sessions, SessionUnroute(s) PROVE Rest'
    <2>1. RoutedIsLive' /\ OwnerInv'
      BY <1>17 DEF SessionUnroute, RoutedIsLive, OwnerInv
    <2>2. VerdictInv' /\ HomeInv'
      BY <1>17 DEF SessionUnroute, VerdictInv, HomeInv, RoutedIsLive
    <2>3. PendingInv'
      BY <1>17 DEF SessionUnroute, PendingInv, HomeInv
    <2>4. SlotInv'
      BY <1>17 DEF SessionUnroute, SlotInv, HomeInv, PendingInv
    <2>5. OutcomeInv'
      BY <1>17 DEF SessionUnroute, OutcomeInv, VerdictInv, HomeInv, SlotInv
    <2>6. FrameInv'
      BY <1>17 DEF SessionUnroute, FrameInv
    <2>7. QED
      BY <2>1, <2>2, <2>3, <2>4, <2>5, <2>6
  <1>18. ASSUME NEW s \in Sessions, SessionCancelAll(s) PROVE Rest'
    <2>1. RoutedIsLive' /\ OwnerInv'
      BY <1>18 DEF SessionCancelAll, CancelAllOf, RoutedIsLive, OwnerInv
    <2>2. VerdictInv' /\ HomeInv'
      BY <1>18 DEF SessionCancelAll, CancelAllOf, VerdictInv, HomeInv, RoutedIsLive
    <2>3. PendingInv'
      BY <1>18 DEF SessionCancelAll, CancelAllOf, PendingInv, HomeInv
    <2>4. SlotInv'
      BY <1>18 DEF SessionCancelAll, CancelAllOf, SlotInv, HomeInv, PendingInv
    <2>5. OutcomeInv'
      BY <1>18 DEF SessionCancelAll, CancelAllOf, OutcomeInv, VerdictInv, HomeInv, SlotInv
    <2>6. FrameInv'
      BY <1>18 DEF SessionCancelAll, CancelAllOf, FrameInv
    <2>7. QED
      BY <2>1, <2>2, <2>3, <2>4, <2>5, <2>6
  <1>19. ASSUME NEW s \in Sessions, SessionGone(s) PROVE Rest'
    <2>1. RoutedIsLive' /\ OwnerInv'
      BY <1>19 DEF SessionGone, RoutedIsLive, OwnerInv
    <2>2. VerdictInv' /\ HomeInv'
      BY <1>19 DEF SessionGone, VerdictInv, HomeInv, RoutedIsLive
    <2>3. PendingInv'
      BY <1>19 DEF SessionGone, PendingInv, HomeInv
    <2>4. SlotInv'
      BY <1>19 DEF SessionGone, SlotInv, HomeInv, PendingInv
    <2>5. OutcomeInv'
      BY <1>19 DEF SessionGone, OutcomeInv, VerdictInv, HomeInv, SlotInv
    <2>6. FrameInv'
      BY <1>19 DEF SessionGone, FrameInv
    <2>7. QED
      BY <2>1, <2>2, <2>3, <2>4, <2>5, <2>6
  <1>20. ASSUME NEW s \in Sessions, CleanupIdle(s) PROVE Rest'
    <2>1. RoutedIsLive' /\ OwnerInv'
      BY <1>20 DEF CleanupIdle, RoutedIsLive, OwnerInv
    <2>2. VerdictInv' /\ HomeInv'
      BY <1>20 DEF CleanupIdle, VerdictInv, HomeInv, RoutedIsLive
    <2>3. PendingInv'
      BY <1>20 DEF CleanupIdle, PendingInv, HomeInv
    <2>4. SlotInv'
      BY <1>20 DEF CleanupIdle, SlotInv, HomeInv, PendingInv
    <2>5. OutcomeInv'
      BY <1>20 DEF CleanupIdle, OutcomeInv, VerdictInv, HomeInv, SlotInv
    <2>6. FrameInv'
      BY <1>20 DEF CleanupIdle, FrameInv
    <2>7. QED
      BY <2>1, <2>2, <2>3, <2>4, <2>5, <2>6
  <1>21. ASSUME StopCancel PROVE Rest'
    <2>1. RoutedIsLive' /\ OwnerInv'
      BY <1>21 DEF StopCancel, CancelAllOf, RoutedIsLive, OwnerInv
    <2>2. VerdictInv' /\ HomeInv'
      BY <1>21 DEF StopCancel, CancelAllOf, VerdictInv, HomeInv, RoutedIsLive
    <2>3. PendingInv'
      BY <1>21 DEF StopCancel, CancelAllOf, PendingInv, HomeInv
    <2>4. SlotInv'
      BY <1>21 DEF StopCancel, CancelAllOf, SlotInv, HomeInv, PendingInv
    <2>5. OutcomeInv'
      BY <1>21 DEF StopCancel, CancelAllOf, OutcomeInv, VerdictInv, HomeInv, SlotInv
    <2>6. FrameInv'
      BY <1>21 DEF StopCancel, CancelAllOf, FrameInv
    <2>7. QED
      BY <2>1, <2>2, <2>3, <2>4, <2>5, <2>6
  <1>22. ASSUME StopClear PROVE Rest'
    <2>1. RoutedIsLive' /\ OwnerInv'
      BY <1>22 DEF StopClear, RoutedIsLive, OwnerInv
    <2>2. VerdictInv' /\ HomeInv'
      BY <1>22 DEF StopClear, VerdictInv, HomeInv, RoutedIsLive
    <2>3. PendingInv'
      BY <1>22 DEF StopClear, PendingInv, HomeInv
    <2>4. SlotInv'
      BY <1>22 DEF StopClear, SlotInv, HomeInv, PendingInv
    <2>5. OutcomeInv'
      BY <1>22 DEF StopClear, OutcomeInv, VerdictInv, HomeInv, SlotInv
    <2>6. FrameInv'
      BY <1>22 DEF StopClear, FrameInv
    <2>7. QED
      BY <2>1, <2>2, <2>3, <2>4, <2>5, <2>6
  <1>23. ASSUME NEW c \in Calls, NEW s \in Sessions, StationAnswers(c, s) PROVE Rest'
    <2>1. RoutedIsLive' /\ OwnerInv'
      BY <1>23 DEF StationAnswers, RoutedIsLive, OwnerInv
    <2>2. VerdictInv' /\ HomeInv'
      BY <1>23 DEF StationAnswers, VerdictInv, HomeInv, RoutedIsLive
    <2>3. PendingInv'
      BY <1>23 DEF StationAnswers, PendingInv, HomeInv
    <2>4. SlotInv'
      BY <1>23, SlotKept DEF StationAnswers
    <2>5. OutcomeInv'
      BY <1>23, OutcomeKept DEF StationAnswers, VerdictInv
    <2>6. FrameInv'
      BY <1>23 DEF StationAnswers, FrameInv
    <2>7. QED
      BY <2>1, <2>2, <2>3, <2>4, <2>5, <2>6
  <1>24. QED
    BY <1>1, <1>2, <1>3, <1>4, <1>5, <1>6, <1>7, <1>8, <1>9, <1>10, <1>11, <1>12, <1>13, <1>14,
       <1>15, <1>16, <1>17, <1>18, <1>19, <1>20, <1>21, <1>22, <1>23
       DEF Next, CallStep, SessionStep, IInv

-----------------------------------------------------------------------------
\* IInv holds in every reachable state.
LEMMA Invariance == Spec => []IInv
  BY InitInv, InvStep, PTL DEF Spec

\* Every variable keeps its type, whatever the order of sessions, teardowns,
\* calls and stop.
THEOREM TypeCorrect == Spec => []TypeOK
  <1>1. IInv => TypeOK
    BY DEF IInv
  <1>2. QED
    BY <1>1, Invariance, PTL

\* However many sessions a station owns and however their teardowns race with a
\* new one, cp_handles leads to a session of that station that is not torn down.
THEOREM RoutedIsLiveHolds == Spec => []RoutedIsLive
  <1>1. IInv => RoutedIsLive
    BY DEF IInv
  <1>2. QED
    BY <1>1, Invariance, PTL

\* `OcppServer::call` returns an answer only if the station it was addressed to
\* gave it to that unique_id, on the session the call resolved.
THEOREM AnswerFromTargetHolds == Spec => []AnswerFromTarget
  <1>1. IInv => AnswerFromTarget
    <2> SUFFICES ASSUME IInv, NEW c \in Calls, NEW kind \in AnswerKinds,
                        verdict[c] \in Verdicts, <<kind, verdict[c]>> \in Received
                 PROVE  owner[home[c]] = target[c] /\ <<c, kind>> \in answers[home[c]]
      BY DEF AnswerFromTarget
    <2>1. \/ kind = "result" /\ verdict[c] \in {"ok", "invalid"}
          \/ kind = "error" /\ verdict[c] = "callerror"
      BY DEF Received, AnswerKinds
    <2>2. home[c] \in Sessions /\ <<c, kind>> \in answers[home[c]]
      BY <2>1 DEF IInv, OutcomeInv
    <2>3. owner[home[c]] = target[c]
      BY <2>2 DEF IInv, HomeInv
    <2>4. QED
      BY <2>2, <2>3
  <1>2. QED
    BY <1>1, Invariance, PTL

\* Issue #50: no step takes the route to an open session away, but stop().
LEMMA RouteStep ==
  ASSUME TypeOK, [Next]_vars, NEW cp \in Stations,
         handle[cp] # NoSession, handle'[cp] = NoSession
  PROVE  sess[handle[cp]] = "broken" \/ server = "stopping"
  <1> USE NoneAssumption DEF TypeOK, routeVars
  <1>1. CASE handle' = handle
    BY <1>1
  <1>2. ASSUME NEW s \in Sessions, SessionStart(s) PROVE FALSE
    <2>1. handle'[cp] = handle[cp] \/ handle'[cp] = s
      BY <1>2 DEF SessionStart
    <2>2. QED
      BY <2>1
  <1>3. ASSUME NEW s \in Sessions, SessionUnroute(s) PROVE sess[handle[cp]] = "broken"
    <2>1. handle'[cp] = IF cp = owner[s] /\ handle[cp] = s THEN NoSession ELSE handle[cp]
      BY <1>3 DEF SessionUnroute
    <2>2. QED
      BY <1>3, <2>1 DEF SessionUnroute
  <1>4. CASE StopClear
    BY <1>4 DEF StopClear
  <1>5. \/ handle' = handle
        \/ \E s \in Sessions : SessionStart(s) \/ SessionUnroute(s)
        \/ StopClear
    BY DEF Next, vars, CallStep, SessionStep, CallRefused, CallResolve, CallRegister, CallSend,
           CallSendFails, CallReturns, CallTimesOut, CallCancelled, Handshake, SessionSend,
           SessionSendFails, SessionReceive, SessionBreak, SessionOrphaned, SessionCancelAll,
           SessionGone, CleanupIdle, StopCancel, StationAnswers
  <1>6. QED
    BY <1>1, <1>2, <1>3, <1>4, <1>5

\* The route to a session whose loop runs is given up only to a newer session or
\* to stop(), for any number of sessions per station.
THEOREM OpenRouteKeptHolds == Spec => OpenRouteKept
  <1>1. IInv /\ [Next]_vars =>
          [\A cp \in Stations :
              (handle[cp] # NoSession /\ handle'[cp] = NoSession) =>
                  sess[handle[cp]] = "broken" \/ server = "stopping"]_vars
    BY RouteStep DEF IInv
  <1>2. QED
    BY <1>1, Invariance, PTL DEF Spec, OpenRouteKept

-----------------------------------------------------------------------------
(* Refinement: the safety part of the contract. *)

Stage == [c \in Calls |-> IF phase[c] \in {"resolved", "registered", "sent"}
                          THEN "open" ELSE phase[c]]
Answered == UNION {answers[s] : s \in Sessions}

\* Initial states map to initial states.
LEMMA ContractInit == Init => Contract!Init
  BY DEF Init, Contract!Init

\* A step that moves no call between idle, open and done, returns nothing and
\* adds no answer is a stutter of the contract.
LEMMA ContractStutter ==
  ASSUME UNCHANGED <<verdict, answers>>,
         \A c \in Calls : Stage'[c] = Stage[c]
  PROVE  UNCHANGED Contract!vars
  <1>1. Stage' = Stage
    BY DEF Stage
  <1>2. QED
    BY <1>1 DEF Contract!vars, Stage

\* An open call that returns is a Finish of the contract.
LEMMA ContractFinish ==
  ASSUME IInv, NEW c \in Calls, phase[c] \in Open, NEW o \in Verdicts \ {"none"},
         Return(c, o), UNCHANGED answers,
         o \in {"ok", "invalid"} => phase[c] = "sent" /\ slot[c] = "result",
         o = "callerror" => phase[c] = "sent" /\ slot[c] = "error"
  PROVE  Contract!Finish(c)
  <1>0. home[c] \in Sessions
    BY DEF IInv, HomeInv
  <1>1. Stage[c] = "open"
    BY DEF Stage, Open
  <1>2. Stage' = [Stage EXCEPT ![c] = "done"]
    BY DEF Stage, Return, IInv, TypeOK, Phases
  <1>3. verdict' = [verdict EXCEPT ![c] = o]
    BY DEF Return
  <1>4. o \in {"ok", "invalid"} => <<c, "result">> \in Answered
    BY <1>0 DEF IInv, SlotInv, AnswerKinds, Answered
  <1>5. o = "callerror" => <<c, "error">> \in Answered
    BY <1>0 DEF IInv, SlotInv, AnswerKinds, Answered
  <1>6. Contract!Needs(o) # "nothing" => <<c, Contract!Needs(o)>> \in Answered
    BY <1>4, <1>5 DEF Contract!Needs, Verdicts
  <1>7. Contract!Verdicts = Verdicts
    BY DEF Contract!Verdicts, Verdicts
  <1>8. Answered' = Answered
    BY DEF Answered
  <1>9. QED
    BY <1>1, <1>2, <1>3, <1>6, <1>7, <1>8 DEF Contract!Finish, Stage, Answered

\* Every step is a step or a stutter of the contract.
LEMMA ContractStep == IInv /\ [Next]_vars => [Contract!Next]_Contract!vars
  <1> SUFFICES ASSUME IInv, [Next]_vars PROVE [Contract!Next]_Contract!vars
    OBVIOUS
  <1>t. TypeOK
    BY DEF IInv
  <1>1. CASE UNCHANGED vars
    BY <1>1, ContractStutter DEF vars, Stage
  <1>2. ASSUME NEW c \in Calls, NEW cp \in Stations, CallRefused(c, cp) PROVE Contract!Refuse(c)
    <2>1. Stage[c] = "idle" /\ Stage' = [Stage EXCEPT ![c] = "done"]
      BY <1>2, <1>t DEF CallRefused, Return, Stage, TypeOK, Phases
    <2>2. UNCHANGED Answered
      BY <1>2 DEF CallRefused, netVars, Answered
    <2>3. QED
      BY <1>2, <2>1, <2>2 DEF CallRefused, Return, Contract!Refuse, Stage, Answered
  <1>3. ASSUME NEW c \in Calls, NEW cp \in Stations, CallResolve(c, cp) PROVE Contract!Open(c)
    <2>1. Stage[c] = "idle" /\ Stage' = [Stage EXCEPT ![c] = "open"]
      BY <1>3, <1>t DEF CallResolve, Stage, TypeOK, Phases
    <2>2. UNCHANGED Answered
      BY <1>3 DEF CallResolve, netVars, Answered
    <2>3. QED
      BY <1>3, <2>1, <2>2 DEF CallResolve, Contract!Open, Stage, Answered
  <1>4. ASSUME NEW c \in Calls, CallRegister(c) \/ CallSend(c) PROVE UNCHANGED Contract!vars
    <2>1. \A d \in Calls : Stage'[d] = Stage[d]
      BY <1>4, <1>t DEF CallRegister, CallSend, Stage, TypeOK, Phases
    <2>2. QED
      BY <1>4, <2>1, ContractStutter DEF CallRegister, CallSend, netVars
  <1>5. ASSUME NEW c \in Calls, CallSendFails(c) PROVE Contract!Finish(c)
    BY <1>5, ContractFinish DEF CallSendFails, Open, Verdicts, netVars
  <1>6. ASSUME NEW c \in Calls, CallReturns(c) PROVE Contract!Finish(c)
    <2>1. PICK o \in Verdicts : <<slot[c], o>> \in Received /\ Return(c, o)
      BY <1>6 DEF CallReturns
    <2>2. /\ o # "none"
          /\ o \in {"ok", "invalid"} => slot[c] = "result"
          /\ o = "callerror" => slot[c] = "error"
      BY <2>1 DEF Received
    <2>3. QED
      BY <1>6, <2>1, <2>2, ContractFinish DEF CallReturns, Open, netVars
  <1>7. ASSUME NEW c \in Calls, CallTimesOut(c) PROVE Contract!Finish(c)
    BY <1>7, ContractFinish DEF CallTimesOut, Open, Verdicts, netVars
  <1>8. ASSUME NEW c \in Calls, CallCancelled(c) PROVE Contract!Finish(c)
    BY <1>8, ContractFinish DEF CallCancelled, Open, Verdicts, netVars
  <1>9. ASSUME NEW s \in Sessions, SessionStep(s) \/ CleanupIdle(s)
        PROVE  UNCHANGED Contract!vars
    <2>1. UNCHANGED <<phase, verdict, answers>>
      BY <1>9 DEF SessionStep, CleanupIdle, Handshake, SessionStart, SessionSend,
                  SessionSendFails, SessionReceive, SessionBreak, SessionOrphaned,
                  SessionUnroute, SessionCancelAll, SessionGone, netVars, callVars
    <2>2. QED
      BY <2>1, ContractStutter DEF Stage
  <1>10. ASSUME StopCancel \/ StopClear PROVE UNCHANGED Contract!vars
    <2>1. UNCHANGED <<phase, verdict, answers>>
      BY <1>10 DEF StopCancel, StopClear, netVars, callVars
    <2>2. QED
      BY <2>1, ContractStutter DEF Stage
  <1>11. ASSUME NEW c \in Calls, NEW s \in Sessions, StationAnswers(c, s)
         PROVE  \E kind \in Contract!AnswerKinds : Contract!Answer(c, kind)
    <2>1. PICK kind \in AnswerKinds : answers' = [answers EXCEPT ![s] = @ \cup {<<c, kind>>}]
      BY <1>11 DEF StationAnswers
    <2>2. Answered' = Answered \cup {<<c, kind>>}
      <3>1. Answered' \subseteq Answered \cup {<<c, kind>>}
        BY <2>1, <1>t DEF Answered, TypeOK
      <3>2. Answered \cup {<<c, kind>>} \subseteq Answered'
        BY <2>1, <1>t DEF Answered, TypeOK
      <3>3. QED
        BY <3>1, <3>2
    <2>3. Stage' = Stage /\ verdict' = verdict
      BY <1>11 DEF StationAnswers, callVars, Stage
    <2>4. Stage[c] # "idle"
      BY <1>11 DEF StationAnswers, IInv, FrameInv, Stage
    <2>5. kind \in Contract!AnswerKinds
      BY DEF Contract!AnswerKinds, AnswerKinds
    <2>6. QED
      BY <2>2, <2>3, <2>4, <2>5 DEF Contract!Answer, Stage, Answered
  <1>12. QED
    BY <1>1, <1>2, <1>3, <1>4, <1>5, <1>6, <1>7, <1>8, <1>9, <1>10, <1>11
       DEF Next, CallStep, Contract!Next

\* The server's calls implement the safety part of CallContract: a call ends
\* once, and never with an answer its station did not give.
THEOREM Refinement == Spec => Contract!SafeSpec
  BY ContractInit, ContractStep, Invariance, PTL DEF Spec, Contract!SafeSpec
=============================================================================
