------------------------- MODULE StationCalls_proofs -------------------------
(***************************************************************************)
(* Proofs about StationCalls, for any set of CALLs and of clients.         *)
(*                                                                         *)
(* The inductive invariant IInv adds to the properties what they rest on:  *)
(* a channel carries only an answer given on the call's own connection     *)
(* (SlotInv), an answer exists only for a frame the CSMS received, and a   *)
(* frame only for a call that sent it (FrameInv), and a call has a home    *)
(* exactly from its registration on (HomeInv).                             *)
(***************************************************************************)
EXTENDS StationCalls, TLAPS

Open == {"registered", "sent"}

\* verdict is "none" until call() returns.
VerdictInv == \A c \in Calls : verdict[c] = "none" <=> phase[c] # "done"

\* An open call has a home and a channel; an idle one has neither.
HomeInv ==
    \A c \in Calls :
        /\ phase[c] \in Open => home[c] \in Conns /\ slot[c] # "none"
        /\ phase[c] = "idle" => home[c] = NoConn /\ slot[c] = "none"

\* A call that waits on an empty channel has its sender in exactly the map it
\* registered with.
EntryInv ==
    \A c \in Calls :
        phase[c] \in {"registered", "sent"} =>
            \A k \in Conns : c \in pending[k] <=> (k = home[c] /\ slot[c] = "empty")

\* What is in the channel was answered on the home connection.
SlotInv ==
    \A c \in Calls : \A kind \in AnswerKinds :
        slot[c] = kind => home[c] \in Conns /\ <<c, kind>> \in answers[home[c]]

\* What call() returned was answered on the home connection.
OutcomeInv ==
    \A c \in Calls :
        /\ verdict[c] \in {"ok", "invalid"} =>
               home[c] \in Conns /\ <<c, "result">> \in answers[home[c]]
        /\ verdict[c] = "callerror" =>
               home[c] \in Conns /\ <<c, "error">> \in answers[home[c]]

\* Frames and answers exist only for calls that have sent.
FrameInv ==
    /\ \A k \in Conns : \A i \in DOMAIN outq[k] : phase[outq[k][i]] \in {"sent", "done"}
    /\ \A k \in Conns : \A c \in wire[k] : phase[c] \in {"sent", "done"}
    /\ \A k \in Conns : \A a \in answers[k] : a[1] \in wire[k]

IInv ==
    /\ TypeOK
    /\ NoResidue
    /\ EntryInv
    /\ VerdictInv
    /\ HomeInv
    /\ SlotInv
    /\ OutcomeInv
    /\ FrameInv

-----------------------------------------------------------------------------
\* The initial state: no call, no client, no frame.
LEMMA InitInv == Init => IInv
  <1> SUFFICES ASSUME Init PROVE IInv
    OBVIOUS
  <1>1. TypeOK
    BY DEF Init, TypeOK, TaskStates, Phases, Slots, Verdicts
  <1>2. QED
    BY <1>1 DEF Init, IInv, NoResidue, EntryInv, VerdictInv, HomeInv,
                SlotInv, OutcomeInv, FrameInv, Open, AnswerKinds

\* Type correctness is preserved by every step.
LEMMA TypeStep == TypeOK /\ [Next]_vars => TypeOK'
  <1> SUFFICES ASSUME TypeOK, [Next]_vars PROVE TypeOK'
    OBVIOUS
  <1> USE NoConnAssumption DEF TypeOK, TaskStates, Phases, Slots, Verdicts, AnswerKinds,
          connVars, mapVars, netVars, callVars
  <1>1. CASE UNCHANGED vars
    BY <1>1 DEF vars
  <1>2. ASSUME NEW c \in Calls, CallRefused(c) PROVE TypeOK'
    BY <1>2 DEF CallRefused, Return
  <1>3. ASSUME NEW c \in Calls, CallRegister(c) PROVE TypeOK'
    BY <1>3 DEF CallRegister, RegisterIn
  <1>4. ASSUME NEW c \in Calls, CallSend(c) PROVE TypeOK'
    BY <1>4 DEF CallSend, Reachable
  <1>5. ASSUME NEW c \in Calls, CallSendFails(c) PROVE TypeOK'
    BY <1>5 DEF CallSendFails, Return, Prune
  <1>6. ASSUME NEW c \in Calls, CallReturns(c) PROVE TypeOK'
    BY <1>6 DEF CallReturns, Received, Return, Prune
  <1>7. ASSUME NEW c \in Calls, CallTimesOut(c) PROVE TypeOK'
    BY <1>7 DEF CallTimesOut, Return, Prune
  <1>8. ASSUME NEW c \in Calls, CallCancelled(c) PROVE TypeOK'
    BY <1>8 DEF CallCancelled, Return, Prune
  <1>9. ASSUME NEW k \in Conns, TaskSend(k) PROVE TypeOK'
    BY <1>9 DEF TaskSend
  <1>10. ASSUME NEW k \in Conns, TaskSendFails(k) PROVE TypeOK'
    BY <1>10 DEF TaskSendFails
  <1>11. ASSUME NEW k \in Conns, TaskReceive(k) PROVE TypeOK'
    BY <1>11 DEF TaskReceive, Settle
  <1>12. ASSUME NEW k \in Conns, TaskBreak(k) PROVE TypeOK'
    BY <1>12 DEF TaskBreak
  <1>13. ASSUME NEW k \in Conns, TaskCancelAll(k) PROVE TypeOK'
    BY <1>13 DEF TaskCancelAll, CancelAll
  <1>14. ASSUME NEW k \in Conns, TaskEnd(k) PROVE TypeOK'
    BY <1>14 DEF TaskEnd
  <1>15. ASSUME NEW k \in Conns, Establish(k) PROVE TypeOK'
    BY <1>15 DEF Establish
  <1>16. CASE Disconnect
    BY <1>16 DEF Disconnect, CancelAll
  <1>17. ASSUME NEW c \in Calls, NEW k \in Conns, CsmsAnswers(c, k) PROVE TypeOK'
    BY <1>17 DEF CsmsAnswers
  <1>18. QED
    BY <1>1, <1>2, <1>3, <1>4, <1>5, <1>6, <1>7, <1>8, <1>9, <1>10, <1>11, <1>12,
       <1>13, <1>14, <1>15, <1>16, <1>17 DEF Next, CallStep, TaskStep

\* A step that gives no new answer-carrying verdict keeps OutcomeInv: the
\* only call whose home or verdict it touches is c.
LEMMA OutcomeKept ==
  ASSUME TypeOK, OutcomeInv, NEW c \in Calls,
         UNCHANGED answers,
         \A d \in Calls : d # c => home'[d] = home[d] /\ verdict'[d] = verdict[d],
         verdict'[c] \notin {"ok", "invalid", "callerror"}
  PROVE  OutcomeInv'
  BY DEF OutcomeInv

\* Every step preserves the inductive invariant.
LEMMA InvStep == IInv /\ [Next]_vars => IInv'
  <1> SUFFICES ASSUME IInv, [Next]_vars PROVE IInv'
    OBVIOUS
  <1> DEFINE Rest == /\ NoResidue /\ EntryInv /\ VerdictInv /\ HomeInv
                     /\ SlotInv /\ OutcomeInv /\ FrameInv
  <1>t. TypeOK /\ TypeOK'
    BY TypeStep DEF IInv
  <1>r. Rest
    BY DEF IInv
  <1>1. CASE UNCHANGED vars
    BY <1>1, <1>r DEF vars, IInv, TypeOK, NoResidue, EntryInv, VerdictInv, HomeInv,
                SlotInv, OutcomeInv, FrameInv, Open
  <1> USE <1>t, <1>r, NoConnAssumption
      DEF TypeOK, Open, TaskStates, Phases, Slots, Verdicts, AnswerKinds,
          connVars, mapVars, netVars, callVars
  <1>2. ASSUME NEW c \in Calls, CallRefused(c) PROVE Rest'
    <2>1. NoResidue' /\ EntryInv'
      BY <1>2 DEF CallRefused, Return, NoResidue, EntryInv, HomeInv
    <2>2. VerdictInv' /\ HomeInv'
      BY <1>2 DEF CallRefused, Return, VerdictInv, HomeInv, NoResidue
    <2>3. SlotInv'
      BY <1>2 DEF CallRefused, Return, SlotInv, HomeInv, NoResidue, EntryInv
    <2>4. OutcomeInv'
      BY <1>2, OutcomeKept DEF CallRefused, Return, VerdictInv
    <2>5. FrameInv'
      BY <1>2 DEF CallRefused, Return, FrameInv
    <2>6. QED
      BY <2>1, <2>2, <2>3, <2>4, <2>5
  <1>3. ASSUME NEW c \in Calls, CallRegister(c) PROVE Rest'
    <2>1. NoResidue' /\ EntryInv'
      BY <1>3 DEF CallRegister, RegisterIn, NoResidue, EntryInv, HomeInv
    <2>2. VerdictInv' /\ HomeInv'
      BY <1>3 DEF CallRegister, RegisterIn, VerdictInv, HomeInv, NoResidue
    <2>3. SlotInv'
      <3> SUFFICES ASSUME NEW d \in Calls, NEW kind \in AnswerKinds, slot'[d] = kind
                   PROVE  home'[d] \in Conns /\ <<d, kind>> \in answers'[home'[d]]
        BY DEF SlotInv
      <3>1. d # c
        BY <1>3 DEF CallRegister, RegisterIn
      <3>2. QED
        <4>1. slot[d] = kind /\ home'[d] = home[d] /\ answers' = answers
          BY <1>3, <3>1 DEF CallRegister, RegisterIn
        <4>2. QED
          BY <4>1 DEF SlotInv
    <2>4. OutcomeInv'
      <3>1. verdict' = verdict /\ answers' = answers /\ verdict[c] = "none"
        BY <1>3 DEF CallRegister, VerdictInv
      <3>2. \A d \in Calls : d # c => home'[d] = home[d]
        BY <1>3 DEF CallRegister
      <3>3. QED
        BY <3>1, <3>2, OutcomeKept
    <2>5. FrameInv'
      BY <1>3 DEF CallRegister, RegisterIn, FrameInv
    <2>6. QED
      BY <2>1, <2>2, <2>3, <2>4, <2>5
  <1>4. ASSUME NEW c \in Calls, CallSend(c) PROVE Rest'
    <2>1. NoResidue' /\ EntryInv'
      BY <1>4 DEF CallSend, Reachable, NoResidue, EntryInv, HomeInv
    <2>2. VerdictInv' /\ HomeInv'
      BY <1>4 DEF CallSend, Reachable, VerdictInv, HomeInv, NoResidue
    <2>3. SlotInv'
      BY <1>4 DEF CallSend, Reachable, SlotInv, HomeInv, NoResidue, EntryInv
    <2>4. OutcomeInv'
      BY <1>4 DEF CallSend, Reachable, OutcomeInv, VerdictInv, HomeInv, SlotInv
    <2>5. FrameInv'
      BY <1>4 DEF CallSend, Reachable, FrameInv
    <2>6. QED
      BY <2>1, <2>2, <2>3, <2>4, <2>5
  <1>5. ASSUME NEW c \in Calls, CallSendFails(c) PROVE Rest'
    <2>1. NoResidue' /\ EntryInv'
      BY <1>5 DEF CallSendFails, Return, Prune, NoResidue, EntryInv, HomeInv
    <2>2. VerdictInv' /\ HomeInv'
      BY <1>5 DEF CallSendFails, Return, Prune, VerdictInv, HomeInv, NoResidue
    <2>3. SlotInv'
      BY <1>5 DEF CallSendFails, Return, Prune, SlotInv, HomeInv, NoResidue, EntryInv
    <2>4. OutcomeInv'
      BY <1>5, OutcomeKept DEF CallSendFails, Return, Prune, VerdictInv
    <2>5. FrameInv'
      BY <1>5 DEF CallSendFails, Return, Prune, FrameInv
    <2>6. QED
      BY <2>1, <2>2, <2>3, <2>4, <2>5
  <1>6. ASSUME NEW c \in Calls, CallReturns(c) PROVE Rest'
    <2>1. NoResidue' /\ EntryInv'
      BY <1>6 DEF CallReturns, Received, Return, Prune, NoResidue, EntryInv, HomeInv
    <2>2. VerdictInv' /\ HomeInv'
      BY <1>6 DEF CallReturns, Received, Return, Prune, VerdictInv, HomeInv, NoResidue
    <2>3. SlotInv'
      BY <1>6 DEF CallReturns, Received, Return, Prune, SlotInv, HomeInv, NoResidue,
         EntryInv
    <2>4. OutcomeInv'
      <3>1. PICK o \in Verdicts : <<slot[c], o>> \in Received /\ Return(c, o)
        BY <1>6 DEF CallReturns
      <3>2. /\ o \in {"ok", "invalid"} => slot[c] = "result"
            /\ o = "callerror" => slot[c] = "error"
        BY <3>1 DEF Received
      <3>3. /\ answers' = answers /\ home' = home
            /\ verdict' = [verdict EXCEPT ![c] = o]
        BY <1>6, <3>1 DEF CallReturns, Return
      <3> SUFFICES ASSUME NEW d \in Calls
                   PROVE  /\ verdict'[d] \in {"ok", "invalid"} =>
                               home[d] \in Conns /\ <<d, "result">> \in answers[home[d]]
                          /\ verdict'[d] = "callerror" =>
                               home[d] \in Conns /\ <<d, "error">> \in answers[home[d]]
        BY <3>3 DEF OutcomeInv
      <3>4. CASE d = c
        <4>1. verdict'[d] = o
          BY <3>3, <3>4
        <4>2. QED
          BY <3>2, <3>4, <4>1 DEF SlotInv
      <3>5. CASE d # c
        <4>1. verdict'[d] = verdict[d]
          BY <3>3, <3>5
        <4>2. QED
          BY <4>1 DEF OutcomeInv
      <3>6. QED
        BY <3>4, <3>5
    <2>5. FrameInv'
      BY <1>6 DEF CallReturns, Received, Return, Prune, FrameInv
    <2>6. QED
      BY <2>1, <2>2, <2>3, <2>4, <2>5
  <1>7. ASSUME NEW c \in Calls, CallTimesOut(c) PROVE Rest'
    <2>1. NoResidue' /\ EntryInv'
      BY <1>7 DEF CallTimesOut, Return, Prune, NoResidue, EntryInv, HomeInv
    <2>2. VerdictInv' /\ HomeInv'
      BY <1>7 DEF CallTimesOut, Return, Prune, VerdictInv, HomeInv, NoResidue
    <2>3. SlotInv'
      BY <1>7 DEF CallTimesOut, Return, Prune, SlotInv, HomeInv, NoResidue, EntryInv
    <2>4. OutcomeInv'
      BY <1>7, OutcomeKept DEF CallTimesOut, Return, Prune, VerdictInv
    <2>5. FrameInv'
      BY <1>7 DEF CallTimesOut, Return, Prune, FrameInv
    <2>6. QED
      BY <2>1, <2>2, <2>3, <2>4, <2>5
  <1>8. ASSUME NEW c \in Calls, CallCancelled(c) PROVE Rest'
    <2>1. NoResidue' /\ EntryInv'
      BY <1>8 DEF CallCancelled, Return, Prune, NoResidue, EntryInv, HomeInv
    <2>2. VerdictInv' /\ HomeInv'
      BY <1>8 DEF CallCancelled, Return, Prune, VerdictInv, HomeInv, NoResidue
    <2>3. SlotInv'
      BY <1>8 DEF CallCancelled, Return, Prune, SlotInv, HomeInv, NoResidue, EntryInv
    <2>4. OutcomeInv'
      BY <1>8, OutcomeKept DEF CallCancelled, Return, Prune, VerdictInv
    <2>5. FrameInv'
      BY <1>8 DEF CallCancelled, Return, Prune, FrameInv
    <2>6. QED
      BY <2>1, <2>2, <2>3, <2>4, <2>5
  <1>9. ASSUME NEW k \in Conns, TaskSend(k) PROVE Rest'
    <2>1. NoResidue' /\ EntryInv'
      BY <1>9 DEF TaskSend, NoResidue, EntryInv, HomeInv
    <2>2. VerdictInv' /\ HomeInv'
      BY <1>9 DEF TaskSend, VerdictInv, HomeInv, NoResidue
    <2>3. SlotInv'
      BY <1>9 DEF TaskSend, SlotInv, HomeInv, NoResidue, EntryInv
    <2>4. OutcomeInv'
      BY <1>9 DEF TaskSend, OutcomeInv, VerdictInv, HomeInv, SlotInv
    <2>5. FrameInv'
      BY <1>9 DEF TaskSend, FrameInv
    <2>6. QED
      BY <2>1, <2>2, <2>3, <2>4, <2>5
  <1>10. ASSUME NEW k \in Conns, TaskSendFails(k) PROVE Rest'
    <2>1. NoResidue' /\ EntryInv'
      BY <1>10 DEF TaskSendFails, NoResidue, EntryInv, HomeInv
    <2>2. VerdictInv' /\ HomeInv'
      BY <1>10 DEF TaskSendFails, VerdictInv, HomeInv, NoResidue
    <2>3. SlotInv'
      BY <1>10 DEF TaskSendFails, SlotInv, HomeInv, NoResidue, EntryInv
    <2>4. OutcomeInv'
      BY <1>10 DEF TaskSendFails, OutcomeInv, VerdictInv, HomeInv, SlotInv
    <2>5. FrameInv'
      BY <1>10 DEF TaskSendFails, FrameInv
    <2>6. QED
      BY <2>1, <2>2, <2>3, <2>4, <2>5
  <1>11. ASSUME NEW k \in Conns, TaskReceive(k) PROVE Rest'
    <2>1. NoResidue' /\ EntryInv'
      BY <1>11 DEF TaskReceive, Settle, NoResidue, EntryInv, HomeInv
    <2>2. VerdictInv' /\ HomeInv'
      BY <1>11 DEF TaskReceive, Settle, VerdictInv, HomeInv, NoResidue
    <2>3. SlotInv'
      <3>1. PICK a \in answers[k] : Settle(a[1], k, a[2])
        BY <1>11 DEF TaskReceive
      <3>2. a = <<a[1], a[2]>> /\ a[1] \in Calls /\ a[2] \in AnswerKinds
        OBVIOUS
      <3>3. answers' = answers /\ home' = home
        BY <1>11 DEF TaskReceive
      <3> SUFFICES ASSUME NEW d \in Calls, NEW kind \in AnswerKinds, slot'[d] = kind
                   PROVE  home[d] \in Conns /\ <<d, kind>> \in answers[home[d]]
        BY <3>3 DEF SlotInv
      <3>4. CASE d = a[1] /\ d \in pending[k]
        <4>1. kind = a[2]
          BY <3>1, <3>2, <3>4 DEF Settle
        <4>2. home[d] = k
          BY <3>4 DEF NoResidue, EntryInv
        <4>3. <<d, kind>> = a
          BY <3>2, <3>4, <4>1
        <4>4. QED
          BY <4>2, <4>3
      <3>5. CASE ~(d = a[1] /\ d \in pending[k])
        <4>1. slot[d] = kind
          BY <3>1, <3>2, <3>5 DEF Settle
        <4>2. QED
          BY <4>1 DEF SlotInv
      <3>6. QED
        BY <3>4, <3>5
    <2>4. OutcomeInv'
      BY <1>11 DEF TaskReceive, Settle, OutcomeInv, VerdictInv, HomeInv, SlotInv
    <2>5. FrameInv'
      BY <1>11 DEF TaskReceive, Settle, FrameInv
    <2>6. QED
      BY <2>1, <2>2, <2>3, <2>4, <2>5
  <1>12. ASSUME NEW k \in Conns, TaskBreak(k) PROVE Rest'
    <2>1. NoResidue' /\ EntryInv'
      BY <1>12 DEF TaskBreak, NoResidue, EntryInv, HomeInv
    <2>2. VerdictInv' /\ HomeInv'
      BY <1>12 DEF TaskBreak, VerdictInv, HomeInv, NoResidue
    <2>3. SlotInv'
      BY <1>12 DEF TaskBreak, SlotInv, HomeInv, NoResidue, EntryInv
    <2>4. OutcomeInv'
      BY <1>12 DEF TaskBreak, OutcomeInv, VerdictInv, HomeInv, SlotInv
    <2>5. FrameInv'
      BY <1>12 DEF TaskBreak, FrameInv
    <2>6. QED
      BY <2>1, <2>2, <2>3, <2>4, <2>5
  <1>13. ASSUME NEW k \in Conns, TaskCancelAll(k) PROVE Rest'
    <2>1. NoResidue' /\ EntryInv'
      BY <1>13 DEF TaskCancelAll, CancelAll, NoResidue, EntryInv, HomeInv
    <2>2. VerdictInv' /\ HomeInv'
      BY <1>13 DEF TaskCancelAll, CancelAll, VerdictInv, HomeInv, NoResidue
    <2>3. SlotInv'
      BY <1>13 DEF TaskCancelAll, CancelAll, SlotInv, HomeInv, NoResidue, EntryInv
    <2>4. OutcomeInv'
      BY <1>13 DEF TaskCancelAll, CancelAll, OutcomeInv, VerdictInv, HomeInv, SlotInv
    <2>5. FrameInv'
      BY <1>13 DEF TaskCancelAll, CancelAll, FrameInv
    <2>6. QED
      BY <2>1, <2>2, <2>3, <2>4, <2>5
  <1>14. ASSUME NEW k \in Conns, TaskEnd(k) PROVE Rest'
    <2>1. NoResidue' /\ EntryInv'
      BY <1>14 DEF TaskEnd, NoResidue, EntryInv, HomeInv
    <2>2. VerdictInv' /\ HomeInv'
      BY <1>14 DEF TaskEnd, VerdictInv, HomeInv, NoResidue
    <2>3. SlotInv'
      BY <1>14 DEF TaskEnd, SlotInv, HomeInv, NoResidue, EntryInv
    <2>4. OutcomeInv'
      BY <1>14 DEF TaskEnd, OutcomeInv, VerdictInv, HomeInv, SlotInv
    <2>5. FrameInv'
      BY <1>14 DEF TaskEnd, FrameInv
    <2>6. QED
      BY <2>1, <2>2, <2>3, <2>4, <2>5
  <1>15. ASSUME NEW k \in Conns, Establish(k) PROVE Rest'
    <2>1. NoResidue' /\ EntryInv'
      BY <1>15 DEF Establish, NoResidue, EntryInv, HomeInv
    <2>2. VerdictInv' /\ HomeInv'
      BY <1>15 DEF Establish, VerdictInv, HomeInv, NoResidue
    <2>3. SlotInv'
      BY <1>15 DEF Establish, SlotInv, HomeInv, NoResidue, EntryInv
    <2>4. OutcomeInv'
      BY <1>15 DEF Establish, OutcomeInv, VerdictInv, HomeInv, SlotInv
    <2>5. FrameInv'
      BY <1>15 DEF Establish, FrameInv
    <2>6. QED
      BY <2>1, <2>2, <2>3, <2>4, <2>5
  <1>16. ASSUME Disconnect PROVE Rest'
    <2>1. NoResidue' /\ EntryInv'
      BY <1>16 DEF Disconnect, CancelAll, NoResidue, EntryInv, HomeInv
    <2>2. VerdictInv' /\ HomeInv'
      BY <1>16 DEF Disconnect, CancelAll, VerdictInv, HomeInv, NoResidue
    <2>3. SlotInv'
      BY <1>16 DEF Disconnect, CancelAll, SlotInv, HomeInv, NoResidue, EntryInv
    <2>4. OutcomeInv'
      BY <1>16 DEF Disconnect, CancelAll, OutcomeInv, VerdictInv, HomeInv, SlotInv
    <2>5. FrameInv'
      BY <1>16 DEF Disconnect, CancelAll, FrameInv
    <2>6. QED
      BY <2>1, <2>2, <2>3, <2>4, <2>5
  <1>17. ASSUME NEW c \in Calls, NEW k \in Conns, CsmsAnswers(c, k) PROVE Rest'
    <2>1. NoResidue' /\ EntryInv'
      BY <1>17 DEF CsmsAnswers, NoResidue, EntryInv, HomeInv
    <2>2. VerdictInv' /\ HomeInv'
      BY <1>17 DEF CsmsAnswers, VerdictInv, HomeInv, NoResidue
    <2>a. /\ \A j \in Conns : answers[j] \subseteq answers'[j]
          /\ home' = home /\ slot' = slot /\ verdict' = verdict
      BY <1>17 DEF CsmsAnswers
    <2>3. SlotInv'
      BY <2>a DEF SlotInv
    <2>4. OutcomeInv'
      BY <2>a DEF OutcomeInv
    <2>5. FrameInv'
      BY <1>17 DEF CsmsAnswers, FrameInv
    <2>6. QED
      BY <2>1, <2>2, <2>3, <2>4, <2>5
  <1>18. QED
    BY <1>1, <1>2, <1>3, <1>4, <1>5, <1>6, <1>7, <1>8, <1>9, <1>10, <1>11, <1>12, <1>13, <1>14,
       <1>15, <1>16, <1>17 DEF Next, CallStep, TaskStep, IInv

-----------------------------------------------------------------------------
\* IInv holds in every reachable state.
LEMMA Invariance == Spec => []IInv
  BY InitInv, InvStep, PTL DEF Spec

\* Every variable keeps its type, whatever the order of calls, answers,
\* reconnections and disconnections.
THEOREM TypeCorrect == Spec => []TypeOK
  <1>1. IInv => TypeOK
    BY DEF IInv
  <1>2. QED
    BY <1>1, Invariance, PTL

\* A call that returned, on any path of `ChargePoint::call`, leaves no entry
\* in the PendingCallMap of any client, past or present.
THEOREM NoResidueHolds == Spec => []NoResidue
  <1>1. IInv => NoResidue
    BY DEF IInv
  <1>2. QED
    BY <1>1, Invariance, PTL

\* Whatever clears a client's map wakes every open call of that client,
\* because an open call on an empty channel has its entry in that map.
THEOREM ClearingWakesAllHolds == Spec => ClearingWakesAll
  <1> DEFINE A == \A k \in Conns, c \in Calls :
                     /\ \/ task[k] # task'[k] /\ task'[k] = "cleared"
                        \/ client = k /\ client' = NoConn
                     /\ home[c] = k /\ phase[c] \in {"registered", "sent"}
                     => slot'[c] # "empty"
  <1>1. IInv /\ [Next]_vars => [A]_vars
    <2> SUFFICES ASSUME IInv, Next, NEW k \in Conns, NEW c \in Calls,
                        \/ task[k] # task'[k] /\ task'[k] = "cleared"
                        \/ client = k /\ client' = NoConn,
                        home[c] = k, phase[c] \in {"registered", "sent"}
                 PROVE  slot'[c] # "empty"
      OBVIOUS
    <2>1. TypeOK /\ EntryInv
      BY DEF IInv
    <2>2. slot[c] = "empty" => c \in pending[k]
      BY <2>1 DEF EntryInv
    <2>3. (\E j \in Conns : j = k /\ CancelAll(j)) \/ (client = k /\ CancelAll(client))
      <3>1. ASSUME NEW d \in Calls, CallStep(d) PROVE FALSE
        BY <3>1, NoConnAssumption DEF CallStep, CallRefused, CallRegister, CallSend,
           CallSendFails, CallReturns, CallTimesOut, CallCancelled, connVars
      <3>2. ASSUME NEW j \in Conns, TaskStep(j) PROVE j = k /\ CancelAll(j)
        BY <3>2, <2>1, NoConnAssumption DEF TaskStep, TaskSend, TaskSendFails, TaskReceive,
           TaskBreak, TaskCancelAll, TaskEnd, connVars, TypeOK
      <3>3. ASSUME NEW j \in Conns, Establish(j) PROVE FALSE
        BY <3>3, <2>1, NoConnAssumption DEF Establish, TypeOK
      <3>4. ASSUME Disconnect PROVE client = k /\ CancelAll(client)
        BY <3>4, <2>1 DEF Disconnect, TypeOK
      <3>5. ASSUME NEW d \in Calls, NEW j \in Conns, CsmsAnswers(d, j) PROVE FALSE
        BY <3>5, NoConnAssumption DEF CsmsAnswers, connVars
      <3>6. QED
        BY <3>1, <3>2, <3>3, <3>4, <3>5 DEF Next
    <2>4. slot'[c] = IF c \in pending[k] THEN "closed" ELSE slot[c]
      BY <2>3 DEF CancelAll
    <2>5. QED
      BY <2>2, <2>4
  <1>2. QED
    BY <1>1, Invariance, PTL DEF Spec, ClearingWakesAll

\* `call()` returns an answer only if the CSMS gave it to that unique_id on the
\* connection the call registered with.
THEOREM AnswerIsOwnHolds == Spec => []AnswerIsOwn
  <1>1. IInv => AnswerIsOwn
    BY DEF IInv, OutcomeInv, AnswerIsOwn
  <1>2. QED
    BY <1>1, Invariance, PTL

-----------------------------------------------------------------------------
(* Refinement: the safety part of the contract. *)

Stage == [c \in Calls |-> IF phase[c] \in {"registered", "sent"} THEN "open" ELSE phase[c]]
Answered == UNION {answers[k] : k \in Conns}

\* Initial states map to initial states.
LEMMA ContractInit == Init => Contract!Init
  BY DEF Init, Contract!Init

\* A step that moves no call between idle, open and done, returns nothing and
\* adds no answer is a stutter of the contract.
LEMMA ContractStutter ==
  ASSUME UNCHANGED <<verdict, answers>>,
         \A c \in Calls : Stage'[c] = Stage[c]
  PROVE  UNCHANGED Contract!vars
  <1>1. Stage' = Stage
    BY DEF Stage
  <1>2. QED
    BY <1>1 DEF Contract!vars, Stage

\* An open call that returns is a Finish of the contract.
LEMMA ContractFinish ==
  ASSUME IInv, NEW c \in Calls, phase[c] \in Open, NEW o \in Verdicts \ {"none"},
         Return(c, o), UNCHANGED answers,
         o \in {"ok", "invalid"} => slot[c] = "result",
         o = "callerror" => slot[c] = "error"
  PROVE  Contract!Finish(c)
  <1>1. Stage[c] = "open"
    BY DEF Stage, Open
  <1>2. Stage' = [Stage EXCEPT ![c] = "done"]
    BY DEF Stage, Return, IInv, TypeOK, Phases
  <1>3. verdict' = [verdict EXCEPT ![c] = o]
    BY DEF Return
  <1>4. o \in {"ok", "invalid"} => <<c, "result">> \in Answered
    BY DEF IInv, SlotInv, AnswerKinds, Answered
  <1>5. o = "callerror" => <<c, "error">> \in Answered
    BY DEF IInv, SlotInv, AnswerKinds, Answered
  <1>6. Contract!Needs(o) # "nothing" => <<c, Contract!Needs(o)>> \in Answered
    BY <1>4, <1>5 DEF Contract!Needs, Verdicts
  <1>7. Contract!Verdicts = Verdicts
    BY DEF Contract!Verdicts, Verdicts
  <1>8. Answered' = Answered
    BY DEF Answered
  <1>9. QED
    BY <1>1, <1>2, <1>3, <1>6, <1>7, <1>8 DEF Contract!Finish, Stage, Answered

\* Every step is a step or a stutter of the contract.
LEMMA ContractStep == IInv /\ [Next]_vars => [Contract!Next]_Contract!vars
  <1> SUFFICES ASSUME IInv, [Next]_vars PROVE [Contract!Next]_Contract!vars
    OBVIOUS
  <1>t. TypeOK
    BY DEF IInv
  <1>1. CASE UNCHANGED vars
    BY <1>1, ContractStutter DEF vars, Stage
  <1>2. ASSUME NEW c \in Calls, CallRefused(c) PROVE Contract!Refuse(c)
    <2>1. Stage[c] = "idle" /\ Stage' = [Stage EXCEPT ![c] = "done"]
      BY <1>2, <1>t DEF CallRefused, Return, Stage, TypeOK, Phases
    <2>2. UNCHANGED Answered
      BY <1>2 DEF CallRefused, netVars, Answered
    <2>3. QED
      BY <1>2, <2>1, <2>2 DEF CallRefused, Return, Contract!Refuse, Stage, Answered
  <1>3. ASSUME NEW c \in Calls, CallRegister(c) PROVE Contract!Open(c)
    <2>1. Stage[c] = "idle" /\ Stage' = [Stage EXCEPT ![c] = "open"]
      BY <1>3, <1>t DEF CallRegister, Stage, TypeOK, Phases
    <2>2. UNCHANGED Answered
      BY <1>3 DEF CallRegister, netVars, Answered
    <2>3. QED
      BY <1>3, <2>1, <2>2 DEF CallRegister, Contract!Open, Stage, Answered
  <1>4. ASSUME NEW c \in Calls, CallSend(c) PROVE UNCHANGED Contract!vars
    <2>1. \A d \in Calls : Stage'[d] = Stage[d]
      BY <1>4, <1>t DEF CallSend, Stage, TypeOK, Phases
    <2>2. QED
      BY <1>4, <2>1, ContractStutter DEF CallSend
  <1>5. ASSUME NEW c \in Calls, CallSendFails(c) PROVE Contract!Finish(c)
    BY <1>5, ContractFinish DEF CallSendFails, Open, Verdicts, netVars
  <1>6. ASSUME NEW c \in Calls, CallReturns(c) PROVE Contract!Finish(c)
    <2>1. PICK o \in Verdicts : <<slot[c], o>> \in Received /\ Return(c, o)
      BY <1>6 DEF CallReturns
    <2>2. /\ o # "none"
          /\ o \in {"ok", "invalid"} => slot[c] = "result"
          /\ o = "callerror" => slot[c] = "error"
      BY <2>1 DEF Received
    <2>3. QED
      BY <1>6, <2>1, <2>2, ContractFinish DEF CallReturns, Open, netVars
  <1>7. ASSUME NEW c \in Calls, CallTimesOut(c) PROVE Contract!Finish(c)
    BY <1>7, ContractFinish DEF CallTimesOut, Open, Verdicts, netVars
  <1>8. ASSUME NEW c \in Calls, CallCancelled(c) PROVE Contract!Finish(c)
    BY <1>8, ContractFinish DEF CallCancelled, Open, Verdicts, netVars
  <1>9. ASSUME NEW k \in Conns, TaskStep(k) \/ Establish(k) PROVE UNCHANGED Contract!vars
    <2>1. UNCHANGED <<phase, verdict, answers>>
      BY <1>9 DEF TaskStep, Establish, TaskSend, TaskSendFails, TaskReceive, TaskBreak,
                  TaskCancelAll, TaskEnd, connVars, mapVars, netVars, callVars
    <2>2. QED
      BY <2>1, ContractStutter DEF Stage
  <1>10. ASSUME Disconnect PROVE UNCHANGED Contract!vars
    BY <1>10, ContractStutter DEF Disconnect, callVars, Stage
  <1>11. ASSUME NEW c \in Calls, NEW k \in Conns, CsmsAnswers(c, k)
         PROVE  \E kind \in Contract!AnswerKinds : Contract!Answer(c, kind)
    <2>1. PICK kind \in AnswerKinds : answers' = [answers EXCEPT ![k] = @ \cup {<<c, kind>>}]
      BY <1>11 DEF CsmsAnswers
    <2>2. Answered' = Answered \cup {<<c, kind>>}
      <3>1. Answered' \subseteq Answered \cup {<<c, kind>>}
        BY <2>1, <1>t DEF Answered, TypeOK
      <3>2. Answered \cup {<<c, kind>>} \subseteq Answered'
        BY <2>1, <1>t DEF Answered, TypeOK
      <3>3. QED
        BY <3>1, <3>2
    <2>3. Stage' = Stage /\ verdict' = verdict
      BY <1>11 DEF CsmsAnswers, callVars, Stage
    <2>4. Stage[c] # "idle"
      BY <1>11 DEF CsmsAnswers, IInv, FrameInv, Stage
    <2>5. kind \in Contract!AnswerKinds
      BY DEF Contract!AnswerKinds, AnswerKinds
    <2>6. QED
      BY <2>2, <2>3, <2>4, <2>5 DEF Contract!Answer, Stage, Answered
  <1>12. QED
    BY <1>1, <1>2, <1>3, <1>4, <1>5, <1>6, <1>7, <1>8, <1>9, <1>10, <1>11
       DEF Next, CallStep, Contract!Next

\* The station's calls implement the safety part of CallContract: a call ends
\* once, and never with an answer the CSMS did not give.
THEOREM Refinement == Spec => Contract!SafeSpec
  BY ContractInit, ContractStep, Invariance, PTL DEF Spec, Contract!SafeSpec
=============================================================================
