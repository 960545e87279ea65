---------------------------- MODULE StationCalls ----------------------------
(***************************************************************************)
(* The charge point's outgoing CALLs: `ChargePoint::call` over the         *)
(* `WebSocketClient` of the current session, correlated through that       *)
(* client's `PendingCallMap`.                                              *)
(*                                                                         *)
(* Actors: the tasks that issue CALLs (heartbeat, meter sampler, command   *)
(* consumer, application), the combined send/receive task of every client, *)
(* the code that replaces or takes the client (establish_session,          *)
(* disconnect), and the CSMS.  `call()` looks the client up twice, once to *)
(* register and once to send, so the client may change in between.  The    *)
(* combined task ends in three observable steps: it leaves its loop, it    *)
(* cancels the pending calls, and, after the Disconnected event has been   *)
(* handled, its future is dropped and with it the receiver of the outbound *)
(* channel.                                                                *)
(***************************************************************************)
EXTENDS Sequences, FiniteSets, Functions

CONSTANTS Calls,   \* the CALLs issued; each has a fresh unique_id
          Conns,   \* the WebSocketClients created, one per session
          NoConn   \* ChargePoint.client = None

ASSUME NoConnAssumption == NoConn \notin Conns

VARIABLES
    client,   \* ChargePoint.client: the current WebSocketClient or NoConn
    task,     \* [Conns -> TaskStates]: the client's combined task
    pending,  \* [Conns -> SUBSET Calls]: the client's PendingCallMap
    outq,     \* [Conns -> Seq(Calls)]: the client's outbound channel
    wire,     \* [Conns -> SUBSET Calls]: CALL frames the CSMS has received
    answers,  \* [Conns -> SUBSET (Calls \X AnswerKinds)]: what it answered
    phase,    \* [Calls -> Phases]: progress of call()
    home,     \* [Calls -> Conns \cup {NoConn}]: whose map holds the entry
    slot,     \* [Calls -> Slots]: the oneshot channel of the entry
    verdict   \* [Calls -> Verdicts]: what call() returned

connVars == <<client, task>>
mapVars  == <<pending, slot>>
netVars  == <<outq, wire, answers>>
callVars == <<phase, home, verdict>>
vars == <<client, task, pending, outq, wire, answers, phase, home, slot, verdict>>

Contract == INSTANCE CallContract
                WITH stage    <- [c \in Calls |->
                                    IF phase[c] \in {"registered", "sent"}
                                    THEN "open" ELSE phase[c]],
                     answered <- UNION {answers[k] : k \in Conns}

AnswerKinds == {"result", "error"}
Verdicts    == {"none", "ok", "invalid", "callerror", "timeout", "transport",
                "cancelled"}

\* "cleared": cancel_all has run, the outbound receiver is still alive.
TaskStates == {"unused", "running", "broken", "cleared", "ended"}
Phases     == {"idle", "registered", "sent", "done"}
\* "empty": the sender is in a map; "closed": it was dropped unsent.
Slots      == {"none", "empty", "result", "error", "closed"}

-----------------------------------------------------------------------------
(* PendingCallMap *)

\* register: a fresh oneshot channel, its sender in k's map.
RegisterIn(c, k) ==
    /\ pending' = [pending EXCEPT ![k] = @ \cup {c}]
    /\ slot' = [slot EXCEPT ![c] = "empty"]

\* resolve / reject: an unknown id is ignored, a known one is removed and
\* its channel carries the answer.
Settle(c, k, kind) ==
    /\ pending' = [pending EXCEPT ![k] = @ \ {c}]
    /\ slot' = IF c \in pending[k] THEN [slot EXCEPT ![c] = kind] ELSE slot

\* cancel_all: every sender in k's map is dropped, its receiver sees RecvError.
CancelAll(k) ==
    /\ pending' = [pending EXCEPT ![k] = {}]
    /\ slot' = [c \in Calls |-> IF c \in pending[k] THEN "closed" ELSE slot[c]]

\* Mutant of Prune: register without a guard, as before issue #323.
NoGuard(c) == UNCHANGED <<pending, slot>>

\* Drop of PendingGuard when call() returns or its future is dropped: the
\* entry leaves the map it was registered in.
Prune(c) ==
    /\ pending' = [k \in Conns |-> IF k = home[c] THEN pending[k] \ {c} ELSE pending[k]]
    /\ UNCHANGED slot

-----------------------------------------------------------------------------
(* ChargePoint::call *)

Return(c, o) ==
    /\ phase' = [phase EXCEPT ![c] = "done"]
    /\ verdict' = [verdict EXCEPT ![c] = o]
    /\ UNCHANGED home

\* No client: call() fails before it registers anything.
CallRefused(c) ==
    /\ phase[c] = "idle" /\ client = NoConn
    /\ Return(c, "transport")
    /\ UNCHANGED <<connVars, mapVars, netVars>>

\* First look-up of the client: the entry is registered before the frame goes.
CallRegister(c) ==
    /\ phase[c] = "idle" /\ client # NoConn
    /\ phase' = [phase EXCEPT ![c] = "registered"]
    /\ home' = [home EXCEPT ![c] = client]
    /\ RegisterIn(c, client)
    /\ UNCHANGED <<connVars, netVars, verdict>>

\* The clients whose outbound channel still has its receiver.
Reachable == {k \in Conns : task[k] # "ended"}

\* Second look-up of the client: the frame goes to the outbound channel of
\* the client found now, unless that channel's receiver is gone.
CallSend(c) ==
    /\ phase[c] = "registered" /\ client \in Reachable
    /\ phase' = [phase EXCEPT ![c] = "sent"]
    /\ outq' = [outq EXCEPT ![client] = Append(@, c)]
    /\ UNCHANGED <<connVars, mapVars, wire, answers, home, verdict>>

CallSendFails(c) ==
    /\ phase[c] = "registered" /\ client \notin Reachable
    /\ Return(c, "transport")
    /\ Prune(c)
    /\ UNCHANGED <<connVars, netVars>>

\* What a ready channel makes call() return.
Received == {<<"result", "ok">>, <<"result", "invalid">>, <<"error", "callerror">>,
             <<"closed", "transport">>}

\* timeout(call_timeout, rx) with a ready channel: the answer is validated
\* and decoded, a dropped sender is a transport error.
CallReturns(c) ==
    /\ phase[c] = "sent"
    /\ \E o \in Verdicts : <<slot[c], o>> \in Received /\ Return(c, o)
    /\ Prune(c)
    /\ UNCHANGED <<connVars, netVars>>

\* Mutant of CallTimesOut: rx is awaited without a timeout.
CallNeverTimesOut(c) == FALSE /\ UNCHANGED vars

CallTimesOut(c) ==
    /\ phase[c] = "sent" /\ slot[c] = "empty"
    /\ Return(c, "timeout")
    /\ Prune(c)
    /\ UNCHANGED <<connVars, netVars>>

\* The owner of the future drops it (an aborted heartbeat, sampler or consumer).
CallCancelled(c) ==
    /\ phase[c] \in {"registered", "sent"}
    /\ Return(c, "cancelled")
    /\ Prune(c)
    /\ UNCHANGED <<connVars, netVars>>

-----------------------------------------------------------------------------
(* The combined task of client k *)

\* One frame goes from the outbound channel to the socket.
TaskSend(k) ==
    /\ task[k] = "running" /\ outq[k] # <<>>
    /\ outq' = [outq EXCEPT ![k] = Tail(@)]
    /\ wire' = [wire EXCEPT ![k] = @ \cup {Head(outq[k])}]
    /\ UNCHANGED <<connVars, mapVars, answers, callVars>>

\* The socket refuses the frame: the loop is left, the frame is gone.
TaskSendFails(k) ==
    /\ task[k] = "running" /\ outq[k] # <<>>
    /\ outq' = [outq EXCEPT ![k] = Tail(@)]
    /\ task' = [task EXCEPT ![k] = "broken"]
    /\ UNCHANGED <<client, mapVars, wire, answers, callVars>>

\* Mutant of TaskReceive: an answer goes to any waiting call, not to its own.
TaskReceiveAny(k) ==
    /\ task[k] = "running"
    /\ \E a \in answers[k], c \in pending[k] : Settle(c, k, a[2])
    /\ UNCHANGED <<connVars, netVars, callVars>>

\* A CALLRESULT or CALLERROR is read.  The CSMS may repeat an answer.
TaskReceive(k) ==
    /\ task[k] = "running"
    /\ \E a \in answers[k] : Settle(a[1], k, a[2])
    /\ UNCHANGED <<connVars, netVars, callVars>>

\* The loop is left: the stream ended or failed, or every sender of the
\* outbound channel is gone because the client was replaced.
TaskBreak(k) ==
    /\ task[k] = "running"
    /\ task' = [task EXCEPT ![k] = "broken"]
    /\ UNCHANGED <<client, mapVars, netVars, callVars>>

TaskCancelAll(k) ==
    /\ task[k] = "broken"
    /\ CancelAll(k)
    /\ task' = [task EXCEPT ![k] = "cleared"]
    /\ UNCHANGED <<client, netVars, callVars>>

\* State Closed, Disconnected event, end of the future.
TaskEnd(k) ==
    /\ task[k] = "cleared"
    /\ task' = [task EXCEPT ![k] = "ended"]
    /\ outq' = [outq EXCEPT ![k] = <<>>]
    /\ UNCHANGED <<client, mapVars, wire, answers, callVars>>

-----------------------------------------------------------------------------
(* ChargePoint: who owns the client *)

\* establish_session: a new client replaces whatever was there.  A client
\* that is replaced is dropped, and so is the sender of its channel.
Establish(k) ==
    /\ task[k] = "unused"
    /\ client' = k
    /\ task' = [task EXCEPT ![k] = "running"]
    /\ UNCHANGED <<mapVars, netVars, callVars>>

\* Mutant of Disconnect: the task is aborted, the pending calls stay.
DisconnectAbortsOnly ==
    /\ client # NoConn
    /\ client' = NoConn
    /\ task' = [task EXCEPT ![client] = "ended"]
    /\ outq' = [outq EXCEPT ![client] = <<>>]
    /\ UNCHANGED <<mapVars, wire, answers, callVars>>

\* disconnect: the client is taken and closed while the write lock is held:
\* pending calls cancelled, the combined task aborted.
Disconnect ==
    /\ client # NoConn
    /\ client' = NoConn
    /\ CancelAll(client)
    /\ task' = [task EXCEPT ![client] = "ended"]
    /\ outq' = [outq EXCEPT ![client] = <<>>]
    /\ UNCHANGED <<wire, answers, callVars>>

-----------------------------------------------------------------------------
\* The CSMS (external) answers a CALL it has received.
CsmsAnswers(c, k) ==
    /\ c \in wire[k]
    /\ \E kind \in AnswerKinds :
          answers' = [answers EXCEPT ![k] = @ \cup {<<c, kind>>}]
    /\ UNCHANGED <<connVars, mapVars, outq, wire, callVars>>

-----------------------------------------------------------------------------
Init ==
    /\ client = NoConn
    /\ task = [k \in Conns |-> "unused"]
    /\ pending = [k \in Conns |-> {}]
    /\ outq = [k \in Conns |-> <<>>]
    /\ wire = [k \in Conns |-> {}]
    /\ answers = [k \in Conns |-> {}]
    /\ phase = [c \in Calls |-> "idle"]
    /\ home = [c \in Calls |-> NoConn]
    /\ slot = [c \in Calls |-> "none"]
    /\ verdict = [c \in Calls |-> "none"]

CallStep(c) ==
    \/ CallRefused(c) \/ CallRegister(c) \/ CallSend(c) \/ CallSendFails(c)
    \/ CallReturns(c) \/ CallTimesOut(c) \/ CallCancelled(c)

TaskStep(k) ==
    \/ TaskSend(k) \/ TaskSendFails(k) \/ TaskReceive(k)
    \/ TaskBreak(k) \/ TaskCancelAll(k) \/ TaskEnd(k)

Next ==
    \/ \E c \in Calls : CallStep(c)
    \/ \E k \in Conns : TaskStep(k)
    \/ \E k \in Conns : Establish(k)
    \/ Disconnect
    \/ \E c \in Calls, k \in Conns : CsmsAnswers(c, k)

Spec == Init /\ [][Next]_vars

\* A registered call is polled again by its task, and its timer fires.
FairSpec ==
    /\ Spec
    /\ \A c \in Calls :
          WF_vars(CallSend(c) \/ CallSendFails(c) \/ CallReturns(c) \/ CallTimesOut(c))

-----------------------------------------------------------------------------
(* Properties *)

\* Every variable holds a value of its kind: at most one current client, and
\* per connection the pending map, outbound channel and wire of OcppClient.
TypeOK ==
    /\ client \in Conns \cup {NoConn}
    /\ task \in [Conns -> TaskStates]
    /\ pending \in [Conns -> SUBSET Calls]
    /\ outq \in [Conns -> Seq(Calls)]
    /\ wire \in [Conns -> SUBSET Calls]
    /\ answers \in [Conns -> SUBSET (Calls \X AnswerKinds)]
    /\ phase \in [Calls -> Phases]
    /\ home \in [Calls -> Conns \cup {NoConn}]
    /\ slot \in [Calls -> Slots]
    /\ verdict \in [Calls -> Verdicts]

\* PendingGuard: whatever way a call ended (answer, timeout, send error,
\* closed link, dropped future), and whichever client is current by then, no
\* map holds an entry for it.
NoResidue ==
    \A c \in Calls, k \in Conns : c \in pending[k] => phase[c] \in {"registered", "sent"}

\* The step that clears a client's map (cancel_all at the end of its task, or
\* the disconnect that takes the client) leaves none of that client's open
\* calls, registered or sent, on an empty channel: no earlier answer, guard
\* drop or client swap has taken an open call's entry out of the map.
ClearingWakesAll ==
    [][\A k \in Conns, c \in Calls :
          /\ \/ task[k] # task'[k] /\ task'[k] = "cleared"
             \/ client = k /\ client' = NoConn
          /\ home[c] = k /\ phase[c] \in {"registered", "sent"}
          => slot'[c] # "empty"]_vars

\* What the comment on cancel_all promises: once the client's end has run it,
\* no call of that client is left to wait for its timeout.  A call that
\* registers after cancel_all and before the receiver of the outbound channel
\* is dropped is.
NoneHangsAfterEnd ==
    \A c \in Calls, k \in Conns :
        phase[c] = "sent" /\ home[c] = k /\ task[k] \in {"cleared", "ended"}
            => slot[c] # "empty"

\* A call returns a result or a CALLERROR only if the CSMS answered that very
\* unique_id, with that kind of answer, on the connection it registered with.
AnswerIsOwn ==
    \A c \in Calls :
        /\ verdict[c] \in {"ok", "invalid"} => <<c, "result">> \in answers[home[c]]
        /\ verdict[c] = "callerror" => <<c, "error">> \in answers[home[c]]

\* Every opened call ends, and the whole behaviour is one of the contract.
ImplementsContract == Contract!Spec
=============================================================================
