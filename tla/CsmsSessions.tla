---------------------------- MODULE CsmsSessions ----------------------------
(***************************************************************************)
(* The CSMS side of the link: `OcppServer` with its routing table          *)
(* (`cp_handles`), its connection table, one `handle_cp_socket` task per   *)
(* WebSocket session and the CALLs that `OcppServer::call` sends to charge *)
(* points.                                                                 *)
(*                                                                         *)
(* A charge point may reconnect before its old session has noticed that    *)
(* the link is dead, so one station can own several sessions; only the     *)
(* last one to start is routed.  `call` clones the routing handle and      *)
(* works on the clone: the session may be superseded, torn down or the     *)
(* server stopped at any point in between, and as long as the clone lives  *)
(* the session's outbound channel is not closed.  Unlike the station's     *)
(* `call`, this one has no RAII guard: a dropped future leaves its entry.  *)
(***************************************************************************)
EXTENDS Naturals, Sequences, FiniteSets

CONSTANTS Stations,   \* charge point ids
          Sessions,   \* connection ids, one per accepted WebSocket
          Calls,      \* server-initiated CALLs; each has a fresh unique_id
          NoSession, NoStation

ASSUME NoneAssumption == NoSession \notin Sessions /\ NoStation \notin Stations

VARIABLES
    server,       \* "up", "stopping" (calls cancelled), "stopped"
    sess,         \* [Sessions -> SessionStates]: the session's task
    owner,        \* [Sessions -> Stations \cup {NoStation}]
    handle,       \* [Stations -> Sessions \cup {NoSession}]: cp_handles
    connections,  \* SUBSET Sessions: the connection table
    pending,      \* [Sessions -> SUBSET Calls]: the session's PendingCallMap
    outq,         \* [Sessions -> Seq(Calls)]: the session's outbound channel
    wire,         \* [Sessions -> SUBSET Calls]: frames the station received
    answers,      \* [Sessions -> SUBSET (Calls \X AnswerKinds)]
    phase,        \* [Calls -> Phases]: progress of call()
    target,       \* [Calls -> Stations \cup {NoStation}]: its cp_id argument
    home,         \* [Calls -> Sessions \cup {NoSession}]: the cloned handle
    slot,         \* [Calls -> Slots]: the oneshot channel
    verdict       \* [Calls -> Verdicts]: what call() returned

routeVars == <<server, handle, connections>>
sessVars  == <<sess, owner>>
mapVars   == <<pending, slot>>
netVars   == <<outq, wire, answers>>
callVars  == <<phase, target, home, verdict>>
vars == <<server, sess, owner, handle, connections, pending, outq, wire, answers,
          phase, target, home, slot, verdict>>

Contract == INSTANCE CallContract
                WITH stage    <- [c \in Calls |->
                                    IF phase[c] \in {"resolved", "registered", "sent"}
                                    THEN "open" ELSE phase[c]],
                     answered <- UNION {answers[s] : s \in Sessions}

AnswerKinds == {"result", "error"}
Verdicts    == {"none", "ok", "invalid", "callerror", "timeout", "transport",
                "cancelled"}

\* "broken": the loop was left; "unrouted": the handle was compared and
\* removed; "cleared": the pending calls were cancelled; "gone": the task is
\* over and the receiver of the outbound channel dropped.
SessionStates == {"unused", "upgrading", "open", "broken", "unrouted", "cleared", "gone"}
Phases        == {"idle", "resolved", "registered", "sent", "done"}
Slots         == {"none", "empty", "result", "error", "closed"}

-----------------------------------------------------------------------------
(* PendingCallMap *)

Settle(c, s, kind) ==
    /\ pending' = [pending EXCEPT ![s] = @ \ {c}]
    /\ slot' = IF c \in pending[s] THEN [slot EXCEPT ![c] = kind] ELSE slot

CancelAllOf(S) ==
    /\ pending' = [s \in Sessions |-> IF s \in S THEN {} ELSE pending[s]]
    /\ slot' = [c \in Calls |-> IF \E s \in S : c \in pending[s] THEN "closed" ELSE slot[c]]

-----------------------------------------------------------------------------
(* OcppServer::call *)

Return(c, o) ==
    /\ phase' = [phase EXCEPT ![c] = "done"]
    /\ verdict' = [verdict EXCEPT ![c] = o]
    /\ UNCHANGED home

\* No routing handle: CpNotConnected before anything is registered.
CallRefused(c, cp) ==
    /\ phase[c] = "idle" /\ handle[cp] = NoSession
    /\ target' = [target EXCEPT ![c] = cp]
    /\ Return(c, "transport")
    /\ UNCHANGED <<routeVars, sessVars, mapVars, netVars>>

\* The handle is cloned out of the table.
CallResolve(c, cp) ==
    /\ phase[c] = "idle" /\ handle[cp] # NoSession
    /\ phase' = [phase EXCEPT ![c] = "resolved"]
    /\ target' = [target EXCEPT ![c] = cp]
    /\ home' = [home EXCEPT ![c] = handle[cp]]
    /\ UNCHANGED <<routeVars, sessVars, mapVars, netVars, verdict>>

CallRegister(c) ==
    /\ phase[c] = "resolved"
    /\ phase' = [phase EXCEPT ![c] = "registered"]
    /\ pending' = [pending EXCEPT ![home[c]] = @ \cup {c}]
    /\ slot' = [slot EXCEPT ![c] = "empty"]
    /\ UNCHANGED <<routeVars, sessVars, netVars, target, home, verdict>>

CallSend(c) ==
    /\ phase[c] = "registered" /\ sess[home[c]] # "gone"
    /\ phase' = [phase EXCEPT ![c] = "sent"]
    /\ outq' = [outq EXCEPT ![home[c]] = Append(@, c)]
    /\ UNCHANGED <<routeVars, sessVars, mapVars, wire, answers, target, home, verdict>>

\* The receiver of the channel is gone: the call rejects its own entry.
CallSendFails(c) ==
    /\ phase[c] = "registered" /\ sess[home[c]] = "gone"
    /\ Settle(c, home[c], "error")
    /\ Return(c, "transport")
    /\ UNCHANGED <<routeVars, sessVars, netVars, target>>

\* What a ready channel makes call() return.
Received == {<<"result", "ok">>, <<"result", "invalid">>, <<"error", "callerror">>,
             <<"closed", "transport">>}

CallReturns(c) ==
    /\ phase[c] = "sent"
    /\ \E o \in Verdicts : <<slot[c], o>> \in Received /\ Return(c, o)
    /\ UNCHANGED <<routeVars, sessVars, mapVars, netVars, target>>

\* Mutant of CallTimesOut: rx is awaited without a timeout.
CallNeverTimesOut(c) == FALSE /\ UNCHANGED vars

\* The timer fires first: the call rejects its own entry and returns Timeout.
CallTimesOut(c) ==
    /\ phase[c] = "sent" /\ slot[c] = "empty"
    /\ Settle(c, home[c], "error")
    /\ Return(c, "timeout")
    /\ UNCHANGED <<routeVars, sessVars, netVars, target>>

\* The caller drops the future: nothing prunes the entry.
CallCancelled(c) ==
    /\ phase[c] \in {"resolved", "registered", "sent"}
    /\ Return(c, "cancelled")
    /\ UNCHANGED <<routeVars, sessVars, mapVars, netVars, target>>

-----------------------------------------------------------------------------
(* handle_cp_socket: the task of session s *)

\* ws_handler: the id and the subprotocol were acceptable, the upgrade is
\* under way.  The connection's task is not the serve task that stop() aborts.
Handshake(s, cp) ==
    /\ server = "up" /\ sess[s] = "unused"
    /\ sess' = [sess EXCEPT ![s] = "upgrading"]
    /\ owner' = [owner EXCEPT ![s] = cp]
    /\ UNCHANGED <<routeVars, mapVars, netVars, callVars>>

\* The session enters both tables; an older session's handle is overwritten.
SessionStart(s) ==
    /\ sess[s] = "upgrading"
    /\ sess' = [sess EXCEPT ![s] = "open"]
    /\ connections' = connections \cup {s}
    /\ handle' = [handle EXCEPT ![owner[s]] = s]
    /\ UNCHANGED <<server, owner, mapVars, netVars, callVars>>

SessionSend(s) ==
    /\ sess[s] = "open" /\ outq[s] # <<>>
    /\ outq' = [outq EXCEPT ![s] = Tail(@)]
    /\ wire' = [wire EXCEPT ![s] = @ \cup {Head(outq[s])}]
    /\ UNCHANGED <<routeVars, sessVars, mapVars, answers, callVars>>

SessionSendFails(s) ==
    /\ sess[s] = "open" /\ outq[s] # <<>>
    /\ outq' = [outq EXCEPT ![s] = Tail(@)]
    /\ sess' = [sess EXCEPT ![s] = "broken"]
    /\ UNCHANGED <<routeVars, owner, mapVars, wire, answers, callVars>>

\* Mutant of SessionReceive: an answer goes to any waiting call.
SessionReceiveAny(s) ==
    /\ sess[s] = "open"
    /\ \E a \in answers[s], c \in pending[s] : Settle(c, s, a[2])
    /\ UNCHANGED <<routeVars, sessVars, netVars, callVars>>

\* A CALLRESULT or CALLERROR is read; the station may repeat an answer.
SessionReceive(s) ==
    /\ sess[s] = "open"
    /\ \E a \in answers[s] : Settle(a[1], s, a[2])
    /\ UNCHANGED <<routeVars, sessVars, netVars, callVars>>

\* Close frame, socket error, end of stream, or an oversized frame.
SessionBreak(s) ==
    /\ sess[s] = "open"
    /\ sess' = [sess EXCEPT ![s] = "broken"]
    /\ UNCHANGED <<routeVars, owner, mapVars, netVars, callVars>>

\* Those who hold a sender of s's outbound channel.
Holders(s) == {cp \in Stations : handle[cp] = s} \cup
              {c \in Calls : phase[c] \in {"resolved", "registered", "sent"} /\ home[c] = s}

\* Mutant of SessionOrphaned: the task keeps a sender of its own channel.
SessionHoldsItself(s) == FALSE /\ UNCHANGED vars

\* out_rx.recv() is None: no sender is left and the queue is drained.
SessionOrphaned(s) ==
    /\ sess[s] = "open" /\ Holders(s) = {} /\ outq[s] = <<>>
    /\ sess' = [sess EXCEPT ![s] = "broken"]
    /\ UNCHANGED <<routeVars, owner, mapVars, netVars, callVars>>

\* Mutants of SessionUnroute: the removal of issue #50, which does not compare;
\* and no removal at all.
SessionUnrouteAny(s) ==
    /\ sess[s] = "broken"
    /\ sess' = [sess EXCEPT ![s] = "unrouted"]
    /\ handle' = [handle EXCEPT ![owner[s]] = NoSession]
    /\ UNCHANGED <<server, owner, connections, mapVars, netVars, callVars>>

SessionStaysRouted(s) ==
    /\ sess[s] = "broken"
    /\ sess' = [sess EXCEPT ![s] = "unrouted"]
    /\ UNCHANGED <<routeVars, owner, mapVars, netVars, callVars>>

\* Teardown 1: compare-and-remove of the routing handle.
SessionUnroute(s) ==
    /\ sess[s] = "broken"
    /\ sess' = [sess EXCEPT ![s] = "unrouted"]
    /\ handle' = [cp \in Stations |->
                    IF cp = owner[s] /\ handle[cp] = s THEN NoSession ELSE handle[cp]]
    /\ UNCHANGED <<server, owner, connections, mapVars, netVars, callVars>>

\* Teardown 2: the pending calls are cancelled.
SessionCancelAll(s) ==
    /\ sess[s] = "unrouted"
    /\ sess' = [sess EXCEPT ![s] = "cleared"]
    /\ CancelAllOf({s})
    /\ UNCHANGED <<routeVars, owner, netVars, callVars>>

\* Teardown 3: the connection entry goes, Disconnected is emitted, the task ends.
SessionGone(s) ==
    /\ sess[s] = "cleared"
    /\ sess' = [sess EXCEPT ![s] = "gone"]
    /\ connections' = connections \ {s}
    /\ outq' = [outq EXCEPT ![s] = <<>>]
    /\ UNCHANGED <<server, handle, owner, mapVars, wire, answers, callVars>>

-----------------------------------------------------------------------------
(* The rest of OcppServer *)

\* cleanup_idle_connections drops an entry of the connection table only.
\* last_activity is never refreshed by a session, so any entry may be idle.
CleanupIdle(s) ==
    /\ s \in connections
    /\ connections' = connections \ {s}
    /\ UNCHANGED <<server, handle, sessVars, mapVars, netVars, callVars>>

\* stop, first half: the serve task is aborted, the pending calls of the
\* routed sessions are cancelled.
StopCancel ==
    /\ server = "up"
    /\ server' = "stopping"
    /\ CancelAllOf({handle[cp] : cp \in Stations} \cap Sessions)
    /\ UNCHANGED <<handle, connections, sessVars, netVars, callVars>>

\* stop, second half: both tables are cleared.
StopClear ==
    /\ server = "stopping"
    /\ server' = "stopped"
    /\ handle' = [cp \in Stations |-> NoSession]
    /\ connections' = {}
    /\ UNCHANGED <<sessVars, mapVars, netVars, callVars>>

\* The charge point (external) answers a CALL it has received.
StationAnswers(c, s) ==
    /\ c \in wire[s]
    /\ \E kind \in AnswerKinds :
          answers' = [answers EXCEPT ![s] = @ \cup {<<c, kind>>}]
    /\ UNCHANGED <<routeVars, sessVars, mapVars, outq, wire, callVars>>

-----------------------------------------------------------------------------
Init ==
    /\ server = "up"
    /\ sess = [s \in Sessions |-> "unused"]
    /\ owner = [s \in Sessions |-> NoStation]
    /\ handle = [cp \in Stations |-> NoSession]
    /\ connections = {}
    /\ pending = [s \in Sessions |-> {}]
    /\ outq = [s \in Sessions |-> <<>>]
    /\ wire = [s \in Sessions |-> {}]
    /\ answers = [s \in Sessions |-> {}]
    /\ phase = [c \in Calls |-> "idle"]
    /\ target = [c \in Calls |-> NoStation]
    /\ home = [c \in Calls |-> NoSession]
    /\ slot = [c \in Calls |-> "none"]
    /\ verdict = [c \in Calls |-> "none"]

CallStep(c) ==
    \/ \E cp \in Stations : CallRefused(c, cp) \/ CallResolve(c, cp)
    \/ CallRegister(c) \/ CallSend(c) \/ CallSendFails(c)
    \/ CallReturns(c) \/ CallTimesOut(c) \/ CallCancelled(c)

SessionStep(s) ==
    \/ \E cp \in Stations : Handshake(s, cp)
    \/ SessionStart(s)
    \/ SessionSend(s) \/ SessionSendFails(s) \/ SessionReceive(s) \/ SessionBreak(s)
    \/ SessionOrphaned(s)
    \/ SessionUnroute(s) \/ SessionCancelAll(s) \/ SessionGone(s)

Next ==
    \/ \E c \in Calls : CallStep(c)
    \/ \E s \in Sessions : SessionStep(s) \/ CleanupIdle(s)
    \/ StopCancel \/ StopClear
    \/ \E c \in Calls, s \in Sessions : StationAnswers(c, s)

Spec == Init /\ [][Next]_vars

\* The runtime polls every task that can move and fires every timer; nobody
\* promises that a station answers, that a link breaks or that stop is called.
Fairness ==
    /\ \A c \in Calls :
          WF_vars(CallRegister(c) \/ CallSend(c) \/ CallSendFails(c)
                  \/ CallReturns(c) \/ CallTimesOut(c))
    /\ \A s \in Sessions :
          WF_vars(SessionSend(s) \/ SessionOrphaned(s) \/ SessionUnroute(s)
                  \/ SessionCancelAll(s) \/ SessionGone(s))

FairSpec == Spec /\ Fairness

-----------------------------------------------------------------------------
(* Properties *)

\* Every variable holds a value of its kind: one routed handle per station, and
\* per session the pending map, outbound channel and wire of its tasks.
TypeOK ==
    /\ server \in {"up", "stopping", "stopped"}
    /\ sess \in [Sessions -> SessionStates]
    /\ owner \in [Sessions -> Stations \cup {NoStation}]
    /\ handle \in [Stations -> Sessions \cup {NoSession}]
    /\ connections \subseteq Sessions
    /\ pending \in [Sessions -> SUBSET Calls]
    /\ outq \in [Sessions -> Seq(Calls)]
    /\ wire \in [Sessions -> SUBSET Calls]
    /\ answers \in [Sessions -> SUBSET (Calls \X AnswerKinds)]
    /\ phase \in [Calls -> Phases]
    /\ target \in [Calls -> Stations \cup {NoStation}]
    /\ home \in [Calls -> Sessions \cup {NoSession}]
    /\ slot \in [Calls -> Slots]
    /\ verdict \in [Calls -> Verdicts]

\* is_cp_connected and call never see a dead or a foreign session: a routed
\* session belongs to that station and has not got past its compare-and-remove.
RoutedIsLive ==
    \A cp \in Stations :
        handle[cp] # NoSession =>
            owner[handle[cp]] = cp /\ sess[handle[cp]] \in {"open", "broken"}

\* Issue #50: the route to a session whose loop runs is given up only to a
\* newer session or to stop; the teardown of an older session never takes it.
OpenRouteKept ==
    [][\A cp \in Stations :
          (handle[cp] # NoSession /\ handle'[cp] = NoSession) =>
              sess[handle[cp]] = "broken" \/ server = "stopping"]_vars

\* No cross-CP and no cross-call correlation: call() returns an answer only if
\* a session of the station it was addressed to gave it to that unique_id.
AnswerFromTarget ==
    \A c \in Calls : \A kind \in AnswerKinds :
        verdict[c] \in {o \in Verdicts : <<kind, o>> \in Received} =>
            owner[home[c]] = target[c] /\ <<c, kind>> \in answers[home[c]]

\* Every server call ends, and the whole behaviour is one of the contract.
ImplementsContract == Contract!Spec

\* A superseded session, and every session left open by stop, ends on its own
\* once the calls that cloned its handle have ended, even if its link is silent.
UnroutedSessionEnds ==
    \A s \in Sessions :
        (sess[s] = "open" /\ \A cp \in Stations : handle[cp] # s) ~> (sess[s] = "gone")
=============================================================================
