---------------------------- MODULE CsmsInbound ----------------------------
(***************************************************************************)
(* How the CSMS serves the CALLs of one charge point (ocpp-transport       *)
(* server.rs, dispatch_handler.rs, ocpp-messages dispatcher.rs): one task  *)
(* per session alternates between the outbound channel and the socket; a   *)
(* CALL is dispatched, surfaces as events to the host application, and is  *)
(* answered before the next frame is looked at.  A handler may have an     *)
(* after-hook, a task of its own that may send CALLs to the same station.  *)
(*                                                                         *)
(* The handler of the server is the DispatchHandler or one of the host's.  *)
(* The answers to the CSMS's own CALLs, and the routing of sessions, are   *)
(* CsmsSessions'.                                                          *)
(***************************************************************************)
EXTENDS Naturals, Sequences, FiniteSets

CONSTANTS
    MaxCalls       \* bound: CALLs the station sends

ASSUME InboundAssumption == MaxCalls \in Nat

Calls == 1..MaxCalls
\* "Start" stands for StartTransaction and StopTransaction, "Boot" for
\* BootNotification and MeterValues.  The host registers an after-hook for both.
Actions == {"Status", "Start", "Boot", "Other"}
HookActions == {"Boot", "Start"}
Bespoke == {"result", "error", "none", "Err"}   \* what a handler of the host's may return

VARIABLES
    dispatches,   \* the server's handler is a DispatchHandler, not one of the host's
    wsState,      \* "open", "leaving" (the loop has ended), "over"
    serving,      \* the CALL being served, or NoServing
    received,     \* CALLs read so far
    requests,     \* history: the action of each CALL, and whether its payload decodes
    hooks,        \* after-hooks spawned that have yet to run
    outbound,     \* the outbound channel
    wire,         \* history: the frames that went out, in order
    reported,     \* history: the TransportEvents, in order
    outcome       \* history: how each CALL was answered

inboundVars == <<dispatches, wsState, serving, received, requests, hooks, outbound, wire,
                 reported, outcome>>

NoServing == [call |-> 0, action |-> "none", decodes |-> FALSE, at |-> "idle"]
Frame(kind, c) == [kind |-> kind, call |-> c]

InboundInit ==
    /\ dispatches \in BOOLEAN
    /\ wsState = "open"
    /\ serving = NoServing
    /\ received = 0
    /\ requests = [c \in Calls |-> [action |-> "none", decodes |-> FALSE]]
    /\ hooks = {}
    /\ outbound = <<>>
    /\ wire = <<>>
    /\ reported = <<>>
    /\ outcome = [c \in Calls |-> "none yet"]

Idle == wsState = "open" /\ serving = NoServing

\* A CALL is read: the raw frame is an event of its own, before it is dispatched.
ReadCall(action, decodes) ==
    /\ Idle
    /\ received < MaxCalls
    /\ received' = received + 1
    /\ requests' = [requests EXCEPT ![received'] = [action |-> action, decodes |-> decodes]]
    /\ serving' = [call |-> received', action |-> action, decodes |-> decodes, at |-> "dispatch"]
    /\ reported' = Append(reported, Frame("MessageReceived", received'))
    /\ UNCHANGED <<dispatches, wsState, hooks, outbound, wire, outcome>>

\* ActionDispatcher::dispatch through DispatchHandler.  Whatever refuses the CALL (no
\* route, the schema of the request or of the response, the handler), DispatchHandler
\* returns Ok with a CALLERROR; when nothing does, the after-hook is spawned ahead of
\* the answer.
Dispatch ==
    /\ wsState = "open"
    /\ serving.at = "dispatch"
    /\ dispatches
    /\ \/ /\ outcome' = [outcome EXCEPT ![serving.call] = "error"]
          /\ UNCHANGED hooks
       \/ /\ outcome' = [outcome EXCEPT ![serving.call] = "result"]
          /\ hooks' = IF serving.action \in HookActions THEN hooks \cup {serving.call} ELSE hooks
    /\ serving' = [serving EXCEPT !.at = "report"]
    /\ UNCHANGED <<dispatches, wsState, received, requests, outbound, wire, reported>>

\* A handler of the host's: any answer, none, or an Err.
HandleMessage(answer) ==
    /\ wsState = "open"
    /\ serving.at = "dispatch"
    /\ ~dispatches
    /\ outcome' = [outcome EXCEPT ![serving.call] = answer]
    /\ serving' = [serving EXCEPT !.at = "report"]
    /\ UNCHANGED <<dispatches, wsState, received, requests, hooks, outbound, wire, reported>>

\* Mutant: the events are gated on Ok, as that of StatusNotification is.
SurfacesOnOk(s) ==
    /\ s.action # "Other"
    /\ s.decodes
    /\ outcome[s.call] # "Err"

\* What surfaces: a StatusNotification whenever the handler returned Ok, even with a
\* CALLERROR; the transaction and lifecycle events only with a CALLRESULT; each only
\* if its payload decodes.
Surfaces(s) ==
    /\ s.action # "Other"
    /\ s.decodes
    /\ IF s.action = "Status" THEN outcome[s.call] # "Err" ELSE outcome[s.call] = "result"

EmitEvents ==
    /\ wsState = "open"
    /\ serving.at = "report"
    /\ reported' = IF Surfaces(serving)
                   THEN Append(reported, Frame(serving.action, serving.call)) ELSE reported
    /\ serving' = [serving EXCEPT !.at = "answer"]
    /\ UNCHANGED <<dispatches, wsState, received, requests, hooks, outbound, wire, outcome>>

\* Mutant: the answer goes through the outbound channel.
RespondQueued(frame) ==
    /\ outbound' = Append(outbound, frame)
    /\ UNCHANGED wire

\* The answer is written to the socket by the loop itself, ahead of the channel.
Respond(frame) ==
    /\ wire' = Append(wire, frame)
    /\ UNCHANGED outbound

\* build_call_error turns an Err into a CALLERROR; Ok(None) answers nothing.
Answer ==
    /\ wsState = "open"
    /\ serving.at = "answer"
    /\ \/ /\ outcome[serving.call] = "none"
          /\ UNCHANGED <<wsState, wire, outbound>>
       \/ /\ outcome[serving.call] # "none"
          /\ Respond(Frame(IF outcome[serving.call] = "result" THEN "CALLRESULT" ELSE "CALLERROR",
                           serving.call))
          /\ UNCHANGED wsState
       \/ /\ outcome[serving.call] # "none"                \* the socket is gone
          /\ wsState' = "leaving"
          /\ UNCHANGED <<wire, outbound>>
    /\ serving' = NoServing
    /\ UNCHANGED <<dispatches, received, requests, hooks, reported, outcome>>

\* The hook runs when the runtime lets it, also before the answer is out, and sends a
\* CALL to the station; without a session it fails.
RunHook(c) ==
    /\ c \in hooks
    /\ hooks' = hooks \ {c}
    /\ outbound' = IF wsState = "open" THEN Append(outbound, Frame("HOOK", c)) ELSE outbound
    /\ UNCHANGED <<dispatches, wsState, serving, received, requests, wire, reported, outcome>>

\* A frame of the outbound channel, between two inbound ones.
SendOutbound ==
    /\ Idle
    /\ outbound # <<>>
    /\ outbound' = Tail(outbound)
    /\ \/ wire' = Append(wire, Head(outbound)) /\ UNCHANGED wsState
       \/ wsState' = "leaving" /\ UNCHANGED wire
    /\ UNCHANGED <<dispatches, serving, received, requests, hooks, reported, outcome>>

\* The socket closes or fails, a frame is too large, or the channel is closed.
LeaveLoop ==
    /\ Idle
    /\ wsState' = "leaving"
    /\ UNCHANGED <<dispatches, serving, received, requests, hooks, outbound, wire, reported, outcome>>

\* The teardown ends with the last event of the connection.
Teardown ==
    /\ wsState = "leaving"
    /\ wsState' = "over"
    /\ reported' = Append(reported, Frame("Disconnected", 0))
    /\ UNCHANGED <<dispatches, serving, received, requests, hooks, outbound, wire, outcome>>

InboundNext ==
    \/ \E action \in Actions, decodes \in BOOLEAN : ReadCall(action, decodes)
    \/ Dispatch
    \/ \E answer \in Bespoke : HandleMessage(answer)
    \/ EmitEvents
    \/ Answer
    \/ \E c \in Calls : RunHook(c)
    \/ SendOutbound
    \/ LeaveLoop
    \/ Teardown

InboundSpec == InboundInit /\ [][InboundNext]_inboundVars

---------------------------------------------------------------------------
(* Properties *)

InboundTypeOK ==
    /\ wsState \in {"open", "leaving", "over"}
    /\ received \in 0..MaxCalls
    /\ hooks \subseteq Calls
    /\ \A c \in Calls : outcome[c] \in Bespoke \cup {"none yet"}

\* A CALL that an after-hook sends to the station goes out after the CALLRESULT of the
\* CALL it hooks on, although the hook is spawned before that answer is written; and
\* within this session not at all when it was never written
\* (ActionDispatcher::dispatch spawns at line 495, the loop writes the answer at
\* server.rs 1164 and drains the channel at 1016).
AnswerBeforeHook ==
    \A i \in DOMAIN wire : wire[i].kind = "HOOK" =>
        \E j \in 1..(i - 1) : wire[j] = Frame("CALLRESULT", wire[i].call)

\* The host is told kind of the CALL c.
Told(kind, c) == \E j \in DOMAIN reported : reported[j] = Frame(kind, c)

\* A transaction or boot event stands for a CALL that the handler accepted, follows
\* the raw frame, and comes once; nothing comes after Disconnected; and every answer
\* on the wire is to a CALL whose raw frame was reported.
EventsInOrder ==
    /\ \A i \in DOMAIN reported :
        LET e == reported[i]
        IN  /\ e.kind \in {"Start", "Boot"} => outcome[e.call] = "result"
            /\ e.kind \in Actions =>
                  \E j \in 1..(i - 1) : reported[j] = Frame("MessageReceived", e.call)
            /\ e.kind # "Disconnected" => \A j \in 1..(i - 1) : reported[j] # e
            /\ e.kind = "Disconnected" => i = Len(reported)
    /\ \A i \in DOMAIN wire : wire[i].kind # "HOOK" => Told("MessageReceived", wire[i].call)

\* When the CALLRESULT of a CALL is on the wire, its status, transaction or boot event
\* has been reported, provided that the payload decodes.
AnswersFollowEvents ==
    \A i \in DOMAIN wire :
        LET c == wire[i].call
        IN  wire[i].kind = "CALLRESULT" /\ requests[c].action # "Other" /\ requests[c].decodes =>
                Told(requests[c].action, c)

\* What the host is told is true, in order and complete: the two parts above, together
\* (server.rs 1073-1167).  A StatusNotification is left out of the first part, because
\* its event also surfaces when the CALL is refused: see StatusIsAccepted.
EventsAreTruthful == EventsInOrder /\ AnswersFollowEvents

(* What a comment of the source claims and the code does not keep *)

\* "emit the event only after the handler accepts it (below), ... avoiding an event for
\* a frame the CSMS rejects": no StatusNotification event stands for a CALL that is
\* answered with a CALLERROR.
StatusIsAccepted ==
    \A i \in DOMAIN reported : reported[i].kind = "Status" => outcome[reported[i].call] # "error"
============================================================================
