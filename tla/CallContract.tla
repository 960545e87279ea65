---------------------------- MODULE CallContract ----------------------------
(***************************************************************************)
(* What a caller of an OCPP-J `call()` may rely on, on either side of the  *)
(* link: a call that was opened ends exactly once, it ends "ok" or         *)
(* "callerror" only with an answer the peer really gave to that very call, *)
(* and every opened call ends.  StationCalls and CsmsSessions implement    *)
(* this specification.                                                     *)
(***************************************************************************)
CONSTANTS Calls    \* the CALLs issued, each with its own unique_id

VARIABLES stage,    \* [Calls -> {"idle", "open", "done"}]
          verdict,  \* [Calls -> Verdicts]: what call() returned
          answered  \* the answers <<call, kind>> the peer has given

vars == <<stage, verdict, answered>>

AnswerKinds == {"result", "error"}

\* What `call()` returns.  "invalid" is a CALLRESULT refused by the schema
\* validator or by the decoder, "cancelled" a future dropped by its owner.
Verdicts == {"none", "ok", "invalid", "callerror", "timeout", "transport",
             "cancelled"}

\* The verdicts that carry an answer, and the answer each needs.
Needs(o) == CASE o \in {"ok", "invalid"} -> "result"
              [] o = "callerror"         -> "error"
              [] OTHER                   -> "nothing"

Init ==
    /\ stage = [c \in Calls |-> "idle"]
    /\ verdict = [c \in Calls |-> "none"]
    /\ answered = {}

\* A call is opened: its entry is in a pending-call map.
Open(c) ==
    /\ stage[c] = "idle"
    /\ stage' = [stage EXCEPT ![c] = "open"]
    /\ UNCHANGED <<verdict, answered>>

\* A call fails before it is opened: there is no session to send it on.
Refuse(c) ==
    /\ stage[c] = "idle"
    /\ stage' = [stage EXCEPT ![c] = "done"]
    /\ verdict' = [verdict EXCEPT ![c] = "transport"]
    /\ UNCHANGED answered

\* The peer answers a call, possibly after the caller gave up.
Answer(c, kind) ==
    /\ stage[c] # "idle"
    /\ answered' = answered \cup {<<c, kind>>}
    /\ UNCHANGED <<stage, verdict>>

\* An opened call ends.
Finish(c) ==
    /\ stage[c] = "open"
    /\ stage' = [stage EXCEPT ![c] = "done"]
    /\ \E o \in Verdicts \ {"none"} :
          /\ Needs(o) # "nothing" => <<c, Needs(o)>> \in answered
          /\ verdict' = [verdict EXCEPT ![c] = o]
    /\ UNCHANGED answered

Next ==
    \E c \in Calls :
        \/ Open(c)
        \/ Refuse(c)
        \/ \E kind \in AnswerKinds : Answer(c, kind)
        \/ Finish(c)

\* The safety part, which the refinement proofs establish.
SafeSpec == Init /\ [][Next]_vars

Spec == SafeSpec /\ \A c \in Calls : WF_vars(Finish(c))
=============================================================================
