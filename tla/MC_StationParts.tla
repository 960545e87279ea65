-------------------------- MODULE MC_StationParts --------------------------
(***************************************************************************)
(* The instances of five components that share no state with each other:   *)
(* StationLink, Authorization, Certificates and DeviceModel of the         *)
(* station, and CsmsInbound.  A behaviour is one of one component, the     *)
(* others stay at their initial states, so that the state spaces add up    *)
(* and do not multiply.                                                    *)
(***************************************************************************)
EXTENDS StationLink, Authorization, Certificates, DeviceModel, CsmsInbound

VARIABLE part      \* the component that moves

MCAuthConfigs ==
    { [version |-> "V201", listEnabled |-> TRUE, staleOk |-> TRUE],
      [version |-> "V16J", listEnabled |-> FALSE, staleOk |-> FALSE] }

MCTagInfos ==
    { [status |-> "Accepted", expiry |-> Never],
      [status |-> "Accepted", expiry |-> 2],
      [status |-> "NoCredit", expiry |-> Never] }

partsVars == <<part, vars, authVars, certVars, deviceVars, inboundVars>>

\* A component that does not move needs only one of its initial states.
PartsInit ==
    /\ part \in {"link", "authorization", "certificates", "devicemodel", "inbound"}
    /\ Init
    /\ AuthInit
    /\ CertInit
    /\ DeviceInit
    /\ InboundInit
    /\ part # "authorization" => authConfig = CHOOSE c \in MCAuthConfigs : TRUE
    /\ part # "inbound" => dispatches

\* The step of one component, the others at rest.
Link(A) == part = "link" /\ A /\ UNCHANGED <<part, authVars, certVars, deviceVars, inboundVars>>

PartsNext ==
    \/ Link(Next)
    \/ /\ part = "authorization" /\ AuthNext
       /\ UNCHANGED <<part, vars, certVars, deviceVars, inboundVars>>
    \/ /\ part = "certificates" /\ CertNext
       /\ UNCHANGED <<part, vars, authVars, deviceVars, inboundVars>>
    \/ /\ part = "devicemodel" /\ DeviceNext
       /\ UNCHANGED <<part, vars, authVars, certVars, inboundVars>>
    \/ /\ part = "inbound" /\ InboundNext
       /\ UNCHANGED <<part, vars, authVars, certVars, deviceVars>>

\* The fairness is that of StationLink's FairSpec.
PartsSpec ==
    /\ PartsInit
    /\ [][PartsNext]_partsVars
    /\ \A t \in Tasks : WF_partsVars(Link(TaskStep(t)))
    /\ WF_partsVars(Link(TakeReset))
    /\ WF_partsVars(Link(KillConsumer))
    /\ WF_partsVars(Link(MakeUnavailable))
============================================================================
