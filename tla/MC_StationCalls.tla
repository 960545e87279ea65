--------------------------- MODULE MC_StationCalls ---------------------------
(* Model-checking instance of StationCalls: two concurrent CALLs and two      *)
(* successive clients, the least that lets a CALL straddle a reconnection.    *)
EXTENDS StationCalls
=============================================================================
