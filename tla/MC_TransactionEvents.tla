------------------------ MODULE MC_TransactionEvents ------------------------
(* Two tasks on one EVSE. *)
EXTENDS TransactionEvents
=============================================================================
