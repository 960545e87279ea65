--------------------------- MODULE MC_CsmsSessions ---------------------------
(***************************************************************************)
(* Model-checking instance of CsmsSessions: two calls, two sessions, two   *)
(* stations.  The constants are named in the order of their first use, so  *)
(* that of behaviours that differ in names only one is explored; symmetry  *)
(* sets would not do, as the run checks liveness.                          *)
(***************************************************************************)
EXTENDS CsmsSessions

CONSTANTS c1, c2, s1, s2, cp1

\* c1 is the first call, s1 the first session and cp1 its station.
InOrder ==
    /\ phase'[c2] # "idle" => phase'[c1] # "idle"
    /\ sess'[s2] # "unused" => sess'[s1] # "unused"
    /\ owner'[s1] \in {cp1, NoStation}

\* One call meets the sessions of two stations.  A second call is made while the
\* first is under way, and both meet in the only session, or, after a reconnection,
\* the first waits in the old session and the second in the new one.  Only the
\* first session ever looks idle: no property speaks of the connection table.
Bounds ==
    /\ phase[c2] # phase'[c2] /\ phase[c2] = "idle" => phase[c1] # "done"
    /\ phase'[c2] # "idle" =>
          \/ sess'[s2] = "unused"
          \/ /\ home'[c1] = s1 /\ phase'[c1] \in {"sent", "done"}
             /\ home'[c2] = s2 /\ owner'[s2] = cp1
    /\ s2 \in connections \ connections' => sess'[s2] = "gone" \/ server' = "stopped"

MCSpec == Init /\ [][Next /\ InOrder /\ Bounds]_vars /\ Fairness
=============================================================================
