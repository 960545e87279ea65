-------------------------- MODULE MC_StationJobs --------------------------
(* The instance of StationJobs that TLC checks. *)
EXTENDS StationJobs

MCConfigs ==
    { [version |-> "V201", uploadFails |-> FALSE, firmware |-> "Success"],
      [version |-> "V201", uploadFails |-> TRUE, firmware |-> "DownloadFailed"],
      [version |-> "V16J", uploadFails |-> FALSE, firmware |-> "InstallationFailed"] }
MCConnectors == {1}
MCTargets == {Whole, 0, 1, 2}
============================================================================
