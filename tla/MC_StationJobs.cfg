SPECIFICATION FairSpec
CONSTANTS
    Configs <- MCConfigs
    Connectors <- MCConnectors
    Targets <- MCTargets
    MaxId = 2
    EntriesPerPage = 2
    MaxEntries = 3
    MaxRequests = 3
CHECK_DEADLOCK FALSE
INVARIANTS
    DrainedIsSettled
    ReportAssembles
PROPERTIES
    JobsSettle
