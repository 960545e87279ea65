CONSTANTS
    Versions = {"V16J", "V201"}
    NumConnectors = 2
    AppTasks = {app1}
    Consumer = consumer
    MaxTx = 2
    MaxRequests = 2
    MaxFaults = 1
SPECIFICATION Spec
INVARIANTS
    SessionIsLive
    
    EndedAtMostOnce
    ClosedIsReported
    FiredOnce
CHECK_DEADLOCK FALSE
