CONSTANTS
    Versions = {"V201"}
    NumConnectors = 1
    AppTasks = {app1}
    Consumer = consumer
    MaxTx = 2
    MaxRequests = 1
    MaxFaults = 0
SPECIFICATION Spec
PROPERTY DeferredResetSparesSessions
CHECK_DEADLOCK FALSE
