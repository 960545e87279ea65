CONSTANTS
    Versions = {"V201"}
    NumConnectors = 1
    AppTasks = {app1}
    Consumer = consumer
    MaxTx = 1
    MaxRequests = 1
    MaxFaults = 0
SPECIFICATION Spec
INVARIANT ProfileNeverOutlives
CHECK_DEADLOCK FALSE
