CONSTANTS
    Versions = {"V201"}
    NumConnectors = 1
    AppTasks = {app1}
    Consumer = consumer
    MaxTx = 2
    MaxRequests = 2
    MaxFaults = 0
SPECIFICATION FairSpec
PROPERTIES
    ArmedResetHappens
    CommandsFinish
CHECK_DEADLOCK FALSE
