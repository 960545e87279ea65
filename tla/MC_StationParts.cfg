SPECIFICATION PartsSpec
CONSTANTS
    MaxBootRetries = 1
    MaxOps = 4
    AuthConfigs <- MCAuthConfigs
    TagInfos <- MCTagInfos
    IdTags = {"t1", "t2"}
    AskedTags = {"t1"}
    Askers = {"a1", "a2"}
    MaxLength = 1
    Ttl = 1
    MaxTime = 2
    MaxListUpdates = 1
    Uses = {"csmsRoot", "moRoot"}
    Pems = {"p"}
    Signers = {"app", "consumer"}
    CsrTypes = {"station"}
    MaxCsrs = 3
    StationVars = {"interval", "chain"}
    ReadOnlyVars = {"chain"}
    Values = {0, 1}
    MonitorKinds = {"UpperThreshold", "LowerThreshold", "Delta", "Periodic"}
    Thresholds = {1}
    Severities = {8}
    MaxMonitorId = 2
    MaxTrips = 1
    MaxCalls = 2
CHECK_DEADLOCK FALSE
INVARIANTS
    OneHeartbeat
    HeartbeatsAfterBoot
    GrantIsBacked
    RequestsAccountedFor
    EventsAreAttributable
    AnswerBeforeHook
    EventsAreTruthful
PROPERTIES
    OperationsFinish
