CONSTANTS
    None = None
    TicksPerSecond = 2
    RecurrenceSeconds <- MCRecurrence
    NumConnectors = 1
    Profiles16 <- MCProfiles16
    Profiles201 <- MCProfiles201
    Durations = {0, 6}
    MaxClock = 2
    MaxFilters = 2
    MaxInstalled = 4
    NominalVoltage = 230
    MaxVoltage = 230
    NaturalPower = 11040
SPECIFICATION Spec
INVARIANT NothingSwapped
