CONSTANTS
    Version = "V201"
    Connectors = {c1, c2}
    Ids = {r1, r2}
    FreshIds = TRUE
    None = None
    MaxArms = 2
    MaxEvents = 3
SPECIFICATION FairSpec
INVARIANTS
    ReservedIsHeld
    ReportedOnce
PROPERTIES
    ReleaseSparesCharging
    ReservationEnds
CHECK_DEADLOCK FALSE
