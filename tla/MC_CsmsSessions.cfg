CONSTANTS
    cp1 = cp1
    c1 = c1
    c2 = c2
    s1 = s1
    s2 = s2
    Stations = {cp1, cp2}
    Sessions = {s1, s2}
    Calls = {c1, c2}
    NoSession = NoSession
    NoStation = NoStation
SPECIFICATION MCSpec
INVARIANTS
    RoutedIsLive
    AnswerFromTarget
PROPERTIES
    OpenRouteKept
    ImplementsContract
    UnroutedSessionEnds
CHECK_DEADLOCK FALSE
