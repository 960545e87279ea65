CONSTANTS
    Calls = {c1, c2}
    Conns = {k1, k2}
    NoConn = NoConn
SPECIFICATION FairSpec
INVARIANTS
    NoResidue
    AnswerIsOwn
PROPERTIES
    ClearingWakesAll
    ImplementsContract
CHECK_DEADLOCK FALSE
