CONSTANTS
    Tasks = {w1, w2}
    None = None
    MaxTx = 2
    MaxOps = 4
    MaxTicks = 1
    MaxFaults = 1
SPECIFICATION FairSpec
INVARIANTS
    SeqUnique
    TransitionsReal
    MeteringBeforeEnded
PROPERTIES
    OpsFinish
CHECK_DEADLOCK FALSE
