SPECIFICATION FairSpec
CONSTANTS
    u1 = u1
    u2 = u2
    g = g
    Unit = {u1, u2}
    NoUnit = NoUnit
    Group <- MCGroup
    HasTarget <- MCHasTarget
    FREQ <- MCFREQ
    BLANK = 3
    Grain = 1
    MaxLatency = 1
    MaxSlack = 1
    MaxRun = 1
    MaxRuns = 2
    MaxLost = 1
    Settle = 3
    MaxTime = 16
INVARIANTS
    TypeOK
    MutualExclusion
    Blanking
PROPERTIES
    GroupDrains
\* A unit whose timer does not elapse again stays dead.
CHECK_DEADLOCK FALSE
