SPECIFICATION FairSpec
CONSTANTS
    p1 = p1
    p2 = p2
    p3 = p3
    Proc = {p1, p2, p3}
    NoProc = NoProc
    NoLoad = NoLoad
    Target <- MCTarget
    ParseErr <- MCParseErr
    Loads = {1, 2}
    GAP = 3
    POLL = 1
    Grain = 2
    MaxDelay = 1
    Settle = 2
    MaxTime = 17
INVARIANTS
    TypeOK
    RecordedSpacing
    DispatchSpacing
    SlotHeldByDispatched
PROPERTIES
    SlotMovesForward
    DamDrains
\* Jobs leave the dam: when all of them have, nothing is left to do.
CHECK_DEADLOCK FALSE
