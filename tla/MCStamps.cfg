SPECIFICATION StampsSpec
CONSTANTS
    Elapses <- MCElapses
    Mondays <- MCMondays
    MaxDay = 17
    MaxEdits = 2
    Machines <- MCMachines
INVARIANTS
    CaughtUp
    NothingStale
\* The days are bounded.
CHECK_DEADLOCK FALSE
