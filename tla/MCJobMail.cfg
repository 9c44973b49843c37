SPECIFICATION FairSpec
CONSTANTS
    Definitions <- MCDefinitions
    MaxRuns = 2
    MaxReloads = 2
    Hosts <- MCHosts
INVARIANTS
    OutputMailsCorrect
    OptOutHeeded
    OneMailPerRun
PROPERTIES
    SpacedFailuresReported
\* The job's runs and edits are bounded.
CHECK_DEADLOCK FALSE
