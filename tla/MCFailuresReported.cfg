SPECIFICATION FairSpec
CONSTANTS
    Definitions <- MCDefinitions
    MaxRuns = 2
    MaxReloads = 2
    Hosts <- MCBusy
PROPERTIES
    FailuresReported
\* The job's runs and edits are bounded.
CHECK_DEADLOCK FALSE
