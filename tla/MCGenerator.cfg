SPECIFICATION Spec
CONSTANTS
    NoFile = NoFile
    File <- MCFile
    Stage <- MCStage
    Skipped <- MCSkipped
    User <- MCUser
    Id <- MCId
    JobId <- MCJobId
    Hours = {0, 4}
    Program <- MCProgram
    MaxFailures = 2
    Configs <- MCConfigs
INVARIANTS NamesApart FailureIsLocal ServicesEnabled JobsAsAsked
