SPECIFICATION FairSpec
CONSTANTS
    sysReboot = sysReboot
    userReboot = userReboot
    userDaily = userDaily
    EtcJob = {sysReboot}
    UserJob = {userReboot, userDaily}
    RebootJob = {sysReboot, userReboot}
    Delay <- MCDelay
    Minute = 2
    BootBy = 1
    MaxEvents = 2
    MaxRuns = 1
    MaxTime = 5
INVARIANTS RebootOnce InstalledLaterWaits DelayKept
PROPERTIES HeldJobsStart
\* Time is bounded.
CHECK_DEADLOCK FALSE
