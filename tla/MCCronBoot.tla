----------------------------- MODULE MCCronBoot -----------------------------
(* A system-wide and a user's @reboot job and a user's delayed daily job.  *)
EXTENDS CronBoot, TLC

CONSTANTS sysReboot, userReboot, userDaily

MCDelay == (sysReboot :> 0) @@ (userReboot :> 1) @@ (userDaily :> 2)

=============================================================================
