------------------------------ MODULE CronBoot ------------------------------
(***************************************************************************)
(* What happens to cron jobs while a machine boots.                        *)
(*                                                                         *)
(* systemd runs systemd-crontab-generator at boot and again on every       *)
(* daemon-reload.  Four parties ask for a reload: the boot itself,         *)
(* cron-after-var.service (which the generator writes when /var is not     *)
(* there yet), cron-update.service (triggered by cron-update.path when a   *)
(* crontab changes) and anything else on the system.  They communicate     *)
(* through the crontabs, the generated units and REBOOT_FILE, and race     *)
(* with crontab(1), which creates REBOOT_FILE too.                         *)
(*                                                                         *)
(* One boot is modelled.  uptime events seconds; Minute of them make a     *)
(* minute, the unit of DELAY= and OnBootSec=.  systemd itself (timers,     *)
(* services, reload, path units) is modelled from its documentation.       *)
(***************************************************************************)
EXTENDS Integers, Sequences

CONSTANTS
    EtcJob,     \* job lines that /etc/crontab and /etc/cron.d may hold
    UserJob,    \* job lines that the crontabs in STATEDIR may hold
    RebootJob,  \* those that are "@reboot"; the others are persistent
    Delay,      \* Delay[j]: boot_delay, in minutes
    Minute,     \* seconds in a minute
    BootBy,     \* bound: the boot is over by then, cron-after-var included
    MaxEvents,  \* bound: edits in /etc, runs of crontab(1), others' reloads
    MaxRuns,    \* bound: how often a calendar timer elapses
    MaxTime     \* bound: the clock stops here

Job == EtcJob \cup UserJob

ASSUME JobAssumption == /\ EtcJob \cap UserJob = {}
                        /\ RebootJob \subseteq Job
                        /\ Delay \in [Job -> Nat]
ASSUME TimeAssumption == /\ Minute \in Nat \ {0}
                         /\ BootBy \in Nat
                         /\ MaxEvents \in Nat
                         /\ MaxRuns \in Nat
                         /\ MaxTime \in Nat

VARIABLES
    uptime,      \* /proc/uptime
    var,         \* STATEDIR is there
    rebootFile,  \* REBOOT_FILE, /run/crond.reboot, is there
    etc, spool,  \* the job lines in /etc and in STATEDIR
    bootSpool,   \* what spool was when the machine started (history)
    gen,         \* who the generator runs for, and how far it is
    UPTIME,      \* the uptime the running generator read
    disk,        \* the units it has written
    loaded,      \* the units systemd knows
    timer,       \* systemd: state of each job's timer
    service,     \* systemd: state of each job's service
    started,     \* for each time a job's ExecStart= began: when that was, and
                 \* when its unit had been written (history)
    target,      \* cron.target was started
    afterVar,    \* cron-after-var.service
    update,      \* cron-update.service
    cmd,         \* crontab(1)
    events       \* how many edits, crontab(1)s and others' reloads there were

files == <<var, rebootFile, etc, spool, bootSpool>>
genVars == <<gen, UPTIME, disk, loaded>>
jobVars == <<timer, service, started>>
helpers == <<target, afterVar, update, cmd>>
vars == <<uptime, files, genVars, jobVars, helpers, events>>

\* A generated pair of units: the job, whether the service got an
\* ExecStartPre=boot_delay, and the uptime the generator read.
Unit == [job : Job, pre : BOOLEAN, written : Nat]
Units(J, units) == {u \in units : u.job \in J}
JobsOf(units) == {u.job : u \in units}

\* generate_schedule_from_period(): "@reboot" waits a minute at least.
BootDelayOf(j) == IF j \in RebootJob /\ Delay[j] = 0 THEN 1 ELSE Delay[j]

-----------------------------------------------------------------------------
(* systemd-crontab-generator *)

\* Slip: REBOOT_FILE is not looked for.
is_active_Always(j) == TRUE

\* Slip: which schedule it is about is not looked at.
is_active_AnyJob(j) == ~rebootFile

is_active(j) == ~(j \in RebootJob /\ rebootFile)

\* Slip: no ExecStartPre= at all.
HasBootDelay_Never(j, up) == FALSE

\* generate_service(): boot_delay, in minutes, against UPTIME, in seconds.
HasBootDelay(j, up) == BootDelayOf(j) > up

Generate(J, up) ==
    {[job |-> j, pre |-> HasBootDelay(j, up), written |-> up] : j \in {i \in J : is_active(i)}}

\* main() reads the uptime, realmain() works through the files of /etc.
\* systemd runs one generator at a time, in an empty directory.
GenSystem(who) ==
    /\ gen = [for |-> "nobody", at |-> "idle"]
    /\ gen' = [for |-> who, at |-> "user"]
    /\ UPTIME' = uptime
    /\ disk' = Generate(etc, uptime)
    /\ UNCHANGED loaded

\* systemd has loaded the new units: a timer whose unit is gone fails.
Load(units) ==
    /\ loaded' = units
    /\ timer' = [j \in Job |-> IF j \in JobsOf(units) THEN timer[j] ELSE "off"]

\* The users' crontabs, after which REBOOT_FILE is created; or, without
\* STATEDIR, workaround_var_not_mounted(): a service that systemd starts with
\* the rest of the boot, and not if it is written later.
GenUser ==
    /\ gen.at = "user"
    /\ \/ /\ var
          /\ Load(disk \cup Generate(spool, UPTIME))
          /\ rebootFile' = TRUE
          /\ UNCHANGED afterVar
       \/ /\ ~var
          /\ Load(disk)
          /\ afterVar' = IF gen.for = "boot" THEN "wanted" ELSE afterVar
          /\ UNCHANGED rebootFile
    /\ gen' = [gen EXCEPT !.at = "done"]
    /\ disk' = {}
    /\ UNCHANGED <<uptime, var, etc, spool, bootSpool, UPTIME, service, started,
                   target, update, cmd, events>>

GenEnd(who) ==
    /\ gen = [for |-> who, at |-> "done"]
    /\ gen' = [for |-> "nobody", at |-> "idle"]
    /\ UPTIME' = 0
    /\ UNCHANGED <<disk, loaded>>

-----------------------------------------------------------------------------
(* The parties that ask for a run of the generator. *)

\* (Re)starting cron.target (re)starts the timers linked into it.
StartTimers == timer' = [j \in Job |-> IF j \in JobsOf(loaded) THEN "waiting" ELSE "off"]

Idle == gen.for = "nobody"

\* cron.target is started by the boot transaction.
BootTarget ==
    /\ GenEnd("boot")
    /\ target' = TRUE
    /\ StartTimers
    /\ UNCHANGED <<uptime, files, service, started, afterVar, update, cmd, events>>

MountVar ==
    /\ ~var
    /\ var' = TRUE
    /\ UNCHANGED <<uptime, rebootFile, etc, spool, bootSpool, genVars, jobVars,
                   helpers, events>>

\* cron-after-var.service, after cron.target: skipped for good if STATEDIR is
\* not there or empty (ConditionDirectoryNotEmpty=), ...
AfterVarSkip ==
    /\ target /\ afterVar = "wanted" /\ (~var \/ spool = {})
    /\ afterVar' = "skipped"
    /\ UNCHANGED <<uptime, files, genVars, jobVars, target, update, cmd, events>>

\* ... or systemctl daemon-reload ; systemctl try-restart cron.target.  A
\* crontab there may have no job line.
AfterVarReload ==
    /\ target /\ afterVar = "wanted" /\ var
    /\ GenSystem("after-var")
    /\ afterVar' = "running"
    /\ UNCHANGED <<uptime, files, jobVars, target, update, cmd, events>>

AfterVarRestart ==
    /\ GenEnd("after-var")
    /\ afterVar' = "done"
    /\ StartTimers
    /\ UNCHANGED <<uptime, files, service, started, target, update, cmd, events>>

\* cron-update.service: >> /run/crond.reboot ; systemctl daemon-reload ;
\* systemctl restart cron.target.
UpdateTouch ==
    /\ target /\ update = "triggered"
    /\ update' = "touched"
    /\ rebootFile' = TRUE
    /\ UNCHANGED <<uptime, var, etc, spool, bootSpool, genVars, jobVars, target,
                   afterVar, cmd, events>>

UpdateReload ==
    /\ update = "touched"
    /\ GenSystem("update")
    /\ update' = "reloading"
    /\ UNCHANGED <<uptime, files, jobVars, target, afterVar, cmd, events>>

UpdateRestart ==
    /\ GenEnd("update")
    /\ update' = "idle"
    /\ StartTimers
    /\ UNCHANGED <<uptime, files, service, started, target, afterVar, cmd, events>>

\* Somebody else's systemctl daemon-reload: no timer is restarted.
Reload ==
    /\ target /\ events < MaxEvents
    /\ GenSystem("other")
    /\ events' = events + 1
    /\ UNCHANGED <<uptime, files, jobVars, helpers>>

ReloadEnd ==
    /\ GenEnd("other")
    /\ UNCHANGED <<uptime, files, jobVars, helpers, events>>

-----------------------------------------------------------------------------
(* Changes of the crontabs, which cron-update.path sees; it may miss one   *)
(* made while cron-update.service is active.                               *)

PathChanged ==
    update' \in IF update = "idle" THEN {"triggered"} ELSE {update}

EditEtc ==
    /\ target /\ events < MaxEvents
    /\ etc' \in SUBSET EtcJob \ {etc}
    /\ events' = events + 1
    /\ PathChanged
    /\ UNCHANGED <<uptime, var, rebootFile, spool, bootSpool, genVars, jobVars,
                   target, afterVar, cmd>>

\* Slip: REBOOT_FILE is left to the generator.
Crontab_NoTouch ==
    /\ target /\ var /\ cmd = "none" /\ events < MaxEvents
    /\ cmd' = "action"
    /\ events' = events + 1
    /\ UNCHANGED <<uptime, files, genVars, jobVars, target, afterVar, update>>

\* crontab(1): main() creates REBOOT_FILE, whatever it is asked to do, ...
Crontab ==
    /\ target /\ var /\ cmd = "none" /\ events < MaxEvents
    /\ cmd' = "action"
    /\ rebootFile' = TRUE
    /\ events' = events + 1
    /\ UNCHANGED <<uptime, var, etc, spool, bootSpool, genVars, jobVars, target,
                   afterVar, update>>

\* ... and then lists, or renames a file into place, or removes one.
CrontabAction ==
    /\ cmd = "action"
    /\ cmd' = "none"
    /\ spool' \in SUBSET UserJob
    /\ IF spool' = spool THEN UNCHANGED update ELSE PathChanged
    /\ UNCHANGED <<uptime, var, rebootFile, etc, bootSpool, genVars, jobVars,
                   target, afterVar, events>>

-----------------------------------------------------------------------------
(* systemd: timers, services, time. *)

\* The job of unit u is run.  That takes no time: one still running could only
\* make systemd ignore its timer.
Run(u) ==
    /\ service' = [service EXCEPT ![u.job] = "idle"]
    /\ started' = [started EXCEPT ![u.job] = Append(@, [at |-> uptime, written |-> u.written])]

\* OnBootSec= elapses once, at once if that time is past when the timer is
\* started; a persistent calendar timer may elapse at any time.
Elapse(u) ==
    LET j == u.job IN
    /\ Idle /\ timer[j] = "waiting"
    /\ IF j \in RebootJob
         THEN /\ uptime >= BootDelayOf(j) * Minute
              /\ timer' = [timer EXCEPT ![j] = "elapsed"]
         ELSE Len(started[j]) < MaxRuns /\ service[j] = "idle" /\ UNCHANGED timer
    /\ \/ service[j] # "idle" /\ UNCHANGED <<service, started>>
       \/ /\ service[j] = "idle" /\ u.pre
          /\ service' = [service EXCEPT ![j] = "boot_delay"]
          /\ UNCHANGED started
       \/ service[j] = "idle" /\ ~u.pre /\ Run(u)
    /\ UNCHANGED <<uptime, files, genVars, helpers, events>>

\* boot_delay.sh sleeps until the uptime is $1 * 60 seconds.  Then systemd
\* starts the job, if the unit it has loaded by now still says what to start.
BootDelay(j) ==
    /\ service[j] = "boot_delay" /\ uptime >= BootDelayOf(j) * Minute
    /\ \/ \E u \in Units({j}, loaded) : Run(u)
       \/ /\ Units({j}, loaded) = {}
          /\ service' = [service EXCEPT ![j] = "idle"] /\ UNCHANGED started
    /\ UNCHANGED <<uptime, files, genVars, timer, helpers, events>>

\* Time passes, by the second, of which no run of the generator lasts one;
\* by BootBy, cron-after-var.service was skipped or is done.
Tick ==
    /\ uptime < MaxTime /\ Idle
    /\ uptime >= BootBy => target /\ afterVar \notin {"wanted", "running"}
    /\ uptime' = uptime + 1
    /\ UNCHANGED <<files, genVars, jobVars, helpers, events>>

-----------------------------------------------------------------------------
\* The boot starts with a run of the generator.
Init ==
    /\ uptime = 0
    /\ var \in BOOLEAN
    /\ rebootFile = FALSE
    /\ etc = EtcJob
    /\ spool \in SUBSET UserJob
    /\ bootSpool = spool
    /\ gen = [for |-> "boot", at |-> "user"]
    /\ UPTIME = 0
    /\ disk = Generate(etc, 0)
    /\ loaded = {}
    /\ timer = [j \in Job |-> "off"]
    /\ service = [j \in Job |-> "idle"]
    /\ started = [j \in Job |-> <<>>]
    /\ target = FALSE
    /\ afterVar = "none"
    /\ update = "idle"
    /\ cmd = "none"
    /\ events = 0

Manager ==
    \/ GenUser \/ BootTarget
    \/ AfterVarSkip \/ AfterVarReload \/ AfterVarRestart
    \/ UpdateTouch \/ UpdateReload \/ UpdateRestart
    \/ ReloadEnd

Next ==
    \/ Manager
    \/ MountVar
    \/ Reload
    \/ EditEtc \/ Crontab \/ CrontabAction
    \/ \E u \in loaded : Elapse(u)
    \/ \E j \in Job : BootDelay(j)
    \/ Tick

\* systemd, its timers and the helpers it starts run; /var gets mounted;
\* time goes on.  Nobody has to edit or reload anything.
Fairness ==
    /\ WF_vars(Manager)
    /\ WF_vars(MountVar)
    /\ WF_vars(Tick)
    /\ \A j \in Job : /\ WF_vars(BootDelay(j))
                      /\ WF_vars(j \in RebootJob /\ \E u \in Units({j}, loaded) : Elapse(u))

Spec == Init /\ [][Next]_vars
FairSpec == Spec /\ Fairness

-----------------------------------------------------------------------------

\* "@reboot: Run once, at startup".  However often the generator is run
\* again, and whoever asks for it, an @reboot job is not started a second
\* time (provided cron-after-var.service, the only one to restart the timers
\* without REBOOT_FILE, has done so before the first of them is due: BootBy).
RebootOnce == \A j \in RebootJob : Len(started[j]) <= 1

\* A user who installs an @reboot line does not have it run right away, even
\* if the generator has not seen /var yet and runs while crontab(1) does.
InstalledLaterWaits ==
    \A j \in (RebootJob \cap UserJob) \ bootSpool : started[j] = <<>>

\* DELAY= (or the second field of an anacrontab) "makes systemd wait the given
\* amount of minutes after boot before starting the unit" (crontab(5)).  It
\* does, and for @reboot jobs always; any other job is started earlier exactly
\* where its unit was written that many SECONDS after boot or later: the
\* generator compares the minutes with seconds and leaves the wait out.
DelayKept ==
    \A j \in Job : \A i \in 1..Len(started[j]) :
        \/ started[j][i].at >= BootDelayOf(j) * Minute
        \/ j \notin RebootJob /\ started[j][i].written >= BootDelayOf(j)

\* A job that boot_delay holds while other runs of the generator replace the
\* units is not forgotten: unless its line is removed from then on, its unit is
\* still there when the delay is over, and it is started.  (An @reboot job is
\* excepted: a reload takes its unit away, see RebootJobsRun.)
HeldJobsStart ==
    \A j \in Job \ RebootJob : \A n \in 0..MaxRuns :
        service[j] = "boot_delay" /\ Idle /\ j \in JobsOf(loaded) /\ Len(started[j]) = n
            ~> Len(started[j]) > n \/ j \notin etc \cup spool

\* crontab(5) on @reboot: "Run once, at startup": a job that was there when
\* the machine started runs, unless its line is removed.  (Those on a /var that
\* was not there are left aside.)
RebootJobsRun ==
    \A j \in RebootJob :
        j \in etc \cup (IF var THEN bootSpool ELSE {}) => <>(started[j] # <<>> \/ j \notin etc \cup spool)

-----------------------------------------------------------------------------
(* The inductive invariants behind the safety properties. *)

TypeOK ==
    /\ uptime \in Nat /\ UPTIME \in 0..uptime
    /\ etc \subseteq EtcJob /\ spool \subseteq UserJob
    /\ gen \in [for : {"nobody", "boot", "after-var", "update", "other"}, at : {"idle", "user", "done"}]
    /\ disk \subseteq Unit /\ loaded \subseteq Unit
    /\ timer \in [Job -> {"off", "waiting", "elapsed"}]
    /\ service \in [Job -> {"idle", "boot_delay"}]
    /\ started \in [Job -> Seq([at : Nat, written : Nat])]

\* A unit without an ExecStartPre= was written when the seconds had passed.
UnitsInv ==
    \A u \in disk \cup loaded : u.written <= uptime /\ (u.pre \/ BootDelayOf(u.job) <= u.written)

DelayInv == TypeOK /\ UnitsInv /\ DelayKept

\* An @reboot line that was not there at startup gets into STATEDIR by
\* crontab(1), after REBOOT_FILE, and so into no unit.
LaterInv(j) ==
    /\ j \in spool => rebootFile
    /\ \A u \in disk \cup loaded : u.job # j
    /\ timer[j] = "off" /\ service[j] = "idle" /\ started[j] = <<>>

LaterJob == (RebootJob \cap UserJob) \ bootSpool

WaitInv == (cmd = "action" => rebootFile) /\ \A j \in LaterJob : LaterInv(j)

\* The runs of the generator that are followed by a restart of all timers: those
\* for the boot and for cron-after-var.service are over by BootBy, those for
\* cron-update.service find REBOOT_FILE.
BootInv ==
    /\ gen.for = "nobody" <=> gen.at = "idle"
    /\ gen.for \in {"boot", "after-var"} \/ afterVar \in {"wanted", "running"} => uptime <= BootBy
    /\ gen.for = "update" \/ update \in {"touched", "reloading"} => rebootFile

\* The latter write no "@reboot" unit.  Until BootBy, no such job has begun.
RebootInv(j) ==
    /\ gen.for = "update" /\ gen.at = "user" => \A u \in disk : u.job # j
    /\ gen.for = "update" /\ gen.at = "done" => \A u \in loaded : u.job # j
    /\ uptime <= BootBy => timer[j] # "elapsed" /\ service[j] = "idle" /\ started[j] = <<>>
    /\ timer[j] = "waiting" => service[j] = "idle" /\ started[j] = <<>>
    /\ service[j] = "boot_delay" => started[j] = <<>>

OnceInv == BootInv /\ (\A j \in RebootJob : RebootInv(j)) /\ RebootOnce

=============================================================================
