-------------------------------- MODULE Stamps ------------------------------
(***************************************************************************)
(* A persistent job of a user's crontab: its timer (Persistent=true), the  *)
(* stamp file by which systemd remembers, across power cycles, when it     *)
(* last ran, and the weekly cleaner (remove_stale_stamps), which removes   *)
(* old stamps that no timer on disk belongs to.                            *)
(*                                                                         *)
(* Time is in days.  The name of the timer is a hash, so that a line that  *)
(* is removed and added again has its old stamp.  systemd's timers, boots  *)
(* and reloads are external.                                               *)
(***************************************************************************)
EXTENDS Naturals, FiniteSets

CONSTANTS
    Elapses,        \* the days on which the job's schedule elapses
    Mondays,        \* the days on which the cleaner's does
    MaxDay,         \* bound: the last day considered
    MaxEdits,       \* bound: changes of the crontab
    Machines        \* [separateVar, racing]: /var, with the crontabs, is mounted after
                    \* the generator ran; a reload may come while the cleaner is at work

ASSUME DaysAssumption == MaxDay \in Nat /\ Elapses \subseteq 1 .. MaxDay /\ Mondays \subseteq 1 .. MaxDay
ASSUME MachineAssumption == Machines \subseteq [separateVar : BOOLEAN, racing : BOOLEAN]

VARIABLES
    machine,    \* one of Machines
    day, on,
    asked,      \* the crontab has the line
    since,      \* history: the day it was added or removed
    edits,
    generated,  \* the timer's file is in /run/systemd/generator
    afterVar,   \* cron-after-var.service is still to run
    reloading,  \* a daemon-reload has emptied the directory: "no", "reload", or
                \* "restart" if a restart of cron.target follows it
    timer,      \* the timer: "stopped" or "waiting"
    last,       \* its last trigger, as systemd has it in memory
    stamp,      \* the day of the stamp file; 0: none
    done,       \* history: the day the job last ran, or its timer first started;
                \* 0: the line is gone or new
    cleaner,    \* "idle", or what it is about to do
    cleaned,    \* the day the cleaner last started (its own stamp)
    swept       \* history: the day it last came to its end

stampsvars == <<machine, day, on, asked, since, edits, generated, afterVar, reloading, timer, last, stamp, done, cleaner, cleaned, swept>>

Between(S, a, b) == {e \in S : a < e /\ e <= b}

-----------------------------------------------------------------------------
(* The machine, and the timer *)

\* The generator runs first.  Without /var it finds no crontab, and asks to be
\* run again (workaround_var_not_mounted).
Boot ==
    /\ ~on
    /\ on' = TRUE
    /\ generated' = (asked /\ ~machine.separateVar) /\ afterVar' = machine.separateVar
    /\ UNCHANGED <<machine, day, asked, since, edits, reloading, timer, last, stamp, done, cleaner, cleaned, swept>>

PowerOff ==
    /\ on
    /\ on' = FALSE /\ generated' = FALSE /\ afterVar' = FALSE /\ reloading' = "no"
    /\ timer' = "stopped" /\ last' = 0 /\ cleaner' = "idle"
    /\ UNCHANGED <<machine, day, asked, since, edits, stamp, done, cleaned, swept>>

\* A timer without a stamp has never run, as far as systemd can tell, and is
\* given one of today.
StartTimer ==
    /\ on /\ generated /\ timer = "stopped"
    /\ timer' = "waiting"
    /\ last' = IF stamp = 0 THEN day ELSE stamp
    /\ stamp' = last'
    /\ done' = IF done = 0 THEN day ELSE done
    /\ UNCHANGED <<machine, day, on, asked, since, edits, generated, afterVar, reloading, cleaner, cleaned, swept>>

\* The job runs: on time, or at once if it was missed (Persistent=true).
Elapse ==
    /\ timer = "waiting" /\ Between(Elapses, last, day) # {}
    /\ last' = day /\ stamp' = day /\ done' = (IF asked THEN day ELSE 0)
    /\ UNCHANGED <<machine, day, on, asked, since, edits, generated, afterVar, reloading, timer, cleaner, cleaned, swept>>

-----------------------------------------------------------------------------
(* Reloads: cron-after-var.service, and cron-update.service after an edit *)

Edit ==
    /\ on /\ reloading = "no" /\ ~afterVar /\ edits < MaxEdits
    /\ machine.racing \/ cleaner = "idle"
    /\ asked' = ~asked /\ since' = day /\ edits' = edits + 1
    /\ done' = 0
    /\ reloading' = "restart" /\ generated' = FALSE
    /\ UNCHANGED <<machine, day, on, afterVar, timer, last, stamp, cleaner, cleaned, swept>>

\* cron-after-var.service, or any other daemon-reload
ReloadBegin ==
    /\ on /\ reloading = "no"
    /\ machine.racing \/ cleaner = "idle"
    /\ reloading' = IF afterVar THEN "restart" ELSE "reload"
    /\ generated' = FALSE /\ afterVar' = FALSE
    /\ UNCHANGED <<machine, day, on, asked, since, edits, timer, last, stamp, done, cleaner, cleaned, swept>>

\* The generator has run again.  A timer is PartOf=cron.target, so that a
\* restart has it read its stamp again.
ReloadEnd ==
    /\ reloading # "no"
    /\ reloading' = "no"
    /\ generated' = asked
    /\ timer' = IF reloading = "restart" THEN "stopped" ELSE timer
    /\ last' = IF reloading = "restart" THEN 0 ELSE last
    /\ UNCHANGED <<machine, day, on, asked, since, edits, afterVar, stamp, done, cleaner, cleaned, swept>>

-----------------------------------------------------------------------------
(* systemd-cron-cleaner.timer and remove_stale_stamps *)

CleanerDue == on /\ cleaner = "idle" /\ Between(Mondays, cleaned, day) # {}

\* find -mtime +10
Old == stamp # 0 /\ day >= stamp + 11

CleanerFind ==
    /\ CleanerDue
    /\ machine.racing \/ reloading = "no"
    /\ cleaned' = day
    /\ cleaner' = IF Old THEN "test" ELSE "idle"
    /\ swept' = IF Old THEN swept ELSE day
    /\ UNCHANGED <<machine, day, on, asked, since, edits, generated, afterVar, reloading, timer, last, stamp, done>>

\* Slip: only the timers the distribution ships are looked for.
CleanerTest_LibOnly ==
    /\ cleaner = "test"
    /\ cleaner' = "remove"
    /\ UNCHANGED <<machine, day, on, asked, since, edits, generated, afterVar, reloading, timer, last, stamp, done, cleaned, swept>>

\* test -f /run/systemd/generator/$timer
CleanerTest ==
    /\ cleaner = "test"
    /\ cleaner' = IF generated THEN "idle" ELSE "remove"
    /\ swept' = IF generated THEN day ELSE swept
    /\ UNCHANGED <<machine, day, on, asked, since, edits, generated, afterVar, reloading, timer, last, stamp, done, cleaned>>

\* Slip: the stamp is only reported.
CleanerRemove_DryRun ==
    /\ cleaner = "remove"
    /\ cleaner' = "idle" /\ swept' = day
    /\ UNCHANGED <<machine, day, on, asked, since, edits, generated, afterVar, reloading, timer, last, stamp, done, cleaned>>

CleanerRemove ==
    /\ cleaner = "remove"
    /\ stamp' = 0 /\ cleaner' = "idle" /\ swept' = day
    /\ UNCHANGED <<machine, day, on, asked, since, edits, generated, afterVar, reloading, timer, last, done, cleaned>>

-----------------------------------------------------------------------------
\* Nothing is left to do today.
Settled ==
    /\ ~afterVar /\ reloading = "no" /\ cleaner = "idle" /\ ~CleanerDue
    /\ on /\ generated => timer = "waiting"
    /\ timer = "waiting" => Between(Elapses, last, day) = {}

\* A day is long enough for all that; a machine that is off just waits.
Tick ==
    /\ day < MaxDay /\ Settled
    /\ day' = day + 1
    /\ UNCHANGED <<machine, on, asked, since, edits, generated, afterVar, reloading, timer, last, stamp, done, cleaner, cleaned, swept>>

StampsInit ==
    /\ machine \in Machines
    /\ day = 1 /\ on = FALSE /\ asked \in BOOLEAN /\ since = 1 /\ edits = 0
    /\ generated = FALSE /\ afterVar = FALSE /\ reloading = "no"
    /\ timer = "stopped" /\ last = 0 /\ stamp = (IF asked THEN 1 ELSE 0) /\ done = stamp
    /\ cleaner = "idle" /\ cleaned = 1 /\ swept = 1

StampsNext ==
    \/ Boot \/ PowerOff \/ StartTimer \/ Elapse \/ Edit \/ ReloadBegin \/ ReloadEnd
    \/ CleanerFind \/ CleanerTest \/ CleanerRemove \/ Tick

StampsSpec == StampsInit /\ [][StampsNext]_stampsvars

-----------------------------------------------------------------------------
\* "Jobs with PERSISTENT=true and @-keyword are started on boot if a run was
\* missed while the system was off" (systemd.cron(7)): at the end of a day with
\* the machine on, the schedule has not elapsed since the job last ran (or its
\* timer was first started), however long the machine was off, and whatever the
\* cleaner did when it was switched on; unless the cleaner can look while the
\* timers are not there, with /var mounted late or in the middle of a reload.
CaughtUp ==
    ~machine.separateVar /\ ~machine.racing /\ on /\ done # 0 /\ Settled => Between(Elapses, done, day) = {}

\* Once the cleaner has come to its end on a day on which the stamp was old and
\* its line gone, the stamp is gone as well; and no timer outlives its line:
\* with the crontab's change dealt with, there is none for a line that is gone
\* (systemctl restart cron.target in cron-update.service).
NothingStale ==
    ~asked /\ Settled =>
        /\ stamp # 0 => swept <= since \/ swept < stamp + 11
        /\ timer = "stopped"

-----------------------------------------------------------------------------
(* The inductive invariants behind them. *)

Flags == {on, asked, generated, afterVar} \subseteq BOOLEAN

StampsTypeOK ==
    /\ machine \in Machines /\ Flags
    /\ day \in Nat \ {0} /\ since \in Nat /\ edits \in Nat
    /\ reloading \in {"no", "reload", "restart"}
    /\ timer \in {"stopped", "waiting"} /\ last \in Nat /\ stamp \in Nat /\ done \in Nat
    /\ cleaner \in {"idle", "test", "remove"} /\ cleaned \in Nat /\ swept \in Nat

\* Nothing runs on a machine that is off; a timer that is on disk belongs to the
\* line as it is, and the timer of a line that is gone is about to be stopped.
LineInv ==
    /\ ~on => reloading = "no" /\ timer = "stopped" /\ cleaner = "idle" /\ ~generated
    /\ generated => asked /\ reloading = "no"
    /\ ~asked /\ timer = "waiting" => reloading = "restart"

StaleInv ==
    /\ StampsTypeOK /\ LineInv
    /\ swept <= day
    /\ ~asked /\ stamp # 0 => swept <= since \/ swept < stamp + 11

\* Where the timers are there whenever the cleaner looks, it removes no stamp
\* but that of a line that is gone, and systemd knows of no later run than the
\* last there was.
Calm == ~machine.separateVar /\ ~machine.racing

CalmInv ==
    Calm => /\ ~afterVar
            /\ cleaner # "idle" => reloading = "no"
            /\ on /\ asked /\ reloading = "no" => generated
            /\ cleaner = "remove" => ~asked
            /\ done # 0 => asked /\ stamp # 0 /\ stamp <= done
            /\ done # 0 /\ timer = "waiting" => last <= done
            /\ stamp <= day /\ done <= day
=============================================================================
