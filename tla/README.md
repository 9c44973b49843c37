# systemd-cron in TLA+

A verification project for systemd-cron: the parts of it that have state, run
concurrently or translate one language into another, as TLA+ modules that TLC
checks on small instances and about which TLAPS proves theorems for all
instances. Paths are those of the repository under `src/`; `PROJECT.json` maps
each definition to the lines it models.

## The system and its parts

systemd-cron has no daemon. `systemd-crontab-generator` turns crontabs into
`.timer` and `.service` units whenever systemd boots or reloads, and systemd
does the rest. What remains to go wrong is in the translation, in the run of the
generator, in the small programs that hold jobs back, and in how several parties
that share files, a word of memory and systemd's state get along.

| Part | State it keeps | Operations | Interacts with |
|---|---|---|---|
| crontab fields (`parse_period`, `parse_time_unit`, `generate_schedule_from_timespec`) | the sets of values of a `Job` | parse a field, rewrite `L`, build `OnCalendar=` and `schedule_raw` | systemd.time(7) reads the result |
| generator run (`realmain`, `parse_crontab`, `output`) | environment in force, inherited variables, `seqs`, start hours, files in TARGET_DIR | open a source, set a variable, start a job, write timer, link, service | reads crontabs others write; systemd loads its output |
| boot coordination (REBOOT_FILE, `cron-after-var`, `cron-update.path/.service`, `boot_delay`) | REBOOT_FILE, loaded units, timers | generate, reload, restart the target, touch REBOOT_FILE | generator, crontab(1), systemd |
| `loadavg_dam` | one 64-bit word in /dev/shm | load, read the clock, read the load, compare-and-exchange | other `loadavg_dam` processes |
| `throttle_group` | one 64-bit word in /dev/shm | the same, and D-Bus queries for the group's units | other helpers of all groups; systemd |
| crontab(1), `crontab_setgid` | CRONTAB_DIR, temporary files | replace, edit, remove; helper's w, r, d | each other; the generator (`--check`, and as reader) |
| period schedules (`generate_schedule_from_period`, `check`) | none | keyword, delay and start hour to `OnCalendar=`; refuse a line | systemd.time(7); crontab(1) |
| commands (`parse_percent`, `generate_scriptlet`, `generate_service`, `b64`) | a 16-bit accumulator across calls | cut at the percent, write script, standard input and label | systemd's unit syntax; the shell |
| mail (`OnFailure=`, `OnSuccess=`, `cron-mail@.service`, `mail_for_job`) | instances of cron-mail@ | show the unit, look into the journal, send | the unit as it is by then; the journal |
| stamps (`Persistent=true`, `remove_stale_stamps`) | stamp files, in /var, across boots | start a timer, elapse, find, test, remove | generator directory, reloads |
| run-parts units, display options of crontab(1) | none, or text only | | not modelled, see below |

Hard behaviours: lock-free competition for a word that holds a time read earlier
(`loadavg_dam`, `throttle_group`); D-Bus answers that are stale when used;
several parties creating and testing REBOOT_FILE; a generator that may fail at
every write; index arithmetic in `size_t` shared by 0-based and 1-based fields;
an installer whose every return must decide what happens to temporary files;
a mailer that looks a job up after the fact; a cleaner whose test and removal are
two steps while the directory it tests is emptied and refilled.
The hazards are listed line by line in `PROJECT.json`.

What makes each part correct: a calendar expression elapses exactly on the days
crontab(5) says; names of units do not collide, nothing half-written is enabled,
settings reach the lines they should; @reboot jobs run once; dispatches keep
their distance and everybody is dispatched; members of a group do not overlap;
only checked crontabs are ever in place, no edit is lost, and each run of
crontab(1) acts at once or not at all; a command, its input and its name are
what the line says; failures are reported, each as what it was; missed runs are
caught up with, and nothing outlives its line.

## Modules

| Module | Models | Proofs | Checked by |
|---|---|---|---|
| `LoadavgDam` | `src/bin/loadavg_dam.cpp`, `src/include/shmemutil.hpp` | `LoadavgDamProofs` | `MCLoadavgDam` |
| `ThrottleGroup` | `src/bin/throttle_group.cpp`, composed with the unit states of systemd | `ThrottleGroupProofs` | `MCThrottleGroup` |
| `CronField` | fields of a line, and what crontab(5) says of them | `LineProofs` | through `CronLine` |
| `CronLine` | a line, its timer, repeated runs of the generator | `LineProofs` | `MCCronLine` |
| `Generator` | one run of the generator | `GeneratorProofs` | `MCGenerator` |
| `CronBoot` | one boot: generator, crontab(1), cron-update, cron-after-var, boot_delay and systemd | `CronBootProofs` | `MCCronBoot` |
| `CrontabStore` | concurrent runs of crontab(1) and its helper | `FilesProofs` | `MCCrontabStore` |
| `AtomicStore` | what crontab(1) promises: installs and removals in one step | through `CrontabStore` | through `CrontabStore` |
| `PeriodSchedule` | `@` keywords, anacrontab periods, DELAY, START_HOURS_RANGE, `check()` | `LineProofs` | through `CronLine` |
| `Base64` | `struct b64` of `src/include/util.hpp` | `JobCommandProofs` | through `JobCommand` |
| `JobCommand` | the command portion of a line, up to ExecStart=, StandardInputData= and the label | `JobCommandProofs` | `MCJobCommand` |
| `JobMail` | OnFailure=, OnSuccess=, cron-mail@ and `mail_for_job.sh` | `JobMailProofs` | `MCJobMail` |
| `Stamps` | a persistent timer, its stamp and `remove_stale_stamps.sh`, over power cycles | `FilesProofs` | `MCStamps` |

Operators with a suffix after an underscore and the comment "Slip" (such as
`CompareExchange_Store`) are plausible mistakes in the code. Nothing uses them;
substituted for the definition they follow, each makes a property fail, which
shows that the property depends on the code being as it is.

### LoadavgDam

Each process of `Proc` is at a `pc` in `main()`; every access to something shared
(the word, the clock, the load) is an action of its own: `LoadShm`, `ReadClock`,
`CheckLoad`, `CompareExchange`. `shm` is the word, a winner and a time truncated
to `Grain` (ten bits of sub-second). `Kill` is `systemctl stop`. The clock is an
integer; `Tick` waits for processes that are `MaxDelay` late. The odd test of the
argument (line 28) is `Refused`, so that a process with a threshold of "1x" takes
part. The folding of pids is the identity below 2^22 and left out.

### ThrottleGroup

As above, plus the D-Bus part: `ListUnits` is one consistent snapshot, `ReadStart`
and `ReadExit` are the two property replies of a member, in the order in which
systemd answers one connection; units change state in between. systemd (external)
is `Activate`, `MainStart` (which stamps the start and clears the exit time),
`MainExit`, `Stop`. `Fail` ends a helper whose bus fails. Between the helper's
`exit0` and `MainStart` nobody can see that the group is taken: this is the race
the code's "stabilise for 5s" is about. `LoseReply` is a reply that does not come
or is an error: the callback gives up and the unit counts as no member, or as one
that has not run. `lost` counts them.

### CronField and CronLine

A subvalue is a record (`*`, number, range or `~`, with step), a field a lone
asterisk or a set of subvalues. Characters are not modelled, but the kinds of text
the three mappings tell apart are: numbers, names, numbers with something after
them, other letters, nothing, a minus sign, and a subvalue misspelt as a whole.
`parse_uint()` leaves what it has read behind when it refuses the text, and a ~ never
looks at the error flag, so that "1~x" draws the 1st: `IntMap` keeps both. A list of
commas makes an empty set, and a job without a value of some field is invalid
(`NoValue`).
`size_t` arithmetic is modulo `Word` (2^16 in the run: any power above 255 shows
the same wrap-arounds). `ParsePeriod` returns the set of outcomes, since `~` draws
at random; a step of 0 is the outcome "hang", and so is a step that takes the
signed index of the `*` loop below its array; in the other loop a step close to
`Word` counts down. `CalendarMatches` is systemd's
reading of the expression; `Documented`, `CronMatches` are crontab(5)'s of the
line. `Usual` are the subvalues the promise is about: a skip from 1 to 2^63 - 1,
ends that a `size_t` has room for and that do not begin below the field, and no names
but those of Monday to Saturday. Parts that crontab(5) promises otherwise than the code
has them are not left out: `PartsFrom`, a part of `FieldsAsDocumented`, says what each
of them selects (see Findings). One behaviour is a line and repeated runs of the
generator on it.

### Generator

The five kinds of sources are read in order, files of a directory in any order,
lines in order. A line is a variable, an inheritance or a job; `StartJob` names
the job, and `output()` follows call by call: `CreateFile` opens the scriptlet (where
`NeedsScript`: not for the `Program`s that run as they are), the timer or the service
and truncates what is there, `WriteFile` fills it, `Link` enables the timer,
`WriteService` ends the job. Instead of each of them `Fail` may end it,
with the open file empty or in part; `MaxFailures` bounds how often per run.
`files` tells for each kind of file and name whether it is complete and whose it is. A
file of crontabs may turn out unreadable. Hash names are the data hashed (MD5 taken as injective); jobids
are given by `JobId`, so that different files may share one. The hour read from
an empty set (line 1418, undefined) is any of `Hours`. `toplevel` is what
/etc/crontab leaves to the others besides the variables it names: the fallback of
MAILTO and the default of CRON_MAIL_SUCCESS, taken at the end of the file.
`Asked` is the manual's account of the same, from the text of the files alone.

### CronBoot

The generator is two steps (`GenSystem`: uptime and /etc; `GenUser`: users'
crontabs and REBOOT_FILE, or cron-after-var when /var is missing) between which
others act. `Crontab`/`CrontabAction` are crontab(1) creating REBOOT_FILE, then
installing. `AfterVarSkip` is ConditionDirectoryNotEmpty= failing: cron-after-var is then
not looked at again. A unit remembers the uptime the generator read for it.
systemd's side: a reload drops timers whose unit is gone, restarting
cron.target restarts all, `OnBootSec=` elapses at once when past, and a service held in
boot_delay is started from the unit that is loaded when the delay is over, or not
at all if there is none (`BootDelay`). A job takes no time.

### CrontabStore

Each process has a role: its uid, the user `getpass_getlogin()` finds in its
environment ($LOGNAME first; `Me`), the user of -u or its default (`Target`), what it is
to do, root or not, helper installed or not. crontab(1) compares `Me` with `Target`;
the helper acts on `Uid`. The process walks through the code: fetch, editor, check,
reopen, copy, rename, or the helper, which is a process of its own (`helper`): it copies,
renames and exits in three steps, may be killed (`KillHelper`), and goes on when
crontab(1) is (`Kill`). `tab` is CRONTAB_DIR, `temp` a process's `user.XXXXXX`,
`tmp` the file it installs from. A content is a text and whether it is whole.
`Errors` is what root may be answered with; `LostWrites` allows an I/O error inside a
copy. `wanted` and `effect`, what a run was asked to install and what it has
done, are history.

`AtomicStore` is the same seen from outside: a request, the crontabs within its reach,
whether it was served, and an answer per process; `Install` and `Remove` change one
crontab in one step, `Done` answers only what was served, `Fail` only what was not and
will not be, and after `Crash` either may be true or become true. `CrontabStore`
instantiates it with `served` fixed at the `rename()` or `unlink()` that takes effect
and `Outcome`, read off the exit status, for the answer; `ActsAtomically` is its
specification. It says what happens to two edits of one crontab at a time: the last
one wins, whole. The reach of a run not root's is the crontabs of -u and of its uid,
which differ only where $LOGNAME is not the uid's name.

### PeriodSchedule

The operators behind `CronLine`'s `GeneratePeriod`. A line is where it stands,
its period, and the numbers that bear on it, each with the way it is written
(digits, digits and more, letters, nothing, not set), since `parse_uint()`
leaves a value behind even when it refuses the text. Components of a calendar
expression are start and step; `Elapses` and `Selects` are systemd's reading of
them. `Word` is the wrap of `size_t`.

### Base64 and JobCommand

`Base64` is the encoder with one action per half of its loop; `fed` and `put` are
what went in and came out, each as one number, so that losing nothing is one
equation. `alphabet` gives the characters of the digits; the decoder on systemd's side
(`Six`, `Refuses`) reads characters again, with or without the URL-safe '-' and '_'. `JobCommand` runs it: a command portion over six kinds of characters
(plain, blank, percent, backslash, quote, new-line) is cut into words
(`soft_tokenise`), split at the percent, written and encoded segment by segment.
Views into the line are positions, as in the code. The reference (`FirstPercent`,
`Reads`, `CommandText`, `CommandPart`) goes over the text character by character, and
systemd's decoding (`Six`, `Unpadded`, `Bytes`, `Unquoted`, `Expanded`) is external;
`Ran` is what is run in the end: the script, or the program named after systemd has
expanded its specifiers.

### JobMail

One job; its definition may be edited and reloaded at any moment. `OnFailure` and
`OnSuccess` are the instances its service names, `EndRun` has systemd start them,
and a start of an instance still at work adds nothing. `mail_for_job` is four
looks at a world that moves on: `MailShow` (systemctl), `MailCheck` and `MailLabel`
(journal), `MailSend`. `host` says which systemd there is (without OnSuccess=,
`TellSuccess` is the second ExecStart= of the job), whether a sendmail is found, and
whether the job waits for its mail before it runs again. `due` holds the failed runs nobody has been
told of. A run that has printed nothing has no message with CRON_JOB.

### Stamps

Days, power and one persistent line. `ReloadBegin` (or an `Edit`, through
cron-update) empties the generator directory, `ReloadEnd` fills it; a restart of
cron.target has the timer read its stamp again. `CleanerFind`, `CleanerTest` and
`CleanerRemove` are the three steps of the script for this stamp. On a `racing`
machine they overlap with reloads; with `separateVar` the crontabs appear only with
cron-after-var. `Tick` waits until the day's work is done (`Settled`).

## Runs

| Run | Bounds | States | Result |
|---|---|---|---|
| dam | 3 processes, GAP 3, POLL 1, Grain 2, 17 ticks | 460 000 | spacing, monotonic word, winner recorded, dam drains |
| throttle | 2 units, 2 activations each, frequencies 1 and 2, BLANK 3, one reply lost | 453 000 | mutual exclusion and blanking while none is lost, group drains |
| cronline | 1329 lines with fields, 200 days; every keyword, periods of up to 400 days, 9 delays, 5 start hours, from 3 sources | 20 700 | fields, acceptance, days and names as documented or as the properties say, only two kinds of skip hang, periods as documented, what is accepted elapses |
| generator | 33 configurations of 3 to 5 files, any file unreadable, any call of `output()` failing for up to 2 units | 752 000 | names, enabled services, locality of failures, settings |
| boot | 3 jobs, 2 events, 5 seconds, minute of 2, boot over after 1 | 450 000 | @reboot once, new ones wait, minutes of delay kept but in one case, held jobs start |
| store | 2 processes with any of 11 roles, and their helpers, 3 texts | 400 000 | checked contents, edits kept, no litter, exit status; implements `AtomicStore` |
| job_command | all texts of up to 5 characters of 5 kinds | 61 000 | encoder, standard input, command, label |
| mail | 2 runs, 2 edits among 5 definitions, 8 kinds of hosts | 644 000 | output and subject belong together; where runs are spaced, failures reported, once, as what they were |
| stamps | 17 days, elapses on 3 and 14, 3 Mondays, 2 edits, 3 kinds of machines | 3 600 000 | missed runs caught up with, stale stamps and timers gone |
| reboot_jobs_run, truncated, failures_reported | | | each violated: see Findings |

What each run checks:

* dam: `TypeOK`; `DispatchSpacing` and `RecordedSpacing`, jobs start, and the word
  records starts, GAP apart up to truncation and delay; `SlotHeldByDispatched`, the
  winner in the word is one that went on; `SlotMovesForward`, the word never goes
  back; `DamDrains`, everybody is let through once the load is low.
* throttle: `TypeOK`; `MutualExclusion`, two members do not run at once;
  `Blanking`, a member starts BLANK after another's end at the earliest; `GroupDrains`.
* cronline: `FieldsAsDocumented`, `ElapsesWhenAsked`, `PeriodsAsDocumented`, the
  expression selects what crontab(5) and anacrontab(5) say; `CheckedElapses`, what
  `--check` accepts has a timer that elapses; `HangsOnlyOnSkip`; `StableUnitName`, a
  line has the same unit name in every run of the generator.
* generator: `NamesApart`; `ServicesEnabled`, at every moment a service that is there has
  a timer and a link, and is complete and of one job unless it is being written or a call
  failed on its name; `FailureIsLocal`, the units of jobs with a name of their own are
  complete whatever fails elsewhere;
  `JobsAsAsked`, each job has the settings its file and /etc/crontab give it.
* boot: `RebootOnce`; `InstalledLaterWaits`, a job installed after the boot waits for
  the next one; `DelayKept`, no job starts before DELAY minutes of uptime, except one not
  @reboot whose unit was written DELAY seconds after boot or later; `HeldJobsStart`, a
  job held by boot_delay starts, whichever runs of the generator replace its unit
  meanwhile, unless its line is removed.
* store: `TypeOK`; `OnlyCheckedInstalled`; `EditKept`, an edit that is not installed is
  still in a file, but for the two cases of "edit aborted"; `NoLitter`, only a run that
  was killed, or whose helper was, leaves a text in a temporary file, and a failed
  fdopen() of root's an empty one; `SuccessMeansDone`, exit status 0 means that the text
  asked for is in the crontab asked for, or where $LOGNAME is not the uid's name in the
  uid's; `ActsAtomically`, the refinement of `AtomicStore`.
* job_command: `EncoderSound`, the digits written and the bits held are what went in;
  `StdinAsDocumented`, the job reads what crontab(5) says, or nothing where the decoder
  does not know a digit; `RunsCommandPart`, it runs what was written, or exactly where
  blanks or specifiers are concerned something else; `LabelAsWritten`.
* mail: `OutputMailsCorrect`, a mail with output is about that output;
  `OptOutHeeded`, nobody is mailed who asked not to be; `OneMailPerRun`;
  `SpacedFailuresReported`.
* stamps: `CaughtUp`, a persistent job missed is run by the end of the day;
  `NothingStale`, a line that is gone leaves neither timer nor, for long, a stamp.

Why the bounds are enough. The dam: three processes are one winner, one that
loses the exchange to it and one that comes after both; the times keep the order
Grain < GAP, POLL < GAP of the real ones. The throttle group: two members and two
activations cover a run, its blanking and the race for the next one; more members
are covered by the proof. Lines vary one or two fields at a time around each
limit, since fields are parsed independently and only the day fields interact,
where all pairs (with five month fields) are tried on days around the ends of
months of 28, 30 and 31 days. Generator configurations put the same jobid into
two files and each naming setting before and after a job. Boot: two events are
enough for an edit or a crontab(1) to race with a reload of somebody else. Two units
that a call fails on are the first and the second of one name, and one of another.
Store: two processes are two writers, or a writer and a remover, of one crontab, each
with a helper that may outlive it; the theorems are for any number. They are
interchangeable, hence the symmetry (no liveness is checked there).
Mail: two runs are the one a mail is about and the one that overtakes it. Stamps:
a stamp is stale on its 11th day, and three Mondays with elapses before and after
allow for a machine that is off over both. Texts of five characters hold two
percents with an escape and a blank between them, and the theorems are for
any length.

Assumptions of the passing runs that the code does not establish:

* dam and throttle: an iteration takes at most `MaxDelay`, `MaxLatency`; the
  properties state how the guarantee depends on it. `MutualExclusion` needs
  `Prompt`: clock reading to job start, plus the truncation, within the frequency.
  On a machine where that takes longer than 5 s (30 s with a threshold) it fails.
* boot: cron-after-var is skipped or done by `BootBy`, within the first minute. A
  later one runs the @reboot jobs of /etc twice, since no run of the
  generator has created REBOOT_FILE. No run of the generator takes a second.
* store: `Errors` does not contain EROFS (see below); the user of `-r -i` says
  yes; the file checked is not changed by others before it is copied. Power cuts are
  not modelled: nothing is synced before `rename()`, and what a filesystem keeps is
  its own affair.
* cronline: that fields select the documented values, and nothing usual is refused, is
  said of subvalues that are `Usual` and, where it is about the set of values of a
  whole field, of no ~ with an end below the field's last value; `ElapsesWhenAsked` is
  about the same. `PeriodsAsDocumented` and `CheckedElapses` are about `Sensible`
  settings, minutes below 60 and hours below 24; a lone "@", which `check()` lets
  pass, is left out.
* job_command: what stands for plain characters is a '?', whose byte ends in six ones
  and which is a letter to a specifier.
* throttle: `MutualExclusion` and `Blanking` hold until a reply is lost.
* mail: `OneMailPerRun` and `SpacedFailuresReported` are about hosts where the job is
  not started again while a mail about it is on its way, the second also about
  hosts with a sendmail.
* stamps: `CaughtUp` is about machines where the cleaner does not overlap with a
  reload and /var is there from the start; a day is long enough for what is due on
  it.

Fairness. Helper processes are run by the kernel and time goes on (weak fairness
of each process's steps and of `Tick`); systemd starts what it was cleared to
start and jobs end (throttle); systemd, its timers and the units it started make
progress and /var gets mounted (boot); systemd runs the instances of cron-mail@
it has queued, sendmail returns, and a run ends (mail: `WF` of each instance and of
the end of a run). Nothing is assumed of administrators,
loads, edits or timers elapsing. Liveness properties start from `Settle`, after
which load and arrivals are quiet, and `MaxTime` leaves room for the longest
drain. Deadlock is checked where a run cannot end (generator) and not
where all work may be done.

## Findings

Each is a run in which TLC finds what a manual page says violated by the code.

1. `RebootJobsRun`: crontab(5) has @reboot jobs run once, at startup; a reload in the
   first minute drops them.
2. `OnlyCheckedInstalled` with `LostWrites`: `copy_FILE()` ignores errors, a
   truncated crontab is installed with success.
3. `FailuresReported`: "Mail is always sent for failed jobs", but a job started
   again before mail_for_job has looked has its failure forgotten.

Other disagreements between code and documents that the models contain. Where a
property is named, it holds because it says exactly how far the promise goes and what
happens beyond; the rest are only described. These properties are not statements of
what the manuals promise: each names the departure as its exception.

* With both day fields restricted crontab(5) has either suffice; the calendar
  expression requires both. `ElapsesWhenAsked`: never on a day not asked for, and
  for the other lines on every day asked for.
* Month names are all refused, where crontab(5):327 takes them (`month_map()` never
  clears an error flag); the day name "sun" on its own selects every day, also in the
  example of crontab(5):467; a ~ with an end below the field's last value may draw the
  one after it (0~30 gives 31, crontab(5):351 says inclusive); and one without a start
  never draws the first value of a field that counts from 1 (`FieldsAsDocumented`).
* `*/0` hangs the check and the generator, and a skip of 2^63 or more leaves the
  array (`HangsOnlyOnSkip`); after a range such a skip counts down.
* DELAY of 60 minutes or more, and anacrontab periods from 345 days on, make a timer
  that systemd refuses (`PeriodsAsDocumented`); `@weekly` is on Monday,
  where crontab(5) has Sunday.
* With CRON_UNIQUE_UNITS two lines with one command and different times get one name
  unless persistent (`NamesApart`); scripts of /etc/cron.daily whose names differ
  only in odd characters write the same units (`FailureIsLocal`).
* DELAY is compared in minutes with an uptime in seconds: a unit written, say, 10 s
  after boot under DELAY=10 does not wait its 10 minutes (`DelayKept`).
* Runs of blanks in a command, quoted ones too, become one blank, and an escaped
  percent in a program run without a shell is expanded by systemd (`RunsCommandPart`).
* The encoder's last two characters are '-' and '_' (util.hpp line 39), not base64's '+'
  and '/': systemd versions whose decoder does not know the URL-safe alphabet, of those
  the README supports (236 and later), refuse the whole input of "cat%ab?"
  (`StdinAsDocumented`, for both kinds of decoder).
* With $LOGNAME naming another user than the uid, `crontab -r` and the others compare -u
  with the one and have the helper act on the crontab of the other, and report success
  (`SuccessMeansDone`; `OnlyTargetChanged` says that nobody else's crontab is changed).
* An edit is deleted after an editor that saved it and returned 127 (crontab.cpp line
  387), which is taken for one not found, and, with exit status 0, when the file cannot
  be opened again for any reason, which is taken for its removal (line 402)
  (`EditKept`).
* Where fdopen() fails, an empty user.XXXXXX is left in CRONTAB_DIR (line 297)
  (`NoLitter`).
* A job that shares its name with one whose output fails may lose its unit or be left
  with a truncated one (`ServicesEnabled`, `FailureIsLocal`).
* A run that printed nothing is mailed under the line as edited since
  (`OutputMailsCorrect` is about the others).
* The cleaner removes the stamps of timers that are not generated yet, or not at
  this moment of a daemon-reload, and a missed run is forgotten (`CaughtUp`).
* `crontab -r` on a read-only filesystem reports "no crontab" and success with the
  crontab still there (crontab.cpp line 260; `SuccessMeansDone` without EROFS).
* A member of a throttle group whose reply is lost is taken for idle, and two
  members run at once (`MutualExclusion`).

## Theorems

All are for arbitrary constants that satisfy the named ASSUMEs, and are proved
from an inductive invariant in the usual three facts. TLC has checked each
invariant on the instance of its module's run first.

* `LoadavgDamProofs`: `TypeCorrect`; `DispatchesSpaced` and `JobsSpaced` from
  `SpacingInv`. The spacing itself is not inductive: one needs that whoever is
  past the clock test holds a reading GAP past the word it loaded (`Timely`), and
  that all winners' times are at most the word's (`WinnersRecorded`), so that a
  successful exchange compares with the latest of them. `NoABA` follows from the
  same. `NoSlotLost`: the word names a process that was dispatched.
* `ThrottleGroupProofs`: `TypeCorrect`; `GroupSerialised` (`MutualExclusion`) and
  `GroupSpaced` (`Blanking`), under `Prompt`, as long as no reply is lost. The
  core is `QueryInv`: as long as the word is the one a helper loaded, what it has
  heard of the other members stays true, because a member can only start after
  its helper changed the word, and `Prompt` puts any member dispatched before the
  word was loaded visibly into "start" before the list is asked for. `HolderInv`
  says that at most one member is running or about to be.
* `GeneratorProofs`: `UnitNamesApart`, from `NamesInv`: numbers given out are below
  the counter of their jobid, and a hash name records command and schedule.
  `ServicesAreEnabled` and `FailuresAreLocal`, from `UnitsInv` on top of it: a file
  may be written over, or truncated under, one of the same name; what `UnitsInv` keeps
  is which files go with each `step` of the job in progress (`OutputInv`), and that a
  service that is in place is that of the job in progress or of one `done`, whether
  `output()` failed for it or not (`ServiceInv`).
  `SettingsReachTheirLines` (`JobsAsAsked`), from `SettingsInv`: the variables in
  force are those set above the next line (`EnvInv`), what /etc/crontab leaves to
  the others is nothing until its end and from then on what its last lines say
  (`TopInv`), and the jobs are those of the lines read so far (`DoneInv`, which needs
  `PlaceInv` to know which these are). That nothing was read before /etc/crontab is
  why it does not matter whether it could be. `CrontabAssumption` (there is one
  /etc/crontab) and `ConfigAssumption` (a script of /etc/cron.daily is not an @reboot
  job; a variable set to nothing has a value that is not `Unset`) are the facts
  on the sources it rests on.
* `FilesProofs`, on the crontabs: `TypeCorrect`, `EditsAreKept`, `TempsAreRemoved` and
  `TargetOnly` hold whatever the errors and whatever $LOGNAME says, from `KeepInv`: the
  edited file stays until its text is installed, or the edit is given up in one of the
  two ways of "edit aborted". `InstalledIsChecked`, under
  `~LostWrites`, from `StoreInv`: past the check, the file installed from is whole
  and good, and its copy equals it.
  `RunsAreAtomic` is the refinement of `AtomicStore`, also without EROFS: on top of
  `StoreInv`, `PathInv` says which files and answers go with each place in the
  code, so that each step is a stutter, a failure, or the one step that takes
  effect. `SuccessIsHonest` (`SuccessMeansDone`) follows from the same invariants.
* `LineProofs`, for any set of lines and any width of `size_t` of 9 bits or more. The
  invariant, `LineInv`, only says that the job is what one reading of the line makes of
  it; the work is in the lemmas on the parser. `FieldsSelectAsDocumented`
  (`FieldsAsDocumented`): `EndIsIndex`, `StartIndex` and `EndIndex` show that the
  index arithmetic does not wrap for usual ends, `LoopCountsUp` that the index never
  goes below its start, and `RangeAsDocumented`, `StarAsDocumented` and
  `TildeAsDocumented` that the indices visited are those of the documented numbers, or
  off by one as `OneBeyond` and `NeverDrawn` say; `PartsFromManual` is about the parts
  that crontab(5) is contradicted by; `ListAsDocumented` puts the parts of a list
  together. `TimersElapseWhenAsked`
  (`ElapsesWhenAsked`) adds the rewriting of the two L forms, and that no value can be
  taken for the asterisk's 255. `HangsOnlyOnASkip` (`HangsOnlyOnSkip`) and
  `UnitNamesAreStable` (`StableUnitName`) hold for any text: all draws of a ~ are
  refused or none (`DrawsAgree`), and the fields without one always give the same
  values (`FieldsAgree`). `DaysAssumption` says that a day is one of a calendar.
  `AcceptedPeriodsElapse` (`CheckedElapses`): of the words `check()` lists none is
  unknown once it has been replaced. `PeriodsRunAsDocumented`
  (`PeriodsAsDocumented`): the keywords word by word, days, hour and minute
  (`KeywordsAre`); a number of days
  since a day selected is followed by one n days on or, where the month ends before
  that, by the first of the next (`DaysFollow`), and a month by one `Divisor` on.
  `LinesAssumption` says what a line with a period is, and that a line with fields has
  none.
* `JobCommandProofs`, for a set of command portions of any length.
  - `EncoderKeepsData` (`EncoderSound`) is about the encoder alone, fed anything in any
    segmentation: the type of the accumulator and the equation of `NothingLost` need
    each other and `Aligned`: only because the bits below the valid ones are zero is
    or-ing a byte in an addition, and only because the sum stays below 2^16 is nothing
    shifted out. `JobEncodes` is the refinement: a behaviour of a job is one of
    `B64Spec`, so that all this holds of jobs (`EncoderOfTheJob`).
  - `CommandPartRuns` (`RunsCommandPart`), from `JobInv`: the words are maximal runs of
    characters with blanks only in between (`Tokenised`), or, cut at the percent,
    pieces of which only the last may be empty (`Pieces`), the first percent found
    word by word is the first of the line, and position by position the script is
    made of what each character adds to the command part (`Parts`). The command as it
    was written is made of the same parts but for the blanks that are squeezed, so that
    the two agree only where none is (`JoinThinner`, `WholeIs`), and expanding what
    holds no specifier changes nothing (`RanIs`).
  - `StdinIsDocumented` (`StdinAsDocumented`), from `DataInv`: the segments, fed one
    after the other, say what the text says character by character (`Agrees`); having
    taken n bytes the encoder has written the digits they make and holds the bits
    left over (`Encoded`), and what is to come is the rest (`Left`); three bytes are
    four digits, which `Bytes` reverses. A digit of 62 or 63 is written where a third
    byte ends in six ones, and nowhere else for these characters (`Dashed`).
  - `LabelReadsBack` (`LabelAsWritten`), from `JobInv`: `Expanded` and `Unquoted` undo
    `Describe` and `Escape`, for any text.
  - These are claims on recursive functions of a text. The theorems that take an
    operator (NatInduction, the recursion theorems) cannot be instantiated, so induction is
    over a set instead: `InductionOnNat` is proved from the well-foundedness of Nat,
    and `RecursionOnSequences` shows that a function defined by recursion on a sequence
    exists, by building it one length at a time; `Join`, a concatenation
    bounded by two indices, then takes the place of the folds.
* `CronBootProofs`: `DelaysAreKept`, from `DelayInv`: a unit without boot_delay was
  written when that many seconds had passed (`UnitsInv`), which is all that a job started
  from it before its minutes are over can show. `InstalledLaterDoesWait`, from `WaitInv`:
  crontab(1) creates REBOOT_FILE before it installs, so that the line gets into no
  unit, even of a generator already at work. `RebootJobsRunOnce`, under
  `BootBy < Minute`, the assumption on cron-after-var named above, from `OnceInv`: runs
  of the generator followed by a restart of the timers are over by BootBy, or find
  REBOOT_FILE and write no @reboot unit (`BootInv`, `RebootInv`), and before BootBy
  none of these jobs is due.
* `JobMailProofs`: `OutputMailsAreCorrect` and `OptOutIsHeeded`, from `MailInv`: what
  an instance has read of a run's journal stays true, as a journal only grows.
  `SpacedRunsMailedOnce`, from `SpacedInv`: a run asks for its mail once, and from
  then on at most one instance is at work, none once the mail is out, and the
  state of the unit is the one it was started for.
* `FilesProofs`, on the stamps: `NothingIsStale` on every machine, from `StaleInv`: a timer on disk
  belongs to a line that is there. `PersistentJobsCatchUp`, from `CalmInv`: without
  a race the cleaner removes only stamps of lines that are gone, and so the last
  trigger systemd knows of is never later than the last run.

Only model-checked: the liveness properties (`DamDrains`, `GroupDrains`,
`HeldJobsStart`, `SpacedFailuresReported`), which are out of the prover's reach. Every
invariant and every action property of a passing run is stated by a theorem above.

## Not modelled

* Fixed lines of units, Environment= quoting, hex escapes in descriptions, the
  headers and the locale of mails: formatting without state.
* `crontab -l/-s/-t/-T`: they change nothing (that they create REBOOT_FILE is in
  `CronBoot`).
* The static run-parts units: an alternative to what `Generator` models, without
  code of their own.
* libvoreutils beyond `soft_tokenise` and `parse_uint`: handles and mappings, whose
  effects are part of the definitions that use them; lookups of users, programs
  and time zones.
* A crontab truncated in place while the generator has it mapped (SIGBUS), and a
  file changed between check and copy: both need a writer outside this code.

## Plan

Modelled, in order of importance: the two shared-word helpers, the translation of
lines, the run of the generator, boot, the store; then commands, periods, mail,
stamps, the store's refinement, lost replies. The proofs followed the same order, with
the claims on texts of any length last. Left: an abstract throttled queue that
`ThrottleGroup` implements, of which `GroupSerialised` and `GroupSpaced` are what it
would promise.
