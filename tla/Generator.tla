------------------------------ MODULE Generator ------------------------------
(***************************************************************************)
(* One run of systemd-crontab-generator: realmain() of                     *)
(* src/src/bin/systemd-crontab-generator.cpp.                              *)
(*                                                                         *)
(* The sources are read stage by stage, the files of a directory in any    *)
(* order, the lines of a file from first to last.  A line sets a variable  *)
(* for the lines below it or is a job; a job becomes a scriptlet, if its   *)
(* command needs one, a .timer, a link that enables it and a .service, one *)
(* after the other, in a directory systemd has emptied.  Each file is      *)
(* created or truncated and then filled, and all of this may fail.         *)
(*                                                                         *)
(* What a schedule means is the business of CronLine; here it is a value.  *)
(* A hash is the data it is computed from.                                 *)
(***************************************************************************)
EXTENDS Integers, Sequences, FiniteSets

CONSTANTS
    File,      \* the files there are
    NoFile,
    Stage,     \* Stage[f]: the index in Stages of the place f is in
    Skipped,   \* masked, backup or not executable; in STATEDIR, with a "."
    User, Id,  \* user names; what is left of jobids without odd characters
    JobId,     \* JobId[f][u]: the jobid of the lines of f for u
    Hours,     \* what reading an hour that is not there may give
    Program,   \* the commands that are one word and name a file: no scriptlet
    MaxFailures,  \* bound: how many units output() fails on in a run
    Configs    \* the contents the files may have

\* /etc/crontab, /etc/cron.d, /etc/cron.{hourly,...}, /etc/anacrontab, STATEDIR
Stages == 1..5
ETC_CRONTAB == 1
CRON_D == 2
RUN_PARTS == 3
ANACRONTAB == 4

ASSUME FileAssumption == /\ NoFile \notin File
                         /\ Stage \in [File -> Stages]
                         /\ JobId \in [File -> [User -> Id]]
\* There is one /etc/crontab.
ASSUME CrontabAssumption ==
    \A f, g \in File : Stage[f] = ETC_CRONTAB /\ Stage[g] = ETC_CRONTAB => f = g
\* A variable set to nothing has a value, not ""; the jobs of /etc/cron.daily have
\* the period of their directory.
ASSUME ConfigAssumption ==
    \A c \in Configs : \A f \in DOMAIN c :
        /\ f \in File /\ Len(c[f]) \in Nat
        /\ \A i \in 1..Len(c[f]) :
              /\ c[f][i].is = "job" =>
                    c[f][i].user \in User /\ (Stage[f] = RUN_PARTS => c[f][i].period # "reboot")
              /\ c[f][i].is = "variable" => c[f][i].val # ""

VARIABLES
    conf,      \* the contents of the files
    rebootFile,\* REBOOT_FILE is there
    stage,     \* the place being read; past Stages when realmain() is done
    todo,      \* its files not read yet
    cur,       \* the file being read
    ln,        \* its next line
    env,       \* the variables set above that line
    inheritNames,  \* what CRON_INHERIT_VARIABLES was set to
    inherit,   \* inherit_variables
    startHour, \* distro_start_hour
    toplevel,  \* fallback_mailto and toplevel_cron_mail_success
    seqs,      \* the counters of generate_timer_unit()
    job, name, \* the job being written, and its unit_name
    step,      \* "scan", or what output() makes of it next
    filling,   \* that file is open, so that it is not what it was any more
    files, links,  \* what is in TARGET_DIR: for each kind of file, those there
    done,      \* the jobs written, with the result of output() (history)
    unread     \* the files that could not be read (history)

reader == <<stage, todo, cur, ln, env, inheritNames, inherit, startHour, toplevel>>
target == <<filling, files, links>>
vars == <<conf, rebootFile, reader, seqs, job, name, step, target, done, unread>>

NoJob == [id |-> ""]
NoName == [kind |-> ""]
NoRaw == <<>>
NoCmd == ""
NoPeriod == ""
ASTERISK == -1
NoVars == [v \in {} |-> ""]
NoFiles == [n \in {} |-> [of |-> NoJob, whole |-> FALSE]]
Unset == ""
Dflt == "nonempty"   \* cron_mail_success_t::dflt

\* Functions as finite maps: m with k mapped to v, without k, restricted.
With(m, k, v) == [x \in DOMAIN m \cup {k} |-> IF x = k THEN v ELSE m[x]]
Without(m, k) == [x \in DOMAIN m \ {k} |-> m[x]]
Only(m, S) == [x \in DOMAIN m \cap S |-> m[x]]
Get(m, k, default) == IF k \in DOMAIN m THEN m[k] ELSE default

FilesOf(s) == {f \in File : Stage[f] = s /\ f \in DOMAIN conf} \ Skipped

-----------------------------------------------------------------------------
(* parse_crontab() *)

OpenEnv(f) == IF Stage[f] \in {ETC_CRONTAB, ANACRONTAB} THEN NoVars ELSE inherit

\* for_each_file(): some file that is left; is it there and readable?
Open ==
    /\ stage \in Stages /\ cur = NoFile
    /\ \E f \in todo :
         /\ todo' = todo \ {f}
         /\ \/ /\ cur' = f /\ ln' = 1 /\ env' = OpenEnv(f)
               /\ inheritNames' = {}
               /\ UNCHANGED unread
            \/ /\ unread' = unread \cup {f}
               /\ UNCHANGED <<cur, ln, env, inheritNames>>
    /\ UNCHANGED <<conf, rebootFile, stage, inherit, startHour, toplevel, seqs, job,
                   name, step, target, done>>

AtLine == step = "scan" /\ cur # NoFile /\ ln <= Len(conf[cur])
Line == conf[cur][ln]
NextLine == ln' = ln + 1 /\ UNCHANGED <<stage, todo, cur, inherit, toplevel>>

SetVariable ==
    /\ AtLine /\ Line.is = "variable"
    /\ env' = IF Line.var = "PERSISTENT" /\ Line.val = "auto"
                THEN Without(env, "PERSISTENT") ELSE With(env, Line.var, Line.val)
    /\ NextLine
    /\ UNCHANGED <<conf, rebootFile, inheritNames, startHour, seqs, job, name,
                   step, target, done, unread>>

SetInherit ==
    /\ AtLine /\ Line.is = "inherit"
    /\ inheritNames' = Line.vars
    /\ NextLine
    /\ UNCHANGED <<conf, rebootFile, env, startHour, seqs, job, name, step,
                   target, done, unread>>

\* decode_environment() on CRON_MAIL_SUCCESS (on CRON_MAIL_FORMAT alike): what
\* is not understood, "inherit" among it, leaves the default.
MailSuccess(vs, default) ==
    LET v == Get(vs, "CRON_MAIL_SUCCESS", "inherit")
    IN  IF v \in {"always", "nonempty", "never"} THEN v ELSE default

\* Slip: the settings of every crontab are remembered for the next ones.
Remembered_Always ==
    [mailto |-> Get(env, "MAILTO", toplevel.mailto), success |-> MailSuccess(env, Dflt)]

\* What /etc/crontab leaves to the others besides the variables it names.
Remembered ==
    IF Stage[cur] = ETC_CRONTAB
    THEN [mailto |-> Get(env, "MAILTO", Unset), success |-> MailSuccess(env, Dflt)]
    ELSE toplevel

\* The end of a file; /etc/crontab leaves its variables to the next stages.
Close ==
    /\ step = "scan" /\ cur # NoFile /\ ln > Len(conf[cur])
    /\ cur' = NoFile /\ ln' = 0 /\ env' = NoVars /\ inheritNames' = {}
    /\ inherit' = IF Stage[cur] = ETC_CRONTAB THEN Only(env, inheritNames) ELSE inherit
    /\ toplevel' = Remembered
    /\ UNCHANGED <<conf, rebootFile, stage, todo, startHour, seqs, job, name,
                   step, target, done, unread>>

NextStage ==
    /\ stage \in Stages /\ cur = NoFile /\ todo = {}
    /\ stage' = stage + 1
    /\ todo' = FilesOf(stage + 1)
    /\ UNCHANGED <<conf, rebootFile, cur, ln, env, inheritNames, inherit,
                   startHour, toplevel, seqs, job, name, step, target, done, unread>>

-----------------------------------------------------------------------------
(* A job line *)

\* decode_environment(), then generate_schedule_from_period().
Persistent(l, vs) ==
    /\ l.period \notin {"reboot", "minutely"}
    /\ Get(vs, "PERSISTENT", IF l.period # NoPeriod THEN "yes" ELSE "no") = "yes"

\* fallback_mailto is for system crontabs; the owner of a user's is told.
Fallback(f) == IF Stage[f] \in {CRON_D, RUN_PARTS} THEN toplevel.mailto ELSE Unset

\* The Job that parse_crontab() hands to its callback.  A script of
\* /etc/cron.daily is due at the hour /etc/crontab ran that directory at.
JobOf(f, i, l, vs) ==
    [file |-> f, line |-> i, id |-> JobId[f][l.user], cmd |-> l.cmd,
     period |-> l.period, at |-> l.at,
     hour |-> IF Stage[f] = RUN_PARTS THEN Get(startHour, l.period, 0) ELSE 0,
     tz |-> Get(vs, "TZ", ""),
     mailto |-> Get(vs, "MAILTO", Fallback(f)),
     success |-> MailSuccess(vs, IF Stage[f] = ETC_CRONTAB THEN Dflt ELSE toplevel.success),
     persistent |-> Persistent(l, vs),
     unique |-> Get(vs, "CRON_UNIQUE_UNITS", "no") = "yes"]

is_active(j) == ~(j.period = "reboot" /\ rebootFile)

Hashed(j) == j.persistent \/ j.unique

SeqName(j, n) == [kind |-> "seq", id |-> j.id, n |-> n, raw |-> NoRaw, cmd |-> NoCmd]
HashName(j, raw) == [kind |-> "hash", id |-> j.id, n |-> 0, raw |-> raw, cmd |-> j.cmd]
PartName(j) == [kind |-> "part", id |-> j.id, n |-> 0, raw |-> NoRaw, cmd |-> NoCmd]

\* schedule_raw, which is left empty unless the job is persistent and its
\* schedule known.
schedule_raw(j) == IF j.persistent /\ j.period # "unknown" THEN <<j.at, j.hour>> ELSE NoRaw

\* generate_unit_name(); a script of /etc/cron.daily is named for itself.
generate_unit_name(j) ==
    IF Stage[j.file] = RUN_PARTS THEN PartName(j)
    ELSE IF Hashed(j) THEN HashName(j, schedule_raw(j))
    ELSE SeqName(j, seqs[j.id])

\* Slip: the counter is one of the file, not of the program.
Count_PerFile(j) ==
    IF Hashed(j) THEN seqs ELSE [seqs EXCEPT ![j.id] = ln]

\* seqs[job.jobid], and seq++ in generate_unit_name().
Count(j) ==
    IF Hashed(j) THEN seqs ELSE [seqs EXCEPT ![j.id] = @ + 1]

\* generate_scriptlet(): run as it is, or by a shell from a file.
NeedsScript(j) == j.cmd \notin Program

\* In /etc/crontab, a line that runs the scripts of a directory the generator
\* reads itself leaves no unit.
IsBoilerplate(l) == Stage[cur] = ETC_CRONTAB /\ l.runs # "none"

\* *timespec_hour.begin(): of a set that is empty after an "@" period, so
\* that any number may come out.
FirstHour(l) == IF l.period # NoPeriod THEN Hours ELSE {l.hour}

SkipLine ==
    /\ AtLine /\ Line.is = "job"
    /\ \/ ~Line.valid /\ UNCHANGED startHour
       \/ /\ Line.valid /\ IsBoilerplate(Line)
          /\ \E h \in FirstHour(Line) :
               startHour' = IF Line.runs = "hourly" \/ h = ASTERISK THEN startHour
                            ELSE With(startHour, Line.runs, h)
       \/ /\ Line.valid /\ ~IsBoilerplate(Line)
          /\ Stage[cur] # RUN_PARTS
          /\ ~is_active(JobOf(cur, ln, Line, env))
          /\ UNCHANGED startHour
    /\ NextLine
    /\ UNCHANGED <<conf, rebootFile, env, inheritNames, seqs, job, name, step,
                   target, done, unread>>

\* generate_timer_unit() names the job and calls output().
StartJob ==
    /\ AtLine /\ Line.is = "job" /\ Line.valid /\ ~IsBoilerplate(Line)
    /\ LET j == JobOf(cur, ln, Line, env) IN
         /\ Stage[cur] = RUN_PARTS \/ is_active(j)
         /\ job' = j
         /\ name' = generate_unit_name(j)
         /\ seqs' = IF Stage[cur] = RUN_PARTS THEN seqs ELSE Count(j)
    /\ step' = IF NeedsScript(job') THEN "script" ELSE "timer"
    /\ NextLine
    /\ UNCHANGED <<conf, rebootFile, env, inheritNames, startHour, target, done,
                   unread>>

-----------------------------------------------------------------------------
(* output() *)

\* The files of a unit, and what each is followed by.
Kinds == {"script", "timer", "service"}
After(k) == IF k = "script" THEN "timer" ELSE "link"

\* The file output() is at, complete or not: what an earlier job of that name
\* had there is gone.
Put(complete) ==
    files' = [files EXCEPT ![step] = With(@, name, [of |-> job, whole |-> complete])]

Written(ok) ==
    /\ done' = done \cup {[job |-> job, name |-> name, ok |-> ok]}
    /\ job' = NoJob /\ name' = NoName /\ step' = "scan" /\ filling' = FALSE

Failed == {d \in done : ~d.ok}

\* A call that fails: output() returns, and what there is stays, the file that
\* was open with anything from nothing to all of its text.
Fail ==
    /\ step # "scan" /\ Cardinality(Failed) < MaxFailures
    /\ Written(FALSE)
    /\ UNCHANGED <<conf, rebootFile, reader, seqs, files, links, unread>>

\* fopen("we") creates the file, or truncates the one there is.
CreateFile ==
    /\ step \in Kinds /\ ~filling
    /\ Put(FALSE) /\ filling' = TRUE
    /\ UNCHANGED <<conf, rebootFile, reader, seqs, job, name, step, links, done, unread>>

\* Slip: ferror() and fflush() are not looked at.
WriteFile_Unchecked ==
    /\ filling /\ step \in {"script", "timer"}
    /\ \E complete \in BOOLEAN : Put(complete)
    /\ step' = After(step) /\ filling' = FALSE
    /\ UNCHANGED <<conf, rebootFile, reader, seqs, job, name, links, done, unread>>

\* The scriptlet, then the timer, is written and flushed.
WriteFile ==
    /\ filling /\ step \in {"script", "timer"}
    /\ Put(TRUE)
    /\ step' = After(step) /\ filling' = FALSE
    /\ UNCHANGED <<conf, rebootFile, reader, seqs, job, name, links, done, unread>>

\* Slip: the result of symlink() is not looked at.
Link_Unchecked ==
    /\ step = "link"
    /\ links' \in {links, links \cup {name}}
    /\ step' = "service"
    /\ UNCHANGED <<conf, rebootFile, reader, seqs, job, name, filling, files, done, unread>>

\* symlink(); EEXIST is fine.
Link ==
    /\ step = "link"
    /\ links' = links \cup {name}
    /\ step' = "service"
    /\ UNCHANGED <<conf, rebootFile, reader, seqs, job, name, filling, files, done, unread>>

WriteService ==
    /\ filling /\ step = "service"
    /\ Put(TRUE)
    /\ Written(TRUE)
    /\ UNCHANGED <<conf, rebootFile, reader, seqs, links, unread>>

-----------------------------------------------------------------------------
Init ==
    /\ conf \in Configs
    /\ rebootFile \in BOOLEAN
    /\ stage = 1 /\ todo = FilesOf(1) /\ cur = NoFile /\ ln = 0
    /\ env = NoVars /\ inheritNames = {} /\ inherit = NoVars /\ startHour = NoVars
    /\ toplevel = [mailto |-> Unset, success |-> Dflt]
    /\ seqs = [i \in Id |-> 0]
    /\ job = NoJob /\ name = NoName /\ step = "scan"
    /\ filling = FALSE /\ files = [k \in Kinds |-> NoFiles] /\ links = {}
    /\ done = {} /\ unread = {}

\* realmain() has returned.
Terminated == stage \notin Stages /\ UNCHANGED vars

Next ==
    \/ Open \/ SetVariable \/ SetInherit \/ Close \/ NextStage
    \/ SkipLine \/ StartJob
    \/ Fail \/ CreateFile \/ WriteFile \/ Link \/ WriteService
    \/ Terminated

Spec == Init /\ [][Next]_vars

-----------------------------------------------------------------------------
\* Two lines are given the same unit only by name of the same command: no
\* sequence number is used twice in a run, whatever files (and stages) the
\* lines with that jobid come from, and a hash tells schedules apart if the
\* jobs are persistent.
NamesApart ==
    \A d, e \in done :
        d.job # e.job /\ d.name = e.name /\ d.name.kind # "part" =>
            /\ d.name.kind = "hash"
            /\ d.job.cmd = e.job.cmd
            /\ d.job.persistent /\ e.job.persistent /\ d.job.period # "unknown" =>
                   d.job.at = e.job.at

\* The file of kind k and name n is all there, and made of j.
Whole(k, n, j) == n \in DOMAIN files[k] /\ files[k][n] = [of |-> j, whole |-> TRUE]

\* The unit n is complete, and all of it is made of j.
Complete(n, j) ==
    /\ Whole("timer", n, j) /\ n \in links /\ Whole("service", n, j)
    /\ NeedsScript(j) => Whole("script", n, j)

Damaged == {d.name : d \in Failed}

\* At every moment, a service that is there has a timer, and a link that
\* enables it.  The unit is complete and all of one job, the last of that
\* name, unless it is being written or output() has failed on that name:
\* since a file that is there is truncated first, a job may so be lost that an
\* earlier line had written, whether its command is the same (two lines
\* named by one hash) or not (two scripts of /etc/cron.daily).
ServicesEnabled ==
    \A n \in DOMAIN files["service"] :
        /\ n \in links /\ n \in DOMAIN files["timer"]
        /\ n \notin Damaged \cup {name} => Complete(n, files["service"][n].of)

\* A failure costs one job only: the unit of every other job, before and
\* after it, is complete and its own.  Of the jobs that have to share a name
\* ServicesEnabled says what is left.
FailureIsLocal ==
    \A d \in done :
        d.ok /\ name # d.name /\ (\A e \in done : e.name = d.name => e = d) =>
            Complete(d.name, d.job)

-----------------------------------------------------------------------------
(* The inductive invariant behind NamesApart. *)

\* A name says of its job what it was made from, and a sequence number is
\* below the counter of its jobid.
NameOf(j, n) ==
    /\ n.kind \in {"seq", "hash", "part"}
    /\ n.kind = "seq" => n.id \in Id /\ n.n \in Nat /\ n.n < seqs[n.id]
    /\ n.kind = "hash" => n.cmd = j.cmd /\ n.raw = schedule_raw(j)

\* The job being written has its name, which no job before it has if it is
\* numbered.
CurrentInv ==
    step # "scan" =>
        /\ NameOf(job, name)
        /\ name.kind = "seq" => \A d \in done : d.name # name

ReaderInv ==
    /\ conf \in Configs
    /\ cur # NoFile => cur \in DOMAIN conf /\ ln \in Nat \ {0}
    /\ todo \subseteq DOMAIN conf
    /\ seqs \in [Id -> Nat]
    /\ \A d \in done : NameOf(d.job, d.name)

NamesInv == ReaderInv /\ CurrentInv /\ NamesApart

\* Behind ServicesEnabled and FailureIsLocal: how far the unit of the current
\* job is.
OutputInv ==
    /\ step \in {"scan", "script", "timer", "link", "service"}
    /\ DOMAIN files = Kinds
    /\ step = "scan" => name = NoName
    /\ step \in {"timer", "link", "service"} /\ NeedsScript(job) => Whole("script", name, job)
    /\ step \in {"link", "service"} => Whole("timer", name, job)
    /\ step = "service" => name \in links

\* A service that is there has been written for a job, or is being so.
ServiceInv ==
    \A n \in DOMAIN files["service"] :
        (step = "service" /\ n = name) \/ \E d \in done : d.name = n

UnitsInv == OutputInv /\ ServiceInv /\ ServicesEnabled /\ FailureIsLocal

-----------------------------------------------------------------------------
(* The jobs a configuration asks for, as the manual describes them. *)

Readable(f) == f \in DOMAIN conf \ unread /\ f \notin Skipped

LastOf(S) == CHOOSE k \in S : \A m \in S : m <= k

\* The lines above line i of f that set v.
Setters(f, i, v) == {k \in 1..(i - 1) : conf[f][k].is = "variable" /\ conf[f][k].var = v}

\* The value a variable has above line i of f: that of the last assignment,
\* or what the file starts with.
ValueAt(f, i, v, initial) ==
    IF Setters(f, i, v) = {} THEN initial ELSE conf[f][LastOf(Setters(f, i, v))].val

\* /etc/crontab, if it is there and readable.
Top == {c \in File : Stage[c] = ETC_CRONTAB /\ Readable(c)}

\* The value a variable has at the end of /etc/crontab.
AtTop(v) ==
    IF Top = {} THEN Unset
    ELSE LET c == CHOOSE c \in Top : TRUE IN ValueAt(c, Len(conf[c]) + 1, v, Unset)

\* The last CRON_INHERIT_VARIABLES above line i of f names v.
Names(f, i, v) ==
    \E k \in 1..(i - 1) :
        /\ conf[f][k].is = "inherit" /\ v \in conf[f][k].vars
        /\ \A m \in (k + 1)..(i - 1) : conf[f][m].is # "inherit"

\* CRON_INHERIT_VARIABLES names the variables of /etc/crontab that the
\* other crontabs start with.
TopGives(v) == IF \E c \in Top : Names(c, Len(conf[c]) + 1, v) THEN AtTop(v) ELSE Unset
Inherited(f, v) == IF Stage[f] \in {ETC_CRONTAB, ANACRONTAB} THEN Unset ELSE TopGives(v)

\* The first of a sequence of settings of CRON_MAIL_SUCCESS that says when.
FirstSaid(vs) ==
    LET S == {i \in 1..Len(vs) : vs[i] \in {"always", "nonempty", "never"}}
    IN  vs[CHOOSE i \in S : \A k \in S : i <= k]

\* What a variable is at line i of f.
InForce(f, i, v) == ValueAt(f, i, v, Inherited(f, v))

MailtoAt(f, i) ==
    ValueAt(f, i, "MAILTO",
            IF Stage[f] \in {CRON_D, RUN_PARTS} THEN AtTop("MAILTO") ELSE Inherited(f, "MAILTO"))

SuccessAt(f, i) ==
    FirstSaid(<<InForce(f, i, "CRON_MAIL_SUCCESS"),
                IF Stage[f] = ETC_CRONTAB THEN Unset ELSE AtTop("CRON_MAIL_SUCCESS"), Dflt>>)

PersistentAt(f, i) ==
    /\ conf[f][i].period \notin {"reboot", "minutely"}
    /\ \/ InForce(f, i, "PERSISTENT") = "yes"
       \/ InForce(f, i, "PERSISTENT") \in {"", "auto"} /\ conf[f][i].period # NoPeriod

UniqueAt(f, i) == InForce(f, i, "CRON_UNIQUE_UNITS") = "yes"

Asked(f, i) ==
    [file |-> f, line |-> i, tz |-> InForce(f, i, "TZ"), mailto |-> MailtoAt(f, i),
     success |-> SuccessAt(f, i), unique |-> UniqueAt(f, i), persistent |-> PersistentAt(f, i)]

\* The lines that a job is asked for by.
Wanted(f, k) ==
    /\ conf[f][k].is = "job" /\ conf[f][k].valid
    /\ ~(Stage[f] = ETC_CRONTAB /\ conf[f][k].runs # "none")
    /\ ~(rebootFile /\ conf[f][k].period = "reboot")

Settings(j) ==
    [file |-> j.file, line |-> j.line, tz |-> j.tz, mailto |-> j.mailto, success |-> j.success,
     unique |-> j.unique, persistent |-> j.persistent]

\* The environment settings reach exactly the lines the manual says: when
\* the run is over, there was one job, with the settings in force at its
\* line, for every valid line of a readable crontab, except @reboot lines
\* after startup and the lines that run /etc/cron.*.  CRON_MAIL_SUCCESS, if
\* changed in /etc/crontab, is the default of the others; MAILTO is so for the
\* system's crontabs.
JobsAsAsked ==
    stage \notin Stages =>
        {Settings(d.job) : d \in done}
        = UNION {{Asked(f, i) : i \in {k \in 1..Len(conf[f]) : Wanted(f, k)}}
                 : f \in {g \in File : Readable(g)}}

-----------------------------------------------------------------------------
(* The inductive invariant behind it. *)

\* Where the generator is.
PlaceInv ==
    /\ stage \in Nat \ {0} /\ todo \subseteq FilesOf(stage)
    /\ cur # NoFile => /\ cur \in FilesOf(stage) \ (todo \cup unread)
                       /\ stage \in Stages /\ ln \in 1..(Len(conf[cur]) + 1)
    /\ step # "scan" => cur # NoFile
    /\ \A f \in unread : f \in File /\ Stage[f] <= stage /\ f \notin todo

\* m maps v to the value x; PERSISTENT=auto is as if it were not set.
Gives(m, v, x) ==
    IF x = Unset \/ (v = "PERSISTENT" /\ x = "auto") THEN v \notin DOMAIN m ELSE v \in DOMAIN m /\ m[v] = x

Decoded == {"TZ", "MAILTO", "CRON_MAIL_SUCCESS", "CRON_UNIQUE_UNITS", "PERSISTENT"}

\* The variables in force are those set above the line that is next.
EnvInv ==
    cur # NoFile => \A v \in Decoded :
        /\ Gives(env, v, InForce(cur, ln, v))
        /\ Setters(cur, ln, v) # {} => ValueAt(cur, ln, v, Unset) # Unset
        /\ v \in inheritNames <=> Names(cur, ln, v)

\* What /etc/crontab leaves to the others, once it has been read.
Pending == \E c \in Top : c \in todo \/ c = cur

SuccessOf(x, default) == IF x \in {"always", "nonempty", "never"} THEN x ELSE default

TopInv ==
    IF Pending THEN inherit = NoVars /\ toplevel = [mailto |-> Unset, success |-> Dflt]
    ELSE /\ \A v \in Decoded : Gives(inherit, v, TopGives(v))
         /\ toplevel.mailto = AtTop("MAILTO")
         /\ toplevel.success = SuccessOf(AtTop("CRON_MAIL_SUCCESS"), Dflt)

\* The lines read so far, and the jobs they asked for.
Past(f) == Readable(f) /\ f # cur /\ (Stage[f] < stage \/ (Stage[f] = stage /\ f \notin todo))

Reached(f, i) == (Past(f) \/ (f = cur /\ i < ln)) /\ Wanted(f, i)

AskedFor(j) ==
    \E f \in File \cap DOMAIN conf : \E i \in 1..Len(conf[f]) : Reached(f, i) /\ Settings(j) = Asked(f, i)

DoneInv ==
    /\ \A d \in done : AskedFor(d.job)
    /\ step # "scan" => AskedFor(job)
    /\ \A f \in File \cap DOMAIN conf : \A i \in 1..Len(conf[f]) :
          Reached(f, i) => (\E d \in done : Settings(d.job) = Asked(f, i))
                           \/ (step # "scan" /\ Settings(job) = Asked(f, i))

SettingsInv == PlaceInv /\ EnvInv /\ TopInv /\ DoneInv

=============================================================================
