------------------------------- MODULE CronLine -------------------------------
(***************************************************************************)
(* From a line to the OnCalendar= of its timer: from the five time fields  *)
(* of a crontab, parse_crontab_timespec() and                              *)
(* generate_schedule_from_timespec(); from a period, the operators of      *)
(* PeriodSchedule.                                                         *)
(*                                                                         *)
(* The generator runs at boot and at every daemon-reload, and parses every *)
(* line anew each time: `~` then picks another random value, so one line   *)
(* goes through several schedules.                                         *)
(***************************************************************************)
EXTENDS CronField

CONSTANTS
    Lines,      \* the lines with fields considered
    PeriodLines, \* the lines with a period considered
    Days        \* the days on which a schedule is tried

ASSUME DaysAssumption ==
    \A d \in Days : d.len \in 28 .. 31 /\ d.dom \in 1 .. d.len /\ d.month \in 1 .. 12 /\ d.dow \in 0 .. 6

VARIABLES
    line,       \* [minute, hour, day, month, dow, persistent], or with a period
    job         \* what the last run of the generator made of it

vars == <<line, job>>

P == INSTANCE PeriodSchedule

\* generate_schedule()'s test: the line's period is not empty.
HasPeriod(l) == "period" \in DOMAIN l

FieldNames == {"minute", "hour", "day", "month", "dow"}

\* day: also "L", the last day of the month; dow: also "<digit>L", the last
\* such day of the month.
LastDay     == [form |-> "L", list |-> {}]
LastDow(s)  == [form |-> "L", list |-> {s}]
Only(n)     == [op |-> "one", lo |-> Num(n), hi |-> Num(n), step |-> 1]

\* A field is an asterisk, a list, or one of these two.
ASSUME LinesAssumption ==
    /\ \A l \in Lines :
           /\ ~HasPeriod(l)
           /\ \A f \in FieldNames : \/ l[f].form \in {"*", "list"}
                                    \/ f = "day" /\ l[f] = LastDay
                                    \/ f = "dow" /\ \E n \in 0 .. 9 : l[f] = LastDow(Only(n))
    /\ \A l \in PeriodLines : HasPeriod(l) /\ P!IsPeriodLine(l)

NoSchedule == [dow |-> {}, month |-> {}, fromEnd |-> FALSE, day |-> {}, daily |-> FALSE,
               hour |-> {}, minute |-> {}]

\* status: "none" before the first run, else "valid", "invalid", "hung", or
\* "period" for a line that has one.
NoJob(status) == [status |-> status, schedule |-> NoSchedule, schedule_raw |-> <<>>]

-----------------------------------------------------------------------------
(* parse_crontab_timespec *)

last_dom(l) == l.day.form = "L"
last_dow(l) == l.dow.form = "L"

\* Slip: "<digit>L" does not narrow the days down to the last seven.
DayField_Kept(l) == IF last_dom(l) THEN List({Only(1)}) ELSE l.day

\* The rewritten day and dow fields.  With L in both, dow keeps its L, which
\* makes no number of "5L".
DayField(l) == IF last_dom(l) THEN List({Only(1)})
               ELSE IF last_dow(l) THEN List({Only(7)})
               ELSE l.day
DowField(l) == IF last_dow(l)
               THEN IF last_dom(l)
                    THEN List({[op |-> "one", lo |-> Trailed(s.lo.n), hi |-> Trailed(s.lo.n), step |-> 1] : s \in l.dow.list})
                    ELSE List(l.dow.list)
               ELSE l.dow

Parses(l) ==
    {[minute |-> mi, hour |-> h, day |-> d, month |-> mo, dow |-> w] :
        mi \in ParseTimeUnit(Field.minute, l.minute), h  \in ParseTimeUnit(Field.hour, l.hour),
        d  \in ParseTimeUnit(Field.day, DayField(l)), mo \in ParseTimeUnit(Field.month, l.month),
        w  \in ParseTimeUnit(Field.dow, DowField(l))}

-----------------------------------------------------------------------------
(* generate_schedule_from_timespec *)

\* No day of the week (a list of commas) leaves the first part of the calendar
\* expression out: any day.
Dows(p) == IF p.dow.vals = {} THEN {TIMESPEC_ASTERISK} ELSE p.dow.vals

Schedule(l, p) ==
    [dow |-> Dows(p), month |-> p.month.vals, fromEnd |-> last_dow(l) \/ last_dom(l),
     day |-> p.day.vals, daily |-> last_dow(l), hour |-> p.hour.vals, minute |-> p.minute.vals]

\* Slip: the values drawn for a ~ go into schedule_raw like all others.
RawOr_Drawn(v, r) == [raw |-> Star, vals |-> r.vals]

\* The text of a field that holds a ~ is kept as it is.
RawOr(v, r) == IF HasTilde(v) THEN [raw |-> v, vals |-> {}] ELSE [raw |-> Star, vals |-> r.vals]

ScheduleRaw(l, p) ==
    <<RawOr(DowField(l), p.dow), RawOr(l.month, p.month), last_dow(l) \/ last_dom(l),
      RawOr(DayField(l), p.day), last_dow(l), RawOr(l.hour, p.hour), RawOr(l.minute, p.minute)>>

Results(p) == {p.minute, p.hour, p.day, p.month, p.dow}

\* A list of commas is no error, but a field without a value is.
NoValue(p) == {} \in {p.minute.vals, p.hour.vals, p.day.vals, p.month.vals}

JobOf(l, p) ==
    IF \E r \in Results(p) : r.status = "hang" THEN NoJob("hung")
    ELSE IF NoValue(p) \/ \E r \in Results(p) : r.status = "bad" THEN NoJob("invalid")
    ELSE [status |-> "valid", schedule |-> Schedule(l, p),
          schedule_raw |-> IF l.persistent THEN ScheduleRaw(l, p) ELSE <<>>]

-----------------------------------------------------------------------------
Init ==
    /\ line \in Lines \cup PeriodLines
    /\ job = NoJob("none")

\* One run of the generator; a run that hangs is the last one.
Generate ==
    /\ ~HasPeriod(line) /\ job.status # "hung"
    /\ \E p \in Parses(line) : job' = JobOf(line, p)
    /\ UNCHANGED line

\* generate_schedule() on a line with a period, and `check` on the same.
PeriodJob(l) == [status |-> "period", schedule |-> P!Schedule(l), boot_delay |-> P!DelayLeft(l),
                 accepted |-> P!Accepted(l)]
GeneratePeriod ==
    /\ HasPeriod(line)
    /\ job' = PeriodJob(line)
    /\ UNCHANGED line

Next == Generate \/ GeneratePeriod

Spec == Init /\ [][Next]_vars

-----------------------------------------------------------------------------
(* What systemd makes of OnCalendar= (systemd.time(7)): a day matches when *)
(* every part of the expression does.                                      *)

In(vals, n) == TIMESPEC_ASTERISK \in vals \/ n \in vals

CalendarMatches(s, d) ==
    LET left == d.len - d.dom + 1       \* the day, counted from the end
    IN  /\ In(s.dow, d.dow)
        /\ In(s.month, d.month)
        /\ IF ~s.fromEnd THEN In(s.day, d.dom)
           ELSE IF s.daily THEN \E n \in s.day : left <= n
           ELSE left \in s.day

(* What crontab(5) promises. *)
DomMatches(l, d) == IF last_dom(l) THEN d.dom = d.len
                    ELSE d.dom \in DocumentedField(Field.day, l.day)
DowMatches(l, d) == /\ d.dow \in DocumentedField(Field.dow, l.dow)
                    /\ last_dow(l) => d.len - d.dom < 7

Restricted(v) == v.form # "*"
BothRestricted(l) == Restricted(l.day) /\ Restricted(l.dow)

\* "If both fields are restricted, the command will be run when either field
\* matches the current time."
CronMatches(l, d) ==
    /\ d.month \in DocumentedField(Field.month, l.month)
    /\ IF BothRestricted(l) THEN DomMatches(l, d) \/ DowMatches(l, d)
                            ELSE DomMatches(l, d) /\ DowMatches(l, d)

-----------------------------------------------------------------------------
Accepted == job.status = "valid"

\* Some value of the line is left to chance.
Drawn(l) == \E f \in FieldNames : HasTilde(l[f])

\* A list of numbers, ranges and skips, spelt as usual, selects exactly the
\* documented values of its field: ranges are inclusive at both ends, 0 and 7 are
\* both Sunday, and what lies beyond the field's limits is dropped; a ~ selects
\* values of its interval only.  (Beside a "5L" the day field is not read.)  No line
\* is refused whose every part is usual and selects something, but for an L in both
\* day fields.
\* crontab(5) is contradicted by a line's parts in four ways:
\* where a ~ has an end below the field's last value, the one after the end may be
\* drawn too (0~30 gives 31: crontab(5):346-354 has the interval inclusive); where a ~
\* has no start, a field that counts from 1 never draws its first value; "sun" is
\* every day of the week (crontab(5):467 has it every Sunday); and the months' names
\* of crontab(5):327 are refused.
FieldsAsDocumented ==
    /\ Accepted => \A f \in FieldNames :
           /\ line[f].form = "list" /\ line[f].list # {} /\ ~(f = "day" /\ last_dow(line))
           /\ \A s \in line[f].list : Usual(Field[f], s) /\ ~EndsEarly(Field[f], s)
           =>
           /\ job.schedule[f] \subseteq DocumentedField(Field[f], line[f])
           /\ ~HasTilde(line[f]) => job.schedule[f] = DocumentedField(Field[f], line[f])
    /\ job.status = "invalid" =>
           \/ last_dom(line) /\ last_dow(line)
           \/ \E f \in FieldNames \ {"dow"} : line[f].form = "list" /\ line[f].list = {}
           \/ \E f \in FieldNames : \E s \in line[f].list :
                  ~Usual(Field[f], s) \/ Documented(Field[f], s) = {}
    /\ ~HasPeriod(line) => \A f \in FieldNames : \A s \in line[f].list : PartsFrom(Field[f], s)

\* The fields that tell the days are spelt as usual, and hold something; a ~ has no
\* end below the last value.
UsualDays(l) ==
    \A f \in {"day", "month", "dow"} :
        /\ l[f].form = "list" => l[f].list # {}
        /\ \A s \in l[f].list : Usual(Field[f], s) /\ ~EndsEarly(Field[f], s)

\* The timer never elapses on a day the crontab line does not ask for, and if
\* at most one of the two day fields is restricted and no value is left to
\* chance, it elapses on every day the line asks for.
ElapsesWhenAsked ==
    Accepted /\ UsualDays(line) => \A d \in Days :
        /\ CalendarMatches(job.schedule, d) => CronMatches(line, d)
        /\ ~BothRestricted(line) /\ ~Drawn(line) /\ CronMatches(line, d) => CalendarMatches(job.schedule, d)

\* A persistent job hashes to the same unit name, and so keeps its stamp
\* file, however the generator's later runs draw the values of its ~s.
StableUnitName ==
    [][job.status = "valid" /\ line.persistent => job'.schedule_raw = job.schedule_raw]_vars

\* Whatever the line, the parser, which crontab(1) has check it and which then
\* runs at every boot, comes to an end, but for two things, neither of which is
\* refused: a skip of 0, and one after a "*" that the signed index cannot take.
HangsOnlyOnSkip ==
    job.status = "hung" =>
        \E f \in FieldNames : \E s \in line[f].list : s.step = 0 \/ (s.op = "*" /\ s.step >= Word \div 2)

Periodic == job.status = "period"

\* Every keyword elapses on the days of its equivalent in crontab(5), at the
\* minute DELAY and the hour START_HOURS_RANGE or the distribution gives (@hourly
\* at every hour, @midnight at 0), wherever the line is and whichever of the settings
\* is overridden there.  But for one: @weekly is `0 0 * * 0` in crontab(5):438, on
\* Sundays, and elapses on Mondays, as every 7 days of anacrontab(5) do.
\* anacrontab(5) on a number: it "is a number of days to wait between each job
\* execution", from 30 on "rounded to the closest month".  No execution comes
\* later than that, up to the 344 days that still round to eleven months.
PeriodsAsDocumented ==
    Periodic /\ P!Sensible(line) =>
        /\ line.period.word \in P!Keywords => P!KeywordAsDocumented(line, job.schedule)
        /\ line.period.word = "number" /\ line.period.n \in 1 .. 344 => P!InTime(line.period.n, job.schedule)

\* What `check` accepts, systemd does too: crontab(1) installs no period that
\* makes a timer without a schedule, as long as the settings make sense.  (A
\* lone "@" passes as a line with fields.)
CheckedElapses ==
    Periodic /\ job.accepted /\ P!Sensible(line) /\ line.period # P!W("") =>
        job.schedule.kind = "reboot" \/ P!Elapses(job.schedule)

-----------------------------------------------------------------------------
\* The inductive invariant behind these: the job is what some reading of the line
\* makes of it.
LineInv ==
    /\ line \in Lines \/ line \in PeriodLines
    /\ \/ job = NoJob("none")
       \/ HasPeriod(line) /\ job = PeriodJob(line)
       \/ ~HasPeriod(line) /\ \E p \in Parses(line) : job = JobOf(line, p)
==============================================================================
