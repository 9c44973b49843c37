--------------------------- MODULE PeriodSchedule ---------------------------
(***************************************************************************)
(* Jobs that are given by a period: "@daily" lines, the lines of           *)
(* /etc/anacrontab ("10 5 id command") and the scripts of /etc/cron.*.     *)
(* From the period, the delay and the start hour to the calendar           *)
(* expression, and whether `check`, which crontab(1) asks before it        *)
(* installs a crontab, refuses the line.  A line is                        *)
(* [source, period, delay, DELAY, START_HOURS_RANGE, distro].              *)
(*                                                                         *)
(* Words are in lower case and without their "@", which the code drops     *)
(* first: a lone "@" is the empty word.                                    *)
(***************************************************************************)
EXTENDS Integers

CONSTANT Word   \* size_t wraps here

\* How a number is written: digits alone, digits and more, other text, or
\* nothing (or a minus sign).  A variable may also not be set.
Digits(n) == [text |-> "digits", n |-> n]
Trailed(n) == [text |-> "trailed", n |-> n]
Letters   == [text |-> "letters", n |-> 0]
Blank     == [text |-> "blank", n |-> 0]
Unset     == [text |-> "unset", n |-> 0]

\* int_map: -1 unless parse_uint got as far as strtoull, whose result stays
\* although the text is refused.
IntMap(t) == [value |-> IF t.text = "blank" THEN Word - 1 ELSE t.n, err |-> t.text # "digits"]

\* What is known of a line; a word is no number of days.
IsPeriodLine(l) ==
    /\ l.period \in [word : STRING, n : Nat] /\ (l.period.word # "number" => l.period.n = 0)
    /\ {l.delay, l.DELAY, l.START_HOURS_RANGE} \subseteq
          [text : {"digits", "trailed", "letters", "blank", "unset"}, n : Nat]
    /\ l.distro.nth \in Nat /\ l.distro.hour \in Nat

-----------------------------------------------------------------------------
(* decode_environment, then the parser of the source, which may override *)

BootDelay(l) ==
    CASE l.source = "parts"      -> l.distro.nth * 5
      [] l.source = "anacrontab" -> IntMap(l.delay).value
      [] OTHER                   -> IF l.DELAY = Unset THEN 0 ELSE IntMap(l.DELAY).value

\* Without a dash START_HOURS_RANGE is refused and counts as not set.
StartHour(l) ==
    IF l.source = "parts" THEN l.distro.hour
    ELSE IF l.START_HOURS_RANGE = Unset THEN 0 ELSE IntMap(l.START_HOURS_RANGE).value

-----------------------------------------------------------------------------
(* generate_schedule_from_period *)

W(w) == [word |-> w, n |-> 0]
EveryDays(n) == [word |-> "number", n |-> n]

Replacement(p) ==
    CASE p = EveryDays(1)                                           -> W("daily")
      [] p = EveryDays(7)                                           -> W("weekly")
      [] p \in {EveryDays(30), EveryDays(31)}                       -> W("monthly")
      [] p \in {EveryDays(365), W("annually"), W("anually")}        -> W("yearly")
      [] p \in {W("bi-annually"), W("biannually"), W("semiannually")} -> W("semi-annually")
      [] p = W("boot")                                              -> W("reboot")
      [] OTHER                                                      -> p

\* A component of a calendar expression: the values from `from` on, `step`
\* apart, or that value alone; All is "*".
One(n)         == {[from |-> n, step |-> -1]}
Every(n, step) == {[from |-> n, step |-> step]}
All            == Every(0, 1)
Each(S)        == UNION {One(n) : n \in S}

Calendar(dow, months, days, hour, minute) ==
    [kind |-> "calendar", dow |-> dow, months |-> months, days |-> days, hour |-> hour, minute |-> minute]
AnyDow == 1 .. 7
NoCalendar(kind) == [Calendar({}, {}, {}, {}, {}) EXCEPT !.kind = kind]

\* Slip: a part of a month counts as a month.
Divisor_Up(n) == (n + 29) \div 30

\* std::round(prd / 30)
Divisor(n) == (n + 15) \div 30

Schedule(l) ==
    LET p == Replacement(l.period)
        d == BootDelay(l)
        At(dow, months, days) == Calendar(dow, months, days, One(StartHour(l)), One(d))
    IN  CASE p.word = "reboot"        -> NoCalendar("reboot")
          [] p.word = "minutely"      -> Calendar(AnyDow, All, All, All, All)
          [] p.word = "hourly"        -> Calendar(AnyDow, All, All, All, One(d))
          [] p.word = "midnight"      -> Calendar(AnyDow, All, All, One(0), One(d))
          [] p.word = "daily"         -> At(AnyDow, All, All)
          [] p.word = "weekly"        -> At({1}, All, All)
          [] p.word = "monthly"       -> At(AnyDow, All, One(1))
          [] p.word = "quarterly"     -> At(AnyDow, Each({1, 4, 7, 10}), One(1))
          [] p.word = "semi-annually" -> At(AnyDow, Each({1, 7}), One(1))
          [] p.word = "yearly"        -> At(AnyDow, One(1), One(1))
          [] p.word = "number" /\ p.n > 31  -> At(AnyDow, Every(1, Divisor(p.n)), One(1))
          [] p.word = "number" /\ p.n <= 31 -> At(AnyDow, All, Every(1, p.n))
          [] OTHER                    -> NoCalendar("unknown")

\* @hourly has used its delay up, @reboot waits a minute at least.
DelayLeft(l) ==
    CASE Replacement(l.period) = W("reboot") -> IF BootDelay(l) < 1 THEN 1 ELSE BootDelay(l)
      [] Replacement(l.period) = W("hourly") -> 0
      [] OTHER                               -> BootDelay(l)

-----------------------------------------------------------------------------
(* check *)

\* Slip: what is wrong goes unsaid.
Accepted_All(l) == TRUE

\* A lone "@" leaves no period behind, and is taken for a line with fields.
Accepted(l) ==
    \/ l.period = W("")
    \/ Replacement(l.period).word \in
         {"annually", "bi-annually", "biannually", "daily", "hourly", "midnight", "minutely", "monthly",
          "quarterly", "reboot", "semi-annually", "semiannually", "weekly", "yearly"}

-----------------------------------------------------------------------------
(* systemd.time(7) *)

\* A value is in range, and if it repeats, does so at least once.
Valid(C, lo, hi) ==
    \A c \in C \ All : c.from \in lo .. hi /\ (c.step = -1 \/ (c.step > 0 /\ c.from + c.step <= hi))

Elapses(s) ==
    /\ s.kind = "calendar"
    /\ Valid(s.months, 1, 12) /\ Valid(s.days, 1, 31) /\ Valid(s.hour, 0, 23) /\ Valid(s.minute, 0, 59)

Selects(C, v) ==
    \E c \in C : c \in All \/ c.from = v \/ (c.step > 0 /\ v > c.from /\ (v - c.from) % c.step = 0)

-----------------------------------------------------------------------------
\* The settings make sense: minutes of an hour, hours of a day.
Sensible(l) == BootDelay(l) < 60 /\ StartHour(l) < 24

\* Of each month's and year's days, those that crontab(5) says the keyword
\* selects.
TableDay(word, month, day) ==
    CASE word \in {"yearly", "annually"}                           -> month = 1 /\ day = 1
      [] word = "monthly"                                          -> day = 1
      [] word \in {"weekly", "daily", "midnight", "hourly", "minutely"} -> TRUE
      [] word = "quarterly"                                        -> month \in {1, 4, 7, 10} /\ day = 1
      [] word = "semi-annually"                                    -> month \in {1, 7} /\ day = 1

Keywords == {"yearly", "annually", "monthly", "weekly", "daily", "midnight", "hourly", "minutely",
             "quarterly", "semi-annually"}

\* What DELAY and START_HOURS_RANGE, or what overrides them in this source, say.
MinuteAsked(l) == CASE l.source = "anacrontab" -> l.delay.n
                    [] l.source = "parts"      -> 5 * l.distro.nth
                    [] OTHER                   -> l.DELAY.n
HourAsked(l)   == IF l.source = "parts" THEN l.distro.hour ELSE l.START_HOURS_RANGE.n

\* The schedule elapses on the days of the keyword's equivalent, at the hour and
\* the minute that are asked for; @weekly on Mondays, not on its Sundays.
KeywordAsDocumented(l, s) ==
    LET w == l.period.word
    IN  /\ Elapses(s)
        /\ \A m \in 1 .. 12, d \in 1 .. 31 : (Selects(s.months, m) /\ Selects(s.days, d)) <=> TableDay(w, m, d)
        /\ s.dow = IF w = "weekly" THEN {1} ELSE AnyDow
        /\ \A v \in 0 .. 23 : Selects(s.hour, v) <=>
               w \in {"minutely", "hourly"} \/ v = IF w = "midnight" THEN 0 ELSE HourAsked(l)
        /\ \A v \in 0 .. 59 : Selects(s.minute, v) <=> w = "minutely" \/ v = MinuteAsked(l)

\* The days of a common year on which a schedule elapses, and the same days
\* of the next.
Lengths == <<31, 28, 31, 30, 31, 30, 31, 31, 30, 31, 30, 31>>
Before  == <<0, 31, 59, 90, 120, 151, 181, 212, 243, 273, 304, 334>>
YearDays(s) ==
    UNION {{Before[m] + d : d \in {d \in 1 .. Lengths[m] : Selects(s.days, d)}} :
             m \in {m \in 1 .. 12 : Selects(s.months, m)}}
Next2(s) == YearDays(s) \cup {365 + d : d \in YearDays(s)}

\* However months end, gaps are of n days, or of the closest number of months,
\* at the most.  (7 days are a week, on Mondays.)
InTime(n, s) ==
    /\ Elapses(s)
    /\ s.dow = IF n = 7 THEN {1} ELSE AnyDow
    /\ n = 7 => s.months = All /\ s.days = All
    /\ n < 30 /\ n # 7 => \A e \in YearDays(s) : \E f \in Next2(s) : f > e /\ f <= e + n
    /\ n >= 30 => \A m \in {m \in 1 .. 12 : Selects(s.months, m)} :
                      \E k \in 1 .. 12 : /\ 30 * k \in n - 15 .. n + 15
                                         /\ \/ m + k > 12
                                            \/ \E i \in 1 .. k : Selects(s.months, m + i)
=============================================================================
