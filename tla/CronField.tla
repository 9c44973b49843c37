------------------------------ MODULE CronField ------------------------------
(***************************************************************************)
(* The fields of a crontab line: parse_period() and parse_time_unit() of   *)
(* systemd-crontab-generator.cpp, with the three mappings from text to     *)
(* index they are given, and what crontab(5) says a field means.           *)
(*                                                                         *)
(* A subvalue (what stands between two commas) is a record                 *)
(*     [op, lo, hi, step]    op: "*", "one", "-" or "~"                    *)
(* whose ends are a number, a month's or day's name, nothing, or text that *)
(* is none of these: a number and more ("5x"), other letters, or a minus   *)
(* sign or more digits than fit (both "minus").                            *)
(***************************************************************************)
EXTENDS Integers, FiniteSets

CONSTANT Word       \* 2^64: size_t arithmetic wraps around here
ASSUME WordAssumption == Word \in Nat /\ Word > 255

Num(n)  == [kind |-> "num",  n |-> n]
Name(n) == [kind |-> "name", n |-> n]    \* jan = 1 ...; sun = 0, mon = 1 ...
Empty   == [kind |-> "empty", n |-> 0]
Trailed(n) == [kind |-> "trailed", n |-> n]
Letters == [kind |-> "letters", n |-> 0]
Minus   == [kind |-> "minus", n |-> 0]

\* The step of a subvalue that is misspelt as a whole: a skip that is no number, or
\* a second "/", "-" or "~".
Misspelt == -1

\* MINUTES_SET, HOURS_SET, DAYS_SET, MONTHS_SET, DOWS_SET: the array's first
\* value, the index of its last element and the mapping its text goes through.
\* (DOWS_SET has eight entries, from one Sunday to the next.)
Field ==
    [minute |-> [map |-> "int",   base |-> 0, top |-> 59],
     hour   |-> [map |-> "int",   base |-> 0, top |-> 23],
     day    |-> [map |-> "int",   base |-> 1, top |-> 30],
     month  |-> [map |-> "month", base |-> 1, top |-> 11],
     dow    |-> [map |-> "dow",   base |-> 0, top |-> 7]]

\* values[i]
Value(f, i) == IF f.map = "dow" THEN i % 7 ELSE f.base + i

-----------------------------------------------------------------------------
(* int_map, month_map, dow_map: the number, and the err flag they pass on. *)

\* The result of strtoull() stays although the text is refused; it is the
\* greatest size_t if strtoull() is not asked.
IntMap(e, err) ==
    [val |-> IF e.kind \in {"num", "trailed"} THEN e.n
             ELSE IF e.kind \in {"empty", "minus"} THEN Word - 1 ELSE 0,
     err |-> err \/ e.kind # "num"]

\* err is tested, never cleared: a name found still reports the error of the
\* number that was looked for first, and so does all that comes after it.
MonthMap(e, err) ==
    IF e.kind = "num" /\ ~err THEN [val |-> e.n, err |-> FALSE]
    ELSE [val |-> IF e.kind = "name" THEN e.n ELSE 0, err |-> TRUE]

\* A name is looked up from the first Sunday on, or, as the end of a range,
\* from the Monday after it on.
DowMap(e, err, to) ==
    IF e.kind = "name" THEN [val |-> IF to /\ e.n = 0 THEN 7 ELSE e.n, err |-> err]
                       ELSE IntMap(e, err)

Mapping(f, e, err, to) ==
    CASE f.map = "int"   -> IntMap(e, err)
      [] f.map = "month" -> MonthMap(e, err)
      [] f.map = "dow"   -> DowMap(e, err, to)

-----------------------------------------------------------------------------
(* parse_period: the set of its possible outcomes.                         *)

Bad      == [status |-> "bad",  vals |-> {}]    \* an error is logged
Hang     == [status |-> "hang", vals |-> {}]    \* for ever, or until it is killed
Good(vs) == [status |-> "ok",   vals |-> vs]

Lesser(a, b) == IF a < b THEN a ELSE b

\* Slip: the skips are counted from the start of the array.
Loop_FromZero(f, from, until, step) ==
    IF from >= until THEN Good({})
    ELSE IF step = 0 THEN Hang
    ELSE Good({Value(f, i) : i \in {j \in from .. until - 1 : j % step = 0}})

\* for(i = from; i < until; i += step) into.emplace(values[i]);
\* A skip close to 2^64 counts down, until i wraps around.
Loop(f, from, until, step) ==
    IF from >= until THEN Good({})
    ELSE IF step = 0 THEN Hang
    ELSE Good({Value(f, i) : i \in {j \in 0 .. until - 1 :
                                       IF j < from THEN (from - j) % (Word - step) = 0 ELSE (j - from) % step = 0}})

\* Slip: the skip is kept in a byte, like the values.
StarLoop_Byte(f, step) == Loop(f, 0, f.top + 1, step % 256)

\* The loop for "*" has a signed i: a skip of 2^63 or more takes it below the
\* array, and on to where nothing is mapped.
StarLoop(f, step) == IF step >= Word \div 2 THEN Hang ELSE Loop(f, 0, f.top + 1, step)

NotBase(f) == IF f.base = 0 THEN 1 ELSE 0       \* !base

IndexStart(f, m)      == (m.val + Word - 1 + NotBase(f)) % Word
IndexEnd(f, m, limit) == Lesser((m.val + NotBase(f)) % Word, limit)

\* Both ends of a range are mapped, with one err flag.
From(f, s)      == Mapping(f, s.lo, FALSE, FALSE)
To(f, s)        == Mapping(f, s.hi, From(f, s).err, TRUE)
RangeLoop(f, s) == Loop(f, IndexStart(f, From(f, s)), IndexEnd(f, To(f, s), f.top + 1), s.step)

\* An omitted start of a ~ is not mapped, so it cannot have failed.
TildeFrom(f, s) == IF s.lo = Empty THEN f.base ELSE IndexStart(f, From(f, s))
TildeTo(f, s)   == IF s.hi = Empty THEN f.top
                   ELSE IndexEnd(f, Mapping(f, s.hi, s.lo # Empty /\ From(f, s).err, TRUE), f.top)

\* A ~ never looks at err.
ParsePeriod(f, s) ==
    CASE s.step = Misspelt -> {Bad}
      [] s.step # Misspelt /\ s.op = "*" -> {StarLoop(f, s.step)}
      [] s.step # Misspelt /\ s.op = "~" ->
            IF TildeFrom(f, s) > f.top \/ TildeFrom(f, s) > TildeTo(f, s) THEN {Bad}
            ELSE {Good({Value(f, i)}) : i \in TildeFrom(f, s) .. TildeTo(f, s)}
      [] OTHER ->
            {IF To(f, s).err \/ RangeLoop(f, s) = Good({}) THEN Bad ELSE RangeLoop(f, s)}

-----------------------------------------------------------------------------
(* parse_time_unit: a field is the lone asterisk or a list of subvalues.   *)

TIMESPEC_ASTERISK == 255
Star        == [form |-> "*", list |-> {}]
List(subs)  == [form |-> "list", list |-> subs]

HasTilde(v) == \E s \in v.list : s.op = "~"

\* The first subvalue (the list's order is left open) that is not accepted
\* decides; otherwise the field is the union of all.
Combine(results) ==
    LET stops == {r \in results : r.status # "ok"}
    IN  IF stops = {} THEN {Good(UNION {r.vals : r \in results})} ELSE stops

ParseTimeUnit(f, v) ==
    IF v.form = "*" THEN {Good({TIMESPEC_ASTERISK})}
    ELSE LET picks == {c \in [v.list -> UNION {ParsePeriod(f, s) : s \in v.list}] :
                          \A s \in v.list : c[s] \in ParsePeriod(f, s)}
         IN  UNION {Combine({c[s] : s \in v.list}) : c \in picks}

-----------------------------------------------------------------------------
(* What crontab(5) says of a field.                                        *)

Legal(f) == {Value(f, i) : i \in 0 .. f.top}

\* A subvalue spelt as crontab(5) has it: a skip, and the ends of an interval,
\* that a size_t has room for, an interval that does not begin below the field,
\* and no names but those of Monday to Saturday.
UsualEnd(f, s, e) ==
    \/ e = Empty /\ s.op = "~"
    \/ e.kind = "num" /\ e.n \in 0 .. Word - 2
    \/ e.kind = "name" /\ f.map = "dow" /\ e.n \in 1 .. 6
Usual(f, s) ==
    /\ s.step \in 1 .. (Word \div 2) - 1
    /\ s.op # "*" => /\ UsualEnd(f, s, s.lo) /\ UsualEnd(f, s, s.hi)
                     /\ s.lo # Empty => s.lo.n >= f.base

\* The numbers from lo to hi, in skips of step; days of the week count modulo
\* seven ("0 or 7 is Sunday").
Lo(f, s) == IF s.op = "*" \/ s.lo = Empty THEN f.base ELSE s.lo.n
Hi(f, s) == IF s.op = "*" \/ s.hi = Empty THEN f.base + f.top ELSE s.hi.n
Numbers(f, s) ==
    {n \in Lo(f, s) .. Lesser(Hi(f, s), f.base + f.top) :
        n >= f.base /\ (s.op = "~" \/ (n - Lo(f, s)) % s.step = 0)}
Meant(f, n) == IF f.map = "dow" THEN n % 7 ELSE n
Documented(f, s) == {Meant(f, n) : n \in Numbers(f, s)}

DocumentedField(f, v) ==
    IF v.form = "*" THEN Legal(f) ELSE UNION {Documented(f, s) : s \in v.list}

-----------------------------------------------------------------------------
(* Where the parser and crontab(5) part.                                   *)

\* A ~ with an end of its own, below the last value of the field: the end is
\* taken for an index, and the value after it may be drawn too.
EndsEarly(f, s)  == s.op = "~" /\ s.hi # Empty /\ s.hi.n < f.base + f.top
OneBeyond(f, s)  == IF EndsEarly(f, s) THEN {Meant(f, s.hi.n + 1)} ELSE {}

\* The omitted start of a ~ is the field's first value taken for an index: in a
\* field that counts from 1 that is the second.
NeverDrawn(f, s) == IF s.lo = Empty /\ f.base = 1 THEN {1} ELSE {}

PartsFrom(f, s) ==
    \* 0~30 may give 31, "~" no 1st of the month
    /\ s.op = "~" /\ Usual(f, s) /\ Documented(f, s) # {} =>
          UNION {r.vals : r \in ParsePeriod(f, s)} = (Documented(f, s) \ NeverDrawn(f, s)) \cup OneBeyond(f, s)
    \* "sun", which as the end of a range is the last of the eight
    /\ s = [op |-> "one", lo |-> Name(0), hi |-> Name(0), step |-> 1] /\ f.map = "dow" =>
          ParsePeriod(f, s) = {Good(Legal(f))}
    \* "jan": no month's name is taken
    /\ s.op \in {"one", "-"} /\ s.lo.kind = "name" /\ f.map = "month" => ParsePeriod(f, s) = {Bad}
==============================================================================
