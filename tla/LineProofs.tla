----------------------------- MODULE LineProofs -----------------------------
(***************************************************************************)
(* What the schedule of a line of a crontab becomes (CronLine), for every  *)
(* line there can be: the invariant LineInv says only that the job is what *)
(* one reading of the line makes of it; the lemmas say what parse_period() *)
(* and parse_time_unit() can return, and what                              *)
(* generate_schedule_from_period() makes of a word or a number.            *)
(***************************************************************************)
EXTENDS CronLine, TLAPS

\* The job is always what one reading of the line gives.
LEMMA LineInvariant == Spec => []LineInv
<1>1. Init => LineInv
  BY DEF Init, LineInv
<1>2. LineInv /\ [Next]_vars => LineInv'
  <2> SUFFICES ASSUME LineInv, [Next]_vars PROVE LineInv'
    OBVIOUS
  <2>1. CASE Generate
    <3>1. PICK p \in Parses(line) : job' = JobOf(line, p)
      BY <2>1 DEF Generate
    <3>2. line' = line /\ ~HasPeriod(line)
      BY <2>1 DEF Generate
    <3>3. p \in Parses(line') /\ job' = JobOf(line', p)
      BY <3>1, <3>2
    <3> QED BY <3>2, <3>3 DEF LineInv
  <2>2. CASE GeneratePeriod
    <3>1. line' = line /\ HasPeriod(line) /\ job' = PeriodJob(line)
      BY <2>2 DEF GeneratePeriod
    <3>2. line' = line /\ HasPeriod(line') /\ job' = PeriodJob(line')
      BY <3>1
    <3> QED BY <3>2 DEF LineInv
  <2>3. CASE UNCHANGED vars
    BY <2>3 DEF vars, LineInv
  <2> QED BY <2>1, <2>2, <2>3 DEF Next
<1> QED BY <1>1, <1>2, PTL DEF Spec

\* parse_period() draws a value for a ~ only, and then never fails for some
\* draws only.
LEMMA DrawsAgree ==
    ASSUME NEW f, NEW s, NEW q \in ParsePeriod(f, s), NEW r \in ParsePeriod(f, s)
    PROVE  /\ q.status = r.status /\ (q.vals = {} <=> r.vals = {})
           /\ s.op # "~" => q = r
<1>0. CASE s.step = Misspelt
  BY <1>0 DEF ParsePeriod
<1>1. CASE s.step # Misspelt /\ s.op = "*"
  BY <1>1 DEF ParsePeriod
<1>2. CASE s.step # Misspelt /\ s.op = "~"
  BY <1>2 DEF ParsePeriod, Good, Bad
<1>3. CASE s.step # Misspelt /\ s.op \notin {"*", "~"}
  BY <1>3 DEF ParsePeriod
<1> QED BY <1>0, <1>1, <1>2, <1>3

\* r is what parse_time_unit() makes of v if the outcome for the subvalue s is c[s].
Picked(f, v, c, r) == /\ \A s \in v.list : c[s] \in ParsePeriod(f, s)
                      /\ r \in Combine({c[s] : s \in v.list})

LEMMA PicksOf ==
    ASSUME NEW f, NEW v, v.form # "*", NEW r \in ParseTimeUnit(f, v) PROVE \E c : Picked(f, v, c, r)
BY DEF ParseTimeUnit, Picked

\* What Combine makes of them.
LEMMA Combined ==
    ASSUME NEW R, NEW r \in Combine(R)
    PROVE  \/ r = Good(UNION {q.vals : q \in R}) /\ \A q \in R : q.status = "ok"
           \/ r \in R /\ r.status # "ok"
BY DEF Combine

LEMMA FieldsAgree ==
    ASSUME NEW f, NEW v, NEW q \in ParseTimeUnit(f, v), NEW r \in ParseTimeUnit(f, v), q.status = "ok"
    PROVE  /\ r.status = "ok" /\ (q.vals = {} <=> r.vals = {})
           /\ ~HasTilde(v) => q = r
<1>1. CASE v.form = "*"
  BY <1>1 DEF ParseTimeUnit, Good
<1>2. CASE v.form # "*"
  <2>1. PICK c : Picked(f, v, c, q)
    BY <1>2, PicksOf
  <2>2. PICK d : Picked(f, v, d, r)
    BY <1>2, PicksOf
  <2>3. q = Good(UNION {x.vals : x \in {c[s] : s \in v.list}}) /\ \A s \in v.list : c[s].status = "ok"
    BY <2>1, Combined DEF Picked
  <2>4. \A s \in v.list : d[s].status = "ok"
    BY <2>1, <2>2, <2>3, DrawsAgree DEF Picked
  <2>5. r = Good(UNION {x.vals : x \in {d[s] : s \in v.list}})
    BY <2>2, <2>4, Combined DEF Picked
  <2>6. ~HasTilde(v) => \A s \in v.list : c[s] = d[s]
    BY <2>1, <2>2, DrawsAgree DEF Picked, HasTilde
  <2>7. ~HasTilde(v) => {c[s] : s \in v.list} = {d[s] : s \in v.list}
    BY <2>6
  <2>8. \A s \in v.list : c[s].vals = {} <=> d[s].vals = {}
    BY <2>1, <2>2, DrawsAgree DEF Picked
  <2>9. q.vals = UNION {c[s].vals : s \in v.list} /\ r.vals = UNION {d[s].vals : s \in v.list}
    BY <2>3, <2>5 DEF Good
  <2>10. q.vals = {} <=> r.vals = {}
    BY <2>8, <2>9
  <2> QED BY <2>3, <2>5, <2>7, <2>10 DEF Good
<1> QED BY <1>1, <1>2

\* A field whose loop does not end has a skip that does not let it.
LEMMA HangsOfField ==
    ASSUME NEW f, NEW v, NEW r \in ParseTimeUnit(f, v), r.status = "hang"
    PROVE  \E s \in v.list : s.step = 0 \/ (s.op = "*" /\ s.step >= Word \div 2)
<1>1. v.form # "*"
  BY DEF ParseTimeUnit, Good
<1>2. PICK c : Picked(f, v, c, r)
  BY <1>1, PicksOf
<1>3. PICK s \in v.list : r = c[s] /\ r \in ParsePeriod(f, s)
  BY <1>2, Combined DEF Picked, Good
<1>4. ASSUME NEW from, NEW until, NEW step, Loop(f, from, until, step).status = "hang" PROVE step = 0
  BY <1>4 DEF Loop, Good
<1>8. s.step # Misspelt
  BY <1>3 DEF ParsePeriod, Bad
<1>5. CASE s.op = "*"
  <2>1. r = StarLoop(f, s.step)
    BY <1>3, <1>5, <1>8 DEF ParsePeriod
  <2> QED BY <1>4, <1>5, <2>1 DEF StarLoop
<1>6. CASE s.op = "~"
  BY <1>3, <1>6, <1>8 DEF ParsePeriod, Bad, Good
<1>7. CASE s.op \notin {"*", "~"}
  <2>1. r \in {RangeLoop(f, s), Bad}
    BY <1>3, <1>7, <1>8 DEF ParsePeriod
  <2> QED BY <1>4, <2>1 DEF RangeLoop, Bad
<1> QED BY <1>3, <1>5, <1>6, <1>7

\* Where the five fields come from.
LEMMA ReadFrom ==
    ASSUME NEW l, NEW p \in Parses(l)
    PROVE  /\ p.minute \in ParseTimeUnit(Field.minute, l.minute) /\ p.hour \in ParseTimeUnit(Field.hour, l.hour)
           /\ p.day \in ParseTimeUnit(Field.day, DayField(l)) /\ p.month \in ParseTimeUnit(Field.month, l.month)
           /\ p.dow \in ParseTimeUnit(Field.dow, DowField(l))
BY DEF Parses

\* Whatever the line, the generator hangs only for the sake of such a skip.
THEOREM HangsOnlyOnASkip == Spec => []HangsOnlyOnSkip
<1>1. LineInv => HangsOnlyOnSkip
  <2> SUFFICES ASSUME LineInv, job.status = "hung"
               PROVE  \E f \in FieldNames : \E s \in line[f].list :
                          s.step = 0 \/ (s.op = "*" /\ s.step >= Word \div 2)
    BY DEF HangsOnlyOnSkip
  <2>1. PICK p \in Parses(line) : job = JobOf(line, p)
    BY DEF LineInv, NoJob, PeriodJob
  <2>2. PICK r \in Results(p) : r.status = "hang"
    BY <2>1 DEF JobOf, NoJob
  <2> DEFINE Skips(v) == \E s \in v.list : s.step = 0 \/ (s.op = "*" /\ s.step >= Word \div 2)
  <2>4. Skips(line.minute) \/ Skips(line.hour) \/ Skips(DayField(line)) \/ Skips(line.month) \/ Skips(DowField(line))
    BY <2>2, ReadFrom, HangsOfField DEF Results
  <2>5. Skips(DayField(line)) => Skips(line.day)
    BY WordAssumption DEF DayField, List, Only
  <2>6. Skips(DowField(line)) => Skips(line.dow)
    BY WordAssumption DEF DowField, List
  <2>7. Skips(line["minute"]) \/ Skips(line["hour"]) \/ Skips(line["day"]) \/ Skips(line["month"]) \/ Skips(line["dow"])
    BY <2>4, <2>5, <2>6
  <2> QED BY <2>7 DEF FieldNames
<1> QED BY <1>1, LineInvariant, PTL

\* What parse_period() may say.
LEMMA Statuses ==
    ASSUME NEW f, NEW s, NEW r \in ParsePeriod(f, s) PROVE r.status \in {"ok", "bad", "hang"}
<1>1. ASSUME NEW from, NEW until, NEW step PROVE Loop(f, from, until, step).status \in {"ok", "hang"}
  BY DEF Loop, Good, Hang
<1>5. CASE s.step = Misspelt
  BY <1>5 DEF ParsePeriod, Bad
<1>2. CASE s.step # Misspelt /\ s.op = "*"
  BY <1>1, <1>2 DEF ParsePeriod, StarLoop, Hang
<1>3. CASE s.step # Misspelt /\ s.op = "~"
  BY <1>3 DEF ParsePeriod, Good, Bad
<1>4. CASE s.step # Misspelt /\ s.op \notin {"*", "~"}
  BY <1>1, <1>4 DEF ParsePeriod, RangeLoop, Bad
<1> QED BY <1>2, <1>3, <1>4, <1>5

LEMMA FieldStatuses ==
    ASSUME NEW f, NEW v, NEW r \in ParseTimeUnit(f, v) PROVE r.status \in {"ok", "bad", "hang"}
<1>1. CASE v.form = "*"
  BY <1>1 DEF ParseTimeUnit, Good
<1>2. CASE v.form # "*"
  <2>1. PICK c : Picked(f, v, c, r)
    BY <1>2, PicksOf
  <2> QED BY <2>1, Combined, Statuses DEF Picked, Good
<1> QED BY <1>1, <1>2

LEMMA ValidMeansOk ==
    ASSUME NEW l, NEW p \in Parses(l)
    PROVE  JobOf(l, p).status = "valid" <=> ~NoValue(p) /\ \A r \in Results(p) : r.status = "ok"
<1>1. \A r \in Results(p) : r.status \in {"ok", "bad", "hang"}
  BY ReadFrom, FieldStatuses DEF Results
<1> QED BY <1>1 DEF JobOf, NoJob

\* Whatever is drawn, the text that the hash is made from is the same.
LEMMA RawStable ==
    ASSUME NEW l, NEW p \in Parses(l), NEW q \in Parses(l), JobOf(l, p).status = "valid"
    PROVE  JobOf(l, q).schedule_raw = JobOf(l, p).schedule_raw
<1>1. ~NoValue(p) /\ \A r \in Results(p) : r.status = "ok"
  BY ValidMeansOk
<1>2. ~NoValue(q) /\ \A r \in Results(q) : r.status = "ok"
  <2>1. ASSUME NEW f, NEW v, NEW x \in ParseTimeUnit(f, v), NEW y \in ParseTimeUnit(f, v), x.status = "ok"
        PROVE  y.status = "ok" /\ (x.vals = {} <=> y.vals = {})
    BY <2>1, FieldsAgree
  <2>2. /\ q.minute.status = "ok" /\ (p.minute.vals = {} <=> q.minute.vals = {})
        /\ q.hour.status = "ok" /\ (p.hour.vals = {} <=> q.hour.vals = {})
        /\ q.day.status = "ok" /\ (p.day.vals = {} <=> q.day.vals = {})
        /\ q.month.status = "ok" /\ (p.month.vals = {} <=> q.month.vals = {})
        /\ q.dow.status = "ok"
    BY <1>1, <2>1, ReadFrom DEF Results
  <2> QED BY <1>1, <2>2 DEF Results, NoValue
<1>3. ASSUME NEW f, NEW v, NEW x \in ParseTimeUnit(f, v), NEW y \in ParseTimeUnit(f, v), x.status = "ok"
      PROVE  RawOr(v, x) = RawOr(v, y)
  BY <1>3, FieldsAgree DEF RawOr
<1>4. /\ RawOr(l.minute, p.minute) = RawOr(l.minute, q.minute) /\ RawOr(l.hour, p.hour) = RawOr(l.hour, q.hour)
      /\ RawOr(DayField(l), p.day) = RawOr(DayField(l), q.day) /\ RawOr(l.month, p.month) = RawOr(l.month, q.month)
      /\ RawOr(DowField(l), p.dow) = RawOr(DowField(l), q.dow)
  BY <1>1, <1>3, ReadFrom DEF Results
<1>5. ScheduleRaw(l, q) = ScheduleRaw(l, p)
  BY <1>4 DEF ScheduleRaw
<1>6. \A x \in {p, q} : JobOf(l, x).schedule_raw = IF l.persistent THEN ScheduleRaw(l, x) ELSE <<>>
  BY <1>1, <1>2 DEF JobOf
<1> QED BY <1>5, <1>6

\* A persistent line keeps its unit name, and so its stamp.
THEOREM UnitNamesAreStable == Spec => StableUnitName
<1>1. LineInv /\ [Next]_vars =>
        [job.status = "valid" /\ line.persistent => job'.schedule_raw = job.schedule_raw]_vars
  <2> SUFFICES ASSUME LineInv, Next, job.status = "valid" PROVE job'.schedule_raw = job.schedule_raw
    OBVIOUS
  <2>1. PICK p \in Parses(line) : job = JobOf(line, p) /\ ~HasPeriod(line)
    BY DEF LineInv, NoJob, PeriodJob
  <2>2. PICK q \in Parses(line) : job' = JobOf(line, q)
    BY <2>1 DEF Next, Generate, GeneratePeriod
  <2> QED BY <2>1, <2>2, RawStable
<1> QED BY <1>1, LineInvariant, PTL DEF Spec, StableUnitName

-----------------------------------------------------------------------------
(* The values of a field. *)

LEMMA ModSmall == ASSUME NEW m \in Nat \ {0}, NEW x \in 0 .. m - 1 PROVE x % m = x
OBVIOUS

LEMMA ModWrap == ASSUME NEW m \in Nat \ {0}, NEW x \in 0 .. m - 1 PROVE (x + m) % m = x
OBVIOUS

IsField(f) == /\ f.base \in {0, 1} /\ f.top \in 1 .. 59
              /\ f.map \in {"int", "month", "dow"} /\ (f.map = "dow" => f.base = 0)

LEMMA FieldsAre == \A n \in FieldNames : IsField(Field[n])
BY DEF FieldNames, Field, IsField

\* The end of an interval, as an index into the array of values.
LEMMA EndIsIndex ==
    ASSUME NEW f, IsField(f), NEW s, NEW e, UsualEnd(f, s, e), e # Empty
    PROVE  /\ e.n \in 0 .. Word - 2
           /\ Mapping(f, e, FALSE, FALSE) = [val |-> e.n, err |-> FALSE]
           /\ Mapping(f, e, FALSE, TRUE) = [val |-> e.n, err |-> FALSE]
<1>1. \/ e.kind = "num" /\ e.n \in 0 .. Word - 2
      \/ e.kind = "name" /\ f.map = "dow" /\ e.n \in 1 .. 6
  BY DEF UsualEnd
<1>2. e.n \in 0 .. Word - 2
  BY <1>1, WordAssumption
<1>3. CASE f.map = "int"
  BY <1>1, <1>2, <1>3, WordAssumption DEF Mapping, IntMap
<1>4. CASE f.map = "month"
  BY <1>1, <1>2, <1>4 DEF Mapping, MonthMap
<1>5. CASE f.map = "dow"
  <2>1. CASE e.kind = "num"
    BY <1>2, <1>5, <2>1 DEF Mapping, DowMap, IntMap
  <2>2. CASE e.kind = "name"
    <3>1. e.n # 0
      BY <1>1, <2>2
    <3>2. \A err, to : DowMap(e, err, to) = [val |-> e.n, err |-> err]
      BY <2>2, <3>1 DEF DowMap
    <3>3. \A err, to : Mapping(f, e, err, to) = DowMap(e, err, to)
      BY <1>5 DEF Mapping
    <3> QED BY <1>2, <3>2, <3>3
  <2> QED BY <1>1, <2>1, <2>2
<1> QED BY <1>3, <1>4, <1>5 DEF IsField

LEMMA StartIndex ==
    ASSUME NEW f, IsField(f), NEW n \in 0 .. Word - 2, n >= f.base
    PROVE  IndexStart(f, [val |-> n, err |-> FALSE]) = n - f.base
<1>1. Word \in Nat \ {0} /\ n - f.base \in 0 .. Word - 1 /\ f.base \in {0, 1}
  BY WordAssumption DEF IsField
<1>2. n + Word - 1 + NotBase(f) = (n - f.base) + Word
  BY <1>1 DEF NotBase
<1>3. ((n - f.base) + Word) % Word = n - f.base
  BY <1>1, ModWrap
<1> QED BY <1>2, <1>3 DEF IndexStart

LEMMA EndIndex ==
    ASSUME NEW f, IsField(f), NEW n \in 0 .. Word - 2, NEW limit \in Nat
    PROVE  IndexEnd(f, [val |-> n, err |-> FALSE], limit) = Lesser(n + 1 - f.base, limit)
<1>1. Word \in Nat \ {0} /\ n + 1 - f.base \in 0 .. Word - 1 /\ f.base \in {0, 1}
  BY WordAssumption DEF IsField
<1>2. n + NotBase(f) = n + 1 - f.base
  BY <1>1 DEF NotBase
<1>3. (n + 1 - f.base) % Word = n + 1 - f.base
  BY <1>1, ModSmall
<1> QED BY <1>2, <1>3 DEF IndexEnd

\* values[] holds what its indices mean.
LEMMA ValueMeant == ASSUME NEW f, IsField(f), NEW i \in Int PROVE Value(f, i) = Meant(f, f.base + i)
BY DEF Value, Meant, IsField

\* With a skip below 2^63 the loop counts up.
LEMMA LoopCountsUp ==
    ASSUME NEW f, IsField(f), NEW from \in Nat, NEW until \in Int, until <= f.top + 1,
           NEW step \in 1 .. (Word \div 2) - 1
    PROVE  Loop(f, from, until, step) = Good({Value(f, i) : i \in {j \in from .. until - 1 : (j - from) % step = 0}})
<1> DEFINE I == {j \in 0 .. until - 1 : IF j < from THEN (from - j) % (Word - step) = 0 ELSE (j - from) % step = 0}
           J == {j \in from .. until - 1 : (j - from) % step = 0}
<1>1. CASE from >= until
  <2>1. J = {}
    BY <1>1
  <2>2. Loop(f, from, until, step) = Good({})
    BY <1>1 DEF Loop
  <2> HIDE DEF J
  <2>3. {Value(f, i) : i \in J} = {}
    BY <2>1
  <2> QED BY <2>2, <2>3 DEF J
<1>2. CASE from < until
  <2>1. ASSUME NEW j \in 0 .. until - 1, j < from PROVE (from - j) % (Word - step) # 0
    <3>1. Word - step \in Nat /\ Word - step > 60
      BY WordAssumption
    <3>2. from - j \in 1 .. 60
      BY <1>2, <2>1 DEF IsField
    <3>3. (from - j) % (Word - step) = from - j
      BY <3>1, <3>2, ModSmall
    <3> QED BY <3>2, <3>3
  <2>2. I = J
    BY <1>2, <2>1
  <2>3. Loop(f, from, until, step) = Good({Value(f, i) : i \in I})
    BY <1>2 DEF Loop
  <2> HIDE DEF I, J
  <2>4. Loop(f, from, until, step) = Good({Value(f, i) : i \in J})
    BY <2>2, <2>3
  <2> QED BY <2>4 DEF J
<1> QED BY <1>1, <1>2

\* A range selects what crontab(5) says.
LEMMA RangeAsDocumented ==
    ASSUME NEW f, IsField(f), NEW s, Usual(f, s), s.op \notin {"*", "~"}
    PROVE  ~To(f, s).err /\ RangeLoop(f, s) = Good(Documented(f, s))
<1> DEFINE from == s.lo.n - f.base
           until == Lesser(s.hi.n + 1 - f.base, f.top + 1)
           J == {j \in from .. until - 1 : (j - from) % s.step = 0}
<1>1. UsualEnd(f, s, s.lo) /\ UsualEnd(f, s, s.hi) /\ s.lo # Empty /\ s.hi # Empty /\ s.lo.n >= f.base
      /\ s.step \in 1 .. (Word \div 2) - 1
  BY DEF Usual, UsualEnd, Empty
<1>2. s.lo.n \in 0 .. Word - 2 /\ s.hi.n \in 0 .. Word - 2 /\ Word \in Nat /\ f.base \in {0, 1} /\ f.top \in 1 .. 59
  BY <1>1, EndIsIndex, WordAssumption DEF IsField
<1>3. From(f, s) = [val |-> s.lo.n, err |-> FALSE]
  BY <1>1, EndIsIndex DEF From
<1>4. To(f, s) = [val |-> s.hi.n, err |-> FALSE]
  <2>1. From(f, s).err = FALSE
    BY <1>3
  <2>2. To(f, s) = Mapping(f, s.hi, FALSE, TRUE)
    BY <2>1 DEF To
  <2> QED BY <1>1, <2>2, EndIsIndex
<1>5. IndexStart(f, From(f, s)) = from /\ IndexEnd(f, To(f, s), f.top + 1) = until
  BY <1>1, <1>2, <1>3, <1>4, StartIndex, EndIndex
<1>6. from \in Nat /\ until \in Int /\ until <= f.top + 1
  BY <1>1, <1>2 DEF Lesser
<1>7. RangeLoop(f, s) = Good({Value(f, i) : i \in J})
  <2> HIDE DEF from, until
  <2> QED BY <1>1, <1>5, <1>6, LoopCountsUp DEF RangeLoop
<1>8. Lo(f, s) = s.lo.n /\ Hi(f, s) = s.hi.n
  BY <1>1 DEF Lo, Hi
<1>9. ASSUME NEW i \in J PROVE f.base + i \in Numbers(f, s) /\ Value(f, i) = Meant(f, f.base + i)
  <2>1. i \in Int /\ (f.base + i) - s.lo.n = i - from
    BY <1>2
  <2>2. f.base + i \in s.lo.n .. Lesser(s.hi.n, f.base + f.top) /\ f.base + i >= f.base
    <3>1. i \in Int /\ from <= i /\ i < until /\ i >= 0
      BY <1>6
    <3>2. f.base + i \in Int /\ s.lo.n <= f.base + i /\ f.base + i >= f.base
      BY <1>2, <3>1
    <3>3. f.base + i <= s.hi.n /\ f.base + i <= f.base + f.top
      <4> HIDE DEF from, J
      <4> QED BY <1>2, <3>1 DEF Lesser
    <3> QED BY <1>2, <3>2, <3>3 DEF Lesser
  <2>3. ((f.base + i) - s.lo.n) % s.step = 0
    BY <2>1
  <2> QED BY <1>8, <2>1, <2>2, <2>3, ValueMeant DEF Numbers
<1>10. ASSUME NEW n \in Numbers(f, s) PROVE n - f.base \in J /\ Value(f, n - f.base) = Meant(f, n)
  <2>1. n \in s.lo.n .. Lesser(s.hi.n, f.base + f.top) /\ (n - s.lo.n) % s.step = 0
    BY <1>8 DEF Numbers
  <2>2. n \in Int /\ (n - f.base) - from = n - s.lo.n /\ f.base + (n - f.base) = n
    BY <1>2, <2>1 DEF Lesser
  <2>3. n - f.base \in from .. until - 1
    BY <1>2, <2>1, <2>2 DEF Lesser
  <2>4. ((n - f.base) - from) % s.step = 0
    BY <2>1, <2>2
  <2>5. Value(f, n - f.base) = Meant(f, n)
    BY <1>2, <2>2, ValueMeant
  <2> QED BY <2>3, <2>4, <2>5
<1> HIDE DEF J
<1>11. {Value(f, i) : i \in J} = Documented(f, s)
  BY <1>9, <1>10 DEF Documented
<1> QED BY <1>4, <1>7, <1>11

\* So does a star with a skip.
LEMMA StarAsDocumented ==
    ASSUME NEW f, IsField(f), NEW s, Usual(f, s), s.op = "*"
    PROVE  StarLoop(f, s.step) = Good(Documented(f, s))
<1> DEFINE from == 0
           until == f.top + 1
           J == {j \in from .. until - 1 : (j - from) % s.step = 0}
<1>1. s.step \in 1 .. (Word \div 2) - 1 /\ Word \in Nat /\ f.base \in {0, 1} /\ f.top \in 1 .. 59
  BY WordAssumption DEF Usual, IsField
<1>2. StarLoop(f, s.step) = Good({Value(f, i) : i \in J})
  <2>1. from \in Nat /\ until \in Int /\ until <= f.top + 1 /\ ~(s.step >= Word \div 2)
    BY <1>1
  <2>2. StarLoop(f, s.step) = Loop(f, from, until, s.step)
    BY <2>1 DEF StarLoop
  <2> HIDE DEF from, until
  <2> QED BY <1>1, <2>1, <2>2, LoopCountsUp
<1> HIDE DEF J
<1>3. Lo(f, s) = f.base /\ Lesser(Hi(f, s), f.base + f.top) = f.base + f.top
  BY <1>1 DEF Lo, Hi, Lesser
<1>4. ASSUME NEW i \in J PROVE f.base + i \in Numbers(f, s) /\ Value(f, i) = Meant(f, f.base + i)
  <2>0. i \in from .. until - 1 /\ (i - from) % s.step = 0
    BY DEF J
  <2>1. i \in Int /\ i >= 0 /\ i <= f.top /\ (f.base + i) - f.base = i - from
    BY <1>1, <2>0
  <2>2. f.base + i \in f.base .. f.base + f.top /\ f.base + i >= f.base
    BY <1>1, <2>1
  <2>3. ((f.base + i) - f.base) % s.step = 0
    BY <2>0, <2>1
  <2>4. f.base + i \in Numbers(f, s)
    BY <1>3, <2>2, <2>3 DEF Numbers
  <2> QED BY <2>1, <2>4, ValueMeant
<1>5. ASSUME NEW n \in Numbers(f, s) PROVE n - f.base \in J /\ Value(f, n - f.base) = Meant(f, n)
  <2>1. n \in f.base .. f.base + f.top /\ (n - f.base) % s.step = 0
    BY <1>3 DEF Numbers
  <2>2. n \in Int /\ n >= f.base /\ n <= f.base + f.top
    BY <1>1, <2>1
  <2>3. /\ n - f.base \in from .. until - 1 /\ n - f.base \in Int
        /\ (n - f.base) - from = n - f.base /\ f.base + (n - f.base) = n
    BY <1>1, <2>2
  <2>4. Value(f, n - f.base) = Meant(f, n)
    BY <2>3, ValueMeant
  <2>5. ((n - f.base) - from) % s.step = 0
    BY <2>1, <2>3
  <2> HIDE DEF from, until
  <2> QED BY <2>3, <2>4, <2>5 DEF J
<1>6. {Value(f, i) : i \in J} = Documented(f, s)
  BY <1>4, <1>5 DEF Documented
<1> QED BY <1>2, <1>6

\* A subvalue spelt as usual is not misspelt.
LEMMA NotMisspelt == ASSUME NEW f, NEW s, Usual(f, s) PROVE s.step # Misspelt
BY WordAssumption DEF Usual, Misspelt

\* The interval of a ~, as indices.
TildeIs(f, s) ==
    /\ TildeFrom(f, s) = IF s.lo = Empty THEN f.base ELSE s.lo.n - f.base
    /\ s.lo # Empty => s.lo.n \in 0 .. Word - 2
    /\ TildeTo(f, s) = IF s.hi = Empty THEN f.top ELSE Lesser(s.hi.n + 1 - f.base, f.top)
    /\ s.hi # Empty => s.hi.n \in 0 .. Word - 2
    /\ s.lo # Empty => s.lo.n >= f.base
    /\ Word \in Nat /\ f.base \in {0, 1} /\ f.top \in 1 .. 59
    /\ Lo(f, s) = IF s.lo = Empty THEN f.base ELSE s.lo.n
    /\ Hi(f, s) = IF s.hi = Empty THEN f.base + f.top ELSE s.hi.n
    /\ Numbers(f, s) = {n \in Lo(f, s) .. Lesser(Hi(f, s), f.base + f.top) : n >= f.base}

LEMMA TildeInterval ==
    ASSUME NEW f, IsField(f), NEW s, Usual(f, s), s.op = "~" PROVE TildeIs(f, s)
<1>1. /\ UsualEnd(f, s, s.lo) /\ UsualEnd(f, s, s.hi) /\ (s.lo # Empty => s.lo.n >= f.base)
      /\ Word \in Nat /\ f.base \in {0, 1} /\ f.top \in 1 .. 59
  BY WordAssumption DEF Usual, IsField
<1>2. /\ TildeFrom(f, s) = IF s.lo = Empty THEN f.base ELSE s.lo.n - f.base
      /\ s.lo # Empty => s.lo.n \in 0 .. Word - 2 /\ ~From(f, s).err
  <2>1. CASE s.lo = Empty
    BY <2>1 DEF TildeFrom
  <2>2. CASE s.lo # Empty
    <3>1. s.lo.n \in 0 .. Word - 2 /\ From(f, s) = [val |-> s.lo.n, err |-> FALSE]
      BY <1>1, <2>2, EndIsIndex DEF From
    <3>2. From(f, s).err = FALSE /\ IndexStart(f, From(f, s)) = s.lo.n - f.base
      BY <1>1, <2>2, <3>1, StartIndex
    <3> QED BY <2>2, <3>1, <3>2 DEF TildeFrom
  <2> QED BY <2>1, <2>2
<1>3. /\ TildeTo(f, s) = IF s.hi = Empty THEN f.top ELSE Lesser(s.hi.n + 1 - f.base, f.top)
      /\ s.hi # Empty => s.hi.n \in 0 .. Word - 2
  <2>1. (s.lo # Empty /\ From(f, s).err) = FALSE
    BY <1>2
  <2>2. CASE s.hi = Empty
    BY <2>2 DEF TildeTo
  <2>3. CASE s.hi # Empty
    <3>1. TildeTo(f, s) = IndexEnd(f, Mapping(f, s.hi, FALSE, TRUE), f.top)
      BY <2>1, <2>3 DEF TildeTo
    <3>2. s.hi.n \in 0 .. Word - 2 /\ Mapping(f, s.hi, FALSE, TRUE) = [val |-> s.hi.n, err |-> FALSE]
      BY <1>1, <2>3, EndIsIndex
    <3>3. IndexEnd(f, [val |-> s.hi.n, err |-> FALSE], f.top) = Lesser(s.hi.n + 1 - f.base, f.top)
      BY <1>1, <3>2, EndIndex
    <3> QED BY <2>3, <3>1, <3>2, <3>3
  <2> QED BY <2>2, <2>3
<1>4. Numbers(f, s) = {n \in Lo(f, s) .. Lesser(Hi(f, s), f.base + f.top) : n >= f.base}
  BY DEF Numbers
<1>5. /\ Lo(f, s) = IF s.lo = Empty THEN f.base ELSE s.lo.n
      /\ Hi(f, s) = IF s.hi = Empty THEN f.base + f.top ELSE s.hi.n
  BY DEF Lo, Hi
<1> QED BY <1>1, <1>2, <1>3, <1>4, <1>5 DEF TildeIs

\* A ~ with an interval in the field draws one of its values, or the one after.
LEMMA TildeAsDocumented ==
    ASSUME NEW f, IsField(f), NEW s, Usual(f, s), s.op = "~", NEW r \in ParsePeriod(f, s)
    PROVE  /\ r.status \in {"ok", "bad"}
           /\ r.status = "ok" => r.vals \subseteq Documented(f, s) \cup OneBeyond(f, s) /\ r.vals # {}
           /\ r.status = "bad" => Documented(f, s) = {}
<1>0. s.step # Misspelt
  BY NotMisspelt
<1>1. TildeIs(f, s)
  BY TildeInterval
<1>6. CASE TildeFrom(f, s) > f.top \/ TildeFrom(f, s) > TildeTo(f, s)
  <2>1. r = Bad
    BY <1>0, <1>6 DEF ParsePeriod
  <2>2. Numbers(f, s) = {}
    BY <1>1, <1>6 DEF Lesser, TildeIs
  <2>3. Documented(f, s) = {}
    BY <2>2 DEF Documented
  <2> QED BY <2>1, <2>3 DEF Bad
<1>7. CASE ~(TildeFrom(f, s) > f.top \/ TildeFrom(f, s) > TildeTo(f, s))
  <2>1. PICK i \in TildeFrom(f, s) .. TildeTo(f, s) : r = Good({Value(f, i)})
    BY <1>0, <1>7 DEF ParsePeriod
  <2>2. i \in Int /\ Value(f, i) = Meant(f, f.base + i)
    BY <1>1, <2>1, ValueMeant DEF TildeIs
  <2>3. f.base + i \in Numbers(f, s) \/ (s.hi # Empty /\ s.hi.n < f.base + f.top /\ f.base + i = s.hi.n + 1)
    BY <1>1, <2>1 DEF Lesser, TildeIs
  <2>4. Value(f, i) \in Documented(f, s) \cup OneBeyond(f, s)
    BY <2>2, <2>3 DEF Documented, OneBeyond, EndsEarly
  <2> QED BY <2>1, <2>4 DEF Good
<1> QED BY <1>6, <1>7

\* One subvalue.
LEMMA PartAsDocumented ==
    ASSUME NEW f, IsField(f), NEW s, Usual(f, s), NEW r \in ParsePeriod(f, s)
    PROVE  /\ r.status = "ok" => r.vals \subseteq Documented(f, s) \cup OneBeyond(f, s) /\ r.vals # {}
           /\ r.status = "ok" /\ s.op # "~" => r.vals = Documented(f, s)
           /\ r.status = "bad" => Documented(f, s) = {}
<1>0. s.step # Misspelt
  BY NotMisspelt
<1>1. CASE s.op = "*"
  <2>1. r = Good(Documented(f, s))
    BY <1>0, <1>1, StarAsDocumented DEF ParsePeriod
  <2>2. Documented(f, s) # {}
    <3>1. f.base \in {0, 1} /\ f.top \in 1 .. 59 /\ s.step \in Nat \ {0}
      BY WordAssumption DEF Usual, IsField
    <3>2. Lo(f, s) = f.base /\ Hi(f, s) = f.base + f.top
      BY <1>1 DEF Lo, Hi
    <3>3. 0 % s.step = 0 /\ f.base - f.base = 0
      BY <3>1, ModSmall
    <3>4. f.base \in Numbers(f, s)
      BY <3>1, <3>2, <3>3 DEF Numbers, Lesser
    <3> QED BY <3>4 DEF Documented
  <2> QED BY <2>1, <2>2 DEF Good
<1>2. CASE s.op = "~"
  BY <1>2, TildeAsDocumented
<1>3. CASE s.op \notin {"*", "~"}
  <2>1. ~To(f, s).err /\ RangeLoop(f, s) = Good(Documented(f, s))
    BY <1>3, RangeAsDocumented
  <2>2. r = IF Good(Documented(f, s)) = Good({}) THEN Bad ELSE Good(Documented(f, s))
    BY <1>0, <1>3, <2>1 DEF ParsePeriod
  <2>3. Good(Documented(f, s)) = Good({}) => Documented(f, s) = {}
    BY DEF Good
  <2> QED BY <2>2, <2>3 DEF Good, Bad
<1> QED BY <1>1, <1>2, <1>3

\* A list of them.
LEMMA ListAsDocumented ==
    ASSUME NEW f, IsField(f), NEW v, v.form # "*", \A s \in v.list : Usual(f, s), NEW r \in ParseTimeUnit(f, v)
    PROVE  /\ r.status = "ok" /\ (\A s \in v.list : ~EndsEarly(f, s)) =>
                  r.vals \subseteq UNION {Documented(f, s) : s \in v.list}
           /\ r.status = "ok" /\ v.list # {} => r.vals # {}
           /\ r.status = "ok" /\ ~HasTilde(v) => r.vals = UNION {Documented(f, s) : s \in v.list}
           /\ r.status = "bad" => \E s \in v.list : Documented(f, s) = {}
<1>0. v.form # "*"
  OBVIOUS
<1>1. PICK c : Picked(f, v, c, r)
  BY <1>0, PicksOf
<1>2. \A s \in v.list :
        /\ c[s].status = "ok" => c[s].vals \subseteq Documented(f, s) \cup OneBeyond(f, s) /\ c[s].vals # {}
        /\ c[s].status = "ok" /\ s.op # "~" => c[s].vals = Documented(f, s)
        /\ c[s].status = "bad" => Documented(f, s) = {}
  BY <1>1, PartAsDocumented DEF Picked
<1>3. CASE r.status = "ok"
  <2>1. r = Good(UNION {x.vals : x \in {c[s] : s \in v.list}}) /\ \A s \in v.list : c[s].status = "ok"
    BY <1>1, <1>3, Combined DEF Picked
  <2>2. r.vals = UNION {c[s].vals : s \in v.list}
    BY <2>1 DEF Good
  <2>3. v.list # {} => r.vals # {}
    <3> SUFFICES ASSUME NEW s \in v.list PROVE r.vals # {}
      OBVIOUS
    <3>1. c[s].vals # {}
      BY <1>2, <2>1
    <3> QED BY <2>2, <3>1
  <2>4. (\A s \in v.list : ~EndsEarly(f, s)) => r.vals \subseteq UNION {Documented(f, s) : s \in v.list}
    <3> SUFFICES ASSUME \A s \in v.list : ~EndsEarly(f, s), NEW x \in r.vals
                 PROVE  x \in UNION {Documented(f, s) : s \in v.list}
      OBVIOUS
    <3>1. PICK s \in v.list : x \in c[s].vals
      BY <2>2
    <3>2. x \in Documented(f, s) \cup OneBeyond(f, s)
      BY <1>2, <2>1, <3>1
    <3> QED BY <3>2 DEF OneBeyond
  <2>5. ~HasTilde(v) => r.vals = UNION {Documented(f, s) : s \in v.list}
    BY <1>2, <2>1, <2>2 DEF HasTilde
  <2> QED BY <1>3, <2>3, <2>4, <2>5
<1>4. CASE r.status = "bad"
  <2>1. r \in {c[s] : s \in v.list}
    BY <1>1, <1>4, Combined DEF Picked, Good
  <2> QED BY <1>2, <1>4, <2>1
<1>5. CASE r.status \notin {"ok", "bad"}
  BY <1>5
<1> QED BY <1>3, <1>4, <1>5

\* A field that ends up without a value holds nothing, or something unusual.
LEMMA EmptyField ==
    ASSUME NEW f, IsField(f), NEW v, NEW r \in ParseTimeUnit(f, v), r.status = "ok", r.vals = {}
    PROVE  v.form # "*" /\ (v.list = {} \/ \E s \in v.list : ~Usual(f, s))
<1>1. v.form # "*"
  BY DEF ParseTimeUnit, Good
<1> QED BY <1>1, ListAsDocumented

\* What is drawn for a ~ is what crontab(5) says, without the first value if the start
\* is omitted and indices are not values, and with the one after an early end.
LEMMA TildeDraws ==
    ASSUME NEW f, IsField(f), NEW s, Usual(f, s), s.op = "~", Documented(f, s) # {}
    PROVE  UNION {r.vals : r \in ParsePeriod(f, s)} = (Documented(f, s) \ NeverDrawn(f, s)) \cup OneBeyond(f, s)
<1> DEFINE from == TildeFrom(f, s)
           to == TildeTo(f, s)
<1>0. s.step # Misspelt
  BY NotMisspelt
<1>1. TildeIs(f, s)
  BY TildeInterval
<1>2. PICK n \in Numbers(f, s) : TRUE
  BY DEF Documented
<1>3. ~(from > f.top \/ from > to)
  BY <1>1, <1>2 DEF TildeIs, Lesser
<1>4. ParsePeriod(f, s) = {Good({Value(f, i)}) : i \in from .. to}
  BY <1>0, <1>3 DEF ParsePeriod
<1>5. UNION {r.vals : r \in ParsePeriod(f, s)} = {Value(f, i) : i \in from .. to}
  <2> HIDE DEF from, to
  <2>1. \A x : Good({x}).vals = {x}
    BY DEF Good
  <2>2. ASSUME NEW y \in {Value(f, i) : i \in from .. to} PROVE \E r \in ParsePeriod(f, s) : y \in r.vals
    <3>1. PICK i \in from .. to : y = Value(f, i)
      BY <2>2
    <3>2. Good({Value(f, i)}) \in ParsePeriod(f, s) /\ y \in Good({Value(f, i)}).vals
      BY <1>4, <2>1, <3>1
    <3> QED BY <3>2
  <2>3. ASSUME NEW r \in ParsePeriod(f, s), NEW y \in r.vals PROVE y \in {Value(f, i) : i \in from .. to}
    <3>1. PICK i \in from .. to : r = Good({Value(f, i)})
      BY <1>4, <2>3
    <3>2. y = Value(f, i)
      BY <2>1, <2>3, <3>1
    <3> QED BY <3>2
  <2>4. \A y : y \in UNION {r.vals : r \in ParsePeriod(f, s)} <=> y \in {Value(f, i) : i \in from .. to}
    <3>1. \A y : y \in UNION {r.vals : r \in ParsePeriod(f, s)} <=> \E r \in ParsePeriod(f, s) : y \in r.vals
      OBVIOUS
    <3> QED BY <2>2, <2>3, <3>1
  <2> HIDE DEF ParsePeriod
  <2> QED BY <2>4
<1>6. from \in Int /\ to \in Int /\ f.base \in {0, 1}
  BY <1>1 DEF TildeIs, Lesser
<1>7. \A i \in Int : Value(f, i) = Meant(f, f.base + i)
  BY ValueMeant
<1>8. f.base = 1 => \A k : Meant(f, k) = k
  BY DEF Meant, IsField
<1>9. ASSUME NEW i \in from .. to PROVE Value(f, i) \in (Documented(f, s) \ NeverDrawn(f, s)) \cup OneBeyond(f, s)
  <2>1. i \in Int /\ Value(f, i) = Meant(f, f.base + i)
    BY <1>6, <1>7
  <2>2. f.base + i \in Numbers(f, s) \/ (s.hi # Empty /\ s.hi.n < f.base + f.top /\ f.base + i = s.hi.n + 1)
    BY <1>1, <1>9 DEF Lesser, TildeIs
  <2>3. CASE f.base + i \in Numbers(f, s)
    <3>1. Value(f, i) \in Documented(f, s)
      BY <2>1, <2>3 DEF Documented
    <3>2. Value(f, i) \notin NeverDrawn(f, s)
      <4> SUFFICES ASSUME s.lo = Empty, f.base = 1 PROVE Value(f, i) # 1
        BY DEF NeverDrawn
      <4>1. i >= 1
        BY <1>1, <1>9 DEF TildeIs
      <4> QED BY <1>8, <2>1, <4>1
    <3> QED BY <3>1, <3>2
  <2>4. CASE s.hi # Empty /\ s.hi.n < f.base + f.top /\ f.base + i = s.hi.n + 1
    BY <2>1, <2>4 DEF OneBeyond, EndsEarly
  <2> QED BY <2>2, <2>3, <2>4
<1>10. ASSUME NEW k \in Numbers(f, s), Meant(f, k) \notin NeverDrawn(f, s)
       PROVE  \E i \in from .. to : Value(f, i) = Meant(f, k)
  <2>1. k \in Int
    BY <1>1 DEF TildeIs, Lesser
  <2>2. s.lo = Empty /\ f.base = 1 => k # 1
    BY <1>8, <1>10 DEF NeverDrawn
  <2>3. k - f.base \in from .. to
    BY <1>1, <2>1, <2>2 DEF TildeIs, Lesser
  <2>4. f.base + (k - f.base) = k /\ k - f.base \in Int
    BY <1>6, <2>1
  <2> QED BY <1>7, <2>3, <2>4
<1>11. ASSUME EndsEarly(f, s) PROVE \E i \in from .. to : Value(f, i) = Meant(f, s.hi.n + 1)
  <2>1. s.hi # Empty /\ s.hi.n < f.base + f.top /\ s.hi.n \in Int
    BY <1>1, <1>11, WordAssumption DEF EndsEarly, TildeIs
  <2>2. s.hi.n + 1 - f.base \in from .. to
    BY <1>1, <1>2, <2>1 DEF TildeIs, Lesser
  <2>3. f.base + (s.hi.n + 1 - f.base) = s.hi.n + 1 /\ s.hi.n + 1 - f.base \in Int
    BY <1>6, <2>1
  <2> QED BY <1>7, <2>2, <2>3
<1> HIDE DEF from, to
<1>12. ASSUME NEW x \in {Value(f, i) : i \in from .. to}
       PROVE  x \in (Documented(f, s) \ NeverDrawn(f, s)) \cup OneBeyond(f, s)
  BY <1>9
<1>13. ASSUME NEW x \in Documented(f, s), x \notin NeverDrawn(f, s) PROVE x \in {Value(f, i) : i \in from .. to}
  BY <1>10, <1>13 DEF Documented
<1>14. ASSUME NEW x \in OneBeyond(f, s) PROVE x \in {Value(f, i) : i \in from .. to}
  BY <1>11 DEF OneBeyond
<1> QED BY <1>5, <1>12, <1>13, <1>14

\* "sun", alone, is from the first of the array to the last.
LEMMA SunIsAll ==
    ASSUME NEW f, IsField(f), f.map = "dow", f.top = 7,
           NEW s, s.op = "one", s.step = 1, s.lo = Name(0), s.hi = Name(0)
    PROVE  ParsePeriod(f, s) = {Good(Legal(f))}
<1>1. s.op = "one" /\ s.step = 1 /\ s.lo = Name(0) /\ s.hi = Name(0)
  OBVIOUS
<1>2. Name(0).kind = "name" /\ Name(0).n = 0
  BY DEF Name
<1>3. From(f, s) = [val |-> 0, err |-> FALSE]
  BY <1>1, <1>2 DEF From, Mapping, DowMap
<1>4. To(f, s) = [val |-> 7, err |-> FALSE]
  BY <1>1, <1>2, <1>3 DEF To, Mapping, DowMap
<1>5. f.base = 0 /\ Word \in Nat /\ Word > 255
  BY WordAssumption DEF IsField
<1>6. IndexStart(f, From(f, s)) = 0
  BY <1>3, <1>5, StartIndex
<1>7. IndexEnd(f, To(f, s), f.top + 1) = 8
  BY <1>4, <1>5, EndIndex DEF Lesser
<1>8. RangeLoop(f, s) = Good({Value(f, i) : i \in {j \in 0 .. 8 - 1 : (j - 0) % 1 = 0}})
  <2>1. 0 \in Nat /\ 8 \in Int /\ 8 <= f.top + 1 /\ 1 \in 1 .. (Word \div 2) - 1
    BY <1>5
  <2> QED BY <1>1, <1>6, <1>7, <2>1, LoopCountsUp DEF RangeLoop
<1>9. {j \in 0 .. 8 - 1 : (j - 0) % 1 = 0} = 0 .. f.top
  OBVIOUS
<1>10. RangeLoop(f, s) = Good(Legal(f))
  BY <1>8, <1>9 DEF Legal
<1>11. Legal(f) # {}
  <2>1. 0 \in 0 .. f.top
    OBVIOUS
  <2> QED BY <2>1 DEF Legal
<1>12. To(f, s).err = FALSE /\ Good(Legal(f)) # Good({})
  BY <1>4, <1>11 DEF Good
<1> QED BY <1>1, <1>10, <1>12 DEF ParsePeriod, Misspelt

LEMMA PartsFromManual == ASSUME NEW n \in FieldNames, NEW s PROVE PartsFrom(Field[n], s)
<1> DEFINE f == Field[n]
<1>1. IsField(f) /\ (f.map = "dow" => f.top = 7)
  <2>1. f.map = "dow" => f.top = 7
    BY DEF FieldNames, Field
  <2> QED BY <2>1, FieldsAre
<1> HIDE DEF f
<1>2. ASSUME s.op \in {"one", "-"}, s.lo.kind = "name", f.map = "month" PROVE ParsePeriod(f, s) = {Bad}
  <2>1. From(f, s).err = TRUE
    BY <1>2 DEF From, Mapping, MonthMap
  <2>2. To(f, s).err = TRUE
    BY <1>2, <2>1 DEF To, Mapping, MonthMap
  <2> QED BY <1>2, <2>2 DEF ParsePeriod
<1>3. PartsFrom(f, s)
  BY <1>1, <1>2, TildeDraws, SunIsAll DEF PartsFrom
<1> QED BY <1>3 DEF f

\* The days that L is rewritten to are usual, and there.
LEMMA RewrittenDays ==
    \A n \in {1, 7} : Usual(Field.day, Only(n)) /\ Documented(Field.day, Only(n)) = {n}
<1> SUFFICES ASSUME NEW n \in {1, 7} PROVE Usual(Field.day, Only(n)) /\ Documented(Field.day, Only(n)) = {n}
  OBVIOUS
<1>1. Field.day.base = 1 /\ Field.day.top = 30 /\ Field.day.map = "int"
  BY DEF Field
<1>2. Only(n).op = "one" /\ Only(n).lo = Num(n) /\ Only(n).hi = Num(n) /\ Only(n).step = 1
  BY DEF Only
<1>3. Num(n).kind = "num" /\ Num(n).n = n /\ Num(n) # Empty
  BY DEF Num, Empty
<1>4. Usual(Field.day, Only(n))
  BY <1>1, <1>2, <1>3, WordAssumption DEF Usual, UsualEnd
<1>5. Lo(Field.day, Only(n)) = n /\ Hi(Field.day, Only(n)) = n
  BY <1>2, <1>3 DEF Lo, Hi
<1>6. Numbers(Field.day, Only(n)) = {n}
  BY <1>1, <1>2, <1>5 DEF Numbers, Lesser
<1>7. Documented(Field.day, Only(n)) = {n}
  BY <1>1, <1>6 DEF Documented, Meant
<1> QED BY <1>4, <1>7

-----------------------------------------------------------------------------
(* The fields of a line. *)

\* A field that is refused has a subvalue to blame.
LEMMA RefusedField ==
    ASSUME NEW f, IsField(f), NEW v, NEW r \in ParseTimeUnit(f, v), r.status = "bad"
    PROVE  \E s \in v.list : ~Usual(f, s) \/ Documented(f, s) = {}
<1>1. v.form # "*"
  BY DEF ParseTimeUnit, Good
<1> QED BY <1>1, ListAsDocumented

\* A day field rewritten for an L is never refused.
LEMMA RewrittenIsOne ==
    ASSUME NEW n \in {1, 7}, NEW r \in ParseTimeUnit(Field.day, List({Only(n)}))
    PROVE  r.status # "bad" /\ (r.status = "ok" => r.vals = {n} /\ r.vals # {})
<1> DEFINE v == List({Only(n)})
<1>1. v.form # "*" /\ v.list = {Only(n)} /\ ~HasTilde(v)
  BY DEF List, Only, HasTilde
<1>2. IsField(Field.day)
  BY FieldsAre DEF FieldNames
<1>3. \A s \in v.list : Usual(Field.day, s) /\ Documented(Field.day, s) = {n}
  BY <1>1, RewrittenDays
<1> HIDE DEF v
<1>4. /\ r.status = "ok" => r.vals = UNION {Documented(Field.day, s) : s \in v.list}
      /\ r.status = "bad" => \E s \in v.list : Documented(Field.day, s) = {}
  BY <1>1, <1>2, <1>3, ListAsDocumented DEF v
<1>5. UNION {Documented(Field.day, s) : s \in v.list} = {n}
  BY <1>1, <1>3
<1> QED BY <1>3, <1>4, <1>5

\* A field with a list in it is read as it stands.
LEMMA ReadAsIs ==
    ASSUME NEW l, NEW p \in Parses(l), NEW f \in FieldNames, l[f].form = "list", ~(f = "day" /\ last_dow(l))
    PROVE  /\ p[f] \in ParseTimeUnit(Field[f], l[f])
           /\ Schedule(l, p)[f] = IF f = "dow" THEN Dows(p) ELSE p[f].vals
           /\ p[f] \in Results(p)
<1>1. CASE f = "minute"
  BY <1>1, ReadFrom DEF Schedule, Results
<1>2. CASE f = "hour"
  BY <1>2, ReadFrom DEF Schedule, Results
<1>3. CASE f = "day"
  BY <1>3, ReadFrom DEF Schedule, Results, DayField, last_dom
<1>4. CASE f = "month"
  BY <1>4, ReadFrom DEF Schedule, Results
<1>5. CASE f = "dow"
  BY <1>5, ReadFrom DEF Schedule, Results, DowField, last_dow
<1> QED BY <1>1, <1>2, <1>3, <1>4, <1>5 DEF FieldNames

LEMMA FormsAre ==
    ASSUME NEW l, l \in Lines \/ l \in PeriodLines, ~HasPeriod(l)
    PROVE  /\ \A f \in FieldNames : l[f].form \in {"*", "list"} \/ (f \in {"day", "dow"} /\ l[f].form = "L")
           /\ last_dow(l) => l.dow.list # {}
<1>1. l \in Lines
  BY LinesAssumption
<1>2. \A f \in FieldNames : \/ l[f].form \in {"*", "list"}
                            \/ f = "day" /\ l[f].form = "L"
                            \/ f = "dow" /\ l[f].form = "L" /\ l[f].list # {}
  BY <1>1, LinesAssumption DEF LastDay, LastDow
<1>3. l["dow"].form = "L" => l["dow"].list # {}
  BY <1>2 DEF FieldNames
<1> QED BY <1>2, <1>3 DEF last_dow

\* Whatever the line, its fields select what crontab(5) says, and are refused for
\* a reason; where they do not, the four departures say what they do.
THEOREM FieldsSelectAsDocumented == Spec => []FieldsAsDocumented
<1>1. LineInv => FieldsAsDocumented
  <2> SUFFICES ASSUME LineInv PROVE FieldsAsDocumented
    OBVIOUS
  <2>1. ASSUME Accepted, NEW f \in FieldNames,
               line[f].form = "list", line[f].list # {}, ~(f = "day" /\ last_dow(line)),
               \A s \in line[f].list : Usual(Field[f], s) /\ ~EndsEarly(Field[f], s)
        PROVE  /\ job.schedule[f] \subseteq DocumentedField(Field[f], line[f])
               /\ ~HasTilde(line[f]) => job.schedule[f] = DocumentedField(Field[f], line[f])
    <3>1. PICK p \in Parses(line) : job = JobOf(line, p)
      BY <2>1 DEF LineInv, NoJob, PeriodJob, Accepted
    <3>2. /\ p[f] \in ParseTimeUnit(Field[f], line[f])
          /\ Schedule(line, p)[f] = IF f = "dow" THEN Dows(p) ELSE p[f].vals
          /\ p[f] \in Results(p)
      BY <2>1, ReadAsIs
    <3>3. ~NoValue(p) /\ \A r \in Results(p) : r.status = "ok"
      BY <2>1, <3>1, ValidMeansOk DEF Accepted
    <3>5. DocumentedField(Field[f], line[f]) = UNION {Documented(Field[f], s) : s \in line[f].list}
      BY <2>1 DEF DocumentedField
    <3>6. IsField(Field[f]) /\ line[f].form # "*"
      BY <2>1, FieldsAre
    <3>7. /\ p[f].vals \subseteq UNION {Documented(Field[f], s) : s \in line[f].list}
          /\ ~HasTilde(line[f]) => p[f].vals = UNION {Documented(Field[f], s) : s \in line[f].list}
          /\ p[f].vals # {}
      BY <2>1, <3>2, <3>3, <3>6, ListAsDocumented
    <3>8. f = "dow" => Dows(p) = p[f].vals
      BY <3>7 DEF Dows
    <3>4. job.schedule[f] = p[f].vals
      BY <3>1, <3>2, <3>3, <3>8 DEF JobOf
    <3> QED BY <3>4, <3>5, <3>7
  <2>2. ASSUME job.status = "invalid", ~(last_dom(line) /\ last_dow(line))
        PROVE  \/ \E f \in FieldNames \ {"dow"} : line[f].form = "list" /\ line[f].list = {}
               \/ \E f \in FieldNames : \E s \in line[f].list : ~Usual(Field[f], s) \/ Documented(Field[f], s) = {}
    <3>1. PICK p \in Parses(line) : job = JobOf(line, p) /\ ~HasPeriod(line)
      BY <2>2 DEF LineInv, NoJob, PeriodJob
    <3>2. \A f \in FieldNames : line[f].form \in {"*", "list"} \/ (f \in {"day", "dow"} /\ line[f].form = "L")
      BY <3>1, FormsAre DEF LineInv
    <3> DEFINE Blamed(f, v) == \E s \in v.list : ~Usual(f, s) \/ Documented(f, s) = {}
    <3>3. \A n \in FieldNames : IsField(Field[n])
      BY FieldsAre
    <3>9. CASE NoValue(p) /\ \A r \in Results(p) : r.status = "ok"
      <4> DEFINE Void(f, v) == v.form # "*" /\ (v.list = {} \/ \E s \in v.list : ~Usual(f, s))
      <4>1. PICK f \in FieldNames \ {"dow"} : p[f].vals = {}
        <5>1. p["minute"].vals = {} \/ p["hour"].vals = {} \/ p["day"].vals = {} \/ p["month"].vals = {}
          BY <3>9 DEF NoValue
        <5> QED BY <5>1 DEF FieldNames
      <4>2. CASE f = "day"
        <5>1. p.day \in ParseTimeUnit(Field.day, DayField(line)) /\ p.day.status = "ok" /\ p.day.vals = {}
          BY <3>9, <4>1, <4>2, ReadFrom DEF Results
        <5>2. ~last_dom(line) /\ ~last_dow(line)
          BY <5>1, RewrittenIsOne DEF DayField
        <5>3. DayField(line) = line["day"]
          BY <5>2 DEF DayField
        <5>4. Void(Field["day"], line["day"])
          BY <3>3, <5>1, <5>3, EmptyField DEF FieldNames
        <5> QED BY <3>2, <4>2, <5>2, <5>4 DEF last_dom, FieldNames
      <4>3. CASE f # "day"
        <5>1. p[f] \in ParseTimeUnit(Field[f], line[f]) /\ p[f].status = "ok"
          <6>1. /\ p["minute"] \in ParseTimeUnit(Field["minute"], line["minute"]) /\ p["minute"].status = "ok"
                /\ p["hour"] \in ParseTimeUnit(Field["hour"], line["hour"]) /\ p["hour"].status = "ok"
                /\ p["month"] \in ParseTimeUnit(Field["month"], line["month"]) /\ p["month"].status = "ok"
            BY <3>9, ReadFrom DEF Results
          <6> QED BY <4>3, <6>1 DEF FieldNames
        <5>2. Void(Field[f], line[f])
          BY <3>3, <4>1, <5>1, EmptyField
        <5> QED BY <3>2, <4>1, <4>3, <5>2
      <4> QED BY <4>2, <4>3
    <3> SUFFICES ASSUME \E r \in Results(p) : r.status = "bad"
                 PROVE  \E f \in FieldNames : Blamed(Field[f], line[f])
      <4>1. NoValue(p) \/ \E r \in Results(p) : r.status = "bad"
        BY <2>2, <3>1 DEF JobOf, NoJob
      <4>2. \A r \in Results(p) : r.status \in {"ok", "bad", "hang"}
        BY ReadFrom, FieldStatuses DEF Results
      <4>3. ~\E r \in Results(p) : r.status = "hang"
        BY <2>2, <3>1 DEF JobOf, NoJob
      <4> QED BY <3>9, <4>1, <4>2, <4>3
    <3>10. PICK r \in Results(p) : r.status = "bad"
      OBVIOUS
    <3>4. CASE r = p.minute
      <4>1. Blamed(Field["minute"], line["minute"])
        BY <3>10, <3>3, <3>4, ReadFrom, RefusedField DEF FieldNames
      <4> QED BY <4>1 DEF FieldNames
    <3>5. CASE r = p.hour
      <4>1. Blamed(Field["hour"], line["hour"])
        BY <3>10, <3>3, <3>5, ReadFrom, RefusedField DEF FieldNames
      <4> QED BY <4>1 DEF FieldNames
    <3>6. CASE r = p.day
      <4>1. r \in ParseTimeUnit(Field.day, DayField(line))
        BY <3>6, ReadFrom
      <4>2. ~last_dom(line) /\ ~last_dow(line)
        BY <3>10, <4>1, RewrittenIsOne DEF DayField
      <4>3. DayField(line) = line["day"]
        BY <4>2 DEF DayField
      <4>4. Blamed(Field["day"], line["day"])
        BY <3>10, <3>3, <4>1, <4>3, RefusedField DEF FieldNames
      <4> QED BY <4>4 DEF FieldNames
    <3>7. CASE r = p.month
      <4>1. Blamed(Field["month"], line["month"])
        BY <3>10, <3>3, <3>7, ReadFrom, RefusedField DEF FieldNames
      <4> QED BY <4>1 DEF FieldNames
    <3>8. CASE r = p.dow
      <4>1. r \in ParseTimeUnit(Field.dow, DowField(line))
        BY <3>8, ReadFrom
      <4>2. DowField(line).list = line["dow"].list
        BY <2>2 DEF DowField, List
      <4>3. Blamed(Field["dow"], line["dow"])
        BY <3>10, <3>3, <4>1, <4>2, RefusedField DEF FieldNames
      <4> QED BY <4>3 DEF FieldNames
    <3> QED BY <3>4, <3>5, <3>6, <3>7, <3>8, <3>10 DEF Results
  <2>3. ASSUME NEW f \in FieldNames, NEW s \in line[f].list PROVE PartsFrom(Field[f], s)
    BY PartsFromManual
  <2> QED BY <2>1, <2>2, <2>3 DEF FieldsAsDocumented
<1> QED BY <1>1, LineInvariant, PTL

-----------------------------------------------------------------------------
(* The days of a line. *)

\* No value of a field is mistaken for the asterisk.
LEMMA NotTheAsterisk ==
    ASSUME NEW f, IsField(f), NEW s, Usual(f, s) PROVE TIMESPEC_ASTERISK \notin Documented(f, s)
<1>0. Lo(f, s) \in Int /\ Hi(f, s) \in Int /\ f.base \in {0, 1} /\ f.top \in 1 .. 59
  BY WordAssumption DEF Lo, Hi, Usual, UsualEnd, IsField
<1>1. \A n \in Numbers(f, s) : n \in Int /\ n >= 0 /\ n <= 60
  BY <1>0 DEF Numbers, Lesser
<1>2. \A n \in Numbers(f, s) : Meant(f, n) # 255
  BY <1>1 DEF Meant
<1> QED BY <1>2 DEF Documented, TIMESPEC_ASTERISK

\* What the calendar expression lets through, field by field.
LEMMA LetsThrough ==
    ASSUME NEW f, IsField(f), NEW v, NEW r \in ParseTimeUnit(f, v), r.status = "ok",
           \A s \in v.list : Usual(f, s) /\ ~EndsEarly(f, s), NEW n \in Legal(f)
    PROVE  /\ v.form = "*" \/ v.list # {} => r.vals # {}
           /\ In(r.vals, n) => n \in DocumentedField(f, v)
           /\ ~HasTilde(v) /\ n \in DocumentedField(f, v) => In(r.vals, n)
<1>1. CASE v.form = "*"
  BY <1>1 DEF ParseTimeUnit, Good, In, DocumentedField
<1>2. CASE v.form # "*"
  <2>2. DocumentedField(f, v) = UNION {Documented(f, s) : s \in v.list}
    BY <1>2 DEF DocumentedField
  <2>3. /\ r.vals \subseteq DocumentedField(f, v)
        /\ ~HasTilde(v) => r.vals = DocumentedField(f, v)
        /\ v.list # {} => r.vals # {}
    BY <1>2, <2>2, ListAsDocumented
  <2>4. TIMESPEC_ASTERISK \notin DocumentedField(f, v)
    BY <2>2, NotTheAsterisk
  <2> QED BY <1>2, <2>3, <2>4 DEF In
<1> QED BY <1>1, <1>2

\* With L in both day fields the line is refused.
LEMMA TwoLsRefused ==
    ASSUME NEW l, last_dom(l), last_dow(l), l.dow.list # {}, NEW r \in ParseTimeUnit(Field.dow, DowField(l))
    PROVE  r.status = "bad"
<1>1. DowField(l).form # "*" /\ DowField(l).list # {}
  BY DEF DowField, List
<1>2. PICK c : Picked(Field.dow, DowField(l), c, r)
  BY <1>1, PicksOf
<1>3. ASSUME NEW s \in DowField(l).list PROVE ParsePeriod(Field.dow, s) = {Bad}
  <2>1. PICK t \in l.dow.list : s = [op |-> "one", lo |-> Trailed(t.lo.n), hi |-> Trailed(t.lo.n), step |-> 1]
    BY <1>3 DEF DowField, List
  <2>2. Field.dow.map = "dow" /\ s.op = "one" /\ s.hi.kind = "trailed" /\ s.step = 1
    BY <2>1 DEF Field, Trailed
  <2>3. To(Field.dow, s).err = TRUE
    BY <2>2 DEF To, Mapping, DowMap, IntMap
  <2> QED BY <2>2, <2>3 DEF ParsePeriod, Misspelt
<1>4. \A s \in DowField(l).list : c[s] = Bad
  BY <1>2, <1>3 DEF Picked
<1>5. {c[s] : s \in DowField(l).list} = {Bad}
  BY <1>1, <1>4
<1>6. r \in Combine({Bad})
  BY <1>2, <1>5 DEF Picked
<1> QED BY <1>6 DEF Combine, Bad

\* The day and the dow field are two conditions of which OnCalendar= asks both:
\* the timer keeps to the days the line asks for, and misses none of them if only
\* one field is restricted.
THEOREM TimersElapseWhenAsked == Spec => []ElapsesWhenAsked
<1>1. LineInv => ElapsesWhenAsked
  <2> SUFFICES ASSUME LineInv, Accepted, UsualDays(line), NEW d \in Days
               PROVE  /\ CalendarMatches(job.schedule, d) => CronMatches(line, d)
                      /\ ~BothRestricted(line) /\ ~Drawn(line) /\ CronMatches(line, d) => CalendarMatches(job.schedule, d)
    BY DEF ElapsesWhenAsked
  <2>1. PICK p \in Parses(line) : job = JobOf(line, p) /\ ~HasPeriod(line)
    BY DEF LineInv, NoJob, PeriodJob, Accepted
  <2>2. ~NoValue(p) /\ \A r \in Results(p) : r.status = "ok"
    BY <2>1, ValidMeansOk DEF Accepted
  <2>3. job.schedule = Schedule(line, p)
    BY <2>1, <2>2 DEF JobOf
  <2>4. /\ d.len \in 28 .. 31 /\ d.dom \in 1 .. d.len
        /\ d.month \in Legal(Field.month) /\ d.dow \in Legal(Field.dow) /\ d.dom \in Legal(Field.day)
    <3>1. d.len \in 28 .. 31 /\ d.dom \in 1 .. d.len /\ d.month \in 1 .. 12 /\ d.dow \in 0 .. 6
      BY DaysAssumption
    <3>2. /\ d.month - 1 \in 0 .. Field.month.top /\ Value(Field.month, d.month - 1) = d.month
          /\ d.dow \in 0 .. Field.dow.top /\ Value(Field.dow, d.dow) = d.dow
          /\ d.dom - 1 \in 0 .. Field.day.top /\ Value(Field.day, d.dom - 1) = d.dom
      BY <3>1 DEF Field, Value
    <3> QED BY <3>1, <3>2 DEF Legal
  <2>5. ~(last_dom(line) /\ last_dow(line))
    <3>1. p.dow.status = "ok" /\ p.dow \in ParseTimeUnit(Field.dow, DowField(line))
      BY <2>2, ReadFrom DEF Results
    <3>2. last_dow(line) => line.dow.list # {}
      BY <2>1, FormsAre DEF LineInv
    <3> QED BY <3>1, <3>2, TwoLsRefused
  <2>6. /\ In(p.month.vals, d.month) => d.month \in DocumentedField(Field.month, line.month)
        /\ ~Drawn(line) /\ d.month \in DocumentedField(Field.month, line.month) => In(p.month.vals, d.month)
    <3>1. p.month.status = "ok" /\ p.month \in ParseTimeUnit(Field.month, line.month) /\ IsField(Field.month)
      BY <2>2, ReadFrom, FieldsAre DEF Results, FieldNames
    <3>2. ~Drawn(line) => ~HasTilde(line.month)
      BY DEF Drawn, FieldNames
    <3>3. \A s \in line.month.list : Usual(Field.month, s) /\ ~EndsEarly(Field.month, s)
      BY DEF UsualDays
    <3> QED BY <2>4, <3>1, <3>2, <3>3, LetsThrough
  <2>7. /\ Dows(p) = p.dow.vals
        /\ In(p.dow.vals, d.dow) => d.dow \in DocumentedField(Field.dow, line.dow)
        /\ ~Drawn(line) /\ d.dow \in DocumentedField(Field.dow, line.dow) => In(p.dow.vals, d.dow)
    <3>1. p.dow.status = "ok" /\ p.dow \in ParseTimeUnit(Field.dow, DowField(line)) /\ IsField(Field.dow)
      BY <2>2, ReadFrom, FieldsAre DEF Results, FieldNames
    <3>2. DowField(line).list = line.dow.list /\ (DowField(line).form = "*" <=> line.dow.form = "*")
      BY <2>5 DEF DowField, List, last_dow
    <3>3. DocumentedField(Field.dow, DowField(line)) = DocumentedField(Field.dow, line.dow)
      BY <3>2 DEF DocumentedField
    <3>4. ~Drawn(line) => ~HasTilde(DowField(line))
      BY <3>2 DEF Drawn, FieldNames, HasTilde
    <3>5. \A s \in DowField(line).list : Usual(Field.dow, s) /\ ~EndsEarly(Field.dow, s)
      BY <3>2 DEF UsualDays
    <3>6. DowField(line).form = "*" \/ DowField(line).list # {}
      <4>1. last_dow(line) => line.dow.list # {}
        BY <2>1, FormsAre DEF LineInv
      <4>2. line["dow"].form \in {"*", "list", "L"}
        BY <2>1, FormsAre DEF LineInv, FieldNames
      <4>3. line.dow.form = "list" => line.dow.list # {}
        BY DEF UsualDays
      <4> QED BY <3>2, <4>1, <4>2, <4>3 DEF last_dow
    <3>7. p.dow.vals # {}
      BY <2>4, <3>1, <3>5, <3>6, LetsThrough
    <3> QED BY <2>4, <3>1, <3>3, <3>4, <3>5, <3>7, LetsThrough DEF Dows
  <2>8. p.day.status = "ok" /\ p.day \in ParseTimeUnit(Field.day, DayField(line)) /\ IsField(Field.day)
    BY <2>2, ReadFrom, FieldsAre DEF Results, FieldNames
  <2>9. CASE last_dom(line)
    <3>1. p.day.vals = {1}
      BY <2>8, <2>9, RewrittenIsOne DEF DayField
    <3>2. CalendarMatches(job.schedule, d) <=>
             In(p.dow.vals, d.dow) /\ In(p.month.vals, d.month) /\ d.len - d.dom + 1 \in p.day.vals
      <4>1. /\ job.schedule.fromEnd = TRUE /\ job.schedule.daily = FALSE /\ job.schedule.day = p.day.vals
            /\ job.schedule.dow = p.dow.vals /\ job.schedule.month = p.month.vals
        <5>1. TRUE = (last_dow(line) \/ last_dom(line)) /\ FALSE = last_dow(line)
          BY <2>5, <2>9 DEF last_dow, last_dom
        <5>2. job.schedule = [dow |-> Dows(p), month |-> p.month.vals, fromEnd |-> TRUE, day |-> p.day.vals,
                              daily |-> FALSE, hour |-> p.hour.vals, minute |-> p.minute.vals]
          BY <2>3, <5>1, Zenon DEF Schedule
        <5> QED BY <2>7, <5>2
      <4> QED BY <4>1 DEF CalendarMatches
    <3>3. DomMatches(line, d) <=> d.len - d.dom + 1 \in p.day.vals
      BY <2>4, <2>9, <3>1 DEF DomMatches
    <3>4. DowMatches(line, d) <=> d.dow \in DocumentedField(Field.dow, line.dow)
      BY <2>5, <2>9 DEF DowMatches
    <3> QED BY <2>6, <2>7, <3>2, <3>3, <3>4 DEF CronMatches
  <2>10. CASE last_dow(line)
    <3>1. p.day.vals = {7}
      BY <2>5, <2>8, <2>10, RewrittenIsOne DEF DayField
    <3>2. CalendarMatches(job.schedule, d) <=>
             In(p.dow.vals, d.dow) /\ In(p.month.vals, d.month) /\ \E n \in p.day.vals : d.len - d.dom + 1 <= n
      <4>1. /\ job.schedule.fromEnd = TRUE /\ job.schedule.daily = TRUE /\ job.schedule.day = p.day.vals
            /\ job.schedule.dow = p.dow.vals /\ job.schedule.month = p.month.vals
        <5>1. TRUE = (last_dow(line) \/ last_dom(line)) /\ TRUE = last_dow(line)
          BY <2>5, <2>10 DEF last_dow, last_dom
        <5>2. job.schedule = [dow |-> Dows(p), month |-> p.month.vals, fromEnd |-> TRUE, day |-> p.day.vals,
                              daily |-> TRUE, hour |-> p.hour.vals, minute |-> p.minute.vals]
          BY <2>3, <5>1, Zenon DEF Schedule
        <5> QED BY <2>7, <5>2
      <4> QED BY <4>1 DEF CalendarMatches
    <3>3. d.len - d.dom < 7 <=> \E n \in p.day.vals : d.len - d.dom + 1 <= n
      BY <2>4, <3>1
    <3>4. DowMatches(line, d) <=> d.dow \in DocumentedField(Field.dow, line.dow) /\ d.len - d.dom < 7
      BY <2>10 DEF DowMatches
    <3>5. ~BothRestricted(line) => DomMatches(line, d)
      BY <2>4, <2>5, <2>10 DEF BothRestricted, Restricted, DomMatches, DocumentedField, last_dow
    <3> QED BY <2>6, <2>7, <3>2, <3>3, <3>4, <3>5 DEF CronMatches
  <2>11. CASE ~last_dom(line) /\ ~last_dow(line)
    <3>1. CalendarMatches(job.schedule, d) <=>
             In(p.dow.vals, d.dow) /\ In(p.month.vals, d.month) /\ In(p.day.vals, d.dom)
      <4>1. /\ job.schedule.fromEnd = FALSE /\ job.schedule.daily = FALSE /\ job.schedule.day = p.day.vals
            /\ job.schedule.dow = p.dow.vals /\ job.schedule.month = p.month.vals
        <5>1. FALSE = (last_dow(line) \/ last_dom(line)) /\ FALSE = last_dow(line)
          BY <2>11 DEF last_dow, last_dom
        <5>2. job.schedule = [dow |-> Dows(p), month |-> p.month.vals, fromEnd |-> FALSE, day |-> p.day.vals,
                              daily |-> FALSE, hour |-> p.hour.vals, minute |-> p.minute.vals]
          BY <2>3, <5>1, Zenon DEF Schedule
        <5> QED BY <2>7, <5>2
      <4> QED BY <4>1 DEF CalendarMatches
    <3>2. /\ In(p.day.vals, d.dom) => d.dom \in DocumentedField(Field.day, line.day)
          /\ ~Drawn(line) /\ d.dom \in DocumentedField(Field.day, line.day) => In(p.day.vals, d.dom)
      <4>1. p.day \in ParseTimeUnit(Field.day, line.day)
        BY <2>8, <2>11 DEF DayField
      <4>2. ~Drawn(line) => ~HasTilde(line.day)
        BY DEF Drawn, FieldNames
      <4>3. \A s \in line.day.list : Usual(Field.day, s) /\ ~EndsEarly(Field.day, s)
        BY DEF UsualDays
      <4> QED BY <2>4, <2>8, <4>1, <4>2, <4>3, LetsThrough
    <3>3. /\ DomMatches(line, d) <=> d.dom \in DocumentedField(Field.day, line.day)
          /\ DowMatches(line, d) <=> d.dow \in DocumentedField(Field.dow, line.dow)
      BY <2>11 DEF DomMatches, DowMatches
    <3> QED BY <2>6, <2>7, <3>1, <3>2, <3>3 DEF CronMatches
  <2> QED BY <2>5, <2>9, <2>10, <2>11
<1> QED BY <1>1, LineInvariant, PTL

-----------------------------------------------------------------------------
(* Lines with a period. *)

\* A line with a period, once generated.
LEMMA PeriodOfLine ==
    ASSUME LineInv, Periodic
    PROVE  /\ P!IsPeriodLine(line) /\ job.schedule = P!Schedule(line)
           /\ job.accepted = P!Accepted(line)
<1>1. HasPeriod(line) /\ job = PeriodJob(line)
  BY DEF LineInv, Periodic, NoJob, JobOf
<1>2. P!IsPeriodLine(line)
  BY <1>1, LinesAssumption DEF LineInv
<1> QED BY <1>1, <1>2 DEF PeriodJob

\* Settings that make sense are minutes and hours.
LEMMA SensibleSettings ==
    ASSUME NEW l, P!IsPeriodLine(l), P!Sensible(l)
    PROVE  /\ P!BootDelay(l) \in 0 .. 59 /\ P!StartHour(l) \in 0 .. 23
           /\ P!BootDelay(l) = P!MinuteAsked(l) /\ P!StartHour(l) = P!HourAsked(l)
<1>1. ASSUME NEW t \in [text : {"digits", "trailed", "letters", "blank", "unset"}, n : Nat]
      PROVE  /\ P!IntMap(t).value \in Nat
             /\ P!IntMap(t).value < 60 => P!IntMap(t).value = t.n
  BY WordAssumption DEF P!IntMap
<1>2. /\ l.delay \in [text : {"digits", "trailed", "letters", "blank", "unset"}, n : Nat]
      /\ l.DELAY \in [text : {"digits", "trailed", "letters", "blank", "unset"}, n : Nat]
      /\ l.START_HOURS_RANGE \in [text : {"digits", "trailed", "letters", "blank", "unset"}, n : Nat]
      /\ l.distro.nth \in Nat /\ l.distro.hour \in Nat
  BY DEF P!IsPeriodLine
<1>8. P!Unset.n = 0
  BY DEF P!Unset
<1>3. P!StartHour(l) \in 0 .. 23 /\ P!StartHour(l) = P!HourAsked(l)
  BY <1>1, <1>2, <1>8 DEF P!StartHour, P!Sensible, P!HourAsked
<1>4. P!BootDelay(l) < 60
  BY DEF P!Sensible
<1>5. CASE l.source = "parts"
  BY <1>2, <1>3, <1>4, <1>5 DEF P!BootDelay, P!MinuteAsked
<1>6. CASE l.source = "anacrontab"
  BY <1>1, <1>2, <1>3, <1>4, <1>6 DEF P!BootDelay, P!MinuteAsked
<1>7. CASE l.source \notin {"parts", "anacrontab"}
  <2>1. P!BootDelay(l) = IF l.DELAY = P!Unset THEN 0 ELSE P!IntMap(l.DELAY).value
    BY <1>7 DEF P!BootDelay
  <2> QED BY <1>1, <1>2, <1>3, <1>4, <1>7, <1>8, <2>1 DEF P!MinuteAsked
<1> QED BY <1>5, <1>6, <1>7

\* The components that make a calendar expression.
LEMMA ValidParts ==
    /\ \A lo, hi : P!Valid(P!All, lo, hi)
    /\ \A lo, hi : \A n \in lo .. hi : P!Valid(P!One(n), lo, hi)
    /\ P!Valid(P!Each({1, 4, 7, 10}), 1, 12) /\ P!Valid(P!Each({1, 7}), 1, 12)
<1>1. \A lo, hi : P!Valid(P!All, lo, hi)
  BY DEF P!Valid
<1>2. \A lo, hi : \A n \in lo .. hi : P!Valid(P!One(n), lo, hi)
  BY DEF P!Valid, P!One
<1>3. P!Valid(P!Each({1, 4, 7, 10}), 1, 12) /\ P!Valid(P!Each({1, 7}), 1, 12)
  BY DEF P!Valid, P!One, P!Each
<1> QED BY <1>1, <1>2, <1>3

\* The words that are replaced are not left.
LEMMA Replaced ==
    ASSUME NEW l, P!IsPeriodLine(l)
    PROVE  P!Replacement(l.period).word \notin {"annually", "bi-annually", "biannually", "semiannually"}
<1> DEFINE p == l.period
<1>1. p = [word |-> p.word, n |-> p.n] /\ (p.word # "number" => p.n = 0)
  BY DEF P!IsPeriodLine
<1>2. CASE p.word \in {"annually", "bi-annually", "biannually", "semiannually"}
  <2>1. p = P!W(p.word) /\ \A k : p # P!EveryDays(k)
    BY <1>1, <1>2 DEF P!W, P!EveryDays
  <2>2. p \in {P!W("annually"), P!W("bi-annually"), P!W("biannually"), P!W("semiannually")}
    BY <1>2, <2>1
  <2>3. ASSUME p = P!W("annually") PROVE P!Replacement(p) = P!W("yearly")
    <3>1. P!Replacement(p) = P!W("yearly")
      BY <2>3 DEF P!Replacement, P!W, P!EveryDays
    <3> QED BY <3>1, <2>3
  <2>4. ASSUME p # P!W("annually") PROVE P!Replacement(p) = P!W("semi-annually")
    <3>1. p # P!W("anually") /\ p # P!W("boot")
      BY <1>2, <2>1 DEF P!W
    <3>2. p \in {P!W("bi-annually"), P!W("biannually"), P!W("semiannually")}
      BY <2>2, <2>4
    <3> HIDE DEF p
    <3>3. P!Replacement(p) = P!W("semi-annually")
      BY <2>1, <2>4, <3>1, <3>2 DEF P!Replacement
    <3> QED BY <3>3
  <2>5. P!Replacement(p) \in {P!W("yearly"), P!W("semi-annually")}
    BY <2>3, <2>4, Zenon
  <2> QED BY <2>5 DEF P!W
<1>3. CASE p.word \notin {"annually", "bi-annually", "biannually", "semiannually"}
  <2>1. P!Replacement(p) \in {P!W("daily"), P!W("weekly"), P!W("monthly"), P!W("yearly"), P!W("semi-annually"),
                              P!W("reboot"), p}
    BY DEF P!Replacement
  <2> QED BY <1>3, <2>1 DEF P!W
<1> QED BY <1>2, <1>3

\* The words that generate_schedule_from_period() knows, reboot aside.
Known == {"minutely", "hourly", "midnight", "daily", "weekly", "monthly", "quarterly", "semi-annually", "yearly"}

LEMMA KnownElapse ==
    ASSUME NEW l, P!IsPeriodLine(l), P!Sensible(l), P!Replacement(l.period).word \in Known
    PROVE  P!Elapses(P!Schedule(l))
<1> DEFINE w == P!Replacement(l.period).word
           s == P!Schedule(l)
           h == P!StartHour(l)
           d == P!BootDelay(l)
<1>1. h \in 0 .. 23 /\ d \in 0 .. 59
  BY SensibleSettings
<1>2. /\ s.kind = "calendar"
      /\ s.months \in {P!All, P!Each({1, 4, 7, 10}), P!Each({1, 7}), P!One(1)}
      /\ s.days \in {P!All, P!One(1)}
      /\ s.hour \in {P!All, P!One(0), P!One(h)} /\ s.minute \in {P!All, P!One(d)}
  BY DEF P!Schedule, P!Calendar, Known
<1> HIDE DEF s, h, d
<1> QED BY <1>1, <1>2, ValidParts DEF P!Elapses, s

\* crontab(1) installs no period without a timer.
THEOREM AcceptedPeriodsElapse == Spec => []CheckedElapses
<1>1. LineInv => CheckedElapses
  <2> SUFFICES ASSUME LineInv, Periodic, job.accepted, P!Sensible(line), line.period # P!W("")
               PROVE  job.schedule.kind = "reboot" \/ P!Elapses(job.schedule)
    BY DEF CheckedElapses
  <2>1. P!IsPeriodLine(line) /\ job.schedule = P!Schedule(line) /\ P!Accepted(line)
    BY PeriodOfLine
  <2> DEFINE w == P!Replacement(line.period).word
  <2>2. w \in Known \cup {"reboot"}
    <3>1. w \in {"annually", "bi-annually", "biannually", "daily", "hourly", "midnight", "minutely", "monthly",
                 "quarterly", "reboot", "semi-annually", "semiannually", "weekly", "yearly"}
      BY <2>1 DEF P!Accepted
    <3>2. w \notin {"annually", "bi-annually", "biannually", "semiannually"}
      BY <2>1, Replaced
    <3> QED BY <3>1, <3>2 DEF Known
  <2>3. CASE w = "reboot"
    BY <2>1, <2>3 DEF P!Schedule, P!NoCalendar, P!Calendar
  <2>4. CASE w \in Known
    BY <2>1, <2>4, KnownElapse
  <2> QED BY <2>2, <2>3, <2>4
<1> QED BY <1>1, LineInvariant, PTL

\* What is selected by the components of an expression.
LEMMA SelectedBy ==
    /\ \A v : P!Selects(P!All, v)
    /\ \A n, v : P!Selects(P!One(n), v) <=> n = v
    /\ \A S, v : P!Selects(P!Each(S), v) <=> v \in S
<1>1. \A v : P!Selects(P!All, v)
  BY DEF P!Selects, P!All, P!Every
<1>2. \A n, v : P!Selects(P!One(n), v) <=> n = v
  BY DEF P!Selects, P!All, P!Every, P!One
<1>3. \A S, v : P!Selects(P!Each(S), v) <=> v \in S
  <2>1. \A S, c : c \in P!Each(S) <=> \E n \in S : c \in P!One(n)
    BY DEF P!Each
  <2>2. \A S, v : P!Selects(P!Each(S), v) <=> \E n \in S : P!Selects(P!One(n), v)
    BY <2>1 DEF P!Selects
  <2> QED BY <1>2, <2>2
<1> QED BY <1>1, <1>2, <1>3

\* A keyword is left alone, but for @annually.
LEMMA KeptKeyword ==
    ASSUME NEW l, P!IsPeriodLine(l), l.period.word \in P!Keywords
    PROVE  P!Replacement(l.period).word = IF l.period.word = "annually" THEN "yearly" ELSE l.period.word
<1> DEFINE p == l.period
<1>1. p = P!W(p.word) /\ \A k : p # P!EveryDays(k)
  BY DEF P!IsPeriodLine, P!W, P!EveryDays, P!Keywords
<1>2. \A w : p = P!W(w) => w = p.word
  BY DEF P!W
<1>3. CASE p.word = "annually"
  <2>1. P!Replacement(p) = P!W("yearly")
    BY <1>1, <1>3 DEF P!Replacement, P!W, P!EveryDays
  <2> QED BY <1>3, <2>1 DEF P!W
<1>4. CASE p.word # "annually"
  <2>1. \A w \in {"annually", "anually", "bi-annually", "biannually", "semiannually", "boot"} : p # P!W(w)
    BY <1>2, <1>4 DEF P!Keywords
  <2> HIDE DEF p
  <2>2. P!Replacement(p) = p
    BY <1>1, <2>1 DEF P!Replacement
  <2> QED BY <1>4, <2>2 DEF p
<1> QED BY <1>3, <1>4

\* What becomes of a known word.
LEMMA KnownParts ==
    ASSUME NEW l, NEW w \in Known, P!Replacement(l.period).word = w
    PROVE  /\ P!Schedule(l).months = IF w = "quarterly" THEN P!Each({1, 4, 7, 10})
                                     ELSE IF w = "semi-annually" THEN P!Each({1, 7})
                                     ELSE IF w = "yearly" THEN P!One(1) ELSE P!All
           /\ P!Schedule(l).days = IF w \in {"monthly", "quarterly", "semi-annually", "yearly"} THEN P!One(1) ELSE P!All
           /\ P!Schedule(l).dow = IF w = "weekly" THEN {1} ELSE P!AnyDow
           /\ P!Schedule(l).hour = IF w \in {"minutely", "hourly"} THEN P!All
                                   ELSE IF w = "midnight" THEN P!One(0) ELSE P!One(P!StartHour(l))
           /\ P!Schedule(l).minute = IF w = "minutely" THEN P!All ELSE P!One(P!BootDelay(l))
BY DEF P!Schedule, P!Calendar, Known

\* Every keyword is its equivalent.
LEMMA KeywordsAre ==
    ASSUME NEW l, P!IsPeriodLine(l), P!Sensible(l), l.period.word \in P!Keywords
    PROVE  P!KeywordAsDocumented(l, P!Schedule(l))
<1> DEFINE w == l.period.word
           r == IF w = "annually" THEN "yearly" ELSE w
           s == P!Schedule(l)
<1>1. r \in Known /\ P!Replacement(l.period).word = r
  BY KeptKeyword DEF P!Keywords, Known
<1>2. P!Elapses(s)
  BY <1>1, KnownElapse
<1>3. /\ s.months = IF w = "quarterly" THEN P!Each({1, 4, 7, 10})
                    ELSE IF w = "semi-annually" THEN P!Each({1, 7})
                    ELSE IF w \in {"yearly", "annually"} THEN P!One(1) ELSE P!All
      /\ s.days = IF w \in {"monthly", "quarterly", "semi-annually", "yearly", "annually"} THEN P!One(1) ELSE P!All
      /\ s.dow = IF w = "weekly" THEN {1} ELSE P!AnyDow
      /\ s.hour = IF w \in {"minutely", "hourly"} THEN P!All
                  ELSE IF w = "midnight" THEN P!One(0) ELSE P!One(P!StartHour(l))
      /\ s.minute = IF w = "minutely" THEN P!All ELSE P!One(P!BootDelay(l))
  BY <1>1, KnownParts
<1> HIDE DEF s
<1>4. ASSUME NEW m \in 1 .. 12, NEW d \in 1 .. 31
      PROVE  (P!Selects(s.months, m) /\ P!Selects(s.days, d)) <=> P!TableDay(w, m, d)
  <2>1. CASE w \in {"yearly", "annually"}
    <3>1. s.months = P!One(1) /\ s.days = P!One(1)
      BY <1>3, <2>1
    <3>2. P!TableDay(w, m, d) <=> m = 1 /\ d = 1
      BY <2>1, Zenon DEF P!TableDay
    <3> QED BY <3>1, <3>2, SelectedBy
  <2>2. CASE w = "monthly"
    BY <1>3, <2>2, SelectedBy DEF P!TableDay
  <2>3. CASE w \in {"weekly", "daily", "midnight", "hourly", "minutely"}
    <3>1. s.months = P!All /\ s.days = P!All
      BY <1>3, <2>3
    <3>2. P!TableDay(w, m, d)
      BY <2>3 DEF P!TableDay
    <3> QED BY <3>1, <3>2, SelectedBy
  <2>4. CASE w = "quarterly"
    BY <1>3, <2>4, SelectedBy DEF P!TableDay
  <2>5. CASE w = "semi-annually"
    BY <1>3, <2>5, SelectedBy DEF P!TableDay
  <2> QED BY <2>1, <2>2, <2>3, <2>4, <2>5 DEF P!Keywords
<1>5. s.dow = IF w = "weekly" THEN {1} ELSE P!AnyDow
  BY <1>3
<1>6. \A v \in 0 .. 59 : P!Selects(s.minute, v) <=> w = "minutely" \/ v = P!MinuteAsked(l)
  BY <1>3, SelectedBy, SensibleSettings
<1>7. \A v \in 0 .. 23 : P!Selects(s.hour, v) <=>
         w \in {"minutely", "hourly"} \/ v = IF w = "midnight" THEN 0 ELSE P!HourAsked(l)
  BY <1>3, SelectedBy, SensibleSettings
<1> QED BY <1>2, <1>4, <1>5, <1>6, <1>7 DEF P!KeywordAsDocumented, s

\* Multiples follow each other at the distance they are multiples of.
LEMMA NextMultiple == ASSUME NEW k \in Nat \ {0}, NEW a \in Nat, a % k = 0 PROVE (a + k) % k = 0
<1> DEFINE q == a \div k
<1>1. q \in Int /\ a = k * q
  OBVIOUS
<1> HIDE DEF q
<1>2. a + k = k * (q + 1) /\ q + 1 \in Int
  BY <1>1
<1>3. \A x \in Int : (k * x) % k = 0
  OBVIOUS
<1> QED BY <1>2, <1>3

LEMMA SelectedNext ==
    ASSUME NEW k \in Nat \ {0}, NEW v \in Nat \ {0}, P!Selects(P!Every(1, k), v) PROVE P!Selects(P!Every(1, k), v + k)
<1>1. P!Selects(P!Every(1, k), 1) /\ (v = 1 \/ (v - 1) % k = 0)
  BY DEF P!Selects, P!All, P!Every
<1>2. (v - 1) % k = 0 /\ v - 1 \in Nat
  BY <1>1
<1>3. ((v - 1) + k) % k = 0
  BY <1>2, NextMultiple
<1>4. (v + k) - 1 = (v - 1) + k /\ v + k > 1
  OBVIOUS
<1>5. ((v + k) - 1) % k = 0
  BY <1>3, <1>4
<1> QED BY <1>4, <1>5 DEF P!Selects, P!Every

\* The calendar: a month begins where the one before ends.
LEMMA MonthsFollow ==
    \A m \in 1 .. 12 : /\ P!Before[m] \in Nat /\ P!Lengths[m] \in 28 .. 31
                       /\ P!Before[m] + P!Lengths[m] = IF m = 12 THEN 365 ELSE P!Before[m + 1]
BY DEF P!Before, P!Lengths

\* A day that is selected is followed by another one at most n days later: n days on,
\* or where the month ends before that, on the first of the next.
LEMMA DaysFollow ==
    ASSUME NEW s, s.months = P!All, NEW n \in 1 .. 29, s.days = P!Every(1, n) \/ (n = 1 /\ s.days = P!All)
    PROVE  \A e \in P!YearDays(s) : \E f \in P!Next2(s) : f > e /\ f <= e + n
<1>1. ASSUME NEW m \in 1 .. 12, NEW d \in 1 .. P!Lengths[m], P!Selects(s.days, d)
      PROVE  P!Before[m] + d \in P!YearDays(s)
  BY <1>1, SelectedBy DEF P!YearDays
<1>2. P!Selects(s.days, 1)
  <2>1. P!Selects(P!Every(1, n), 1)
    BY DEF P!Selects, P!Every
  <2> QED BY <2>1, SelectedBy
<1> SUFFICES ASSUME NEW e \in P!YearDays(s) PROVE \E f \in P!Next2(s) : f > e /\ f <= e + n
  OBVIOUS
<1>3. PICK m \in 1 .. 12 : \E d \in 1 .. P!Lengths[m] : e = P!Before[m] + d /\ P!Selects(s.days, d)
  BY DEF P!YearDays
<1>4. PICK d \in 1 .. P!Lengths[m] : e = P!Before[m] + d /\ P!Selects(s.days, d)
  BY <1>3
<1>5. /\ P!Before[m] \in Nat /\ P!Lengths[m] \in 28 .. 31
      /\ P!Before[m] + P!Lengths[m] = IF m = 12 THEN 365 ELSE P!Before[m + 1]
  BY MonthsFollow
<1>6. CASE d + n <= P!Lengths[m]
  <2>1. P!Selects(s.days, d + n)
    BY <1>4, <1>5, SelectedNext, SelectedBy
  <2>2. d + n \in 1 .. P!Lengths[m]
    BY <1>5, <1>6
  <2>3. P!Before[m] + (d + n) \in P!YearDays(s)
    BY <1>1, <2>1, <2>2
  <2>4. P!Before[m] + (d + n) > e /\ P!Before[m] + (d + n) <= e + n
    BY <1>4, <1>5
  <2> QED BY <2>3, <2>4 DEF P!Next2
<1>7. CASE d + n > P!Lengths[m] /\ m < 12
  <2>1. m + 1 \in 1 .. 12 /\ 1 \in 1 .. P!Lengths[m + 1]
    BY <1>7, MonthsFollow
  <2>2. P!Before[m + 1] + 1 \in P!YearDays(s)
    BY <1>1, <1>2, <2>1
  <2>3. P!Before[m + 1] + 1 > e /\ P!Before[m + 1] + 1 <= e + n
    BY <1>4, <1>5, <1>7
  <2> QED BY <2>2, <2>3 DEF P!Next2
<1>8. CASE d + n > P!Lengths[m] /\ m = 12
  <2>1. 1 \in 1 .. 12 /\ 1 \in 1 .. P!Lengths[1] /\ P!Before[1] = 0
    BY MonthsFollow DEF P!Before
  <2>2. 1 \in P!YearDays(s)
    BY <1>1, <1>2, <2>1
  <2>3. 365 + 1 \in P!Next2(s)
    BY <2>2 DEF P!Next2
  <2>4. 365 + 1 > e /\ 365 + 1 <= e + n
    BY <1>4, <1>5, <1>8
  <2> QED BY <2>3, <2>4
<1> QED BY <1>5, <1>6, <1>7, <1>8

\* std::round(): the closest number of months.
LEMMA ClosestMonth ==
    ASSUME NEW n \in 30 .. 344 PROVE P!Divisor(n) \in 1 .. 11 /\ 30 * P!Divisor(n) \in n - 15 .. n + 15
BY DEF P!Divisor

\* What becomes of a number of days.
LEMMA NumberParts ==
    ASSUME NEW l, P!IsPeriodLine(l), NEW n \in 1 .. 344, l.period = P!EveryDays(n)
    PROVE  LET p == P!Replacement(l.period)
               s == P!Schedule(l)
               At(dow, months, days) == P!Calendar(dow, months, days, P!One(P!StartHour(l)), P!One(P!BootDelay(l)))
           IN  /\ n = 1 => s = At(P!AnyDow, P!All, P!All)
               /\ n = 7 => s = At({1}, P!All, P!All)
               /\ n \in {30, 31} => s = At(P!AnyDow, P!All, P!One(1))
               /\ n < 30 /\ n \notin {1, 7} => s = At(P!AnyDow, P!All, P!Every(1, n))
               /\ n > 31 => s = At(P!AnyDow, P!Every(1, P!Divisor(n)), P!One(1))
<1> DEFINE p == P!EveryDays(n)
<1>1. \A k : p = P!EveryDays(k) <=> n = k
  BY DEF P!EveryDays
<1>2. \A w \in {"annually", "anually", "bi-annually", "biannually", "semiannually", "boot"} : p # P!W(w)
  BY DEF P!EveryDays, P!W
<1>3. p.word = "number" /\ p.n = n
  BY DEF P!EveryDays
<1> HIDE DEF p
<1>4. P!Replacement(p) = IF n = 1 THEN P!W("daily") ELSE IF n = 7 THEN P!W("weekly")
                         ELSE IF n \in {30, 31} THEN P!W("monthly") ELSE p
  <2>1. CASE n = 1
    BY <1>1, <1>2, <2>1 DEF P!Replacement
  <2>2. CASE n = 7
    BY <1>1, <1>2, <2>2 DEF P!Replacement
  <2>3. CASE n \in {30, 31}
    BY <1>1, <1>2, <2>3 DEF P!Replacement
  <2>4. CASE n \notin {1, 7, 30, 31}
    BY <1>1, <1>2, <2>4 DEF P!Replacement
  <2> QED BY <2>1, <2>2, <2>3, <2>4
<1>5. P!W("daily").word = "daily" /\ P!W("weekly").word = "weekly" /\ P!W("monthly").word = "monthly"
  BY DEF P!W
<1>6. l.period = p
  BY DEF p
<1> QED BY <1>3, <1>4, <1>5, <1>6 DEF P!Schedule

\* The executions that a number of days stands for are in time.
LEMMA NumbersInTime ==
    ASSUME NEW l, P!IsPeriodLine(l), P!Sensible(l), NEW n \in 1 .. 344, l.period = P!EveryDays(n)
    PROVE  P!InTime(n, P!Schedule(l))
<1> DEFINE s == P!Schedule(l)
           h == P!One(P!StartHour(l))
           d == P!One(P!BootDelay(l))
<1>1. P!Valid(h, 0, 23) /\ P!Valid(d, 0, 59)
  BY SensibleSettings, ValidParts
<1>2. /\ s.kind = "calendar" /\ s.hour = h /\ s.minute = d
      /\ n = 7 => s.dow = {1} /\ s.months = P!All /\ s.days = P!All
      /\ n = 1 => s.months = P!All /\ s.days = P!All
      /\ n < 30 /\ n \notin {1, 7} => s.months = P!All /\ s.days = P!Every(1, n)
      /\ n \in {30, 31} => s.months = P!All /\ s.days = P!One(1)
      /\ n > 31 => s.months = P!Every(1, P!Divisor(n)) /\ s.days = P!One(1)
      /\ n # 7 => s.dow = P!AnyDow
  <2> HIDE DEF s, h, d
  <2> QED BY NumberParts, SMTT(30) DEF P!Calendar, s, h, d
<1> HIDE DEF s, h, d
<1>3. \A k, hi : k \in Nat \ {0} /\ hi \in Nat /\ k < hi => P!Valid(P!Every(1, k), 1, hi)
  BY DEF P!Valid, P!Every
<1>4. P!Elapses(s)
  <2>1. P!Valid(s.months, 1, 12)
    <3>1. CASE n <= 31
      BY <1>2, <3>1, ValidParts
    <3>2. CASE n > 31
      <4>1. P!Divisor(n) \in Nat \ {0} /\ P!Divisor(n) < 12
        <5>1. n \in 30 .. 344
          BY <3>2
        <5>2. P!Divisor(n) \in 1 .. 11
          BY <5>1, ClosestMonth
        <5> QED BY <5>2
      <4> QED BY <1>2, <1>3, <3>2, <4>1
    <3> QED BY <3>1, <3>2
  <2>2. P!Valid(s.days, 1, 31)
    <3>1. CASE n >= 30 \/ n \in {1, 7}
      BY <1>2, <3>1, ValidParts
    <3>2. CASE n < 30 /\ n \notin {1, 7}
      BY <1>2, <1>3, <3>2
    <3> QED BY <3>1, <3>2
  <2> QED BY <1>1, <1>2, <2>1, <2>2 DEF P!Elapses
<1>5. n < 30 /\ n # 7 => \A e \in P!YearDays(s) : \E f \in P!Next2(s) : f > e /\ f <= e + n
  BY <1>2, DaysFollow
<1>6. ASSUME n >= 30, NEW m \in 1 .. 12, P!Selects(s.months, m)
      PROVE  \E k \in 1 .. 12 : /\ 30 * k \in n - 15 .. n + 15
                                /\ \/ m + k > 12
                                   \/ \E i \in 1 .. k : P!Selects(s.months, m + i)
  <2> DEFINE k == P!Divisor(n)
  <2>1. k \in 1 .. 11 /\ 30 * k \in n - 15 .. n + 15
    <3>1. n \in 30 .. 344
      BY <1>6
    <3> QED BY <3>1, ClosestMonth
  <2>2. P!Selects(s.months, m + k)
    BY <1>2, <1>6, <2>1, SelectedNext, SelectedBy
  <2>3. k \in 1 .. 12 /\ k \in 1 .. k
    BY <2>1
  <2> QED BY <2>1, <2>2, <2>3
<1>7. /\ s.dow = IF n = 7 THEN {1} ELSE P!AnyDow
      /\ n = 7 => s.months = P!All /\ s.days = P!All
  BY <1>2
<1> QED BY <1>4, <1>5, <1>6, <1>7 DEF P!InTime, s

\* Keywords and numbers of days alike, whatever the settings, as long as they are
\* minutes of an hour and hours of a day: the days of the equivalent, the hour and
\* the minute asked for, and Mondays for @weekly.
THEOREM PeriodsRunAsDocumented == Spec => []PeriodsAsDocumented
<1>1. LineInv => PeriodsAsDocumented
  <2> SUFFICES ASSUME LineInv, Periodic, P!Sensible(line)
               PROVE  /\ line.period.word \in P!Keywords => P!KeywordAsDocumented(line, job.schedule)
                      /\ line.period.word = "number" /\ line.period.n \in 1 .. 344 =>
                             P!InTime(line.period.n, job.schedule)
    BY DEF PeriodsAsDocumented
  <2>1. P!IsPeriodLine(line) /\ job.schedule = P!Schedule(line)
    BY PeriodOfLine
  <2>2. line.period.word = "number" => line.period = P!EveryDays(line.period.n)
    BY <2>1 DEF P!IsPeriodLine, P!EveryDays
  <2> QED BY <2>1, <2>2, KeywordsAre, NumbersInTime
<1> QED BY <1>1, LineInvariant, PTL
=============================================================================
