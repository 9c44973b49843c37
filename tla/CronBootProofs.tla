---------------------------- MODULE CronBootProofs ---------------------------
(***************************************************************************)
(* Proofs about CronBoot, for any jobs, delays, bounds and number of       *)
(* events: DELAY= is kept, a line installed after startup does not run at  *)
(* once, and no "@reboot" job runs twice.                                  *)
(***************************************************************************)
EXTENDS CronBoot, TLAPS

(* The operators the actions are made of. *)

\* Products of delays and minutes.
LEMMA Product == \A a, m \in Nat : m > 0 => a * m \in Nat /\ a <= a * m /\ (a > 0 => m <= a * m)
<1> SUFFICES ASSUME NEW a \in Nat, NEW m \in Nat, m > 0
             PROVE  a * m \in Nat /\ a <= a * m /\ (a > 0 => m <= a * m)
  OBVIOUS
<1>1. PICK k \in Nat : m = k + 1
  <2>1. m - 1 \in Nat /\ m = (m - 1) + 1
    OBVIOUS
  <2> QED BY <2>1
<1>2. a * m = a * k + a /\ a * k \in Nat
  BY <1>1
<1>3. ASSUME a > 0 PROVE m <= a * m
  <2>1. PICK b \in Nat : a = b + 1
    <3>1. a - 1 \in Nat /\ a = (a - 1) + 1
      BY <1>3
    <3> QED BY <3>1
  <2>2. a * m = b * m + m /\ b * m \in Nat
    BY <2>1
  <2> QED BY <2>2
<1> QED BY <1>2, <1>3

LEMMA BootDelayFacts ==
    ASSUME NEW j \in Job
    PROVE  /\ BootDelayOf(j) \in Nat /\ Delay[j] <= BootDelayOf(j)
           /\ j \in RebootJob => BootDelayOf(j) > 0
           /\ BootDelayOf(j) * Minute \in Nat /\ BootDelayOf(j) <= BootDelayOf(j) * Minute
           /\ j \in RebootJob => Minute <= BootDelayOf(j) * Minute
<1>1. /\ BootDelayOf(j) \in Nat /\ Delay[j] \in Nat /\ Delay[j] <= BootDelayOf(j)
      /\ j \in RebootJob => BootDelayOf(j) > 0
  BY JobAssumption DEF BootDelayOf
<1> QED BY <1>1, TimeAssumption, Product

\* The units written for the lines J: of the active ones, with ExecStartPre=
\* unless the time is past.
LEMMA GenerateFacts ==
    ASSUME NEW J, J \subseteq Job, NEW up \in Nat
    PROVE  /\ Generate(J, up) \subseteq Unit
           /\ \A u \in Generate(J, up) : /\ u.job \in J /\ is_active(u.job) /\ u.written = up
                                         /\ u.pre \/ BootDelayOf(u.job) <= up
<1> SUFFICES ASSUME NEW u \in Generate(J, up)
             PROVE  /\ u \in Unit /\ u.job \in J /\ is_active(u.job) /\ u.written = up
                    /\ u.pre \/ BootDelayOf(u.job) <= up
  OBVIOUS
<1>1. PICK j \in J : is_active(j) /\ u = [job |-> j, pre |-> HasBootDelay(j, up), written |-> up]
  BY DEF Generate
<1>2. u.job = j /\ u.pre = HasBootDelay(j, up) /\ u.written = up
  BY <1>1
<1>3. HasBootDelay(j, up) \in BOOLEAN
  BY DEF HasBootDelay
<1>4. u \in Unit
  BY <1>1, <1>3 DEF Unit
<1>5. ~HasBootDelay(j, up) => BootDelayOf(j) <= up
  BY BootDelayFacts DEF HasBootDelay
<1> QED BY <1>1, <1>2, <1>4, <1>5

\* A unit's job is one.
LEMMA UnitFacts == \A u \in Unit : u.job \in Job /\ u.pre \in BOOLEAN /\ u.written \in Nat
BY DEF Unit

\* A run of unit u's job now, and of no other.
LEMMA RunFacts ==
    ASSUME TypeOK, NEW u \in Unit, Run(u)
    PROVE  /\ u.job \in Job
           /\ service' \in [Job -> {"idle", "boot_delay"}] /\ started' \in [Job -> Seq([at : Nat, written : Nat])]
           /\ service'[u.job] = "idle"
           /\ Len(started'[u.job]) = Len(started[u.job]) + 1
           /\ started'[u.job][Len(started[u.job]) + 1].at = uptime
           /\ started'[u.job][Len(started[u.job]) + 1].written = u.written
           /\ \A i \in 1..Len(started[u.job]) : started'[u.job][i] = started[u.job][i]
           /\ \A k \in Job : k # u.job => service'[k] = service[k] /\ started'[k] = started[k]
<1> DEFINE j == u.job
           e == [at |-> uptime, written |-> u.written]
<1>1. j \in Job /\ e \in [at : Nat, written : Nat] /\ e.at = uptime /\ e.written = u.written
  BY UnitFacts DEF TypeOK
<1>2. /\ service' = [service EXCEPT ![j] = "idle"]
      /\ started' = [started EXCEPT ![j] = Append(started[j], e)]
  BY <1>1 DEF Run
<1> HIDE DEF j, e
<1>3. started[j] \in Seq([at : Nat, written : Nat])
  BY <1>1 DEF TypeOK
<1>4. /\ Append(started[j], e) \in Seq([at : Nat, written : Nat])
      /\ Len(Append(started[j], e)) = Len(started[j]) + 1
      /\ Append(started[j], e)[Len(started[j]) + 1] = e
      /\ \A i \in 1..Len(started[j]) : Append(started[j], e)[i] = started[j][i]
  BY <1>1, <1>3
<1>5. started'[j] = Append(started[j], e) /\ service'[j] = "idle"
  BY <1>1, <1>2 DEF TypeOK
<1>6. /\ service' \in [Job -> {"idle", "boot_delay"}]
      /\ started' \in [Job -> Seq([at : Nat, written : Nat])]
      /\ \A k \in Job : k # j => service'[k] = service[k] /\ started'[k] = started[k]
  BY <1>1, <1>2, <1>4 DEF TypeOK
<1> QED BY <1>1, <1>4, <1>5, <1>6 DEF j

\* Restarting cron.target.
LEMMA StartTimersFacts ==
    ASSUME StartTimers
    PROVE  /\ timer' \in [Job -> {"off", "waiting", "elapsed"}]
           /\ \A j \in Job : /\ timer'[j] \in {"off", "waiting"}
                             /\ (\A u \in loaded : u.job # j) => timer'[j] = "off"
BY DEF StartTimers, JobsOf

LEMMA LoadFacts ==
    ASSUME TypeOK, NEW units, Load(units)
    PROVE  /\ loaded' = units /\ timer' \in [Job -> {"off", "waiting", "elapsed"}]
           /\ \A j \in Job : timer'[j] = timer[j] \/ timer'[j] = "off"
BY DEF Load, TypeOK

-----------------------------------------------------------------------------
(* The steps, by what they leave alone. *)

\* Steps of nobody but the users, and of those that wait.
Quiet == MountVar \/ AfterVarSkip \/ UpdateTouch \/ EditEtc \/ Crontab \/ CrontabAction \/ UNCHANGED vars
Begin == AfterVarReload \/ UpdateReload \/ Reload
End   == BootTarget \/ AfterVarRestart \/ UpdateRestart \/ ReloadEnd

LEMMA QuietFacts ==
    ASSUME TypeOK, Quiet
    PROVE  /\ UNCHANGED <<uptime, bootSpool, gen, UPTIME, disk, loaded, timer, service, started, target>>
           /\ etc' \subseteq EtcJob /\ spool' \subseteq UserJob
           /\ afterVar' = afterVar \/ afterVar' = "skipped"
           /\ update' \in {"touched", "reloading"} => rebootFile' \/ update' = update
           /\ rebootFile => rebootFile'
BY DEF Quiet, MountVar, AfterVarSkip, UpdateTouch, PathChanged, EditEtc, Crontab, CrontabAction, vars, files, genVars, jobVars,
       helpers, TypeOK

LEMMA BeginFacts ==
    ASSUME TypeOK, Begin
    PROVE  /\ UNCHANGED <<uptime, files, loaded, timer, service, started, target, cmd>>
           /\ gen = [for |-> "nobody", at |-> "idle"]
           /\ UPTIME' = uptime /\ disk' = Generate(etc, uptime)
           /\ gen'.at = "user"
           /\ gen' \in [for : {"nobody", "boot", "after-var", "update", "other"}, at : {"idle", "user", "done"}]
           /\ \/ gen'.for = "after-var" /\ afterVar = "wanted" /\ afterVar' = "running" /\ UNCHANGED update
              \/ gen'.for = "update" /\ update = "touched" /\ update' = "reloading" /\ UNCHANGED afterVar
              \/ gen'.for = "other" /\ UNCHANGED <<afterVar, update>>
BY DEF Begin, AfterVarReload, UpdateReload, Reload, GenSystem, jobVars, helpers

LEMMA EndFacts ==
    ASSUME TypeOK, End
    PROVE  /\ UNCHANGED <<uptime, files, disk, loaded, service, started, cmd>>
           /\ gen.at = "done" /\ gen' = [for |-> "nobody", at |-> "idle"] /\ UPTIME' = 0
           /\ (StartTimers /\ gen.for \in {"boot", "after-var", "update"}) \/ UNCHANGED timer
           /\ afterVar' = afterVar \/ afterVar' = "done"
           /\ update' = update \/ update' = "idle"
BY DEF End, BootTarget, AfterVarRestart, UpdateRestart, ReloadEnd, GenEnd, jobVars, helpers

LEMMA GenUserFacts ==
    ASSUME TypeOK, GenUser
    PROVE  /\ UNCHANGED <<uptime, var, etc, spool, bootSpool, UPTIME, service, started, target, cmd>>
           /\ gen.at = "user" /\ gen'.at = "done" /\ gen'.for = gen.for
           /\ gen' \in [for : {"nobody", "boot", "after-var", "update", "other"}, at : {"idle", "user", "done"}]
           /\ disk' = {} /\ Load(loaded')
           /\ \/ loaded' = disk \cup Generate(spool, UPTIME)
              \/ loaded' = disk
           /\ UNCHANGED update /\ (rebootFile => rebootFile')
           /\ afterVar' = afterVar \/ gen.for = "boot"
<1>1. gen' = [gen EXCEPT !.at = "done"] /\ gen.at = "user"
  BY DEF GenUser
<1>2. gen'.at = "done" /\ gen'.for = gen.for
      /\ gen' \in [for : {"nobody", "boot", "after-var", "update", "other"}, at : {"idle", "user", "done"}]
  BY <1>1 DEF TypeOK
<1> QED BY <1>1, <1>2 DEF GenUser, Load

\* The units of job j elapse: it runs, is held by boot_delay, or neither.
LEMMA ElapseFacts ==
    ASSUME TypeOK, NEW u \in loaded, Elapse(u)
    PROVE  /\ u.job \in Job /\ UNCHANGED <<uptime, files, gen, UPTIME, disk, loaded, helpers>>
           /\ Idle /\ timer[u.job] = "waiting"
           /\ u.job \in RebootJob => uptime >= BootDelayOf(u.job) * Minute /\ timer'[u.job] = "elapsed"
           /\ timer' \in [Job -> {"off", "waiting", "elapsed"}]
           /\ \A k \in Job : k # u.job => timer'[k] = timer[k]
           /\ \/ UNCHANGED <<service, started>>
              \/ service' = [service EXCEPT ![u.job] = "boot_delay"] /\ UNCHANGED started
              \/ service[u.job] = "idle" /\ ~u.pre /\ Run(u)
<1>1. u.job \in Job
  BY UnitFacts DEF TypeOK
<1> DEFINE j == u.job
<1>2. UNCHANGED <<uptime, files, gen, UPTIME, disk, loaded, helpers>> /\ Idle /\ timer[j] = "waiting"
  BY DEF Elapse, genVars
<1>3. IF j \in RebootJob THEN uptime >= BootDelayOf(j) * Minute /\ timer' = [timer EXCEPT ![j] = "elapsed"]
      ELSE UNCHANGED timer
  BY DEF Elapse
<1>4. \/ UNCHANGED <<service, started>>
      \/ service' = [service EXCEPT ![j] = "boot_delay"] /\ UNCHANGED started
      \/ service[j] = "idle" /\ ~u.pre /\ Run(u)
  BY DEF Elapse
<1> HIDE DEF j
<1>5. /\ j \in RebootJob => uptime >= BootDelayOf(j) * Minute /\ timer'[j] = "elapsed"
      /\ timer' \in [Job -> {"off", "waiting", "elapsed"}]
      /\ \A k \in Job : k # j => timer'[k] = timer[k]
  BY <1>1, <1>3 DEF TypeOK, j
<1> QED BY <1>1, <1>2, <1>4, <1>5 DEF j

\* ... and no other job does.
LEMMA ElapseOthers ==
    ASSUME TypeOK, NEW u \in loaded, Elapse(u), NEW k \in Job, k # u.job
    PROVE  timer'[k] = timer[k] /\ service'[k] = service[k] /\ started'[k] = started[k]
<1>1. u.job \in Job /\ timer'[k] = timer[k]
  BY ElapseFacts
<1>2. CASE service' = [service EXCEPT ![u.job] = "boot_delay"] /\ UNCHANGED started
  BY <1>1, <1>2 DEF TypeOK
<1>3. CASE Run(u)
  BY <1>1, <1>3, RunFacts DEF TypeOK
<1> QED BY <1>1, <1>2, <1>3, ElapseFacts

\* The delay of job j is over: a loaded unit of it runs, if there is one.
LEMMA BootDelayStep ==
    ASSUME TypeOK, NEW j \in Job, BootDelay(j)
    PROVE  /\ UNCHANGED <<uptime, files, gen, UPTIME, disk, loaded, timer, helpers>>
           /\ service[j] = "boot_delay" /\ uptime >= BootDelayOf(j) * Minute
           /\ \/ \E u \in Unit : u \in loaded /\ u.job = j /\ Run(u)
              \/ service' = [service EXCEPT ![j] = "idle"] /\ UNCHANGED started
BY DEF BootDelay, genVars, Units, TypeOK

\* ... once at most, and of no other job.
LEMMA DelayOverFacts ==
    ASSUME TypeOK, NEW j \in Job, BootDelay(j)
    PROVE  /\ service'[j] = "idle" /\ Len(started'[j]) <= Len(started[j]) + 1
           /\ service' \in [Job -> {"idle", "boot_delay"}] /\ started' \in [Job -> Seq([at : Nat, written : Nat])]
           /\ \A k \in Job : k # j => service'[k] = service[k] /\ started'[k] = started[k]
<1>0. started[j] \in Seq([at : Nat, written : Nat]) /\ Len(started[j]) \in Nat
  BY DEF TypeOK
<1>1. CASE service' = [service EXCEPT ![j] = "idle"] /\ UNCHANGED started
  BY <1>0, <1>1 DEF TypeOK
<1>2. ASSUME NEW u \in Unit, u.job = j, Run(u)
      PROVE  /\ service'[j] = "idle" /\ Len(started'[j]) <= Len(started[j]) + 1
             /\ service' \in [Job -> {"idle", "boot_delay"}] /\ started' \in [Job -> Seq([at : Nat, written : Nat])]
             /\ \A k \in Job : k # j => service'[k] = service[k] /\ started'[k] = started[k]
  BY <1>0, <1>2, RunFacts
<1> QED BY <1>1, <1>2, BootDelayStep

LEMMA TickFacts ==
    ASSUME Tick
    PROVE  /\ uptime' = uptime + 1 /\ Idle
           /\ UNCHANGED <<files, gen, UPTIME, disk, loaded, timer, service, started, helpers>>
           /\ uptime >= BootBy => afterVar \notin {"wanted", "running"}
BY DEF Tick, genVars, jobVars

\* There are no other steps.
LEMMA Steps ==
    ASSUME [Next]_vars
    PROVE  \/ Quiet \/ Begin \/ GenUser \/ End
           \/ \E u \in loaded : Elapse(u)
           \/ \E j \in Job : BootDelay(j)
           \/ Tick
BY DEF Next, Manager, Quiet, Begin, End

-----------------------------------------------------------------------------
(* DELAY= *)

\* What DELAY= asks of a run of job k.
LateEnough(k, run) ==
    \/ run.at >= BootDelayOf(k) * Minute
    \/ k \notin RebootJob /\ run.written >= BootDelayOf(k)

\* The runs of the other jobs, and the earlier ones of u's, were not too early.
LEMMA RunKeepsDelay ==
    ASSUME TypeOK, DelayKept, NEW u \in Unit, Run(u),
           \/ uptime >= BootDelayOf(u.job) * Minute
           \/ u.job \notin RebootJob /\ u.written >= BootDelayOf(u.job)
    PROVE  DelayKept'
<1> DEFINE j == u.job
           n == Len(started[j])
<1>1. \A k \in Job : \A i \in 1..Len(started[k]) : LateEnough(k, started[k][i])
  BY DEF DelayKept, LateEnough
<1>2. j \in Job /\ n \in Nat
  BY RunFacts DEF TypeOK
<1>3. LateEnough(j, started'[j][n + 1])
  BY RunFacts DEF LateEnough
<1>4. ASSUME NEW k \in Job, NEW i \in 1..Len(started'[k])
      PROVE  LateEnough(k, started'[k][i])
  <2>1. CASE k # j
    BY <1>1, <2>1, RunFacts
  <2>2. CASE k = j /\ i \in 1..n
    BY <1>1, <1>2, <2>2, RunFacts
  <2>3. CASE k = j /\ i = n + 1
    BY <1>3, <2>3
  <2>4. k = j => i \in 1..(n + 1)
    BY RunFacts
  <2> QED BY <1>2, <2>1, <2>2, <2>3, <2>4
<1> QED BY <1>4 DEF DelayKept, LateEnough

LEMMA DelayInitially == Init => DelayInv
<1> SUFFICES ASSUME Init PROVE DelayInv
  OBVIOUS
<1>1. /\ EtcJob \subseteq Job /\ disk = Generate(EtcJob, 0)
      /\ uptime = 0 /\ UPTIME = 0 /\ loaded = {}
  BY DEF Init, Job
<1>2. disk \subseteq Unit /\ \A u \in disk : u.written = 0 /\ (u.pre \/ BootDelayOf(u.job) <= u.written)
  BY <1>1, GenerateFacts
<1>3. UnitsInv
  <2>1. \A u \in disk \cup loaded : u \in disk
    BY <1>1
  <2>2. ASSUME NEW u \in disk PROVE u.written <= uptime
    <3>1. u.written = 0 /\ uptime = 0
      BY <1>1, <1>2
    <3> QED BY <3>1
  <2> QED BY <1>2, <2>1, <2>2 DEF UnitsInv
<1>4. TypeOK
  BY <1>1, <1>2 DEF Init, TypeOK
<1>5. DelayKept
  BY DEF Init, DelayKept
<1> QED BY <1>3, <1>4, <1>5 DEF DelayInv

LEMMA DelayInductive == DelayInv /\ [Next]_vars => DelayInv'
<1> SUFFICES ASSUME DelayInv, [Next]_vars PROVE DelayInv'
  OBVIOUS
<1>0. TypeOK /\ UnitsInv /\ DelayKept /\ uptime \in Nat /\ UPTIME \in Nat /\ UPTIME <= uptime
  BY DEF DelayInv, TypeOK
<1>1. CASE Quiet
  <2>1. TypeOK'
    BY <1>0, <1>1, QuietFacts DEF TypeOK
  <2> QED BY <1>0, <1>1, <2>1, QuietFacts DEF DelayInv, UnitsInv, DelayKept
<1>2. CASE Begin
  <2>1. etc \subseteq Job
    BY <1>0 DEF TypeOK, Job
  <2>2. /\ disk' \subseteq Unit
        /\ \A u \in disk' : u.written = uptime /\ (u.pre \/ BootDelayOf(u.job) <= u.written)
    BY <1>0, <1>2, <2>1, BeginFacts, GenerateFacts
  <2>3. TypeOK'
    BY <1>0, <1>2, <2>2, BeginFacts DEF TypeOK, files
  <2>4. UnitsInv'
    BY <1>0, <1>2, <2>2, BeginFacts DEF UnitsInv
  <2>5. DelayKept'
    BY <1>0, <1>2, BeginFacts DEF DelayKept
  <2> QED BY <2>3, <2>4, <2>5 DEF DelayInv
<1>3. CASE GenUser
  <2>1. spool \subseteq Job
    BY <1>0 DEF TypeOK, Job
  <2>2. loaded' \subseteq Unit
    BY <1>0, <1>3, <2>1, GenUserFacts, GenerateFacts DEF TypeOK
  <2>3. TypeOK'
    BY <1>0, <1>3, <2>2, GenUserFacts, LoadFacts DEF TypeOK
  <2>5. UnitsInv'
    <3>1. \A u \in Generate(spool, UPTIME) : u.written = UPTIME /\ (u.pre \/ BootDelayOf(u.job) <= u.written)
      BY <1>0, <2>1, GenerateFacts
    <3> QED BY <1>0, <1>3, <3>1, GenUserFacts DEF UnitsInv
  <2>6. DelayKept'
    BY <1>0, <1>3, GenUserFacts DEF DelayKept
  <2> QED BY <2>3, <2>5, <2>6 DEF DelayInv
<1>4. CASE End
  <2>1. TypeOK'
    BY <1>0, <1>4, EndFacts, StartTimersFacts DEF TypeOK, files
  <2>2. UnitsInv'
    BY <1>0, <1>4, EndFacts DEF UnitsInv
  <2>3. DelayKept'
    BY <1>0, <1>4, EndFacts DEF DelayKept
  <2> QED BY <2>1, <2>2, <2>3 DEF DelayInv
<1>5. ASSUME NEW u \in loaded, Elapse(u) PROVE DelayInv'
  <2>1. /\ u.job \in Job
        /\ UNCHANGED <<uptime, files, gen, UPTIME, disk, loaded, helpers>>
        /\ timer' \in [Job -> {"off", "waiting", "elapsed"}]
    BY <1>0, <1>5, ElapseFacts
  <2>2. UnitsInv'
    BY <1>0, <2>1 DEF UnitsInv
  <2>3. CASE UNCHANGED started /\ (service' = service \/ service' = [service EXCEPT ![u.job] = "boot_delay"])
    <3>1. TypeOK'
      BY <1>0, <2>1, <2>3 DEF TypeOK, files
    <3> QED BY <1>0, <2>2, <2>3, <3>1 DEF DelayInv, DelayKept
  <2>4. CASE ~u.pre /\ Run(u)
    <3>1. u \in Unit
      BY <1>0 DEF TypeOK
    <3>2. TypeOK'
      BY <1>0, <2>1, <2>4, <3>1, RunFacts DEF TypeOK, files
    <3>3. /\ u.written >= BootDelayOf(u.job)
          /\ u.job \in RebootJob => uptime >= BootDelayOf(u.job) * Minute
      BY <1>0, <1>5, <2>4, ElapseFacts, UnitFacts, <3>1, BootDelayFacts DEF UnitsInv
    <3>4. DelayKept'
      BY <1>0, <2>4, <3>1, <3>3, RunKeepsDelay
    <3> QED BY <2>2, <3>2, <3>4 DEF DelayInv
  <2> QED BY <1>0, <1>5, <2>3, <2>4, ElapseFacts
<1>6. ASSUME NEW j \in Job, BootDelay(j) PROVE DelayInv'
  <2>1. TypeOK'
    BY <1>0, <1>6, BootDelayStep, DelayOverFacts DEF TypeOK, files
  <2>2. UnitsInv'
    <3>1. UNCHANGED <<uptime, disk, loaded>>
      BY <1>0, <1>6, BootDelayStep
    <3> QED BY <1>0, <3>1 DEF UnitsInv
  <2>3. ASSUME UNCHANGED started PROVE DelayKept'
    BY <1>0, <2>3 DEF DelayKept
  <2>4. ASSUME NEW u \in Unit, u.job = j, Run(u) PROVE DelayKept'
    <3>1. uptime >= BootDelayOf(u.job) * Minute
      BY <1>0, <1>6, <2>4, BootDelayStep
    <3> QED BY <1>0, <2>4, <3>1, RunKeepsDelay
  <2>5. DelayKept'
    <3>1. (\E u \in Unit : u.job = j /\ Run(u)) \/ UNCHANGED started
      BY <1>0, <1>6, BootDelayStep
    <3> QED BY <2>3, <2>4, <3>1
  <2> QED BY <2>1, <2>2, <2>5 DEF DelayInv
<1>7. CASE Tick
  <2>1. TypeOK'
    BY <1>0, <1>7, TickFacts DEF TypeOK, files
  <2>2. UnitsInv'
    BY <1>0, <1>7, TickFacts, UnitFacts DEF UnitsInv, TypeOK
  <2>3. DelayKept'
    BY <1>0, <1>7, TickFacts DEF DelayKept
  <2> QED BY <2>1, <2>2, <2>3 DEF DelayInv
<1> QED BY <1>1, <1>2, <1>3, <1>4, <1>5, <1>6, <1>7, Steps

LEMMA DelayInvariant == Spec => []DelayInv
BY DelayInitially, DelayInductive, PTL DEF Spec

\* For every DELAY=: whichever run of the generator wrote its unit and whoever
\* reloads in between, an @reboot job begins that many minutes after boot at the
\* earliest; so does any other job, except from a unit written that many SECONDS
\* after boot or later, which is where the program departs from crontab(5).
THEOREM DelaysAreKept == Spec => []DelayKept
<1>1. DelayInv => DelayKept
  BY DEF DelayInv
<1> QED BY <1>1, DelayInvariant, PTL

-----------------------------------------------------------------------------
(* Lines installed after startup *)

\* Such a line is none of /etc, and its file is inactive once it is there.
LEMMA LaterFacts ==
    ASSUME TypeOK, WaitInv, NEW j \in LaterJob
    PROVE  /\ j \in Job /\ j \in RebootJob /\ j \in UserJob /\ j \notin etc
           /\ \A up \in Nat : /\ \A u \in Generate(etc, up) : u.job # j
                              /\ \A u \in Generate(spool, up) : u.job # j
<1>1. j \in Job /\ j \in RebootJob /\ j \in UserJob /\ j \notin etc
  BY JobAssumption DEF LaterJob, Job, TypeOK
<1>2. etc \subseteq Job /\ spool \subseteq Job
  BY DEF TypeOK, Job
<1>3. j \in spool => ~is_active(j)
  BY <1>1 DEF WaitInv, LaterInv, is_active
<1> QED BY <1>1, <1>2, <1>3, GenerateFacts

LEMMA WaitInitially == Init => WaitInv
<1> SUFFICES ASSUME Init PROVE WaitInv
  OBVIOUS
<1>1. EtcJob \subseteq Job /\ disk = Generate(EtcJob, 0)
  BY DEF Init, Job
<1>2. \A u \in disk : u.job \in EtcJob
  BY <1>1, GenerateFacts
<1>3. ASSUME NEW j \in LaterJob PROVE LaterInv(j)
  <2>1. j \in Job /\ j \notin EtcJob /\ j \notin spool
    BY JobAssumption DEF LaterJob, Job, Init
  <2> QED BY <1>2, <2>1 DEF Init, LaterInv
<1> QED BY <1>3 DEF WaitInv, Init

\* What changes nothing of a job keeps its invariant.
LEMMA WaitInductive == DelayInv /\ WaitInv /\ [Next]_vars => WaitInv'
<1> SUFFICES ASSUME DelayInv, WaitInv, [Next]_vars PROVE WaitInv'
  OBVIOUS
<1>0. TypeOK /\ UPTIME \in Nat /\ uptime \in Nat
  BY DEF DelayInv, TypeOK
<1>1. CASE Quiet
  <2>1. cmd' = "action" => rebootFile'
    BY <1>1 DEF Quiet, MountVar, AfterVarSkip, UpdateTouch, EditEtc, Crontab, CrontabAction, vars, helpers, files, WaitInv
  <2>2. rebootFile' \/ spool' = spool
    BY <1>1 DEF Quiet, MountVar, AfterVarSkip, UpdateTouch, EditEtc, Crontab, CrontabAction, vars, files, WaitInv
  <2>3. ASSUME NEW j \in LaterJob' PROVE LaterInv(j)'
    <3>1. j \in LaterJob /\ LaterInv(j)
      BY <1>0, <1>1, QuietFacts DEF LaterJob, WaitInv
    <3> QED BY <1>0, <1>1, <2>2, <3>1, QuietFacts DEF LaterInv
  <2> QED BY <2>1, <2>3 DEF WaitInv
<1>2. CASE Begin
  <2>1. ASSUME NEW j \in LaterJob' PROVE LaterInv(j)'
    <3>1. j \in LaterJob /\ LaterInv(j)
      BY <1>0, <1>2, BeginFacts DEF LaterJob, WaitInv, files
    <3>2. \A u \in disk' : u.job # j
      BY <1>0, <1>2, <3>1, BeginFacts, LaterFacts
    <3> QED BY <1>0, <1>2, <3>1, <3>2, BeginFacts DEF LaterInv, files
  <2> QED BY <1>0, <1>2, <2>1, BeginFacts DEF WaitInv, files
<1>3. CASE GenUser
  <2>1. ASSUME NEW j \in LaterJob' PROVE LaterInv(j)'
    <3>1. j \in LaterJob /\ LaterInv(j)
      BY <1>0, <1>3, GenUserFacts DEF LaterJob, WaitInv
    <3>2. j \in Job /\ \A u \in loaded' : u.job # j
      BY <1>0, <1>3, <3>1, GenUserFacts, LaterFacts DEF LaterInv
    <3>3. timer'[j] = "off"
      BY <1>0, <1>3, <3>1, <3>2, GenUserFacts, LoadFacts DEF LaterInv
    <3> QED BY <1>0, <1>3, <3>1, <3>2, <3>3, GenUserFacts DEF LaterInv
  <2> QED BY <1>0, <1>3, <2>1, GenUserFacts DEF WaitInv
<1>4. CASE End
  <2>1. ASSUME NEW j \in LaterJob' PROVE LaterInv(j)'
    <3>1. j \in LaterJob /\ LaterInv(j) /\ j \in Job
      BY <1>0, <1>4, EndFacts, LaterFacts DEF LaterJob, WaitInv, files
    <3>2. timer'[j] = "off"
      BY <1>0, <1>4, <3>1, EndFacts, StartTimersFacts DEF LaterInv
    <3> QED BY <1>0, <1>4, <3>1, <3>2, EndFacts DEF LaterInv, files
  <2> QED BY <1>0, <1>4, <2>1, EndFacts DEF WaitInv, files
<1>5. ASSUME NEW u \in loaded, Elapse(u) PROVE WaitInv'
  <2>1. ASSUME NEW j \in LaterJob' PROVE LaterInv(j)'
    <3>1. j \in LaterJob /\ LaterInv(j) /\ j \in Job
      BY <1>0, <1>5, ElapseFacts, LaterFacts DEF LaterJob, WaitInv, files
    <3>2. u.job # j /\ timer'[j] = timer[j]
      BY <1>0, <1>5, <3>1, ElapseFacts DEF LaterInv
    <3>3. service'[j] = service[j] /\ started'[j] = started[j]
      BY <1>0, <1>5, <3>1, <3>2, ElapseOthers
    <3> QED BY <1>0, <1>5, <3>1, <3>2, <3>3, ElapseFacts DEF LaterInv, files
  <2> QED BY <1>0, <1>5, <2>1, ElapseFacts DEF WaitInv, files, helpers
<1>6. ASSUME NEW i \in Job, BootDelay(i) PROVE WaitInv'
  <2>1. ASSUME NEW j \in LaterJob' PROVE LaterInv(j)'
    <3>1. j \in LaterJob /\ LaterInv(j) /\ j \in Job
      BY <1>0, <1>6, BootDelayStep, LaterFacts DEF LaterJob, WaitInv, files
    <3>2. i # j
      BY <1>0, <1>6, <3>1, BootDelayStep DEF LaterInv
    <3>3. service'[j] = service[j] /\ started'[j] = started[j]
      BY <1>0, <1>6, <3>1, <3>2, DelayOverFacts
    <3> QED BY <1>0, <1>6, <3>1, <3>3, BootDelayStep DEF LaterInv, files
  <2> QED BY <1>0, <1>6, <2>1, BootDelayStep DEF WaitInv, files, helpers
<1>7. CASE Tick
  BY <1>7, TickFacts DEF WaitInv, LaterJob, LaterInv, files, helpers
<1> QED BY <1>1, <1>2, <1>3, <1>4, <1>5, <1>6, <1>7, Steps

\* Whenever /var is mounted, and whatever runs of the generator crontab(1) gets
\* in between: an @reboot line that was not there when the machine started does
\* not run before the next start.
THEOREM InstalledLaterDoesWait == Spec => []InstalledLaterWaits
<1>1. Init => DelayInv /\ WaitInv
  BY DelayInitially, WaitInitially
<1>2. DelayInv /\ WaitInv /\ [Next]_vars => DelayInv' /\ WaitInv'
  BY DelayInductive, WaitInductive
<1>3. WaitInv => InstalledLaterWaits
  BY DEF WaitInv, LaterJob, LaterInv, InstalledLaterWaits
<1> QED BY <1>1, <1>2, <1>3, PTL DEF Spec

-----------------------------------------------------------------------------
(* "@reboot": once *)

\* With REBOOT_FILE there, no unit is written for an @reboot line.
LEMMA InactiveFacts ==
    ASSUME rebootFile, NEW J, J \subseteq Job, NEW up \in Nat, NEW j \in RebootJob
    PROVE  \A u \in Generate(J, up) : u.job # j
<1>1. ~is_active(j)
  BY DEF is_active
<1> QED BY <1>1, GenerateFacts

LEMMA OnceInitially == Init => OnceInv
<1> SUFFICES ASSUME Init PROVE OnceInv
  OBVIOUS
<1>1. BootInv
  BY TimeAssumption DEF Init, BootInv
<1>2. ASSUME NEW j \in RebootJob PROVE RebootInv(j) /\ Len(started[j]) <= 1
  <2>1. timer[j] = "off" /\ service[j] = "idle" /\ started[j] = <<>> /\ gen.for = "boot"
    BY JobAssumption DEF Init
  <2> QED BY <2>1 DEF RebootInv
<1> QED BY <1>1, <1>2 DEF OnceInv, RebootOnce

\* The order of the boot: the generator, cron.target, cron-after-var.service;
\* and of cron-update.service: REBOOT_FILE, then the generator.
LEMMA BootStep == ASSUME TypeOK, BootInv, [Next]_vars PROVE BootInv'
<1>0. uptime \in Nat /\ BootBy \in Nat
  BY TimeAssumption DEF TypeOK
<1>1. CASE Quiet
  BY <1>1, QuietFacts DEF BootInv
<1>2. CASE Begin
  BY <1>2, BeginFacts DEF BootInv, files
<1>3. CASE GenUser
  BY <1>3, GenUserFacts DEF BootInv
<1>4. CASE End
  BY <1>4, EndFacts DEF BootInv, files
<1>5. CASE (\E u \in loaded : Elapse(u)) \/ (\E j \in Job : BootDelay(j))
  <2>1. UNCHANGED <<uptime, rebootFile, gen, afterVar, update>>
    BY <1>5, ElapseFacts, BootDelayStep DEF files, helpers
  <2> QED BY <2>1 DEF BootInv
<1>6. CASE Tick
  <2>1. /\ UNCHANGED <<rebootFile, gen, afterVar, update>> /\ uptime' = uptime + 1 /\ gen.for = "nobody"
        /\ uptime >= BootBy => afterVar \notin {"wanted", "running"}
    BY <1>6, TickFacts DEF files, helpers, Idle
  <2> QED BY <1>0, <2>1 DEF BootInv
<1> QED BY <1>1, <1>2, <1>3, <1>4, <1>5, <1>6, Steps

\* What leaves a job's timer and service alone keeps its invariant.
LEMMA RebootStep ==
    ASSUME BootBy < Minute, TypeOK, BootInv, NEW j \in RebootJob, RebootInv(j), Len(started[j]) <= 1,
           [Next]_vars
    PROVE  RebootInv(j)' /\ Len(started'[j]) <= 1
<1>0. /\ j \in Job /\ uptime \in Nat /\ UPTIME \in Nat /\ BootBy \in Nat /\ Minute \in Nat
      /\ etc \subseteq Job /\ spool \subseteq Job /\ started[j] \in Seq([at : Nat, written : Nat])
      /\ timer[j] \in {"off", "waiting", "elapsed"} /\ service[j] \in {"idle", "boot_delay"}
  BY JobAssumption, TimeAssumption DEF TypeOK, Job
<1>1. CASE Quiet
  BY <1>1, QuietFacts DEF RebootInv
<1>2. CASE Begin
  <2>1. gen'.at = "user" /\ UNCHANGED <<uptime, timer, service, started>>
    BY <1>2, BeginFacts
  <2>2. gen'.for = "update" => \A u \in disk' : u.job # j
    BY <1>0, <1>2, BeginFacts, InactiveFacts DEF BootInv
  <2> QED BY <2>1, <2>2 DEF RebootInv
<1>3. CASE GenUser
  <2>1. /\ UNCHANGED <<uptime, service, started>> /\ gen.at = "user" /\ gen'.at = "done"
        /\ gen'.for = gen.for /\ Load(loaded')
    BY <1>3, GenUserFacts
  <2>2. timer'[j] = timer[j] \/ timer'[j] = "off"
    BY <1>0, <2>1, LoadFacts
  <2>3. gen'.for = "update" => \A u \in loaded' : u.job # j
    BY <1>0, <1>3, <2>1, GenUserFacts, InactiveFacts DEF BootInv, RebootInv
  <2> QED BY <2>1, <2>2, <2>3 DEF RebootInv
<1>4. CASE End
  <2>1. UNCHANGED <<uptime, service, started>> /\ gen.at = "done" /\ gen'.at = "idle"
    BY <1>4, EndFacts
  <2>2. CASE UNCHANGED timer
    BY <2>1, <2>2 DEF RebootInv
  <2>3. CASE StartTimers /\ gen.for = "update"
    <3>1. timer'[j] = "off"
      BY <1>0, <2>1, <2>3, StartTimersFacts DEF RebootInv
    <3> QED BY <2>1, <3>1 DEF RebootInv
  <2>4. CASE StartTimers /\ gen.for \in {"boot", "after-var"}
    <3>1. uptime <= BootBy /\ timer'[j] \in {"off", "waiting"}
      BY <1>0, <2>4, StartTimersFacts DEF BootInv
    <3> QED BY <2>1, <3>1 DEF RebootInv
  <2> QED BY <1>4, <2>2, <2>3, <2>4, EndFacts
<1>5. ASSUME NEW u \in loaded, Elapse(u) PROVE RebootInv(j)' /\ Len(started'[j]) <= 1
  <2>1. UNCHANGED <<uptime, gen, disk, loaded>>
    BY <1>5, ElapseFacts
  <2>2. CASE u.job # j
    <3>1. timer'[j] = timer[j] /\ service'[j] = service[j] /\ started'[j] = started[j]
      BY <1>0, <1>5, <2>2, ElapseOthers
    <3> QED BY <2>1, <3>1 DEF RebootInv
  <2>3. CASE u.job = j
    <3>1. timer[j] = "waiting" /\ timer'[j] = "elapsed" /\ uptime >= BootDelayOf(j) * Minute
      BY <1>5, <2>3, ElapseFacts
    <3>2. ~(uptime <= BootBy)
      BY <1>0, <3>1, BootDelayFacts
    <3>3. u \in Unit /\ service[j] = "idle" /\ started[j] = <<>> /\ Len(started[j]) = 0
      BY <3>1 DEF RebootInv, TypeOK
    <3>4. service'[j] = "boot_delay" => started'[j] = <<>>
      BY <1>0, <1>5, <2>3, <3>3, ElapseFacts, RunFacts
    <3>5. Len(started'[j]) <= 1
      BY <1>0, <1>5, <2>3, <3>3, ElapseFacts, RunFacts
    <3> QED BY <1>0, <2>1, <3>1, <3>2, <3>4, <3>5 DEF RebootInv
  <2> QED BY <2>2, <2>3
<1>6. ASSUME NEW i \in Job, BootDelay(i) PROVE RebootInv(j)' /\ Len(started'[j]) <= 1
  <2>1. UNCHANGED <<uptime, gen, disk, loaded, timer>>
    BY <1>6, BootDelayStep
  <2>2. CASE i # j
    <3>1. service'[j] = service[j] /\ started'[j] = started[j]
      BY <1>0, <1>6, <2>2, DelayOverFacts
    <3> QED BY <2>1, <3>1 DEF RebootInv
  <2>3. CASE i = j
    <3>1. /\ service[j] = "boot_delay" /\ timer[j] # "waiting" /\ ~(uptime <= BootBy)
          /\ Len(started[j]) = 0
      BY <1>0, <1>6, <2>3, BootDelayStep DEF RebootInv
    <3>2. service'[j] = "idle" /\ Len(started'[j]) <= 1
      BY <1>6, <2>3, <3>1, DelayOverFacts
    <3> QED BY <1>0, <2>1, <3>1, <3>2 DEF RebootInv
  <2> QED BY <2>2, <2>3
<1>7. CASE Tick
  <2>1. /\ UNCHANGED <<gen, disk, loaded, timer, service, started>> /\ uptime' = uptime + 1
    BY <1>7, TickFacts
  <2> QED BY <1>0, <2>1 DEF RebootInv
<1> QED BY <1>1, <1>2, <1>3, <1>4, <1>5, <1>6, <1>7, Steps

LEMMA OnceInductive == ASSUME BootBy < Minute PROVE TypeOK /\ OnceInv /\ [Next]_vars => OnceInv'
<1> SUFFICES ASSUME TypeOK, OnceInv, [Next]_vars PROVE OnceInv'
  OBVIOUS
<1>1. BootInv'
  BY BootStep DEF OnceInv
<1>2. \A j \in RebootJob : RebootInv(j)' /\ Len(started'[j]) <= 1
  BY RebootStep DEF OnceInv, RebootOnce
<1> QED BY <1>1, <1>2 DEF OnceInv, RebootOnce

\* Where cron-after-var.service is done, or skipped, within the minute that every
\* @reboot job waits: no @reboot job is started twice, however the boot,
\* cron-after-var, cron-update, other reloads and crontab(1) interleave.
THEOREM RebootJobsRunOnce == ASSUME BootBy < Minute PROVE Spec => []RebootOnce
<1>1. Init => DelayInv /\ OnceInv
  BY DelayInitially, OnceInitially
<1>2. DelayInv /\ OnceInv /\ [Next]_vars => DelayInv' /\ OnceInv'
  BY DelayInductive, OnceInductive DEF DelayInv
<1>3. OnceInv => RebootOnce
  BY DEF OnceInv
<1> QED BY <1>1, <1>2, <1>3, PTL DEF Spec
=============================================================================
