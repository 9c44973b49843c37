---------------------------- MODULE ThrottleGroup ----------------------------
(***************************************************************************)
(* throttle_group: the ExecStartPre= helper behind                         *)
(* CRON_BATCH_THROTTLE_GROUP, and the part of systemd it watches.          *)
(*                                                                         *)
(* A unit of a group is held in its start-pre state by a process running   *)
(* the loop of src/src/bin/throttle_group.cpp.  The process asks systemd   *)
(* over D-Bus what the other units of the group are doing - one snapshot   *)
(* of the unit list, then two properties of each member, all of which may  *)
(* be stale when they are used - and exits, letting systemd start the job, *)
(* once none runs and none exited in the last BLANK.  The processes of all *)
(* groups share one word of memory, exchanged by whoever exits.            *)
(*                                                                         *)
(* Time is an explicit integer clock shared by systemd and the helpers.    *)
(***************************************************************************)
EXTENDS Integers, FiniteSets

CONSTANTS
    Unit,       \* the cron-*.service units with a throttle group
    NoUnit,     \* the all-zero last_winner, and "no unit is being queried"
    Group,      \* Group[u]: argv[1] of u's throttle_group
    HasTarget,  \* HasTarget[u]: u's throttle_group has a below-loadavg
    FREQ,       \* FREQ[u]: 5 s, or 30 s with a below-loadavg
    BLANK,      \* BLANKING_INTERVAL, 5 min
    Grain,      \* what last_time_won_subsec truncates the time to
    MaxLatency, \* bound: from reading the clock to systemd starting the job
    MaxSlack,   \* bound: how late a sleeping process is woken
    MaxRun,     \* bound: how long a job runs
    MaxRuns,    \* bound: how often a unit's timer elapses
    MaxLost,    \* bound: how often replies time out, or are errors
    Settle,     \* bound: timers elapse and the load changes before this time
    MaxTime     \* bound: the clock stops here

ASSUME UnitAssumption == /\ NoUnit \notin Unit
                         /\ HasTarget \in [Unit -> BOOLEAN]
ASSUME ReplyAssumption == MaxLost \in Nat
ASSUME TimeAssumption == /\ FREQ \in [Unit -> Nat]
                         /\ BLANK \in Nat \ {0}
                         /\ Grain \in Nat \ {0}
                         /\ \A u \in Unit : Grain <= FREQ[u]
                         /\ MaxLatency \in Nat
                         /\ MaxSlack \in Nat
                         /\ MaxRun \in Nat
                         /\ MaxRuns \in Nat
                         /\ Settle \in Nat
                         /\ MaxTime \in Nat

VARIABLES
    clock,      \* CLOCK_MONOTONIC
    loadHigh,   \* getloadavg() fails or exceeds every below-loadavg
    shm,        \* the word of /systemd-cron.throttle_group
    state,      \* systemd: the unit's state
    startTS,    \* systemd: ExecMainStartTimestampMonotonic
    exitTS,     \* systemd: ExecMainExitTimestampMonotonic
    runs,       \* how often the unit's timer has elapsed
    pc,         \* where the unit's helper is in main()
    wake,       \* when its sleep ends
    last, now,  \* its locals
    todo,       \* group members whose timestamps it has not asked for yet
    cur,        \* the member whose ExecMainExitTimestamp it waits for ...
    startSeen,  \* ... and the ExecMainStartTimestamp it got
    need,       \* the longest result of the members it has heard of
    lost        \* history: how often replies were lost

systemdVars == <<state, startTS, exitTS, runs>>
queryVars   == <<todo, cur, startSeen, need>>
vars == <<clock, loadHigh, lost, shm, systemdVars, pc, wake, last, now, queryVars>>

-----------------------------------------------------------------------------
Stored(t) == (t \div Grain) * Grain
ZeroBundle == [winner |-> NoUnit, time |-> 0]
Bundle(u, t) == [winner |-> u, time |-> Stored(t)]
Bundles == [winner : Unit \cup {NoUnit}, time : Nat]

Running == {"start", "stopping"}  \* the job's main process exists

Looking == {"list", "query", "cas"}
InLoop  == {"loadavg", "load", "clock"} \cup Looking \cup {"sleep"}

\* The other members of u's group: cron-*.service units that are not u
\* itself and whose ExecStartPre= has the same argv[0] and argv[1].
Others(u) == {v \in Unit \ {u} : Group[v] = Group[u]}

Init ==
    /\ clock = 0
    /\ loadHigh \in BOOLEAN
    /\ shm = ZeroBundle
    /\ state = [u \in Unit |-> "dead"]
    /\ startTS = [u \in Unit |-> 0]
    /\ exitTS = [u \in Unit |-> 0]
    /\ runs = [u \in Unit |-> 0]
    /\ pc = [u \in Unit |-> "none"]
    /\ wake = [u \in Unit |-> 0]
    /\ last = [u \in Unit |-> ZeroBundle]
    /\ now = [u \in Unit |-> 0]
    /\ todo = [u \in Unit |-> {}]
    /\ cur = [u \in Unit |-> NoUnit]
    /\ startSeen = [u \in Unit |-> 0]
    /\ need = [u \in Unit |-> 0]
    /\ lost = 0

-----------------------------------------------------------------------------
(* throttle_group's main() *)

Goto(u, where) == pc' = [pc EXCEPT ![u] = where]

\* listed_units and the rest of the iteration go out of scope.
Forget(u) ==
    /\ last' = [last EXCEPT ![u] = ZeroBundle]
    /\ now' = [now EXCEPT ![u] = 0]
    /\ todo' = [todo EXCEPT ![u] = {}]
    /\ cur' = [cur EXCEPT ![u] = NoUnit]
    /\ startSeen' = [startSeen EXCEPT ![u] = 0]
    /\ need' = [need EXCEPT ![u] = 0]

Sleep(u, for) ==
    /\ Goto(u, "sleep")
    /\ wake' = [wake EXCEPT ![u] = clock + for]
    /\ Forget(u)

\* main() before the loop; when mapping the word, connecting to the bus or
\* GetUnitByPID fails, Fail(u) applies instead.
Setup(u) ==
    /\ pc[u] = "setup"
    /\ Goto(u, "loadavg")
    /\ UNCHANGED <<clock, loadHigh, lost, shm, systemdVars, wake, last, now, queryVars>>

LoadTooHigh(u) == HasTarget[u] /\ loadHigh

CheckLoad(u) ==
    /\ pc[u] = "loadavg"
    /\ \/ LoadTooHigh(u) /\ Sleep(u, FREQ[u])
       \/ ~LoadTooHigh(u) /\ Goto(u, "load") /\ UNCHANGED <<wake, last, now, queryVars>>
    /\ UNCHANGED <<clock, loadHigh, lost, shm, systemdVars>>

LoadShm(u) ==
    /\ pc[u] = "load"
    /\ last' = [last EXCEPT ![u] = shm]
    /\ Goto(u, "clock")
    /\ UNCHANGED <<clock, loadHigh, lost, shm, systemdVars, wake, now, queryVars>>

\* Slip: no stabilisation, the members are looked at straight away.
ReadClock_NoWait(u) ==
    /\ pc[u] = "clock"
    /\ now' = [now EXCEPT ![u] = clock]
    /\ Goto(u, "list")
    /\ UNCHANGED <<clock, loadHigh, lost, shm, systemdVars, wake, last, queryVars>>

\* clock_gettime(), and wait until the last dispatch has become visible.
ReadClock(u) ==
    /\ pc[u] = "clock"
    /\ \/ /\ clock - last[u].time > FREQ[u]
          /\ now' = [now EXCEPT ![u] = clock]
          /\ Goto(u, "list")
          /\ UNCHANGED <<wake, last, queryVars>>
       \/ /\ ~(clock - last[u].time > FREQ[u])
          /\ Sleep(u, FREQ[u])
    /\ UNCHANGED <<clock, loadHigh, lost, shm, systemdVars>>

\* Slip: a member that is "activating" counts as running in start-pre too.
ListUnits_AnyActivating(u) ==
    /\ pc[u] = "list"
    /\ \/ /\ \E v \in Others(u) : state[v] \in {"start-pre", "start"}
          /\ Sleep(u, BLANK)
       \/ /\ \A v \in Others(u) : state[v] \notin {"start-pre", "start"}
          /\ todo' = [todo EXCEPT ![u] = Others(u)]
          /\ Goto(u, "query")
          /\ UNCHANGED <<wake, last, now, cur, startSeen, need>>
    /\ UNCHANGED <<clock, loadHigh, lost, shm, systemdVars>>

\* ListUnitsByPatterns: one consistent snapshot of the units' states.  A
\* member listed as running decides the iteration (whichever of the pending
\* replies comes first); members in start-pre must not, and those that are
\* stopping or dead are asked for their timestamps.
ListUnits(u) ==
    /\ pc[u] = "list"
    /\ \/ /\ \E v \in Others(u) : state[v] = "start"
          /\ Sleep(u, BLANK)
       \/ /\ \A v \in Others(u) : state[v] # "start"
          /\ todo' = [todo EXCEPT ![u] = Others(u)]
          /\ Goto(u, "query")
          /\ UNCHANGED <<wake, last, now, cur, startSeen, need>>
    /\ UNCHANGED <<clock, loadHigh, lost, shm, systemdVars>>

\* The reply with a member's ExecMainStartTimestampMonotonic ...
ReadStart(u) ==
    /\ pc[u] = "query" /\ cur[u] = NoUnit
    /\ \E v \in todo[u] :
        /\ todo' = [todo EXCEPT ![u] = @ \ {v}]
        /\ cur' = [cur EXCEPT ![u] = v]
        /\ startSeen' = [startSeen EXCEPT ![u] = startTS[v]]
    /\ UNCHANGED <<clock, loadHigh, lost, shm, systemdVars, pc, wake, last, now, need>>

\* Slip: the accumulation keeps the newest result, negative ones included.
Larger_Newest(a, b) == b

\* std::max(unit.result, acc)
Larger(a, b) == IF a > b THEN a ELSE b

\* ... and, some time later, its ExecMainExitTimestampMonotonic.
ReadExit(u) ==
    LET v == cur[u] IN
    /\ pc[u] = "query" /\ v # NoUnit
    /\ \/ /\ startSeen[u] > exitTS[v]
          /\ Sleep(u, BLANK)
       \/ /\ ~(startSeen[u] > exitTS[v])
          /\ need' = [need EXCEPT ![u] = Larger(@, BLANK - (now[u] - exitTS[v]))]
          /\ cur' = [cur EXCEPT ![u] = NoUnit]
          /\ startSeen' = [startSeen EXCEPT ![u] = 0]
          /\ UNCHANGED <<pc, wake, last, now, todo>>
    /\ UNCHANGED <<clock, loadHigh, lost, shm, systemdVars>>

\* A property's reply is an error: its callback gives up, and the -1 it returns
\* is not seen by sd_bus_process()'s caller.  A member whose ExecStartPre is not
\* known is not one, whatever it was listed as; one with a timestamp missing
\* keeps the result {}.
LoseReply(u) ==
    /\ lost < MaxLost
    /\ lost' = lost + 1
    /\ \/ /\ pc[u] = "list"
          /\ \E L \in SUBSET Others(u) \ {{}} :
               /\ \A v \in Others(u) \ L : state[v] # "start"
               /\ todo' = [todo EXCEPT ![u] = Others(u) \ L]
          /\ Goto(u, "query")
          /\ UNCHANGED <<cur, startSeen>>
       \/ /\ pc[u] = "query" /\ cur[u] = NoUnit
          /\ \E v \in todo[u] : todo' = [todo EXCEPT ![u] = @ \ {v}]
          /\ UNCHANGED <<pc, cur, startSeen>>
       \/ /\ pc[u] = "query" /\ cur[u] # NoUnit
          /\ cur' = [cur EXCEPT ![u] = NoUnit]
          /\ startSeen' = [startSeen EXCEPT ![u] = 0]
          /\ UNCHANGED <<pc, todo>>
    /\ UNCHANGED <<clock, loadHigh, shm, systemdVars, wake, last, now, need>>

\* Slip: only running members hold the job back, not those that just ran.
Conclude_NoBlanking(u) ==
    /\ pc[u] = "query" /\ cur[u] = NoUnit /\ todo[u] = {}
    /\ Goto(u, "cas")
    /\ UNCHANGED <<clock, loadHigh, lost, shm, systemdVars, wake, last, now, queryVars>>

\* All members have answered: sleep out the longest blanking, or go ahead.
Conclude(u) ==
    /\ pc[u] = "query" /\ cur[u] = NoUnit /\ todo[u] = {}
    /\ \/ need[u] > 0 /\ Sleep(u, need[u])
       \/ need[u] = 0 /\ Goto(u, "cas") /\ UNCHANGED <<wake, last, now, queryVars>>
    /\ UNCHANGED <<clock, loadHigh, lost, shm, systemdVars>>

CompareExchange(u) ==
    /\ pc[u] = "cas"
    /\ \/ /\ shm = last[u]
          /\ shm' = Bundle(u, now[u])
          /\ Goto(u, "exit0")
          /\ UNCHANGED <<wake, last, now, queryVars>>
       \/ /\ shm # last[u]
          /\ Sleep(u, FREQ[u])
          /\ UNCHANGED shm
    /\ UNCHANGED <<clock, loadHigh, lost, systemdVars>>

Wake(u) ==
    /\ pc[u] = "sleep" /\ clock >= wake[u]
    /\ Goto(u, "loadavg")
    /\ UNCHANGED <<clock, loadHigh, lost, shm, systemdVars, wake, last, now, queryVars>>

-----------------------------------------------------------------------------
(* systemd, as throttle_group relies upon it (external) *)

\* The unit leaves start-pre without starting its job.
Abort(u) ==
    /\ state' = [state EXCEPT ![u] = "dead"]
    /\ Goto(u, "none")
    /\ Forget(u)
    /\ UNCHANGED <<clock, loadHigh, lost, shm, startTS, exitTS, runs, wake>>

\* main() returns 1: the setup or a bus call failed, and so does the unit.
Fail(u) == pc[u] \in {"setup", "list", "query"} /\ Abort(u)

\* The unit's timer elapses.
Activate(u) ==
    /\ state[u] = "dead" /\ runs[u] < MaxRuns /\ clock < Settle
    /\ state' = [state EXCEPT ![u] = "start-pre"]
    /\ runs' = [runs EXCEPT ![u] = @ + 1]
    /\ Goto(u, "setup")
    /\ wake' = [wake EXCEPT ![u] = clock]
    /\ UNCHANGED <<clock, loadHigh, lost, shm, startTS, exitTS, last, now, queryVars>>

\* The helper's exit is noticed and ExecStart= forked: exec_status_start()
\* stamps the start and clears the exit of the previous run.
MainStart(u) ==
    /\ state[u] = "start-pre" /\ pc[u] = "exit0"
    /\ state' = [state EXCEPT ![u] = "start"]
    /\ startTS' = [startTS EXCEPT ![u] = clock]
    /\ exitTS' = [exitTS EXCEPT ![u] = 0]
    /\ Goto(u, "none")
    /\ Forget(u)
    /\ UNCHANGED <<clock, loadHigh, lost, shm, runs, wake>>

MainExit(u) ==
    /\ state[u] \in Running
    /\ state' = [state EXCEPT ![u] = "dead"]
    /\ exitTS' = [exitTS EXCEPT ![u] = clock]
    /\ UNCHANGED <<clock, loadHigh, lost, shm, startTS, runs, pc, wake, last, now, queryVars>>

\* systemctl stop: a job is asked to end and lingers, a helper is killed.
Stop(u) ==
    \/ /\ state[u] = "start"
       /\ state' = [state EXCEPT ![u] = "stopping"]
       /\ UNCHANGED <<clock, loadHigh, lost, shm, startTS, exitTS, runs, pc, wake, last, now, queryVars>>
    \/ state[u] = "start-pre" /\ Abort(u)

SetLoad ==
    /\ clock < Settle
    /\ loadHigh' = ~loadHigh
    /\ UNCHANGED <<clock, lost, shm, systemdVars, pc, wake, last, now, queryVars>>

\* Time passes while nobody is later than the bounds allow.
OnTime(u) ==
    /\ pc[u] \in Looking \cup {"exit0"} => clock < now[u] + MaxLatency
    /\ pc[u] \in {"setup", "loadavg", "load", "clock", "sleep"} => clock < wake[u] + MaxSlack
    /\ state[u] \in Running => clock < startTS[u] + MaxRun

Tick ==
    /\ clock < MaxTime
    /\ \A u \in Unit : OnTime(u)
    /\ clock' = clock + 1
    /\ UNCHANGED <<loadHigh, lost, shm, systemdVars, pc, wake, last, now, queryVars>>

Step(u) ==
    \/ Setup(u) \/ CheckLoad(u) \/ LoadShm(u) \/ ReadClock(u) \/ ListUnits(u)
    \/ ReadStart(u) \/ ReadExit(u) \/ Conclude(u) \/ CompareExchange(u) \/ Wake(u)
    \/ LoseReply(u)

Next ==
    \/ \E u \in Unit : \/ Step(u) \/ Fail(u) \/ Activate(u) \/ MainStart(u)
                       \/ MainExit(u) \/ Stop(u)
    \/ SetLoad
    \/ Tick

\* Helpers are run, systemd starts what it was cleared to start, jobs end.
Fairness ==
    /\ \A u \in Unit : WF_vars(Step(u)) /\ WF_vars(MainStart(u)) /\ WF_vars(MainExit(u))
    /\ WF_vars(Tick)

Spec == Init /\ [][Next]_vars
FairSpec == Spec /\ Fairness

-----------------------------------------------------------------------------
TypeOK ==
    /\ clock \in Nat
    /\ loadHigh \in BOOLEAN
    /\ shm \in Bundles
    /\ state \in [Unit -> {"dead", "start-pre"} \cup Running]
    /\ startTS \in [Unit -> Nat]
    /\ exitTS \in [Unit -> Nat]
    /\ runs \in [Unit -> Nat]
    /\ pc \in [Unit -> {"none", "setup", "exit0"} \cup InLoop]
    /\ wake \in [Unit -> Nat]
    /\ last \in [Unit -> Bundles]
    /\ now \in [Unit -> Nat]
    /\ todo \in [Unit -> SUBSET Unit]
    /\ cur \in [Unit -> Unit \cup {NoUnit}]
    /\ startSeen \in [Unit -> Nat]
    /\ need \in [Unit -> Nat]
    /\ lost \in Nat

\* The helper and systemd are quick enough for a dispatched job to be seen
\* running by whoever looks FREQ later: the "stabilise for 5s" of the code.
Prompt == \A u \in Unit : MaxLatency + (Grain - 1) <= FREQ[u]

\* "no two jobs can run concurrently": the main processes of two units of
\* one group never exist at the same time, as long as systemd answers.
MutualExclusion ==
    lost = 0 => \A u \in Unit : \A v \in Others(u) : ~(state[u] \in Running /\ state[v] \in Running)

Apart ==
    \A u \in Unit : \A v \in Others(u) :
        startTS[u] > 0 /\ exitTS[v] > 0 /\ exitTS[v] <= startTS[u]
            => startTS[u] - exitTS[v] >= BLANK

\* "no job is started within 5 minutes of another exiting", as long as systemd
\* answers.
Blanking == lost = 0 => Apart

\* Whoever is held back by the group is eventually let go: units in
\* start-pre do not wait for each other, and nobody sleeps for ever, whatever
\* replies are lost.
GroupDrains ==
    \A u \in Unit :
        (clock >= Settle /\ state[u] = "start-pre" /\ ~LoadTooHigh(u))
            ~> state[u] # "start-pre"

-----------------------------------------------------------------------------
(* The inductive invariant behind MutualExclusion and Blanking. *)

\* systemd's book-keeping, and where a helper exists.
UnitInv ==
    \A u \in Unit :
        /\ pc[u] = "none" <=> state[u] # "start-pre"
        /\ startTS[u] <= clock /\ exitTS[u] <= clock
        /\ state[u] \in Running => startTS[u] > 0 /\ exitTS[u] = 0
        /\ state[u] \notin Running => startTS[u] <= exitTS[u]

\* What a helper that is looking, or has just exited, knows of the time and
\* of the shared word; no query outlives its iteration.
HelperInv ==
    \A u \in Unit :
        /\ pc[u] \in Looking \cup {"exit0"} =>
               now[u] <= clock /\ clock <= now[u] + MaxLatency /\ now[u] > FREQ[u]
        /\ pc[u] \in Looking => now[u] - last[u].time > FREQ[u]
        /\ pc[u] \in Looking \cup {"clock"} => last[u].time <= shm.time
        /\ pc[u] = "exit0" => Stored(now[u]) <= shm.time
        /\ pc[u] # "query" => cur[u] = NoUnit

\* While the word is still the one u loaded, what u has heard of the other
\* members stays true.
QueryInv ==
    \A u \in Unit : pc[u] \in {"query", "cas"} /\ last[u] = shm =>
        /\ pc[u] = "cas" => todo[u] = {} /\ cur[u] = NoUnit /\ need[u] = 0
        /\ \A v \in Others(u) :
            /\ state[v] # "start"
            /\ v = cur[u] /\ state[v] = "stopping" => startSeen[u] = startTS[v]
            /\ v \notin todo[u] /\ v # cur[u] =>
                   /\ state[v] \notin Running
                   /\ need[u] = 0 => exitTS[v] + BLANK <= now[u]

\* u's job runs, or systemd is about to start it.
Holder(u) == pc[u] = "exit0" \/ state[u] \in Running

HolderInv ==
    \A u \in Unit : \A v \in Others(u) :
        /\ Holder(u) => ~Holder(v)
        /\ pc[u] = "exit0" => exitTS[v] + BLANK <= now[u]
        /\ state[u] \in Running => exitTS[v] + BLANK <= startTS[u]

GroupInv == TypeOK /\ UnitInv /\ HelperInv /\ (lost = 0 => QueryInv /\ HolderInv /\ Apart)

=============================================================================
