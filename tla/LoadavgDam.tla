----------------------------- MODULE LoadavgDam -----------------------------
(***************************************************************************)
(* loadavg_dam: the ExecStartPre= helper behind CRON_BATCH_LOADAVG_BELOW.  *)
(*                                                                         *)
(* Every waiting cron job is a process running the loop of                 *)
(* src/src/bin/loadavg_dam.cpp.  There is no scheduler: the processes      *)
(* share one 64-bit word in /dev/shm (shmemutil.hpp), which holds who was  *)
(* dispatched last and when, and whoever swaps it first is dispatched.     *)
(*                                                                         *)
(* Time is an explicit integer clock, the CLOCK_MONOTONIC_COARSE all the   *)
(* processes read.  A process may be delayed between any two of its steps, *)
(* but an iteration of its loop is over MaxDelay after it was due.         *)
(***************************************************************************)
EXTENDS Integers, FiniteSets

CONSTANTS
    Proc,       \* the loadavg_dam processes (one per pending job)
    NoProc,     \* the all-zero last_winner of a freshly truncated word
    Target,     \* Target[p]: the double strtod() made of p's argument
    ParseErr,   \* ParseErr[p]: vore::parse_floating() reported an error
    Loads,      \* the values the 1-minute load average takes
    NoLoad,     \* getloadavg() != 1
    GAP,        \* 30 s, between two dispatches
    POLL,       \* 5 s, between two iterations of the loop
    Grain,      \* what last_time_won_subsec truncates the time to
    MaxDelay,   \* bound: the longest an iteration takes, preemption included
    Settle,     \* bound: jobs arrive and the load changes before this time
    MaxTime     \* bound: the clock stops here

ASSUME ProcAssumption  == NoProc \notin Proc
ASSUME ArgAssumption   == /\ Target \in [Proc -> Int]
                          /\ ParseErr \in [Proc -> BOOLEAN]
                          /\ Loads \subseteq Int
                          /\ NoLoad \notin Int
ASSUME ClockAssumption == /\ GAP \in Nat
                          /\ POLL \in Nat
                          /\ Grain \in 1 .. GAP
                          /\ MaxDelay \in Nat
                          /\ Settle \in Nat
                          /\ MaxTime \in Nat

VARIABLES
    clock,      \* CLOCK_MONOTONIC_COARSE
    load,       \* what getloadavg() would return
    shm,        \* the word of /systemd-cron.loadavg_dam
    pc,         \* where each process is in main()
    wake,       \* when the current iteration was due to begin
    last, now,  \* the locals of main()
    won         \* history: when the process was dispatched

vars == <<clock, load, shm, pc, wake, last, now, won>>

-----------------------------------------------------------------------------
(* shmemutil.hpp *)

\* The time a bundle keeps of `now`: last_time_won_subsec has ten bits.
Stored(t) == (t \div Grain) * Grain

\* Slip: a first word GAP in the past, lest the first job wait at boot; the
\* fields of the word are unsigned.
ZeroBundle_Past == [winner |-> NoProc, time |-> 0 - GAP]

\* What map() finds in the file the first ftruncate() extends.
ZeroBundle == [winner |-> NoProc, time |-> 0]

Bundle(p, t) == [winner |-> p, time |-> Stored(t)]

Bundles == [winner : Proc \cup {NoProc}, time : Nat]

-----------------------------------------------------------------------------
Busy    == {"load", "clock", "getload", "cas"}
Waiting == Busy \cup {"sleep"}
Done    == {"exit0", "exit1", "killed"}

\* The locals of the loop body are gone when an iteration ends.
Forget(p) ==
    /\ last' = [last EXCEPT ![p] = ZeroBundle]
    /\ now' = [now EXCEPT ![p] = 0]

\* for(...;; sleep(5)): every `continue` of the loop body.
Sleep(p) ==
    /\ pc' = [pc EXCEPT ![p] = "sleep"]
    /\ wake' = [wake EXCEPT ![p] = clock + POLL]
    /\ Forget(p)

\* The arguments main() turns away: a conversion error only when the number
\* is not positive either.
Refused(p) == ParseErr[p] /\ Target[p] <= 0

Init ==
    /\ clock = 0
    /\ load \in Loads \cup {NoLoad}
    /\ shm = ZeroBundle
    /\ pc = [p \in Proc |-> "start"]
    /\ wake = [p \in Proc |-> 0]
    /\ last = [p \in Proc |-> ZeroBundle]
    /\ now = [p \in Proc |-> 0]
    /\ won = [p \in Proc |-> 0]

\* main() up to the loop: the argument, then bundle::map(), any call of which
\* may fail and end the process (and with it the unit's start).
Start(p) ==
    /\ pc[p] = "start" /\ clock < Settle
    /\ \/ pc' = [pc EXCEPT ![p] = "exit1"]
       \/ ~Refused(p) /\ pc' = [pc EXCEPT ![p] = "load"]
    /\ wake' = [wake EXCEPT ![p] = clock]
    /\ UNCHANGED <<clock, load, shm, last, now, won>>

LoadShm(p) ==
    /\ pc[p] = "load"
    /\ last' = [last EXCEPT ![p] = shm]
    /\ pc' = [pc EXCEPT ![p] = "clock"]
    /\ UNCHANGED <<clock, load, shm, wake, now, won>>

\* Slip: >= where the code has >.
ReadClock_Inclusive(p) ==
    /\ pc[p] = "clock"
    /\ \/ /\ clock - last[p].time >= GAP
          /\ now' = [now EXCEPT ![p] = clock]
          /\ pc' = [pc EXCEPT ![p] = "getload"]
          /\ UNCHANGED <<wake, last>>
       \/ /\ clock - last[p].time < GAP
          /\ Sleep(p)
    /\ UNCHANGED <<clock, load, shm, won>>

\* clock_gettime() and the test of the 30 s since the last dispatch.
ReadClock(p) ==
    /\ pc[p] = "clock"
    /\ \/ /\ clock - last[p].time > GAP
          /\ now' = [now EXCEPT ![p] = clock]
          /\ pc' = [pc EXCEPT ![p] = "getload"]
          /\ UNCHANGED <<wake, last>>
       \/ /\ ~(clock - last[p].time > GAP)
          /\ Sleep(p)
    /\ UNCHANGED <<clock, load, shm, won>>

\* The negation of "load too high".
LowEnough(p) == load # NoLoad /\ load <= Target[p]

CheckLoad(p) ==
    /\ pc[p] = "getload"
    /\ \/ ~LowEnough(p) /\ Sleep(p)
       \/ LowEnough(p) /\ pc' = [pc EXCEPT ![p] = "cas"] /\ UNCHANGED <<wake, last, now>>
    /\ UNCHANGED <<clock, load, shm, won>>

\* Slip: the loop goes on after the slot was taken.
Win_NoBreak(p) ==
    /\ shm' = Bundle(p, now[p])
    /\ Sleep(p)
    /\ UNCHANGED won

\* compare_exchange_strong() succeeds, main() returns: p is dispatched.
Win(p) ==
    /\ shm' = Bundle(p, now[p])
    /\ pc' = [pc EXCEPT ![p] = "exit0"]
    /\ won' = [won EXCEPT ![p] = clock]
    /\ last' = [last EXCEPT ![p] = ZeroBundle]
    /\ UNCHANGED <<wake, now>>

\* Slip: a plain store in place of the compare-and-exchange.
CompareExchange_Store(p) ==
    /\ pc[p] = "cas"
    /\ Win(p)
    /\ UNCHANGED <<clock, load>>

\* Slip: a lost race ends the process instead of sending it back to sleep.
CompareExchange_GiveUp(p) ==
    /\ pc[p] = "cas"
    /\ \/ shm = last[p] /\ Win(p)
       \/ /\ shm # last[p]
          /\ pc' = [pc EXCEPT ![p] = "exit1"]
          /\ Forget(p)
          /\ UNCHANGED <<shm, wake, won>>
    /\ UNCHANGED <<clock, load>>

CompareExchange(p) ==
    /\ pc[p] = "cas"
    /\ \/ shm = last[p] /\ Win(p)
       \/ shm # last[p] /\ Sleep(p) /\ UNCHANGED <<shm, won>>
    /\ UNCHANGED <<clock, load>>

Wake(p) ==
    /\ pc[p] = "sleep" /\ clock >= wake[p]
    /\ pc' = [pc EXCEPT ![p] = "load"]
    /\ UNCHANGED <<clock, load, shm, wake, last, now, won>>

\* systemctl stop of the unit whose ExecStartPre= this is.
Kill(p) ==
    /\ pc[p] \in Waiting
    /\ pc' = [pc EXCEPT ![p] = "killed"]
    /\ Forget(p)
    /\ UNCHANGED <<clock, load, shm, wake, won>>

\* The environment: the system's load, and time itself, which passes only
\* while no process is later than MaxDelay.
SetLoad ==
    /\ clock < Settle
    /\ load' \in (Loads \cup {NoLoad}) \ {load}
    /\ UNCHANGED <<clock, shm, pc, wake, last, now, won>>

Tick ==
    /\ clock < MaxTime
    /\ \A p \in Proc : pc[p] \in Waiting => clock < wake[p] + MaxDelay
    /\ clock' = clock + 1
    /\ UNCHANGED <<load, shm, pc, wake, last, now, won>>

Step(p) ==
    LoadShm(p) \/ ReadClock(p) \/ CheckLoad(p) \/ CompareExchange(p) \/ Wake(p)

Next ==
    \/ \E p \in Proc : Start(p) \/ Step(p) \/ Kill(p)
    \/ SetLoad
    \/ Tick

\* The kernel runs every runnable process and time does not stop.  Nothing
\* is asked of the arrivals, the load or the administrator.
Fairness ==
    /\ \A p \in Proc : WF_vars(Step(p))
    /\ WF_vars(Tick)

Spec == Init /\ [][Next]_vars
FairSpec == Spec /\ Fairness

-----------------------------------------------------------------------------
Dispatched == {p \in Proc : pc[p] = "exit0"}

TypeOK ==
    /\ clock \in Nat
    /\ load \in Loads \cup {NoLoad}
    /\ shm \in Bundles
    /\ pc \in [Proc -> {"start"} \cup Waiting \cup Done]
    /\ wake \in [Proc -> Nat]
    /\ last \in [Proc -> Bundles]
    /\ now \in [Proc -> Nat]
    /\ won \in [Proc -> Nat]

\* "scheduling a random eligible job every at-least-30 seconds": the times
\* two dispatched processes read from the clock are more than GAP apart, up
\* to the part of the last second the shared word cannot hold.
RecordedSpacing ==
    \A p, q \in Dispatched :
        p # q /\ now[p] <= now[q] => now[q] - now[p] > GAP - (Grain - 1)

\* The time recorded was read before the load was, so the instants at which
\* jobs really leave the dam may be closer by as long as that took, never by
\* more, whatever order the processes ran in.
DispatchSpacing ==
    \A p, q \in Dispatched :
        p # q /\ now[p] <= now[q] => won[q] - won[p] > GAP - (Grain - 1) - MaxDelay

\* The shared word only moves forward: each exchange installs a later time
\* than the one it replaces.  This is what makes comparing the whole word a
\* sound test for "nobody was dispatched since I looked" (no ABA), without
\* relying on process ids being distinct.
SlotMovesForward == [][shm' # shm => shm'.time > shm.time]_vars

\* The word names a process that really was dispatched, at the time it read:
\* no slot is consumed by a process that then waits for another one.
SlotHeldByDispatched ==
    shm # ZeroBundle =>
        /\ shm.winner \in Dispatched
        /\ shm.time = Stored(now[shm.winner])

\* Nobody is left in the dam: once the load stays at or below a waiting
\* job's threshold, the job is dispatched (or stopped by the administrator),
\* however many others compete with it and however often it loses the race.
DamDrains ==
    \A p \in Proc :
        (clock >= Settle /\ LowEnough(p) /\ pc[p] \in Waiting)
            ~> pc[p] \in {"exit0", "killed"}

-----------------------------------------------------------------------------
(* The inductive invariant behind the spacing of dispatches. *)

\* No iteration outlasts MaxDelay, and a process past the test of the clock
\* holds a reading of this iteration that is GAP past the word it loaded.
Timely ==
    \A p \in Proc :
        /\ pc[p] \in Waiting => clock <= wake[p] + MaxDelay
        /\ pc[p] \in Busy => wake[p] <= clock
        /\ pc[p] \in {"getload", "cas"} => /\ wake[p] <= now[p] /\ now[p] <= clock
                                           /\ now[p] - last[p].time > GAP

\* Every dispatched process read the clock at most MaxDelay before it won,
\* and nobody won after the one the shared word records.
WinnersRecorded ==
    \A p \in Dispatched :
        /\ now[p] <= won[p] /\ won[p] <= now[p] + MaxDelay
        /\ Stored(now[p]) <= shm.time

SpacingInv == TypeOK /\ Timely /\ WinnersRecorded /\ RecordedSpacing

=============================================================================
