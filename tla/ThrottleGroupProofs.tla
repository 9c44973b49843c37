------------------------- MODULE ThrottleGroupProofs -------------------------
(***************************************************************************)
(* For any units, groups and time constants: when the helper and systemd   *)
(* together are quicker than the stabilisation time (Prompt) and systemd   *)
(* answers every call, the two promises of CRON_BATCH_THROTTLE_GROUP hold.                             *)
(***************************************************************************)
EXTENDS ThrottleGroup, TLAPS

\* What ten bits of sub-second keep of a time: at most Grain - 1 is lost.
LEMMA StoredBounds ==
    ASSUME NEW t \in Nat
    PROVE  Stored(t) \in Nat /\ Stored(t) <= t /\ t - Stored(t) <= Grain - 1
<1>1. Grain \in Nat /\ Grain >= 1
  BY TimeAssumption
<1>2. (t \div Grain) \in Nat /\ (t \div Grain) * Grain <= t /\ (t \div Grain) * Grain > t - Grain
  BY <1>1, Z3
<1>3. (t \div Grain) * Grain \in Nat
  BY <1>1, <1>2, Z3
<1> QED  BY <1>1, <1>2, <1>3 DEF Stored

\* A freshly booted system is well typed.
LEMMA TypeInitially == Init => TypeOK
  BY TimeAssumption DEF Init, TypeOK, ZeroBundle, Bundles, Running, Looking, InLoop

\* The all-zero word is a bundle.
LEMMA ZeroTyped == ZeroBundle \in Bundles
  BY DEF ZeroBundle, Bundles

\* Every step keeps the units and the helpers' locals well typed.
LEMMA TypeInductive ==
    TypeOK /\ [Next]_vars => TypeOK'
<1> SUFFICES ASSUME TypeOK, [Next]_vars PROVE TypeOK'
  OBVIOUS
<1> USE TimeAssumption, UnitAssumption, ZeroTyped DEF TypeOK, Running, Looking, InLoop
<1>1. ASSUME NEW u \in Unit, Setup(u) PROVE TypeOK'
  BY <1>1 DEF Setup, Goto, systemdVars, queryVars
<1>2. ASSUME NEW u \in Unit, CheckLoad(u) PROVE TypeOK'
  BY <1>2, SMTT(30) DEF CheckLoad, Goto, Sleep, Forget, systemdVars, queryVars
<1>3. ASSUME NEW u \in Unit, LoadShm(u) PROVE TypeOK'
  BY <1>3 DEF LoadShm, Goto, systemdVars, queryVars
<1>4. ASSUME NEW u \in Unit, ReadClock(u) PROVE TypeOK'
  BY <1>4 DEF ReadClock, Goto, Sleep, Forget, systemdVars, queryVars
<1>5. ASSUME NEW u \in Unit, ListUnits(u) PROVE TypeOK'
  <2>1. Others(u) \in SUBSET Unit
    BY DEF Others
  <2> QED
    BY <2>1, <1>5, SMTT(30) DEF ListUnits, Goto, Sleep, Forget, systemdVars, queryVars
<1>6. ASSUME NEW u \in Unit, ReadStart(u) PROVE TypeOK'
  BY <1>6 DEF ReadStart, Goto, systemdVars, queryVars
<1>7. ASSUME NEW u \in Unit, ReadExit(u) PROVE TypeOK'
  BY <1>7, SMTT(30) DEF ReadExit, Goto, Sleep, Forget, Larger, systemdVars, queryVars
<1>8. ASSUME NEW u \in Unit, Conclude(u) PROVE TypeOK'
  BY <1>8, SMTT(30) DEF Conclude, Goto, Sleep, Forget, systemdVars, queryVars
<1>9. ASSUME NEW u \in Unit, CompareExchange(u) PROVE TypeOK'
  <2>1. Bundle(u, now[u]) \in Bundles
    BY StoredBounds DEF Bundle, Bundles
  <2> QED
    BY <2>1, <1>9, SMTT(30) DEF CompareExchange, Goto, Sleep, Forget, systemdVars, queryVars
<1>10. ASSUME NEW u \in Unit, Wake(u) PROVE TypeOK'
  BY <1>10 DEF Wake, Goto, systemdVars, queryVars
<1>11. ASSUME NEW u \in Unit, Fail(u) PROVE TypeOK'
  BY <1>11 DEF Fail, Goto, Abort, Forget, systemdVars, queryVars
<1>12. ASSUME NEW u \in Unit, Activate(u) PROVE TypeOK'
  BY <1>12 DEF Activate, Goto, systemdVars, queryVars
<1>13. ASSUME NEW u \in Unit, MainStart(u) PROVE TypeOK'
  BY <1>13 DEF MainStart, Goto, Forget, systemdVars, queryVars
<1>14. ASSUME NEW u \in Unit, MainExit(u) PROVE TypeOK'
  BY <1>14 DEF MainExit, Goto, systemdVars, queryVars
<1>15. ASSUME NEW u \in Unit, Stop(u) PROVE TypeOK'
  BY <1>15 DEF Stop, Goto, Abort, Forget, systemdVars, queryVars
<1>16. CASE SetLoad
  BY <1>16 DEF SetLoad, systemdVars, queryVars
<1>17. CASE Tick
  BY <1>17 DEF Tick, OnTime, systemdVars, queryVars
<1>18. CASE UNCHANGED vars
  BY <1>18 DEF vars, systemdVars, queryVars
<1>19. ASSUME NEW u \in Unit, LoseReply(u) PROVE TypeOK'
  BY <1>19 DEF LoseReply, Others, Goto, systemdVars
<1> QED
  BY <1>1, <1>2, <1>3, <1>4, <1>5, <1>6, <1>7, <1>8, <1>9, <1>10, <1>11, <1>12, <1>13, <1>14, <1>15, <1>16, <1>17, <1>18, <1>19 DEF Next, Step

\* The type invariant of throttle_group and of systemd's units (TypeOK).
THEOREM TypeCorrect == Spec => []TypeOK
  BY TypeInitially, TypeInductive, PTL DEF Spec

-----------------------------------------------------------------------------
\* The other members of a group: not oneself, and symmetric.
LEMMA OthersFacts ==
    \A u, v \in Unit : v \in Others(u) <=> (u \in Others(v) /\ u # v)
  BY DEF Others

\* systemd's time stamps and states stay consistent.
LEMMA UnitInductive ==
    TypeOK /\ TypeOK' /\ UnitInv /\ HelperInv /\ [Next]_vars => UnitInv'
<1> SUFFICES ASSUME TypeOK, TypeOK', UnitInv, HelperInv, [Next]_vars PROVE UnitInv'
  OBVIOUS
<1> USE TimeAssumption, UnitAssumption DEF TypeOK, Running, Looking, InLoop, UnitInv, HelperInv
<1>1. ASSUME NEW u \in Unit, Setup(u) PROVE UnitInv'
  BY <1>1 DEF Setup, Goto, systemdVars, queryVars
<1>2. ASSUME NEW u \in Unit, CheckLoad(u) PROVE UnitInv'
  BY <1>2 DEF CheckLoad, Goto, Sleep, Forget, systemdVars, queryVars
<1>3. ASSUME NEW u \in Unit, LoadShm(u) PROVE UnitInv'
  BY <1>3 DEF LoadShm, Goto, systemdVars, queryVars
<1>4. ASSUME NEW u \in Unit, ReadClock(u) PROVE UnitInv'
  BY <1>4 DEF ReadClock, Goto, Sleep, Forget, systemdVars, queryVars
<1>5. ASSUME NEW u \in Unit, ListUnits(u) PROVE UnitInv'
  BY <1>5 DEF ListUnits, Goto, Sleep, Forget, systemdVars, queryVars
<1>6. ASSUME NEW u \in Unit, ReadStart(u) PROVE UnitInv'
  BY <1>6 DEF ReadStart, Goto, systemdVars, queryVars
<1>7. ASSUME NEW u \in Unit, ReadExit(u) PROVE UnitInv'
  BY <1>7 DEF ReadExit, Goto, Sleep, Forget, Larger, systemdVars, queryVars
<1>8. ASSUME NEW u \in Unit, Conclude(u) PROVE UnitInv'
  BY <1>8 DEF Conclude, Goto, Sleep, Forget, systemdVars, queryVars
<1>9. ASSUME NEW u \in Unit, CompareExchange(u) PROVE UnitInv'
  BY <1>9 DEF CompareExchange, Goto, Sleep, Forget, Bundle, systemdVars, queryVars
<1>10. ASSUME NEW u \in Unit, Wake(u) PROVE UnitInv'
  BY <1>10 DEF Wake, Goto, systemdVars, queryVars
<1>11. ASSUME NEW u \in Unit, Fail(u) PROVE UnitInv'
  BY <1>11 DEF Fail, Goto, Abort, Forget, systemdVars, queryVars
<1>12. ASSUME NEW u \in Unit, Activate(u) PROVE UnitInv'
  BY <1>12 DEF Activate, Goto, systemdVars, queryVars
<1>13. ASSUME NEW u \in Unit, MainStart(u) PROVE UnitInv'
  BY <1>13 DEF MainStart, Goto, Forget, systemdVars, queryVars
<1>14. ASSUME NEW u \in Unit, MainExit(u) PROVE UnitInv'
  BY <1>14 DEF MainExit, Goto, systemdVars, queryVars
<1>15. ASSUME NEW u \in Unit, Stop(u) PROVE UnitInv'
  BY <1>15 DEF Stop, Goto, Abort, Forget, systemdVars, queryVars
<1>16. CASE SetLoad
  BY <1>16 DEF SetLoad, systemdVars, queryVars
<1>17. CASE Tick
  BY <1>17 DEF Tick, OnTime, systemdVars, queryVars
<1>18. CASE UNCHANGED vars
  BY <1>18 DEF vars, systemdVars, queryVars
<1>19. ASSUME NEW u \in Unit, LoseReply(u) PROVE UnitInv'
  BY <1>19 DEF LoseReply, Goto, systemdVars
<1> QED
  BY <1>1, <1>2, <1>3, <1>4, <1>5, <1>6, <1>7, <1>8, <1>9, <1>10, <1>11, <1>12, <1>13, <1>14, <1>15, <1>16, <1>17, <1>18, <1>19 DEF Next, Step

\* What a helper knows of the time and of the word stays true.
LEMMA HelperInductive ==
    TypeOK /\ TypeOK' /\ UnitInv /\ HelperInv /\ [Next]_vars => HelperInv'
<1> SUFFICES ASSUME TypeOK, TypeOK', UnitInv, HelperInv, [Next]_vars PROVE HelperInv'
  OBVIOUS
<1> USE TimeAssumption, UnitAssumption DEF TypeOK, Running, Looking, InLoop, HelperInv, Bundles
<1>1. ASSUME NEW u \in Unit, Setup(u) PROVE HelperInv'
  BY <1>1 DEF Setup, Goto, systemdVars, queryVars
<1>2. ASSUME NEW u \in Unit, CheckLoad(u) PROVE HelperInv'
  BY <1>2 DEF CheckLoad, Goto, Sleep, Forget, systemdVars, queryVars
<1>3. ASSUME NEW u \in Unit, LoadShm(u) PROVE HelperInv'
  BY <1>3 DEF LoadShm, Goto, systemdVars, queryVars
<1>4. ASSUME NEW u \in Unit, ReadClock(u) PROVE HelperInv'
  <2>0. last[u].time \in Nat /\ clock \in Nat /\ FREQ[u] \in Nat
    OBVIOUS
  <2>1. CASE clock - last[u].time > FREQ[u]
    <3>1. /\ now' = [now EXCEPT ![u] = clock] /\ pc' = [pc EXCEPT ![u] = "list"]
          /\ UNCHANGED <<clock, shm, last, cur>>
      BY <2>1, <1>4 DEF ReadClock, Goto, queryVars
    <3> QED  BY <2>0, <2>1, <3>1, <1>4 DEF ReadClock
  <2>2. CASE ~(clock - last[u].time > FREQ[u])
    BY <2>2, <1>4 DEF ReadClock, Goto, Sleep, Forget
  <2> QED  BY <2>1, <2>2
<1>5. ASSUME NEW u \in Unit, ListUnits(u) PROVE HelperInv'
  BY <1>5 DEF ListUnits, Goto, Sleep, Forget, systemdVars, queryVars
<1>6. ASSUME NEW u \in Unit, ReadStart(u) PROVE HelperInv'
  BY <1>6 DEF ReadStart, Goto, systemdVars, queryVars
<1>7. ASSUME NEW u \in Unit, ReadExit(u) PROVE HelperInv'
  BY <1>7 DEF ReadExit, Goto, Sleep, Forget, Larger, systemdVars, queryVars
<1>8. ASSUME NEW u \in Unit, Conclude(u) PROVE HelperInv'
  BY <1>8 DEF Conclude, Goto, Sleep, Forget, systemdVars, queryVars
<1>9. ASSUME NEW u \in Unit, CompareExchange(u) PROVE HelperInv'
  <2>1. CASE shm = last[u]
    <3>1. now[u] \in Nat /\ shm.time \in Nat /\ shm'.time = Stored(now[u]) /\ now[u] - shm.time > FREQ[u]
      BY <2>1, <1>9 DEF CompareExchange, Bundle, Bundles
    <3>2. shm.time <= shm'.time
      BY <3>1, StoredBounds
    <3>3. \A w \in Unit : last[w].time \in Nat /\ Stored(now[w]) \in Nat
      BY StoredBounds DEF Bundles
    <3>4. shm'.time \in Nat
      BY DEF Bundles
    <3>5. /\ pc' = [pc EXCEPT ![u] = "exit0"]
          /\ UNCHANGED <<clock, last, now, cur>>
      BY <2>1, <1>9 DEF CompareExchange, Goto, queryVars
    <3> QED
      BY <2>1, <3>1, <3>2, <3>3, <3>4, <3>5, <1>9 DEF CompareExchange
  <2>2. CASE shm # last[u]
    BY <2>2, <1>9 DEF CompareExchange, Goto, Sleep, Forget, systemdVars, queryVars
  <2> QED  BY <2>1, <2>2
<1>10. ASSUME NEW u \in Unit, Wake(u) PROVE HelperInv'
  BY <1>10 DEF Wake, Goto, systemdVars, queryVars
<1>11. ASSUME NEW u \in Unit, Fail(u) PROVE HelperInv'
  BY <1>11 DEF Fail, Goto, Abort, Forget, systemdVars, queryVars
<1>12. ASSUME NEW u \in Unit, Activate(u) PROVE HelperInv'
  BY <1>12, SMTT(30) DEF Activate, UnitInv, Goto, systemdVars, queryVars
<1>13. ASSUME NEW u \in Unit, MainStart(u) PROVE HelperInv'
  BY <1>13 DEF MainStart, Goto, Forget, systemdVars, queryVars
<1>14. ASSUME NEW u \in Unit, MainExit(u) PROVE HelperInv'
  BY <1>14 DEF MainExit, Goto, systemdVars, queryVars
<1>15. ASSUME NEW u \in Unit, Stop(u) PROVE HelperInv'
  BY <1>15 DEF Stop, Goto, Abort, Forget, systemdVars, queryVars
<1>16. CASE SetLoad
  BY <1>16 DEF SetLoad, systemdVars, queryVars
<1>17. CASE Tick
  BY <1>17 DEF Tick, OnTime, systemdVars, queryVars
<1>18. CASE UNCHANGED vars
  BY <1>18 DEF vars, systemdVars, queryVars
<1>19. ASSUME NEW u \in Unit, LoseReply(u) PROVE HelperInv'
  BY <1>19 DEF LoseReply, Goto, systemdVars
<1> QED
  BY <1>1, <1>2, <1>3, <1>4, <1>5, <1>6, <1>7, <1>8, <1>9, <1>10, <1>11, <1>12, <1>13, <1>14, <1>15, <1>16, <1>17, <1>18, <1>19 DEF Next, Step

\* Whoever looks at the group FREQ after the last dispatch, and finds the word
\* as it was, finds no job that was dispatched and is not started yet.
LEMMA NoneCleared ==
    ASSUME Prompt, TypeOK, HelperInv, NEW u \in Unit, NEW v \in Unit,
           pc[u] \in Looking, last[u] = shm
    PROVE  pc[v] # "exit0"
<1> SUFFICES ASSUME pc[v] = "exit0" PROVE FALSE
  OBVIOUS
<1>1. now[v] - Stored(now[v]) <= Grain - 1 /\ Stored(now[v]) \in Nat /\ now[v] \in Nat
  BY StoredBounds DEF TypeOK
<1>2. /\ Stored(now[v]) <= shm.time /\ clock <= now[v] + MaxLatency
      /\ now[u] - shm.time > FREQ[u] /\ now[u] <= clock
  BY DEF HelperInv
<1>3. {now[u], shm.time, clock} \subseteq Nat
  BY DEF TypeOK, Bundles
<1>4. MaxLatency + (Grain - 1) <= FREQ[u] /\ FREQ[u] \in Nat
  BY TimeAssumption DEF Prompt
<1> QED  BY <1>1, <1>2, <1>3, <1>4, TimeAssumption

\* A successful exchange makes every other helper's copy of the word stale.
LEMMA ExchangeInvalidates ==
    ASSUME TypeOK, TypeOK', HelperInv, NEW u \in Unit, CompareExchange(u), shm = last[u],
           NEW w \in Unit, w # u, pc[w] \in Looking
    PROVE  last'[w] # shm'
<1>1. now[u] \in Nat /\ shm.time \in Nat /\ shm'.time = Stored(now[u]) /\ now[u] - shm.time > FREQ[u]
  BY DEF CompareExchange, Bundle, Bundles, TypeOK, HelperInv, Looking
<1>2. last[w].time <= shm.time /\ last[w].time \in Nat
  BY DEF HelperInv, TypeOK, Bundles
<1>3. shm'.time > shm.time
  BY <1>1, StoredBounds, TimeAssumption
<1>4. last'[w] = last[w]
  BY DEF CompareExchange, TypeOK
<1> QED  BY <1>1, <1>2, <1>3, <1>4

\* What a helper has heard of the group stays true while the word is unchanged.
LEMMA QueryInductive ==
    lost' = 0 /\ Prompt /\ TypeOK /\ TypeOK' /\ UnitInv /\ HelperInv /\ QueryInv /\ [Next]_vars => QueryInv'
<1> SUFFICES ASSUME lost' = 0, Prompt, TypeOK, TypeOK', UnitInv, HelperInv, QueryInv, [Next]_vars PROVE QueryInv'
  OBVIOUS
<1> USE TimeAssumption, UnitAssumption, OthersFacts DEF TypeOK, Running, Looking, InLoop, UnitInv, QueryInv
<1>1. ASSUME NEW u \in Unit, Setup(u) PROVE QueryInv'
  BY <1>1 DEF Setup, Goto, systemdVars, queryVars
<1>2. ASSUME NEW u \in Unit, CheckLoad(u) PROVE QueryInv'
  BY <1>2 DEF CheckLoad, Goto, Sleep, Forget, systemdVars, queryVars
<1>3. ASSUME NEW u \in Unit, LoadShm(u) PROVE QueryInv'
  BY <1>3 DEF LoadShm, Goto, systemdVars, queryVars
<1>4. ASSUME NEW u \in Unit, ReadClock(u) PROVE QueryInv'
  BY <1>4 DEF ReadClock, Goto, Sleep, Forget, systemdVars, queryVars
<1>5. ASSUME NEW u \in Unit, ListUnits(u) PROVE QueryInv'
  <2>1. CASE \E v \in Others(u) : state[v] = "start"
    <3>1. pc' = [pc EXCEPT ![u] = "sleep"] /\ \A w \in Unit \ {u} : /\ last'[w] = last[w] /\ now'[w] = now[w]
             /\ todo'[w] = todo[w] /\ cur'[w] = cur[w] /\ startSeen'[w] = startSeen[w] /\ need'[w] = need[w]
      BY <2>1, <1>5 DEF ListUnits, Goto, Sleep, Forget
    <3> QED  BY <3>1, <1>5 DEF ListUnits, systemdVars
  <2>2. CASE \A v \in Others(u) : state[v] # "start"
    <3>1. todo' = [todo EXCEPT ![u] = Others(u)] /\ pc' = [pc EXCEPT ![u] = "query"]
          /\ UNCHANGED <<shm, state, startTS, exitTS, last, now, cur, startSeen, need>>
      BY <2>2, <1>5 DEF ListUnits, Goto, systemdVars
    <3>2. cur[u] = NoUnit
      BY <1>5 DEF ListUnits, HelperInv
    <3>3. \A v \in Others(u) : v \in todo'[u] /\ state'[v] # "start" /\ v # cur'[u]
      BY <2>2, <3>1, <3>2, UnitAssumption DEF Others
    <3> QED  BY <3>1, <3>3
  <2> QED  BY <2>1, <2>2
<1>6. ASSUME NEW u \in Unit, ReadStart(u) PROVE QueryInv'
  <2>1. PICK v \in todo[u] : /\ todo' = [todo EXCEPT ![u] = @ \ {v}]
                              /\ cur' = [cur EXCEPT ![u] = v]
                              /\ startSeen' = [startSeen EXCEPT ![u] = startTS[v]]
    BY <1>6 DEF ReadStart
  <2>2. cur[u] = NoUnit /\ pc[u] = "query" /\ UNCHANGED <<shm, state, startTS, exitTS, pc, last, now, need>>
    BY <1>6 DEF ReadStart, systemdVars
  <2>3. v \in Unit /\ cur'[u] = v /\ startSeen'[u] = startTS[v] /\ todo'[u] = todo[u] \ {v}
    BY <2>1
  <2>4. \A w \in Unit \ {u} : todo'[w] = todo[w] /\ cur'[w] = cur[w] /\ startSeen'[w] = startSeen[w]
    BY <2>1
  <2>5. \A w \in Others(u) : w # NoUnit /\ w \in Unit
    BY UnitAssumption DEF Others
  <2> QED
    BY <2>2, <2>3, <2>4, <2>5
<1>7. ASSUME NEW u \in Unit, ReadExit(u) PROVE QueryInv'
  BY <1>7 DEF ReadExit, Goto, Sleep, Forget, Larger, systemdVars, queryVars
<1>8. ASSUME NEW u \in Unit, Conclude(u) PROVE QueryInv'
  BY <1>8 DEF Conclude, Goto, Sleep, Forget, systemdVars, queryVars
<1>9. ASSUME NEW u \in Unit, CompareExchange(u) PROVE QueryInv'
  <2>1. CASE shm = last[u]
    <3>1. \A w \in Unit : w # u /\ pc[w] \in {"query", "cas"} => last'[w] # shm'
      BY <2>1, <1>9, ExchangeInvalidates
    <3>2. pc' = [pc EXCEPT ![u] = "exit0"]
      BY <2>1, <1>9 DEF CompareExchange, Goto
    <3> QED
      BY <3>1, <3>2
  <2>2. CASE shm # last[u]
    BY <2>2, <1>9 DEF CompareExchange, Goto, Sleep, Forget, systemdVars, queryVars
  <2> QED  BY <2>1, <2>2
<1>10. ASSUME NEW u \in Unit, Wake(u) PROVE QueryInv'
  BY <1>10 DEF Wake, Goto, systemdVars, queryVars
<1>11. ASSUME NEW u \in Unit, Fail(u) PROVE QueryInv'
  BY <1>11 DEF Fail, Goto, Abort, Forget, systemdVars, queryVars
<1>12. ASSUME NEW u \in Unit, Activate(u) PROVE QueryInv'
  BY <1>12 DEF Activate, Goto, systemdVars, queryVars
<1>13. ASSUME NEW u \in Unit, MainStart(u) PROVE QueryInv'
  <2>0. \A w \in Unit : pc[w] \in {"query", "cas"} /\ last[w] = shm => pc[u] # "exit0"
    BY NoneCleared DEF Looking
  <2> QED
    BY <2>0, <1>13 DEF MainStart, Goto, Forget, systemdVars, queryVars
<1>14. ASSUME NEW u \in Unit, MainExit(u) PROVE QueryInv'
  BY <1>14 DEF MainExit, Goto, systemdVars, queryVars
<1>15. ASSUME NEW u \in Unit, Stop(u) PROVE QueryInv'
  <2>1. CASE state[u] = "start" /\ state' = [state EXCEPT ![u] = "stopping"]
               /\ UNCHANGED <<shm, startTS, exitTS, pc, last, now, queryVars>>
    BY <2>1 DEF queryVars, Others
  <2>2. CASE state[u] = "start-pre" /\ Abort(u)
    BY <2>2 DEF Abort, Goto, Forget, Others
  <2> QED  BY <1>15, <2>1, <2>2 DEF Stop
<1>16. CASE SetLoad
  BY <1>16 DEF SetLoad, systemdVars, queryVars
<1>17. CASE Tick
  BY <1>17 DEF Tick, OnTime, systemdVars, queryVars
<1>18. CASE UNCHANGED vars
  BY <1>18 DEF vars, systemdVars, queryVars
<1>19. ASSUME NEW u \in Unit, LoseReply(u) PROVE QueryInv'
  BY <1>19 DEF LoseReply
<1> QED
  BY <1>1, <1>2, <1>3, <1>4, <1>5, <1>6, <1>7, <1>8, <1>9, <1>10, <1>11, <1>12, <1>13, <1>14, <1>15, <1>16, <1>17, <1>18, <1>19 DEF Next, Step

\* A step that clears no job and starts none keeps HolderInv and Apart.
LEMMA HolderFrame ==
    ASSUME TypeOK, HolderInv, Apart, UNCHANGED <<startTS, exitTS>>,
           \A w \in Unit : state'[w] \in Running => state[w] \in Running,
           \A w \in Unit : pc'[w] = "exit0" => pc[w] = "exit0" /\ now'[w] = now[w]
    PROVE  HolderInv' /\ Apart'
  BY DEF HolderInv, Holder, Apart, Others

\* One job per group is cleared or running, and it was cleared in time.
LEMMA HolderInductive ==
    Prompt /\ TypeOK /\ TypeOK' /\ UnitInv /\ HelperInv /\ QueryInv /\ HolderInv /\ Apart /\ [Next]_vars => (HolderInv /\ Apart)'
<1> SUFFICES ASSUME Prompt, TypeOK, TypeOK', UnitInv, HelperInv, QueryInv, HolderInv, Apart, [Next]_vars PROVE (HolderInv /\ Apart)'
  OBVIOUS
<1> USE TimeAssumption, UnitAssumption, OthersFacts DEF TypeOK, Running, Looking, InLoop, UnitInv, HelperInv, HolderInv, Holder, Apart
<1>1. ASSUME NEW u \in Unit, Setup(u) PROVE (HolderInv /\ Apart)'
  BY <1>1 DEF Setup, Goto, systemdVars, queryVars
<1>2. ASSUME NEW u \in Unit, CheckLoad(u) PROVE (HolderInv /\ Apart)'
  <2>1. UNCHANGED <<startTS, exitTS>> /\ \A w \in Unit : state'[w] \in Running => state[w] \in Running
    BY <1>2 DEF CheckLoad, Abort, systemdVars
  <2>2. \A w \in Unit : pc'[w] = "exit0" => pc[w] = "exit0" /\ now'[w] = now[w]
    BY <1>2 DEF CheckLoad, Goto, Sleep, Forget, Abort
  <2> QED  BY <2>1, <2>2, HolderFrame
<1>3. ASSUME NEW u \in Unit, LoadShm(u) PROVE (HolderInv /\ Apart)'
  BY <1>3 DEF LoadShm, Goto, systemdVars, queryVars
<1>4. ASSUME NEW u \in Unit, ReadClock(u) PROVE (HolderInv /\ Apart)'
  <2>1. UNCHANGED <<startTS, exitTS>> /\ \A w \in Unit : state'[w] \in Running => state[w] \in Running
    BY <1>4 DEF ReadClock, Abort, systemdVars
  <2>2. \A w \in Unit : pc'[w] = "exit0" => pc[w] = "exit0" /\ now'[w] = now[w]
    BY <1>4 DEF ReadClock, Goto, Sleep, Forget, Abort
  <2> QED  BY <2>1, <2>2, HolderFrame
<1>5. ASSUME NEW u \in Unit, ListUnits(u) PROVE (HolderInv /\ Apart)'
  <2>1. UNCHANGED <<startTS, exitTS>> /\ \A w \in Unit : state'[w] \in Running => state[w] \in Running
    BY <1>5 DEF ListUnits, Abort, systemdVars
  <2>2. \A w \in Unit : pc'[w] = "exit0" => pc[w] = "exit0" /\ now'[w] = now[w]
    BY <1>5 DEF ListUnits, Goto, Sleep, Forget, Abort
  <2> QED  BY <2>1, <2>2, HolderFrame
<1>6. ASSUME NEW u \in Unit, ReadStart(u) PROVE (HolderInv /\ Apart)'
  BY <1>6 DEF ReadStart, Goto, systemdVars, queryVars
<1>7. ASSUME NEW u \in Unit, ReadExit(u) PROVE (HolderInv /\ Apart)'
  <2>1. UNCHANGED <<startTS, exitTS>> /\ \A w \in Unit : state'[w] \in Running => state[w] \in Running
    BY <1>7 DEF ReadExit, Abort, systemdVars
  <2>2. \A w \in Unit : pc'[w] = "exit0" => pc[w] = "exit0" /\ now'[w] = now[w]
    BY <1>7 DEF ReadExit, Goto, Sleep, Forget, Abort
  <2> QED  BY <2>1, <2>2, HolderFrame
<1>8. ASSUME NEW u \in Unit, Conclude(u) PROVE (HolderInv /\ Apart)'
  <2>1. UNCHANGED <<startTS, exitTS>> /\ \A w \in Unit : state'[w] \in Running => state[w] \in Running
    BY <1>8 DEF Conclude, Abort, systemdVars
  <2>2. \A w \in Unit : pc'[w] = "exit0" => pc[w] = "exit0" /\ now'[w] = now[w]
    BY <1>8 DEF Conclude, Goto, Sleep, Forget, Abort
  <2> QED  BY <2>1, <2>2, HolderFrame
<1>9. ASSUME NEW u \in Unit, CompareExchange(u) PROVE (HolderInv /\ Apart)'
  <2>1. CASE shm = last[u]
    <3>1. \A v \in Unit : pc[v] # "exit0"
      BY <2>1, <1>9, NoneCleared DEF CompareExchange
    <3>2. \A v \in Others(u) : state[v] \notin Running /\ exitTS[v] + BLANK <= now[u]
      BY <2>1, <1>9, SMTT(30) DEF CompareExchange, QueryInv, Others
    <3>3. pc' = [pc EXCEPT ![u] = "exit0"] /\ UNCHANGED <<state, startTS, exitTS, now>>
      BY <2>1, <1>9 DEF CompareExchange, Goto, systemdVars
    <3> QED
      BY <3>1, <3>2, <3>3 DEF Others
  <2>2. CASE shm # last[u]
    <3>1. UNCHANGED <<state, startTS, exitTS>>
      BY <1>9 DEF CompareExchange, systemdVars
    <3>2. \A w \in Unit : pc'[w] = "exit0" => pc[w] = "exit0" /\ now'[w] = now[w]
      BY <2>2, <1>9 DEF CompareExchange, Goto, Sleep, Forget
    <3> QED  BY <3>1, <3>2, HolderFrame
  <2> QED  BY <2>1, <2>2
<1>10. ASSUME NEW u \in Unit, Wake(u) PROVE (HolderInv /\ Apart)'
  BY <1>10 DEF Wake, Goto, systemdVars, queryVars
<1>11. ASSUME NEW u \in Unit, Fail(u) PROVE (HolderInv /\ Apart)'
  <2>1. UNCHANGED <<startTS, exitTS>> /\ \A w \in Unit : state'[w] \in Running => state[w] \in Running
    BY <1>11 DEF Fail, Abort, systemdVars
  <2>2. \A w \in Unit : pc'[w] = "exit0" => pc[w] = "exit0" /\ now'[w] = now[w]
    BY <1>11 DEF Fail, Goto, Sleep, Forget, Abort
  <2> QED  BY <2>1, <2>2, HolderFrame
<1>12. ASSUME NEW u \in Unit, Activate(u) PROVE (HolderInv /\ Apart)'
  BY <1>12 DEF Activate, Goto, systemdVars, queryVars
<1>13. ASSUME NEW u \in Unit, MainStart(u) PROVE (HolderInv /\ Apart)'
  <2>1. pc[u] = "exit0" /\ state[u] = "start-pre" /\ now[u] <= clock
    BY <1>13 DEF MainStart
  <2>2. \A v \in Others(u) : pc[v] # "exit0" /\ state[v] \notin Running /\ exitTS[v] + BLANK <= now[u]
    BY <2>1 DEF Others
  <2>3. /\ pc' = [pc EXCEPT ![u] = "none"] /\ state' = [state EXCEPT ![u] = "start"]
        /\ startTS' = [startTS EXCEPT ![u] = clock] /\ exitTS' = [exitTS EXCEPT ![u] = 0]
        /\ \A w \in Unit \ {u} : now'[w] = now[w]
    BY <1>13 DEF MainStart, Goto, Forget
  <2>4. \A v \in Unit : {startTS[v], exitTS[v], now[v], clock, BLANK} \subseteq Nat
    BY DEF TypeOK
  <2>5. \A v \in Others(u) : /\ v \in Unit /\ v # u /\ u \in Others(v)
                             /\ exitTS[v] + BLANK <= clock
    BY <2>1, <2>2, <2>4 DEF Others
  <2>6. ASSUME NEW a \in Unit, NEW b \in Others(a)
        PROVE  /\ Holder(a)' => ~Holder(b)'
               /\ pc'[a] = "exit0" => exitTS'[b] + BLANK <= now'[a]
               /\ state'[a] \in Running => exitTS'[b] + BLANK <= startTS'[a]
               /\ startTS'[a] > 0 /\ exitTS'[b] > 0 /\ exitTS'[b] <= startTS'[a]
                     => startTS'[a] - exitTS'[b] >= BLANK
    <3>0. b \in Unit /\ b # a
      BY <2>6 DEF Others
    <3>1. CASE a = u
      BY <2>2, <2>3, <2>4, <2>5, <2>6, <3>0, <3>1
    <3>2. CASE b = u
      <4>1. a \in Others(u)
        BY <2>6, <3>0, <3>2, OthersFacts
      <4> QED  BY <2>2, <2>3, <2>4, <2>5, <3>0, <3>2, <4>1
    <3>3. CASE a # u /\ b # u
      BY <2>3, <2>6, <3>0, <3>3
    <3> QED  BY <3>1, <3>2, <3>3
  <2> QED  BY <2>6 DEF Others
<1>14. ASSUME NEW u \in Unit, MainExit(u) PROVE (HolderInv /\ Apart)'
  BY <1>14 DEF MainExit, Goto, systemdVars, queryVars
<1>15. ASSUME NEW u \in Unit, Stop(u) PROVE (HolderInv /\ Apart)'
  <2>1. UNCHANGED <<startTS, exitTS>> /\ \A w \in Unit : state'[w] \in Running => state[w] \in Running
    BY <1>15 DEF Stop, Abort, systemdVars
  <2>2. \A w \in Unit : pc'[w] = "exit0" => pc[w] = "exit0" /\ now'[w] = now[w]
    BY <1>15 DEF Stop, Goto, Sleep, Forget, Abort
  <2> QED  BY <2>1, <2>2, HolderFrame
<1>16. CASE SetLoad
  BY <1>16 DEF SetLoad, systemdVars, queryVars
<1>17. CASE Tick
  BY <1>17 DEF Tick, OnTime, systemdVars, queryVars
<1>18. CASE UNCHANGED vars
  BY <1>18 DEF vars, systemdVars, queryVars
<1>19. ASSUME NEW u \in Unit, LoseReply(u) PROVE (HolderInv /\ Apart)'
  <2>1. UNCHANGED <<state, startTS, exitTS, now>> /\ \A w \in Unit : pc'[w] = "exit0" => pc[w] = "exit0"
    BY <1>19 DEF LoseReply, Goto, systemdVars
  <2> QED  BY <2>1, HolderFrame
<1> QED
  BY <1>1, <1>2, <1>3, <1>4, <1>5, <1>6, <1>7, <1>8, <1>9, <1>10, <1>11, <1>12, <1>13, <1>14, <1>15, <1>16, <1>17, <1>18, <1>19 DEF Next, Step

\* The initial state satisfies the inductive invariant.
LEMMA GroupInitially == Init => GroupInv
<1> SUFFICES ASSUME Init PROVE GroupInv
  OBVIOUS
<1>1. TypeOK
  BY TypeInitially
<1>2. UnitInv /\ HelperInv /\ QueryInv /\ HolderInv /\ Apart
  BY DEF Init, UnitInv, HelperInv, QueryInv, HolderInv, Holder, Apart, Running, Looking, Others
<1> QED  BY <1>1, <1>2 DEF GroupInv

\* Only a lost reply is counted, and none is forgotten.
LEMMA LossRemembered ==
    ASSUME TypeOK, [Next]_vars, lost' = 0 PROVE lost = 0
<1>1. ASSUME NEW u \in Unit, Step(u) PROVE lost = 0 \/ lost' = lost + 1
  BY <1>1 DEF Step, Setup, CheckLoad, LoadShm, ReadClock, ListUnits, ReadStart, ReadExit, Conclude,
       CompareExchange, Wake, LoseReply
<1>2. ASSUME NEW u \in Unit, Fail(u) \/ Activate(u) \/ MainStart(u) \/ MainExit(u) \/ Stop(u) PROVE lost = 0
  BY <1>2 DEF Fail, Abort, Activate, MainStart, MainExit, Stop
<1>3. CASE SetLoad \/ Tick \/ UNCHANGED vars
  BY <1>3 DEF SetLoad, Tick, vars
<1>4. lost \in Nat
  BY DEF TypeOK
<1> QED  BY <1>1, <1>2, <1>3, <1>4 DEF Next

\* Every step keeps the inductive invariant.
LEMMA GroupInductive ==
    ASSUME Prompt, GroupInv, [Next]_vars PROVE GroupInv'
<1>1. TypeOK /\ UnitInv /\ HelperInv
  BY DEF GroupInv
<1>2. TypeOK'
  BY <1>1, TypeInductive
<1>3. UnitInv'
  BY <1>1, <1>2, UnitInductive
<1>4. HelperInv'
  BY <1>1, <1>2, HelperInductive
<1>5. ASSUME lost' = 0 PROVE QueryInv' /\ HolderInv' /\ Apart'
  <2>1. QueryInv /\ HolderInv /\ Apart
    BY <1>1, <1>5, LossRemembered DEF GroupInv
  <2>2. QueryInv'
    BY <1>1, <1>2, <1>5, <2>1, QueryInductive
  <2>3. HolderInv' /\ Apart'
    BY <1>1, <1>2, <2>1, HolderInductive
  <2> QED  BY <2>2, <2>3
<1> QED  BY <1>2, <1>3, <1>4, <1>5 DEF GroupInv

\* GroupInv holds throughout, provided that from reading the clock to systemd
\* starting the job less than FREQ passes (Prompt).
LEMMA GroupInvariant == ASSUME Prompt PROVE Spec => []GroupInv
<1>1. Init => GroupInv
  BY GroupInitially
<1>2. GroupInv /\ [Next]_vars => GroupInv'
  BY GroupInductive
<1> QED  BY <1>1, <1>2, PTL DEF Spec

\* MutualExclusion: as long as no reply is lost, the jobs of a throttle group
\* never overlap.
THEOREM GroupSerialised == ASSUME Prompt PROVE Spec => []MutualExclusion
<1>1. GroupInv => MutualExclusion
  BY DEF GroupInv, HolderInv, Holder, MutualExclusion
<1> QED  BY <1>1, GroupInvariant, PTL

\* Blanking: as long as no reply is lost, no job of a throttle group starts
\* within BLANK of another's exit.
THEOREM GroupSpaced == ASSUME Prompt PROVE Spec => []Blanking
<1>1. GroupInv => Blanking
  BY DEF GroupInv, Blanking
<1> QED  BY <1>1, GroupInvariant, PTL
=============================================================================
