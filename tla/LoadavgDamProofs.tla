-------------------------- MODULE LoadavgDamProofs --------------------------
(***************************************************************************)
(* For any number of processes, any arguments, loads and time constants:   *)
(* loadavg_dam dispatches one job per slot and slots are GAP apart.        *)
(***************************************************************************)
EXTENDS LoadavgDam, TLAPS

\* What ten bits of sub-second keep of a time: at most Grain - 1 is lost.
LEMMA StoredBounds ==
    ASSUME NEW t \in Nat
    PROVE  Stored(t) \in Nat /\ Stored(t) <= t /\ t - Stored(t) <= Grain - 1
<1>1. Grain \in Nat /\ Grain >= 1
  BY ClockAssumption
<1>2. (t \div Grain) \in Nat /\ (t \div Grain) * Grain <= t /\ (t \div Grain) * Grain > t - Grain
  BY <1>1, Z3
<1>3. (t \div Grain) * Grain \in Nat
  BY <1>1, <1>2, Z3
<1> QED  BY <1>1, <1>2, <1>3 DEF Stored

\* A fresh word and freshly started processes are well typed.
LEMMA TypeInitially == Init => TypeOK
  BY ClockAssumption DEF Init, TypeOK, ZeroBundle, Bundles, Waiting, Busy, Done

\* Every step of the loop keeps the locals and the shared word well typed.
LEMMA TypeInductive == TypeOK /\ [Next]_vars => TypeOK'
<1> SUFFICES ASSUME TypeOK, [Next]_vars PROVE TypeOK'
  OBVIOUS
<1> USE DEF TypeOK, Waiting, Busy, Done
<1>0. ZeroBundle \in Bundles
  BY DEF ZeroBundle, Bundles
<1>1. ASSUME NEW p \in Proc, Start(p) PROVE TypeOK'
  BY <1>1 DEF Start
<1>2. ASSUME NEW p \in Proc, LoadShm(p) PROVE TypeOK'
  BY <1>2 DEF LoadShm
<1>3. ASSUME NEW p \in Proc, ReadClock(p) PROVE TypeOK'
  BY <1>0, <1>3, ClockAssumption DEF ReadClock, Sleep, Forget
<1>4. ASSUME NEW p \in Proc, CheckLoad(p) PROVE TypeOK'
  BY <1>0, <1>4, ClockAssumption DEF CheckLoad, Sleep, Forget
<1>5. ASSUME NEW p \in Proc, CompareExchange(p) PROVE TypeOK'
  <2>1. CASE shm = last[p] /\ Win(p)
    <3>1. Bundle(p, now[p]) \in Bundles
      BY StoredBounds DEF Bundle, Bundles
    <3> QED  BY <1>0, <1>5, <2>1, <3>1 DEF CompareExchange, Win
  <2>2. CASE shm # last[p] /\ Sleep(p) /\ UNCHANGED <<shm, won>>
    BY <1>0, <1>5, <2>2, ClockAssumption DEF CompareExchange, Sleep, Forget
  <2> QED  BY <1>5, <2>1, <2>2 DEF CompareExchange
<1>6. ASSUME NEW p \in Proc, Wake(p) PROVE TypeOK'
  BY <1>6 DEF Wake
<1>7. ASSUME NEW p \in Proc, Kill(p) PROVE TypeOK'
  BY <1>0, <1>7 DEF Kill, Forget
<1>8. CASE SetLoad
  BY <1>8 DEF SetLoad
<1>9. CASE Tick
  BY <1>9 DEF Tick
<1>10. CASE UNCHANGED vars
  BY <1>10 DEF vars
<1> QED
  BY <1>1, <1>2, <1>3, <1>4, <1>5, <1>6, <1>7, <1>8, <1>9, <1>10 DEF Next, Step

\* The type invariant of main()'s locals and the shared word (TypeOK).
THEOREM TypeCorrect == Spec => []TypeOK
  BY TypeInitially, TypeInductive, PTL DEF Spec

\* Every step keeps SpacingInv; the one that could break it is the exchange,
\* which succeeds only on the very word the process tested its clock against.
LEMMA SpacingInductive ==
    SpacingInv /\ [Next]_vars => SpacingInv'
<1> SUFFICES ASSUME SpacingInv, [Next]_vars PROVE SpacingInv'
  OBVIOUS
<1>0. TypeOK' /\ TypeOK
  BY TypeInductive DEF SpacingInv
<1> USE ClockAssumption, ProcAssumption DEF SpacingInv, TypeOK, Timely, WinnersRecorded, RecordedSpacing,
        Dispatched, Waiting, Busy, Done
<1>1. ASSUME NEW p \in Proc, Start(p) PROVE SpacingInv'
  BY <1>0, <1>1 DEF Start
<1>2. ASSUME NEW p \in Proc, LoadShm(p) PROVE SpacingInv'
  BY <1>0, <1>2 DEF LoadShm
<1>3. ASSUME NEW p \in Proc, ReadClock(p) PROVE SpacingInv'
  BY <1>0, <1>3 DEF ReadClock, Sleep, Forget
<1>4. ASSUME NEW p \in Proc, CheckLoad(p) PROVE SpacingInv'
  BY <1>0, <1>4 DEF CheckLoad, Sleep, Forget
<1>5. ASSUME NEW p \in Proc, CompareExchange(p) PROVE SpacingInv'
  <2>1. CASE shm = last[p] /\ Win(p)
    <3>1. /\ now[p] - shm.time > GAP /\ now[p] <= clock /\ clock <= now[p] + MaxDelay
          /\ shm'.time = Stored(now[p]) /\ shm.time \in Nat
      BY <1>0, <1>5, <2>1 DEF CompareExchange, Win, Bundle, Bundles
    <3>2. \A q \in Proc : Stored(now[q]) \in Nat /\ Stored(now[q]) <= now[q]
                            /\ now[q] - Stored(now[q]) <= Grain - 1
      BY <1>0, StoredBounds
    <3>3. Timely'
      BY <1>0, <1>5, <2>1 DEF CompareExchange, Win
    <3>4. Dispatched' = Dispatched \cup {p} /\ p \notin Dispatched
      BY <1>0, <1>5, <2>1 DEF CompareExchange, Win
    <3>5. now' = now /\ won' = [won EXCEPT ![p] = clock]
      BY <2>1 DEF Win
    <3>6. WinnersRecorded'
      BY <1>0, <3>1, <3>2, <3>4, <3>5
    <3>7. RecordedSpacing'
      BY <1>0, <3>1, <3>2, <3>4, <3>5
    <3> QED  BY <1>0, <3>3, <3>6, <3>7
  <2>2. CASE shm # last[p] /\ Sleep(p) /\ UNCHANGED <<shm, won>>
    BY <1>0, <1>5, <2>2 DEF CompareExchange, Sleep, Forget
  <2> QED  BY <1>5, <2>1, <2>2 DEF CompareExchange
<1>6. ASSUME NEW p \in Proc, Wake(p) PROVE SpacingInv'
  BY <1>0, <1>6 DEF Wake
<1>7. ASSUME NEW p \in Proc, Kill(p) PROVE SpacingInv'
  BY <1>0, <1>7 DEF Kill, Forget
<1>8. CASE SetLoad
  BY <1>0, <1>8 DEF SetLoad
<1>9. CASE Tick
  BY <1>0, <1>9 DEF Tick
<1>10. CASE UNCHANGED vars
  BY <1>0, <1>10 DEF vars
<1> QED
  BY <1>1, <1>2, <1>3, <1>4, <1>5, <1>6, <1>7, <1>8, <1>9, <1>10 DEF Next, Step

\* SpacingInv holds throughout; its last conjunct is RecordedSpacing: two
\* dispatched jobs read the clock more than GAP apart (up to the truncation).
THEOREM DispatchesSpaced == Spec => [](SpacingInv /\ RecordedSpacing)
<1>1. Init => SpacingInv
  <2> SUFFICES ASSUME Init PROVE SpacingInv
    OBVIOUS
  <2>1. TypeOK
    BY TypeInitially
  <2> QED
    BY <2>1, ClockAssumption DEF Init, SpacingInv, Timely, WinnersRecorded, RecordedSpacing, Dispatched, Waiting, Busy
<1>2. SpacingInv => RecordedSpacing
  BY DEF SpacingInv
<1> QED  BY <1>1, <1>2, SpacingInductive, PTL DEF Spec

\* The jobs themselves leave the dam more than GAP - MaxDelay apart
\* (DispatchSpacing), because a winner's clock reading is at most MaxDelay old.
THEOREM JobsSpaced == Spec => []DispatchSpacing
<1>1. SpacingInv => DispatchSpacing
  <2> SUFFICES ASSUME SpacingInv, NEW p \in Dispatched, NEW q \in Dispatched, p # q, now[p] <= now[q]
               PROVE  won[q] - won[p] > GAP - (Grain - 1) - MaxDelay
    BY DEF DispatchSpacing
  <2>1. now[q] - now[p] > GAP - (Grain - 1)
    BY DEF SpacingInv, RecordedSpacing
  <2>2. won[q] >= now[q] /\ won[p] <= now[p] + MaxDelay
    BY DEF SpacingInv, WinnersRecorded
  <2>3. {now[p], now[q], won[p], won[q]} \subseteq Nat
    BY DEF SpacingInv, TypeOK, Dispatched
  <2> QED  BY <2>1, <2>2, <2>3, ClockAssumption
<1> QED  BY <1>1, DispatchesSpaced, PTL

\* The shared word never repeats (SlotMovesForward), so an unchanged word
\* means that nobody was dispatched in between: the exchange has no ABA.
THEOREM NoABA == Spec => SlotMovesForward
<1>1. SpacingInv /\ [Next]_vars => [shm' # shm => shm'.time > shm.time]_vars
  <2> SUFFICES ASSUME SpacingInv, Next, shm' # shm PROVE shm'.time > shm.time
    BY DEF vars
  <2>1. PICK p \in Proc : CompareExchange(p)
    BY DEF Next, Step, Start, LoadShm, ReadClock, CheckLoad, Wake, Kill, SetLoad, Tick
  <2>2. shm = last[p] /\ shm'.time = Stored(now[p])
    BY <2>1 DEF CompareExchange, Win, Bundle
  <2>3. now[p] - shm.time > GAP /\ now[p] \in Nat /\ shm.time \in Nat
    BY <2>1, <2>2 DEF SpacingInv, Timely, TypeOK, Bundles, CompareExchange
  <2>4. now[p] - Stored(now[p]) <= Grain - 1 /\ Stored(now[p]) \in Nat
    BY <2>3, StoredBounds
  <2> QED  BY <2>2, <2>3, <2>4, ClockAssumption
<1> QED  BY <1>1, DispatchesSpaced, PTL DEF Spec, SlotMovesForward

\* The word is only ever written by a process that is dispatched by it, and
\* such a process never steps again: no slot is lost (SlotHeldByDispatched).
THEOREM NoSlotLost == Spec => []SlotHeldByDispatched
<1>1. Init => SlotHeldByDispatched
  BY DEF Init, SlotHeldByDispatched
<1>2. TypeOK /\ SlotHeldByDispatched /\ [Next]_vars => SlotHeldByDispatched'
  <2> SUFFICES ASSUME TypeOK, SlotHeldByDispatched, [Next]_vars PROVE SlotHeldByDispatched'
    OBVIOUS
  <2> USE DEF TypeOK, SlotHeldByDispatched, Dispatched, Waiting, Busy
  <2>1. ASSUME shm' = shm, \A p \in Dispatched : pc'[p] = pc[p] /\ now'[p] = now[p]
        PROVE  SlotHeldByDispatched'
    BY <2>1
  <2>2. ASSUME NEW p \in Proc, Start(p) \/ LoadShm(p) \/ ReadClock(p) \/ CheckLoad(p) \/ Wake(p) \/ Kill(p)
        PROVE  SlotHeldByDispatched'
    <3>1. shm' = shm /\ p \notin Dispatched
      BY <2>2 DEF Start, LoadShm, ReadClock, CheckLoad, Wake, Kill
    <3>2. \A q \in Proc \ {p} : pc'[q] = pc[q] /\ now'[q] = now[q]
      BY <2>2 DEF Start, LoadShm, ReadClock, CheckLoad, Wake, Kill, Sleep, Forget
    <3> QED  BY <2>1, <3>1, <3>2
  <2>3. ASSUME NEW p \in Proc, CompareExchange(p) PROVE SlotHeldByDispatched'
    <3>1. CASE Win(p)
      BY <3>1 DEF Win, Bundle
    <3>2. CASE Sleep(p) /\ shm' = shm
      BY <2>1, <2>3, <3>2 DEF CompareExchange, Sleep, Forget
    <3> QED  BY <2>3, <3>1, <3>2 DEF CompareExchange
  <2>4. CASE SetLoad \/ Tick \/ UNCHANGED vars
    BY <2>1, <2>4 DEF SetLoad, Tick, vars
  <2> QED  BY <2>2, <2>3, <2>4 DEF Next, Step
<1> QED  BY <1>1, <1>2, TypeCorrect, PTL DEF Spec

=============================================================================
