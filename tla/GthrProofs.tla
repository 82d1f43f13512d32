----------------------------- MODULE GthrProofs -----------------------------
(***************************************************************************)
(* Theorems about the scheduler of module Gthr, for every number of        *)
(* threads, every bound, both modes and the three variants of gt_yield().  *)
(***************************************************************************)
EXTENDS Gthr, TLAPS

Yielding == {"atDelayYield", "atSuspendYield", "atStopYield"}

\* A thread selected by gt_yield() is a slot of the table that is Ready.
LEMMA SelectsReady ==
    ASSUME NEW st, NEW c, NEW p, Selects(st, c, p)
    PROVE  p \in Threads /\ st[p] = "Ready"
  BY DEF Selects, First, Candidates, Tasks, Threads

\* What gt_manage_timers() does to the table: it keeps the types, and the
\* only change of state is from Blocked to Ready, on the last tick.
LEMMA TimedFacts ==
    ASSUME GthrAssumption, TypeOK
    PROVE  /\ TimedStates(state, delay) \in [Threads -> ThreadStates]
           /\ TimedDelays(state, delay) \in [Threads -> 0..MaxDelay]
           /\ \A t \in Threads :
                \/ TimedStates(state, delay)[t] = state[t]
                \/ /\ state[t] = "Blocked" /\ delay[t] = 1
                   /\ TimedStates(state, delay)[t] = "Ready"
                   /\ TimedDelays(state, delay)[t] = 0
  <1> USE DEF GthrAssumption, TypeOK
  <1>1. TimedStates(state, delay) \in [Threads -> ThreadStates]
    BY DEF TimedStates, ThreadStates
  <1>2. TimedDelays(state, delay) \in [Threads -> 0..MaxDelay]
    BY DEF TimedDelays
  <1>3. ASSUME NEW t \in Threads
        PROVE  \/ TimedStates(state, delay)[t] = state[t]
               \/ /\ state[t] = "Blocked" /\ delay[t] = 1
                  /\ TimedStates(state, delay)[t] = "Ready"
                  /\ TimedDelays(state, delay)[t] = 0
    BY <1>3 DEF TimedStates, TimedDelays, Expired
  <1> QED BY <1>1, <1>2, <1>3

\* The same for a gt_yield(), which runs the timers in one of the variants.
LEMMA YieldFacts ==
    ASSUME GthrAssumption, TypeOK
    PROVE  /\ YieldStates \in [Threads -> ThreadStates]
           /\ YieldDelays \in [Threads -> 0..MaxDelay]
           /\ \A t \in Threads :
                \/ YieldStates[t] = state[t]
                \/ /\ state[t] = "Blocked" /\ delay[t] = 1
                   /\ YieldStates[t] = "Ready"
                   /\ YieldDelays[t] = 0
  BY TimedFacts DEF YieldStates, YieldDelays, TypeOK

\* What a switch from c to p does to the table.
LEMMA SwitchedFacts ==
    ASSUME NEW st \in [Threads -> ThreadStates],
           NEW c \in Threads, NEW p \in Threads
    PROVE  /\ Switched(st, c, p) \in [Threads -> ThreadStates]
           /\ Switched(st, c, p)[p] = "Running"
           /\ st[c] = "Running" /\ c # p => Switched(st, c, p)[c] = "Ready"
           /\ \A t \in Threads :
                t # p /\ (t # c \/ st[c] # "Running")
                    => Switched(st, c, p)[t] = st[t]
  BY DEF Switched, ThreadStates

-----------------------------------------------------------------------------

\* Every variable keeps its type in every step of the scheduler.
LEMMA TypeStep ==
    ASSUME GthrAssumption, TypeOK, [Next]_vars
    PROVE  TypeOK'
  <1> USE DEF TypeOK
  <1>0. Threads = 0..N-1 /\ Tasks = 1..N-1 /\ 0 \in Threads /\ Tasks \subseteq Threads
    BY DEF Threads, Tasks, GthrAssumption
  <1>1. ASSUME NEW t \in Threads, ThreadStep(t) PROVE TypeOK'
    <2>1. CASE GoFind(t)
      BY <2>1 DEF GoFind, Pcs
    <2>2. CASE GoFill(t)
      <3>1. arg[t] \in Threads /\ 0 \in 0..MaxNest
        BY DEF GthrAssumption
      <3>2. pc' \in [Threads -> Pcs]
        BY <2>2, <3>1 DEF GoFill, Pcs
      <3>3. state' \in [Threads -> ThreadStates]
        BY <2>2, <3>1 DEF GoFill, ThreadStates
      <3>4. sig' \in [Threads -> 0..MaxNest]
        BY <2>2, <3>1 DEF GoFill
      <3> QED BY <2>2, <3>2, <3>3, <3>4 DEF GoFill
    <2>3. CASE GoReset(t)
      BY <2>3 DEF GoReset, Pcs, GthrAssumption
    <2>4. CASE GoFails(t)
      BY <2>4 DEF GoFails, Pcs
    <2>5. ASSUME NEW n \in 1..MaxDelay, DelaySet(t, n) PROVE TypeOK'
      BY <2>5 DEF DelaySet, Pcs, GthrAssumption
    <2>6. CASE DelayBlock(t)
      BY <2>6 DEF DelayBlock, Pcs, ThreadStates
    <2>7. CASE Suspend(t)
      BY <2>7 DEF Suspend, Pcs, ThreadStates
    <2>8. CASE Stop(t)
      BY <2>8 DEF Stop, Pcs, ThreadStates
    <2>9. ASSUME NEW u \in Threads, ResumeCheck(t, u) PROVE TypeOK'
      BY <2>9 DEF ResumeCheck, Pcs
    <2>10. CASE ResumeSet(t)
      BY <2>10 DEF ResumeSet, Pcs, ThreadStates
    <2>11. CASE Yield(t)
      <3>1. pc' \in [Threads -> Pcs]
        BY <2>11 DEF Yield, AfterYield, Pcs
      <3>2. YieldStates \in [Threads -> ThreadStates]
        BY YieldFacts
      <3>3. ASSUME NEW p \in Threads
            PROVE  Switched(YieldStates, t, p) \in [Threads -> ThreadStates]
        BY <3>2, SwitchedFacts
      <3>4. state' \in [Threads -> ThreadStates] /\ cur' \in Threads
        BY <2>11, <3>2, <3>3 DEF Yield
      <3>5. delay' \in [Threads -> 0..MaxDelay]
        BY <2>11, YieldFacts DEF Yield
      <3> QED BY <2>11, <3>1, <3>4, <3>5 DEF Yield
    <2>12. CASE HandlerReturn(t)
      <3>1. sig[t] \in 0..MaxNest /\ sig[t] > 0
        BY <2>12 DEF HandlerReturn
      <3>2. sig[t] - 1 \in 0..MaxNest
        BY <3>1 DEF GthrAssumption
      <3> QED BY <2>12, <3>2 DEF HandlerReturn
    <2> QED BY <1>1, <2>1, <2>2, <2>3, <2>4, <2>5, <2>6, <2>7, <2>8, <2>9,
               <2>10, <2>11, <2>12 DEF ThreadStep
  <1>2. CASE StartScheduler
    BY <1>2, <1>0 DEF StartScheduler, Pcs, GthrAssumption
  <1>3. CASE LoopExit
    BY <1>3, <1>0 DEF LoopExit, Pcs
  <1>4. CASE Tick
    <2> DEFINE st == TimedStates(state, delay)
    <2>1. st \in [Threads -> ThreadStates]
      BY TimedFacts
    <2>2. ASSUME NEW p \in Threads
          PROVE  Switched(st, cur, p) \in [Threads -> ThreadStates]
      BY <2>1, SwitchedFacts
    <2>3. state' \in [Threads -> ThreadStates] /\ cur' \in Threads
      BY <1>4, <2>1, <2>2 DEF Tick
    <2>4. sig[cur] < MaxNest => sig[cur] + 1 \in 0..MaxNest
      BY DEF GthrAssumption
    <2>5. sig' \in [Threads -> 0..MaxNest]
      BY <1>4, <2>4 DEF Tick
    <2>6. status' \in {-1, 0, 1} /\ masked' \in BOOLEAN
      BY <1>4 DEF Tick, NoReadyResult, MaskAfterReset
    <2>7. delay' \in [Threads -> 0..MaxDelay]
      BY <1>4, TimedFacts DEF Tick
    <2> QED BY <1>4, <2>3, <2>5, <2>6, <2>7 DEF Tick
  <1>5. CASE Finished
    BY <1>5 DEF Finished, vars
  <1>6. CASE UNCHANGED vars
    BY <1>6 DEF vars
  <1> QED BY <1>1, <1>2, <1>3, <1>4, <1>5, <1>6 DEF Next

\* Type correctness of gthr.c's table, current thread, status, signal mask
\* and stacks.
THEOREM TypeCorrect == ASSUME GthrAssumption PROVE Spec => []TypeOK
  <1>1. Init => TypeOK
    <2>1. 0 \in Threads /\ 0 \in 0..MaxDelay /\ 0 \in 0..MaxNest
      BY GthrAssumption DEF Threads, GthrAssumption
    <2> SUFFICES ASSUME Init PROVE TypeOK
      OBVIOUS
    <2>2. /\ state \in [Threads -> ThreadStates] /\ pc \in [Threads -> Pcs]
          /\ arg \in [Threads -> Threads]
      BY <2>1 DEF Init, ThreadStates, Pcs
    <2>3. delay \in [Threads -> 0..MaxDelay] /\ sig \in [Threads -> 0..MaxNest]
      BY <2>1 DEF Init
    <2> QED BY <2>1, <2>2, <2>3 DEF Init, TypeOK
  <1>2. TypeOK /\ [Next]_vars => TypeOK'
    BY GthrAssumption, TypeStep
  <1> QED BY <1>1, <1>2, PTL DEF Spec

-----------------------------------------------------------------------------
(* One CPU.  OneRunning is not inductive alone: a gt_yield() that found no *)
(* Ready thread would return into a thread that is no longer Running.      *)
(* That main is always Running or Ready excludes it, and that the slot     *)
(* held by gt_resume() or gt_go() is another thread's keeps their stores   *)
(* away from the current thread.                                           *)

MainInv ==
    /\ state[0] \in {"Running", "Ready"}
    /\ pc[0] \in {"user", "goFill", "goReset", "loop", "returned"}

ArgOther ==
    \A t \in Threads :
        pc[t] \in {"resume", "goFill"} => arg[t] # t /\ arg[t] # 0

SchedInv == TypeOK /\ OneRunning /\ MainInv /\ ArgOther

\* A table as it may be when gt_yield() scans it: the timers may have run.
Timed(st) ==
    /\ st \in [Threads -> ThreadStates]
    /\ \A t \in Threads :
        st[t] = state[t] \/ (state[t] = "Blocked" /\ st[t] = "Ready")

LEMMA TimedTables ==
    ASSUME GthrAssumption, TypeOK
    PROVE  Timed(TimedStates(state, delay)) /\ Timed(YieldStates)
  <1>1. Timed(TimedStates(state, delay))
    BY TimedFacts DEF Timed
  <1>2. Timed(YieldStates)
    BY YieldFacts DEF Timed
  <1> QED BY <1>1, <1>2

\* After a switch exactly the selected thread is Running, main is Running or
\* Ready, and a thread that was Unused or Suspended still is.
LEMMA SwitchSched ==
    ASSUME GthrAssumption, SchedInv, NEW st, Timed(st),
           NEW p \in Threads, Selects(st, cur, p)
    PROVE  LET s2 == Switched(st, cur, p) IN
           /\ s2 \in [Threads -> ThreadStates]
           /\ s2[p] = "Running"
           /\ \A t \in Threads : s2[t] = "Running" => t = p
           /\ s2[0] \in {"Running", "Ready"}
           /\ \A t \in Threads :
                /\ state[t] \in {"Unused", "Suspended"} <=>
                        s2[t] \in {"Unused", "Suspended"}
                /\ s2[t] \in {"Unused", "Suspended"} => s2[t] = state[t]
                /\ s2[t] = "Blocked" => st[t] = "Blocked" /\ state[t] = "Blocked"
                /\ st[t] = "Blocked" => s2[t] = "Blocked"
  <1> DEFINE s2 == Switched(st, cur, p)
  <1>1. st \in [Threads -> ThreadStates] /\ cur \in Threads
    BY DEF SchedInv, TypeOK, Timed
  <1>2. /\ s2 \in [Threads -> ThreadStates]
        /\ s2[p] = "Running"
        /\ st[cur] = "Running" /\ cur # p => s2[cur] = "Ready"
        /\ \A t \in Threads :
             t # p /\ (t # cur \/ st[cur] # "Running") => s2[t] = st[t]
    BY <1>1, SwitchedFacts
  <1>3. st[p] = "Ready"
    BY SelectsReady
  <1>4. /\ \A t \in Threads : state[t] = "Running" => t = cur
        /\ state[0] \in {"Running", "Ready"}
        /\ 0 \in Threads
    BY DEF SchedInv, OneRunning, MainInv, Threads, GthrAssumption
  <1>5. \A t \in Threads :
            st[t] = state[t] \/ (state[t] = "Blocked" /\ st[t] = "Ready")
    BY DEF Timed
  <1> HIDE DEF s2
  <1>6. \A t \in Threads : s2[t] = "Running" => t = p
    BY <1>2, <1>4, <1>5
  <1>7. s2[0] \in {"Running", "Ready"}
    BY <1>2, <1>4, <1>5
  <1>8. ASSUME NEW t \in Threads
        PROVE  /\ state[t] \in {"Unused", "Suspended"} <=>
                        s2[t] \in {"Unused", "Suspended"}
               /\ s2[t] \in {"Unused", "Suspended"} => s2[t] = state[t]
               /\ s2[t] = "Blocked" => st[t] = "Blocked" /\ state[t] = "Blocked"
               /\ st[t] = "Blocked" => s2[t] = "Blocked"
    BY <1>2, <1>3, <1>5
  <1> QED BY <1>2, <1>6, <1>7, <1>8 DEF s2

\* gt_yield() finds no Ready thread only when main calls it, or its handler,
\* and every other thread waits or is gone.
LEMMA NoneReadyMain ==
    ASSUME GthrAssumption, SchedInv, NEW st, Timed(st), NoneReady(st, cur)
    PROVE  /\ cur = 0 /\ state[0] = "Running" /\ st[0] = "Running"
           /\ \A t \in Tasks : st[t] \notin {"Ready", "Running"}
  <1>1. 0 \in Threads /\ cur \in Threads /\ Tasks \subseteq Threads /\ 0 \notin Tasks
    BY DEF SchedInv, TypeOK, Threads, Tasks, GthrAssumption
  <1>2. /\ \A t \in Threads : state[t] = "Running" => t = cur
        /\ state[cur] = "Running" \/ pc[cur] \in Yielding
        /\ state[0] \in {"Running", "Ready"}
        /\ pc[0] \notin Yielding
    BY DEF SchedInv, OneRunning, MainInv, Yielding
  <1>3. \A t \in Threads :
            st[t] = state[t] \/ (state[t] = "Blocked" /\ st[t] = "Ready")
    BY DEF Timed
  <1>4. \A t \in Threads : st[t] = "Ready" => t = cur
    BY DEF NoneReady, Candidates
  <1>5. cur = 0
    BY <1>1, <1>2, <1>3, <1>4
  <1>6. state[0] = "Running" /\ st[0] = "Running"
    BY <1>1, <1>2, <1>3, <1>5
  <1>7. \A t \in Tasks : st[t] \notin {"Ready", "Running"}
    BY <1>1, <1>2, <1>3, <1>4, <1>5
  <1> QED BY <1>5, <1>6, <1>7

LEMMA SchedStep ==
    ASSUME GthrAssumption, SchedInv, [Next]_vars
    PROVE  SchedInv'
  <1>1. TypeOK /\ TypeOK'
    BY TypeStep DEF SchedInv
  <1>2. 0 \in Threads /\ Tasks \subseteq Threads /\ 0 \notin Tasks
    BY DEF Threads, Tasks, GthrAssumption
  <1>3. ASSUME NEW t \in Threads, ThreadStep(t)
        PROVE  (OneRunning /\ MainInv /\ ArgOther)'
    <2> USE <1>1, <1>2 DEF SchedInv, OneRunning, MainInv, ArgOther
    <2> USE DEF Active
    <2>1. CASE GoFind(t)
      BY <2>1 DEF GoFind, TypeOK
    <2>2. CASE GoFill(t)
      <3>1. arg[t] \in Threads /\ arg[t] # t /\ arg[t] # 0
        BY <2>2 DEF GoFill, TypeOK
      <3> QED BY <2>2, <3>1 DEF GoFill, TypeOK
    <2>3. CASE GoReset(t)
      BY <2>3 DEF GoReset, TypeOK
    <2>4. CASE GoFails(t)
      BY <2>4 DEF GoFails, TypeOK
    <2>5. ASSUME NEW n \in 1..MaxDelay, DelaySet(t, n)
          PROVE  (OneRunning /\ MainInv /\ ArgOther)'
      BY <2>5 DEF DelaySet, TypeOK
    <2>6. CASE DelayBlock(t)
      BY <2>6 DEF DelayBlock, TypeOK
    <2>7. CASE Suspend(t)
      BY <2>7 DEF Suspend, TypeOK
    <2>8. CASE Stop(t)
      BY <2>8 DEF Stop, TypeOK
    <2>9. ASSUME NEW u \in Threads, ResumeCheck(t, u)
          PROVE  (OneRunning /\ MainInv /\ ArgOther)'
      BY <2>9 DEF ResumeCheck, TypeOK
    <2>10. CASE ResumeSet(t)
      <3>1. arg[t] \in Threads /\ arg[t] # t /\ arg[t] # 0
        BY <2>10 DEF ResumeSet, TypeOK
      <3> QED BY <2>10, <3>1 DEF ResumeSet, TypeOK
    <2>11. CASE Yield(t)
      <3>1. Timed(YieldStates) /\ cur = t
        BY <2>11, TimedTables DEF Yield
      <3>2. ASSUME NEW p \in Threads, Selects(YieldStates, t, p),
                   state' = Switched(YieldStates, t, p), cur' = p,
                   pc' = [pc EXCEPT ![t] = AfterYield(@)]
            PROVE  (OneRunning /\ MainInv /\ ArgOther)'
        <4>1. /\ state'[p] = "Running"
              /\ \A q \in Threads : state'[q] = "Running" => q = p
              /\ state'[0] \in {"Running", "Ready"}
          BY <3>1, <3>2, SwitchSched
        <4>2. YieldCall(t) /\ arg' = arg
          BY <2>11 DEF Yield
        <4>3. MainInv' /\ ArgOther'
          BY <3>2, <4>1, <4>2 DEF AfterYield, YieldCall, TypeOK
        <4> QED BY <3>2, <4>1, <4>3
      <3>3. CASE NoneReady(YieldStates, t) /\ state' = YieldStates /\ cur' = cur
        <4>1. t = 0 /\ state[0] = "Running" /\ YieldStates[0] = "Running"
          BY <3>1, <3>3, NoneReadyMain
        <4>2. \A q \in Threads : YieldStates[q] = "Running" => state[q] = "Running"
          BY <3>1 DEF Timed
        <4>3. OneRunning'
          BY <3>1, <3>3, <4>1, <4>2
        <4>4. /\ pc[0] = "loop" /\ arg' = arg
              /\ pc' = [pc EXCEPT ![0] = "loop"] \/ pc' = [pc EXCEPT ![0] = "returned"]
          BY <2>11, <4>1, <3>3, SelectsReady
             DEF Yield, YieldCall, AfterYield, NoneReady, Selects, First
        <4>5. MainInv' /\ ArgOther'
          BY <3>3, <4>1, <4>4 DEF TypeOK
        <4> QED BY <4>3, <4>5
      <3> QED BY <2>11, <3>2, <3>3 DEF Yield
    <2>12. CASE HandlerReturn(t)
      BY <2>12 DEF HandlerReturn, TypeOK
    <2> QED BY <1>3, <2>1, <2>2, <2>3, <2>4, <2>5, <2>6, <2>7, <2>8, <2>9,
               <2>10, <2>11, <2>12 DEF ThreadStep
  <1>4. CASE StartScheduler
    BY <1>1, <1>2, <1>4
       DEF StartScheduler, Active, SchedInv, OneRunning, MainInv, ArgOther, TypeOK
  <1>5. CASE LoopExit
    BY <1>1, <1>2, <1>5
       DEF LoopExit, Active, SchedInv, OneRunning, MainInv, ArgOther, TypeOK
  <1>6. CASE Tick
    <2> DEFINE st == TimedStates(state, delay)
    <2>1. Timed(st)
      BY <1>1, TimedTables
    <2>2. pc' = pc /\ arg' = arg
      BY <1>6 DEF Tick
    <2>3. ASSUME NEW p \in Threads, Selects(st, cur, p),
                 state' = Switched(st, cur, p), cur' = p
          PROVE  OneRunning' /\ MainInv'
      <3>1. /\ state'[p] = "Running"
            /\ \A q \in Threads : state'[q] = "Running" => q = p
            /\ state'[0] \in {"Running", "Ready"}
        BY <2>1, <2>3, SwitchSched
      <3> QED BY <2>2, <2>3, <3>1 DEF OneRunning, MainInv, SchedInv
    <2>4. ASSUME NoneReady(st, cur), state' = st, cur' = cur
          PROVE  OneRunning' /\ MainInv'
      <3>1. cur = 0 /\ state[0] = "Running" /\ st[0] = "Running"
        BY <2>1, <2>4, NoneReadyMain
      <3>2. \A q \in Threads : st[q] = "Running" => state[q] = "Running"
        BY <2>1 DEF Timed
      <3> QED BY <2>2, <2>4, <3>1, <3>2 DEF OneRunning, MainInv, SchedInv
    <2>5. ArgOther'
      BY <2>2 DEF ArgOther, SchedInv
    <2> QED BY <1>1, <1>6, <2>3, <2>4, <2>5 DEF Tick, SchedInv
  <1>7. CASE UNCHANGED vars
    BY <1>1, <1>7 DEF vars, SchedInv, OneRunning, MainInv, ArgOther
  <1>8. CASE Finished
    BY <1>7, <1>8 DEF Finished
  <1>9. CASE \E t \in Threads : ThreadStep(t)
    BY <1>1, <1>3, <1>9 DEF SchedInv
  <1> QED BY <1>4, <1>5, <1>6, <1>7, <1>8, <1>9 DEF Next

LEMMA SchedInit == ASSUME GthrAssumption, Init PROVE SchedInv
  <1>1. 0 \in Threads /\ 0 \in 0..MaxDelay /\ 0 \in 0..MaxNest
    BY DEF Threads, GthrAssumption
  <1> QED BY <1>1 DEF Init, SchedInv, TypeOK, OneRunning, MainInv, ArgOther,
                      ThreadStates, Pcs

LEMMA SchedAlways == ASSUME GthrAssumption PROVE Spec => []SchedInv
  <1>1. Init => SchedInv
    BY GthrAssumption, SchedInit
  <1>2. SchedInv /\ [Next]_vars => SchedInv'
    BY GthrAssumption, SchedStep
  <1> QED BY <1>1, <1>2, PTL DEF Spec

\* At most one slot of g_gttbl is marked Running, it is the one g_gtcur
\* points to, and the current thread is marked so whenever its code runs:
\* in both modes, whatever threads resume and create each other.
THEOREM OneRunningAlways ==
    ASSUME GthrAssumption PROVE Spec => []OneRunning
  <1>1. SchedInv => OneRunning
    BY DEF SchedInv
  <1> QED BY <1>1, SchedAlways, GthrAssumption, PTL

-----------------------------------------------------------------------------
(* gt_start_scheduler() waits for all tasks.  The status it reads is 0     *)
(* only when main's own scan met nothing but free slots, and from then on  *)
(* nobody is left who could create a thread.                               *)

\* main() is still creating threads.
Setup == pc[0] \in {"user", "goFill", "goReset"}

SetupInv ==
    Setup =>
        /\ cur = 0 /\ ~timer
        /\ \A t \in Tasks : pc[t] = "user" /\ state[t] \in {"Unused", "Ready"}

AllDone ==
    /\ cur = 0 /\ ~Setup
    /\ \A t \in Tasks : state[t] = "Unused"

WaitInv ==
    /\ SchedInv /\ SetupInv
    /\ status = 0 => AllDone
    /\ pc[0] = "returned" => AllDone

LEMMA WaitStep ==
    ASSUME GthrAssumption, WaitInv, [Next]_vars
    PROVE  WaitInv'
  <1>1. SchedInv /\ SchedInv' /\ TypeOK /\ TypeOK'
    BY SchedStep DEF WaitInv, SchedInv
  <1>2. 0 \in Threads /\ Tasks \subseteq Threads /\ 0 \notin Tasks
        /\ \A t \in Threads : t # 0 => t \in Tasks
    BY DEF Threads, Tasks, GthrAssumption
  <1> DEFINE Goal == /\ SetupInv
                     /\ status = 0 => AllDone
                     /\ pc[0] = "returned" => AllDone
  <1> SUFFICES Goal'
    BY <1>1 DEF WaitInv
  <1>3. /\ Goal /\ OneRunning /\ ArgOther /\ MainInv
    BY DEF WaitInv, SchedInv
  <1>4. ASSUME NEW t \in Threads, ThreadStep(t)
        PROVE  Goal'
    <2> USE <1>1, <1>2, <1>3 DEF Active, Setup, SetupInv, AllDone, OneRunning, ArgOther
    <2>1. CASE GoFind(t)
      BY <2>1 DEF GoFind, TypeOK
    <2>2. CASE GoFill(t)
      <3>1. arg[t] \in Threads /\ arg[t] # t /\ arg[t] # 0 /\ cur = t
        BY <2>2 DEF GoFill, TypeOK
      <3>2. ~AllDone
        BY <2>2, <3>1 DEF GoFill
      <3>3. SetupInv'
        BY <2>2, <3>1 DEF GoFill, TypeOK
      <3>4. pc'[0] = "returned" => pc[0] = "returned"
        BY <2>2, <3>1 DEF GoFill, TypeOK
      <3> QED BY <2>2, <3>2, <3>3, <3>4 DEF GoFill
    <2>3. CASE GoReset(t)
      BY <2>3 DEF GoReset, TypeOK
    <2>4. CASE GoFails(t)
      BY <2>4 DEF GoFails, TypeOK
    <2>5. ASSUME NEW n \in 1..MaxDelay, DelaySet(t, n)
          PROVE  Goal'
      BY <2>5 DEF DelaySet, TypeOK
    <2>6. CASE DelayBlock(t)
      BY <2>6 DEF DelayBlock, TypeOK, MainInv
    <2>7. CASE Suspend(t)
      BY <2>7 DEF Suspend, TypeOK
    <2>8. CASE Stop(t)
      BY <2>8 DEF Stop, TypeOK
    <2>9. ASSUME NEW u \in Threads, ResumeCheck(t, u)
          PROVE  Goal'
      BY <2>9 DEF ResumeCheck, TypeOK, GthrAssumption, Tasks
    <2>10. CASE ResumeSet(t)
      <3>1. t # 0 /\ arg[t] # 0 /\ cur = t
        BY <2>10 DEF ResumeSet, MainInv
      <3> QED BY <2>10, <3>1 DEF ResumeSet, TypeOK, MainInv
    <2>11. CASE Yield(t)
      <3>1. Timed(YieldStates) /\ cur = t /\ status' = status /\ timer' = timer
        BY <2>11, TimedTables DEF Yield
      <3>2. ~Setup
        BY <2>11 DEF Yield, YieldCall
      <3>3. ~Setup'
        <4>1. t = 0 => pc[0] = "loop"
          BY <2>11, <1>3 DEF Yield, YieldCall, MainInv
        <4>2. AfterYield("loop") = "loop"
          BY DEF AfterYield
        <4>3. pc'[0] \in {pc[0], "loop", "returned"}
          BY <2>11, <4>1, <4>2 DEF Yield, TypeOK
        <4> QED BY <3>2, <4>3
      <3>4. AllDone => \A q \in Threads : YieldStates[q] # "Ready"
        <4>1. AllDone => state[0] = "Running"
          BY <1>3 DEF MainInv
        <4> QED BY <3>1, <4>1 DEF Timed
      <3>5. ASSUME NEW p \in Threads, Selects(YieldStates, t, p),
                   pc' = [pc EXCEPT ![t] = AfterYield(@)]
            PROVE  Goal'
        <4>1. ~AllDone
          BY <3>4, <3>5, SelectsReady
        <4>2. pc'[0] = "returned" => pc[0] = "returned"
          BY <3>5 DEF AfterYield, TypeOK
        <4> QED BY <3>1, <3>3, <4>1, <4>2
      <3>6. ASSUME NoneReady(YieldStates, t), state' = YieldStates, cur' = cur,
                   pc' = [pc EXCEPT ![t] =
                            IF @ = "loop" /\ NoReadyResult(YieldStates) = 0
                            THEN "returned" ELSE AfterYield(@)]
            PROVE  Goal'
        <4>1. /\ t = 0
              /\ \A q \in Tasks : YieldStates[q] \notin {"Ready", "Running"}
          BY <3>1, <3>6, NoneReadyMain
        <4>2. NoReadyResult(YieldStates) = 0 =>
                \A q \in Tasks : YieldStates[q] = "Unused"
          BY <3>1, <4>1 DEF NoReadyResult, Timed, ThreadStates
        <4>3. AllDone => AllDone'
          BY <3>1, <3>3, <3>6 DEF Timed
        <4>4. pc[0] = "loop" /\ NoReadyResult(YieldStates) = 0 => AllDone'
          BY <3>1, <3>3, <3>6, <4>1, <4>2
        <4>5. pc'[0] = "returned" =>
                \/ pc[0] = "returned"
                \/ NoReadyResult(YieldStates) = 0 /\ pc[0] = "loop"
          <5>1. pc[0] = "loop" /\ AfterYield("loop") = "loop"
            BY <1>3, <2>11, <4>1 DEF Yield, YieldCall, MainInv, AfterYield
          <5> QED BY <3>6, <4>1, <5>1 DEF TypeOK
        <4> QED BY <3>1, <3>3, <4>3, <4>4, <4>5
      <3> QED BY <2>11, <3>5, <3>6 DEF Yield
    <2>12. CASE HandlerReturn(t)
      BY <2>12 DEF HandlerReturn, TypeOK
    <2> QED BY <1>4, <2>1, <2>2, <2>3, <2>4, <2>5, <2>6, <2>7, <2>8, <2>9,
               <2>10, <2>11, <2>12 DEF ThreadStep
  <1>5. CASE StartScheduler
    BY <1>1, <1>2, <1>3, <1>5
       DEF StartScheduler, Active, Setup, SetupInv, AllDone, TypeOK
  <1>6. CASE LoopExit
    BY <1>1, <1>2, <1>3, <1>6
       DEF LoopExit, Active, Setup, SetupInv, AllDone, TypeOK
  <1>7. CASE Tick
    <2> DEFINE st == TimedStates(state, delay)
    <2>1. Timed(st) /\ ~Setup /\ pc' = pc
      BY <1>1, <1>3, <1>7, TimedTables DEF Tick, SetupInv
    <2>2. ~Setup'
      BY <2>1 DEF Setup
    <2>3. AllDone => \A q \in Threads : st[q] # "Ready"
      BY <1>2, <1>3, <2>1 DEF AllDone, Timed, OneRunning, Setup, MainInv
    <2>4. ASSUME NEW p \in Threads, Selects(st, cur, p), status' = status
          PROVE  Goal'
      <3>1. ~AllDone
        BY <2>3, <2>4, SelectsReady
      <3> QED BY <1>3, <2>1, <2>2, <2>4, <3>1 DEF SetupInv
    <2>5. ASSUME NoneReady(st, cur), state' = st, cur' = cur,
                 status' = NoReadyResult(st)
          PROVE  Goal'
      <3>1. cur = 0 /\ \A q \in Tasks : st[q] \notin {"Ready", "Running"}
        BY <1>3, <2>1, <2>5, NoneReadyMain, <1>1
      <3>2. NoReadyResult(st) = 0 => \A q \in Tasks : st[q] = "Unused"
        BY <1>2, <2>1, <3>1 DEF NoReadyResult, Timed, ThreadStates
      <3>3. AllDone => AllDone'
        BY <1>2, <2>1, <2>2, <2>5 DEF AllDone, Timed
      <3>4. status' = 0 => AllDone'
        BY <2>2, <2>5, <3>1, <3>2 DEF AllDone
      <3> QED BY <1>3, <2>1, <2>2, <3>3, <3>4 DEF SetupInv
    <2> QED BY <1>7, <2>4, <2>5 DEF Tick
  <1>8. CASE UNCHANGED vars
    BY <1>3, <1>8 DEF vars, Setup, SetupInv, AllDone
  <1>9. CASE Finished
    BY <1>8, <1>9 DEF Finished
  <1>10. CASE \E t \in Threads : ThreadStep(t)
    BY <1>4, <1>10
  <1> QED BY <1>5, <1>6, <1>7, <1>8, <1>9, <1>10 DEF Next

LEMMA WaitAlways == ASSUME GthrAssumption PROVE Spec => []WaitInv
  <1>1. ASSUME Init PROVE WaitInv
    <2>1. SchedInv
      BY <1>1, GthrAssumption, SchedInit
    <2>2. Tasks \subseteq Threads /\ 0 \in Threads /\ 0 \notin Tasks
      BY GthrAssumption DEF Threads, Tasks, GthrAssumption
    <2>3. SetupInv /\ status # 0 /\ pc[0] # "returned"
      BY <1>1, <2>2 DEF Init, SetupInv
    <2> QED BY <2>1, <2>3 DEF WaitInv
  <1>2. WaitInv /\ [Next]_vars => WaitInv'
    BY GthrAssumption, WaitStep
  <1> QED BY <1>1, <1>2, PTL DEF Spec

\* gt_start_scheduler() returns only when every thread but main has stopped:
\* a suspended, sleeping or preempted thread keeps it waiting.
THEOREM WaitsForAllAlways ==
    ASSUME GthrAssumption PROVE Spec => []WaitsForAll
  <1>1. WaitInv => WaitsForAll
    BY DEF WaitInv, WaitsForAll, AllDone
  <1> QED BY <1>1, WaitAlways, GthrAssumption, PTL

-----------------------------------------------------------------------------
(* A stopped thread stays stopped.  gt_go() and gt_resume() test a slot    *)
(* and store into it later; what they tested still holds then as long as   *)
(* one thread resumes and one creates, as in every program of the          *)
(* repository.  With two of either, TLC shows the opposite.                *)

OneCaller ==
    /\ \A a, b \in Resumers : a = b
    /\ \A a, b \in Creators : a = b

StaleFree ==
    /\ \A t \in Threads :
        /\ pc[t] \in {"atStopYield", "reached"} => state[t] = "Unused"
        /\ pc[t] = "resume" => t \in Resumers /\ state[arg[t]] = "Suspended"
        /\ pc[t] \in {"goFill", "goReset"} => MayCreate(t)
    /\ SlotStillFree

StopInv == WaitInv /\ StaleFree

\* A step that leaves pc alone but for a return to user code, and leaves the
\* Unused and the Suspended slots as they were, keeps StaleFree.
LEMMA StaleFreeKept ==
    ASSUME TypeOK, StaleFree, arg' = arg, TypeOK',
           \A t \in Threads :
               /\ state[t] \in {"Unused", "Suspended"} => state'[t] = state[t]
               /\ \/ pc'[t] = pc[t]
                  \/ pc'[t] \in {"user", "loop", "returned"}
                  \/ pc[t] = "atStopYield" /\ pc'[t] = "reached"
    PROVE  StaleFree'
  BY DEF StaleFree, SlotStillFree, MayCreate, TypeOK

LEMMA StopStep ==
    ASSUME GthrAssumption, OneCaller, StopInv, [Next]_vars
    PROVE  StaleFree'
  <1>1. WaitInv /\ SchedInv /\ TypeOK /\ TypeOK' /\ StaleFree
        /\ OneRunning /\ MainInv /\ ArgOther /\ SetupInv
    BY TypeStep DEF StopInv, WaitInv, SchedInv
  <1>2. 0 \in Threads /\ Tasks \subseteq Threads /\ 0 \notin Tasks
        /\ (\A t \in Threads : t # 0 => t \in Tasks)
        /\ Resumers \subseteq Tasks /\ Creators \subseteq Tasks
    BY DEF Threads, Tasks, GthrAssumption
  <1>3. ASSUME NEW t \in Threads, ThreadStep(t)
        PROVE  StaleFree'
    <2>0. pc[t] \in {"user", "delaySet"} /\ Active(t) => state[t] = "Running"
      BY <1>1 DEF Active, OneRunning
    <2>1. CASE GoFind(t)
      BY <1>1, <2>1 DEF GoFind, StaleFree, SlotStillFree, MayCreate, TypeOK
    <2>2. CASE GoFill(t)
      <3>1. /\ arg[t] \in Threads /\ arg[t] # t /\ arg[t] # 0 /\ cur = t
            /\ state[arg[t]] = "Unused"
        BY <1>1, <2>2 DEF GoFill, Active, ArgOther, StaleFree, SlotStillFree, TypeOK
      <3>2. ASSUME NEW q \in Threads, pc[q] = "goFill" PROVE q = t
        <4>1. MayCreate(t) /\ MayCreate(q) /\ pc[t] = "goFill"
          BY <1>1, <2>2, <3>2 DEF GoFill, StaleFree
        <4>2. CASE t = 0
          BY <1>1, <1>2, <2>2, <3>2, <4>2 DEF GoFill, SetupInv, Setup
        <4>3. CASE q = 0
          BY <1>1, <1>2, <2>2, <3>1, <3>2, <4>3 DEF SetupInv, Setup
        <4> QED BY <4>1, <4>2, <4>3 DEF MayCreate, OneCaller
      <3>3. /\ state' = [state EXCEPT ![arg[t]] = "Ready"]
            /\ pc' = [pc EXCEPT ![arg[t]] = "user", ![t] = "goReset"]
            /\ arg' = arg /\ MayCreate(t)
        BY <1>1, <2>2 DEF GoFill, StaleFree
      <3> QED BY <1>1, <3>1, <3>2, <3>3 DEF StaleFree, SlotStillFree, MayCreate, TypeOK
    <2>3. CASE GoReset(t)
      BY <1>1, <2>3, StaleFreeKept DEF GoReset, TypeOK
    <2>4. CASE GoFails(t)
      BY <1>1, <2>4, StaleFreeKept DEF GoFails, TypeOK
    <2>5. ASSUME NEW n \in 1..MaxDelay, DelaySet(t, n) PROVE StaleFree'
      BY <1>1, <2>5 DEF DelaySet, StaleFree, SlotStillFree, MayCreate, TypeOK
    <2>6. CASE DelayBlock(t)
      BY <1>1, <2>0, <2>6 DEF DelayBlock, StaleFree, SlotStillFree, MayCreate, TypeOK
    <2>7. CASE Suspend(t)
      BY <1>1, <2>0, <2>7 DEF Suspend, StaleFree, SlotStillFree, MayCreate, TypeOK
    <2>8. CASE Stop(t)
      BY <1>1, <2>0, <2>8 DEF Stop, StaleFree, SlotStillFree, MayCreate, TypeOK
    <2>9. ASSUME NEW u \in Threads, ResumeCheck(t, u) PROVE StaleFree'
      BY <1>1, <2>9 DEF ResumeCheck, StaleFree, SlotStillFree, MayCreate, TypeOK
    <2>10. CASE ResumeSet(t)
      <3>1. arg[t] \in Threads /\ state[arg[t]] = "Suspended" /\ t \in Resumers
        BY <1>1, <2>10 DEF ResumeSet, StaleFree, TypeOK
      <3>2. \A q \in Threads : pc[q] = "resume" => q = t
        BY <1>1, <3>1 DEF StaleFree, OneCaller
      <3> QED BY <1>1, <2>10, <3>1, <3>2
              DEF ResumeSet, StaleFree, SlotStillFree, MayCreate, TypeOK
    <2>11. CASE Yield(t)
      <3>1. Timed(YieldStates) /\ cur = t /\ arg' = arg
        BY <1>1, <2>11, TimedTables DEF Yield, Active
      <3>2. \A q \in Threads :
              state[q] \in {"Unused", "Suspended"} => state'[q] = state[q]
        <4>1. ASSUME NEW p \in Threads, Selects(YieldStates, t, p),
                     state' = Switched(YieldStates, t, p)
              PROVE  \A q \in Threads :
                state[q] \in {"Unused", "Suspended"} => state'[q] = state[q]
          BY <1>1, <3>1, <4>1, SwitchSched
        <4>2. ASSUME state' = YieldStates
              PROVE  \A q \in Threads :
                state[q] \in {"Unused", "Suspended"} => state'[q] = state[q]
          BY <3>1, <4>2 DEF Timed
        <4> QED BY <2>11, <4>1, <4>2 DEF Yield
      <3>3. \A q \in Threads :
              \/ pc'[q] = pc[q]
              \/ pc'[q] \in {"user", "loop", "returned"}
              \/ pc[q] = "atStopYield" /\ pc'[q] = "reached"
        BY <1>1, <2>11 DEF Yield, YieldCall, AfterYield, TypeOK
      <3> QED BY <1>1, <3>1, <3>2, <3>3, StaleFreeKept
    <2>12. CASE HandlerReturn(t)
      BY <1>1, <2>12, StaleFreeKept DEF HandlerReturn
    <2> QED BY <1>3, <2>1, <2>2, <2>3, <2>4, <2>5, <2>6, <2>7, <2>8, <2>9,
               <2>10, <2>11, <2>12 DEF ThreadStep
  <1>4. CASE StartScheduler
    BY <1>1, <1>4, StaleFreeKept DEF StartScheduler, TypeOK
  <1>5. CASE LoopExit
    BY <1>1, <1>5, StaleFreeKept DEF LoopExit, TypeOK
  <1>6. CASE Tick
    <2> DEFINE st == TimedStates(state, delay)
    <2>1. Timed(st) /\ pc' = pc /\ arg' = arg
      BY <1>1, <1>6, TimedTables DEF Tick
    <2>2. ASSUME NEW p \in Threads, Selects(st, cur, p),
                 state' = Switched(st, cur, p)
          PROVE  \A q \in Threads :
            state[q] \in {"Unused", "Suspended"} => state'[q] = state[q]
      BY <1>1, <2>1, <2>2, SwitchSched
    <2>3. ASSUME state' = st
          PROVE  \A q \in Threads :
            state[q] \in {"Unused", "Suspended"} => state'[q] = state[q]
      BY <2>1, <2>3 DEF Timed
    <2>4. \A q \in Threads :
            state[q] \in {"Unused", "Suspended"} => state'[q] = state[q]
      BY <1>6, <2>2, <2>3 DEF Tick
    <2> QED BY <1>1, <2>1, <2>4, StaleFreeKept
  <1>7. CASE UNCHANGED vars
    BY <1>1, <1>7, StaleFreeKept DEF vars
  <1>8. CASE Finished
    BY <1>7, <1>8 DEF Finished
  <1>9. CASE \E t \in Threads : ThreadStep(t)
    BY <1>3, <1>9
  <1> QED BY <1>4, <1>5, <1>6, <1>7, <1>8, <1>9 DEF StopInv, Next

LEMMA StopAlways == ASSUME GthrAssumption, OneCaller PROVE Spec => []StopInv
  <1>1. Init => StaleFree
    BY DEF Init, StaleFree, SlotStillFree
  <1>2. StopInv /\ [Next]_vars => StaleFree'
    BY GthrAssumption, OneCaller, StopStep
  <1> QED BY <1>1, <1>2, WaitAlways, GthrAssumption, PTL DEF Spec, StopInv

\* The assert( !"reachable" ) of gt_stop() holds: with one resumer and one
\* creator no stopped thread is ever switched back to on its old stack.
THEOREM StopNeverReturnsAlways ==
    ASSUME GthrAssumption, OneCaller PROVE Spec => []StopNeverReturns
  <1>1. StopInv => StopNeverReturns
    BY DEF StopInv, StaleFree, WaitInv, SchedInv, TypeOK, OneRunning,
           StopNeverReturns
  <1> QED BY <1>1, StopAlways, GthrAssumption, OneCaller, PTL

\* gt_go() fills in a slot that is still free, whatever ran since its scan.
THEOREM SlotStillFreeAlways ==
    ASSUME GthrAssumption, OneCaller PROVE Spec => []SlotStillFree
  <1>1. StopInv => SlotStillFree
    BY DEF StopInv, StaleFree
  <1> QED BY <1>1, StopAlways, GthrAssumption, OneCaller, PTL

-----------------------------------------------------------------------------
(* Sleeping.                                                               *)

LastTick(t) ==
    state[t] = "Blocked" /\ state'[t] # "Blocked" => delay[t] = 1 /\ delay'[t] = 0

LEMMA WakeStep ==
    ASSUME GthrAssumption, OneCaller, StopInv, [Next]_vars
    PROVE  \A u \in Threads : LastTick(u)
  <1>1. SchedInv /\ TypeOK /\ StaleFree /\ OneRunning /\ MainInv
    BY DEF StopInv, WaitInv, SchedInv
  <1>2. ASSUME NEW t \in Threads, ThreadStep(t)
        PROVE  \A u \in Threads : LastTick(u)
    <2> USE <1>1 DEF LastTick, Active, OneRunning
    <2>1. CASE GoFind(t) \/ GoReset(t) \/ GoFails(t) \/ HandlerReturn(t)
      BY <2>1 DEF GoFind, GoReset, GoFails, HandlerReturn
    <2>2. CASE GoFill(t)
      BY <2>2 DEF GoFill, StaleFree, SlotStillFree, TypeOK
    <2>3. ASSUME NEW n \in 1..MaxDelay, DelaySet(t, n)
          PROVE  \A u \in Threads : LastTick(u)
      BY <2>3 DEF DelaySet
    <2>4. CASE DelayBlock(t) \/ Suspend(t) \/ Stop(t)
      BY <2>4 DEF DelayBlock, Suspend, Stop, TypeOK
    <2>5. ASSUME NEW u \in Threads, ResumeCheck(t, u)
          PROVE  \A q \in Threads : LastTick(q)
      BY <2>5 DEF ResumeCheck
    <2>6. CASE ResumeSet(t)
      BY <2>6 DEF ResumeSet, StaleFree, TypeOK
    <2>7. CASE Yield(t)
      <3>1. Timed(YieldStates) /\ cur = t /\ delay' = YieldDelays
        BY <2>7, TimedTables DEF Yield
      <3>2. \A u \in Threads : YieldStates[u] = "Blocked" => state'[u] = "Blocked"
        <4>1. ASSUME NEW p \in Threads, Selects(YieldStates, t, p),
                     state' = Switched(YieldStates, t, p)
              PROVE  \A u \in Threads :
                        YieldStates[u] = "Blocked" => state'[u] = "Blocked"
          BY <3>1, <4>1, SwitchSched
        <4> QED BY <2>7, <4>1 DEF Yield
      <3>3. \A u \in Threads :
                \/ YieldStates[u] = state[u]
                \/ delay[u] = 1 /\ YieldDelays[u] = 0
        BY YieldFacts
      <3> QED BY <3>1, <3>2, <3>3
    <2> QED BY <1>2, <2>1, <2>2, <2>3, <2>4, <2>5, <2>6, <2>7 DEF ThreadStep
  <1>3. CASE Tick
    <2> DEFINE st == TimedStates(state, delay)
    <2>1. Timed(st) /\ delay' = TimedDelays(state, delay)
      BY <1>1, <1>3, TimedTables DEF Tick
    <2>2. \A u \in Threads : st[u] = "Blocked" => state'[u] = "Blocked"
      <3>1. ASSUME NEW p \in Threads, Selects(st, cur, p),
                   state' = Switched(st, cur, p)
            PROVE  \A u \in Threads : st[u] = "Blocked" => state'[u] = "Blocked"
        BY <1>1, <2>1, <3>1, SwitchSched
      <3> QED BY <1>3, <3>1 DEF Tick
    <2>3. \A u \in Threads :
              \/ st[u] = state[u]
              \/ delay[u] = 1 /\ TimedDelays(state, delay)[u] = 0
      BY <1>1, TimedFacts
    <2> QED BY <2>1, <2>2, <2>3 DEF LastTick
  <1>4. CASE StartScheduler \/ LoopExit \/ Finished \/ UNCHANGED vars
    BY <1>4 DEF StartScheduler, LoopExit, Finished, vars, LastTick
  <1> QED BY <1>2, <1>3, <1>4 DEF Next

\* gt_delay() never ends early: only the tick that takes the last of its
\* delay makes a Blocked thread Ready, with one resumer and one creator.
THEOREM NoEarlyWakeAlways ==
    ASSUME GthrAssumption, OneCaller PROVE Spec => NoEarlyWake
  <1>1. StopInv /\ [Next]_vars =>
          [\A t \in Threads :
            state[t] = "Blocked" /\ state'[t] # "Blocked"
                => delay[t] = 1 /\ delay'[t] = 0]_vars
    BY GthrAssumption, OneCaller, WakeStep DEF LastTick
  <1> QED BY <1>1, StopAlways, GthrAssumption, OneCaller, PTL DEF Spec, NoEarlyWake

(* That a sleeper has ticks to go needs more: gt_go() stores delay_ticks   *)
(* after it has made the thread Ready.  Without gt_go() in running threads *)
(* that store is made by main alone, before anything else runs.            *)

SleepInv ==
    \A t \in Threads :
        /\ state[t] = "Blocked" \/ pc[t] = "delaySet" => delay[t] > 0
        /\ pc[t] = "delaySet" => state[t] \in {"Running", "Ready"}
        /\ pc[t] \in {"goFill", "goReset"} => MayCreate(t)

\* What the timers leave: ticks for those who sleep or are about to.
Wakes(st, dl) ==
    \A u \in Threads : st[u] = "Blocked" \/ pc[u] = "delaySet" => dl[u] > 0

\* What gt_yield() leaves: it blocks nobody, and a thread that had or waited
\* for the CPU still does.
TableKept(st) ==
    \A u \in Threads :
        /\ state'[u] = "Blocked" => st[u] = "Blocked"
        /\ state[u] \in {"Running", "Ready"} => state'[u] \in {"Running", "Ready"}

LEMMA SleepStep ==
    ASSUME GthrAssumption, Creators = {}, WaitInv, SleepInv, [Next]_vars
    PROVE  SleepInv'
  <1>1. SchedInv /\ TypeOK /\ SetupInv /\ OneRunning /\ MainInv /\ ArgOther
    BY DEF WaitInv, SchedInv
  <1>2. 0 \in Threads /\ (\A t \in Threads : t # 0 => t \in Tasks)
    BY DEF Threads, Tasks, GthrAssumption
  <1>3. ASSUME NEW t \in Threads, ThreadStep(t)
        PROVE  SleepInv'
    <2> USE <1>1, <1>2 DEF Active, SleepInv, TypeOK, MayCreate
    <2>1. CASE GoFind(t) \/ GoFails(t) \/ HandlerReturn(t)
      BY <2>1 DEF GoFind, GoFails, HandlerReturn
    <2>2. CASE GoFill(t)
      <3>1. arg[t] \in Threads /\ arg[t] # t /\ MayCreate(t)
        BY <2>2 DEF GoFill, ArgOther
      <3>2. /\ state' = [state EXCEPT ![arg[t]] = "Ready"]
            /\ pc' = [pc EXCEPT ![arg[t]] = "user", ![t] = "goReset"]
            /\ delay' = delay
        BY <2>2 DEF GoFill
      <3> QED BY <3>1, <3>2
    <2>3. CASE GoReset(t)
      <3>1. t = 0 /\ Setup /\ arg[0] \in Threads
        BY <2>3 DEF GoReset, Setup
      <3>2. state[arg[0]] # "Blocked" /\ pc[arg[0]] # "delaySet"
        BY <3>1 DEF SetupInv, MainInv
      <3> QED BY <2>3, <3>1, <3>2 DEF GoReset
    <2>4. ASSUME NEW n \in 1..MaxDelay, DelaySet(t, n) PROVE SleepInv'
      <3>1. state[t] = "Running" /\ n > 0
        BY <2>4 DEF DelaySet, OneRunning, GthrAssumption
      <3> QED BY <2>4, <3>1 DEF DelaySet
    <2>5. CASE DelayBlock(t) \/ Suspend(t) \/ Stop(t)
      BY <2>5 DEF DelayBlock, Suspend, Stop
    <2>6. ASSUME NEW u \in Threads, ResumeCheck(t, u) PROVE SleepInv'
      BY <2>6 DEF ResumeCheck
    <2>7. CASE ResumeSet(t)
      BY <2>7 DEF ResumeSet
    <2>8. CASE Yield(t)
      <3>1. Timed(YieldStates) /\ cur = t /\ delay' = YieldDelays
        BY <2>8, TimedTables DEF Yield
      <3>2. Wakes(YieldStates, YieldDelays)
        BY DEF Wakes, YieldStates, YieldDelays, TimedStates, TimedDelays, Expired
      <3>3. TableKept(YieldStates)
        <4>1. ASSUME NEW p \in Threads, Selects(YieldStates, t, p),
                     state' = Switched(YieldStates, t, p)
              PROVE  TableKept(YieldStates)
          BY <3>1, <4>1, SwitchSched DEF TableKept, ThreadStates
        <4>2. ASSUME state' = YieldStates PROVE TableKept(YieldStates)
          BY <3>1, <4>2 DEF TableKept, Timed
        <4> QED BY <2>8, <4>1, <4>2 DEF Yield
      <3>4. \A u \in Threads :
              pc'[u] \in {"delaySet", "goFill", "goReset"} => pc'[u] = pc[u]
        BY <2>8 DEF Yield, YieldCall, AfterYield
      <3> QED BY <3>1, <3>2, <3>3, <3>4 DEF Wakes, TableKept
    <2> QED BY <1>3, <2>1, <2>2, <2>3, <2>4, <2>5, <2>6, <2>7, <2>8 DEF ThreadStep
  <1>4. CASE Tick
    <2> DEFINE st == TimedStates(state, delay)
               dl == TimedDelays(state, delay)
    <2>1. Timed(st) /\ delay' = dl /\ pc' = pc
      BY <1>1, <1>4, TimedTables DEF Tick
    <2>2. Wakes(st, dl)
      BY <1>1 DEF Wakes, SleepInv, TimedStates, TimedDelays, Expired, TypeOK
    <2>3. TableKept(st)
      <3>1. ASSUME NEW p \in Threads, Selects(st, cur, p),
                   state' = Switched(st, cur, p)
            PROVE  TableKept(st)
        BY <1>1, <2>1, <3>1, SwitchSched DEF TableKept, ThreadStates
      <3>2. ASSUME state' = st PROVE TableKept(st)
        BY <2>1, <3>2 DEF TableKept, Timed
      <3> QED BY <1>4, <3>1, <3>2 DEF Tick
    <2> QED BY <2>1, <2>2, <2>3 DEF Wakes, TableKept, SleepInv, MayCreate
  <1>5. CASE StartScheduler \/ LoopExit \/ Finished \/ UNCHANGED vars
    BY <1>1, <1>2, <1>5
       DEF StartScheduler, LoopExit, Finished, vars, SleepInv, TypeOK, MayCreate
  <1> QED BY <1>3, <1>4, <1>5 DEF Next

\* No lost sleeper: a Blocked thread always has ticks to go, so that
\* gt_manage_timers() will wake it, if no running thread calls gt_go().
THEOREM BlockedHasDelayAlways ==
    ASSUME GthrAssumption, Creators = {} PROVE Spec => []BlockedHasDelay
  <1>1. Init => SleepInv
    BY DEF Init, SleepInv
  <1>2. WaitInv /\ SleepInv /\ [Next]_vars => SleepInv'
    BY GthrAssumption, Creators = {}, SleepStep
  <1>3. SleepInv => BlockedHasDelay
    BY DEF SleepInv, BlockedHasDelay
  <1> QED BY <1>1, <1>2, <1>3, WaitAlways, GthrAssumption, PTL DEF Spec
=============================================================================
