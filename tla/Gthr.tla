-------------------------------- MODULE Gthr --------------------------------
(***************************************************************************)
(* The green-thread scheduler of osy-gthreads-main/gthr.c and of its two   *)
(* variants osy-gthreads-main-learn and osy-gthreads-main_test.            *)
(*                                                                         *)
(* A thread is a slot of g_gttbl.  Thread 0 is main(): it creates threads, *)
(* starts the scheduler and then idles in gt_start_scheduler().  Every     *)
(* other thread is nondeterministic user code that calls gt_delay,         *)
(* gt_suspend, gt_resume, gt_go, gt_yield or returns into gt_stop.         *)
(*                                                                         *)
(* Grain of atomicity.  SIGALRM is a step of its own (Tick) that may fall  *)
(* between any two statements of the API that touch g_gttbl, and between   *)
(* the switch back into a handler and the assignment of its result.  It    *)
(* does not fall inside gt_yield() or gt_manage_timers(): the period is    *)
(* 10 ms and these are some hundred instructions.  Module GthrNested opens *)
(* gt_yield() to it; gt_manage_timers() is one step in both.               *)
(***************************************************************************)
EXTENDS Integers

CONSTANTS
    N,          \* MaxGThreads
    MaxDelay,   \* bound: the longest gt_delay(), in ticks
    MaxNest,    \* bound: handler frames that may pile up on one stack
    Preemptive, \* GT_PREEMPTIVE # 0
    Variant,    \* whose gt_yield(): "main", "learn" or "test"
    Resumers,   \* threads whose code calls gt_resume()
    Creators    \* threads whose code calls gt_go() after the scheduler started

ASSUME GthrAssumption ==
    /\ N \in Nat \ {0}
    /\ MaxDelay \in Nat \ {0}
    /\ MaxNest \in Nat \ {0}
    /\ Preemptive \in BOOLEAN
    /\ Variant \in {"main", "learn", "test"}
    /\ Resumers \subseteq 1..N-1
    /\ Creators \subseteq 1..N-1

Threads == 0..N-1
Tasks   == 1..N-1

ThreadStates == {"Unused", "Running", "Ready", "Blocked", "Suspended"}

(***************************************************************************)
(* Where a thread's own code stands.  "user": in its run function.         *)
(* "delaySet": gt_delay() has stored the ticks, not yet the state.         *)
(* "atDelayYield", "atSuspendYield", "atStopYield": the state is stored    *)
(* and gt_yield() is about to be called.  "resume", "goFill", "goReset":   *)
(* between two statements of gt_resume() or gt_go(), with the slot in arg. *)
(* "reached": back from the gt_yield() of gt_stop(), at its assert.        *)
(* "loop", "returned": main in gt_start_scheduler(), and after it.         *)
(***************************************************************************)
Pcs == {"user", "delaySet", "atDelayYield", "atSuspendYield", "atStopYield",
        "resume", "goFill", "goReset", "reached", "loop", "returned"}

VARIABLES
    state,   \* thread_state of every slot
    delay,   \* delay_ticks of every slot
    cur,     \* g_gtcur
    status,  \* g_gt_yield_status, by its sign
    timer,   \* the interval timer is armed
    masked,  \* SIGALRM is blocked in the process's mask
    pc,      \* the point at which a thread's own code is, or will be resumed
    sig,     \* signal handler frames on top of the thread's own code
    arg      \* slot that gt_resume() or gt_go() holds across statements

vars == <<state, delay, cur, status, timer, masked, pc, sig, arg>>

-----------------------------------------------------------------------------

\* gt_init(): slot 0 runs, the others are free.
Init ==
    /\ state  = [t \in Threads |-> IF t = 0 THEN "Running" ELSE "Unused"]
    /\ delay  = [t \in Threads |-> 0]
    /\ cur    = 0
    /\ status = 1
    /\ timer  = FALSE
    /\ masked = FALSE
    /\ pc     = [t \in Threads |-> "user"]
    /\ sig    = [t \in Threads |-> 0]
    /\ arg    = [t \in Threads |-> 0]

-----------------------------------------------------------------------------
(* gt_yield(): the scan for a Ready slot and the bookkeeping of the switch. *)

\* Slots after c in the order of the scan.
Dist(c, p) == IF p >= c THEN p - c ELSE p - c + N

\* The slots at which the scan from c may stop.  The loop of "learn" tests
\* the condition last, so that it never selects the current thread.
Candidates(st, c) ==
    {p \in Threads : st[p] = "Ready" /\ (Variant = "learn" => p # c)}

First(st, c, p) ==
    /\ p \in Candidates(st, c)
    /\ \A q \in Candidates(st, c) : Dist(c, p) <= Dist(c, q)

\* "test" replaces main by the lowest Ready thread, if there is one.
Selects(st, c, p) ==
    IF Variant = "test" /\ First(st, c, 0) /\ \E q \in Tasks : st[q] = "Ready"
    THEN /\ p \in Tasks /\ st[p] = "Ready"
         /\ \A q \in Tasks : st[q] = "Ready" => p <= q
    ELSE First(st, c, p)

NoneReady(st, c) == Candidates(st, c) = {}

\* Mutant: the thread that loses the CPU is left marked Running.
SwitchedKeepsOld(st, c, p) == [st EXCEPT ![p] = "Running"]

\* The state table once the switch from c to p is recorded.
Switched(st, c, p) ==
    [[st EXCEPT ![c] = IF @ = "Running" THEN "Ready" ELSE @]
        EXCEPT ![p] = "Running"]

\* Mutant: Suspended threads are not counted.
CountsBlockedOnly(st) ==
    IF \E t \in Threads : st[t] = "Blocked" THEN -1 ELSE 0

\* Mutant: free slots are counted too.
CountsUnused(st) ==
    IF \E t \in Threads : st[t] \in {"Blocked", "Suspended", "Unused"}
    THEN -1 ELSE 0

\* The sign of what gt_yield() returns when it finds no Ready thread: minus
\* the number of threads that are Blocked or Suspended.
NoReadyResult(st) ==
    IF \E t \in Threads : st[t] \in {"Blocked", "Suspended"} THEN -1 ELSE 0

\* Mutant: the delay is compared with 0 before it is decremented.
ExpiredBeforeDecrement(st, dl, t) == st[t] = "Blocked" /\ dl[t] = 0

\* What gt_manage_timers() leaves in the table.
Expired(st, dl, t) == st[t] = "Blocked" /\ dl[t] = 1

TimedStates(st, dl) ==
    [t \in Threads |-> IF Expired(st, dl, t) THEN "Ready" ELSE st[t]]

\* Mutant: the ticks of every slot are counted, whatever its state and value.
TimedDelaysOfAll(st, dl) == [t \in Threads |-> dl[t] - 1]

TimedDelays(st, dl) ==
    [t \in Threads |->
        IF st[t] = "Blocked" /\ dl[t] > 0 THEN dl[t] - 1 ELSE dl[t]]

\* In cooperative mode the gt_yield() of "learn" advances the timers first.
YieldStates ==
    IF ~Preemptive /\ Variant = "learn" THEN TimedStates(state, delay) ELSE state

YieldDelays ==
    IF ~Preemptive /\ Variant = "learn" THEN TimedDelays(state, delay) ELSE delay

-----------------------------------------------------------------------------
(* Steps of the thread that owns the CPU, outside any handler frame.       *)

Active(t) == cur = t /\ sig[t] = 0

\* gt_go() is called by main before the scheduler runs, and by Creators.
MayCreate(t) == t = 0 \/ t \in Creators

\* Mutant: any slot that is not running is taken for a free one.
GoFindIdle(t) ==
    /\ Active(t) /\ pc[t] = "user" /\ MayCreate(t)
    /\ \E p \in Threads :
        /\ state[p] # "Running"
        /\ \A q \in Threads : state[q] # "Running" => p <= q
        /\ arg' = [arg EXCEPT ![t] = p]
    /\ pc' = [pc EXCEPT ![t] = "goFill"]
    /\ UNCHANGED <<state, delay, cur, status, timer, masked, sig>>

\* First half of gt_go(): the lowest Unused slot, then malloc().
GoFind(t) ==
    /\ Active(t) /\ pc[t] = "user" /\ MayCreate(t)
    /\ \E p \in Threads :
        /\ state[p] = "Unused"
        /\ \A q \in Threads : state[q] = "Unused" => p <= q
        /\ arg' = [arg EXCEPT ![t] = p]
    /\ pc' = [pc EXCEPT ![t] = "goFill"]
    /\ UNCHANGED <<state, delay, cur, status, timer, masked, sig>>

\* Mutant: the slot is made Ready with the stack it had.
GoFillOldStack(t) ==
    /\ Active(t) /\ pc[t] = "goFill"
    /\ state' = [state EXCEPT ![arg[t]] = "Ready"]
    /\ pc'    = [pc EXCEPT ![t] = "goReset"]
    /\ UNCHANGED <<delay, cur, status, timer, masked, sig, arg>>

\* The new stack, entered at t_run, and thread_state = Ready.
GoFill(t) ==
    /\ Active(t) /\ pc[t] = "goFill"
    /\ state' = [state EXCEPT ![arg[t]] = "Ready"]
    /\ pc'    = [pc EXCEPT ![arg[t]] = "user", ![t] = "goReset"]
    /\ sig'   = [sig EXCEPT ![arg[t]] = 0]
    /\ UNCHANGED <<delay, cur, status, timer, masked, arg>>

\* delay_ticks = 0, stored after the thread has become Ready.
GoReset(t) ==
    /\ Active(t) /\ pc[t] = "goReset"
    /\ delay' = [delay EXCEPT ![arg[t]] = 0]
    /\ pc'    = [pc EXCEPT ![t] = "user"]
    /\ UNCHANGED <<state, cur, status, timer, masked, sig, arg>>

\* malloc() fails: gt_go() returns -1 and leaves the slot as it was.
GoFails(t) ==
    /\ Active(t) /\ pc[t] = "goFill"
    /\ pc' = [pc EXCEPT ![t] = "user"]
    /\ UNCHANGED <<state, delay, cur, status, timer, masked, sig, arg>>

\* Mutant: a delay below one period is not rounded up to one tick.
DelaySetUnrounded(t, n) ==
    /\ Active(t) /\ pc[t] = "user" /\ t \in Tasks
    /\ delay' = [delay EXCEPT ![t] = n - 1]
    /\ pc'    = [pc EXCEPT ![t] = "delaySet"]
    /\ UNCHANGED <<state, cur, status, timer, masked, sig, arg>>

\* gt_delay(): the ticks, and then the state.
DelaySet(t, n) ==
    /\ Active(t) /\ pc[t] = "user" /\ t \in Tasks
    /\ delay' = [delay EXCEPT ![t] = n]
    /\ pc'    = [pc EXCEPT ![t] = "delaySet"]
    /\ UNCHANGED <<state, cur, status, timer, masked, sig, arg>>

DelayBlock(t) ==
    /\ Active(t) /\ pc[t] = "delaySet"
    /\ state' = [state EXCEPT ![t] = "Blocked"]
    /\ pc'    = [pc EXCEPT ![t] = "atDelayYield"]
    /\ UNCHANGED <<delay, cur, status, timer, masked, sig, arg>>

Suspend(t) ==
    /\ Active(t) /\ pc[t] = "user" /\ t \in Tasks
    /\ state' = [state EXCEPT ![t] = "Suspended"]
    /\ pc'    = [pc EXCEPT ![t] = "atSuspendYield"]
    /\ UNCHANGED <<delay, cur, status, timer, masked, sig, arg>>

\* A thread's run function returns into gt_stop().
Stop(t) ==
    /\ Active(t) /\ pc[t] = "user" /\ t \in Tasks
    /\ state' = [state EXCEPT ![t] = "Unused"]
    /\ pc'    = [pc EXCEPT ![t] = "atStopYield"]
    /\ UNCHANGED <<delay, cur, status, timer, masked, sig, arg>>

\* Mutant: gt_resume() does not look at the state.
ResumeUnchecked(t, u) ==
    /\ Active(t) /\ pc[t] = "user" /\ t \in Resumers
    /\ arg' = [arg EXCEPT ![t] = u]
    /\ pc'  = [pc EXCEPT ![t] = "resume"]
    /\ UNCHANGED <<state, delay, cur, status, timer, masked, sig>>

\* gt_resume(u): the test, and then the store.
ResumeCheck(t, u) ==
    /\ Active(t) /\ pc[t] = "user" /\ t \in Resumers
    /\ state[u] = "Suspended"
    /\ arg' = [arg EXCEPT ![t] = u]
    /\ pc'  = [pc EXCEPT ![t] = "resume"]
    /\ UNCHANGED <<state, delay, cur, status, timer, masked, sig>>

ResumeSet(t) ==
    /\ Active(t) /\ pc[t] = "resume"
    /\ state' = [state EXCEPT ![arg[t]] = "Ready"]
    /\ pc'    = [pc EXCEPT ![t] = "user"]
    /\ UNCHANGED <<delay, cur, status, timer, masked, sig, arg>>

\* Where a voluntary gt_yield() returns to.
AfterYield(l) ==
    CASE l \in {"atDelayYield", "atSuspendYield", "user"} -> "user"
      [] l = "atStopYield" -> "reached"
      [] OTHER -> l

YieldCall(t) ==
    \/ pc[t] \in {"atDelayYield", "atSuspendYield", "atStopYield"}
    \/ pc[t] = "user" /\ t \in Tasks
    \/ pc[t] = "loop" /\ ~Preemptive

\* gt_yield() called by a thread, or by the loop of gt_start_scheduler() in
\* cooperative mode; that loop ends on the result 0.
Yield(t) ==
    /\ Active(t) /\ YieldCall(t)
    /\ delay' = YieldDelays
    /\ \/ \E p \in Threads :
            /\ Selects(YieldStates, t, p)
            /\ state' = Switched(YieldStates, t, p)
            /\ cur' = p
            /\ pc' = [pc EXCEPT ![t] = AfterYield(@)]
       \/ /\ NoneReady(YieldStates, t)
          /\ state' = YieldStates
          /\ cur' = cur
          /\ pc' = [pc EXCEPT ![t] =
                IF @ = "loop" /\ NoReadyResult(YieldStates) = 0
                THEN "returned" ELSE AfterYield(@)]
    /\ UNCHANGED <<status, timer, masked, sig, arg>>

-----------------------------------------------------------------------------
(* gt_start_scheduler() and the signal handler.                            *)

StartScheduler ==
    /\ Active(0) /\ pc[0] = "user"
    /\ pc' = [pc EXCEPT ![0] = "loop"]
    /\ timer' = Preemptive
    /\ UNCHANGED <<state, delay, cur, status, masked, sig, arg>>

\* The idle loop reads the yield status; gt_sig_stop() follows it.
LoopExit ==
    /\ Active(0) /\ pc[0] = "loop" /\ Preemptive /\ status = 0
    /\ pc' = [pc EXCEPT ![0] = "returned"]
    /\ timer' = FALSE
    /\ UNCHANGED <<state, delay, cur, status, masked, sig, arg>>

\* Mutant: gt_sig_mask_reset() is not called.
MaskNotReset == TRUE

\* The kernel enters the handler with SIGALRM blocked; gt_sig_mask_reset()
\* unblocks it, so that a thread the handler switches to can be preempted.
MaskAfterReset == FALSE

\* SIGALRM: gt_sig_handle() runs on the stack of the current thread up to
\* the switch, or to its end when no thread is Ready.
Tick ==
    LET st == TimedStates(state, delay) IN
    /\ timer /\ ~masked /\ sig[cur] < MaxNest
    /\ delay' = TimedDelays(state, delay)
    /\ \/ \E p \in Threads :
            /\ Selects(st, cur, p)
            /\ state' = Switched(st, cur, p)
            /\ cur' = p
            /\ sig' = [sig EXCEPT ![cur] = @ + 1]
            /\ masked' = MaskAfterReset
            /\ UNCHANGED status
       \/ /\ NoneReady(st, cur)
          /\ state' = st
          /\ status' = NoReadyResult(st)
          /\ UNCHANGED <<cur, sig, masked>>
    /\ UNCHANGED <<timer, pc, arg>>

\* A preempted thread is back in its handler frame: gt_yield() returns 1,
\* and returning from the handler restores the mask of the interrupted code.
HandlerReturn(t) ==
    /\ cur = t /\ sig[t] > 0
    /\ status' = 1
    /\ sig' = [sig EXCEPT ![t] = @ - 1]
    /\ masked' = FALSE
    /\ UNCHANGED <<state, delay, cur, timer, pc, arg>>

\* main() has returned from gt_start_scheduler().
Finished == pc[0] = "returned" /\ UNCHANGED vars

ThreadStep(t) ==
    \/ GoFind(t) \/ GoFill(t) \/ GoReset(t) \/ GoFails(t)
    \/ \E n \in 1..MaxDelay : DelaySet(t, n)
    \/ DelayBlock(t) \/ Suspend(t) \/ Stop(t)
    \/ \E u \in Threads : ResumeCheck(t, u)
    \/ ResumeSet(t) \/ Yield(t) \/ HandlerReturn(t)

Next ==
    \/ \E t \in Threads : ThreadStep(t)
    \/ StartScheduler \/ LoopExit \/ Tick \/ Finished

Spec == Init /\ [][Next]_vars

-----------------------------------------------------------------------------
(* Fairness.  setitimer() repeats: while the timer is armed and SIGALRM is *)
(* not blocked, a tick comes.  A thread switched back into a handler frame *)
(* leaves it.  The idle loop looks at its status again after every sleep.  *)
(* In cooperative mode a thread is required to leave the API it is in and  *)
(* to call gt_yield() again and again, whatever it does between the calls: *)
(* nothing else would ever take the CPU from it (fg.c calls it in every    *)
(* iteration).                                                             *)

InsideApi(t) ==
    GoFill(t) \/ GoReset(t) \/ GoFails(t) \/ DelayBlock(t) \/ ResumeSet(t)

Fairness ==
    /\ WF_vars(Tick)
    /\ WF_vars(LoopExit)
    /\ \A t \in Threads : WF_vars(HandlerReturn(t))
    /\ \A t \in Threads :
        /\ WF_vars(~Preemptive /\ InsideApi(t))
        /\ SF_vars(~Preemptive /\ Yield(t))

FairSpec == Spec /\ Fairness

-----------------------------------------------------------------------------
(* Properties.                                                             *)

TypeOK ==
    /\ state \in [Threads -> ThreadStates]
    /\ delay \in [Threads -> 0..MaxDelay]
    /\ cur \in Threads
    /\ status \in {-1, 0, 1}
    /\ timer \in BOOLEAN
    /\ masked \in BOOLEAN
    /\ pc \in [Threads -> Pcs]
    /\ sig \in [Threads -> 0..MaxNest]
    /\ arg \in [Threads -> Threads]

\* No slot but the current one is marked Running, and the current one is,
\* except between the store of its new state and its own gt_yield().
OneRunning ==
    /\ \A t \in Threads : state[t] = "Running" => t = cur
    /\ \/ state[cur] = "Running"
       \/ pc[cur] \in {"atDelayYield", "atSuspendYield", "atStopYield"}

\* The assert( !"reachable" ) of gt_stop() is never executed: a thread that
\* has stopped does not get the CPU back on its old stack.
StopNeverReturns == pc[cur] # "reached"

\* A Blocked thread has ticks to go.  gt_manage_timers() skips a Blocked
\* thread whose delay_ticks is 0, so that one would sleep forever.
BlockedHasDelay == \A t \in Threads : state[t] = "Blocked" => delay[t] > 0

\* gt_start_scheduler() waits for all tasks.
WaitsForAll ==
    pc[0] = "returned" => \A t \in Tasks : state[t] = "Unused"

\* gt_go() still finds its slot free when it fills it in, however often the
\* caller was preempted since the scan.
SlotStillFree ==
    \A t \in Threads : pc[t] = "goFill" => state[arg[t]] = "Unused"

\* gt_delay() ends no sooner than asked: a thread leaves the state Blocked
\* only in the tick that takes the last of its delay.
NoEarlyWake ==
    [][\A t \in Threads :
        state[t] = "Blocked" /\ state'[t] # "Blocked"
            => delay[t] = 1 /\ delay'[t] = 0]_vars

\* Round robin is starvation free: a Ready thread gets the CPU.  The idle
\* thread 0 of "test" gives way to every other.
ReadyRuns ==
    \A t \in Threads :
        (Variant = "test" => t # 0)
            => (state[t] = "Ready" /\ timer ~> state[t] = "Running")

\* A delay ends: the timer makes every Blocked thread Ready again.
DelayEnds ==
    \A t \in Threads : state[t] = "Blocked" ~> state[t] # "Blocked"

\* When the last thread has stopped, gt_start_scheduler() returns.
SchedulerReturns ==
    (pc[0] = "loop" /\ \A t \in Tasks : state[t] = "Unused")
        ~> pc[0] = "returned"
=============================================================================
