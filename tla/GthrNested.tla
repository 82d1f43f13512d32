----------------------------- MODULE GthrNested -----------------------------
(***************************************************************************)
(* Module Gthr with gt_yield() cut at every store, and with the stacks and *)
(* saved stack pointers that gt_pree_swtch() (gtswtch.S) exchanges.        *)
(*                                                                         *)
(* SIGALRM may also fall inside gt_yield().  gt_sig_mask_reset() has       *)
(* unblocked it in the handler, and a gt_yield() called by a thread was    *)
(* never protected.  The handler that runs there scans the table as the    *)
(* interrupted call left it, with the old thread Ready already or with two *)
(* slots Running, and switches away; when its thread is resumed, the       *)
(* interrupted gt_yield() goes on with the selection it made before.       *)
(* With InSwitch it may also fall after the store to g_gtcur, when the CPU *)
(* is still on the stack of the old thread.  Then a switch may return into *)
(* a thread whose own code goes on with g_gtcur of another: what that code *)
(* would do is not modelled, so that InSwitch shows violations up to that  *)
(* point, and no more.                                                     *)
(*                                                                         *)
(* The test of line 139 and the store of line 140 are one step: a thread   *)
(* that was Running at the test and lost the CPU behind it is Running      *)
(* again when it gets the CPU back, as if SIGALRM had come before the      *)
(* test; behind a test that fails it is SIGALRM after the step.  The scan  *)
(* and gt_manage_timers() are one step, as in Gthr.                        *)
(*                                                                         *)
(* The stack of handler frames of Gthr is refined to the calls of          *)
(* gt_yield() on a thread's stack, each with the slot it selected.         *)
(***************************************************************************)
EXTENDS Integers, Sequences, FiniteSets

CONSTANTS
    N, MaxDelay, MaxNest, Variant, Resumers,  \* as in Gthr
    MaxInside, \* bound: calls of gt_yield() that SIGALRM finds before their switch
    InSwitch   \* SIGALRM may fall between g_gtcur = p and the switch

ASSUME NestedAssumption ==
    /\ N \in Nat \ {0}
    /\ MaxDelay \in Nat \ {0}
    /\ MaxNest \in Nat \ {0}
    /\ Variant \in {"main", "learn", "test"}
    /\ Resumers \subseteq 1..N-1
    /\ MaxInside \in Nat
    /\ InSwitch \in BOOLEAN

Threads == 0..N-1
Tasks   == 1..N-1

VARIABLES state, delay, cur, status, timer, masked, pc, arg,
    calls,  \* calls of gt_yield() on each stack, the innermost last
    on,     \* the thread whose stack the CPU uses
    regs    \* saved rsp of every slot: whose stack, and how deep in calls

stacks == <<calls, on, regs>>
vars == <<state, delay, cur, status, timer, masked, pc, arg, stacks>>

\* A call of gt_yield(), by the handler or by the thread itself, that has
\* selected a slot: before its first store ("scanned"), with the old slot
\* Ready ("readied"), with the new one Running ("marked"), with g_gtcur set
\* ("stored") and behind the switch ("switched").  from: the slot of l_old.
Calls == [by : {"handler", "thread"}, from : Threads, to : Threads,
          at : {"scanned", "readied", "marked", "stored", "switched"}]

\* What stands for the handler frames of Gthr.
Depth == [t \in Threads |-> Len(calls[t])]

G == INSTANCE Gthr WITH
        Preemptive <- TRUE,
        Creators <- {},
        sig <- Depth

Init ==
    /\ calls = [t \in Threads |-> << >>]
    /\ on = 0
    /\ regs = [t \in Threads |-> [stack |-> t, depth |-> 0]]
    /\ G!Init

\* The statements of the API outside gt_yield() are those of Gthr.
ApiStep(t) ==
    /\ on = t /\ UNCHANGED stacks
    /\ \/ G!GoFind(t) \/ G!GoReset(t) \/ G!GoFails(t)
       \/ \E n \in 1..MaxDelay : G!DelaySet(t, n)
       \/ G!DelayBlock(t) \/ G!Suspend(t) \/ G!Stop(t)
       \/ \E u \in Threads : G!ResumeCheck(t, u)
       \/ G!ResumeSet(t)

\* gt_go(): a new stack with the run function at its top, and its rsp.
GoFill(t) ==
    /\ on = t /\ UNCHANGED on
    /\ calls' = [calls EXCEPT ![arg[t]] = << >>]
    /\ regs' = [regs EXCEPT ![arg[t]] = [stack |-> arg[t], depth |-> 0]]
    /\ G!GoFill(t)

\* A call that has scanned from the current slot, on the stack in use.
Push(who, p) ==
    calls' = [calls EXCEPT ![on] =
        Append(@, [by |-> who, from |-> cur, to |-> p, at |-> "scanned"])]

\* gt_yield() called by thread t, up to the end of its scan.  The result of
\* a scan that finds no Ready thread is ignored by the caller.
YieldScan(t) ==
    /\ on = t /\ G!Active(t) /\ G!YieldCall(t)
    /\ \/ \E p \in Threads :
            G!Selects(state, t, p) /\ Push("thread", p) /\ UNCHANGED pc
       \/ /\ G!NoneReady(state, t)
          /\ pc' = [pc EXCEPT ![t] = G!AfterYield(@)]
          /\ UNCHANGED calls
    /\ UNCHANGED <<state, delay, cur, status, timer, masked, arg, on, regs>>

Top(t) == calls[t][Len(calls[t])]
TopAt(t, where) == calls[t] # << >> /\ Top(t).at = where

\* The calls that have selected a slot and not yet switched, by stack.
Inside ==
    UNION {{<<t, i>> : i \in {j \in DOMAIN calls[t] : calls[t][j].at # "switched"}}
            : t \in Threads}

\* SIGALRM: the handler runs the timers and the scan of its gt_yield(), on
\* the stack in use and from the current slot.
TickScan ==
    LET st == G!TimedStates(state, delay) IN
    /\ timer /\ ~masked /\ Len(calls[on]) < MaxNest
    /\ Cardinality(Inside) <= MaxInside
    /\ InSwitch \/ ~TopAt(on, "stored")
    /\ state' = st
    /\ delay' = G!TimedDelays(state, delay)
    /\ \/ \E p \in Threads :
            /\ G!Selects(st, cur, p) /\ Push("handler", p)
            /\ masked' = G!MaskAfterReset /\ UNCHANGED status
       \/ /\ G!NoneReady(st, cur)
          /\ status' = G!NoReadyResult(st)
          /\ UNCHANGED <<calls, masked>>
    /\ UNCHANGED <<cur, timer, pc, arg, on, regs>>

\* The stores of gt_yield(), whatever has become since of the thread that
\* the scan selected.  The current slot loses the mark it has ...
MarkOld(t) ==
    /\ on = t /\ TopAt(t, "scanned")
    /\ state' = [state EXCEPT ![cur] = IF @ = "Running" THEN "Ready" ELSE @]
    /\ calls' = [calls EXCEPT ![t][Len(calls[t])].at = "readied"]
    /\ UNCHANGED <<delay, cur, status, timer, masked, pc, arg, on, regs>>

\* ... the selected one gets it, and the two contexts are noted ...
MarkNew(t) ==
    /\ on = t /\ TopAt(t, "readied")
    /\ state' = [state EXCEPT ![Top(t).to] = "Running"]
    /\ calls' = [calls EXCEPT ![t][Len(calls[t])] =
                    [@ EXCEPT !.at = "marked", !.from = cur]]
    /\ UNCHANGED <<delay, cur, status, timer, masked, pc, arg, on, regs>>

\* ... and becomes the current one.
SetCur(t) ==
    /\ on = t /\ TopAt(t, "marked")
    /\ cur' = Top(t).to
    /\ calls' = [calls EXCEPT ![t][Len(calls[t])].at = "stored"]
    /\ UNCHANGED <<state, delay, status, timer, masked, pc, arg, on, regs>>

\* Mutant: the two arguments of gt_pree_swtch() are swapped.
SwtchSwapped(t) ==
    /\ on = t /\ TopAt(t, "stored")
    /\ regs' = [regs EXCEPT ![Top(t).to] =
                    [stack |-> t, depth |-> Len(calls[t])]]
    /\ on' = regs'[Top(t).from].stack
    /\ calls' = [calls EXCEPT ![t][Len(calls[t])].at = "switched"]
    /\ UNCHANGED <<state, delay, cur, status, timer, masked, pc, arg>>

\* gt_pree_swtch(): rsp is saved in the old slot and loaded from the new one.
Swtch(t) ==
    /\ on = t /\ TopAt(t, "stored")
    /\ regs' = [regs EXCEPT ![Top(t).from] =
                    [stack |-> t, depth |-> Len(calls[t])]]
    /\ on' = regs'[Top(t).to].stack
    /\ calls' = [calls EXCEPT ![t][Len(calls[t])].at = "switched"]
    /\ UNCHANGED <<state, delay, cur, status, timer, masked, pc, arg>>

\* Back from the switch, gt_yield() returns 1.
Return(t) ==
    /\ on = t /\ TopAt(t, "switched")
    /\ calls' = [calls EXCEPT ![t] = SubSeq(@, 1, Len(@) - 1)]
    /\ IF Top(t).by = "handler"
       THEN status' = 1 /\ masked' = FALSE /\ UNCHANGED pc
       ELSE /\ pc' = [pc EXCEPT ![t] = G!AfterYield(@)]
            /\ UNCHANGED <<status, masked>>
    /\ UNCHANGED <<state, delay, cur, timer, arg, on, regs>>

Scheduler ==
    /\ on = 0 /\ UNCHANGED stacks
    /\ G!StartScheduler \/ G!LoopExit \/ G!Finished

Next ==
    \/ \E t \in Threads :
        \/ ApiStep(t) \/ GoFill(t) \/ YieldScan(t)
        \/ MarkOld(t) \/ MarkNew(t) \/ SetCur(t) \/ Swtch(t) \/ Return(t)
    \/ TickScan \/ Scheduler

Spec == Init /\ [][Next]_vars

-----------------------------------------------------------------------------

TypeOK ==
    /\ state \in [Threads -> G!ThreadStates]
    /\ delay \in [Threads -> 0..MaxDelay]
    /\ cur \in Threads
    /\ status \in {-1, 0, 1}
    /\ timer \in BOOLEAN /\ masked \in BOOLEAN
    /\ pc \in [Threads -> G!Pcs]
    /\ arg \in [Threads -> Threads]
    /\ on \in Threads
    /\ regs \in [Threads -> [stack : Threads, depth : 0..MaxNest + 1]]
    /\ \A t \in Threads :
        Len(calls[t]) <= MaxNest + 1 /\ \A i \in DOMAIN calls[t] : calls[t][i] \in Calls

\* "wait for all tasks" (gthr.h): gt_start_scheduler() returns when the last
\* task has stopped.
WaitsForAll == G!WaitsForAll

\* However often gt_yield() was interrupted and the polled status overwritten
\* by the handlers of other stacks, gt_start_scheduler() leaves behind no task
\* that the table says is Ready, Blocked or Suspended: one that it abandons is
\* a slot that two overlapping gt_yield() left marked Running.
NoneWaiting ==
    pc[0] = "returned" => \A t \in Tasks : state[t] \in {"Unused", "Running"}

\* The assert( !"reachable" ) of gt_stop(): gt_yield() must not switch to a
\* thread that stopped after the scan selected it.
StopNeverReturns == G!StopNeverReturns

\* gt_delay() must not end because gt_yield() switches to a thread that has
\* gone to sleep after the scan selected it.
NoEarlyWake ==
    [][\A t \in Threads :
        state[t] = "Blocked" /\ state'[t] # "Blocked"
            => delay[t] = 1 /\ delay'[t] = 0]_vars

\* The saved stack pointer of every thread that waits for the CPU is the top
\* of its own stack, and its code goes on behind the switch: no switch loads a
\* pointer into frames that have returned since, or into another stack.
SavedOwn ==
    \A t \in Threads \ {on} :
        state[t] # "Unused" =>
            /\ regs[t] = [stack |-> t, depth |-> Len(calls[t])]
            /\ calls[t] # << >> => Top(t).at = "switched"

\* "%rdi contains the current context structure" (gtswtch.S): the switch saves
\* the stack pointer in the slot of the thread whose stack it is.
SavesCurrent == \A t \in Threads : TopAt(t, "stored") => Top(t).from = t
=============================================================================
