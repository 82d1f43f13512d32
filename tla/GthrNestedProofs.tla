--------------------------- MODULE GthrNestedProofs ---------------------------
(***************************************************************************)
(* Theorems about GthrNested, for every number of threads, every bound and *)
(* the three variants of gt_yield(): what survives a SIGALRM between the   *)
(* scan, the stores and the switch of gt_yield().                          *)
(***************************************************************************)
EXTENDS GthrNested, SequenceTheorems, TLAPS

\* The stacks, with the lengths and the elements TypeOK gives them.
Types == TypeOK /\ calls \in [Threads -> Seq(Calls)]

LEMMA Slots ==
    ASSUME NestedAssumption
    PROVE  /\ 0 \in Threads /\ Tasks \subseteq Threads /\ 0 \notin Tasks
           /\ \A t \in Threads : t # 0 => t \in Tasks
           /\ G!Threads = Threads /\ G!Tasks = Tasks
           /\ 0 \in 0..MaxDelay /\ MaxNest + 1 \in Nat
  BY DEF NestedAssumption, Threads, Tasks, G!Threads, G!Tasks

\* A thread selected by gt_yield() is a slot of the table that is Ready.
LEMMA SelectsReady ==
    ASSUME NestedAssumption, NEW st, NEW c, NEW p, G!Selects(st, c, p)
    PROVE  p \in Threads /\ st[p] = "Ready"
  BY Slots DEF G!Selects, G!First, G!Candidates

\* What gt_manage_timers() does to the table: it keeps the types, and the
\* only change of state is from Blocked to Ready.
LEMMA TimedFacts ==
    ASSUME NestedAssumption, TypeOK
    PROVE  /\ G!TimedStates(state, delay) \in [Threads -> G!ThreadStates]
           /\ G!TimedDelays(state, delay) \in [Threads -> 0..MaxDelay]
           /\ \A t \in Threads :
                \/ G!TimedStates(state, delay)[t] = state[t]
                \/ /\ state[t] = "Blocked"
                   /\ G!TimedStates(state, delay)[t] = "Ready"
  <1> USE Slots DEF NestedAssumption, TypeOK
  <1>1. G!TimedStates(state, delay) \in [Threads -> G!ThreadStates]
    BY DEF G!TimedStates, G!ThreadStates
  <1>2. G!TimedDelays(state, delay) \in [Threads -> 0..MaxDelay]
    BY DEF G!TimedDelays
  <1>3. \A t \in Threads :
          \/ G!TimedStates(state, delay)[t] = state[t]
          \/ /\ state[t] = "Blocked"
             /\ G!TimedStates(state, delay)[t] = "Ready"
    BY DEF G!TimedStates, G!Expired
  <1> QED BY <1>1, <1>2, <1>3

-----------------------------------------------------------------------------
(* Stacks.                                                                 *)

\* A call of gt_yield() goes on top of the stack in use, before its stores.
LEMMA PushFacts ==
    ASSUME NestedAssumption, Types, NEW who \in {"handler", "thread"},
           NEW p \in Threads, Push(who, p)
    PROVE  /\ calls' \in [Threads -> Seq(Calls)]
           /\ \A t \in Threads \ {on} : calls'[t] = calls[t]
           /\ calls'[on] # << >> /\ Len(calls'[on]) = Len(calls[on]) + 1
           /\ calls'[on][Len(calls'[on])].at = "scanned"
           /\ calls'[on][Len(calls'[on])].by = who
           /\ \A i \in DOMAIN calls[on] : calls'[on][i] = calls[on][i]
           /\ DOMAIN calls'[on] = DOMAIN calls[on] \cup {Len(calls'[on])}
  <1> DEFINE c == [by |-> who, from |-> cur, to |-> p, at |-> "scanned"]
  <1>1. on \in Threads /\ c \in Calls /\ calls[on] \in Seq(Calls)
    BY DEF Types, TypeOK, Calls
  <1>2. calls' = [calls EXCEPT ![on] = Append(calls[on], c)]
    BY DEF Push
  <1>3. /\ Append(calls[on], c) \in Seq(Calls)
        /\ Len(Append(calls[on], c)) = Len(calls[on]) + 1
        /\ \A i \in 1..Len(calls[on]) : Append(calls[on], c)[i] = calls[on][i]
        /\ Append(calls[on], c)[Len(calls[on]) + 1] = c
        /\ Append(calls[on], c) # << >>
    BY <1>1, AppendProperties
  <1> HIDE DEF c
  <1>4. calls' \in [Threads -> Seq(Calls)]
    BY <1>1, <1>2, <1>3 DEF Types
  <1>5. calls'[on] = Append(calls[on], c) /\ \A t \in Threads \ {on} : calls'[t] = calls[t]
    BY <1>1, <1>2 DEF Types
  <1>6. /\ Len(calls[on]) \in Nat /\ DOMAIN calls[on] = 1..Len(calls[on])
        /\ DOMAIN calls'[on] = 1..Len(calls'[on])
    BY <1>1, <1>3, <1>5, LenProperties
  <1>7. calls'[on] # << >>
    BY <1>3, <1>5
  <1>8. c.at = "scanned" /\ c.by = who
    BY DEF c
  <1>9. /\ Len(calls'[on]) = Len(calls[on]) + 1
        /\ calls'[on][Len(calls'[on])] = c
        /\ \A i \in DOMAIN calls[on] : calls'[on][i] = calls[on][i]
    BY <1>3, <1>5, <1>6
  <1>10. DOMAIN calls'[on] = DOMAIN calls[on] \cup {Len(calls'[on])}
    BY <1>6, <1>9
  <1> QED BY <1>4, <1>5, <1>7, <1>8, <1>9, <1>10

LEMMA PushTypes ==
    ASSUME NestedAssumption, Types, NEW who \in {"handler", "thread"},
           NEW p \in Threads, Push(who, p), Len(calls[on]) <= MaxNest
    PROVE  /\ calls' \in [Threads -> Seq(Calls)]
           /\ \A t \in Threads : Len(calls'[t]) <= MaxNest + 1
  <1>1. calls[on] \in Seq(Calls) /\ MaxNest \in Nat
    BY DEF Types, TypeOK, NestedAssumption
  <1>2. Len(calls[on]) \in Nat
    BY <1>1, LenProperties
  <1>3. \A t \in Threads : Len(calls[t]) <= MaxNest + 1
    BY DEF Types, TypeOK
  <1>4. /\ calls' \in [Threads -> Seq(Calls)]
        /\ \A t \in Threads \ {on} : calls'[t] = calls[t]
        /\ Len(calls'[on]) = Len(calls[on]) + 1
    BY PushFacts
  <1> QED BY <1>1, <1>2, <1>3, <1>4

\* A stack that is not empty has a call on top.
LEMMA TopFacts ==
    ASSUME Types, NEW t \in Threads, calls[t] # << >>
    PROVE  /\ Len(calls[t]) \in Nat \ {0} /\ Len(calls[t]) \in DOMAIN calls[t]
           /\ DOMAIN calls[t] = 1..Len(calls[t])
           /\ Top(t) \in Calls
  <1>1. calls[t] \in Seq(Calls)
    BY DEF Types
  <1>2. Len(calls[t]) \in Nat \ {0} /\ DOMAIN calls[t] = 1..Len(calls[t])
    BY <1>1, LenProperties, EmptySeq
  <1> QED BY <1>1, <1>2, ElementOfSeq DEF Top

\* The stores change the call on top only.
LEMMA MarkFacts ==
    ASSUME Types, NEW t \in Threads, calls[t] # << >>, NEW c \in Calls,
           calls' = [calls EXCEPT ![t][Len(calls[t])] = c]
    PROVE  /\ calls' \in [Threads -> Seq(Calls)]
           /\ \A q \in Threads \ {t} : calls'[q] = calls[q]
           /\ calls'[t] # << >> /\ Len(calls'[t]) = Len(calls[t])
           /\ calls'[t][Len(calls[t])] = c
           /\ DOMAIN calls'[t] = DOMAIN calls[t]
           /\ \A i \in DOMAIN calls[t] : i # Len(calls[t]) => calls'[t][i] = calls[t][i]
  <1>1. calls[t] \in Seq(Calls) /\ Len(calls[t]) \in 1..Len(calls[t])
    BY TopFacts DEF Types
  <1> DEFINE s == [calls[t] EXCEPT ![Len(calls[t])] = c]
  <1>2. /\ s \in Seq(Calls) /\ Len(s) = Len(calls[t]) /\ s[Len(calls[t])] = c
        /\ \A i \in 1..Len(calls[t]) : i # Len(calls[t]) => s[i] = calls[t][i]
    BY <1>1, ExceptSeq
  <1>3. calls' = [calls EXCEPT ![t] = s]
    OBVIOUS
  <1> HIDE DEF s
  <1>4. calls' \in [Threads -> Seq(Calls)]
    BY <1>2, <1>3 DEF Types
  <1>5. calls'[t] = s /\ \A q \in Threads \ {t} : calls'[q] = calls[q]
    BY <1>3 DEF Types
  <1>6. DOMAIN s = 1..Len(calls[t]) /\ DOMAIN calls[t] = 1..Len(calls[t]) /\ s # << >>
    BY <1>1, <1>2, LenProperties, EmptySeq
  <1> QED BY <1>2, <1>4, <1>5, <1>6

\* A return takes the top of the stack away.
LEMMA PopFacts ==
    ASSUME Types, NEW t \in Threads, calls[t] # << >>,
           calls' = [calls EXCEPT ![t] = SubSeq(@, 1, Len(@) - 1)]
    PROVE  /\ calls' \in [Threads -> Seq(Calls)]
           /\ \A q \in Threads \ {t} : calls'[q] = calls[q]
           /\ Len(calls'[t]) = Len(calls[t]) - 1
           /\ DOMAIN calls'[t] = 1..(Len(calls[t]) - 1)
           /\ \A i \in DOMAIN calls'[t] : calls'[t][i] = calls[t][i]
  <1>1. calls[t] \in Seq(Calls) /\ Len(calls[t]) \in Nat \ {0}
    BY TopFacts DEF Types
  <1> DEFINE s == SubSeq(calls[t], 1, Len(calls[t]) - 1)
  <1>2. /\ s \in Seq(Calls) /\ Len(s) = Len(calls[t]) - 1
        /\ \A i \in 1..Len(calls[t]) - 1 : s[i] = calls[t][i]
    <2>1. \A i \in 1..Len(calls[t]) - 1 : calls[t][i] \in Calls
      BY <1>1, ElementOfSeq
    <2> QED BY <1>1, <2>1
  <1>3. calls' = [calls EXCEPT ![t] = s]
    OBVIOUS
  <1> HIDE DEF s
  <1>4. calls' \in [Threads -> Seq(Calls)]
    BY <1>2, <1>3 DEF Types
  <1>5. calls'[t] = s /\ \A q \in Threads \ {t} : calls'[q] = calls[q]
    BY <1>3 DEF Types
  <1>6. DOMAIN s = 1..(Len(calls[t]) - 1)
    BY <1>2, LenProperties
  <1> QED BY <1>2, <1>4, <1>5, <1>6
-----------------------------------------------------------------------------
(* What holds of the table with and without a SIGALRM inside the switch:   *)
(* main's slot is Running or Ready, and main yields in handlers only; a    *)
(* slot that gt_go() or gt_resume() holds is not main's.                   *)

MainInv ==
    /\ state[0] \in {"Running", "Ready"}
    /\ pc[0] \in {"user", "goFill", "goReset", "loop", "returned"}
    /\ \A i \in DOMAIN calls[0] : calls[0][i].by = "handler"

ArgOther ==
    \A t \in Threads :
        /\ pc[t] \in {"resume", "goFill"} => arg[t] # 0
        /\ pc[t] = "goFill" => t = 0

SchedInv == Types /\ MainInv /\ ArgOther

(* gt_start_scheduler() leaves no task waiting.                            *)

\* SIGALRM comes while main is in the loop of gt_start_scheduler().
TimerInv == timer <=> pc[0] = "loop"

\* Main loses the CPU in a handler only.
Away == on # 0 => calls[0] # << >>

AllDone ==
    /\ on = 0 /\ calls[0] = << >>
    /\ \A t \in Tasks : state[t] \in {"Unused", "Running"}

DoneInv ==
    /\ status = 0 /\ calls[0] = << >> => AllDone /\ pc[0] \in {"loop", "returned"}
    /\ pc[0] = "returned" => AllDone

(* Without a SIGALRM inside the switch the CPU is on the stack of the      *)
(* current thread, except on its way there.                                *)

OwnStack ==
    IF TopAt(on, "stored")
    THEN Top(on).from = on /\ Top(on).to = cur
    ELSE on = cur

\* SavedOwn, of free slots too: a stale selection may switch to one.
Saved ==
    \A t \in Threads \ {on} :
        /\ regs[t] = [stack |-> t, depth |-> Len(calls[t])]
        /\ calls[t] # << >> => Top(t).at = "switched"

\* No call lies on top of one that is inside the switch.
StoredOnTop ==
    \A t \in Threads : \A i \in DOMAIN calls[t] :
        calls[t][i].at = "stored" => i = Len(calls[t])

\* A call that has noted the context to save noted that of its own stack,
\* however many calls have run on top of it since.
MarkedOwn ==
    \A t \in Threads : \A i \in DOMAIN calls[t] :
        calls[t][i].at = "marked" => calls[t][i].from = t

StackInv == OwnStack /\ Saved /\ StoredOnTop /\ MarkedOwn

LEMMA ApiTypes ==
    ASSUME NestedAssumption, Types, NEW t \in Threads, ApiStep(t)
    PROVE  Types'
  <1> USE Slots DEF Types, TypeOK, stacks
  <1> SUFFICES /\ state' \in [Threads -> G!ThreadStates]
               /\ delay' \in [Threads -> 0..MaxDelay]
               /\ pc' \in [Threads -> G!Pcs]
               /\ arg' \in [Threads -> Threads]
               /\ UNCHANGED <<cur, status, timer, masked, calls, on, regs>>
    BY DEF Top
  <1>1. CASE G!GoFind(t)
    BY <1>1 DEF ApiStep, G!GoFind, G!Pcs
  <1>2. CASE G!GoReset(t)
    BY <1>2 DEF ApiStep, G!GoReset, G!Pcs
  <1>3. CASE G!GoFails(t)
    BY <1>3 DEF ApiStep, G!GoFails, G!Pcs
  <1>4. CASE \E n \in 1..MaxDelay : G!DelaySet(t, n)
    <2>1. 1..MaxDelay \subseteq 0..MaxDelay
      OBVIOUS
    <2> QED BY <1>4, <2>1 DEF ApiStep, G!DelaySet, G!Pcs
  <1>5. CASE G!DelayBlock(t)
    BY <1>5 DEF ApiStep, G!DelayBlock, G!Pcs, G!ThreadStates
  <1>6. CASE G!Suspend(t)
    BY <1>6 DEF ApiStep, G!Suspend, G!Pcs, G!ThreadStates
  <1>7. CASE G!Stop(t)
    BY <1>7 DEF ApiStep, G!Stop, G!Pcs, G!ThreadStates
  <1>8. CASE \E u \in Threads : G!ResumeCheck(t, u)
    <2>1. PICK u \in Threads : G!ResumeCheck(t, u)
      BY <1>8
    <2>2. arg' = [arg EXCEPT ![t] = u] /\ pc' = [pc EXCEPT ![t] = "resume"]
          /\ UNCHANGED <<state, delay, cur, status, timer, masked>>
      BY <2>1 DEF G!ResumeCheck
    <2> QED BY <2>2 DEF ApiStep, G!Pcs
  <1>9. CASE G!ResumeSet(t)
    BY <1>9 DEF ApiStep, G!ResumeSet, G!Pcs, G!ThreadStates
  <1> QED BY <1>1, <1>2, <1>3, <1>4, <1>5, <1>6, <1>7, <1>8, <1>9 DEF ApiStep

\* The bound of TypeOK on the depth of one stack.
Bounded(t) == Len(calls[t]) <= MaxNest + 1 /\ \A i \in DOMAIN calls[t] : calls[t][i] \in Calls

LEMMA TypesStep ==
    ASSUME NestedAssumption, Types, [Next]_vars
    PROVE  Types'
  <1> USE Slots
  <1>0. ASSUME calls' \in [Threads -> Seq(Calls)],
               \A t \in Threads : Len(calls'[t]) <= MaxNest + 1
        PROVE  \A t \in Threads : Bounded(t)'
    <2>1. ASSUME NEW t \in Threads, NEW i \in DOMAIN calls'[t] PROVE calls'[t][i] \in Calls
      BY <1>0, <2>1, LenProperties, ElementOfSeq
    <2> QED BY <1>0, <2>1 DEF Bounded
  <1>1. ASSUME NEW t \in Threads, ApiStep(t) PROVE Types'
    BY <1>1, ApiTypes
  <1>2. ASSUME NEW t \in Threads, GoFill(t) PROVE Types'
    <2> USE DEF Types, TypeOK
    <2>1. arg[t] \in Threads
      OBVIOUS
    <2>2. /\ state' \in [Threads -> G!ThreadStates]
          /\ pc' \in [Threads -> G!Pcs]
          /\ UNCHANGED <<delay, cur, status, timer, masked, arg, on>>
      BY <1>2, <2>1 DEF GoFill, G!GoFill, G!Pcs, G!ThreadStates
    <2>3. calls' \in [Threads -> Seq(Calls)] /\ regs' \in [Threads -> [stack : Threads, depth : 0..MaxNest + 1]]
      BY <1>2, <2>1, EmptySeq DEF GoFill
    <2>4. \A q \in Threads : Len(calls'[q]) <= MaxNest + 1
      BY <1>2, <2>1, EmptySeq DEF GoFill
    <2> QED BY <1>0, <2>2, <2>3, <2>4 DEF Bounded
  <1>3. ASSUME NEW t \in Threads, YieldScan(t) PROVE Types'
    <2>1. pc' \in [Threads -> G!Pcs]
      BY <1>3 DEF YieldScan, G!AfterYield, G!Pcs, Types, TypeOK
    <2>2. Len(calls[on]) <= MaxNest
      BY <1>3 DEF YieldScan, G!Active, Depth, NestedAssumption
    <2>3. calls' \in [Threads -> Seq(Calls)] /\ \A q \in Threads : Len(calls'[q]) <= MaxNest + 1
      <3>1. CASE UNCHANGED calls
        BY <3>1 DEF Types, TypeOK
      <3> QED BY <1>3, <2>2, <3>1, PushTypes DEF YieldScan
    <2>4. UNCHANGED <<state, delay, cur, status, timer, masked, arg, on, regs>>
      BY <1>3 DEF YieldScan
    <2> QED BY <1>0, <2>1, <2>3, <2>4 DEF Bounded, Types, TypeOK
  <1>4. ASSUME NEW t \in Threads, MarkOld(t) \/ MarkNew(t) \/ SetCur(t) PROVE Types'
    <2> USE DEF Types, TypeOK
    <2>1. calls[t] # << >> /\ Top(t) \in Calls
      BY <1>4, TopFacts DEF MarkOld, MarkNew, SetCur, TopAt
    <2>2. /\ Top(t).to \in Threads
          /\ [Top(t) EXCEPT !.at = "readied"] \in Calls
          /\ [Top(t) EXCEPT !.at = "marked", !.from = cur] \in Calls
          /\ [Top(t) EXCEPT !.at = "stored"] \in Calls
      BY <2>1 DEF Calls
    <2>3. state' \in [Threads -> G!ThreadStates] /\ cur' \in Threads
      BY <1>4, <2>2 DEF MarkOld, MarkNew, SetCur, G!ThreadStates
    <2>4. \E c \in Calls : calls' = [calls EXCEPT ![t][Len(calls[t])] = c]
      BY <1>4, <2>2 DEF MarkOld, MarkNew, SetCur, Top
    <2>5. calls' \in [Threads -> Seq(Calls)] /\ \A q \in Threads : Len(calls'[q]) <= MaxNest + 1
      BY <2>1, <2>4, MarkFacts
    <2>6. UNCHANGED <<delay, status, timer, masked, pc, arg, on, regs>>
      BY <1>4 DEF MarkOld, MarkNew, SetCur
    <2>7. \A q \in Threads : Bounded(q)'
      BY <1>0, <2>5
    <2> QED BY <2>3, <2>5, <2>6, <2>7 DEF Bounded
  <1>5. ASSUME NEW t \in Threads, Swtch(t) PROVE Types'
    <2> USE DEF Types, TypeOK
    <2>1. calls[t] # << >> /\ Top(t) \in Calls /\ Len(calls[t]) \in 0..MaxNest + 1
      BY <1>5, TopFacts DEF Swtch, TopAt
    <2>2. Top(t).to \in Threads /\ Top(t).from \in Threads
          /\ [Top(t) EXCEPT !.at = "switched"] \in Calls
      BY <2>1 DEF Calls
    <2>3. regs' \in [Threads -> [stack : Threads, depth : 0..MaxNest + 1]]
      BY <1>5, <2>1, <2>2 DEF Swtch
    <2>4. on' \in Threads
      BY <1>5, <2>2, <2>3 DEF Swtch
    <2>5. calls' = [calls EXCEPT ![t][Len(calls[t])] = [Top(t) EXCEPT !.at = "switched"]]
      BY <1>5 DEF Swtch, Top
    <2>6. calls' \in [Threads -> Seq(Calls)] /\ \A q \in Threads : Len(calls'[q]) <= MaxNest + 1
      BY <2>1, <2>2, <2>5, MarkFacts
    <2>7. \A q \in Threads : Bounded(q)'
      BY <1>0, <2>6
    <2>8. UNCHANGED <<state, delay, cur, status, timer, masked, pc, arg>>
      BY <1>5 DEF Swtch
    <2> QED BY <2>3, <2>4, <2>6, <2>7, <2>8 DEF Bounded
  <1>6. ASSUME NEW t \in Threads, Return(t) PROVE Types'
    <2> USE DEF Types, TypeOK
    <2>1. calls[t] # << >> /\ Len(calls[t]) \in Nat \ {0}
      BY <1>6, TopFacts DEF Return, TopAt
    <2>2. pc' \in [Threads -> G!Pcs]
      BY <1>6 DEF Return, G!AfterYield, G!Pcs
    <2>3. calls' \in [Threads -> Seq(Calls)] /\ \A q \in Threads : Len(calls'[q]) <= MaxNest + 1
      <3>1. /\ calls' \in [Threads -> Seq(Calls)]
            /\ \A q \in Threads \ {t} : calls'[q] = calls[q]
            /\ Len(calls'[t]) = Len(calls[t]) - 1
        BY <1>6, <2>1, PopFacts DEF Return
      <3>2. \A q \in Threads : Len(calls[q]) <= MaxNest + 1
        OBVIOUS
      <3>3. MaxNest \in Nat
        BY DEF NestedAssumption
      <3>4. Len(calls'[t]) <= MaxNest + 1
        BY <2>1, <3>1, <3>2, <3>3
      <3> QED
        <4> HIDE DEF Types, TypeOK
        <4> QED BY <3>1, <3>2, <3>4
    <2>4. status' \in {-1, 0, 1} /\ masked' \in BOOLEAN
      BY <1>6 DEF Return
    <2> QED BY <1>0, <1>6, <2>2, <2>3, <2>4 DEF Return, Bounded
  <1>7. CASE TickScan
    <2>1. /\ state' \in [Threads -> G!ThreadStates] /\ delay' \in [Threads -> 0..MaxDelay]
          /\ UNCHANGED <<cur, timer, pc, arg, on, regs>>
      BY <1>7, TimedFacts DEF TickScan, Types
    <2>2. status' \in {-1, 0, 1} /\ masked' \in BOOLEAN
      BY <1>7 DEF TickScan, G!NoReadyResult, G!MaskAfterReset, Types, TypeOK
    <2>3. Len(calls[on]) <= MaxNest
      <3>1. Len(calls[on]) < MaxNest /\ calls[on] \in Seq(Calls) /\ MaxNest \in Nat
        BY <1>7 DEF TickScan, NestedAssumption, Types, TypeOK
      <3> QED BY <3>1, LenProperties
    <2>4. calls' \in [Threads -> Seq(Calls)] /\ \A q \in Threads : Len(calls'[q]) <= MaxNest + 1
      <3>1. CASE UNCHANGED calls
        BY <3>1 DEF Types, TypeOK
      <3> QED BY <1>7, <2>3, <3>1, PushTypes DEF TickScan
    <2> QED BY <1>0, <2>1, <2>2, <2>4 DEF Bounded, Types, TypeOK
  <1>8. CASE Scheduler
    <2> USE DEF Types, TypeOK
    <2>1. /\ pc' \in [Threads -> G!Pcs] /\ timer' \in BOOLEAN
          /\ UNCHANGED <<state, delay, cur, status, masked, arg, calls, on, regs>>
      BY <1>8 DEF Scheduler, stacks, G!StartScheduler, G!LoopExit, G!Finished, G!vars, G!Pcs
    <2> QED BY <2>1
  <1>9. CASE UNCHANGED vars
    BY <1>9 DEF vars, stacks, Types, TypeOK
  <1> QED BY <1>1, <1>2, <1>3, <1>4, <1>5, <1>6, <1>7, <1>8, <1>9 DEF Next

-----------------------------------------------------------------------------

\* What a statement of the API does: it belongs to the current thread, on its
\* own empty stack, and no statement touches the state of main's slot.
LEMMA ApiFacts ==
    ASSUME NestedAssumption, SchedInv, NEW t \in Threads, ApiStep(t)
    PROVE  /\ on = t /\ cur = t /\ Len(calls[t]) = 0
           /\ UNCHANGED <<cur, status, timer, masked, calls, on, regs>>
           /\ \A q \in Threads : q # t => pc'[q] = pc[q] /\ arg'[q] = arg[q]
           /\ pc[t] \notin {"loop", "returned"}
           /\ t = 0 => pc'[t] \in {"user", "goFill"}
           /\ pc'[t] = "goFill" => t = 0
           /\ pc'[t] \in {"resume", "goFill"} => arg'[t] # 0
           /\ state'[0] = state[0] \/ state'[0] = "Ready"
  <1> USE Slots DEF SchedInv, Types, TypeOK, MainInv, ArgOther, stacks, G!Active, Depth
  <1>0. on = t /\ UNCHANGED stacks
    BY DEF ApiStep
  <1>1. CASE G!GoFind(t)
    BY <1>0, <1>1 DEF G!GoFind, G!MayCreate
  <1>2. CASE G!GoReset(t)
    BY <1>0, <1>2 DEF G!GoReset
  <1>3. CASE G!GoFails(t)
    BY <1>0, <1>3 DEF G!GoFails
  <1>4. CASE \E n \in 1..MaxDelay : G!DelaySet(t, n)
    BY <1>0, <1>4 DEF G!DelaySet
  <1>5. CASE G!DelayBlock(t)
    BY <1>0, <1>5 DEF G!DelayBlock
  <1>6. CASE G!Suspend(t)
    BY <1>0, <1>6 DEF G!Suspend
  <1>7. CASE G!Stop(t)
    BY <1>0, <1>7 DEF G!Stop
  <1>8. CASE \E u \in Threads : G!ResumeCheck(t, u)
    <2>1. PICK u \in Threads : G!ResumeCheck(t, u)
      BY <1>8
    <2>2. t \in Tasks /\ state[u] = "Suspended"
      BY <2>1 DEF G!ResumeCheck, NestedAssumption, Tasks
    <2> QED BY <1>0, <2>1, <2>2 DEF G!ResumeCheck
  <1>9. CASE G!ResumeSet(t)
    BY <1>0, <1>9 DEF G!ResumeSet
  <1> QED BY <1>1, <1>2, <1>3, <1>4, <1>5, <1>6, <1>7, <1>8, <1>9 DEF ApiStep

\* gt_yield() is called by tasks: main never calls it in preemptive mode.
LEMMA YieldFacts ==
    ASSUME NestedAssumption, SchedInv, NEW t \in Threads, YieldScan(t)
    PROVE  /\ t # 0 /\ on = t /\ cur = t /\ calls[t] = << >>
           /\ UNCHANGED <<state, delay, cur, status, timer, masked, arg, on, regs>>
           /\ \/ pc' = pc /\ \E p \in Threads : Push("thread", p)
              \/ calls' = calls
           /\ pc'[0] = pc[0]
           /\ \A q \in Threads : pc'[q] \in {"resume", "goFill"} => pc'[q] = pc[q]
  <1>1. on = t /\ cur = t /\ calls[t] = << >>
    BY TopFacts DEF YieldScan, G!Active, Depth, SchedInv
  <1>2. t # 0
    BY Slots DEF YieldScan, G!YieldCall, SchedInv, MainInv
  <1>3. /\ pc'[0] = pc[0]
        /\ \A q \in Threads : pc'[q] \in {"resume", "goFill"} => pc'[q] = pc[q]
    BY <1>2, Slots DEF YieldScan, G!AfterYield, SchedInv, Types, TypeOK
  <1> QED BY <1>1, <1>2, <1>3 DEF YieldScan

\* gt_go() is called by main, and fills in the slot of another thread.
LEMMA FillFacts ==
    ASSUME NestedAssumption, SchedInv, NEW t \in Threads, GoFill(t)
    PROVE  /\ t = 0 /\ on = t /\ cur = t /\ calls[t] = << >> /\ pc[t] = "goFill"
           /\ arg[t] \in Threads /\ arg[t] # t
           /\ state' = [state EXCEPT ![arg[t]] = "Ready"]
           /\ pc' = [pc EXCEPT ![arg[t]] = "user", ![t] = "goReset"]
           /\ calls' = [calls EXCEPT ![arg[t]] = << >>]
           /\ regs' = [regs EXCEPT ![arg[t]] = [stack |-> arg[t], depth |-> 0]]
           /\ UNCHANGED <<delay, cur, status, timer, masked, arg, on>>
  <1>1. /\ on = t /\ cur = t /\ Len(calls[t]) = 0 /\ pc[t] = "goFill"
    BY DEF GoFill, G!GoFill, G!Active, Depth, SchedInv, Types, TypeOK
  <1>2. t = 0 /\ arg[t] # 0 /\ arg[t] \in Threads
    BY <1>1 DEF SchedInv, ArgOther, Types, TypeOK
  <1>3. calls[t] = << >>
    BY <1>1, TopFacts DEF SchedInv
  <1> QED BY <1>1, <1>2, <1>3 DEF GoFill, G!GoFill

\* A store of gt_yield(), whatever the call selected and however long ago:
\* the call on top goes on, and main's slot still waits for the CPU or has it.
LEMMA StoreFacts ==
    ASSUME NestedAssumption, SchedInv, NEW t \in Threads,
           MarkOld(t) \/ MarkNew(t) \/ SetCur(t)
    PROVE  /\ on = t /\ calls[t] # << >> /\ Top(t).at \notin {"stored", "switched"}
           /\ state'[0] \in {"Running", "Ready"}
           /\ calls' \in [Threads -> Seq(Calls)]
           /\ \A q \in Threads \ {t} : calls'[q] = calls[q]
           /\ calls'[t] # << >> /\ Len(calls'[t]) = Len(calls[t])
           /\ DOMAIN calls'[t] = DOMAIN calls[t]
           /\ \A i \in DOMAIN calls[t] : calls'[t][i].by = calls[t][i].by
           /\ \A i \in DOMAIN calls[t] : i # Len(calls[t]) => calls'[t][i] = calls[t][i]
           /\ \/ Top(t).at' = "readied" /\ cur' = cur
              \/ Top(t).at' = "marked" /\ Top(t).from' = cur /\ cur' = cur
              \/ /\ Top(t).at = "marked" /\ Top(t).at' = "stored"
                 /\ Top(t).from' = Top(t).from /\ Top(t).to' = cur'
           /\ UNCHANGED <<delay, status, timer, masked, pc, arg, on, regs>>
  <1>1. /\ on = t /\ calls[t] # << >> /\ Top(t).at \notin {"stored", "switched"}
        /\ UNCHANGED <<delay, status, timer, masked, pc, arg, on, regs>> /\ Types
    BY DEF MarkOld, MarkNew, SetCur, TopAt, SchedInv
  <1>2. Top(t) \in Calls /\ cur \in Threads /\ state \in [Threads -> G!ThreadStates]
    BY <1>1, TopFacts DEF Types, TypeOK
  <1>3. PICK c \in Calls :
            /\ calls' = [calls EXCEPT ![t][Len(calls[t])] = c]
            /\ c.by = Top(t).by /\ c.to = Top(t).to
            /\ \/ c.at = "readied" /\ cur' = cur
               \/ c.at = "marked" /\ c.from = cur /\ cur' = cur
               \/ /\ Top(t).at = "marked" /\ c.at = "stored"
                  /\ c.from = Top(t).from /\ cur' = Top(t).to
    <2>1. CASE MarkOld(t)
      <3> DEFINE c == [Top(t) EXCEPT !.at = "readied"]
      <3>1. calls' = [calls EXCEPT ![t][Len(calls[t])] = c]
            /\ cur' = cur
        BY <2>1 DEF MarkOld, Top
      <3>2. /\ c \in Calls /\ c.by = Top(t).by /\ c.to = Top(t).to
            /\ c.at = "readied"
        BY <1>2 DEF Calls
      <3> HIDE DEF c
      <3> QED BY <3>1, <3>2
    <2>2. CASE MarkNew(t)
      <3> DEFINE c == [Top(t) EXCEPT !.at = "marked", !.from = cur]
      <3>1. calls' = [calls EXCEPT ![t][Len(calls[t])] = c]
            /\ cur' = cur
        BY <2>2 DEF MarkNew, Top
      <3>2. /\ c \in Calls /\ c.by = Top(t).by /\ c.to = Top(t).to
            /\ c.at = "marked" /\ c.from = cur
        BY <1>2 DEF Calls
      <3> HIDE DEF c
      <3> QED BY <3>1, <3>2
    <2>3. CASE SetCur(t)
      <3> DEFINE c == [Top(t) EXCEPT !.at = "stored"]
      <3>1. calls' = [calls EXCEPT ![t][Len(calls[t])] = c]
            /\ cur' = Top(t).to /\ Top(t).at = "marked"
        BY <2>3 DEF SetCur, Top, TopAt
      <3>2. /\ c \in Calls /\ c.by = Top(t).by /\ c.to = Top(t).to
            /\ c.at = "stored" /\ c.from = Top(t).from
        BY <1>2 DEF Calls
      <3> HIDE DEF c
      <3> QED BY <3>1, <3>2
    <2> QED BY <2>1, <2>2, <2>3
  <1>4. /\ calls' \in [Threads -> Seq(Calls)]
        /\ \A q \in Threads \ {t} : calls'[q] = calls[q]
        /\ calls'[t] # << >> /\ Len(calls'[t]) = Len(calls[t])
        /\ calls'[t][Len(calls[t])] = c
        /\ DOMAIN calls'[t] = DOMAIN calls[t]
        /\ \A i \in DOMAIN calls[t] : i # Len(calls[t]) => calls'[t][i] = calls[t][i]
    BY <1>1, <1>3, MarkFacts
  <1>5. \A i \in DOMAIN calls[t] : calls'[t][i].by = calls[t][i].by
    BY <1>3, <1>4 DEF Top
  <1>6. Top(t)' = c
    BY <1>4 DEF Top
  <1>7. state'[0] \in {"Running", "Ready"}
    <2>1. Top(t).to \in Threads /\ state[0] \in {"Running", "Ready"} /\ 0 \in Threads
      BY <1>2, Slots DEF Calls, SchedInv, MainInv
    <2>2. CASE MarkOld(t)
      BY <1>2, <2>1, <2>2 DEF MarkOld
    <2>3. CASE MarkNew(t)
      BY <1>2, <2>1, <2>3 DEF MarkNew
    <2>4. CASE SetCur(t)
      BY <2>1, <2>4 DEF SetCur
    <2> QED BY <2>2, <2>3, <2>4
  <1>8. /\ Top(t).at' = c.at /\ Top(t).from' = c.from /\ Top(t).to' = c.to
    BY <1>6
  <1> QED BY <1>1, <1>3, <1>4, <1>5, <1>7, <1>8

\* gt_pree_swtch() marks its call, and exchanges the stack pointers.
LEMMA SwtchFacts ==
    ASSUME NestedAssumption, SchedInv, NEW t \in Threads, Swtch(t)
    PROVE  /\ on = t /\ calls[t] # << >> /\ Top(t).at = "stored"
           /\ calls' \in [Threads -> Seq(Calls)]
           /\ \A q \in Threads \ {t} : calls'[q] = calls[q]
           /\ calls'[t] # << >> /\ Len(calls'[t]) = Len(calls[t])
           /\ DOMAIN calls'[t] = DOMAIN calls[t]
           /\ \A i \in DOMAIN calls[t] : calls'[t][i].by = calls[t][i].by
           /\ \A i \in DOMAIN calls[t] : i # Len(calls[t]) => calls'[t][i] = calls[t][i]
           /\ Top(t).at' = "switched"
           /\ regs' = [regs EXCEPT ![Top(t).from] = [stack |-> t, depth |-> Len(calls[t])]]
           /\ on' = regs'[Top(t).to].stack
           /\ UNCHANGED <<state, delay, cur, status, timer, masked, pc, arg>>
  <1> DEFINE c == [Top(t) EXCEPT !.at = "switched"]
  <1>1. on = t /\ calls[t] # << >> /\ Top(t).at = "stored" /\ Types
    BY DEF Swtch, TopAt, SchedInv
  <1>2. Top(t) \in Calls /\ Len(calls[t]) \in DOMAIN calls[t]
    BY <1>1, TopFacts
  <1>3. c \in Calls /\ c.at = "switched" /\ c.by = Top(t).by
    BY <1>2 DEF Calls
  <1>4. calls' = [calls EXCEPT ![t][Len(calls[t])] = c]
    BY DEF Swtch, Top
  <1> HIDE DEF c
  <1>5. /\ calls' \in [Threads -> Seq(Calls)]
        /\ \A q \in Threads \ {t} : calls'[q] = calls[q]
        /\ calls'[t] # << >> /\ Len(calls'[t]) = Len(calls[t])
        /\ calls'[t][Len(calls[t])] = c
        /\ DOMAIN calls'[t] = DOMAIN calls[t]
        /\ \A i \in DOMAIN calls[t] : i # Len(calls[t]) => calls'[t][i] = calls[t][i]
    BY <1>1, <1>3, <1>4, MarkFacts
  <1>6. \A i \in DOMAIN calls[t] : calls'[t][i].by = calls[t][i].by
    BY <1>3, <1>5 DEF Top
  <1>7. Top(t).at' = "switched"
    BY <1>3, <1>5 DEF Top
  <1> QED BY <1>1, <1>5, <1>6, <1>7 DEF Swtch

\* SIGALRM: the timers make sleepers Ready, and the handler has selected a
\* slot, or no thread but the current one is Ready.
LEMMA TickFacts ==
    ASSUME NestedAssumption, SchedInv, TickScan
    PROVE  /\ timer /\ (InSwitch \/ ~TopAt(on, "stored"))
           /\ state'[0] = state[0] /\ UNCHANGED <<cur, timer, pc, arg, on, regs>>
           /\ \/ UNCHANGED status /\ \E p \in Threads : Push("handler", p)
              \/ /\ calls' = calls
                 /\ cur = 0 /\ status' = 0 =>
                        \A q \in Tasks : state'[q] \in {"Unused", "Running"}
  <1> DEFINE st == G!TimedStates(state, delay)
  <1>1. state' = st
    BY DEF TickScan
  <1>2. /\ st \in [Threads -> G!ThreadStates]
        /\ \A q \in Threads : st[q] = state[q] \/ (state[q] = "Blocked" /\ st[q] = "Ready")
    BY TimedFacts DEF SchedInv, Types
  <1> HIDE DEF st
  <1>3. ASSUME G!NoneReady(st, cur), status' = G!NoReadyResult(st), cur = 0, status' = 0
        PROVE  \A q \in Tasks : st[q] \in {"Unused", "Running"}
    <2>1. \A q \in Tasks : st[q] # "Ready"
      BY <1>3, Slots DEF G!NoneReady, G!Candidates
    <2>2. \A q \in Threads : st[q] \notin {"Blocked", "Suspended"}
      BY <1>3, Slots DEF G!NoReadyResult
    <2> QED BY <1>2, <2>1, <2>2, Slots DEF G!ThreadStates
  <1>4. \/ UNCHANGED status /\ \E p \in Threads : Push("handler", p)
        \/ G!NoneReady(st, cur) /\ status' = G!NoReadyResult(st) /\ calls' = calls
    BY DEF TickScan, st
  <1>5. state'[0] = state[0]
    BY <1>1, <1>2, Slots DEF SchedInv, MainInv
  <1> QED BY <1>1, <1>3, <1>4, <1>5 DEF TickScan

-----------------------------------------------------------------------------

LEMMA SchedStep ==
    ASSUME NestedAssumption, SchedInv, [Next]_vars
    PROVE  SchedInv'
  <1> DEFINE Goal == MainInv /\ ArgOther
  <1>0. Types'
    BY TypesStep DEF SchedInv
  <1> SUFFICES Goal'
    BY <1>0 DEF SchedInv
  <1> USE Slots
  <1>1. ASSUME NEW t \in Threads, ApiStep(t) PROVE Goal'
    <2>1. /\ calls' = calls
          /\ \A q \in Threads : q # t => pc'[q] = pc[q] /\ arg'[q] = arg[q]
          /\ t = 0 => pc'[t] \in {"user", "goFill"}
          /\ pc'[t] = "goFill" => t = 0
          /\ pc'[t] \in {"resume", "goFill"} => arg'[t] # 0
          /\ state'[0] = state[0] \/ state'[0] = "Ready"
      BY <1>1, ApiFacts
    <2>2. MainInv'
      BY <2>1 DEF SchedInv, MainInv
    <2>3. ArgOther'
      BY <2>1 DEF SchedInv, ArgOther
    <2> QED BY <2>2, <2>3
  <1>2. ASSUME NEW t \in Threads, GoFill(t) PROVE Goal'
    <2>1. t = 0 /\ arg[t] \in Threads /\ arg[t] # t /\ arg' = arg
      BY <1>2, FillFacts
    <2>2. /\ state' = [state EXCEPT ![arg[t]] = "Ready"]
          /\ pc' = [pc EXCEPT ![arg[t]] = "user", ![t] = "goReset"]
          /\ calls' = [calls EXCEPT ![arg[t]] = << >>]
      BY <1>2, FillFacts
    <2>3. /\ calls'[0] = calls[0] /\ state'[0] = state[0]
          /\ pc'[0] = "goReset" /\ pc'[arg[t]] = "user"
          /\ \A q \in Threads : q # 0 /\ q # arg[t] => pc'[q] = pc[q]
      BY <2>1, <2>2 DEF SchedInv, Types, TypeOK
    <2> QED BY <2>1, <2>3 DEF SchedInv, MainInv, ArgOther
  <1>3. ASSUME NEW t \in Threads, YieldScan(t) PROVE Goal'
    <2>1. /\ t # 0 /\ on = t /\ UNCHANGED <<state, arg>> /\ pc'[0] = pc[0]
          /\ \A q \in Threads : pc'[q] \in {"resume", "goFill"} => pc'[q] = pc[q]
      BY <1>3, YieldFacts
    <2>2. calls'[0] = calls[0]
      BY <1>3, <2>1, YieldFacts, PushFacts DEF SchedInv
    <2> QED BY <2>1, <2>2 DEF SchedInv, MainInv, ArgOther
  <1>4. ASSUME NEW t \in Threads, MarkOld(t) \/ MarkNew(t) \/ SetCur(t) PROVE Goal'
    <2>1. /\ state'[0] \in {"Running", "Ready"}
          /\ \A q \in Threads \ {t} : calls'[q] = calls[q]
          /\ DOMAIN calls'[t] = DOMAIN calls[t]
          /\ \A i \in DOMAIN calls[t] : calls'[t][i].by = calls[t][i].by
          /\ UNCHANGED <<pc, arg>>
      BY <1>4, StoreFacts
    <2>2. DOMAIN calls'[0] = DOMAIN calls[0]
          /\ \A i \in DOMAIN calls[0] : calls'[0][i].by = calls[0][i].by
      BY <2>1
    <2> QED BY <2>1, <2>2 DEF SchedInv, MainInv, ArgOther
  <1>5. ASSUME NEW t \in Threads, Swtch(t) PROVE Goal'
    <2>1. /\ \A q \in Threads \ {t} : calls'[q] = calls[q]
          /\ DOMAIN calls'[t] = DOMAIN calls[t]
          /\ \A i \in DOMAIN calls[t] : calls'[t][i].by = calls[t][i].by
          /\ UNCHANGED <<state, pc, arg>>
      BY <1>5, SwtchFacts
    <2>2. DOMAIN calls'[0] = DOMAIN calls[0]
          /\ \A i \in DOMAIN calls[0] : calls'[0][i].by = calls[0][i].by
      BY <2>1
    <2> QED BY <2>1, <2>2 DEF SchedInv, MainInv, ArgOther
  <1>6. ASSUME NEW t \in Threads, Return(t) PROVE Goal'
    <2>1. calls[t] # << >> /\ UNCHANGED <<state, arg>>
      BY <1>6 DEF Return, TopAt
    <2>2. /\ \A q \in Threads \ {t} : calls'[q] = calls[q]
          /\ DOMAIN calls'[t] \subseteq DOMAIN calls[t]
          /\ \A i \in DOMAIN calls'[t] : calls'[t][i] = calls[t][i]
      BY <1>6, <2>1, PopFacts, TopFacts DEF Return, SchedInv
    <2>3. t = 0 => Top(t).by = "handler"
      BY <2>1, TopFacts DEF SchedInv, MainInv, Top
    <2>4. /\ \A q \in Threads : q # t => pc'[q] = pc[q]
          /\ t = 0 => pc' = pc
          /\ pc'[t] \in {"resume", "goFill"} => pc'[t] = pc[t]
      BY <1>6, <2>3 DEF Return, G!AfterYield, SchedInv, Types, TypeOK
    <2> QED BY <2>1, <2>2, <2>4 DEF SchedInv, MainInv, ArgOther
  <1>7. CASE TickScan
    <2>1. state'[0] = state[0] /\ UNCHANGED <<pc, arg>> /\ on \in Threads
      BY <1>7, TickFacts DEF SchedInv, Types, TypeOK
    <2>2. \A i \in DOMAIN calls'[0] : calls'[0][i].by = "handler"
      <3>1. CASE calls' = calls
        BY <3>1 DEF SchedInv, MainInv
      <3>2. ASSUME NEW p \in Threads, Push("handler", p)
            PROVE  \A i \in DOMAIN calls'[0] : calls'[0][i].by = "handler"
        <4>1. /\ \A q \in Threads \ {on} : calls'[q] = calls[q]
              /\ calls'[on][Len(calls'[on])].by = "handler"
              /\ \A i \in DOMAIN calls[on] : calls'[on][i] = calls[on][i]
              /\ DOMAIN calls'[on] = DOMAIN calls[on] \cup {Len(calls'[on])}
          BY <3>2, PushFacts DEF SchedInv
        <4> QED BY <4>1 DEF SchedInv, MainInv
      <3> QED BY <1>7, <3>1, <3>2, TickFacts
    <2> QED BY <2>1, <2>2 DEF SchedInv, MainInv, ArgOther
  <1>8. CASE Scheduler
    <2>1. /\ UNCHANGED <<state, arg, calls>>
          /\ \/ pc' = pc
             \/ pc' = [pc EXCEPT ![0] = "loop"]
             \/ pc' = [pc EXCEPT ![0] = "returned"]
      BY <1>8 DEF Scheduler, stacks, G!StartScheduler, G!LoopExit, G!Finished, G!vars
    <2>2. /\ \A q \in Threads : q # 0 => pc'[q] = pc[q]
          /\ pc'[0] = pc[0] \/ pc'[0] \in {"loop", "returned"}
      BY <2>1 DEF SchedInv, Types, TypeOK
    <2> QED BY <2>1, <2>2 DEF SchedInv, MainInv, ArgOther
  <1>9. CASE UNCHANGED vars
    BY <1>9 DEF vars, stacks, SchedInv, MainInv, ArgOther
  <1> QED BY <1>1, <1>2, <1>3, <1>4, <1>5, <1>6, <1>7, <1>8, <1>9 DEF Next

LEMMA SchedInit == ASSUME NestedAssumption, Init PROVE SchedInv
  <1> USE Slots DEF Init, G!Init, NestedAssumption
  <1>1. \A t \in Threads : calls[t] = << >> /\ Len(calls[t]) = 0 /\ DOMAIN calls[t] = {}
    BY EmptySeq
  <1>2. calls \in [Threads -> Seq(Calls)]
    BY EmptySeq
  <1>3. regs \in [Threads -> [stack : Threads, depth : 0..MaxNest + 1]]
    OBVIOUS
  <1>4. /\ state \in [Threads -> G!ThreadStates] /\ delay \in [Threads -> 0..MaxDelay]
        /\ pc \in [Threads -> G!Pcs] /\ arg \in [Threads -> Threads]
    BY DEF G!ThreadStates, G!Pcs
  <1>5. \A t \in Threads : Len(calls[t]) <= MaxNest + 1
    BY <1>1
  <1>6. Types
    BY <1>1, <1>2, <1>3, <1>4, <1>5 DEF Types, TypeOK
  <1> QED BY <1>1, <1>6 DEF SchedInv, MainInv, ArgOther

LEMMA SchedAlways == ASSUME NestedAssumption PROVE Spec => []SchedInv
  <1>1. Init => SchedInv
    BY NestedAssumption, SchedInit
  <1>2. SchedInv /\ [Next]_vars => SchedInv'
    BY NestedAssumption, SchedStep
  <1> QED BY <1>1, <1>2, PTL DEF Spec

\* Type correctness of the table, of the stacks and of the saved stack
\* pointers that gt_pree_swtch() exchanges.
THEOREM TypeCorrect == ASSUME NestedAssumption PROVE Spec => []TypeOK
  <1>1. SchedInv => TypeOK
    BY DEF SchedInv, Types
  <1> QED BY <1>1, SchedAlways, NestedAssumption, PTL

-----------------------------------------------------------------------------
(* The stack pointers, if no SIGALRM falls inside the switch.              *)

\* A step that leaves the stack pointers, and the stacks of all others.
LEMMA SavedKept ==
    ASSUME Saved, OwnStack, UNCHANGED <<on, regs>>,
           \A t \in Threads \ {on} : calls'[t] = calls[t]
    PROVE  Saved'
  BY DEF Saved, Top

\* A call that is pushed on the stack in use, outside the switch.
LEMMA PushStack ==
    ASSUME NestedAssumption, SchedInv, StackInv, ~TopAt(on, "stored"),
           NEW who \in {"handler", "thread"}, \E p \in Threads : Push(who, p),
           UNCHANGED <<cur, on, regs>>
    PROVE  StackInv'
  <1>1. /\ \A q \in Threads \ {on} : calls'[q] = calls[q]
        /\ calls'[on] # << >> /\ Len(calls'[on]) = Len(calls[on]) + 1
        /\ calls'[on][Len(calls'[on])].at = "scanned"
        /\ \A i \in DOMAIN calls[on] : calls'[on][i] = calls[on][i]
        /\ DOMAIN calls'[on] = DOMAIN calls[on] \cup {Len(calls'[on])}
    BY PushFacts DEF SchedInv
  <1>2. OwnStack /\ Saved /\ StoredOnTop /\ MarkedOwn /\ on \in Threads
    BY DEF StackInv, SchedInv, Types, TypeOK
  <1>3. \A i \in DOMAIN calls[on] : calls[on][i].at # "stored"
    <2>1. ASSUME NEW i \in DOMAIN calls[on], calls[on][i].at = "stored" PROVE FALSE
      <3>1. i = Len(calls[on])
        BY <1>2, <2>1 DEF StoredOnTop
      <3>2. DOMAIN << >> = {}
        OBVIOUS
      <3> QED BY <2>1, <3>1, <3>2 DEF TopAt, Top
    <2> QED BY <2>1
  <1>4. \A i \in DOMAIN calls'[on] : calls'[on][i].at # "stored"
    BY <1>1, <1>3
  <1>5. StoredOnTop'
    BY <1>1, <1>2, <1>4 DEF StoredOnTop
  <1>6. Saved'
    BY <1>1, <1>2, SavedKept
  <1>7. OwnStack'
    BY <1>1, <1>2 DEF OwnStack, TopAt, Top
  <1>8. MarkedOwn'
    BY <1>1, <1>2 DEF MarkedOwn
  <1> QED BY <1>5, <1>6, <1>7, <1>8 DEF StackInv

LEMMA StackStep ==
    ASSUME NestedAssumption, ~InSwitch, SchedInv, StackInv, [Next]_vars
    PROVE  StackInv'
  <1> USE Slots
  <1>0. on \in Threads /\ cur \in Threads /\ regs \in [Threads -> [stack : Threads, depth : 0..MaxNest + 1]]
    BY DEF SchedInv, Types, TypeOK
  <1>10. OwnStack /\ Saved /\ StoredOnTop /\ MarkedOwn
    BY DEF StackInv
  <1>1. ASSUME NEW t \in Threads, ApiStep(t) PROVE StackInv'
    <2>1. UNCHANGED <<cur, calls, on, regs>>
      BY <1>1, ApiFacts
    <2> QED BY <1>10, <2>1, SavedKept DEF StackInv, StoredOnTop, MarkedOwn, OwnStack, TopAt, Top
  <1>2. ASSUME NEW t \in Threads, GoFill(t) PROVE StackInv'
    <2>1. /\ on = t /\ arg[t] \in Threads /\ arg[t] # t
          /\ calls' = [calls EXCEPT ![arg[t]] = << >>]
          /\ regs' = [regs EXCEPT ![arg[t]] = [stack |-> arg[t], depth |-> 0]]
          /\ UNCHANGED <<cur, on>>
      BY <1>2, FillFacts
    <2>2. /\ calls'[arg[t]] = << >> /\ regs'[arg[t]] = [stack |-> arg[t], depth |-> 0]
          /\ \A q \in Threads : q # arg[t] => calls'[q] = calls[q] /\ regs'[q] = regs[q]
      BY <1>0, <2>1 DEF SchedInv, Types
    <2>3. Len(<< >>) = 0 /\ DOMAIN << >> = {}
      BY EmptySeq
    <2>4. Saved'
      BY <1>10, <2>1, <2>2, <2>3 DEF Saved, Top
    <2>5. StoredOnTop'
      BY <1>10, <2>1, <2>2, <2>3 DEF StoredOnTop
    <2>6. MarkedOwn'
      BY <1>10, <2>1, <2>2, <2>3 DEF MarkedOwn
    <2> QED BY <1>10, <2>1, <2>2, <2>4, <2>5, <2>6 DEF StackInv, OwnStack, TopAt, Top
  <1>3. ASSUME NEW t \in Threads, YieldScan(t) PROVE StackInv'
    <2>1. /\ calls[on] = << >> /\ UNCHANGED <<cur, on, regs>>
          /\ calls' = calls \/ \E p \in Threads : Push("thread", p)
      BY <1>3, YieldFacts
    <2>2. ~TopAt(on, "stored")
      BY <2>1 DEF TopAt
    <2>3. CASE calls' = calls
      BY <1>10, <2>1, <2>3, SavedKept DEF StackInv, StoredOnTop, MarkedOwn, OwnStack, TopAt, Top
    <2> QED BY <2>1, <2>2, <2>3, PushStack
  <1>4. ASSUME NEW t \in Threads, MarkOld(t) \/ MarkNew(t) \/ SetCur(t) PROVE StackInv'
    <2>1. /\ on = t /\ calls[t] # << >> /\ Top(t).at \notin {"stored", "switched"}
          /\ UNCHANGED <<on, regs>>
          /\ \A q \in Threads \ {t} : calls'[q] = calls[q]
          /\ calls'[t] # << >> /\ Len(calls'[t]) = Len(calls[t])
          /\ DOMAIN calls'[t] = DOMAIN calls[t]
          /\ \A i \in DOMAIN calls[t] : i # Len(calls[t]) => calls'[t][i] = calls[t][i]
          /\ \/ Top(t).at' = "readied" /\ cur' = cur
             \/ Top(t).at' = "marked" /\ Top(t).from' = cur /\ cur' = cur
             \/ /\ Top(t).at = "marked" /\ Top(t).at' = "stored"
                /\ Top(t).from' = Top(t).from /\ Top(t).to' = cur'
      BY <1>4, StoreFacts
    <2>2. on = cur
      BY <1>10, <2>1 DEF OwnStack, TopAt
    <2>3. Len(calls[t]) \in DOMAIN calls[t]
      BY <2>1, TopFacts DEF SchedInv
    <2>4. Top(t).at = "marked" => Top(t).from = t
      BY <1>10, <2>3 DEF MarkedOwn, Top
    <2>5. OwnStack'
      BY <2>1, <2>2, <2>4 DEF OwnStack, TopAt, Top
    <2>6. StoredOnTop'
      BY <1>10, <2>1 DEF StoredOnTop
    <2>7. calls'[t][Len(calls[t])].at = "marked" => calls'[t][Len(calls[t])].from = t
      BY <2>1, <2>2 DEF Top
    <2>8. MarkedOwn'
      BY <1>10, <2>1, <2>7 DEF MarkedOwn
    <2> QED BY <1>10, <2>1, <2>5, <2>6, <2>8, SavedKept DEF StackInv
  <1>5. ASSUME NEW t \in Threads, Swtch(t) PROVE StackInv'
    <2>1. /\ on = t /\ calls[t] # << >> /\ Top(t).at = "stored"
          /\ \A q \in Threads \ {t} : calls'[q] = calls[q]
          /\ Len(calls'[t]) = Len(calls[t]) /\ Top(t).at' = "switched"
          /\ regs' = [regs EXCEPT ![Top(t).from] = [stack |-> t, depth |-> Len(calls[t])]]
          /\ on' = regs'[Top(t).to].stack
          /\ UNCHANGED cur
      BY <1>5, SwtchFacts
    <2>2. Top(t).from = t /\ Top(t).to = cur
      BY <1>10, <2>1 DEF OwnStack, TopAt
    <2>3. /\ regs'[t] = [stack |-> t, depth |-> Len(calls[t])]
          /\ \A q \in Threads \ {t} : regs'[q] = regs[q]
      BY <1>0, <2>1, <2>2
    <2>4. on' = cur
      <3>1. CASE cur = t
        BY <2>1, <2>2, <2>3, <3>1
      <3>2. CASE cur # t
        <4>1. regs[cur].stack = cur
          BY <1>0, <1>10, <2>1, <3>2 DEF Saved
        <4> QED BY <1>0, <2>1, <2>2, <2>3, <3>2, <4>1
      <3> QED BY <3>1, <3>2
    <2>5. \A q \in Threads :
            /\ regs'[q] = [stack |-> q, depth |-> Len(calls'[q])]
            /\ calls'[q] # << >> => Top(q).at' = "switched"
      BY <1>10, <2>1, <2>3 DEF Saved, Top
    <2>6. Saved'
      BY <2>5 DEF Saved
    <2>7. ~TopAt(cur, "stored")'
      BY <1>0, <2>1, <2>5 DEF TopAt
    <2>8. StoredOnTop'
      <3>1. /\ \A i \in DOMAIN calls[t] : i # Len(calls[t]) => calls'[t][i] = calls[t][i]
            /\ DOMAIN calls'[t] = DOMAIN calls[t]
        BY <1>5, SwtchFacts
      <3> QED BY <1>10, <2>1, <3>1 DEF StoredOnTop
    <2>9. MarkedOwn'
      <3>1. /\ \A i \in DOMAIN calls[t] : i # Len(calls[t]) => calls'[t][i] = calls[t][i]
            /\ DOMAIN calls'[t] = DOMAIN calls[t]
            /\ calls'[t][Len(calls[t])].at = "switched"
        BY <1>5, <2>1, SwtchFacts DEF Top
      <3> QED BY <1>10, <2>1, <3>1 DEF MarkedOwn
    <2> QED BY <2>1, <2>4, <2>6, <2>7, <2>8, <2>9 DEF StackInv, OwnStack, TopAt, Top
  <1>6. ASSUME NEW t \in Threads, Return(t) PROVE StackInv'
    <2>1. /\ on = t /\ calls[t] # << >> /\ Top(t).at = "switched"
          /\ UNCHANGED <<cur, on, regs>>
      BY <1>6 DEF Return, TopAt
    <2>2. /\ \A q \in Threads \ {t} : calls'[q] = calls[q]
          /\ Len(calls'[t]) = Len(calls[t]) - 1
          /\ DOMAIN calls'[t] = 1..(Len(calls[t]) - 1)
          /\ \A i \in DOMAIN calls'[t] : calls'[t][i] = calls[t][i]
          /\ Len(calls[t]) \in Nat \ {0} /\ DOMAIN calls[t] = 1..Len(calls[t])
      BY <1>6, <2>1, PopFacts, TopFacts DEF Return, SchedInv
    <2>3. on = cur
      BY <1>10, <2>1 DEF OwnStack, TopAt
    <2>4. \A i \in DOMAIN calls'[t] : calls'[t][i].at # "stored"
      BY <1>10, <2>2 DEF StoredOnTop
    <2>5. StoredOnTop'
      BY <1>10, <2>2, <2>4 DEF StoredOnTop
    <2>6. ~TopAt(t, "stored")'
      <3>1. ASSUME calls'[t] # << >> PROVE Len(calls'[t]) \in DOMAIN calls'[t]
        BY <3>1, TypesStep, TopFacts DEF SchedInv, Types
      <3> QED BY <2>4, <3>1 DEF TopAt, Top
    <2>7. MarkedOwn'
      BY <1>10, <2>2 DEF MarkedOwn
    <2> QED BY <1>10, <2>1, <2>2, <2>3, <2>5, <2>6, <2>7, SavedKept DEF StackInv, OwnStack, TopAt, Top
  <1>7. CASE TickScan
    <2>1. /\ ~TopAt(on, "stored") /\ UNCHANGED <<cur, on, regs>>
          /\ calls' = calls \/ \E p \in Threads : Push("handler", p)
      BY <1>7, TickFacts
    <2>2. CASE calls' = calls
      BY <1>10, <2>1, <2>2, SavedKept DEF StackInv, StoredOnTop, MarkedOwn, OwnStack, TopAt, Top
    <2> QED BY <1>10, <2>1, <2>2, PushStack
  <1>8. CASE Scheduler
    <2>1. UNCHANGED <<cur, calls, on, regs>>
      BY <1>8 DEF Scheduler, stacks, G!StartScheduler, G!LoopExit, G!Finished, G!vars
    <2> QED BY <1>10, <2>1, SavedKept DEF StackInv, StoredOnTop, MarkedOwn, OwnStack, TopAt, Top
  <1>9. CASE UNCHANGED vars
    <2>1. UNCHANGED <<cur, calls, on, regs>>
      BY <1>9 DEF vars, stacks
    <2> QED BY <1>10, <2>1, SavedKept DEF StackInv, StoredOnTop, MarkedOwn, OwnStack, TopAt, Top
  <1> QED BY <1>1, <1>2, <1>3, <1>4, <1>5, <1>6, <1>7, <1>8, <1>9 DEF Next

LEMMA StackAlways ==
    ASSUME NestedAssumption, ~InSwitch PROVE Spec => []StackInv
  <1>1. Init => StackInv
    <2> SUFFICES ASSUME Init PROVE StackInv
      OBVIOUS
    <2>1. \A t \in Threads :
            /\ calls[t] = << >> /\ Len(calls[t]) = 0 /\ DOMAIN calls[t] = {}
            /\ regs[t] = [stack |-> t, depth |-> 0]
      BY EmptySeq DEF Init
    <2>2. on = 0 /\ cur = 0 /\ 0 \in Threads
      BY Slots DEF Init, G!Init
    <2> QED BY <2>1, <2>2 DEF StackInv, OwnStack, Saved, StoredOnTop, MarkedOwn, TopAt
  <1>2. SchedInv /\ StackInv /\ [Next]_vars => StackInv'
    BY NestedAssumption, ~InSwitch, StackStep
  <1> QED BY <1>1, <1>2, SchedAlways, NestedAssumption, PTL DEF Spec

\* gt_pree_swtch() never loads a stack pointer into frames that are gone or
\* into another thread's stack: every thread that waits for the CPU, however
\* its calls of gt_yield() nested, is entered where it was left.
THEOREM SavedOwnAlways ==
    ASSUME NestedAssumption, ~InSwitch PROVE Spec => []SavedOwn
  <1>1. StackInv => SavedOwn
    BY DEF StackInv, Saved, SavedOwn
  <1> QED BY <1>1, StackAlways, NestedAssumption, PTL

-----------------------------------------------------------------------------
(* gt_start_scheduler().  A status of 0 may be overwritten by a handler    *)
(* that returns later, and the selection it then stores may be stale; what *)
(* the idle loop reads, with no handler left on its stack, is the result   *)
(* of its own last scan.                                                   *)

DoneStates == TimerInv /\ Away /\ DoneInv

LEMMA WaitStep ==
    ASSUME NestedAssumption, ~InSwitch, SchedInv, StackInv, DoneStates, [Next]_vars
    PROVE  DoneStates'
  <1> USE Slots
  <1>0. /\ on \in Threads /\ pc \in [Threads -> G!Pcs]
        /\ pc[0] \in {"user", "goFill", "goReset", "loop", "returned"}
        /\ TimerInv /\ Away /\ DoneInv
    BY DEF SchedInv, MainInv, Types, TypeOK, DoneStates
  <1> USE DEF DoneStates, TimerInv, Away, DoneInv, AllDone
  <1>1. ASSUME NEW t \in Threads, ApiStep(t) PROVE DoneStates'
    <2>1. /\ on = t /\ calls[t] = << >>
          /\ UNCHANGED <<cur, status, timer, calls, on>>
          /\ \A q \in Threads : q # t => pc'[q] = pc[q]
          /\ pc[t] \notin {"loop", "returned"}
          /\ t = 0 => pc'[t] \in {"user", "goFill"}
      BY <1>1, ApiFacts, TopFacts DEF SchedInv
    <2>2. ~(status = 0 /\ calls[0] = << >>) /\ pc[0] # "returned"
      BY <1>0, <2>1
    <2> QED BY <1>0, <2>1, <2>2
  <1>2. ASSUME NEW t \in Threads, GoFill(t) PROVE DoneStates'
    <2>1. /\ t = 0 /\ on = t /\ pc[t] = "goFill" /\ arg[t] \in Threads /\ arg[t] # t
          /\ calls' = [calls EXCEPT ![arg[t]] = << >>]
          /\ pc' = [pc EXCEPT ![arg[t]] = "user", ![t] = "goReset"]
          /\ UNCHANGED <<status, timer, cur, on>>
      BY <1>2, FillFacts
    <2>2. calls'[0] = calls[0] /\ pc'[0] = "goReset"
      BY <1>0, <2>1 DEF SchedInv, Types
    <2>3. ~(status = 0 /\ calls[0] = << >>) /\ pc[0] # "returned"
      BY <1>0, <2>1
    <2> QED BY <1>0, <2>1, <2>2, <2>3
  <1>3. ASSUME NEW t \in Threads, YieldScan(t) PROVE DoneStates'
    <2>1. /\ t # 0 /\ on = t /\ UNCHANGED <<status, timer, on>> /\ pc'[0] = pc[0]
      BY <1>3, YieldFacts
    <2>2. calls'[0] = calls[0]
      BY <1>3, <2>1, YieldFacts, PushFacts DEF SchedInv
    <2> QED BY <1>0, <2>1, <2>2
  <1>4. ASSUME NEW t \in Threads, MarkOld(t) \/ MarkNew(t) \/ SetCur(t) PROVE DoneStates'
    <2>1. /\ on = t /\ calls[t] # << >> /\ calls'[t] # << >>
          /\ \A q \in Threads \ {t} : calls'[q] = calls[q]
          /\ UNCHANGED <<status, timer, pc, on>>
      BY <1>4, StoreFacts
    <2> QED BY <1>0, <2>1
  <1>5. ASSUME NEW t \in Threads, Swtch(t) PROVE DoneStates'
    <2>1. /\ on = t /\ calls[t] # << >> /\ calls'[t] # << >>
          /\ \A q \in Threads \ {t} : calls'[q] = calls[q]
          /\ UNCHANGED <<status, timer, pc>>
      BY <1>5, SwtchFacts
    <2> QED BY <1>0, <2>1
  <1>6. ASSUME NEW t \in Threads, Return(t) PROVE DoneStates'
    <2>1. /\ on = t /\ calls[t] # << >> /\ UNCHANGED <<timer, on>>
          /\ \A q \in Threads \ {t} : calls'[q] = calls[q]
      BY <1>6, PopFacts DEF Return, TopAt, SchedInv
    <2>2. CASE t = 0
      <3>1. Top(t).by = "handler"
        BY <2>1, <2>2, TopFacts DEF SchedInv, MainInv, Top
      <3>2. status' = 1 /\ pc' = pc
        BY <1>6, <3>1 DEF Return
      <3> QED BY <1>0, <2>1, <2>2, <3>2
    <2>3. CASE t # 0
      <3>1. pc'[0] = pc[0] /\ calls'[0] = calls[0] /\ calls[0] # << >>
        BY <1>0, <1>6, <2>1, <2>3 DEF Return
      <3> QED BY <1>0, <2>1, <2>3, <3>1
    <2> QED BY <2>2, <2>3
  <1>7. CASE TickScan
    <2>1. /\ pc[0] = "loop" /\ UNCHANGED <<timer, pc, cur, on>> /\ ~TopAt(on, "stored")
      BY <1>0, <1>7, TickFacts
    <2>2. CASE UNCHANGED status /\ \E p \in Threads : Push("handler", p)
      <3>1. /\ \A q \in Threads \ {on} : calls'[q] = calls[q]
            /\ calls'[on] # << >>
        BY <2>2, PushFacts DEF SchedInv
      <3>2. calls'[0] # << >>
        BY <1>0, <3>1
      <3> QED BY <1>0, <2>1, <3>2
    <2>3. ASSUME calls' = calls,
                 cur = 0 /\ status' = 0 =>
                    \A q \in Tasks : state'[q] \in {"Unused", "Running"}
          PROVE  DoneStates'
      <3>1. on = cur
        BY <2>1 DEF StackInv, OwnStack
      <3> QED BY <1>0, <2>1, <2>3, <3>1
    <2> QED BY <1>7, <2>2, <2>3, TickFacts
  <1>8. CASE Scheduler
    <2>1. UNCHANGED <<state, cur, status, calls, on>> /\ on = 0
      BY <1>8 DEF Scheduler, stacks, G!StartScheduler, G!LoopExit, G!Finished, G!vars
    <2>2. CASE G!StartScheduler
      BY <1>0, <2>1, <2>2 DEF G!StartScheduler
    <2>3. CASE G!LoopExit
      <3>1. calls[0] = << >> /\ status = 0 /\ pc' = [pc EXCEPT ![0] = "returned"] /\ timer' = FALSE
        BY <2>3, TopFacts DEF G!LoopExit, G!Active, Depth, SchedInv
      <3> QED BY <1>0, <2>1, <3>1
    <2>4. CASE G!Finished
      BY <1>0, <2>1, <2>4 DEF G!Finished, G!vars
    <2> QED BY <1>8, <2>2, <2>3, <2>4 DEF Scheduler
  <1>9. CASE UNCHANGED vars
    BY <1>0, <1>9 DEF vars, stacks
  <1> QED BY <1>1, <1>2, <1>3, <1>4, <1>5, <1>6, <1>7, <1>8, <1>9 DEF Next

\* Even if the handlers of several ticks nest on main's stack, inside the
\* gt_yield() that others have not finished, gt_start_scheduler() returns
\* only when no other slot is Ready, Blocked or Suspended.
THEOREM NoneWaitingAlways ==
    ASSUME NestedAssumption, ~InSwitch PROVE Spec => []NoneWaiting
  <1>1. Init => DoneStates
    BY Slots, NestedAssumption DEF Init, G!Init, DoneStates, TimerInv, Away, DoneInv
  <1>2. SchedInv /\ StackInv /\ DoneStates /\ [Next]_vars => DoneStates'
    BY NestedAssumption, ~InSwitch, WaitStep
  <1>3. DoneStates => NoneWaiting
    BY DEF DoneStates, DoneInv, AllDone, NoneWaiting
  <1> QED BY <1>1, <1>2, <1>3, SchedAlways, StackAlways, NestedAssumption, PTL DEF Spec
=============================================================================
