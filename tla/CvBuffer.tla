------------------------------ MODULE CvBuffer ------------------------------
(***************************************************************************)
(* The monitors of cv/cv_thread: circle_buffer.cpp (a ring of QSIZE slots, *)
(* a consumer without end), consumer_producer.cpp (one slot, has_value for *)
(* count, both threads joined) and the pair in cv_thread.cpp, which does   *)
(* not mark its slot as filled.                                            *)
(*                                                                         *)
(* What happens under the mutex between two operations on the mutex or on  *)
(* a condition is one step.  A wait on a condition may also end without a  *)
(* signal, as POSIX allows.                                                *)
(***************************************************************************)
EXTENDS Integers, Sequences

CONSTANTS
    Size,   \* QSIZE, or 1 for has_value
    Total,  \* values the producer makes
    Quota,  \* values the consumer takes; 0: it takes without end
    Marks   \* FALSE in cv_thread.cpp: has_value = false after a store

ASSUME CvBufferAssumption ==
    Size \in Nat \ {0} /\ Total \in Nat /\ Quota \in {0, Total} /\ Marks \in BOOLEAN

Producer == "producer"
Consumer == "consumer"
Threads == {Producer, Consumer}
Nobody == "nobody"
NoItem == 0
Slots == 0..Size-1

VARIABLES
    m,            \* the thread that has locked the mutex
    buffer, head, tail, count,
    pc,           \* where a thread is in its loop
    done,         \* iterations of the loop a thread has completed
    v,            \* the value a thread puts, or has taken
    main          \* where main() is: "joins", "sleeps" or "returned"

ring == <<buffer, head, tail, count>>
vars == <<m, ring, pc, done, v, main>>

Pcs == {"lock", "test", "waiting", "relock", "act", "signal", "unlock", "sleep", "ended"}

Init ==
    /\ m = Nobody
    /\ buffer = [s \in Slots |-> NoItem]
    /\ head = 0 /\ tail = 0 /\ count = 0
    /\ pc = [t \in Threads |-> "sleep"]
    /\ done = [t \in Threads |-> 0]
    /\ v = [t \in Threads |-> NoItem]
    /\ main = "joins"

Goes(t, from, to) == pc[t] = from /\ pc' = [pc EXCEPT ![t] = to]

\* What the thread waits for: the loop around pthread_cond_wait().
MustWait(t) == IF t = Producer THEN count = Size ELSE count = 0

\* The condition on which a thread waits is the one that the other signals.
Other(t) == IF t = Producer THEN Consumer ELSE Producer

\* The for loop of a thread is over.
LoopEnds(t) ==
    IF t = Producer THEN done[t] = Total ELSE Quota # 0 /\ done[t] = Quota

-----------------------------------------------------------------------------

\* A new iteration; the value i of the producer.
Iterate(t) ==
    /\ ~LoopEnds(t)
    /\ Goes(t, "sleep", "lock")
    /\ v' = [v EXCEPT ![t] = IF t = Producer THEN done[t] + 1 ELSE NoItem]
    /\ UNCHANGED <<m, ring, done, main>>

EndThread(t) ==
    /\ LoopEnds(t)
    /\ Goes(t, "sleep", "ended")
    /\ UNCHANGED <<m, ring, done, v, main>>

Lock(t) ==
    /\ m = Nobody /\ m' = t
    /\ Goes(t, "lock", "test")
    /\ UNCHANGED <<ring, done, v, main>>

\* pthread_cond_wait() unlocks the mutex and waits, in one step.
Wait(t) ==
    /\ MustWait(t)
    /\ Goes(t, "test", "waiting")
    /\ m' = Nobody
    /\ UNCHANGED <<ring, done, v, main>>

\* It ends without a signal.
WakeSpuriously(t) ==
    /\ main # "returned"
    /\ Goes(t, "waiting", "relock")
    /\ UNCHANGED <<m, ring, done, v, main>>

\* Mutant: if instead of while around pthread_cond_wait().
RelockIf(t) ==
    /\ m = Nobody /\ m' = t
    /\ Goes(t, "relock", "act")
    /\ UNCHANGED <<ring, done, v, main>>

\* It returns with the mutex locked, and the condition is tested again.
Relock(t) ==
    /\ m = Nobody /\ m' = t
    /\ Goes(t, "relock", "test")
    /\ UNCHANGED <<ring, done, v, main>>

Proceed(t) ==
    /\ ~MustWait(t)
    /\ Goes(t, "test", "act")
    /\ UNCHANGED <<m, ring, done, v, main>>

Put ==
    /\ Goes(Producer, "act", "signal")
    /\ buffer' = [buffer EXCEPT ![tail] = v[Producer]]
    /\ tail' = (tail + 1) % Size
    /\ count' = IF Marks THEN count + 1 ELSE 0
    /\ UNCHANGED <<m, head, done, v, main>>

Take ==
    /\ Goes(Consumer, "act", "signal")
    /\ v' = [v EXCEPT ![Consumer] = buffer[head]]
    /\ head' = (head + 1) % Size
    /\ count' = count - 1
    /\ UNCHANGED <<m, buffer, tail, done, main>>

\* Mutant: the other thread is signalled only when the ring has become empty or
\* full.
SignalSeldom(t) ==
    /\ pc[t] = "signal"
    /\ pc' = [u \in Threads |->
            IF u = t THEN "unlock"
            ELSE IF pc[u] = "waiting" /\ count \in {0, Size} THEN "relock"
            ELSE pc[u]]
    /\ UNCHANGED <<m, ring, done, v, main>>

\* Mutant: nobody is signalled.
SignalNever(t) ==
    /\ Goes(t, "signal", "unlock")
    /\ UNCHANGED <<m, ring, done, v, main>>

\* pthread_cond_signal() wakes the other thread if it waits, or nobody.
Signal(t) ==
    /\ pc[t] = "signal"
    /\ pc' = [u \in Threads |->
            IF u = t THEN "unlock"
            ELSE IF pc[u] = "waiting" THEN "relock"
            ELSE pc[u]]
    /\ UNCHANGED <<m, ring, done, v, main>>

Unlock(t) ==
    /\ Goes(t, "unlock", "sleep")
    /\ m' = Nobody
    /\ done' = [done EXCEPT ![t] = @ + 1]
    /\ v' = [v EXCEPT ![t] = NoItem]
    /\ UNCHANGED <<ring, main>>

\* main() joins the threads whose loops end.
Joins ==
    /\ main = "joins" /\ pc[Producer] = "ended"
    /\ Quota = 0 \/ pc[Consumer] = "ended"
    /\ main' = "sleeps"
    /\ UNCHANGED <<m, ring, pc, done, v>>

\* After sleep( 2 ) it returns, wherever the consumer is, and ends it, too.
\* How far the consumer has come by then is the subject of module CvTimed.
Returns ==
    /\ main = "sleeps" /\ main' = "returned"
    /\ UNCHANGED <<m, ring, pc, done, v>>

-----------------------------------------------------------------------------

ThreadStep(t) ==
    /\ main # "returned"
    /\ \/ Iterate(t) \/ EndThread(t)
       \/ Lock(t) \/ Wait(t) \/ Relock(t) \/ Proceed(t)
       \/ (t = Producer /\ Put) \/ (t = Consumer /\ Take)
       \/ Signal(t) \/ Unlock(t)

Terminated == main = "returned" /\ UNCHANGED vars

Next ==
    \/ \E t \in Threads : ThreadStep(t) \/ WakeSpuriously(t)
    \/ Joins \/ Returns \/ Terminated

Spec == Init /\ [][Next]_vars

-----------------------------------------------------------------------------
(* Properties. *)

TypeOK ==
    /\ m \in Threads \cup {Nobody}
    /\ buffer \in [Slots -> 0..Total]
    /\ head \in Slots /\ tail \in Slots /\ count \in 0..Size
    /\ pc \in [Threads -> Pcs]
    /\ done \in [Threads -> 0..Total]
    /\ v \in [Threads -> 0..Total]
    /\ main \in {"joins", "sleeps", "returned"}

\* The values in the ring, the oldest first.
Contents == [k \in 1..count |-> buffer[(head + k - 1) % Size]]

\* A call of the abstract queue is an iteration, from its start to its end.
Phase(t) ==
    CASE pc[t] \in {"sleep", "ended"} -> "idle"
      [] pc[t] \in {"signal", "unlock"} ->
            IF t = Producer THEN "stored" ELSE "got"
      [] OTHER -> IF t = Producer THEN "put" ELSE "get"

F == INSTANCE BoundedFifo WITH
        Procs <- Threads,
        Items <- 1..Total,
        Capacity <- Size,
        Impatient <- {},
        queue <- Contents,
        phase <- [t \in Threads |-> Phase(t)],
        value <- v

\* The monitor is a bounded FIFO: every value is taken once and in order, and
\* none is overwritten, whatever wakes the threads.
IsFifo == F!Spec

\* No wake-up is lost: a thread waits only while it has to, or while the
\* other is about to signal it.
NoLostWakeup ==
    \A t \in Threads :
        pc[t] = "waiting" => MustWait(t) \/ pc[Other(t)] = "signal"

\* Both loops make progress and the program ends.
Ends == <>(main = "returned")
=============================================================================
