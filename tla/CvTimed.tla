------------------------------ MODULE CvTimed ------------------------------
(***************************************************************************)
(* circle_buffer.cpp with and without time.  main() joins the producer and *)
(* gives the endless consumer sleep( 2 ) for what is left in the ring.     *)
(* Nothing in the code waits for it: whether all is taken depends on how   *)
(* long the sleeps last.                                                   *)
(*                                                                         *)
(* A run that is not timed is one of module CvBuffer: the threads go on in *)
(* any order, however late they are.  In a timed one, time passes in ticks *)
(* of 100 ms, the usleep() of the producer.  Every sleep lasts its time    *)
(* and up to Late ticks more, in which what a thread does until its next   *)
(* sleep is included: statements take no time of their own, and a tick     *)
(* comes when every thread sleeps or waits.                                *)
(***************************************************************************)
EXTENDS CvBuffer

CONSTANT Late   \* bound: the ticks by which a sleep may last longer

ASSUME CvTimedAssumption == Late \in Nat

VARIABLES
    timed,  \* the system keeps to the times, never later than Late
    rest    \* the ticks that a thread, or main(), still sleeps; 0 if not timed

Main == "main"
timedVars == <<vars, timed, rest>>

\* usleep( 100 * 1000 ) of the producer, usleep( 200 * 1000 ) of the consumer.
Pause(t) == IF t = Producer THEN 1 ELSE 2

\* Mutant: sleep( 1 ), half the time for the consumer.
SleepOfOne == 10

\* sleep( 2 ) of main().
Sleep == 20

TimedInit ==
    /\ Init
    /\ timed \in BOOLEAN
    /\ rest = [t \in Threads \cup {Main} |-> 0]

\* Whoever begins a sleep of that many ticks.
Sleeps(t, ticks) ==
    IF timed
    THEN \E late \in 0..Late : rest' = [rest EXCEPT ![t] = ticks + late]
    ELSE UNCHANGED rest

\* A thread leaves its sleep when the time is over; it begins one behind the
\* unlock.
StepInTime(t) ==
    /\ ThreadStep(t) /\ UNCHANGED timed
    /\ pc[t] = "sleep" => rest[t] = 0
    /\ IF pc[t] = "unlock" THEN Sleeps(t, Pause(t)) ELSE UNCHANGED rest

SpuriousInTime(t) == WakeSpuriously(t) /\ UNCHANGED <<timed, rest>>

JoinsInTime == Joins /\ Sleeps(Main, Sleep) /\ UNCHANGED timed

ReturnsInTime ==
    /\ rest[Main] = 0 /\ UNCHANGED <<timed, rest>>
    /\ Returns \/ Terminated

\* Every thread waits, sleeps or has ended, and main() joins or sleeps.
Idle(t) == pc[t] \in {"waiting", "ended"} \/ (pc[t] = "sleep" /\ rest[t] > 0)

\* The threads that main() joins: those whose loops end.
Joined == IF Quota = 0 THEN {Producer} ELSE Threads

Tick ==
    /\ timed /\ UNCHANGED <<vars, timed>>
    /\ \A t \in Threads : Idle(t)
    /\ \/ main = "joins" /\ \E t \in Joined : pc[t] # "ended"
       \/ main = "sleeps" /\ rest[Main] > 0
    /\ rest' = [t \in DOMAIN rest |-> IF rest[t] > 0 THEN rest[t] - 1 ELSE 0]

TimedNext ==
    \/ \E t \in Threads : StepInTime(t) \/ SpuriousInTime(t)
    \/ JoinsInTime \/ ReturnsInTime \/ Tick

\* Threads run, and none is kept from the mutex forever: each sleeps or is
\* preempted outside it again and again, and its sleeps end.  Nothing wakes a
\* thread without a signal if the system does not want to.
TimedSpec ==
    /\ TimedInit /\ [][TimedNext]_timedVars
    /\ \A t \in Threads : SF_vars(ThreadStep(t))
    /\ WF_vars(Joins) /\ WF_vars(Returns)

-----------------------------------------------------------------------------

\* When main() returns, and the process and its consumer end with it, what the
\* producer has made has been taken, if the sleeps keep to their times:
\* sleep( 2 ) is enough for five slots and a consumer that needs up to 400 ms
\* for each.
AllTaken ==
    timed /\ main = "returned" =>
        done[Producer] = Total /\ done[Consumer] = Total
=============================================================================
