---------------------------- MODULE DrainServer ----------------------------
(***************************************************************************)
(* The threaded producer/consumer server DU/DU04/socket_srv.cpp: the ring  *)
(* of SemRing, a counter of the producers that are connected, and          *)
(* consumers that leave once nobody produces and the ring is empty.        *)
(*                                                                         *)
(* A process is the thread of one client.  Left out: the command quit,     *)
(* which ends the program, and empty lines of a producer, which are        *)
(* acknowledged and dropped.                                               *)
(***************************************************************************)
EXTENDS Integers, FiniteSets

CONSTANTS Procs, Items, NoItem, Size

ASSUME DrainServerAssumption ==
    /\ IsFiniteSet(Procs)
    /\ NoItem \notin Items
    /\ Size \in Nat \ {0}

VARIABLES
    mutex, empty, full, buffer, head, tail,  \* as in SemRing
    pc, item,                                \* as in SemRing
    role,          \* what the client of a thread has asked for
    producer_cnt,  \* g_producer_cnt
    local_cnt      \* the value of it a consumer has read

ringVars == <<mutex, empty, full, buffer, head, tail, pc, item>>
vars == <<ringVars, role, producer_cnt, local_cnt>>

R == INSTANCE SemRing WITH Impatient <- {}

Init ==
    /\ R!RingInit
    /\ pc = [p \in Procs |-> "none"]
    /\ item = [p \in Procs |-> NoItem]
    /\ role = [p \in Procs |-> "none"]
    /\ producer_cnt = 0
    /\ local_cnt = [p \in Procs |-> 0]

Goes(p, from, to) == pc[p] = from /\ pc' = [pc EXCEPT ![p] = to]

sems == <<mutex, empty, full, buffer, head, tail>>

\* The answer to "Task?".
Connect(p, r) ==
    /\ Goes(p, "none", IF r = "producer" THEN "register" ELSE "check")
    /\ role' = [role EXCEPT ![p] = r]
    /\ UNCHANGED <<sems, item, producer_cnt, local_cnt>>

\* g_producer_cnt++ under g_cnt_mutex.
Register(p) ==
    /\ Goes(p, "register", "idle")
    /\ producer_cnt' = producer_cnt + 1
    /\ UNCHANGED <<sems, item, role, local_cnt>>

\* A line of the client.
Produce(p) ==
    /\ role[p] = "producer"
    /\ \E i \in Items : R!CallPut(p, i)
    /\ UNCHANGED <<role, producer_cnt, local_cnt>>

\* The client is gone: recv_line() returns 0.
Hangup(p) ==
    /\ role[p] = "producer" /\ Goes(p, "idle", "unregister")
    /\ UNCHANGED <<sems, item, role, producer_cnt, local_cnt>>

\* Mutant: the counter is only decremented on some other path.
UnregisterNever(p) ==
    /\ Goes(p, "unregister", "none")
    /\ role' = [role EXCEPT ![p] = "none"]
    /\ UNCHANGED <<sems, item, producer_cnt, local_cnt>>

\* g_producer_cnt-- under g_cnt_mutex.
Unregister(p) ==
    /\ Goes(p, "unregister", "none")
    /\ producer_cnt' = producer_cnt - 1
    /\ role' = [role EXCEPT ![p] = "none"]
    /\ UNCHANGED <<sems, item, local_cnt>>

\* First half of the consumer's check: the counter, under g_cnt_mutex.
ReadCount(p) ==
    /\ Goes(p, "check", "checked")
    /\ local_cnt' = [local_cnt EXCEPT ![p] = producer_cnt]
    /\ UNCHANGED <<sems, item, role, producer_cnt>>

\* Mutant: the items are counted by full, without those not posted yet.
QuietByFull(p) == local_cnt[p] = 0 /\ full = 0

\* Mutant: a ring of all its slots free does not count as empty.
QuietOffByOne(p) == local_cnt[p] = 0 /\ empty > Size

\* Second half: sem_getvalue() of g_sem_empty.
Quiet(p) == local_cnt[p] = 0 /\ empty = Size

ConsumerLeaves(p) ==
    /\ Quiet(p)
    /\ Goes(p, "checked", "none")
    /\ role' = [role EXCEPT ![p] = "none"]
    /\ local_cnt' = [local_cnt EXCEPT ![p] = 0]
    /\ UNCHANGED <<sems, item, producer_cnt>>

\* consumer_item() is entered.
ConsumerStays(p) ==
    /\ ~Quiet(p)
    /\ Goes(p, "checked", "cFull")
    /\ local_cnt' = [local_cnt EXCEPT ![p] = 0]
    /\ UNCHANGED <<sems, item, role, producer_cnt>>

\* The item is sent; the client acknowledges it or is gone.
Send(p) ==
    /\ role[p] = "consumer" /\ item[p] # NoItem
    /\ Goes(p, "idle", "ack")
    /\ item' = [item EXCEPT ![p] = NoItem]
    /\ UNCHANGED <<sems, role, producer_cnt, local_cnt>>

Ack(p) ==
    /\ Goes(p, "ack", "check")
    /\ UNCHANGED <<sems, item, role, producer_cnt, local_cnt>>

Gone(p) ==
    /\ Goes(p, "ack", "none")
    /\ role' = [role EXCEPT ![p] = "none"]
    /\ UNCHANGED <<sems, item, producer_cnt, local_cnt>>

RingStep(p) ==
    /\ R!PutStep(p) \/ R!GetStep(p)
    /\ UNCHANGED <<role, producer_cnt, local_cnt>>

\* What a thread does without waiting for its client.
OwnStep(p) ==
    \/ Register(p) \/ Unregister(p) \/ RingStep(p) \/ Send(p)
    \/ ReadCount(p) \/ ConsumerLeaves(p) \/ ConsumerStays(p)

Next ==
    \E p \in Procs :
        \/ \E r \in {"producer", "consumer"} : Connect(p, r)
        \/ Produce(p) \/ Hangup(p) \/ Ack(p) \/ Gone(p) \/ OwnStep(p)

Spec == Init /\ [][Next]_vars

\* Threads that do not wait for their client run; their waits for the mutex
\* end, as it is held over a few adjacent statements.
FairSpec == Spec /\ \A p \in Procs : SF_vars(OwnStep(p))

-----------------------------------------------------------------------------
(* Properties. *)

TypeOK ==
    /\ mutex \in 0..1 /\ empty \in 0..Size /\ full \in 0..Size
    /\ buffer \in [R!Slots -> Items \cup {NoItem}]
    /\ head \in R!Slots /\ tail \in R!Slots
    /\ pc \in [Procs -> R!Pcs \cup {"none", "register", "unregister", "check",
                                    "checked", "ack"}]
    /\ item \in [Procs -> Items \cup {NoItem}]
    /\ role \in [Procs -> {"none", "producer", "consumer"}]
    /\ producer_cnt \in 0..Cardinality(Procs)
    /\ local_cnt \in [Procs -> 0..Cardinality(Procs)]

Producers == {p \in Procs : role[p] = "producer" /\ pc[p] # "register"}

Leaves(p) == pc[p] = "checked" /\ pc'[p] = "none"

\* A consumer that leaves by its check leaves no item behind in the ring.
LeavesNothing == [][(\E p \in Procs : Leaves(p)) => R!Stored = 0]_vars

\* "nobody produces and the queue is empty": so it is when a consumer leaves.
LeavesWhenQuiet ==
    [][(\E p \in Procs : Leaves(p)) => Producers = {} /\ R!Stored = 0]_vars

AllQuiet == Producers = {} /\ empty = Size

\* A consumer that comes to its check when all is quiet, the last slot handed
\* back included, leaves unless a client comes.
EndsWhenQuiet ==
    \A p \in Procs :
        (pc[p] = "check" /\ AllQuiet) ~> (pc[p] = "none" \/ ~AllQuiet)

\* A consumer leaves when nobody produces any more and the ring is empty,
\* wherever it stood when that became so.
ConsumersReleased ==
    \A p \in Procs :
        <>[]AllQuiet => (role[p] = "consumer" ~> role[p] = "none" \/ pc[p] = "ack")
=============================================================================
