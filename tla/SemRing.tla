------------------------------ MODULE SemRing ------------------------------
(***************************************************************************)
(* producer() and consumer() of DU/DU05, DU/DU05_prep (named semaphores in *)
(* processes), DU/DU04, DU/DU04_1 and DU/DU04/sem.cpp (unnamed ones in     *)
(* threads): a ring of slots under the semaphores mutex, empty and full.   *)
(*                                                                         *)
(* Every statement that touches something shared is a step.  Left out:     *)
(* item_num, which only decorates what a consumer is sent, and the         *)
(* truncation of an item to the size of its slot.                          *)
(***************************************************************************)
EXTENDS Integers, FiniteSets

CONSTANTS
    Procs,    \* threads or processes, each in at most one call
    Items,
    NoItem,
    Size,     \* N, BUFFER_SIZE
    Impatient \* those whose consumer() waits with sem_timedwait()

ASSUME SemRingAssumption ==
    /\ IsFiniteSet(Procs)
    /\ NoItem \notin Items
    /\ Size \in Nat \ {0}
    /\ Impatient \subseteq Procs

Slots == 0..Size-1

\* The statement a process is at: of producer(), of consumer(), or neither.
PutPcs == {"pEmpty", "pMutex", "pStore", "pAdvance", "pUnlock", "pPost"}
GetPcs == {"cFull", "cMutex", "cLoad", "cAdvance", "cUnlock", "cPost"}
Pcs    == {"idle"} \cup PutPcs \cup GetPcs

VARIABLES
    mutex, empty, full,  \* values of the semaphores
    buffer, head, tail,  \* the ring
    pc,
    item                 \* the string a process puts, or has got

ring == <<mutex, empty, full, buffer, head, tail>>
ringVars == <<mutex, empty, full, buffer, head, tail, pc, item>>

\* init_queue(), and the zeroed memory of init_shm().
RingInit ==
    /\ mutex = 1 /\ empty = Size /\ full = 0
    /\ buffer = [s \in Slots |-> NoItem]
    /\ head = 0 /\ tail = 0

Init ==
    /\ RingInit
    /\ pc = [p \in Procs |-> "idle"]
    /\ item = [p \in Procs |-> NoItem]

Goes(p, from, to) == pc[p] = from /\ pc' = [pc EXCEPT ![p] = to]

-----------------------------------------------------------------------------
(* producer( item ) *)

CallPut(p, i) ==
    /\ Goes(p, "idle", "pEmpty")
    /\ item' = [item EXCEPT ![p] = i]
    /\ UNCHANGED ring

\* Mutant: producer() does not wait for a free slot.
WaitEmptyNever(p) ==
    /\ Goes(p, "pEmpty", "pMutex")
    /\ empty' = IF empty > 0 THEN empty - 1 ELSE 0
    /\ UNCHANGED <<mutex, full, buffer, head, tail, item>>

WaitEmpty(p) ==
    /\ Goes(p, "pEmpty", "pMutex")
    /\ empty > 0 /\ empty' = empty - 1
    /\ UNCHANGED <<mutex, full, buffer, head, tail, item>>

\* Mutant: producer() does not wait for the mutex.
PutLockNever(p) ==
    /\ Goes(p, "pMutex", "pStore")
    /\ mutex' = 0
    /\ UNCHANGED <<empty, full, buffer, head, tail, item>>

PutLock(p) ==
    /\ Goes(p, "pMutex", "pStore")
    /\ mutex > 0 /\ mutex' = mutex - 1
    /\ UNCHANGED <<empty, full, buffer, head, tail, item>>

Store(p) ==
    /\ Goes(p, "pStore", "pAdvance")
    /\ buffer' = [buffer EXCEPT ![tail] = item[p]]
    /\ UNCHANGED <<mutex, empty, full, head, tail, item>>

PutAdvance(p) ==
    /\ Goes(p, "pAdvance", "pUnlock")
    /\ tail' = (tail + 1) % Size
    /\ UNCHANGED <<mutex, empty, full, buffer, head, item>>

PutUnlock(p) ==
    /\ Goes(p, "pUnlock", "pPost")
    /\ mutex' = mutex + 1
    /\ UNCHANGED <<empty, full, buffer, head, tail, item>>

PostFull(p) ==
    /\ Goes(p, "pPost", "idle")
    /\ full' = full + 1
    /\ item' = [item EXCEPT ![p] = NoItem]
    /\ UNCHANGED <<mutex, empty, buffer, head, tail>>

-----------------------------------------------------------------------------
(* consumer( item ) *)

CallGet(p) ==
    /\ Goes(p, "idle", "cFull")
    /\ item' = [item EXCEPT ![p] = NoItem]
    /\ UNCHANGED ring

WaitFull(p) ==
    /\ Goes(p, "cFull", "cMutex")
    /\ full > 0 /\ full' = full - 1
    /\ UNCHANGED <<mutex, empty, buffer, head, tail, item>>

\* sem_timedwait() of DU/DU05_test gives up after 5 seconds.
GiveUp(p) ==
    /\ p \in Impatient
    /\ Goes(p, "cFull", "idle")
    /\ UNCHANGED ring /\ UNCHANGED item

GetLock(p) ==
    /\ Goes(p, "cMutex", "cLoad")
    /\ mutex > 0 /\ mutex' = mutex - 1
    /\ UNCHANGED <<empty, full, buffer, head, tail, item>>

Load(p) ==
    /\ Goes(p, "cLoad", "cAdvance")
    /\ item' = [item EXCEPT ![p] = buffer[head]]
    /\ UNCHANGED ring

\* Mutant: the index does not wrap around at the end of the ring.
GetAdvanceSticks(p) ==
    /\ Goes(p, "cAdvance", "cUnlock")
    /\ head' = IF head + 1 < Size THEN head + 1 ELSE head
    /\ UNCHANGED <<mutex, empty, full, buffer, tail, item>>

GetAdvance(p) ==
    /\ Goes(p, "cAdvance", "cUnlock")
    /\ head' = (head + 1) % Size
    /\ UNCHANGED <<mutex, empty, full, buffer, tail, item>>

\* Mutant: consumer() returns with the mutex.
GetUnlockNever(p) ==
    /\ Goes(p, "cUnlock", "cPost")
    /\ UNCHANGED ring /\ UNCHANGED item

GetUnlock(p) ==
    /\ Goes(p, "cUnlock", "cPost")
    /\ mutex' = mutex + 1
    /\ UNCHANGED <<empty, full, buffer, head, tail, item>>

\* Mutant: the slot is handed back twice.
PostEmptyTwice(p) ==
    /\ Goes(p, "cPost", "idle")
    /\ empty' = empty + 2
    /\ UNCHANGED <<mutex, full, buffer, head, tail, item>>

\* Mutant: the slot is not handed back.
PostEmptyNever(p) ==
    /\ Goes(p, "cPost", "idle")
    /\ UNCHANGED ring /\ UNCHANGED item

PostEmpty(p) ==
    /\ Goes(p, "cPost", "idle")
    /\ empty' = empty + 1
    /\ UNCHANGED <<mutex, full, buffer, head, tail, item>>

-----------------------------------------------------------------------------

\* The statements of a call, after it has been entered.
PutStep(p) ==
    \/ WaitEmpty(p) \/ PutLock(p) \/ Store(p)
    \/ PutAdvance(p) \/ PutUnlock(p) \/ PostFull(p)

GetStep(p) ==
    \/ WaitFull(p) \/ GiveUp(p) \/ GetLock(p) \/ Load(p)
    \/ GetAdvance(p) \/ GetUnlock(p) \/ PostEmpty(p)

Next ==
    \E p \in Procs :
        \/ \E i \in Items : CallPut(p, i)
        \/ CallGet(p) \/ PutStep(p) \/ GetStep(p)

Spec == Init /\ [][Next]_ringVars

\* A process in a call keeps running.  Nothing makes a client call again,
\* and sem_wait() owes nothing to one of several waiters.
FairSpec == Spec /\ \A p \in Procs : WF_ringVars(PutStep(p) \/ GetStep(p))

-----------------------------------------------------------------------------
(* Properties. *)

At(pcs) == {p \in Procs : pc[p] \in pcs}

Critical == {"pStore", "pAdvance", "pUnlock", "cLoad", "cAdvance", "cUnlock"}

TypeOK ==
    /\ mutex \in 0..1
    /\ empty \in 0..Size
    /\ full \in 0..Size
    /\ buffer \in [Slots -> Items \cup {NoItem}]
    /\ head \in Slots
    /\ tail \in Slots
    /\ pc \in [Procs -> Pcs]
    /\ item \in [Procs -> Items \cup {NoItem}]

\* The statements between sem_wait(mutex) and sem_post(mutex) run in one
\* process at a time.
Exclusive ==
    \A p, q \in Procs : pc[p] \in Critical /\ pc[q] \in Critical => p = q

\* Items in the ring: those counted by full, those whose producer() has
\* advanced tail and not posted yet, those whose consumer() has waited for
\* full and not advanced head yet.
Stored ==
    full + Cardinality(At({"pUnlock", "pPost"}))
         + Cardinality(At({"cMutex", "cLoad", "cAdvance"}))

\* Processes that are at a sem_wait() which blocks.
Waits(p) ==
    \/ pc[p] = "pEmpty" /\ empty = 0
    \/ pc[p] = "cFull" /\ full = 0
    \/ pc[p] \in {"pMutex", "cMutex"} /\ mutex = 0

\* The calls never block one another for good: when none of them can go on,
\* they are producer()s before a full ring or consumer()s before an empty
\* one, and nobody is left between the semaphore of the slots and the mutex.
NeverJammed ==
    (\A p \in Procs : pc[p] = "idle" \/ Waits(p)) =>
        \A p \in Procs : \/ pc[p] = "idle"
                         \/ pc[p] = "pEmpty" /\ Stored = Size
                         \/ pc[p] = "cFull" /\ Stored = 0

Contents == [k \in 1..Stored |-> buffer[(head + k - 1) % Size]]

\* producer() takes effect when it advances tail, consumer() when it
\* advances head.
Phase(l) ==
    CASE l \in {"pEmpty", "pMutex", "pStore", "pAdvance"} -> "put"
      [] l \in {"pUnlock", "pPost"} -> "stored"
      [] l \in {"cFull", "cMutex", "cLoad", "cAdvance"} -> "get"
      [] l \in {"cUnlock", "cPost"} -> "got"
      [] OTHER -> "idle"

\* Until then the string a consumer() has copied is not its own, and once
\* the call has returned it is the caller's.
Value(p) ==
    IF pc[p] = "cAdvance" \/ Phase(pc[p]) = "idle" THEN NoItem ELSE item[p]

F == INSTANCE BoundedFifo WITH
        Capacity <- Size,
        queue <- Contents,
        phase <- [p \in Procs |-> Phase(pc[p])],
        value <- [p \in Procs |-> Value(p)]

\* The three semaphores and the two indices are a bounded FIFO: every item
\* is got once, in order, and none is overwritten.
IsFifo == F!Spec

\* While there is room, some waiting producer() takes effect; while there is
\* an item, some waiting consumer() does; and then it returns.
FifoProgress == F!PutProgress /\ F!GetProgress /\ F!Returns
=============================================================================
