---------------------------- MODULE BoundedFifo ----------------------------
(***************************************************************************)
(* What the queues of the producer/consumer programs promise their         *)
(* callers: a FIFO of bounded capacity whose producer() and consumer()     *)
(* take effect at one instant between their call and their return.         *)
(***************************************************************************)
EXTENDS Integers, Sequences

CONSTANTS
    Procs,    \* threads or processes that call producer() and consumer()
    Items,    \* what is put into the queue
    NoItem,   \* the content of a caller's buffer that holds no item
    Capacity, \* slots of the queue
    Impatient \* callers whose consumer() may give up waiting

VARIABLES
    queue,  \* items put and not taken yet, the oldest first
    phase,  \* how far a caller is in its call
    value   \* the item a caller puts, or has got

fifoVars == <<queue, phase, value>>

Phases == {"idle", "put", "stored", "get", "got"}

Init ==
    /\ queue = << >>
    /\ phase = [p \in Procs |-> "idle"]
    /\ value = [p \in Procs |-> NoItem]

Call(p, ph, v) ==
    /\ phase[p] = "idle"
    /\ phase' = [phase EXCEPT ![p] = ph]
    /\ value' = [value EXCEPT ![p] = v]
    /\ UNCHANGED queue

CallPut(p) == \E i \in Items : Call(p, "put", i)
CallGet(p) == Call(p, "get", NoItem)

\* producer() takes effect.
Put(p) ==
    /\ phase[p] = "put" /\ Len(queue) < Capacity
    /\ queue' = Append(queue, value[p])
    /\ phase' = [phase EXCEPT ![p] = "stored"]
    /\ UNCHANGED value

\* consumer() takes effect.
Get(p) ==
    /\ phase[p] = "get" /\ queue # << >>
    /\ value' = [value EXCEPT ![p] = Head(queue)]
    /\ queue' = Tail(queue)
    /\ phase' = [phase EXCEPT ![p] = "got"]

Return(p) ==
    /\ phase[p] \in {"stored", "got"}
    /\ phase' = [phase EXCEPT ![p] = "idle"]
    /\ value' = [value EXCEPT ![p] = NoItem]
    /\ UNCHANGED queue

\* consumer() returns without an item.
GiveUp(p) ==
    /\ p \in Impatient /\ phase[p] = "get"
    /\ phase' = [phase EXCEPT ![p] = "idle"]
    /\ UNCHANGED <<queue, value>>

Next ==
    \E p \in Procs :
        \/ CallPut(p) \/ Put(p)
        \/ CallGet(p) \/ Get(p) \/ GiveUp(p)
        \/ Return(p)

Spec == Init /\ [][Next]_fifoVars

-----------------------------------------------------------------------------
(* Progress, without ENABLED: while a call can take effect, calls do.      *)
(* Nothing is promised to a single caller: a semaphore is not fair.        *)

CanPut == Len(queue) < Capacity /\ \E p \in Procs : phase[p] = "put"
CanGet == queue # << >> /\ \E p \in Procs : phase[p] = "get"

PutProgress ==
    []<>~CanPut \/ []<><<\E p \in Procs : Put(p)>>_fifoVars
GetProgress ==
    []<>~CanGet \/ []<><<\E p \in Procs : Get(p)>>_fifoVars

\* A call that took effect returns.
Returns ==
    \A p \in Procs : phase[p] \in {"stored", "got"} ~> phase[p] = "idle"
=============================================================================
