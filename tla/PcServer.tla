------------------------------ MODULE PcServer ------------------------------
(***************************************************************************)
(* The forking producer/consumer server DU/DU05_test/socket_srv.cpp in its *)
(* SHM mode: the ring of SemRing in shared memory, the limits on clients,  *)
(* the pause gate of the consumers, their timeout, and what is left behind *)
(* in the kernel when Ctrl-C ends the whole process group.                 *)
(*                                                                         *)
(* A process is a child of the server with one connected client.  Left     *)
(* out: the statistics total_produced and total_consumed, item_num (the    *)
(* ghost unread stands for what it counts), the MQ mode, and the server    *)
(* after quit, whose children go on with the unlinked objects.             *)
(***************************************************************************)
EXTENDS Integers, FiniteSets

CONSTANTS
    Procs, Items, NoItem, Size,  \* as in SemRing
    MaxProducers,  \* MAX_PRODUCERS
    MaxConsumers,  \* MAX_CONSUMERS
    Abrupt,        \* children whose client may reset its connection
    Careful,       \* the operator enters "-" and "+" only in turn
    MaxPause,      \* bound: posts of pause_sem not waited for
    MaxCrashes     \* bound: how often Ctrl-C is pressed

ASSUME PcServerAssumption ==
    /\ IsFiniteSet(Procs)
    /\ NoItem \notin Items
    /\ Size \in Nat \ {0}
    /\ MaxProducers \in Nat \ {0}
    /\ MaxConsumers \in Nat \ {0}
    /\ Abrupt \subseteq Procs
    /\ Careful \in BOOLEAN
    /\ MaxPause \in Nat \ {0}
    /\ MaxCrashes \in Nat

VARIABLES
    mutex, empty, full, buffer, head, tail,  \* shared, as in SemRing
    pc, item,                                \* as in SemRing
    pause,      \* value of pause_sem
    clients,    \* producer_clients and consumer_clients, by role
    role,       \* what the client of a child has asked for
    server,     \* where the server is in its loop
    paused,     \* the last thing the server has logged is "Consumers paused."
    unread,     \* ghost: slots stored and not taken, whatever the semaphores
    crashes

ringVars == <<mutex, empty, full, buffer, head, tail, pc, item>>
vars == <<ringVars, pause, clients, role, server, paused, unread, crashes>>

R == INSTANCE SemRing WITH Impatient <- Procs

Roles == {"producer", "consumer"}

Limit(r) == IF r = "producer" THEN MaxProducers ELSE MaxConsumers

Init ==
    /\ R!RingInit
    /\ pc = [p \in Procs |-> "none"]
    /\ item = [p \in Procs |-> NoItem]
    /\ pause = 1
    /\ clients = [r \in Roles |-> 0]
    /\ role = [p \in Procs |-> "none"]
    /\ server = "poll"
    /\ paused = FALSE
    /\ unread = {}
    /\ crashes = 0

Goes(p, from, to) == pc[p] = from /\ pc' = [pc EXCEPT ![p] = to]

sems == <<empty, full>>
memory == <<buffer, head, tail, unread>>
parent == <<server, paused, crashes>>

-----------------------------------------------------------------------------
(* handle_client(): admission. *)

\* accept() and fork().
Fork(p) ==
    /\ server = "poll"
    /\ Goes(p, "none", "task")
    /\ UNCHANGED <<mutex, sems, memory, item, pause, clients, role, parent>>

\* The answer to "Task?".  An unknown task skips the loops and goes on with
\* the statements that end every client.
Task(p, r) ==
    /\ Goes(p, "task", IF r = "unknown" THEN "leaveLock" ELSE "admitLock")
    /\ role' = [role EXCEPT ![p] = r]
    /\ UNCHANGED <<mutex, sems, memory, item, pause, clients, parent>>

\* read() fails: the child exits.
NoTask(p) ==
    /\ Goes(p, "task", "none")
    /\ UNCHANGED <<mutex, sems, memory, item, pause, clients, role, parent>>

Lock(p, from, to) ==
    /\ Goes(p, from, to)
    /\ mutex > 0 /\ mutex' = mutex - 1
    /\ UNCHANGED <<sems, memory, item, pause, clients, role, parent>>

\* Mutant: the limit is tested without the mutex.
LockForgotten(p) ==
    /\ Goes(p, "admitLock", "admit")
    /\ UNCHANGED <<mutex, sems, memory, item, pause, clients, role, parent>>

AdmitLock(p) == Lock(p, "admitLock", "admit")

\* Mutant: one client too many is admitted.
AdmitOneMore(p) ==
    /\ Goes(p, "admit", "admitUnlock")
    /\ clients[role[p]] <= Limit(role[p])
    /\ clients' = [clients EXCEPT ![role[p]] = @ + 1]
    /\ UNCHANGED <<mutex, sems, memory, item, pause, role, parent>>

Admit(p) ==
    /\ Goes(p, "admit", "admitUnlock")
    /\ clients[role[p]] < Limit(role[p])
    /\ clients' = [clients EXCEPT ![role[p]] = @ + 1]
    /\ UNCHANGED <<mutex, sems, memory, item, pause, role, parent>>

\* Mutant: the mutex is not posted on the way out.
RefuseLocked(p) ==
    /\ Goes(p, "admit", "none")
    /\ clients[role[p]] >= Limit(role[p])
    /\ role' = [role EXCEPT ![p] = "none"]
    /\ UNCHANGED <<mutex, sems, memory, item, pause, clients, parent>>

\* "Too many producers", "Too many consumers": the child exits.
Refuse(p) ==
    /\ Goes(p, "admit", "none")
    /\ clients[role[p]] >= Limit(role[p])
    /\ mutex' = mutex + 1
    /\ role' = [role EXCEPT ![p] = "none"]
    /\ UNCHANGED <<sems, memory, item, pause, clients, parent>>

AdmitUnlock(p) ==
    /\ Goes(p, "admitUnlock", "idle")
    /\ mutex' = mutex + 1
    /\ UNCHANGED <<sems, memory, item, pause, clients, role, parent>>

-----------------------------------------------------------------------------
(* run_producer_client() and run_consumer_client(). *)

\* A line of the client, and the call of producer() it causes.
Produce(p) ==
    /\ role[p] = "producer"
    /\ \E i \in Items : R!CallPut(p, i)
    /\ UNCHANGED <<pause, clients, role, unread, parent>>

\* The statements of producer() and consumer() that are those of SemRing.
RingStep(p) ==
    /\ \/ R!PutAdvance(p) /\ unread' = unread \cup {tail}
       \/ R!GetAdvance(p) /\ unread' = unread \ {head}
       \/ /\ unread' = unread
          /\ \/ R!WaitEmpty(p) \/ R!PutLock(p) \/ R!Store(p)
             \/ R!PutUnlock(p) \/ R!PostFull(p)
             \/ R!WaitFull(p) \/ R!GetLock(p) \/ R!Load(p)
             \/ R!GetUnlock(p) \/ R!PostEmpty(p)
    /\ UNCHANGED <<pause, clients, role, parent>>

\* The gate: sem_wait() and sem_post() on pause_sem.
GateWait(p) ==
    /\ role[p] = "consumer" /\ item[p] = NoItem
    /\ Goes(p, "idle", "gate")
    /\ pause > 0 /\ pause' = pause - 1
    /\ UNCHANGED <<mutex, sems, memory, item, clients, role, parent>>

GatePost(p) ==
    /\ Goes(p, "gate", "cFull")
    /\ pause' = pause + 1
    /\ UNCHANGED <<mutex, sems, memory, item, clients, role, parent>>

\* Mutant: a consumer that gave up posts full for the next one.
TimeoutPosts(p) ==
    /\ Goes(p, "cFull", "leaveLock")
    /\ full' = full + 1
    /\ UNCHANGED <<mutex, empty, memory, item, pause, clients, role, parent>>

\* sem_timedwait( full ) gives up, perhaps just when an item has come.
Timeout(p) ==
    /\ Goes(p, "cFull", "leaveLock")
    /\ UNCHANGED <<mutex, sems, memory, item, pause, clients, role, parent>>

\* The item is sent, and the client may acknowledge it.
Send(p) ==
    /\ role[p] = "consumer" /\ item[p] # NoItem
    /\ Goes(p, "idle", "ack")
    /\ item' = [item EXCEPT ![p] = NoItem]
    /\ UNCHANGED <<mutex, sems, memory, pause, clients, role, parent>>

Ack(p) ==
    /\ Goes(p, "ack", "idle")
    /\ UNCHANGED <<mutex, sems, memory, item, pause, clients, role, parent>>

\* read() returns 0 or fails in one of the two loops.
Disconnect(p) ==
    /\ \/ role[p] = "producer" /\ Goes(p, "idle", "leaveLock")
       \/ Goes(p, "ack", "leaveLock")
    /\ UNCHANGED <<mutex, sems, memory, item, pause, clients, role, parent>>

\* write() to a connection that the client has reset: "Ok" after producer(),
\* an item or "Timeout" after consumer().  SIGPIPE ends the child there.
BrokenPipe(p) ==
    /\ p \in Abrupt
    /\ \/ Goes(p, "pPost", "none") /\ full' = full + 1
       \/ Goes(p, "idle", "none") /\ item[p] # NoItem /\ full' = full
       \/ Goes(p, "cFull", "none") /\ full' = full
    /\ item' = [item EXCEPT ![p] = NoItem]
    /\ role' = [role EXCEPT ![p] = "none"]
    /\ UNCHANGED <<mutex, empty, memory, pause, clients, parent>>

-----------------------------------------------------------------------------
(* handle_client(): the end of a client. *)

LeaveLock(p) == Lock(p, "leaveLock", "leave")

\* Mutant: a client that is not admitted any more keeps its place.
LeaveKept(p) ==
    /\ Goes(p, "leave", "leaveUnlock")
    /\ UNCHANGED <<mutex, sems, memory, item, pause, clients, role, parent>>

Leave(p) ==
    /\ Goes(p, "leave", "leaveUnlock")
    /\ clients' = [r \in Roles |->
            IF r = role[p] /\ clients[r] > 0 THEN clients[r] - 1 ELSE clients[r]]
    /\ UNCHANGED <<mutex, sems, memory, item, pause, role, parent>>

LeaveUnlock(p) ==
    /\ Goes(p, "leaveUnlock", "none")
    /\ mutex' = mutex + 1
    /\ role' = [role EXCEPT ![p] = "none"]
    /\ UNCHANGED <<sems, memory, item, pause, clients, parent>>

-----------------------------------------------------------------------------
(* main(): the commands of the operator. *)

children == <<ringVars, clients, role, unread>>

\* "-": the server itself waits on pause_sem.
PauseRead ==
    /\ server = "poll" /\ (Careful => ~paused)
    /\ server' = "pausing"
    /\ UNCHANGED <<children, pause, paused, crashes>>

\* Mutant: sem_trywait(), whose failure is not noticed.
PauseTried ==
    /\ server = "pausing" /\ server' = "poll"
    /\ pause' = IF pause > 0 THEN pause - 1 ELSE pause
    /\ paused' = TRUE
    /\ UNCHANGED <<children, crashes>>

\* Mutant: the command waits until the last consumer has left.
PauseWaitsForLast ==
    /\ clients["consumer"] = 0
    /\ server = "pausing" /\ server' = "poll"
    /\ pause > 0 /\ pause' = pause - 1
    /\ paused' = TRUE
    /\ UNCHANGED <<children, crashes>>

PauseDone ==
    /\ server = "pausing" /\ server' = "poll"
    /\ pause > 0 /\ pause' = pause - 1
    /\ paused' = TRUE
    /\ UNCHANGED <<children, crashes>>

\* "+"
Resume ==
    /\ server = "poll" /\ (Careful => paused)
    /\ pause + Cardinality({p \in Procs : pc[p] = "gate"}) < MaxPause
    /\ pause' = pause + 1
    /\ paused' = FALSE
    /\ UNCHANGED <<children, server, crashes>>

\* Ctrl-C ends the server and every child where they are.  The semaphores
\* and the shared memory stay.
Interrupt ==
    /\ server # "down" /\ crashes < MaxCrashes
    /\ server' = "down"
    /\ crashes' = crashes + 1
    /\ paused' = FALSE
    /\ pc' = [p \in Procs |-> "none"]
    /\ role' = [p \in Procs |-> "none"]
    /\ item' = [p \in Procs |-> NoItem]
    /\ UNCHANGED <<mutex, sems, memory, pause, clients>>

\* Mutant: the semaphores are created anew, the shared memory is kept.
RestartResets ==
    /\ server = "down" /\ server' = "poll"
    /\ mutex' = 1 /\ empty' = Size /\ full' = 0
    /\ pause' = 1
    /\ UNCHANGED <<memory, pc, item, clients, role, paused, crashes>>

\* init_ipc() finds the objects and takes them as they are.
Restart ==
    /\ server = "down" /\ server' = "poll"
    /\ UNCHANGED <<children, pause, paused, crashes>>

\* The server is run with -r, and the next start creates the objects.
Clean ==
    /\ server = "down" /\ server' = "poll"
    /\ mutex' = 1 /\ empty' = Size /\ full' = 0
    /\ buffer' = [s \in R!Slots |-> NoItem]
    /\ head' = 0 /\ tail' = 0 /\ unread' = {}
    /\ pause' = 1
    /\ clients' = [r \in Roles |-> 0]
    /\ UNCHANGED <<pc, item, role, paused, crashes>>

-----------------------------------------------------------------------------

ChildStep(p) ==
    \/ \E r \in Roles \cup {"unknown"} : Task(p, r)
    \/ NoTask(p) \/ AdmitLock(p) \/ Admit(p) \/ Refuse(p) \/ AdmitUnlock(p)
    \/ Produce(p) \/ RingStep(p) \/ GateWait(p) \/ GatePost(p) \/ Timeout(p)
    \/ Send(p) \/ Ack(p) \/ Disconnect(p) \/ BrokenPipe(p)
    \/ LeaveLock(p) \/ Leave(p) \/ LeaveUnlock(p)

Next ==
    \/ \E p \in Procs : Fork(p) \/ ChildStep(p)
    \/ PauseRead \/ PauseDone \/ Resume \/ Interrupt \/ Restart \/ Clean

Spec == Init /\ [][Next]_vars

\* A process that does not wait for its client keeps running, and timeouts
\* expire.  Strong fairness stands for the semaphores: mutex and pause_sem
\* are held over a few adjacent statements, and every post wakes a waiter.
Running(p) ==
    /\ pc[p] \notin {"none", "task", "ack"}
    /\ ~(pc[p] = "idle" /\ role[p] = "producer")

FairSpec ==
    /\ Spec
    /\ \A p \in Procs : SF_vars(Running(p) /\ ChildStep(p))
    /\ SF_vars(PauseDone)

-----------------------------------------------------------------------------
(* Properties. *)

Pcs == R!Pcs \cup {"none", "task", "admitLock", "admit", "admitUnlock", "gate",
                   "ack", "leaveLock", "leave", "leaveUnlock"}

TypeOK ==
    /\ mutex \in 0..1 /\ empty \in 0..Size /\ full \in 0..Size
    /\ buffer \in [R!Slots -> Items \cup {NoItem}]
    /\ head \in R!Slots /\ tail \in R!Slots /\ unread \subseteq R!Slots
    /\ pc \in [Procs -> Pcs]
    /\ item \in [Procs -> Items \cup {NoItem}]
    /\ pause \in 0..MaxPause
    /\ clients \in [Roles -> Nat]
    /\ role \in [Procs -> Roles \cup {"unknown", "none"}]
    /\ server \in {"poll", "pausing", "down"}
    /\ paused \in BOOLEAN
    /\ crashes \in 0..MaxCrashes

HoldsMutex(p) ==
    pc[p] \in R!Critical \cup {"admit", "admitUnlock", "leave", "leaveUnlock"}

\* What runs under the mutex, of the ring or of the admission of clients,
\* runs in one process at a time.
Exclusive == \A p, q \in Procs : HoldsMutex(p) /\ HoldsMutex(q) => p = q

\* Children that are counted as clients of a role.
Admitted(r) ==
    {p \in Procs : role[p] = r
        /\ pc[p] \notin {"none", "admitLock", "admit", "leaveUnlock"}}

\* No more clients of a role are served at once than its limit, whatever an
\* interrupted server has left in the counters.
LimitsHold == \A r \in Roles : Cardinality(Admitted(r)) <= Limit(r)

\* As long as no child is killed, nobody's place is lost or given away twice:
\* the counters count the clients that are being served.
CountsClients ==
    (crashes = 0) => \A r \in Roles : clients[r] = Cardinality(Admitted(r))

\* An item that no consumer has got is not overwritten, even by a server
\* that attached to the ring of an interrupted one.
KeepsUnread == \A p \in Procs : pc[p] = "pStore" => tail \notin unread

\* And a consumer never takes a slot that holds no new item.
TakesUnread == \A p \in Procs : pc[p] = "cLoad" => head \in unread

\* With limits, gate and timeouts, the ring is still a bounded FIFO.
IsFifo == R!F!Spec

\* "Consumers paused.": no consumer is or gets inside the gate.
GateShut ==
    paused => pause = 0 /\ \A p \in Procs : pc[p] # "gate"

\* "Consumers paused.": no consumer takes an item until they are resumed.
PausedTakesNothing ==
    [][paused => \A p \in Procs : ~(pc[p] = "cFull" /\ pc'[p] = "cMutex")]_vars

\* A command of the operator is carried out, so that the next can be read.
CommandsDone == server = "pausing" ~> server # "pausing"

\* A consumer gets an item, or its timeout and then its place is free again:
\* nobody keeps the mutex, or waits for it, forever.
ConsumerAnswered ==
    \A p \in Procs :
        pc[p] = "cFull" ~> (pc[p] = "none" \/ (pc[p] = "idle" /\ item[p] # NoItem))

\* A client is refused only when as many as the limit are being served.
RefusedOnlyWhenFull ==
    \A p \in Procs :
        pc[p] = "admit" /\ clients[role[p]] >= Limit(role[p])
            => Cardinality(Admitted(role[p])) = Limit(role[p])
=============================================================================
