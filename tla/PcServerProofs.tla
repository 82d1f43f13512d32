---------------------------- MODULE PcServerProofs ----------------------------
(***************************************************************************)
(* Proofs about what runs on the ring of SemRing, for any number of        *)
(* clients and slots: PcServer, with its limits and interruptions, and at  *)
(* the end DrainServer and the programs of SemPipe.                        *)
(*                                                                         *)
(* What survives a crash has to be said with inequalities: a process that  *)
(* is killed takes its unit of a semaphore with it and leaves its client   *)
(* counted.  So the units still there are no more than the slots they      *)
(* stand for (UnitInv), and the clients that are served no more than those *)
(* counted (ClientInv).                                                    *)
(*                                                                         *)
(* In DrainServer the test a consumer leaves by, sem_getvalue() of         *)
(* g_sem_empty, misses no item.  A slot that is not counted by empty is    *)
(* counted by full or is with one thread inside producer_item() or         *)
(* consumer_item() (DrainTokens), so that all of them being counted by     *)
(* empty leaves nothing anywhere else.                                     *)
(*                                                                         *)
(* In SemPipe what has been put is printed, with the consumer, in the ring *)
(* or with the producer, in this order (Flow), until the consumer meets    *)
(* the last record and nothing more happens to the lines (Over).           *)
(***************************************************************************)
EXTENDS PcServer, FiniteSetTheorems, SequenceTheorems, TLAPS

VARIABLES producer_cnt, local_cnt  \* of DrainServer

Drain == INSTANCE DrainServer

CONSTANTS Programs, Lines, End, MaxLines     \* of SemPipe
VARIABLES program, entered, printed, ended   \* of SemPipe

Pipe == INSTANCE SemPipe

(* What SemRingProofs shows of counts and of the indices of a ring.        *)

Ring == INSTANCE SemRingProofs WITH Impatient <- Procs

Where(S, f, L) == {q \in S : f[q] \in L}

In(l, L) == IF l \in L THEN 1 ELSE 0

\* Both modules count with FiniteSets.
LEMMA SameCounts ==
    /\ \A S : Ring!IsFiniteSet(S) <=> IsFiniteSet(S)
    /\ \A S : Ring!Cardinality(S) = Cardinality(S)
    /\ \A S, f, L : Ring!Where(S, f, L) = Where(S, f, L)
    /\ \A l, L : Ring!In(l, L) = In(l, L)
    /\ Ring!IsFiniteSet(Procs) /\ NoItem \notin Items /\ Size \in Nat \ {0}
<1>1. \A S : Ring!IsFiniteSet(S) <=> IsFiniteSet(S)
    BY DEF Ring!IsFiniteSet, IsFiniteSet
<1>2. \A S : Ring!Cardinality(S) = Cardinality(S)
    BY DEF Ring!Cardinality, Cardinality
<1>3. \A S, f, L : Ring!Where(S, f, L) = Where(S, f, L)
    BY DEF Ring!Where, Where
<1>4. \A l, L : Ring!In(l, L) = In(l, L)
    BY DEF Ring!In, In
<1> QED
    BY <1>1, <1>2, <1>3, <1>4, PcServerAssumption DEF PcServerAssumption

\* The processes that are somewhere can be counted; one that is there counts,
\* and if the count is 1 it is alone; the count follows who comes and goes.
LEMMA WhereType ==
    ASSUME NEW S, IsFiniteSet(S), NEW f, NEW L
    PROVE  IsFiniteSet(Where(S, f, L)) /\ Cardinality(Where(S, f, L)) \in Nat
BY FS_Subset, FS_CardinalityType DEF Where

LEMMA WhereOne ==
    ASSUME NEW S, IsFiniteSet(S), NEW f, NEW L, NEW p \in S, f[p] \in L
    PROVE  /\ Cardinality(Where(S, f, L)) >= 1
           /\ Cardinality(Where(S, f, L)) = 1 => \A q \in S : f[q] \in L => q = p
<1>1. /\ Ring!IsFiniteSet(S)
      /\ Ring!IsFiniteSet(Procs) /\ NoItem \notin Items /\ Size \in Nat \ {0}
    BY SameCounts
<1>2. /\ Ring!Cardinality(Ring!Where(S, f, L)) >= 1
      /\ Ring!Cardinality(Ring!Where(S, f, L)) = 1 => \A q \in S : f[q] \in L => q = p
    BY <1>1, Ring!WhereOne
<1>3. Ring!Cardinality(Ring!Where(S, f, L)) = Cardinality(Where(S, f, L))
    BY SameCounts
<1> QED
    BY <1>2, <1>3

LEMMA WhereMoves ==
    ASSUME NEW S, IsFiniteSet(S), NEW f, f = [q \in S |-> f[q]], NEW p \in S, NEW to, NEW L
    PROVE  Cardinality(Where(S, [f EXCEPT ![p] = to], L))
             = Cardinality(Where(S, f, L)) + In(to, L) - In(f[p], L)
<1>1. /\ Ring!IsFiniteSet(S)
      /\ Ring!IsFiniteSet(Procs) /\ NoItem \notin Items /\ Size \in Nat \ {0}
    BY SameCounts
<1>2. Ring!Cardinality(Ring!Where(S, [f EXCEPT ![p] = to], L))
        = Ring!Cardinality(Ring!Where(S, f, L)) + Ring!In(to, L) - Ring!In(f[p], L)
    BY <1>1, Ring!WhereMoves
<1>3. ASSUME NEW g
      PROVE  Ring!Cardinality(Ring!Where(S, g, L)) = Cardinality(Where(S, g, L))
    BY SameCounts
<1>4. Ring!In(to, L) = In(to, L) /\ Ring!In(f[p], L) = In(f[p], L)
    BY SameCounts
<1> QED
    BY <1>2, <1>3, <1>4

\* tail after one more item, and head after one less.
LEMMA TailMoves ==
    ASSUME NEW N \in Nat \ {0}, NEW h \in 0..N-1, NEW k \in 0..N-1
    PROVE  (((h + k) % N) + 1) % N = (h + (k + 1)) % N
BY Ring!TailMoves

LEMMA HeadMoves ==
    ASSUME NEW N \in Nat \ {0}, NEW h \in 0..N-1, NEW k \in 0..N-1
    PROVE  (((h + 1) % N) + k) % N = (h + (k + 1)) % N
BY Ring!HeadMoves

\* Different distances from h lead to different slots.
LEMMA SlotsDiffer ==
    ASSUME NEW N \in Nat \ {0}, NEW h \in 0..N-1, NEW j \in 0..N-1, NEW k \in 0..N-1, j # k
    PROVE  (h + j) % N # (h + k) % N
BY Ring!SlotsDiffer

\* The u slots from h on.
Segment(N, h, u) == {(h + k) % N : k \in 0..u-1}

LEMMA SegmentPut ==
    ASSUME NEW N \in Nat \ {0}, NEW h \in 0..N-1, NEW u \in 0..N-1
    PROVE  /\ (h + u) % N \notin Segment(N, h, u)
           /\ Segment(N, h, u + 1) = Segment(N, h, u) \cup {(h + u) % N}
<1>1. \A k \in 0..u-1 : (h + k) % N # (h + u) % N
  <2> TAKE k \in 0..u-1
  <2>1. k \in 0..N-1 /\ k # u
    OBVIOUS
  <2> QED
    BY <2>1, SlotsDiffer
<1>2. (u + 1) - 1 = u /\ 0..u = (0..u-1) \cup {u}
    OBVIOUS
<1>3. Segment(N, h, u + 1) = {(h + k) % N : k \in (0..u-1) \cup {u}}
    BY <1>2 DEF Segment
<1>4. Segment(N, h, u + 1) = {(h + k) % N : k \in 0..u-1} \cup {(h + u) % N}
    BY <1>3
<1> QED
    BY <1>1, <1>4 DEF Segment

LEMMA SegmentGet ==
    ASSUME NEW N \in Nat \ {0}, NEW h \in 0..N-1, NEW u \in 1..N
    PROVE  /\ h \in Segment(N, h, u)
           /\ Segment(N, (h + 1) % N, u - 1) = Segment(N, h, u) \ {h}
<1>1. (h + 0) % N = h /\ 0 \in 0..u-1
    OBVIOUS
<1>2. \A k \in 0..u-2 : (((h + 1) % N) + k) % N = (h + (k + 1)) % N
  <2> TAKE k \in 0..u-2
  <2>1. k \in 0..N-1
    OBVIOUS
  <2> QED
    BY <2>1, HeadMoves
<1>3. \A k \in 1..u-1 : (h + k) % N # h
  <2> TAKE k \in 1..u-1
  <2>1. 0 \in 0..N-1 /\ k \in 0..N-1 /\ 0 # k
    OBVIOUS
  <2>2. (h + 0) % N # (h + k) % N
    BY <2>1, SlotsDiffer
  <2> QED
    BY <1>1, <2>2
<1>4. Segment(N, (h + 1) % N, u - 1) = {(h + k) % N : k \in 1..u-1}
  <2>1. \A k \in 1..u-1 : k - 1 \in 0..u-2 /\ (k - 1) + 1 = k
    OBVIOUS
  <2>2. \A k \in 0..u-2 : k + 1 \in 1..u-1
    OBVIOUS
  <2>3. Segment(N, (h + 1) % N, u - 1) = {(((h + 1) % N) + k) % N : k \in 0..u-2}
    BY DEF Segment
  <2>4. ASSUME NEW x
        PROVE  x \in Segment(N, (h + 1) % N, u - 1) <=> \E k \in 0..u-2 : x = (h + (k + 1)) % N
    BY <1>2, <2>3
  <2>5. ASSUME NEW x
        PROVE  (\E k \in 0..u-2 : x = (h + (k + 1)) % N)
                  <=> \E k \in 1..u-1 : x = (h + k) % N
    BY <2>1, <2>2
  <2> QED
    BY <2>4, <2>5
<1>5. 0..u-1 = {0} \cup (1..u-1)
    OBVIOUS
<1> QED
    BY <1>1, <1>3, <1>4, <1>5 DEF Segment

-----------------------------------------------------------------------------
(* PcServer. *)

\* The functions, and nobody runs while the server is down.
DownInv ==
    /\ pc = [p \in Procs |-> pc[p]] /\ role = [p \in Procs |-> role[p]]
    /\ server = "down" =>
        ~paused /\ \A p \in Procs : pc[p] = "none" /\ role[p] = "none"

LEMMA DownInit == Init => DownInv
BY DEF Init, DownInv

LEMMA DownStep == DownInv /\ [Next]_vars => DownInv'
<1> SUFFICES ASSUME DownInv, [Next]_vars PROVE DownInv'
    OBVIOUS
<1> USE DEF DownInv, Goes, R!Goes
<1>1. ASSUME NEW p \in Procs, Fork(p) PROVE DownInv'
    BY <1>1 DEF Fork, parent
<1>2. ASSUME NEW p \in Procs, ChildStep(p) PROVE DownInv'
  <2>1. pc[p] # "none" /\ UNCHANGED <<server, paused>>
    BY <1>2 DEF ChildStep, Task, NoTask, AdmitLock, Lock, Admit, Refuse, AdmitUnlock, Produce,
        R!CallPut, RingStep, GateWait, GatePost, Timeout, Send, Ack, Disconnect, BrokenPipe,
        LeaveLock, Leave, LeaveUnlock, parent, R!WaitEmpty, R!PutLock, R!Store, R!PutAdvance,
        R!PutUnlock, R!PostFull, R!WaitFull, R!GetLock, R!Load, R!GetAdvance, R!GetUnlock,
        R!PostEmpty
  <2>2. pc' = [q \in Procs |-> pc'[q]]
    BY <1>2 DEF ChildStep, Task, NoTask, AdmitLock, Lock, Admit, Refuse, AdmitUnlock, Produce,
        R!CallPut, RingStep, GateWait, GatePost, Timeout, Send, Ack, Disconnect, BrokenPipe,
        LeaveLock, Leave, LeaveUnlock, R!WaitEmpty, R!PutLock, R!Store, R!PutAdvance,
        R!PutUnlock, R!PostFull, R!WaitFull, R!GetLock, R!Load, R!GetAdvance, R!GetUnlock,
        R!PostEmpty
  <2>3. role' = [q \in Procs |-> role'[q]]
    BY <1>2 DEF ChildStep, Task, NoTask, AdmitLock, Lock, Admit, Refuse, AdmitUnlock, Produce,
        RingStep, GateWait, GatePost, Timeout, Send, Ack, Disconnect, BrokenPipe,
        LeaveLock, Leave, LeaveUnlock
  <2> QED
    BY <2>1, <2>2, <2>3
<1>3. ASSUME PauseRead \/ PauseDone \/ Resume PROVE DownInv'
    BY <1>3 DEF PauseRead, PauseDone, Resume, children, ringVars
<1>4. ASSUME Interrupt PROVE DownInv'
    BY <1>4 DEF Interrupt
<1>5. ASSUME Restart \/ Clean PROVE DownInv'
    BY <1>5 DEF Restart, Clean, children, ringVars
<1>6. CASE UNCHANGED vars
    BY <1>6 DEF vars, ringVars
<1> QED
    BY <1>1, <1>2, <1>3, <1>4, <1>5, <1>6 DEF Next

\* Nobody runs while the server is down.
THEOREM DownAlways == Spec => []DownInv
BY DownInit, DownStep, PTL DEF Spec

-----------------------------------------------------------------------------
(* The gate. *)

\* The unit of pause_sem is in its value, with one consumer inside the gate,
\* with the operator who has paused, or lost.
GateInv ==
    /\ pause \in {0, 1} /\ paused \in BOOLEAN
    /\ pause = 1 => ~paused /\ \A p \in Procs : pc[p] # "gate"
    /\ paused => \A p \in Procs : pc[p] # "gate"
    /\ \A p, q \in Procs : pc[p] = "gate" /\ pc[q] = "gate" => p = q

LEMMA GateInit == Init => GateInv
BY DEF Init, GateInv

LEMMA GateStep == Careful /\ DownInv /\ GateInv /\ [Next]_vars => GateInv'
<1> SUFFICES ASSUME Careful, DownInv, GateInv, [Next]_vars PROVE GateInv'
    OBVIOUS
<1> USE DEF DownInv, GateInv, Goes, R!Goes
<1>1. ASSUME NEW p \in Procs, GateWait(p) PROVE GateInv'
    BY <1>1 DEF GateWait, parent
<1>2. ASSUME NEW p \in Procs, GatePost(p) PROVE GateInv'
    BY <1>2 DEF GatePost, parent
<1>3. ASSUME NEW p \in Procs, Fork(p) \/ ChildStep(p), ~GateWait(p), ~GatePost(p)
      PROVE  GateInv'
  <2>1. UNCHANGED <<pause, paused>>
    BY <1>3 DEF Fork, ChildStep, Task, NoTask, AdmitLock, Lock, Admit, Refuse, AdmitUnlock,
        Produce, RingStep, Timeout, Send, Ack, Disconnect, BrokenPipe, LeaveLock, Leave,
        LeaveUnlock, parent
  <2>2. \A q \in Procs : pc'[q] = "gate" => pc[q] = "gate"
    BY <1>3 DEF Fork, ChildStep, Task, NoTask, AdmitLock, Lock, Admit, Refuse, AdmitUnlock,
        Produce, R!CallPut, RingStep, Timeout, Send, Ack, Disconnect, BrokenPipe, LeaveLock,
        Leave, LeaveUnlock, R!WaitEmpty, R!PutLock, R!Store, R!PutAdvance, R!PutUnlock,
        R!PostFull, R!WaitFull, R!GetLock, R!Load, R!GetAdvance, R!GetUnlock, R!PostEmpty
  <2> QED
    BY <2>1, <2>2
<1>4. ASSUME PauseRead PROVE GateInv'
    BY <1>4 DEF PauseRead, children, ringVars
<1>5. ASSUME PauseDone PROVE GateInv'
  <2>1. pause = 1 /\ pause' = 0 /\ pc' = pc /\ paused' = TRUE
    BY <1>5 DEF PauseDone, children, ringVars
  <2> QED
    BY <2>1
<1>7. ASSUME Resume PROVE GateInv'
  <2>1. paused /\ pause = 0
    BY <1>7 DEF Resume
  <2>2. pause' = 1 /\ pc' = pc /\ paused' = FALSE
    BY <1>7, <2>1 DEF Resume, children, ringVars
  <2> QED
    BY <2>1, <2>2
<1>8. ASSUME Interrupt \/ Restart \/ Clean PROVE GateInv'
  <2>1. \A p \in Procs : pc'[p] = "none"
    BY <1>8 DEF Interrupt, Restart, Clean, children, ringVars
  <2>2. pause' \in {0, 1}
    BY <1>8 DEF Interrupt, Restart, Clean
  <2>3. paused' = FALSE
    <3>1. CASE Interrupt
      BY <3>1 DEF Interrupt
    <3>2. CASE Restart \/ Clean
      <4>1. ~paused /\ paused' = paused
        BY <3>2 DEF Restart, Clean
      <4> QED
        BY <4>1
    <3> QED
      BY <1>8, <3>1, <3>2
  <2> QED
    BY <2>1, <2>2, <2>3
<1>6. CASE UNCHANGED vars
    BY <1>6 DEF vars, ringVars
<1> QED
    BY <1>1, <1>2, <1>3, <1>4, <1>5, <1>6, <1>7, <1>8 DEF Next

\* With an operator who enters "-" and "+" in turn, no consumer is inside the
\* gate while the consumers are paused: also after interruptions and with
\* children that are killed.
THEOREM GateShutAlways ==
    ASSUME Careful
    PROVE  Spec => []GateShut
<1>1. GateInv => GateShut
    BY DEF GateInv, GateShut
<1>2. DownInv /\ GateInv /\ [Next]_vars => GateInv'
    BY GateStep
<1> QED
    BY <1>1, <1>2, GateInit, DownAlways, PTL DEF Spec

-----------------------------------------------------------------------------
(* The mutex. *)

\* It is free, held by one process, or lost with one.
MutexInv ==
    /\ mutex \in {0, 1}
    /\ mutex = 1 => \A p \in Procs : ~HoldsMutex(p)
    /\ Exclusive

LEMMA MutexInit == Init => MutexInv
BY DEF Init, R!RingInit, MutexInv, Exclusive, HoldsMutex, R!Critical

LEMMA MutexStep == DownInv /\ MutexInv /\ [Next]_vars => MutexInv'
<1> SUFFICES ASSUME DownInv, MutexInv, [Next]_vars PROVE MutexInv'
    OBVIOUS
<1> USE DEF DownInv, MutexInv, Exclusive, HoldsMutex, Goes, R!Goes, R!Critical
<1>1. ASSUME NEW p \in Procs,
             AdmitLock(p) \/ LeaveLock(p) \/ R!PutLock(p) \/ R!GetLock(p)
      PROVE  MutexInv'
  <2>1. mutex = 1 /\ mutex' = 0
    BY <1>1 DEF AdmitLock, LeaveLock, Lock, R!PutLock, R!GetLock
  <2>2. \A q \in Procs : HoldsMutex(q)' => q = p
    BY <1>1, <2>1 DEF AdmitLock, LeaveLock, Lock, R!PutLock, R!GetLock
  <2> QED
    BY <2>1, <2>2
<1>2. ASSUME NEW p \in Procs,
             Refuse(p) \/ AdmitUnlock(p) \/ LeaveUnlock(p) \/ R!PutUnlock(p) \/ R!GetUnlock(p)
      PROVE  MutexInv'
  <2>1. HoldsMutex(p) /\ ~HoldsMutex(p)' /\ mutex' = mutex + 1
    BY <1>2 DEF Refuse, AdmitUnlock, LeaveUnlock, R!PutUnlock, R!GetUnlock
  <2>2. \A q \in Procs : q # p => ~HoldsMutex(q)'
    BY <1>2, <2>1 DEF Refuse, AdmitUnlock, LeaveUnlock, R!PutUnlock, R!GetUnlock
  <2> QED
    BY <2>1, <2>2
<1>3. ASSUME NEW p \in Procs,
             Admit(p) \/ Leave(p) \/ R!Store(p) \/ R!PutAdvance(p) \/ R!Load(p)
                      \/ R!GetAdvance(p)
      PROVE  MutexInv'
  <2>1. mutex' = mutex /\ HoldsMutex(p)
    BY <1>3 DEF Admit, Leave, R!Store, R!PutAdvance, R!Load, R!GetAdvance, R!ring
  <2>2. \A q \in Procs : HoldsMutex(q)' => HoldsMutex(q)
    BY <1>3 DEF Admit, Leave, R!Store, R!PutAdvance, R!Load, R!GetAdvance
  <2> QED
    BY <2>1, <2>2
<1>4. ASSUME NEW p \in Procs,
             \/ Fork(p) \/ (\E r \in Roles \cup {"unknown"} : Task(p, r)) \/ NoTask(p)
             \/ Produce(p) \/ GateWait(p) \/ GatePost(p) \/ Timeout(p) \/ Send(p)
             \/ Ack(p) \/ Disconnect(p) \/ BrokenPipe(p)
             \/ R!WaitEmpty(p) \/ R!PostFull(p) \/ R!WaitFull(p) \/ R!PostEmpty(p)
      PROVE  MutexInv'
  <2>1. mutex' = mutex
    BY <1>4 DEF Fork, Task, NoTask, Produce, R!CallPut, GateWait, GatePost, Timeout, Send, Ack,
        Disconnect, BrokenPipe, R!WaitEmpty, R!PostFull, R!WaitFull, R!PostEmpty, R!ring
  <2>2. \A q \in Procs : HoldsMutex(q)' => HoldsMutex(q)
    BY <1>4 DEF Fork, Task, NoTask, Produce, R!CallPut, GateWait, GatePost, Timeout, Send, Ack,
        Disconnect, BrokenPipe, R!WaitEmpty, R!PostFull, R!WaitFull, R!PostEmpty
  <2> QED
    BY <2>1, <2>2
<1>5. ASSUME PauseRead \/ PauseDone \/ Resume PROVE MutexInv'
    BY <1>5 DEF PauseRead, PauseDone, Resume, children, ringVars
<1>6. ASSUME Interrupt \/ Restart \/ Clean PROVE MutexInv'
    BY <1>6 DEF Interrupt, Restart, Clean, children, ringVars
<1>7. CASE UNCHANGED vars
    BY <1>7 DEF vars, ringVars
<1> QED
    BY <1>1, <1>2, <1>3, <1>4, <1>5, <1>6, <1>7 DEF Next, ChildStep, RingStep

\* What runs under the mutex runs in one process at a time: producer() and
\* consumer(), the admission of a client and its end.
THEOREM ExclusiveAlways == Spec => []Exclusive
<1>1. MutexInv => Exclusive
    BY DEF MutexInv
<1> QED
    BY <1>1, MutexInit, MutexStep, DownAlways, PTL DEF Spec

-----------------------------------------------------------------------------
(* The limits. *)

\* Clients that are served are counted, and no more than the limit are.
ClientInv ==
    /\ clients \in [Roles -> Nat]
    /\ \A r \in Roles : clients[r] <= Limit(r)
    /\ \A p \in Procs : pc[p] \in {"none", "task"} => role[p] = "none"
    /\ \A p \in Procs : pc[p] \in {"admitLock", "admit", "admitUnlock"} => role[p] \in Roles
    /\ \A r \in Roles : Cardinality(Admitted(r)) <= clients[r]

\* Those that are counted are served, unless a child was killed.
CountInv ==
    /\ crashes \in Nat
    /\ Abrupt = {} /\ crashes = 0
        => \A r \in Roles : clients[r] = Cardinality(Admitted(r))

LEMMA AdmittedType ==
    ASSUME NEW r
    PROVE  IsFiniteSet(Admitted(r)) /\ Cardinality(Admitted(r)) \in Nat
BY PcServerAssumption, FS_Subset, FS_CardinalityType DEF Admitted

LEMMA LimitType == \A r \in Roles : Limit(r) \in Nat \ {0}
BY PcServerAssumption DEF Limit

LEMMA ClientInit == Init => ClientInv /\ CountInv
<1> SUFFICES ASSUME Init PROVE ClientInv /\ CountInv
    OBVIOUS
<1>1. \A r \in Roles : Admitted(r) = {}
    BY DEF Init, Admitted
<1>2. \A r \in Roles : Cardinality(Admitted(r)) = 0
    BY <1>1, FS_EmptySet
<1>3. \A r \in Roles : clients[r] = 0 /\ clients[r] <= Limit(r)
    BY LimitType DEF Init
<1> QED
    BY <1>2, <1>3 DEF Init, ClientInv, CountInv, Roles

\* A client is admitted.
LEMMA AdmitStep ==
    ASSUME DownInv, ClientInv, CountInv, NEW p \in Procs, Admit(p)
    PROVE  ClientInv' /\ CountInv'
<1> USE DEF DownInv, ClientInv, CountInv, Goes
<1>1. /\ role[p] \in Roles /\ pc[p] = "admit" /\ pc' = [pc EXCEPT ![p] = "admitUnlock"]
      /\ role' = role /\ crashes' = crashes
      /\ clients' = [clients EXCEPT ![role[p]] = clients[role[p]] + 1]
      /\ clients[role[p]] < Limit(role[p])
    BY DEF Admit, parent
<1>2. Admitted(role[p])' = Admitted(role[p]) \cup {p} /\ p \notin Admitted(role[p])
    BY <1>1 DEF Admitted
<1>3. Cardinality(Admitted(role[p])') = Cardinality(Admitted(role[p])) + 1
    BY <1>2, AdmittedType, FS_AddElement
<1>4. \A r \in Roles : r # role[p] => Admitted(r)' = Admitted(r)
    BY <1>1 DEF Admitted
<1>5. \A r \in Roles :
        /\ Cardinality(Admitted(r)) \in Nat
        /\ r # role[p] => clients'[r] = clients[r] /\ Cardinality(Admitted(r)') = Cardinality(Admitted(r))
        /\ r = role[p] => /\ clients'[r] = clients[r] + 1
                          /\ Cardinality(Admitted(r)') = Cardinality(Admitted(r)) + 1
    BY <1>1, <1>3, <1>4, AdmittedType
<1>6. /\ clients' \in [Roles -> Nat]
      /\ \A r \in Roles : clients'[r] <= Limit(r)
    BY <1>1, LimitType
<1>7. /\ \A q \in Procs : pc'[q] \in {"none", "task"} => role'[q] = "none"
      /\ \A q \in Procs : pc'[q] \in {"admitLock", "admit", "admitUnlock"} => role'[q] \in Roles
    BY <1>1
<1>8. \A r \in Roles : Cardinality(Admitted(r)') <= clients'[r]
    BY <1>5
<1>9. CountInv'
    BY <1>1, <1>5
<1> QED
    BY <1>6, <1>7, <1>8, <1>9

\* A client leaves.
LEMMA LeaveStep ==
    ASSUME DownInv, ClientInv, CountInv, NEW p \in Procs, Leave(p)
    PROVE  ClientInv' /\ CountInv'
<1> USE DEF DownInv, ClientInv, CountInv, Goes
<1>1. /\ pc[p] = "leave" /\ pc' = [pc EXCEPT ![p] = "leaveUnlock"]
      /\ role' = role /\ crashes' = crashes
      /\ clients' = [r \in Roles |->
            IF r = role[p] /\ clients[r] > 0 THEN clients[r] - 1 ELSE clients[r]]
    BY DEF Leave, parent
<1>2. ASSUME NEW r \in Roles
      PROVE  /\ Cardinality(Admitted(r)) \in Nat
             /\ clients'[r] \in Nat /\ clients'[r] <= clients[r]
             /\ clients[r] - clients'[r] = Cardinality(Admitted(r)) - Cardinality(Admitted(r)')
             /\ Cardinality(Admitted(r)') \in Nat
  <2>0. IsFiniteSet(Admitted(r)) /\ Cardinality(Admitted(r)) \in Nat
    BY AdmittedType
  <2>1. CASE r = role[p]
    <3>1. Admitted(r)' = Admitted(r) \ {p} /\ p \in Admitted(r)
      BY <1>1, <2>1 DEF Admitted
    <3>2. Cardinality(Admitted(r)') = Cardinality(Admitted(r)) - 1
      BY <2>0, <3>1, FS_RemoveElement
    <3>3. Cardinality(Admitted(r)) > 0
      BY <2>0, <3>1, FS_EmptySet
    <3>4. clients[r] > 0 /\ clients'[r] = clients[r] - 1
      BY <1>1, <2>0, <2>1, <3>3
    <3> QED
      BY <2>0, <3>2, <3>3, <3>4
  <2>2. CASE r # role[p]
    <3>1. Admitted(r)' = Admitted(r)
      BY <1>1, <2>2 DEF Admitted
    <3>2. clients'[r] = clients[r]
      BY <1>1, <2>2
    <3> QED
      BY <2>0, <3>1, <3>2
  <2> QED
    BY <2>1, <2>2
<1>3. clients' \in [Roles -> Nat] /\ \A r \in Roles : clients'[r] <= Limit(r)
  <2>1. \A r \in Roles : clients'[r] <= clients[r] /\ clients[r] \in Nat /\ clients'[r] \in Nat
    BY <1>2
  <2> QED
    BY <1>1, <2>1, LimitType
<1>4. \A r \in Roles : Cardinality(Admitted(r)') <= clients'[r]
    BY <1>2
<1>5. CountInv'
    BY <1>1, <1>2
<1>6. /\ \A q \in Procs : pc'[q] \in {"none", "task"} => role'[q] = "none"
      /\ \A q \in Procs : pc'[q] \in {"admitLock", "admit", "admitUnlock"} => role'[q] \in Roles
    BY <1>1
<1> QED
    BY <1>3, <1>4, <1>5, <1>6

\* A child is killed, and its client stays counted.
LEMMA BrokenPipeStep ==
    ASSUME DownInv, ClientInv, CountInv, NEW p \in Procs, BrokenPipe(p)
    PROVE  ClientInv' /\ CountInv'
<1> USE DEF DownInv, ClientInv, CountInv, Goes
<1>1. /\ pc' = [pc EXCEPT ![p] = "none"] /\ role' = [role EXCEPT ![p] = "none"]
      /\ clients' = clients /\ crashes' = crashes /\ Abrupt # {}
    BY DEF BrokenPipe, parent
<1>2. \A r \in Roles : Admitted(r)' = Admitted(r) \ {p}
    BY <1>1 DEF Admitted, Roles
<1>3. ASSUME NEW r \in Roles PROVE Cardinality(Admitted(r)') <= clients'[r]
  <2>1. IsFiniteSet(Admitted(r)) /\ Cardinality(Admitted(r)) \in Nat
    BY AdmittedType
  <2>2. Cardinality(Admitted(r) \ {p})
          = IF p \in Admitted(r) THEN Cardinality(Admitted(r)) - 1 ELSE Cardinality(Admitted(r))
    BY <2>1, FS_RemoveElement
  <2>3. Cardinality(Admitted(r) \ {p}) <= Cardinality(Admitted(r))
    BY <2>1, <2>2
  <2>4. Cardinality(Admitted(r) \ {p}) \in Nat
    BY <2>1, FS_RemoveElement, FS_CardinalityType
  <2> QED
    BY <1>1, <1>2, <2>1, <2>3, <2>4
<1> QED
    BY <1>1, <1>3

\* All other steps of a child, and those of the server.
LEMMA SameAdmitted ==
    ASSUME DownInv, ClientInv, CountInv,
           \A r \in Roles : Admitted(r)' = Admitted(r),
           UNCHANGED <<clients, crashes>>,
           \A q \in Procs : pc'[q] \in {"none", "task"} => role'[q] = "none",
           \A q \in Procs : pc'[q] \in {"admitLock", "admit", "admitUnlock"} => role'[q] \in Roles
    PROVE  ClientInv' /\ CountInv'
BY DEF ClientInv, CountInv

LEMMA ClientStep ==
    DownInv /\ ClientInv /\ CountInv /\ [Next]_vars => ClientInv' /\ CountInv'
<1> SUFFICES ASSUME DownInv, ClientInv, CountInv, [Next]_vars PROVE ClientInv' /\ CountInv'
    OBVIOUS
<1> USE DEF Goes, R!Goes
<1>1. ASSUME NEW p \in Procs, Fork(p) \/ (\E r \in Roles \cup {"unknown"} : Task(p, r))
                                \/ NoTask(p) \/ AdmitLock(p) \/ Refuse(p)
      PROVE  ClientInv' /\ CountInv'
  <2>1. UNCHANGED <<clients, crashes>>
    BY <1>1 DEF Fork, Task, NoTask, AdmitLock, Lock, Refuse, parent
  <2>2. \A r \in Roles : Admitted(r)' = Admitted(r)
    BY <1>1 DEF Fork, Task, NoTask, AdmitLock, Lock, Refuse, Admitted, DownInv, ClientInv, Roles
  <2>3. /\ \A q \in Procs : pc'[q] \in {"none", "task"} => role'[q] = "none"
        /\ \A q \in Procs : pc'[q] \in {"admitLock", "admit", "admitUnlock"} => role'[q] \in Roles
    BY <1>1 DEF Fork, Task, NoTask, AdmitLock, Lock, Refuse, DownInv, ClientInv, Roles
  <2> QED
    BY <2>1, <2>2, <2>3, SameAdmitted
<1>2. ASSUME NEW p \in Procs,
             \/ AdmitUnlock(p) \/ Produce(p) \/ RingStep(p) \/ GateWait(p) \/ GatePost(p)
             \/ Timeout(p) \/ Send(p) \/ Ack(p) \/ Disconnect(p) \/ LeaveLock(p)
      PROVE  ClientInv' /\ CountInv'
  <2>1. UNCHANGED <<clients, crashes, role>>
    BY <1>2 DEF AdmitUnlock, Produce, RingStep, GateWait, GatePost, Timeout, Send, Ack,
        Disconnect, LeaveLock, Lock, parent
  <2>2. PICK l : /\ pc' = [pc EXCEPT ![p] = l]
                 /\ l \notin {"none", "task", "admitLock", "admit", "admitUnlock", "leaveUnlock"}
                 /\ pc[p] \notin {"none", "task", "admitLock", "admit", "leaveUnlock"}
    BY <1>2 DEF AdmitUnlock, Produce, R!CallPut, RingStep, GateWait, GatePost, Timeout, Send, Ack,
        Disconnect, LeaveLock, Lock, R!WaitEmpty, R!PutLock, R!Store, R!PutAdvance,
        R!PutUnlock, R!PostFull, R!WaitFull, R!GetLock, R!Load, R!GetAdvance, R!GetUnlock,
        R!PostEmpty
  <2>3. \A r \in Roles : Admitted(r)' = Admitted(r)
    BY <2>1, <2>2 DEF Admitted, DownInv
  <2>4. /\ \A q \in Procs : pc'[q] \in {"none", "task"} => role'[q] = "none"
        /\ \A q \in Procs : pc'[q] \in {"admitLock", "admit", "admitUnlock"} => role'[q] \in Roles
    BY <2>1, <2>2 DEF DownInv, ClientInv
  <2> QED
    BY <2>1, <2>3, <2>4, SameAdmitted
<1>3. ASSUME NEW p \in Procs, LeaveUnlock(p) PROVE ClientInv' /\ CountInv'
  <2>1. UNCHANGED <<clients, crashes>>
    BY <1>3 DEF LeaveUnlock, parent
  <2>2. \A r \in Roles : Admitted(r)' = Admitted(r)
    BY <1>3 DEF LeaveUnlock, Admitted, DownInv, Roles
  <2>3. /\ \A q \in Procs : pc'[q] \in {"none", "task"} => role'[q] = "none"
        /\ \A q \in Procs : pc'[q] \in {"admitLock", "admit", "admitUnlock"} => role'[q] \in Roles
    BY <1>3 DEF LeaveUnlock, DownInv, ClientInv
  <2> QED
    BY <2>1, <2>2, <2>3, SameAdmitted
<1>4. ASSUME PauseRead \/ PauseDone \/ Resume \/ Restart \/ UNCHANGED vars
      PROVE  ClientInv' /\ CountInv'
  <2>1. UNCHANGED <<clients, crashes, pc, role>>
    BY <1>4 DEF PauseRead, PauseDone, Resume, Restart, children, vars, ringVars
  <2> QED
    BY <2>1, SameAdmitted DEF Admitted, ClientInv
<1>5. ASSUME Interrupt \/ Clean PROVE ClientInv' /\ CountInv'
  <2>1. \A p \in Procs : pc'[p] = "none" /\ role'[p] = "none"
    BY <1>5 DEF Interrupt, Clean, DownInv
  <2>2. \A r \in Roles : Admitted(r)' = {}
    BY <2>1 DEF Admitted
  <2>3. \A r \in Roles : Cardinality(Admitted(r)') = 0
    BY <2>2, FS_EmptySet
  <2>4. CASE Interrupt
    <3>1. crashes' = crashes + 1 /\ clients' = clients
      BY <2>4 DEF Interrupt
    <3>2. \A r \in Roles : Cardinality(Admitted(r)') <= clients'[r]
      BY <2>3, <3>1 DEF ClientInv
    <3> QED
      BY <2>1, <3>1, <3>2 DEF ClientInv, CountInv
  <2>5. CASE Clean
    <3>1. crashes' = crashes /\ clients' = [r \in Roles |-> 0]
      BY <2>5 DEF Clean
    <3>2. \A r \in Roles : clients'[r] = 0 /\ clients'[r] <= Limit(r)
      BY <3>1, LimitType
    <3> QED
      BY <2>1, <2>3, <3>1, <3>2 DEF ClientInv, CountInv
  <2> QED
    BY <1>5, <2>4, <2>5
<1> QED
    BY <1>1, <1>2, <1>3, <1>4, <1>5, AdmitStep, LeaveStep, BrokenPipeStep DEF Next, ChildStep

\* No more clients of a role are served than its limit, whatever interrupted
\* servers and killed children have left in the counters.
THEOREM LimitsHoldAlways == Spec => []LimitsHold
<1>1. ClientInv => LimitsHold
  <2> SUFFICES ASSUME ClientInv, NEW r \in Roles PROVE Cardinality(Admitted(r)) <= Limit(r)
      BY DEF LimitsHold
  <2> QED
      BY LimitType, AdmittedType DEF ClientInv
<1> QED
    BY <1>1, ClientInit, ClientStep, DownAlways, PTL DEF Spec

\* As long as no child is killed the counters are exact.
THEOREM CountsClientsAlways ==
    ASSUME Abrupt = {}
    PROVE  Spec => []CountsClients
<1>1. CountInv => CountsClients
    BY DEF CountInv, CountsClients
<1> QED
    BY <1>1, ClientInit, ClientStep, DownAlways, PTL DEF Spec

-----------------------------------------------------------------------------
(* The ring after crashes. *)

\* Who has a unit of empty, and who one of full.
PutHeld == {"pMutex", "pStore", "pAdvance"}
PutDone == {"pUnlock", "pPost"}
GetHeld == {"cMutex", "cLoad", "cAdvance"}
GetDone == {"cUnlock", "cPost"}

Count(L) == Cardinality(Where(Procs, pc, L))

\* The unread slots are u from head on.  The units of empty that are left
\* stand for other slots, those of full for these, each for one.
Units(u) ==
    /\ unread = Segment(Size, head, u)
    /\ tail = (head + u) % Size
    /\ empty + Count(PutHeld) + Count(GetDone) + u <= Size
    /\ full + Count(PutDone) + Count(GetHeld) <= u

UnitInv ==
    /\ head \in 0..Size-1 /\ empty \in Nat /\ full \in Nat
    /\ \E u \in 0..Size : Units(u)

\* A process that goes from one statement to another, at most, is in other
\* groups then.
LEMMA CountsMove ==
    ASSUME DownInv, NEW p \in Procs, NEW to, pc' = [pc EXCEPT ![p] = to]
    PROVE  /\ Count(PutHeld)' = Count(PutHeld) + In(to, PutHeld) - In(pc[p], PutHeld)
           /\ Count(PutDone)' = Count(PutDone) + In(to, PutDone) - In(pc[p], PutDone)
           /\ Count(GetHeld)' = Count(GetHeld) + In(to, GetHeld) - In(pc[p], GetHeld)
           /\ Count(GetDone)' = Count(GetDone) + In(to, GetDone) - In(pc[p], GetDone)
           /\ Count(PutHeld) \in Nat /\ Count(PutDone) \in Nat
           /\ Count(GetHeld) \in Nat /\ Count(GetDone) \in Nat
<1>1. /\ Count(PutHeld)' = Cardinality(Where(Procs, pc', PutHeld))
      /\ Count(PutDone)' = Cardinality(Where(Procs, pc', PutDone))
      /\ Count(GetHeld)' = Cardinality(Where(Procs, pc', GetHeld))
      /\ Count(GetDone)' = Cardinality(Where(Procs, pc', GetDone))
    BY DEF Count, PutHeld, PutDone, GetHeld, GetDone
<1>2. ASSUME NEW L
      PROVE  /\ Cardinality(Where(Procs, pc', L)) = Count(L) + In(to, L) - In(pc[p], L)
             /\ Count(L) \in Nat
    BY WhereMoves, WhereType, PcServerAssumption DEF DownInv, Count
<1> QED
    BY <1>1, <1>2

\* Nobody is anywhere in the ring.
LEMMA CountsNone ==
    ASSUME \A p \in Procs : pc'[p] = "none"
    PROVE  /\ Count(PutHeld)' = 0 /\ Count(PutDone)' = 0
           /\ Count(GetHeld)' = 0 /\ Count(GetDone)' = 0
<1>1. /\ Where(Procs, pc', PutHeld) = {} /\ Where(Procs, pc', PutDone) = {}
      /\ Where(Procs, pc', GetHeld) = {} /\ Where(Procs, pc', GetDone) = {}
    BY DEF Where, PutHeld, PutDone, GetHeld, GetDone
<1>2. /\ Count(PutHeld)' = Cardinality(Where(Procs, pc', PutHeld))
      /\ Count(PutDone)' = Cardinality(Where(Procs, pc', PutDone))
      /\ Count(GetHeld)' = Cardinality(Where(Procs, pc', GetHeld))
      /\ Count(GetDone)' = Cardinality(Where(Procs, pc', GetDone))
    BY DEF Count, PutHeld, PutDone, GetHeld, GetDone
<1> QED
    BY <1>1, <1>2, FS_EmptySet

LEMMA UnitInit == Init => UnitInv
<1> SUFFICES ASSUME Init PROVE UnitInv
    OBVIOUS
<1>1. /\ Where(Procs, pc, PutHeld) = {} /\ Where(Procs, pc, PutDone) = {}
      /\ Where(Procs, pc, GetHeld) = {} /\ Where(Procs, pc, GetDone) = {}
    BY DEF Init, Where, PutHeld, PutDone, GetHeld, GetDone
<1>2. /\ Count(PutHeld) = 0 /\ Count(PutDone) = 0
      /\ Count(GetHeld) = 0 /\ Count(GetDone) = 0
    BY <1>1, FS_EmptySet DEF Count
<1>3. Segment(Size, 0, 0) = {} /\ (0 + 0) % Size = 0
    BY PcServerAssumption DEF Segment
<1>4. Units(0)
    BY <1>2, <1>3, PcServerAssumption DEF Init, R!RingInit, Units
<1> QED
    BY <1>4, PcServerAssumption DEF Init, R!RingInit, UnitInv

\* A step of a process that leaves the indices alone and does not make units:
\* what it posts it has had, and what it gets has been posted.
LEMMA UnitsKept ==
    ASSUME UnitInv, DownInv, NEW p \in Procs, NEW to, pc' = [pc EXCEPT ![p] = to],
           UNCHANGED <<head, tail, unread>>, empty' \in Nat, full' \in Nat,
           empty' + In(to, PutHeld) + In(to, GetDone)
             <= empty + In(pc[p], PutHeld) + In(pc[p], GetDone),
           full' + In(to, PutDone) + In(to, GetHeld)
             <= full + In(pc[p], PutDone) + In(pc[p], GetHeld)
    PROVE  UnitInv'
<1>1. PICK u \in 0..Size : Units(u)
    BY DEF UnitInv
<1>2. /\ In(to, PutHeld) \in Int /\ In(to, PutDone) \in Int
      /\ In(to, GetHeld) \in Int /\ In(to, GetDone) \in Int
      /\ In(pc[p], PutHeld) \in Int /\ In(pc[p], PutDone) \in Int
      /\ In(pc[p], GetHeld) \in Int /\ In(pc[p], GetDone) \in Int
    BY DEF In
<1>3. /\ Count(PutHeld)' = Count(PutHeld) + In(to, PutHeld) - In(pc[p], PutHeld)
      /\ Count(PutDone)' = Count(PutDone) + In(to, PutDone) - In(pc[p], PutDone)
      /\ Count(GetHeld)' = Count(GetHeld) + In(to, GetHeld) - In(pc[p], GetHeld)
      /\ Count(GetDone)' = Count(GetDone) + In(to, GetDone) - In(pc[p], GetDone)
      /\ Count(PutHeld) \in Nat /\ Count(PutDone) \in Nat
      /\ Count(GetHeld) \in Nat /\ Count(GetDone) \in Nat
    BY CountsMove
<1>4. empty \in Nat /\ full \in Nat /\ Size \in Nat
    BY PcServerAssumption DEF UnitInv
<1>5. /\ empty + Count(PutHeld) + Count(GetDone) + u <= Size
      /\ full + Count(PutDone) + Count(GetHeld) <= u
    BY <1>1 DEF Units
<1>6. empty' + Count(PutHeld)' + Count(GetDone)' + u <= Size
    BY <1>2, <1>3, <1>4, <1>5
<1>7. full' + Count(PutDone)' + Count(GetHeld)' <= u
    BY <1>2, <1>3, <1>4, <1>5
<1>8. Units(u)'
    BY <1>1, <1>6, <1>7 DEF Units
<1> QED
    BY <1>8 DEF UnitInv

\* The indices and the units stay.
LEMMA UnitsStay ==
    ASSUME UnitInv, NEW p \in Procs, NEW to, pc' = [pc EXCEPT ![p] = to], DownInv,
           pc[p] \notin PutHeld \cup PutDone \cup GetHeld \cup GetDone,
           to \notin PutHeld \cup PutDone \cup GetHeld \cup GetDone,
           UNCHANGED <<empty, full, head, tail, unread>>
    PROVE  UnitInv'
<1>1. /\ In(to, PutHeld) = 0 /\ In(to, PutDone) = 0
      /\ In(to, GetHeld) = 0 /\ In(to, GetDone) = 0
      /\ In(pc[p], PutHeld) = 0 /\ In(pc[p], PutDone) = 0
      /\ In(pc[p], GetHeld) = 0 /\ In(pc[p], GetDone) = 0
    BY DEF In
<1>2. /\ empty' \in Nat /\ full' \in Nat
      /\ empty' + In(to, PutHeld) + In(to, GetDone)
           <= empty + In(pc[p], PutHeld) + In(pc[p], GetDone)
      /\ full' + In(to, PutDone) + In(to, GetHeld)
           <= full + In(pc[p], PutDone) + In(pc[p], GetHeld)
    BY <1>1 DEF UnitInv
<1> QED
    BY <1>2, UnitsKept

\* producer() and consumer().
LEMMA RingUnits ==
    ASSUME UnitInv, DownInv, NEW p \in Procs, RingStep(p)
    PROVE  UnitInv'
<1>0. head \in 0..Size-1 /\ empty \in Nat /\ full \in Nat /\ Size \in Nat \ {0}
    BY PcServerAssumption DEF UnitInv
<1>1. PICK u \in 0..Size : Units(u)
    BY DEF UnitInv
<1>2. /\ empty + Count(PutHeld) + Count(GetDone) + u <= Size
      /\ full + Count(PutDone) + Count(GetHeld) <= u
      /\ Count(PutHeld) \in Nat /\ Count(PutDone) \in Nat
      /\ Count(GetHeld) \in Nat /\ Count(GetDone) \in Nat
    BY <1>1, WhereType, PcServerAssumption DEF Units, Count
<1> USE DEF R!Goes
<1>3. CASE R!PutAdvance(p)
  <2>1. /\ pc[p] = "pAdvance" /\ pc' = [pc EXCEPT ![p] = "pUnlock"]
        /\ UNCHANGED <<empty, full, head>> /\ tail' = (tail + 1) % Size
        /\ unread' = unread \cup {tail}
    BY <1>3 DEF R!PutAdvance, RingStep, R!GetAdvance, R!WaitEmpty, R!PutLock, R!Store,
        R!PutUnlock, R!PostFull, R!WaitFull, R!GetLock, R!Load, R!GetUnlock, R!PostEmpty
  <2>2. Count(PutHeld) >= 1
    BY <2>1, WhereOne, PcServerAssumption DEF Count, PutHeld
  <2>3. u \in 0..Size-1 /\ u + 1 \in 0..Size
    BY <1>0, <1>2, <2>2
  <2>4. unread' = Segment(Size, head, u + 1)
    BY <1>0, <1>1, <2>1, <2>3, SegmentPut DEF Units
  <2>5. tail' = (head + (u + 1)) % Size
    <3>1. (((head + u) % Size) + 1) % Size = (head + (u + 1)) % Size
      BY <1>0, <2>3, TailMoves
    <3> QED
      BY <1>1, <2>1, <3>1 DEF Units
  <2>6. /\ Count(PutHeld)' = Count(PutHeld) - 1 /\ Count(PutDone)' = Count(PutDone) + 1
        /\ Count(GetHeld)' = Count(GetHeld) /\ Count(GetDone)' = Count(GetDone)
    <3>1. /\ In("pAdvance", PutHeld) = 1 /\ In("pAdvance", PutDone) = 0
          /\ In("pAdvance", GetHeld) = 0 /\ In("pAdvance", GetDone) = 0
          /\ In("pUnlock", PutHeld) = 0 /\ In("pUnlock", PutDone) = 1
          /\ In("pUnlock", GetHeld) = 0 /\ In("pUnlock", GetDone) = 0
      BY DEF In, PutHeld, PutDone, GetHeld, GetDone
    <3>2. /\ Count(PutHeld)' = Count(PutHeld) + In("pUnlock", PutHeld) - In(pc[p], PutHeld)
          /\ Count(PutDone)' = Count(PutDone) + In("pUnlock", PutDone) - In(pc[p], PutDone)
          /\ Count(GetHeld)' = Count(GetHeld) + In("pUnlock", GetHeld) - In(pc[p], GetHeld)
          /\ Count(GetDone)' = Count(GetDone) + In("pUnlock", GetDone) - In(pc[p], GetDone)
      BY <2>1, CountsMove
    <3> QED
      BY <1>2, <2>1, <3>1, <3>2
  <2>7. /\ empty' + Count(PutHeld)' + Count(GetDone)' + (u + 1) <= Size
        /\ full' + Count(PutDone)' + Count(GetHeld)' <= u + 1
    BY <1>0, <1>2, <2>1, <2>3, <2>6
  <2>8. Units(u + 1)'
    BY <2>1, <2>4, <2>5, <2>7 DEF Units
  <2>9. head' \in 0..Size-1 /\ empty' \in Nat /\ full' \in Nat
    BY <1>0, <2>1
  <2> QED
    BY <2>3, <2>8, <2>9 DEF UnitInv
<1>4. CASE R!GetAdvance(p)
  <2>1. /\ pc[p] = "cAdvance" /\ pc' = [pc EXCEPT ![p] = "cUnlock"]
        /\ UNCHANGED <<empty, full, tail>> /\ head' = (head + 1) % Size
        /\ unread' = unread \ {head}
    BY <1>4 DEF R!PutAdvance, RingStep, R!GetAdvance, R!WaitEmpty, R!PutLock, R!Store,
        R!PutUnlock, R!PostFull, R!WaitFull, R!GetLock, R!Load, R!GetUnlock, R!PostEmpty
  <2>2. Count(GetHeld) >= 1
    BY <2>1, WhereOne, PcServerAssumption DEF Count, GetHeld
  <2>3. u \in 1..Size /\ u - 1 \in 0..Size-1 /\ (u - 1) + 1 = u
    BY <1>0, <1>2, <2>2
  <2>4. unread' = Segment(Size, head', u - 1)
    BY <1>0, <1>1, <2>1, <2>3, SegmentGet DEF Units
  <2>5. tail' = (head' + (u - 1)) % Size
    <3>1. (((head + 1) % Size) + (u - 1)) % Size = (head + ((u - 1) + 1)) % Size
      BY <1>0, <2>3, HeadMoves
    <3> QED
      BY <1>1, <2>1, <2>3, <3>1 DEF Units
  <2>6. /\ Count(PutHeld)' = Count(PutHeld) /\ Count(PutDone)' = Count(PutDone)
        /\ Count(GetHeld)' = Count(GetHeld) - 1 /\ Count(GetDone)' = Count(GetDone) + 1
    <3>1. /\ In("cAdvance", PutHeld) = 0 /\ In("cAdvance", PutDone) = 0
          /\ In("cAdvance", GetHeld) = 1 /\ In("cAdvance", GetDone) = 0
          /\ In("cUnlock", PutHeld) = 0 /\ In("cUnlock", PutDone) = 0
          /\ In("cUnlock", GetHeld) = 0 /\ In("cUnlock", GetDone) = 1
      BY DEF In, PutHeld, PutDone, GetHeld, GetDone
    <3>2. /\ Count(PutHeld)' = Count(PutHeld) + In("cUnlock", PutHeld) - In(pc[p], PutHeld)
          /\ Count(PutDone)' = Count(PutDone) + In("cUnlock", PutDone) - In(pc[p], PutDone)
          /\ Count(GetHeld)' = Count(GetHeld) + In("cUnlock", GetHeld) - In(pc[p], GetHeld)
          /\ Count(GetDone)' = Count(GetDone) + In("cUnlock", GetDone) - In(pc[p], GetDone)
      BY <2>1, CountsMove
    <3> QED
      BY <1>2, <2>1, <3>1, <3>2
  <2>7. /\ empty' + Count(PutHeld)' + Count(GetDone)' + (u - 1) <= Size
        /\ full' + Count(PutDone)' + Count(GetHeld)' <= u - 1
    BY <1>0, <1>2, <2>1, <2>3, <2>6
  <2>8. Units(u - 1)'
    BY <2>1, <2>4, <2>5, <2>7 DEF Units
  <2>9. head' \in 0..Size-1 /\ empty' \in Nat /\ full' \in Nat /\ u - 1 \in 0..Size
    BY <1>0, <2>1, <2>3
  <2> QED
    BY <2>8, <2>9 DEF UnitInv
<1>5. CASE /\ UNCHANGED <<head, tail, unread>>
           /\ \/ R!WaitEmpty(p) \/ R!PutLock(p) \/ R!Store(p) \/ R!PutUnlock(p)
              \/ R!PostFull(p) \/ R!WaitFull(p) \/ R!GetLock(p) \/ R!Load(p)
              \/ R!GetUnlock(p) \/ R!PostEmpty(p)
  <2>1. /\ \A l \in {"idle", "pEmpty", "cFull"} : /\ In(l, PutHeld) = 0 /\ In(l, PutDone) = 0
                                                 /\ In(l, GetHeld) = 0 /\ In(l, GetDone) = 0
        /\ \A l \in {"pMutex", "pStore", "pAdvance"} : /\ In(l, PutHeld) = 1 /\ In(l, PutDone) = 0
                                                       /\ In(l, GetHeld) = 0 /\ In(l, GetDone) = 0
        /\ \A l \in {"pUnlock", "pPost"} : /\ In(l, PutHeld) = 0 /\ In(l, PutDone) = 1
                                           /\ In(l, GetHeld) = 0 /\ In(l, GetDone) = 0
        /\ \A l \in {"cMutex", "cLoad", "cAdvance"} : /\ In(l, PutHeld) = 0 /\ In(l, PutDone) = 0
                                                      /\ In(l, GetHeld) = 1 /\ In(l, GetDone) = 0
        /\ \A l \in {"cUnlock", "cPost"} : /\ In(l, PutHeld) = 0 /\ In(l, PutDone) = 0
                                           /\ In(l, GetHeld) = 0 /\ In(l, GetDone) = 1
    BY DEF In, PutHeld, PutDone, GetHeld, GetDone
  <2>2. CASE R!WaitEmpty(p)
    <3>1. pc[p] = "pEmpty" /\ pc' = [pc EXCEPT ![p] = "pMutex"]
      BY <2>2 DEF R!WaitEmpty
    <3>2. empty > 0 /\ empty' = empty - 1 /\ full' = full
      BY <2>2 DEF R!WaitEmpty
    <3>3. /\ empty' \in Nat /\ full' \in Nat
          /\ empty' + In("pMutex", PutHeld) + In("pMutex", GetDone)
               <= empty + In(pc[p], PutHeld) + In(pc[p], GetDone)
          /\ full' + In("pMutex", PutDone) + In("pMutex", GetHeld)
               <= full + In(pc[p], PutDone) + In(pc[p], GetHeld)
      BY <1>0, <2>1, <3>1, <3>2
    <3> QED
      BY <1>5, <3>1, <3>3, UnitsKept
  <2>3. CASE R!PutLock(p)
    <3>1. pc[p] = "pMutex" /\ pc' = [pc EXCEPT ![p] = "pStore"]
      BY <2>3 DEF R!PutLock
    <3>2. empty' = empty /\ full' = full
      BY <2>3 DEF R!PutLock
    <3>3. /\ empty' \in Nat /\ full' \in Nat
          /\ empty' + In("pStore", PutHeld) + In("pStore", GetDone)
               <= empty + In(pc[p], PutHeld) + In(pc[p], GetDone)
          /\ full' + In("pStore", PutDone) + In("pStore", GetHeld)
               <= full + In(pc[p], PutDone) + In(pc[p], GetHeld)
      BY <1>0, <2>1, <3>1, <3>2
    <3> QED
      BY <1>5, <3>1, <3>3, UnitsKept
  <2>4. CASE R!Store(p)
    <3>1. pc[p] = "pStore" /\ pc' = [pc EXCEPT ![p] = "pAdvance"]
      BY <2>4 DEF R!Store
    <3>2. empty' = empty /\ full' = full
      BY <2>4 DEF R!Store
    <3>3. /\ empty' \in Nat /\ full' \in Nat
          /\ empty' + In("pAdvance", PutHeld) + In("pAdvance", GetDone)
               <= empty + In(pc[p], PutHeld) + In(pc[p], GetDone)
          /\ full' + In("pAdvance", PutDone) + In("pAdvance", GetHeld)
               <= full + In(pc[p], PutDone) + In(pc[p], GetHeld)
      BY <1>0, <2>1, <3>1, <3>2
    <3> QED
      BY <1>5, <3>1, <3>3, UnitsKept
  <2>5. CASE R!PutUnlock(p)
    <3>1. pc[p] = "pUnlock" /\ pc' = [pc EXCEPT ![p] = "pPost"]
      BY <2>5 DEF R!PutUnlock
    <3>2. empty' = empty /\ full' = full
      BY <2>5 DEF R!PutUnlock
    <3>3. /\ empty' \in Nat /\ full' \in Nat
          /\ empty' + In("pPost", PutHeld) + In("pPost", GetDone)
               <= empty + In(pc[p], PutHeld) + In(pc[p], GetDone)
          /\ full' + In("pPost", PutDone) + In("pPost", GetHeld)
               <= full + In(pc[p], PutDone) + In(pc[p], GetHeld)
      BY <1>0, <2>1, <3>1, <3>2
    <3> QED
      BY <1>5, <3>1, <3>3, UnitsKept
  <2>6. CASE R!PostFull(p)
    <3>1. pc[p] = "pPost" /\ pc' = [pc EXCEPT ![p] = "idle"]
      BY <2>6 DEF R!PostFull
    <3>2. empty' = empty /\ full' = full + 1
      BY <2>6 DEF R!PostFull
    <3>3. /\ empty' \in Nat /\ full' \in Nat
          /\ empty' + In("idle", PutHeld) + In("idle", GetDone)
               <= empty + In(pc[p], PutHeld) + In(pc[p], GetDone)
          /\ full' + In("idle", PutDone) + In("idle", GetHeld)
               <= full + In(pc[p], PutDone) + In(pc[p], GetHeld)
      BY <1>0, <2>1, <3>1, <3>2
    <3> QED
      BY <1>5, <3>1, <3>3, UnitsKept
  <2>7. CASE R!WaitFull(p)
    <3>1. pc[p] = "cFull" /\ pc' = [pc EXCEPT ![p] = "cMutex"]
      BY <2>7 DEF R!WaitFull
    <3>2. full > 0 /\ empty' = empty /\ full' = full - 1
      BY <2>7 DEF R!WaitFull
    <3>3. /\ empty' \in Nat /\ full' \in Nat
          /\ empty' + In("cMutex", PutHeld) + In("cMutex", GetDone)
               <= empty + In(pc[p], PutHeld) + In(pc[p], GetDone)
          /\ full' + In("cMutex", PutDone) + In("cMutex", GetHeld)
               <= full + In(pc[p], PutDone) + In(pc[p], GetHeld)
      BY <1>0, <2>1, <3>1, <3>2
    <3> QED
      BY <1>5, <3>1, <3>3, UnitsKept
  <2>8. CASE R!GetLock(p)
    <3>1. pc[p] = "cMutex" /\ pc' = [pc EXCEPT ![p] = "cLoad"]
      BY <2>8 DEF R!GetLock
    <3>2. empty' = empty /\ full' = full
      BY <2>8 DEF R!GetLock
    <3>3. /\ empty' \in Nat /\ full' \in Nat
          /\ empty' + In("cLoad", PutHeld) + In("cLoad", GetDone)
               <= empty + In(pc[p], PutHeld) + In(pc[p], GetDone)
          /\ full' + In("cLoad", PutDone) + In("cLoad", GetHeld)
               <= full + In(pc[p], PutDone) + In(pc[p], GetHeld)
      BY <1>0, <2>1, <3>1, <3>2
    <3> QED
      BY <1>5, <3>1, <3>3, UnitsKept
  <2>9. CASE R!Load(p)
    <3>1. pc[p] = "cLoad" /\ pc' = [pc EXCEPT ![p] = "cAdvance"]
      BY <2>9 DEF R!Load, R!ring
    <3>2. empty' = empty /\ full' = full
      BY <2>9 DEF R!Load, R!ring
    <3>3. /\ empty' \in Nat /\ full' \in Nat
          /\ empty' + In("cAdvance", PutHeld) + In("cAdvance", GetDone)
               <= empty + In(pc[p], PutHeld) + In(pc[p], GetDone)
          /\ full' + In("cAdvance", PutDone) + In("cAdvance", GetHeld)
               <= full + In(pc[p], PutDone) + In(pc[p], GetHeld)
      BY <1>0, <2>1, <3>1, <3>2
    <3> QED
      BY <1>5, <3>1, <3>3, UnitsKept
  <2>10. CASE R!GetUnlock(p)
    <3>1. pc[p] = "cUnlock" /\ pc' = [pc EXCEPT ![p] = "cPost"]
      BY <2>10 DEF R!GetUnlock
    <3>2. empty' = empty /\ full' = full
      BY <2>10 DEF R!GetUnlock
    <3>3. /\ empty' \in Nat /\ full' \in Nat
          /\ empty' + In("cPost", PutHeld) + In("cPost", GetDone)
               <= empty + In(pc[p], PutHeld) + In(pc[p], GetDone)
          /\ full' + In("cPost", PutDone) + In("cPost", GetHeld)
               <= full + In(pc[p], PutDone) + In(pc[p], GetHeld)
      BY <1>0, <2>1, <3>1, <3>2
    <3> QED
      BY <1>5, <3>1, <3>3, UnitsKept
  <2>11. CASE R!PostEmpty(p)
    <3>1. pc[p] = "cPost" /\ pc' = [pc EXCEPT ![p] = "idle"]
      BY <2>11 DEF R!PostEmpty
    <3>2. empty' = empty + 1 /\ full' = full
      BY <2>11 DEF R!PostEmpty
    <3>3. /\ empty' \in Nat /\ full' \in Nat
          /\ empty' + In("idle", PutHeld) + In("idle", GetDone)
               <= empty + In(pc[p], PutHeld) + In(pc[p], GetDone)
          /\ full' + In("idle", PutDone) + In("idle", GetHeld)
               <= full + In(pc[p], PutDone) + In(pc[p], GetHeld)
      BY <1>0, <2>1, <3>1, <3>2
    <3> QED
      BY <1>5, <3>1, <3>3, UnitsKept
  <2> QED
    BY <1>5, <2>2, <2>3, <2>4, <2>5, <2>6, <2>7, <2>8, <2>9, <2>10, <2>11
<1> QED
    BY <1>3, <1>4, <1>5 DEF RingStep, R!WaitEmpty, R!PutLock, R!Store, R!PutUnlock, R!PostFull,
        R!WaitFull, R!GetLock, R!Load, R!GetUnlock, R!PostEmpty, R!ring

\* A child that is killed in the last statement of producer() has posted full.
LEMMA BrokenPipeUnits ==
    ASSUME UnitInv, DownInv, NEW p \in Procs, BrokenPipe(p)
    PROVE  UnitInv'
<1>0. empty \in Nat /\ full \in Nat
    BY DEF UnitInv
<1>1. CASE pc[p] = "pPost"
  <2>1. /\ pc' = [pc EXCEPT ![p] = "none"] /\ full' = full + 1
        /\ UNCHANGED <<empty, head, tail, unread>>
    BY <1>1 DEF BrokenPipe, Goes, memory
  <2>2. /\ In("none", PutHeld) = 0 /\ In("none", PutDone) = 0
        /\ In("none", GetHeld) = 0 /\ In("none", GetDone) = 0
        /\ In("pPost", PutHeld) = 0 /\ In("pPost", PutDone) = 1
        /\ In("pPost", GetHeld) = 0 /\ In("pPost", GetDone) = 0
    BY DEF In, PutHeld, PutDone, GetHeld, GetDone
  <2>3. /\ empty' \in Nat /\ full' \in Nat
        /\ empty' + In("none", PutHeld) + In("none", GetDone)
             <= empty + In(pc[p], PutHeld) + In(pc[p], GetDone)
        /\ full' + In("none", PutDone) + In("none", GetHeld)
             <= full + In(pc[p], PutDone) + In(pc[p], GetHeld)
    BY <1>0, <1>1, <2>1, <2>2
  <2> QED
    BY <2>1, <2>3, UnitsKept
<1>2. CASE pc[p] # "pPost"
  <2>1. /\ pc[p] \in {"idle", "cFull"} /\ pc' = [pc EXCEPT ![p] = "none"]
        /\ UNCHANGED <<empty, full, head, tail, unread>>
    BY <1>2 DEF BrokenPipe, Goes, memory
  <2>2. /\ "none" \notin PutHeld \cup PutDone \cup GetHeld \cup GetDone
        /\ pc[p] \notin PutHeld \cup PutDone \cup GetHeld \cup GetDone
    BY <2>1 DEF PutHeld, PutDone, GetHeld, GetDone
  <2> QED
    BY <2>1, <2>2, UnitsStay
<1> QED
    BY <1>1, <1>2

LEMMA UnitStep == DownInv /\ UnitInv /\ [Next]_vars => UnitInv'
<1> SUFFICES ASSUME DownInv, UnitInv, [Next]_vars PROVE UnitInv'
    OBVIOUS
<1>1. ASSUME NEW p \in Procs, Fork(p) \/ ChildStep(p), ~RingStep(p), ~BrokenPipe(p)
      PROVE  UnitInv'
  <2>1. UNCHANGED <<empty, full, head, tail, unread>>
    BY <1>1 DEF Fork, ChildStep, Task, NoTask, AdmitLock, Lock, Admit, Refuse, AdmitUnlock,
        Produce, R!CallPut, GateWait, GatePost, Timeout, Send, Ack, Disconnect, LeaveLock,
        Leave, LeaveUnlock, sems, memory, R!ring
  <2>2. PICK to : /\ pc' = [pc EXCEPT ![p] = to]
                  /\ pc[p] \notin PutHeld \cup PutDone \cup GetHeld \cup GetDone
                  /\ to \notin PutHeld \cup PutDone \cup GetHeld \cup GetDone
    BY <1>1 DEF Fork, ChildStep, Task, NoTask, AdmitLock, Lock, Admit, Refuse, AdmitUnlock,
        Produce, R!CallPut, GateWait, GatePost, Timeout, Send, Ack, Disconnect, LeaveLock,
        Leave, LeaveUnlock, Goes, R!Goes, PutHeld, PutDone, GetHeld, GetDone
  <2> QED
    BY <2>1, <2>2, UnitsStay
<1>2. ASSUME PauseRead \/ PauseDone \/ Resume \/ Restart \/ UNCHANGED vars PROVE UnitInv'
  <2>1. UNCHANGED <<empty, full, head, tail, unread, pc>>
    BY <1>2 DEF PauseRead, PauseDone, Resume, Restart, children, vars, ringVars
  <2> QED
    BY <2>1 DEF UnitInv, Units, Count
<1>3. ASSUME Interrupt PROVE UnitInv'
  <2>1. /\ \A p \in Procs : pc'[p] = "none"
        /\ UNCHANGED <<empty, full, head, tail, unread>>
    BY <1>3 DEF Interrupt, sems, memory
  <2>2. PICK u \in 0..Size : Units(u)
    BY DEF UnitInv
  <2>3. /\ Count(PutHeld) \in Nat /\ Count(PutDone) \in Nat
        /\ Count(GetHeld) \in Nat /\ Count(GetDone) \in Nat
    BY WhereType, PcServerAssumption DEF Count
  <2>4. Units(u)'
    BY <2>1, <2>2, <2>3, CountsNone, PcServerAssumption DEF Units, UnitInv
  <2> QED
    BY <2>1, <2>4 DEF UnitInv
<1>4. ASSUME Clean PROVE UnitInv'
  <2>1. /\ \A p \in Procs : pc'[p] = "none"
        /\ empty' = Size /\ full' = 0 /\ head' = 0 /\ tail' = 0 /\ unread' = {}
    BY <1>4 DEF Clean, DownInv
  <2>2. Segment(Size, 0, 0) = {} /\ (0 + 0) % Size = 0
    BY PcServerAssumption DEF Segment
  <2>3. Units(0)'
    BY <2>1, <2>2, CountsNone, PcServerAssumption DEF Units
  <2> QED
    BY <2>1, <2>3, PcServerAssumption DEF UnitInv
<1> QED
    BY <1>1, <1>2, <1>3, <1>4, RingUnits, BrokenPipeUnits DEF Next, ChildStep

\* An item that nobody has got is not overwritten, after any number of
\* interruptions and restarts and whatever children are killed.
THEOREM KeepsUnreadAlways == Spec => []KeepsUnread
<1>1. UnitInv => KeepsUnread
  <2> SUFFICES ASSUME UnitInv, NEW p \in Procs, pc[p] = "pStore" PROVE tail \notin unread
      BY DEF KeepsUnread
  <2>1. PICK u \in 0..Size : Units(u)
    BY DEF UnitInv
  <2>2. Count(PutHeld) >= 1 /\ Count(PutHeld) \in Nat /\ Count(GetDone) \in Nat
    BY WhereOne, WhereType, PcServerAssumption DEF Count, PutHeld
  <2>3. u \in 0..Size-1
    BY <2>1, <2>2, PcServerAssumption DEF Units, UnitInv
  <2> QED
    BY <2>1, <2>3, SegmentPut, PcServerAssumption DEF Units, UnitInv
<1> QED
    BY <1>1, UnitInit, UnitStep, DownAlways, PTL DEF Spec

\* And a consumer takes no slot without a new item.
THEOREM TakesUnreadAlways == Spec => []TakesUnread
<1>1. UnitInv => TakesUnread
  <2> SUFFICES ASSUME UnitInv, NEW p \in Procs, pc[p] = "cLoad" PROVE head \in unread
      BY DEF TakesUnread
  <2>1. PICK u \in 0..Size : Units(u)
    BY DEF UnitInv
  <2>2. Count(GetHeld) >= 1 /\ Count(GetHeld) \in Nat /\ Count(PutDone) \in Nat
    BY WhereOne, WhereType, PcServerAssumption DEF Count, GetHeld
  <2>3. u \in 1..Size
    BY <2>1, <2>2, PcServerAssumption DEF Units, UnitInv
  <2> QED
    BY <2>1, <2>3, SegmentGet, PcServerAssumption DEF Units, UnitInv
<1> QED
    BY <1>1, UnitInit, UnitStep, DownAlways, PTL DEF Spec

-----------------------------------------------------------------------------
(* DrainServer. *)

\* From the first sem_wait() of a call to its last sem_post(), both excluded.
Inside == {"pMutex", "pStore", "pAdvance", "pUnlock", "pPost",
           "cMutex", "cLoad", "cAdvance", "cUnlock", "cPost"}

Number(L) == Cardinality(Where(Procs, pc, L))

DrainTokens ==
    /\ pc = [q \in Procs |-> pc[q]]
    /\ empty \in Nat /\ full \in Nat
    /\ empty + full + Number(Inside) = Size

LEMMA DrainInit == Drain!Init => DrainTokens
<1> SUFFICES ASSUME Drain!Init PROVE DrainTokens
    OBVIOUS
<1>1. Where(Procs, pc, Inside) = {}
    BY DEF Drain!Init, Where, Inside
<1>2. Number(Inside) = 0
    BY <1>1, FS_EmptySet DEF Number
<1>3. empty = Size /\ full = 0 /\ pc = [q \in Procs |-> "none"]
    BY DEF Drain!Init, Drain!R!RingInit
<1> QED
    BY <1>2, <1>3, PcServerAssumption DEF DrainTokens

\* What a step may do: a unit goes from a semaphore to the thread or back.
LEMMA DrainKept ==
    ASSUME DrainTokens, NEW p \in Procs, NEW to, pc' = [pc EXCEPT ![p] = to],
           empty' \in Nat, full' \in Nat,
           empty' + full' + In(to, Inside) = empty + full + In(pc[p], Inside)
    PROVE  DrainTokens'
<1>1. Number(Inside)' = Number(Inside) + In(to, Inside) - In(pc[p], Inside)
  <2>1. Number(Inside)' = Cardinality(Where(Procs, pc', Inside))
    BY DEF Number, Inside
  <2> QED
    BY <2>1, WhereMoves, PcServerAssumption DEF DrainTokens, Number
<1>2. In(to, Inside) \in Int /\ In(pc[p], Inside) \in Int
    BY DEF In
<1>3. Number(Inside) \in Nat /\ Size \in Nat
    BY WhereType, PcServerAssumption DEF Number
<1>4. empty' + full' + Number(Inside)' = Size
    BY <1>1, <1>2, <1>3 DEF DrainTokens
<1>5. pc' = [q \in Procs |-> pc'[q]]
    BY DEF DrainTokens
<1> QED
    BY <1>4, <1>5 DEF DrainTokens

\* A step that leaves the semaphores alone, and stays inside or outside.
LEMMA DrainStays ==
    ASSUME DrainTokens, NEW p \in Procs, NEW to, pc' = [pc EXCEPT ![p] = to],
           pc[p] \in Inside <=> to \in Inside, UNCHANGED <<empty, full>>
    PROVE  DrainTokens'
<1>1. In(to, Inside) = In(pc[p], Inside)
    BY DEF In
<1>2. /\ empty' \in Nat /\ full' \in Nat
      /\ empty' + full' + In(to, Inside) = empty + full + In(pc[p], Inside)
    BY <1>1 DEF DrainTokens
<1> QED
    BY <1>2, DrainKept

LEMMA DrainRing ==
    ASSUME DrainTokens, NEW p \in Procs, Drain!RingStep(p)
    PROVE  DrainTokens'
<1> USE DEF Drain!R!Goes, Drain!R!ring
<1>0. empty \in Nat /\ full \in Nat
    BY DEF DrainTokens
<1>1. CASE Drain!R!WaitEmpty(p)
  <2>1. /\ pc[p] = "pEmpty" /\ pc' = [pc EXCEPT ![p] = "pMutex"]
        /\ empty > 0 /\ empty' = empty - 1 /\ full' = full
    BY <1>1 DEF Drain!R!WaitEmpty
  <2>2. In("pEmpty", Inside) = 0 /\ In("pMutex", Inside) = 1
    BY DEF In, Inside
  <2>3. /\ empty' \in Nat /\ full' \in Nat
        /\ empty' + full' + In("pMutex", Inside) = empty + full + In(pc[p], Inside)
    BY <1>0, <2>1, <2>2
  <2> QED
    BY <2>1, <2>3, DrainKept
<1>2. CASE Drain!R!PostFull(p)
  <2>1. /\ pc[p] = "pPost" /\ pc' = [pc EXCEPT ![p] = "idle"]
        /\ empty' = empty /\ full' = full + 1
    BY <1>2 DEF Drain!R!PostFull
  <2>2. In("pPost", Inside) = 1 /\ In("idle", Inside) = 0
    BY DEF In, Inside
  <2>3. /\ empty' \in Nat /\ full' \in Nat
        /\ empty' + full' + In("idle", Inside) = empty + full + In(pc[p], Inside)
    BY <1>0, <2>1, <2>2
  <2> QED
    BY <2>1, <2>3, DrainKept
<1>3. CASE Drain!R!WaitFull(p)
  <2>1. /\ pc[p] = "cFull" /\ pc' = [pc EXCEPT ![p] = "cMutex"]
        /\ full > 0 /\ full' = full - 1 /\ empty' = empty
    BY <1>3 DEF Drain!R!WaitFull
  <2>2. In("cFull", Inside) = 0 /\ In("cMutex", Inside) = 1
    BY DEF In, Inside
  <2>3. /\ empty' \in Nat /\ full' \in Nat
        /\ empty' + full' + In("cMutex", Inside) = empty + full + In(pc[p], Inside)
    BY <1>0, <2>1, <2>2
  <2> QED
    BY <2>1, <2>3, DrainKept
<1>4. CASE Drain!R!PostEmpty(p)
  <2>1. /\ pc[p] = "cPost" /\ pc' = [pc EXCEPT ![p] = "idle"]
        /\ empty' = empty + 1 /\ full' = full
    BY <1>4 DEF Drain!R!PostEmpty
  <2>2. In("cPost", Inside) = 1 /\ In("idle", Inside) = 0
    BY DEF In, Inside
  <2>3. /\ empty' \in Nat /\ full' \in Nat
        /\ empty' + full' + In("idle", Inside) = empty + full + In(pc[p], Inside)
    BY <1>0, <2>1, <2>2
  <2> QED
    BY <2>1, <2>3, DrainKept
<1>5. CASE \/ Drain!R!PutLock(p) \/ Drain!R!Store(p) \/ Drain!R!PutAdvance(p) \/ Drain!R!PutUnlock(p)
           \/ Drain!R!GiveUp(p) \/ Drain!R!GetLock(p) \/ Drain!R!Load(p) \/ Drain!R!GetAdvance(p) \/ Drain!R!GetUnlock(p)
  <2>1. UNCHANGED <<empty, full>>
    BY <1>5 DEF Drain!R!PutLock, Drain!R!Store, Drain!R!PutAdvance, Drain!R!PutUnlock, Drain!R!GiveUp, Drain!R!GetLock, Drain!R!Load,
        Drain!R!GetAdvance, Drain!R!GetUnlock
  <2>2. PICK to : pc' = [pc EXCEPT ![p] = to] /\ (pc[p] \in Inside <=> to \in Inside)
    BY <1>5 DEF Drain!R!PutLock, Drain!R!Store, Drain!R!PutAdvance, Drain!R!PutUnlock, Drain!R!GiveUp, Drain!R!GetLock, Drain!R!Load,
        Drain!R!GetAdvance, Drain!R!GetUnlock, Inside
  <2> QED
    BY <2>1, <2>2, DrainStays
<1> QED
    BY <1>1, <1>2, <1>3, <1>4, <1>5 DEF Drain!RingStep, Drain!R!PutStep, Drain!R!GetStep

LEMMA DrainStep == DrainTokens /\ [Drain!Next]_(Drain!vars) => DrainTokens'
<1> SUFFICES ASSUME DrainTokens, [Drain!Next]_(Drain!vars) PROVE DrainTokens'
    OBVIOUS
<1>1. ASSUME NEW p \in Procs,
             \/ \E r \in {"producer", "consumer"} : Drain!Connect(p, r)
             \/ Drain!Produce(p) \/ Drain!Hangup(p) \/ Drain!Ack(p) \/ Drain!Gone(p) \/ Drain!Register(p) \/ Drain!Unregister(p)
             \/ Drain!Send(p) \/ Drain!ReadCount(p) \/ Drain!ConsumerLeaves(p) \/ Drain!ConsumerStays(p)
      PROVE  DrainTokens'
  <2>1. UNCHANGED <<empty, full>>
    BY <1>1 DEF Drain!Connect, Drain!Produce, Drain!R!CallPut, Drain!Hangup, Drain!Ack, Drain!Gone, Drain!Register, Drain!Unregister, Drain!Send,
        Drain!ReadCount, Drain!ConsumerLeaves, Drain!ConsumerStays, Drain!sems, Drain!R!ring
  <2>2. PICK to : /\ pc' = [pc EXCEPT ![p] = to]
                  /\ pc[p] \notin Inside /\ to \notin Inside
    BY <1>1 DEF Drain!Connect, Drain!Produce, Drain!R!CallPut, Drain!Hangup, Drain!Ack, Drain!Gone, Drain!Register, Drain!Unregister, Drain!Send,
        Drain!ReadCount, Drain!ConsumerLeaves, Drain!ConsumerStays, Drain!Goes, Drain!R!Goes, Inside
  <2> QED
    BY <2>1, <2>2, DrainStays
<1>2. ASSUME UNCHANGED Drain!vars PROVE DrainTokens'
    BY <1>2 DEF Drain!vars, Drain!ringVars, DrainTokens, Number
<1> QED
    BY <1>1, <1>2, DrainRing DEF Drain!Next, Drain!OwnStep

\* When empty counts all the slots, no item is stored.
LEMMA EmptyMeansNone ==
    ASSUME DrainTokens, empty = Size
    PROVE  Drain!R!Stored = 0
<1>1. /\ Number(Inside) \in Nat /\ IsFiniteSet(Where(Procs, pc, Inside))
      /\ Size \in Nat
    BY WhereType, PcServerAssumption DEF Number
<1>2. full = 0 /\ Number(Inside) = 0
    BY <1>1 DEF DrainTokens
<1>3. Where(Procs, pc, Inside) = {}
    BY <1>1, <1>2, FS_EmptySet DEF Number
<1>4. /\ Drain!R!At({"pUnlock", "pPost"}) = {}
      /\ Drain!R!At({"cMutex", "cLoad", "cAdvance"}) = {}
    BY <1>3 DEF Drain!R!At, Where, Inside
<1>5. Drain!R!Cardinality({}) = Cardinality({})
    BY DEF Drain!R!Cardinality, Cardinality
<1>6. Cardinality({}) = 0
    BY FS_EmptySet
<1> QED
    BY <1>2, <1>4, <1>5, <1>6 DEF Drain!R!Stored

\* A consumer that leaves by its check leaves no item behind, neither in the
\* ring nor on its way into it: consumer()'s test of g_sem_empty in DU04.
THEOREM LeavesNothingAlways == Drain!Spec => Drain!LeavesNothing
<1>1. DrainTokens /\ [Drain!Next]_(Drain!vars) => [(\E p \in Procs : Drain!Leaves(p)) => Drain!R!Stored = 0]_(Drain!vars)
  <2> SUFFICES ASSUME DrainTokens, Drain!Next, NEW p \in Procs, Drain!Leaves(p)
               PROVE  Drain!R!Stored = 0
      OBVIOUS
  <2>1. PICK q \in Procs :
             \/ \E r \in {"producer", "consumer"} : Drain!Connect(q, r)
             \/ Drain!Produce(q) \/ Drain!Hangup(q) \/ Drain!Ack(q) \/ Drain!Gone(q) \/ Drain!OwnStep(q)
      BY DEF Drain!Next
  <2>2. pc[p] = "checked" /\ pc'[p] = "none"
      BY DEF Drain!Leaves
  <2>3. pc = [x \in Procs |-> pc[x]]
      BY DEF DrainTokens
  <2>4. Drain!ConsumerLeaves(q)
      BY <2>1, <2>2, <2>3 DEF Drain!Connect, Drain!Produce, Drain!R!CallPut, Drain!Hangup, Drain!Ack, Drain!Gone, Drain!OwnStep,
          Drain!Register, Drain!Unregister, Drain!Send, Drain!ReadCount, Drain!ConsumerStays, Drain!Goes, Drain!R!Goes, Drain!RingStep,
          Drain!R!PutStep, Drain!R!GetStep, Drain!R!WaitEmpty, Drain!R!PutLock, Drain!R!Store, Drain!R!PutAdvance, Drain!R!PutUnlock,
          Drain!R!PostFull, Drain!R!WaitFull, Drain!R!GiveUp, Drain!R!GetLock, Drain!R!Load, Drain!R!GetAdvance, Drain!R!GetUnlock,
          Drain!R!PostEmpty
  <2> QED
      BY <2>4, EmptyMeansNone DEF Drain!ConsumerLeaves, Drain!Quiet
<1> QED
    BY <1>1, DrainInit, DrainStep, PTL DEF Drain!Spec, Drain!LeavesNothing

-----------------------------------------------------------------------------
(* SemPipe. *)

\* The ring as these threads use it.
PR == INSTANCE SemRingProofs WITH
        Procs <- {"producer", "consumer"},
        Items <- Lines \cup {End},
        Impatient <- {}

\* What producer() has been called with, in order.
Input ==
    IF program \notin Pipe!Counted /\ "producer" \in ended
    THEN Append(entered, End) ELSE entered

\* The last of it is not yet in the ring.
Bringing == IF pc["producer"] \in {"pEmpty", "pMutex", "pStore", "pAdvance"} THEN 1 ELSE 0

\* The consumer has an item that has left the ring.
Got ==
    \/ pc["consumer"] \in {"cUnlock", "cPost"}
    \/ pc["consumer"] = "idle" /\ item["consumer"] # NoItem

\* How many items have left the ring.
Out ==
    IF program \in Pipe!PrintsInside
    THEN Len(printed) - (IF pc["consumer"] = "cAdvance" THEN 1 ELSE 0)
    ELSE Len(printed) + (IF Got THEN 1 ELSE 0)

\* What was put is printed, with the consumer, in the ring, or with the
\* producer, in this order.
Flow ==
    /\ Out \in Nat /\ Out + PR!Stored + Bringing = Len(Input)
    /\ \A i \in 1..Len(printed) : printed[i] = Input[i]
    /\ \A i \in 1..PR!Stored : PR!Contents[i] = Input[Out + i]
    /\ Got => Out >= 1 /\ item["consumer"] = Input[Out]
    /\ Bringing = 1 => item["producer"] = Input[Len(Input)]

\* Until the consumer has met the last record ...
Flowing ==
    /\ PR!Inv /\ Flow
    /\ (pc["consumer"] = "cAdvance" \/ Got) => item["consumer"] \in Lines
    /\ "consumer" \in ended =>
        /\ pc["consumer"] = "idle" /\ item["consumer"] = NoItem
        /\ program \in Pipe!Counted /\ Len(printed) = MaxLines
    /\ Len(entered) <= MaxLines
    /\ program \in Pipe!Counted /\ "producer" \in ended => Len(entered) = MaxLines

\* ... and from then on, when nothing is left to print.
Over ==
    /\ program \notin Pipe!Counted /\ "producer" \in ended
    /\ printed = entered
    /\ pc["producer"] \in {"idle", "pUnlock", "pPost"}
    /\ pc["consumer"] \in {"idle", "cAdvance", "cUnlock", "cPost"}
    /\ \/ item["consumer"] = End
       \/ "consumer" \in ended /\ pc["consumer"] = "idle" /\ item["consumer"] = NoItem

PipeTypes ==
    /\ program \in Programs
    /\ entered \in Seq(Lines) /\ printed \in Seq(Lines)
    /\ ended \subseteq {"producer", "consumer"}
    /\ pc \in [{"producer", "consumer"} -> PR!Pcs]
    /\ item \in [{"producer", "consumer"} -> Lines \cup {End, NoItem}]
    /\ pc["producer"] \in {"idle"} \cup PR!PutPcs
    /\ pc["consumer"] \in {"idle"} \cup PR!GetPcs

PipeInv == PipeTypes /\ (Flowing \/ Over)

\* The constants of SemPipe make a ring.
LEMMA PipeConstants ==
    ASSUME Pipe!SemPipeAssumption, End \notin Lines
    PROVE  /\ PR!IsFiniteSet({"producer", "consumer"})
           /\ NoItem \notin Lines \cup {End} /\ End \notin Lines
           /\ Size \in Nat \ {0} /\ {} \subseteq {"producer", "consumer"}
           /\ MaxLines \in Nat \ {0}
<1>1. PR!IsFiniteSet({"producer", "consumer"}) <=> IsFiniteSet({"producer", "consumer"})
    BY DEF PR!IsFiniteSet, IsFiniteSet
<1>2. IsFiniteSet({"producer", "consumer"})
  <2>1. IsFiniteSet({"producer"}) /\ IsFiniteSet({"consumer"})
    BY FS_Singleton
  <2>2. IsFiniteSet({"producer"} \cup {"consumer"})
    BY <2>1, FS_Union
  <2>3. {"producer", "consumer"} = {"producer"} \cup {"consumer"}
    OBVIOUS
  <2> QED
    BY <2>2, <2>3, Zenon
<1> QED
    BY <1>1, <1>2 DEF Pipe!SemPipeAssumption

\* SemPipe and the proofs mean the same statements.
LEMMA SameSteps ==
    /\ Pipe!R!PutStep("producer") <=> PR!PutStep("producer")
    /\ Pipe!R!GetStep("consumer") <=> PR!GetStep("consumer")
    /\ Pipe!R!CallGet("consumer") <=> PR!CallGet("consumer")
    /\ Pipe!R!Load("consumer") <=> PR!Load("consumer")
    /\ \A i : Pipe!R!CallPut("producer", i) <=> PR!CallPut("producer", i)
    /\ Pipe!R!Init <=> PR!Init
BY DEF Pipe!R!PutStep, PR!PutStep, Pipe!R!GetStep, PR!GetStep, Pipe!R!CallGet, PR!CallGet,
    Pipe!R!Load, PR!Load, Pipe!R!CallPut, PR!CallPut, Pipe!R!Init, PR!Init, Pipe!R!RingInit,
    PR!RingInit, Pipe!R!Slots, PR!Slots, Pipe!R!Goes, PR!Goes, Pipe!R!ring, PR!ring,
    Pipe!R!WaitEmpty, PR!WaitEmpty, Pipe!R!PutLock, PR!PutLock, Pipe!R!Store, PR!Store,
    Pipe!R!PutAdvance, PR!PutAdvance, Pipe!R!PutUnlock, PR!PutUnlock, Pipe!R!PostFull,
    PR!PostFull, Pipe!R!WaitFull, PR!WaitFull, Pipe!R!GiveUp, PR!GiveUp, Pipe!R!GetLock,
    PR!GetLock, Pipe!R!GetAdvance, PR!GetAdvance, Pipe!R!GetUnlock, PR!GetUnlock,
    Pipe!R!PostEmpty, PR!PostEmpty

\* Input is what was entered, and the last record if that has been put.
LEMMA InputFacts ==
    ASSUME PipeTypes
    PROVE  /\ Input \in Seq(Lines \cup {End}) /\ Len(Input) \in Nat /\ Len(entered) \in Nat
           /\ Len(Input) >= Len(entered) /\ Len(Input) <= Len(entered) + 1
           /\ \A i \in 1..Len(entered) : Input[i] = entered[i] /\ Input[i] \in Lines
           /\ Len(Input) # Len(entered) =>
                /\ Input[Len(Input)] = End
                /\ program \notin Pipe!Counted /\ "producer" \in ended
<1>1. entered \in Seq(Lines) /\ entered \in Seq(Lines \cup {End}) /\ Len(entered) \in Nat
    BY DEF PipeTypes
<1>2. \A i \in 1..Len(entered) : entered[i] \in Lines
    BY <1>1, ElementOfSeq
<1>3. CASE Input = entered
    BY <1>1, <1>2, <1>3
<1>4. CASE Input = Append(entered, End) /\ program \notin Pipe!Counted /\ "producer" \in ended
    BY <1>1, <1>2, <1>4, AppendProperties
<1> QED
    BY <1>3, <1>4 DEF Input

\* At the start nothing has been put.
LEMMA PipeInit ==
    ASSUME Pipe!SemPipeAssumption, End \notin Lines, Pipe!Init
    PROVE  PipeInv
<1> USE DEF Pipe!Init
<1>1. PR!Init /\ pc = [q \in {"producer", "consumer"} |-> "idle"]
              /\ item = [q \in {"producer", "consumer"} |-> NoItem]
    BY SameSteps DEF PR!Init
<1>2. PR!Inv
    BY <1>1, PipeConstants, PR!InvInit
<1>3. PipeTypes
    BY <1>1 DEF PipeTypes, PR!Pcs
<1>4. PR!Stored = 0
  <2>1. /\ PR!At({"pUnlock", "pPost"}) = {} /\ PR!At({"cMutex", "cLoad", "cAdvance"}) = {}
      BY <1>1 DEF PR!At
  <2>2. PR!Cardinality({}) = Cardinality({}) /\ Cardinality({}) = 0
    <3>1. PR!Cardinality({}) = Cardinality({})
      BY DEF PR!Cardinality, Cardinality
    <3> QED
      BY <3>1, FS_EmptySet
  <2>3. full = 0
    BY <1>1 DEF PR!Init, PR!RingInit
  <2>4. PR!Stored = 0 + 0 + 0
    BY <2>1, <2>2, <2>3, Zenon DEF PR!Stored
  <2> QED
    BY <2>4
<1>5. ~Got /\ Bringing = 0 /\ Out = 0 /\ Input = << >>
    BY <1>1 DEF Got, Bringing, Out, Input
<1>6. Flow
    BY <1>4, <1>5 DEF Flow
<1>7. Flowing
    BY <1>1, <1>2, <1>5, <1>6, PipeConstants DEF Flowing
<1> QED
    BY <1>3, <1>7 DEF PipeInv

\* What the invariant of the ring says of the thread that consumes.
LEMMA RingFacts ==
    ASSUME Pipe!SemPipeAssumption, End \notin Lines, PR!Inv
    PROVE  /\ PR!Stored \in Nat
           /\ PR!Contents \in Seq(Lines \cup {End, NoItem}) /\ Len(PR!Contents) = PR!Stored
           /\ pc["consumer"] \in {"cLoad", "cAdvance"} =>
                PR!Stored > 0 /\ PR!Contents[1] = buffer[head]
           /\ pc["consumer"] = "cAdvance" => item["consumer"] = buffer[head]
<1>1. /\ PR!Stored \in 0..Size
      /\ PR!Contents \in Seq((Lines \cup {End}) \cup {NoItem}) /\ Len(PR!Contents) = PR!Stored
      /\ pc["consumer"] \in PR!GetHeld => PR!Stored > 0 /\ PR!Contents[1] = buffer[head]
    BY PipeConstants, PR!CallFacts
<1>2. (Lines \cup {End}) \cup {NoItem} = Lines \cup {End, NoItem}
    OBVIOUS
<1>3. pc["consumer"] = "cAdvance" => item["consumer"] = buffer[head]
    BY DEF PR!Inv, PR!SlotInv
<1>4. {"cLoad", "cAdvance"} \subseteq PR!GetHeld
    BY DEF PR!GetHeld
<1>5. PR!Stored \in Nat
    BY <1>1, PipeConstants
<1> QED
    BY <1>1, <1>2, <1>3, <1>4, <1>5

\* At most what was put is printed.
LEMMA PrintedFacts ==
    ASSUME Pipe!SemPipeAssumption, End \notin Lines, PipeTypes, Flowing
    PROVE  /\ Len(printed) \in Nat /\ Out \in Nat
           /\ Len(printed) <= Len(Input) /\ Len(printed) <= Len(entered)
           /\ \A i \in 1..Len(printed) : printed[i] = entered[i]
<1>1. /\ Len(printed) \in Nat /\ Out \in Nat /\ PR!Stored \in Nat /\ Bringing \in {0, 1}
      /\ Out + PR!Stored + Bringing = Len(Input)
      /\ pc["consumer"] = "cAdvance" => PR!Stored > 0
    BY RingFacts DEF PipeTypes, Flowing, Flow, Bringing
<1>2. Len(printed) <= Len(Input)
    BY <1>1, InputFacts DEF Out
<1>3. \A i \in 1..Len(printed) : printed[i] \in Lines /\ printed[i] = Input[i]
    BY ElementOfSeq DEF PipeTypes, Flowing, Flow
<1>4. Len(printed) <= Len(entered)
  <2>1. SUFFICES ASSUME Len(printed) > Len(entered) PROVE FALSE
    BY <1>1, InputFacts
  <2>2. Len(printed) = Len(Input) /\ Len(Input) # Len(entered) /\ Len(printed) \in 1..Len(printed)
    BY <1>1, <1>2, <2>1, InputFacts
  <2> QED
    BY <1>3, <2>2, InputFacts, PipeConstants
<1>5. \A i \in 1..Len(printed) : i \in 1..Len(entered)
    BY <1>1, <1>4, InputFacts
<1> QED
    BY <1>1, <1>2, <1>3, <1>4, <1>5, InputFacts

\* As many lines, and the same.
LEMMA AllPrinted ==
    ASSUME PipeTypes, Len(printed) = Len(entered),
           \A i \in 1..Len(printed) : printed[i] = entered[i]
    PROVE  printed = entered
BY SeqEqual DEF PipeTypes

\* The item the consumer finds is the next in order.  If it is the last record,
\* everything has been printed and the producer has nothing more to put.
LEMMA Oldest ==
    ASSUME Pipe!SemPipeAssumption, End \notin Lines, PipeTypes, Flowing,
           pc["consumer"] \in {"cLoad", "cAdvance"}
    PROVE  /\ Out + 1 \in 1..Len(Input) /\ buffer[head] = Input[Out + 1]
           /\ buffer[head] \in Lines \cup {End}
           /\ pc["consumer"] = "cLoad" => Len(printed) = Out
           /\ pc["consumer"] = "cLoad" /\ buffer[head] = End =>
                /\ program \notin Pipe!Counted /\ "producer" \in ended
                /\ pc["producer"] \in {"idle", "pUnlock", "pPost"}
                /\ printed = entered
<1>1. /\ Out \in Nat /\ PR!Stored \in Nat /\ PR!Stored > 0 /\ Bringing \in {0, 1}
      /\ Out + PR!Stored + Bringing = Len(Input)
      /\ PR!Contents[1] = buffer[head]
    BY RingFacts DEF Flowing, Flow, Bringing
<1>2. Out + 1 \in 1..Len(Input) /\ buffer[head] = Input[Out + 1]
  <2>1. 1 \in 1..PR!Stored
    BY <1>1
  <2>2. PR!Contents[1] = Input[Out + 1]
    BY <2>1 DEF Flowing, Flow
  <2> QED
    BY <1>1, <2>2, InputFacts
<1>3. buffer[head] \in Lines \cup {End}
    BY <1>2, InputFacts, ElementOfSeq
<1>4. pc["consumer"] = "cLoad" => Len(printed) = Out
  <2>1. Len(printed) \in Nat
    BY DEF PipeTypes
  <2> QED
    BY <2>1 DEF Out, Got
<1>5. ASSUME pc["consumer"] = "cLoad", buffer[head] = End
      PROVE  /\ program \notin Pipe!Counted /\ "producer" \in ended
             /\ pc["producer"] \in {"idle", "pUnlock", "pPost"}
             /\ printed = entered
  <2>1. Out + 1 \notin 1..Len(entered)
    BY <1>2, <1>5, InputFacts, PipeConstants
  <2>2. Len(Input) = Len(entered) + 1 /\ Out = Len(entered)
    BY <1>1, <1>2, <2>1, InputFacts
  <2>3. Bringing = 0
    BY <1>1, <2>2, InputFacts
  <2>4. printed = entered
    BY <1>4, <1>5, <2>2, PrintedFacts, AllPrinted
  <2>5. pc["producer"] \in {"idle", "pUnlock", "pPost"}
    BY <2>3 DEF Bringing, PipeTypes, PR!PutPcs
  <2> QED
    BY <2>2, <2>4, <2>5, InputFacts
<1> QED
    BY <1>2, <1>3, <1>4, <1>5

\* Where a step may lead.
LEMMA ControlStep ==
    ASSUME PipeTypes, Pipe!Next
    PROVE  /\ program' = program /\ ended' \subseteq {"producer", "consumer"}
           /\ pc' \in [{"producer", "consumer"} -> PR!Pcs]
           /\ pc'["producer"] \in {"idle"} \cup PR!PutPcs
           /\ pc'["consumer"] \in {"idle"} \cup PR!GetPcs
<1>1. program' = program /\ ended' \subseteq {"producer", "consumer"}
    BY DEF Pipe!Next, Pipe!Enter, Pipe!InputEnds, Pipe!CountEnds, Pipe!Take, Pipe!RingStep,
        Pipe!LoadAndPrint, Pipe!QuitUnlock, Pipe!Output, PipeTypes
<1>2. PICK q \in {"producer", "consumer"}, to \in PR!Pcs :
        /\ pc' = pc \/ pc' = [pc EXCEPT ![q] = to]
        /\ q = "producer" => to \in {"idle"} \cup PR!PutPcs
        /\ q = "consumer" => to \in {"idle"} \cup PR!GetPcs
  <2> USE SameSteps DEF PR!Goes, PR!Pcs, PR!PutPcs, PR!GetPcs, PipeTypes
  <2>1. CASE Pipe!InputEnds \/ \E l \in Lines : Pipe!Enter(l)
    <3>1. pc' = [pc EXCEPT !["producer"] = "pEmpty"]
      BY <2>1 DEF Pipe!InputEnds, Pipe!Enter, PR!CallPut
    <3> QED
      BY <3>1
  <2>2. CASE Pipe!CountEnds \/ Pipe!Output
    <3>1. pc' = pc
      BY <2>2 DEF Pipe!CountEnds, Pipe!Output, Pipe!ringVars
    <3> QED
      BY <3>1
  <2>3. CASE Pipe!Take
    <3>1. pc' = [pc EXCEPT !["consumer"] = "cFull"]
      BY <2>3 DEF Pipe!Take, PR!CallGet
    <3> QED
      BY <3>1
  <2>4. CASE Pipe!LoadAndPrint
    <3>1. pc' = [pc EXCEPT !["consumer"] = "cAdvance"]
      BY <2>4 DEF Pipe!LoadAndPrint, PR!Load
    <3> QED
      BY <3>1
  <2>5. CASE Pipe!QuitUnlock
    <3>1. pc' = [pc EXCEPT !["consumer"] = "cPost"]
      BY <2>5 DEF Pipe!QuitUnlock
    <3> QED
      BY <3>1
  <2>6. CASE Pipe!RingStep
    <3>1. CASE PR!PutStep("producer")
      <4>1. \E to \in {"idle"} \cup PR!PutPcs : pc' = [pc EXCEPT !["producer"] = to]
        BY <3>1 DEF PR!PutStep, PR!WaitEmpty, PR!PutLock, PR!Store, PR!PutAdvance, PR!PutUnlock,
            PR!PostFull
      <4> QED
        BY <4>1
    <3>2. CASE PR!GetStep("consumer")
      <4>1. \E to \in {"idle"} \cup PR!GetPcs : pc' = [pc EXCEPT !["consumer"] = to]
        BY <3>2 DEF PR!GetStep, PR!WaitFull, PR!GiveUp, PR!GetLock, PR!Load, PR!GetAdvance,
            PR!GetUnlock, PR!PostEmpty
      <4> QED
        BY <4>1
    <3> QED
      BY <2>6, <3>1, <3>2 DEF Pipe!RingStep
  <2> QED
    BY <2>1, <2>2, <2>3, <2>4, <2>5, <2>6 DEF Pipe!Next
<1> QED
    BY <1>1, <1>2 DEF PipeTypes

\* The items of the threads are of the right kind as long as the ring is sound.
LEMMA ItemTypes ==
    ASSUME PR!Inv'
    PROVE  item' \in [{"producer", "consumer"} -> Lines \cup {End, NoItem}]
<1>1. (Lines \cup {End}) \cup {NoItem} = Lines \cup {End, NoItem}
    OBVIOUS
<1>2. item' \in [{"producer", "consumer"} -> (Lines \cup {End}) \cup {NoItem}]
    BY DEF PR!Inv, PR!Types
<1> QED
    BY <1>1, <1>2

\* A step that neither brings nor takes an item: it is enough that who has one
\* keeps it.
LEMMA Unmoved ==
    ASSUME Flowing, PR!Inv',
           PR!Stored' = PR!Stored, PR!Contents' = PR!Contents,
           UNCHANGED <<program, entered, printed>>, Input' = Input,
           Bringing' = Bringing, Out' = Out, ended' = ended,
           Got' => Got /\ item'["consumer"] = item["consumer"],
           Bringing = 1 => item'["producer"] = item["producer"],
           pc'["consumer"] = "cAdvance" => item'["consumer"] \in Lines,
           "consumer" \in ended => pc'["consumer"] = "idle" /\ item'["consumer"] = NoItem
    PROVE  Flowing'
<1>1. Flow'
    BY DEF Flowing, Flow
<1> QED
    BY <1>1 DEF Flowing

\* The producer in its call.
LEMMA PutRuns ==
    ASSUME Pipe!SemPipeAssumption, End \notin Lines, PipeTypes, Flowing, PR!PutStep("producer"),
           UNCHANGED <<program, entered, printed, ended>>
    PROVE  Flowing'
<1> USE DEF PR!Goes, PR!ring
<1>0. /\ PR!Inv /\ PR!Stored \in Nat /\ Input' = Input
      /\ Len(printed) \in Nat /\ Out \in Nat
    BY RingFacts DEF Flowing, Input, PipeTypes, Flow
<1>1. CASE PR!PutAdvance("producer")
  <2>1. /\ PR!Inv' /\ PR!Stored' = PR!Stored + 1
        /\ PR!Contents' = Append(PR!Contents, item["producer"])
    BY <1>0, <1>1, PipeConstants, PR!CallMoves
  <2>2. /\ Bringing = 1 /\ Bringing' = 0 /\ item' = item
        /\ pc'["consumer"] = pc["consumer"] /\ Out' = Out /\ (Got' <=> Got)
    BY <1>1 DEF PR!PutAdvance, Bringing, Out, Got, PipeTypes
  <2>3. /\ Out + PR!Stored + 1 = Len(Input) /\ item["producer"] = Input[Len(Input)]
        /\ \A i \in 1..PR!Stored : PR!Contents[i] = Input[Out + i]
    BY <2>2 DEF Flowing, Flow
  <2>4. \A i \in 1..PR!Stored' : PR!Contents'[i] = Input[Out + i]
    <3> SUFFICES ASSUME NEW i \in 1..PR!Stored + 1
                 PROVE  Append(PR!Contents, item["producer"])[i] = Input[Out + i]
      BY <2>1
    <3>1. item["producer"] \in Lines \cup {End, NoItem}
      BY DEF PipeTypes
    <3>2. /\ \A j \in 1..PR!Stored : Append(PR!Contents, item["producer"])[j] = PR!Contents[j]
          /\ Append(PR!Contents, item["producer"])[PR!Stored + 1] = item["producer"]
      BY <1>0, <3>1, RingFacts, AppendProperties
    <3>3. CASE i \in 1..PR!Stored
      BY <2>3, <3>2, <3>3
    <3>4. CASE i = PR!Stored + 1
      <4>1. Out + i = Len(Input)
        BY <1>0, <2>3, <3>4
      <4> QED
        BY <2>3, <3>2, <3>4, <4>1
    <3>5. i \in 1..PR!Stored \/ i = PR!Stored + 1
      BY <1>0
    <3> QED
      BY <3>3, <3>4, <3>5
  <2>5. Out' \in Nat /\ Out' + PR!Stored' + Bringing' = Len(Input')
    BY <1>0, <2>1, <2>2, <2>3
  <2>6. /\ \A i \in 1..Len(printed') : printed'[i] = Input'[i]
        /\ \A i \in 1..PR!Stored' : PR!Contents'[i] = Input'[Out' + i]
        /\ Got' => Out' >= 1 /\ item'["consumer"] = Input'[Out']
        /\ Bringing' # 1
    BY <1>0, <2>2, <2>4 DEF Flowing, Flow
  <2>7. Flow'
    BY <2>5, <2>6 DEF Flow
  <2> QED
    BY <2>1, <2>2, <2>7 DEF Flowing
<1>2. CASE ~PR!PutAdvance("producer")
  <2>1. PR!Silent("producer")
    BY <1>2 DEF PR!Silent, PR!PutStep
  <2>2. PR!Inv' /\ PR!Stored' = PR!Stored /\ PR!Contents' = PR!Contents
    BY <1>0, <2>1, PipeConstants, PR!CallMoves
  <2>3. /\ pc'["consumer"] = pc["consumer"] /\ item'["consumer"] = item["consumer"]
        /\ Bringing' = Bringing /\ (Bringing = 1 => item'["producer"] = item["producer"])
    BY <1>2 DEF PR!PutStep, PR!WaitEmpty, PR!PutLock, PR!Store, PR!PutUnlock, PR!PostFull,
        Bringing, PipeTypes
  <2>4. Out' = Out /\ (Got' <=> Got)
    BY <2>3 DEF Out, Got
  <2> QED
    BY <1>0, <2>2, <2>3, <2>4, Unmoved DEF Flowing
<1> QED
    BY <1>1, <1>2

\* The consumer takes an item out of the ring.
LEMMA GetAdvances ==
    ASSUME Pipe!SemPipeAssumption, End \notin Lines, PipeTypes, Flowing, PR!GetAdvance("consumer"),
           UNCHANGED <<program, entered, printed, ended>>
    PROVE  Flowing'
<1> USE DEF PR!Goes
<1>0. /\ PR!Inv /\ PR!Stored \in Nat /\ Input' = Input
      /\ Len(printed) \in Nat /\ Out \in Nat /\ pc["consumer"] = "cAdvance"
    BY RingFacts DEF Flowing, Input, PipeTypes, Flow, PR!GetAdvance
<1>1. /\ PR!Inv' /\ PR!Stored' = PR!Stored - 1 /\ PR!Stored > 0
      /\ PR!Contents' = Tail(PR!Contents)
    BY <1>0, PipeConstants, PR!CallMoves
<1>2. /\ pc'["consumer"] = "cUnlock" /\ pc'["producer"] = pc["producer"]
      /\ item' = item /\ Bringing' = Bringing /\ Got'
    BY DEF PR!GetAdvance, Bringing, Got, PipeTypes
<1>3. Out' = Out + 1
    BY <1>0, <1>2 DEF Out, Got
<1>4. item["consumer"] = Input[Out + 1] /\ item["consumer"] \in Lines
    BY <1>0, Oldest, RingFacts DEF Flowing
<1>5. \A i \in 1..PR!Stored' : PR!Contents'[i] = Input'[Out' + i]
  <2>1. SUFFICES ASSUME NEW i \in 1..PR!Stored - 1
                 PROVE  Tail(PR!Contents)[i] = Input[Out + 1 + i]
    BY <1>0, <1>1, <1>3
  <2>2. Tail(PR!Contents)[i] = PR!Contents[i + 1]
    <3>1. PR!Contents # << >> /\ i \in 1..Len(PR!Contents) - 1
      BY <1>0, <1>1, RingFacts
    <3>2. Len(Tail(PR!Contents)) = Len(PR!Contents) - 1
      BY <3>1, RingFacts, HeadTailProperties
    <3> QED
      BY <3>1, <3>2, RingFacts, HeadTailProperties
  <2>3. i + 1 \in 1..PR!Stored /\ Out + (i + 1) = Out + 1 + i
    BY <1>0, <2>1
  <2>4. PR!Contents[i + 1] = Input[Out + (i + 1)]
    BY <2>3 DEF Flowing, Flow
  <2> QED
    BY <2>2, <2>3, <2>4
<1>6. Out' \in Nat /\ Out' + PR!Stored' + Bringing' = Len(Input')
  <2>1. Out + PR!Stored + Bringing = Len(Input) /\ Bringing \in {0, 1}
    BY DEF Flowing, Flow, Bringing
  <2> QED
    BY <1>0, <1>1, <1>2, <1>3, <2>1
<1>7. /\ \A i \in 1..Len(printed') : printed'[i] = Input'[i]
      /\ Got' => Out' >= 1 /\ item'["consumer"] = Input'[Out']
      /\ Bringing' = 1 => item'["producer"] = Input'[Len(Input')]
    BY <1>0, <1>2, <1>3, <1>4 DEF Flowing, Flow
<1>8. Flow'
    BY <1>5, <1>6, <1>7 DEF Flow
<1> QED
    BY <1>0, <1>1, <1>2, <1>4, <1>8 DEF Flowing

\* The consumer looks at an item, and prints it at once or not.
LEMMA LoadRuns ==
    ASSUME Pipe!SemPipeAssumption, End \notin Lines, PipeTypes, Flowing, PR!Load("consumer"),
           UNCHANGED <<program, entered, ended>>,
           IF program \in Pipe!PrintsInside THEN Pipe!Prints(buffer[head])
                                            ELSE printed' = printed
    PROVE  PR!Inv' /\ printed' \in Seq(Lines) /\ (Flowing' \/ Over')
<1> USE DEF PR!Goes, PR!ring
<1>0. /\ PR!Inv /\ PR!Stored \in Nat /\ Input' = Input
      /\ Len(printed) \in Nat /\ Out \in Nat /\ pc["consumer"] = "cLoad"
    BY RingFacts DEF Flowing, Input, PipeTypes, Flow, PR!Load
<1>1. PR!Inv' /\ PR!Stored' = PR!Stored /\ PR!Contents' = PR!Contents
    BY <1>0, PipeConstants, PR!CallMoves DEF PR!Silent
<1>2. /\ pc'["consumer"] = "cAdvance" /\ pc'["producer"] = pc["producer"]
      /\ item'["consumer"] = buffer[head] /\ item'["producer"] = item["producer"]
      /\ Bringing' = Bringing /\ ~Got'
    BY DEF PR!Load, Bringing, Got, PipeTypes
<1>3. /\ Out + 1 \in 1..Len(Input) /\ buffer[head] = Input[Out + 1]
      /\ buffer[head] \in Lines \cup {End} /\ Len(printed) = Out
    BY <1>0, Oldest
<1>4. CASE buffer[head] = End
  <2>1. /\ program \notin Pipe!Counted /\ "producer" \in ended
        /\ pc["producer"] \in {"idle", "pUnlock", "pPost"}
        /\ printed = entered
    BY <1>0, <1>4, Oldest
  <2>2. printed' = printed
    BY <1>4 DEF Pipe!Prints
  <2>3. Over'
    BY <1>2, <1>4, <2>1, <2>2 DEF Over
  <2> QED
    BY <1>1, <2>2, <2>3 DEF PipeTypes
<1>5. CASE buffer[head] \in Lines
  <2>0. "consumer" \notin ended /\ buffer[head] # End
    BY <1>0, <1>5, PipeConstants DEF Flowing
  <2>1. CASE program \in Pipe!PrintsInside
    <3>1. printed' = Append(printed, buffer[head])
      BY <2>0, <2>1 DEF Pipe!Prints
    <3>2. /\ printed' \in Seq(Lines) /\ Len(printed') = Len(printed) + 1
          /\ \A i \in 1..Len(printed) : printed'[i] = printed[i]
          /\ printed'[Len(printed) + 1] = buffer[head]
      BY <1>5, <3>1, AppendProperties DEF PipeTypes
    <3>3. Out' = Out
      BY <1>0, <1>2, <1>3, <2>1, <3>2 DEF Out
    <3>4. \A i \in 1..Len(printed') : printed'[i] = Input'[i]
      <4> TAKE i \in 1..Len(printed')
      <4>1. i \in 1..Len(printed) \/ i = Len(printed) + 1
        BY <1>0, <3>2
      <4> QED
        BY <1>0, <1>3, <3>2, <4>1 DEF Flowing, Flow
    <3>5. Flow'
      BY <1>0, <1>1, <1>2, <3>3, <3>4 DEF Flowing, Flow
    <3>6. Flowing'
      BY <1>0, <1>1, <1>2, <1>5, <2>0, <3>5 DEF Flowing
    <3> QED
      BY <1>1, <3>2, <3>6
  <2>2. CASE program \notin Pipe!PrintsInside
    <3>1. printed' = printed
      BY <2>2
    <3>2. Out' = Out
      BY <1>0, <1>2, <2>2, <3>1 DEF Out, Got
    <3>3. Flowing'
      BY <1>0, <1>1, <1>2, <1>5, <2>0, <3>1, <3>2, Unmoved
    <3> QED
      BY <1>1, <3>1, <3>3 DEF PipeTypes
  <2> QED
    BY <2>1, <2>2
<1> QED
    BY <1>3, <1>4, <1>5

\* The consumer in its call, when it has not met the last record.
LEMMA GetRuns ==
    ASSUME Pipe!SemPipeAssumption, End \notin Lines, PipeTypes, Flowing, PR!GetStep("consumer"),
           ~(program \in Pipe!PrintsInside /\ pc["consumer"] = "cLoad"),
           UNCHANGED <<program, entered, printed, ended>>
    PROVE  PR!Inv' /\ (Flowing' \/ Over')
<1> USE DEF PR!Goes, PR!ring
<1>1. CASE PR!GetAdvance("consumer")
    BY <1>1, GetAdvances DEF Flowing
<1>2. CASE PR!Load("consumer")
    BY <1>2, LoadRuns DEF PR!Load
<1>3. CASE ~PR!GetAdvance("consumer") /\ ~PR!Load("consumer")
  <2>0. PR!Inv /\ Input' = Input
    BY DEF Flowing, Input
  <2>1. PR!Silent("consumer")
    BY <1>3 DEF PR!Silent, PR!GetStep
  <2>2. PR!Inv' /\ PR!Stored' = PR!Stored /\ PR!Contents' = PR!Contents
    BY <2>0, <2>1, PipeConstants, PR!CallMoves
  <2>3. /\ pc'["producer"] = pc["producer"] /\ item' = item
        /\ pc["consumer"] \notin {"idle", "cAdvance"} /\ pc'["consumer"] # "cAdvance"
        /\ Got' <=> Got
    BY <1>3 DEF PR!GetStep, PR!WaitFull, PR!GiveUp, PR!GetLock, PR!GetUnlock,
        PR!PostEmpty, PR!Load, PR!GetAdvance, PipeTypes, Got, Flowing
  <2>4. Out' = Out /\ Bringing' = Bringing
    BY <2>3 DEF Out, Bringing
  <2>5. Flowing'
    BY <2>0, <2>2, <2>3, <2>4, Unmoved DEF Flowing
  <2> QED
    BY <2>2, <2>5
<1> QED
    BY <1>1, <1>2, <1>3

\* producer() is called with the next line, or with the last record.
LEMMA CallRuns ==
    ASSUME Pipe!SemPipeAssumption, End \notin Lines, PipeTypes, Flowing, "producer" \notin ended,
           NEW i \in Lines \cup {End}, PR!CallPut("producer", i),
           Input' = Append(Input, i), UNCHANGED <<program, printed>>,
           Len(entered') <= MaxLines,
           \/ ended' = ended
           \/ program \notin Pipe!Counted /\ ended' = ended \cup {"producer"}
    PROVE  PR!Inv' /\ Flowing'
<1> USE DEF PR!Goes, PR!ring
<1>0. /\ PR!Inv /\ PR!Stored \in Nat /\ Len(printed) \in Nat /\ Out \in Nat
      /\ pc["producer"] = "idle" /\ Len(printed) <= Len(Input)
    BY RingFacts, PrintedFacts DEF Flowing, PipeTypes, Flow, PR!CallPut
<1>1. PR!Inv' /\ PR!Stored' = PR!Stored /\ PR!Contents' = PR!Contents
    BY <1>0, PipeConstants, PR!CallMoves
<1>2. /\ pc'["consumer"] = pc["consumer"] /\ item'["consumer"] = item["consumer"]
      /\ item'["producer"] = i /\ Bringing = 0 /\ Bringing' = 1
    BY DEF PR!CallPut, Bringing, PipeTypes
<1>3. Out' = Out /\ (Got' <=> Got)
    BY <1>2 DEF Out, Got
<1>4. /\ Len(Input) \in Nat /\ Len(Input') = Len(Input) + 1
      /\ \A j \in 1..Len(Input) : Input'[j] = Input[j]
      /\ Input'[Len(Input')] = i
    BY InputFacts, AppendProperties
<1>5. Out + PR!Stored = Len(Input)
    BY <1>0, <1>2 DEF Flowing, Flow
<1>6. \A j \in 1..Len(printed') : printed'[j] = Input'[j]
  <2> TAKE j \in 1..Len(printed')
  <2>1. j \in 1..Len(printed) /\ j \in 1..Len(Input)
    BY <1>0, <1>4
  <2> QED
    BY <1>4, <2>1 DEF Flowing, Flow
<1>7. \A j \in 1..PR!Stored' : PR!Contents'[j] = Input'[Out' + j]
  <2> SUFFICES ASSUME NEW j \in 1..PR!Stored PROVE PR!Contents[j] = Input'[Out + j]
    BY <1>1, <1>3
  <2>1. Out + j \in 1..Len(Input)
    BY <1>0, <1>4, <1>5
  <2> QED
    BY <1>4, <2>1 DEF Flowing, Flow
<1>8. Got' => Out' >= 1 /\ item'["consumer"] = Input'[Out']
  <2>1. Got => Out \in 1..Len(Input)
    BY <1>0, <1>4, <1>5 DEF Flowing, Flow
  <2> QED
    BY <1>2, <1>3, <1>4, <2>1 DEF Flowing, Flow
<1>9. Out' \in Nat /\ Out' + PR!Stored' + Bringing' = Len(Input')
    BY <1>0, <1>1, <1>2, <1>3, <1>4, <1>5
<1>10. Flow'
    BY <1>2, <1>4, <1>6, <1>7, <1>8, <1>9 DEF Flow
<1> QED
    BY <1>0, <1>1, <1>2, <1>3, <1>10 DEF Flowing

\* The consumer calls consumer().
LEMMA TakeRuns ==
    ASSUME Pipe!SemPipeAssumption, End \notin Lines, PipeTypes, Flowing, Pipe!Take
    PROVE  PR!Inv' /\ Flowing'
<1> USE DEF PR!Goes, PR!ring
<1>1. /\ PR!CallGet("consumer") /\ "consumer" \notin ended /\ item["consumer"] = NoItem
      /\ UNCHANGED <<program, entered, printed, ended>> /\ Input' = Input /\ PR!Inv
    BY SameSteps DEF Pipe!Take, Input, Flowing
<1>2. PR!Inv' /\ PR!Stored' = PR!Stored /\ PR!Contents' = PR!Contents
    BY <1>1, PipeConstants, PR!CallMoves DEF PR!Silent
<1>3. /\ pc["consumer"] = "idle" /\ pc'["consumer"] = "cFull"
      /\ pc'["producer"] = pc["producer"] /\ item' = item /\ ~Got /\ ~Got'
    BY <1>1 DEF PR!CallGet, PipeTypes, Got
<1>4. Out' = Out /\ Bringing' = Bringing
    BY <1>1, <1>3 DEF Out, Bringing
<1> QED
    BY <1>1, <1>2, <1>3, <1>4, Unmoved

\* The ring is none of the business of a thread between two calls.
LEMMA SameRing ==
    ASSUME PipeTypes, PR!Inv, UNCHANGED <<mutex, empty, full, buffer, head, tail, pc>>,
           \/ item' = item
           \/ pc["consumer"] = "idle" /\ item' = [item EXCEPT !["consumer"] = NoItem]
    PROVE  PR!Inv' /\ PR!Stored' = PR!Stored /\ PR!Contents' = PR!Contents
<1>1. PR!Stored' = PR!Stored
    BY DEF PR!Stored, PR!At
<1>2. PR!Contents' = PR!Contents
    BY <1>1 DEF PR!Contents
<1>3. PR!Types' /\ PR!SlotInv'
    BY DEF PR!Inv, PR!Types, PR!SlotInv, PR!Phase, PipeTypes
<1>4. PR!TokenInv' /\ PR!RingInv'
    BY <1>1 DEF PR!Inv, PR!TokenInv, PR!RingInv, PR!Count, PR!At
<1> QED
    BY <1>1, <1>2, <1>3, <1>4 DEF PR!Inv

\* A producer that counts ends.
LEMMA CountRuns ==
    ASSUME Pipe!SemPipeAssumption, End \notin Lines, PipeTypes, Flowing, Pipe!CountEnds
    PROVE  PR!Inv' /\ Flowing'
<1>1. /\ program \in Pipe!Counted /\ Len(entered) = MaxLines
      /\ ended' = ended \cup {"producer"} /\ pc' = pc /\ item' = item
      /\ UNCHANGED <<program, entered, printed, mutex, empty, full, buffer, head, tail>>
    BY DEF Pipe!CountEnds, Pipe!ringVars
<1>2. PR!Inv' /\ PR!Stored' = PR!Stored /\ PR!Contents' = PR!Contents
    BY <1>1, SameRing DEF Flowing
<1>3. Input' = Input
    BY <1>1 DEF Input
<1>4. Out' = Out /\ Bringing' = Bringing /\ (Got' <=> Got)
    BY <1>1 DEF Out, Bringing, Got
<1>5. Flow'
    BY <1>1, <1>2, <1>3, <1>4 DEF Flowing, Flow
<1> QED
    BY <1>1, <1>2, <1>4, <1>5 DEF Flowing

\* consumer() has returned a line.
LEMMA OutputRuns ==
    ASSUME Pipe!SemPipeAssumption, End \notin Lines, PipeTypes, Flowing, Pipe!Output
    PROVE  PR!Inv' /\ printed' \in Seq(Lines) /\ Flowing'
<1>0. /\ PR!Inv /\ Len(printed) \in Nat /\ Out \in Nat /\ PR!Stored \in Nat
      /\ Bringing \in {0, 1} /\ Out + PR!Stored + Bringing = Len(Input)
    BY RingFacts DEF Flowing, Flow, PipeTypes, Bringing
<1>1. /\ pc["consumer"] = "idle" /\ pc' = pc /\ Got
      /\ item["consumer"] \in Lines /\ item["consumer"] # End
      /\ item["consumer"] = Input[Out] /\ Out >= 1
    BY PipeConstants DEF Pipe!Output, Got, Flowing, Flow
<1>2. /\ UNCHANGED <<program, entered, mutex, empty, full, buffer, head, tail>>
      /\ item' = [item EXCEPT !["consumer"] = NoItem]
    BY <1>1 DEF Pipe!Output, Pipe!HasQuit
<1>3. PR!Inv' /\ PR!Stored' = PR!Stored /\ PR!Contents' = PR!Contents
    BY <1>0, <1>1, <1>2, SameRing
<1>4. /\ item'["producer"] = item["producer"] /\ item'["consumer"] = NoItem
      /\ ~Got' /\ Bringing' = Bringing
    BY <1>1, <1>2 DEF PipeTypes, Got, Bringing
<1>5. /\ ("producer" \in ended') <=> ("producer" \in ended)
      /\ "consumer" \in ended' =>
           "consumer" \in ended \/ (program \in Pipe!Counted /\ Len(printed') = MaxLines)
    BY <1>1 DEF Pipe!Output
<1>6. "consumer" \notin ended
    BY <1>1, PipeConstants DEF Flowing
<1>7. Input' = Input
    BY <1>2, <1>5 DEF Input
<1>8. /\ printed' \in Seq(Lines) /\ Out' = Out
      /\ \A i \in 1..Len(printed') : printed'[i] = Input[i]
  <2>1. CASE program \in Pipe!PrintsInside
    <3>1. printed' = printed
      BY <2>1 DEF Pipe!Output
    <3>2. Out' = Out
      BY <1>1, <1>2, <2>1, <3>1 DEF Out
    <3> QED
      BY <3>1, <3>2 DEF PipeTypes, Flowing, Flow
  <2>2. CASE program \notin Pipe!PrintsInside
    <3>1. printed' = Append(printed, item["consumer"])
      BY <1>1, <2>2 DEF Pipe!Output, Pipe!Prints
    <3>2. /\ printed' \in Seq(Lines) /\ Len(printed') = Len(printed) + 1
          /\ \A i \in 1..Len(printed) : printed'[i] = printed[i]
          /\ printed'[Len(printed) + 1] = item["consumer"]
      BY <1>1, <3>1, AppendProperties DEF PipeTypes
    <3>3. Out = Len(printed) + 1
      BY <1>0, <1>1, <2>2 DEF Out
    <3>4. Out' = Out
      BY <1>0, <1>2, <1>4, <2>2, <3>2, <3>3 DEF Out
    <3>5. \A i \in 1..Len(printed') : printed'[i] = Input[i]
      <4> TAKE i \in 1..Len(printed')
      <4>1. i \in 1..Len(printed) \/ i = Len(printed) + 1
        BY <1>0, <3>2
      <4> QED
        BY <1>1, <3>2, <3>3, <4>1 DEF Flowing, Flow
    <3> QED
      BY <3>2, <3>4, <3>5
  <2> QED
    BY <2>1, <2>2
<1>9. Flow'
    BY <1>0, <1>2, <1>3, <1>4, <1>7, <1>8 DEF Flowing, Flow
<1>10. Flowing'
    BY <1>1, <1>2, <1>3, <1>4, <1>5, <1>6, <1>9 DEF Flowing
<1> QED
    BY <1>3, <1>8, <1>10

\* Once the consumer has the last record nothing is put or printed any more.
LEMMA OverStep ==
    ASSUME Pipe!SemPipeAssumption, End \notin Lines, PipeTypes, Over, Pipe!Next
    PROVE  /\ Over' /\ UNCHANGED <<entered, printed>>
           /\ item' \in [{"producer", "consumer"} -> Lines \cup {End, NoItem}]
<1> USE DEF PR!Goes, PR!ring, Over, PipeTypes
<1>1. CASE Pipe!CountEnds \/ Pipe!InputEnds \/ \E l \in Lines : Pipe!Enter(l)
    BY <1>1 DEF Pipe!CountEnds, Pipe!InputEnds, Pipe!Enter
<1>2. CASE Pipe!Take
    BY <1>2, PipeConstants DEF Pipe!Take
<1>3. CASE Pipe!LoadAndPrint
    BY <1>3, SameSteps DEF Pipe!LoadAndPrint, PR!Load
<1>4. CASE Pipe!QuitUnlock
    BY <1>4 DEF Pipe!QuitUnlock
<1>5. CASE Pipe!Output
  <2>1. /\ item["consumer"] = End \/ "consumer" \in ended
        /\ pc' = pc /\ item' = [item EXCEPT !["consumer"] = NoItem]
        /\ UNCHANGED <<program, entered>>
    BY <1>5 DEF Pipe!Output
  <2>2. CASE item["consumer"] = End
    <3>1. printed' = printed /\ ended' = ended \cup {"consumer"}
      BY <1>5, <2>2 DEF Pipe!Output, Pipe!Prints
    <3> QED
      BY <1>5, <2>1, <3>1 DEF Pipe!Output
  <2>3. CASE item["consumer"] # End
    BY <1>5, <2>3 DEF Pipe!Output
  <2> QED
    BY <2>2, <2>3
<1>6. CASE Pipe!RingStep /\ PR!PutStep("producer")
  <2>1. UNCHANGED <<program, entered, printed, ended>>
    BY <1>6 DEF Pipe!RingStep
  <2>2. CASE PR!PutUnlock("producer") \/ PR!PostFull("producer")
    BY <2>1, <2>2 DEF PR!PutUnlock, PR!PostFull
  <2>3. ~(\/ PR!WaitEmpty("producer") \/ PR!PutLock("producer") \/ PR!Store("producer")
          \/ PR!PutAdvance("producer"))
    BY DEF PR!WaitEmpty, PR!PutLock, PR!Store, PR!PutAdvance
  <2> QED
    BY <1>6, <2>2, <2>3 DEF PR!PutStep
<1>7. CASE Pipe!RingStep /\ PR!GetStep("consumer")
  <2>1. UNCHANGED <<program, entered, printed, ended>>
    BY <1>7 DEF Pipe!RingStep
  <2>2. CASE PR!GetAdvance("consumer") \/ PR!GetUnlock("consumer") \/ PR!PostEmpty("consumer")
    BY <2>1, <2>2 DEF PR!GetAdvance, PR!GetUnlock, PR!PostEmpty
  <2>3. ~(\/ PR!WaitFull("consumer") \/ PR!GiveUp("consumer") \/ PR!GetLock("consumer")
          \/ PR!Load("consumer"))
    BY DEF PR!WaitFull, PR!GiveUp, PR!GetLock, PR!Load
  <2> QED
    BY <1>7, <2>2, <2>3 DEF PR!GetStep
<1> QED
    BY <1>1, <1>2, <1>3, <1>4, <1>5, <1>6, <1>7, SameSteps DEF Pipe!Next, Pipe!RingStep

\* Before the consumer has met the last record every step keeps the order ...
LEMMA FlowingStep ==
    ASSUME Pipe!SemPipeAssumption, End \notin Lines, PipeTypes, Flowing, Pipe!Next
    PROVE  /\ PR!Inv' /\ (Flowing' \/ Over')
           /\ entered' \in Seq(Lines) /\ printed' \in Seq(Lines)
<1>1. ASSUME NEW l \in Lines, Pipe!Enter(l)
      PROVE  /\ PR!Inv' /\ Flowing'
             /\ entered' \in Seq(Lines) /\ printed' \in Seq(Lines)
  <2>1. /\ PR!CallPut("producer", l) /\ "producer" \notin ended /\ Len(entered) < MaxLines
        /\ entered' = Append(entered, l) /\ UNCHANGED <<program, printed, ended>>
    BY <1>1, SameSteps DEF Pipe!Enter
  <2>2. Input' = Append(Input, l)
    BY <2>1 DEF Input
  <2>3. entered' \in Seq(Lines) /\ Len(entered') <= MaxLines
    BY <2>1, PipeConstants, AppendProperties DEF PipeTypes
  <2>4. l \in Lines \cup {End}
    OBVIOUS
  <2> QED
    BY <2>1, <2>2, <2>3, <2>4, CallRuns DEF PipeTypes
<1>2. CASE Pipe!InputEnds
  <2>1. /\ PR!CallPut("producer", End) /\ "producer" \notin ended /\ program \notin Pipe!Counted
        /\ ended' = ended \cup {"producer"} /\ UNCHANGED <<program, entered, printed>>
    BY <1>2, SameSteps DEF Pipe!InputEnds
  <2>2. Input' = Append(Input, End) /\ Len(entered') <= MaxLines
    BY <2>1 DEF Input, Flowing
  <2>3. End \in Lines \cup {End}
    OBVIOUS
  <2> QED
    BY <2>1, <2>2, <2>3, CallRuns DEF PipeTypes
<1>3. CASE Pipe!CountEnds
  <2>1. UNCHANGED <<entered, printed>>
    BY <1>3 DEF Pipe!CountEnds
  <2> QED
    BY <1>3, <2>1, CountRuns DEF PipeTypes
<1>4. CASE Pipe!Take
  <2>1. UNCHANGED <<entered, printed>>
    BY <1>4 DEF Pipe!Take
  <2> QED
    BY <1>4, <2>1, TakeRuns DEF PipeTypes
<1>5. CASE Pipe!RingStep
  <2>1. UNCHANGED <<program, entered, printed, ended>>
    BY <1>5 DEF Pipe!RingStep
  <2>2. CASE PR!PutStep("producer")
    <3>1. Flowing'
      BY <2>1, <2>2, PutRuns
    <3> QED
      BY <2>1, <3>1 DEF PipeTypes, Flowing
  <2>3. CASE PR!GetStep("consumer") /\ ~(program \in Pipe!PrintsInside /\ pc["consumer"] = "cLoad")
    <3>1. PR!Inv' /\ (Flowing' \/ Over')
      BY <2>1, <2>3, GetRuns
    <3> QED
      BY <2>1, <3>1 DEF PipeTypes
  <2> QED
    BY <1>5, <2>2, <2>3, SameSteps DEF Pipe!RingStep
<1>6. CASE Pipe!LoadAndPrint
  <2>1. /\ PR!Load("consumer") /\ UNCHANGED <<program, entered, ended>>
        /\ program \in Pipe!PrintsInside /\ Pipe!Prints(buffer[head])
    BY <1>6, SameSteps DEF Pipe!LoadAndPrint
  <2>2. PR!Inv' /\ printed' \in Seq(Lines) /\ (Flowing' \/ Over')
    BY <2>1, LoadRuns
  <2> QED
    BY <2>1, <2>2 DEF PipeTypes
<1>7. CASE Pipe!QuitUnlock
  <2>1. item["consumer"] = End /\ pc["consumer"] = "cAdvance"
    BY <1>7 DEF Pipe!QuitUnlock, Pipe!HasQuit
  <2> QED
    BY <2>1, PipeConstants DEF Flowing
<1>8. CASE Pipe!Output
  <2>1. entered' = entered
    BY <1>8 DEF Pipe!Output
  <2> QED
    BY <1>8, <2>1, OutputRuns DEF PipeTypes
<1> QED
    BY <1>1, <1>2, <1>3, <1>4, <1>5, <1>6, <1>7, <1>8 DEF Pipe!Next

\* ... and so does every step of the program.
LEMMA PipeStep ==
    ASSUME Pipe!SemPipeAssumption, End \notin Lines, PipeInv, [Pipe!Next]_(Pipe!vars)
    PROVE  PipeInv'
<1>1. CASE Pipe!Next
  <2>1. CASE Flowing
    <3>1. /\ PR!Inv' /\ (Flowing' \/ Over')
          /\ entered' \in Seq(Lines) /\ printed' \in Seq(Lines)
      BY <1>1, <2>1, FlowingStep DEF PipeInv
    <3> QED
      BY <1>1, <3>1, ControlStep, ItemTypes DEF PipeInv, PipeTypes
  <2>2. CASE Over
    <3>1. /\ Over' /\ UNCHANGED <<entered, printed>>
          /\ item' \in [{"producer", "consumer"} -> Lines \cup {End, NoItem}]
      BY <1>1, <2>2, OverStep DEF PipeInv
    <3> QED
      BY <1>1, <3>1, ControlStep DEF PipeInv, PipeTypes
  <2> QED
    BY <2>1, <2>2 DEF PipeInv
<1>2. CASE UNCHANGED Pipe!vars
  <2>1. UNCHANGED <<mutex, empty, full, buffer, head, tail, pc, item,
                    program, entered, printed, ended>>
    BY <1>2 DEF Pipe!vars, Pipe!ringVars
  <2>2. CASE Flowing
    <3>1. PR!Inv' /\ PR!Stored' = PR!Stored /\ PR!Contents' = PR!Contents
      BY <2>1, <2>2, SameRing DEF Flowing, PipeInv
    <3>2. Input' = Input /\ Out' = Out /\ Bringing' = Bringing /\ (Got' <=> Got)
      BY <2>1 DEF Input, Out, Bringing, Got
    <3>3. Flowing'
      BY <2>1, <2>2, <3>1, <3>2, Unmoved DEF Flowing
    <3> QED
      BY <2>1, <3>3 DEF PipeInv, PipeTypes
  <2>3. CASE Over
    BY <2>1, <2>3 DEF PipeInv, PipeTypes, Over
  <2> QED
    BY <2>2, <2>3 DEF PipeInv
<1> QED
    BY <1>1, <1>2

\* Both threads have ended: also those that count have handled the same number.
LEMMA PipePrints ==
    ASSUME Pipe!SemPipeAssumption, End \notin Lines, PipeInv
    PROVE  Pipe!PrintsInput
<1>1. Len(printed) \in Nat /\ Len(entered) \in Nat
    BY DEF PipeInv, PipeTypes
<1>2. CASE Flowing
  <2>1. /\ Len(printed) <= Len(entered)
        /\ \A i \in 1..Len(printed) : printed[i] = entered[i]
    BY <1>2, PrintedFacts DEF PipeInv
  <2>2. printed = SubSeq(entered, 1, Len(printed))
    <3>1. /\ SubSeq(entered, 1, Len(printed)) \in Seq(Lines)
          /\ Len(SubSeq(entered, 1, Len(printed))) = Len(printed)
          /\ \A i \in 1..Len(printed) : SubSeq(entered, 1, Len(printed))[i] = entered[i]
      BY <1>1, <2>1, SubSeqProperties DEF PipeInv, PipeTypes
    <3> QED
      BY <2>1, <3>1, SeqEqual DEF PipeInv, PipeTypes
  <2>3. ASSUME Pipe!Joined PROVE printed = entered
    <3>1. Len(printed) = Len(entered)
      BY <1>2, <2>3 DEF Pipe!Joined, Flowing
    <3> QED
      BY <2>1, <3>1, AllPrinted DEF PipeInv
  <2> QED
    BY <2>1, <2>2, <2>3 DEF Pipe!PrintsInput
<1>3. CASE Over
  <2>1. printed = entered
    BY <1>3 DEF Over
  <2>2. SubSeq(entered, 1, Len(entered)) = entered
    <3>1. /\ SubSeq(entered, 1, Len(entered)) \in Seq(Lines)
          /\ Len(SubSeq(entered, 1, Len(entered))) = Len(entered)
          /\ \A i \in 1..Len(entered) : SubSeq(entered, 1, Len(entered))[i] = entered[i]
      BY <1>1, SubSeqProperties DEF PipeInv, PipeTypes
    <3> QED
      BY <3>1, SeqEqual DEF PipeInv, PipeTypes
  <2> QED
    BY <1>1, <2>1, <2>2 DEF Pipe!PrintsInput
<1> QED
    BY <1>2, <1>3 DEF PipeInv

\* The programs of two threads print their input, in order, and all of it before
\* main() has joined both: whatever the number of lines and of slots, and also
\* where the consumer quits with head still to be advanced (cv3_queue.cpp).  A
\* line that reads like the last record would be taken for it.
THEOREM PrintsInputAlways ==
    ASSUME Pipe!SemPipeAssumption, End \notin Lines
    PROVE  Pipe!Spec => []Pipe!PrintsInput
<1>1. Pipe!Init => PipeInv
    BY PipeInit
<1>2. PipeInv /\ [Pipe!Next]_(Pipe!vars) => PipeInv'
    BY PipeStep
<1>3. PipeInv => Pipe!PrintsInput
    BY PipePrints
<1> QED
    BY <1>1, <1>2, <1>3, PTL DEF Pipe!Spec

\* A consumer that counts and has not left still has items to come, when it is
\* about to take one.
Fresh ==
    \/ pc["consumer"] \in {"cFull", "cMutex", "cLoad"}
    \/ pc["consumer"] = "idle" /\ item["consumer"] = NoItem

MoreInv ==
    program \in Pipe!Counted /\ "consumer" \notin ended /\ Fresh => Len(printed) < MaxLines

LEMMA MoreInit ==
    ASSUME Pipe!SemPipeAssumption, End \notin Lines, Pipe!Init PROVE MoreInv
BY PipeConstants DEF Pipe!Init, MoreInv

\* A program that counts prints no more than it has to.
FewPrinted ==
    program \in Pipe!Counted => Len(printed) \in Nat /\ Len(printed) <= MaxLines

\* A program that counts never comes to a last record either.
LEMMA CountedFacts ==
    ASSUME Pipe!SemPipeAssumption, End \notin Lines, PipeInv, program \in Pipe!Counted
    PROVE  /\ Flowing /\ PR!Inv
           /\ FewPrinted
           /\ Got => item["consumer"] # NoItem
<1>1. Flowing /\ PR!Inv
    BY DEF PipeInv, Over, Flowing
<1>2. Len(printed) \in Nat /\ Len(printed) <= Len(entered) /\ Len(entered) <= MaxLines
    BY <1>1, PrintedFacts DEF PipeInv, Flowing
<1>3. Len(entered) \in Nat
    BY DEF PipeInv, PipeTypes
<1> QED
    BY <1>1, <1>2, <1>3, PipeConstants DEF Flowing, FewPrinted

LEMMA MoreStep ==
    ASSUME Pipe!SemPipeAssumption, End \notin Lines, PipeInv, FewPrinted', MoreInv,
           [Pipe!Next]_(Pipe!vars)
    PROVE  MoreInv'
<1> SUFFICES ASSUME program' \in Pipe!Counted, "consumer" \notin ended', Fresh'
             PROVE  Len(printed') < MaxLines
    BY DEF MoreInv
<1>0. /\ program' = program /\ ended \subseteq ended'
      /\ PipeTypes
    BY DEF Pipe!Next, Pipe!Enter, Pipe!InputEnds, Pipe!CountEnds, Pipe!Take, Pipe!RingStep,
        Pipe!LoadAndPrint, Pipe!QuitUnlock, Pipe!Output, Pipe!vars, PipeInv
<1>1. /\ program \in Pipe!Counted /\ "consumer" \notin ended
      /\ Flowing /\ (Fresh => Len(printed) < MaxLines)
      /\ Len(printed') \in Nat /\ Len(printed') <= MaxLines
    BY <1>0, CountedFacts DEF MoreInv, FewPrinted
<1>2. ASSUME Fresh, printed' = printed PROVE Len(printed') < MaxLines
    BY <1>1, <1>2
<1>3. CASE Pipe!CountEnds \/ Pipe!InputEnds \/ \E l \in Lines : Pipe!Enter(l)
  <2>1. pc'["consumer"] = pc["consumer"] /\ item'["consumer"] = item["consumer"] /\ printed' = printed
    BY <1>0, <1>3 DEF Pipe!CountEnds, Pipe!InputEnds, Pipe!Enter, Pipe!R!CallPut, Pipe!R!Goes,
        Pipe!ringVars, PipeTypes
  <2> QED
    BY <1>2, <2>1 DEF Fresh
<1>4. CASE Pipe!Take
  <2>1. pc["consumer"] = "idle" /\ item["consumer"] = NoItem /\ printed' = printed
    BY <1>4 DEF Pipe!Take, Pipe!R!CallGet, Pipe!R!Goes
  <2> QED
    BY <1>2, <2>1 DEF Fresh
<1>5. CASE Pipe!RingStep /\ PR!PutStep("producer")
  <2>1. printed' = printed
    BY <1>5 DEF Pipe!RingStep
  <2>2. pc'["consumer"] = pc["consumer"]
    BY <1>0, <1>5 DEF PR!PutStep, PR!WaitEmpty, PR!PutLock, PR!Store, PR!PutAdvance,
        PR!PutUnlock, PR!PostFull, PR!Goes, PipeTypes
  <2>3. item'["consumer"] = item["consumer"]
    BY <1>0, <1>5 DEF PR!PutStep, PR!WaitEmpty, PR!PutLock, PR!Store, PR!PutAdvance,
        PR!PutUnlock, PR!PostFull, PipeTypes
  <2> QED
    BY <1>2, <2>1, <2>2, <2>3 DEF Fresh
<1>6. CASE Pipe!RingStep /\ PR!GetStep("consumer")
  <2>1. printed' = printed
    BY <1>6 DEF Pipe!RingStep
  <2>2. CASE PR!WaitFull("consumer") \/ PR!GiveUp("consumer") \/ PR!GetLock("consumer")
    BY <1>2, <2>1, <2>2 DEF PR!WaitFull, PR!GiveUp, PR!GetLock, PR!Goes, Fresh
  <2>3. CASE PR!Load("consumer") \/ PR!GetAdvance("consumer") \/ PR!GetUnlock("consumer")
    <3>1. pc'["consumer"] \in {"cAdvance", "cUnlock", "cPost"}
      BY <1>0, <2>3 DEF PR!Load, PR!GetAdvance, PR!GetUnlock, PR!Goes, PipeTypes
    <3> QED
      BY <3>1 DEF Fresh
  <2>4. CASE PR!PostEmpty("consumer")
    <3>1. /\ pc["consumer"] = "cPost" /\ pc'["consumer"] = "idle" /\ item' = item
      BY <1>0, <2>4 DEF PR!PostEmpty, PR!Goes, PipeTypes
    <3>2. item["consumer"] # NoItem
      BY <1>1, <3>1, PipeConstants DEF Flowing, Got
    <3> QED
      BY <3>1, <3>2 DEF Fresh
  <2> QED
    BY <1>6, <2>2, <2>3, <2>4 DEF PR!GetStep
<1>7. CASE Pipe!LoadAndPrint
  <2>1. pc'["consumer"] = "cAdvance"
    BY <1>0, <1>7 DEF Pipe!LoadAndPrint, Pipe!R!Load, Pipe!R!Goes, PipeTypes
  <2> QED
    BY <2>1 DEF Fresh
<1>8. CASE Pipe!QuitUnlock
  <2>1. pc'["consumer"] = "cPost"
    BY <1>0, <1>8 DEF Pipe!QuitUnlock, PipeTypes
  <2> QED
    BY <2>1 DEF Fresh
<1>9. CASE Pipe!Output
  <2>1. Len(printed') # MaxLines
    BY <1>1, <1>9 DEF Pipe!Output
  <2> QED
    BY <1>1, <2>1, PipeConstants
<1>10. CASE UNCHANGED Pipe!vars
  <2>1. UNCHANGED <<pc, item, printed>>
    BY <1>10 DEF Pipe!vars, Pipe!ringVars
  <2> QED
    BY <1>2, <2>1 DEF Fresh
<1> QED
    BY <1>3, <1>4, <1>5, <1>6, <1>7, <1>8, <1>9, <1>10, SameSteps DEF Pipe!Next, Pipe!RingStep

\* Who waits on the ring waits for the other thread only, and that one has not
\* left: a consumer that has left has taken all there was, and a producer that
\* has left has put the last record or all of its items.
LEMMA PipeNeverStuck ==
    ASSUME Pipe!SemPipeAssumption, End \notin Lines, PipeInv, MoreInv
    PROVE  Pipe!NeverStuck
<1> DEFINE Stands(t) == IF pc[t] = "idle" THEN t \in ended ELSE PR!Waits(t)
<1> SUFFICES ASSUME ~Pipe!Joined, Stands("producer"), Stands("consumer") PROVE FALSE
  <2>1. \A t \in {"producer", "consumer"} : Pipe!R!Waits(t) <=> PR!Waits(t)
    BY DEF Pipe!R!Waits, PR!Waits
  <2> QED
    BY <2>1 DEF Pipe!NeverStuck
<1>0. PipeTypes
    BY DEF PipeInv
<1>1. CASE Over
  <2>1. pc["consumer"] = "idle" /\ pc["producer"] = "idle"
    BY <1>1 DEF Over, PR!Waits
  <2> QED
    BY <1>0, <2>1 DEF Pipe!Joined, PipeTypes
<1>2. CASE Flowing
  <2>1. /\ PR!Inv /\ Out \in Nat /\ PR!Stored \in Nat /\ Bringing \in {0, 1}
        /\ Out + PR!Stored + Bringing = Len(Input)
        /\ Len(printed) \in Nat /\ Len(printed) <= Len(entered) /\ Len(entered) <= MaxLines
        /\ Len(entered) \in Nat /\ Len(Input) \in Nat /\ Len(Input) >= Len(entered)
    BY <1>0, <1>2, RingFacts, PrintedFacts, InputFacts DEF Flowing, Flow, Bringing
  <2>2. \A t \in {"producer", "consumer"} :
          \/ pc[t] = "idle"
          \/ pc[t] = "pEmpty" /\ PR!Stored = Size
          \/ pc[t] = "cFull" /\ PR!Stored = 0
    <3>1. PR!NeverJammed
      BY <2>1, PipeConstants, PR!InvNeverJammed DEF PR!Inv
    <3>2. \A t \in {"producer", "consumer"} : pc[t] = "idle" \/ PR!Waits(t)
      OBVIOUS
    <3> QED
      BY <3>1, <3>2 DEF PR!NeverJammed
  <2>3. /\ pc["producer"] = "idle" \/ (pc["producer"] = "pEmpty" /\ PR!Stored = Size)
        /\ pc["consumer"] = "idle" \/ (pc["consumer"] = "cFull" /\ PR!Stored = 0)
    BY <1>0, <2>2 DEF PipeTypes, PR!PutPcs, PR!GetPcs
  <2>4. CASE pc["consumer"] = "idle"
    <3>1. /\ "consumer" \in ended /\ item["consumer"] = NoItem
          /\ program \in Pipe!Counted /\ Len(printed) = MaxLines
      BY <1>2, <2>4 DEF Flowing
    <3>2. ~Got /\ Out = Len(printed)
      BY <2>1, <2>4, <3>1 DEF Out, Got
    <3>3. Len(Input) = MaxLines /\ Bringing = 0
      BY <1>0, <2>1, <3>1, <3>2, InputFacts, PipeConstants
    <3>4. pc["producer"] = "idle"
      BY <2>3, <3>3 DEF Bringing
    <3> QED
      BY <1>0, <2>4, <3>4 DEF Pipe!Joined, PipeTypes
  <2>5. CASE pc["consumer"] = "cFull" /\ PR!Stored = 0
    <3>1. pc["producer"] = "idle" /\ "producer" \in ended /\ Bringing = 0
      BY <2>3, <2>5, PipeConstants DEF Bringing
    <3>2. Out = Len(printed)
      BY <2>1, <2>5 DEF Out, Got
    <3>3. Len(printed) = Len(Input) /\ Len(entered) = Len(Input)
      BY <2>1, <2>5, <3>1, <3>2
    <3>4. CASE program \in Pipe!Counted
      <4>1. Len(entered) = MaxLines /\ "consumer" \notin ended
        BY <1>2, <2>5, <3>1, <3>4 DEF Flowing
      <4>2. Len(printed) < MaxLines
        BY <2>5, <3>4, <4>1 DEF MoreInv, Fresh
      <4> QED
        BY <2>1, <3>3, <4>1, <4>2
    <3>5. CASE program \notin Pipe!Counted
      <4>1. Input = Append(entered, End)
        BY <3>1, <3>5 DEF Input
      <4>2. Len(Input) = Len(entered) + 1
        BY <1>0, <4>1, AppendProperties DEF PipeTypes
      <4> QED
        BY <2>1, <3>3, <4>2
    <3> QED
      BY <3>4, <3>5
  <2> QED
    BY <2>3, <2>4, <2>5
<1> QED
    BY <1>1, <1>2 DEF PipeInv

\* None of the four programs comes to a standstill before main() has joined both
\* threads, whatever the number of lines and of slots: a full ring does not
\* outlive its consumer, and an empty one not its producer.
THEOREM NeverStuckAlways ==
    ASSUME Pipe!SemPipeAssumption, End \notin Lines
    PROVE  Pipe!Spec => []Pipe!NeverStuck
<1>1. Pipe!Init => PipeInv /\ MoreInv
    BY PipeInit, MoreInit
<1>2. PipeInv /\ [Pipe!Next]_(Pipe!vars) => PipeInv'
    BY PipeStep
<1>3. PipeInv => FewPrinted
  <2>1. CASE program \in Pipe!Counted
    BY <2>1, CountedFacts
  <2>2. CASE program \notin Pipe!Counted
    BY <2>2 DEF FewPrinted
  <2> QED
    BY <2>1, <2>2
<1>4. PipeInv /\ FewPrinted' /\ MoreInv /\ [Pipe!Next]_(Pipe!vars) => MoreInv'
    BY MoreStep
<1>5. PipeInv /\ MoreInv => Pipe!NeverStuck
    BY PipeNeverStuck
<1> QED
    BY <1>1, <1>2, <1>3, <1>4, <1>5, PTL DEF Pipe!Spec
=============================================================================
