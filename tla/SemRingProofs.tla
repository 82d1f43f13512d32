----------------------------- MODULE SemRingProofs -----------------------------
(***************************************************************************)
(* Proofs about SemRing, for every number of callers and slots: the three  *)
(* semaphores make the ring a bounded FIFO.                                *)
(*                                                                         *)
(* A unit of a semaphore is either in its value or with a process between  *)
(* two statements (TokenInv).  That gives mutual exclusion and the bounds; *)
(* with the distance of the indices (RingInv) and what a process has just  *)
(* copied (SlotInv) every step is one of BoundedFifo, or none.             *)
(***************************************************************************)
EXTENDS SemRing, FiniteSetTheorems, SequenceTheorems, TLAPS

-----------------------------------------------------------------------------
(* Counting the processes that are at some statements.  A process goes     *)
(* from one to another as f, a function like pc, changes at one point.     *)

Where(S, f, L) == {q \in S : f[q] \in L}

\* 1 for a member, 0 for anything else.
In(l, L) == IF l \in L THEN 1 ELSE 0

\* The processes of a finite set that are somewhere can be counted.
LEMMA WhereType ==
    ASSUME NEW S, IsFiniteSet(S), NEW f, NEW L
    PROVE  IsFiniteSet(Where(S, f, L)) /\ Cardinality(Where(S, f, L)) \in Nat
BY FS_Subset, FS_CardinalityType DEF Where

\* A process at one of the statements counts, and if the count is 1 it is alone.
LEMMA WhereOne ==
    ASSUME NEW S, IsFiniteSet(S), NEW f, NEW L, NEW p \in S, f[p] \in L
    PROVE  /\ Cardinality(Where(S, f, L)) >= 1
           /\ Cardinality(Where(S, f, L)) = 1 => \A q \in S : f[q] \in L => q = p
<1>1. IsFiniteSet(Where(S, f, L)) /\ Cardinality(Where(S, f, L)) \in Nat
    BY WhereType
<1>2. p \in Where(S, f, L)
    BY DEF Where
<1>3. Cardinality(Where(S, f, L)) # 0
    BY <1>1, <1>2, FS_EmptySet
<1>4. ASSUME Cardinality(Where(S, f, L)) = 1, NEW q \in S, f[q] \in L PROVE q = p
  <2>1. PICK x : Where(S, f, L) = {x}
    BY <1>1, <1>4, FS_Singleton
  <2> QED
    BY <1>2, <1>4, <2>1 DEF Where
<1> QED
    BY <1>1, <1>3, <1>4

\* The count grows by one when a process comes and shrinks by one when it goes.
LEMMA WhereMoves ==
    ASSUME NEW S, IsFiniteSet(S), NEW f, f = [q \in S |-> f[q]], NEW p \in S, NEW to, NEW L
    PROVE  Cardinality(Where(S, [f EXCEPT ![p] = to], L))
             = Cardinality(Where(S, f, L)) + In(to, L) - In(f[p], L)
<1> DEFINE g == [f EXCEPT ![p] = to]
           A == Where(S, f, L)
           B == Where(S, g, L)
<1> SUFFICES Cardinality(B) = Cardinality(A) + In(to, L) - In(f[p], L)
    OBVIOUS
<1>0. g[p] = to /\ \A q \in S : q # p => g[q] = f[q]
    OBVIOUS
<1>1. IsFiniteSet(A) /\ Cardinality(A) \in Nat
    BY WhereType
<1> HIDE DEF g
<1>2. CASE f[p] \in L <=> to \in L
  <2>1. A = B
    BY <1>0, <1>2 DEF Where
  <2>2. In(to, L) = In(f[p], L) /\ In(to, L) \in Int
    BY <1>2 DEF In
  <2> HIDE DEF A, B
  <2> QED
    BY <1>1, <2>1, <2>2
<1>3. CASE f[p] \notin L /\ to \in L
  <2>1. B = A \cup {p} /\ p \notin A
    BY <1>0, <1>3 DEF Where
  <2>2. In(to, L) = 1 /\ In(f[p], L) = 0
    BY <1>3 DEF In
  <2> HIDE DEF A, B
  <2>3. Cardinality(B) = Cardinality(A) + 1
    BY <1>1, <2>1, FS_AddElement
  <2> QED
    BY <1>1, <2>2, <2>3
<1>4. CASE f[p] \in L /\ to \notin L
  <2>1. B = A \ {p} /\ p \in A
    BY <1>0, <1>4 DEF Where
  <2>2. In(to, L) = 0 /\ In(f[p], L) = 1
    BY <1>4 DEF In
  <2> HIDE DEF A, B
  <2>3. Cardinality(B) = Cardinality(A) - 1
    BY <1>1, <2>1, FS_RemoveElement
  <2> QED
    BY <1>1, <2>2, <2>3
<1> QED
    BY <1>2, <1>3, <1>4

-----------------------------------------------------------------------------
(* The indices of a ring. *)

\* h + k, reduced, when it is less than once around.
LEMMA SlotAt ==
    ASSUME NEW N \in Nat \ {0}, NEW h \in 0..N-1, NEW k \in 0..N
    PROVE  (h + k) % N = IF h + k < N THEN h + k ELSE h + k - N
<1>1. CASE h + k < N
    BY <1>1
<1>2. CASE h + k >= N
  <2>1. h + k \in N..2 * N - 1
    BY <1>2
  <2>2. PICK x \in Int : x = h + k
    BY <2>1
  <2>3. x % N = x - N
    BY <2>1, <2>2
  <2> QED
    BY <1>2, <2>2, <2>3
<1> QED
    BY <1>1, <1>2

\* tail after one more item, and head after one less.
LEMMA TailMoves ==
    ASSUME NEW N \in Nat \ {0}, NEW h \in 0..N-1, NEW k \in 0..N-1
    PROVE  (((h + k) % N) + 1) % N = (h + (k + 1)) % N
<1> DEFINE t == (h + k) % N
<1>1. t = IF h + k < N THEN h + k ELSE h + k - N
  <2>1. k \in 0..N
    OBVIOUS
  <2> QED
    BY <2>1, SlotAt
<1>2. t \in 0..N-1
    BY <1>1
<1> HIDE DEF t
<1>3. (t + 1) % N = IF t + 1 < N THEN t + 1 ELSE t + 1 - N
  <2>1. 1 \in 0..N
    OBVIOUS
  <2> QED
    BY <1>2, <2>1, SlotAt
<1>4. (h + (k + 1)) % N = IF h + (k + 1) < N THEN h + (k + 1) ELSE h + (k + 1) - N
  <2>1. k + 1 \in 0..N
    OBVIOUS
  <2> QED
    BY <2>1, SlotAt
<1>5. (t + 1) % N = (h + (k + 1)) % N
    BY <1>1, <1>3, <1>4
<1> QED
    BY <1>5 DEF t

LEMMA HeadMoves ==
    ASSUME NEW N \in Nat \ {0}, NEW h \in 0..N-1, NEW k \in 0..N-1
    PROVE  (((h + 1) % N) + k) % N = (h + (k + 1)) % N
<1> DEFINE t == (h + 1) % N
<1>1. t = IF h + 1 < N THEN h + 1 ELSE h + 1 - N
  <2>1. 1 \in 0..N
    OBVIOUS
  <2> QED
    BY <2>1, SlotAt
<1>2. t \in 0..N-1
    BY <1>1
<1> HIDE DEF t
<1>3. (t + k) % N = IF t + k < N THEN t + k ELSE t + k - N
  <2>1. k \in 0..N
    OBVIOUS
  <2> QED
    BY <1>2, <2>1, SlotAt
<1>4. (h + (k + 1)) % N = IF h + (k + 1) < N THEN h + (k + 1) ELSE h + (k + 1) - N
  <2>1. k + 1 \in 0..N
    OBVIOUS
  <2> QED
    BY <2>1, SlotAt
<1>5. (t + k) % N = (h + (k + 1)) % N
    BY <1>1, <1>2, <1>3, <1>4
<1> QED
    BY <1>5 DEF t

\* Different distances from h lead to different slots.
LEMMA SlotsDiffer ==
    ASSUME NEW N \in Nat \ {0}, NEW h \in 0..N-1, NEW j \in 0..N-1, NEW k \in 0..N-1, j # k
    PROVE  (h + j) % N # (h + k) % N
<1>0. j \in 0..N /\ k \in 0..N
    OBVIOUS
<1>1. (h + j) % N = IF h + j < N THEN h + j ELSE h + j - N
    BY <1>0, SlotAt
<1>2. (h + k) % N = IF h + k < N THEN h + k ELSE h + k - N
    BY <1>0, SlotAt
<1> QED
    BY <1>1, <1>2

-----------------------------------------------------------------------------
(* The semaphores. *)

\* Who has a unit of empty, and who one of full.
PutHeld == {"pMutex", "pStore", "pAdvance"}
PutDone == {"pUnlock", "pPost"}
GetHeld == {"cMutex", "cLoad", "cAdvance"}
GetDone == {"cUnlock", "cPost"}

Count(L) == Cardinality(At(L))

Types ==
    /\ mutex \in Nat /\ empty \in Nat /\ full \in Nat
    /\ buffer \in [Slots -> Items \cup {NoItem}]
    /\ head \in Slots /\ tail \in Slots
    /\ pc \in [Procs -> Pcs]
    /\ item \in [Procs -> Items \cup {NoItem}]

\* No semaphore loses or gains a unit: the mutex is free or held by one, and
\* each slot is empty, full, or with one process.
TokenInv ==
    /\ mutex + Count(Critical) = 1
    /\ empty + Count(PutHeld) + Count(GetDone) + Stored = Size

\* The indices are as far apart as there are items.
RingInv == tail = (head + Stored) % Size

\* What the process in the critical section has copied is still there, and
\* what a caller brings.
SlotInv ==
    \A p \in Procs :
        /\ pc[p] = "pAdvance" => buffer[tail] = item[p]
        /\ pc[p] = "cAdvance" => buffer[head] = item[p]
        /\ Phase(pc[p]) = "put" => item[p] \in Items
        /\ pc[p] \in {"cFull", "cMutex", "cLoad"} => item[p] = NoItem

Inv == Types /\ TokenInv /\ RingInv /\ SlotInv

-----------------------------------------------------------------------------
(* Counting processes. *)

LEMMA CountType ==
    ASSUME NEW L
    PROVE  IsFiniteSet(At(L)) /\ Count(L) \in Nat
BY WhereType, SemRingAssumption DEF At, Count, Where

\* One process goes from one statement to another.
LEMMA CountMoves ==
    ASSUME pc \in [Procs -> Pcs], NEW p \in Procs, NEW from, NEW to,
           Goes(p, from, to), NEW L
    PROVE  Count(L)' = Count(L) + In(to, L) - In(from, L)
<1>1. /\ pc = [q \in Procs |-> pc[q]]
      /\ pc[p] = from /\ pc' = [pc EXCEPT ![p] = to]
    BY DEF Goes
<1>2. /\ Count(L) = Cardinality(Where(Procs, pc, L))
      /\ Count(L)' = Cardinality(Where(Procs, pc', L))
    BY DEF Count, At, Where
<1> QED
    BY <1>1, <1>2, WhereMoves, SemRingAssumption

\* The same for the groups of statements that matter.
LEMMA CountsMove ==
    ASSUME pc \in [Procs -> Pcs], NEW p \in Procs, NEW from, NEW to, Goes(p, from, to)
    PROVE  /\ Count(Critical)' = Count(Critical) + In(to, Critical) - In(from, Critical)
           /\ Count(PutHeld)' = Count(PutHeld) + In(to, PutHeld) - In(from, PutHeld)
           /\ Count(PutDone)' = Count(PutDone) + In(to, PutDone) - In(from, PutDone)
           /\ Count(GetHeld)' = Count(GetHeld) + In(to, GetHeld) - In(from, GetHeld)
           /\ Count(GetDone)' = Count(GetDone) + In(to, GetDone) - In(from, GetDone)
           /\ Count(Critical) \in Nat /\ Count(PutHeld) \in Nat /\ Count(PutDone) \in Nat
           /\ Count(GetHeld) \in Nat /\ Count(GetDone) \in Nat
<1>1. Count(Critical)' = Count(Critical) + In(to, Critical) - In(from, Critical)
    BY CountMoves DEF Critical
<1>2. Count(PutHeld)' = Count(PutHeld) + In(to, PutHeld) - In(from, PutHeld)
    BY CountMoves DEF PutHeld
<1>3. Count(PutDone)' = Count(PutDone) + In(to, PutDone) - In(from, PutDone)
    BY CountMoves DEF PutDone
<1>4. Count(GetHeld)' = Count(GetHeld) + In(to, GetHeld) - In(from, GetHeld)
    BY CountMoves DEF GetHeld
<1>5. Count(GetDone)' = Count(GetDone) + In(to, GetDone) - In(from, GetDone)
    BY CountMoves DEF GetDone
<1> QED
    BY <1>1, <1>2, <1>3, <1>4, <1>5, CountType

LEMMA StoredCounts == Stored = full + Count(PutDone) + Count(GetHeld)
BY DEF Stored, Count, PutDone, GetHeld

\* A process at one of some statements counts, and nobody else does if the
\* count is 1.
LEMMA CountOne ==
    ASSUME NEW L, NEW p \in Procs, pc[p] \in L
    PROVE  /\ Count(L) >= 1
           /\ Count(L) = 1 => \A q \in Procs : pc[q] \in L => q = p
BY WhereOne, SemRingAssumption DEF Count, At, Where

\* The invariant gives mutual exclusion and the bounds of the semaphores.
LEMMA InvExclusive ==
    ASSUME Types, TokenInv
    PROVE  Exclusive
<1> SUFFICES ASSUME NEW p \in Procs, NEW q \in Procs, pc[p] \in Critical, pc[q] \in Critical
             PROVE  p = q
    BY DEF Exclusive
<1>1. Count(Critical) >= 1
    BY CountOne
<1>2. Count(Critical) = 1
    BY <1>1, CountType DEF Types, TokenInv
<1> QED
    BY <1>2, CountOne

LEMMA InvTypeOK ==
    ASSUME Types, TokenInv
    PROVE  TypeOK
<1>1. /\ Count(Critical) \in Nat /\ Count(PutHeld) \in Nat /\ Count(PutDone) \in Nat
      /\ Count(GetHeld) \in Nat /\ Count(GetDone) \in Nat
    BY CountType
<1> QED
    BY <1>1, StoredCounts, SemRingAssumption DEF Types, TokenInv, TypeOK

\* When all calls wait, nobody holds the mutex or a unit of a slot.
LEMMA InvNeverJammed ==
    ASSUME Types, TokenInv
    PROVE  NeverJammed
<1> SUFFICES ASSUME \A p \in Procs : pc[p] = "idle" \/ Waits(p),
                    NEW p \in Procs, pc[p] # "idle"
             PROVE  \/ pc[p] = "pEmpty" /\ Stored = Size
                    \/ pc[p] = "cFull" /\ Stored = 0
    BY DEF NeverJammed
<1>1. At(Critical) = {} /\ At(PutDone) = {} /\ At(GetDone) = {}
    BY DEF At, Waits, Critical, PutDone, GetDone
<1>2. Count(Critical) = 0 /\ Count(PutDone) = 0 /\ Count(GetDone) = 0
    BY <1>1, FS_EmptySet DEF Count
<1>3. mutex = 1
    BY <1>2 DEF Types, TokenInv
<1>4. At(PutHeld) = {} /\ At(GetHeld) = {}
    BY <1>3 DEF At, Waits, PutHeld, GetHeld
<1>5. Count(PutHeld) = 0 /\ Count(GetHeld) = 0
    BY <1>4, FS_EmptySet DEF Count
<1>6. Stored = full /\ empty + Stored = Size
    BY <1>2, <1>5, StoredCounts, SemRingAssumption DEF Types, TokenInv
<1>7. \/ pc[p] = "pEmpty" /\ empty = 0
      \/ pc[p] = "cFull" /\ full = 0
    BY <1>3 DEF Waits
<1> QED
    BY <1>6, <1>7, SemRingAssumption DEF Types

-----------------------------------------------------------------------------
(* The invariant. *)

LEMMA InvInit == Init => Inv
<1> SUFFICES ASSUME Init PROVE Inv
    OBVIOUS
<1>1. Types
    BY SemRingAssumption DEF Init, RingInit, Types, Slots, Pcs
<1>2. /\ Count(Critical) = 0 /\ Count(PutHeld) = 0 /\ Count(PutDone) = 0
      /\ Count(GetHeld) = 0 /\ Count(GetDone) = 0
  <2>1. /\ At(Critical) = {} /\ At(PutHeld) = {} /\ At(PutDone) = {}
        /\ At(GetHeld) = {} /\ At(GetDone) = {}
      BY DEF Init, At, Critical, PutHeld, PutDone, GetHeld, GetDone
  <2> QED
      BY <2>1, FS_EmptySet DEF Count
<1>3. TokenInv /\ Stored = 0
    BY <1>2, StoredCounts, SemRingAssumption DEF Init, RingInit, TokenInv
<1>4. RingInv
    BY <1>3, SemRingAssumption DEF RingInv, Init, RingInit
<1>5. SlotInv
    BY DEF SlotInv, Init, Phase
<1> QED
    BY <1>1, <1>3, <1>4, <1>5 DEF Inv

\* Every step keeps the variables in their types ...
LEMMA TypesStep ==
    ASSUME Types, NEW p \in Procs, PutStep(p) \/ GetStep(p) \/ CallGet(p)
                                     \/ \E i \in Items : CallPut(p, i)
    PROVE  /\ buffer' \in [Slots -> Items \cup {NoItem}]
           /\ head' \in Slots /\ tail' \in Slots
           /\ pc' \in [Procs -> Pcs]
           /\ item' \in [Procs -> Items \cup {NoItem}]
           /\ mutex' \in Nat /\ empty' \in Nat /\ full' \in Nat
<1> USE SemRingAssumption DEF Types, Goes, ring
<1>1. ASSUME NEW s \in Slots PROVE (s + 1) % Size \in Slots
    BY <1>1 DEF Slots
<1>2. pc' \in [Procs -> Pcs]
    BY DEF PutStep, GetStep, CallGet, CallPut, WaitEmpty, PutLock, Store, PutAdvance,
        PutUnlock, PostFull, WaitFull, GiveUp, GetLock, Load, GetAdvance, GetUnlock,
        PostEmpty, Pcs, PutPcs, GetPcs
<1>3. mutex' \in Nat /\ empty' \in Nat /\ full' \in Nat
    BY DEF PutStep, GetStep, CallGet, CallPut, WaitEmpty, PutLock, Store, PutAdvance,
        PutUnlock, PostFull, WaitFull, GiveUp, GetLock, Load, GetAdvance, GetUnlock,
        PostEmpty
<1>4. head' \in Slots /\ tail' \in Slots
    BY <1>1 DEF PutStep, GetStep, CallGet, CallPut, WaitEmpty, PutLock, Store, PutAdvance,
        PutUnlock, PostFull, WaitFull, GiveUp, GetLock, Load, GetAdvance, GetUnlock,
        PostEmpty
<1>5. /\ buffer' \in [Slots -> Items \cup {NoItem}]
      /\ item' \in [Procs -> Items \cup {NoItem}]
    BY DEF PutStep, GetStep, CallGet, CallPut, WaitEmpty, PutLock, Store, PutAdvance,
        PutUnlock, PostFull, WaitFull, GiveUp, GetLock, Load, GetAdvance, GetUnlock,
        PostEmpty
<1> QED
    BY <1>2, <1>3, <1>4, <1>5

\* ... and the units of the semaphores together.  Only the two statements that
\* move an index change how many items there are.
LEMMA TokenStep ==
    ASSUME Types, TokenInv, NEW p \in Procs,
           PutStep(p) \/ GetStep(p) \/ CallGet(p) \/ \E i \in Items : CallPut(p, i)
    PROVE  /\ TokenInv'
           /\ Stored \in Nat
           /\ PutAdvance(p) => Stored < Size /\ Stored' = Stored + 1
           /\ GetAdvance(p) => Stored > 0 /\ Stored' = Stored - 1
           /\ Stored <= Size
           /\ ~PutAdvance(p) /\ ~GetAdvance(p) => Stored' = Stored
<1> DEFINE Moved(from, to) ==
             /\ Count(Critical)' = Count(Critical) + In(to, Critical) - In(from, Critical)
             /\ Count(PutHeld)' = Count(PutHeld) + In(to, PutHeld) - In(from, PutHeld)
             /\ Count(PutDone)' = Count(PutDone) + In(to, PutDone) - In(from, PutDone)
             /\ Count(GetHeld)' = Count(GetHeld) + In(to, GetHeld) - In(from, GetHeld)
             /\ Count(GetDone)' = Count(GetDone) + In(to, GetDone) - In(from, GetDone)
<1>1. ASSUME NEW from, NEW to, Goes(p, from, to) PROVE Moved(from, to)
    BY <1>1, CountsMove DEF Types
<1>2. /\ Count(Critical) \in Nat /\ Count(PutHeld) \in Nat /\ Count(PutDone) \in Nat
      /\ Count(GetHeld) \in Nat /\ Count(GetDone) \in Nat
    BY CountType
<1>3. Stored = full + Count(PutDone) + Count(GetHeld)
    BY StoredCounts
<1>4. Stored' = full' + Count(PutDone)' + Count(GetHeld)'
    BY DEF Stored, Count, PutDone, GetHeld
<1>5. /\ mutex \in Nat /\ empty \in Nat /\ full \in Nat /\ Size \in Nat
      /\ mutex + Count(Critical) = 1
      /\ empty + Count(PutHeld) + Count(GetDone) + Stored = Size
    BY SemRingAssumption DEF Types, TokenInv
<1>6. PutAdvance(p) => Count(PutHeld) >= 1
    BY CountOne DEF PutAdvance, Goes, PutHeld
<1>7. GetAdvance(p) => Count(GetHeld) >= 1
    BY CountOne DEF GetAdvance, Goes, GetHeld
<1> HIDE DEF Moved
<1>8. /\ mutex' + Count(Critical)' = 1
      /\ empty' + Count(PutHeld)' + Count(GetDone)' + Stored' = Size
      /\ PutAdvance(p) => Stored' = Stored + 1
      /\ GetAdvance(p) => Stored' = Stored - 1
      /\ ~PutAdvance(p) /\ ~GetAdvance(p) => Stored' = Stored
  <2> USE <1>2, <1>3, <1>4, <1>5 DEF Moved, In, Critical, PutHeld, PutDone, GetHeld, GetDone, ring
  <2>1. CASE WaitEmpty(p)
    <3>1. Moved("pEmpty", "pMutex")
      BY <1>1, <2>1 DEF WaitEmpty
    <3> QED
      BY <2>1, <3>1 DEF WaitEmpty, PutAdvance, GetAdvance, Goes
  <2>2. CASE PutLock(p)
    <3>1. Moved("pMutex", "pStore")
      BY <1>1, <2>2 DEF PutLock
    <3> QED
      BY <2>2, <3>1 DEF PutLock, PutAdvance, GetAdvance, Goes
  <2>3. CASE Store(p)
    <3>1. Moved("pStore", "pAdvance")
      BY <1>1, <2>3 DEF Store
    <3> QED
      BY <2>3, <3>1 DEF Store, PutAdvance, GetAdvance, Goes
  <2>4. CASE PutAdvance(p)
    <3>1. Moved("pAdvance", "pUnlock")
      BY <1>1, <2>4 DEF PutAdvance
    <3> QED
      BY <2>4, <3>1 DEF PutAdvance, GetAdvance, Goes
  <2>5. CASE PutUnlock(p)
    <3>1. Moved("pUnlock", "pPost")
      BY <1>1, <2>5 DEF PutUnlock
    <3> QED
      BY <2>5, <3>1 DEF PutUnlock, PutAdvance, GetAdvance, Goes
  <2>6. CASE PostFull(p)
    <3>1. Moved("pPost", "idle")
      BY <1>1, <2>6 DEF PostFull
    <3> QED
      BY <2>6, <3>1 DEF PostFull, PutAdvance, GetAdvance, Goes
  <2>7. CASE WaitFull(p)
    <3>1. Moved("cFull", "cMutex")
      BY <1>1, <2>7 DEF WaitFull
    <3> QED
      BY <2>7, <3>1 DEF WaitFull, PutAdvance, GetAdvance, Goes
  <2>8. CASE GiveUp(p)
    <3>1. Moved("cFull", "idle")
      BY <1>1, <2>8 DEF GiveUp
    <3> QED
      BY <2>8, <3>1 DEF GiveUp, PutAdvance, GetAdvance, Goes
  <2>9. CASE GetLock(p)
    <3>1. Moved("cMutex", "cLoad")
      BY <1>1, <2>9 DEF GetLock
    <3> QED
      BY <2>9, <3>1 DEF GetLock, PutAdvance, GetAdvance, Goes
  <2>10. CASE Load(p)
    <3>1. Moved("cLoad", "cAdvance")
      BY <1>1, <2>10 DEF Load
    <3> QED
      BY <2>10, <3>1 DEF Load, PutAdvance, GetAdvance, Goes
  <2>11. CASE GetAdvance(p)
    <3>1. Moved("cAdvance", "cUnlock")
      BY <1>1, <2>11 DEF GetAdvance
    <3> QED
      BY <2>11, <3>1 DEF PutAdvance, GetAdvance, Goes
  <2>12. CASE GetUnlock(p)
    <3>1. Moved("cUnlock", "cPost")
      BY <1>1, <2>12 DEF GetUnlock
    <3> QED
      BY <2>12, <3>1 DEF GetUnlock, PutAdvance, GetAdvance, Goes
  <2>13. CASE PostEmpty(p)
    <3>1. Moved("cPost", "idle")
      BY <1>1, <2>13 DEF PostEmpty
    <3> QED
      BY <2>13, <3>1 DEF PostEmpty, PutAdvance, GetAdvance, Goes
  <2>14. CASE CallGet(p)
    <3>1. Moved("idle", "cFull")
      BY <1>1, <2>14 DEF CallGet
    <3> QED
      BY <2>14, <3>1 DEF CallGet, PutAdvance, GetAdvance, Goes
  <2>15. ASSUME NEW i \in Items, CallPut(p, i)
         PROVE  /\ mutex' + Count(Critical)' = 1
                /\ empty' + Count(PutHeld)' + Count(GetDone)' + Stored' = Size
                /\ ~PutAdvance(p) /\ ~GetAdvance(p) /\ Stored' = Stored
    <3>1. Moved("idle", "pEmpty")
      BY <1>1, <2>15 DEF CallPut
    <3> QED
      BY <2>15, <3>1 DEF CallPut, PutAdvance, GetAdvance, Goes
  <2> QED
    BY <2>1, <2>2, <2>3, <2>4, <2>5, <2>6, <2>7, <2>8, <2>9, <2>10, <2>11, <2>12, <2>13,
        <2>14, <2>15 DEF PutStep, GetStep
<1>9. Stored \in Nat /\ Stored <= Size
    BY <1>2, <1>3, <1>5
<1> QED
    BY <1>2, <1>3, <1>5, <1>6, <1>7, <1>8, <1>9 DEF TokenInv

\* The k-th item is in the slot that many after head.
LEMMA RingStep ==
    ASSUME Types, TokenInv, RingInv, NEW p \in Procs,
           PutStep(p) \/ GetStep(p) \/ CallGet(p) \/ \E i \in Items : CallPut(p, i)
    PROVE  RingInv'
<1>0. head \in Slots /\ tail \in Slots /\ Stored \in 0..Size
    BY TokenStep, SemRingAssumption DEF Types
<1>1. CASE PutAdvance(p)
  <2>1. Stored < Size /\ Stored' = Stored + 1
    BY <1>1, TokenStep
  <2>2. head' = head /\ tail' = (tail + 1) % Size
    BY <1>1 DEF PutAdvance
  <2>3. (tail + 1) % Size = (head + (Stored + 1)) % Size
    <3>1. head \in 0..Size-1 /\ Stored \in 0..Size-1
      BY <1>0, <2>1, SemRingAssumption DEF Slots
    <3>2. (((head + Stored) % Size) + 1) % Size = (head + (Stored + 1)) % Size
      BY <3>1, TailMoves, SemRingAssumption
    <3> QED
      BY <3>2 DEF RingInv
  <2> QED
    BY <2>1, <2>2, <2>3 DEF RingInv
<1>2. CASE GetAdvance(p)
  <2>1. Stored > 0 /\ Stored' = Stored - 1
    BY <1>2, TokenStep
  <2>2. head' = (head + 1) % Size /\ tail' = tail
    BY <1>2 DEF GetAdvance
  <2>3. (((head + 1) % Size) + (Stored - 1)) % Size = (head + Stored) % Size
    <3>1. Stored - 1 \in 0..Size-1 /\ (Stored - 1) + 1 = Stored
      BY <1>0, <2>1, SemRingAssumption
    <3>2. (((head + 1) % Size) + (Stored - 1)) % Size = (head + ((Stored - 1) + 1)) % Size
      BY <1>0, <3>1, HeadMoves, SemRingAssumption DEF Slots
    <3> QED
      BY <3>1, <3>2
  <2> QED
    BY <2>1, <2>2, <2>3 DEF RingInv
<1>3. CASE ~PutAdvance(p) /\ ~GetAdvance(p)
  <2>1. Stored' = Stored
    BY <1>3, TokenStep
  <2>2. head' = head /\ tail' = tail
    BY <1>3 DEF PutStep, GetStep, CallGet, CallPut, WaitEmpty, PutLock, Store, PutUnlock,
        PostFull, WaitFull, GiveUp, GetLock, Load, GetUnlock, PostEmpty, ring
  <2> QED
    BY <2>1, <2>2 DEF RingInv
<1> QED
    BY <1>1, <1>2, <1>3

\* Under mutual exclusion nobody disturbs what another has just copied.
LEMMA SlotStep ==
    ASSUME Types, Exclusive, SlotInv, NEW p \in Procs,
           PutStep(p) \/ GetStep(p) \/ CallGet(p) \/ \E i \in Items : CallPut(p, i)
    PROVE  SlotInv'
<1> SUFFICES ASSUME NEW q \in Procs
             PROVE  /\ pc'[q] = "pAdvance" => buffer'[tail'] = item'[q]
                    /\ pc'[q] = "cAdvance" => buffer'[head'] = item'[q]
                    /\ Phase(pc'[q]) = "put" => item'[q] \in Items
                    /\ pc'[q] \in {"cFull", "cMutex", "cLoad"} => item'[q] = NoItem
    BY DEF SlotInv
<1> USE DEF Types, SlotInv, Phase, Goes, ring
<1>1. ASSUME NEW i \in Items, CallPut(p, i)
      PROVE  /\ pc'[q] = "pAdvance" => buffer'[tail'] = item'[q]
             /\ pc'[q] = "cAdvance" => buffer'[head'] = item'[q]
             /\ Phase(pc'[q]) = "put" => item'[q] \in Items
             /\ pc'[q] \in {"cFull", "cMutex", "cLoad"} => item'[q] = NoItem
    BY <1>1 DEF CallPut
<1>2. CASE WaitEmpty(p) \/ PutLock(p)
    BY <1>2 DEF WaitEmpty, PutLock
<1>3. CASE Store(p)
  <2>1. q # p => pc[q] \notin {"pAdvance", "cAdvance"}
    BY <1>3 DEF Store, Exclusive, Critical
  <2> QED
    BY <1>3, <2>1 DEF Store
<1>4. CASE PutAdvance(p)
  <2>1. q # p => pc[q] \notin {"pAdvance", "cAdvance"}
    BY <1>4 DEF PutAdvance, Exclusive, Critical
  <2> QED
    BY <1>4, <2>1 DEF PutAdvance
<1>5. CASE PutUnlock(p) \/ PostFull(p)
    BY <1>5 DEF PutUnlock, PostFull
<1>6. CASE CallGet(p) \/ WaitFull(p) \/ GiveUp(p) \/ GetLock(p)
    BY <1>6 DEF CallGet, WaitFull, GiveUp, GetLock
<1>7. CASE Load(p)
    BY <1>7 DEF Load
<1>8. CASE GetAdvance(p)
  <2>1. q # p => pc[q] \notin {"pAdvance", "cAdvance"}
    BY <1>8 DEF GetAdvance, Exclusive, Critical
  <2> QED
    BY <1>8, <2>1 DEF GetAdvance
<1>9. CASE GetUnlock(p) \/ PostEmpty(p)
    BY <1>9 DEF GetUnlock, PostEmpty
<1> QED
    BY <1>1, <1>2, <1>3, <1>4, <1>5, <1>6, <1>7, <1>8, <1>9 DEF PutStep, GetStep

LEMMA InvStep == Inv /\ [Next]_ringVars => Inv'
<1> SUFFICES ASSUME Inv, [Next]_ringVars PROVE Inv'
    OBVIOUS
<1>1. ASSUME NEW p \in Procs,
             PutStep(p) \/ GetStep(p) \/ CallGet(p) \/ \E i \in Items : CallPut(p, i)
      PROVE  Inv'
  <2>1. Types'
    BY <1>1, TypesStep DEF Inv, Types
  <2>2. TokenInv' /\ RingInv'
    BY <1>1, TokenStep, RingStep DEF Inv
  <2>3. SlotInv'
    BY <1>1, SlotStep, InvExclusive DEF Inv
  <2> QED
    BY <2>1, <2>2, <2>3 DEF Inv
<1>2. CASE UNCHANGED ringVars
    BY <1>2 DEF ringVars, Inv, Types, TokenInv, RingInv, SlotInv, Stored, Count, At
<1> QED
    BY <1>1, <1>2 DEF Next

\* Whatever processes call producer() and consumer(), the invariant holds.
THEOREM Invariance == Spec => []Inv
BY InvInit, InvStep, PTL DEF Spec

\* The semaphores stay within their bounds and the indices in the ring, for any
\* number of callers of producer() and consumer().
THEOREM TypeCorrect == Spec => []TypeOK
<1>1. Inv => TypeOK
    BY InvTypeOK DEF Inv
<1> QED
    BY <1>1, Invariance, PTL

\* One process at a time is between sem_wait(mutex) and sem_post(mutex).
THEOREM ExclusiveAlways == Spec => []Exclusive
<1>1. Inv => Exclusive
    BY InvExclusive DEF Inv
<1> QED
    BY <1>1, Invariance, PTL

\* No order of the waits for empty, full and mutex ends in a deadlock: calls
\* that all wait are producers before a full ring or consumers before an
\* empty one.
THEOREM NeverJammedAlways == Spec => []NeverJammed
<1>1. Inv => NeverJammed
    BY InvNeverJammed DEF Inv
<1> QED
    BY <1>1, Invariance, PTL

-----------------------------------------------------------------------------
(* The ring implements the bounded FIFO. *)

\* The ring seen as a sequence: what the steps that take effect do to it.
LEMMA ContentsSeq ==
    ASSUME Types, Stored \in 0..Size
    PROVE  Contents \in Seq(Items \cup {NoItem}) /\ Len(Contents) = Stored
<1>1. ASSUME NEW k \in 1..Stored PROVE (head + k - 1) % Size \in Slots
    BY <1>1, SemRingAssumption DEF Slots, Types
<1> QED
    BY <1>1 DEF Contents, Types

\* Only the slot at tail is free to be written.
LEMMA TailFree ==
    ASSUME Types, RingInv, Stored \in 0..Size - 1, NEW k \in 1..Stored
    PROVE  (head + k - 1) % Size \in Slots \ {tail}
<1>1. /\ head \in 0..Size-1 /\ tail \in Slots /\ Size \in Nat \ {0}
      /\ k - 1 \in 0..Size-1 /\ k - 1 # Stored /\ head + k - 1 = head + (k - 1)
    BY SemRingAssumption DEF Types, Slots
<1>2. (head + (k - 1)) % Size # (head + Stored) % Size
    BY <1>1, SlotsDiffer
<1>3. (head + (k - 1)) % Size \in Slots
    BY <1>1 DEF Slots
<1> QED
    BY <1>1, <1>2, <1>3 DEF RingInv

LEMMA StoreBehind ==
    ASSUME Types, RingInv, Stored \in 0..Size - 1, NEW p \in Procs, Store(p), Stored' = Stored
    PROVE  Contents' = Contents
<1>1. \A k \in 1..Stored : buffer'[(head + k - 1) % Size] = buffer[(head + k - 1) % Size]
    BY TailFree DEF Store, Types
<1> QED
    BY <1>1 DEF Contents, Store

LEMMA PutAppends ==
    ASSUME Types, RingInv, SlotInv, Stored \in 0..Size - 1, NEW p \in Procs,
           PutAdvance(p), Stored' = Stored + 1
    PROVE  Contents' = Append(Contents, item[p])
<1>1. tail = (head + (Stored + 1) - 1) % Size /\ buffer[tail] = item[p]
  <2>1. head + (Stored + 1) - 1 = head + Stored
    BY SemRingAssumption DEF Types, Slots
  <2>2. tail = (head + (Stored + 1) - 1) % Size
    BY <2>1, Zenon DEF RingInv
  <2> QED
    BY <2>2 DEF SlotInv, PutAdvance, Goes
<1>2. Contents' = [k \in 1..Stored + 1 |-> buffer[(head + k - 1) % Size]]
    BY DEF Contents, PutAdvance
<1>3. Append(Contents, item[p])
        = [k \in 1..Stored + 1 |-> IF k = Stored + 1 THEN item[p] ELSE Contents[k]]
    BY ContentsSeq, SemRingAssumption
<1>4. ASSUME NEW k \in 1..Stored + 1
      PROVE  buffer[(head + k - 1) % Size] = IF k = Stored + 1 THEN item[p] ELSE Contents[k]
  <2>1. CASE k = Stored + 1
    BY <1>1, <2>1
  <2>2. CASE k \in 1..Stored
    BY <2>2, SemRingAssumption DEF Contents
  <2> QED
    BY <2>1, <2>2, SemRingAssumption
<1> QED
    BY <1>2, <1>3, <1>4

LEMMA GetHeads ==
    ASSUME Types, SlotInv, Stored \in 1..Size, NEW p \in Procs,
           GetAdvance(p), Stored' = Stored - 1
    PROVE  /\ Contents # << >> /\ item[p] = Head(Contents)
           /\ Contents' = Tail(Contents)
<1>1. head \in Slots /\ Stored \in Nat /\ Stored \in 0..Size /\ Size \in Nat \ {0}
    BY SemRingAssumption DEF Types
<1>2. head' = (head + 1) % Size /\ buffer' = buffer /\ buffer[head] = item[p]
    BY DEF GetAdvance, SlotInv, Goes
<1>3. Contents[1] = buffer[head]
  <2>1. (head + 1 - 1) % Size = head
    BY <1>1 DEF Slots
  <2> QED
    BY <1>1, <2>1 DEF Contents
<1>4. Head(Contents) = buffer[head] /\ Contents # << >>
    BY <1>1, <1>3, ContentsSeq
<1>5. ASSUME NEW k \in 1..Stored - 1
      PROVE  (head' + k - 1) % Size = (head + (k + 1) - 1) % Size
  <2>1. head \in 0..Size-1 /\ k - 1 \in 0..Size-1 /\ (k - 1) + 1 = k
    BY <1>1 DEF Slots
  <2>2. (((head + 1) % Size) + (k - 1)) % Size = (head + ((k - 1) + 1)) % Size
    BY <1>1, <2>1, HeadMoves
  <2>3. (head + 1) % Size \in Int
    BY <1>1 DEF Slots
  <2>4. head' + k - 1 = ((head + 1) % Size) + (k - 1) /\ head + (k + 1) - 1 = head + k
    BY <1>1, <1>2, <2>1, <2>3
  <2> QED
    BY <2>1, <2>2, <2>4
<1>6. Contents' = [k \in 1..Stored - 1 |-> buffer[(head' + k - 1) % Size]]
    BY <1>2 DEF Contents
<1>7. /\ Tail(Contents) \in Seq(Items \cup {NoItem}) /\ Len(Tail(Contents)) = Stored - 1
      /\ \A k \in 1..Stored - 1 : Tail(Contents)[k] = Contents[k + 1]
    BY <1>1, <1>4, ContentsSeq, HeadTailProperties
<1>8. ASSUME NEW k \in 1..Stored - 1
      PROVE  /\ buffer[(head' + k - 1) % Size] = Contents[k + 1]
             /\ Contents[k + 1] \in Items \cup {NoItem}
  <2>1. k + 1 \in 1..Stored
    BY <1>1
  <2>2. Contents[k + 1] = buffer[(head + (k + 1) - 1) % Size]
    BY <2>1 DEF Contents
  <2>3. Contents[k + 1] \in Items \cup {NoItem}
    BY <1>1, <2>1, ContentsSeq, ElementOfSeq
  <2> QED
    BY <1>5, <2>2, <2>3
<1>9. /\ Contents' \in Seq(Items \cup {NoItem}) /\ Len(Contents') = Stored - 1
      /\ \A k \in 1..Stored - 1 : Contents'[k] = Contents[k + 1]
  <2>1. Contents' = [k \in 1..Stored - 1 |-> Contents[k + 1]]
    BY <1>6, <1>8
  <2> QED
    BY <1>1, <1>8, <2>1
<1> QED
    BY <1>2, <1>4, <1>7, <1>9, SeqEqual

\* The phases and values of the callers, as functions.
Phases == [p \in Procs |-> Phase(pc[p])]
Values == [p \in Procs |-> Value(p)]

LEMMA FifoInit == Init => F!Init
<1> SUFFICES ASSUME Init PROVE F!Init
    OBVIOUS
<1>1. Stored = 0
  <2>1. At({"pUnlock", "pPost"}) = {} /\ At({"cMutex", "cLoad", "cAdvance"}) = {}
    BY DEF Init, At
  <2> QED
    BY <2>1, FS_EmptySet DEF Stored, Init, RingInit
<1>2. Contents = << >>
    BY <1>1 DEF Contents
<1>3. [p \in Procs |-> Phase(pc[p])] = [p \in Procs |-> "idle"]
    BY DEF Init, Phase
<1>4. [p \in Procs |-> Value(p)] = [p \in Procs |-> NoItem]
    BY DEF Init, Value, Phase
<1> QED
    BY <1>2, <1>3, <1>4 DEF F!Init

\* Contents is the same if the ring is, and as many items are in it.
LEMMA SameContents ==
    ASSUME UNCHANGED <<buffer, head>>, Stored' = Stored
    PROVE  Contents' = Contents
BY DEF Contents

\* Statements that leave the queue alone.
Silent(p) ==
    \/ CallGet(p) \/ WaitEmpty(p) \/ PutLock(p) \/ Store(p) \/ PutUnlock(p) \/ PostFull(p)
    \/ WaitFull(p) \/ GiveUp(p) \/ GetLock(p) \/ Load(p) \/ GetUnlock(p) \/ PostEmpty(p)

\* A producer that has its slot finds room; a consumer that has waited for
\* full finds the oldest item at head.
LEMMA CallFacts ==
    ASSUME Inv, NEW p \in Procs
    PROVE  /\ Stored \in 0..Size
           /\ Contents \in Seq(Items \cup {NoItem}) /\ Len(Contents) = Stored
           /\ pc[p] \in PutHeld => Stored < Size
           /\ pc[p] \in GetHeld => Stored > 0 /\ Contents[1] = buffer[head]
<1>0. /\ Types /\ TokenInv
      /\ Count(Critical) \in Nat /\ Count(PutHeld) \in Nat /\ Count(PutDone) \in Nat
      /\ Count(GetHeld) \in Nat /\ Count(GetDone) \in Nat
    BY CountType DEF Inv
<1>1. Stored = full + Count(PutDone) + Count(GetHeld)
    BY StoredCounts
<1>2. Stored \in 0..Size
    BY <1>0, <1>1, SemRingAssumption DEF Types, TokenInv
<1>3. pc[p] \in PutHeld => Stored < Size
    BY <1>0, <1>2, CountOne, SemRingAssumption DEF Types, TokenInv
<1>4. pc[p] \in GetHeld => Stored > 0
    BY <1>0, <1>1, CountOne DEF Types
<1>5. Stored > 0 => Contents[1] = buffer[head]
  <2>1. (head + 1 - 1) % Size = head
    BY <1>0, SemRingAssumption DEF Types, Slots
  <2> QED
    BY <1>2, <2>1, SemRingAssumption DEF Contents
<1> QED
    BY <1>0, <1>2, <1>3, <1>4, <1>5, ContentsSeq

\* What each statement does to the queue.
LEMMA CallMoves ==
    ASSUME Inv, NEW p \in Procs
    PROVE  /\ \A i \in Items : CallPut(p, i) => Inv' /\ Stored' = Stored /\ Contents' = Contents
           /\ Silent(p) => Inv' /\ Stored' = Stored /\ Contents' = Contents
           /\ PutAdvance(p) => /\ Inv' /\ Stored' = Stored + 1
                               /\ Contents' = Append(Contents, item[p])
           /\ GetAdvance(p) => /\ Inv' /\ Stored' = Stored - 1 /\ Stored > 0
                               /\ Contents' = Tail(Contents)
<1>0. /\ Types /\ TokenInv /\ RingInv /\ SlotInv /\ Stored \in 0..Size
    BY CallFacts DEF Inv
<1>1. ASSUME NEW i \in Items, CallPut(p, i)
      PROVE  Inv' /\ Stored' = Stored /\ Contents' = Contents
  <2>1. Inv'
    BY <1>1, InvStep DEF Next
  <2>2. Stored' = Stored
    BY <1>0, <1>1, TokenStep DEF CallPut, PutAdvance, GetAdvance, Goes
  <2> QED
    BY <1>1, <2>1, <2>2, SameContents DEF CallPut, ring
<1>2. ASSUME Silent(p) PROVE Inv' /\ Stored' = Stored /\ Contents' = Contents
  <2>1. Inv'
    BY <1>2, InvStep DEF Next, Silent, PutStep, GetStep
  <2>2. ~PutAdvance(p) /\ ~GetAdvance(p)
    BY <1>2 DEF Silent, CallGet, WaitEmpty, PutLock, Store, PutUnlock, PostFull, WaitFull,
        GiveUp, GetLock, Load, GetUnlock, PostEmpty, PutAdvance, GetAdvance, Goes
  <2>3. Stored' = Stored
    BY <1>0, <1>2, <2>2, TokenStep DEF Silent, PutStep, GetStep
  <2>4. CASE Store(p)
    <3>1. Stored < Size
      BY <2>4, CallFacts DEF Store, Goes, PutHeld
    <3> QED
      BY <1>0, <2>1, <2>3, <2>4, <3>1, StoreBehind, SemRingAssumption
  <2>5. CASE ~Store(p)
    <3>1. UNCHANGED <<buffer, head>>
      BY <1>2, <2>5 DEF Silent, CallGet, WaitEmpty, PutLock, PutUnlock, PostFull, WaitFull,
          GiveUp, GetLock, Load, GetUnlock, PostEmpty, ring
    <3> QED
      BY <2>1, <2>3, <3>1, SameContents
  <2> QED
    BY <2>4, <2>5
<1>3. ASSUME PutAdvance(p)
      PROVE  Inv' /\ Stored' = Stored + 1 /\ Contents' = Append(Contents, item[p])
  <2>1. Inv'
    BY <1>3, InvStep DEF Next, PutStep
  <2>2. Stored \in 0..Size - 1 /\ Stored' = Stored + 1
    BY <1>0, <1>3, TokenStep, SemRingAssumption DEF PutStep
  <2> QED
    BY <1>0, <1>3, <2>1, <2>2, PutAppends
<1>4. ASSUME GetAdvance(p)
      PROVE  Inv' /\ Stored' = Stored - 1 /\ Stored > 0 /\ Contents' = Tail(Contents)
  <2>1. Inv'
    BY <1>4, InvStep DEF Next, GetStep
  <2>2. Stored \in 1..Size /\ Stored' = Stored - 1
    BY <1>0, <1>4, TokenStep, SemRingAssumption DEF GetStep
  <2> QED
    BY <1>0, <1>4, <2>1, <2>2, GetHeads
<1> QED
    BY <1>1, <1>2, <1>3, <1>4

\* Every step of a caller is one of the queue, or none.
LEMMA FifoStep ==
    ASSUME Inv, NEW p \in Procs
    PROVE  /\ \A i \in Items : CallPut(p, i) => F!Next
           /\ CallGet(p) \/ PutAdvance(p) \/ PostFull(p) => F!Next
           /\ GiveUp(p) \/ GetAdvance(p) \/ PostEmpty(p) => F!Next
           /\ WaitEmpty(p) \/ PutLock(p) \/ Store(p) \/ PutUnlock(p) => UNCHANGED F!fifoVars
           /\ WaitFull(p) \/ GetLock(p) \/ Load(p) \/ GetUnlock(p) => UNCHANGED F!fifoVars
<1> USE DEF Goes
<1>0. /\ Types /\ TokenInv /\ RingInv /\ SlotInv
      /\ pc \in [Procs -> Pcs] /\ item \in [Procs -> Items \cup {NoItem}]
    BY DEF Inv, Types
<1>1. ASSUME NEW i \in Items, CallPut(p, i) PROVE F!Next
  <2>1. Contents' = Contents
    BY <1>0, <1>1, TokenStep, SameContents DEF CallPut, PutAdvance, GetAdvance, ring
  <2>2. Phases[p] = "idle" /\ Phases' = [Phases EXCEPT ![p] = "put"]
    BY <1>0, <1>1 DEF CallPut, Phases, Phase
  <2>3. Values' = [Values EXCEPT ![p] = i]
    BY <1>0, <1>1 DEF CallPut, Values, Value, Phase
  <2> QED
    BY <2>1, <2>2, <2>3 DEF F!Next, F!CallPut, F!Call, Phases, Values
<1>2. ASSUME CallGet(p) PROVE F!Next
  <2>1. Contents' = Contents
    BY <1>0, <1>2, TokenStep, SameContents DEF CallGet, PutAdvance, GetAdvance, ring
  <2>2. Phases[p] = "idle" /\ Phases' = [Phases EXCEPT ![p] = "get"]
    BY <1>0, <1>2 DEF CallGet, Phases, Phase
  <2>3. Values' = [Values EXCEPT ![p] = NoItem]
    BY <1>0, <1>2 DEF CallGet, Values, Value, Phase
  <2> QED
    BY <2>1, <2>2, <2>3 DEF F!Next, F!CallGet, F!Call, Phases, Values
<1>3. ASSUME PutAdvance(p) PROVE F!Next
  <2>1. Stored \in 0..Size - 1 /\ Stored' = Stored + 1
    BY <1>0, <1>3, TokenStep, SemRingAssumption DEF PutStep
  <2>2. Contents' = Append(Contents, item[p]) /\ Len(Contents) < Size
    BY <1>0, <1>3, <2>1, PutAppends, ContentsSeq, SemRingAssumption
  <2>3. Phases[p] = "put" /\ Phases' = [Phases EXCEPT ![p] = "stored"]
    BY <1>0, <1>3 DEF PutAdvance, Phases, Phase
  <2>4. Values[p] = item[p] /\ Values' = Values
    BY <1>0, <1>3 DEF PutAdvance, Values, Value, Phase
  <2> QED
    BY <2>2, <2>3, <2>4 DEF F!Next, F!Put, Phases, Values
<1>4. ASSUME PostFull(p) PROVE F!Next
  <2>1. Contents' = Contents
    BY <1>0, <1>4, TokenStep, SameContents DEF PutStep, PostFull, PutAdvance, GetAdvance
  <2>2. Phases[p] = "stored" /\ Phases' = [Phases EXCEPT ![p] = "idle"]
    BY <1>0, <1>4 DEF PostFull, Phases, Phase
  <2>3. Values' = [Values EXCEPT ![p] = NoItem]
    BY <1>0, <1>4 DEF PostFull, Values, Value, Phase
  <2> QED
    BY <2>1, <2>2, <2>3 DEF F!Next, F!Return, Phases, Values
<1>5. ASSUME GiveUp(p) PROVE F!Next
  <2>1. Contents' = Contents
    BY <1>0, <1>5, TokenStep, SameContents DEF GetStep, GiveUp, PutAdvance, GetAdvance, ring
  <2>2. Phases[p] = "get" /\ Phases' = [Phases EXCEPT ![p] = "idle"]
    BY <1>0, <1>5 DEF GiveUp, Phases, Phase
  <2>3. Values' = Values
    BY <1>0, <1>5 DEF GiveUp, Values, Value, Phase, SlotInv
  <2> QED
    BY <1>5, <2>1, <2>2, <2>3 DEF F!Next, F!GiveUp, GiveUp, Phases, Values
<1>6. ASSUME GetAdvance(p) PROVE F!Next
  <2>1. Stored \in 1..Size /\ Stored' = Stored - 1
    BY <1>0, <1>6, TokenStep, SemRingAssumption DEF GetStep
  <2>2. Contents # << >> /\ item[p] = Head(Contents) /\ Contents' = Tail(Contents)
    BY <1>0, <1>6, <2>1, GetHeads
  <2>3. Phases[p] = "get" /\ Phases' = [Phases EXCEPT ![p] = "got"]
    BY <1>0, <1>6 DEF GetAdvance, Phases, Phase
  <2>4. Values' = [Values EXCEPT ![p] = item[p]]
    BY <1>0, <1>6 DEF GetAdvance, Values, Value, Phase
  <2> QED
    BY <2>2, <2>3, <2>4 DEF F!Next, F!Get, Phases, Values
<1>7. ASSUME PostEmpty(p) PROVE F!Next
  <2>1. Contents' = Contents
    BY <1>0, <1>7, TokenStep, SameContents DEF GetStep, PostEmpty, PutAdvance, GetAdvance
  <2>2. Phases[p] = "got" /\ Phases' = [Phases EXCEPT ![p] = "idle"]
    BY <1>0, <1>7 DEF PostEmpty, Phases, Phase
  <2>3. Values' = [Values EXCEPT ![p] = NoItem]
    BY <1>0, <1>7 DEF PostEmpty, Values, Value, Phase
  <2> QED
    BY <2>1, <2>2, <2>3 DEF F!Next, F!Return, Phases, Values
<1>8. ASSUME Store(p) PROVE UNCHANGED F!fifoVars
  <2>1. Stored \in 0..Size - 1 /\ Stored' = Stored
    <3>1. Stored \in Nat /\ Stored' = Stored
      BY <1>0, <1>8, TokenStep DEF PutStep, Store, PutAdvance, GetAdvance
    <3>2. Count(PutHeld) >= 1
      BY <1>8, CountOne DEF Store, PutHeld
    <3>3. Count(PutHeld) \in Nat /\ Count(GetDone) \in Nat /\ empty \in Nat
      BY <1>0, CountType DEF Types
    <3> QED
      BY <1>0, <3>1, <3>2, <3>3, SemRingAssumption DEF TokenInv
  <2>2. Contents' = Contents
    BY <1>0, <1>8, <2>1, StoreBehind
  <2>3. Phases' = Phases /\ Values' = Values
    BY <1>0, <1>8 DEF Store, Phases, Values, Value, Phase
  <2> QED
    BY <2>2, <2>3 DEF F!fifoVars, Phases, Values
<1>9. ASSUME WaitEmpty(p) \/ PutLock(p) \/ PutUnlock(p) PROVE UNCHANGED F!fifoVars
  <2>1. Contents' = Contents
    BY <1>0, <1>9, TokenStep, SameContents
       DEF PutStep, WaitEmpty, PutLock, PutUnlock, PutAdvance, GetAdvance
  <2>2. Phases' = Phases
    BY <1>0, <1>9 DEF WaitEmpty, PutLock, PutUnlock, Phases, Phase
  <2>3. Values' = Values
    BY <1>0, <1>9 DEF WaitEmpty, PutLock, PutUnlock, Values, Value, Phase
  <2> QED
    BY <2>1, <2>2, <2>3 DEF F!fifoVars, Phases, Values
<1>10. ASSUME WaitFull(p) \/ GetLock(p) \/ GetUnlock(p) PROVE UNCHANGED F!fifoVars
  <2>1. Contents' = Contents
    BY <1>0, <1>10, TokenStep, SameContents
       DEF GetStep, WaitFull, GetLock, GetUnlock, PutAdvance, GetAdvance
  <2>2. Phases' = Phases
    BY <1>0, <1>10 DEF WaitFull, GetLock, GetUnlock, Phases, Phase
  <2>3. Values' = Values
    BY <1>0, <1>10 DEF WaitFull, GetLock, GetUnlock, Values, Value, Phase
  <2> QED
    BY <2>1, <2>2, <2>3 DEF F!fifoVars, Phases, Values
<1>11. ASSUME Load(p) PROVE UNCHANGED F!fifoVars
  <2>1. Contents' = Contents
    BY <1>0, <1>11, TokenStep, SameContents DEF GetStep, Load, PutAdvance, GetAdvance, ring
  <2>2. Phases' = Phases
    BY <1>0, <1>11 DEF Load, Phases, Phase
  <2>3. Values' = Values
    BY <1>0, <1>11 DEF Load, Values, Value, Phase, SlotInv
  <2> QED
    BY <2>1, <2>2, <2>3 DEF F!fifoVars, Phases, Values
<1> QED
    BY <1>1, <1>2, <1>3, <1>4, <1>5, <1>6, <1>7, <1>8, <1>9, <1>10, <1>11

\* producer() and consumer(), called by any number of processes on a ring of
\* any size: no item is lost, overwritten, got twice or out of order.
THEOREM Implements == Spec => IsFifo
<1>1. Inv /\ [Next]_ringVars => [F!Next]_F!fifoVars
  <2> SUFFICES ASSUME Inv, [Next]_ringVars PROVE [F!Next]_F!fifoVars
      OBVIOUS
  <2>1. CASE UNCHANGED ringVars
    BY <2>1 DEF ringVars, F!fifoVars, Contents, Stored, At, Phase, Value
  <2>2. ASSUME NEW p \in Procs, PutStep(p) \/ GetStep(p) \/ CallGet(p)
                                  \/ \E i \in Items : CallPut(p, i)
        PROVE  [F!Next]_F!fifoVars
    BY <2>2, FifoStep DEF PutStep, GetStep
  <2> QED
    BY <2>1, <2>2 DEF Next
<1> QED
    BY <1>1, FifoInit, Invariance, PTL DEF Spec, IsFifo, F!Spec
=============================================================================
