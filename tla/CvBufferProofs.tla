---------------------------- MODULE CvBufferProofs ----------------------------
(***************************************************************************)
(* Proofs about CvBuffer, for every size of the ring and number of values. *)
(*                                                                         *)
(* The mutex makes what a thread has tested true until it acts (LockInv),  *)
(* so that the count stays in its bounds and agrees with the iterations    *)
(* done (CountInv); and a thread waits only for something that is not so,  *)
(* or is about to be signalled (NoLostWakeup).  With the distance of the   *)
(* indices (RingInv) every step is one of the abstract queue, or none.     *)
(***************************************************************************)
EXTENDS CvBuffer, SequenceTheorems, TLAPS

USE DEF Threads, Producer, Consumer, Nobody

\* A thread has the mutex exactly from its lock to its unlock.
Inside == {"test", "act", "signal", "unlock"}
LockInv == \A t \in Threads : pc[t] \in Inside <=> m = t

\* What a thread has tested still holds when it acts.
TestInv == \A t \in Threads : pc[t] = "act" => ~MustWait(t)

\* Iterations that have had their effect on the ring.
Effective(t) == done[t] + (IF pc[t] \in {"signal", "unlock"} THEN 1 ELSE 0)

\* The producer has put what the consumer has taken and what is in the ring.
CountInv ==
    /\ Marks => Effective(Producer) = Effective(Consumer) + count
    /\ ~Marks => count = 0 /\ Effective(Consumer) = 0
    /\ pc[Producer] \notin {"sleep", "ended"} => done[Producer] < Total
    /\ \A t \in Threads : pc[t] = "ended" => LoopEnds(t)

\* The indices are as far apart as the count says.
RingInv == Marks => tail = (head + count) % Size

Inv == TypeOK /\ LockInv /\ TestInv /\ CountInv /\ NoLostWakeup

\* The first state: nobody has started its first iteration.
LEMMA InvInit == Init => Inv
<1> SUFFICES ASSUME Init PROVE Inv
    OBVIOUS
<1> USE CvBufferAssumption DEF Init
<1>1. TypeOK
    BY DEF TypeOK, Slots, NoItem, Pcs
<1>2. LockInv /\ TestInv /\ NoLostWakeup
    BY DEF LockInv, TestInv, NoLostWakeup, Inside
<1>3. CountInv
    BY DEF CountInv, Effective
<1> QED
    BY <1>1, <1>2, <1>3 DEF Inv

\* No step of a thread or of main() gives a variable a value of another type:
\* what a thread has tested keeps the count within the ring, and its loop the
\* iterations within the number of values.
LEMMA TypeStep == ASSUME Inv, [Next]_vars PROVE TypeOK'
<1>0. /\ TypeOK /\ TestInv /\ CountInv
      /\ Size \in Nat \ {0} /\ Total \in Nat /\ Quota \in {0, Total} /\ Marks \in BOOLEAN
    BY CvBufferAssumption DEF Inv
<1> USE DEF TypeOK, Pcs, Goes
<1>1. ASSUME NEW t \in Threads, Iterate(t) PROVE TypeOK'
  <2>1. t = Producer => done[t] + 1 \in 0..Total
    <3>1. done[t] \in 0..Total /\ ~LoopEnds(t)
        BY <1>0, <1>1 DEF Iterate
    <3> QED
        BY <1>0, <3>1 DEF LoopEnds
  <2>2. v' \in [Threads -> 0..Total]
    <3>1. NoItem \in 0..Total
        BY <1>0 DEF NoItem
    <3> QED
        BY <1>0, <1>1, <2>1, <3>1 DEF Iterate
  <2> QED
    BY <1>0, <1>1, <2>2 DEF Iterate, ring
<1>2. ASSUME NEW t \in Threads,
             EndThread(t) \/ Wait(t) \/ WakeSpuriously(t) \/ Proceed(t) \/ Lock(t) \/ Relock(t)
      PROVE  TypeOK'
  <2>1. m' \in Threads \cup {Nobody} /\ pc' \in [Threads -> Pcs]
    BY <1>0, <1>2 DEF EndThread, Wait, WakeSpuriously, Proceed, Lock, Relock
  <2> QED
    BY <1>0, <1>2, <2>1 DEF EndThread, Wait, WakeSpuriously, Proceed, Lock, Relock, ring
<1>3. ASSUME Put PROVE TypeOK'
  <2>1. pc[Producer] = "act" /\ count \in 0..Size
    BY <1>0, <1>3 DEF Put
  <2>2. count < Size
    BY <1>0, <2>1 DEF TestInv, MustWait
  <2>3. count' \in 0..Size
    BY <1>0, <1>3, <2>1, <2>2 DEF Put
  <2>4. tail' \in Slots
    BY <1>0, <1>3 DEF Put, Slots
  <2>5. buffer' \in [Slots -> 0..Total] /\ pc' \in [Threads -> Pcs]
    BY <1>0, <1>3 DEF Put
  <2> QED
    BY <1>0, <1>3, <2>3, <2>4, <2>5 DEF Put
<1>4. ASSUME Take PROVE TypeOK'
  <2>1. pc[Consumer] = "act" /\ count \in 0..Size
    BY <1>0, <1>4 DEF Take
  <2>2. count # 0
    BY <1>0, <2>1 DEF TestInv, MustWait
  <2>3. count' \in 0..Size
    BY <1>0, <1>4, <2>1, <2>2 DEF Take
  <2>4. head' \in Slots
    BY <1>0, <1>4 DEF Take, Slots
  <2>5. v' \in [Threads -> 0..Total] /\ pc' \in [Threads -> Pcs]
    BY <1>0, <1>4 DEF Take
  <2> QED
    BY <1>0, <1>4, <2>3, <2>4, <2>5 DEF Take
<1>5. ASSUME NEW t \in Threads, Signal(t) PROVE TypeOK'
    BY <1>0, <1>5 DEF Signal, ring
<1>6. ASSUME NEW t \in Threads, Unlock(t) PROVE TypeOK'
  <2>1. pc[t] = "unlock" /\ done[t] \in 0..Total /\ Effective(t) = done[t] + 1
    BY <1>0, <1>6 DEF Unlock, Effective
  <2>2. done[t] + 1 \in 0..Total
    <3>1. CASE t = Producer
        BY <1>0, <2>1, <3>1 DEF CountInv
    <3>2. CASE t = Consumer
      <4>1. Marks /\ Effective(Producer) = Effective(Consumer) + count
          BY <1>0, <2>1, <3>2 DEF CountInv
      <4>2. Effective(Producer) \in 0..Total
        <5>1. done[Producer] \in 0..Total /\ pc[Producer] \in Pcs
            BY <1>0
        <5>2. pc[Producer] \notin {"sleep", "ended"} => done[Producer] < Total
            BY <1>0 DEF CountInv
        <5> QED
            BY <1>0, <5>1, <5>2 DEF Effective
      <4>3. count \in Nat
          BY <1>0
      <4> QED
          BY <1>0, <2>1, <3>2, <4>1, <4>2, <4>3
    <3> QED
        BY <3>1, <3>2
  <2>3. v' \in [Threads -> 0..Total] /\ pc' \in [Threads -> Pcs]
    BY <1>0, <1>6 DEF Unlock, NoItem
  <2> QED
    BY <1>0, <1>6, <2>2, <2>3 DEF Unlock, ring
<1>7. CASE Joins \/ Returns
    BY <1>0, <1>7 DEF Joins, Returns, ring
<1>8. CASE UNCHANGED vars
    BY <1>0, <1>8 DEF vars, ring
<1> QED
    BY <1>1, <1>2, <1>3, <1>4, <1>5, <1>6, <1>7, <1>8 DEF Next, ThreadStep, Terminated

\* No step of a thread or of main() breaks it.
LEMMA InvStep == Inv /\ [Next]_vars => Inv'
<1> SUFFICES ASSUME Inv, [Next]_vars PROVE Inv'
    OBVIOUS
<1> USE CvBufferAssumption DEF Inv, TypeOK, Pcs, Slots, NoItem, LockInv, Inside, TestInv,
        CountInv, Effective, NoLostWakeup, MustWait, Other, LoopEnds, Goes, ring
<1>0. TypeOK'
    BY TypeStep
<1>1. ASSUME NEW t \in Threads, Iterate(t) PROVE Inv'
  <2>1. LockInv' /\ TestInv' /\ NoLostWakeup'
    BY <1>1 DEF Iterate
  <2>2. CountInv'
    <3>1. /\ pc[t] = "sleep" /\ pc'[t] = "lock" /\ ~LoopEnds(t)
          /\ \A u \in Threads : u = t \/ pc'[u] = pc[u]
          /\ UNCHANGED <<done, count>>
        BY <1>1 DEF Iterate
    <3>2. Effective(Producer)' = Effective(Producer) /\ Effective(Consumer)' = Effective(Consumer)
        BY <3>1
    <3>3. pc'[Producer] \notin {"sleep", "ended"} => done'[Producer] < Total
        BY <3>1
    <3>4. \A u \in Threads : pc'[u] = "ended" => LoopEnds(u)'
        BY <3>1
    <3> HIDE DEF Effective, LoopEnds
    <3> QED
        BY <3>1, <3>2, <3>3, <3>4
  <2> QED
    BY <1>0, <2>1, <2>2
<1>2. ASSUME NEW t \in Threads, EndThread(t) PROVE Inv'
    BY <1>2 DEF EndThread
<1>3. ASSUME NEW t \in Threads, Lock(t) PROVE Inv'
    BY <1>3 DEF Lock
<1>4. ASSUME NEW t \in Threads, Wait(t) PROVE Inv'
    BY <1>4 DEF Wait
<1>5. ASSUME NEW t \in Threads, WakeSpuriously(t) PROVE Inv'
    BY <1>5 DEF WakeSpuriously
<1>6. ASSUME NEW t \in Threads, Relock(t) PROVE Inv'
    BY <1>6 DEF Relock
<1>7. ASSUME NEW t \in Threads, Proceed(t) PROVE Inv'
    BY <1>7 DEF Proceed
<1>8. ASSUME Put PROVE Inv'
  <2>1. LockInv' /\ TestInv' /\ NoLostWakeup'
    BY <1>8 DEF Put
  <2>2. CountInv'
    <3>1. /\ pc[Producer] = "act" /\ pc'[Producer] = "signal"
          /\ pc'[Consumer] = pc[Consumer] /\ done' = done
          /\ count' = IF Marks THEN count + 1 ELSE 0
        BY <1>8 DEF Put
    <3>2. /\ Effective(Producer)' = Effective(Producer) + 1
          /\ Effective(Consumer)' = Effective(Consumer)
        BY <3>1
    <3> QED
        BY <3>1, <3>2
  <2> QED
    BY <1>0, <2>1, <2>2
<1>9. ASSUME Take PROVE Inv'
  <2>1. LockInv' /\ TestInv' /\ NoLostWakeup'
    BY <1>9 DEF Take
  <2>2. CountInv'
    BY <1>9 DEF Take
  <2> QED
    BY <1>0, <2>1, <2>2
<1>10. ASSUME NEW t \in Threads, Signal(t) PROVE Inv'
    BY <1>10 DEF Signal
<1>11. ASSUME NEW t \in Threads, Unlock(t) PROVE Inv'
  <2>1. LockInv' /\ TestInv' /\ NoLostWakeup'
    BY <1>11 DEF Unlock
  <2>2. CountInv'
    BY <1>11 DEF Unlock
  <2> QED
    BY <1>0, <2>1, <2>2
<1>12. ASSUME Joins PROVE Inv'
    BY <1>12 DEF Joins
<1>13. ASSUME Returns PROVE Inv'
    BY <1>13 DEF Returns
<1>14. ASSUME Terminated PROVE Inv'
    BY <1>14 DEF Terminated, vars
<1>15. CASE UNCHANGED vars
    BY <1>15 DEF vars
<1> QED
    BY <1>1, <1>2, <1>3, <1>4, <1>5, <1>6, <1>7, <1>8, <1>9, <1>10, <1>11, <1>12, <1>13, <1>14, <1>15 DEF Next, ThreadStep

\* All that the properties rest on.
THEOREM Invariance == Spec => []Inv
<1>1. Init => Inv
    BY InvInit
<1>2. Inv /\ [Next]_vars => Inv'
    BY InvStep
<1> QED
    BY <1>1, <1>2, PTL DEF Spec

\* The variables have their types: the count stays within the ring, and
\* neither thread does more iterations than there are values.
THEOREM TypeCorrect == Spec => []TypeOK
<1>1. Inv => TypeOK
    BY DEF Inv
<1> QED
    BY <1>1, Invariance, PTL

\* No wake-up of pthread_cond_wait() is lost, whatever the size of the ring,
\* with or without spurious wake-ups.
THEOREM NoLostWakeupAlways == Spec => []NoLostWakeup
<1>1. Inv => NoLostWakeup
    BY DEF Inv
<1> QED
    BY <1>1, Invariance, PTL

-----------------------------------------------------------------------------
(* The monitor implements the bounded FIFO. *)

\* An index that has passed the end of the ring once at most.
LEMMA ModOnce ==
    ASSUME NEW n \in Nat \ {0}, NEW x \in 0..2*n - 1
    PROVE  x % n = IF x < n THEN x ELSE x - n
<1>1. CASE x < n
    BY <1>1
<1>2. CASE x >= n
    BY <1>2
<1> QED
    BY <1>1, <1>2

\* The indices keep their distance.
LEMMA RingInit == Init => RingInv
BY CvBufferAssumption DEF Init, RingInv

LEMMA RingStep == Inv /\ RingInv /\ [Next]_vars => RingInv'
<1> SUFFICES ASSUME Inv, RingInv, [Next]_vars, Marks PROVE RingInv'
    BY DEF RingInv
<1>0. head \in Slots /\ tail \in Slots /\ count \in 0..Size
    BY DEF Inv, TypeOK
<1>1. CASE Put
  <2>1. count < Size
    <3>1. pc[Producer] = "act"
      BY <1>1 DEF Put, Goes
    <3>2. count # Size
      BY <3>1 DEF Inv, TestInv, MustWait
    <3> QED
      BY <1>0, <3>2, CvBufferAssumption
  <2>2. head' = head /\ tail' = (tail + 1) % Size /\ count' = count + 1
    BY <1>1, CvBufferAssumption DEF Put
  <2>3. (tail + 1) % Size = (head + (count + 1)) % Size
    <3>1. tail = IF head + count < Size THEN head + count ELSE head + count - Size
      BY <1>0, CvBufferAssumption DEF RingInv, Slots
    <3>2. (tail + 1) % Size = IF tail + 1 < Size THEN tail + 1 ELSE tail + 1 - Size
      BY <1>0, CvBufferAssumption DEF Slots
    <3>3. (head + (count + 1)) % Size
            = IF head + (count + 1) < Size THEN head + (count + 1)
              ELSE head + (count + 1) - Size
      BY <1>0, <2>1, CvBufferAssumption DEF Slots
    <3> QED
      BY <1>0, <2>1, <3>1, <3>2, <3>3, CvBufferAssumption DEF Slots
  <2> QED
    BY <2>2, <2>3 DEF RingInv
<1>2. CASE Take
  <2>1. count > 0
    BY <1>2, <1>0 DEF Inv, TestInv, MustWait, Take, Goes
  <2>2. head' = (head + 1) % Size /\ tail' = tail /\ count' = count - 1
    BY <1>2 DEF Take
  <2>3. (((head + 1) % Size) + (count - 1)) % Size = (head + count) % Size
    <3>1. (head + 1) % Size = IF head + 1 < Size THEN head + 1 ELSE head + 1 - Size
      BY <1>0, CvBufferAssumption DEF Slots
    <3>2. (head + count) % Size
            = IF head + count < Size THEN head + count ELSE head + count - Size
      BY <1>0, CvBufferAssumption DEF Slots
    <3>3. CASE head + 1 < Size
      BY <1>0, <3>1, <3>3, CvBufferAssumption DEF Slots
    <3>4. CASE head + 1 = Size
      <4>1. (head + 1) % Size = 0 /\ (count - 1) % Size = count - 1
        BY <1>0, <2>1, <3>1, <3>4, CvBufferAssumption DEF Slots
      <4> QED
        BY <1>0, <2>1, <3>2, <3>4, <4>1, CvBufferAssumption DEF Slots
    <3> QED
      BY <1>0, <3>3, <3>4, CvBufferAssumption DEF Slots
  <2> QED
    BY <2>2, <2>3 DEF RingInv
<1>3. CASE UNCHANGED ring
    BY <1>3 DEF ring, RingInv
<1> QED
    BY <1>1, <1>2, <1>3 DEF Next, ThreadStep, Iterate, EndThread, Lock, Wait, WakeSpuriously,
        Relock, Proceed, Signal, Unlock, Joins, Returns, Terminated, vars, ring

\* The ring seen as a sequence: what a put and a take do to it.
LEMMA ContentsSeq ==
    ASSUME TypeOK
    PROVE  Contents \in Seq(0..Total) /\ Len(Contents) = count
<1>1. count \in Nat /\ head \in Slots /\ buffer \in [Slots -> 0..Total]
    BY CvBufferAssumption DEF TypeOK
<1>2. ASSUME NEW i \in 1..count PROVE (head + i - 1) % Size \in Slots
    BY <1>1, CvBufferAssumption DEF Slots
<1> QED
    BY <1>1, <1>2 DEF Contents

LEMMA PutAppends ==
    ASSUME TypeOK, TypeOK', TestInv, RingInv, Marks, Put
    PROVE  Contents' = Append(Contents, v[Producer])
<1>1. /\ count \in Nat /\ head \in Slots /\ tail \in Slots
      /\ buffer \in [Slots -> 0..Total] /\ v[Producer] \in 0..Total
      /\ count < Size
    BY CvBufferAssumption DEF TypeOK, TestInv, MustWait, Put, Goes
<1>2. head' = head /\ count' = count + 1 /\ buffer' = [buffer EXCEPT ![tail] = v[Producer]]
    BY CvBufferAssumption DEF Put
<1>3. ASSUME NEW i \in 1..count PROVE (head + i - 1) % Size \in Slots \ {tail}
  <2>1. tail = IF head + count < Size THEN head + count ELSE head + count - Size
    <3>1. PICK x \in 0..2*Size - 1 : x = head + count
        BY <1>1, CvBufferAssumption DEF Slots
    <3>2. x % Size = IF x < Size THEN x ELSE x - Size
        BY <3>1, CvBufferAssumption, ModOnce
    <3>3. tail = (head + count) % Size
        BY DEF RingInv
    <3>4. tail = x % Size
        BY <3>1, <3>3
    <3> QED
        BY <1>1, <3>1, <3>2, <3>4, CvBufferAssumption DEF Slots
  <2>2. i - 1 \in 0..count - 1 /\ head + i - 1 = head + (i - 1)
    BY <1>1, <1>3 DEF Slots
  <2>3. CASE head + (i - 1) < Size
    <3>0. head + (i - 1) \in 0..Size - 1
      BY <1>1, <2>2, <2>3, CvBufferAssumption DEF Slots
    <3>1. (head + (i - 1)) % Size = head + (i - 1)
      BY <3>0, CvBufferAssumption
    <3> QED
      BY <1>1, <2>1, <2>2, <2>3, <3>1, CvBufferAssumption DEF Slots
  <2>4. CASE head + (i - 1) >= Size
    <3>0. head + (i - 1) \in Size..2*Size - 1
      BY <1>1, <2>2, <2>4, CvBufferAssumption DEF Slots
    <3>x. PICK x \in Int : x = head + (i - 1)
      BY <3>0, CvBufferAssumption
    <3>y. x % Size = x - Size
      BY <3>0, <3>x, CvBufferAssumption
    <3>1. (head + (i - 1)) % Size = head + (i - 1) - Size
      BY <1>1, <3>x, <3>y, CvBufferAssumption DEF Slots
    <3> QED
      BY <1>1, <2>1, <2>2, <2>4, <3>1, CvBufferAssumption DEF Slots
  <2> QED
    BY <1>1, <2>2, <2>3, <2>4, CvBufferAssumption DEF Slots
<1>4. tail = (head + (count + 1) - 1) % Size
    BY <1>1, CvBufferAssumption DEF RingInv, Slots
<1>5. /\ Contents' = [i \in 1..count + 1 |-> buffer'[(head + i - 1) % Size]]
      /\ Contents = [i \in 1..count |-> buffer[(head + i - 1) % Size]]
    BY <1>2 DEF Contents
<1>6. Append(Contents, v[Producer])
        = [i \in 1..count + 1 |-> IF i = count + 1 THEN v[Producer] ELSE Contents[i]]
    BY <1>1, ContentsSeq
<1>7. ASSUME NEW i \in 1..count + 1
      PROVE  buffer'[(head + i - 1) % Size]
                = IF i = count + 1 THEN v[Producer] ELSE Contents[i]
  <2>1. CASE i = count + 1
    BY <1>1, <1>2, <1>4, <2>1
  <2>2. CASE i \in 1..count
    BY <1>1, <1>2, <1>3, <1>5, <2>2
  <2> QED
    BY <1>1, <2>1, <2>2
<1> QED
    BY <1>5, <1>6, <1>7

LEMMA TakeHeads ==
    ASSUME TypeOK, TypeOK', TestInv, Take
    PROVE  /\ Contents # << >> /\ v' = [v EXCEPT ![Consumer] = Head(Contents)]
           /\ Contents' = Tail(Contents)
<1>1. /\ count \in Nat \ {0} /\ head \in Slots /\ buffer \in [Slots -> 0..Total]
      /\ count <= Size
    BY CvBufferAssumption DEF TypeOK, TestInv, MustWait, Take, Goes
<1>2. head' = (head + 1) % Size /\ count' = count - 1 /\ buffer' = buffer
    BY DEF Take
<1>3. (head + 1 - 1) % Size = head
    BY <1>1, CvBufferAssumption DEF Slots
<1>4. ASSUME NEW i \in 1..count - 1
      PROVE  (head' + i - 1) % Size = (head + (i + 1) - 1) % Size
  <2>1. CASE head + 1 < Size
    <3>1. head' = head + 1
      BY <1>1, <1>2, <2>1, CvBufferAssumption DEF Slots
    <3>2. head' + i - 1 = head + (i + 1) - 1
      BY <1>1, <3>1 DEF Slots
    <3> QED
      BY <3>2
  <2>2. CASE head + 1 = Size
    <3>1. head' = 0
      BY <1>1, <1>2, <2>2, CvBufferAssumption DEF Slots
    <3>2. (head' + i - 1) % Size = i - 1
      <4>1. head' + i - 1 = i - 1 /\ i - 1 \in 0..Size - 1
          BY <1>1, <3>1, CvBufferAssumption
      <4> QED
          BY <4>1, CvBufferAssumption, ModOnce
    <3>3. (head + (i + 1) - 1) % Size = i - 1
      <4>1. PICK x \in 0..2*Size - 1 : x = head + (i + 1) - 1 /\ x = Size + (i - 1)
          BY <1>1, <2>2, CvBufferAssumption DEF Slots
      <4>2. i - 1 >= 0 /\ Size \in Nat \ {0}
          BY CvBufferAssumption
      <4>3. x % Size = x - Size
          BY <4>1, <4>2, ModOnce
      <4> QED
          BY <4>1, <4>2, <4>3
    <3> QED
      BY <3>2, <3>3
  <2> QED
    BY <1>1, <2>1, <2>2, CvBufferAssumption DEF Slots
<1>5. Head(Contents) = buffer[head] /\ Contents # << >>
  <2>1. Contents[1] = buffer[head]
    BY <1>1, <1>3 DEF Contents
  <2> QED
    BY <1>1, <2>1, ContentsSeq
<1>6. /\ Contents' = [i \in 1..count - 1 |-> buffer[(head' + i - 1) % Size]]
      /\ Contents = [i \in 1..count |-> buffer[(head + i - 1) % Size]]
    BY <1>2 DEF Contents
<1>7. /\ Tail(Contents) \in Seq(0..Total) /\ Len(Tail(Contents)) = count - 1
      /\ \A i \in 1..count - 1 : Tail(Contents)[i] = Contents[i + 1]
    BY <1>1, <1>5, ContentsSeq, HeadTailProperties
<1>8. ASSUME NEW i \in 1..count - 1
      PROVE  /\ buffer[(head' + i - 1) % Size] = Contents[i + 1]
             /\ Contents[i + 1] \in 0..Total
  <2>1. i + 1 \in 1..count
    BY <1>1
  <2>2. Contents[i + 1] = buffer[(head + (i + 1) - 1) % Size]
    BY <2>1 DEF Contents
  <2>3. Contents[i + 1] \in 0..Total
    BY <1>1, <2>1, ContentsSeq, ElementOfSeq
  <2> QED
    BY <1>4, <2>2, <2>3
<1>9. /\ Contents' \in Seq(0..Total) /\ Len(Contents') = count - 1
      /\ \A i \in 1..count - 1 : Contents'[i] = Contents[i + 1]
  <2>1. Contents' = [i \in 1..count - 1 |-> Contents[i + 1]]
    BY <1>6, <1>8
  <2>2. \A i \in 1..count - 1 : Contents[i + 1] \in 0..Total
    BY <1>8
  <2> QED
    BY <1>1, <2>1, <2>2
<1>10. Contents' = Tail(Contents)
    BY <1>7, <1>9, SeqEqual
<1> QED
    BY <1>5, <1>10 DEF Take

\* The phases of the calls, as a function.
Phases == [t \in Threads |-> Phase(t)]

\* A step that changes neither the ring nor a value nor a phase is no step of
\* the queue.
LEMMA Stutters ==
    ASSUME UNCHANGED <<buffer, head, tail, count, v>>, Phases' = Phases
    PROVE  UNCHANGED F!fifoVars
BY DEF F!fifoVars, Contents, Phases

LEMMA FifoInit == Init => F!Init
<1> SUFFICES ASSUME Init PROVE F!Init
    OBVIOUS
<1>1. Contents = << >>
    BY DEF Init, Contents
<1>2. Phases = [t \in Threads |-> "idle"]
    BY DEF Init, Phases, Phase
<1> QED
    BY <1>1, <1>2 DEF F!Init, Init, Phases

\* Every step of a program that marks its slots is one of the queue, or none.
LEMMA FifoStep ==
    ASSUME Marks, Inv, Inv', RingInv, [Next]_vars
    PROVE  [F!Next]_F!fifoVars
<1> USE DEF Goes, Inv
<1>0. pc \in [Threads -> Pcs]
    BY DEF TypeOK
<1>1. ASSUME NEW t \in Threads, Iterate(t) PROVE F!Next
  <2>1. Phases[t] = "idle" /\ UNCHANGED Contents
    BY <1>1 DEF Iterate, Phases, Phase, Contents, ring
  <2>2. CASE t = Producer
    <3>1. Phases' = [Phases EXCEPT ![t] = "put"]
      BY <1>0, <1>1, <2>2 DEF Iterate, Phases, Phase
    <3>2. done[t] + 1 \in 1..Total
      BY <1>1, <2>2, CvBufferAssumption DEF Iterate, LoopEnds, TypeOK
    <3>3. v' = [v EXCEPT ![t] = done[t] + 1]
      BY <1>1, <2>2 DEF Iterate
    <3> QED
      BY <2>1, <3>1, <3>2, <3>3 DEF F!Next, F!CallPut, F!Call, Phases
  <2>3. CASE t = Consumer
    <3>1. Phases' = [Phases EXCEPT ![t] = "get"]
      BY <1>0, <1>1, <2>3 DEF Iterate, Phases, Phase
    <3>2. v' = [v EXCEPT ![t] = NoItem]
      BY <1>1, <2>3 DEF Iterate
    <3> QED
      BY <2>1, <3>1, <3>2 DEF F!Next, F!CallGet, F!Call, Phases
  <2> QED
    BY <2>2, <2>3
<1>2. ASSUME Put PROVE F!Next
  <2>1. Phases[Producer] = "put" /\ Phases' = [Phases EXCEPT ![Producer] = "stored"]
    BY <1>0, <1>2 DEF Put, Phases, Phase
  <2>2. Contents' = Append(Contents, v[Producer])
    BY <1>2, PutAppends
  <2>3. Len(Contents) < Size
    BY <1>2, ContentsSeq, CvBufferAssumption DEF Put, TestInv, MustWait, TypeOK
  <2> QED
    BY <1>2, <2>1, <2>2, <2>3 DEF F!Next, F!Put, Phases, Put
<1>3. ASSUME Take PROVE F!Next
  <2>1. Phases[Consumer] = "get" /\ Phases' = [Phases EXCEPT ![Consumer] = "got"]
    BY <1>0, <1>3 DEF Take, Phases, Phase
  <2> QED
    BY <1>3, <2>1, TakeHeads DEF F!Next, F!Get, Phases
<1>4. ASSUME NEW t \in Threads, Unlock(t) PROVE F!Next
  <2>1. Phases[t] \in {"stored", "got"} /\ Phases' = [Phases EXCEPT ![t] = "idle"]
    BY <1>0, <1>4 DEF Unlock, Phases, Phase
  <2> QED
    BY <1>4, <2>1 DEF F!Next, F!Return, Phases, Unlock, ring, Contents
<1>5. ASSUME NEW t \in Threads,
             EndThread(t) \/ Lock(t) \/ Wait(t) \/ WakeSpuriously(t) \/ Relock(t) \/ Proceed(t)
      PROVE  UNCHANGED F!fifoVars
  <2>1. Phases' = Phases
    BY <1>0, <1>5 DEF Phases, Phase, EndThread, Lock, Wait, WakeSpuriously, Relock, Proceed
  <2> QED
    BY <1>5, <2>1, Stutters DEF EndThread, Lock, Wait, WakeSpuriously, Relock, Proceed, ring
<1>6. ASSUME NEW t \in Threads, Signal(t) PROVE UNCHANGED F!fifoVars
  <2>1. Phases' = Phases
    BY <1>0, <1>6 DEF Phases, Phase, Signal
  <2> QED
    BY <1>6, <2>1, Stutters DEF Signal, ring
<1>7. ASSUME Joins \/ Returns \/ Terminated \/ UNCHANGED vars PROVE UNCHANGED F!fifoVars
  <2>1. Phases' = Phases
    BY <1>7 DEF Phases, Phase, Joins, Returns, Terminated, vars
  <2> QED
    BY <1>7, <2>1, Stutters DEF Joins, Returns, Terminated, vars, ring
<1> QED
    BY <1>1, <1>2, <1>3, <1>4, <1>5, <1>6, <1>7 DEF Next, ThreadStep

\* The monitors of circle_buffer.cpp and consumer_producer.cpp, for any number
\* of slots and values: nothing is lost, overwritten, taken twice or out of
\* order.
THEOREM Implements ==
    ASSUME Marks
    PROVE  Spec => IsFifo
<1>1. Inv /\ Inv' /\ RingInv /\ [Next]_vars => [F!Next]_F!fifoVars
    BY FifoStep
<1> QED
    BY <1>1, FifoInit, Invariance, RingInit, RingStep, PTL DEF Spec, IsFifo, F!Spec
=============================================================================
