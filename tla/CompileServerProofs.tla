------------------------- MODULE CompileServerProofs --------------------------
(***************************************************************************)
(* Proofs about CompileServer, for any number of servers, clients and      *)
(* crashes: under the semaphore no client is sent the work of another.     *)
(*                                                                         *)
(* The names of semaphores come and go, so the argument has two parts:     *)
(* children that run at one time share one semaphore (SameSem), although   *)
(* "two" and "three" unlink it after every client; and a semaphore lets    *)
(* one child at a time through (HeldInv, OneHolder), which therefore finds *)
(* the file as its own compiler left it (FileInv).  Apart from that, no    *)
(* semaphore ever has two tokens, and those of animal_done keep theirs,    *)
(* whatever runs (TokenInv).                                               *)
(***************************************************************************)
EXTENDS CompileServer, FiniteSetTheorems, TLAPS

\* Only animal_done may run more than once: two servers of the others can get
\* different semaphores, since each child unlinks the name.
OnlyDone == Concurrent \subseteq {"done"}

Pcs == Holding \cup {"new", "request", "wait", "clean", "gone", "killed", "dead"}
Live(c) == pc[c] \notin {"new", "gone", "killed", "dead"}
Holds(c) == pc[c] \in Holding

\* The parts of TypeOK that the argument needs.
KernelOK ==
    /\ program \in Programs
    /\ value \in [Gens -> -1..1]
    /\ name \in Gens \cup {0}
    /\ handle \in [Servers -> Gens \cup {0}]
ChildOK ==
    /\ pc \in [Clients -> Pcs]
    /\ parent \in [Clients -> Servers \cup {None}]
    /\ sem \in [Clients -> Gens \cup {0}]
    /\ file \in Clients \cup {None}
    /\ fd \in [Clients -> Clients \cup {None}]
    /\ got \in [Clients -> [of : Clients \cup {None}, all : BOOLEAN] \cup {None}]

\* Semaphores are numbered as they are created; a name or a handle means one
\* that has been.
CreatedInv ==
    /\ \E n \in Gens \cup {0} : Created = 1..n
    /\ name # 0 => value[name] >= 0

\* A running child has the semaphore of a running server.
LiveInv ==
    \A c \in Clients : Live(c) =>
        parent[c] \in Servers /\ sem[c] # 0 /\ handle[parent[c]] = sem[c]

\* There is one running server; those of animal_done, which never unlinks,
\* share the semaphore of the name.
ServerInv ==
    IF program = "done"
    THEN \A s \in Servers : handle[s] # 0 => handle[s] = name
    ELSE \A r, s \in Servers : handle[r] # 0 /\ handle[s] # 0 => r = s

\* Hence the running children share one semaphore.
SameSem == \A c, d \in Clients : Live(c) /\ Live(d) => sem[c] = sem[d]

\* A child that is past sem_wait() has taken the only token,
HeldInv == \A c \in Clients : Holds(c) => value[sem[c]] = 0

\* and so is alone.
OneHolder == \A c, d \in Clients : Holds(c) /\ Holds(d) => c = d

\* The file is that of the child that holds the semaphore, if its compiler is
\* left alone.  "three" never gets as far as sending it.
FileInv ==
    \A c \in Clients \ Killable :
        /\ pc[c] = "linking" => file = c
        /\ pc[c] = "open" /\ program # "three" => file = c /\ c \in whole
        /\ pc[c] = "send" => fd[c] = c /\ c \in whole

\* Only "two" and "three" unlink the name.
CleanInv == \A c \in Clients : pc[c] = "clean" => program # "done"

Inv ==
    /\ KernelOK /\ ChildOK /\ CreatedInv /\ LiveInv /\ ServerInv
    /\ HeldInv /\ OneHolder /\ FileInv /\ GetsOwn /\ CleanInv

-----------------------------------------------------------------------------
\* The bound on the number of semaphores is a number.
LEMMA GensNat == \E n \in Nat : Gens = 1..n
BY CompileAssumption, FS_CardinalityType DEF Gens

\* The semaphore that sem_open() creates is a new one.
LEMMA NewSemaphore ==
    ASSUME KernelOK, CreatedInv, Cardinality(Created) + 1 \in Gens
    PROVE  value[Cardinality(Created) + 1] = -1
<1>1. PICK n \in Gens \cup {0} : Created = 1..n
    BY DEF CreatedInv
<1>2. n \in Nat /\ Cardinality(Created) = n
    BY <1>1, GensNat, FS_Interval
<1>3. n + 1 \notin Created /\ n + 1 \in Gens
    BY <1>1, <1>2
<1> QED
    BY <1>2, <1>3 DEF Created, KernelOK

LEMMA ShareSemaphore ==
    ASSUME KernelOK, ChildOK, LiveInv, ServerInv
    PROVE  SameSem
BY DEF KernelOK, ChildOK, LiveInv, ServerInv, SameSem

LEMMA InvInit == Init => Inv
<1> SUFFICES ASSUME Init PROVE Inv
    OBVIOUS
<1>1. KernelOK /\ ChildOK
    BY GensNat DEF Init, KernelOK, ChildOK, Pcs
<1>2. Created = {} /\ name = 0
    BY DEF Init, Created
<1>3. CreatedInv
  <2>1. Created = 1..0
    BY <1>2
  <2> QED
    BY <1>2, <2>1 DEF CreatedInv
<1> QED
    BY <1>1, <1>3 DEF Inv, Init, LiveInv, Live, ServerInv, HeldInv, Holds, Holding, OneHolder,
        FileInv, GetsOwn, Own, CleanInv

\* A step of one child that leaves the semaphores alone and neither starts
\* the child nor lets it past sem_wait() keeps what is said about them.
LEMMA ChildMove ==
    ASSUME KernelOK, ChildOK, CreatedInv, LiveInv, ServerInv, HeldInv, OneHolder,
           NEW c \in Clients, NEW from \in Pcs, NEW to \in Pcs,
           Goes(c, from, to),
           UNCHANGED <<program, value, name, handle, parent, sem>>,
           to \in Holding => from \in Holding,
           from \notin {"new", "gone", "killed", "dead"}
    PROVE  /\ pc' \in [Clients -> Pcs]
           /\ KernelOK' /\ CreatedInv' /\ LiveInv' /\ ServerInv' /\ HeldInv' /\ OneHolder'
<1>1. /\ pc' \in [Clients -> Pcs]
      /\ \A d \in Clients : (Live(d)' => Live(d)) /\ (Holds(d)' => Holds(d))
    BY DEF ChildOK, Goes, Live, Holds
<1>2. KernelOK' /\ CreatedInv' /\ ServerInv'
    BY DEF KernelOK, CreatedInv, Created, ServerInv
<1>3. LiveInv' /\ HeldInv' /\ OneHolder'
    BY <1>1 DEF LiveInv, HeldInv, OneHolder
<1> QED
    BY <1>1, <1>2, <1>3

\* sem_post() and sem_wait() create nothing.
LEMMA SameCreated ==
    ASSUME CreatedInv, name' = name, name \in Gens \cup {0},
           \A g \in Gens : value'[g] >= 0 <=> value[g] >= 0
    PROVE  CreatedInv'
<1>1. Created' = Created
    BY DEF Created
<1> QED
    BY <1>1 DEF CreatedInv, Created

LEMMA InvStep ==
    ASSUME OnlyDone, Inv, [Next]_vars
    PROVE  Inv'
<1> USE DEF Inv
<1>0. SameSem
    BY ShareSemaphore
<1>1. ASSUME NEW s \in Servers, Start(s) PROVE Inv'
  <2>1. CASE name # 0
    <3>1. UNCHANGED <<program, value, name, pc, parent, sem, file, whole, fd, got>>
        BY <1>1, <2>1 DEF Start, child, disk
    <3>2. handle' = [handle EXCEPT ![s] = name] /\ handle[s] = 0
        BY <1>1, <2>1 DEF Start
    <3>3. KernelOK' /\ ChildOK' /\ CreatedInv'
        BY <3>1, <3>2 DEF KernelOK, ChildOK, CreatedInv, Created
    <3>4. LiveInv' /\ HeldInv' /\ OneHolder' /\ FileInv' /\ GetsOwn' /\ CleanInv'
        BY <3>1, <3>2 DEF KernelOK, LiveInv, Live, HeldInv, OneHolder, Holds, FileInv, GetsOwn, Own, CleanInv
    <3>5. ServerInv'
        BY <1>1, <3>1, <3>2 DEF OnlyDone, Start, KernelOK, ServerInv
    <3> QED
        BY <3>3, <3>4, <3>5
  <2>2. CASE name = 0
    <3> DEFINE g == Cardinality(Created) + 1
    <3>1. /\ UNCHANGED <<program, pc, parent, sem, file, whole, fd, got>>
          /\ g \in Gens /\ value' = [value EXCEPT ![g] = 1] /\ name' = g
          /\ handle' = [handle EXCEPT ![s] = g] /\ handle[s] = 0
        BY <1>1, <2>2 DEF Start, child, disk
    <3>2. value[g] = -1
        BY <3>1, NewSemaphore
    <3>3. KernelOK' /\ ChildOK'
        BY <3>1 DEF KernelOK, ChildOK
    <3>4. CreatedInv'
      <4>1. PICK n \in Gens \cup {0} : Created = 1..n
          BY DEF CreatedInv
      <4>2. n \in Nat /\ g = n + 1 /\ g \in Nat
        <5>1. n \in Nat
            BY GensNat
        <5>2. Cardinality(1..n) = n
            BY <5>1, FS_Interval
        <5> QED
            BY <4>1, <5>1, <5>2
      <4>3. Created' = Created \cup {g}
          BY <3>1 DEF Created, KernelOK
      <4>4. Created' = 1..g
          BY <4>1, <4>2, <4>3
      <4> QED
          BY <3>1, <4>2, <4>4 DEF CreatedInv, KernelOK
    <3>5. LiveInv'
        BY <3>1 DEF KernelOK, ChildOK, LiveInv, Live
    <3>6. HeldInv' /\ OneHolder'
      <4>1. \A c \in Clients : Holds(c) => sem[c] # g
          BY <3>2 DEF HeldInv
      <4> QED
          BY <3>1, <4>1 DEF KernelOK, HeldInv, OneHolder, Holds
    <3>7. ServerInv'
        BY <1>1, <2>2, <3>1 DEF OnlyDone, Start, KernelOK, ServerInv
    <3>8. FileInv' /\ GetsOwn' /\ CleanInv'
        BY <3>1 DEF FileInv, GetsOwn, Own, CleanInv
    <3> QED
        BY <3>3, <3>4, <3>5, <3>6, <3>7, <3>8
  <2> QED
      BY <2>1, <2>2
<1>2. ASSUME NEW s \in Servers, Interrupt(s) PROVE Inv'
  <2>1. /\ UNCHANGED <<program, value, name, parent, sem, file, whole, fd, got>>
        /\ handle' = [handle EXCEPT ![s] = 0]
      BY <1>2 DEF Interrupt, disk
  <2>2. /\ pc' \in [Clients -> Pcs]
        /\ \A c \in Clients : \/ pc'[c] = pc[c] /\ (Live(c) /\ pc[c] # "new" => parent[c] # s)
                              \/ pc'[c] \in {"killed", "dead"}
      BY <1>2 DEF Interrupt, Ended, ChildOK, Pcs, Live
  <2>3. KernelOK' /\ ChildOK' /\ CreatedInv'
      BY <2>1, <2>2, GensNat DEF KernelOK, ChildOK, CreatedInv, Created
  <2>4. LiveInv' /\ ServerInv'
      BY <2>1, <2>2 DEF KernelOK, LiveInv, Live, ServerInv
  <2>5. HeldInv' /\ OneHolder'
      BY <2>1, <2>2 DEF HeldInv, OneHolder, Holds, Holding
  <2>6. FileInv' /\ GetsOwn' /\ CleanInv'
      BY <2>1, <2>2 DEF FileInv, GetsOwn, Own, CleanInv
  <2> QED
      BY <2>3, <2>4, <2>5, <2>6
<1>3. ASSUME NEW s \in Servers, NEW c \in Clients, Fork(s, c) PROVE Inv'
  <2>1. /\ UNCHANGED <<program, value, name, handle, file, whole, fd, got>>
        /\ handle[s] # 0
        /\ pc[c] = "new" /\ pc' = [pc EXCEPT ![c] = "request"]
        /\ parent' = [parent EXCEPT ![c] = s]
        /\ sem' = [sem EXCEPT ![c] = handle[s]]
      BY <1>3 DEF Fork, Goes, kernel, disk
  <2>2. KernelOK' /\ ChildOK' /\ CreatedInv' /\ ServerInv'
      BY <2>1 DEF KernelOK, ChildOK, Pcs, CreatedInv, Created, ServerInv
  <2>3. LiveInv'
      BY <2>1 DEF KernelOK, ChildOK, LiveInv, Live
  <2>4. HeldInv' /\ OneHolder' /\ FileInv' /\ GetsOwn' /\ CleanInv'
      BY <2>1 DEF ChildOK, HeldInv, OneHolder, Holds, Holding, FileInv, GetsOwn, Own, CleanInv
  <2> QED
      BY <2>2, <2>3, <2>4
<1>4. ASSUME NEW c \in Clients, Down(c) PROVE Inv'
  <2>1. /\ UNCHANGED <<program, name, handle, parent, sem, file, whole, fd, got>>
        /\ pc[c] = "wait" /\ pc' = [pc EXCEPT ![c] = "compile"]
        /\ value[sem[c]] > 0 /\ value' = [value EXCEPT ![sem[c]] = @ - 1]
      BY <1>4 DEF Down, Goes, disk
  <2>2. sem[c] \in Gens /\ Live(c) /\ value[sem[c]] = 1
      BY <2>1 DEF KernelOK, ChildOK, LiveInv, Live
  <2>3. value' = [value EXCEPT ![sem[c]] = 0]
      BY <2>1, <2>2
  <2>4. KernelOK' /\ ChildOK' /\ LiveInv' /\ ServerInv'
      BY <2>1, <2>2, <2>3 DEF KernelOK, ChildOK, Pcs, Holding, LiveInv, Live, ServerInv
  <2>5. CreatedInv'
    <3>1. \A g \in Gens : value'[g] >= 0 <=> value[g] >= 0
        BY <2>2, <2>3 DEF KernelOK
    <3> QED
        BY <2>1, <3>1, SameCreated DEF KernelOK
  <2>6. \A d \in Clients : ~ Holds(d)
    <3>1. \A d \in Clients : Holds(d) => Live(d)
        BY DEF Holds, Holding, Live
    <3> QED
        BY <1>0, <2>2, <3>1 DEF SameSem, HeldInv
  <2>7. HeldInv' /\ OneHolder'
      BY <2>1, <2>2, <2>3, <2>6 DEF KernelOK, ChildOK, HeldInv, OneHolder, Holds
  <2>8. FileInv' /\ GetsOwn' /\ CleanInv'
      BY <2>1 DEF ChildOK, End, FileInv, GetsOwn, Own, CleanInv
  <2> QED
      BY <2>4, <2>5, <2>7, <2>8
<1>5. ASSUME NEW c \in Clients, Up(c) PROVE Inv'
  <2>1. /\ UNCHANGED <<program, name, handle, parent, sem, file, whole, fd, got>>
        /\ pc[c] = "post" /\ pc' = [pc EXCEPT ![c] = End]
        /\ value' = [value EXCEPT ![sem[c]] = @ + 1]
      BY <1>5 DEF Up, Goes, disk
  <2>2. sem[c] \in Gens /\ Holds(c) /\ value[sem[c]] = 0 /\ End \in {"gone", "clean"}
      BY <2>1 DEF ChildOK, LiveInv, Live, HeldInv, Holds, Holding, End
  <2>3. value' = [value EXCEPT ![sem[c]] = 1]
      BY <2>1, <2>2
  <2>4. KernelOK' /\ ChildOK' /\ LiveInv' /\ ServerInv'
      BY <2>1, <2>2, <2>3 DEF KernelOK, ChildOK, Pcs, LiveInv, Live, ServerInv
  <2>5. CreatedInv'
    <3>1. \A g \in Gens : value'[g] >= 0 <=> value[g] >= 0
        BY <2>2, <2>3 DEF KernelOK
    <3> QED
        BY <2>1, <3>1, SameCreated DEF KernelOK
  <2>6. \A d \in Clients : ~ Holds(d)'
      BY <2>1, <2>2 DEF ChildOK, OneHolder, Holds, Holding
  <2>7. HeldInv' /\ OneHolder'
      BY <2>6 DEF HeldInv, OneHolder
  <2>8. FileInv' /\ GetsOwn' /\ CleanInv'
      BY <2>1, <2>2 DEF ChildOK, End, FileInv, GetsOwn, Own, CleanInv
  <2> QED
      BY <2>4, <2>5, <2>7, <2>8
<1>6. ASSUME NEW c \in Clients, Unlink(c) PROVE Inv'
  <2>1. /\ UNCHANGED <<program, value, handle, parent, sem, file, whole, fd, got>>
        /\ pc[c] = "clean" /\ pc' = [pc EXCEPT ![c] = "gone"]
        /\ name' = 0
      BY <1>6 DEF Unlink, Goes, disk
  <2>2. KernelOK' /\ ChildOK' /\ CreatedInv' /\ LiveInv'
      BY <2>1 DEF KernelOK, ChildOK, Pcs, CreatedInv, Created, LiveInv, Live
  <2>3. program # "done"
      BY <2>1 DEF CleanInv
  <2>4. ServerInv'
      BY <2>1, <2>3 DEF ServerInv
  <2>5. HeldInv' /\ OneHolder' /\ FileInv' /\ GetsOwn' /\ CleanInv'
      BY <2>1 DEF ChildOK, HeldInv, OneHolder, Holds, Holding, FileInv, GetsOwn, Own, CleanInv
  <2> QED
      BY <2>2, <2>4, <2>5
<1>7. ASSUME NEW c \in Clients, Request(c) PROVE Inv'
  <2>1. /\ pc' \in [Clients -> Pcs]
        /\ KernelOK' /\ CreatedInv' /\ LiveInv' /\ ServerInv' /\ HeldInv' /\ OneHolder'
    <3>1. Goes(c, "request", "wait") /\ UNCHANGED <<program, value, name, handle, parent, sem>>
        BY <1>7 DEF Request, kernel
    <3> QED
        BY <3>1, ChildMove DEF Pcs, Holding
  <2>2. ChildOK' /\ FileInv' /\ GetsOwn' /\ CleanInv'
      BY <1>7, <2>1 DEF Request, Goes, ChildOK, FileInv, GetsOwn, Own, CleanInv, disk
  <2> QED
      BY <2>1, <2>2
<1>8. ASSUME NEW c \in Clients, BadRequest(c) PROVE Inv'
  <2>1. /\ pc' \in [Clients -> Pcs]
        /\ KernelOK' /\ CreatedInv' /\ LiveInv' /\ ServerInv' /\ HeldInv' /\ OneHolder'
    <3>1. Goes(c, "request", End) /\ UNCHANGED <<program, value, name, handle, parent, sem>>
        BY <1>8 DEF BadRequest, kernel
    <3> QED
        BY <3>1, ChildMove DEF Pcs, Holding, End
  <2>2. ChildOK' /\ FileInv' /\ GetsOwn' /\ CleanInv'
      BY <1>8, <2>1 DEF BadRequest, Goes, End, ChildOK, FileInv, GetsOwn, Own, CleanInv, disk
  <2> QED
      BY <2>1, <2>2
<1>9. ASSUME NEW c \in Clients, CompilerOpens(c) PROVE Inv'
  <2>1. /\ pc' \in [Clients -> Pcs]
        /\ KernelOK' /\ CreatedInv' /\ LiveInv' /\ ServerInv' /\ HeldInv' /\ OneHolder'
    <3>1. Goes(c, "compile", "linking") /\ UNCHANGED <<program, value, name, handle, parent, sem>>
        BY <1>9 DEF CompilerOpens, kernel
    <3> QED
        BY <3>1, ChildMove DEF Pcs, Holding
  <2>2. ChildOK' /\ FileInv' /\ GetsOwn' /\ CleanInv'
      BY <1>9, <2>1 DEF CompilerOpens, Goes, ChildOK, FileInv, GetsOwn, Own, CleanInv, Holds, Holding, OneHolder, kernel
  <2> QED
      BY <2>1, <2>2
<1>10. ASSUME NEW c \in Clients, CompilerEnds(c) PROVE Inv'
  <2>1. /\ pc' \in [Clients -> Pcs]
        /\ KernelOK' /\ CreatedInv' /\ LiveInv' /\ ServerInv' /\ HeldInv' /\ OneHolder'
    <3>1. Goes(c, "linking", "open") /\ UNCHANGED <<program, value, name, handle, parent, sem>>
        BY <1>10 DEF CompilerEnds, kernel
    <3> QED
        BY <3>1, ChildMove DEF Pcs, Holding
  <2>2. ChildOK' /\ FileInv' /\ GetsOwn' /\ CleanInv'
      BY <1>10, <2>1 DEF CompilerEnds, Goes, ChildOK, FileInv, GetsOwn, Own, CleanInv, kernel
  <2> QED
      BY <2>1, <2>2
<1>11. ASSUME NEW c \in Clients, ReportFailure(c) PROVE Inv'
  <2>1. /\ pc' \in [Clients -> Pcs]
        /\ KernelOK' /\ CreatedInv' /\ LiveInv' /\ ServerInv' /\ HeldInv' /\ OneHolder'
    <3>1. Goes(c, "failed", "post") /\ UNCHANGED <<program, value, name, handle, parent, sem>>
        BY <1>11 DEF ReportFailure, kernel
    <3> QED
        BY <3>1, ChildMove DEF Pcs, Holding
  <2>2. ChildOK' /\ FileInv' /\ GetsOwn' /\ CleanInv'
      BY <1>11, <2>1 DEF ReportFailure, Goes, ChildOK, FileInv, GetsOwn, Own, CleanInv, disk
  <2> QED
      BY <2>1, <2>2
<1>12. ASSUME NEW c \in Clients, SendFile(c) PROVE Inv'
  <2>1. /\ pc' \in [Clients -> Pcs]
        /\ KernelOK' /\ CreatedInv' /\ LiveInv' /\ ServerInv' /\ HeldInv' /\ OneHolder'
    <3>1. Goes(c, "send", "post") /\ UNCHANGED <<program, value, name, handle, parent, sem>>
        BY <1>12 DEF SendFile, kernel
    <3> QED
        BY <3>1, ChildMove DEF Pcs, Holding
  <2>2. /\ UNCHANGED <<program, parent, sem, file, whole, fd>>
        /\ pc[c] = "send" /\ pc' = [pc EXCEPT ![c] = "post"]
        /\ got' = [got EXCEPT ![c] = [of |-> fd[c], all |-> fd[c] \in whole]]
      BY <1>12 DEF SendFile, Goes
  <2>3. got' \in [Clients -> [of : Clients \cup {None}, all : BOOLEAN] \cup {None}]
      BY <2>2 DEF ChildOK
  <2>4. ChildOK' /\ FileInv' /\ CleanInv'
      BY <2>1, <2>2, <2>3 DEF ChildOK, FileInv, CleanInv
  <2>5. ASSUME NEW d \in Clients \ Killable PROVE Own(d)'
    <3>1. CASE d = c
      <4>1. fd[c] = c /\ c \in whole
          BY <2>2, <3>1, <2>5 DEF FileInv
      <4>2. got'[c] = [of |-> c, all |-> TRUE]
          BY <2>2, <4>1 DEF ChildOK
      <4> QED
          BY <3>1, <4>2 DEF Own
    <3>2. CASE d # c
      <4>1. got'[d] = got[d]
          BY <2>2, <3>2 DEF ChildOK
      <4> QED
          BY <2>5, <4>1 DEF GetsOwn, Own
    <3> QED
        BY <3>1, <3>2
  <2> QED
      BY <2>1, <2>4, <2>5 DEF GetsOwn
<1>13. ASSUME NEW c \in Clients, BrokenPipe(c) PROVE Inv'
  <2>1. UNCHANGED <<program, value, name, handle, parent, sem>>
      BY <1>13 DEF BrokenPipe, kernel
  <2>2. \/ Goes(c, "send", "dead")
        \/ Goes(c, "failed", "dead")
      BY <1>13, CompileAssumption DEF BrokenPipe, KernelOK
  <2>3. /\ pc' \in [Clients -> Pcs]
        /\ KernelOK' /\ CreatedInv' /\ LiveInv' /\ ServerInv' /\ HeldInv' /\ OneHolder'
    <3>1. CASE Goes(c, "send", "dead")
        BY <2>1, <3>1, ChildMove DEF Pcs, Holding
    <3>2. CASE Goes(c, "failed", "dead")
        BY <2>1, <3>2, ChildMove DEF Pcs, Holding
    <3> QED
        BY <2>2, <3>1, <3>2
  <2>4. ChildOK' /\ FileInv' /\ GetsOwn' /\ CleanInv'
      BY <1>13, <2>3, CompileAssumption DEF BrokenPipe, Goes, KernelOK, ChildOK, FileInv, GetsOwn, Own, CleanInv, disk
  <2> QED
      BY <2>3, <2>4
<1>14. ASSUME NEW c \in Clients, CompilerFails(c) PROVE Inv'
  <2>1. UNCHANGED <<program, value, name, handle, parent, sem>>
      BY <1>14 DEF CompilerFails, kernel
  <2>2. \/ Goes(c, "compile", "failed")
        \/ Goes(c, "compile", "gone")
        \/ Goes(c, "compile", "open")
      BY <1>14, CompileAssumption DEF CompilerFails, KernelOK
  <2>3. /\ pc' \in [Clients -> Pcs]
        /\ KernelOK' /\ CreatedInv' /\ LiveInv' /\ ServerInv' /\ HeldInv' /\ OneHolder'
    <3>1. CASE Goes(c, "compile", "failed")
        BY <2>1, <3>1, ChildMove DEF Pcs, Holding
    <3>2. CASE Goes(c, "compile", "gone")
        BY <2>1, <3>2, ChildMove DEF Pcs, Holding
    <3>3. CASE Goes(c, "compile", "open")
        BY <2>1, <3>3, ChildMove DEF Pcs, Holding
    <3> QED
        BY <2>2, <3>1, <3>2, <3>3
  <2>4. /\ UNCHANGED <<program, parent, sem, file, whole, fd, got>>
        /\ pc[c] = "compile" /\ pc'[c] \in {"failed", "gone", "open"}
        /\ pc'[c] = "open" => program = "three"
        /\ \A d \in Clients : d = c \/ pc'[d] = pc[d]
      BY <1>14, CompileAssumption DEF CompilerFails, Goes, KernelOK, ChildOK, disk
  <2>5. FileInv'
      BY <2>4 DEF FileInv
  <2>6. CleanInv'
      BY <2>4 DEF CleanInv
  <2>7. ChildOK' /\ GetsOwn'
      BY <2>3, <2>4 DEF ChildOK, GetsOwn, Own
  <2> QED
      BY <2>3, <2>5, <2>6, <2>7
<1>15. ASSUME NEW c \in Clients, OpenFile(c) PROVE Inv'
  <2>1. UNCHANGED <<program, value, name, handle, parent, sem>>
      BY <1>15 DEF OpenFile, kernel
  <2>2. \/ Goes(c, "open", "send")
        \/ Goes(c, "open", "post")
        \/ Goes(c, "open", "gone")
      BY <1>15, CompileAssumption DEF OpenFile, KernelOK
  <2>3. /\ pc' \in [Clients -> Pcs]
        /\ KernelOK' /\ CreatedInv' /\ LiveInv' /\ ServerInv' /\ HeldInv' /\ OneHolder'
    <3>1. CASE Goes(c, "open", "send")
        BY <2>1, <3>1, ChildMove DEF Pcs, Holding
    <3>2. CASE Goes(c, "open", "post")
        BY <2>1, <3>2, ChildMove DEF Pcs, Holding
    <3>3. CASE Goes(c, "open", "gone")
        BY <2>1, <3>3, ChildMove DEF Pcs, Holding
    <3> QED
        BY <2>2, <3>1, <3>2, <3>3
  <2>4. ChildOK' /\ FileInv' /\ GetsOwn' /\ CleanInv'
      BY <1>15, <2>3, CompileAssumption DEF OpenFile, DividesByZero, Goes, KernelOK, ChildOK, FileInv, GetsOwn, Own, CleanInv, disk
  <2> QED
      BY <2>3, <2>4
<1>16. ASSUME NEW c \in Clients, CompilerKilled(c) PROVE Inv'
  <2>1. UNCHANGED <<program, value, name, handle, parent, sem, file, whole, fd, got>>
      BY <1>16 DEF CompilerKilled, disk, kernel
  <2>2. /\ pc' \in [Clients -> Pcs]
        /\ KernelOK' /\ CreatedInv' /\ LiveInv' /\ ServerInv' /\ HeldInv' /\ OneHolder'
    <3>1. CASE Goes(c, "compile", "open")
        BY <2>1, <3>1, ChildMove DEF Pcs, Holding
    <3>2. CASE Goes(c, "linking", "open")
        BY <2>1, <3>2, ChildMove DEF Pcs, Holding
    <3> QED
        BY <1>16, <3>1, <3>2 DEF CompilerKilled
  <2>3. FileInv'
      BY <1>16, <2>1 DEF CompilerKilled, Goes, ChildOK, FileInv
  <2>4. ChildOK' /\ GetsOwn' /\ CleanInv'
      BY <1>16, <2>1, <2>2 DEF CompilerKilled, Goes, ChildOK, GetsOwn, Own, CleanInv
  <2> QED
      BY <2>2, <2>3, <2>4
<1>17. CASE UNCHANGED vars
    BY <1>17 DEF vars, child, disk, kernel, KernelOK, ChildOK, CreatedInv, Created, LiveInv,
        ServerInv, Live, HeldInv, OneHolder, Holds, FileInv, GetsOwn, Own, CleanInv
<1> QED
    BY <1>1, <1>2, <1>3, <1>4, <1>5, <1>6, <1>7, <1>8, <1>9,
        <1>10, <1>11, <1>12, <1>13, <1>14, <1>15, <1>16, <1>17 DEF Next, ChildStep

-----------------------------------------------------------------------------
\* What a client of the compile server is sent is its own program, whole,
\* however many clients compile into the same file and whenever the server,
\* a client or the compiler of another client gives up, as long as only
\* animal_done is run twice.
THEOREM GetsOwnAlways ==
    ASSUME OnlyDone
    PROVE  Spec => []GetsOwn
<1>1. Init => Inv
    BY InvInit
<1>2. Inv /\ [Next]_vars => Inv'
    BY InvStep
<1>3. Inv => GetsOwn
    BY DEF Inv
<1> QED
    BY <1>1, <1>2, <1>3, PTL DEF Spec

\* At most one child is between sem_wait() and sem_post(), over all servers
\* and all the semaphores that have had the name.
THEOREM OneHolderAlways ==
    ASSUME OnlyDone
    PROVE  Spec => []OneHolder
<1>1. Init => Inv
    BY InvInit
<1>2. Inv /\ [Next]_vars => Inv'
    BY InvStep
<1>3. Inv => OneHolder
    BY DEF Inv
<1> QED
    BY <1>1, <1>2, <1>3, PTL DEF Spec

-----------------------------------------------------------------------------
(* TokenKept needs no assumption on what runs: it speaks of each semaphore *)
(* by itself.                                                              *)

Taking == Holding \cup {"dead"}

\* A server has a semaphore that exists, and so has every child.
OpenedInv ==
    /\ \A s \in Servers : handle[s] # 0 => handle[s] \in Created
    /\ \A c \in Clients : IF pc[c] = "new" THEN parent[c] = None ELSE sem[c] \in Created

\* The three places where the token can be.
Free(g) == value[g] = 1 /\ Takers(g) = {}
Held(g) == value[g] = 0 /\ \E c \in Clients : Takers(g) = {c}
Lost(g) == value[g] = 0 /\ Takers(g) = {} /\ program # "done"

TokenInv == \A g \in Created : Free(g) \/ Held(g) \/ Lost(g)

TInv == KernelOK /\ ChildOK /\ CreatedInv /\ OpenedInv /\ TokenInv

LEMMA TInvInit == Init => TInv
<1> SUFFICES ASSUME Init PROVE TInv
    OBVIOUS
<1>1. Created = {}
    BY DEF Init, Created
<1> QED
    BY <1>1, InvInit DEF Init, Inv, TInv, OpenedInv, TokenInv

\* A step of one child inside sem_wait() and sem_post(), or outside: the
\* token stays where it is.
LEMMA TokenStays ==
    ASSUME TInv,
           NEW c \in Clients, NEW from \in Pcs, NEW to \in Pcs,
           Goes(c, from, to),
           UNCHANGED <<program, value, handle, parent, sem>>,
           name' \in {name, 0},
           from \in Taking <=> to \in Taking,
           from # "new", to # "new"
    PROVE  /\ pc' \in [Clients -> Pcs]
           /\ KernelOK' /\ CreatedInv' /\ OpenedInv' /\ TokenInv'
<1> USE DEF TInv
<1>1. /\ pc' \in [Clients -> Pcs]
      /\ \A d \in Clients : pc'[d] = "new" <=> pc[d] = "new"
      /\ \A d \in Clients : pc'[d] \in Taking <=> pc[d] \in Taking
     
    BY DEF ChildOK, Goes
<1>2. KernelOK' /\ CreatedInv' /\ Created' = Created
    BY DEF KernelOK, CreatedInv, Created
<1>3. OpenedInv'
    BY <1>1, <1>2 DEF OpenedInv
<1>4. \A g \in Created : Takers(g)' = Takers(g)
    BY <1>1 DEF Takers, Taking
<1>5. TokenInv'
    BY <1>2, <1>4 DEF TokenInv, Free, Held, Lost
<1> QED
    BY <1>1, <1>2, <1>3, <1>5

\* A child of "two" or "three" ends that holds a semaphore: the token is lost.
LEMMA TokenLost ==
    ASSUME TInv, program # "done",
           NEW c \in Clients, pc[c] \in Holding,
           pc' = [pc EXCEPT ![c] = "gone"],
           UNCHANGED <<program, value, name, handle, parent, sem>>
    PROVE  /\ pc' \in [Clients -> Pcs]
           /\ KernelOK' /\ CreatedInv' /\ OpenedInv' /\ TokenInv'
<1> USE DEF TInv
<1>1. /\ pc' \in [Clients -> Pcs]
      /\ \A d \in Clients : pc'[d] = "new" <=> pc[d] = "new"
      /\ \A d \in Clients : pc'[d] \in Taking <=> pc[d] \in Taking /\ d # c
     
    BY DEF ChildOK, Pcs, Holding, Taking
<1>2. KernelOK' /\ CreatedInv' /\ Created' = Created
    BY DEF KernelOK, CreatedInv, Created
<1>3. OpenedInv'
    BY <1>1, <1>2 DEF OpenedInv
<1>4. \A g \in Created : Takers(g)' = Takers(g) \ {c}
    BY <1>1 DEF Takers, Taking
<1>5. sem[c] \in Created /\ c \in Takers(sem[c])
    BY DEF OpenedInv, Takers, Holding
<1>6. \A g \in Created : (Free(g) \/ Held(g) \/ Lost(g))'
  <2> TAKE g \in Created
  <2>1. CASE g = sem[c]
    <3>1. Takers(g) = {c} /\ value[g] = 0
        BY <1>5, <2>1 DEF TokenInv, Free, Held, Lost
    <3>2. Lost(g)'
        BY <1>4, <2>1, <3>1 DEF Lost
    <3> QED
        BY <3>2
  <2>2. CASE g # sem[c]
    <3>1. Takers(g)' = Takers(g)
        BY <1>4, <2>2 DEF Takers
    <3> QED
        BY <3>1 DEF TokenInv, Free, Held, Lost
  <2> QED
      BY <2>1, <2>2
<1>7. TokenInv'
    BY <1>2, <1>6 DEF TokenInv
<1> QED
    BY <1>1, <1>2, <1>3, <1>7

\* The semaphores exist or not as before when those that exist keep a token
\* that is not negative.
LEMMA SameExist ==
    ASSUME KernelOK, NEW STATE g, g \in Created, NEW STATE v, v \in Nat,
           value' = [value EXCEPT ![g] = v]
    PROVE  Created' = Created
BY DEF Created, KernelOK

LEMMA TInvStep == TInv /\ [Next]_vars => TInv'
<1> SUFFICES ASSUME TInv, [Next]_vars PROVE TInv'
    OBVIOUS
<1> USE DEF TInv
<1>1. ASSUME NEW s \in Servers, Start(s) PROVE TInv'
  <2>1. UNCHANGED <<program, pc, parent, sem, file, whole, fd, got>>
      BY <1>1 DEF Start, child, disk
  <2>2. CASE name # 0
    <3>1. UNCHANGED <<value, name>> /\ handle' = [handle EXCEPT ![s] = name]
        BY <1>1, <2>2 DEF Start
    <3>2. KernelOK' /\ ChildOK' /\ CreatedInv' /\ Created' = Created /\ name \in Created
        BY <2>1, <2>2, <3>1 DEF KernelOK, ChildOK, CreatedInv, Created
    <3>3. OpenedInv'
        BY <2>1, <3>1, <3>2 DEF KernelOK, OpenedInv
    <3>4. TokenInv'
        BY <2>1, <3>1, <3>2 DEF TokenInv, Free, Held, Lost, Takers
    <3> QED
        BY <3>2, <3>3, <3>4
  <2>3. CASE name = 0
    <3>1. PICK g \in Gens :
              /\ g = Cardinality(Created) + 1
              /\ value' = [value EXCEPT ![g] = 1] /\ name' = g
              /\ handle' = [handle EXCEPT ![s] = g]
        BY <1>1, <2>3 DEF Start
    <3>2. value[g] = -1 /\ g \notin Created
        BY <3>1, NewSemaphore DEF Created
    <3>3. Created' = Created \cup {g}
        BY <3>1 DEF Created, KernelOK
    <3>4. CreatedInv'
      <4>1. PICK n \in Gens \cup {0} : Created = 1..n
          BY DEF CreatedInv
      <4>2. n \in Nat /\ Cardinality(Created) = n
          BY <4>1, GensNat, FS_Interval
      <4>3. Created' = 1..g
          BY <3>1, <3>3, <4>1, <4>2
      <4> QED
          BY <3>1, <4>3 DEF CreatedInv, KernelOK
    <3>5. KernelOK' /\ ChildOK' /\ OpenedInv'
        BY <2>1, <3>1, <3>3 DEF KernelOK, ChildOK, OpenedInv
    <3>6. TokenInv'
      <4>1. Takers(g) = {}
          BY <3>2 DEF OpenedInv, Takers, Holding
      <4>2. \A h : Takers(h)' = Takers(h)
          BY <2>1 DEF Takers
      <4>3. Free(g)'
          BY <2>1, <3>1, <4>1, <4>2 DEF Free, KernelOK
      <4>4. \A h \in Created : (Free(h) \/ Held(h) \/ Lost(h))'
        <5>1. \A h \in Created : value'[h] = value[h]
            BY <3>1, <3>2 DEF KernelOK, Created
        <5> QED
            BY <2>1, <4>2, <5>1 DEF TokenInv, Free, Held, Lost
      <4> QED
          BY <2>1, <3>3, <4>3, <4>4 DEF TokenInv
    <3> QED
        BY <3>4, <3>5, <3>6
  <2> QED
      BY <2>2, <2>3
<1>2. ASSUME NEW s \in Servers, Interrupt(s) PROVE TInv'
  <2>1. /\ UNCHANGED <<program, value, name, parent, sem, file, whole, fd, got>>
        /\ handle' = [handle EXCEPT ![s] = 0]
      BY <1>2 DEF Interrupt, disk
  <2> DEFINE mine == {c \in Clients : parent[c] = s /\ pc[c] \notin {"gone", "killed", "dead"}}
  <2>2. /\ pc' \in [Clients -> Pcs]
        /\ \A c \in Clients : IF pc'[c] = "new" THEN parent[c] = None ELSE sem[c] \in Created
        /\ \A c \in Clients : pc'[c] \in Taking <=> pc[c] \in Taking
    <3>1. pc' = [c \in Clients |-> IF c \in mine THEN Ended(pc[c]) ELSE pc[c]]
        BY <1>2 DEF Interrupt
    <3>2. \A c \in mine : pc[c] # "new"
        BY CompileAssumption DEF OpenedInv
    <3>3. \A at \in Pcs : Ended(at) \in Pcs /\ (Ended(at) \in Taking <=> at \in Holding)
        BY DEF Ended, Pcs, Holding, Taking
    <3>4. \A c \in Clients : pc'[c] = "new" <=> pc[c] = "new"
        BY <3>1, <3>2 DEF Ended
    <3>5. pc' \in [Clients -> Pcs] /\ \A c \in Clients : pc'[c] \in Taking <=> pc[c] \in Taking
        BY <3>1, <3>3 DEF ChildOK, Taking
    <3> QED
        BY <3>4, <3>5 DEF OpenedInv
  <2>3. KernelOK' /\ ChildOK' /\ CreatedInv' /\ Created' = Created
      BY <2>1, <2>2, GensNat DEF KernelOK, ChildOK, CreatedInv, Created
  <2>4. OpenedInv'
      BY <2>1, <2>2, <2>3 DEF KernelOK, OpenedInv
  <2>5. \A g \in Created : Takers(g)' = Takers(g)
      BY <2>1, <2>2 DEF Takers, Taking
  <2>6. TokenInv'
      BY <2>1, <2>3, <2>5 DEF TokenInv, Free, Held, Lost
  <2> QED
      BY <2>2, <2>3, <2>4, <2>6
<1>3. ASSUME NEW s \in Servers, NEW c \in Clients, Fork(s, c) PROVE TInv'
  <2>1. /\ UNCHANGED <<program, value, name, handle, file, whole, fd, got>>
        /\ handle[s] # 0
        /\ pc[c] = "new" /\ pc' = [pc EXCEPT ![c] = "request"]
        /\ parent' = [parent EXCEPT ![c] = s]
        /\ sem' = [sem EXCEPT ![c] = handle[s]]
      BY <1>3 DEF Fork, Goes, kernel, disk
  <2>2. KernelOK' /\ ChildOK' /\ CreatedInv' /\ Created' = Created
      BY <2>1 DEF KernelOK, ChildOK, Pcs, CreatedInv, Created
  <2>3. OpenedInv'
      BY <2>1, <2>2 DEF KernelOK, ChildOK, OpenedInv
  <2>4. \A g : Takers(g)' = Takers(g)
      BY <2>1 DEF ChildOK, Takers, Holding
  <2>5. TokenInv'
      BY <2>1, <2>2, <2>4 DEF TokenInv, Free, Held, Lost
  <2> QED
      BY <2>2, <2>3, <2>5
<1>4. ASSUME NEW c \in Clients, Down(c) PROVE TInv'
  <2>1. /\ UNCHANGED <<program, name, handle, parent, sem, file, whole, fd, got>>
        /\ pc[c] = "wait" /\ pc' = [pc EXCEPT ![c] = "compile"]
        /\ value[sem[c]] > 0 /\ value' = [value EXCEPT ![sem[c]] = @ - 1]
      BY <1>4 DEF Down, Goes, disk
  <2>2. sem[c] \in Created
      BY <2>1 DEF OpenedInv
  <2>3. Free(sem[c])
      BY <2>1, <2>2 DEF TokenInv, Free, Held, Lost
  <2>4. value' = [value EXCEPT ![sem[c]] = 0]
      BY <2>1, <2>3 DEF Free
  <2>5. Created' = Created
      BY <2>2, <2>4, SameExist
  <2>6. KernelOK' /\ ChildOK' /\ CreatedInv'
      BY <2>1, <2>2, <2>4, <2>5 DEF KernelOK, ChildOK, Pcs, Holding, CreatedInv, Created
  <2>7. OpenedInv'
      BY <2>1, <2>5 DEF ChildOK, OpenedInv
  <2>8. \A g : Takers(g)' = IF g = sem[c] THEN Takers(g) \cup {c} ELSE Takers(g)
      BY <2>1 DEF ChildOK, Takers, Holding
  <2>9. \A g \in Created : (Free(g) \/ Held(g) \/ Lost(g))'
    <3> TAKE g \in Created
    <3>1. CASE g = sem[c]
        <4>1. Takers(g)' = {c} /\ value'[g] = 0
            BY <2>1, <2>2, <2>3, <2>4, <2>8, <3>1 DEF Free, KernelOK, Created
        <4> QED
            BY <4>1 DEF Held
    <3>2. CASE g # sem[c]
        BY <2>1, <2>4, <2>8, <3>2 DEF TokenInv, Free, Held, Lost, KernelOK, Created
    <3> QED
        BY <3>1, <3>2
  <2> QED
      BY <2>1, <2>5, <2>6, <2>7, <2>9 DEF TokenInv
<1>5. ASSUME NEW c \in Clients, Up(c) PROVE TInv'
  <2>1. /\ UNCHANGED <<program, name, handle, parent, sem, file, whole, fd, got>>
        /\ pc[c] = "post" /\ pc' = [pc EXCEPT ![c] = End]
        /\ value' = [value EXCEPT ![sem[c]] = @ + 1]
      BY <1>5 DEF Up, Goes, disk
  <2>2. sem[c] \in Created /\ c \in Takers(sem[c]) /\ End \in {"gone", "clean"}
      BY <2>1 DEF OpenedInv, Takers, Holding, End
  <2>3. Held(sem[c]) /\ Takers(sem[c]) = {c}
      BY <2>2 DEF TokenInv, Free, Held, Lost
  <2>4. value' = [value EXCEPT ![sem[c]] = 1]
      BY <2>1, <2>3 DEF Held
  <2>5. Created' = Created
      BY <2>2, <2>4, SameExist
  <2>6. KernelOK' /\ ChildOK' /\ CreatedInv'
      BY <2>1, <2>2, <2>4, <2>5 DEF KernelOK, ChildOK, Pcs, CreatedInv, Created
  <2>7. OpenedInv'
      BY <2>1, <2>2, <2>5 DEF ChildOK, OpenedInv
  <2>8. \A g : Takers(g)' = Takers(g) \ {c}
      BY <2>1, <2>2 DEF ChildOK, Takers, Holding
  <2>9. \A g \in Created : (Free(g) \/ Held(g) \/ Lost(g))'
    <3> TAKE g \in Created
    <3>1. CASE g = sem[c]
        <4>1. Takers(g)' = {} /\ value'[g] = 1
            BY <2>1, <2>2, <2>3, <2>4, <2>8, <3>1 DEF Held, KernelOK, Created
        <4> QED
            BY <4>1 DEF Free
    <3>2. CASE g # sem[c]
        <4>1. Takers(g)' = Takers(g) /\ value'[g] = value[g]
            BY <2>4, <2>8, <3>2 DEF Takers, KernelOK, Created
        <4> QED
            BY <2>1, <4>1 DEF TokenInv, Free, Held, Lost
    <3> QED
        BY <3>1, <3>2
  <2> QED
      BY <2>1, <2>5, <2>6, <2>7, <2>9 DEF TokenInv
<1>6. ASSUME NEW c \in Clients, Unlink(c) PROVE TInv'
  <2>1. /\ Goes(c, "clean", "gone") /\ name' \in {name, 0}
        /\ UNCHANGED <<program, value, handle, parent, sem>>
      BY <1>6 DEF Unlink
  <2>2. /\ pc' \in [Clients -> Pcs]
        /\ KernelOK' /\ CreatedInv' /\ OpenedInv' /\ TokenInv'
      BY <2>1, TokenStays DEF Pcs, Holding, Taking
  <2>3. ChildOK'
      BY <1>6, <2>1, <2>2 DEF Unlink, ChildOK, disk
  <2> QED
      BY <2>2, <2>3
<1>7. ASSUME NEW c \in Clients, Request(c) PROVE TInv'
  <2>1. /\ Goes(c, "request", "wait") /\ name' \in {name, 0}
        /\ UNCHANGED <<program, value, handle, parent, sem>>
      BY <1>7 DEF Request, kernel
  <2>2. /\ pc' \in [Clients -> Pcs]
        /\ KernelOK' /\ CreatedInv' /\ OpenedInv' /\ TokenInv'
      BY <2>1, TokenStays DEF Pcs, Holding, Taking
  <2>3. ChildOK'
      BY <1>7, <2>1, <2>2 DEF Request, ChildOK, disk
  <2> QED
      BY <2>2, <2>3
<1>8. ASSUME NEW c \in Clients, BadRequest(c) PROVE TInv'
  <2>1. /\ Goes(c, "request", End) /\ name' \in {name, 0}
        /\ UNCHANGED <<program, value, handle, parent, sem>>
      BY <1>8 DEF BadRequest, kernel
  <2>2. /\ pc' \in [Clients -> Pcs]
        /\ KernelOK' /\ CreatedInv' /\ OpenedInv' /\ TokenInv'
      BY <2>1, TokenStays DEF Pcs, Holding, Taking, End
  <2>3. ChildOK'
      BY <1>8, <2>1, <2>2 DEF BadRequest, ChildOK, disk
  <2> QED
      BY <2>2, <2>3
<1>9. ASSUME NEW c \in Clients, CompilerOpens(c) PROVE TInv'
  <2>1. /\ Goes(c, "compile", "linking") /\ name' \in {name, 0}
        /\ UNCHANGED <<program, value, handle, parent, sem>>
      BY <1>9 DEF CompilerOpens, kernel
  <2>2. /\ pc' \in [Clients -> Pcs]
        /\ KernelOK' /\ CreatedInv' /\ OpenedInv' /\ TokenInv'
      BY <2>1, TokenStays DEF Pcs, Holding, Taking
  <2>3. ChildOK'
      BY <1>9, <2>1, <2>2 DEF CompilerOpens, ChildOK
  <2> QED
      BY <2>2, <2>3
<1>10. ASSUME NEW c \in Clients, CompilerEnds(c) PROVE TInv'
  <2>1. /\ Goes(c, "linking", "open") /\ name' \in {name, 0}
        /\ UNCHANGED <<program, value, handle, parent, sem>>
      BY <1>10 DEF CompilerEnds, kernel
  <2>2. /\ pc' \in [Clients -> Pcs]
        /\ KernelOK' /\ CreatedInv' /\ OpenedInv' /\ TokenInv'
      BY <2>1, TokenStays DEF Pcs, Holding, Taking
  <2>3. ChildOK'
      BY <1>10, <2>1, <2>2 DEF CompilerEnds, ChildOK
  <2> QED
      BY <2>2, <2>3
<1>11. ASSUME NEW c \in Clients, ReportFailure(c) PROVE TInv'
  <2>1. /\ Goes(c, "failed", "post") /\ name' \in {name, 0}
        /\ UNCHANGED <<program, value, handle, parent, sem>>
      BY <1>11 DEF ReportFailure, kernel
  <2>2. /\ pc' \in [Clients -> Pcs]
        /\ KernelOK' /\ CreatedInv' /\ OpenedInv' /\ TokenInv'
      BY <2>1, TokenStays DEF Pcs, Holding, Taking
  <2>3. ChildOK'
      BY <1>11, <2>1, <2>2 DEF ReportFailure, ChildOK, disk
  <2> QED
      BY <2>2, <2>3
<1>12. ASSUME NEW c \in Clients, SendFile(c) PROVE TInv'
  <2>1. /\ Goes(c, "send", "post") /\ name' \in {name, 0}
        /\ UNCHANGED <<program, value, handle, parent, sem>>
      BY <1>12 DEF SendFile, kernel
  <2>2. /\ pc' \in [Clients -> Pcs]
        /\ KernelOK' /\ CreatedInv' /\ OpenedInv' /\ TokenInv'
      BY <2>1, TokenStays DEF Pcs, Holding, Taking
  <2>3. ChildOK'
    <3>1. got' = [got EXCEPT ![c] = [of |-> fd[c], all |-> fd[c] \in whole]]
        BY <1>12 DEF SendFile
    <3>2. got' \in [Clients -> [of : Clients \cup {None}, all : BOOLEAN] \cup {None}]
        BY <3>1 DEF ChildOK
    <3> QED
        BY <1>12, <2>1, <2>2, <3>2 DEF SendFile, ChildOK
  <2> QED
      BY <2>2, <2>3
<1>13. ASSUME NEW c \in Clients, BrokenPipe(c) PROVE TInv'
  <2>1. UNCHANGED <<program, value, name, handle, parent, sem>>
      BY <1>13 DEF BrokenPipe, kernel
  <2>2. \/ Goes(c, "send", "dead")
        \/ Goes(c, "failed", "dead")
      BY <1>13, CompileAssumption DEF BrokenPipe, KernelOK
  <2>3. /\ pc' \in [Clients -> Pcs]
        /\ KernelOK' /\ CreatedInv' /\ OpenedInv' /\ TokenInv'
    <3>1. CASE Goes(c, "send", "dead")
        BY <2>1, <3>1, TokenStays DEF Pcs, Holding, Taking
    <3>2. CASE Goes(c, "failed", "dead")
        BY <2>1, <3>2, TokenStays DEF Pcs, Holding, Taking
    <3> QED
        BY <2>2, <3>1, <3>2
  <2>4. ChildOK'
      BY <1>13, <2>1, <2>3 DEF BrokenPipe, ChildOK, disk
  <2> QED
      BY <2>3, <2>4
<1>14. ASSUME NEW c \in Clients, CompilerFails(c) PROVE TInv'
  <2>1. UNCHANGED <<program, value, name, handle, parent, sem>>
      BY <1>14 DEF CompilerFails, kernel
  <2>2. \/ Goes(c, "compile", "failed")
        \/ Goes(c, "compile", "open")
        \/ Goes(c, "compile", "gone") /\ program # "done"
      BY <1>14, CompileAssumption DEF CompilerFails, KernelOK
  <2>3. /\ pc' \in [Clients -> Pcs]
        /\ KernelOK' /\ CreatedInv' /\ OpenedInv' /\ TokenInv'
    <3>1. CASE Goes(c, "compile", "failed")
        BY <2>1, <3>1, TokenStays DEF Pcs, Holding, Taking
    <3>2. CASE Goes(c, "compile", "open")
        BY <2>1, <3>2, TokenStays DEF Pcs, Holding, Taking
    <3>3. CASE Goes(c, "compile", "gone") /\ program # "done"
        BY <2>1, <3>3, TokenLost DEF Goes, Holding
    <3> QED
        BY <2>2, <3>1, <3>2, <3>3
  <2>4. ChildOK'
      BY <1>14, <2>1, <2>3 DEF CompilerFails, ChildOK, disk
  <2> QED
      BY <2>3, <2>4
<1>15. ASSUME NEW c \in Clients, OpenFile(c) PROVE TInv'
  <2>1. UNCHANGED <<program, value, name, handle, parent, sem>>
      BY <1>15 DEF OpenFile, kernel
  <2>2. \/ Goes(c, "open", "send")
        \/ Goes(c, "open", "post")
        \/ Goes(c, "open", "gone") /\ program # "done"
      BY <1>15, CompileAssumption DEF OpenFile, DividesByZero, KernelOK
  <2>3. /\ pc' \in [Clients -> Pcs]
        /\ KernelOK' /\ CreatedInv' /\ OpenedInv' /\ TokenInv'
    <3>1. CASE Goes(c, "open", "send")
        BY <2>1, <3>1, TokenStays DEF Pcs, Holding, Taking
    <3>2. CASE Goes(c, "open", "post")
        BY <2>1, <3>2, TokenStays DEF Pcs, Holding, Taking
    <3>3. CASE Goes(c, "open", "gone") /\ program # "done"
        BY <2>1, <3>3, TokenLost DEF Goes, Holding
    <3> QED
        BY <2>2, <3>1, <3>2, <3>3
  <2>4. ChildOK'
      BY <1>15, <2>1, <2>3 DEF OpenFile, ChildOK, disk
  <2> QED
      BY <2>3, <2>4
<1>16. ASSUME NEW c \in Clients, CompilerKilled(c) PROVE TInv'
  <2>1. UNCHANGED <<program, value, name, handle, parent, sem>>
      BY <1>16 DEF CompilerKilled, kernel
  <2>2. /\ pc' \in [Clients -> Pcs]
        /\ KernelOK' /\ CreatedInv' /\ OpenedInv' /\ TokenInv'
    <3>1. CASE Goes(c, "compile", "open")
        BY <2>1, <3>1, TokenStays DEF Pcs, Holding, Taking
    <3>2. CASE Goes(c, "linking", "open")
        BY <2>1, <3>2, TokenStays DEF Pcs, Holding, Taking
    <3> QED
        BY <1>16, <3>1, <3>2 DEF CompilerKilled
  <2>3. ChildOK'
      BY <1>16, <2>1, <2>2 DEF CompilerKilled, ChildOK, disk
  <2> QED
      BY <2>2, <2>3
<1>17. CASE UNCHANGED vars
    BY <1>17 DEF vars, child, disk, kernel, KernelOK, ChildOK, CreatedInv, Created, OpenedInv,
        TokenInv, Free, Held, Lost, Takers
<1> QED
    BY <1>1, <1>2, <1>3, <1>4, <1>5, <1>6, <1>7, <1>8, <1>9,
        <1>10, <1>11, <1>12, <1>13, <1>14, <1>15, <1>16, <1>17 DEF Next, ChildStep

\* No path through client_handle() gives up a semaphore twice, and in
\* animal_done none keeps it: its token is free, or held by one child, which
\* runs or was ended from outside.
THEOREM TokenKeptAlways == Spec => []TokenKept
<1>1. TInv => TokenKept
  <2> SUFFICES ASSUME TInv, NEW g \in Created
               PROVE  /\ value[g] + Cardinality(Takers(g)) <= 1
                      /\ program = "done" => value[g] + Cardinality(Takers(g)) = 1
      BY DEF TokenKept
  <2>1. Free(g) \/ Held(g) \/ Lost(g)
      BY DEF TInv, TokenInv
  <2>2. CASE Free(g)
      BY <2>2, FS_EmptySet DEF Free
  <2>3. CASE Held(g)
    <3>1. Cardinality(Takers(g)) = 1
        BY <2>3, FS_Singleton DEF Held
    <3> QED
        BY <2>3, <3>1 DEF Held
  <2>4. CASE Lost(g)
      BY <2>4, FS_EmptySet DEF Lost
  <2> QED
      BY <2>1, <2>2, <2>3, <2>4
<1> QED
    BY <1>1, TInvInit, TInvStep, PTL DEF Spec
=============================================================================
