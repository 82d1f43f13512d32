-------------------------- MODULE IpcLifecycleProofs --------------------------
(***************************************************************************)
(* Proofs about IpcLifecycle, for any number of servers, children, runs    *)
(* with -r and interrupts.                                                 *)
(*                                                                         *)
(* Objects are numbered, so that a new one has a number that nobody has    *)
(* open (GenInv, CountInv).  A server that starts with a clean record is   *)
(* alone in that (PhaseInv), and over its start the names mean the same    *)
(* objects to all who work (NamesInv): it takes the memory and semaphores  *)
(* that belong together, or makes all of them.  Hence those who share the  *)
(* memory share the semaphores (ShareInv), and the memory that a server    *)
(* creates or clears is nobody's (ClearInv).                               *)
(***************************************************************************)
EXTENDS IpcLifecycle, FiniteSetTheorems, TLAPS

\* The names of the semaphores a program uses, and those its loop has done.
Uses(pg) == IF pg = "DU05" THEN {"mutex", "empty", "full"} ELSE Names

Firsts(pg, j) == {SemNames(pg)[i] : i \in 1..j}

Done(p) == Firsts(prog[p], k[p])

Starting == {"open", "create", "truncate", "stale", "zero", "semaphores"}
Ending == {"unlink", "unlink shm"}
Clearing == {"truncate", "stale", "zero"}

\* Whose sharing the properties are about.
Workers == AtWork \cap good

BaseInv ==
    /\ pc \in [Procs -> {"idle", "up", "gone"} \cup Starting \cup Ending]
    /\ prog \in [Procs -> {"DU05", "DU05_test"}]
    /\ boss \in [Procs -> Procs]
    /\ good \subseteq Procs
    /\ messy \in BOOLEAN
    /\ noted \in [Gens -> SUBSET Clients]
    /\ \A p \in Clients : pc[p] \in {"idle", "up", "gone"}
    /\ \A p \in Removers : pc[p] \in {"idle", "gone"} \cup Ending
    /\ \A p \in Servers \cup Removers : boss[p] = p
    /\ \A p, q \in Procs \ Removers : prog[p] = prog[q]
    /\ \A p \in good : pc[p] # "idle"
    /\ k \in [Procs -> Nat]
    /\ \A p \in Procs : k[p] < Len(SemNames(prog[p]))
    /\ \A p \in Procs : pc[p] \notin {"stale", "semaphores", "unlink"} => k[p] = 0

\* Objects are numbered from 1 on.
GenInv ==
    /\ mem \in [Procs -> Nat] /\ sem \in [Procs -> [Names -> Nat]]
    /\ shmName \in Nat /\ semName \in [Names -> Nat]
    /\ made \in [Names \cup {"shm"} -> Nat]
    /\ shmName <= made["shm"]
    /\ \A n \in Names : semName[n] <= made[n]
    /\ \A p \in Procs : mem[p] <= made["shm"] /\ \A n \in Names : sem[p][n] <= made[n]
    /\ \A p \in Procs : pc[p] \in Clearing \cup {"semaphores"} => mem[p] >= 1
    /\ \A p \in Procs : pc[p] = "semaphores" => \A n \in Done(p) : sem[p][n] >= 1
    /\ \A p \in AtWork : mem[p] >= 1 /\ \A n \in Uses(prog[p]) : sem[p][n] >= 1

\* A server makes one memory at most.
CountInv ==
    made["shm"] <= Cardinality({s \in Servers : pc[s] \notin {"idle", "open", "create"}})

\* Who starts with a clean record is alone in that.
PhaseInv ==
    /\ \A s \in good : pc[s] \in Starting => ~messy
    /\ ~messy => /\ \A p, q \in Procs : InPhase(p) /\ InPhase(q) => p = q
                 /\ \A s \in Procs : pc[s] \in Starting => s \in good

\* The names mean what those who use the memory of that name have open.
Agrees ==
    \A p \in Workers : \A n \in Uses(prog[p]) :
        (mem[p] = shmName) <=> (sem[p][n] = semName[n])

Linked ==
    /\ shmName \in sized
    /\ \A s \in Servers : \A n \in Uses(prog[s]) : semName[n] # 0
    /\ Agrees

ShareInv ==
    \A p, q \in Workers :
        /\ mem[p] \in sized
        /\ \A n \in Uses(prog[p]) : (mem[p] = mem[q]) <=> (sem[p][n] = sem[q][n])

\* What the names mean to a server that is starting.
StartNames(s) ==
    /\ pc[s] = "open" => shmName = 0 \/ Linked
    /\ pc[s] = "create" => shmName = 0
    /\ pc[s] \in Clearing \cup {"semaphores"} => shmName = mem[s]
    /\ pc[s] \in {"stale", "zero", "semaphores"} => mem[s] \in sized
    /\ pc[s] = "stale" => \A n \in Done(s) : semName[n] = 0
    /\ pc[s] = "zero" => \A n \in Uses(prog[s]) : semName[n] = 0
    /\ pc[s] = "semaphores" =>
        /\ Agrees
        /\ \A n \in Done(s) : sem[s][n] = semName[n]

NamesInv ==
    /\ ~messy /\ (\A p \in Procs : ~InPhase(p)) => shmName = 0 \/ Linked
    /\ \A s \in good : StartNames(s)

\* No memory is created or cleared that a worker uses.
ClearInv ==
    \A s \in Procs : \A p \in Workers :
        /\ pc[s] = "create" => mem[p] # shmName
        /\ pc[s] \in Clearing => mem[p] # mem[s]

-----------------------------------------------------------------------------
(* The loops over the semaphores. *)

\* A turn does a name of the program that has not been done, the last turn the
\* last one.
LEMMA LoopFacts ==
    ASSUME NEW pg \in {"DU05", "DU05_test"}, NEW j \in Nat, j < Len(SemNames(pg))
    PROVE  /\ SemNames(pg)[j + 1] \in Uses(pg) \ Firsts(pg, j)
           /\ Firsts(pg, j + 1) = Firsts(pg, j) \cup {SemNames(pg)[j + 1]}
           /\ j + 1 = Len(SemNames(pg)) => Firsts(pg, j + 1) = Uses(pg)
           /\ j + 1 # Len(SemNames(pg)) => j + 1 < Len(SemNames(pg))
           /\ Firsts(pg, 0) = {}
           /\ 0 < Len(SemNames(pg))
           /\ Uses(pg) \subseteq Names
<1>1. CASE pg = "DU05"
  <2>1. SemNames(pg) = <<"mutex", "empty", "full">>
    BY <1>1 DEF SemNames
  <2>2. j \in 0..2
    BY <2>1
  <2>3. /\ Firsts(pg, 0) = {}
        /\ Firsts(pg, 1) = {"mutex"}
        /\ Firsts(pg, 2) = {"mutex", "empty"}
        /\ Firsts(pg, 3) = {"mutex", "empty", "full"}
    BY <2>1 DEF Firsts
  <2> QED
    BY <1>1, <2>1, <2>2, <2>3 DEF Uses, Names
<1>2. CASE pg = "DU05_test"
  <2>1. SemNames(pg) = <<"mutex", "empty", "full", "pause">>
    BY <1>2 DEF SemNames
  <2>2. j \in 0..3
    BY <2>1
  <2>3. /\ Firsts(pg, 0) = {}
        /\ Firsts(pg, 1) = {"mutex"}
        /\ Firsts(pg, 2) = {"mutex", "empty"}
        /\ Firsts(pg, 3) = {"mutex", "empty", "full"}
        /\ Firsts(pg, 4) = Names
    BY <2>1 DEF Firsts, Names
  <2>4. /\ Uses(pg) = Names
        /\ Len(SemNames(pg)) = 4
        /\ SemNames(pg)[1] = "mutex" /\ SemNames(pg)[2] = "empty"
        /\ SemNames(pg)[3] = "full" /\ SemNames(pg)[4] = "pause"
    BY <1>2, <2>1 DEF Uses
  <2>5. CASE j = 0
    BY <2>3, <2>4, <2>5 DEF Names
  <2>6. CASE j = 1
    BY <2>3, <2>4, <2>6 DEF Names
  <2>7. CASE j = 2
    BY <2>3, <2>4, <2>7 DEF Names
  <2>8. CASE j = 3
    BY <2>3, <2>4, <2>8 DEF Names
  <2> QED
    BY <2>2, <2>5, <2>6, <2>7, <2>8
<1> QED
    BY <1>1, <1>2

\* Only names of the program are done.
LEMMA FirstsUsed ==
    ASSUME NEW pg, NEW j \in Nat, j < Len(SemNames(pg))
    PROVE  Firsts(pg, j) \subseteq Uses(pg)
<1>1. CASE pg = "DU05"
  <2>1. SemNames(pg) = <<"mutex", "empty", "full">>
    BY <1>1 DEF SemNames
  <2> QED
    BY <1>1, <2>1 DEF Firsts, Uses
<1>2. CASE pg # "DU05"
  <2>1. SemNames(pg) = <<"mutex", "empty", "full", "pause">>
    BY <1>2 DEF SemNames
  <2> QED
    BY <1>2, <2>1 DEF Firsts, Uses, Names
<1> QED
  BY <1>1, <1>2

\* What a turn of a loop does besides its step.
TurnFacts(p, from, to, n) ==
    /\ pc[p] = from
    /\ n \in Uses(prog[p]) \ Done(p) /\ n \in Names
    /\ \/ /\ pc' = [pc EXCEPT ![p] = from] /\ k' = [k EXCEPT ![p] = k[p] + 1]
          /\ k[p] + 1 < Len(SemNames(prog[p]))
          /\ Firsts(prog[p], k[p] + 1) = Done(p) \cup {n}
       \/ /\ pc' = [pc EXCEPT ![p] = to] /\ k' = [k EXCEPT ![p] = 0]
          /\ Uses(prog[p]) = Done(p) \cup {n}

\* sem_open(): the object of the name, or a new one.
LEMMA OpenSemFacts ==
    ASSUME BaseInv, NEW s \in Procs, OpenSem(s)
    PROVE  \E n \in Names :
            /\ TurnFacts(s, "semaphores", "up", n)
            /\ \/ semName[n] # 0 /\ sem' = [sem EXCEPT ![s][n] = semName[n]]
                  /\ UNCHANGED <<semName, made>>
               \/ /\ semName[n] = 0
                  /\ made' = [made EXCEPT ![n] = made[n] + 1]
                  /\ semName' = [semName EXCEPT ![n] = made'[n]]
                  /\ sem' = [sem EXCEPT ![s][n] = made'[n]]
<1> DEFINE n == SemNames(prog[s])[k[s] + 1]
<1>1. /\ n \in Uses(prog[s]) \ Firsts(prog[s], k[s]) /\ n \in Names
      /\ Firsts(prog[s], k[s] + 1) = Firsts(prog[s], k[s]) \cup {n}
      /\ k[s] + 1 = Len(SemNames(prog[s])) => Firsts(prog[s], k[s] + 1) = Uses(prog[s])
      /\ k[s] + 1 # Len(SemNames(prog[s])) => k[s] + 1 < Len(SemNames(prog[s]))
  <2>1. prog[s] \in {"DU05", "DU05_test"} /\ k[s] \in Nat /\ k[s] < Len(SemNames(prog[s]))
    BY DEF BaseInv
  <2> QED
    BY <2>1, LoopFacts
<1>2. /\ pc[s] = "semaphores"
      /\ \/ pc' = [pc EXCEPT ![s] = "semaphores"] /\ k' = [k EXCEPT ![s] = k[s] + 1]
            /\ k[s] + 1 # Len(SemNames(prog[s]))
         \/ pc' = [pc EXCEPT ![s] = "up"] /\ k' = [k EXCEPT ![s] = 0]
            /\ k[s] + 1 = Len(SemNames(prog[s]))
    BY DEF OpenSem, Turn, Goes
<1>3. \/ semName[n] # 0 /\ sem' = [sem EXCEPT ![s][n] = semName[n]]
         /\ UNCHANGED <<semName, made>>
      \/ /\ semName[n] = 0
         /\ made' = [made EXCEPT ![n] = made[n] + 1]
         /\ semName' = [semName EXCEPT ![n] = made'[n]]
         /\ sem' = [sem EXCEPT ![s][n] = made'[n]]
    BY DEF OpenSem, Turn
<1>4. TurnFacts(s, "semaphores", "up", n)
    BY <1>1, <1>2 DEF TurnFacts, Done
<1> QED
    BY <1>1, <1>3, <1>4

\* The two loops that unlink; only the states they go between differ.
UnlinkTurn(p, from, to) ==
    \E n \in Names : TurnFacts(p, from, to, n) /\ semName' = [semName EXCEPT ![n] = 0]

\* Both loops that unlink.
LEMMA UnlinkFacts ==
    ASSUME BaseInv, NEW p \in Procs
    PROVE  /\ UnlinkStale(p) => UnlinkTurn(p, "stale", "zero")
           /\ Unlink(p) => UnlinkTurn(p, "unlink", "unlink shm")
<1> DEFINE n == SemNames(prog[p])[k[p] + 1]
<1>1. /\ n \in Uses(prog[p]) \ Firsts(prog[p], k[p]) /\ n \in Names
      /\ Firsts(prog[p], k[p] + 1) = Firsts(prog[p], k[p]) \cup {n}
      /\ k[p] + 1 = Len(SemNames(prog[p])) => Firsts(prog[p], k[p] + 1) = Uses(prog[p])
      /\ k[p] + 1 # Len(SemNames(prog[p])) => k[p] + 1 < Len(SemNames(prog[p]))
  <2>1. prog[p] \in {"DU05", "DU05_test"} /\ k[p] \in Nat /\ k[p] < Len(SemNames(prog[p]))
    BY DEF BaseInv
  <2> QED
    BY <2>1, LoopFacts
<1>2. ASSUME UnlinkStale(p) PROVE UnlinkTurn(p, "stale", "zero")
  <2>1. /\ pc[p] = "stale"
        /\ \/ pc' = [pc EXCEPT ![p] = "stale"] /\ k' = [k EXCEPT ![p] = k[p] + 1]
              /\ k[p] + 1 # Len(SemNames(prog[p]))
           \/ pc' = [pc EXCEPT ![p] = "zero"] /\ k' = [k EXCEPT ![p] = 0]
              /\ k[p] + 1 = Len(SemNames(prog[p]))
        /\ semName' = [semName EXCEPT ![n] = 0]
    BY <1>2 DEF UnlinkStale, Turn, Goes, UnlinkSem
  <2>2. TurnFacts(p, "stale", "zero", n)
    BY <1>1, <2>1 DEF TurnFacts, Done
  <2> QED
    BY <1>1, <2>1, <2>2 DEF UnlinkTurn
<1>3. ASSUME Unlink(p) PROVE UnlinkTurn(p, "unlink", "unlink shm")
  <2>1. /\ pc[p] = "unlink"
        /\ \/ pc' = [pc EXCEPT ![p] = "unlink"] /\ k' = [k EXCEPT ![p] = k[p] + 1]
              /\ k[p] + 1 # Len(SemNames(prog[p]))
           \/ pc' = [pc EXCEPT ![p] = "unlink shm"] /\ k' = [k EXCEPT ![p] = 0]
              /\ k[p] + 1 = Len(SemNames(prog[p]))
        /\ semName' = [semName EXCEPT ![n] = 0]
    BY <1>3 DEF Unlink, Turn, Goes, UnlinkSem
  <2>2. TurnFacts(p, "unlink", "unlink shm", n)
    BY <1>1, <2>1 DEF TurnFacts, Done
  <2> QED
    BY <1>1, <2>1, <2>2 DEF UnlinkTurn
<1> QED
  BY <1>2, <1>3

-----------------------------------------------------------------------------
(* Where the processes are, and what they run. *)

\* Each loop has a turn.
LEMMA LoopStarts == \A pg : 0 < Len(SemNames(pg))
<1> SUFFICES ASSUME NEW pg PROVE 0 < Len(SemNames(pg))
  OBVIOUS
<1>1. CASE pg = "DU05"
  <2>1. SemNames(pg) = <<"mutex", "empty", "full">>
    BY <1>1 DEF SemNames
  <2> QED
    BY <2>1
<1>2. CASE pg # "DU05"
  <2>1. SemNames(pg) = <<"mutex", "empty", "full", "pause">>
    BY <1>2 DEF SemNames
  <2> QED
    BY <2>1
<1> QED
  BY <1>1, <1>2

LEMMA BaseInit == ASSUME Init PROVE BaseInv
<1>1. /\ pc = [p \in Procs |-> "idle"] /\ k = [p \in Procs |-> 0]
      /\ boss = [p \in Procs |-> p] /\ good = {} /\ messy = FALSE
      /\ noted = [m \in Gens |-> {}]
  BY DEF Init
<1>2. PICK s \in Programs : prog = [p \in Procs |-> s]
  BY DEF Init
<1>3. s \in {"DU05", "DU05_test"}
  BY IpcAssumption
<1>4. 0 \in Nat /\ 0 < Len(SemNames(s))
  BY LoopStarts
<1> QED
  BY <1>1, <1>2, <1>3, <1>4 DEF BaseInv, Procs

\* A step that takes one process to its next phase keeps what is said of the
\* processes one by one.
LEMMA BaseMove ==
    ASSUME BaseInv, NEW p \in Procs, k[p] = 0,
           NEW to \in {"up", "gone"} \cup Starting \cup Ending,
           p \in Clients => to \in {"up", "gone"},
           p \in Removers => to \in {"gone"} \cup Ending,
           pc' = [pc EXCEPT ![p] = to],
           UNCHANGED <<prog, k>>,
           boss' \in [Procs -> Procs],
           \A q \in Servers \cup Removers : boss'[q] = boss[q],
           noted' \in [Gens -> SUBSET Clients],
           good' \subseteq good \cup {p}, messy' \in BOOLEAN
    PROVE  BaseInv'
<1>0. Servers \subseteq Procs /\ Removers \subseteq Procs /\ Clients \subseteq Procs
  BY DEF Procs
<1>1. /\ pc' \in [Procs -> {"idle", "up", "gone"} \cup Starting \cup Ending]
      /\ \A q \in Procs : q = p \/ pc'[q] = pc[q]
      /\ pc'[p] = to
  BY DEF BaseInv
<1>2. to # "idle"
  BY DEF Starting, Ending
<1>3. good' \subseteq Procs /\ \A q \in good' : pc'[q] # "idle"
  <2>1. good \subseteq Procs /\ \A q \in good : pc[q] # "idle"
    BY DEF BaseInv
  <2> QED
    BY <1>1, <1>2, <2>1
<1>4. \A q \in Clients : pc'[q] \in {"idle", "up", "gone"}
  <2>1. \A q \in Clients : pc[q] \in {"idle", "up", "gone"}
    BY DEF BaseInv
  <2> QED
    BY <1>0, <1>1, <2>1
<1>5. \A q \in Removers : pc'[q] \in {"idle", "gone"} \cup Ending
  <2>1. \A q \in Removers : pc[q] \in {"idle", "gone"} \cup Ending
    BY DEF BaseInv
  <2> QED
    BY <1>0, <1>1, <2>1
<1>6. \A q \in Servers \cup Removers : boss'[q] = q
  BY DEF BaseInv
<1>7. \A q \in Procs : pc'[q] \notin {"stale", "semaphores", "unlink"} => k'[q] = 0
  <2>1. \A q \in Procs : pc[q] \notin {"stale", "semaphores", "unlink"} => k[q] = 0
    BY DEF BaseInv
  <2> QED
    BY <1>1, <2>1
<1>8. /\ prog' \in [Procs -> {"DU05", "DU05_test"}]
      /\ k' \in [Procs -> Nat]
      /\ \A q \in Procs : k'[q] < Len(SemNames(prog'[q]))
  BY DEF BaseInv
<1>9. \A q, r \in Procs \ Removers : prog'[q] = prog'[r]
  BY DEF BaseInv
<1> QED
  BY <1>1, <1>3, <1>4, <1>5, <1>6, <1>7, <1>8, <1>9 DEF BaseInv

\* Every action keeps what is said of the processes one by one.
LEMMA BaseStep == ASSUME BaseInv, [Next]_vars PROVE BaseInv'
<1>0. /\ Servers \subseteq Procs /\ Removers \subseteq Procs /\ Clients \subseteq Procs
      /\ Servers \cap Removers = {} /\ Servers \cap Clients = {}
      /\ Removers \cap Clients = {}
  BY IpcAssumption DEF Procs
<1>1. ASSUME NEW s \in Servers, Start(s) PROVE BaseInv'
  <2>1. /\ pc[s] = "idle" /\ pc' = [pc EXCEPT ![s] = "open"]
        /\ UNCHANGED <<prog, k, boss, noted>>
        /\ good' \subseteq good \cup {s} /\ messy' \in BOOLEAN
    BY <1>1 DEF Start, Goes, Begins, names, memory, BaseInv
  <2>2. k[s] = 0 /\ boss' \in [Procs -> Procs] /\ noted' \in [Gens -> SUBSET Clients]
    BY <1>0, <2>1 DEF BaseInv
  <2> QED
    BY <1>0, <2>1, <2>2, BaseMove DEF Starting
<1>2. ASSUME NEW s \in Servers, OpenShm(s) PROVE BaseInv'
  <2>1. /\ pc[s] = "open" /\ pc' = [pc EXCEPT ![s] = IF shmName # 0 THEN "semaphores" ELSE "create"]
        /\ UNCHANGED <<prog, k, boss, noted, good, messy>>
    BY <1>2 DEF OpenShm, Goes, names, memory, ghost
  <2>2. /\ k[s] = 0 /\ boss' \in [Procs -> Procs] /\ noted' \in [Gens -> SUBSET Clients]
        /\ good' \subseteq good \cup {s} /\ messy' \in BOOLEAN
    BY <1>0, <2>1 DEF BaseInv
  <2>3. (IF shmName # 0 THEN "semaphores" ELSE "create") \in Starting
    BY DEF Starting
  <2> QED
    BY <1>0, <2>1, <2>2, <2>3, BaseMove
<1>3. ASSUME NEW s \in Servers, CreateShm(s) PROVE BaseInv'
  <2>1. /\ pc[s] = "create" /\ pc' = [pc EXCEPT ![s] = "truncate"]
        /\ UNCHANGED <<prog, k, boss, noted, good, messy>>
    BY <1>3 DEF CreateShm, Goes, names, memory, ghost
  <2>2. /\ k[s] = 0 /\ boss' \in [Procs -> Procs] /\ noted' \in [Gens -> SUBSET Clients]
        /\ good' \subseteq good \cup {s} /\ messy' \in BOOLEAN
    BY <1>0, <2>1 DEF BaseInv
  <2> QED
    BY <1>0, <2>1, <2>2, BaseMove DEF Starting
<1>4. ASSUME NEW s \in Servers, Truncate(s) PROVE BaseInv'
  <2>1. /\ pc[s] = "truncate" /\ pc' = [pc EXCEPT ![s] = "stale"]
        /\ UNCHANGED <<prog, k, boss, noted, good, messy>>
    BY <1>4 DEF Truncate, Goes, names, memory, ghost
  <2>2. /\ k[s] = 0 /\ boss' \in [Procs -> Procs] /\ noted' \in [Gens -> SUBSET Clients]
        /\ good' \subseteq good \cup {s} /\ messy' \in BOOLEAN
    BY <1>0, <2>1 DEF BaseInv
  <2> QED
    BY <1>0, <2>1, <2>2, BaseMove DEF Starting
<1>5. ASSUME NEW p \in Procs, NEW n, NEW from \in {"stale", "semaphores", "unlink"},
             NEW to, p \in Clients => FALSE, p \in Removers => to \in Ending,
             to \in Starting \cup Ending \cup {"up"}, TurnFacts(p, from, to, n),
             UNCHANGED <<prog, boss, noted, good, messy>>
      PROVE  BaseInv'
  <2>1. 0 < Len(SemNames(prog[p]))
    BY LoopStarts
  <2>2. CASE /\ pc' = [pc EXCEPT ![p] = from] /\ k' = [k EXCEPT ![p] = k[p] + 1]
             /\ k[p] + 1 < Len(SemNames(prog[p]))
    <3>1. pc' = pc /\ pc[p] \in {"stale", "semaphores", "unlink"}
      BY <1>5, <2>2 DEF BaseInv, TurnFacts
    <3>2. /\ k' \in [Procs -> Nat]
          /\ \A q \in Procs : q = p \/ k'[q] = k[q]
          /\ k'[p] < Len(SemNames(prog[p]))
      <4>1. k \in [Procs -> Nat] /\ k[p] \in Nat
        BY <1>5 DEF BaseInv
      <4> QED
        BY <4>1, <2>2
    <3>3. \A q \in Procs : pc'[q] \notin {"stale", "semaphores", "unlink"} => k'[q] = 0
      BY <3>1, <3>2 DEF BaseInv
    <3>4. \A q \in Procs : k'[q] < Len(SemNames(prog[q]))
      <4> SUFFICES ASSUME NEW q \in Procs PROVE k'[q] < Len(SemNames(prog[q]))
        OBVIOUS
      <4>1. k[q] < Len(SemNames(prog[q]))
        BY DEF BaseInv
      <4>2. q = p \/ k'[q] = k[q]
        BY <3>2
      <4> QED
        BY <4>1, <4>2, <3>2
    <3> QED
      BY <1>5, <3>1, <3>2, <3>3, <3>4 DEF BaseInv
  <2>3. CASE pc' = [pc EXCEPT ![p] = to] /\ k' = [k EXCEPT ![p] = 0]
    <3>1. /\ pc' \in [Procs -> {"idle", "up", "gone"} \cup Starting \cup Ending]
          /\ \A q \in Procs : q = p \/ pc'[q] = pc[q]
          /\ pc'[p] = to
      BY <1>5, <2>3 DEF BaseInv
    <3>2. /\ k' \in [Procs -> Nat]
          /\ \A q \in Procs : q = p \/ k'[q] = k[q]
          /\ k'[p] = 0
      BY <2>3 DEF BaseInv
    <3>3. \A q \in Procs : k'[q] < Len(SemNames(prog[q]))
      <4>1. \A q \in Procs : k[q] < Len(SemNames(prog[q]))
        BY DEF BaseInv
      <4> QED
        BY <2>1, <3>2, <4>1
    <3>4. \A q \in Procs : pc'[q] \notin {"stale", "semaphores", "unlink"} => k'[q] = 0
      <4>1. \A q \in Procs : pc[q] \notin {"stale", "semaphores", "unlink"} => k[q] = 0
        BY DEF BaseInv
      <4> QED
        BY <3>1, <3>2, <4>1
    <3>5. /\ \A q \in Clients : pc'[q] \in {"idle", "up", "gone"}
          /\ \A q \in Removers : pc'[q] \in {"idle", "gone"} \cup Ending
      <4>1. /\ \A q \in Clients : pc[q] \in {"idle", "up", "gone"}
            /\ \A q \in Removers : pc[q] \in {"idle", "gone"} \cup Ending
        BY DEF BaseInv
      <4> QED
        BY <1>0, <1>5, <3>1, <4>1
    <3>6. \A q \in good : pc'[q] # "idle"
      <4>1. good \subseteq Procs /\ \A q \in good : pc[q] # "idle"
        BY DEF BaseInv
      <4>2. to # "idle"
        BY <1>5 DEF Starting, Ending
      <4> QED
        BY <3>1, <4>1, <4>2
    <3> QED
      BY <1>5, <3>1, <3>2, <3>3, <3>4, <3>5, <3>6 DEF BaseInv
  <2> QED
    BY <1>5, <2>2, <2>3 DEF TurnFacts
<1>6. ASSUME NEW s \in Servers, UnlinkStale(s) PROVE BaseInv'
  <2>1. PICK n \in Names : TurnFacts(s, "stale", "zero", n)
    BY <1>0, <1>6, UnlinkFacts DEF UnlinkTurn
  <2> QED
    BY <1>0, <1>6, <2>1, <1>5 DEF UnlinkStale, memory, ghost, Starting, Ending
<1>7. ASSUME NEW s \in Servers, Zero(s) PROVE BaseInv'
  <2>1. /\ pc[s] = "zero" /\ pc' = [pc EXCEPT ![s] = "semaphores"]
        /\ UNCHANGED <<prog, k, boss, good, messy>>
        /\ noted' = [noted EXCEPT ![mem[s]] = {}]
    BY <1>7 DEF Zero, Goes, names, memory, ghost
  <2>2. /\ k[s] = 0 /\ boss' \in [Procs -> Procs]
        /\ good' \subseteq good \cup {s} /\ messy' \in BOOLEAN
    BY <1>0, <2>1 DEF BaseInv
  <2>3. noted' \in [Gens -> SUBSET Clients]
    BY <2>1 DEF BaseInv
  <2> QED
    BY <1>0, <2>1, <2>2, <2>3, BaseMove DEF Starting
<1>8. ASSUME NEW s \in Servers, OpenSem(s) PROVE BaseInv'
  <2>1. PICK n \in Names : TurnFacts(s, "semaphores", "up", n)
    BY <1>0, <1>8, OpenSemFacts
  <2> QED
    BY <1>0, <1>8, <2>1, <1>5 DEF OpenSem, memory, ghost
<1>9. ASSUME NEW s \in Servers, Quit(s) PROVE BaseInv'
  <2>1. /\ pc[s] = "up" /\ UNCHANGED <<prog, boss, noted>>
        /\ \/ pc' = [pc EXCEPT ![s] = "gone"] \/ pc' = [pc EXCEPT ![s] = "unlink"]
        /\ k' = [p \in Procs |-> IF p \in {s} THEN 0 ELSE k[p]]
    BY <1>9 DEF Quit, Goes, names, memory, Closes
  <2>2. good' \subseteq good /\ messy' \in BOOLEAN
    <3>1. CASE UNCHANGED ghost
      BY <3>1 DEF ghost, BaseInv
    <3>2. CASE Begins(s)
      <4>1. messy' \in BOOLEAN
        BY <3>2 DEF Begins
      <4>2. pc[s] # "idle"
        BY <2>1
      <4> QED
        BY <3>2, <4>1, <4>2 DEF Begins
    <3> QED
      BY <1>9, <3>1, <3>2 DEF Quit
  <2>3. /\ k' = k /\ k[s] = 0
        /\ boss' \in [Procs -> Procs] /\ noted' \in [Gens -> SUBSET Clients]
    BY <2>1, <1>0 DEF BaseInv
  <2>4. CASE pc' = [pc EXCEPT ![s] = "gone"]
    BY <1>0, <2>1, <2>2, <2>3, <2>4, BaseMove
  <2>5. CASE pc' = [pc EXCEPT ![s] = "unlink"]
    BY <1>0, <2>1, <2>2, <2>3, <2>5, BaseMove DEF Ending
  <2> QED
    BY <2>1, <2>4, <2>5
<1>10. ASSUME NEW s \in Servers, NEW c \in Clients, Fork(s, c) PROVE BaseInv'
  <2>1. /\ pc[s] = "up" /\ pc[c] = "idle" /\ pc' = [pc EXCEPT ![c] = "up"]
        /\ boss' = [boss EXCEPT ![c] = s]
        /\ noted' = [noted EXCEPT ![mem[s]] = @ \cup {c}]
        /\ good' = IF s \in good THEN good \cup {c} ELSE good
        /\ UNCHANGED <<prog, k, messy>>
    BY <1>10 DEF Fork, Goes, names
  <2>2. noted' \in [Gens -> SUBSET Clients]
    BY <2>1 DEF BaseInv
  <2>3. /\ boss' \in [Procs -> Procs]
        /\ \A q \in Servers \cup Removers : boss'[q] = boss[q]
    BY <1>0, <2>1 DEF BaseInv
  <2>4. k[c] = 0 /\ good' \subseteq good \cup {c} /\ messy' \in BOOLEAN
    BY <1>0, <2>1 DEF BaseInv
  <2> QED
    BY <1>0, <2>1, <2>2, <2>3, <2>4, BaseMove
<1>11. ASSUME NEW p \in Procs, Leave(p) PROVE BaseInv'
  <2>1. /\ p \in Clients /\ pc[p] = "up" /\ pc' = [pc EXCEPT ![p] = "gone"]
        /\ UNCHANGED <<prog, boss, good, messy>>
        /\ noted' = [noted EXCEPT ![mem[p]] = @ \ {p}]
        /\ k' = [q \in Procs |-> IF q \in {p} THEN 0 ELSE k[q]]
    BY <1>11 DEF Leave, Goes, names, ghost, Closes
  <2>2. noted' \in [Gens -> SUBSET Clients]
    BY <2>1 DEF BaseInv
  <2>3. /\ k' = k /\ k[p] = 0 /\ boss' \in [Procs -> Procs]
        /\ good' \subseteq good \cup {p} /\ messy' \in BOOLEAN
    BY <1>0, <2>1 DEF BaseInv
  <2> QED
    BY <1>0, <2>1, <2>2, <2>3, BaseMove
<1>12. ASSUME NEW p \in Procs, Remove(p) PROVE BaseInv'
  <2>1. /\ p \in Removers /\ pc[p] = "idle" /\ pc' = [pc EXCEPT ![p] = "unlink"]
        /\ UNCHANGED <<k, boss, noted>>
        /\ \E which \in {"DU05", "DU05_test"} : prog' = [prog EXCEPT ![p] = which]
        /\ good' \subseteq good /\ messy' \in BOOLEAN
    BY <1>0, <1>12 DEF Remove, Goes, Begins, names, memory, BaseInv
  <2>2. k[p] = 0
    BY <2>1 DEF BaseInv
  <2>3. \A q \in Procs : k'[q] < Len(SemNames(prog'[q]))
    <3> SUFFICES ASSUME NEW q \in Procs PROVE k'[q] < Len(SemNames(prog'[q]))
      OBVIOUS
    <3>1. k' = k /\ k[q] < Len(SemNames(prog[q])) /\ 0 < Len(SemNames(prog'[q]))
      BY <2>1, LoopStarts DEF BaseInv
    <3>2. CASE q = p
      BY <2>2, <3>1, <3>2
    <3>3. CASE q # p
      <4>1. prog'[q] = prog[q]
        BY <2>1, <3>3 DEF BaseInv
      <4> QED
        BY <3>1, <4>1
    <3> QED
      BY <3>2, <3>3
  <2>4. prog' \in [Procs -> {"DU05", "DU05_test"}]
    BY <2>1 DEF BaseInv
  <2>5. \A q \in Procs \ Removers : prog'[q] = prog[q]
    BY <2>1 DEF BaseInv
  <2>6. /\ pc' \in [Procs -> {"idle", "up", "gone"} \cup Starting \cup Ending]
        /\ \A q \in Procs : q = p \/ pc'[q] = pc[q]
        /\ pc'[p] = "unlink"
    BY <2>1 DEF BaseInv, Starting, Ending
  <2>7. good' \subseteq Procs /\ \A q \in good' : pc'[q] # "idle"
    BY <1>0, <2>1, <2>6 DEF BaseInv
  <2>8. /\ \A q \in Clients : pc'[q] \in {"idle", "up", "gone"}
        /\ \A q \in Removers : pc'[q] \in {"idle", "gone"} \cup Ending
    <3>1. /\ \A q \in Clients : pc[q] \in {"idle", "up", "gone"}
          /\ \A q \in Removers : pc[q] \in {"idle", "gone"} \cup Ending
      BY DEF BaseInv
    <3> QED
      BY <1>0, <2>1, <2>6, <3>1 DEF Starting, Ending
  <2>10. \A q, r \in Procs \ Removers : prog'[q] = prog'[r]
    <3>1. \A q, r \in Procs \ Removers : prog[q] = prog[r]
      BY DEF BaseInv
    <3> QED
      BY <2>5, <3>1
  <2>9. \A q \in Procs : pc'[q] \notin {"stale", "semaphores", "unlink"} => k'[q] = 0
    BY <1>0, <2>1, <2>6 DEF BaseInv
  <2> QED
    BY <2>1, <2>3, <2>4, <2>6, <2>7, <2>8, <2>9, <2>10 DEF BaseInv
<1>13. ASSUME NEW p \in Procs, Unlink(p) PROVE BaseInv'
  <2>1. PICK n \in Names : TurnFacts(p, "unlink", "unlink shm", n)
    BY <1>0, <1>13, UnlinkFacts DEF UnlinkTurn
  <2>2. p \notin Clients
    BY <2>1 DEF BaseInv, TurnFacts
  <2> QED
    BY <1>0, <1>13, <2>1, <2>2, <1>5 DEF Unlink, memory, ghost, Starting, Ending
<1>14. ASSUME NEW p \in Procs, UnlinkShm(p) PROVE BaseInv'
  <2>1. /\ pc[p] = "unlink shm" /\ pc' = [pc EXCEPT ![p] = "gone"]
        /\ UNCHANGED <<prog, k, boss, noted, good, messy>>
    BY <1>14 DEF UnlinkShm, Goes, memory, ghost
  <2>2. /\ k[p] = 0 /\ boss' \in [Procs -> Procs] /\ noted' \in [Gens -> SUBSET Clients]
        /\ good' \subseteq good \cup {p} /\ messy' \in BOOLEAN
    BY <2>1 DEF BaseInv
  <2> QED
    BY <2>1, <2>2, BaseMove
<1>15. ASSUME NEW p \in Procs, Interrupt(p) PROVE BaseInv'
  <2>1. /\ pc' = [q \in Procs |-> IF boss[q] = p THEN "gone" ELSE pc[q]]
        /\ k' = [q \in Procs |-> IF q \in {r \in Procs : boss[r] = p} THEN 0 ELSE k[q]]
        /\ UNCHANGED <<prog, boss, noted, good>>
        /\ messy' \in BOOLEAN
    BY <1>15 DEF Interrupt, names, memory, Closes, BaseInv
  <2>2. \A q \in Procs : 0 < Len(SemNames(prog[q]))
    BY LoopStarts
  <2>3. \A q \in Procs : pc'[q] = "gone" \/ pc'[q] = pc[q]
    BY <2>1
  <2>4. \A q \in Procs : k'[q] = 0 \/ k'[q] = k[q]
    BY <2>1
  <2>5. pc' \in [Procs -> {"idle", "up", "gone"} \cup Starting \cup Ending]
    BY <2>1 DEF BaseInv
  <2>6. k' \in [Procs -> Nat]
    BY <2>1 DEF BaseInv
  <2>7. \A q \in Procs : k'[q] < Len(SemNames(prog[q]))
    <3> SUFFICES ASSUME NEW q \in Procs PROVE k'[q] < Len(SemNames(prog[q]))
      OBVIOUS
    <3>1. k[q] < Len(SemNames(prog[q])) /\ 0 < Len(SemNames(prog[q]))
      BY <2>2 DEF BaseInv
    <3>2. k'[q] = 0 \/ k'[q] = k[q]
      BY <2>4
    <3> QED
      BY <3>1, <3>2
  <2>8. \A q \in Procs : pc'[q] \notin {"stale", "semaphores", "unlink"} => k'[q] = 0
    BY <2>1 DEF BaseInv
  <2> QED
    BY <1>0, <2>1, <2>3, <2>5, <2>6, <2>7, <2>8 DEF BaseInv
<1>16. CASE UNCHANGED vars
  BY <1>16 DEF vars, process, names, memory, ghost, BaseInv
<1> QED
  BY <1>1, <1>2, <1>3, <1>4, <1>6, <1>7, <1>8, <1>9, <1>10, <1>11, <1>12, <1>13,
     <1>14, <1>15, <1>16 DEF Next

-----------------------------------------------------------------------------
(* The numbers of the objects. *)

LEMMA NoneDone == \A pg : Firsts(pg, 0) = {}
BY DEF Firsts

LEMMA GenInit == ASSUME Init PROVE GenInv
<1>1. /\ pc = [p \in Procs |-> "idle"]
      /\ mem = [p \in Procs |-> 0] /\ sem = [p \in Procs |-> [n \in Names |-> 0]]
      /\ shmName = 0 /\ semName = [n \in Names |-> 0]
      /\ made = [n \in Names \cup {"shm"} |-> 0]
  BY DEF Init, Nowhere
<1>2. "shm" \in Names \cup {"shm"} /\ 0 \in Nat /\ 0 <= 0
  OBVIOUS
<1> QED
  BY <1>1, <1>2 DEF GenInv, AtWork, Clearing

\* A step that makes nothing and opens nothing: what is open may be closed,
\* names may be unlinked.
GenQuiet ==
    /\ made' = made
    /\ mem' \in [Procs -> Nat] /\ sem' \in [Procs -> [Names -> Nat]]
    /\ semName' \in [Names -> Nat]
    /\ shmName' = 0 \/ shmName' = shmName
    /\ \A n \in Names : semName'[n] = 0 \/ semName'[n] = semName[n]
    /\ \A q \in Procs :
        \/ mem'[q] = mem[q] /\ sem'[q] = sem[q]
        \/ mem'[q] = 0 /\ sem'[q] = Nowhere /\ pc'[q] \in {"gone", "unlink"}
    /\ \A q \in Procs :
        \/ pc'[q] = pc[q] /\ Done(q)' = Done(q)
        \/ pc'[q] = pc[q] /\ pc[q] # "semaphores"
        \/ pc'[q] \in {"gone"} \cup Ending
        \/ pc[q] = "idle" /\ pc'[q] = "open"
        \/ pc[q] \in Clearing /\ pc'[q] \in Clearing
        \/ pc[q] = "zero" /\ pc'[q] = "semaphores" /\ Done(q)' = {}
    /\ \A q \in Procs \ Removers : prog'[q] = prog[q]

LEMMA GenQuietStep == ASSUME BaseInv, GenInv, GenQuiet PROVE GenInv'
<1>1. /\ shmName' \in Nat /\ semName' \in [Names -> Nat]
      /\ made' \in [Names \cup {"shm"} -> Nat]
      /\ mem' \in [Procs -> Nat] /\ sem' \in [Procs -> [Names -> Nat]]
  BY DEF GenInv, GenQuiet
<1>2. /\ made["shm"] \in Nat
      /\ \A n \in Names : made[n] \in Nat
  BY DEF GenInv
<1>3. shmName' <= made'["shm"]
  BY <1>2 DEF GenInv, GenQuiet
<1>4. \A n \in Names : semName'[n] <= made'[n]
  BY <1>2 DEF GenInv, GenQuiet
<1>5. ASSUME NEW q \in Procs
      PROVE  mem'[q] <= made'["shm"] /\ \A n \in Names : sem'[q][n] <= made'[n]
  <2>1. CASE mem'[q] = mem[q] /\ sem'[q] = sem[q]
    BY <2>1 DEF GenInv, GenQuiet
  <2>2. CASE mem'[q] = 0 /\ sem'[q] = Nowhere
    BY <2>2, <1>2 DEF GenQuiet, Nowhere
  <2> QED
    BY <2>1, <2>2 DEF GenQuiet
<1>6. ASSUME NEW q \in Procs, pc'[q] \in Clearing \cup {"semaphores"} PROVE mem'[q] >= 1
  <2>1. mem'[q] = mem[q] /\ pc[q] \in Clearing \cup {"semaphores"}
    BY <1>6 DEF GenQuiet, Clearing, Ending
  <2> QED
    BY <2>1 DEF GenInv
<1>7. ASSUME NEW q \in Procs, pc'[q] = "semaphores", NEW n \in Done(q)' PROVE sem'[q][n] >= 1
  <2>1. sem'[q] = sem[q] /\ (\/ pc[q] = "semaphores" /\ Done(q)' = Done(q)
                             \/ Done(q)' = {})
    BY <1>7 DEF GenQuiet, Clearing, Ending
  <2> QED
    BY <1>7, <2>1 DEF GenInv
<1>8. ASSUME NEW q \in AtWork' PROVE mem'[q] >= 1 /\ \A n \in Uses(prog'[q]) : sem'[q][n] >= 1
  <2>1. q \in Procs \ Removers /\ pc'[q] = "up"
    BY <1>8 DEF AtWork, Procs
  <2>2. mem'[q] = mem[q] /\ sem'[q] = sem[q] /\ pc[q] = "up" /\ prog'[q] = prog[q]
    BY <2>1 DEF GenQuiet, Clearing, Ending
  <2>3. q \in AtWork
    BY <2>1, <2>2 DEF AtWork
  <2> QED
    BY <2>2, <2>3 DEF GenInv
<1> QED
  BY <1>1, <1>3, <1>4, <1>5, <1>6, <1>7, <1>8 DEF GenInv

\* Of the other steps of Next, and of none.
LEMMA QuietSteps ==
    ASSUME BaseInv, GenInv, [Next]_vars,
           ~ \E s \in Servers : \/ OpenShm(s) \/ CreateShm(s) \/ OpenSem(s)
                                \/ \E c \in Clients : Fork(s, c)
    PROVE  GenQuiet
<1>0. /\ Servers \subseteq Procs /\ Removers \subseteq Procs /\ Clients \subseteq Procs
  BY DEF Procs
<1>a. /\ mem \in [Procs -> Nat] /\ sem \in [Procs -> [Names -> Nat]]
      /\ semName \in [Names -> Nat]
  BY DEF GenInv
<1>b. /\ pc \in [Procs -> {"idle", "up", "gone"} \cup Starting \cup Ending]
      /\ k \in [Procs -> Nat]
      /\ \A p \in Procs : pc[p] \notin {"stale", "semaphores", "unlink"} => k[p] = 0
  BY DEF BaseInv
<1>1. ASSUME NEW s \in Servers, Start(s) PROVE GenQuiet
  <2>1. /\ pc[s] = "idle" /\ pc' = [pc EXCEPT ![s] = "open"]
        /\ UNCHANGED <<prog, k, mem, sem, shmName, semName, made>>
    BY <1>1 DEF Start, Goes, names
  <2> QED
    BY <1>a, <1>b, <2>1 DEF GenQuiet, Done
<1>2. ASSUME NEW s \in Servers, Truncate(s) PROVE GenQuiet
  <2>1. /\ pc[s] = "truncate" /\ pc' = [pc EXCEPT ![s] = "stale"]
        /\ UNCHANGED <<prog, k, mem, sem, shmName, semName, made>>
    BY <1>2 DEF Truncate, Goes, names
  <2> QED
    BY <1>a, <1>b, <2>1 DEF GenQuiet, Done, Clearing
<1>3. ASSUME NEW s \in Servers, UnlinkStale(s) PROVE GenQuiet
  <2>1. PICK n \in Names : TurnFacts(s, "stale", "zero", n) /\ semName' = [semName EXCEPT ![n] = 0]
    BY <1>0, <1>3, UnlinkFacts DEF UnlinkTurn
  <2>2. UNCHANGED <<prog, mem, sem, shmName, made>>
    BY <1>3 DEF UnlinkStale
  <2>3. \A q \in Procs : q = s \/ (pc'[q] = pc[q] /\ k'[q] = k[q])
    BY <1>b, <2>1 DEF TurnFacts
  <2>4. pc[s] \in Clearing /\ pc'[s] \in Clearing
    BY <1>0, <1>b, <2>1 DEF TurnFacts, Clearing
  <2> QED
    BY <1>a, <2>1, <2>2, <2>3, <2>4 DEF GenQuiet, Done
<1>4. ASSUME NEW s \in Servers, Zero(s) PROVE GenQuiet
  <2>1. /\ pc[s] = "zero" /\ pc' = [pc EXCEPT ![s] = "semaphores"] /\ k[s] = 0
        /\ UNCHANGED <<prog, k, mem, sem, shmName, semName, made>>
    BY <1>0, <1>b, <1>4 DEF Zero, Goes, names
  <2>2. Done(s)' = {}
    BY <2>1, NoneDone DEF Done
  <2> QED
    BY <1>0, <1>a, <1>b, <2>1, <2>2 DEF GenQuiet, Done
<1>5. ASSUME NEW p \in Procs, NEW to \in {"gone", "unlink"}, pc' = [pc EXCEPT ![p] = to],
             Closes({p}), UNCHANGED <<prog, shmName, semName, made>>
      PROVE  GenQuiet
  <2>1. /\ k' = [q \in Procs |-> IF q = p THEN 0 ELSE k[q]]
        /\ mem' = [q \in Procs |-> IF q = p THEN 0 ELSE mem[q]]
        /\ sem' = [q \in Procs |-> IF q = p THEN Nowhere ELSE sem[q]]
    BY <1>5 DEF Closes
  <2>2. Nowhere \in [Names -> Nat]
    BY DEF Nowhere
  <2> QED
    BY <1>a, <1>b, <1>5, <2>1, <2>2 DEF GenQuiet, Done, Ending
<1>6. ASSUME NEW s \in Servers, Quit(s) PROVE GenQuiet
  BY <1>0, <1>5, <1>6 DEF Quit, Goes, names
<1>7. ASSUME NEW p \in Procs, Leave(p) PROVE GenQuiet
  BY <1>0, <1>5, <1>7 DEF Leave, Goes, names
<1>8. ASSUME NEW p \in Procs, Remove(p) PROVE GenQuiet
  <2>1. PICK which \in {"DU05", "DU05_test"} : prog' = [prog EXCEPT ![p] = which]
    BY <1>8 DEF Remove
  <2>2. /\ p \in Removers /\ pc' = [pc EXCEPT ![p] = "unlink"]
        /\ UNCHANGED <<k, mem, sem, shmName, semName, made>>
    BY <1>8 DEF Remove, Goes, names
  <2>3. \A q \in Procs : q = p \/ (pc'[q] = pc[q] /\ prog'[q] = prog[q])
    BY <1>b, <2>1, <2>2 DEF BaseInv
  <2>4. pc'[p] = "unlink"
    BY <1>b, <2>2
  <2> QED
    BY <1>a, <1>b, <2>2, <2>3, <2>4 DEF GenQuiet, Done, Ending
<1>9. ASSUME NEW p \in Procs, Unlink(p) PROVE GenQuiet
  <2>1. PICK n \in Names : TurnFacts(p, "unlink", "unlink shm", n) /\ semName' = [semName EXCEPT ![n] = 0]
    BY <1>0, <1>9, UnlinkFacts DEF UnlinkTurn
  <2>2. UNCHANGED <<prog, mem, sem, shmName, made>>
    BY <1>9 DEF Unlink
  <2>3. \A q \in Procs : q = p \/ (pc'[q] = pc[q] /\ k'[q] = k[q])
    BY <1>b, <2>1 DEF TurnFacts
  <2>4. pc'[p] \in Ending
    BY <1>0, <1>b, <2>1 DEF TurnFacts, Ending
  <2> QED
    BY <1>a, <2>1, <2>2, <2>3, <2>4 DEF GenQuiet, Done
<1>10. ASSUME NEW p \in Procs, UnlinkShm(p) PROVE GenQuiet
  <2>1. /\ pc' = [pc EXCEPT ![p] = "gone"] /\ shmName' = 0
        /\ UNCHANGED <<prog, k, mem, sem, semName, made>>
    BY <1>10 DEF UnlinkShm, Goes
  <2> QED
    BY <1>a, <1>b, <2>1 DEF GenQuiet, Done
<1>11. ASSUME NEW p \in Procs, Interrupt(p) PROVE GenQuiet
  <2>1. /\ pc' = [q \in Procs |-> IF boss[q] = p THEN "gone" ELSE pc[q]]
        /\ k' = [q \in Procs |-> IF boss[q] = p THEN 0 ELSE k[q]]
        /\ mem' = [q \in Procs |-> IF boss[q] = p THEN 0 ELSE mem[q]]
        /\ sem' = [q \in Procs |-> IF boss[q] = p THEN Nowhere ELSE sem[q]]
        /\ UNCHANGED <<prog, shmName, semName, made>>
    <3>1. \A q \in Procs : q \in {r \in Procs : boss[r] = p} <=> boss[q] = p
      OBVIOUS
    <3> QED
      BY <1>11, <3>1 DEF Interrupt, Closes, names
  <2>2. Nowhere \in [Names -> Nat]
    BY DEF Nowhere
  <2> QED
    BY <1>a, <1>b, <2>1, <2>2 DEF GenQuiet, Done
<1>12. CASE UNCHANGED vars
  BY <1>12, <1>a, <1>b DEF vars, process, names, GenQuiet, Done
<1> QED
  BY <1>1, <1>2, <1>3, <1>4, <1>6, <1>7, <1>8, <1>9, <1>10, <1>11, <1>12 DEF Next

\* A new object has a number above all that are known.
LEMMA GenStep == ASSUME BaseInv, GenInv, [Next]_vars PROVE GenInv'
<1>0. /\ Servers \subseteq Procs /\ Removers \subseteq Procs /\ Clients \subseteq Procs
      /\ Servers \cap Removers = {} /\ Servers \cap Clients = {}
      /\ Removers \cap Clients = {}
  BY IpcAssumption DEF Procs
<1>a. /\ mem \in [Procs -> Nat] /\ sem \in [Procs -> [Names -> Nat]]
      /\ shmName \in Nat /\ semName \in [Names -> Nat]
      /\ made \in [Names \cup {"shm"} -> Nat]
      /\ "shm" \notin Names
      /\ made["shm"] \in Nat /\ \A n \in Names : made[n] \in Nat
  BY DEF GenInv, Names
<1>b. /\ pc \in [Procs -> {"idle", "up", "gone"} \cup Starting \cup Ending]
      /\ \A p \in Procs : pc[p] \notin {"stale", "semaphores", "unlink"} => k[p] = 0
      /\ \A p \in Procs \ Removers : p \in Servers \/ p \in Clients
  BY DEF BaseInv, Procs
<1>1. ASSUME NEW s \in Servers, OpenShm(s) PROVE GenInv'
  <2>1. /\ pc[s] = "open" /\ mem' = [mem EXCEPT ![s] = shmName]
        /\ pc' = [pc EXCEPT ![s] = IF shmName # 0 THEN "semaphores" ELSE "create"]
        /\ UNCHANGED <<prog, k, sem, shmName, semName, made>>
    BY <1>1 DEF OpenShm, Goes, names
  <2>2. k[s] = 0 /\ Done(s)' = {}
    BY <1>0, <1>b, <2>1, NoneDone DEF Done
  <2>3. \A q \in Procs : q = s \/ (pc'[q] = pc[q] /\ mem'[q] = mem[q] /\ Done(q)' = Done(q))
    BY <1>a, <1>b, <2>1 DEF Done
  <2>4. mem'[s] = shmName /\ (pc'[s] = "create" \/ (pc'[s] = "semaphores" /\ shmName >= 1))
    BY <1>0, <1>a, <1>b, <2>1
  <2>5. AtWork' \subseteq AtWork /\ \A q \in AtWork : q # s /\ q \in Procs
    BY <2>1, <2>3, <2>4 DEF AtWork
  <2>6. \A q \in Procs : mem'[q] \in Nat /\ mem'[q] <= made'["shm"]
    BY <1>a, <2>1, <2>3, <2>4 DEF GenInv
  <2>7. mem' \in [Procs -> Nat]
    BY <2>1, <1>a
  <2>8. \A q \in Procs : pc'[q] \in Clearing \cup {"semaphores"} => mem'[q] >= 1
    BY <2>3, <2>4 DEF GenInv, Clearing
  <2>9. \A q \in Procs : pc'[q] = "semaphores" => \A n \in Done(q)' : sem'[q][n] >= 1
    BY <2>1, <2>2, <2>3, <2>4 DEF GenInv
  <2>10. \A q \in AtWork' : mem'[q] >= 1 /\ \A n \in Uses(prog'[q]) : sem'[q][n] >= 1
    BY <2>1, <2>3, <2>5 DEF GenInv
  <2> QED
    BY <2>1, <2>6, <2>7, <2>8, <2>9, <2>10 DEF GenInv
<1>2. ASSUME NEW s \in Servers, CreateShm(s) PROVE GenInv'
  <2>1. /\ pc[s] = "create" /\ pc' = [pc EXCEPT ![s] = "truncate"]
        /\ UNCHANGED <<prog, k, sem, semName>>
        /\ mem' = [mem EXCEPT ![s] = shmName']
    BY <1>2 DEF CreateShm, Goes, names
  <2>2. \/ shmName # 0 /\ UNCHANGED <<shmName, made>>
        \/ made' = [made EXCEPT !["shm"] = made["shm"] + 1] /\ shmName' = made'["shm"]
    BY <1>2 DEF CreateShm, names
  <2>3. /\ made["shm"] <= made'["shm"] /\ \A n \in Names : made'[n] = made[n]
        /\ made' \in [Names \cup {"shm"} -> Nat] /\ made'["shm"] \in Nat
        /\ shmName' \in Nat /\ shmName' >= 1 /\ shmName' <= made'["shm"]
    <3>1. CASE shmName # 0 /\ UNCHANGED <<shmName, made>>
      BY <3>1, <1>a DEF GenInv
    <3>2. CASE made' = [made EXCEPT !["shm"] = made["shm"] + 1] /\ shmName' = made'["shm"]
      <4>1. made'["shm"] = made["shm"] + 1
        BY <3>2, <1>a
      <4> QED
        BY <3>2, <1>a, <4>1
    <3> QED
      BY <2>2, <3>1, <3>2
  <2>4. \A q \in Procs : q = s \/ (pc'[q] = pc[q] /\ mem'[q] = mem[q] /\ Done(q)' = Done(q))
    BY <1>a, <1>b, <2>1 DEF Done
  <2>5. mem'[s] = shmName' /\ pc'[s] = "truncate"
    BY <1>0, <1>a, <1>b, <2>1
  <2>6. AtWork' \subseteq AtWork /\ \A q \in AtWork : q # s /\ q \in Procs
    BY <2>1, <2>4, <2>5 DEF AtWork
  <2>7. \A q \in Procs : mem'[q] \in Nat /\ mem'[q] <= made'["shm"]
    <3> SUFFICES ASSUME NEW q \in Procs PROVE mem'[q] \in Nat /\ mem'[q] <= made'["shm"]
      OBVIOUS
    <3>1. mem[q] \in Nat /\ mem[q] <= made["shm"]
      BY <1>a DEF GenInv
    <3> QED
      BY <1>a, <2>3, <2>4, <2>5, <3>1
  <2>8. mem' \in [Procs -> Nat]
    BY <2>1, <2>3, <1>a
  <2>9. \A q \in Procs : pc'[q] \in Clearing \cup {"semaphores"} => mem'[q] >= 1
    BY <2>3, <2>4, <2>5 DEF GenInv
  <2>10. \A q \in Procs : pc'[q] = "semaphores" => \A n \in Done(q)' : sem'[q][n] >= 1
    BY <2>1, <2>4, <2>5 DEF GenInv
  <2>11. \A q \in AtWork' : mem'[q] >= 1 /\ \A n \in Uses(prog'[q]) : sem'[q][n] >= 1
    BY <2>1, <2>4, <2>6 DEF GenInv
  <2>12. /\ \A n \in Names : semName'[n] <= made'[n]
         /\ \A q \in Procs : \A n \in Names : sem'[q][n] <= made'[n]
    BY <2>1, <2>3 DEF GenInv
  <2> QED
    BY <1>a, <2>1, <2>3, <2>7, <2>8, <2>9, <2>10, <2>11, <2>12 DEF GenInv
<1>3. ASSUME NEW s \in Servers, NEW c \in Clients, Fork(s, c) PROVE GenInv'
  <2>1. /\ pc[s] = "up" /\ pc' = [pc EXCEPT ![c] = "up"]
        /\ mem' = [mem EXCEPT ![c] = mem[s]] /\ sem' = [sem EXCEPT ![c] = sem[s]]
        /\ UNCHANGED <<prog, k, shmName, semName, made>>
    BY <1>3 DEF Fork, Goes, names
  <2>2. \A q \in Procs : q = c \/ (pc'[q] = pc[q] /\ mem'[q] = mem[q] /\ sem'[q] = sem[q])
    BY <1>a, <1>b, <2>1
  <2>3. mem'[c] = mem[s] /\ sem'[c] = sem[s] /\ pc'[c] = "up"
    BY <1>0, <1>a, <1>b, <2>1
  <2>4. s \in AtWork /\ s \in Procs
    BY <1>0, <2>1 DEF AtWork
  <2>5. mem' \in [Procs -> Nat] /\ sem' \in [Procs -> [Names -> Nat]]
    BY <1>0, <1>a, <2>1
  <2>6. \A q \in Procs : mem'[q] <= made'["shm"] /\ \A n \in Names : sem'[q][n] <= made'[n]
    BY <2>1, <2>2, <2>3, <2>4 DEF GenInv
  <2>7. \A q \in Procs : pc'[q] \in Clearing \cup {"semaphores"} => mem'[q] >= 1
    BY <2>2, <2>3 DEF GenInv, Clearing
  <2>8. \A q \in Procs : pc'[q] = "semaphores" => \A n \in Done(q)' : sem'[q][n] >= 1
    BY <2>1, <2>2, <2>3 DEF GenInv, Done
  <2>9. \A q \in AtWork' : mem'[q] >= 1 /\ \A n \in Uses(prog'[q]) : sem'[q][n] >= 1
    <3> SUFFICES ASSUME NEW q \in AtWork'
                 PROVE  mem'[q] >= 1 /\ \A n \in Uses(prog'[q]) : sem'[q][n] >= 1
      OBVIOUS
    <3>1. CASE q = c
      <4>1. prog[c] = prog[s]
        BY <1>0 DEF BaseInv
      <4> QED
        BY <2>1, <2>3, <2>4, <3>1, <4>1 DEF GenInv
    <3>2. CASE q # c
      <4>1. q \in AtWork /\ q \in Procs
        BY <2>2, <3>2 DEF AtWork
      <4> QED
        BY <2>1, <2>2, <3>2, <4>1 DEF GenInv
    <3> QED
      BY <3>1, <3>2
  <2> QED
    BY <2>1, <2>5, <2>6, <2>7, <2>8, <2>9 DEF GenInv
<1>4. ASSUME NEW s \in Servers, OpenSem(s) PROVE GenInv'
  <2>0. UNCHANGED <<prog, mem, shmName>>
    BY <1>4 DEF OpenSem
  <2>1. PICK n \in Names :
            /\ TurnFacts(s, "semaphores", "up", n)
            /\ \/ semName[n] # 0 /\ sem' = [sem EXCEPT ![s][n] = semName[n]]
                  /\ UNCHANGED <<semName, made>>
               \/ /\ semName[n] = 0
                  /\ made' = [made EXCEPT ![n] = made[n] + 1]
                  /\ semName' = [semName EXCEPT ![n] = made'[n]]
                  /\ sem' = [sem EXCEPT ![s][n] = made'[n]]
    BY <1>0, <1>4, OpenSemFacts
  <2>2. /\ made' \in [Names \cup {"shm"} -> Nat] /\ made'["shm"] = made["shm"]
        /\ semName' \in [Names -> Nat]
        /\ \A m \in Names : m = n \/ (made'[m] = made[m] /\ semName'[m] = semName[m])
        /\ semName'[n] >= 1 /\ semName'[n] <= made'[n] /\ made[n] <= made'[n] /\ made'[n] \in Nat
        /\ sem' = [sem EXCEPT ![s][n] = semName'[n]]
    <3>1. CASE semName[n] # 0 /\ sem' = [sem EXCEPT ![s][n] = semName[n]]
               /\ UNCHANGED <<semName, made>>
      <4>1. semName[n] \in Nat /\ semName[n] >= 1 /\ semName[n] <= made[n]
        BY <1>a, <3>1 DEF GenInv
      <4> QED
        BY <1>a, <3>1, <4>1
    <3>2. CASE /\ semName[n] = 0
               /\ made' = [made EXCEPT ![n] = made[n] + 1]
               /\ semName' = [semName EXCEPT ![n] = made'[n]]
               /\ sem' = [sem EXCEPT ![s][n] = made'[n]]
      <4>1. made'[n] = made[n] + 1 /\ made[n] \in Nat /\ made'[n] \in Nat
        BY <1>a, <3>2
      <4>2. semName'[n] = made'[n]
        BY <1>a, <3>2
      <4> QED
        BY <1>a, <3>2, <4>1, <4>2
    <3> QED
      BY <2>1, <3>1, <3>2
  <2>3. /\ sem' \in [Procs -> [Names -> Nat]] /\ sem'[s][n] = semName'[n]
        /\ \A m \in Names : m = n \/ sem'[s][m] = sem[s][m]
        /\ \A q \in Procs : q = s \/ sem'[q] = sem[q]
    BY <1>0, <1>a, <2>2
  <2>4. \A q \in Procs : q = s \/ (pc'[q] = pc[q] /\ k'[q] = k[q])
    <3>1. TurnFacts(s, "semaphores", "up", n) /\ k \in [Procs -> Nat]
      BY <2>1 DEF BaseInv
    <3> QED
      BY <1>b, <3>1 DEF TurnFacts
  <2>5. pc[s] = "semaphores" /\ pc'[s] \in {"semaphores", "up"} /\ n \in Uses(prog[s])
    BY <1>0, <1>b, <2>1 DEF TurnFacts
  <2>6. /\ pc'[s] = "semaphores" => Done(s)' = Done(s) \cup {n}
        /\ pc'[s] = "up" => Uses(prog[s]) = Done(s) \cup {n}
    <3>1. k \in [Procs -> Nat] /\ s \in Procs
      BY <1>0 DEF BaseInv
    <3>2. CASE /\ pc' = [pc EXCEPT ![s] = "semaphores"] /\ k' = [k EXCEPT ![s] = k[s] + 1]
               /\ Firsts(prog[s], k[s] + 1) = Done(s) \cup {n}
      BY <1>b, <2>0, <3>1, <3>2 DEF Done
    <3>3. CASE pc' = [pc EXCEPT ![s] = "up"] /\ Uses(prog[s]) = Done(s) \cup {n}
      BY <1>b, <3>1, <3>3
    <3> QED
      BY <2>1, <3>2, <3>3 DEF TurnFacts
  <2>7. \A m \in Done(s) \cup {n} : m \in Names => sem'[s][m] >= 1
    BY <1>0, <2>2, <2>3, <2>5 DEF GenInv
  <2>8. ASSUME NEW q \in Procs, NEW m \in Names PROVE sem'[q][m] <= made'[m]
    <3>1. sem[q][m] <= made[m] /\ sem[q][m] \in Nat /\ made[m] \in Nat /\ made'[m] \in Nat
      BY <1>a, <2>2 DEF GenInv
    <3>2. made[m] <= made'[m]
      BY <2>2, <3>1
    <3>3. CASE q = s /\ m = n
      BY <2>2, <2>3, <3>3
    <3>4. CASE ~(q = s /\ m = n)
      <4>1. sem'[q][m] = sem[q][m]
        BY <2>3, <3>4
      <4> QED
        BY <3>1, <3>2, <4>1
    <3> QED
      BY <3>3, <3>4
  <2>9. \A q \in Procs : mem'[q] <= made'["shm"]
    BY <2>0, <2>2 DEF GenInv
  <2>10. \A q \in Procs : pc'[q] \in Clearing \cup {"semaphores"} => mem'[q] >= 1
    BY <2>0, <2>4, <2>5 DEF GenInv
  <2>11. Uses(prog[s]) \subseteq Names
    BY DEF Uses, Names
  <2>12. ASSUME NEW q \in Procs, pc'[q] = "semaphores", NEW m \in Done(q)' PROVE sem'[q][m] >= 1
    <3>1. CASE q = s
      <4>1. Done(s) \cup {n} \subseteq Names
        <5>1. prog[s] \in {"DU05", "DU05_test"} /\ k[s] \in Nat
          BY <1>0 DEF BaseInv
        <5>2. k[s] < Len(SemNames(prog[s]))
          BY <1>0 DEF BaseInv
        <5> QED
          BY <5>1, <5>2, FirstsUsed, <2>11 DEF Done
      <4> QED
        BY <2>6, <2>7, <2>12, <3>1, <4>1
    <3>2. CASE q # s
      <4>1. Done(q)' = Done(q) /\ pc[q] = "semaphores" /\ sem'[q] = sem[q]
        BY <2>0, <2>3, <2>4, <2>12, <3>2 DEF Done
      <4> QED
        BY <2>12, <4>1 DEF GenInv
    <3> QED
      BY <3>1, <3>2
  <2>13. ASSUME NEW q \in AtWork' PROVE mem'[q] >= 1 /\ \A m \in Uses(prog'[q]) : sem'[q][m] >= 1
    <3>1. CASE q = s
      <4>1. pc'[s] = "up" /\ mem[s] >= 1
        BY <1>0, <2>5, <2>13, <3>1 DEF AtWork, GenInv
      <4> QED
        BY <2>0, <2>6, <2>7, <2>11, <3>1, <4>1
    <3>2. CASE q # s
      <4>1. q \in Procs /\ q \in AtWork /\ sem'[q] = sem[q]
        BY <2>3, <2>4, <2>13, <3>2 DEF AtWork
      <4> QED
        BY <2>0, <4>1 DEF GenInv
    <3> QED
      BY <3>1, <3>2
  <2>14. \A m \in Names : semName'[m] <= made'[m]
    BY <2>2 DEF GenInv
  <2>15. shmName' <= made'["shm"]
    BY <2>0, <2>2 DEF GenInv
  <2> QED
    BY <1>a, <2>0, <2>2, <2>3, <2>8, <2>9, <2>10, <2>12, <2>13, <2>14, <2>15 DEF GenInv
<1>5. CASE ~ \E s \in Servers : \/ OpenShm(s) \/ CreateShm(s) \/ OpenSem(s)
                                \/ \E c \in Clients : Fork(s, c)
  BY <1>5, QuietSteps, GenQuietStep
<1> QED
  BY <1>1, <1>2, <1>3, <1>4, <1>5

-----------------------------------------------------------------------------
(* How many memories there have been. *)

Past == {s \in Servers : pc[s] \notin {"idle", "open", "create"}}

LEMMA PastFinite ==
    /\ IsFiniteSet(Past) /\ IsFiniteSet(Past') /\ IsFiniteSet(Servers)
    /\ Cardinality(Past) \in Nat /\ Cardinality(Past') \in Nat
    /\ Cardinality(Past) <= Cardinality(Servers)
<1>1. IsFiniteSet(Servers)
  BY IpcAssumption
<1>2. Past \subseteq Servers /\ Past' \subseteq Servers
  BY DEF Past
<1>3. IsFiniteSet(Past) /\ IsFiniteSet(Past') /\ Cardinality(Past) <= Cardinality(Servers)
  BY <1>1, <1>2, FS_Subset
<1> QED
  BY <1>1, <1>3, FS_CardinalityType

LEMMA CountInit == ASSUME Init PROVE CountInv
<1>1. made["shm"] = 0 /\ Cardinality(Past) \in Nat
  BY PastFinite DEF Init
<1> QED
  BY <1>1 DEF CountInv, Past

\* The memory that is made is counted by the server that made it.
LEMMA CountStep == ASSUME BaseInv, GenInv, CountInv, [Next]_vars PROVE CountInv'
<1>0. Servers \subseteq Procs /\ Clients \subseteq Procs /\ Servers \cap Clients = {}
  BY IpcAssumption DEF Procs
<1>a. /\ made["shm"] \in Nat /\ made["shm"] <= Cardinality(Past) /\ "shm" \notin Names
      /\ made \in [Names \cup {"shm"} -> Nat]
  BY DEF GenInv, CountInv, Past, Names
<1>b. pc \in [Procs -> {"idle", "up", "gone"} \cup Starting \cup Ending]
  BY DEF BaseInv
<1>1. ASSUME Past \subseteq Past', made'["shm"] = made["shm"] PROVE CountInv'
  <2>1. Cardinality(Past) <= Cardinality(Past')
    BY <1>1, PastFinite, FS_Subset
  <2>2. made'["shm"] <= Cardinality(Past')
    BY <1>1, <1>a, <2>1, PastFinite
  <2> QED
    BY <2>2 DEF CountInv, Past
<1>2. ASSUME NEW s \in Servers, CreateShm(s) PROVE CountInv'
  <2>1. /\ pc[s] = "create" /\ pc' = [pc EXCEPT ![s] = "truncate"]
        /\ made'["shm"] \in {made["shm"], made["shm"] + 1}
    BY <1>2, <1>a DEF CreateShm, Goes, names
  <2>2. s \notin Past /\ Past' = Past \cup {s}
    BY <1>0, <1>b, <2>1 DEF Past
  <2>3. Cardinality(Past') = Cardinality(Past) + 1
    BY <2>2, PastFinite, FS_AddElement
  <2>4. made'["shm"] <= Cardinality(Past')
    BY <1>a, <2>1, <2>3, PastFinite
  <2> QED
    BY <2>4 DEF CountInv, Past
<1>3. ASSUME NEW s \in Servers, OpenShm(s) PROVE CountInv'
  <2>1. /\ pc[s] = "open" /\ made' = made
        /\ pc' = [pc EXCEPT ![s] = IF shmName # 0 THEN "semaphores" ELSE "create"]
    BY <1>3 DEF OpenShm, Goes, names
  <2>2. \A q \in Servers : q = s \/ pc'[q] = pc[q]
    BY <1>0, <1>b, <2>1
  <2> QED
    BY <1>1, <2>1, <2>2 DEF Past
<1>4. ASSUME NEW s \in Servers, OpenSem(s) PROVE CountInv'
  <2>1. PICK n \in Names :
            /\ TurnFacts(s, "semaphores", "up", n)
            /\ made' = made \/ made' = [made EXCEPT ![n] = made[n] + 1]
    BY <1>0, <1>4, OpenSemFacts
  <2>2. TurnFacts(s, "semaphores", "up", n) /\ made'["shm"] = made["shm"]
    BY <1>a, <2>1
  <2>3. \A q \in Servers : (q = s /\ pc'[s] \in {"semaphores", "up"}) \/ pc'[q] = pc[q]
    BY <1>0, <1>b, <2>2 DEF TurnFacts
  <2> QED
    BY <1>1, <2>2, <2>3 DEF Past
<1>5. ASSUME NEW s \in Servers, NEW c \in Clients, Fork(s, c) PROVE CountInv'
  <2>1. pc' = [pc EXCEPT ![c] = "up"] /\ made' = made
    BY <1>5 DEF Fork, Goes, names
  <2>2. \A q \in Servers : pc'[q] = pc[q]
    BY <1>0, <1>b, <2>1
  <2> QED
    BY <1>1, <2>1, <2>2 DEF Past
<1>6. CASE GenQuiet
  <2>1. \A q \in Servers : q \in Past => pc'[q] \notin {"idle", "open", "create"}
    BY <1>0, <1>6 DEF GenQuiet, Past, Clearing, Ending
  <2> QED
    BY <1>1, <1>6, <2>1 DEF Past, GenQuiet
<1> QED
  BY <1>2, <1>3, <1>4, <1>5, <1>6, QuietSteps

\* There are numbers enough, so that each memory has a place in noted.
LEMMA GensEnough == ASSUME GenInv, CountInv PROVE \A m \in Nat : m >= 1 /\ m <= made["shm"] => m \in Gens
<1>1. made["shm"] \in Nat /\ made["shm"] <= Cardinality(Past)
  BY DEF GenInv, CountInv, Past
<1>2. Cardinality(Servers) \in Nat
  BY PastFinite, FS_CardinalityType
<1>3. made["shm"] <= Cardinality(Servers)
  BY <1>1, <1>2, PastFinite
<1> QED
  BY <1>1, <1>2, <1>3 DEF Gens

-----------------------------------------------------------------------------
(* Phases, and who is alone in one. *)

LEMMA PhaseInit == ASSUME Init PROVE PhaseInv
<1>1. pc = [p \in Procs |-> "idle"] /\ good = {}
  BY DEF Init
<1> QED
  BY <1>1 DEF PhaseInv, InPhase, Starting

LEMMA InPhaseIs ==
    ASSUME BaseInv
    PROVE  \A p \in Procs : InPhase(p) <=> pc[p] \in Starting \cup Ending
BY DEF BaseInv, InPhase, Starting, Ending

\* A step at which no phase begins, or is cut.
Within ==
    /\ UNCHANGED messy
    /\ good' = good \/ \E c \in Clients : pc[c] = "idle" /\ good' = good \cup {c}
    /\ \A q \in Procs : /\ pc'[q] \in Starting => pc[q] \in Starting
                        /\ pc'[q] \in Ending => pc[q] \in Ending

BeginStep(p) ==
    /\ Begins(p)
    /\ \/ p \in Servers /\ pc[p] = "idle" /\ pc' = [pc EXCEPT ![p] = "open"]
       \/ pc[p] = "up" /\ pc' = [pc EXCEPT ![p] = "unlink"]
       \/ p \in Removers /\ pc[p] = "idle" /\ pc' = [pc EXCEPT ![p] = "unlink"]

\* Every step is within the phases, begins one or cuts one.
LEMMA PhaseCases ==
    ASSUME BaseInv, [Next]_vars
    PROVE  \/ Within
           \/ \E p \in Procs : BeginStep(p)
           \/ \E p \in Procs : Interrupt(p)
<1>0. Servers \subseteq Procs /\ Clients \subseteq Procs
  BY DEF Procs
<1>b. pc \in [Procs -> {"idle", "up", "gone"} \cup Starting \cup Ending]
  BY DEF BaseInv
<1>1. ASSUME NEW s \in Servers, Start(s) PROVE BeginStep(s)
  BY <1>1 DEF Start, BeginStep, Goes
<1>2. ASSUME NEW s \in Servers, OpenShm(s) PROVE Within
  <2>1. /\ pc[s] = "open" /\ UNCHANGED <<messy, good>>
        /\ pc' = [pc EXCEPT ![s] = IF shmName # 0 THEN "semaphores" ELSE "create"]
    BY <1>2 DEF OpenShm, Goes, ghost
  <2> QED
    BY <1>0, <1>b, <2>1 DEF Within, Starting, Ending
<1>3. ASSUME NEW s \in Servers, CreateShm(s) PROVE Within
  <2>1. /\ pc[s] = "create" /\ UNCHANGED <<messy, good>> /\ pc' = [pc EXCEPT ![s] = "truncate"]
    BY <1>3 DEF CreateShm, Goes, ghost
  <2> QED
    BY <1>0, <1>b, <2>1 DEF Within, Starting, Ending
<1>4. ASSUME NEW s \in Servers, Truncate(s) PROVE Within
  <2>1. /\ pc[s] = "truncate" /\ UNCHANGED <<messy, good>> /\ pc' = [pc EXCEPT ![s] = "stale"]
    BY <1>4 DEF Truncate, Goes, ghost
  <2> QED
    BY <1>0, <1>b, <2>1 DEF Within, Starting, Ending
<1>5. ASSUME NEW s \in Servers, UnlinkStale(s) PROVE Within
  <2>1. PICK n \in Names : TurnFacts(s, "stale", "zero", n)
    BY <1>0, <1>5, UnlinkFacts DEF UnlinkTurn
  <2>2. UNCHANGED <<messy, good>>
    BY <1>5 DEF UnlinkStale, ghost
  <2> QED
    BY <1>0, <1>b, <2>1, <2>2 DEF Within, Starting, Ending, TurnFacts
<1>6. ASSUME NEW s \in Servers, Zero(s) PROVE Within
  <2>1. /\ pc[s] = "zero" /\ UNCHANGED <<messy, good>> /\ pc' = [pc EXCEPT ![s] = "semaphores"]
    BY <1>6 DEF Zero, Goes, ghost
  <2> QED
    BY <1>0, <1>b, <2>1 DEF Within, Starting, Ending
<1>7. ASSUME NEW s \in Servers, OpenSem(s) PROVE Within
  <2>1. PICK n \in Names : TurnFacts(s, "semaphores", "up", n)
    BY <1>0, <1>7, OpenSemFacts
  <2>2. UNCHANGED <<messy, good>>
    BY <1>7 DEF OpenSem, ghost
  <2> QED
    BY <1>0, <1>b, <2>1, <2>2 DEF Within, Starting, Ending, TurnFacts
<1>8. ASSUME NEW s \in Servers, Quit(s) PROVE Within \/ BeginStep(s)
  <2>1. CASE pc[s] = "up" /\ pc' = [pc EXCEPT ![s] = "gone"] /\ UNCHANGED ghost
    BY <1>0, <1>b, <2>1 DEF Within, Starting, Ending, ghost
  <2>2. CASE pc[s] = "up" /\ pc' = [pc EXCEPT ![s] = "unlink"] /\ Begins(s)
    BY <2>2 DEF BeginStep
  <2> QED
    BY <1>8, <2>1, <2>2 DEF Quit, Goes
<1>9. ASSUME NEW s \in Servers, NEW c \in Clients, Fork(s, c) PROVE Within
  <2>1. /\ pc' = [pc EXCEPT ![c] = "up"] /\ UNCHANGED messy /\ pc[c] = "idle"
        /\ good' = good \/ good' = good \cup {c}
    BY <1>9 DEF Fork, Goes
  <2> QED
    BY <1>0, <1>b, <2>1 DEF Within, Starting, Ending
<1>10. ASSUME NEW p \in Procs, Leave(p) PROVE Within
  <2>1. pc' = [pc EXCEPT ![p] = "gone"] /\ UNCHANGED <<messy, good>>
    BY <1>10 DEF Leave, Goes, ghost
  <2> QED
    BY <1>0, <1>b, <2>1 DEF Within, Starting, Ending
<1>11. ASSUME NEW p \in Procs, Remove(p) PROVE BeginStep(p)
  BY <1>11 DEF Remove, Goes, BeginStep
<1>12. ASSUME NEW p \in Procs, Unlink(p) PROVE Within
  <2>1. PICK n \in Names : TurnFacts(p, "unlink", "unlink shm", n)
    BY <1>0, <1>12, UnlinkFacts DEF UnlinkTurn
  <2>2. UNCHANGED <<messy, good>>
    BY <1>12 DEF Unlink, ghost
  <2> QED
    BY <1>0, <1>b, <2>1, <2>2 DEF Within, Starting, Ending, TurnFacts
<1>13. ASSUME NEW p \in Procs, UnlinkShm(p) PROVE Within
  <2>1. pc[p] = "unlink shm" /\ pc' = [pc EXCEPT ![p] = "gone"] /\ UNCHANGED <<messy, good>>
    BY <1>13 DEF UnlinkShm, Goes, ghost
  <2> QED
    BY <1>0, <1>b, <2>1 DEF Within, Starting, Ending
<1>14. CASE UNCHANGED vars
  BY <1>14 DEF vars, process, ghost, Within
<1> QED
  BY <1>0, <1>1, <1>2, <1>3, <1>4, <1>5, <1>6, <1>7, <1>8, <1>9, <1>10, <1>11, <1>12,
     <1>13, <1>14 DEF Next

\* Who begins in company makes the record dirty, and takes it from the company.
LEMMA PhaseStep == ASSUME BaseInv, BaseInv', PhaseInv, [Next]_vars PROVE PhaseInv'
<1>0. /\ Clients \cap Servers = {} /\ Clients \subseteq Procs /\ Servers \subseteq Procs
      /\ messy \in BOOLEAN /\ good \subseteq Procs /\ messy' \in BOOLEAN
  BY IpcAssumption DEF BaseInv, Procs
<1>a. /\ \A p \in Procs : InPhase(p) <=> pc[p] \in Starting \cup Ending
      /\ \A p \in Procs : InPhase(p)' <=> pc'[p] \in Starting \cup Ending
  BY DEF BaseInv, InPhase, Starting, Ending
<1>b. pc \in [Procs -> {"idle", "up", "gone"} \cup Starting \cup Ending]
  BY DEF BaseInv
<1>1. CASE Within
  <2>1. \A s \in good' : pc'[s] \in Starting => s \in good
    <3>1. \A c \in Clients : pc'[c] \notin Starting
      BY DEF BaseInv, Starting
    <3> QED
      BY <1>1, <3>1 DEF Within
  <2>2. good \subseteq good' /\ messy' = messy
    BY <1>1 DEF Within
  <2>3. \A p \in Procs : InPhase(p)' => InPhase(p)
    BY <1>1, <1>a DEF Within
  <2>4. \A s \in good' : pc'[s] \in Starting => ~messy'
    BY <1>0, <1>1, <2>1, <2>2 DEF PhaseInv, Within
  <2>5. ~messy' => \A p, q \in Procs : InPhase(p)' /\ InPhase(q)' => p = q
    BY <2>2, <2>3 DEF PhaseInv
  <2>6. ~messy' => \A s \in Procs : pc'[s] \in Starting => s \in good'
    BY <1>1, <2>2 DEF PhaseInv, Within
  <2> QED
    BY <2>4, <2>5, <2>6 DEF PhaseInv
<1>2. ASSUME NEW p \in Procs, BeginStep(p) PROVE PhaseInv'
  <2> DEFINE others == {q \in Procs \ {p} : InPhase(q)}
  <2>1. /\ messy' = (others # {} \/ (messy /\ p \notin Removers))
        /\ good' = (good \ others) \cup (IF p \in Servers /\ pc[p] = "idle" /\ ~messy'
                                         THEN {p} ELSE {})
    BY <1>2 DEF BeginStep, Begins
  <2>2. \A q \in Procs : q = p \/ pc'[q] = pc[q]
    BY <1>b, <1>2 DEF BeginStep
  <2>3. pc'[p] \in Starting => p \in Servers /\ pc[p] = "idle" /\ p \notin good
    BY <1>b, <1>2 DEF BeginStep, Starting, BaseInv
  <2>4. ASSUME NEW s \in good', pc'[s] \in Starting, messy' PROVE FALSE
    <3>1. CASE s = p
      BY <2>1, <2>3, <2>4, <3>1
    <3>2. CASE s # p
      <4>1. s \in good \ others /\ pc'[s] = pc[s] /\ s \in Procs
        BY <1>0, <2>1, <2>2, <2>4, <3>2
      <4> QED
        BY <1>a, <2>4, <3>2, <4>1
    <3> QED
      BY <3>1, <3>2
  <2>5. ASSUME ~messy' PROVE \A q \in Procs : InPhase(q)' => q = p
    <3>1. others = {}
      BY <2>1, <2>5
    <3> QED
      BY <1>a, <2>2, <3>1
  <2>6. ASSUME ~messy', NEW s \in Procs, pc'[s] \in Starting PROVE s \in good'
    <3>1. s = p
      BY <1>a, <2>5, <2>6
    <3> QED
      BY <2>1, <2>3, <2>6, <3>1
  <2> QED
    BY <2>4, <2>5, <2>6 DEF PhaseInv
<1>3. ASSUME NEW p \in Procs, Interrupt(p) PROVE PhaseInv'
  <2>1. /\ messy' = (messy \/ InPhase(p)) /\ good' = good
        /\ \A q \in Procs : pc'[q] = "gone" \/ pc'[q] = pc[q]
        /\ p \notin Clients /\ (boss[p] = p => pc'[p] = "gone")
    BY <1>3 DEF Interrupt
  <2>2. pc'[p] = "gone"
    BY <2>1 DEF BaseInv, Procs
  <2>3. \A q \in Procs : (InPhase(q)' => InPhase(q)) /\ (pc'[q] \in Starting => pc[q] \in Starting)
    BY <1>a, <2>1 DEF Starting, Ending
  <2>4. ASSUME NEW s \in good', pc'[s] \in Starting, messy' PROVE FALSE
    <3>1. s \in good /\ pc[s] \in Starting /\ s \in Procs /\ s # p
      BY <1>0, <2>1, <2>2, <2>3, <2>4 DEF Starting
    <3>2. ~messy
      BY <3>1 DEF PhaseInv
    <3>3. InPhase(p) /\ InPhase(s)
      BY <1>a, <2>1, <2>4, <3>1, <3>2
    <3> QED
      BY <3>1, <3>2, <3>3 DEF PhaseInv
  <2>5. ~messy' => ~messy
    BY <2>1
  <2>6. ~messy' => \A r, q \in Procs : InPhase(r)' /\ InPhase(q)' => r = q
    BY <2>3, <2>5 DEF PhaseInv
  <2>7. ~messy' => \A s \in Procs : pc'[s] \in Starting => s \in good'
    BY <2>1, <2>3, <2>5 DEF PhaseInv
  <2> QED
    BY <2>4, <2>6, <2>7 DEF PhaseInv
<1> QED
  BY <1>1, <1>2, <1>3, PhaseCases

-----------------------------------------------------------------------------
(* What the workers have open stays as it is. *)

\* Nobody begins to work with a clean record, and those who do keep what they have open.
Keeps ==
    /\ sized \subseteq sized'
    /\ Workers' \subseteq Workers
    /\ \A q \in Workers' : mem'[q] = mem[q] /\ sem'[q] = sem[q] /\ prog'[q] = prog[q]

Joins(s) == s \in good /\ OpenSem(s) /\ pc'[s] = "up"

LEMMA SizedGrows == ASSUME [Next]_vars PROVE sized \subseteq sized'
BY DEF Next, vars, memory, Start, OpenShm, CreateShm, Truncate, UnlinkStale, Zero, OpenSem,
       Quit, Fork, Leave, Remove, Unlink, UnlinkShm, Interrupt

\* New workers come by the last turn of a start, or by fork().
LEMMA KeepsCases ==
    ASSUME BaseInv, GenInv, [Next]_vars
    PROVE  \/ Keeps
           \/ \E s \in Servers : Joins(s) \/ \E c \in Clients : Fork(s, c)
<1>0. /\ Servers \subseteq Procs /\ Removers \subseteq Procs /\ Clients \subseteq Procs
      /\ pc \in [Procs -> {"idle", "up", "gone"} \cup Starting \cup Ending]
      /\ mem \in [Procs -> Nat] /\ sem \in [Procs -> [Names -> Nat]]
      /\ sized \subseteq sized'
  BY SizedGrows DEF Procs, BaseInv, GenInv
<1>1. ASSUME good' = good, pc' \in [Procs -> {"idle", "up", "gone"} \cup Starting \cup Ending],
             prog' = prog, NEW s \in Procs, pc'[s] # "up",
             \A q \in Procs : q = s \/ (pc'[q] = pc[q] /\ mem'[q] = mem[q] /\ sem'[q] = sem[q])
      PROVE  Keeps
  BY <1>0, <1>1 DEF Keeps, Workers, AtWork
<1>2. ASSUME NEW s \in Servers, OpenShm(s) PROVE Keeps
  <2>1. /\ mem' = [mem EXCEPT ![s] = shmName] /\ UNCHANGED <<prog, sem, good>>
        /\ pc' = [pc EXCEPT ![s] = IF shmName # 0 THEN "semaphores" ELSE "create"]
    BY <1>2 DEF OpenShm, Goes, ghost
  <2> QED
    BY <1>0, <1>1, <2>1 DEF Starting
<1>3. ASSUME NEW s \in Servers, CreateShm(s) PROVE Keeps
  <2>1. /\ mem' = [mem EXCEPT ![s] = shmName'] /\ UNCHANGED <<prog, sem, good>>
        /\ pc' = [pc EXCEPT ![s] = "truncate"]
    BY <1>3 DEF CreateShm, Goes, ghost, names
  <2> QED
    BY <1>0, <1>1, <2>1 DEF Starting
<1>4. ASSUME NEW s \in Servers, OpenSem(s), pc'[s] # "up" \/ s \notin good PROVE Keeps
  <2>1. UNCHANGED <<prog, mem, good>>
    BY <1>4 DEF OpenSem, ghost
  <2>2. PICK n \in Names : TurnFacts(s, "semaphores", "up", n)
                           /\ \/ sem' = [sem EXCEPT ![s][n] = semName[n]]
                              \/ sem' = [sem EXCEPT ![s][n] = made'[n]]
    BY <1>0, <1>4, OpenSemFacts
  <2>3. TurnFacts(s, "semaphores", "up", n)
    BY <2>2
  <2>4. \A q \in Procs : q = s \/ pc'[q] = pc[q]
    BY <1>0, <2>3 DEF TurnFacts
  <2>5. \A q \in Procs : q = s \/ sem'[q] = sem[q]
    BY <1>0, <2>2
  <2> QED
    BY <1>0, <1>4, <2>1, <2>4, <2>5 DEF Keeps, Workers, AtWork
<1>5. CASE GenQuiet
  <2>1. \A q \in Procs : pc'[q] = "up" => pc[q] = "up" /\ mem'[q] = mem[q] /\ sem'[q] = sem[q]
    BY <1>5 DEF GenQuiet, Ending, Clearing
  <2>2. \A q \in good' : pc'[q] = "up" /\ q \in Procs => q \in good
    <3>1. CASE Within
      BY <1>0, <2>1, <3>1 DEF Within
    <3>2. ASSUME NEW p \in Procs, BeginStep(p) PROVE \A q \in good' : pc'[q] = "up" => q \in good
      <4>1. pc'[p] # "up" /\ good' \subseteq good \cup {p}
        BY <1>0, <3>2 DEF BeginStep, Begins
      <4> QED
        BY <4>1
    <3>3. ASSUME NEW p \in Procs, Interrupt(p) PROVE good' = good
      BY <3>3 DEF Interrupt
    <3> QED
      BY <3>1, <3>2, <3>3, PhaseCases
  <2>3. \A q \in Procs \ Removers : prog'[q] = prog[q]
    BY <1>5 DEF GenQuiet
  <2> QED
    BY <1>0, <2>1, <2>2, <2>3 DEF Keeps, Workers, AtWork
<1> QED
  BY <1>2, <1>3, <1>4, <1>5, QuietSteps DEF Joins

\* A child starts to work with what its server has open.
LEMMA ForkFacts ==
    ASSUME BaseInv, GenInv, NEW s \in Servers, NEW c \in Clients, Fork(s, c)
    PROVE  /\ UNCHANGED <<shmName, semName, sized, messy, prog>>
           /\ c \notin Workers /\ Workers' \subseteq Workers \cup {c}
           /\ \A q \in Workers : mem'[q] = mem[q] /\ sem'[q] = sem[q]
           /\ mem'[c] = mem[s] /\ sem'[c] = sem[s] /\ prog[c] = prog[s]
           /\ c \in Workers' => s \in Workers
           /\ \A q \in Procs : q = c \/ (pc'[q] = pc[q] /\ mem'[q] = mem[q] /\ sem'[q] = sem[q])
           /\ pc'[c] = "up"
<1>0. /\ Servers \subseteq Procs /\ Removers \subseteq Procs /\ Clients \subseteq Procs
      /\ Servers \cap Clients = {} /\ Servers \cap Removers = {} /\ Removers \cap Clients = {}
      /\ pc \in [Procs -> {"idle", "up", "gone"} \cup Starting \cup Ending]
      /\ mem \in [Procs -> Nat] /\ sem \in [Procs -> [Names -> Nat]]
  BY IpcAssumption DEF Procs, BaseInv, GenInv
<1>1. /\ pc[s] = "up" /\ pc[c] = "idle" /\ pc' = [pc EXCEPT ![c] = "up"]
      /\ mem' = [mem EXCEPT ![c] = mem[s]] /\ sem' = [sem EXCEPT ![c] = sem[s]]
      /\ good' = IF s \in good THEN good \cup {c} ELSE good
      /\ UNCHANGED <<shmName, semName, sized, messy, prog>>
  BY DEF Fork, Goes, names
<1>2. /\ \A q \in Procs : q = c \/ (pc'[q] = pc[q] /\ mem'[q] = mem[q] /\ sem'[q] = sem[q])
      /\ mem'[c] = mem[s] /\ sem'[c] = sem[s] /\ pc'[c] = "up"
  BY <1>0, <1>1
<1>3. c \notin good
  BY <1>1 DEF BaseInv
<1>4. prog[c] = prog[s]
  BY <1>0 DEF BaseInv
<1>5. c \notin Workers /\ Workers' \subseteq Workers \cup {c} /\ (c \in Workers' => s \in Workers)
  BY <1>0, <1>1, <1>2, <1>3 DEF Workers, AtWork
<1>6. Workers \subseteq Procs
  BY DEF Workers, AtWork
<1> QED
  BY <1>1, <1>2, <1>4, <1>5, <1>6

\* A starter with a clean record is the only process in a phase.
LEMMA Alone ==
    ASSUME BaseInv, PhaseInv, NEW t \in good, pc[t] \in Starting,
           NEW q \in Procs, pc[q] \in Starting \cup Ending
    PROVE  q = t /\ ~messy
<1>1. t \in Procs
  BY DEF BaseInv
<1>2. InPhase(t) /\ InPhase(q)
  BY <1>1 DEF InPhase, Starting, Ending
<1> QED
  BY <1>1, <1>2 DEF PhaseInv

\* Servers and children are of one program.
LEMMA SameUses ==
    ASSUME BaseInv, NEW p \in Procs \ Removers, NEW q \in Procs \ Removers
    PROVE  Uses(prog[p]) = Uses(prog[q]) /\ Uses(prog[p]) \subseteq Names
BY DEF BaseInv, Uses, Names

-----------------------------------------------------------------------------
(* What the names mean to the workers. *)

MainInv == BaseInv /\ GenInv /\ CountInv /\ PhaseInv /\ ShareInv /\ NamesInv /\ ClearInv

\* While the names stay, so does what they mean.
LEMMA KeepsNames ==
    ASSUME BaseInv, Keeps, UNCHANGED <<shmName, semName>>,
           \A q \in Servers : prog'[q] = prog[q]
    PROVE  (Agrees => Agrees') /\ (Linked => Linked')
<1>1. Agrees => Agrees'
  BY DEF Keeps, Agrees
<1>2. Linked => Linked'
  BY <1>1 DEF Keeps, Linked
<1> QED
  BY <1>1, <1>2

LEMMA KeepsShare == ASSUME ShareInv, Keeps PROVE ShareInv'
BY DEF ShareInv, Keeps

\* A turn of the last loop of a starter with a clean record: a semaphore
\* that is made now has a number that no worker has.
LEMMA OpenSemAgrees ==
    ASSUME MainInv, NEW s \in Servers, s \in good, OpenSem(s)
    PROVE  /\ pc[s] = "semaphores" /\ shmName = mem[s] /\ mem[s] \in sized
           /\ UNCHANGED <<shmName, mem, sized, prog, messy, good>>
           /\ \A p \in Workers : \A n \in Uses(prog[p]) :
                (mem[p] = shmName) <=> (sem[p][n] = semName'[n])
           /\ \A p \in Workers : p # s /\ sem'[p] = sem[p]
           /\ \A q \in Procs : q = s \/ (pc'[q] = pc[q] /\ sem'[q] = sem[q])
           /\ pc'[s] = "semaphores" => \A n \in Done(s)' : sem'[s][n] = semName'[n]
           /\ pc'[s] = "up" => \A n \in Uses(prog[s]) : sem'[s][n] = semName'[n]
           /\ pc'[s] \in {"semaphores", "up"}
           /\ Workers' \subseteq Workers \cup {s}
<1>0. /\ Servers \subseteq Procs /\ Servers \cap Removers = {}
      /\ pc \in [Procs -> {"idle", "up", "gone"} \cup Starting \cup Ending]
      /\ k \in [Procs -> Nat] /\ k[s] < Len(SemNames(prog[s]))
      /\ mem \in [Procs -> Nat] /\ sem \in [Procs -> [Names -> Nat]]
      /\ semName \in [Names -> Nat] /\ made \in [Names \cup {"shm"} -> Nat]
      /\ "shm" \notin Names
      /\ s \in Procs
  BY IpcAssumption DEF Procs, MainInv, BaseInv, GenInv, Names
<1>1. UNCHANGED <<shmName, mem, sized, prog, messy, good>>
  BY DEF OpenSem, memory, ghost
<1>2. PICK n \in Names :
            /\ TurnFacts(s, "semaphores", "up", n)
            /\ \/ semName[n] # 0 /\ sem' = [sem EXCEPT ![s][n] = semName[n]]
                  /\ UNCHANGED <<semName, made>>
               \/ /\ semName[n] = 0
                  /\ made' = [made EXCEPT ![n] = made[n] + 1]
                  /\ semName' = [semName EXCEPT ![n] = made'[n]]
                  /\ sem' = [sem EXCEPT ![s][n] = made'[n]]
  BY <1>0, OpenSemFacts DEF MainInv
<1>3. TurnFacts(s, "semaphores", "up", n)
  BY <1>2
<1>4. pc[s] = "semaphores"
  BY <1>3 DEF TurnFacts
<1>5. shmName = mem[s] /\ mem[s] \in sized /\ Agrees /\ \A m \in Done(s) : sem[s][m] = semName[m]
  BY <1>4 DEF MainInv, NamesInv, StartNames, Clearing
<1>6. /\ \A q \in Procs : q = s \/ (pc'[q] = pc[q] /\ k'[q] = k[q])
      /\ pc'[s] \in {"semaphores", "up"}
  BY <1>0, <1>3 DEF TurnFacts
<1>7. /\ sem' = [sem EXCEPT ![s][n] = semName'[n]]
      /\ \A m \in Names : m = n \/ semName'[m] = semName[m]
      /\ semName[n] # 0 \/ semName'[n] = made[n] + 1
      /\ semName[n] # 0 => semName'[n] = semName[n]
  BY <1>0, <1>2
<1>8. /\ sem'[s][n] = semName'[n]
      /\ \A m \in Names : m = n \/ sem'[s][m] = sem[s][m]
      /\ \A q \in Procs : q = s \/ sem'[q] = sem[q]
  BY <1>0, <1>7
<1>9. \A p \in Workers : p # s /\ p \in Procs \ Removers
  BY <1>4 DEF Workers, AtWork
<1>10. ASSUME NEW p \in Workers, NEW m \in Uses(prog[p])
       PROVE  (mem[p] = shmName) <=> (sem[p][m] = semName'[m])
  <2>1. (mem[p] = shmName) <=> (sem[p][m] = semName[m])
    BY <1>5 DEF Agrees
  <2>2. m \in Names
    BY DEF Uses, Names
  <2>3. CASE semName'[m] = semName[m]
    BY <2>1, <2>3
  <2>4. CASE semName'[m] # semName[m]
    <3>1. m = n /\ semName[n] = 0 /\ semName'[n] = made[n] + 1
      BY <1>7, <2>2, <2>4
    <3>2. p \in AtWork /\ p \in Procs
      BY DEF Workers, AtWork
    <3>3. sem[p][m] >= 1 /\ sem[p][m] <= made[m] /\ sem[p][m] \in Nat /\ made[m] \in Nat
      BY <1>0, <2>2, <3>2 DEF MainInv, GenInv
    <3> QED
      BY <2>1, <3>1, <3>3
  <2> QED
    BY <2>3, <2>4
<1>11. Done(s) \subseteq Names /\ Uses(prog[s]) \subseteq Names
  <2>1. Uses(prog[s]) \subseteq Names
    BY DEF Uses, Names
  <2> QED
    BY <1>0, <2>1, FirstsUsed DEF Done
<1>12. \A m \in Done(s) \cup {n} : sem'[s][m] = semName'[m]
  BY <1>5, <1>7, <1>8, <1>11
<1>13. /\ pc'[s] = "semaphores" => Done(s)' = Done(s) \cup {n}
       /\ pc'[s] = "up" => Uses(prog[s]) = Done(s) \cup {n}
  <2>1. CASE /\ pc' = [pc EXCEPT ![s] = "semaphores"] /\ k' = [k EXCEPT ![s] = k[s] + 1]
             /\ Firsts(prog[s], k[s] + 1) = Done(s) \cup {n}
    BY <1>0, <1>1, <2>1 DEF Done
  <2>2. CASE pc' = [pc EXCEPT ![s] = "up"] /\ Uses(prog[s]) = Done(s) \cup {n}
    BY <1>0, <2>2
  <2> QED
    BY <1>3, <2>1, <2>2 DEF TurnFacts
<1>14. Workers' \subseteq Workers \cup {s}
  BY <1>1, <1>6 DEF Workers, AtWork
<1> QED
  BY <1>1, <1>4, <1>5, <1>6, <1>8, <1>9, <1>10, <1>12, <1>13, <1>14 DEF Workers, AtWork

\* A new worker shares with each other one all it uses, or nothing.
LEMMA ShareStep == ASSUME MainInv, [Next]_vars PROVE ShareInv'
<1>1. CASE Keeps
  BY <1>1, KeepsShare DEF MainInv
<1>2. ASSUME NEW s \in Servers, NEW c \in Clients, Fork(s, c) PROVE ShareInv'
  <2>1. /\ UNCHANGED <<sized, prog>>
        /\ Workers' \subseteq Workers \cup {c}
        /\ \A q \in Workers : mem'[q] = mem[q] /\ sem'[q] = sem[q]
        /\ mem'[c] = mem[s] /\ sem'[c] = sem[s] /\ prog[c] = prog[s]
        /\ c \in Workers' => s \in Workers
    BY <1>2, ForkFacts DEF MainInv
  <2>2. ShareInv
    BY DEF MainInv
  <2>3. ASSUME NEW p \in Workers'
        PROVE  \E q \in Workers : mem'[p] = mem[q] /\ sem'[p] = sem[q] /\ prog'[p] = prog[q]
    BY <2>1
  <2> QED
    BY <2>1, <2>2, <2>3 DEF ShareInv
<1>3. ASSUME NEW s \in Servers, Joins(s) PROVE ShareInv'
  <2>1. /\ pc[s] = "semaphores" /\ shmName = mem[s] /\ mem[s] \in sized
        /\ UNCHANGED <<shmName, mem, sized, prog, messy, good>>
        /\ \A p \in Workers : \A n \in Uses(prog[p]) :
              (mem[p] = shmName) <=> (sem[p][n] = semName'[n])
        /\ \A p \in Workers : p # s /\ sem'[p] = sem[p]
        /\ \A n \in Uses(prog[s]) : sem'[s][n] = semName'[n]
        /\ Workers' \subseteq Workers \cup {s}
    BY <1>3, OpenSemAgrees DEF Joins
  <2>2. \A p \in Workers \cup {s} : Uses(prog[p]) = Uses(prog[s])
    <3>1. \A p \in Workers \cup {s} : p \in Procs \ Removers
      BY IpcAssumption DEF Workers, AtWork, Procs
    <3> QED
      BY <3>1, SameUses DEF MainInv
  <2>3. ShareInv
    BY DEF MainInv
  <2>4. ASSUME NEW p \in Workers', NEW q \in Workers', NEW n \in Uses(prog'[p])
        PROVE  mem'[p] \in sized' /\ ((mem'[p] = mem'[q]) <=> (sem'[p][n] = sem'[q][n]))
    <3>1. n \in Uses(prog[s]) /\ n \in Uses(prog[p]) /\ n \in Uses(prog[q])
      BY <2>1, <2>2
    <3>2. CASE p \in Workers /\ q \in Workers
      BY <2>1, <2>3, <3>1, <3>2 DEF ShareInv
    <3>3. CASE p = s /\ q \in Workers
      BY <2>1, <3>1, <3>3
    <3>4. CASE p \in Workers /\ q = s
      BY <2>1, <2>3, <3>1, <3>4 DEF ShareInv
    <3>5. CASE p = s /\ q = s
      BY <2>1, <3>5
    <3> QED
      BY <2>1, <3>2, <3>3, <3>4, <3>5
  <2>5. \A p \in Workers' : mem'[p] \in sized'
    BY <2>1, <2>3 DEF ShareInv
  <2> QED
    BY <2>4, <2>5 DEF ShareInv
<1> QED
  BY <1>1, <1>2, <1>3, KeepsCases DEF MainInv

-----------------------------------------------------------------------------
(* No memory is created or cleared that a worker uses. *)

LEMMA WorkerHas ==
    ASSUME GenInv
    PROVE  \A p \in Workers : p \in Procs /\ mem[p] \in Nat /\ mem[p] >= 1 /\ mem[p] <= made["shm"]
BY DEF GenInv, Workers, AtWork

LEMMA ClearInit == ASSUME Init PROVE ClearInv
BY DEF Init, ClearInv, Workers

\* A new memory is nobody's yet; and nobody starts to work while another
\* creates or clears.
LEMMA ClearStep == ASSUME MainInv, [Next]_vars PROVE ClearInv'
<1>0. /\ Servers \subseteq Procs /\ Clients \subseteq Procs /\ Servers \cap Clients = {}
      /\ pc \in [Procs -> {"idle", "up", "gone"} \cup Starting \cup Ending]
      /\ mem \in [Procs -> Nat] /\ made["shm"] \in Nat
      /\ BaseInv /\ GenInv /\ PhaseInv /\ ClearInv
  BY IpcAssumption DEF Procs, MainInv, BaseInv, GenInv
<1>a. \A p \in Workers : p \in Procs /\ mem[p] \in Nat /\ mem[p] >= 1 /\ mem[p] <= made["shm"]
  BY <1>0, WorkerHas
<1>1. ASSUME NEW s \in Servers, Joins(s) PROVE ClearInv'
  <2>1. s \in good /\ OpenSem(s) /\ pc'[s] = "up"
    BY <1>1 DEF Joins
  <2>2. /\ pc[s] = "semaphores"
        /\ \A q \in Procs : q = s \/ (pc'[q] = pc[q] /\ sem'[q] = sem[q])
    BY <2>1, OpenSemAgrees
  <2>3. \A q \in Procs : pc'[q] \notin {"create"} \cup Clearing
    <3> SUFFICES ASSUME NEW q \in Procs, pc'[q] \in {"create"} \cup Clearing PROVE FALSE
      OBVIOUS
    <3>1. q # s /\ pc[q] \in Starting
      BY <2>1, <2>2 DEF Clearing, Starting
    <3> QED
      BY <1>0, <2>1, <2>2, <3>1, Alone DEF Starting
  <2> QED
    BY <2>3 DEF ClearInv
<1>2. ASSUME NEW s \in Servers, NEW c \in Clients, Fork(s, c) PROVE ClearInv'
  <2>1. /\ UNCHANGED shmName /\ Workers' \subseteq Workers \cup {c}
        /\ \A q \in Workers : mem'[q] = mem[q]
        /\ mem'[c] = mem[s] /\ (c \in Workers' => s \in Workers)
        /\ \A q \in Procs : q = c \/ (pc'[q] = pc[q] /\ mem'[q] = mem[q])
        /\ pc'[c] = "up"
    BY <1>0, <1>2, ForkFacts
  <2>2. \A p \in Workers' : \E q \in Workers : mem'[p] = mem[q]
    BY <2>1
  <2> QED
    BY <1>0, <2>1, <2>2 DEF ClearInv, Clearing
<1>3. ASSUME NEW s \in Servers, OpenShm(s), Keeps PROVE ClearInv'
  <2>1. /\ shmName' = shmName /\ mem' = [mem EXCEPT ![s] = shmName]
        /\ pc' = [pc EXCEPT ![s] = IF shmName # 0 THEN "semaphores" ELSE "create"]
    BY <1>3 DEF OpenShm, Goes, names
  <2>2. /\ \A q \in Procs : q = s \/ (pc'[q] = pc[q] /\ mem'[q] = mem[q])
        /\ pc'[s] = "semaphores" \/ (pc'[s] = "create" /\ shmName = 0)
    BY <1>0, <2>1
  <2> QED
    BY <1>0, <1>a, <1>3, <2>1, <2>2 DEF ClearInv, Clearing, Keeps
<1>4. ASSUME NEW s \in Servers, CreateShm(s), Keeps PROVE ClearInv'
  <2>1. /\ pc[s] = "create" /\ pc' = [pc EXCEPT ![s] = "truncate"]
        /\ mem' = [mem EXCEPT ![s] = shmName']
        /\ shmName' = shmName \/ shmName' = made["shm"] + 1
    <3>1. made' = [made EXCEPT !["shm"] = @ + 1] => made'["shm"] = made["shm"] + 1
      BY <1>0 DEF GenInv
    <3> QED
      BY <1>4, <3>1 DEF CreateShm, Goes, names
  <2>2. /\ \A q \in Procs : q = s \/ (pc'[q] = pc[q] /\ mem'[q] = mem[q])
        /\ pc'[s] = "truncate" /\ mem'[s] = shmName'
    BY <1>0, <2>1
  <2>3. \A p \in Workers : mem[p] # shmName'
    BY <1>0, <1>a, <2>1 DEF ClearInv
  <2> QED
    BY <1>0, <1>4, <2>2, <2>3 DEF ClearInv, Keeps
<1>5. ASSUME NEW s \in Servers, OpenSem(s), Keeps PROVE ClearInv'
  <2>1. UNCHANGED <<mem, shmName>>
    BY <1>5 DEF OpenSem
  <2>2. PICK n \in Names : TurnFacts(s, "semaphores", "up", n)
    BY <1>0, <1>5, OpenSemFacts
  <2>3. \A q \in Procs : pc'[q] = pc[q] \/ pc'[q] \in {"semaphores", "up"}
    BY <1>0, <2>2 DEF TurnFacts
  <2> QED
    BY <1>0, <1>5, <2>1, <2>3 DEF ClearInv, Clearing, Keeps
<1>6. CASE GenQuiet /\ Keeps
  <2>1. \A s \in Procs : /\ pc'[s] = "create" => pc[s] = "create"
                         /\ pc'[s] \in Clearing => pc[s] \in Clearing /\ mem'[s] = mem[s]
    BY <1>6 DEF GenQuiet, Clearing, Ending
  <2>2. shmName' = 0 \/ shmName' = shmName
    BY <1>6 DEF GenQuiet
  <2> QED
    BY <1>0, <1>a, <1>6, <2>1, <2>2 DEF ClearInv, Keeps
<1> QED
  BY <1>0, <1>1, <1>2, <1>3, <1>4, <1>5, <1>6, KeepsCases, QuietSteps

-----------------------------------------------------------------------------
(* What the names mean, over each step. *)

LEMMA NamesInit == ASSUME Init PROVE NamesInv /\ ShareInv
BY DEF Init, NamesInv, ShareInv, Workers

\* In a phase of p, only what p does matters;
LEMMA InPhaseNames ==
    ASSUME BaseInv', PhaseInv', NEW p \in Procs, pc'[p] \in Starting \cup Ending,
           p \in good' => StartNames(p)'
    PROVE  NamesInv'
<1>1. InPhase(p)'
  BY DEF InPhase, Starting, Ending
<1>2. ASSUME NEW s \in good', s # p PROVE StartNames(s)'
  <2>1. s \in Procs
    BY <1>2 DEF BaseInv
  <2>2. pc'[s] \notin Starting
    <3> SUFFICES ASSUME pc'[s] \in Starting PROVE FALSE
      OBVIOUS
    <3>1. InPhase(s)' /\ ~messy'
      BY <1>2 DEF InPhase, Starting, PhaseInv
    <3> QED
      BY <1>1, <1>2, <2>1, <3>1 DEF PhaseInv
  <2> QED
    BY <2>2 DEF StartNames, Starting, Clearing
<1> QED
  BY <1>1, <1>2 DEF NamesInv

\* and nothing is said of the names when phases have overlapped.
LEMMA MessyNames == ASSUME PhaseInv', messy' PROVE NamesInv'
BY DEF PhaseInv, NamesInv, StartNames, Starting, Clearing

\* A step that leaves the names, and the phases that last, alone.
Calm ==
    /\ UNCHANGED <<shmName, semName, sized, messy, good>>
    /\ \A q \in Servers : prog'[q] = prog[q]
    /\ \A q \in Procs :
        /\ InPhase(q) => InPhase(q)'
        /\ pc'[q] \in Starting =>
            /\ pc'[q] = pc[q] /\ mem'[q] = mem[q] /\ sem'[q] = sem[q]
            /\ prog'[q] = prog[q] /\ k'[q] = k[q]

LEMMA CalmNames == ASSUME BaseInv, NamesInv, Keeps, Calm PROVE NamesInv'
<1>1. (Agrees => Agrees') /\ (Linked => Linked')
  BY KeepsNames DEF Calm
<1>2. ASSUME NEW s \in good' PROVE StartNames(s)'
  <2>0. s \in good /\ s \in Procs /\ UNCHANGED <<shmName, semName, sized>>
    BY <1>2 DEF Calm, BaseInv
  <2>1. CASE pc'[s] \in Starting
    <3>1. /\ pc'[s] = pc[s] /\ mem'[s] = mem[s] /\ sem'[s] = sem[s]
          /\ prog'[s] = prog[s] /\ Done(s)' = Done(s)
      BY <2>0, <2>1 DEF Calm, Done
    <3>2. StartNames(s)
      BY <2>0 DEF NamesInv
    <3> QED
      BY <1>1, <2>0, <3>1, <3>2 DEF StartNames
  <2>2. CASE pc'[s] \notin Starting
    BY <2>2 DEF StartNames, Starting, Clearing
  <2> QED
    BY <2>1, <2>2
<1> QED
  BY <1>1, <1>2 DEF NamesInv, Calm

\* A server that starts alone, after phases that were whole, finds all names or
\* no memory.
LEMMA BeginNames ==
    ASSUME MainInv, BaseInv', PhaseInv', Keeps, NEW p \in Procs, BeginStep(p),
           UNCHANGED <<shmName, semName>>, \A q \in Servers : prog'[q] = prog[q]
    PROVE  NamesInv'
<1>0. pc \in [Procs -> {"idle", "up", "gone"} \cup Starting \cup Ending] /\ BaseInv
  BY DEF MainInv, BaseInv
<1>1. pc'[p] \in {"open", "unlink"}
  BY <1>0 DEF BeginStep
<1>2. ASSUME p \in good', pc'[p] = "open" PROVE shmName' = 0 \/ Linked'
  <2> DEFINE others == {q \in Procs \ {p} : InPhase(q)}
  <2>1. /\ p \in Servers /\ pc[p] = "idle" /\ p \notin good
        /\ p \notin Removers
    BY <1>0, <1>2, IpcAssumption DEF BeginStep, BaseInv
  <2>2. /\ messy' = (others # {} \/ (messy /\ p \notin Removers))
        /\ good' = (good \ others) \cup (IF p \in Servers /\ pc[p] = "idle" /\ ~messy'
                                         THEN {p} ELSE {})
    BY DEF BeginStep, Begins
  <2>3. ~messy'
    BY <1>2, <2>1, <2>2
  <2>4. others = {} /\ ~messy
    BY <2>1, <2>2, <2>3
  <2>5. \A q \in Procs : ~InPhase(q)
    BY <2>1, <2>4 DEF InPhase
  <2>6. shmName = 0 \/ Linked
    BY <2>4, <2>5 DEF MainInv, NamesInv
  <2> QED
    BY <1>0, <2>6, KeepsNames
<1>3. p \in good' => StartNames(p)'
  BY <1>1, <1>2 DEF StartNames, Clearing
<1> QED
  BY <1>1, <1>3, InPhaseNames DEF Starting, Ending

\* What the names mean is known again after each step of a start.
LEMMA NamesStep ==
    ASSUME MainInv, BaseInv', GenInv', PhaseInv', [Next]_vars
    PROVE  NamesInv'
<1>0. /\ Servers \subseteq Procs /\ Clients \subseteq Procs /\ Removers \subseteq Procs
      /\ Servers \cap Clients = {} /\ Servers \cap Removers = {}
      /\ pc \in [Procs -> {"idle", "up", "gone"} \cup Starting \cup Ending]
      /\ mem \in [Procs -> Nat] /\ made["shm"] \in Nat /\ semName \in [Names -> Nat]
      /\ k \in [Procs -> Nat]
      /\ BaseInv /\ GenInv /\ PhaseInv /\ NamesInv /\ ClearInv /\ good \subseteq Procs
  BY IpcAssumption DEF Procs, MainInv, BaseInv, GenInv
<1>1. ASSUME NEW s \in Servers, Joins(s) PROVE NamesInv'
  <2>0. s \in good /\ OpenSem(s) /\ pc'[s] = "up"
    BY <1>1 DEF Joins
  <2>1. /\ pc[s] = "semaphores" /\ shmName = mem[s] /\ mem[s] \in sized
        /\ UNCHANGED <<shmName, mem, sized, prog, messy, good>>
        /\ \A p \in Workers : \A n \in Uses(prog[p]) :
             (mem[p] = shmName) <=> (sem[p][n] = semName'[n])
        /\ \A p \in Workers : p # s /\ sem'[p] = sem[p]
        /\ \A q \in Procs : q = s \/ (pc'[q] = pc[q] /\ sem'[q] = sem[q])
        /\ \A n \in Uses(prog[s]) : sem'[s][n] = semName'[n]
        /\ Workers' \subseteq Workers \cup {s}
    BY <2>0, OpenSemAgrees
  <2>2. \A q \in Procs : pc'[q] \notin Starting
    <3> SUFFICES ASSUME NEW q \in Procs, pc'[q] \in Starting PROVE FALSE
      OBVIOUS
    <3>1. q # s /\ pc[q] \in Starting
      BY <2>0, <2>1 DEF Starting
    <3> QED
      BY <1>0, <2>0, <2>1, <3>1, Alone DEF Starting
  <2>3. \A t \in good' : StartNames(t)'
    BY <1>0, <2>1, <2>2 DEF StartNames, Starting, Clearing
  <2>4. Agrees'
    BY <2>1 DEF Agrees
  <2>5. s \in AtWork'
    BY <1>0, <2>0 DEF AtWork
  <2>6. \A n \in Uses(prog[s]) : semName'[n] # 0
    BY <2>1, <2>5 DEF GenInv
  <2>7. \A t \in Servers : Uses(prog[t]) = Uses(prog[s])
    BY <1>0, SameUses
  <2>8. Linked'
    BY <2>1, <2>4, <2>6, <2>7 DEF Linked
  <2> QED
    BY <2>3, <2>8 DEF NamesInv
<1>2. ASSUME NEW s \in Servers, NEW c \in Clients, Fork(s, c) PROVE NamesInv'
  <2>1. /\ UNCHANGED <<shmName, semName, sized, messy, prog>>
        /\ Workers' \subseteq Workers \cup {c}
        /\ \A q \in Workers : mem'[q] = mem[q] /\ sem'[q] = sem[q]
        /\ mem'[c] = mem[s] /\ sem'[c] = sem[s] /\ prog[c] = prog[s]
        /\ c \in Workers' => s \in Workers
        /\ \A q \in Procs : q = c \/ (pc'[q] = pc[q] /\ mem'[q] = mem[q] /\ sem'[q] = sem[q])
        /\ pc'[c] = "up"
    BY <1>0, <1>2, ForkFacts
  <2>2. k' = k /\ pc[c] = "idle" /\ good' \subseteq good \cup {c}
    BY <1>2 DEF Fork, Goes
  <2>3. \A p \in Workers' : \E q \in Workers :
            mem'[p] = mem[q] /\ sem'[p] = sem[q] /\ prog'[p] = prog[q]
    BY <2>1
  <2>4. (Agrees => Agrees') /\ (Linked => Linked')
    BY <2>1, <2>3 DEF Agrees, Linked
  <2>5. ASSUME NEW t \in good' PROVE StartNames(t)'
    <3>1. CASE t = c
      BY <2>1, <3>1 DEF StartNames, Clearing
    <3>2. CASE t # c
      <4>1. t \in good /\ t \in Procs /\ StartNames(t)
        BY <1>0, <2>2, <3>2 DEF NamesInv
      <4>2. Done(t)' = Done(t)
        BY <2>1, <2>2 DEF Done
      <4> QED
        BY <2>1, <2>4, <3>2, <4>1, <4>2 DEF StartNames
    <3> QED
      BY <3>1, <3>2
  <2>6. \A q \in Procs : InPhase(q) => InPhase(q)'
    BY <2>1, <2>2 DEF InPhase
  <2> QED
    BY <1>0, <2>1, <2>4, <2>5, <2>6 DEF NamesInv
<1>3. ASSUME NEW s \in Servers, Start(s), Keeps PROVE NamesInv'
  <2>1. BeginStep(s) /\ UNCHANGED <<shmName, semName, prog>> /\ s \in Procs
    BY <1>0, <1>3 DEF Start, BeginStep, Goes, names
  <2> QED
    BY <1>3, <2>1, BeginNames
<1>4. ASSUME NEW p \in Procs, Remove(p), Keeps PROVE NamesInv'
  <2>1. BeginStep(p) /\ UNCHANGED <<shmName, semName>> /\ p \in Removers
    BY <1>4 DEF Remove, BeginStep, Goes, names
  <2>2. \A q \in Servers : prog'[q] = prog[q]
    <3>1. prog \in [Procs -> {"DU05", "DU05_test"}]
      BY <1>0 DEF BaseInv
    <3> QED
      BY <1>0, <1>4, <2>1, <3>1 DEF Remove
  <2> QED
    BY <1>4, <2>1, <2>2, BeginNames
<1>5. ASSUME NEW s \in Servers, Quit(s), Keeps PROVE NamesInv'
  <2>1. UNCHANGED <<shmName, semName, sized, prog>> /\ s \in Procs
    BY <1>0, <1>5 DEF Quit, names, memory
  <2>2. CASE pc[s] = "up" /\ pc' = [pc EXCEPT ![s] = "unlink"] /\ Begins(s)
    BY <1>5, <2>1, <2>2, BeginNames DEF BeginStep
  <2>3. CASE pc[s] = "up" /\ pc' = [pc EXCEPT ![s] = "gone"] /\ UNCHANGED ghost
    <3>1. /\ k' = [q \in Procs |-> IF q = s THEN 0 ELSE k[q]]
          /\ mem' = [q \in Procs |-> IF q = s THEN 0 ELSE mem[q]]
          /\ sem' = [q \in Procs |-> IF q = s THEN Nowhere ELSE sem[q]]
      BY <1>5 DEF Quit, Closes
    <3>2. Calm
      BY <1>0, <2>1, <2>3, <3>1 DEF Calm, InPhase, Starting, ghost
    <3> QED
      BY <1>0, <1>5, <3>2, CalmNames
  <2> QED
    BY <1>5, <2>2, <2>3 DEF Quit, Goes
<1>6. ASSUME NEW p \in Procs, Leave(p), Keeps PROVE NamesInv'
  <2>1. /\ k' = [q \in Procs |-> IF q = p THEN 0 ELSE k[q]]
        /\ mem' = [q \in Procs |-> IF q = p THEN 0 ELSE mem[q]]
        /\ sem' = [q \in Procs |-> IF q = p THEN Nowhere ELSE sem[q]]
        /\ pc[p] = "up" /\ pc' = [pc EXCEPT ![p] = "gone"]
        /\ UNCHANGED <<shmName, semName, sized, messy, good, prog>>
    BY <1>6 DEF Leave, Closes, Goes, names, ghost
  <2>2. Calm
    BY <1>0, <2>1 DEF Calm, InPhase, Starting
  <2> QED
    BY <1>0, <1>6, <2>2, CalmNames
<1>7. ASSUME NEW p \in Procs, Interrupt(p), Keeps PROVE NamesInv'
  <2>1. /\ pc' = [q \in Procs |-> IF boss[q] = p THEN "gone" ELSE pc[q]]
        /\ k' = [q \in Procs |-> IF boss[q] = p THEN 0 ELSE k[q]]
        /\ mem' = [q \in Procs |-> IF boss[q] = p THEN 0 ELSE mem[q]]
        /\ sem' = [q \in Procs |-> IF boss[q] = p THEN Nowhere ELSE sem[q]]
        /\ UNCHANGED <<prog, shmName, semName, sized, good>>
        /\ messy' = (messy \/ InPhase(p))
    <3>1. \A q \in Procs : q \in {r \in Procs : boss[r] = p} <=> boss[q] = p
      OBVIOUS
    <3> QED
      BY <1>7, <3>1 DEF Interrupt, Closes, names, memory
  <2>2. CASE messy'
    BY <2>2, MessyNames
  <2>3. CASE ~messy'
    <3>1. ~InPhase(p) /\ messy' = messy
      BY <1>0, <2>1, <2>3 DEF BaseInv
    <3>2. \A q \in Procs : InPhase(q) => boss[q] # p
      <4> SUFFICES ASSUME NEW q \in Procs, InPhase(q), boss[q] = p PROVE FALSE
        OBVIOUS
      <4>1. q \notin Clients
        BY <1>0 DEF BaseInv, InPhase
      <4>2. boss[q] = q
        BY <4>1, <1>0 DEF BaseInv, Procs
      <4> QED
        BY <3>1, <4>2
    <3>3. Calm
      BY <1>0, <2>1, <3>1, <3>2 DEF Calm, InPhase, Starting
    <3> QED
      BY <1>0, <1>7, <3>3, CalmNames
  <2> QED
    BY <2>2, <2>3
<1>8. CASE UNCHANGED vars /\ Keeps
  <2>1. Calm
    BY <1>8 DEF vars, process, names, memory, ghost, Calm, InPhase
  <2> QED
    BY <1>0, <1>8, <2>1, CalmNames
<1>9. ASSUME NEW s \in Servers, OpenShm(s), Keeps PROVE NamesInv'
  <2>1. /\ pc[s] = "open" /\ mem' = [mem EXCEPT ![s] = shmName] /\ s \in Procs
        /\ pc' = [pc EXCEPT ![s] = IF shmName # 0 THEN "semaphores" ELSE "create"]
        /\ UNCHANGED <<shmName, semName, sized, good, prog, k>>
    BY <1>0, <1>9 DEF OpenShm, Goes, names, memory, ghost
  <2>2. mem'[s] = shmName /\ (IF shmName # 0 THEN pc'[s] = "semaphores" ELSE pc'[s] = "create")
    BY <1>0, <2>1
  <2>3. Done(s)' = {}
    BY <1>0, <2>1, NoneDone DEF Done, BaseInv
  <2>4. ASSUME s \in good' PROVE StartNames(s)'
    <3>1. shmName = 0 \/ Linked
      BY <1>0, <2>1, <2>4 DEF NamesInv, StartNames
    <3>2. shmName = 0 \/ Linked'
      BY <1>0, <1>9, <2>1, <3>1, KeepsNames
    <3> QED
      BY <2>1, <2>2, <2>3, <3>2 DEF StartNames, Linked, Clearing
  <2> QED
    BY <2>1, <2>2, <2>4, InPhaseNames DEF Starting
<1>10. ASSUME NEW s \in Servers, CreateShm(s), Keeps PROVE NamesInv'
  <2>1. /\ pc[s] = "create" /\ s \in Procs /\ pc' = [pc EXCEPT ![s] = "truncate"]
        /\ mem' = [mem EXCEPT ![s] = shmName']
    BY <1>0, <1>10 DEF CreateShm, Goes, names
  <2>2. pc'[s] = "truncate" /\ mem'[s] = shmName'
    BY <1>0, <2>1
  <2>3. StartNames(s)'
    BY <2>2 DEF StartNames
  <2> QED
    BY <2>1, <2>2, <2>3, InPhaseNames DEF Starting
<1>11. ASSUME NEW s \in Servers, Truncate(s), Keeps PROVE NamesInv'
  <2>1. /\ pc[s] = "truncate" /\ s \in Procs /\ pc' = [pc EXCEPT ![s] = "stale"]
        /\ sized' = sized \cup {mem[s]}
        /\ UNCHANGED <<mem, shmName, semName, good, prog, k>>
    BY <1>0, <1>11 DEF Truncate, Goes, names, ghost
  <2>2. pc'[s] = "stale"
    BY <1>0, <2>1
  <2>3. Done(s)' = {}
    BY <1>0, <2>1, NoneDone DEF Done, BaseInv
  <2>4. ASSUME s \in good' PROVE StartNames(s)'
    <3>1. shmName = mem[s]
      BY <1>0, <2>1, <2>4 DEF NamesInv, StartNames, Clearing
    <3> QED
      BY <2>1, <2>2, <2>3, <3>1 DEF StartNames
  <2> QED
    BY <2>1, <2>2, <2>4, InPhaseNames DEF Starting
<1>12. ASSUME NEW s \in Servers, UnlinkStale(s), Keeps PROVE NamesInv'
  <2>0. UNCHANGED <<prog, mem, shmName, sized, good>> /\ s \in Procs
    BY <1>0, <1>12 DEF UnlinkStale, memory, ghost
  <2>1. PICK n \in Names : TurnFacts(s, "stale", "zero", n) /\ semName' = [semName EXCEPT ![n] = 0]
    BY <1>12, <2>0, <1>0, UnlinkFacts DEF UnlinkTurn
  <2>2. /\ TurnFacts(s, "stale", "zero", n)
        /\ \A m \in Names : (m = n /\ semName'[m] = 0) \/ semName'[m] = semName[m]
        /\ semName'[n] = 0
    BY <1>0, <2>1
  <2>3. pc[s] = "stale" /\ pc'[s] \in {"stale", "zero"}
    BY <1>0, <2>0, <2>2 DEF TurnFacts
  <2>4. /\ pc'[s] = "stale" => Done(s)' = Done(s) \cup {n}
        /\ pc'[s] = "zero" => Uses(prog[s]) = Done(s) \cup {n}
    <3>1. CASE /\ pc' = [pc EXCEPT ![s] = "stale"] /\ k' = [k EXCEPT ![s] = k[s] + 1]
               /\ Firsts(prog[s], k[s] + 1) = Done(s) \cup {n}
      BY <1>0, <2>0, <3>1 DEF Done
    <3>2. CASE pc' = [pc EXCEPT ![s] = "zero"] /\ Uses(prog[s]) = Done(s) \cup {n}
      BY <1>0, <2>0, <3>2
    <3> QED
      BY <2>2, <3>1, <3>2 DEF TurnFacts
  <2>5. Done(s) \subseteq Names
    <3>1. k[s] < Len(SemNames(prog[s])) /\ k[s] \in Nat
      BY <1>0, <2>0 DEF BaseInv
    <3>2. Uses(prog[s]) \subseteq Names
      BY DEF Uses, Names
    <3> QED
      BY <3>1, <3>2, FirstsUsed DEF Done
  <2>6. ASSUME s \in good' PROVE StartNames(s)'
    <3>1. /\ shmName = mem[s] /\ mem[s] \in sized
          /\ \A m \in Done(s) : semName[m] = 0
      BY <1>0, <2>0, <2>3, <2>6 DEF NamesInv, StartNames, Clearing
    <3>2. \A m \in Done(s) \cup {n} : semName'[m] = 0
      BY <2>2, <2>5, <3>1
    <3> QED
      BY <2>0, <2>3, <2>4, <3>1, <3>2 DEF StartNames
  <2> QED
    BY <2>0, <2>3, <2>6, InPhaseNames DEF Starting
<1>13. ASSUME NEW s \in Servers, Zero(s), Keeps PROVE NamesInv'
  <2>1. /\ pc[s] = "zero" /\ s \in Procs /\ pc' = [pc EXCEPT ![s] = "semaphores"]
        /\ UNCHANGED <<mem, shmName, semName, sized, good, prog, k, sem>>
    BY <1>0, <1>13 DEF Zero, Goes, names, ghost
  <2>2. pc'[s] = "semaphores"
    BY <1>0, <2>1
  <2>3. Done(s)' = {}
    BY <1>0, <2>1, NoneDone DEF Done, BaseInv
  <2>4. ASSUME s \in good' PROVE StartNames(s)'
    <3>1. /\ shmName = mem[s] /\ mem[s] \in sized
          /\ \A n \in Uses(prog[s]) : semName[n] = 0
      BY <1>0, <2>1, <2>4 DEF NamesInv, StartNames, Clearing
    <3>2. ASSUME NEW p \in Workers, NEW n \in Uses(prog[p])
          PROVE  mem[p] # shmName /\ sem[p][n] # semName[n]
      <4>1. mem[p] # mem[s]
        BY <1>0, <2>1 DEF ClearInv, Clearing
      <4>2. p \in AtWork /\ p \in Procs \ Removers
        BY DEF Workers, AtWork
      <4>3. sem[p][n] >= 1
        BY <1>0, <4>2 DEF GenInv
      <4>4. Uses(prog[p]) = Uses(prog[s])
        BY <1>0, <2>1, <4>2, SameUses
      <4> QED
        BY <3>1, <4>1, <4>3, <4>4
    <3>3. Agrees
      BY <3>2 DEF Agrees
    <3>4. Agrees'
      BY <1>0, <1>13, <2>1, <3>3, KeepsNames
    <3> QED
      BY <2>1, <2>2, <2>3, <3>1, <3>4 DEF StartNames
  <2> QED
    BY <2>1, <2>2, <2>4, InPhaseNames DEF Starting
<1>14. ASSUME NEW s \in Servers, OpenSem(s), ~Joins(s), Keeps PROVE NamesInv'
  <2>0. s \in Procs /\ UNCHANGED <<good, messy>>
    BY <1>0, <1>14 DEF OpenSem, ghost
  <2>1. PICK n \in Names : TurnFacts(s, "semaphores", "up", n)
    BY <1>0, <1>14, <2>0, OpenSemFacts
  <2>2. pc[s] = "semaphores" /\ pc'[s] \in {"semaphores", "up"}
    BY <1>0, <2>0, <2>1 DEF TurnFacts
  <2>3. CASE s \notin good
    <3>1. messy'
      BY <1>0, <2>0, <2>2, <2>3 DEF PhaseInv, Starting
    <3> QED
      BY <3>1, MessyNames
  <2>4. CASE s \in good
    <3>1. /\ shmName = mem[s] /\ mem[s] \in sized
          /\ UNCHANGED <<shmName, mem, sized, prog>>
          /\ \A p \in Workers : \A m \in Uses(prog[p]) :
                (mem[p] = shmName) <=> (sem[p][m] = semName'[m])
          /\ pc'[s] = "semaphores" => \A m \in Done(s)' : sem'[s][m] = semName'[m]
      BY <1>14, <2>4, OpenSemAgrees
    <3>2. pc'[s] = "semaphores"
      BY <1>14, <2>2, <2>4 DEF Joins
    <3>3. Agrees'
      BY <1>14, <3>1 DEF Agrees, Keeps
    <3>4. StartNames(s)'
      BY <3>1, <3>2, <3>3 DEF StartNames
    <3> QED
      BY <2>0, <3>2, <3>4, InPhaseNames DEF Starting
  <2> QED
    BY <2>3, <2>4
<1>15. ASSUME NEW p \in Procs, Unlink(p) PROVE NamesInv'
  <2>1. PICK n \in Names : TurnFacts(p, "unlink", "unlink shm", n)
    BY <1>0, <1>15, UnlinkFacts DEF UnlinkTurn
  <2>2. pc'[p] \in {"unlink", "unlink shm"}
    BY <1>0, <2>1 DEF TurnFacts
  <2>3. StartNames(p)'
    BY <2>2 DEF StartNames, Clearing
  <2> QED
    BY <2>2, <2>3, InPhaseNames DEF Ending
<1>16. ASSUME NEW p \in Procs, UnlinkShm(p) PROVE NamesInv'
  <2>1. pc[p] = "unlink shm" /\ pc' = [pc EXCEPT ![p] = "gone"] /\ shmName' = 0 /\ good' = good
    BY <1>16 DEF UnlinkShm, Goes, ghost
  <2>2. ASSUME NEW t \in good' PROVE pc'[t] \notin Starting
    <3> SUFFICES ASSUME pc'[t] \in Starting PROVE FALSE
      OBVIOUS
    <3>1. t \in good /\ t \in Procs /\ pc[t] \in Starting
      BY <1>0, <2>1 DEF Starting
    <3>2. p = t
      BY <1>0, <2>1, <3>1, Alone DEF Ending
    <3> QED
      BY <2>1, <3>1, <3>2 DEF Starting
  <2>3. \A t \in good' : StartNames(t)'
    BY <2>2 DEF StartNames, Starting, Clearing
  <2> QED
    BY <2>1, <2>3 DEF NamesInv
<1>17. CASE Keeps
  BY <1>1, <1>2, <1>3, <1>4, <1>5, <1>6, <1>7, <1>8, <1>9, <1>10, <1>11, <1>12, <1>13,
     <1>14, <1>15, <1>16, <1>17 DEF Next
<1> QED
  BY <1>0, <1>1, <1>2, <1>17, KeepsCases

-----------------------------------------------------------------------------
(* What the children have noted. *)

\* Only memories that nobody uses are cleared, and a child takes its own note
\* away.
LEMMA NotedStep ==
    ASSUME MainInv, NoneForgotten, [Next]_vars
    PROVE  NoneForgotten'
<1>0. /\ Servers \subseteq Procs /\ Clients \subseteq Procs /\ Servers \cap Clients = {}
      /\ Servers \cap Removers = {}
      /\ pc \in [Procs -> {"idle", "up", "gone"} \cup Starting \cup Ending]
      /\ noted \in [Gens -> SUBSET Clients]
      /\ BaseInv /\ GenInv /\ PhaseInv /\ ClearInv /\ CountInv
  BY IpcAssumption DEF Procs, MainInv, BaseInv
<1>a. \A p \in AtWork : mem[p] \in Gens
  <2> SUFFICES ASSUME NEW p \in AtWork PROVE mem[p] \in Gens
    OBVIOUS
  <2>1. mem[p] \in Nat /\ mem[p] >= 1 /\ mem[p] <= made["shm"]
    BY <1>0 DEF GenInv, AtWork
  <2> QED
    BY <1>0, <2>1, GensEnough
<1>1. ASSUME Keeps, \A c \in Workers' \cap Clients : c \in noted[mem[c]] => c \in noted'[mem[c]]
      PROVE  NoneForgotten'
  BY <1>1 DEF NoneForgotten, Keeps, Workers
<1>2. ASSUME NEW s \in Servers, NEW c \in Clients, Fork(s, c) PROVE NoneForgotten'
  <2>1. /\ Workers' \subseteq Workers \cup {c} /\ c \notin Workers
        /\ \A q \in Workers : mem'[q] = mem[q]
        /\ mem'[c] = mem[s]
    BY <1>0, <1>2, ForkFacts
  <2>2. pc[s] = "up" /\ noted' = [noted EXCEPT ![mem[s]] = @ \cup {c}]
    BY <1>2 DEF Fork
  <2>3. mem[s] \in Gens
    BY <1>0, <1>a, <2>2 DEF AtWork
  <2>4. c \in noted'[mem[s]] /\ \A m \in Gens : noted[m] \subseteq noted'[m]
    BY <1>0, <2>2, <2>3
  <2>5. ASSUME NEW d \in Workers' \cap Clients PROVE d \in noted'[mem'[d]]
    <3>1. CASE d = c
      BY <2>1, <2>4, <3>1
    <3>2. CASE d # c
      <4>1. d \in Workers /\ mem'[d] = mem[d] /\ mem[d] \in Gens
        BY <1>a, <2>1, <2>5, <3>2 DEF Workers
      <4>2. d \in noted[mem[d]]
        BY <2>5, <4>1 DEF NoneForgotten, Workers
      <4> QED
        BY <2>4, <4>1, <4>2
    <3> QED
      BY <3>1, <3>2
  <2> QED
    BY <2>5 DEF NoneForgotten, Workers
<1>3. ASSUME NEW s \in Servers, Joins(s) PROVE NoneForgotten'
  <2>1. OpenSem(s) /\ s \in good
    BY <1>3 DEF Joins
  <2>2. UNCHANGED mem /\ Workers' \subseteq Workers \cup {s}
    BY <2>1, OpenSemAgrees
  <2>3. UNCHANGED noted
    BY <2>1 DEF OpenSem, memory
  <2> QED
    BY <1>0, <2>2, <2>3 DEF NoneForgotten, Workers
<1>4. ASSUME NEW s \in Servers, Zero(s), Keeps PROVE NoneForgotten'
  <2>1. pc[s] = "zero" /\ noted' = [noted EXCEPT ![mem[s]] = {}]
    BY <1>4 DEF Zero, Goes
  <2>2. \A p \in Workers : mem[p] # mem[s] /\ mem[p] \in Gens
    BY <1>0, <1>a, <2>1 DEF ClearInv, Clearing, Workers
  <2>3. \A p \in Workers : noted'[mem[p]] = noted[mem[p]]
    BY <1>0, <2>1, <2>2
  <2> QED
    BY <1>1, <1>4, <2>3 DEF Keeps
<1>5. ASSUME NEW p \in Procs, Leave(p), Keeps PROVE NoneForgotten'
  <2>1. pc' = [pc EXCEPT ![p] = "gone"] /\ noted' = [noted EXCEPT ![mem[p]] = @ \ {p}]
    BY <1>5 DEF Leave, Goes
  <2>2. p \notin Workers'
    BY <1>0, <2>1 DEF Workers, AtWork
  <2>3. \A c \in Workers : mem[c] \in Gens
    BY <1>a DEF Workers
  <2>4. ASSUME NEW c \in Workers' \cap Clients, c \in noted[mem[c]] PROVE c \in noted'[mem[c]]
    <3>1. c # p /\ mem[c] \in Gens
      BY <1>5, <2>2, <2>3, <2>4 DEF Keeps
    <3> QED
      BY <1>0, <2>1, <2>4, <3>1
  <2> QED
    BY <1>1, <1>5, <2>4
<1>6. CASE UNCHANGED noted /\ Keeps
  BY <1>1, <1>6
<1>7. \/ UNCHANGED noted
      \/ \E s \in Servers : Zero(s) \/ \E c \in Clients : Fork(s, c)
      \/ \E p \in Procs : Leave(p)
  BY DEF Next, vars, memory, Start, OpenShm, CreateShm, Truncate, UnlinkStale, OpenSem,
         Quit, Remove, Unlink, UnlinkShm, Interrupt
<1> QED
  BY <1>0, <1>2, <1>3, <1>4, <1>5, <1>6, <1>7, KeepsCases

-----------------------------------------------------------------------------
(* The theorems. *)

LEMMA MainInit == ASSUME Init PROVE MainInv /\ NoneForgotten
<1>1. NoneForgotten
  BY DEF Init, NoneForgotten
<1> QED
  BY <1>1, BaseInit, GenInit, CountInit, PhaseInit, NamesInit, ClearInit DEF MainInv

LEMMA MainStep ==
    ASSUME MainInv /\ NoneForgotten, [Next]_vars
    PROVE  (MainInv /\ NoneForgotten)'
<1>0. BaseInv /\ GenInv /\ CountInv /\ PhaseInv
  BY DEF MainInv
<1>1. BaseInv'
  BY <1>0, BaseStep
<1>2. GenInv'
  BY <1>0, GenStep
<1>3. CountInv'
  BY <1>0, CountStep
<1>4. PhaseInv'
  BY <1>0, <1>1, PhaseStep
<1>5. ShareInv'
  BY ShareStep
<1>6. NamesInv'
  BY <1>1, <1>2, <1>4, NamesStep
<1>7. ClearInv'
  BY ClearStep
<1>8. NoneForgotten'
  BY NotedStep
<1> QED
  BY <1>1, <1>2, <1>3, <1>4, <1>5, <1>6, <1>7, <1>8 DEF MainInv

LEMMA MainAlways == Spec => [](MainInv /\ NoneForgotten)
<1>1. Init => MainInv /\ NoneForgotten
  BY MainInit
<1>2. MainInv /\ NoneForgotten /\ [Next]_vars => (MainInv /\ NoneForgotten)'
  BY MainStep
<1> QED
  BY <1>1, <1>2, PTL DEF Spec

LEMMA UsedNames ==
    ASSUME NEW pg \in {"DU05", "DU05_test"}
    PROVE  \A i \in 1..Len(SemNames(pg)) : SemNames(pg)[i] \in Uses(pg)
<1>1. CASE pg = "DU05"
  <2>1. SemNames(pg) = <<"mutex", "empty", "full">>
    BY <1>1 DEF SemNames
  <2> QED
    BY <1>1, <2>1 DEF Uses
<1>2. CASE pg = "DU05_test"
  <2>1. SemNames(pg) = <<"mutex", "empty", "full", "pause">>
    BY <1>2 DEF SemNames
  <2> QED
    BY <1>2, <2>1 DEF Uses, Names
<1> QED
  BY <1>1, <1>2

\* Over any number of servers, children, quits, -r and crashes: processes that
\* work with one memory work with the same semaphores, and those with
\* different memories share none, when none of them started while another
\* process was starting, ending or removing, or after one was cut short in that.
THEOREM OneMemoryOneLock == Spec => []LockTogether
<1>1. MainInv => LockTogether
  <2> SUFFICES ASSUME MainInv PROVE LockTogether
    OBVIOUS
  <2>1. ShareInv /\ BaseInv
    BY DEF MainInv
  <2>2. ASSUME NEW p \in AtWork \cap good
        PROVE  \A i \in 1..Len(SemNames(prog[p])) : SemNames(prog[p])[i] \in Uses(prog[p])
    <3>1. prog[p] \in {"DU05", "DU05_test"}
      BY <2>1 DEF BaseInv
    <3> QED
      BY <3>1, UsedNames
  <2> QED
    BY <2>1, <2>2 DEF LockTogether, ShareInv, Workers
<1> QED
  BY <1>1, MainAlways, PTL

\* No server that starts clears, and none that ends removes, what a child that
\* is at work has put into the memory it has open.
THEOREM NothingForgotten == Spec => []NoneForgotten
BY MainAlways, PTL

-----------------------------------------------------------------------------
(* What a -r or a quit has removed. *)

\* Nobody opens a name again behind one that removes with a clean record.
RemovedInv ==
    ~messy => \A p \in Procs :
        /\ pc[p] = "unlink" => \A n \in Done(p) : semName[n] = 0
        /\ pc[p] = "unlink shm" => \A n \in Uses(prog[p]) : semName[n] = 0

\* A process that removes has just begun, does a semaphore, or stands still.
LEMMA EndingSteps ==
    ASSUME BaseInv, [Next]_vars, NEW p \in Procs, pc'[p] \in Ending
    PROVE  \/ pc'[p] = "unlink" /\ Done(p)' = {}
           \/ Unlink(p)
           \/ pc'[p] = pc[p] /\ k'[p] = k[p] /\ prog'[p] = prog[p]
<1> DEFINE Still == pc'[p] = pc[p] /\ k'[p] = k[p] /\ prog'[p] = prog[p]
<1>0. /\ pc \in [Procs -> {"idle", "up", "gone"} \cup Starting \cup Ending]
      /\ k \in [Procs -> Nat] /\ prog \in [Procs -> {"DU05", "DU05_test"}]
      /\ Servers \subseteq Procs /\ Clients \subseteq Procs
  BY DEF BaseInv, Procs
<1>1. ASSUME NEW q \in Procs, NEW to \in {"up", "gone"} \cup Starting,
             pc' = [pc EXCEPT ![q] = to],
             \A r \in Procs \ {q} : k'[r] = k[r], UNCHANGED prog
      PROVE  Still
  <2>1. to \notin Ending
    BY DEF Starting, Ending
  <2>2. q # p /\ pc'[p] = pc[p]
    BY <1>0, <1>1, <2>1
  <2> QED
    BY <1>1, <2>2
<1>2. ASSUME NEW s \in Servers,
             Start(s) \/ OpenShm(s) \/ CreateShm(s) \/ Truncate(s) \/ Zero(s)
      PROVE  Still
  <2>1. PICK to \in Starting : pc' = [pc EXCEPT ![s] = to]
    BY <1>2 DEF Start, OpenShm, CreateShm, Truncate, Zero, Goes, Starting
  <2>2. UNCHANGED <<k, prog>>
    BY <1>2 DEF Start, OpenShm, CreateShm, Truncate, Zero
  <2> QED
    BY <1>0, <1>1, <2>1, <2>2
<1>3. ASSUME NEW s \in Servers, UnlinkStale(s) PROVE Still
  <2>1. PICK n \in Names : TurnFacts(s, "stale", "zero", n)
    BY <1>0, <1>3, UnlinkFacts DEF UnlinkTurn
  <2>2. UNCHANGED prog
    BY <1>3 DEF UnlinkStale
  <2>3. \E to \in Starting : pc' = [pc EXCEPT ![s] = to]
    BY <2>1 DEF TurnFacts, Starting
  <2>4. \A r \in Procs \ {s} : k'[r] = k[r]
    BY <1>0, <2>1 DEF TurnFacts
  <2> QED
    BY <1>0, <1>1, <2>2, <2>3, <2>4
<1>4. ASSUME NEW s \in Servers, OpenSem(s) PROVE Still
  <2>1. PICK n \in Names : TurnFacts(s, "semaphores", "up", n)
    BY <1>0, <1>4, OpenSemFacts
  <2>2. UNCHANGED prog
    BY <1>4 DEF OpenSem
  <2>3. \E to \in {"up"} \cup Starting : pc' = [pc EXCEPT ![s] = to]
    BY <2>1 DEF TurnFacts, Starting
  <2>4. \A r \in Procs \ {s} : k'[r] = k[r]
    BY <1>0, <2>1 DEF TurnFacts
  <2> QED
    BY <1>0, <1>1, <2>2, <2>3, <2>4
<1>5. ASSUME NEW s \in Servers, NEW c \in Clients, Fork(s, c) PROVE Still
  <2>1. pc' = [pc EXCEPT ![c] = "up"] /\ UNCHANGED <<k, prog>>
    BY <1>5 DEF Fork, Goes
  <2> QED
    BY <1>0, <1>1, <2>1
<1>6. ASSUME NEW q \in Procs, pc' = [pc EXCEPT ![q] = "unlink"], k'[q] = 0,
             \A r \in Procs \ {q} : k'[r] = k[r] /\ prog'[r] = prog[r]
      PROVE  Still \/ (pc'[p] = "unlink" /\ Done(p)' = {})
  <2>1. CASE p = q
    <3>1. pc'[p] = "unlink" /\ k'[p] = 0
      BY <1>0, <1>6, <2>1
    <3> QED
      BY <3>1, NoneDone DEF Done
  <2>2. CASE p # q
    BY <1>0, <1>6, <2>2
  <2> QED
    BY <2>1, <2>2
<1>7. ASSUME NEW s \in Servers, Quit(s)
      PROVE  Still \/ (pc'[p] = "unlink" /\ Done(p)' = {})
  <2>1. k' = [q \in Procs |-> IF q \in {s} THEN 0 ELSE k[q]] /\ UNCHANGED prog
    BY <1>7 DEF Quit, Closes
  <2>2. \/ pc' = [pc EXCEPT ![s] = "gone"]
        \/ pc' = [pc EXCEPT ![s] = "unlink"]
    BY <1>7 DEF Quit, Goes
  <2> QED
    BY <1>0, <1>1, <1>6, <2>1, <2>2
<1>8. ASSUME NEW q \in Procs, Remove(q)
      PROVE  Still \/ (pc'[p] = "unlink" /\ Done(p)' = {})
  <2>1. /\ pc[q] = "idle" /\ pc' = [pc EXCEPT ![q] = "unlink"] /\ UNCHANGED k
        /\ \E which \in {"DU05", "DU05_test"} : prog' = [prog EXCEPT ![q] = which]
    BY <1>8 DEF Remove, Goes
  <2>2. k[q] = 0
    BY <2>1 DEF BaseInv
  <2> QED
    BY <1>0, <1>6, <2>1, <2>2
<1>9. ASSUME NEW q \in Procs, Leave(q) \/ UnlinkShm(q) PROVE Still
  <2>1. pc' = [pc EXCEPT ![q] = "gone"] /\ UNCHANGED prog
    BY <1>9 DEF Leave, UnlinkShm, Goes
  <2>2. k' = k \/ k' = [r \in Procs |-> IF r \in {q} THEN 0 ELSE k[r]]
    BY <1>9 DEF Leave, UnlinkShm, Closes
  <2> QED
    BY <1>1, <2>1, <2>2
<1>10. ASSUME NEW q \in Procs, Unlink(q), q # p PROVE Still
  <2>1. PICK n \in Names : TurnFacts(q, "unlink", "unlink shm", n)
    BY <1>10, UnlinkFacts DEF UnlinkTurn
  <2>2. UNCHANGED prog
    BY <1>10 DEF Unlink
  <2> QED
    BY <1>0, <1>10, <2>1, <2>2 DEF TurnFacts
<1>11. ASSUME NEW q \in Procs, Interrupt(q) PROVE Still
  <2>1. /\ pc' = [r \in Procs |-> IF boss[r] = q THEN "gone" ELSE pc[r]]
        /\ k' = [r \in Procs |-> IF r \in {x \in Procs : boss[x] = q} THEN 0 ELSE k[r]]
        /\ UNCHANGED prog
    BY <1>11 DEF Interrupt, Closes
  <2>2. boss[p] # q
    BY <2>1 DEF Ending
  <2> QED
    BY <2>1, <2>2
<1>12. CASE UNCHANGED vars
  BY <1>12 DEF vars, process
<1> QED
  BY <1>2, <1>3, <1>4, <1>5, <1>7, <1>8, <1>9, <1>10, <1>11, <1>12 DEF Next

\* Only sem_open() of a server that starts gives a name a meaning.
LEMMA NamesFall ==
    ASSUME BaseInv, GenInv, [Next]_vars, \A s \in Servers : ~OpenSem(s)
    PROVE  \A n \in Names : semName'[n] = 0 \/ semName'[n] = semName[n]
<1>1. CASE \E s \in Servers : \/ OpenShm(s) \/ CreateShm(s)
                              \/ \E c \in Clients : Fork(s, c)
  <2>1. UNCHANGED semName
    BY <1>1 DEF OpenShm, CreateShm, Fork, names
  <2> QED
    BY <2>1
<1>2. CASE ~ \E s \in Servers : \/ OpenShm(s) \/ CreateShm(s)
                                \/ \E c \in Clients : Fork(s, c)
  <2>1. GenQuiet
    BY <1>2, QuietSteps
  <2> QED
    BY <2>1 DEF GenQuiet
<1> QED
  BY <1>1, <1>2

\* A process that was already removing, and still does so with a clean
\* record, did so before.
LEMMA StaysClean ==
    ASSUME BaseInv, PhaseInv, [Next]_vars, NEW p \in Procs, pc[p] \in Ending, ~messy'
    PROVE  ~messy /\ \A q \in Procs : InPhase(q) => q = p
<1>1. InPhase(p)
  BY InPhaseIs
<1>2. CASE Within
  BY <1>1, <1>2 DEF Within, PhaseInv
<1>3. ASSUME NEW q \in Procs, BeginStep(q) PROVE FALSE
  <2>1. pc[q] \in {"idle", "up"} /\ Begins(q)
    BY <1>3 DEF BeginStep
  <2>2. q # p
    BY <2>1 DEF Ending
  <2> QED
    BY <1>1, <2>1, <2>2 DEF Begins
<1>4. ASSUME NEW q \in Procs, Interrupt(q) PROVE ~messy
  <2>1. messy' = (messy \/ InPhase(q))
    BY <1>4 DEF Interrupt
  <2> QED
    BY <2>1
<1> QED
  BY <1>1, <1>2, <1>3, <1>4, PhaseCases DEF PhaseInv

LEMMA RemovedStep ==
    ASSUME BaseInv, GenInv, PhaseInv, RemovedInv, [Next]_vars
    PROVE  RemovedInv'
<1> SUFFICES ASSUME ~messy', NEW p \in Procs, pc'[p] \in Ending
             PROVE  /\ pc'[p] = "unlink" => \A n \in Done(p)' : semName'[n] = 0
                    /\ pc'[p] = "unlink shm" => \A n \in Uses(prog'[p]) : semName'[n] = 0
  BY DEF RemovedInv, Ending
<1>0. /\ semName \in [Names -> Nat]
      /\ pc \in [Procs -> {"idle", "up", "gone"} \cup Starting \cup Ending]
      /\ prog[p] \in {"DU05", "DU05_test"}
      /\ k[p] \in Nat /\ k \in [Procs -> Nat] /\ k[p] < Len(SemNames(prog[p]))
      /\ Servers \subseteq Procs
  BY DEF BaseInv, GenInv, Procs
<1>a. Uses(prog[p]) \subseteq Names /\ Done(p) \subseteq Uses(prog[p])
  BY <1>0, FirstsUsed DEF Done, Uses, Names
<1>1. CASE pc'[p] = "unlink" /\ Done(p)' = {}
  BY <1>1
<1>2. CASE Unlink(p)
  <2>1. PICK n \in Names : /\ TurnFacts(p, "unlink", "unlink shm", n)
                           /\ semName' = [semName EXCEPT ![n] = 0]
    BY <1>2, UnlinkFacts DEF UnlinkTurn
  <2>2. UNCHANGED <<prog, messy>>
    BY <1>2 DEF Unlink, ghost
  <2>3. pc[p] = "unlink"
    BY <2>1 DEF TurnFacts
  <2>4. \A m \in Done(p) \cup {n} : semName'[m] = 0
    BY <1>0, <1>a, <2>1, <2>2, <2>3 DEF RemovedInv
  <2>5. CASE pc' = [pc EXCEPT ![p] = "unlink"] /\ Done(p)' = Done(p) \cup {n}
    BY <1>0, <2>4, <2>5
  <2>6. CASE pc' = [pc EXCEPT ![p] = "unlink shm"] /\ Uses(prog[p]) = Done(p) \cup {n}
    BY <1>0, <2>2, <2>4, <2>6
  <2>7. \/ pc' = [pc EXCEPT ![p] = "unlink"] /\ Done(p)' = Done(p) \cup {n}
        \/ pc' = [pc EXCEPT ![p] = "unlink shm"] /\ Uses(prog[p]) = Done(p) \cup {n}
    <3>1. ASSUME k' = [k EXCEPT ![p] = k[p] + 1],
                 Firsts(prog[p], k[p] + 1) = Done(p) \cup {n}
          PROVE  Done(p)' = Done(p) \cup {n}
      <4>1. Done(p)' = Firsts(prog[p], k[p] + 1)
        BY <1>0, <2>2, <3>1 DEF Done
      <4> QED
        BY <3>1, <4>1
    <3> QED
      BY <2>1, <3>1 DEF TurnFacts
  <2> QED
    BY <2>5, <2>6, <2>7
<1>3. CASE pc'[p] = pc[p] /\ k'[p] = k[p] /\ prog'[p] = prog[p]
  <2>1. ~messy /\ \A q \in Procs : InPhase(q) => q = p
    BY <1>3, StaysClean
  <2>2. ASSUME NEW s \in Servers, OpenSem(s) PROVE FALSE
    <3>1. pc[s] = "semaphores"
      BY <2>2 DEF OpenSem, Turn, Goes
    <3>2. InPhase(s) /\ s # p
      BY <1>3, <3>1 DEF InPhase, Ending
    <3> QED
      BY <1>0, <2>1, <3>2
  <2>3. \A n \in Names : semName'[n] = 0 \/ semName'[n] = semName[n]
    BY <2>2, NamesFall
  <2>4. Done(p)' = Done(p)
    BY <1>3 DEF Done
  <2> QED
    BY <1>3, <1>a, <2>1, <2>3, <2>4 DEF RemovedInv
<1> QED
  BY <1>1, <1>2, <1>3, EndingSteps

\* Behind the last semaphore comes the memory, or an interrupt.
LEMMA GoneBy ==
    ASSUME BaseInv, [Next]_vars, NEW p \in Procs,
           pc[p] = "unlink shm", pc'[p] = "gone", ~messy'
    PROVE  UnlinkShm(p)
<1>0. /\ pc \in [Procs -> {"idle", "up", "gone"} \cup Starting \cup Ending]
      /\ Servers \subseteq Procs /\ Clients \subseteq Procs
  BY DEF BaseInv, Procs
<1>1. ASSUME NEW q \in Procs, NEW from, NEW to, Goes(q, from, to), from # "unlink shm"
      PROVE  FALSE
  BY <1>0, <1>1 DEF Goes
<1>2. ASSUME NEW s \in Servers,
             \/ Start(s) \/ OpenShm(s) \/ CreateShm(s) \/ Truncate(s) \/ Zero(s)
             \/ UnlinkStale(s) \/ OpenSem(s) \/ Quit(s) \/ \E c \in Clients : Fork(s, c)
      PROVE  FALSE
  <2>1. \E q \in Procs :
          \E from \in {"idle", "up"} \cup Starting :
            \E to \in {"up", "gone"} \cup Starting \cup Ending : Goes(q, from, to)
    BY <1>0, <1>2 DEF Start, OpenShm, CreateShm, Truncate, Zero, UnlinkStale, OpenSem, Turn,
       Quit, Fork, Starting, Ending
  <2> QED
    BY <1>1, <2>1 DEF Starting
<1>3. ASSUME NEW q \in Procs, Leave(q) \/ Remove(q) \/ Unlink(q) PROVE FALSE
  <2>1. \E from \in {"idle", "up", "unlink"} :
          \E to \in {"gone"} \cup Ending : Goes(q, from, to)
    BY <1>3 DEF Leave, Remove, Unlink, Turn, Ending
  <2> QED
    BY <1>1, <2>1
<1>4. ASSUME NEW q \in Procs, UnlinkShm(q) PROVE UnlinkShm(p)
  <2>1. q = p
    BY <1>0, <1>4 DEF UnlinkShm, Goes
  <2> QED
    BY <1>4, <2>1
<1>5. ASSUME NEW q \in Procs, Interrupt(q) PROVE FALSE
  <2>1. /\ pc' = [r \in Procs |-> IF boss[r] = q THEN "gone" ELSE pc[r]]
        /\ messy' = (messy \/ InPhase(q))
    BY <1>5 DEF Interrupt
  <2>2. boss[p] = q
    BY <2>1
  <2>3. p \in Servers \cup Removers
    BY DEF BaseInv, Procs
  <2>4. q = p
    BY <2>2, <2>3 DEF BaseInv
  <2> QED
    BY <2>1, <2>4 DEF InPhase
<1>6. CASE UNCHANGED vars
  BY <1>6 DEF vars, process
<1> QED
  BY <1>2, <1>3, <1>4, <1>5, <1>6 DEF Next

\* A -r or a quit that nobody overlaps, with any number of servers and
\* children at work: the memory and the semaphores of its program have no
\* name when it ends, in whatever order the others went on.
THEOREM RemovesAllAlways == Spec => RemovesAll
<1>1. Init => MainInv /\ NoneForgotten /\ RemovedInv
  <2>1. Init => RemovedInv
    BY DEF Init, RemovedInv
  <2> QED
    BY <2>1, MainInit
<1>2. MainInv /\ NoneForgotten /\ RemovedInv /\ [Next]_vars
        => (MainInv /\ NoneForgotten /\ RemovedInv)'
  BY MainStep, RemovedStep DEF MainInv
<1>3. MainInv /\ RemovedInv /\ [Next]_vars =>
        [\A p \in Procs :
            pc[p] = "unlink shm" /\ pc'[p] = "gone" /\ ~messy' =>
                /\ shmName' = 0
                /\ \A i \in 1..Len(SemNames(prog[p])) : semName'[SemNames(prog[p])[i]] = 0]_vars
  <2> SUFFICES ASSUME MainInv, RemovedInv, [Next]_vars, NEW p \in Procs,
                      pc[p] = "unlink shm", pc'[p] = "gone", ~messy'
               PROVE  /\ shmName' = 0
                      /\ \A n \in Uses(prog[p]) : semName'[n] = 0
    <3>1. ASSUME MainInv, NEW p \in Procs, NEW i \in 1..Len(SemNames(prog[p]))
          PROVE  SemNames(prog[p])[i] \in Uses(prog[p])
      <4>1. prog[p] \in {"DU05", "DU05_test"}
        BY <3>1 DEF MainInv, BaseInv
      <4> QED
        BY <3>1, <4>1, UsedNames
    <3> QED
      BY <3>1
  <2>0. BaseInv /\ GenInv /\ PhaseInv
    BY DEF MainInv
  <2>1. UnlinkShm(p)
    BY <2>0, GoneBy
  <2>2. shmName' = 0 /\ UNCHANGED <<semName, messy>>
    BY <2>1 DEF UnlinkShm, ghost
  <2> QED
    BY <2>2 DEF RemovedInv
<1> QED
  BY <1>1, <1>2, <1>3, PTL DEF Spec, RemovesAll

-----------------------------------------------------------------------------
(* Types: a server makes one semaphore of each name at most, too. *)

Opened(n) ==
    {s \in Servers : /\ pc[s] \notin {"idle", "open", "create"} \cup Clearing
                     /\ pc[s] = "semaphores" => n \in Done(s)}

BoundsInv ==
    /\ \A n \in Names : made[n] <= Cardinality(Opened(n))
    /\ sized \subseteq Gens
    /\ mishaps \in 0..MaxMishaps

LEMMA OpenedFinite ==
    ASSUME NEW n \in Names
    PROVE  /\ IsFiniteSet(Opened(n)) /\ IsFiniteSet(Opened(n)')
           /\ Cardinality(Opened(n)) \in Nat /\ Cardinality(Opened(n)') \in Nat
           /\ Cardinality(Opened(n)) <= Cardinality(Servers)
<1>1. IsFiniteSet(Servers)
  BY IpcAssumption
<1>2. Opened(n) \subseteq Servers /\ Opened(n)' \subseteq Servers
  BY DEF Opened
<1>3. /\ IsFiniteSet(Opened(n)) /\ IsFiniteSet(Opened(n)')
      /\ Cardinality(Opened(n)) <= Cardinality(Servers)
  BY <1>1, <1>2, FS_Subset
<1> QED
  BY <1>3, FS_CardinalityType

LEMMA BoundsInit == ASSUME Init PROVE BoundsInv
<1>1. /\ \A n \in Names : made[n] = 0
      /\ sized = {} /\ mishaps = 0 /\ MaxMishaps \in Nat
  BY IpcAssumption DEF Init
<1>2. \A n \in Names : made[n] <= Cardinality(Opened(n))
  BY <1>1, OpenedFinite
<1> QED
  BY <1>1, <1>2 DEF BoundsInv

\* A server that makes a semaphore has not opened that name before.
LEMMA MadeStep ==
    ASSUME BaseInv, GenInv, BoundsInv, [Next]_vars
    PROVE  \A n \in Names : made'[n] <= Cardinality(Opened(n)')
<1>0. /\ Servers \subseteq Procs /\ Clients \subseteq Procs /\ Servers \cap Clients = {}
      /\ pc \in [Procs -> {"idle", "up", "gone"} \cup Starting \cup Ending]
      /\ k \in [Procs -> Nat] /\ "shm" \notin Names
      /\ made \in [Names \cup {"shm"} -> Nat]
  BY IpcAssumption DEF Procs, BaseInv, GenInv, Names
<1>1. ASSUME NEW n \in Names, Opened(n) \subseteq Opened(n)', made'[n] = made[n]
      PROVE  made'[n] <= Cardinality(Opened(n)')
  <2>1. Cardinality(Opened(n)) <= Cardinality(Opened(n)')
    BY <1>1, OpenedFinite, FS_Subset
  <2>2. made[n] \in Nat /\ made[n] <= Cardinality(Opened(n))
    BY <1>0 DEF BoundsInv
  <2>3. Cardinality(Opened(n)) \in Nat /\ Cardinality(Opened(n)') \in Nat
    BY OpenedFinite
  <2> QED
    BY <1>1, <2>1, <2>2, <2>3
<1>2. ASSUME NEW s \in Servers, NEW n \in Names, pc[s] \in {"open", "create"},
             made'[n] = made[n],
             \A q \in Servers : q = s \/ (pc'[q] = pc[q] /\ Done(q)' = Done(q))
      PROVE  made'[n] <= Cardinality(Opened(n)')
  <2>1. Opened(n) \subseteq Opened(n)'
    BY <1>2 DEF Opened
  <2> QED
    BY <1>1, <1>2, <2>1
<1>3. ASSUME NEW s \in Servers, OpenShm(s), NEW n \in Names PROVE made'[n] <= Cardinality(Opened(n)')
  <2>1. /\ pc[s] = "open" /\ UNCHANGED <<k, prog, made>>
        /\ pc' = [pc EXCEPT ![s] = IF shmName # 0 THEN "semaphores" ELSE "create"]
    BY <1>3 DEF OpenShm, Goes, names
  <2>2. \A q \in Servers : q = s \/ (pc'[q] = pc[q] /\ Done(q)' = Done(q))
    BY <1>0, <2>1 DEF Done
  <2> QED
    BY <1>2, <2>1, <2>2
<1>4. ASSUME NEW s \in Servers, CreateShm(s), NEW n \in Names PROVE made'[n] <= Cardinality(Opened(n)')
  <2>1. /\ pc[s] = "create" /\ UNCHANGED <<k, prog>> /\ made'[n] = made[n]
        /\ pc' = [pc EXCEPT ![s] = "truncate"]
    BY <1>0, <1>4 DEF CreateShm, Goes, names
  <2>2. \A q \in Servers : q = s \/ (pc'[q] = pc[q] /\ Done(q)' = Done(q))
    BY <1>0, <2>1 DEF Done
  <2> QED
    BY <1>2, <2>1, <2>2
<1>5. ASSUME NEW s \in Servers, NEW c \in Clients, Fork(s, c), NEW n \in Names
      PROVE  made'[n] <= Cardinality(Opened(n)')
  <2>1. pc' = [pc EXCEPT ![c] = "up"] /\ UNCHANGED <<k, prog, made>>
    BY <1>5 DEF Fork, Goes, names
  <2>2. \A q \in Servers : pc'[q] = pc[q] /\ Done(q)' = Done(q)
    BY <1>0, <2>1 DEF Done
  <2>3. Opened(n) \subseteq Opened(n)'
    BY <2>2 DEF Opened
  <2> QED
    BY <1>1, <2>1, <2>3
<1>6. ASSUME NEW s \in Servers, OpenSem(s), NEW n \in Names PROVE made'[n] <= Cardinality(Opened(n)')
  <2>0. s \in Procs /\ UNCHANGED prog
    BY <1>0, <1>6 DEF OpenSem
  <2>1. PICK m \in Names : /\ TurnFacts(s, "semaphores", "up", m)
                           /\ made' = made \/ made' = [made EXCEPT ![m] = made[m] + 1]
    BY <1>6, <2>0, OpenSemFacts
  <2>2. TurnFacts(s, "semaphores", "up", m)
    BY <2>1
  <2>3. /\ \A q \in Procs : q = s \/ (pc'[q] = pc[q] /\ k'[q] = k[q])
        /\ pc[s] = "semaphores" /\ pc'[s] \in {"semaphores", "up"}
        /\ m \notin Done(s)
    BY <1>0, <2>0, <2>2 DEF TurnFacts
  <2>4. pc'[s] = "semaphores" => Done(s)' = Done(s) \cup {m}
    <3>1. CASE /\ k' = [k EXCEPT ![s] = k[s] + 1]
               /\ Firsts(prog[s], k[s] + 1) = Done(s) \cup {m}
      BY <1>0, <2>0, <3>1 DEF Done
    <3>2. CASE pc' = [pc EXCEPT ![s] = "up"]
      BY <1>0, <2>0, <3>2
    <3> QED
      BY <2>2, <3>1, <3>2 DEF TurnFacts
  <2>5. \A q \in Servers : q = s \/ (pc'[q] = pc[q] /\ Done(q)' = Done(q))
    BY <1>0, <2>0, <2>3 DEF Done
  <2>6. Opened(n) \subseteq Opened(n)'
    BY <2>3, <2>4, <2>5 DEF Opened, Clearing
  <2>7. CASE n # m
    <3>1. made'[n] = made[n]
      BY <1>0, <2>1, <2>7
    <3> QED
      BY <1>1, <2>6, <3>1
  <2>8. CASE n = m
    <3>1. s \notin Opened(n) /\ s \in Opened(n)'
      BY <2>3, <2>4, <2>8 DEF Opened, Clearing
    <3>2. Opened(n) \cup {s} \subseteq Opened(n)'
      BY <2>6, <3>1
    <3>3. Cardinality(Opened(n) \cup {s}) = Cardinality(Opened(n)) + 1
      BY <3>1, OpenedFinite, FS_AddElement
    <3>4. Cardinality(Opened(n) \cup {s}) <= Cardinality(Opened(n)')
      BY <3>2, OpenedFinite, FS_Subset
    <3>5. made[n] \in Nat /\ made[n] <= Cardinality(Opened(n)) /\ made'[n] <= made[n] + 1
          /\ made'[n] \in Nat
      BY <1>0, <2>1, <2>8 DEF BoundsInv
    <3>6. Cardinality(Opened(n)) \in Nat /\ Cardinality(Opened(n)') \in Nat
      BY OpenedFinite
    <3> QED
      BY <3>3, <3>4, <3>5, <3>6
  <2> QED
    BY <2>7, <2>8
<1>7. ASSUME GenQuiet, NEW n \in Names PROVE made'[n] <= Cardinality(Opened(n)')
  <2>1. Opened(n) \subseteq Opened(n)'
    BY <1>0, <1>7 DEF Opened, GenQuiet, Clearing, Ending
  <2> QED
    BY <1>1, <1>7, <2>1 DEF GenQuiet
<1> QED
  BY <1>3, <1>4, <1>5, <1>6, <1>7, QuietSteps

LEMMA BoundsStep ==
    ASSUME BaseInv, GenInv, CountInv, BoundsInv, [Next]_vars
    PROVE  BoundsInv'
<1>1. \A n \in Names : made'[n] <= Cardinality(Opened(n)')
  BY MadeStep
<1>2. sized' \subseteq Gens
  <2>1. ASSUME NEW s \in Servers, Truncate(s) PROVE sized' \subseteq Gens
    <3>1. pc[s] = "truncate" /\ sized' = sized \cup {mem[s]} /\ s \in Procs
      BY <2>1 DEF Truncate, Goes, Procs
    <3>2. mem[s] \in Nat /\ mem[s] >= 1 /\ mem[s] <= made["shm"]
      BY <3>1 DEF GenInv, Clearing
    <3>3. mem[s] \in Gens
      BY <3>2, GensEnough
    <3> QED
      BY <3>1, <3>3 DEF BoundsInv
  <2>2. sized' = sized \/ \E s \in Servers : Truncate(s)
    BY DEF Next, vars, memory, Start, OpenShm, CreateShm, UnlinkStale, Zero, OpenSem,
           Quit, Fork, Leave, Remove, Unlink, UnlinkShm, Interrupt
  <2> QED
    BY <2>1, <2>2 DEF BoundsInv
<1>3. mishaps' \in 0..MaxMishaps
  <2>0. MaxMishaps \in Nat /\ mishaps \in 0..MaxMishaps
    BY IpcAssumption DEF BoundsInv
  <2>1. ASSUME NEW p \in Procs, Begins(p) PROVE mishaps' \in 0..MaxMishaps
    BY <2>0, <2>1 DEF Begins
  <2>2. ASSUME NEW p \in Procs, Interrupt(p) PROVE mishaps' \in 0..MaxMishaps
    BY <2>0, <2>2 DEF Interrupt
  <2>3. \/ mishaps' = mishaps \/ \E p \in Procs : Begins(p)
        \/ \E p \in Procs : Interrupt(p)
    BY DEF Next, vars, ghost, Procs, Start, OpenShm, CreateShm, Truncate, UnlinkStale, Zero,
           OpenSem, Quit, Fork, Leave, Remove, Unlink, UnlinkShm
  <2> QED
    BY <2>0, <2>1, <2>2, <2>3
<1> QED
  BY <1>1, <1>2, <1>3 DEF BoundsInv

LEMMA FourAtMost == ASSUME NEW pg, NEW j \in Nat, j < Len(SemNames(pg)) PROVE j \in 0..3
<1>1. CASE pg = "DU05"
  <2>1. SemNames(pg) = <<"mutex", "empty", "full">>
    BY <1>1 DEF SemNames
  <2> QED
    BY <2>1
<1>2. CASE pg # "DU05"
  <2>1. SemNames(pg) = <<"mutex", "empty", "full", "pause">>
    BY <1>2 DEF SemNames
  <2> QED
    BY <2>1
<1> QED
  BY <1>1, <1>2

\* Types.
THEOREM TypeCorrect == Spec => []TypeOK
<1>1. Init => MainInv /\ NoneForgotten /\ BoundsInv
  BY MainInit, BoundsInit
<1>2. MainInv /\ NoneForgotten /\ BoundsInv /\ [Next]_vars => (MainInv /\ NoneForgotten /\ BoundsInv)'
  <2> SUFFICES ASSUME MainInv, NoneForgotten, BoundsInv, [Next]_vars
               PROVE  (MainInv /\ NoneForgotten)' /\ BoundsInv'
    OBVIOUS
  <2>1. BaseInv /\ GenInv /\ CountInv
    BY DEF MainInv
  <2> QED
    BY <2>1, MainStep, BoundsStep
<1>3. MainInv /\ BoundsInv => TypeOK
  <2> SUFFICES ASSUME MainInv, BoundsInv PROVE TypeOK
    OBVIOUS
  <2>0. BaseInv /\ GenInv /\ CountInv
    BY DEF MainInv
  <2> DEFINE N == Cardinality(Servers)
  <2>1. N \in Nat /\ Gens \cup {0} = 0..N
    <3>1. N \in Nat
      BY PastFinite, FS_CardinalityType
    <3> QED
      BY <3>1 DEF Gens
  <2>2. made["shm"] \in Nat /\ made["shm"] <= N
    <3>1. made["shm"] \in Nat /\ made["shm"] <= Cardinality(Past)
      BY <2>0 DEF GenInv, CountInv, Past
    <3> QED
      BY <2>1, <3>1, PastFinite
  <2>3. ASSUME NEW n \in Names PROVE made[n] \in Nat /\ made[n] <= N
    <3>1. made[n] \in Nat /\ made[n] <= Cardinality(Opened(n))
      BY <2>0 DEF GenInv, BoundsInv
    <3>2. Cardinality(Opened(n)) \in Nat /\ Cardinality(Opened(n)) <= N
      BY OpenedFinite
    <3> QED
      BY <2>1, <3>1, <3>2
  <2> HIDE DEF N
  <2>4. made \in [Names \cup {"shm"} -> Gens \cup {0}]
    <3>1. \A n \in Names \cup {"shm"} : made[n] \in 0..N
      BY <2>1, <2>2, <2>3
    <3> QED
      BY <2>0, <2>1, <3>1 DEF GenInv
  <2>5. mem \in [Procs -> Gens \cup {0}] /\ shmName \in Gens \cup {0}
    <3>1. ASSUME NEW p \in Procs PROVE mem[p] \in 0..N
      <4>1. mem[p] \in Nat /\ mem[p] <= made["shm"]
        BY <2>0 DEF GenInv
      <4> QED
        BY <2>1, <2>2, <4>1
    <3>2. shmName \in 0..N
      <4>1. shmName \in Nat /\ shmName <= made["shm"]
        BY <2>0 DEF GenInv
      <4> QED
        BY <2>1, <2>2, <4>1
    <3> QED
      BY <2>0, <2>1, <3>1, <3>2 DEF GenInv
  <2>6. semName \in [Names -> Gens \cup {0}]
    <3>1. ASSUME NEW n \in Names PROVE semName[n] \in 0..N
      <4>1. semName[n] \in Nat /\ semName[n] <= made[n]
        BY <2>0 DEF GenInv
      <4> QED
        BY <2>1, <2>3, <4>1
    <3> QED
      BY <2>0, <2>1, <3>1 DEF GenInv
  <2>7. sem \in [Procs -> [Names -> Gens \cup {0}]]
    <3>1. ASSUME NEW p \in Procs PROVE sem[p] \in [Names -> Gens \cup {0}]
      <4>1. ASSUME NEW n \in Names PROVE sem[p][n] \in 0..N
        <5>1. sem[p][n] \in Nat /\ sem[p][n] <= made[n]
          BY <2>0 DEF GenInv
        <5> QED
          BY <2>1, <2>3, <5>1
      <4>2. sem[p] \in [Names -> Nat]
        BY <2>0 DEF GenInv
      <4> QED
        BY <2>1, <4>1, <4>2
    <3>2. sem \in [Procs -> [Names -> Nat]]
      BY <2>0 DEF GenInv
    <3> QED
      BY <3>1, <3>2
  <2>8. k \in [Procs -> 0..3]
    <3>1. ASSUME NEW p \in Procs PROVE k[p] \in 0..3
      <4>1. k[p] \in Nat /\ k[p] < Len(SemNames(prog[p]))
        BY <2>0 DEF BaseInv
      <4> QED
        BY <4>1, FourAtMost
    <3> QED
      BY <2>0, <3>1 DEF BaseInv
  <2> QED
    BY <2>0, <2>4, <2>5, <2>6, <2>7, <2>8 DEF TypeOK, BaseInv, BoundsInv
<1> QED
  BY <1>1, <1>2, <1>3, PTL DEF Spec
=============================================================================
