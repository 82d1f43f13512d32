----------------------------- MODULE IpcLifecycle -----------------------------
(***************************************************************************)
(* The named shared memory and semaphores of DU/DU05 and DU/DU05_test:     *)
(* servers create or open them, child processes inherit them and outlive   *)
(* their server, "quit" of DU05_test and the option -r unlink the names,   *)
(* and an unlinked object lives on for those that have it open.            *)
(*                                                                         *)
(* DU05 and DU05_test use the same names; a behaviour has servers of one   *)
(* of them, and -r of either.  What the children do with the objects is    *)
(* the subject of PcServer.  Left out: the message queue (one object).     *)
(***************************************************************************)
EXTENDS Integers, FiniteSets, Sequences, TLC

CONSTANTS
    Servers,   \* processes that are started as a server once
    Removers,  \* processes that are started with -r once
    Clients,   \* connections, each handled by one child
    Programs,  \* which of "DU05" and "DU05_test" the servers may be
    MaxMishaps \* bound: interrupts, and phases begun during another

ASSUME IpcAssumption ==
    /\ IsFiniteSet(Servers) /\ IsFiniteSet(Removers) /\ IsFiniteSet(Clients)
    /\ Servers \cap Removers = {}
    /\ (Servers \cup Removers) \cap Clients = {}
    /\ Programs \subseteq {"DU05", "DU05_test"}
    /\ MaxMishaps \in Nat

Procs == Servers \cup Removers \cup Clients
Gens == 1..Cardinality(Servers)

\* The names a program knows, in the order in which it opens or unlinks them.
SemNames(prog) == IF prog = "DU05" THEN <<"mutex", "empty", "full">>
                  ELSE <<"mutex", "empty", "full", "pause">>
Names == {"mutex", "empty", "full", "pause"}

VARIABLES
    prog,     \* the program of a process
    pc,       \* where it is
    k,        \* how many semaphores its current loop has done
    mem,      \* the memory it has open (they are numbered), 0 for none
    sem,      \* the semaphores it has open, by name
    boss,     \* the server that forked it; itself for the others
    shmName,  \* the memory that the name means, 0 when it is unlinked
    semName,  \* the same for the names of the semaphores
    made,     \* how many there have been, by name; "shm" for the memory
    sized,    \* the memories that ftruncate() has sized
    noted,    \* the children recorded in a memory
    mishaps,
    messy,    \* ghost: since the last -r, two phases overlapped or one was cut
    good      \* ghost: processes whose start no such thing touched

process == <<prog, pc, k, mem, sem, boss>>
names == <<shmName, semName, made>>
memory == <<sized, noted>>
ghost == <<mishaps, messy, good>>
vars == <<process, names, memory, ghost>>

\* In the middle of starting, of ending or of -r.
InPhase(p) == pc[p] \notin {"idle", "up", "gone"}

Nowhere == [n \in Names |-> 0]

Init ==
    /\ \E s \in Programs : prog = [p \in Procs |-> s]
    /\ pc = [p \in Procs |-> "idle"]
    /\ k = [p \in Procs |-> 0]
    /\ mem = [p \in Procs |-> 0]
    /\ sem = [p \in Procs |-> Nowhere]
    /\ boss = [p \in Procs |-> p]
    /\ shmName = 0 /\ semName = Nowhere
    /\ made = [n \in Names \cup {"shm"} |-> 0]
    /\ sized = {} /\ noted = [m \in Gens |-> {}]
    /\ mishaps = 0 /\ messy = FALSE /\ good = {}

\* What a process has open is closed at its end.
Closes(ps) ==
    /\ k' = [p \in Procs |-> IF p \in ps THEN 0 ELSE k[p]]
    /\ mem' = [p \in Procs |-> IF p \in ps THEN 0 ELSE mem[p]]
    /\ sem' = [p \in Procs |-> IF p \in ps THEN Nowhere ELSE sem[p]]

Goes(p, from, to) == pc[p] = from /\ pc' = [pc EXCEPT ![p] = to]

\* One turn of a loop over the semaphores, in the state "from", to "to" after
\* the last; "Step" does the work for the name.
Turn(p, from, to, Step(_)) ==
    LET last == k[p] + 1 = Len(SemNames(prog[p])) IN
    /\ Goes(p, from, IF last THEN to ELSE from)
    /\ k' = [k EXCEPT ![p] = IF last THEN 0 ELSE @ + 1]
    /\ Step(SemNames(prog[p])[k[p] + 1])

UnlinkSem(n) == semName' = [semName EXCEPT ![n] = 0]

\* The ghosts when a phase of p begins.
Begins(p) ==
    LET others == {q \in Procs \ {p} : InPhase(q)} IN
    /\ messy' = (others # {} \/ (messy /\ p \notin Removers))
    /\ good' = (good \ others) \cup (IF p \in Servers /\ pc[p] = "idle" /\ ~messy'
                                     THEN {p} ELSE {})
    /\ mishaps' = mishaps + (IF others = {} THEN 0 ELSE 1)
    /\ mishaps' <= MaxMishaps

-----------------------------------------------------------------------------
(* init_shm() and init_queue() of a server *)

Start(s) ==
    /\ Goes(s, "idle", "open")
    /\ Begins(s)
    /\ UNCHANGED <<prog, k, mem, sem, boss, names, memory>>

\* Mutant: "first" is not looked at.
OpenShmFirst(s) ==
    /\ Goes(s, "open", IF shmName # 0 THEN "stale" ELSE "create")
    /\ mem' = [mem EXCEPT ![s] = shmName]
    /\ UNCHANGED <<prog, k, sem, boss, names, memory, ghost>>

\* shm_open() without O_CREAT: an existing memory is taken as it is.
OpenShm(s) ==
    /\ Goes(s, "open", IF shmName # 0 THEN "semaphores" ELSE "create")
    /\ mem' = [mem EXCEPT ![s] = shmName]
    /\ UNCHANGED <<prog, k, sem, boss, names, memory, ghost>>

\* shm_open( O_CREAT ), which another server's may have preceded.
CreateShm(s) ==
    /\ Goes(s, "create", "truncate")
    /\ IF shmName # 0
       THEN /\ mem' = [mem EXCEPT ![s] = shmName]
            /\ UNCHANGED names
       ELSE /\ made' = [made EXCEPT !["shm"] = @ + 1]
            /\ shmName' = made'["shm"]
            /\ mem' = [mem EXCEPT ![s] = shmName']
            /\ UNCHANGED semName
    /\ UNCHANGED <<prog, k, sem, boss, memory, ghost>>

Truncate(s) ==
    /\ Goes(s, "truncate", "stale")
    /\ sized' = sized \cup {mem[s]}
    /\ UNCHANGED <<prog, k, mem, sem, boss, names, noted, ghost>>

\* The first process unlinks the semaphores that an earlier memory left,
UnlinkStale(s) ==
    /\ Turn(s, "stale", "zero", UnlinkSem)
    /\ UNCHANGED <<prog, mem, sem, boss, shmName, made, memory, ghost>>

\* and clears the memory.
Zero(s) ==
    /\ Goes(s, "zero", "semaphores")
    /\ noted' = [noted EXCEPT ![mem[s]] = {}]
    /\ UNCHANGED <<prog, k, mem, sem, boss, names, sized, ghost>>

\* sem_open( O_CREAT ) of each semaphore.
OpenSem(s) ==
    /\ Turn(s, "semaphores", "up", LAMBDA n :
            IF semName[n] # 0
            THEN /\ sem' = [sem EXCEPT ![s][n] = semName[n]]
                 /\ UNCHANGED <<semName, made>>
            ELSE /\ made' = [made EXCEPT ![n] = @ + 1]
                 /\ semName' = [semName EXCEPT ![n] = made'[n]]
                 /\ sem' = [sem EXCEPT ![s][n] = made'[n]])
    /\ UNCHANGED <<prog, mem, boss, shmName, memory, ghost>>

-----------------------------------------------------------------------------
(* A child process *)

\* accept() and fork(); handle_client() notes its client in the memory.
Fork(s, c) ==
    /\ pc[s] = "up"
    /\ Goes(c, "idle", "up")
    /\ boss' = [boss EXCEPT ![c] = s]
    /\ mem' = [mem EXCEPT ![c] = mem[s]]
    /\ sem' = [sem EXCEPT ![c] = sem[s]]
    /\ noted' = [noted EXCEPT ![mem[s]] = @ \cup {c}]
    /\ good' = IF s \in good THEN good \cup {c} ELSE good
    /\ UNCHANGED <<prog, k, names, sized, mishaps, messy>>

\* The client leaves; the child closes what it inherited.
Leave(c) ==
    /\ c \in Clients
    /\ Goes(c, "up", "gone")
    /\ noted' = [noted EXCEPT ![mem[c]] = @ \ {c}]
    /\ Closes({c})
    /\ UNCHANGED <<prog, boss, names, sized, ghost>>

-----------------------------------------------------------------------------
(* "quit", -r and Ctrl-C *)

\* DU05 just exits; DU05_test calls cleanup_ipc(), which begins with
\* sem_close().  The children of both go on.
Quit(s) ==
    /\ s \in Servers
    /\ IF prog[s] = "DU05"
       THEN Goes(s, "up", "gone") /\ UNCHANGED ghost
       ELSE Goes(s, "up", "unlink") /\ Begins(s)
    /\ Closes({s})
    /\ UNCHANGED <<prog, boss, names, memory>>

Remove(r) ==
    /\ r \in Removers
    /\ Goes(r, "idle", "unlink")
    /\ Begins(r)
    /\ \E which \in {"DU05", "DU05_test"} : prog' = [prog EXCEPT ![r] = which]
    /\ UNCHANGED <<k, mem, sem, boss, names, memory>>

\* Mutant: the semaphore for the pause, which DU05 does not have, is left out.
UnlinkThree(p) ==
    /\ Turn(p, "unlink", "unlink shm",
            LAMBDA n : semName' = [semName EXCEPT ![n] = IF n = "pause" THEN @ ELSE 0])
    /\ UNCHANGED <<prog, mem, sem, boss, shmName, made, memory, ghost>>

\* The same calls in cleanup_ipc() and under -r: the semaphores,
Unlink(p) ==
    /\ Turn(p, "unlink", "unlink shm", UnlinkSem)
    /\ UNCHANGED <<prog, mem, sem, boss, shmName, made, memory, ghost>>

\* Mutant: the memory is closed only.
UnlinkShmNot(p) ==
    /\ Goes(p, "unlink shm", "gone")
    /\ UNCHANGED <<prog, k, mem, sem, boss, names, memory, ghost>>

\* then the memory.
UnlinkShm(p) ==
    /\ Goes(p, "unlink shm", "gone")
    /\ shmName' = 0
    /\ UNCHANGED <<prog, k, mem, sem, boss, semName, made, memory, ghost>>

\* SIGINT from the terminal ends a server and its children, or -r, anywhere.
\* The names stay, and so does what is noted in the memory.
Interrupt(p) ==
    /\ p \notin Clients /\ pc[p] \notin {"idle", "gone"}
    /\ mishaps < MaxMishaps /\ mishaps' = mishaps + 1
    /\ pc' = [q \in Procs |-> IF boss[q] = p THEN "gone" ELSE pc[q]]
    /\ Closes({q \in Procs : boss[q] = p})
    /\ messy' = (messy \/ InPhase(p))
    /\ UNCHANGED <<prog, boss, names, memory, good>>

-----------------------------------------------------------------------------

Next ==
    \/ \E s \in Servers :
        \/ Start(s) \/ OpenShm(s) \/ CreateShm(s) \/ Truncate(s)
        \/ UnlinkStale(s) \/ Zero(s) \/ OpenSem(s) \/ Quit(s)
        \/ \E c \in Clients : Fork(s, c)
    \/ \E p \in Procs :
        Leave(p) \/ Remove(p) \/ Unlink(p) \/ UnlinkShm(p) \/ Interrupt(p)

Spec == Init /\ [][Next]_vars

\* The processes of a kind are alike (for TLC).
Symmetry == Permutations(Servers) \cup Permutations(Clients)

-----------------------------------------------------------------------------
(* Properties. *)

TypeOK ==
    /\ prog \in [Procs -> {"DU05", "DU05_test"}]
    /\ k \in [Procs -> 0..3]
    /\ mem \in [Procs -> Gens \cup {0}]
    /\ sem \in [Procs -> [Names -> Gens \cup {0}]]
    /\ boss \in [Procs -> Procs]
    /\ shmName \in Gens \cup {0} /\ semName \in [Names -> Gens \cup {0}]
    /\ made \in [Names \cup {"shm"} -> Gens \cup {0}]
    /\ sized \subseteq Gens /\ noted \in [Gens -> SUBSET Clients]
    /\ mishaps \in 0..MaxMishaps /\ messy \in BOOLEAN /\ good \subseteq Procs

AtWork == {p \in Procs \ Removers : pc[p] = "up"}

\* Processes that use one memory use the same semaphores with it, and those
\* that use different memories share none: over quits with children left
\* behind, crashes and -r of either program.  Excepted are the processes that
\* start while another process starts, quits or removes, or after one was cut
\* short in that and before -r.  Nobody uses a memory without its size.
LockTogether ==
    \A p \in AtWork \cap good :
        /\ mem[p] \in sized
        /\ \A q \in AtWork \cap good, i \in 1..Len(SemNames(prog[p])) :
            LET n == SemNames(prog[p])[i] IN
            (mem[p] = mem[q]) <=> (sem[p][n] = sem[q][n])

\* What a child has put into the memory is there as long as it works with it:
\* no server that starts later clears it.
NoneForgotten == \A c \in AtWork \cap good \cap Clients : c \in noted[mem[c]]

\* A -r, or a quit that removes, which no other start or removal overlaps
\* leaves none of its names, also when servers and children go on: whoever
\* starts next makes everything anew.
RemovesAll ==
    [][\A p \in Procs :
        pc[p] = "unlink shm" /\ pc'[p] = "gone" /\ ~messy' =>
            /\ shmName' = 0
            /\ \A i \in 1..Len(SemNames(prog[p])) : semName'[SemNames(prog[p])[i]] = 0]_vars

\* LockTogether and NoneForgotten for everybody, which do not hold.
LockTogetherAlways ==
    \A p, q \in AtWork : \A n \in {"mutex", "empty", "full"} :
        (mem[p] = mem[q]) <=> (sem[p][n] = sem[q][n])
NoneForgottenAlways == \A c \in AtWork \cap Clients : c \in noted[mem[c]]

\* All servers that run share one buffer, which does not hold either.
OneBuffer == \A p, q \in AtWork : mem[p] = mem[q]
=============================================================================
