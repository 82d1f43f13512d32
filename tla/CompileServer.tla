--------------------------- MODULE CompileServer ---------------------------
(***************************************************************************)
(* The servers cv_skuska/animal_done, animal2 and animal3: each client has *)
(* a child process that compiles animal.cpp into the file "animal" and     *)
(* sends that file, under a named semaphore that outlives the server.      *)
(*                                                                         *)
(* The compiler is not part of the repository: as its linker does, it      *)
(* removes the output file, makes a new one and fills it; when it fails    *)
(* the old file stays.  A reader goes on with the file it has opened.      *)
(* Left out: the log, an execlp() that fails, and the option "clean" of    *)
(* "two" and "three", which unlinks the name as a child does.              *)
(***************************************************************************)
EXTENDS Integers, FiniteSets

CONSTANTS
    Servers,    \* servers that may run on the same directory
    Clients,    \* connections, each handled by one child
    None,
    Programs,   \* which of the servers "done", "two" and "three" are meant
    Concurrent, \* those of which several may run at once
    Abrupt,     \* clients that may reset their connection
    Killable,   \* clients whose compiler may be ended by a signal
    MaxCrashes  \* bound: how often Ctrl-C is pressed

ASSUME CompileAssumption ==
    /\ IsFiniteSet(Clients) /\ IsFiniteSet(Servers)
    /\ None \notin Clients \cup Servers
    /\ Programs \subseteq {"done", "two", "three"}
    /\ Concurrent \subseteq Programs
    /\ Abrupt \subseteq Clients /\ Killable \subseteq Clients
    /\ MaxCrashes \in Nat

VARIABLES
    program,  \* the server that is built, one of Programs
    value,    \* values of the semaphores created so far, the oldest first
    name,     \* the semaphore that the name means, 0 when it is unlinked
    handle,   \* the semaphore a server has opened, 0 when it does not run
    pc,       \* where the child of a client is
    parent,   \* the server that forked it
    sem,      \* its semaphore
    file,     \* whose compilation made the file "animal", None if there is none
    whole,    \* children whose output file is complete
    fd,       \* whose output a child has open
    got,      \* what a client was sent: whose output, None for the message that
              \* the compilation failed, and whether all of it
    crashes

child == <<pc, parent, sem>>
disk == <<file, whole, fd, got>>
kernel == <<value, name, handle>>
vars == <<program, crashes, child, disk, kernel>>

Gens == 1..Cardinality(Servers) + MaxCrashes + Cardinality(Clients)
Created == {g \in Gens : value[g] >= 0}

\* The child runs and holds its semaphore.
Holding == {"compile", "linking", "failed", "open", "send", "post"}

\* A signal from outside ends the child: a child that holds its semaphore
\* never gives it back.
Ended(at) == IF at \in Holding THEN "dead" ELSE "killed"

Init ==
    /\ program \in Programs
    /\ value = [g \in Gens |-> -1]
    /\ name = 0
    /\ handle = [s \in Servers |-> 0]
    /\ pc = [c \in Clients |-> "new"]
    /\ parent = [c \in Clients |-> None]
    /\ sem = [c \in Clients |-> 0]
    /\ file = None /\ whole = {}
    /\ fd = [c \in Clients |-> None]
    /\ got = [c \in Clients |-> None]
    /\ crashes = 0

Goes(c, from, to) == pc[c] = from /\ pc' = [pc EXCEPT ![c] = to]

\* The last step of a child, with or without the sem_unlink() of "two" and
\* "three".
End == IF program = "done" THEN "gone" ELSE "clean"

-----------------------------------------------------------------------------
(* main() *)

\* sem_open( O_CREAT, 1 ) takes the semaphore of that name or creates it.
Start(s) ==
    /\ handle[s] = 0
    /\ program \in Concurrent \/ \A r \in Servers : handle[r] = 0
    /\ IF name # 0
       THEN handle' = [handle EXCEPT ![s] = name] /\ UNCHANGED <<value, name>>
       ELSE LET g == Cardinality(Created) + 1 IN
            /\ g \in Gens
            /\ value' = [value EXCEPT ![g] = 1]
            /\ name' = g
            /\ handle' = [handle EXCEPT ![s] = g]
    /\ UNCHANGED <<program, crashes, child, disk>>

\* accept() and fork().
Fork(s, c) ==
    /\ handle[s] # 0
    /\ Goes(c, "new", "request")
    /\ parent' = [parent EXCEPT ![c] = s]
    /\ sem' = [sem EXCEPT ![c] = handle[s]]
    /\ UNCHANGED <<program, crashes, disk, kernel>>

\* The terminal's SIGINT ends the server, its children and their compilers.
Interrupt(s) ==
    LET mine == {c \in Clients : parent[c] = s /\ pc[c] \notin {"gone", "killed", "dead"}} IN
    /\ handle[s] # 0
    /\ crashes < MaxCrashes /\ crashes' = crashes + 1
    /\ handle' = [handle EXCEPT ![s] = 0]
    /\ pc' = [c \in Clients |-> IF c \in mine THEN Ended(pc[c]) ELSE pc[c]]
    /\ UNCHANGED <<program, value, name, parent, sem, disk>>

-----------------------------------------------------------------------------
(* client_handle() *)

\* "COMPILE" and an animal.  Which one makes no difference to what follows.
Request(c) ==
    /\ Goes(c, "request", "wait")
    /\ UNCHANGED <<program, crashes, parent, sem, disk, kernel>>

\* The client is gone, or asks for something else: "ERR".  "three" does not
\* look at the request.
BadRequest(c) ==
    /\ program # "three"
    /\ Goes(c, "request", End)
    /\ UNCHANGED <<program, crashes, parent, sem, disk, kernel>>

\* Mutant: the sem_trywait() that animal3 has in a comment, its result ignored.
DownTried(c) ==
    /\ Goes(c, "wait", "compile")
    /\ value' = [value EXCEPT ![sem[c]] = IF @ > 0 THEN @ - 1 ELSE 0]
    /\ UNCHANGED <<program, crashes, parent, sem, disk, name, handle>>

Down(c) ==
    /\ Goes(c, "wait", "compile")
    /\ value[sem[c]] > 0
    /\ value' = [value EXCEPT ![sem[c]] = @ - 1]
    /\ UNCHANGED <<program, crashes, parent, sem, disk, name, handle>>

\* The compiler replaces the output file,
CompilerOpens(c) ==
    /\ Goes(c, "compile", "linking")
    /\ file' = c
    /\ UNCHANGED <<program, crashes, parent, sem, whole, fd, got, kernel>>

\* fills it, and waitpid() returns.
CompilerEnds(c) ==
    /\ Goes(c, "linking", "open")
    /\ whole' = whole \cup {c}
    /\ UNCHANGED <<program, crashes, parent, sem, file, fd, got, kernel>>

\* The compilation fails.  "done" will say so to its client; "two" ends the
\* child on the spot, which keeps the semaphore; "three" ignores it.
CompilerFails(c) ==
    /\ CASE program = "done"  -> Goes(c, "compile", "failed")
         [] program = "two"   -> Goes(c, "compile", "gone")
         [] program = "three" -> Goes(c, "compile", "open")
    /\ UNCHANGED <<program, crashes, parent, sem, disk, kernel>>

\* A signal ends the compiler: WEXITSTATUS of that is 0, which means success.
CompilerKilled(c) ==
    /\ c \in Killable
    /\ Goes(c, "compile", "open") \/ Goes(c, "linking", "open")
    /\ UNCHANGED <<program, crashes, parent, sem, disk, kernel>>

\* Mutant: the semaphore is posted here, and again at the end.
ReportFailureUp(c) ==
    /\ Goes(c, "failed", "post")
    /\ value' = [value EXCEPT ![sem[c]] = @ + 1]
    /\ got' = [got EXCEPT ![c] = [of |-> None, all |-> TRUE]]
    /\ UNCHANGED <<program, crashes, parent, sem, file, whole, fd, name, handle>>

\* "COMPILATION_FAILED"
ReportFailure(c) ==
    /\ Goes(c, "failed", "post")
    /\ got' = [got EXCEPT ![c] = [of |-> None, all |-> TRUE]]
    /\ UNCHANGED <<program, crashes, parent, sem, file, whole, fd, kernel>>

\* "three" divides by the number of 80096-byte pieces, which is 0 for a file of
\* 16 kB: SIGFPE, and the child keeps the semaphore.  So does "two", with
\* pieces of 4096, if the compiler was ended early in its work.
DividesByZero ==
    \/ program = "three"
    \/ program = "two" /\ file \notin whole

\* open() of the file.  If there is none, nothing is sent.
OpenFile(c) ==
    /\ fd' = [fd EXCEPT ![c] = file]
    /\ \/ file = None /\ Goes(c, "open", "post")
       \/ file # None /\ program # "three" /\ Goes(c, "open", "send")
       \/ file # None /\ DividesByZero /\ Goes(c, "open", "gone")
    /\ UNCHANGED <<program, crashes, parent, sem, file, whole, got, kernel>>

\* The pieces of the file, up to its end.
SendFile(c) ==
    /\ Goes(c, "send", "post")
    /\ got' = [got EXCEPT ![c] = [of |-> fd[c], all |-> fd[c] \in whole]]
    /\ UNCHANGED <<program, crashes, parent, sem, file, whole, fd, kernel>>

\* write() to a connection that the client has reset: SIGPIPE ends the child.
BrokenPipe(c) ==
    /\ c \in Abrupt
    /\ Goes(c, "send", "dead") \/ Goes(c, "failed", "dead")
    /\ UNCHANGED <<program, crashes, parent, sem, disk, kernel>>

\* Mutant: the semaphore is not posted after a compilation that failed.
UpAfterSuccess(c) ==
    /\ Goes(c, "post", End)
    /\ value' = [value EXCEPT ![sem[c]] = IF got[c] # None /\ got[c].of = None THEN @ ELSE @ + 1]
    /\ UNCHANGED <<program, crashes, parent, sem, disk, name, handle>>

Up(c) ==
    /\ Goes(c, "post", End)
    /\ value' = [value EXCEPT ![sem[c]] = @ + 1]
    /\ UNCHANGED <<program, crashes, parent, sem, disk, name, handle>>

\* sem_clean(): every child of "two" and "three" unlinks the name.
Unlink(c) ==
    /\ Goes(c, "clean", "gone")
    /\ name' = 0
    /\ UNCHANGED <<program, crashes, parent, sem, disk, value, handle>>

-----------------------------------------------------------------------------

ChildStep(c) ==
    \/ Down(c) \/ CompilerOpens(c) \/ CompilerEnds(c) \/ CompilerFails(c)
    \/ ReportFailure(c) \/ OpenFile(c) \/ SendFile(c) \/ Up(c) \/ Unlink(c)

Next ==
    \/ \E s \in Servers :
        Start(s) \/ Interrupt(s) \/ \E c \in Clients : Fork(s, c)
    \/ \E c \in Clients :
        \/ Request(c) \/ BadRequest(c) \/ BrokenPipe(c) \/ CompilerKilled(c)
        \/ ChildStep(c)

Spec == Init /\ [][Next]_vars

\* A child that does not wait for its client keeps running, and so does the
\* compiler.  The kernel wakes the waiters of a semaphore in turn.
FairSpec == Spec /\ \A c \in Clients : SF_vars(ChildStep(c))

-----------------------------------------------------------------------------
(* Properties. *)

TypeOK ==
    /\ program \in Programs
    /\ value \in [Gens -> -1..1]
    /\ name \in Gens \cup {0}
    /\ handle \in [Servers -> Gens \cup {0}]
    /\ pc \in [Clients -> Holding \cup {"new", "request", "wait", "clean", "gone",
                            "killed", "dead"}]
    /\ parent \in [Clients -> Servers \cup {None}]
    /\ sem \in [Clients -> Gens \cup {0}]
    /\ file \in Clients \cup {None} /\ whole \subseteq Clients
    /\ fd \in [Clients -> Clients \cup {None}]
    /\ got \in [Clients -> [of : Clients \cup {None}, all : BOOLEAN] \cup {None}]
    /\ crashes \in 0..MaxCrashes

Own(c) == got[c] # None => got[c].of \in {c, None} /\ got[c].all

\* A client that is sent a file gets what its own request was compiled to,
\* and all of it, whoever else compiles into the same file, and whatever the
\* compilers of others left behind that a signal ended.
GetsOwn == \A c \in Clients \ Killable : Own(c)

\* "0 = OK, ine = zlyhanie": a compiler that has not done its work counts as
\* failed.
GetsAll == \A c \in Clients : Own(c)

\* Children that took the semaphore and will give it back, or were ended from
\* outside before they could.
Takers(g) == {c \in Clients : sem[c] = g /\ pc[c] \in Holding \cup {"dead"}}

\* No path through client_handle() gives the semaphore twice, or lets a second
\* child in; and none in animal_done keeps it, unless the child was ended from
\* outside.
TokenKept ==
    \A g \in Created :
        /\ value[g] + Cardinality(Takers(g)) <= 1
        /\ program = "done" => value[g] + Cardinality(Takers(g)) = 1

\* A client of animal_done that waits for the semaphore is answered in the end,
\* with a file or with the message that there is none, unless its own child
\* was ended from outside, or one that held a semaphore.
Served ==
    \A c \in Clients \ Killable :
        program = "done" /\ pc[c] = "wait" ~>
            got[c] # None \/ pc[c] = "killed" \/ \E d \in Clients : pc[d] = "dead"
=============================================================================
