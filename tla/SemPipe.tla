------------------------------ MODULE SemPipe ------------------------------
(***************************************************************************)
(* Four programs in which one thread puts into the ring of SemRing and     *)
(* another prints what it gets; main() waits for both.  DU/DU04/sem.cpp    *)
(* and cv_skuska/cv3_queue.cpp read lines from stdin and put a last record *)
(* ("<<END>>", "quit") at its end; DU/DU05/quee.cpp, with its copies, and  *)
(* cv_skuska/cv2_consumer_sem.cpp put and get a fixed number of items.     *)
(* Left out: lines longer than the arrays of cv3_queue.cpp.                *)
(***************************************************************************)
EXTENDS Integers, Sequences

CONSTANTS
    Programs, \* which of "sem", "cv3_queue", "quee" and "cv2_consumer_sem"
    Lines,    \* what the user may enter, or the items
    End,      \* "<<END>>", or "quit"
    NoItem,
    Size,     \* N
    MaxLines  \* TOTAL; for the others a bound: lines of the input

ASSUME SemPipeAssumption ==
    /\ Programs \subseteq {"sem", "cv3_queue", "quee", "cv2_consumer_sem"}
    /\ NoItem \notin Lines \cup {End}
    /\ Size \in Nat \ {0}
    /\ MaxLines \in Nat \ {0}

VARIABLES
    mutex, empty, full, buffer, head, tail, pc, item,  \* as in SemRing
    program,  \* one of Programs
    entered,  \* lines read from stdin
    printed,  \* lines printed
    ended     \* threads that have left their loop

ringVars == <<mutex, empty, full, buffer, head, tail, pc, item>>
vars == <<program, ringVars, entered, printed, ended>>

\* No last record: both threads count.
Counted == {"quee", "cv2_consumer_sem"}

\* The consumer prints from the slot, before it lets go of the mutex.
PrintsInside == {"quee", "cv3_queue"}

R == INSTANCE SemRing WITH
        Procs <- {"producer", "consumer"},
        Items <- Lines \cup {End},
        Impatient <- {}

Init ==
    /\ program \in Programs
    /\ R!Init
    /\ entered = << >> /\ printed = << >> /\ ended = {}

\* fgets(), or the next item, and producer( line ).
Enter(l) ==
    /\ "producer" \notin ended /\ Len(entered) < MaxLines
    /\ R!CallPut("producer", l)
    /\ entered' = Append(entered, l)
    /\ UNCHANGED <<program, printed, ended>>

\* Mutant: the producer leaves without a last record.
InputEndsSilently ==
    /\ program \notin Counted
    /\ "producer" \notin ended /\ pc["producer"] = "idle"
    /\ ended' = ended \cup {"producer"}
    /\ UNCHANGED <<program, ringVars, entered, printed>>

\* "exit" or the end of the input: producer( "<<END>>" ), the thread's last call.
InputEnds ==
    /\ program \notin Counted
    /\ "producer" \notin ended
    /\ R!CallPut("producer", End)
    /\ ended' = ended \cup {"producer"}
    /\ UNCHANGED <<program, entered, printed>>

\* The loop of a producer that counts is over.
CountEnds ==
    /\ program \in Counted
    /\ "producer" \notin ended /\ pc["producer"] = "idle"
    /\ Len(entered) = MaxLines
    /\ ended' = ended \cup {"producer"}
    /\ UNCHANGED <<program, ringVars, entered, printed>>

Take ==
    /\ "consumer" \notin ended /\ item["consumer"] = NoItem
    /\ R!CallGet("consumer")
    /\ UNCHANGED <<program, entered, printed, ended>>

Prints(i) == printed' = IF i = End THEN printed ELSE Append(printed, i)

LoadAndPrint ==
    /\ program \in PrintsInside
    /\ R!Load("consumer")
    /\ Prints(buffer[head])
    /\ UNCHANGED <<program, entered, ended>>

\* cv3_queue.cpp leaves its loop with the index still to be advanced.
HasQuit == program = "cv3_queue" /\ item["consumer"] = End

QuitUnlock ==
    /\ HasQuit
    /\ pc["consumer"] = "cAdvance" /\ pc' = [pc EXCEPT !["consumer"] = "cPost"]
    /\ mutex' = mutex + 1
    /\ UNCHANGED <<program, empty, full, buffer, head, tail, item, entered, printed, ended>>

\* consumer() has returned; the line is printed unless it has been, and the
\* loop goes on or ends.
Output ==
    /\ pc["consumer"] = "idle" /\ item["consumer"] # NoItem
    /\ IF program \in PrintsInside THEN UNCHANGED printed ELSE Prints(item["consumer"])
    /\ ended' = IF \/ program \notin Counted /\ item["consumer"] = End
                   \/ program \in Counted /\ Len(printed') = MaxLines
                THEN ended \cup {"consumer"} ELSE ended
    /\ head' = IF HasQuit THEN (head + 1) % Size ELSE head
    /\ item' = [item EXCEPT !["consumer"] = NoItem]
    /\ UNCHANGED <<program, mutex, empty, full, buffer, tail, pc, entered>>

\* The other statements of producer() and consumer().
RingStep ==
    /\ \/ R!PutStep("producer")
       \/ /\ ~(program \in PrintsInside /\ pc["consumer"] = "cLoad")
          /\ ~(HasQuit /\ pc["consumer"] = "cAdvance")
          /\ R!GetStep("consumer")
    /\ UNCHANGED <<program, entered, printed, ended>>

\* Both threads have returned, and so does main().
Joined == ended = {"producer", "consumer"} /\ pc["producer"] = "idle"

Next ==
    \/ \E l \in Lines : Enter(l)
    \/ InputEnds \/ CountEnds \/ Take \/ RingStep
    \/ LoadAndPrint \/ QuitUnlock \/ Output

Spec == Init /\ [][Next]_vars

\* Threads run; whether the input ever ends is the user's choice.
FairSpec ==
    /\ Spec
    /\ WF_vars(Take) /\ WF_vars(RingStep) /\ WF_vars(LoadAndPrint)
    /\ WF_vars(QuitUnlock) /\ WF_vars(Output) /\ WF_vars(CountEnds)
    /\ WF_vars(program \in Counted /\ \E l \in Lines : Enter(l))

-----------------------------------------------------------------------------
(* Properties. *)

TypeOK ==
    /\ R!TypeOK /\ program \in Programs
    /\ entered \in Seq(Lines) /\ printed \in Seq(Lines)
    /\ ended \subseteq {"producer", "consumer"}

\* Lines come out as they went in, and all of them before the program ends.
PrintsInput ==
    /\ Len(printed) <= Len(entered)
    /\ printed = SubSeq(entered, 1, Len(printed))
    /\ Joined => printed = entered

\* pthread_join() never waits in vain: until both threads have ended, one of
\* them is between two calls and has not left, or is in a call and not at a
\* semaphore that is 0.  Neither leaves while the other needs it.
NeverStuck ==
    \/ Joined
    \/ \E t \in {"producer", "consumer"} :
          IF pc[t] = "idle" THEN t \notin ended ELSE ~R!Waits(t)

\* Once the input has ended, main() joins both threads; without input it does
\* so anyhow.
Terminates == (program \in Counted \/ "producer" \in ended) ~> Joined
=============================================================================
