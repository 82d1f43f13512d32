----------------------------- MODULE BatonGame -----------------------------
(***************************************************************************)
(* The servers in which the clients take turns: cv_skuska/piskvorky,       *)
(* piskvorky2 and skuska_piskvorky (two players, noughts and crosses) and  *)
(* cv_skuska/02_simultan (three clients, a calculator).  The server forks  *)
(* a child for each client; the children share a counter, one semaphore    *)
(* for each seat and, in the games, the board.                             *)
(*                                                                         *)
(* Left out: the parsing of a move and the mark it leaves; a row beyond    *)
(* the board, which parse_input() does not refuse (clients are taken to    *)
(* send rows of the board); the ten requests of one turn of 02_simultan    *)
(* are one Move.                                                           *)
(***************************************************************************)
EXTENDS Integers, FiniteSets

CONSTANTS
    Procs,       \* children, one for each client that may come
    Players,     \* seats: 2 or 3
    Fields,      \* fields of the board
    Limited,     \* the server counts its clients (not in piskvorky)
    ResetsBoard, \* each child clears the board (piskvorky2), not main()
    MayDrop,     \* clients may hang up
    EndsAll,     \* the server ends by Ctrl-C, its children too (not by quit)
    MaxRestarts  \* bound: how often the server is ended and started again

ASSUME BatonGameAssumption ==
    /\ Players \in Nat \ {0}
    /\ IsFiniteSet(Procs)
    /\ {Limited, ResetsBoard, MayDrop, EndsAll} \subseteq BOOLEAN
    /\ MaxRestarts \in Nat

Seats == 0..Players-1

Free == -1

VARIABLES
    accepted,  \* counter, client_num or c of the server
    count,     \* count in shared memory
    players,   \* the semaphores in shared memory
    board,     \* field in shared memory: a free field, or the seat that has it
    pc,        \* where a child is
    index,     \* the seat of a child
    loaded,    \* count as a child has loaded it for its count++
    last,      \* ghost: the seat that moved last
    restarts

vars == <<accepted, count, players, board, pc, index, loaded, last, restarts>>

FirstTurn == [s \in Seats |-> IF s = 0 THEN 1 ELSE 0]

Init ==
    /\ accepted = 0 /\ count = 0
    /\ players = FirstTurn
    /\ board = [f \in Fields |-> Free]
    /\ pc = [p \in Procs |-> "none"]
    /\ index = [p \in Procs |-> 0]
    /\ loaded = [p \in Procs |-> 0]
    /\ last = Players - 1
    /\ restarts = 0

Goes(p, from, to) == pc[p] = from /\ pc' = [pc EXCEPT ![p] = to]

-----------------------------------------------------------------------------
(* The server. *)

HasRoom == Limited => accepted < Players

\* main() forks at once, whatever the child of the last client has done.
Accept(p) ==
    /\ HasRoom
    /\ Goes(p, "none", "forked")
    /\ accepted' = accepted + 1
    /\ UNCHANGED <<count, players, board, index, loaded, last, restarts>>

Refuse(p) ==
    /\ ~HasRoom
    /\ Goes(p, "none", "gone")
    /\ UNCHANGED <<accepted, count, players, board, index, loaded, last, restarts>>

\* The server is ended and started again.  After quit the children of the
\* first play on in the memory that the second finds by its name and fills
\* anew; piskvorky2 leaves the board to the children.
Restart ==
    /\ restarts < MaxRestarts
    /\ restarts' = restarts + 1
    /\ accepted' = 0 /\ count' = 0
    /\ players' = FirstTurn
    /\ board' = IF ResetsBoard THEN board ELSE [f \in Fields |-> Free]
    /\ last' = Players - 1
    /\ pc' = IF EndsAll THEN [p \in Procs |-> IF pc[p] = "none" THEN "none" ELSE "gone"]
             ELSE pc
    /\ UNCHANGED <<index, loaded>>

-----------------------------------------------------------------------------
(* A child: its seat. *)

TakeIndex(p) ==
    /\ Goes(p, "forked", "indexed")
    /\ index' = [index EXCEPT ![p] = count]
    /\ UNCHANGED <<accepted, count, players, board, loaded, last, restarts>>

\* count++ loads and stores.
LoadCount(p) ==
    /\ Goes(p, "indexed", "loaded")
    /\ loaded' = [loaded EXCEPT ![p] = count]
    /\ UNCHANGED <<accepted, count, players, board, index, last, restarts>>

StoreCount(p) ==
    /\ Goes(p, "loaded", "lobby")
    /\ count' = loaded[p] + 1
    /\ UNCHANGED <<accepted, players, board, index, loaded, last, restarts>>

\* Mutant: the comparison of the lobby is off by one.
BeginEarly(p) ==
    /\ count >= Players - 1
    /\ Goes(p, "lobby", IF ResetsBoard THEN "clear" ELSE "wait")
    /\ UNCHANGED <<accepted, count, players, board, index, loaded, last, restarts>>

\* The loop that asks for patience until all seats are taken.
Begin(p) ==
    /\ count >= Players
    /\ Goes(p, "lobby", IF ResetsBoard THEN "clear" ELSE "wait")
    /\ UNCHANGED <<accepted, count, players, board, index, loaded, last, restarts>>

ClearBoard(p) ==
    /\ Goes(p, "clear", "wait")
    /\ board' = [f \in Fields |-> Free]
    /\ UNCHANGED <<accepted, count, players, index, loaded, last, restarts>>

-----------------------------------------------------------------------------
(* A child: its turns. *)

\* Mutant: the wait for the turn is interrupted, and that goes unnoticed.
DownNever(p) ==
    /\ index[p] \in Seats
    /\ Goes(p, "wait", "turn")
    /\ UNCHANGED <<accepted, count, players, board, index, loaded, last, restarts>>

\* sem_wait() on the semaphore of the seat.
Down(p) ==
    /\ index[p] \in Seats
    /\ Goes(p, "wait", "turn")
    /\ players[index[p]] > 0
    /\ players' = [players EXCEPT ![index[p]] = @ - 1]
    /\ UNCHANGED <<accepted, count, board, index, loaded, last, restarts>>

\* Mutant: the turn goes back to the player who had it.
NextSeatSame(s) == s

NextSeat(s) == (s + 1) % Players

\* A move to a field of the board, and sem_post() on the semaphore of the next
\* seat.
Move(p) ==
    /\ Goes(p, "turn", "wait")
    /\ \E f \in Fields : board' = [board EXCEPT ![f] = index[p]]
    /\ players' = [players EXCEPT ![NextSeat(index[p])] = @ + 1]
    /\ last' = index[p]
    /\ UNCHANGED <<accepted, count, index, loaded, restarts>>

\* Mutant: a move that cannot be parsed costs the player the turn.
WrongMovePasses(p) ==
    /\ Goes(p, "turn", "wait")
    /\ players' = [players EXCEPT ![NextSeat(index[p])] = @ + 1]
    /\ UNCHANGED <<accepted, count, board, index, loaded, last, restarts>>

\* A move that cannot be parsed: the player is asked again.
WrongMove(p) ==
    /\ Goes(p, "turn", "wait")
    /\ players' = [players EXCEPT ![index[p]] = @ + 1]
    /\ UNCHANGED <<accepted, count, board, index, loaded, last, restarts>>

\* The client is gone.  The child notices when it writes in the lobby or
\* reads a move, and ends with what it holds.
Drop(p) ==
    /\ MayDrop
    /\ Goes(p, "lobby", "gone") \/ Goes(p, "turn", "gone")
    /\ UNCHANGED <<accepted, count, players, board, index, loaded, last, restarts>>

-----------------------------------------------------------------------------

\* What a child does by itself, and the move of a client that plays.
OwnStep(p) ==
    \/ TakeIndex(p) \/ LoadCount(p) \/ StoreCount(p)
    \/ Begin(p) \/ ClearBoard(p) \/ Down(p)

Next ==
    \/ \E p \in Procs :
        Accept(p) \/ Refuse(p) \/ OwnStep(p) \/ Move(p) \/ WrongMove(p) \/ Drop(p)
    \/ Restart

Spec == Init /\ [][Next]_vars

\* Children run, clients answer when it is their turn, and not always wrong.
FairSpec ==
    /\ Spec
    /\ \A p \in Procs : WF_vars(OwnStep(p)) /\ SF_vars(Move(p))

-----------------------------------------------------------------------------
(* Properties. *)

Pcs == {"none", "forked", "indexed", "loaded", "lobby", "clear", "wait", "turn",
        "gone"}

TypeOK ==
    /\ accepted \in 0..Cardinality(Procs)
    /\ count \in 0..Cardinality(Procs)
    /\ players \in [Seats -> 0..1]
    /\ board \in [Fields -> Seats \cup {Free}]
    /\ pc \in [Procs -> Pcs]
    /\ index \in [Procs -> 0..Cardinality(Procs)]
    /\ loaded \in [Procs -> 0..Cardinality(Procs)]
    /\ last \in Seats
    /\ restarts \in 0..MaxRestarts

\* One player at a time is asked for a move, and while one is, no other's
\* semaphore is posted.
OneTurn ==
    \A p, q \in Procs :
        pc[p] = "turn" /\ pc[q] = "turn"
            => p = q /\ \A s \in Seats : players[s] = 0

\* The players move by turns, in the order of their seats.
TurnsAlternate ==
    \A p \in Procs : pc[p] = "turn" => index[p] = NextSeat(last)

Seated == {p \in Procs : pc[p] \in {"lobby", "clear", "wait", "turn"}}

\* Children between fork() and the store of their count++.
Seating == {p \in Procs : pc[p] \in {"forked", "indexed", "loaded"}}

\* Children of one server race for count++ and may lose increments, but that
\* never brings the start forward: nobody plays while another child is still
\* being seated, or before the last seat has its client.
StartsFull ==
    (\E p \in Procs : pc[p] \in {"clear", "wait", "turn"})
        => accepted = Players /\ Seating = {}

\* "it assigns the index 0/1": every client has a seat of its own ...
OwnSeat == \A p, q \in Seated : index[p] = index[q] => p = q

\* ... and there are no others.
SeatExists == \A p \in Seated : index[p] \in Seats

\* What a player has put on the board stays there as long as the server runs.
MovesStay ==
    [][restarts' = restarts =>
        \A f \in Fields : board[f] # Free => board'[f] # Free]_vars

\* Once each seat is taken by one player, everyone gets turn after turn, as
\* long as nobody hangs up and the server is not interrupted.
TurnComes ==
    \A p \in Procs :
        pc[p] = "wait" ~>
            pc[p] = "turn" \/ Cardinality(Seated) < Players \/ ~OwnSeat
=============================================================================
