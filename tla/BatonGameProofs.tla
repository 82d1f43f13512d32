---------------------------- MODULE BatonGameProofs ----------------------------
(***************************************************************************)
(* Proofs about BatonGame, for any number of clients, seats and restarts.  *)
(*                                                                         *)
(* The turn is in one place: a posted semaphore, or a child that moves;    *)
(* both are of the seat after the last one (BatonInv).  The children race  *)
(* for count++ and may lose increments, but what the counter has, or will  *)
(* have after a store that is due, and the children that are being seated  *)
(* are never more than the clients accepted (StartInv).                    *)
(***************************************************************************)
EXTENDS BatonGame, FiniteSetTheorems, TLAPS

\* A restart ends the children too; after quit those of the old server would
\* play on with a second turn (skuska_piskvorky).
Plain == EndsAll

\* The server counts its clients (not in piskvorky), each run from nothing.
Counted == EndsAll /\ Limited

BatonInv ==
    /\ players \in [Seats -> {0, 1}]
    /\ last \in Seats
    /\ pc \in [Procs -> Pcs]
    /\ \A s \in Seats : players[s] = 1 => s = NextSeat(last)
    /\ \A p \in Procs : pc[p] = "turn" =>
        /\ index[p] = NextSeat(last)
        /\ \A s \in Seats : players[s] = 0
        /\ \A q \in Procs : pc[q] = "turn" => q = p
    /\ index = [p \in Procs |-> index[p]]

LEMMA NextSeatType ==
    ASSUME NEW s \in Seats
    PROVE  NextSeat(s) \in Seats
BY BatonGameAssumption DEF NextSeat, Seats

LEMMA FirstTurnInv ==
    /\ Players - 1 \in Seats
    /\ FirstTurn \in [Seats -> {0, 1}]
    /\ \A s \in Seats : FirstTurn[s] = 1 => s = NextSeat(Players - 1)
<1>1. Players - 1 \in Seats
    BY BatonGameAssumption DEF Seats
<1>2. NextSeat(Players - 1) = 0
    BY BatonGameAssumption DEF NextSeat
<1> QED
    BY <1>1, <1>2 DEF FirstTurn

LEMMA BatonInit == Init => BatonInv
BY FirstTurnInv DEF Init, BatonInv, Pcs

LEMMA BatonStep == Plain /\ BatonInv /\ [Next]_vars => BatonInv'
<1> SUFFICES ASSUME EndsAll, BatonInv, [Next]_vars PROVE BatonInv'
    BY DEF Plain
<1> USE DEF BatonInv, Goes, Pcs
<1>1. ASSUME NEW p \in Procs,
             Accept(p) \/ Refuse(p) \/ TakeIndex(p) \/ LoadCount(p) \/ StoreCount(p)
                       \/ Begin(p) \/ ClearBoard(p)
      PROVE  BatonInv'
    BY <1>1 DEF Accept, Refuse, TakeIndex, LoadCount, StoreCount, Begin, ClearBoard
<1>2. ASSUME NEW p \in Procs, Down(p) PROVE BatonInv'
  <2>1. players[index[p]] = 1 /\ index[p] \in Seats
    BY <1>2 DEF Down
  <2>2. index[p] = NextSeat(last)
    BY <2>1
  <2>3. \A s \in Seats : s # index[p] => players[s] = 0
    BY <2>2
  <2>4. players' = [players EXCEPT ![index[p]] = 0]
    BY <1>2, <2>1 DEF Down
  <2>5. \A s \in Seats : players'[s] = 0
    BY <2>3, <2>4
  <2>6. \A q \in Procs : pc[q] # "turn"
    BY <2>1
  <2> QED
    BY <1>2, <2>1, <2>2, <2>4, <2>5, <2>6 DEF Down
<1>3. ASSUME NEW p \in Procs, Move(p) \/ WrongMove(p) PROVE BatonInv'
  <2>1. /\ index[p] = NextSeat(last) /\ index[p] \in Seats
        /\ \A s \in Seats : players[s] = 0
        /\ \A q \in Procs : pc'[q] # "turn"
    BY <1>3, NextSeatType DEF Move, WrongMove
  <2>2. CASE Move(p)
    <3>1. NextSeat(index[p]) \in Seats
      BY <2>1, NextSeatType
    <3>2. players' = [players EXCEPT ![NextSeat(index[p])] = 1] /\ last' = index[p]
      <4>1. players[NextSeat(index[p])] = 0
        BY <2>1, <3>1
      <4>2. players' = [players EXCEPT ![NextSeat(index[p])] = players[NextSeat(index[p])] + 1]
        BY <2>2 DEF Move
      <4> QED
        BY <2>2, <4>1, <4>2 DEF Move
    <3>3. NextSeat(last') = NextSeat(index[p])
      BY <3>2 DEF NextSeat
    <3>4. \A s \in Seats : players'[s] = 1 => s = NextSeat(last')
      BY <2>1, <3>1, <3>2, <3>3
    <3> QED
      BY <2>1, <2>2, <3>1, <3>2, <3>4 DEF Move
  <2>3. CASE WrongMove(p)
    <3>1. players' = [players EXCEPT ![index[p]] = 1] /\ last' = last
      <4>1. players[index[p]] = 0
        BY <2>1
      <4>2. players' = [players EXCEPT ![index[p]] = players[index[p]] + 1]
        BY <2>3 DEF WrongMove
      <4> QED
        BY <2>3, <4>1, <4>2 DEF WrongMove
    <3>2. \A s \in Seats : players'[s] = 1 => s = NextSeat(last')
      BY <2>1, <3>1 DEF NextSeat
    <3> QED
      BY <2>1, <2>3, <3>1, <3>2 DEF WrongMove
  <2> QED
    BY <1>3, <2>2, <2>3
<1>4. ASSUME NEW p \in Procs, Drop(p) PROVE BatonInv'
    BY <1>4 DEF Drop
<1>5. ASSUME Restart PROVE BatonInv'
  <2>1. \A p \in Procs : pc'[p] # "turn"
    BY <1>5 DEF Restart
  <2> QED
    BY <1>5, <2>1, FirstTurnInv DEF Restart
<1>6. CASE UNCHANGED vars
    BY <1>6 DEF vars
<1> QED
    BY <1>1, <1>2, <1>3, <1>4, <1>5, <1>6 DEF Next, OwnStep

\* One client at a time is asked for a move, whatever number of seats, clients
\* that hang up, wrong moves and restarts by Ctrl-C.
THEOREM OneTurnAlways ==
    ASSUME Plain
    PROVE  Spec => []OneTurn
<1>1. BatonInv => OneTurn
    BY DEF BatonInv, OneTurn
<1>2. BatonInv /\ [Next]_vars => BatonInv'
    BY BatonStep
<1> QED
    BY <1>1, <1>2, BatonInit, PTL DEF Spec

\* The turn goes around the seats in order, and a wrong move does not pass it.
THEOREM TurnsAlternateAlways ==
    ASSUME Plain
    PROVE  Spec => []TurnsAlternate
<1>1. BatonInv => TurnsAlternate
    BY DEF BatonInv, TurnsAlternate
<1>2. BatonInv /\ [Next]_vars => BatonInv'
    BY BatonStep
<1> QED
    BY <1>1, <1>2, BatonInit, PTL DEF Spec

-----------------------------------------------------------------------------
(* The lobby. *)

Playing == {p \in Procs : pc[p] \in {"clear", "wait", "turn"}}

StartInv ==
    /\ pc \in [Procs -> Pcs]
    /\ index \in [Procs -> Nat] /\ loaded \in [Procs -> Nat]
    /\ accepted \in Nat /\ count \in Nat /\ accepted <= Players
    /\ count + Cardinality(Seating) <= accepted
    /\ \A p \in Procs : pc[p] = "loaded" => loaded[p] + Cardinality(Seating) <= accepted
    /\ Playing # {} => accepted = Players /\ Seating = {}
    /\ \A p \in Procs : pc[p] \notin {"none", "forked", "gone"} => index[p] < Players

LEMMA SeatingFinite ==
    /\ IsFiniteSet(Seating)
    /\ Cardinality(Seating) \in Nat
    /\ \A p \in Seating : Cardinality(Seating) >= 1
<1>1. IsFiniteSet(Seating)
    BY BatonGameAssumption, FS_Subset DEF Seating
<1>2. Cardinality(Seating) \in Nat
    BY <1>1, FS_CardinalityType
<1>3. Cardinality(Seating) = 0 => Seating = {}
    BY <1>1, FS_EmptySet
<1> QED
    BY <1>1, <1>2, <1>3

LEMMA StartInit == Init => StartInv
<1> SUFFICES ASSUME Init PROVE StartInv
    OBVIOUS
<1>1. Seating = {} /\ Playing = {}
    BY DEF Init, Seating, Playing
<1>2. Cardinality(Seating) = 0
    BY <1>1, FS_EmptySet
<1> QED
    BY <1>1, <1>2, BatonGameAssumption DEF Init, StartInv, Pcs

\* A step that seats nobody and takes nobody's seat.
LEMMA SeatingSame ==
    ASSUME StartInv, Seating' = Seating, Playing' = Playing,
           pc' \in [Procs -> Pcs], UNCHANGED <<accepted, count>>,
           index' \in [Procs -> Nat], loaded' \in [Procs -> Nat],
           \A p \in Procs : pc'[p] = "loaded" =>
                loaded'[p] + Cardinality(Seating) <= accepted,
           \A p \in Procs : pc'[p] \notin {"none", "forked", "gone"} =>
                index'[p] < Players
    PROVE  StartInv'
BY DEF StartInv

LEMMA StartStep == Counted /\ StartInv /\ [Next]_vars => StartInv'
<1> SUFFICES ASSUME EndsAll, Limited, StartInv, [Next]_vars PROVE StartInv'
    BY DEF Counted
<1>0. /\ pc \in [Procs -> Pcs] /\ index \in [Procs -> Nat] /\ loaded \in [Procs -> Nat]
      /\ accepted \in Nat /\ count \in Nat /\ Cardinality(Seating) \in Nat
      /\ Players \in Nat
    BY SeatingFinite, BatonGameAssumption DEF StartInv
<1>1. ASSUME NEW p \in Procs, Accept(p) PROVE StartInv'
  <2>1. /\ accepted < Players /\ accepted' = accepted + 1 /\ p \notin Seating
        /\ pc' = [pc EXCEPT ![p] = "forked"] /\ UNCHANGED <<count, index, loaded>>
    BY <1>1 DEF Accept, HasRoom, Goes, Seating
  <2>2. Seating' = Seating \cup {p} /\ Playing' = Playing
    BY <1>0, <1>1, <2>1 DEF Accept, Goes, Seating, Playing
  <2>3. Cardinality(Seating') = Cardinality(Seating) + 1
    BY <2>1, <2>2, SeatingFinite, FS_AddElement
  <2>4. Playing = {}
    BY <1>0, <2>1 DEF StartInv
  <2>5. pc' \in [Procs -> Pcs]
    BY <1>0, <2>1 DEF Pcs
  <2>6. count' + Cardinality(Seating') <= accepted'
    BY <1>0, <2>1, <2>3 DEF StartInv
  <2>7. \A q \in Procs : pc'[q] = "loaded" => loaded'[q] + Cardinality(Seating') <= accepted'
    BY <1>0, <2>1, <2>3 DEF StartInv
  <2> QED
    BY <1>0, <2>1, <2>2, <2>4, <2>5, <2>6, <2>7 DEF StartInv
<1>2. ASSUME NEW p \in Procs, Refuse(p) \/ Drop(p) PROVE StartInv'
  <2>1. /\ pc' = [pc EXCEPT ![p] = "gone"] /\ pc[p] \in {"none", "lobby", "turn"}
        /\ UNCHANGED <<accepted, count, index, loaded>>
    BY <1>2 DEF Refuse, Drop, Goes
  <2>2. Seating' = Seating /\ Playing' \subseteq Playing
    BY <1>0, <2>1 DEF Seating, Playing
  <2>3. pc' \in [Procs -> Pcs]
    BY <1>0, <2>1 DEF Pcs
  <2> QED
    BY <1>0, <2>1, <2>2, <2>3 DEF StartInv
<1>3. ASSUME NEW p \in Procs, TakeIndex(p) \/ LoadCount(p) PROVE StartInv'
  <2>1. /\ p \in Seating /\ UNCHANGED <<accepted, count>>
        /\ \/ pc' = [pc EXCEPT ![p] = "indexed"] /\ index' = [index EXCEPT ![p] = count]
              /\ loaded' = loaded
           \/ pc' = [pc EXCEPT ![p] = "loaded"] /\ loaded' = [loaded EXCEPT ![p] = count]
              /\ index' = index /\ pc[p] = "indexed"
    BY <1>3 DEF TakeIndex, LoadCount, Goes, Seating
  <2>2. Seating' = Seating /\ Playing' = Playing
    BY <1>0, <1>3 DEF TakeIndex, LoadCount, Goes, Seating, Playing
  <2>3. count < Players
    BY <1>0, <2>1, SeatingFinite DEF StartInv
  <2>4. /\ pc' \in [Procs -> Pcs] /\ index' \in [Procs -> Nat] /\ loaded' \in [Procs -> Nat]
    BY <1>0, <2>1 DEF Pcs
  <2>5. \A q \in Procs : pc'[q] = "loaded" => loaded'[q] + Cardinality(Seating) <= accepted
    BY <1>0, <2>1 DEF StartInv
  <2>6. \A q \in Procs : pc'[q] \notin {"none", "forked", "gone"} => index'[q] < Players
    BY <1>0, <2>1, <2>3 DEF StartInv
  <2> QED
    BY <2>1, <2>2, <2>4, <2>5, <2>6, SeatingSame
<1>4. ASSUME NEW p \in Procs, StoreCount(p) PROVE StartInv'
  <2>1. /\ pc[p] = "loaded" /\ pc' = [pc EXCEPT ![p] = "lobby"] /\ count' = loaded[p] + 1
        /\ p \in Seating /\ UNCHANGED <<accepted, index, loaded>>
    BY <1>4 DEF StoreCount, Goes, Seating
  <2>2. Seating' = Seating \ {p} /\ Playing' = Playing
    BY <1>0, <2>1 DEF Seating, Playing
  <2>3. Cardinality(Seating') = Cardinality(Seating) - 1
    BY <2>1, <2>2, SeatingFinite, FS_RemoveElement
  <2>4. Playing = {}
    BY <2>1 DEF StartInv
  <2>5. count' + Cardinality(Seating') <= accepted'
    BY <1>0, <2>1, <2>3 DEF StartInv
  <2>6. \A q \in Procs : pc'[q] = "loaded" => loaded'[q] + Cardinality(Seating') <= accepted'
    BY <1>0, <2>1, <2>3 DEF StartInv
  <2>7. pc' \in [Procs -> Pcs] /\ count' \in Nat
    BY <1>0, <2>1 DEF Pcs
  <2> QED
    BY <1>0, <2>1, <2>2, <2>4, <2>5, <2>6, <2>7 DEF StartInv
<1>5. ASSUME NEW p \in Procs, Begin(p) PROVE StartInv'
  <2>1. /\ count >= Players /\ pc[p] = "lobby" /\ UNCHANGED <<accepted, count, index, loaded>>
        /\ pc' = [pc EXCEPT ![p] = IF ResetsBoard THEN "clear" ELSE "wait"]
    BY <1>5 DEF Begin, Goes
  <2>2. Seating' = Seating
    BY <1>0, <2>1 DEF Seating
  <2>3. accepted = Players /\ Cardinality(Seating) = 0
    BY <1>0, <2>1 DEF StartInv
  <2>4. Seating = {}
    BY <2>3, SeatingFinite, FS_EmptySet
  <2>5. pc' \in [Procs -> Pcs]
    BY <1>0, <2>1 DEF Pcs
  <2> QED
    BY <1>0, <2>1, <2>2, <2>3, <2>4, <2>5 DEF StartInv
<1>6. ASSUME NEW p \in Procs, ClearBoard(p) \/ Down(p) \/ Move(p) \/ WrongMove(p)
      PROVE StartInv'
  <2>1. /\ pc[p] \in {"clear", "wait", "turn"} /\ UNCHANGED <<accepted, count, index, loaded>>
        /\ \/ pc' = [pc EXCEPT ![p] = "wait"]
           \/ pc' = [pc EXCEPT ![p] = "turn"]
    BY <1>6 DEF ClearBoard, Down, Move, WrongMove, Goes
  <2>2. Seating' = Seating /\ Playing' = Playing /\ pc' \in [Procs -> Pcs]
    BY <1>0, <2>1 DEF Seating, Playing, Pcs
  <2> QED
    BY <1>0, <2>1, <2>2 DEF StartInv
<1>7. ASSUME Restart PROVE StartInv'
  <2>1. /\ accepted' = 0 /\ count' = 0 /\ UNCHANGED <<index, loaded>>
        /\ pc' = [p \in Procs |-> IF pc[p] = "none" THEN "none" ELSE "gone"]
    BY <1>7 DEF Restart
  <2>2. Seating' = {} /\ Playing' = {} /\ pc' \in [Procs -> Pcs]
    BY <2>1 DEF Seating, Playing, Pcs
  <2>3. Cardinality(Seating') = 0
    BY <2>2, FS_EmptySet
  <2> QED
    BY <1>0, <2>1, <2>2, <2>3 DEF StartInv
<1>8. CASE UNCHANGED vars
  <2>1. /\ UNCHANGED <<pc, accepted, count, index, loaded>>
        /\ Seating' = Seating /\ Playing' = Playing
    BY <1>8 DEF vars, Seating, Playing
  <2> QED
    BY <2>1 DEF StartInv
<1> QED
    BY <1>1, <1>2, <1>3, <1>4, <1>5, <1>6, <1>7, <1>8 DEF Next, OwnStep

\* However the children overlap in their unlocked count++, nobody plays before
\* the last seat has its client and everyone is seated, if the server counts
\* its clients and is ended with its children.
THEOREM StartsFullAlways ==
    ASSUME Counted
    PROVE  Spec => []StartsFull
<1>1. StartInv => StartsFull
    BY DEF StartInv, StartsFull, Playing
<1>2. StartInv /\ [Next]_vars => StartInv'
    BY StartStep
<1> QED
    BY <1>1, <1>2, StartInit, PTL DEF Spec

\* Nor does the race give anyone a semaphore beyond the last one.
THEOREM SeatExistsAlways ==
    ASSUME Counted
    PROVE  Spec => []SeatExists
<1>1. StartInv => SeatExists
  <2> SUFFICES ASSUME StartInv, NEW p \in Seated PROVE index[p] \in Seats
      BY DEF SeatExists
  <2>1. p \in Procs /\ pc[p] \notin {"none", "forked", "gone"}
    BY DEF Seated
  <2>2. index[p] \in Nat /\ index[p] < Players
    BY <2>1 DEF StartInv
  <2> QED
    BY <2>2, BatonGameAssumption DEF Seats
<1>2. StartInv /\ [Next]_vars => StartInv'
    BY StartStep
<1> QED
    BY <1>1, <1>2, StartInit, PTL DEF Spec
=============================================================================
