-------------------------- MODULE TableParts_proofs --------------------------
(***************************************************************************)
(* Proofs about parts of the table that do not act on each other: seats    *)
(* (TableSeats), for any number of users, seats and chips, whatever was    *)
(* asked for, corrected, played and restarted; the choice of game          *)
(* (GameConfig), for any games, settings and number of rounds, with a      *)
(* server that may be restarted at any time; the finished hand and its row *)
(* (HandRecord); the page of a player (TableClient); and the better of two *)
(* hands (HandRank), for any deck of four suits.                           *)
(***************************************************************************)
EXTENDS TableSeats, GameConfig, HandRecord, TableClient, HandRank, Sums

-----------------------------------------------------------------------------
(* Seats.                                                                  *)

SeatRecords == [user : Users \cup {NoUser}, stack : Int, away : BOOLEAN]
Corrections == [user : Users, mode : {"add", "remove", "set"}, amount : Amounts]

Typed ==
  /\ seat \in [SeatIndexes -> SeatRecords] /\ saved \in [SeatIndexes -> SeatRecords]
  /\ owner \in Users
  /\ requests \subseteq [user : Users, at : SeatIndexes]
  /\ corrections \in [SeatIndexes -> {None} \cup Corrections]
  /\ ledger \in [Users -> Int] /\ winnings \in [Users -> Int]

\* One place each, said of the seats and requests themselves.
SinglePlaces ==
  /\ \A i, j \in Occupied : seat[i].user = seat[j].user => i = j
  /\ \A r, q \in requests : r.user = q.user => r = q
  /\ \A r \in requests, i \in Occupied : r.user # seat[i].user

\* No correction waits in an empty seat, so that none can wait for the next player.
CorrectionsOfSeated ==
  \A i \in SeatIndexes : corrections[i] # None =>
    seat[i].user # NoUser /\ corrections[i].user = seat[i].user

\* The seats of a round are taken, and their stacks were noted.
DealtAreSeated == dealt \subseteq Occupied /\ \A i \in dealt : before[i] \in Int

\* The stack of a player in the database is what the ledger still owes, during a round too.
LedgerBalances ==
  \A u \in Users :
    /\ \A i \in SeatIndexes : saved[i].user = u => ledger[u] + saved[i].stack = winnings[u]
    /\ (\A i \in SeatIndexes : saved[i].user # u) => ledger[u] = winnings[u]

\* The five named properties need each other: a restart puts the database in the place
\* of the seats, and a sum over the seats of a user is the one stack of that user.
IInv ==
  /\ Typed
  /\ SinglePlaces
  /\ CorrectionsOfSeated
  /\ DealtAreSeated
  /\ StoredSeats
  /\ LedgerBalances

-----------------------------------------------------------------------------
(* Sums over the seats of a user, who has one at most.                     *)

\* The seats of a user are none or one.
LEMMA SeatsOfUser ==
  ASSUME IInv, NEW u \in Users
  PROVE  \/ {i \in Occupied : seat[i].user = u} = {} /\ \A i \in SeatIndexes : seat[i].user # u
         \/ \E i \in Occupied : seat[i].user = u /\ {j \in Occupied : seat[j].user = u} = {i}
BY CreatorAssumption DEF IInv, SinglePlaces, Occupied

\* What a correction makes of a stack is an integer.
LEMMA ResolvedIsInteger ==
  ASSUME NEW stack \in Int, NEW c \in {None} \cup Corrections
  PROVE  resolvePendingStackAdjustment(stack, c) \in Int
<1>1. ASSUME NEW n \in Int PROVE Max({0, n}) \in Int
  <2>1. \E x \in {0, n} : \A y \in {0, n} : x >= y
    OBVIOUS
  <2>2. Max({0, n}) \in {0, n}
    BY <2>1, Zenon DEF Max
  <2>3. QED
    BY <2>2
<1>2. c.amount \in Int
  <2>1. CASE c = None
    BY <2>1 DEF None
  <2>2. CASE c \in Corrections
    <3>1. c.amount \in Amounts
      BY <2>2 DEF Corrections
    <3>2. \A a \in Amounts : a \in Int
      BY AmountsAssumption
    <3>3. QED
      BY <3>1, <3>2, Zenon
  <2>3. QED
    BY <2>1, <2>2
<1>3. Max({0, stack - c.amount}) \in Int
  BY <1>1, <1>2
<1>4. QED
  BY <1>2, <1>3 DEF resolvePendingStackAdjustment

\* What the ledger says of a user who has no seat, or one.
LEMMA NetOfUser ==
  ASSUME IInv, NEW u \in Users
  PROVE  /\ \A i \in SeatIndexes : seat[i].user = u => net(u) = ledger[u] + seat[i].stack
         /\ (\A i \in SeatIndexes : seat[i].user # u) => net(u) = ledger[u]
<1> DEFINE S == {i \in Occupied : seat[i].user = u}
           stacks == [i \in S |-> seat[i].stack]
<1>1. net(u) = ledger[u] + SumFunctionOnSet(stacks, S)
  BY ZenonT(60) DEF net, MapThenSumSet, MapThenFoldSet, SumFunctionOnSet, FoldFunctionOnSet
<1>2. ledger[u] \in Int /\ \A i \in SeatIndexes : seat[i].stack \in Int
  BY DEF IInv, Typed, SeatRecords
<1>3. \A i \in S : stacks[i] = seat[i].stack
  OBVIOUS
<1>4. \/ S = {} /\ \A i \in SeatIndexes : seat[i].user # u
      \/ \E i \in Occupied : seat[i].user = u /\ S = {i}
  BY SeatsOfUser
<1> HIDE DEF S, stacks
<1>5. CASE S = {} /\ \A i \in SeatIndexes : seat[i].user # u
  <2>1. SumFunctionOnSet(stacks, {}) = 0
    BY SumOfNone
  <2>2. QED
    BY <1>1, <1>2, <1>5, <2>1
<1>6. CASE \E i \in Occupied : seat[i].user = u /\ S = {i}
  <2>1. PICK i \in Occupied : seat[i].user = u /\ S = {i}
    BY <1>6
  <2>2. i \in SeatIndexes /\ stacks[i] = seat[i].stack
    BY <1>3, <2>1 DEF Occupied
  <2>3. SumFunctionOnSet(stacks, {i}) = seat[i].stack
    BY <1>2, <2>2, SumOfOne
  <2>4. \A j \in SeatIndexes : seat[j].user = u => j = i
    BY <2>1, CreatorAssumption DEF Occupied, S
  <2>5. QED
    BY <1>1, <2>1, <2>2, <2>3, <2>4
<1>7. QED
  BY <1>4, <1>5, <1>6

\* Corrections change the stacks, the database and the ledger by the same amounts; what is
\* added to a stack is owed by its player.
LEMMA CorrectionsAreBooked ==
  ASSUME IInv, NEW c, \A i \in SeatIndexes : c[i] \in {None} \cup Corrections,
         applyStackAdjustments(c)
  PROVE  /\ seat' \in [SeatIndexes -> SeatRecords] /\ saved' \in [SeatIndexes -> SeatRecords]
         /\ ledger' \in [Users -> Int]
         /\ \A i \in SeatIndexes :
              /\ seat'[i].user = seat[i].user /\ seat'[i].away = seat[i].away
              /\ saved'[i].user = saved[i].user /\ saved'[i].away = saved[i].away
              /\ \/ saved'[i].stack = saved[i].stack /\ seat'[i].stack = seat[i].stack
                 \/ saved'[i].stack = seat'[i].stack
         /\ \A u \in Users :
              /\ \A i \in SeatIndexes : seat[i].user = u =>
                   ledger'[u] + seat'[i].stack = ledger[u] + seat[i].stack
              /\ (\A i \in SeatIndexes : seat[i].user # u) => ledger'[u] = ledger[u]
<1> DEFINE due(i) == c[i] # None /\ seat[i].user = c[i].user
           after(i) == IF due(i) THEN resolvePendingStackAdjustment(seat[i].stack, c[i])
                       ELSE seat[i].stack
           S(v) == {i \in Occupied : seat[i].user = v}
           change(v) == MapThenSumSet(LAMBDA i : after(i) - seat[i].stack, S(v))
<1>1. /\ seat' = [i \in SeatIndexes |-> [seat[i] EXCEPT !.stack = after(i)]]
      /\ saved' = [i \in SeatIndexes |->
                     [saved[i] EXCEPT !.stack = IF due(i) /\ after(i) # seat[i].stack
                                                THEN after(i) ELSE @]]
      /\ ledger' = [u \in Users |-> ledger[u] + LedgerEntry(change(u))]
  BY Zenon DEF applyStackAdjustments
<1>2. \A i \in SeatIndexes : after(i) \in Int /\ seat[i].stack \in Int
  BY ResolvedIsInteger DEF IInv, Typed, SeatRecords
<1>3. \A i \in SeatIndexes : ~due(i) => after(i) = seat[i].stack
  OBVIOUS
<1> HIDE DEF due, after
<1>4. \A v : change(v) = SumFunctionOnSet([i \in S(v) |-> after(i) - seat[i].stack], S(v))
  BY ZenonT(60) DEF MapThenSumSet, MapThenFoldSet, SumFunctionOnSet, FoldFunctionOnSet
<1>5. seat \in [SeatIndexes -> SeatRecords] /\ saved \in [SeatIndexes -> SeatRecords]
  BY DEF IInv, Typed
<1>6. \A i \in SeatIndexes :
        /\ seat'[i].user = seat[i].user /\ seat'[i].away = seat[i].away
        /\ seat'[i].stack = after(i)
        /\ saved'[i].user = saved[i].user /\ saved'[i].away = saved[i].away
        /\ saved'[i].stack = IF due(i) /\ after(i) # seat[i].stack THEN after(i)
                             ELSE saved[i].stack
  BY <1>1, <1>5 DEF SeatRecords
<1>7. seat' \in [SeatIndexes -> SeatRecords] /\ saved' \in [SeatIndexes -> SeatRecords]
  BY <1>1, <1>2, <1>5, ZenonT(60) DEF SeatRecords
<1>8. ASSUME NEW u \in Users
      PROVE  /\ \A i \in SeatIndexes : seat[i].user = u => change(u) = after(i) - seat[i].stack
             /\ (\A i \in SeatIndexes : seat[i].user # u) => change(u) = 0
             /\ change(u) \in Int
  <2> DEFINE changes == [i \in S(u) |-> after(i) - seat[i].stack]
  <2>1. change(u) = SumFunctionOnSet(changes, S(u))
    BY <1>4, Zenon
  <2>2. \A i \in S(u) : changes[i] = after(i) - seat[i].stack
    OBVIOUS
  <2>3. \/ S(u) = {} /\ \A i \in SeatIndexes : seat[i].user # u
        \/ \E i \in Occupied : seat[i].user = u /\ S(u) = {i}
    BY SeatsOfUser
  <2> HIDE DEF S, changes, change
  <2>4. CASE S(u) = {} /\ \A i \in SeatIndexes : seat[i].user # u
    <3>1. SumFunctionOnSet(changes, {}) = 0
      BY SumOfNone
    <3>2. QED
      BY <2>1, <2>4, <3>1
  <2>5. CASE \E i \in Occupied : seat[i].user = u /\ S(u) = {i}
    <3>1. PICK i \in Occupied : seat[i].user = u /\ S(u) = {i}
      BY <2>5
    <3>2. i \in SeatIndexes /\ changes[i] = after(i) - seat[i].stack /\ changes[i] \in Int
      BY <1>2, <2>2, <3>1 DEF Occupied
    <3>3. SumFunctionOnSet(changes, {i}) = after(i) - seat[i].stack
      BY <3>2, SumOfOne
    <3>4. \A j \in SeatIndexes : seat[j].user = u => j = i
      BY <3>1, CreatorAssumption DEF Occupied, S
    <3>5. after(i) - seat[i].stack \in Int
      BY <1>2, <3>2
    <3>6. QED
      BY <2>1, <3>1, <3>2, <3>3, <3>4, <3>5
  <2>6. QED
    BY <2>3, <2>4, <2>5
<1>9. \A u \in Users : ledger'[u] = ledger[u] + LedgerEntry(change(u)) /\ ledger[u] \in Int
  BY <1>1 DEF IInv, Typed
<1> HIDE DEF change
<1>10. ledger' \in [Users -> Int]
  <2>1. \A u \in Users : ledger[u] + LedgerEntry(change(u)) \in Int
    BY <1>8, <1>9 DEF LedgerEntry
  <2>2. QED
    BY <1>1, <2>1
<1>11. \A u \in Users :
         /\ \A i \in SeatIndexes : seat[i].user = u =>
              ledger'[u] + seat'[i].stack = ledger[u] + seat[i].stack
         /\ (\A i \in SeatIndexes : seat[i].user # u) => ledger'[u] = ledger[u]
  BY <1>2, <1>6, <1>8, <1>9 DEF LedgerEntry
<1>12. \A i \in SeatIndexes :
         \/ saved'[i].stack = saved[i].stack /\ seat'[i].stack = seat[i].stack
         \/ saved'[i].stack = seat'[i].stack
  BY <1>3, <1>6
<1>13. QED
  BY <1>6, <1>7, <1>10, <1>11, <1>12

-----------------------------------------------------------------------------
(* The steps.                                                              *)

\* An empty seat is in no round, and no correction waits in it.
LEMMA EmptySeats ==
  ASSUME IInv, NEW i \in SeatIndexes, seat[i].user = NoUser
  PROVE  i \notin dealt /\ corrections[i] = None
BY DEF IInv, CorrectionsOfSeated, DealtAreSeated, Occupied

\* A user who has no place sits down in an empty seat.
LEMMA SeatingKeepsOrder ==
  ASSUME IInv, NEW i \in SeatIndexes, NEW u \in Users, NEW buyIn \in BuyIns,
         seat[i].user = NoUser, u \notin Seated, seatPlayerDirect(i, u, buyIn),
         requests' \subseteq requests, \A r \in requests' : r.user # u,
         UNCHANGED <<owner, corrections, leaving, dealt, before, winnings>>
  PROVE  IInv'
<1> DEFINE row == [user |-> u, stack |-> buyIn, away |-> FALSE]
<1>1. buyIn \in Int
  BY AmountsAssumption
<1>2. Typed
  BY DEF IInv
<1>3. seat' = [seat EXCEPT ![i] = row] /\ saved' = [saved EXCEPT ![i] = row]
      /\ ledger' = [ledger EXCEPT ![u] = @ - buyIn]
  BY DEF seatPlayerDirect
<1>4. row \in SeatRecords
  BY <1>1 DEF SeatRecords
<1>5. Typed'
  BY <1>1, <1>2, <1>3, <1>4 DEF Typed
<1>6. /\ seat'[i] = row /\ saved'[i] = row
      /\ \A j \in SeatIndexes : j # i => seat'[j] = seat[j] /\ saved'[j] = saved[j]
      /\ ledger'[u] = ledger[u] - buyIn /\ ledger[u] \in Int
      /\ \A v \in Users : v # u => ledger'[v] = ledger[v]
  BY <1>2, <1>3 DEF Typed
<1>7. row.user = u /\ row.stack = buyIn /\ row.away = FALSE /\ u # NoUser
  BY CreatorAssumption
<1> HIDE DEF row
<1>8. \A j \in SeatIndexes : seat[j].user # u /\ saved[j].user # u
  <2>1. \A j \in SeatIndexes : seat[j].user # u
    BY <1>7 DEF Seated, Occupied
  <2>2. QED
    BY <2>1 DEF IInv, StoredSeats
<1>9. SinglePlaces'
  BY <1>6, <1>7, <1>8 DEF IInv, SinglePlaces, Occupied
<1>10. i \notin dealt /\ corrections[i] = None
  BY EmptySeats
<1>11. CorrectionsOfSeated'
  BY <1>6, <1>7, <1>10 DEF IInv, CorrectionsOfSeated
<1>12. DealtAreSeated'
  BY <1>6, <1>7, <1>10 DEF IInv, DealtAreSeated, Occupied
<1>13. StoredSeats'
  BY <1>6, <1>10 DEF IInv, StoredSeats
<1>14. LedgerBalances'
  <2> SUFFICES ASSUME NEW v \in Users
               PROVE  /\ \A j \in SeatIndexes : saved'[j].user = v =>
                           ledger'[v] + saved'[j].stack = winnings[v]
                      /\ (\A j \in SeatIndexes : saved'[j].user # v) => ledger'[v] = winnings[v]
    BY DEF LedgerBalances
  <2>1. CASE v = u
    <3>1. ledger[u] = winnings[u]
      BY <1>8 DEF IInv, LedgerBalances
    <3>2. ledger'[u] + buyIn = winnings[u]
      BY <1>1, <1>6, <3>1
    <3>3. QED
      BY <1>6, <1>7, <1>8, <2>1, <3>2
  <2>2. CASE v # u
    <3>1. saved[i].user = NoUser
      BY DEF IInv, StoredSeats
    <3>2. v # NoUser
      BY CreatorAssumption
    <3>3. QED
      BY <1>6, <1>7, <2>2, <3>1, <3>2 DEF IInv, LedgerBalances
  <2>3. QED
    BY <2>1, <2>2
<1>15. QED
  BY <1>5, <1>9, <1>11, <1>12, <1>13, <1>14 DEF IInv

\* The owner sits down, or somebody asks for a seat.
LEMMA RequestKeepsOrder ==
  ASSUME IInv, NEW u \in Users, NEW i \in SeatIndexes, requestSeat(u, i)
  PROVE  IInv'
<1>1. seat[i].user = NoUser /\ u \notin Seated /\ \A r \in requests : r.user # u
  BY DEF requestSeat, MayRequest
<1>2. UNCHANGED <<owner, corrections, leaving, dealt, before, winnings>>
  BY DEF requestSeat
<1>3. CASE u = owner
  BY <1>1, <1>2, <1>3, SeatingKeepsOrder DEF requestSeat
<1>4. CASE u # owner
  <2>1. requests' = requests \cup {[user |-> u, at |-> i]} /\ UNCHANGED <<seat, saved, ledger>>
    BY <1>4 DEF requestSeat
  <2>2. SinglePlaces'
    BY <1>1, <2>1 DEF IInv, SinglePlaces, Occupied, Seated
  <2>3. Typed'
    BY <1>2, <2>1 DEF IInv, Typed
  <2>4. /\ CorrectionsOfSeated' /\ DealtAreSeated' /\ StoredSeats' /\ LedgerBalances'
    BY <1>2, <2>1 DEF IInv, CorrectionsOfSeated, DealtAreSeated, StoredSeats, LedgerBalances, Occupied
  <2>5. QED
    BY <2>2, <2>3, <2>4 DEF IInv
<1>5. QED
  BY <1>3, <1>4

\* The owner approves a request, or it is dropped.
LEMMA DecisionKeepsOrder ==
  ASSUME IInv, NEW r \in requests, approveSeatRequest(r) \/ DropSeatRequest(r)
  PROVE  IInv'
<1>1. r.user \in Users /\ r.at \in SeatIndexes
  BY DEF IInv, Typed
<1>2. /\ requests' = requests \ {r}
      /\ UNCHANGED <<owner, corrections, leaving, dealt, before, winnings>>
  BY DEF approveSeatRequest, DropSeatRequest
<1>3. CASE UNCHANGED <<seat, saved, ledger>>
  <2>1. Typed' /\ SinglePlaces'
    BY <1>2, <1>3 DEF IInv, Typed, SinglePlaces, Occupied
  <2>2. CorrectionsOfSeated' /\ DealtAreSeated' /\ StoredSeats' /\ LedgerBalances'
    BY <1>2, <1>3 DEF IInv, CorrectionsOfSeated, DealtAreSeated, StoredSeats, LedgerBalances, Occupied
  <2>3. QED
    BY <2>1, <2>2 DEF IInv
<1>4. CASE /\ seat[r.at].user = NoUser
           /\ \E buyIn \in BuyIns : seatPlayerDirect(r.at, r.user, buyIn)
  <2>1. r.user \notin Seated /\ \A q \in requests' : q.user # r.user
    BY <1>2 DEF IInv, SinglePlaces, Seated
  <2>2. QED
    BY <1>1, <1>2, <1>4, <2>1, SeatingKeepsOrder
<1>5. QED
  BY <1>3, <1>4 DEF approveSeatRequest, DropSeatRequest

\* A player leaves between rounds.
LEMMA RemovalKeepsOrder ==
  ASSUME IInv, NEW i \in SeatIndexes, removePlayer(i)
  PROVE  IInv'
<1> DEFINE u == seat[i].user
<1>1. /\ seat' = [seat EXCEPT ![i] = Empty] /\ saved' = [saved EXCEPT ![i] = Empty]
      /\ corrections' = [corrections EXCEPT ![i] = None]
      /\ ledger' = [ledger EXCEPT ![u] = @ + seat[i].stack]
      /\ UNCHANGED <<owner, requests, leaving, dealt, before, winnings>>
  BY DEF removePlayer, clearSeat
<1>2. i \in Occupied /\ dealt = {}
  BY DEF removePlayer, MayRemove, Live
<1>3. Typed
  BY DEF IInv
<1>4. u \in Users /\ seat[i].stack \in Int
  BY <1>2, <1>3 DEF Typed, SeatRecords, Occupied
<1>5. Empty \in SeatRecords /\ Empty.user = NoUser
  BY DEF Empty, SeatRecords
<1>6. Typed'
  BY <1>1, <1>3, <1>4, <1>5 DEF Typed
<1>7. /\ seat'[i] = Empty /\ saved'[i] = Empty /\ corrections'[i] = None
      /\ \A j \in SeatIndexes : j # i => /\ seat'[j] = seat[j] /\ saved'[j] = saved[j]
                                         /\ corrections'[j] = corrections[j]
      /\ ledger'[u] = ledger[u] + seat[i].stack /\ ledger[u] \in Int
      /\ \A v \in Users : v # u => ledger'[v] = ledger[v]
  BY <1>1, <1>3, <1>4 DEF Typed
<1>8. SinglePlaces'
  BY <1>1, <1>5, <1>7 DEF IInv, SinglePlaces, Occupied
<1>9. CorrectionsOfSeated'
  BY <1>7 DEF IInv, CorrectionsOfSeated
<1>10. DealtAreSeated' /\ StoredSeats'
  BY <1>1, <1>2, <1>7 DEF IInv, DealtAreSeated, StoredSeats
<1>11. LedgerBalances'
  <2>1. saved[i].user = u /\ saved[i].stack = seat[i].stack
    BY <1>2 DEF IInv, StoredSeats
  <2>2. \A j \in SeatIndexes : saved[j].user = u => j = i
    BY <1>2, <1>4, CreatorAssumption DEF IInv, StoredSeats, SinglePlaces, Occupied
  <2>3. ledger[u] + seat[i].stack = winnings[u]
    BY <1>4, <2>1 DEF IInv, LedgerBalances
  <2>4. \A v \in Users : v # NoUser
    BY CreatorAssumption
  <2> HIDE DEF u
  <2>5. QED
    BY <1>1, <1>5, <1>7, <2>1, <2>2, <2>3, <2>4 DEF IInv, LedgerBalances
<1>12. QED
  BY <1>6, <1>8, <1>9, <1>10, <1>11 DEF IInv

\* The table gets another owner.
LEMMA TransferKeepsOrder ==
  ASSUME IInv, NEW i \in SeatIndexes, transferOwnership(i)
  PROVE  IInv'
<1>1. UNCHANGED <<memory, saved, ledger, winnings>> /\ owner' = seat[i].user /\ i \in Occupied
  BY DEF transferOwnership
<1>2. Typed'
  BY <1>1 DEF IInv, Typed, memory, SeatRecords, Occupied
<1>3. /\ SinglePlaces' /\ CorrectionsOfSeated' /\ DealtAreSeated'
      /\ StoredSeats' /\ LedgerBalances'
  BY <1>1 DEF IInv, SinglePlaces, CorrectionsOfSeated, DealtAreSeated, StoredSeats,
              LedgerBalances, Occupied, memory
<1>4. QED
  BY <1>2, <1>3 DEF IInv

\* A step that leaves users and stacks alone, in the seats and in the database, and keeps
\* the away flags of both in step.
LEMMA FlagsKeepOrder ==
  ASSUME IInv,
         seat' \in [SeatIndexes -> SeatRecords], saved' \in [SeatIndexes -> SeatRecords],
         \A j \in SeatIndexes :
           /\ seat'[j].user = seat[j].user /\ seat'[j].stack = seat[j].stack
           /\ saved'[j].user = saved[j].user /\ saved'[j].stack = saved[j].stack
           /\ seat'[j].away = saved'[j].away,
         UNCHANGED <<owner, requests, corrections, dealt, before, ledger, winnings>>
  PROVE  IInv'
<1>1. Typed'
  BY DEF IInv, Typed
<1>2. SinglePlaces' /\ CorrectionsOfSeated' /\ DealtAreSeated'
  BY DEF IInv, SinglePlaces, CorrectionsOfSeated, DealtAreSeated, Occupied
<1>3. StoredSeats' /\ LedgerBalances'
  BY DEF IInv, StoredSeats, LedgerBalances
<1>4. QED
  BY <1>1, <1>2, <1>3 DEF IInv

\* A player goes away or comes back, at once or after the hand.
LEMMA AwayKeepsOrder ==
  ASSUME IInv, NEW i \in SeatIndexes, NEW away \in BOOLEAN,
         setSeatAway(i, away) \/ setSeatAwayAfterHand(i, away)
  PROVE  IInv'
<1>1. Typed /\ StoredSeats
  BY DEF IInv
<1>2. CASE setSeatAway(i, away)
  <2>1. /\ seat' = [seat EXCEPT ![i].away = away] /\ saved' = [saved EXCEPT ![i].away = away]
        /\ UNCHANGED <<owner, requests, corrections, dealt, before, ledger, winnings>>
    BY <1>2 DEF setSeatAway
  <2>2. seat' \in [SeatIndexes -> SeatRecords] /\ saved' \in [SeatIndexes -> SeatRecords]
    BY <1>1, <2>1 DEF Typed, SeatRecords
  <2>3. \A j \in SeatIndexes :
          /\ seat'[j].user = seat[j].user /\ seat'[j].stack = seat[j].stack
          /\ saved'[j].user = saved[j].user /\ saved'[j].stack = saved[j].stack
          /\ seat'[j].away = saved'[j].away
    BY <1>1, <2>1 DEF Typed, SeatRecords, StoredSeats
  <2>4. QED
    BY <2>1, <2>2, <2>3, FlagsKeepOrder
<1>3. CASE setSeatAwayAfterHand(i, away)
  <2>1. UNCHANGED <<seat, owner, requests, corrections, dealt, before, saved, ledger, winnings>>
    BY <1>3 DEF setSeatAwayAfterHand
  <2>2. QED
    BY <1>1, <2>1, FlagsKeepOrder DEF Typed, StoredSeats
<1>4. QED
  BY <1>2, <1>3

\* The owner corrects a stack, or has the correction wait for the end of the round.
LEMMA AdjustmentKeepsOrder ==
  ASSUME IInv, NEW i \in SeatIndexes, NEW mode \in {"add", "remove", "set"},
         NEW amount \in Amounts, adjustStack(i, mode, amount)
  PROVE  IInv'
<1> DEFINE c == [user |-> seat[i].user, mode |-> mode, amount |-> amount]
           d == [NoCorrections EXCEPT ![i] = c]
<1>1. i \in Occupied /\ UNCHANGED <<owner, requests, leaving, dealt, before, winnings>>
  BY DEF adjustStack
<1>2. c \in Corrections /\ c.user = seat[i].user
  BY <1>1 DEF IInv, Typed, SeatRecords, Occupied, Corrections
<1>3. CASE Live
  <2>1. corrections' = [corrections EXCEPT ![i] = c] /\ UNCHANGED <<seat, saved, ledger>>
    BY <1>3 DEF adjustStack
  <2> HIDE DEF c
  <2>2. Typed'
    BY <1>1, <1>2, <2>1 DEF IInv, Typed
  <2>3. CorrectionsOfSeated'
    BY <1>1, <1>2, <2>1 DEF IInv, Typed, CorrectionsOfSeated, Occupied
  <2>4. SinglePlaces' /\ DealtAreSeated' /\ StoredSeats' /\ LedgerBalances'
    BY <1>1, <2>1 DEF IInv, SinglePlaces, DealtAreSeated, StoredSeats, LedgerBalances, Occupied
  <2>5. QED
    BY <2>2, <2>3, <2>4 DEF IInv
<1>4. CASE ~Live
  <2>1. applyStackAdjustments(d) /\ corrections' = corrections
    BY <1>4 DEF adjustStack
  <2>2. \A j \in SeatIndexes : d[j] \in {None} \cup Corrections
    BY <1>2 DEF NoCorrections
  <2>3. dealt = {} /\ dealt' = {}
    BY <1>1, <1>4 DEF Live
  <2> HIDE DEF d, c
  <2>4. /\ seat' \in [SeatIndexes -> SeatRecords] /\ saved' \in [SeatIndexes -> SeatRecords]
        /\ ledger' \in [Users -> Int]
        /\ \A j \in SeatIndexes :
             /\ seat'[j].user = seat[j].user /\ seat'[j].away = seat[j].away
             /\ saved'[j].user = saved[j].user /\ saved'[j].away = saved[j].away
             /\ \/ saved'[j].stack = saved[j].stack /\ seat'[j].stack = seat[j].stack
                \/ saved'[j].stack = seat'[j].stack
        /\ \A u \in Users :
             /\ \A j \in SeatIndexes : seat[j].user = u =>
                  ledger'[u] + seat'[j].stack = ledger[u] + seat[j].stack
             /\ (\A j \in SeatIndexes : seat[j].user # u) => ledger'[u] = ledger[u]
    BY <2>1, <2>2, CorrectionsAreBooked
  <2>5. Typed'
    BY <1>1, <2>1, <2>4 DEF IInv, Typed
  <2>6. SinglePlaces' /\ CorrectionsOfSeated'
    BY <1>1, <2>1, <2>4 DEF IInv, SinglePlaces, CorrectionsOfSeated, Occupied
  <2>7. StoredSeats' /\ DealtAreSeated'
    BY <2>3, <2>4 DEF IInv, StoredSeats, DealtAreSeated
  <2>8. LedgerBalances'
    BY <1>1, <2>3, <2>4, <2>7 DEF IInv, LedgerBalances, StoredSeats
  <2>9. QED
    BY <2>5, <2>6, <2>7, <2>8 DEF IInv
<1>5. QED
  BY <1>3, <1>4

\* A round begins with the corrections that waited for it.
LEMMA StartKeepsOrder ==
  ASSUME IInv, startHand
  PROVE  IInv'
<1>1. /\ dealt = {} /\ applyStackAdjustments(corrections)
      /\ corrections' = NoCorrections
      /\ before' = [i \in {j \in Occupied : ~seat[j].away} |-> seat'[i].stack]
      /\ dealt' \subseteq activeSeats(seat')
      /\ UNCHANGED <<owner, requests, leaving, winnings>>
  BY DEF startHand, Live
<1>2. \A j \in SeatIndexes : corrections[j] \in {None} \cup Corrections
  BY DEF IInv, Typed
<1>3. /\ seat' \in [SeatIndexes -> SeatRecords] /\ saved' \in [SeatIndexes -> SeatRecords]
      /\ ledger' \in [Users -> Int]
      /\ \A j \in SeatIndexes :
           /\ seat'[j].user = seat[j].user /\ seat'[j].away = seat[j].away
           /\ saved'[j].user = saved[j].user /\ saved'[j].away = saved[j].away
           /\ \/ saved'[j].stack = saved[j].stack /\ seat'[j].stack = seat[j].stack
              \/ saved'[j].stack = seat'[j].stack
      /\ \A u \in Users :
           /\ \A j \in SeatIndexes : seat[j].user = u =>
                ledger'[u] + seat'[j].stack = ledger[u] + seat[j].stack
           /\ (\A j \in SeatIndexes : seat[j].user # u) => ledger'[u] = ledger[u]
  BY <1>1, <1>2, CorrectionsAreBooked
<1>4. Typed'
  BY <1>1, <1>3 DEF IInv, Typed, NoCorrections
<1>5. SinglePlaces' /\ CorrectionsOfSeated'
  BY <1>1, <1>3 DEF IInv, SinglePlaces, CorrectionsOfSeated, NoCorrections, Occupied
<1>6. \A i \in dealt' : i \in Occupied /\ ~seat[i].away /\ i \in SeatIndexes
  BY <1>1, <1>3 DEF activeSeats, Occupied
<1>7. \A i \in dealt' : before'[i] = seat'[i].stack /\ seat'[i].stack \in Int
  BY <1>1, <1>3, <1>6 DEF SeatRecords
<1>8. \A j \in SeatIndexes : saved'[j].stack = seat'[j].stack
  BY <1>1, <1>3 DEF IInv, StoredSeats
<1>9. DealtAreSeated'
  BY <1>3, <1>6, <1>7 DEF DealtAreSeated, Occupied
<1>10. StoredSeats'
  BY <1>3, <1>7, <1>8 DEF IInv, StoredSeats
<1>11. LedgerBalances'
  <2>1. winnings' = winnings /\ \A j \in SeatIndexes : saved[j].stack = seat[j].stack
    BY <1>1 DEF IInv, StoredSeats
  <2>2. \A j \in SeatIndexes : saved'[j].user = seat[j].user /\ saved[j].user = seat[j].user
    BY <1>3 DEF IInv, StoredSeats
  <2>3. QED
    BY <1>3, <1>8, <2>1, <2>2 DEF IInv, LedgerBalances
<1>12. QED
  BY <1>4, <1>5, <1>9, <1>10, <1>11 DEF IInv

\* A chip moves between two seats of the round.
LEMMA PlayKeepsOrder ==
  ASSUME IInv, NEW i \in SeatIndexes, NEW j \in SeatIndexes, ChipsMove(i, j)
  PROVE  IInv'
<1>1. /\ i \in dealt /\ j \in dealt /\ i # j
      /\ seat' = [seat EXCEPT ![i].stack = @ - 1, ![j].stack = @ + 1]
      /\ UNCHANGED <<owner, requests, corrections, leaving, dealt, before, saved, ledger, winnings>>
  BY DEF ChipsMove
<1>2. seat \in [SeatIndexes -> SeatRecords]
  BY DEF IInv, Typed
<1>3. seat' \in [SeatIndexes -> SeatRecords]
  BY <1>1, <1>2 DEF SeatRecords
<1>4. \A k \in SeatIndexes : /\ seat'[k].user = seat[k].user /\ seat'[k].away = seat[k].away
                             /\ k \notin dealt => seat'[k] = seat[k]
  BY <1>1, <1>2 DEF SeatRecords
<1>5. UNCHANGED <<owner, requests, corrections, dealt, before, saved, ledger, winnings>>
  BY <1>1
<1>6. Typed'
  BY <1>3, <1>5 DEF IInv, Typed
<1>7. SinglePlaces' /\ CorrectionsOfSeated' /\ DealtAreSeated'
  BY <1>4, <1>5 DEF IInv, SinglePlaces, CorrectionsOfSeated, DealtAreSeated, Occupied
<1>8. StoredSeats' /\ LedgerBalances'
  BY <1>4, <1>5 DEF IInv, StoredSeats, LedgerBalances
<1>9. QED
  BY <1>6, <1>7, <1>8 DEF IInv

\* What a player has won in the round is what the stack of its seat has changed by.
LEMMA WonByUser ==
  ASSUME IInv, SettleRound, NEW u \in Users
  PROVE  /\ \A i \in dealt : seat[i].user = u =>
              winnings'[u] = winnings[u] + (seat[i].stack - before[i])
         /\ (\A i \in dealt : seat[i].user # u) => winnings'[u] = winnings[u]
<1> DEFINE S(v) == {i \in dealt : seat[i].user = v}
           won(v) == MapThenSumSet(LAMBDA i : seat[i].stack - before[i], S(v))
<1>1. winnings' = [v \in Users |-> winnings[v] + won(v)]
  BY Zenon DEF SettleRound
<1>2. \A v : won(v) = SumFunctionOnSet([i \in S(v) |-> seat[i].stack - before[i]], S(v))
  BY ZenonT(60) DEF MapThenSumSet, MapThenFoldSet, SumFunctionOnSet, FoldFunctionOnSet
<1> DEFINE gains == [i \in S(u) |-> seat[i].stack - before[i]]
<1>3. won(u) = SumFunctionOnSet(gains, S(u))
  BY <1>2, Zenon
<1> HIDE DEF won
<1>4. winnings'[u] = winnings[u] + won(u) /\ winnings[u] \in Int
  BY <1>1 DEF IInv, Typed
<1>5. \A i \in S(u) : gains[i] = seat[i].stack - before[i] /\ gains[i] \in Int
  BY DEF IInv, Typed, SeatRecords, DealtAreSeated, Occupied
<1>6. \A i, j \in S(u) : i = j
  BY DEF IInv, SinglePlaces, DealtAreSeated
<1> HIDE DEF gains
<1>7. CASE S(u) = {}
  <2>1. SumFunctionOnSet(gains, {}) = 0
    BY SumOfNone
  <2>2. \A i \in dealt : seat[i].user # u
    BY <1>7
  <2> HIDE DEF S
  <2>3. QED
    BY <1>3, <1>4, <1>7, <2>1, <2>2
<1>8. CASE S(u) # {}
  <2>1. PICK i \in dealt : i \in S(u)
    BY <1>8
  <2>2. S(u) = {i}
    BY <1>6, <2>1
  <2>3. \A j \in dealt : seat[j].user = u => j = i
    BY <2>2
  <2>4. seat[i].user = u
    BY <2>1
  <2> HIDE DEF S
  <2>5. SumFunctionOnSet(gains, {i}) = gains[i]
    BY <1>5, <2>1, SumOfOne
  <2>6. won(u) = seat[i].stack - before[i]
    BY <1>3, <1>5, <2>1, <2>2, <2>5
  <2>7. QED
    BY <1>4, <2>1, <2>3, <2>4, <2>6
<1>9. QED
  BY <1>7, <1>8

\* The round is over.
LEMMA SettlingKeepsOrder ==
  ASSUME IInv, SettleRound
  PROVE  IInv'
<1>1. /\ \A u \in Users : winnings'[u] \in (0 - MaxWinnings) .. MaxWinnings
      /\ winnings' \in [Users -> Int]
  <2> DEFINE won(u) == MapThenSumSet(LAMBDA i : seat[i].stack - before[i],
                                     {i \in dealt : seat[i].user = u})
  <2>1. /\ winnings' = [u \in Users |-> winnings[u] + won(u)]
        /\ \A u \in Users : winnings[u] + won(u) \in (0 - MaxWinnings) .. MaxWinnings
    BY Zenon DEF SettleRound
  <2> HIDE DEF won
  <2>2. QED
    BY <2>1, AmountsAssumption
<1>2. /\ seat' = [i \in SeatIndexes |-> [seat[i] EXCEPT !.away = @ \/ i \in SentAway]]
      /\ saved' = [i \in SeatIndexes |-> [saved[i] EXCEPT !.stack = StoredStack(i),
                                                         !.away = @ \/ i \in SentAway]]
      /\ dealt' = {} /\ UNCHANGED <<owner, requests, corrections, ledger>>
  BY Zenon DEF SettleRound
<1>3. \A i \in SeatIndexes : StoredStack(i) \in Int /\ (i \in Occupied => StoredStack(i) = seat[i].stack)
  BY DEF StoredStack, IInv, Typed, SeatRecords
<1>4. Typed'
  <2>1. seat' \in [SeatIndexes -> SeatRecords]
    BY <1>2 DEF IInv, Typed, SeatRecords
  <2>2. saved' \in [SeatIndexes -> SeatRecords]
    BY <1>2, <1>3 DEF IInv, Typed, SeatRecords
  <2>3. QED
    BY <1>1, <1>2, <2>1, <2>2 DEF IInv, Typed
<1>5. \A i \in SeatIndexes :
        /\ seat'[i].user = seat[i].user /\ seat'[i].stack = seat[i].stack
        /\ seat'[i].away = (seat[i].away \/ i \in SentAway)
        /\ saved'[i].user = saved[i].user /\ saved'[i].stack = StoredStack(i)
        /\ saved'[i].away = (saved[i].away \/ i \in SentAway)
  BY <1>2 DEF IInv, Typed, SeatRecords
<1>6. SinglePlaces' /\ CorrectionsOfSeated' /\ DealtAreSeated'
  <2>1. dealt' = {} /\ UNCHANGED <<requests, corrections>>
    BY <1>2
  <2>2. \A i \in SeatIndexes : seat'[i].user = seat[i].user
    BY <1>5
  <2>3. QED
    BY <2>1, <2>2 DEF IInv, SinglePlaces, CorrectionsOfSeated, DealtAreSeated, Occupied
<1>7. \A i \in SeatIndexes : StoredStack(i) = seat[i].stack
  BY DEF StoredStack, IInv, StoredSeats, DealtAreSeated
<1>8. StoredSeats'
  <2>1. \A i \in SeatIndexes : saved'[i].user = seat'[i].user /\ saved'[i].stack = seat'[i].stack
    BY <1>5, <1>7 DEF IInv, StoredSeats
  <2>2. \A i \in SeatIndexes : saved'[i].away = seat'[i].away
    <3>1. \A i \in SeatIndexes : saved[i].away = seat[i].away
      BY DEF IInv, StoredSeats
    <3>2. QED
      BY <1>5, <3>1, Zenon
  <2>3. dealt' = {}
    BY <1>2
  <2>4. QED
    BY <2>1, <2>2, <2>3 DEF StoredSeats
<1>9. LedgerBalances'
  <2> SUFFICES ASSUME NEW u \in Users
               PROVE  /\ \A i \in SeatIndexes : saved'[i].user = u =>
                           ledger'[u] + saved'[i].stack = winnings'[u]
                      /\ (\A i \in SeatIndexes : saved'[i].user # u) => ledger'[u] = winnings'[u]
    BY DEF LedgerBalances
  <2>1. \A i \in SeatIndexes : saved[i].user = seat[i].user
    BY DEF IInv, StoredSeats
  <2>2. ASSUME NEW i \in SeatIndexes, saved'[i].user = u
        PROVE  ledger'[u] + saved'[i].stack = winnings'[u]
    <3>1. seat[i].user = u /\ saved'[i].stack = seat[i].stack /\ i \in Occupied
      BY <1>5, <1>7, <2>1, <2>2, CreatorAssumption DEF Occupied
    <3>2. ledger[u] + saved[i].stack = winnings[u]
      BY <2>1, <3>1 DEF IInv, LedgerBalances
    <3>3. ledger[u] \in Int /\ winnings[u] \in Int /\ saved[i].stack \in Int /\ seat[i].stack \in Int
      BY DEF IInv, Typed, SeatRecords
    <3>4. CASE i \in dealt
      <4>1. winnings'[u] = winnings[u] + (seat[i].stack - before[i])
        BY <3>1, <3>4, WonByUser
      <4>2. saved[i].stack = before[i]
        BY <3>4 DEF IInv, StoredSeats
      <4>3. ledger' = ledger
        BY <1>2
      <4>4. QED
        BY <3>1, <3>2, <3>3, <4>1, <4>2, <4>3
    <3>5. CASE i \notin dealt
      <4>1. \A j \in dealt : seat[j].user # u
        BY <3>1, <3>5 DEF IInv, SinglePlaces, DealtAreSeated
      <4>2. winnings'[u] = winnings[u]
        BY <4>1, WonByUser
      <4>3. saved[i].stack = seat[i].stack
        BY <3>5 DEF IInv, StoredSeats
      <4>4. QED
        BY <1>2, <3>1, <3>2, <4>2, <4>3
    <3>6. QED
      BY <3>4, <3>5
  <2>3. ASSUME \A i \in SeatIndexes : saved'[i].user # u
        PROVE  ledger'[u] = winnings'[u]
    <3>1. \A i \in SeatIndexes : saved[i].user # u /\ seat[i].user # u
      BY <1>5, <2>1, <2>3
    <3>2. winnings'[u] = winnings[u]
      BY <3>1, WonByUser DEF IInv, DealtAreSeated, Occupied
    <3>3. QED
      BY <1>2, <3>1, <3>2 DEF IInv, LedgerBalances
  <2>4. QED
    BY <2>2, <2>3
<1>10. QED
  BY <1>4, <1>6, <1>8, <1>9 DEF IInv

\* The server starts again.
LEMMA RestartKeepsOrder ==
  ASSUME IInv, Restart
  PROVE  IInv'
<1>1. /\ seat' = saved /\ requests' = {} /\ corrections' = NoCorrections /\ dealt' = {}
      /\ UNCHANGED <<owner, saved, ledger, winnings>>
  BY DEF Restart
<1>2. Typed'
  BY <1>1 DEF IInv, Typed, NoCorrections
<1>3. SinglePlaces' /\ CorrectionsOfSeated' /\ DealtAreSeated'
  BY <1>1 DEF IInv, SinglePlaces, CorrectionsOfSeated, DealtAreSeated, StoredSeats, NoCorrections,
              Occupied
<1>4. StoredSeats' /\ LedgerBalances'
  BY <1>1 DEF IInv, StoredSeats, LedgerBalances
<1>5. QED
  BY <1>2, <1>3, <1>4 DEF IInv

-----------------------------------------------------------------------------
(* The theorems.                                                           *)

\* A new table is in order.
LEMMA NewTableInOrder == Init => IInv
<1> SUFFICES ASSUME Init PROVE IInv
  OBVIOUS
<1>1. Empty \in SeatRecords /\ Empty.user = NoUser
  BY DEF Empty, SeatRecords
<1>2. Typed
  BY <1>1, CreatorAssumption DEF Init, Typed, NoCorrections
<1>3. Occupied = {}
  BY <1>1 DEF Init, Occupied
<1>4. SinglePlaces /\ DealtAreSeated
  BY <1>3 DEF Init, SinglePlaces, DealtAreSeated
<1>5. CorrectionsOfSeated
  BY DEF Init, CorrectionsOfSeated, NoCorrections
<1>6. StoredSeats
  BY DEF Init, StoredSeats
<1>7. LedgerBalances
  <2>1. \A i \in SeatIndexes : saved[i].user = NoUser
    BY <1>1 DEF Init
  <2>2. QED
    BY <2>1, CreatorAssumption DEF Init, LedgerBalances
<1>8. QED
  BY <1>2, <1>4, <1>5, <1>6, <1>7 DEF IInv

\* Every step keeps the table in order.
LEMMA StepKeepsOrder == IInv /\ [Next]_vars => IInv'
<1> SUFFICES ASSUME IInv, [Next]_vars PROVE IInv'
  OBVIOUS
<1>1. CASE \E u \in Users, i \in SeatIndexes : requestSeat(u, i)
  BY <1>1, RequestKeepsOrder
<1>2. CASE \E r \in requests : approveSeatRequest(r) \/ DropSeatRequest(r)
  BY <1>2, DecisionKeepsOrder
<1>3. CASE \E i \in SeatIndexes : removePlayer(i) \/ transferOwnership(i)
  BY <1>3, RemovalKeepsOrder, TransferKeepsOrder
<1>4. CASE \E i \in SeatIndexes, away \in BOOLEAN :
             setSeatAway(i, away) \/ setSeatAwayAfterHand(i, away)
  BY <1>4, AwayKeepsOrder
<1>5. CASE \E i \in SeatIndexes, mode \in {"add", "remove", "set"}, amount \in Amounts :
             adjustStack(i, mode, amount)
  BY <1>5, AdjustmentKeepsOrder
<1>6. CASE startHand
  BY <1>6, StartKeepsOrder
<1>7. CASE \E i, j \in SeatIndexes : ChipsMove(i, j)
  BY <1>7, PlayKeepsOrder
<1>8. CASE SettleRound
  BY <1>8, SettlingKeepsOrder
<1>9. CASE Restart
  BY <1>9, RestartKeepsOrder
<1>10. CASE UNCHANGED vars
  <2>1. Typed' /\ SinglePlaces' /\ CorrectionsOfSeated'
    BY <1>10 DEF vars, memory, IInv, Typed, SinglePlaces, CorrectionsOfSeated, Occupied
  <2>2. DealtAreSeated' /\ StoredSeats' /\ LedgerBalances'
    BY <1>10 DEF vars, memory, IInv, DealtAreSeated, StoredSeats, LedgerBalances, Occupied
  <2>3. QED
    BY <2>1, <2>2 DEF IInv
<1>11. QED
  BY <1>1, <1>2, <1>3, <1>4, <1>5, <1>6, <1>7, <1>8, <1>9, <1>10 DEF Next

\* The table stays in order for ever.
THEOREM TableInOrder == Spec => []IInv
BY NewTableInOrder, StepKeepsOrder, PTL DEF Spec

\* A set no two elements of which differ has one element at most.
LEMMA OneAtMost ==
  ASSUME NEW S, \A x, y \in S : x = y
  PROVE  Cardinality(S) = IF S = {} THEN 0 ELSE 1
<1>1. CASE S = {}
  BY <1>1, FS_EmptySet
<1>2. CASE S # {}
  <2>1. PICK x \in S : TRUE
    BY <1>2
  <2>2. S = {x}
    BY <2>1
  <2>3. QED
    BY <2>2, FS_Singleton
<1>3. QED
  BY <1>1, <1>2

\* What requestSeat, approveSeatRequest and the rest of TablesService let a user have, and
\* what the page offers and keeps from them, at a table that is in order.
LEMMA OrderGivesOnePlace == IInv => OnePlaceEach
<1> SUFFICES ASSUME IInv, NEW u \in Users
             PROVE  /\ Cardinality({i \in Occupied : seat[i].user = u})
                         + Cardinality({r \in requests : r.user = u}) <= 1
                    /\ \A i \in SeatIndexes :
                         canSit(u, i) => MayRequest(u, i) \/ \E r \in requests : r.user = u /\ r.at # i
                    /\ \A r \in requests :
                         requestControls(owner, r) = {} \/ requestControls(r.user, r) = {} =>
                           seat[r.at].user \in Users \ {r.user}
  BY DEF OnePlaceEach
<1>1. Cardinality({i \in Occupied : seat[i].user = u})
        + Cardinality({r \in requests : r.user = u}) <= 1
  <2> DEFINE S == {i \in Occupied : seat[i].user = u}
             R == {r \in requests : r.user = u}
  <2>1. /\ \A x, y \in S : x = y
        /\ \A x, y \in R : x = y
        /\ S = {} \/ R = {}
    BY DEF IInv, SinglePlaces
  <2> HIDE DEF S, R
  <2>2. /\ Cardinality(S) = IF S = {} THEN 0 ELSE 1
        /\ Cardinality(R) = IF R = {} THEN 0 ELSE 1
    BY <2>1, OneAtMost
  <2>3. Cardinality(S) + Cardinality(R) <= 1
    BY <2>1, <2>2
  <2>4. QED
    BY <2>3 DEF S, R
<1>2. \A i \in SeatIndexes :
        canSit(u, i) => MayRequest(u, i) \/ \E r \in requests : r.user = u /\ r.at # i
  BY DEF canSit, MayRequest
<1>3. ASSUME NEW r \in requests,
             requestControls(owner, r) = {} \/ requestControls(r.user, r) = {}
      PROVE  seat[r.at].user \in Users \ {r.user}
  <2>1. seat[r.at].user # NoUser
    BY <1>3 DEF requestControls
  <2>2. r.at \in SeatIndexes /\ seat[r.at].user \in Users
    BY <2>1 DEF IInv, Typed, SeatRecords
  <2>3. QED
    BY <2>1, <2>2 DEF IInv, SinglePlaces, Occupied
<1>4. QED
  BY <1>1, <1>2, <1>3

\* At a table in order the ledger shows what was won.
LEMMA OrderGivesLedger == IInv => LedgerShowsWinnings
<1> SUFFICES ASSUME IInv, ~Live, NEW u \in Users PROVE net(u) = winnings[u]
  BY DEF LedgerShowsWinnings
<1>1. \A i \in SeatIndexes : saved[i].user = seat[i].user /\ saved[i].stack = seat[i].stack
  BY DEF Live, IInv, StoredSeats
<1>2. CASE \E i \in SeatIndexes : seat[i].user = u
  BY <1>1, <1>2, NetOfUser DEF IInv, LedgerBalances
<1>3. CASE \A i \in SeatIndexes : seat[i].user # u
  BY <1>1, <1>3, NetOfUser DEF IInv, LedgerBalances
<1>4. QED
  BY <1>2, <1>3

\* For every table, nobody ever has two places (requestSeat, approveSeatRequest, seatPlayer).
THEOREM NobodySitsTwice == Spec => []OnePlaceEach
BY TableInOrder, OrderGivesOnePlace, PTL

\* For every table, the ledger of getLedger shows between rounds what its users have won.
THEOREM LedgerIsRight == Spec => []LedgerShowsWinnings
BY TableInOrder, OrderGivesLedger, PTL

\* The database always holds the seats, with the stacks the live round began with, so that
\* onModuleInit finds the table as it was before that round.
THEOREM DatabaseHoldsTheTable == Spec => []StoredSeats
<1>1. IInv => StoredSeats
  BY DEF IInv
<1>2. QED
  BY <1>1, TableInOrder, PTL

\* A correction is applied to the player it was meant for (adjustStack, clearSeat, startHand).
THEOREM CorrectionsAreNotInherited == Spec => []CorrectionsFindTheirPlayer
<1>1. IInv => CorrectionsFindTheirPlayer
  BY DEF IInv, CorrectionsOfSeated, CorrectionsFindTheirPlayer
<1>2. QED
  BY <1>1, TableInOrder, PTL

\* Nobody dealt into a round leaves its seat, or is seated there, before the round is over.
THEOREM PlayersStay == Spec => RoundKeepsItsPlayers
<1> DEFINE Stay == Live /\ dealt' = dealt => \A i \in dealt : seat'[i].user = seat[i].user
<1>1. ASSUME IInv, [Next]_vars, Live, dealt' = dealt, NEW i \in dealt
      PROVE  seat'[i].user = seat[i].user
  <2>1. i \in Occupied /\ i \in SeatIndexes /\ seat \in [SeatIndexes -> SeatRecords]
    BY <1>1 DEF IInv, Typed, DealtAreSeated, Occupied
  <2>2. ASSUME NEW j \in SeatIndexes, NEW u, NEW buyIn, seat[j].user = NoUser, seatPlayerDirect(j, u, buyIn)
        PROVE  seat'[i] = seat[i]
    BY <2>1, <2>2 DEF seatPlayerDirect, Occupied
  <2>3. CASE \E u \in Users, j \in SeatIndexes : requestSeat(u, j)
    BY <2>2, <2>3 DEF requestSeat, MayRequest
  <2>4. CASE \E r \in requests : approveSeatRequest(r) \/ DropSeatRequest(r)
    <3>1. \A r \in requests : r.at \in SeatIndexes
      BY <1>1 DEF IInv, Typed
    <3>2. QED
      BY <2>2, <2>4, <3>1 DEF approveSeatRequest, DropSeatRequest
  <2>5. CASE \E j \in SeatIndexes : removePlayer(j) \/ transferOwnership(j)
    BY <1>1, <2>5 DEF removePlayer, MayRemove, transferOwnership, memory
  <2>6. CASE \E j \in SeatIndexes, away \in BOOLEAN :
               setSeatAway(j, away) \/ setSeatAwayAfterHand(j, away)
    BY <2>1, <2>6 DEF setSeatAway, setSeatAwayAfterHand, SeatRecords
  <2>7. CASE \E j \in SeatIndexes, mode \in {"add", "remove", "set"}, amount \in Amounts :
               adjustStack(j, mode, amount)
    BY <1>1, <2>7 DEF adjustStack
  <2>8. CASE startHand
    BY <1>1, <2>8 DEF startHand
  <2>9. CASE \E j, k \in SeatIndexes : ChipsMove(j, k)
    BY <2>1, <2>9 DEF ChipsMove, SeatRecords
  <2>10. CASE SettleRound \/ Restart
    <3>1. dealt' = {}
      BY <2>10, Zenon DEF SettleRound, Restart
    <3>2. QED
      BY <1>1, <3>1
  <2>11. CASE UNCHANGED vars
    BY <2>11 DEF vars, memory
  <2>12. QED
    BY <1>1, <2>3, <2>4, <2>5, <2>6, <2>7, <2>8, <2>9, <2>10, <2>11 DEF Next
<1>2. IInv /\ [Next]_vars => [Stay]_vars
  BY <1>1
<1>3. QED
  BY <1>2, TableInOrder, PTL DEF Spec, RoundKeepsItsPlayers

-----------------------------------------------------------------------------
(* The choice of game.                                                     *)

Overrides == [bet : Nat, bounty : {"unset", "on", "off"}, payout : Nat]
Rounds == [number : Nat, live : BOOLEAN, plays : [bet : Nat, bounty : Nat]]

GamesTyped ==
  /\ gameDefinitionId \in Games /\ nextGameOverride \in Games \cup {NoGame}
  /\ gameConfigOverrides \in [Engines -> Overrides]
  /\ rounds \in [Engines -> Rounds]
  /\ gameCounter \in Nat
  /\ dbTable \in [game : Games, overrides : [Engines -> Overrides]]
  /\ IsFiniteSet(dbRounds) /\ dbRounds \subseteq [engine : Engines, number : Nat]

\* The Table row names the game and the settings in memory.
TableRowCurrent ==
  /\ dbTable.game = gameDefinitionId /\ dbTable.overrides = gameConfigOverrides
  /\ gameKind = gameRow[gameDefinitionId].engine

\* A bounty nobody has chosen has no payout either.
BountiesWhole == \A e \in Engines :
  gameConfigOverrides[e].bounty = "unset" => gameConfigOverrides[e].payout = Unset

\* Only the engine of the table's game has a round; the live one has the number given last.
OneRound ==
  \A e \in Engines : /\ rounds[e] # NoRound => e = gameKind
                     /\ rounds[e].live => rounds[e].number = gameCounter

\* The numbers of the rows are different, and have all been given; that of a round that
\* is live has no row yet.
Numbered ==
  /\ \A r, s \in dbRounds : r.number = s.number => r = s
  /\ \A r \in dbRounds : r.number <= gameCounter
  /\ isRoundInProgress => \A r \in dbRounds : r.number # gameCounter

GamesInv == GamesTyped /\ TableRowCurrent /\ BountiesWhole /\ OneRound /\ Numbered

-----------------------------------------------------------------------------
\* The game that is next is a game, and its engine one of the three.
LEMMA TargetIsGame ==
  ASSUME GamesInv
  PROVE  /\ targetGameDefinitionId \in Games
         /\ gameRow[targetGameDefinitionId].engine \in Engines
         /\ gameKind \in Engines
BY GamesAssumption, GameRowAssumption
   DEF GamesInv, GamesTyped, TableRowCurrent, targetGameDefinitionId

\* For settings the form can have sent, the service plays what the form showed.
LEMMA FormShowsWhatIsPlayed ==
  ASSUME NEW g \in Games,
         NEW o, o = gameConfigOverrides[gameRow[g].engine],
         o.bounty \in {"unset", "on", "off"}, o.bounty = "unset" => o.payout = Unset
  PROVE  applyOverride(gameRow[g], o) = getGameConfig(g)
<1>1. gameRow[g].bounty # Unset => gameRow[g].twoCards
  BY GamesAssumption
<1>2. CASE o.bounty = "unset"
  BY <1>1, <1>2 DEF applyOverride, getGameConfig, orElse
<1>3. CASE o.bounty = "on"
  BY <1>3 DEF applyOverride, getGameConfig, orElse
<1>4. CASE o.bounty = "off"
  BY <1>4 DEF applyOverride, getGameConfig, orElse
<1>5. QED
  BY <1>2, <1>3, <1>4

\* What is played is a bet and a bounty.
LEMMA PlaysAreNumbers ==
  ASSUME NEW g \in Games, NEW o \in Overrides
  PROVE  applyOverride(gameRow[g], o) \in [bet : Nat, bounty : Nat]
<1>1. gameRow[g].bet \in Nat /\ gameRow[g].bounty \in Nat /\ o.bet \in Nat /\ o.payout \in Nat
      /\ o.bounty \in {"unset", "on", "off"}
  BY GameRowAssumption DEF Overrides
<1>2. QED
  BY <1>1 DEF applyOverride, orElse, Unset

\* A finite set of numbers has a largest one.
LEMMA LargestNumber ==
  ASSUME NEW S, IsFiniteSet(S), S \subseteq Nat, S # {}
  PROVE  Max(S) \in S /\ \A n \in S : n <= Max(S)
<1>1. \E x \in S : \A y \in S : y <= x
  BY GreatestNatural
<1>2. PICK x \in S : \A y \in S : x >= y
  BY <1>1
<1>3. Max(S) \in S /\ \A y \in S : Max(S) >= y
  BY <1>2, Zenon DEF Max
<1>4. QED
  BY <1>3

-----------------------------------------------------------------------------
(* The steps.                                                              *)

\* A table just made is in order.
LEMMA NewGamesInv ==
  ASSUME GamesInit
  PROVE  GamesInv
<1>1. NoOverride \in Overrides /\ NoOverride.payout = Unset
  BY DEF NoOverride, Overrides, Unset
<1>2. NoRound \in Rounds /\ NoRound.live = FALSE
  BY DEF NoRound, Rounds, Unset
<1>3. GamesTyped
  BY <1>1, <1>2, GamesAssumption, FS_EmptySet DEF GamesInit, GamesTyped
<1>4. TableRowCurrent /\ BountiesWhole
  BY <1>1 DEF GamesInit, TableRowCurrent, BountiesWhole
<1>5. OneRound /\ Numbered
  BY <1>2, GamesAssumption, GameRowAssumption DEF GamesInit, OneRound, Numbered, isRoundInProgress
<1>6. QED
  BY <1>3, <1>4, <1>5 DEF GamesInv

\* The owner saves settings, which the form sends whole.
LEMMA SettingKeepsGames ==
  ASSUME GamesInv, NEW payload, setGameConfig(payload)
  PROVE  GamesInv'
<1> DEFINE engine == gameRow[targetGameDefinitionId].engine
<1>1. /\ payload \in FormPayloads(gameRow[targetGameDefinitionId])
      /\ gameConfigOverrides' = [gameConfigOverrides EXCEPT ![engine] = payload]
      /\ dbTable' = [dbTable EXCEPT !.overrides = gameConfigOverrides']
      /\ UNCHANGED <<gameDefinitionId, gameKind, nextGameOverride, rounds, gameCounter, dbRounds>>
  BY DEF setGameConfig
<1>2. payload \in Overrides /\ (payload.bounty = "unset" => payload.payout = Unset)
  BY <1>1, GamesAssumption DEF FormPayloads, Overrides, Unset
<1>3. engine \in Engines
  BY TargetIsGame
<1> HIDE DEF engine
<1>4. gameConfigOverrides' \in [Engines -> Overrides]
  BY <1>1, <1>2, <1>3 DEF GamesInv, GamesTyped
<1>5. GamesTyped' /\ TableRowCurrent'
  BY <1>1, <1>4 DEF GamesInv, GamesTyped, TableRowCurrent
<1>6. BountiesWhole'
  BY <1>1, <1>2, <1>3 DEF GamesInv, GamesTyped, BountiesWhole
<1>7. OneRound' /\ Numbered'
  BY <1>1 DEF GamesInv, OneRound, Numbered, isRoundInProgress
<1>8. QED
  BY <1>5, <1>6, <1>7 DEF GamesInv

\* A game is queued.
LEMMA QueueingKeepsGames ==
  ASSUME GamesInv, NEW g \in Games, setNextGame(g)
  PROVE  GamesInv'
BY DEF setNextGame, GamesInv, GamesTyped, TableRowCurrent, BountiesWhole, OneRound, Numbered,
       isRoundInProgress

\* A round is started, or fails to.
LEMMA StartingKeepsGames ==
  ASSUME GamesInv, NEW fits \in BOOLEAN, startRound(fits)
  PROVE  GamesInv'
<1> DEFINE g == targetGameDefinitionId
           engine == gameRow[g].engine
           switched == engine # gameKind \/ g # gameDefinitionId
           plays == applyOverride(gameRow[g], gameConfigOverrides[engine])
           newRound(e) == IF e = engine /\ fits
                          THEN [number |-> gameCounter', live |-> TRUE, plays |-> plays]
                          ELSE IF e # engine /\ switched THEN NoRound ELSE rounds[e]
<1>1. /\ ~isRoundInProgress
      /\ nextGameOverride' = NoGame
      /\ gameKind' = engine /\ gameDefinitionId' = g
      /\ dbTable' = [dbTable EXCEPT !.game = g]
      /\ gameCounter' = gameCounter + 1
      /\ rounds' = [e \in Engines |-> newRound(e)]
      /\ UNCHANGED <<gameConfigOverrides, dbRounds>>
  BY Zenon DEF startRound
<1>2. g \in Games /\ engine \in Engines /\ gameKind \in Engines
  BY TargetIsGame
<1>3. GamesTyped /\ gameCounter' \in Nat
  BY <1>1 DEF GamesInv, GamesTyped
<1>4. plays \in [bet : Nat, bounty : Nat]
  BY <1>2, <1>3, PlaysAreNumbers DEF GamesTyped
<1>5. NoRound \in Rounds /\ NoRound.live = FALSE
  BY DEF NoRound, Rounds, Unset
<1> HIDE DEF plays, g
<1>6. \A e \in Engines : newRound(e) \in Rounds
  BY <1>3, <1>4, <1>5 DEF GamesTyped, Rounds
<1>7. GamesTyped'
  <2>1. rounds' \in [Engines -> Rounds]
    BY <1>1, <1>6
  <2>2. QED
    BY <1>1, <1>2, <1>3, <2>1 DEF GamesTyped
<1>8. TableRowCurrent' /\ BountiesWhole'
  BY <1>1, <1>3 DEF GamesInv, GamesTyped, TableRowCurrent, BountiesWhole
<1>9. \A e \in Engines : rounds'[e] = newRound(e)
  BY <1>1
<1>10. ~rounds[engine].live
  BY <1>1, <1>2, <1>5 DEF GamesInv, OneRound, isRoundInProgress
<1>11. OneRound'
  <2>1. switched \/ engine = gameKind
    OBVIOUS
  <2>2. \A e \in Engines : newRound(e) # NoRound => e = engine
    BY <2>1 DEF GamesInv, OneRound
  <2>3. \A e \in Engines : newRound(e).live => e = engine /\ fits /\ newRound(e).number = gameCounter'
    BY <1>5, <1>10, <2>2
  <2>4. QED
    BY <1>1, <1>9, <2>2, <2>3 DEF OneRound
<1>12. Numbered'
  <2>1. \A r \in dbRounds : r.number \in Nat /\ r.number <= gameCounter /\ gameCounter \in Nat
    BY DEF GamesInv, GamesTyped, Numbered
  <2>2. dbRounds' = dbRounds /\ gameCounter' = gameCounter + 1
    BY <1>1
  <2>3. QED
    BY <2>1, <2>2 DEF GamesInv, Numbered
<1>13. QED
  BY <1>7, <1>8, <1>11, <1>12 DEF GamesInv

\* A round is played out.
LEMMA FinishingKeepsGames ==
  ASSUME GamesInv, finishRound
  PROVE  GamesInv'
<1> DEFINE row == [engine |-> gameKind, number |-> rounds[gameKind].number]
<1>1. /\ rounds[gameKind].live
      /\ rounds' = [rounds EXCEPT ![gameKind].live = FALSE]
      /\ dbRounds' = dbRounds \cup {row}
      /\ UNCHANGED <<gameDefinitionId, gameKind, nextGameOverride, gameConfigOverrides,
                     gameCounter, dbTable>>
  BY DEF finishRound, isRoundInProgress
<1>2. gameKind \in Engines /\ rounds \in [Engines -> Rounds] /\ gameCounter \in Nat
  BY TargetIsGame DEF GamesInv, GamesTyped
<1>3. rounds' \in [Engines -> Rounds] /\ rounds'[gameKind].live = FALSE
      /\ \A e \in Engines : e # gameKind => rounds'[e] = rounds[e]
  BY <1>1, <1>2 DEF Rounds
<1>4. rounds[gameKind].number = gameCounter
  BY <1>1, <1>2 DEF GamesInv, OneRound
<1>5. GamesTyped'
  <2>1. row \in [engine : Engines, number : Nat]
    BY <1>2, <1>4
  <2>2. IsFiniteSet(dbRounds \cup {row})
    BY FS_AddElement DEF GamesInv, GamesTyped
  <2> HIDE DEF row
  <2>3. QED
    BY <1>1, <1>3, <2>1, <2>2 DEF GamesInv, GamesTyped
<1>6. TableRowCurrent' /\ BountiesWhole'
  BY <1>1 DEF GamesInv, TableRowCurrent, BountiesWhole
<1>7. OneRound'
  BY <1>1, <1>2, <1>3 DEF GamesInv, OneRound
<1>8. Numbered'
  <2>1. row.number = gameCounter
    BY <1>4
  <2>2. \A r \in dbRounds : r.number # gameCounter
    BY <1>1 DEF GamesInv, Numbered, isRoundInProgress
  <2> HIDE DEF row
  <2>3. ~isRoundInProgress'
    BY <1>1, <1>3 DEF isRoundInProgress
  <2>4. QED
    BY <1>1, <1>2, <2>1, <2>2, <2>3 DEF GamesInv, Numbered
<1>9. QED
  BY <1>5, <1>6, <1>7, <1>8 DEF GamesInv

\* The server starts again, with the highest number in the database.
LEMMA RestartKeepsGames ==
  ASSUME GamesInv, RestartGames
  PROVE  GamesInv'
<1> DEFINE numbers == {0} \cup {r.number : r \in dbRounds}
<1>1. /\ gameDefinitionId' = dbTable.game
      /\ gameKind' = gameRow[dbTable.game].engine
      /\ nextGameOverride' = NoGame
      /\ gameConfigOverrides' = dbTable.overrides
      /\ rounds' = [e \in Engines |-> NoRound]
      /\ gameCounter' = Max(numbers)
      /\ UNCHANGED <<dbTable, dbRounds>>
  BY Zenon DEF RestartGames, ResumedCounter
<1>2. NoRound \in Rounds /\ NoRound.live = FALSE
  BY DEF NoRound, Rounds, Unset
<1>3. numbers \subseteq Nat /\ numbers # {}
  BY DEF GamesInv, GamesTyped
<1>4. IsFiniteSet(numbers)
  <2>1. IsFiniteSet({r.number : r \in dbRounds})
    <3> DEFINE T == {r.number : r \in dbRounds}
               f == [r \in dbRounds |-> r.number]
    <3>1. f \in Surjection(dbRounds, T)
      BY DEF Surjection
    <3>2. IsFiniteSet(dbRounds)
      BY DEF GamesInv, GamesTyped
    <3>3. QED
      BY <3>1, <3>2, FS_Surjection
  <2>2. IsFiniteSet({r.number : r \in dbRounds} \cup {0})
    BY <2>1, FS_AddElement
  <2>3. numbers = {r.number : r \in dbRounds} \cup {0}
    OBVIOUS
  <2>4. QED
    BY <2>2, <2>3
<1>5. \A r \in dbRounds : r.number \in numbers
  OBVIOUS
<1> HIDE DEF numbers
<1>6. gameCounter' \in Nat /\ \A n \in numbers : n <= gameCounter'
  BY <1>1, <1>3, <1>4, LargestNumber
<1>7. GamesTyped'
  BY <1>1, <1>2, <1>6 DEF GamesInv, GamesTyped
<1>8. TableRowCurrent' /\ BountiesWhole'
  BY <1>1 DEF GamesInv, TableRowCurrent, BountiesWhole
<1>9. OneRound'
  BY <1>1, <1>2 DEF OneRound
<1>10. Numbered'
  <2>1. gameKind' \in Engines
    BY <1>1, TargetIsGame DEF GamesInv, TableRowCurrent
  <2>2. ~isRoundInProgress'
    BY <1>1, <1>2, <2>1 DEF isRoundInProgress
  <2>3. QED
    BY <1>1, <1>5, <1>6, <2>2 DEF GamesInv, Numbered
<1>11. QED
  BY <1>7, <1>8, <1>9, <1>10 DEF GamesInv

\* Every step keeps the choice of games in order.
LEMMA StepKeepsGames == GamesInv /\ [GamesNext]_gameVars => GamesInv'
<1> SUFFICES ASSUME GamesInv, [GamesNext]_gameVars PROVE GamesInv'
  OBVIOUS
<1>1. CASE UNCHANGED gameVars
  BY <1>1 DEF gameVars, GamesInv, GamesTyped, TableRowCurrent, BountiesWhole, OneRound, Numbered,
              isRoundInProgress
<1>2. QED
  BY <1>1, SettingKeepsGames, QueueingKeepsGames, StartingKeepsGames, FinishingKeepsGames,
     RestartKeepsGames DEF GamesNext

-----------------------------------------------------------------------------
(* The theorems.                                                           *)

GamesSpec == GamesInit /\ [][GamesNext]_gameVars

\* The invariant the two theorems rest on.
THEOREM GamesInOrder == GamesSpec => []GamesInv
BY NewGamesInv, StepKeepsGames, PTL DEF GamesSpec

\* No number of a round is given twice, though starts fail, rounds are lost in a restart and
\* the three engines keep their rows in tables of their own; and the games that
\* canAccessGameDefinition refuses are those the list shows with a lock.
THEOREM TimelineIsOne == GamesSpec => []OneTimeline
<1>1. GamesInv => OneTimeline
  <2> SUFFICES ASSUME GamesInv PROVE OneTimeline
    OBVIOUS
  <2>1. \A r, s \in dbRounds : r.number = s.number => r = s
    BY DEF GamesInv, Numbered
  <2>2. isRoundInProgress => \A r \in dbRounds : r.number < rounds[gameKind].number
    <3>1. gameKind \in Engines
      BY TargetIsGame
    <3>2. \A r \in dbRounds : r.number \in Nat /\ r.number <= gameCounter /\ gameCounter \in Nat
      BY DEF GamesInv, GamesTyped, Numbered
    <3>3. QED
      BY <3>1, <3>2 DEF GamesInv, Numbered, OneRound, isRoundInProgress
  <2>3. \A e \in Engines : rounds[e] # NoRound => e = gameRow[dbTable.game].engine
    BY DEF GamesInv, OneRound, TableRowCurrent
  <2>4. gameKind = gameRow[dbTable.game].engine /\ gameConfigOverrides = dbTable.overrides
    BY DEF GamesInv, TableRowCurrent
  <2>5. ASSUME NEW g \in Games, NEW premium \in BOOLEAN
        PROVE  locked(gameRow[g], premium) = ~canAccessGameDefinition(gameRow[g], premium)
    BY GameRowAssumption, Zenon DEF locked, canAccessGameDefinition
  <2>6. QED
    BY <2>1, <2>2, <2>3, <2>4, <2>5 DEF OneTimeline
<1>2. QED
  BY <1>1, GamesInOrder, PTL

\* Every round is fits with the settings its form showed, and keeps them to its end.
THEOREM SettingsAreKept == GamesSpec => SettingsHold
<1> DEFINE Held == \A e \in Engines : rounds'[e].live =>
                     rounds'[e].plays = IF rounds[e].live THEN rounds[e].plays
                                        ELSE getGameConfig(targetGameDefinitionId)
<1>1. ASSUME GamesInv, [GamesNext]_gameVars PROVE Held \/ UNCHANGED gameVars
  <2>1. CASE UNCHANGED rounds
    BY <2>1
  <2>2. ASSUME NEW fits \in BOOLEAN, startRound(fits) PROVE Held
    <3> DEFINE g == targetGameDefinitionId
               engine == gameRow[g].engine
               switched == engine # gameKind \/ g # gameDefinitionId
               plays == applyOverride(gameRow[g], gameConfigOverrides[engine])
    <3>1. /\ ~isRoundInProgress
          /\ rounds' = [e \in Engines |->
               IF e = engine /\ fits
               THEN [number |-> gameCounter', live |-> TRUE, plays |-> plays]
               ELSE IF e # engine /\ switched THEN NoRound ELSE rounds[e]]
      BY <2>2, Zenon DEF startRound
    <3>2. g \in Games /\ engine \in Engines /\ gameKind \in Engines
      BY <1>1, TargetIsGame
    <3>3. plays = getGameConfig(g)
      <4>1. gameConfigOverrides[engine] \in Overrides
        BY <1>1, <3>2 DEF GamesInv, GamesTyped
      <4>2. gameConfigOverrides[engine].bounty = "unset" => gameConfigOverrides[engine].payout = Unset
        BY <1>1, <3>2 DEF GamesInv, BountiesWhole
      <4>3. gameConfigOverrides[engine].bounty \in {"unset", "on", "off"}
        BY <4>1 DEF Overrides
      <4>4. QED
        BY <3>2, <4>2, <4>3, FormShowsWhatIsPlayed
    <3>4. NoRound.live = FALSE
      BY DEF NoRound
    <3>5. \A e \in Engines : ~rounds[e].live
      BY <1>1, <3>1, <3>4 DEF GamesInv, OneRound, isRoundInProgress
    <3> HIDE DEF plays, g
    <3>6. \A e \in Engines : rounds'[e].live => rounds'[e].plays = plays
      BY <3>1, <3>4, <3>5
    <3>7. QED
      BY <3>3, <3>5, <3>6 DEF g
  <2>3. CASE finishRound
    <3>1. /\ rounds' = [rounds EXCEPT ![gameKind].live = FALSE]
          /\ rounds \in [Engines -> Rounds] /\ gameKind \in Engines
      BY <1>1, <2>3, TargetIsGame DEF finishRound, GamesInv, GamesTyped
    <3>2. \A e \in Engines : rounds'[e].live => rounds'[e] = rounds[e]
      BY <3>1 DEF Rounds
    <3>3. QED
      BY <3>2
  <2>4. CASE RestartGames
    BY <2>4 DEF RestartGames, NoRound
  <2>5. QED
    BY <1>1, <2>1, <2>2, <2>3, <2>4 DEF GamesNext, setGameConfig, setNextGame
<1>2. GamesInv /\ [GamesNext]_gameVars => [Held]_gameVars
  BY <1>1
<1>3. QED
  BY <1>2, GamesInOrder, PTL DEF GamesSpec, SettingsHold

-----------------------------------------------------------------------------
(* A finished hand and its row.                                            *)

RecordSpec == RecordInit /\ [][RecordNext]_recordVars

HandStates ==
  [number : 0 .. MaxHands, phase : {"none", "live", "complete"}, dealt : SUBSET RecordSeats,
   pots : SUBSET SUBSET RecordSeats, street : 0 .. LastStreet, named : SUBSET (1 .. LastStreet),
   shown : SUBSET RecordSeats, rabbit : SUBSET BoardStreets, revealed : SUBSET RecordSeats,
   unsaved : BOOLEAN]

\* A row is there as a whole or not at all, and no hand later than the last one dealt has one.
RowsWhole ==
  /\ counter \in 0 .. MaxHands /\ DOMAIN rows = 1 .. MaxHands
  /\ \A n \in 1 .. MaxHands :
       \/ rows[n] = NoRow
       \/ /\ rows[n].stored = TRUE /\ n <= counter
          /\ DOMAIN rows[n] = {"stored", "players", "results", "named", "shown", "rabbit"}
          /\ rows[n].shown \subseteq RecordSeats
  /\ DOMAIN looking = Viewers
  /\ \A v \in Viewers : looking[v] # 0 => looking[v] \in 1 .. MaxHands /\ rows[looking[v]].stored

\* The log names every street up to the last that dealt board cards, and none after it.
NamesTheEnd(h) ==
  /\ h.street \in 1 .. LastStreet /\ h.named \subseteq 1 .. h.street
  /\ {1} \cup (BoardStreets \cap 1 .. h.street) \subseteq h.named

\* The hand on the table is the last one dealt.
HandIsLast ==
  /\ hand \in HandStates
  /\ hand.phase = "none" <=> hand.number = 0
  /\ hand.number # 0 => hand.number = counter
  /\ hand.phase = "live" => hand.shown = {} /\ hand.rabbit = {} /\ ~rows[hand.number].stored
  /\ Complete => NamesTheEnd(hand) /\ hand.rabbit \in {{}, computeRabbitReveal(hand.street)}

\* What the request under way still has to do, if there is one.
OneRequest ==
  /\ DOMAIN requested = Viewers
  /\ \A v, w \in Viewers : requested[v] # Nothing /\ requested[w] # Nothing => v = w
  /\ \A v \in Viewers : requested[v] # Nothing => Complete
  /\ \A v \in Viewers :
       \/ requested[v] = Nothing
       \/ /\ requested[v] = [step |-> "persist"]
          /\ hand.shown = {} /\ hand.rabbit = {} /\ ~rows[hand.number].stored
       \/ requested[v] = [step |-> "rabbit"]
       \/ \E s \in RecordSeats : requested[v] = [step |-> "read", seat |-> s]
       \/ \E P \in SUBSET RecordSeats :
            requested[v] = [step |-> "write", players |-> P] /\ rows[hand.number].stored

\* The row says what the table says, but for what the request under way will write.
RowFollowsHand ==
  Complete /\ rows[hand.number].stored =>
    LET row == rows[hand.number]
    IN  /\ row.results = hand.pots /\ row.named = hand.named
        /\ row.rabbit \in {{}, computeRabbitReveal(hand.street)}
        /\ hand.unsaved
           \/ /\ hand.rabbit # {} /\ (\A v \in Viewers : requested[v].step # "rabbit") => row.rabbit = hand.rabbit
              /\ (\A v \in Viewers : requested[v].step \notin {"read", "write"}) => row.shown = hand.shown
              /\ \A v \in Viewers : requested[v].step = "read" => row.shown \cup {requested[v].seat} = hand.shown
              /\ \A v \in Viewers : requested[v].step = "write" => requested[v].players = hand.shown

RecordInv == RowsWhole /\ HandIsLast /\ OneRequest /\ RowFollowsHand

\* Without a request under way there is none for anybody.
LEMMA NoRequest == LockFree => \A v \in Viewers : requested[v] = Nothing
  BY DEF LockFree

\* What a request has to do tells the requests apart.
LEMMA StepsDiffer ==
  /\ Nothing.step = "none"
  /\ [step |-> "persist"].step = "persist" /\ [step |-> "rabbit"].step = "rabbit"
  /\ \A s : [step |-> "read", seat |-> s].step = "read" /\ [step |-> "read", seat |-> s].seat = s
  /\ \A P : [step |-> "write", players |-> P].step = "write" /\ [step |-> "write", players |-> P].players = P
  BY DEF Nothing

\* The streets the replay deals are those the table deals: the log names the last street
\* that dealt cards, and no street between it and the end does.
LEMMA SameRabbit ==
  ASSUME NEW h, NamesTheEnd(h), LastStreet \in Nat
  PROVE  computeRabbitReveal(deriveFinalStreetIndex(h.named)) = computeRabbitReveal(h.street)
<1> DEFINE S == {1} \cup h.named
           m == Max(S)
<1>1. h.street \in Nat /\ h.street >= 1 /\ S \subseteq 1 .. h.street /\ S # {} /\ S \subseteq Nat
  BY DEF NamesTheEnd
<1>2. IsFiniteSet(S)
  <2>1. IsFiniteSet(1 .. h.street)
    BY <1>1, FS_Interval
  <2>2. QED
    BY <1>1, <2>1, FS_Subset
<1>3. m \in S /\ \A n \in S : n <= m
  <2> HIDE DEF S
  <2> QED
    BY <1>1, <1>2, LargestNumber
<1>4. m \in Nat /\ m <= h.street
  BY <1>1, <1>3
<1>5. \A street \in BoardStreets : street <= h.street => street <= m
  <2>1. SUFFICES ASSUME NEW street \in BoardStreets, street <= h.street PROVE street <= m
    OBVIOUS
  <2>2. street \in 1 .. h.street
    BY <1>1, <2>1, RecordAssumption
  <2>3. street \in S
    BY <2>2 DEF NamesTheEnd
  <2>4. QED
    BY <1>3, <2>3
<1>6. m = deriveFinalStreetIndex(h.named)
  BY DEF deriveFinalStreetIndex
<1> HIDE DEF m
<1> HIDE DEF S
<1>7. computeRabbitReveal(m) = computeRabbitReveal(h.street)
  <2>1. ASSUME NEW street \in BoardStreets PROVE street > m <=> street > h.street
    <3>1. street \in Int
      BY RecordAssumption
    <3>2. QED
      BY <1>1, <1>4, <1>5, <3>1
  <2>2. QED
    BY <2>1 DEF computeRabbitReveal
<1>8. QED
  BY <1>6, <1>7

\* At the start there is no hand and no row.
LEMMA InitRecord == RecordInit => RecordInv
<1> SUFFICES ASSUME RecordInit PROVE RecordInv
  OBVIOUS
<1>1. hand \in HandStates /\ hand.phase = "none" /\ hand.number = 0
  BY RecordAssumption DEF RecordInit, NoHand, HandStates
<1>2. RowsWhole
  BY RecordAssumption DEF RecordInit, RowsWhole
<1>3. HandIsLast
  BY <1>1 DEF HandIsLast, Complete
<1>4. OneRequest
  BY DEF RecordInit, OneRequest
<1>5. RowFollowsHand
  BY <1>1 DEF RowFollowsHand, Complete
<1>6. QED
  BY <1>2, <1>3, <1>4, <1>5 DEF RecordInv

\* Who sits where is not in the invariant.
LEMMA SeatsAndLooks ==
  ASSUME RecordInv,
         (\E v \in Viewers, s \in RecordSeats : SitDown(v, s)) \/ (\E s \in RecordSeats : StandUp(s))
           \/ (\E v \in Viewers, n \in 1 .. MaxHands : LookAtReplay(v, n)) \/ UNCHANGED recordVars
  PROVE  RecordInv'
<1>1. UNCHANGED <<hand, counter, rows, requested>>
  BY Zenon DEF SitDown, StandUp, LookAtReplay, recordVars
<1>2. DOMAIN looking' = Viewers
      /\ \A v \in Viewers : looking'[v] # 0 => looking'[v] \in 1 .. MaxHands /\ rows[looking'[v]].stored
  BY DEF RecordInv, RowsWhole, SitDown, StandUp, LookAtReplay, recordVars
<1>3. RowsWhole'
  BY <1>1, <1>2 DEF RecordInv, RowsWhole
<1>4. QED
  BY <1>1, <1>3 DEF RecordInv, HandIsLast, OneRequest, RowFollowsHand, Complete, NamesTheEnd

\* A new hand has a number no row has.
LEMMA DealKeepsRecord ==
  ASSUME RecordInv, DealHand
  PROVE  RecordInv'
<1>1. PICK D \in SUBSET RecordSeats :
        hand' = [NoHand EXCEPT !.number = counter + 1, !.phase = "live", !.dealt = D]
  BY DEF DealHand
<1>2. /\ \A v \in Viewers : requested[v] = Nothing
      /\ counter < MaxHands /\ counter' = counter + 1 /\ UNCHANGED <<rows, requested, looking>>
  BY NoRequest DEF DealHand
<1>3. counter \in Nat /\ MaxHands \in Nat /\ counter' \in 1 .. MaxHands
  BY <1>2, RecordAssumption DEF RecordInv, RowsWhole
<1>4. hand' = [number |-> counter', phase |-> "live", dealt |-> D, pots |-> {}, street |-> 0,
               named |-> {}, shown |-> {}, rabbit |-> {}, revealed |-> {}, unsaved |-> FALSE]
  BY <1>1, <1>2 DEF NoHand
<1>5. hand' \in HandStates /\ hand'.number = counter' /\ hand'.phase = "live"
  BY <1>3, <1>4, RecordAssumption DEF HandStates
<1>6. ~rows[counter'].stored
  <2>1. rows[counter'] = NoRow
    BY <1>2, <1>3 DEF RecordInv, RowsWhole
  <2>2. QED
    BY <2>1 DEF NoRow
<1>7. RowsWhole'
  BY <1>2, <1>3 DEF RecordInv, RowsWhole
<1>8. HandIsLast'
  BY <1>2, <1>3, <1>4, <1>5, <1>6 DEF HandIsLast, Complete
<1>9. OneRequest'
  BY <1>2 DEF RecordInv, OneRequest
<1>10. RowFollowsHand'
  BY <1>5 DEF RowFollowsHand, Complete
<1>11. QED
  BY <1>7, <1>8, <1>9, <1>10 DEF RecordInv

\* A hand that ends has its row still to be written.
LEMMA FinishKeepsRecord ==
  ASSUME RecordInv, NEW v \in Viewers, FinishHand(v)
  PROVE  RecordInv'
<1>1. PICK street \in 1 .. LastStreet, pots \in SUBSET (SUBSET hand.dealt \ {{}}),
           named \in SUBSET (1 .. LastStreet) :
       /\ {1} \cup (BoardStreets \cap 1 .. street) \subseteq named
       /\ named \subseteq 1 .. street
       /\ hand' = [hand EXCEPT !.phase = "complete", !.pots = pots, !.street = street, !.named = named]
  BY Zenon DEF FinishHand
<1>2. /\ \A w \in Viewers : requested[w] = Nothing
      /\ hand.phase = "live" /\ requested' = [requested EXCEPT ![v] = [step |-> "persist"]]
      /\ UNCHANGED <<counter, rows, looking>>
  BY NoRequest, Zenon DEF FinishHand
<1>3. hand \in HandStates /\ hand.number = counter /\ hand.number # 0
      /\ hand.shown = {} /\ hand.rabbit = {} /\ ~rows[hand.number].stored
  BY <1>2 DEF RecordInv, HandIsLast
<1>4. hand' = [number |-> hand.number, phase |-> "complete", dealt |-> hand.dealt, pots |-> pots,
               street |-> street, named |-> named, shown |-> hand.shown, rabbit |-> hand.rabbit,
               revealed |-> hand.revealed, unsaved |-> hand.unsaved]
  BY <1>1, <1>3 DEF HandStates
<1>5. pots \in SUBSET SUBSET RecordSeats
  BY <1>3 DEF HandStates
<1>6. hand' \in HandStates
  BY <1>3, <1>4, <1>5, RecordAssumption DEF HandStates
<1>7. RowsWhole'
  BY <1>2 DEF RecordInv, RowsWhole
<1>8. HandIsLast'
  BY <1>1, <1>2, <1>3, <1>4, <1>6 DEF HandIsLast, Complete, NamesTheEnd
<1>9. OneRequest'
  BY <1>2, <1>3, <1>4 DEF RecordInv, OneRequest, Complete, Nothing
<1>10. RowFollowsHand'
  BY <1>2, <1>3, <1>4 DEF RowFollowsHand
<1>11. QED
  BY <1>7, <1>8, <1>9, <1>10 DEF RecordInv

\* What is common to a request that has ended: nobody has one.
LEMMA EndedRequest ==
  ASSUME RecordInv, NEW v \in Viewers, requested[v] # Nothing,
         requested' = [requested EXCEPT ![v] = Nothing]
  PROVE  /\ \A w \in Viewers : requested'[w] = Nothing /\ requested'[w].step = "none"
         /\ Complete /\ hand.number \in 1 .. MaxHands /\ hand.number = counter
         /\ OneRequest'
<1>1. \A w \in Viewers : requested'[w] = Nothing
  BY DEF RecordInv, OneRequest
<1>2. Complete
  BY DEF RecordInv, OneRequest
<1>3. hand.number \in 1 .. MaxHands /\ hand.number = counter
  BY <1>2, RecordAssumption DEF RecordInv, HandIsLast, HandStates, Complete
<1>4. OneRequest'
  BY <1>1 DEF OneRequest, RecordInv
<1>5. QED
  BY <1>1, <1>2, <1>3, <1>4, StepsDiffer

\* A write to the row of the hand on the table leaves the others whole.
LEMMA RowsStayWhole ==
  ASSUME RecordInv, hand.number \in 1 .. MaxHands, hand.number = counter,
         NEW r, r.stored = TRUE, DOMAIN r = {"stored", "players", "results", "named", "shown", "rabbit"},
         r.shown \subseteq RecordSeats,
         rows' = [rows EXCEPT ![hand.number] = r], UNCHANGED <<counter, looking>>
  PROVE  RowsWhole' /\ rows'[hand.number] = r
<1>1. rows'[hand.number] = r /\ \A n \in 1 .. MaxHands : n # hand.number => rows'[n] = rows[n]
  BY DEF RecordInv, RowsWhole
<1>2. \A n \in 1 .. MaxHands : rows[n].stored => rows'[n].stored
  BY <1>1
<1>3. QED
  BY <1>1, <1>2 DEF RecordInv, RowsWhole

\* The row is written as the hand ended.
LEMMA PersistKeepsRecord ==
  ASSUME RecordInv, NEW v \in Viewers, persistHandResult(v)
  PROVE  RecordInv'
<1> DEFINE r == [stored |-> TRUE, players |-> [s \in hand.dealt |-> occupant[s]],
                 results |-> hand.pots, named |-> hand.named, shown |-> {}, rabbit |-> {}]
<1>1. /\ requested[v].step = "persist" /\ requested' = [requested EXCEPT ![v] = Nothing]
      /\ rows' = [rows EXCEPT ![hand.number] = r] /\ UNCHANGED <<hand, counter, looking>>
  BY DEF persistHandResult
<1>2. requested[v] # Nothing /\ hand.shown = {} /\ hand.rabbit = {}
  BY <1>1, StepsDiffer DEF RecordInv, OneRequest
<1>3. /\ \A w \in Viewers : requested'[w].step = "none"
      /\ Complete /\ hand.number \in 1 .. MaxHands /\ hand.number = counter /\ OneRequest'
  BY <1>1, <1>2, EndedRequest
<1>4. r.stored = TRUE /\ DOMAIN r = {"stored", "players", "results", "named", "shown", "rabbit"}
      /\ r.results = hand.pots /\ r.named = hand.named /\ r.shown = {} /\ r.rabbit = {}
  OBVIOUS
<1> HIDE DEF r
<1>5. RowsWhole' /\ rows'[hand.number] = r
  BY <1>1, <1>3, <1>4, RowsStayWhole
<1>6. HandIsLast'
  BY <1>1, <1>3 DEF RecordInv, HandIsLast, Complete, NamesTheEnd
<1>7. RowFollowsHand'
  BY <1>1, <1>2, <1>3, <1>4, <1>5 DEF RowFollowsHand, Complete
<1>8. QED
  BY <1>3, <1>5, <1>6, <1>7 DEF RecordInv

\* After a request that threw nothing is promised of what it left to be written.
LEMMA ThrowKeepsRecord ==
  ASSUME RecordInv, NEW v \in Viewers, RequestThrows(v)
  PROVE  RecordInv'
<1>1. /\ requested[v] # Nothing /\ requested' = [requested EXCEPT ![v] = Nothing]
      /\ hand' = [hand EXCEPT !.unsaved = TRUE] /\ UNCHANGED <<counter, rows, looking>>
  BY DEF RequestThrows
<1>2. /\ \A w \in Viewers : requested'[w] = Nothing
      /\ Complete /\ hand.number \in 1 .. MaxHands /\ hand.number = counter /\ OneRequest'
  BY <1>1, EndedRequest
<1>3. hand \in HandStates
  BY DEF RecordInv, HandIsLast
<1>4. hand' = [number |-> hand.number, phase |-> hand.phase, dealt |-> hand.dealt, pots |-> hand.pots,
               street |-> hand.street, named |-> hand.named, shown |-> hand.shown, rabbit |-> hand.rabbit,
               revealed |-> hand.revealed, unsaved |-> TRUE]
  BY <1>1, <1>3 DEF HandStates
<1>5. HandIsLast'
  <2>1. hand' \in HandStates
    BY <1>3, <1>4 DEF HandStates
  <2>2. QED
    BY <1>1, <1>4, <2>1 DEF RecordInv, HandIsLast, Complete, NamesTheEnd
<1>6. RowFollowsHand'
  BY <1>1, <1>4 DEF RecordInv, RowFollowsHand, Complete
<1>7. RowsWhole'
  BY <1>1 DEF RecordInv, RowsWhole
<1>8. QED
  BY <1>2, <1>5, <1>6, <1>7 DEF RecordInv

\* Cards are shown at the table at once, and in the row when it has been read and written.
LEMMA ShowKeepsRecord ==
  ASSUME RecordInv, NEW v \in Viewers, NEW s \in RecordSeats, ShowCards(v, s)
  PROVE  RecordInv'
<1>1. /\ \A w \in Viewers : requested[w] = Nothing
      /\ Complete /\ hand' = [hand EXCEPT !.shown = hand.shown \cup {s}]
      /\ requested' = [requested EXCEPT ![v] = [step |-> "read", seat |-> s]]
      /\ UNCHANGED <<counter, rows, looking>>
  BY NoRequest DEF ShowCards
<1>2. hand \in HandStates
  BY DEF RecordInv, HandIsLast
<1>3. hand' = [number |-> hand.number, phase |-> hand.phase, dealt |-> hand.dealt, pots |-> hand.pots,
               street |-> hand.street, named |-> hand.named, shown |-> hand.shown \cup {s}, rabbit |-> hand.rabbit,
               revealed |-> hand.revealed, unsaved |-> hand.unsaved]
  BY <1>1, <1>2 DEF HandStates
<1>4. HandIsLast'
  <2>1. hand' \in HandStates
    BY <1>2, <1>3 DEF HandStates
  <2>2. QED
    BY <1>1, <1>3, <2>1 DEF RecordInv, HandIsLast, Complete, NamesTheEnd
<1>5. RowsWhole'
  BY <1>1 DEF RecordInv, RowsWhole
<1>6. DOMAIN requested = Viewers
  BY DEF RecordInv, OneRequest
<1>7. /\ requested'[v] = [step |-> "read", seat |-> s]
      /\ \A w \in Viewers : w # v => requested'[w] = Nothing
  BY <1>1, <1>6
<1>8. OneRequest'
  BY <1>1, <1>3, <1>6, <1>7 DEF OneRequest, Complete
<1>9. RowFollowsHand'
  <2>1. SUFFICES ASSUME rows[hand.number].stored, ~hand.unsaved
                 PROVE  /\ hand.rabbit # {} => rows[hand.number].rabbit = hand.rabbit
                        /\ rows[hand.number].shown \cup {s} = hand.shown \cup {s}
    BY <1>1, <1>3, <1>7, StepsDiffer DEF RecordInv, RowFollowsHand, Complete
  <2>2. QED
    BY <1>1, <2>1, StepsDiffer DEF RecordInv, RowFollowsHand
<1>10. QED
  BY <1>4, <1>5, <1>8, <1>9 DEF RecordInv

\* A write to one field of the row of the hand on the table.
LEMMA FieldWritten ==
  ASSUME RecordInv, hand.number \in 1 .. MaxHands, rows[hand.number].stored
  PROVE  /\ rows[hand.number].stored = TRUE
         /\ DOMAIN rows[hand.number] = {"stored", "players", "results", "named", "shown", "rabbit"}
         /\ rows[hand.number].shown \subseteq RecordSeats
  BY DEF RecordInv, RowsWhole, NoRow

\* What has been read has the card that is to be shown added.
LEMMA ReadKeepsRecord ==
  ASSUME RecordInv, NEW v \in Viewers, ReadPlayers(v)
  PROVE  RecordInv'
<1>1. /\ requested[v].step = "read" /\ UNCHANGED <<hand, counter, rows, looking>>
      /\ requested' = [requested EXCEPT ![v] =
            IF rows[hand.number].stored
            THEN [step |-> "write", players |-> rows[hand.number].shown \cup {requested[v].seat}]
            ELSE Nothing]
  BY DEF ReadPlayers
<1>2. requested[v] # Nothing
  BY <1>1, StepsDiffer
<1>3. HandIsLast' /\ RowsWhole'
  BY <1>1 DEF RecordInv, RowsWhole, HandIsLast, Complete, NamesTheEnd
<1>4. CASE ~rows[hand.number].stored
  <2>1. requested' = [requested EXCEPT ![v] = Nothing]
    BY <1>1, <1>4
  <2>2. OneRequest'
    BY <1>2, <2>1, EndedRequest
  <2>3. RowFollowsHand'
    BY <1>1, <1>4 DEF RowFollowsHand
  <2>4. QED
    BY <1>3, <2>2, <2>3 DEF RecordInv
<1>5. CASE rows[hand.number].stored
  <2> DEFINE P == rows[hand.number].shown \cup {requested[v].seat}
  <2>1. DOMAIN requested = Viewers /\ Complete
    BY <1>2 DEF RecordInv, OneRequest
  <2>2. /\ requested'[v] = [step |-> "write", players |-> P]
        /\ \A w \in Viewers : w # v => requested'[w] = Nothing
    BY <1>1, <1>2, <1>5, <2>1 DEF RecordInv, OneRequest
  <2>3. OneRequest'
    <3>1. P \subseteq RecordSeats
      <4>1. hand.number \in 1 .. MaxHands
        BY <2>1, RecordAssumption DEF RecordInv, HandIsLast, HandStates, Complete
      <4>2. rows[hand.number].shown \subseteq RecordSeats
        BY <1>5, <4>1, FieldWritten
      <4>3. requested[v].seat \in RecordSeats
        BY <1>1, StepsDiffer DEF RecordInv, OneRequest
      <4>4. QED
        BY <4>2, <4>3
    <3> HIDE DEF P
    <3> DOMAIN requested' = Viewers
      BY <1>1, <2>1
    <3> QED
      BY <1>1, <1>5, <2>1, <2>2, <3>1 DEF OneRequest, Complete
  <2>4. RowFollowsHand'
    <3>1. SUFFICES ASSUME ~hand.unsaved
                   PROVE  /\ hand.rabbit # {} => rows[hand.number].rabbit = hand.rabbit
                          /\ P = hand.shown
      <4> HIDE DEF P
      <4> QED
        BY <1>1, <1>5, <2>1, <2>2, StepsDiffer DEF RecordInv, RowFollowsHand, Complete
    <3>2. \A w \in Viewers : requested[w].step # "rabbit"
      BY <1>1, <1>2, StepsDiffer DEF RecordInv, OneRequest
    <3>3. QED
      BY <1>1, <1>5, <2>1, <3>1, <3>2 DEF RecordInv, RowFollowsHand
  <2>5. QED
    BY <1>3, <2>3, <2>4 DEF RecordInv
<1>6. QED
  BY <1>4, <1>5

\* The row shows what the table shows.
LEMMA WriteKeepsRecord ==
  ASSUME RecordInv, NEW v \in Viewers, WritePlayers(v)
  PROVE  RecordInv'
<1> DEFINE r == [rows[hand.number] EXCEPT !.shown = requested[v].players]
<1>1. /\ requested[v].step = "write" /\ requested' = [requested EXCEPT ![v] = Nothing]
      /\ rows' = [rows EXCEPT ![hand.number].shown = requested[v].players]
      /\ UNCHANGED <<hand, counter, looking>>
  BY DEF WritePlayers
<1>2. requested[v] # Nothing /\ rows[hand.number].stored
  BY <1>1, StepsDiffer DEF RecordInv, OneRequest
<1>3. /\ \A w \in Viewers : requested'[w].step = "none"
      /\ Complete /\ hand.number \in 1 .. MaxHands /\ hand.number = counter /\ OneRequest'
  BY <1>1, <1>2, EndedRequest
<1>4. /\ r.stored = TRUE /\ DOMAIN r = {"stored", "players", "results", "named", "shown", "rabbit"}
      /\ r.results = rows[hand.number].results /\ r.named = rows[hand.number].named
      /\ r.rabbit = rows[hand.number].rabbit /\ r.shown = requested[v].players
  BY <1>2, <1>3, FieldWritten
<1>5. rows' = [rows EXCEPT ![hand.number] = r]
  BY <1>1
<1> HIDE DEF r
<1>s. requested[v].players \subseteq RecordSeats
  BY <1>1, StepsDiffer DEF RecordInv, OneRequest
<1>6. RowsWhole' /\ rows'[hand.number] = r
  BY <1>1, <1>3, <1>4, <1>5, <1>s, RowsStayWhole
<1>7. HandIsLast'
  BY <1>1, <1>3 DEF RecordInv, HandIsLast, Complete, NamesTheEnd
<1>8. RowFollowsHand'
  <2>1. /\ r.results = hand.pots /\ r.named = hand.named
        /\ r.rabbit \in {{}, computeRabbitReveal(hand.street)}
    BY <1>2, <1>3, <1>4 DEF RecordInv, RowFollowsHand
  <2>2. hand.unsaved \/ (r.shown = hand.shown /\ (hand.rabbit # {} => r.rabbit = hand.rabbit))
    <3>1. \A w \in Viewers : requested[w].step # "rabbit"
      BY <1>1, <1>2, StepsDiffer DEF RecordInv, OneRequest
    <3>2. QED
      BY <1>1, <1>2, <1>3, <1>4, <3>1 DEF RecordInv, RowFollowsHand
  <2>3. QED
    BY <1>1, <1>3, <1>6, <2>1, <2>2 DEF RowFollowsHand
<1>9. QED
  BY <1>3, <1>6, <1>7, <1>8 DEF RecordInv

\* The rabbit cards are worked out once, and then for everybody.
LEMMA RabbitKeepsRecord ==
  ASSUME RecordInv, NEW v \in Viewers, NEW s \in RecordSeats, revealRabbit(v, s)
  PROVE  RecordInv'
<1> DEFINE cards == computeRabbitReveal(hand.street)
<1>1. /\ \A w \in Viewers : requested[w] = Nothing
      /\ Complete /\ cards # {}
      /\ hand' = [hand EXCEPT !.rabbit = cards, !.revealed = hand.revealed \cup {s}]
      /\ requested' = IF hand.rabbit = {} THEN [requested EXCEPT ![v] = [step |-> "rabbit"]]
                      ELSE requested
      /\ UNCHANGED <<counter, rows, looking>>
  BY NoRequest DEF revealRabbit
<1>2. hand \in HandStates /\ hand.rabbit \in {{}, cards} /\ cards \subseteq BoardStreets
  BY <1>1 DEF RecordInv, HandIsLast, computeRabbitReveal
<1>c. cards = computeRabbitReveal(hand.street)
  OBVIOUS
<1> HIDE DEF cards
<1>3. hand' = [number |-> hand.number, phase |-> hand.phase, dealt |-> hand.dealt, pots |-> hand.pots,
               street |-> hand.street, named |-> hand.named, shown |-> hand.shown, rabbit |-> cards,
               revealed |-> hand.revealed \cup {s}, unsaved |-> hand.unsaved]
  BY <1>1, <1>2 DEF HandStates
<1>4. HandIsLast'
  <2>1. hand' \in HandStates
    BY <1>2, <1>3 DEF HandStates
  <2>2. computeRabbitReveal(hand.street)' = cards
    BY <1>3, <1>c DEF computeRabbitReveal
  <2>3. hand'.phase = "complete" /\ hand'.number = hand.number
    BY <1>1, <1>3 DEF Complete
  <2>4. NamesTheEnd(hand)'
    BY <1>1, <1>3 DEF RecordInv, HandIsLast, NamesTheEnd
  <2>5. hand'.rabbit = cards
    BY <1>3
  <2>6. QED
    BY <1>1, <2>1, <2>2, <2>3, <2>4, <2>5 DEF RecordInv, HandIsLast, Complete
<1>5. RowsWhole'
  BY <1>1 DEF RecordInv, RowsWhole
<1>6. DOMAIN requested = Viewers
  BY DEF RecordInv, OneRequest
<1>7. /\ requested'[v] = IF hand.rabbit = {} THEN [step |-> "rabbit"] ELSE Nothing
      /\ \A w \in Viewers : w # v => requested'[w] = Nothing
      /\ DOMAIN requested' = Viewers
  BY <1>1, <1>6
<1>8. OneRequest'
  BY <1>1, <1>3, <1>6, <1>7 DEF OneRequest, Complete
<1>9. RowFollowsHand'
  <2>1. SUFFICES ASSUME rows[hand.number].stored
                 PROVE  /\ rows[hand.number].results = hand.pots /\ rows[hand.number].named = hand.named
                        /\ rows[hand.number].rabbit \in {{}, cards}
                        /\ hand.unsaved \/
                             /\ rows[hand.number].shown = hand.shown
                             /\ hand.rabbit # {} => rows[hand.number].rabbit = cards
    BY <1>1, <1>3, <1>7, <1>c, StepsDiffer DEF RowFollowsHand, Complete
  <2>2. QED
    BY <1>1, <1>2, <1>c, <2>1, StepsDiffer DEF RecordInv, RowFollowsHand
<1>10. QED
  BY <1>4, <1>5, <1>8, <1>9 DEF RecordInv

\* They are patched into the row, if there is one.
LEMMA PatchKeepsRecord ==
  ASSUME RecordInv, NEW v \in Viewers, WriteRabbit(v)
  PROVE  RecordInv'
<1> DEFINE r == [rows[hand.number] EXCEPT !.rabbit = hand.rabbit]
<1>1. /\ requested[v].step = "rabbit" /\ requested' = [requested EXCEPT ![v] = Nothing]
      /\ rows' = IF rows[hand.number].stored THEN [rows EXCEPT ![hand.number].rabbit = hand.rabbit] ELSE rows
      /\ UNCHANGED <<hand, counter, looking>>
  BY DEF WriteRabbit
<1>2. requested[v] # Nothing
  BY <1>1, StepsDiffer
<1>3. /\ \A w \in Viewers : requested'[w].step = "none"
      /\ Complete /\ hand.number \in 1 .. MaxHands /\ hand.number = counter /\ OneRequest'
  BY <1>1, <1>2, EndedRequest
<1>4. HandIsLast'
  BY <1>1, <1>3 DEF RecordInv, HandIsLast, Complete, NamesTheEnd
<1>5. CASE ~rows[hand.number].stored
  BY <1>1, <1>3, <1>4, <1>5 DEF RecordInv, RowsWhole, RowFollowsHand
<1>6. CASE rows[hand.number].stored
  <2>1. /\ r.stored = TRUE /\ DOMAIN r = {"stored", "players", "results", "named", "shown", "rabbit"}
        /\ r.results = rows[hand.number].results /\ r.named = rows[hand.number].named
        /\ r.rabbit = hand.rabbit /\ r.shown = rows[hand.number].shown /\ r.shown \subseteq RecordSeats
    BY <1>3, <1>6, FieldWritten
  <2>2. rows' = [rows EXCEPT ![hand.number] = r]
    BY <1>1, <1>6
  <2> HIDE DEF r
  <2>3. RowsWhole' /\ rows'[hand.number] = r
    BY <1>1, <1>3, <2>1, <2>2, RowsStayWhole
  <2>4. hand.rabbit \in {{}, computeRabbitReveal(hand.street)}
    BY <1>3 DEF RecordInv, HandIsLast
  <2>5. r.results = hand.pots /\ r.named = hand.named
    BY <1>3, <1>6, <2>1 DEF RecordInv, RowFollowsHand
  <2>6. hand.unsaved \/ r.shown = hand.shown
    <3>1. \A w \in Viewers : requested[w].step \notin {"read", "write"}
      BY <1>1, <1>2, StepsDiffer DEF RecordInv, OneRequest
    <3>2. QED
      BY <1>3, <1>6, <2>1, <3>1 DEF RecordInv, RowFollowsHand
  <2>7. RowFollowsHand'
    BY <1>1, <1>3, <2>1, <2>3, <2>4, <2>5, <2>6 DEF RowFollowsHand
  <2>8. QED
    BY <1>3, <1>4, <2>3, <2>7 DEF RecordInv
<1>7. QED
  BY <1>5, <1>6

\* The replay writes into the row of the hand on the table what the table would have.
LEMMA ReplayKeepsRecord ==
  ASSUME RecordInv, NEW v \in Viewers, replayRevealRabbit(v)
  PROVE  RecordInv'
<1> DEFINE cards == ReplayedRabbit(rows[looking[v]])
<1>1. /\ looking[v] # 0 /\ looking' = [looking EXCEPT ![v] = 0]
      /\ rows' = [rows EXCEPT ![looking[v]].rabbit = cards] /\ UNCHANGED <<hand, counter, requested>>
  BY DEF replayRevealRabbit
<1>c. cards = ReplayedRabbit(rows[looking[v]])
  OBVIOUS
<1> HIDE DEF cards
<1>2. PICK n \in 1 .. MaxHands : n = looking[v]
  BY <1>1 DEF RecordInv, RowsWhole
<1>3. rows[n].stored
  BY <1>1, <1>2 DEF RecordInv, RowsWhole
<1>4. rows[n].stored = TRUE /\ n <= counter
      /\ DOMAIN rows[n] = {"stored", "players", "results", "named", "shown", "rabbit"}
      /\ rows[n].shown \subseteq RecordSeats
  BY <1>3 DEF RecordInv, RowsWhole, NoRow
<1>5. PICK r : r = [rows[n] EXCEPT !.rabbit = cards]
  OBVIOUS
<1>6. rows' = [rows EXCEPT ![n] = r]
  BY <1>1, <1>2, <1>5
<1>7. /\ r.stored = TRUE /\ DOMAIN r = DOMAIN rows[n] /\ r.rabbit = cards
      /\ r.results = rows[n].results /\ r.named = rows[n].named /\ r.shown = rows[n].shown
  BY <1>4, <1>5
<1>8. DOMAIN rows = 1 .. MaxHands
  BY DEF RecordInv, RowsWhole
<1>9. rows'[n] = r /\ \A k \in 1 .. MaxHands : k # n => rows'[k] = rows[k]
  BY <1>6, <1>8
<1>10. RowsWhole'
  <2>1. \A k \in 1 .. MaxHands : rows[k].stored => rows'[k].stored
    BY <1>7, <1>9
  <2>2. \A w \in Viewers : looking'[w] # 0 => looking'[w] = looking[w]
    BY <1>1 DEF RecordInv, RowsWhole
  <2>3. DOMAIN looking' = Viewers /\ DOMAIN rows' = 1 .. MaxHands
    BY <1>1, <1>6, <1>8 DEF RecordInv, RowsWhole
  <2>4. \A k \in 1 .. MaxHands :
       \/ rows'[k] = NoRow
       \/ /\ rows'[k].stored = TRUE /\ k <= counter
          /\ DOMAIN rows'[k] = {"stored", "players", "results", "named", "shown", "rabbit"}
          /\ rows'[k].shown \subseteq RecordSeats
    BY <1>4, <1>7, <1>9 DEF RecordInv, RowsWhole
  <2>5. QED
    BY <1>1, <2>1, <2>2, <2>3, <2>4 DEF RecordInv, RowsWhole
<1>11. hand.number = n => rows[hand.number].stored
  BY <1>3
<1>12. hand.number # 0 => hand.number \in 1 .. MaxHands
  BY RecordAssumption DEF RecordInv, HandIsLast, HandStates
<1>13. rows'[hand.number].stored = rows[hand.number].stored \/ hand.number = 0
  BY <1>4, <1>7, <1>9, <1>12
<1>14. HandIsLast'
  BY <1>1, <1>13 DEF RecordInv, HandIsLast, Complete, NamesTheEnd
<1>15. OneRequest'
  <2>1. Complete => hand.number # 0
    BY DEF RecordInv, HandIsLast, Complete
  <2>2. QED
    BY <1>1, <1>13, <2>1 DEF RecordInv, OneRequest, Complete
<1>16. RowFollowsHand'
  <2>1. CASE hand.number = n /\ Complete
    <3>1. hand.named = rows[n].named
      BY <1>3, <2>1 DEF RecordInv, RowFollowsHand
    <3>2. NamesTheEnd(hand) /\ hand.rabbit \in {{}, computeRabbitReveal(hand.street)}
      BY <2>1 DEF RecordInv, HandIsLast
    <3>3. computeRabbitReveal(deriveFinalStreetIndex(hand.named)) = computeRabbitReveal(hand.street)
      BY <3>2, SameRabbit, RecordAssumption
    <3>4. cards = computeRabbitReveal(hand.street)
      BY <1>2, <1>c, <3>1, <3>3 DEF ReplayedRabbit
    <3>5. rows'[hand.number] = r
      BY <1>9, <2>1
    <3>6. QED
      BY <1>1, <1>3, <1>7, <2>1, <3>2, <3>4, <3>5 DEF RecordInv, RowFollowsHand
  <2>2. CASE hand.number # n /\ Complete
    <3>1. hand.number \in 1 .. MaxHands
      BY <1>12, <2>2 DEF RecordInv, HandIsLast, Complete
    <3>2. rows'[hand.number] = rows[hand.number]
      BY <1>9, <2>2, <3>1
    <3>3. QED
      BY <1>1, <3>2, ZenonT(60) DEF RecordInv, RowFollowsHand, Complete
  <2>3. CASE ~Complete
    BY <1>1, <2>3 DEF RowFollowsHand, Complete
  <2>4. QED
    BY <2>1, <2>2, <2>3
<1>17. QED
  BY <1>10, <1>14, <1>15, <1>16 DEF RecordInv

\* A restart forgets the hand and goes on counting after the last row.
LEMMA RestartKeepsRecord ==
  ASSUME RecordInv, RestartHands
  PROVE  RecordInv'
<1> DEFINE S == {0} \cup {n \in 1 .. MaxHands : rows[n].stored}
<1>1. /\ hand' = NoHand /\ counter' = Max(S)
      /\ requested' = [v \in Viewers |-> Nothing] /\ looking' = [v \in Viewers |-> 0] /\ rows' = rows
  BY DEF RestartHands
<1>2. S \subseteq 0 .. MaxHands /\ S # {} /\ S \subseteq Nat /\ MaxHands \in Nat
  BY RecordAssumption
<1>3. IsFiniteSet(S)
  <2>1. IsFiniteSet(0 .. MaxHands)
    BY <1>2, FS_Interval
  <2>2. QED
    BY <1>2, <2>1, FS_Subset
<1>4. counter' \in S /\ \A n \in S : n <= counter'
  <2> HIDE DEF S
  <2> QED
    BY <1>1, <1>2, <1>3, LargestNumber
<1>5. RowsWhole'
  BY <1>1, <1>2, <1>4 DEF RecordInv, RowsWhole
<1>6. hand' \in HandStates /\ hand'.phase = "none" /\ hand'.number = 0
  BY <1>1, RecordAssumption DEF NoHand, HandStates
<1>7. HandIsLast'
  BY <1>6 DEF HandIsLast, Complete
<1>8. OneRequest'
  BY <1>1 DEF OneRequest
<1>9. RowFollowsHand'
  BY <1>6 DEF RowFollowsHand, Complete
<1>10. QED
  BY <1>5, <1>7, <1>8, <1>9 DEF RecordInv

\* Every step keeps hand and row together.
LEMMA StepKeepsRecord == RecordInv /\ [RecordNext]_recordVars => RecordInv'
<1> SUFFICES ASSUME RecordInv, [RecordNext]_recordVars PROVE RecordInv'
  OBVIOUS
<1> QED
  BY SeatsAndLooks, DealKeepsRecord, FinishKeepsRecord, PersistKeepsRecord, ThrowKeepsRecord, ShowKeepsRecord,
     ReadKeepsRecord, WriteKeepsRecord, RabbitKeepsRecord, PatchKeepsRecord, ReplayKeepsRecord,
     RestartKeepsRecord, Zenon DEF RecordNext

\* The invariant gives what the log promises.
LEMMA RecordInvImplies == RecordInv => RecordMatchesTable
<1> SUFFICES ASSUME RecordInv, Complete, LockFree, rows[hand.number].stored, ~hand.unsaved
             PROVE  LET row == rows[hand.number]
                    IN  /\ \A s \in hand.dealt, v \in Viewers :
                             occupant[s] = row.players[s] => SeenAtTable(v, s) = SeenInLog(v, s, row)
                        /\ hand.rabbit # {} => row.rabbit = hand.rabbit
                        /\ row.rabbit \in {{}, computeRabbitReveal(hand.street)}
  BY DEF RecordMatchesTable
<1> DEFINE row == rows[hand.number]
<1>1. \A v \in Viewers : requested[v].step = "none"
  BY NoRequest, StepsDiffer
<1>2. /\ row.results = hand.pots /\ row.shown = hand.shown
      /\ row.rabbit \in {{}, computeRabbitReveal(hand.street)}
      /\ hand.rabbit # {} => row.rabbit = hand.rabbit
  BY <1>1 DEF RecordInv, RowFollowsHand
<1>3. ASSUME NEW s \in hand.dealt, NEW v \in Viewers, occupant[s] = row.players[s]
      PROVE  SeenAtTable(v, s) = SeenInLog(v, s, row)
  BY <1>2, <1>3, Zenon DEF SeenAtTable, SeenInLog
<1>4. QED
  BY <1>2, <1>3

\* Any number of seats, viewers and hands, whoever asks for what and whatever the database
\* refuses: the log shows of the hand on the table what the table shows, the rabbit cards
\* of the replay are those of the table, and no request overtakes another's write
\* (showCards, revealRabbit, persistHandResult, replayRevealRabbit).
THEOREM RecordIsTheTable == RecordSpec => []RecordMatchesTable
<1>1. RecordSpec => []RecordInv
  BY InitRecord, StepKeepsRecord, PTL DEF RecordSpec
<1>2. QED
  BY <1>1, RecordInvImplies, PTL

-----------------------------------------------------------------------------
(* The page of a player.                                                  *)

ClientSpec == ClientInit /\ [][ClientNext]_clientVars

Types == ActionTypes["poker"] \cup ActionTypes["clang"] \cup ActionTypes["cardflip"]
PageGames == [kind : Kinds \cup {"none"}, number : Nat, log : Seq([type : Types, seat : PagePlayers \cup {Nobody}]),
          turn : PagePlayers \cup {Nobody}, range : SUBSET Ranges, over : BOOLEAN, called : BOOLEAN, net : Int]

\* A hand or round has a number; the actions of Clang are those that have a hook.
GameOK(g) ==
  /\ g \in PageGames
  /\ g.kind = "none" <=> g.number = 0
  /\ g.kind = "none" => g.log = <<>> /\ ~g.over /\ ~g.called
  /\ g.kind = "clang" /\ g.log # <<>> => g.log[Len(g.log)].type \in {"draw", "play", "eat", "other"}

\* What the page shows was there before: an older hand or round, or the same one with fewer
\* actions, unless nothing has happened since.
ScreenIsOlder ==
  /\ GameOK(current) /\ GameOK(screen) /\ screen.number <= current.number
  /\ screen.number = current.number =>
       /\ Len(screen.log) <= Len(current.log)
       /\ screen.over \/ Len(screen.log) = Len(current.log) => screen = current

Hooks == {"poker", "draw", "play", "eat", "cardflip"}

\* A reference holds what its hook was last run for, which the page has shown.
RefsFollow ==
  /\ DOMAIN ref = Hooks \cup {"start", "called", "win"}
  /\ ActionShown(screen) => ref[Hook(screen)] = ActionKey(screen)
  /\ \A h \in Hooks : ref[h] = <<0, 0>> \/ ref[h] \in seen
  /\ ref.start = screen.number
  /\ screen.called => ref.called = screen.number
  /\ ref.called \in Nat /\ (ref.called # 0 => <<"called", ref.called, 0>> \in heard)
  /\ ref.win \in Nat /\ ref.win <= screen.number
  /\ ref.win = screen.number /\ ref.win # 0 => Won(screen)

NotAhead(n, l) == n <= screen.number /\ (n = screen.number => l <= Len(screen.log))

\* Nothing is heard or seen ahead of the screen; actions are heard unless they are silent.
HeardWasShown ==
  /\ heard \subseteq {"action", "start", "called", "win"} \X Nat \X Nat
  /\ seen \subseteq Nat \X Nat /\ mute \subseteq seen
  /\ \A k \in seen : NotAhead(k[1], k[2])
  /\ \A n, l \in Nat : <<"action", n, l>> \in heard <=> <<n, l>> \in seen \ mute
  /\ \A n \in Nat : <<"start", n, 0>> \in heard => n <= screen.number
  /\ \A n \in Nat : <<"called", n, 0>> \in heard => n <= screen.number /\ (n = screen.number => ref.called = n)
  /\ \A n \in Nat : <<"win", n, 0>> \in heard => n <= screen.number /\ (n = screen.number => Won(screen))

\* The timers that run are those of the screen.
TimersFollow ==
  /\ winTimer # 0 => winTimer = screen.number
  /\ IF Won(screen) THEN (winTimer = screen.number) # (<<"win", screen.number, 0>> \in heard)
                     ELSE winTimer = 0
  /\ reminders # {} \/ panel.open => MyTurn(screen)

PageInv ==
  /\ ScreenIsOlder /\ RefsFollow /\ HeardWasShown /\ TimersFollow
  /\ twice = {} /\ DOMAIN panel = {"open", "input"}
  /\ sent.to \in sent.range.min .. sent.range.max

\* The invariant of the page holds at the start.
LEMMA InitPage == ClientInit => PageInv
<1> SUFFICES ASSUME ClientInit PROVE PageInv
  OBVIOUS
<1>1. GameOK(NothingOn)
  <2>1. <<>> \in Seq([type : Types, seat : PagePlayers \cup {Nobody}])
    OBVIOUS
  <2>2. NothingOn \in PageGames
    BY <2>1 DEF NothingOn, PageGames
  <2>3. QED
    BY <2>2 DEF GameOK, NothingOn
<1>2. ScreenIsOlder
  BY <1>1 DEF ClientInit, ScreenIsOlder, NothingOn
<1>3. ~Won(screen) /\ ~ActionShown(screen) /\ screen.number = 0 /\ ~screen.called
  BY DEF ClientInit, NothingOn, Won, ActionShown
<1>4. RefsFollow
  BY <1>3 DEF ClientInit, RefsFollow, Hooks
<1>5. HeardWasShown
  BY DEF ClientInit, HeardWasShown
<1>6. TimersFollow
  BY <1>3 DEF ClientInit, TimersFollow
<1>7. QED
  BY <1>2, <1>4, <1>5, <1>6 DEF PageInv, ClientInit, NoRange

\* What the page needs of the table: a number and a log that grow, and an end that is final.
LEMMA TablePage ==
  ASSUME PageInv, TableMoves
  PROVE  PageInv'
<1>1. UNCHANGED <<screen, ref, winTimer, reminders, panel, heard, twice, seen, mute, sent>>
  BY DEF TableMoves, clientHistory
<1>2. GameOK(current) /\ GameOK(screen)
  BY DEF PageInv, ScreenIsOlder
<1> DEFINE Entries == [type : Types, seat : PagePlayers \cup {Nobody}]
<1>3. ASSUME BeginGame PROVE GameOK(current)' /\ current'.number = current.number + 1
  <2>1. PICK kind \in Kinds, s \in PagePlayers : \E r \in RangesFor(kind, s) :
          current' = [NothingOn EXCEPT !.kind = kind, !.number = current.number + 1, !.turn = s, !.range = r]
    BY <1>3 DEF BeginGame
  <2>2. PICK r \in RangesFor(kind, s) :
          current' = [NothingOn EXCEPT !.kind = kind, !.number = current.number + 1, !.turn = s, !.range = r]
    BY <2>1
  <2>3. r \in SUBSET Ranges /\ <<>> \in Seq(Entries) /\ current.number \in Nat
    BY <1>2 DEF RangesFor, GameOK, PageGames
  <2>4. current' = [kind |-> kind, number |-> current.number + 1, log |-> <<>>, turn |-> s, range |-> r,
                    over |-> FALSE, called |-> FALSE, net |-> 0]
    BY <2>2 DEF NothingOn
  <2>5. current' \in PageGames /\ current'.kind # "none" /\ current'.number # 0 /\ current'.log = <<>>
    BY <2>3, <2>4 DEF PageGames, Kinds
  <2>6. QED
    BY <2>3, <2>4, <2>5 DEF GameOK
<1>a. ASSUME NEW type \in ActionTypes[current.kind], GameOn
      PROVE  type \in Types /\ (current.kind = "clang" => type \in {"draw", "play", "eat", "other"})
  <2>1. current.kind \in Kinds
    BY <1>a, <1>2 DEF GameOn, GameOK, PageGames
  <2>2. /\ ActionTypes["poker"] = {"check", "dealCommunityCards", "redraw"}
        /\ ActionTypes["clang"] = {"draw", "play", "eat", "other"}
        /\ ActionTypes["cardflip"] = {"draw"}
    BY DEF ActionTypes
  <2>4. type \in ActionTypes["poker"] \cup ActionTypes["clang"] \cup ActionTypes["cardflip"]
    BY <1>a, <2>1 DEF Kinds
  <2>5. type \in Types
    BY <2>4 DEF Types
  <2>6. QED
    BY <1>a, <2>2, <2>5
<1>b. ASSUME NEW type \in Types, current.kind = "clang" => type \in {"draw", "play", "eat", "other"},
             ~current.over, current.kind # "none",
             current'.log = Logged(type), current'.kind = current.kind, current'.number = current.number,
             current' = [kind |-> current'.kind, number |-> current'.number, log |-> current'.log,
                    turn |-> current'.turn, range |-> current'.range, over |-> current'.over,
                    called |-> current'.called, net |-> current'.net],
             current'.over \in BOOLEAN, current'.called \in BOOLEAN, current'.net \in Int,
             current'.turn \in PagePlayers \cup {Nobody}, current'.range \in SUBSET Ranges
      PROVE  GameOK(current)' /\ Len(current'.log) = Len(current.log) + 1
  <2>1. PICK s \in PagePlayers \cup {Nobody} : current'.log = Append(current.log, [type |-> type, seat |-> s])
    BY <1>b, <1>2, Zenon DEF Logged, GameOK, PageGames
  <2>2. current.log \in Seq(Entries) /\ [type |-> type, seat |-> s] \in Entries
    BY <1>2 DEF GameOK, PageGames
  <2>3. current'.log \in Seq(Entries) /\ Len(current'.log) = Len(current.log) + 1
        /\ current'.log # <<>> /\ current'.log[Len(current'.log)].type = type
    BY <2>1, <2>2
  <2>4. current.kind \in Kinds /\ current.number \in Nat /\ current.number # 0
    BY <1>2, <1>b DEF GameOK, PageGames
  <2>5. current' \in PageGames
    BY <1>b, <2>3, <2>4 DEF PageGames
  <2>6. QED
    BY <1>b, <2>3, <2>4, <2>5 DEF GameOK
<1>c. current.turn \in PagePlayers \cup {Nobody} /\ current.range \in SUBSET Ranges /\ current.net \in Int
      /\ current.called \in BOOLEAN /\ current = [kind |-> current.kind, number |-> current.number, log |-> current.log,
           turn |-> current.turn, range |-> current.range, over |-> current.over,
           called |-> current.called, net |-> current.net]
  BY <1>2 DEF GameOK, PageGames
<1>4. ASSUME ActionLogged \/ EndGame
      PROVE  /\ GameOK(current)' /\ current'.number = current.number
             /\ Len(current'.log) = Len(current.log) + 1 /\ ~current.over
  <2>1. CASE ActionLogged
    <3>1. PICK type \in ActionTypes[current.kind], s \in PagePlayers : \E r \in RangesFor(current.kind, s) :
            current' = [current EXCEPT !.log = Logged(type), !.turn = s, !.range = r]
      BY <2>1, Zenon DEF ActionLogged
    <3>2. PICK r \in RangesFor(current.kind, s) :
            current' = [current EXCEPT !.log = Logged(type), !.turn = s, !.range = r]
      BY <3>1
    <3>3. GameOn /\ r \in SUBSET Ranges
      BY <2>1 DEF ActionLogged, RangesFor
    <3> DEFINE L == Logged(type)
    <3>4. current' = [kind |-> current.kind, number |-> current.number, log |-> L,
                      turn |-> s, range |-> r, over |-> current.over,
                      called |-> current.called, net |-> current.net]
      <4> HIDE DEF L
      <4> current' = [current EXCEPT !.log = L, !.turn = s, !.range = r]
        BY <3>2 DEF L
      <4> QED
        BY <1>c
    <3>5. current.kind # "none" /\ current.over = FALSE
      BY <1>2, <3>3 DEF GameOn, GameOK, PageGames
    <3>6. type \in Types /\ (current.kind = "clang" => type \in {"draw", "play", "eat", "other"})
      BY <1>a, <3>3
    <3> HIDE DEF L
    <3>7. /\ current'.log = L /\ current'.kind = current.kind /\ current'.number = current.number
          /\ current' = [kind |-> current'.kind, number |-> current'.number, log |-> current'.log,
                    turn |-> current'.turn, range |-> current'.range, over |-> current'.over,
                    called |-> current'.called, net |-> current'.net]
          /\ current'.over \in BOOLEAN /\ current'.called \in BOOLEAN /\ current'.net \in Int
          /\ current'.turn \in PagePlayers \cup {Nobody} /\ current'.range \in SUBSET Ranges
      BY <1>c, <3>3, <3>4, <3>5
    <3>8. QED
      BY <1>b, <3>5, <3>6, <3>7 DEF L
  <2>2. CASE EndGame
    <3>1. PICK called \in BOOLEAN, w \in {-1, 1},
               type \in IF current.kind = "poker" THEN ActionTypes["poker"] \ {"redraw"} ELSE {"other"} :
            current' = [current EXCEPT !.over = TRUE, !.turn = Nobody, !.range = {}, !.net = w,
                            !.log = Logged(type), !.called = called /\ current.kind = "clang"]
      BY <2>2, Zenon DEF EndGame
    <3>3. GameOn
      BY <2>2 DEF EndGame
    <3> DEFINE L == Logged(type)
               C == called /\ current.kind = "clang"
    <3>4. current' = [kind |-> current.kind, number |-> current.number, log |-> L,
                      turn |-> Nobody, range |-> {}, over |-> TRUE,
                      called |-> C, net |-> w]
      <4> HIDE DEF L, C
      <4> current' = [current EXCEPT !.over = TRUE, !.turn = Nobody, !.range = {}, !.net = w, !.log = L, !.called = C]
        BY <3>1 DEF L, C
      <4> QED
        BY <1>c
    <3>5. current.kind # "none" /\ current.over = FALSE
      BY <1>2, <3>3 DEF GameOn, GameOK, PageGames
    <3>6. type \in Types /\ (current.kind = "clang" => type \in {"draw", "play", "eat", "other"})
      <4>1. "other" \in Types
        BY DEF Types, ActionTypes
      <4>2. type \in ActionTypes["poker"] \/ type = "other"
        OBVIOUS
      <4>3. type \in Types
        BY <4>1, <4>2 DEF Types
      <4>4. QED
        BY <4>3
    <3>9. C \in BOOLEAN /\ w \in Int
      OBVIOUS
    <3> HIDE DEF L, C
    <3>7. /\ current'.log = L /\ current'.kind = current.kind /\ current'.number = current.number
          /\ current' = [kind |-> current'.kind, number |-> current'.number, log |-> current'.log,
                    turn |-> current'.turn, range |-> current'.range, over |-> current'.over,
                    called |-> current'.called, net |-> current'.net]
          /\ current'.over \in BOOLEAN /\ current'.called \in BOOLEAN /\ current'.net \in Int
          /\ current'.turn \in PagePlayers \cup {Nobody} /\ current'.range \in SUBSET Ranges
      BY <3>4, <3>9
    <3>8. QED
      BY <1>b, <3>5, <3>6, <3>7 DEF L
  <2>3. QED
    BY <1>4, <2>1, <2>2
<1>5. ScreenIsOlder'
  <2>1. Len(screen.log) \in Nat /\ Len(current.log) \in Nat /\ screen.number \in Nat /\ current.number \in Nat
    BY <1>2 DEF GameOK, PageGames
  <2>2. GameOK(screen)'
    BY <1>1, <1>2, Zenon DEF GameOK
  <2>3. CASE BeginGame
    BY <1>1, <1>3, <2>1, <2>2, <2>3 DEF PageInv, ScreenIsOlder
  <2>4. CASE ActionLogged \/ EndGame
    BY <1>1, <1>4, <2>1, <2>2, <2>4 DEF PageInv, ScreenIsOlder
  <2>5. CASE AwayChanges
    BY <1>1, <1>2, <2>2, <2>5 DEF PageInv, ScreenIsOlder, AwayChanges, GameOK
  <2>6. QED
    BY <2>3, <2>4, <2>5 DEF TableMoves
<1>6. RefsFollow' /\ HeardWasShown' /\ TimersFollow'
  BY <1>1 DEF PageInv, RefsFollow, HeardWasShown, TimersFollow, NotAhead, Won, ActionShown, Hook, ActionKey, MyTurn
<1>7. QED
  BY <1>1, <1>5, <1>6 DEF PageInv

\* What is drawn is newer than what was shown, or the same.
LEMMA Newer ==
  ASSUME PageInv
  PROVE  /\ GameOK(current) /\ GameOK(screen)
         /\ current.number \in Nat /\ screen.number \in Nat /\ Len(current.log) \in Nat /\ Len(screen.log) \in Nat
         /\ screen.number <= current.number
         /\ current.number = screen.number /\ Len(current.log) <= Len(screen.log) => screen = current
         /\ current.number = screen.number /\ screen.over => screen = current
         /\ current.called => current.number # 0
         /\ Won(current) => current.number # 0
         /\ Won(screen) => screen.number # 0
         /\ ActionShown(current) => Hook(current) \in Hooks /\ Len(current.log) > 0
<1>1. GameOK(current) /\ GameOK(screen)
  BY DEF PageInv, ScreenIsOlder
<1>2. current.number \in Nat /\ screen.number \in Nat /\ Len(current.log) \in Nat /\ Len(screen.log) \in Nat
  BY <1>1 DEF GameOK, PageGames
<1>3. /\ screen.number <= current.number
      /\ current.number = screen.number /\ Len(current.log) <= Len(screen.log) => screen = current
      /\ current.number = screen.number /\ screen.over => screen = current
  BY <1>2 DEF PageInv, ScreenIsOlder
<1>4. /\ current.called => current.number # 0
      /\ Won(current) => current.number # 0
      /\ Won(screen) => screen.number # 0
  BY <1>1 DEF GameOK, Won
<1>5. ASSUME ActionShown(current) PROVE Hook(current) \in Hooks /\ Len(current.log) > 0
  <2>1. current.log # <<>> /\ current.log[Len(current.log)].type # "other"
    BY <1>5 DEF ActionShown
  <2>2. current.kind \in Kinds
    BY <1>1, <2>1 DEF GameOK, PageGames
  <2>3. Len(current.log) > 0
    BY <1>1, <2>1 DEF GameOK, PageGames
  <2>4. QED
    BY <1>1, <2>1, <2>2, <2>3 DEF GameOK, Hook, Hooks, Kinds
<1>6. QED
  BY <1>1, <1>2, <1>3, <1>4, <1>5

\* A render keeps the invariant: nothing it plays has been played.
LEMMA RenderPage ==
  ASSUME PageInv, Render
  PROVE  PageInv'
<1> DEFINE g == current
           key == <<current.number, Len(current.log)>>
           sounds == NewAction(current) /\ Sounds(current, awayNow)
           A == IF sounds THEN {<<"action", g.number, Len(g.log)>>} ELSE {}
           B == IF Starts(g) THEN {<<"start", g.number, 0>>} ELSE {}
           C == IF ClangCalled(g) THEN {<<"called", g.number, 0>>} ELSE {}
<1>1. /\ screen' = current
      /\ heard' = heard \cup (A \cup B \cup C) /\ twice' = twice \cup (heard \cap (A \cup B \cup C))
      /\ winTimer' = WinTimer(current) /\ reminders' = Reminders(current)
      /\ panel' = IF MyTurn(current) /\ current.kind = "poker" THEN panel ELSE [panel EXCEPT !.open = FALSE]
      /\ seen' = seen \cup (IF ~ActionShown(current) THEN {} ELSE {key})
      /\ mute' = IF NewAction(current) /\ ~sounds THEN mute \cup {key} ELSE mute
      /\ current' = current /\ sent' = sent
  BY Zenon DEF Render, Hear, serverSide
<1>2. ref' = [h \in DOMAIN ref |->
                   CASE h = "start" -> IF current.kind = "none" THEN 0 ELSE current.number
                     [] h = "called" /\ current.called -> current.number
                     [] h = "win" /\ Won(current) -> current.number
                     [] NewAction(current) /\ h = Hook(current) -> ActionKey(current)
                     [] OTHER -> ref[h]]
  BY Zenon DEF Render
<1> HIDE DEF sounds, key
<1>3. /\ screen.number <= current.number
      /\ current.number = screen.number /\ Len(current.log) <= Len(screen.log) => screen = current
      /\ current.number = screen.number /\ screen.over => screen = current
      /\ current.number \in Nat /\ screen.number \in Nat /\ Len(current.log) \in Nat /\ Len(screen.log) \in Nat
      /\ GameOK(current)
      /\ current.called => current.number # 0
      /\ Won(current) => current.number # 0
      /\ Won(screen) => screen.number # 0
      /\ ActionShown(current) => Hook(current) \in Hooks /\ Len(current.log) > 0
      /\ (current.kind = "none" <=> current.number = 0)
  BY Newer DEF GameOK
<1>4. RefsFollow /\ HeardWasShown /\ TimersFollow /\ twice = {}
  BY DEF PageInv
\* The key of an action that is new has not been shown, and one that is not has been.
<1>5. /\ NewAction(current) => key \notin seen
      /\ ActionShown(current) /\ ~NewAction(current) => key \in seen
      /\ NewAction(current) => ActionShown(current)
      /\ sounds => NewAction(current)
  <2>1. ASSUME NewAction(current), key \in seen PROVE FALSE
    <3>1. current.number <= screen.number /\ (current.number = screen.number => Len(current.log) <= Len(screen.log))
      BY <1>4, <2>1 DEF HeardWasShown, NotAhead, key
    <3>2. screen = current
      BY <1>3, <3>1
    <3>3. QED
      BY <1>4, <2>1, <3>2 DEF RefsFollow, NewAction
  <2>2. ASSUME ActionShown(current), ~NewAction(current) PROVE key \in seen
    <3>1. ref[Hook(current)] = key /\ key # <<0, 0>>
      BY <1>3, <2>2 DEF NewAction, ActionKey, key
    <3>2. QED
      BY <1>3, <1>4, <2>2, <3>1 DEF RefsFollow
  <2>3. QED
    BY <2>1, <2>2 DEF NewAction, sounds
\* Nothing is played again.
<1>6. twice' = {}
  <2>1. <<"action", current.number, Len(current.log)>> \in heard => ~sounds
    BY <1>3, <1>4, <1>5 DEF HeardWasShown, key
  <2>2. <<"start", current.number, 0>> \in heard => ~Starts(current)
    BY <1>3, <1>4 DEF HeardWasShown, RefsFollow, Starts
  <2>3. <<"called", current.number, 0>> \in heard => ~ClangCalled(current)
    BY <1>3, <1>4 DEF HeardWasShown, ClangCalled
  <2>4. QED
    BY <1>1, <1>4, <2>1, <2>2, <2>3
<1>7. ScreenIsOlder'
  BY <1>1, <1>3 DEF ScreenIsOlder, GameOK
<1>8. /\ ref'.start = current.number
      /\ ref'.called = IF current.called THEN current.number ELSE ref.called
      /\ ref'.win = IF Won(current) THEN current.number ELSE ref.win
      /\ \A h \in Hooks : ref'[h] = IF NewAction(current) /\ h = Hook(current) THEN key ELSE ref[h]
      /\ DOMAIN ref' = DOMAIN ref
  <2>1. DOMAIN ref = Hooks \cup {"start", "called", "win"}
    BY <1>4 DEF RefsFollow
  <2>2. ref'.start = current.number
    <3>1. NewAction(current) => Hook(current) # "start"
      BY <1>3, <1>5 DEF Hooks
    <3>2. "start" \in DOMAIN ref
      BY <2>1
    <3>3. ref'.start = IF current.kind = "none" THEN 0 ELSE current.number
      BY <1>2, <3>1, <3>2
    <3>4. QED
      BY <1>3, <3>3
  <2>3. ref'.called = IF current.called THEN current.number ELSE ref.called
    <3>1. NewAction(current) => Hook(current) # "called"
      BY <1>3, <1>5 DEF Hooks
    <3>2. QED
      BY <1>2, <2>1, <3>1
  <2>4. ref'.win = IF Won(current) THEN current.number ELSE ref.win
    <3>1. NewAction(current) => Hook(current) # "win"
      BY <1>3, <1>5 DEF Hooks
    <3>2. QED
      BY <1>2, <2>1, <3>1
  <2>5. \A h \in Hooks : ref'[h] = IF NewAction(current) /\ h = Hook(current) THEN key ELSE ref[h]
    <3>1. SUFFICES ASSUME NEW h \in Hooks
                   PROVE  ref'[h] = IF NewAction(current) /\ h = Hook(current) THEN key ELSE ref[h]
      OBVIOUS
    <3>2. h \in DOMAIN ref /\ h \notin {"start", "called", "win"}
      BY <2>1 DEF Hooks
    <3>3. ActionKey(current) = key
      BY DEF ActionKey, key
    <3>4. QED
      BY <1>2, <3>2, <3>3
  <2>6. QED
    BY <1>2, <2>2, <2>3, <2>4, <2>5
<1>9. /\ \A n \in Nat : <<"start", n, 0>> \in heard' => <<"start", n, 0>> \in heard \/ n = current.number
      /\ \A n \in Nat : <<"called", n, 0>> \in heard' => <<"called", n, 0>> \in heard
                                                       \/ (n = current.number /\ current.called)
      /\ \A n \in Nat : <<"win", n, 0>> \in heard' <=> <<"win", n, 0>> \in heard
      /\ current.called => <<"called", current.number, 0>> \in heard \/ <<"called", current.number, 0>> \in heard'
      /\ heard \subseteq heard'
  <2>1. \A n \in Nat : <<"start", n, 0>> \in heard' => <<"start", n, 0>> \in heard \/ n = current.number
    BY <1>1
  <2>2. \A n \in Nat : <<"called", n, 0>> \in heard' => <<"called", n, 0>> \in heard
                                                       \/ (n = current.number /\ current.called)
    BY <1>1 DEF ClangCalled
  <2>3. \A n \in Nat : <<"win", n, 0>> \in heard' <=> <<"win", n, 0>> \in heard
    BY <1>1
  <2>4. current.called => <<"called", current.number, 0>> \in heard \/ <<"called", current.number, 0>> \in heard'
    BY <1>1, <1>3, <1>4 DEF ClangCalled, RefsFollow
  <2>5. QED
    BY <1>1, <2>1, <2>2, <2>3, <2>4
<1>10. RefsFollow'
  <2>1. ActionShown(current) => ref'[Hook(current)] = key
    BY <1>3, <1>8 DEF NewAction, ActionKey, key
  <2>2. \A h \in Hooks : ref'[h] = <<0, 0>> \/ ref'[h] \in seen'
    <3>1. NewAction(current) => key \in seen'
      BY <1>1, <1>5
    <3>2. seen \subseteq seen'
      BY <1>1
    <3>3. QED
      BY <1>4, <1>8, <3>1, <3>2 DEF RefsFollow
  <2>3. ref'.called \in Nat /\ (ref'.called # 0 => <<"called", ref'.called, 0>> \in heard')
    BY <1>3, <1>4, <1>8, <1>9 DEF RefsFollow
  <2>4. ref'.win \in Nat /\ ref'.win <= current.number
    BY <1>3, <1>4, <1>8 DEF RefsFollow
  <2>5. ref'.win = current.number /\ ref'.win # 0 => Won(current)
    <3>1. ASSUME ~Won(current), ref.win = current.number, ref.win # 0 PROVE FALSE
      <4>1. ref.win = screen.number /\ Won(screen)
        BY <1>3, <1>4, <3>1 DEF RefsFollow
      <4>2. screen = current
        BY <1>3, <3>1, <4>1 DEF Won
      <4>3. QED
        BY <3>1, <4>1, <4>2
    <3>2. QED
      BY <1>8, <3>1
  <2>6. QED
    BY <1>1, <1>4, <1>8, <2>1, <2>2, <2>3, <2>4, <2>5 DEF RefsFollow, ActionShown, Hook, ActionKey, Won, key
<1>11. HeardWasShown'
  <2>1. heard' \subseteq {"action", "start", "called", "win"} \X Nat \X Nat
    BY <1>1, <1>3, <1>4 DEF HeardWasShown
  <2>2. seen' \subseteq Nat \X Nat /\ mute' \subseteq seen'
    BY <1>1, <1>3, <1>4, <1>5 DEF HeardWasShown, key
  <2>3. \A k \in seen' : NotAhead(k[1], k[2])'
    <3>1. SUFFICES ASSUME NEW k \in seen'
                   PROVE  k[1] <= current.number /\ (k[1] = current.number => k[2] <= Len(current.log))
      BY <1>1 DEF NotAhead
    <3>2. CASE k = key
      BY <1>3, <3>2 DEF key
    <3>3. CASE k \in seen
      <4>1. k \in Nat \X Nat /\ k[1] <= screen.number /\ (k[1] = screen.number => k[2] <= Len(screen.log))
        BY <1>4, <3>3 DEF HeardWasShown, NotAhead
      <4>2. screen.number = current.number => Len(screen.log) <= Len(current.log)
        BY DEF PageInv, ScreenIsOlder
      <4>3. QED
        BY <1>3, <4>1, <4>2
    <3>4. QED
      BY <1>1, <3>2, <3>3
  <2>4. ASSUME NEW n \in Nat, NEW l \in Nat
        PROVE  <<"action", n, l>> \in heard' <=> <<n, l>> \in seen' \ mute'
    <3>1. <<"action", n, l>> \in heard <=> <<n, l>> \in seen \ mute
      BY <1>4 DEF HeardWasShown
    <3>2. <<"action", n, l>> \in heard' <=> <<"action", n, l>> \in heard \/ (sounds /\ <<n, l>> = key)
      BY <1>1 DEF key
    <3>3. mute \subseteq seen
      BY <1>4 DEF HeardWasShown
    <3>4. CASE sounds
      BY <1>1, <1>5, <3>1, <3>2, <3>3, <3>4
    <3>5. CASE ~sounds /\ NewAction(current)
      BY <1>1, <1>5, <3>1, <3>2, <3>3, <3>5
    <3>6. CASE ~NewAction(current)
      BY <1>1, <1>5, <3>1, <3>2, <3>3, <3>6
    <3>7. QED
      BY <3>4, <3>5, <3>6
  <2>5. \A n \in Nat : <<"start", n, 0>> \in heard' => n <= current.number
    BY <1>3, <1>4, <1>9 DEF HeardWasShown
  <2>6. ASSUME NEW n \in Nat, <<"called", n, 0>> \in heard'
        PROVE  n <= current.number /\ (n = current.number => ref'.called = n)
    BY <1>3, <1>4, <1>8, <1>9, <2>6 DEF HeardWasShown
  <2>7. ASSUME NEW n \in Nat, <<"win", n, 0>> \in heard'
        PROVE  n <= current.number /\ (n = current.number => Won(current))
    <3>1. n <= screen.number /\ (n = screen.number => Won(screen))
      BY <1>4, <1>9, <2>7 DEF HeardWasShown
    <3>2. ASSUME n = current.number PROVE Won(current)
      <4>1. n = screen.number /\ Won(screen)
        BY <1>3, <3>1, <3>2
      <4>2. screen = current
        BY <1>3, <3>2, <4>1 DEF Won
      <4>3. QED
        BY <4>1, <4>2
    <3>3. QED
      BY <1>3, <3>1, <3>2
  <2>8. QED
    BY <1>1, <2>1, <2>2, <2>3, <2>4, <2>5, <2>6, <2>7 DEF HeardWasShown, Won
<1>p. DOMAIN panel' = {"open", "input"}
  BY <1>1 DEF PageInv
<1>12. TimersFollow'
  <2>1. /\ winTimer' # 0 => winTimer' = current.number
        /\ IF Won(current) THEN (winTimer' = current.number) # (<<"win", current.number, 0>> \in heard)
                            ELSE winTimer' = 0
    <3>1. CASE WinKey(current) = WinKey(screen)
      <4>1. winTimer' = winTimer
        BY <1>1, <3>1 DEF WinTimer
      <4>2. CASE Won(current)
        <5>1. Won(screen) /\ screen.number = current.number
          BY <1>3, <3>1, <4>2 DEF WinKey
        <5>2. screen = current
          BY <1>3, <5>1 DEF Won
        <5>3. QED
          BY <1>4, <4>1, <4>2, <5>1, <5>2 DEF TimersFollow
      <4>3. CASE ~Won(current)
        <5>1. ~Won(screen)
          BY <1>3, <3>1, <4>3 DEF WinKey
        <5>2. QED
          BY <1>4, <4>1, <4>3, <5>1 DEF TimersFollow
      <4>4. QED
        BY <4>2, <4>3
    <3>2. CASE WinKey(current) # WinKey(screen) /\ Won(current)
      <4>1. ~(Won(screen) /\ screen.number = current.number)
        BY <3>2 DEF WinKey
      <4>2. ref.win # current.number
        BY <1>3, <1>4, <3>2, <4>1 DEF RefsFollow
      <4>3. <<"win", current.number, 0>> \notin heard
        BY <1>3, <1>4, <3>2, <4>1 DEF HeardWasShown
      <4>4. winTimer' = current.number
        BY <1>1, <3>2, <4>2 DEF WinTimer
      <4>5. QED
        BY <3>2, <4>3, <4>4
    <3>3. CASE WinKey(current) # WinKey(screen) /\ ~Won(current)
      BY <1>1, <3>3 DEF WinTimer
    <3>4. QED
      BY <3>1, <3>2, <3>3
  <2>2. reminders' # {} => MyTurn(current)
    BY <1>1 DEF Reminders
  <2>3. panel'.open => MyTurn(current)
    <3>1. CASE MyTurn(current)
      BY <3>1
    <3>2. CASE ~MyTurn(current)
      <4>1. panel' = [panel EXCEPT !.open = FALSE]
        BY <1>1, <3>2
      <4>2. "open" \in DOMAIN panel
        BY DEF PageInv
      <4>3. QED
        BY <4>1, <4>2
    <3>3. QED
      BY <3>1, <3>2
  <2>4. <<"win", current.number, 0>> \in heard' <=> <<"win", current.number, 0>> \in heard
    BY <1>3, <1>9
  <2>5. QED
    BY <1>1, <2>1, <2>2, <2>3, <2>4 DEF TimersFollow, Won, MyTurn
<1>13. QED
  BY <1>1, <1>6, <1>7, <1>10, <1>11, <1>12, <1>p DEF PageInv

\* A timer that runs out plays what is due, and takes the reminder away.
LEMMA TimerPage ==
  ASSUME PageInv, WinSound \/ ReminderSound
  PROVE  PageInv'
<1>1. CASE WinSound
  <2>1. /\ winTimer # 0 /\ winTimer' = 0
        /\ heard' = heard \cup {<<"win", winTimer, 0>>} /\ twice' = twice \cup (heard \cap {<<"win", winTimer, 0>>})
        /\ UNCHANGED <<current, screen, ref, reminders, panel, seen, mute, sent>>
    BY <1>1, Zenon DEF WinSound, Hear, serverSide
  <2>2. /\ screen.number \in Nat /\ (Won(screen) => screen.number # 0)
    BY Newer
  <2>3. winTimer = screen.number /\ Won(screen) /\ <<"win", screen.number, 0>> \notin heard /\ screen.number # 0
    BY <2>1, <2>2 DEF PageInv, TimersFollow
  <2>4. twice' = {}
    BY <2>1, <2>3 DEF PageInv
  <2>5. ScreenIsOlder' /\ RefsFollow'
    BY <2>1 DEF PageInv, ScreenIsOlder, RefsFollow, GameOK, ActionShown, Hook, ActionKey, Won
  <2>6. HeardWasShown'
    <3>1. heard' \subseteq {"action", "start", "called", "win"} \X Nat \X Nat
      BY <2>1, <2>2, <2>3 DEF PageInv, HeardWasShown
    <3>2. \A n, l \in Nat : <<"action", n, l>> \in heard' <=> <<"action", n, l>> \in heard
      BY <2>1
    <3>3. \A n \in Nat : /\ <<"start", n, 0>> \in heard' <=> <<"start", n, 0>> \in heard
                         /\ <<"called", n, 0>> \in heard' <=> <<"called", n, 0>> \in heard
                         /\ <<"win", n, 0>> \in heard' <=> <<"win", n, 0>> \in heard \/ n = screen.number
      BY <2>1, <2>3
    <3>4. QED
      BY <2>1, <2>2, <2>3, <3>1, <3>2, <3>3 DEF PageInv, HeardWasShown, NotAhead, Won
  <2>7. TimersFollow'
    BY <2>1, <2>3 DEF PageInv, TimersFollow, Won, MyTurn
  <2>8. QED
    BY <2>1, <2>4, <2>5, <2>6, <2>7 DEF PageInv
<1>2. CASE ReminderSound
  <2>1. /\ reminders # {}
        /\ UNCHANGED <<current, screen, ref, winTimer, panel, heard, twice, seen, mute, sent>>
    BY <1>2, Zenon DEF ReminderSound, serverSide, clientHistory
  <2>2. QED
    BY <2>1 DEF PageInv, ScreenIsOlder, RefsFollow, HeardWasShown, TimersFollow, NotAhead, GameOK,
                ActionShown, Hook, ActionKey, Won, MyTurn
<1>3. QED
  BY <1>1, <1>2

\* The raise panel sends only what lies in the range it shows.
LEMMA ControlPage ==
  ASSUME PageInv, Controls
  PROVE  PageInv'
<1>1. UNCHANGED <<current, screen, ref, winTimer, reminders, heard, twice, seen, mute>>
  BY Zenon DEF Controls, ToggleRaise, TapOutside, EnterAmount, SubmitRaise, SubmitAllIn, PanelOnly, serverSide,
               clientHistory
<1>2. ScreenIsOlder' /\ RefsFollow' /\ HeardWasShown'
  BY <1>1 DEF PageInv, ScreenIsOlder, RefsFollow, HeardWasShown, NotAhead, GameOK, ActionShown, Hook, ActionKey, Won
<1>3. panel'.open => MyTurn(screen)
  <2>1. CASE ToggleRaise \/ SubmitRaise \/ SubmitAllIn
    BY <2>1, Zenon DEF ToggleRaise, SubmitRaise, SubmitAllIn, Offer
  <2>2. CASE TapOutside \/ EnterAmount
    <3>1. panel.open => MyTurn(screen)
      BY DEF PageInv, TimersFollow
    <3>2. panel.open
      BY <2>2 DEF TapOutside, EnterAmount
    <3>3. QED
      BY <3>1, <3>2
  <2>3. QED
    BY <2>1, <2>2 DEF Controls
<1>4. TimersFollow'
  BY <1>1, <1>3 DEF PageInv, TimersFollow, Won, MyTurn
<1>5. sent'.to \in sent'.range.min .. sent'.range.max
  <2>1. ASSUME NEW r \in Offer PROVE r.min \in Int /\ r.max \in Int /\ r.min <= r.max
    <3>1. screen.range \in SUBSET Ranges
      BY DEF PageInv, ScreenIsOlder, GameOK, PageGames
    <3>2. QED
      BY <2>1, <3>1, RangesAssumption DEF Offer
  <2>2. CASE SubmitRaise
    BY <2>2 DEF SubmitRaise, IsValidRaise
  <2>3. CASE SubmitAllIn
    <3>1. PICK r \in Offer : sent' = [to |-> r.max, range |-> r]
      BY <2>3 DEF SubmitAllIn
    <3>2. QED
      BY <2>1, <3>1
  <2>4. CASE ToggleRaise \/ TapOutside \/ EnterAmount
    BY <2>4 DEF ToggleRaise, TapOutside, EnterAmount, PageInv
  <2>5. QED
    BY <2>2, <2>3, <2>4 DEF Controls
<1>6. DOMAIN panel' = {"open", "input"}
  BY DEF Controls, ToggleRaise, TapOutside, EnterAmount, SubmitRaise, SubmitAllIn, PageInv
<1>7. QED
  BY <1>1, <1>2, <1>4, <1>5, <1>6 DEF PageInv

\* Every step keeps the invariant of the page.
LEMMA StepPage == PageInv /\ [ClientNext]_clientVars => PageInv'
<1> SUFFICES ASSUME PageInv, [ClientNext]_clientVars PROVE PageInv'
  OBVIOUS
<1>1. CASE UNCHANGED clientVars
  BY <1>1 DEF clientVars, serverSide, clientHistory, PageInv, ScreenIsOlder, RefsFollow, HeardWasShown, TimersFollow,
              NotAhead, GameOK, ActionShown, Hook, ActionKey, Won, MyTurn
<1>2. QED
  BY <1>1, TablePage, RenderPage, TimerPage, ControlPage, Zenon DEF ClientNext

\* The invariant gives what the page promises.
LEMMA PageInvImplies == PageInv => PageFollowsTable
<1> SUFFICES ASSUME PageInv PROVE PageFollowsTable
  OBVIOUS
<1>1. RefsFollow /\ HeardWasShown /\ TimersFollow /\ screen.number \in Nat
      /\ (screen.called => screen.number # 0)
  <2>1. GameOK(screen)
    BY DEF PageInv, ScreenIsOlder
  <2>2. screen.number \in Nat /\ (screen.called => screen.number # 0)
    BY <2>1 DEF GameOK, PageGames
  <2>3. QED
    BY <2>2 DEF PageInv
<1>2. {<<e[2], e[3]>> : e \in {x \in heard : x[1] = "action"}} = seen \ mute
  <2>1. ASSUME NEW e \in heard, e[1] = "action" PROVE <<e[2], e[3]>> \in seen \ mute
    <3>1. e = <<"action", e[2], e[3]>> /\ e[2] \in Nat /\ e[3] \in Nat
      BY <1>1, <2>1 DEF HeardWasShown
    <3>2. QED
      BY <1>1, <3>1 DEF HeardWasShown
  <2>2. ASSUME NEW k \in seen \ mute
        PROVE  \E e \in heard : e[1] = "action" /\ k = <<e[2], e[3]>>
    <3>1. k = <<k[1], k[2]>> /\ k[1] \in Nat /\ k[2] \in Nat
      BY <1>1, <2>2 DEF HeardWasShown
    <3>2. <<"action", k[1], k[2]>> \in heard
      BY <1>1, <2>2, <3>1 DEF HeardWasShown
    <3>3. QED
      BY <3>1, <3>2
  <2>3. QED
    BY <2>1, <2>2
<1>3. screen.called => <<"called", screen.number, 0>> \in heard
  BY <1>1 DEF RefsFollow
<1>4. IF Won(screen) THEN (winTimer = screen.number) # (<<"win", screen.number, 0>> \in heard)
                     ELSE winTimer = 0 /\ <<"win", screen.number, 0>> \notin heard
  BY <1>1 DEF TimersFollow, HeardWasShown
<1>5. QED
  BY <1>1, <1>2, <1>3, <1>4 DEF PageFollowsTable, PageInv, TimersFollow

\* Any number of games, actions and snapshots skipped or drawn twice: the page plays each
\* sound it owes once, keeps no timer of what is gone, and sends only what it was offered
\* (useHandActionSounds, useWinSound, useTurnReminderSound, ActionControls).
THEOREM PageFollows == ClientSpec => []PageFollowsTable
<1>1. ClientSpec => []PageInv
  BY InitPage, StepPage, PTL DEF ClientSpec
<1>2. QED
  BY <1>1, PageInvImplies, PTL

-----------------------------------------------------------------------------
(* Hands, their ranks and how many cards they have of each.                *)

LEMMA HandsAre ==
  ASSUME NEW h \in Hands
  PROVE  /\ h \in SUBSET CardSet /\ IsFiniteSet(h) /\ Cardinality(h) = 5
         /\ \A c \in h : rankOf[c] \in 2 .. 14 /\ suitOf[c] \in 1 .. 4
<1>1. h \in SUBSET CardSet /\ Cardinality(h) = 5
  BY DEF Hands, kSubset
<1>2. QED
  BY <1>1, HandRankAssumption, FS_Subset

LEMMA ValuesAre ==
  ASSUME NEW mode, NEW c \in CardSet
  PROVE  /\ value(c, mode) \in 1 .. 14
         /\ \A d \in CardSet : value(c, mode) = value(d, mode) <=> rankOf[c] = rankOf[d]
         /\ mode # "low-ace-to-five" => value(c, mode) = rankOf[c]
<1>1. \A d : value(d, mode) = IF mode = "low-ace-to-five" /\ rankOf[d] = 14 THEN 1 ELSE rankOf[d]
  BY DEF value, modeConfig
<1>2. \A d \in CardSet : rankOf[d] \in 2 .. 14
  BY HandRankAssumption
<1>3. QED
  BY <1>1, <1>2

\* The ranks are as many as are named by a function on the cards.
LEMMA RanksAre ==
  ASSUME NEW h \in Hands, NEW mode
  PROVE  /\ IsFiniteSet(RanksIn(h, mode)) /\ RanksIn(h, mode) \subseteq 1 .. 14
         /\ Cardinality(RanksIn(h, mode)) \in 1 .. 5
<1> DEFINE f == [c \in h |-> value(c, mode)]
           R == RanksIn(h, mode)
<1>1. h \in SUBSET CardSet /\ IsFiniteSet(h) /\ Cardinality(h) = 5
  BY HandsAre
<1>2. R \subseteq 1 .. 14
  BY <1>1, ValuesAre DEF RanksIn
<1>3. f \in Surjection(h, R)
  BY DEF Surjection, RanksIn
<1>4. IsFiniteSet(R) /\ Cardinality(R) <= 5
  BY <1>1, <1>3, FS_Surjection
<1>5. R # {}
  <2>1. h # {}
    BY <1>1, FS_EmptySet
  <2>2. QED
    BY <2>1 DEF RanksIn
<1>6. Cardinality(R) \in Nat /\ Cardinality(R) # 0
  BY <1>4, <1>5, FS_CardinalityType, FS_EmptySet
<1>7. QED
  BY <1>2, <1>4, <1>6

\* No more cards of a rank than there are suits.
LEMMA CopiesAre ==
  ASSUME NEW h \in Hands, NEW mode, NEW r \in RanksIn(h, mode)
  PROVE  Copies(h, r, mode) \in 1 .. 4
<1> DEFINE F == {c \in h : value(c, mode) = r}
           f == [c \in F |-> suitOf[c]]
<1>1. h \in SUBSET CardSet /\ IsFiniteSet(h) /\ F \in SUBSET h
  BY HandsAre
<1>2. \A c, d \in F : suitOf[c] = suitOf[d] => c = d
  BY <1>1, ValuesAre, HandRankAssumption
<1>3. f \in Injection(F, 1 .. 4)
  <2>1. f \in [F -> 1 .. 4]
    BY <1>1, HandRankAssumption
  <2>2. QED
    BY <1>2, <2>1 DEF Injection, IsInjective
<1>4. IsFiniteSet(1 .. 4) /\ Cardinality(1 .. 4) = 4
  <2>1. 1 \in Int /\ 4 \in Int /\ ~(1 > 4) /\ 4 - 1 + 1 = 4
    OBVIOUS
  <2>2. QED
    BY <2>1, FS_Interval
<1>5. IsFiniteSet(F) /\ Cardinality(F) <= 4
  BY <1>3, <1>4, FS_Injection
<1>6. F # {}
  BY DEF RanksIn
<1>7. Cardinality(F) \in Nat /\ Cardinality(F) # 0
  BY <1>5, <1>6, FS_CardinalityType, FS_EmptySet
<1>8. QED
  BY <1>5, <1>7 DEF Copies

-----------------------------------------------------------------------------
(* Elements of a finite set by how many come before them.                  *)

\* `sooner` is a strict order of all elements of R.
Orders(sooner, R) ==
  /\ \A q \in R : <<q, q>> \notin sooner
  /\ \A p, q, r \in R : <<p, q>> \in sooner /\ <<q, r>> \in sooner => <<p, r>> \in sooner
  /\ \A q, r \in R : q = r \/ <<q, r>> \in sooner \/ <<r, q>> \in sooner

AllBefore(sooner, R, r) == {q \in R : <<q, r>> \in sooner}

\* Something stands at every place.
EveryPlaceTaken(sooner, R) ==
  \A i \in 0 .. Cardinality(R) - 1 : \E r \in R : Cardinality(AllBefore(sooner, R, r)) = i

LEMMA PositionsAre ==
  ASSUME NEW R, IsFiniteSet(R), NEW sooner, Orders(sooner, R)
  PROVE  /\ \A r \in R : Cardinality(AllBefore(sooner, R, r)) \in 0 .. Cardinality(R) - 1
         /\ \A q, r \in R : <<q, r>> \in sooner =>
              Cardinality(AllBefore(sooner, R, q)) < Cardinality(AllBefore(sooner, R, r))
         /\ EveryPlaceTaken(sooner, R)
<1> DEFINE n == Cardinality(R)
           at(r) == Cardinality(AllBefore(sooner, R, r))
<1>0. n \in Nat
  BY FS_CardinalityType
<1>1. ASSUME NEW r \in R PROVE IsFiniteSet(AllBefore(sooner, R, r)) /\ at(r) \in 0 .. n - 1
  <2>1. AllBefore(sooner, R, r) \in SUBSET (R \ {r})
    BY DEF AllBefore, Orders
  <2>2. IsFiniteSet(R \ {r}) /\ Cardinality(R \ {r}) = n - 1
    BY FS_RemoveElement
  <2>3. IsFiniteSet(AllBefore(sooner, R, r)) /\ at(r) <= n - 1
    BY <2>1, <2>2, FS_Subset
  <2>4. QED
    BY <1>0, <2>3, FS_CardinalityType
<1>2. ASSUME NEW q \in R, NEW r \in R, <<q, r>> \in sooner PROVE at(q) < at(r)
  <2> DEFINE A == AllBefore(sooner, R, q)
             B == AllBefore(sooner, R, r)
  <2>1. q \notin A /\ A \cup {q} \in SUBSET B
    BY <1>2 DEF AllBefore, Orders
  <2>2. IsFiniteSet(A) /\ IsFiniteSet(B) /\ at(q) \in Nat /\ at(r) \in Nat
    BY <1>0, <1>1
  <2> HIDE DEF A, B
  <2>3. Cardinality(A \cup {q}) = Cardinality(A) + 1
    BY <2>1, <2>2, FS_AddElement
  <2>4. Cardinality(A \cup {q}) <= Cardinality(B)
    BY <2>1, <2>2, FS_Subset
  <2>5. QED
    BY <2>2, <2>3, <2>4 DEF A, B
<1>3. \A i \in 0 .. n - 1 : \E r \in R : at(r) = i
  <2> DEFINE f == [r \in R |-> at(r)]
             T == 0 .. n - 1
  <2>1. \A q, r \in R : at(q) = at(r) => q = r
    <3> SUFFICES ASSUME NEW q \in R, NEW r \in R, at(q) = at(r), q # r PROVE FALSE
      OBVIOUS
    <3>1. <<q, r>> \in sooner \/ <<r, q>> \in sooner
      BY DEF Orders
    <3>2. at(q) < at(r) \/ at(r) < at(q)
      BY <1>2, <3>1
    <3>3. at(q) \in Int /\ at(r) \in Int
      BY <1>0, <1>1
    <3> HIDE DEF at
    <3>4. QED
      BY <3>2, <3>3
  <2>2. \A r \in R : at(r) \in T
    BY <1>1
  <2>3. IsFiniteSet(T) /\ Cardinality(T) = n
    <3>1. 0 \in Int /\ n - 1 \in Int /\ (0 > n - 1 => n = 0) /\ (n - 1) - 0 + 1 = n
      BY <1>0
    <3>2. QED
      BY <3>1, FS_Interval
  <2> HIDE DEF at, T
  <2>4. f \in Injection(R, T)
    BY <2>1, <2>2 DEF Injection, IsInjective
  <2>5. f \in Surjection(R, T)
    BY <2>3, <2>4, FS_Injection
  <2>6. \A i \in T : \E r \in R : at(r) = i
    BY <2>5 DEF Surjection
  <2>7. QED
    BY <2>6 DEF T
<1>4. QED
  BY <1>1, <1>2, <1>3 DEF EveryPlaceTaken

-----------------------------------------------------------------------------
(* The ranks of a hand in the order of groupByRank.                        *)

\* g holds m different ranks with c[i] cards of g[i], more cards first and higher ranks
\* first among those.
Grouped(g, c, m) ==
  /\ m \in 1 .. 5 /\ \A i \in 1 .. m : g[i] \in 1 .. 14 /\ c[i] \in 1 .. 4
  /\ \A i, j \in 1 .. m : i < j => c[i] > c[j] \/ (c[i] = c[j] /\ g[i] > g[j])

CopiesOf(h, mode) == [i \in 1 .. Cardinality(RanksIn(h, mode)) |->
                        Copies(h, groupByRank(h, mode)[i], mode)]

LEMMA GroupsAre ==
  ASSUME NEW h \in Hands, NEW mode
  PROVE  /\ Len(groupByRank(h, mode)) = Cardinality(RanksIn(h, mode))
         /\ Grouped(groupByRank(h, mode), CopiesOf(h, mode), Cardinality(RanksIn(h, mode)))
         /\ \A i \in 1 .. Cardinality(RanksIn(h, mode)) :
              /\ groupByRank(h, mode)[i] \in RanksIn(h, mode)
              /\ CopiesOf(h, mode)[i] = Copies(h, groupByRank(h, mode)[i], mode)
         /\ \A r \in RanksIn(h, mode) :
              \E i \in 1 .. Cardinality(RanksIn(h, mode)) : groupByRank(h, mode)[i] = r
<1> DEFINE R == RanksIn(h, mode)
           m == Cardinality(R)
           g == groupByRank(h, mode)
           c == CopiesOf(h, mode)
           sooner == {p \in R \X R : Before(h, p[1], p[2], mode)}
           at(r) == Cardinality(AllBefore(sooner, R, r))
<1>1. IsFiniteSet(R) /\ R \subseteq 1 .. 14 /\ m \in 1 .. 5
  BY RanksAre
<1>2. \A r \in R : Copies(h, r, mode) \in 1 .. 4
  BY CopiesAre
<1>3. \A q, r \in R : <<q, r>> \in sooner <=> Before(h, q, r, mode)
  OBVIOUS
<1>4. Orders(sooner, R)
  <2>1. \A q \in R : ~Before(h, q, q, mode)
    BY <1>1, <1>2 DEF Before
  <2>2. \A p, q, r \in R : Before(h, p, q, mode) /\ Before(h, q, r, mode) => Before(h, p, r, mode)
    BY <1>1, <1>2 DEF Before
  <2>3. \A q, r \in R : q = r \/ Before(h, q, r, mode) \/ Before(h, r, q, mode)
    BY <1>1, <1>2 DEF Before
  <2> HIDE DEF sooner, R
  <2>4. QED
    BY <1>3, <2>1, <2>2, <2>3 DEF Orders
<1>5. \A r \in R : AllBefore(sooner, R, r) = {q \in R : Before(h, q, r, mode)}
  BY DEF AllBefore
<1>0. g = [i \in 1 .. m |-> CHOOSE r \in R : Cardinality({q \in R : Before(h, q, r, mode)}) = i - 1]
  BY Zenon DEF groupByRank
<1>6. \A i \in 1 .. m : g[i] = CHOOSE r \in R : at(r) = i - 1
  <2>1. \A i \in 1 .. m : g[i] = CHOOSE r \in R : Cardinality({q \in R : Before(h, q, r, mode)}) = i - 1
    BY <1>0, Zenon
  <2> HIDE DEF g, R, m, sooner
  <2>2. \A i : (CHOOSE r \in R : Cardinality({q \in R : Before(h, q, r, mode)}) = i - 1)
              = CHOOSE r \in R : at(r) = i - 1
    BY <1>5
  <2>3. QED
    BY <2>1, <2>2, Zenon
<1> HIDE DEF R, m, g, sooner
<1>7. \A i \in 0 .. m - 1 : \E r \in R : at(r) = i
  <2>1. EveryPlaceTaken(sooner, R)
    BY <1>1, <1>4, PositionsAre
  <2>2. QED
    BY <2>1 DEF m, EveryPlaceTaken
<1>8. \A i \in 1 .. m : g[i] \in R /\ at(g[i]) = i - 1
  <2> SUFFICES ASSUME NEW i \in 1 .. m PROVE g[i] \in R /\ at(g[i]) = i - 1
    OBVIOUS
  <2>1. i - 1 \in 0 .. m - 1
    BY <1>1
  <2>2. \E r \in R : at(r) = i - 1
    BY <1>7, <2>1
  <2>3. g[i] = CHOOSE r \in R : at(r) = i - 1
    BY <1>6
  <2> HIDE DEF at
  <2>4. QED
    BY <2>2, <2>3
<1>9. \A q, r \in R : <<q, r>> \in sooner => at(q) < at(r)
  BY <1>1, <1>4, PositionsAre
<1>10. \A r \in R : at(r) \in 0 .. m - 1
  BY <1>1, <1>4, PositionsAre DEF m
<1>11. \A i, j \in 1 .. m : i < j => Before(h, g[i], g[j], mode)
  <2> SUFFICES ASSUME NEW i \in 1 .. m, NEW j \in 1 .. m, i < j PROVE Before(h, g[i], g[j], mode)
    OBVIOUS
  <2>1. g[i] \in R /\ g[j] \in R /\ at(g[i]) < at(g[j])
    BY <1>1, <1>8
  <2>2. at(g[i]) # at(g[j]) /\ ~(at(g[j]) < at(g[i]))
    BY <1>10, <2>1
  <2>3. <<g[j], g[i]>> \notin sooner /\ g[i] # g[j]
    BY <1>9, <2>1, <2>2
  <2>4. <<g[i], g[j]>> \in sooner
    BY <1>4, <2>1, <2>3 DEF Orders
  <2>5. QED
    BY <1>3, <2>1, <2>4
<1>12. \A r \in R : \E i \in 1 .. m : g[i] = r
  <2> SUFFICES ASSUME NEW r \in R PROVE \E i \in 1 .. m : g[i] = r
    OBVIOUS
  <2> DEFINE i == at(r) + 1
  <2>1. i \in 1 .. m /\ at(r) = i - 1
    BY <1>1, <1>10
  <2>2. at(g[i]) = at(r) /\ g[i] \in R
    BY <1>8, <2>1
  <2>3. g[i] = r
    <3>1. ~(at(g[i]) < at(r)) /\ ~(at(r) < at(g[i]))
      BY <1>10, <2>2
    <3> HIDE DEF i, at
    <3>2. QED
      BY <1>4, <1>9, <2>2, <3>1 DEF Orders
  <2>4. QED
    BY <2>1, <2>3
<1>13. \A i \in 1 .. m : c[i] = Copies(h, g[i], mode)
  BY DEF CopiesOf, m, R, g
<1>14. Grouped(g, c, m)
  <2>1. \A i \in 1 .. m : g[i] \in 1 .. 14 /\ c[i] \in 1 .. 4
    BY <1>1, <1>2, <1>8, <1>13
  <2>2. \A i, j \in 1 .. m : i < j => c[i] > c[j] \/ (c[i] = c[j] /\ g[i] > g[j])
    BY <1>11, <1>13 DEF Before
  <2>3. QED
    BY <1>1, <2>1, <2>2 DEF Grouped
<1>15. Len(g) = m
  BY <1>0, <1>1
<1>16. QED
  BY <1>8, <1>12, <1>13, <1>14, <1>15 DEF g, m, R

\* The cards of the first groups, counted one group after the other.
CardsOfFirst(h, i, mode) == {c \in h : \E j \in 1 .. i : value(c, mode) = groupByRank(h, mode)[j]}

LEMMA GroupsAddUp ==
  ASSUME NEW h \in Hands, NEW mode
  PROVE  LET m == Cardinality(RanksIn(h, mode))
             n == [i \in 0 .. m |-> Cardinality(CardsOfFirst(h, i, mode))]
         IN  n[0] = 0 /\ n[m] = 5 /\ \A i \in 1 .. m : n[i] = n[i - 1] + CopiesOf(h, mode)[i]
<1> DEFINE R == RanksIn(h, mode)
           m == Cardinality(R)
           g == groupByRank(h, mode)
           first(i) == CardsOfFirst(h, i, mode)
<1>1. IsFiniteSet(h) /\ Cardinality(h) = 5 /\ m \in 1 .. 5
  BY HandsAre, RanksAre
<1>2. Grouped(g, CopiesOf(h, mode), m)
  BY GroupsAre
<1>3. Cardinality(first(0)) = 0
  <2>1. first(0) = {}
    BY DEF CardsOfFirst
  <2>2. QED
    BY <2>1, FS_EmptySet
<1>4. Cardinality(first(m)) = 5
  <2>1. \A c \in h : \E j \in 1 .. m : value(c, mode) = g[j]
    <3>1. \A q \in R : \E j \in 1 .. m : g[j] = q
      BY GroupsAre
    <3>2. \A c \in h : value(c, mode) \in R
      BY DEF RanksIn
    <3> HIDE DEF R, m, g
    <3>3. QED
      BY <3>1, <3>2
  <2>2. first(m) = h
    BY <2>1 DEF CardsOfFirst
  <2>3. QED
    BY <1>1, <2>2
<1>5. ASSUME NEW i \in 1 .. m PROVE Cardinality(first(i)) = Cardinality(first(i - 1)) + CopiesOf(h, mode)[i]
  <2> DEFINE F == {c \in h : value(c, mode) = g[i]}
  <2>1. \A j \in 1 .. i - 1 : g[j] # g[i]
    <3> DEFINE c == CopiesOf(h, mode)
    <3>1. \A j \in 1 .. m : c[j] = Copies(h, g[j], mode)
      BY GroupsAre
    <3> SUFFICES ASSUME NEW j \in 1 .. i - 1, g[j] = g[i] PROVE FALSE
      OBVIOUS
    <3>2. j \in 1 .. m /\ i \in 1 .. m /\ j < i
      BY <1>1
    <3>3. c[j] = c[i]
      BY <3>1, <3>2
    <3> HIDE DEF c, g, m
    <3>4. c[j] \in 1 .. 4 /\ g[j] \in 1 .. 14 /\ (c[j] > c[i] \/ g[j] > g[i])
      BY <1>2, <3>2 DEF Grouped, c
    <3>5. QED
      BY <3>3, <3>4
  <2>2. \A j : j \in 1 .. i <=> j \in 1 .. i - 1 \/ j = i
    BY <1>1
  <2> HIDE DEF g
  <2>3. first(i) = first(i - 1) \cup F /\ first(i - 1) \cap F = {}
    BY <2>1, <2>2 DEF CardsOfFirst, g
  <2>4. IsFiniteSet(first(i - 1)) /\ IsFiniteSet(F)
    <3>1. first(i - 1) \in SUBSET h /\ F \in SUBSET h
      BY DEF CardsOfFirst
    <3>2. QED
      BY <1>1, <3>1, FS_Subset
  <2>5. CopiesOf(h, mode)[i] = Cardinality(F)
    BY GroupsAre DEF Copies, g
  <2> HIDE DEF F, first
  <2>6. Cardinality(first(i)) = Cardinality(first(i - 1)) + Cardinality(F) - Cardinality({})
    BY <2>3, <2>4, FS_Union
  <2>7. Cardinality(first(i - 1)) \in Nat /\ Cardinality(F) \in Nat /\ Cardinality({}) = 0
    BY <2>4, FS_CardinalityType, FS_EmptySet
  <2>8. QED
    BY <2>5, <2>6, <2>7
<1> HIDE DEF m
<1>6. \A i \in 1 .. m : i \in 0 .. m /\ i - 1 \in 0 .. m
  BY <1>1
<1>7. 0 \in 0 .. m /\ m \in 0 .. m
  BY <1>1
<1>8. QED
  BY <1>3, <1>4, <1>5, <1>6, <1>7 DEF m

-----------------------------------------------------------------------------
(* The kinds of hands.                                                     *)

\* The ways five cards can share ranks, when there are four of a rank at most.
Shape(c, m) ==
  \/ m = 2 /\ c[1] = 4 /\ c[2] = 1
  \/ m = 2 /\ c[1] = 3 /\ c[2] = 2
  \/ m = 3 /\ c[1] = 3 /\ c[2] = 1 /\ c[3] = 1
  \/ m = 3 /\ c[1] = 2 /\ c[2] = 2 /\ c[3] = 1
  \/ m = 4 /\ c[1] = 2 /\ c[2] = 1 /\ c[3] = 1 /\ c[4] = 1
  \/ m = 5 /\ c[1] = 1 /\ c[2] = 1 /\ c[3] = 1 /\ c[4] = 1 /\ c[5] = 1

LEMMA SumsShape ==
  ASSUME NEW m \in 1 .. 5, NEW c, \A i \in 1 .. m : c[i] \in 1 .. 4,
         \A i, j \in 1 .. m : i < j => c[i] >= c[j],
         NEW n, n[0] = 0, n[m] = 5, \A i \in 1 .. m : n[i] = n[i - 1] + c[i]
  PROVE  Shape(c, m)
<1>1. CASE m = 1
  <2>1. n[1] = n[0] + c[1] /\ c[1] \in 1 .. 4
    BY <1>1
  <2>2. QED
    BY <1>1, <2>1
<1>2. CASE m = 2
  <2>1. /\ n[1] = n[0] + c[1] /\ n[2] = n[1] + c[2]
        /\ c[1] \in 1 .. 4 /\ c[2] \in 1 .. 4 /\ c[1] >= c[2]
    BY <1>2
  <2>2. QED
    BY <1>2, <2>1 DEF Shape
<1>3. CASE m = 3
  <2>1. /\ n[1] = n[0] + c[1] /\ n[2] = n[1] + c[2] /\ n[3] = n[2] + c[3]
        /\ c[1] \in 1 .. 4 /\ c[2] \in 1 .. 4 /\ c[3] \in 1 .. 4 /\ c[1] >= c[2] /\ c[2] >= c[3]
    BY <1>3
  <2>2. QED
    BY <1>3, <2>1 DEF Shape
<1>4. CASE m = 4
  <2>1. /\ n[1] = n[0] + c[1] /\ n[2] = n[1] + c[2] /\ n[3] = n[2] + c[3] /\ n[4] = n[3] + c[4]
        /\ c[1] \in 1 .. 4 /\ c[2] \in 1 .. 4 /\ c[3] \in 1 .. 4 /\ c[4] \in 1 .. 4
        /\ c[1] >= c[2] /\ c[2] >= c[3] /\ c[3] >= c[4]
    BY <1>4
  <2>2. QED
    BY <1>4, <2>1 DEF Shape
<1>5. CASE m = 5
  <2>1. /\ n[1] = n[0] + c[1] /\ n[2] = n[1] + c[2] /\ n[3] = n[2] + c[3] /\ n[4] = n[3] + c[4]
        /\ n[5] = n[4] + c[5]
        /\ c[1] \in 1 .. 4 /\ c[2] \in 1 .. 4 /\ c[3] \in 1 .. 4 /\ c[4] \in 1 .. 4 /\ c[5] \in 1 .. 4
    BY <1>5
  <2>2. QED
    BY <1>5, <2>1 DEF Shape
<1>6. QED
  BY <1>1, <1>2, <1>3, <1>4, <1>5

LEMMA ShapesAre ==
  ASSUME NEW h \in Hands, NEW mode
  PROVE  Shape(CopiesOf(h, mode), Cardinality(RanksIn(h, mode)))
<1> DEFINE m == Cardinality(RanksIn(h, mode))
           c == CopiesOf(h, mode)
           n == [i \in 0 .. m |-> Cardinality(CardsOfFirst(h, i, mode))]
<1>1. m \in 1 .. 5 /\ \A i \in 1 .. m : c[i] \in 1 .. 4
  BY GroupsAre DEF Grouped
<1>2. \A i, j \in 1 .. m : i < j => c[i] >= c[j]
  <2>1. Grouped(groupByRank(h, mode), c, m)
    BY GroupsAre
  <2> HIDE DEF m, c
  <2>2. QED
    BY <1>1, <2>1 DEF Grouped
<1>3. n[0] = 0 /\ n[m] = 5 /\ \A i \in 1 .. m : n[i] = n[i - 1] + c[i]
  BY GroupsAddUp
<1> HIDE DEF m, c, n
<1>4. Shape(c, m)
  BY <1>1, <1>2, <1>3, SumsShape
<1>5. QED
  BY <1>4 DEF c, m

\* The ranks a hand has n cards of, read off its groups.
GroupSet(g, c, m, n) == {g[i] : i \in {k \in 1 .. m : c[k] = n}}

LEMMA SetsAre ==
  ASSUME NEW h \in Hands, NEW mode, NEW n
  PROVE  Sets(h, n, mode)
           = GroupSet(groupByRank(h, mode), CopiesOf(h, mode), Cardinality(RanksIn(h, mode)), n)
<1> DEFINE R == RanksIn(h, mode)
           m == Cardinality(R)
           g == groupByRank(h, mode)
           c == CopiesOf(h, mode)
<1>1. \A i \in 1 .. m : g[i] \in R /\ c[i] = Copies(h, g[i], mode)
  BY GroupsAre
<1>2. \A r \in R : \E i \in 1 .. m : g[i] = r
  BY GroupsAre
<1> HIDE DEF R, m, g, c
<1>3. {r \in R : Copies(h, r, mode) = n} = GroupSet(g, c, m, n)
  BY <1>1, <1>2 DEF GroupSet
<1>4. QED
  BY <1>3 DEF Sets, R, m, g, c

\* How the kinds that depend on the number of cards per rank show in the shape.
LEMMA SetsShow ==
  ASSUME NEW h \in Hands, NEW mode
  PROVE  LET c == CopiesOf(h, mode) IN
         /\ Sets(h, 4, mode) # {} <=> c[1] = 4
         /\ Sets(h, 3, mode) # {} <=> c[1] = 3
         /\ Sets(h, 2, mode) # {} <=> c[1] = 2 \/ c[2] = 2
         /\ Cardinality(Sets(h, 2, mode)) = 2 <=> c[1] = 2 /\ c[2] = 2
<1> DEFINE m == Cardinality(RanksIn(h, mode))
           g == groupByRank(h, mode)
           c == CopiesOf(h, mode)
           S(n) == Sets(h, n, mode)
<1>1. Grouped(g, c, m) /\ Shape(c, m)
  BY GroupsAre, ShapesAre
<1>2. \A n : S(n) = {g[i] : i \in {k \in 1 .. m : c[k] = n}}
  BY SetsAre DEF GroupSet
<1> HIDE DEF m, g, c, S
<1>3. \A n : S(n) # {} <=> \E i \in 1 .. m : c[i] = n
  BY <1>2
<1>4. (S(4) # {} <=> c[1] = 4) /\ (S(3) # {} <=> c[1] = 3) /\ (S(2) # {} <=> c[1] = 2 \/ c[2] = 2)
  BY <1>1, <1>3 DEF Shape
<1>5. CASE c[1] = 2 /\ c[2] = 2
  <2>1. m = 3 /\ c[3] = 1
    BY <1>1, <1>5 DEF Shape
  <2>2. {k \in 1 .. m : c[k] = 2} = {1, 2}
    BY <1>5, <2>1
  <2>3. S(2) = {g[1]} \cup {g[2]}
    BY <1>2, <2>2
  <2>4. g[1] > g[2] /\ g[1] \in Int /\ g[2] \in Int
    BY <1>1, <1>5, <2>1 DEF Grouped
  <2>5. g[2] \notin {g[1]}
    BY <2>4
  <2>6. Cardinality(S(2)) = 2
    <3>1. IsFiniteSet({g[1]}) /\ Cardinality({g[1]}) = 1
      BY FS_Singleton
    <3>2. Cardinality({g[1]} \cup {g[2]}) = 1 + 1
      BY <2>5, <3>1, FS_AddElement
    <3>3. QED
      BY <2>3, <3>2
  <2>7. QED
    BY <1>4, <1>5, <2>6 DEF S, c
<1>6. CASE ~(c[1] = 2 /\ c[2] = 2)
  <2>1. \A i, j \in 1 .. m : c[i] = 2 /\ c[j] = 2 => i = j
    BY <1>1, <1>6 DEF Shape
  <2>2. S(2) = {} \/ \E i \in 1 .. m : S(2) = {g[i]}
    <3>1. CASE \E i \in 1 .. m : c[i] = 2
      <4>1. PICK i \in 1 .. m : c[i] = 2
        BY <3>1
      <4>2. {k \in 1 .. m : c[k] = 2} = {i}
        BY <2>1, <4>1
      <4>3. S(2) = {g[i]}
        BY <1>2, <4>2
      <4>4. QED
        BY <4>3
    <3>2. QED
      BY <1>3, <3>1
  <2>3. Cardinality(S(2)) # 2
    <3>1. Cardinality({}) = 0 /\ \A x : Cardinality({x}) = 1
      BY FS_EmptySet, FS_Singleton
    <3>2. CASE S(2) = {}
      <4>1. Cardinality(S(2)) = 0
        BY <3>1, <3>2
      <4>2. QED
        BY <4>1
    <3>3. CASE \E i \in 1 .. m : S(2) = {g[i]}
      <4>1. PICK i \in 1 .. m : S(2) = {g[i]}
        BY <3>3
      <4>2. Cardinality(S(2)) = 1
        BY <3>1, <4>1
      <4>3. QED
        BY <4>2
    <3>4. QED
      BY <2>2, <3>2, <3>3
  <2>4. QED
    BY <1>4, <1>6, <2>3 DEF S, c
<1>7. QED
  BY <1>5, <1>6

-----------------------------------------------------------------------------
(* Straights and flushes.                                                  *)

\* The greatest and the least rank of a set of ranks.
LEMMA MaxIs ==
  ASSUME NEW R \in SUBSET Int, NEW x \in R, \A y \in R : y <= x
  PROVE  Max(R) = x
<1>1. Max(R) \in R /\ Max(R) >= x
  <2>1. \E z \in R : \A y \in R : z >= y
    OBVIOUS
  <2>2. QED
    BY <2>1 DEF Max
<1>2. Max(R) \in Int /\ x \in Int /\ Max(R) <= x
  BY <1>1
<1> DEFINE greatest == Max(R)
<1> HIDE DEF greatest
<1>3. greatest = x
  BY <1>1, <1>2 DEF greatest
<1>4. QED
  BY <1>3 DEF greatest

LEMMA MinIs ==
  ASSUME NEW R \in SUBSET Int, NEW x \in R, \A y \in R : x <= y
  PROVE  Min(R) = x
<1>1. Min(R) \in R /\ Min(R) <= x
  <2>1. \E z \in R : \A y \in R : z <= y
    OBVIOUS
  <2>2. QED
    BY <2>1 DEF Min
<1>2. Min(R) \in Int /\ x \in Int /\ x <= Min(R)
  BY <1>1
<1> DEFINE least == Min(R)
<1> HIDE DEF least
<1>3. least = x
  BY <1>1, <1>2 DEF least
<1>4. QED
  BY <1>3 DEF least

LEMMA ExtremesAre ==
  ASSUME NEW R \in SUBSET Nat, IsFiniteSet(R), R # {}
  PROVE  /\ Max(R) \in R /\ \A y \in R : y <= Max(R)
         /\ Min(R) \in R /\ \A y \in R : Min(R) <= y
<1>1. PICK x \in R : \A y \in R : y <= x
  BY GreatestNatural
<1>2. PICK z \in R : \A y \in R : z <= y
  BY LeastNatural
<1>3. Max(R) = x /\ Min(R) = z
  BY <1>1, <1>2, MaxIs, MinIs
<1>4. QED
  BY <1>1, <1>2, <1>3

\* Where the rankings know straights, an ace is high.
LEMMA RanksOfStraights ==
  ASSUME NEW h \in Hands, NEW mode, mode # "low-ace-to-five"
  PROVE  RanksIn(h, mode) = RanksIn(h, "high") /\ RanksIn(h, mode) \subseteq 2 .. 14
<1>1. h \in SUBSET CardSet /\ \A c \in h : rankOf[c] \in 2 .. 14
  BY HandsAre
<1>2. \A c \in h : value(c, mode) = rankOf[c] /\ value(c, "high") = rankOf[c]
  BY <1>1, ValuesAre
<1>3. QED
  BY <1>1, <1>2 DEF RanksIn

LEMMA StraightsAre ==
  ASSUME NEW h \in Hands, NEW mode \in Modes
  PROVE  LET s == straightHigh(h, mode)
             R == RanksIn(h, mode)
         IN  /\ s \in Nat /\ (s > 0 <=> Straight(h, mode))
             /\ s > 0 => /\ Cardinality(R) = 5 /\ s \in 5 .. 14 /\ (Wheel(h) <=> s = 5)
                         /\ s # 5 => R = (s - 4) .. s
<1> DEFINE s == straightHigh(h, mode)
           R == RanksIn(h, mode)
<1>1. CASE mode = "low-ace-to-five"
  <2>1. s = 0
    BY <1>1 DEF straightHigh, modeConfig
  <2>2. ~Straight(h, mode)
    BY <1>1 DEF Straight
  <2> HIDE DEF s, R
  <2>3. s \in Nat /\ ~(s > 0) /\ ~Straight(h, mode)
    BY <2>1, <2>2
  <2>4. QED
    BY <2>3 DEF s
<1>2. CASE mode # "low-ace-to-five"
  <2>1. R = RanksIn(h, "high") /\ R \in SUBSET (2 .. 14) /\ IsFiniteSet(R) /\ R # {}
    <3>1. IsFiniteSet(R) /\ Cardinality(R) # 0
      BY RanksAre
    <3>2. R # {}
      BY <3>1, FS_EmptySet
    <3>3. QED
      BY <1>2, <3>1, <3>2, RanksOfStraights
  <2>2. s = IF Cardinality(R) < 5 THEN 0
            ELSE IF Max(R) - Min(R) = 4 THEN Max(R)
            ELSE IF mode = "high" /\ R = {14, 5, 4, 3, 2} THEN 5 ELSE 0
    BY <1>2 DEF straightHigh, modeConfig
  <2>3. Straight(h, mode) <=> Run(h) \/ (mode = "high" /\ Wheel(h))
    BY <1>2 DEF Straight
  <2>4. (Run(h) <=> \E top \in 6 .. 14 : R = (top - 4) .. top) /\ (Wheel(h) <=> R = {14, 5, 4, 3, 2})
    BY <2>1 DEF Run, Wheel
  <2>5. Cardinality(R) \in 1 .. 5
    BY RanksAre
  <2> HIDE DEF s, R
  <2>6. Max(R) \in R /\ (\A y \in R : y <= Max(R)) /\ Min(R) \in R /\ \A y \in R : Min(R) <= y
    BY <2>1, ExtremesAre
  <2>7. CASE Run(h)
    <3>1. PICK top \in 6 .. 14 : R = (top - 4) .. top
      BY <2>4, <2>7
    <3>2. Max(R) = top /\ Min(R) = top - 4
      BY <2>6, <3>1
    <3>3. Cardinality(R) = 5
      <4>1. top - 4 \in Int /\ top \in Int /\ ~(top - 4 > top) /\ top - (top - 4) + 1 = 5
        OBVIOUS
      <4>2. Cardinality((top - 4) .. top) = 5
        BY <4>1, FS_Interval
      <4>3. QED
        BY <3>1, <4>2
    <3>4. s = top
      BY <2>2, <3>2, <3>3
    <3>5. ~Wheel(h)
      <4>1. ~(14 \in R /\ 2 \in R)
        BY <3>1
      <4>2. QED
        BY <2>4, <4>1
    <3>6. QED
      BY <2>3, <2>7, <3>1, <3>3, <3>4, <3>5 DEF s, R
  <2>8. CASE ~Run(h) /\ mode = "high" /\ Wheel(h)
    <3>1. R = 2 .. 5 \cup {14}
      BY <2>4, <2>8
    <3>2. Cardinality(R) = 5
      <4>1. \A a, b \in Int : a <= b => IsFiniteSet(a .. b) /\ Cardinality(a .. b) = b - a + 1
        BY FS_Interval
      <4>2. IsFiniteSet(2 .. 5) /\ Cardinality(2 .. 5) = 4
        <5>1. 2 \in Int /\ 5 \in Int /\ 2 <= 5 /\ 5 - 2 + 1 = 4
          OBVIOUS
        <5>2. IsFiniteSet(2 .. 5) /\ Cardinality(2 .. 5) = 5 - 2 + 1
          BY <4>1, <5>1, Zenon
        <5>3. QED
          BY <5>2
      <4>3. 14 \notin 2 .. 5
        OBVIOUS
      <4>4. Cardinality(2 .. 5 \cup {14}) = 4 + 1
        BY <4>2, <4>3, FS_AddElement
      <4>5. QED
        BY <3>1, <4>4
    <3>3. Max(R) = 14 /\ Min(R) = 2
      BY <2>6, <3>1
    <3>4. s = 5
      BY <2>2, <2>4, <2>8, <3>2, <3>3
    <3>5. QED
      BY <2>3, <2>8, <3>2, <3>4 DEF s, R
  <2>9. CASE ~Run(h) /\ ~(mode = "high" /\ Wheel(h))
    <3>1. ~(Cardinality(R) = 5 /\ Max(R) - Min(R) = 4)
      <4> SUFFICES ASSUME Cardinality(R) = 5, Max(R) - Min(R) = 4 PROVE FALSE
        OBVIOUS
      <4> DEFINE top == Max(R)
                 I == (top - 4) .. top
      <4>1. top \in 6 .. 14 /\ Min(R) = top - 4
        BY <2>1, <2>6
      <4>2. R \in SUBSET I
        BY <2>1, <2>6, <4>1
      <4>3. IsFiniteSet(I) /\ Cardinality(I) = 5
        <5>1. top - 4 \in Int /\ top \in Int /\ ~(top - 4 > top) /\ top - (top - 4) + 1 = 5
          BY <4>1
        <5>2. QED
          BY <5>1, FS_Interval
      <4> HIDE DEF I
      <4>4. R = I
        BY <4>2, <4>3, FS_Subset
      <4>5. QED
        BY <2>4, <2>9, <4>1, <4>4 DEF I
    <3>2. Cardinality(R) < 5 \/ ~(Max(R) - Min(R) = 4)
      BY <2>5, <3>1
    <3>3. ~(mode = "high" /\ R = {14, 5, 4, 3, 2})
      BY <2>4, <2>9
    <3>4. s = 0
      BY <2>2, <3>2, <3>3
    <3>5. s \in Nat /\ ~(s > 0) /\ ~Straight(h, mode)
      BY <2>3, <2>9, <3>4
    <3>6. QED
      BY <3>5 DEF s
  <2>10. QED
    BY <2>7, <2>8, <2>9
<1>3. QED
  BY <1>1, <1>2

\* Cards of one suit differ in rank.
LEMMA FlushesAre ==
  ASSUME NEW h \in Hands, NEW mode \in Modes
  PROVE  /\ isFlush(h, mode) <=> Flush(h, mode)
         /\ isFlush(h, mode) => Cardinality(RanksIn(h, mode)) = 5
<1> DEFINE suits == {suitOf[c] : c \in h}
           m == Cardinality(RanksIn(h, mode))
<1>1. h \in SUBSET CardSet /\ h # {} /\ IsFiniteSet(h)
  BY HandsAre, FS_EmptySet
<1>2. IsFiniteSet(suits)
  <2> DEFINE f == [c \in h |-> suitOf[c]]
  <2>1. f \in Surjection(h, suits)
    BY DEF Surjection
  <2>2. QED
    BY <1>1, <2>1, FS_Surjection
<1>3. Cardinality(suits) = 1 <=> \E x : suits = {x}
  BY <1>2, FS_Singleton
<1>4. (\E x : suits = {x}) <=> Suited(h)
  <2>1. ASSUME NEW x, suits = {x} PROVE Suited(h)
    <3>1. \A c \in h : suitOf[c] = x
      BY <2>1
    <3>2. x \in {suitOf[c] : c \in CardSet}
      BY <1>1, <3>1
    <3>3. QED
      BY <3>1, <3>2 DEF Suited
  <2>2. ASSUME Suited(h) PROVE \E x : suits = {x}
    <3>1. PICK x : \A c \in h : suitOf[c] = x
      BY <2>2 DEF Suited
    <3>2. suits = {x}
      BY <1>1, <3>1
    <3>3. QED
      BY <3>2
  <2>3. QED
    BY <2>1, <2>2
<1>5. isFlush(h, mode) <=> mode # "low-ace-to-five" /\ Cardinality(suits) = 1
  BY DEF isFlush, modeConfig
<1>6. isFlush(h, mode) <=> Flush(h, mode)
  BY <1>3, <1>4, <1>5 DEF Flush
<1>7. ASSUME isFlush(h, mode) PROVE m = 5
  <2> DEFINE g == groupByRank(h, mode)
             c == CopiesOf(h, mode)
             F == {x \in h : value(x, mode) = g[1]}
  <2>1. \A x, y \in h : suitOf[x] = suitOf[y]
    BY <1>4, <1>6, <1>7 DEF Flush, Suited
  <2>2. \A x, y \in F : x = y
    BY <1>1, <2>1, ValuesAre, HandRankAssumption
  <2>3. m \in 1 .. 5 /\ Shape(c, m)
    BY RanksAre, ShapesAre
  <2>4. 1 \in 1 .. m
    BY <2>3
  <2>5. c[1] = Cardinality(F) /\ g[1] \in RanksIn(h, mode)
    BY <2>4, GroupsAre DEF Copies
  <2>6. \E x \in h : x \in F
    BY <2>5 DEF RanksIn
  <2>7. \E x : F = {x}
    BY <2>2, <2>6
  <2>8. c[1] = 1
    BY <2>5, <2>7, FS_Singleton
  <2>9. QED
    BY <2>3, <2>8 DEF Shape
<1>8. QED
  BY <1>6, <1>7

-----------------------------------------------------------------------------
(* Kinds and scores.                                                       *)

\* The kind of a hand from what its shape shows.
KindBy(st, fl, one, two) ==
  IF st /\ fl THEN 1
  ELSE IF one = 4 THEN 2
  ELSE IF one = 3 /\ two = 2 THEN 3
  ELSE IF fl THEN 4
  ELSE IF st THEN 5
  ELSE IF one = 3 THEN 6
  ELSE IF one = 2 /\ two = 2 THEN 7
  ELSE IF one = 2 THEN 8
  ELSE 9

\* All that is used of a hand: its groups, and the straight or flush it may be.
HandShape(h, mode) ==
  LET m == Cardinality(RanksIn(h, mode))
      c == CopiesOf(h, mode)
  IN  /\ Shape(c, m) /\ Grouped(groupByRank(h, mode), c, m)
      /\ Straight(h, mode) \in BOOLEAN /\ Flush(h, mode) \in BOOLEAN
      /\ Straight(h, mode) \/ Flush(h, mode) => m = 5

LEMMA HandShapes ==
  ASSUME NEW h \in Hands, NEW mode \in Modes
  PROVE  HandShape(h, mode)
<1>1. Straight(h, mode) \in BOOLEAN /\ Flush(h, mode) \in BOOLEAN
  BY DEF Straight, Flush, Run, Wheel, Suited
<1>2. Straight(h, mode) \/ Flush(h, mode) => Cardinality(RanksIn(h, mode)) = 5
  <2>1. Straight(h, mode) => Cardinality(RanksIn(h, mode)) = 5
    BY StraightsAre
  <2>2. Flush(h, mode) => Cardinality(RanksIn(h, mode)) = 5
    BY FlushesAre
  <2>3. QED
    BY <2>1, <2>2
<1>3. Shape(CopiesOf(h, mode), Cardinality(RanksIn(h, mode)))
  BY ShapesAre
<1>4. Grouped(groupByRank(h, mode), CopiesOf(h, mode), Cardinality(RanksIn(h, mode)))
  BY GroupsAre
<1>5. QED
  BY <1>1, <1>2, <1>3, <1>4 DEF HandShape

LEMMA KindIs ==
  ASSUME NEW h \in Hands, NEW mode \in Modes
  PROVE  Kind(h, mode) = KindBy(Straight(h, mode), Flush(h, mode),
                                CopiesOf(h, mode)[1], CopiesOf(h, mode)[2])
<1> DEFINE st == Straight(h, mode)
           fl == Flush(h, mode)
           c == CopiesOf(h, mode)
           m == Cardinality(RanksIn(h, mode))
           kinds == << st /\ fl, Sets(h, 4, mode) # {}, Sets(h, 3, mode) # {} /\ Sets(h, 2, mode) # {},
                       fl, st, Sets(h, 3, mode) # {}, Cardinality(Sets(h, 2, mode)) = 2,
                       Sets(h, 2, mode) # {}, TRUE >>
           K == {i \in 1 .. 9 : kinds[i]}
           k == KindBy(st, fl, c[1], c[2])
<1>1. Kind(h, mode) = Min(K)
  BY DEF Kind
<1>2. /\ kinds[1] <=> st /\ fl
      /\ kinds[2] <=> c[1] = 4
      /\ kinds[3] <=> c[1] = 3 /\ (c[1] = 2 \/ c[2] = 2)
      /\ kinds[4] <=> fl
      /\ kinds[5] <=> st
      /\ kinds[6] <=> c[1] = 3
      /\ kinds[7] <=> c[1] = 2 /\ c[2] = 2
      /\ kinds[8] <=> c[1] = 2 \/ c[2] = 2
      /\ kinds[9]
  BY SetsShow
<1>3. Shape(c, m) /\ st \in BOOLEAN /\ fl \in BOOLEAN /\ (st \/ fl => m = 5)
  BY HandShapes DEF HandShape
<1> HIDE DEF st, fl, c, m, kinds
<1>4. k \in 1 .. 9 /\ kinds[k] /\ \A i \in 1 .. 9 : i < k => ~kinds[i]
  <2>1. k \in 1 .. 9
    BY DEF KindBy
  <2>2. /\ (k = 1 => st /\ fl) /\ (k > 1 => ~(st /\ fl))
        /\ (k = 2 => c[1] = 4) /\ (k > 2 => c[1] # 4)
        /\ (k = 3 => c[1] = 3 /\ c[2] = 2) /\ (k > 3 => ~(c[1] = 3 /\ c[2] = 2))
        /\ (k = 4 => fl) /\ (k > 4 => ~fl)
        /\ (k = 5 => st) /\ (k > 5 => ~st)
        /\ (k = 6 => c[1] = 3) /\ (k > 6 => c[1] # 3)
        /\ (k = 7 => c[1] = 2 /\ c[2] = 2) /\ (k > 7 => ~(c[1] = 2 /\ c[2] = 2))
        /\ (k = 8 => c[1] = 2) /\ (k > 8 => c[1] # 2)
    BY DEF KindBy
  <2> HIDE DEF k
  <2>3. c[2] = 2 => c[1] = 3 \/ c[1] = 2
    BY <1>3 DEF Shape
  <2>4. kinds[k]
    BY <1>2, <2>1, <2>2
  <2>5. /\ (k > 1 => ~kinds[1]) /\ (k > 2 => ~kinds[2]) /\ (k > 3 => ~kinds[3]) /\ (k > 4 => ~kinds[4])
        /\ (k > 5 => ~kinds[5]) /\ (k > 6 => ~kinds[6]) /\ (k > 7 => ~kinds[7]) /\ (k > 8 => ~kinds[8])
    BY <1>2, <2>1, <2>2, <2>3
  <2>6. QED
    BY <2>1, <2>4, <2>5
<1>5. k \in K /\ (\A i \in K : k <= i) /\ K \in SUBSET Int
  BY <1>4
<1> HIDE DEF k, K
<1>6. Min(K) = k
  BY <1>5, MinIs
<1>7. QED
  BY <1>1, <1>6 DEF k, st, fl, c

\* A score is the kind, then the straight or the groups.
LEMMA ScoreIs ==
  ASSUME NEW h \in Hands, NEW mode \in Modes
  PROVE  LET s == scoreFiveCards(h, mode)
             m == Cardinality(RanksIn(h, mode))
         IN  /\ s \in [1 .. 6 -> Nat]
             /\ Kind(h, mode) \in 1 .. 9 /\ s[1] = 9 - Kind(h, mode)
             /\ Straight(h, mode) => s[2] = straightHigh(h, mode) /\ \A i \in 3 .. 6 : s[i] = 0
             /\ ~Straight(h, mode) =>
                  \A i \in 1 .. 5 : s[i + 1] = IF i <= m THEN groupByRank(h, mode)[i] ELSE 0
<1> DEFINE g == groupByRank(h, mode)
           m == Cardinality(RanksIn(h, mode))
           c == CopiesOf(h, mode)
           top == Copies(h, g[1], mode)
           second == Copies(h, g[2], mode)
           straight == straightHigh(h, mode)
           fl == isFlush(h, mode)
           category == CASE straight > 0 /\ fl -> 8
                         [] top = 4 -> 7
                         [] top = 3 /\ second = 2 -> 6
                         [] fl /\ straight = 0 -> 5
                         [] straight > 0 /\ ~fl -> 4
                         [] top = 3 /\ second = 1 -> 3
                         [] top = 2 -> second
                         [] OTHER -> 0
           kickers == IF straight > 0 THEN <<straight>> ELSE g
           s == scoreFiveCards(h, mode)
           k == Kind(h, mode)
<1>1. s = [i \in 1 .. 6 |-> IF i = 1 THEN category
                            ELSE IF i - 1 <= Len(kickers) THEN kickers[i - 1] ELSE 0]
  BY DEF scoreFiveCards
<1>2. /\ Shape(c, m) /\ Grouped(g, c, m) /\ Straight(h, mode) \in BOOLEAN /\ Flush(h, mode) \in BOOLEAN
      /\ Straight(h, mode) \/ Flush(h, mode) => m = 5
  BY HandShapes DEF HandShape
<1>3. straight \in Nat /\ (straight > 0 <=> Straight(h, mode))
  BY StraightsAre
<1>4. fl <=> Flush(h, mode)
  BY FlushesAre
<1>5. k = KindBy(Straight(h, mode), Flush(h, mode), c[1], c[2])
  BY KindIs
<1>6. top = c[1] /\ second = c[2]
  <2>1. 1 \in 1 .. m /\ 2 \in 1 .. m
    BY <1>2 DEF Shape
  <2>2. \A i \in 1 .. m : c[i] = Copies(h, g[i], mode)
    BY GroupsAre
  <2>3. QED
    BY <2>1, <2>2
<1>7. Len(g) = m
  BY GroupsAre
<1> HIDE DEF g, m, c, top, second, straight, fl, s, k
<1>8. k \in 1 .. 9 /\ category = 9 - k
  BY <1>2, <1>3, <1>4, <1>5, <1>6 DEF KindBy, Shape
<1> HIDE DEF category
<1>9. s[1] = category
  BY <1>1
<1>10. ASSUME Straight(h, mode) PROVE s[2] = straight /\ \A i \in 3 .. 6 : s[i] = 0
  <2>1. kickers = <<straight>>
    BY <1>3, <1>10
  <2> HIDE DEF kickers
  <2>2. QED
    BY <1>1, <2>1
<1>11. ASSUME ~Straight(h, mode) PROVE \A i \in 1 .. 5 : s[i + 1] = IF i <= m THEN g[i] ELSE 0
  <2>1. kickers = g
    BY <1>3, <1>11
  <2> HIDE DEF kickers
  <2>2. QED
    BY <1>1, <1>7, <2>1
<1>12. s \in [1 .. 6 -> Nat]
  <2>1. \A i \in 1 .. 6 : s[i] \in Nat
    <3> SUFFICES ASSUME NEW i \in 1 .. 6 PROVE s[i] \in Nat
      OBVIOUS
    <3>1. CASE i = 1
      BY <1>8, <1>9, <3>1
    <3>2. CASE i # 1 /\ Straight(h, mode)
      <4>1. i = 2 \/ i \in 3 .. 6
        BY <3>2
      <4>2. QED
        BY <1>3, <1>10, <3>2, <4>1
    <3>3. CASE i # 1 /\ ~Straight(h, mode)
      <4>1. i - 1 \in 1 .. 5 /\ (i - 1) + 1 = i
        BY <3>3
      <4>2. s[i] = IF i - 1 <= m THEN g[i - 1] ELSE 0
        BY <1>11, <3>3, <4>1
      <4>3. i - 1 <= m => g[i - 1] \in 1 .. 14
        BY <1>2, <4>1 DEF Grouped
      <4>4. QED
        BY <4>2, <4>3
    <3>4. QED
      BY <1>2, <3>1, <3>2, <3>3
  <2>2. QED
    BY <1>1, <2>1
<1>13. QED
  BY <1>8, <1>9, <1>10, <1>11, <1>12 DEF s, m, g, k, straight

-----------------------------------------------------------------------------
(* Hands of one kind: their groups, number by number, and their sets.      *)

LEMMA KindsShareShape ==
  ASSUME NEW h \in Hands, NEW k \in Hands, NEW mode \in Modes, Kind(h, mode) = Kind(k, mode)
  PROVE  /\ Cardinality(RanksIn(h, mode)) = Cardinality(RanksIn(k, mode))
         /\ CopiesOf(h, mode) = CopiesOf(k, mode)
         /\ Straight(h, mode) <=> Straight(k, mode)
<1> DEFINE m == Cardinality(RanksIn(h, mode))
           c == CopiesOf(h, mode)
           n == Cardinality(RanksIn(k, mode))
           d == CopiesOf(k, mode)
           st == Straight(h, mode)
           sk == Straight(k, mode)
           fl == Flush(h, mode)
           fk == Flush(k, mode)
<1>1. /\ Shape(c, m) /\ st \in BOOLEAN /\ fl \in BOOLEAN /\ (st \/ fl => m = 5)
      /\ Shape(d, n) /\ sk \in BOOLEAN /\ fk \in BOOLEAN /\ (sk \/ fk => n = 5)
  BY HandShapes DEF HandShape
<1>2. KindBy(st, fl, c[1], c[2]) = KindBy(sk, fk, d[1], d[2])
  BY KindIs
<1>3. c = [i \in 1 .. m |-> c[i]] /\ d = [i \in 1 .. n |-> d[i]]
  BY DEF CopiesOf
<1> HIDE DEF m, c, n, d, st, sk, fl, fk
<1>4. c[1] = d[1] /\ c[2] = d[2] /\ (st <=> sk)
  BY <1>1, <1>2 DEF KindBy, Shape
<1>5. m = n /\ \A i \in 1 .. m : c[i] = d[i]
  <2>1. m = n
    BY <1>1, <1>4 DEF Shape
  <2>2. m \in 2 .. 5 /\ (m > 2 => c[3] = d[3]) /\ (m > 3 => c[4] = d[4]) /\ (m > 4 => c[5] = d[5])
    BY <1>1, <1>4, <2>1 DEF Shape
  <2>3. \A i \in 1 .. m : i = 1 \/ i = 2 \/ (i = 3 /\ m > 2) \/ (i = 4 /\ m > 3) \/ (i = 5 /\ m > 4)
    BY <2>2
  <2>4. QED
    BY <1>4, <2>1, <2>2, <2>3
<1>6. c = d
  BY <1>3, <1>5
<1>7. QED
  BY <1>4, <1>5, <1>6 DEF m, n, c, d, st, sk

\* HigherRanks without a greatest element that might not be there.
LEMMA HigherRanksIs ==
  ASSUME NEW S \in SUBSET (1 .. 14), NEW T \in SUBSET (1 .. 14)
  PROVE  HigherRanks(S, T) <=> \E x \in S \ T : \A y \in (S \ T) \cup (T \ S) : y <= x
<1> DEFINE d == (S \ T) \cup (T \ S)
<1>1. HigherRanks(S, T) <=> d # {} /\ Max(d) \in S
  BY DEF HigherRanks
<1>2. d \in SUBSET Nat /\ IsFiniteSet(d)
  <2>1. IsFiniteSet(1 .. 14)
    <3>1. 1 \in Int /\ 14 \in Int
      OBVIOUS
    <3>2. QED
      BY <3>1, FS_Interval
  <2>2. d \in SUBSET (1 .. 14)
    OBVIOUS
  <2> HIDE DEF d
  <2>3. IsFiniteSet(d)
    BY <2>1, <2>2, FS_Subset
  <2>4. \A i : i \in 1 .. 14 => i \in Nat
    OBVIOUS
  <2>5. QED
    BY <2>2, <2>3, <2>4
<1>3. ASSUME d # {}, Max(d) \in S PROVE \E x \in S \ T : \A y \in d : y <= x
  <2> HIDE DEF d
  <2>1. Max(d) \in d /\ \A y \in d : y <= Max(d)
    BY <1>2, <1>3, ExtremesAre
  <2>2. Max(d) \in S \ T
    BY <1>3, <2>1 DEF d
  <2>3. QED
    BY <2>1, <2>2
<1>4. ASSUME NEW x \in S \ T, \A y \in d : y <= x PROVE d # {} /\ Max(d) \in S
  <2>1. x \in d /\ d \in SUBSET Int
    BY <1>2
  <2> HIDE DEF d
  <2>2. Max(d) = x
    BY <1>4, <2>1, MaxIs
  <2>3. QED
    BY <2>1, <2>2
<1>5. QED
  BY <1>1, <1>3, <1>4

\* The first group that differs is the higher in g.
Outranks(g, f, m) == \E i \in 1 .. m : g[i] > f[i] /\ \A j \in 1 .. i - 1 : g[j] = f[j]

\* The sets g holds most cards in and that differ are the higher.
HigherSets(g, f, c, m) ==
  \E n \in 1 .. 4 : /\ HigherRanks(GroupSet(g, c, m, n), GroupSet(f, c, m, n))
                    /\ \A j \in n + 1 .. 4 : GroupSet(g, c, m, j) = GroupSet(f, c, m, j)

LEMMA GroupSetsAre ==
  ASSUME NEW g, NEW c, NEW m, Grouped(g, c, m), NEW n
  PROVE  GroupSet(g, c, m, n) \in SUBSET (1 .. 14)
BY DEF Grouped, GroupSet

LEMMA OutrankingIsHigher ==
  ASSUME NEW g, NEW f, NEW c, NEW m, Grouped(g, c, m), Grouped(f, c, m), Outranks(g, f, m)
  PROVE  HigherSets(g, f, c, m)
<1>1. PICK i \in 1 .. m : g[i] > f[i] /\ \A j \in 1 .. i - 1 : g[j] = f[j]
  BY DEF Outranks
<1> DEFINE n == c[i]
           S(j) == GroupSet(g, c, m, j)
           T(j) == GroupSet(f, c, m, j)
<1>2. /\ m \in 1 .. 5 /\ n \in 1 .. 4
      /\ \A j \in 1 .. m : g[j] \in 1 .. 14 /\ f[j] \in 1 .. 14 /\ c[j] \in 1 .. 4
  BY DEF Grouped
<1>3. \A j, k \in 1 .. m : j < k => /\ c[j] > c[k] \/ (c[j] = c[k] /\ g[j] > g[k])
                                    /\ c[j] > c[k] \/ (c[j] = c[k] /\ f[j] > f[k])
  BY DEF Grouped
<1>4. \A j \in 1 .. m : j < i \/ j = i \/ i < j
  BY <1>2
<1>5. \A j \in 1 .. m : j < i => g[j] = f[j]
  BY <1>1, <1>2
<1>6. ASSUME NEW j \in n + 1 .. 4 PROVE S(j) = T(j)
  <2>1. \A k \in 1 .. m : c[k] = j => k < i
    BY <1>2, <1>3, <1>4
  <2>2. \A k \in 1 .. m : c[k] = j => g[k] = f[k]
    BY <1>5, <2>1
  <2>3. QED
    BY <2>2 DEF GroupSet
<1>7. g[i] \in S(n) \ T(n)
  <2>1. ASSUME NEW k \in 1 .. m, c[k] = n, f[k] = g[i] PROVE FALSE
    <3>1. CASE k < i
      <4>1. g[k] = g[i]
        BY <1>5, <2>1, <3>1
      <4>2. QED
        BY <1>2, <1>3, <2>1, <3>1, <4>1
    <3>2. CASE k = i
      BY <1>1, <1>2, <2>1, <3>2
    <3>3. CASE i < k
      <4>1. f[i] > f[k]
        BY <1>2, <1>3, <2>1, <3>3
      <4>2. QED
        BY <1>1, <1>2, <2>1, <4>1
    <3>4. QED
      BY <1>4, <3>1, <3>2, <3>3
  <2>2. QED
    BY <1>2, <2>1 DEF GroupSet
<1>8. ASSUME NEW y \in (S(n) \ T(n)) \cup (T(n) \ S(n)) PROVE y <= g[i]
  <2>1. PICK k \in 1 .. m : c[k] = n /\ (y = g[k] \/ y = f[k])
    BY DEF GroupSet
  <2>2. CASE k < i
    <3>1. y = g[k] /\ y = f[k]
      BY <1>5, <2>1, <2>2
    <3>2. y \in S(n) /\ y \in T(n)
      BY <2>1, <3>1 DEF GroupSet
    <3>3. QED
      BY <3>2
  <2>3. CASE k = i
    BY <1>1, <1>2, <2>1, <2>3
  <2>4. CASE i < k
    <3>1. g[i] > g[k] /\ f[i] > f[k]
      BY <1>2, <1>3, <2>1, <2>4
    <3>2. QED
      BY <1>1, <1>2, <2>1, <3>1
  <2>5. QED
    BY <1>4, <2>2, <2>3, <2>4
<1>9. S(n) \in SUBSET (1 .. 14) /\ T(n) \in SUBSET (1 .. 14)
  BY GroupSetsAre
<1> HIDE DEF S, T
<1>10. HigherRanks(S(n), T(n))
  BY <1>7, <1>8, <1>9, HigherRanksIs
<1>11. QED
  BY <1>2, <1>6, <1>10 DEF HigherSets, S, T

LEMMA HigherIsOneWay ==
  ASSUME NEW g, NEW f, NEW c, NEW m, Grouped(g, c, m), Grouped(f, c, m),
         HigherSets(g, f, c, m), HigherSets(f, g, c, m)
  PROVE  FALSE
<1> DEFINE S(j) == GroupSet(g, c, m, j)
           T(j) == GroupSet(f, c, m, j)
<1>1. \A j : S(j) \in SUBSET (1 .. 14) /\ T(j) \in SUBSET (1 .. 14)
  BY GroupSetsAre
<1>2. PICK a \in 1 .. 4 : HigherRanks(S(a), T(a)) /\ \A j \in a + 1 .. 4 : S(j) = T(j)
  BY DEF HigherSets
<1>3. PICK b \in 1 .. 4 : HigherRanks(T(b), S(b)) /\ \A j \in b + 1 .. 4 : S(j) = T(j)
  BY DEF HigherSets
<1> HIDE DEF S, T
<1>4. PICK x \in S(a) \ T(a) : \A y \in (S(a) \ T(a)) \cup (T(a) \ S(a)) : y <= x
  BY <1>1, <1>2, HigherRanksIs
<1>5. PICK z \in T(b) \ S(b) : \A y \in (T(b) \ S(b)) \cup (S(b) \ T(b)) : y <= z
  BY <1>1, <1>3, HigherRanksIs
<1>6. ~(a < b) /\ ~(b < a)
  <2>1. a < b => b \in a + 1 .. 4
    OBVIOUS
  <2>2. b < a => a \in b + 1 .. 4
    OBVIOUS
  <2>3. QED
    BY <1>2, <1>3, <1>4, <1>5, <2>1, <2>2
<1>7. a = b
  BY <1>6
<1>8. x <= z /\ z <= x /\ x \in Int /\ z \in Int
  BY <1>1, <1>4, <1>5, <1>7
<1>9. x = z
  BY <1>8
<1>10. QED
  BY <1>4, <1>5, <1>7, <1>9

LEMMA GroupsCompare ==
  ASSUME NEW g, NEW f, NEW c, NEW m, Grouped(g, c, m), Grouped(f, c, m)
  PROVE  Outranks(g, f, m) <=> HigherSets(g, f, c, m)
<1>1. Outranks(g, f, m) => HigherSets(g, f, c, m)
  BY OutrankingIsHigher
<1>2. ASSUME HigherSets(g, f, c, m), ~Outranks(g, f, m) PROVE FALSE
  <2>1. m \in 1 .. 5 /\ \A i \in 1 .. m : g[i] \in 1 .. 14 /\ f[i] \in 1 .. 14
    BY DEF Grouped
  <2>2. CASE \A i \in 1 .. m : g[i] = f[i]
    <3>1. \A n : GroupSet(g, c, m, n) = GroupSet(f, c, m, n)
      BY <2>2 DEF GroupSet
    <3>2. HigherSets(f, g, c, m)
      BY <1>2, <3>1 DEF HigherSets
    <3>3. QED
      BY <1>2, <3>2, HigherIsOneWay
  <2>3. CASE ~\A i \in 1 .. m : g[i] = f[i]
    <3> DEFINE D == {i \in 1 .. m : g[i] # f[i]}
    <3>1. D \in SUBSET Nat /\ D # {}
      BY <2>1, <2>3
    <3> HIDE DEF D
    <3>2. PICK i \in D : \A j \in D : i <= j
      BY <3>1, LeastNatural
    <3>3. i \in 1 .. m /\ g[i] # f[i] /\ \A j \in 1 .. i - 1 : g[j] = f[j]
      <4>1. i \in 1 .. m /\ g[i] # f[i]
        BY <3>2 DEF D
      <4>2. \A j \in 1 .. i - 1 : j \in 1 .. m /\ ~(i <= j)
        BY <2>1, <4>1
      <4>3. QED
        BY <3>2, <4>1, <4>2 DEF D
    <3>4. f[i] > g[i]
      BY <1>2, <2>1, <3>3 DEF Outranks
    <3>5. Outranks(f, g, m)
      BY <3>3, <3>4 DEF Outranks
    <3>6. HigherSets(f, g, c, m)
      BY <3>5, OutrankingIsHigher
    <3>7. QED
      BY <1>2, <3>6, HigherIsOneWay
  <2>4. QED
    BY <2>2, <2>3
<1>3. QED
  BY <1>1, <1>2 DEF Outranks, HigherSets

-----------------------------------------------------------------------------
(* The order of the scores is the order of the merits.                     *)

LEMMA StraightKinds ==
  ASSUME NEW h \in Hands, NEW mode \in Modes
  PROVE  Kind(h, mode) \in {1, 5} <=> Straight(h, mode)
<1> DEFINE m == Cardinality(RanksIn(h, mode))
           c == CopiesOf(h, mode)
<1>1. /\ Shape(c, m) /\ Straight(h, mode) \in BOOLEAN /\ Flush(h, mode) \in BOOLEAN
      /\ Straight(h, mode) => m = 5
  BY HandShapes DEF HandShape
<1>2. Kind(h, mode) = KindBy(Straight(h, mode), Flush(h, mode), c[1], c[2])
  BY KindIs
<1> HIDE DEF m, c
<1>3. Straight(h, mode) => c[1] = 1
  BY <1>1 DEF Shape
<1>4. QED
  BY <1>1, <1>2, <1>3 DEF KindBy

\* The ranks a straight is judged by.
StraightRanks(s) == IF s = 5 THEN {5} ELSE (s - 4) .. s

LEMMA StraightsCompare ==
  ASSUME NEW s \in 5 .. 14, NEW t \in 5 .. 14
  PROVE  HigherRanks(StraightRanks(s), StraightRanks(t)) <=> s > t
<1> DEFINE S == StraightRanks(s)
           T == StraightRanks(t)
<1>1. S \in SUBSET (1 .. 14) /\ T \in SUBSET (1 .. 14) /\ s \in S /\ t \in T
  BY DEF StraightRanks
<1>2. (\A x \in S : x <= s) /\ (\A x \in T : x <= t)
  BY DEF StraightRanks
<1>3. S = T <=> s = t
  <2>1. S = T => s <= t /\ t <= s
    BY <1>1, <1>2
  <2>2. s <= t /\ t <= s => s = t
    OBVIOUS
  <2>3. QED
    BY <2>1, <2>2
<1> HIDE DEF S, T
<1>4. ASSUME s > t PROVE \E x \in S \ T : \A y \in (S \ T) \cup (T \ S) : y <= x
  <2>1. s \in S \ T
    BY <1>1, <1>2, <1>4
  <2>2. \A y \in T : y \in 1 .. 14 /\ y <= s
    BY <1>1, <1>2, <1>4
  <2>3. QED
    BY <1>2, <2>1, <2>2
<1>5. ASSUME ~(s > t), NEW x \in S \ T, \A y \in (S \ T) \cup (T \ S) : y <= x PROVE FALSE
  <2>1. x \in Int /\ x <= s /\ s <= t /\ x # t
    BY <1>1, <1>2, <1>5
  <2>2. t \in S
    BY <1>1, <1>5, <2>1
  <2>3. t <= s /\ s <= t
    BY <1>2, <2>1, <2>2
  <2>4. s = t
    BY <2>3
  <2>5. QED
    BY <1>3, <1>5, <2>4
<1>6. QED
  BY <1>1, <1>4, <1>5, HigherRanksIs DEF S, T

\* A score against another: the kind, then the straight or the groups.
LEMMA OverIs ==
  ASSUME NEW s \in [1 .. 6 -> Nat], NEW t \in [1 .. 6 -> Nat]
  PROVE  Over(s, t) <=> \/ s[1] > t[1]
                        \/ s[1] = t[1] /\ \E i \in 1 .. 5 : /\ s[i + 1] > t[i + 1]
                                                           /\ \A j \in 1 .. i - 1 : s[j + 1] = t[j + 1]
<1>1. \A i \in 1 .. 6 : s[i] \in Nat /\ t[i] \in Nat
  OBVIOUS
<1>2. Over(s, t) <=> \E i \in 1 .. 6 : s[i] > t[i] /\ \A j \in 1 .. i - 1 : s[j] = t[j]
  BY DEF Over
<1>3. ASSUME NEW i \in 1 .. 6, s[i] > t[i], \A j \in 1 .. i - 1 : s[j] = t[j]
      PROVE  \/ s[1] > t[1]
             \/ s[1] = t[1] /\ \E a \in 1 .. 5 : /\ s[a + 1] > t[a + 1]
                                                /\ \A j \in 1 .. a - 1 : s[j + 1] = t[j + 1]
  <2>1. CASE i = 1
    BY <1>3, <2>1
  <2>2. CASE i # 1
    <3> DEFINE a == i - 1
    <3>1. a \in 1 .. 5 /\ a + 1 = i /\ 1 \in 1 .. i - 1
      BY <2>2
    <3>2. \A j \in 1 .. a - 1 : j + 1 \in 1 .. i - 1
      BY <3>1
    <3> HIDE DEF a
    <3>3. s[a + 1] > t[a + 1] /\ s[1] = t[1] /\ \A j \in 1 .. a - 1 : s[j + 1] = t[j + 1]
      BY <1>3, <3>1, <3>2
    <3>4. QED
      BY <3>1, <3>3
  <2>3. QED
    BY <2>1, <2>2
<1>4. ASSUME s[1] > t[1] PROVE \E i \in 1 .. 6 : s[i] > t[i] /\ \A j \in 1 .. i - 1 : s[j] = t[j]
  <2>1. 1 \in 1 .. 6 /\ \A j \in 1 .. 1 - 1 : s[j] = t[j]
    OBVIOUS
  <2>2. QED
    BY <1>4, <2>1
<1>5. ASSUME s[1] = t[1], NEW a \in 1 .. 5, s[a + 1] > t[a + 1],
             \A j \in 1 .. a - 1 : s[j + 1] = t[j + 1]
      PROVE  \E i \in 1 .. 6 : s[i] > t[i] /\ \A j \in 1 .. i - 1 : s[j] = t[j]
  <2>1. a + 1 \in 1 .. 6
    OBVIOUS
  <2>2. \A j \in 1 .. (a + 1) - 1 : s[j] = t[j]
    <3> SUFFICES ASSUME NEW j \in 1 .. (a + 1) - 1 PROVE s[j] = t[j]
      OBVIOUS
    <3>1. j = 1 \/ (j - 1 \in 1 .. a - 1 /\ (j - 1) + 1 = j)
      OBVIOUS
    <3>2. QED
      BY <1>5, <3>1
  <2>3. QED
    BY <1>5, <2>1, <2>2
<1>6. QED
  BY <1>2, <1>3, <1>4, <1>5

LEMMA ScoresCompare ==
  ASSUME NEW h \in Hands, NEW k \in Hands, NEW mode \in Modes
  PROVE  Over(scoreFiveCards(h, mode), scoreFiveCards(k, mode))
           <=> Higher(MeritsOf(h, mode), MeritsOf(k, mode))
<1> DEFINE s == scoreFiveCards(h, mode)
           t == scoreFiveCards(k, mode)
           a == Kind(h, mode)
           b == Kind(k, mode)
           S == IF Straight(h, mode) /\ Wheel(h) THEN {5} ELSE RanksIn(h, mode)
           T == IF Straight(k, mode) /\ Wheel(k) THEN {5} ELSE RanksIn(k, mode)
           tail == \E i \in 1 .. 5 : s[i + 1] > t[i + 1] /\ \A j \in 1 .. i - 1 : s[j + 1] = t[j + 1]
           sets == \E i \in 1 .. 4 : /\ HigherRanks(Sets(h, i, mode), Sets(k, i, mode))
                                     /\ \A j \in i + 1 .. 4 : Sets(h, j, mode) = Sets(k, j, mode)
<1>1. Higher(MeritsOf(h, mode), MeritsOf(k, mode))
        <=> IF a # b THEN a < b ELSE IF a \in {1, 5} THEN HigherRanks(S, T) ELSE sets
  BY DEF Higher, MeritsOf
<1>2. s \in [1 .. 6 -> Nat] /\ t \in [1 .. 6 -> Nat]
  BY ScoreIs
<1>3. a \in 1 .. 9 /\ s[1] = 9 - a /\ b \in 1 .. 9 /\ t[1] = 9 - b
  BY ScoreIs
<1>4. Over(s, t) <=> s[1] > t[1] \/ (s[1] = t[1] /\ tail)
  <2> HIDE DEF s, t
  <2>1. QED
    BY <1>2, OverIs
<1>5. ASSUME a = b, a \in {1, 5} PROVE tail <=> HigherRanks(S, T)
  <2>1. Straight(h, mode) /\ Straight(k, mode)
    BY <1>5, StraightKinds
  <2> DEFINE x == straightHigh(h, mode)
             y == straightHigh(k, mode)
  <2>2. /\ s[2] = x /\ (\A i \in 3 .. 6 : s[i] = 0)
        /\ t[2] = y /\ (\A i \in 3 .. 6 : t[i] = 0)
    BY <2>1, ScoreIs
  <2>3. x \in 5 .. 14 /\ (Wheel(h) <=> x = 5) /\ (x # 5 => RanksIn(h, mode) = (x - 4) .. x)
    BY <2>1, StraightsAre
  <2>4. y \in 5 .. 14 /\ (Wheel(k) <=> y = 5) /\ (y # 5 => RanksIn(k, mode) = (y - 4) .. y)
    BY <2>1, StraightsAre
  <2>5. S = StraightRanks(x) /\ T = StraightRanks(y)
    BY <2>1, <2>3, <2>4 DEF StraightRanks
  <2> HIDE DEF S, T, x, y, s, t
  <2>6. tail <=> x > y
    <3>1. \A i \in 1 .. 5 : i = 1 \/ i + 1 \in 3 .. 6
      OBVIOUS
    <3>2. \A i \in 1 .. 5 : s[i + 1] > t[i + 1] => i = 1
      BY <2>2, <3>1
    <3>3. 1 + 1 = 2 /\ 1 \in 1 .. 5 /\ \A j \in 1 .. 1 - 1 : s[j + 1] = t[j + 1]
      OBVIOUS
    <3>4. QED
      BY <2>2, <3>2, <3>3
  <2>7. QED
    BY <2>3, <2>4, <2>5, <2>6, StraightsCompare
<1>6. ASSUME a = b, a \notin {1, 5} PROVE tail <=> sets
  <2> DEFINE g == groupByRank(h, mode)
             f == groupByRank(k, mode)
             m == Cardinality(RanksIn(h, mode))
             c == CopiesOf(h, mode)
  <2>1. ~Straight(h, mode) /\ ~Straight(k, mode)
    BY <1>6, StraightKinds
  <2>2. Cardinality(RanksIn(k, mode)) = m /\ CopiesOf(k, mode) = c
    BY <1>6, KindsShareShape
  <2>3. Grouped(g, c, m) /\ Grouped(f, c, m)
    BY <2>2, GroupsAre
  <2>4. \A i \in 1 .. 5 : s[i + 1] = (IF i <= m THEN g[i] ELSE 0) /\ t[i + 1] = (IF i <= m THEN f[i] ELSE 0)
    BY <2>1, <2>2, ScoreIs
  <2>5. \A n : Sets(h, n, mode) = GroupSet(g, c, m, n) /\ Sets(k, n, mode) = GroupSet(f, c, m, n)
    BY <2>2, SetsAre
  <2> HIDE DEF s, t, g, f, m, c
  <2>6. sets <=> HigherSets(g, f, c, m)
    BY <2>5 DEF HigherSets
  <2>7. m \in 1 .. 5
    BY <2>3 DEF Grouped
  <2>8. tail <=> Outranks(g, f, m)
    <3>1. ASSUME NEW i \in 1 .. 5, s[i + 1] > t[i + 1], \A j \in 1 .. i - 1 : s[j + 1] = t[j + 1]
          PROVE  Outranks(g, f, m)
      <4>1. i <= m /\ g[i] > f[i]
        BY <2>4, <3>1
      <4>2. \A j \in 1 .. i - 1 : j \in 1 .. 5 /\ j <= m
        BY <2>7, <4>1
      <4>3. \A j \in 1 .. i - 1 : g[j] = f[j]
        BY <2>4, <3>1, <4>2
      <4>4. i \in 1 .. m
        BY <2>7, <4>1
      <4>5. QED
        BY <4>1, <4>3, <4>4 DEF Outranks
    <3>2. ASSUME Outranks(g, f, m) PROVE tail
      <4>1. PICK i \in 1 .. m : g[i] > f[i] /\ \A j \in 1 .. i - 1 : g[j] = f[j]
        BY <3>2 DEF Outranks
      <4>2. i \in 1 .. 5 /\ i <= m /\ \A j \in 1 .. i - 1 : j \in 1 .. 5 /\ j <= m
        BY <2>7
      <4>3. s[i + 1] > t[i + 1] /\ \A j \in 1 .. i - 1 : s[j + 1] = t[j + 1]
        BY <2>4, <4>1, <4>2
      <4>4. QED
        BY <4>2, <4>3
    <3>3. QED
      BY <3>1, <3>2
  <2>9. QED
    BY <2>3, <2>6, <2>8, GroupsCompare
<1> HIDE DEF s, t, a, b, S, T, tail, sets
<1>7. Over(s, t) <=> IF a # b THEN a < b ELSE IF a \in {1, 5} THEN HigherRanks(S, T) ELSE sets
  <2>1. CASE a # b
    BY <1>3, <1>4, <2>1
  <2>2. CASE a = b /\ a \in {1, 5}
    BY <1>3, <1>4, <1>5, <2>2
  <2>3. CASE a = b /\ a \notin {1, 5}
    BY <1>3, <1>4, <1>6, <2>3
  <2>4. QED
    BY <2>1, <2>2, <2>3
<1>8. QED
  BY <1>1, <1>7 DEF s, t

-----------------------------------------------------------------------------
(* Scores order the hands, and a hand's place counts those it is over.     *)

LEMMA OverOrders ==
  ASSUME NEW s \in [1 .. 6 -> Nat], NEW t \in [1 .. 6 -> Nat], NEW u \in [1 .. 6 -> Nat]
  PROVE  /\ ~Over(s, s)
         /\ Over(s, t) /\ Over(t, u) => Over(s, u)
         /\ s = t \/ Over(s, t) \/ Over(t, s)
<1>1. \A i \in 1 .. 6 : s[i] \in Nat /\ t[i] \in Nat /\ u[i] \in Nat
  OBVIOUS
<1>2. /\ DOMAIN s = 1 .. 6 /\ DOMAIN t = 1 .. 6 /\ DOMAIN u = 1 .. 6
  OBVIOUS
<1>3. ~Over(s, s)
  BY <1>1, <1>2 DEF Over
<1>4. ASSUME Over(s, t), Over(t, u) PROVE Over(s, u)
  <2>1. PICK a \in 1 .. 6 : s[a] > t[a] /\ \A j \in 1 .. a - 1 : s[j] = t[j]
    BY <1>2, <1>4 DEF Over
  <2>2. PICK b \in 1 .. 6 : t[b] > u[b] /\ \A j \in 1 .. b - 1 : t[j] = u[j]
    BY <1>2, <1>4 DEF Over
  <2>3. PICK i \in 1 .. 6 : i <= a /\ i <= b /\ (i = a \/ i = b)
    OBVIOUS
  <2>4. \A j \in 1 .. i - 1 : j \in 1 .. a - 1 /\ j \in 1 .. b - 1
    BY <2>3
  <2>5. \A j \in 1 .. i - 1 : s[j] = u[j]
    BY <2>1, <2>2, <2>4
  <2>6. s[i] >= t[i] /\ t[i] >= u[i] /\ (s[i] > t[i] \/ t[i] > u[i])
    <3>1. i = a \/ i \in 1 .. a - 1
      BY <2>3
    <3>2. i = b \/ i \in 1 .. b - 1
      BY <2>3
    <3>3. QED
      BY <1>1, <2>1, <2>2, <2>3, <3>1, <3>2
  <2>7. s[i] > u[i]
    BY <1>1, <2>6
  <2>8. QED
    BY <1>2, <2>5, <2>7 DEF Over
<1>5. ASSUME s # t PROVE Over(s, t) \/ Over(t, s)
  <2> DEFINE D == {i \in 1 .. 6 : s[i] # t[i]}
  <2>1. D \in SUBSET Nat /\ D # {}
    BY <1>5
  <2> HIDE DEF D
  <2>2. PICK i \in D : \A j \in D : i <= j
    BY <2>1, LeastNatural
  <2>3. i \in 1 .. 6 /\ s[i] # t[i]
    BY <2>2 DEF D
  <2>4. \A j \in 1 .. i - 1 : s[j] = t[j]
    <3>1. \A j \in 1 .. i - 1 : j \in 1 .. 6 /\ ~(i <= j)
      BY <2>3
    <3>2. QED
      BY <2>2, <3>1 DEF D
  <2>5. s[i] > t[i] \/ t[i] > s[i]
    BY <1>1, <2>3
  <2>6. QED
    BY <1>2, <2>3, <2>4, <2>5 DEF Over
<1>6. QED
  BY <1>3, <1>4, <1>5

LEMMA TablesAre ==
  ASSUME NEW h \in Hands, NEW mode \in Modes
  PROVE  /\ Scores[mode][h] = scoreFiveCards(h, mode) /\ Scores[mode][h] \in [1 .. 6 -> Nat]
         /\ Merits[mode][h] = MeritsOf(h, mode)
         /\ Place[mode][h] = Cardinality({k \in Hands : Over(Scores[mode][h], Scores[mode][k])})
<1>1. \A f : Tabulated(f) = f
  BY DEF Tabulated
<1>2. \A k \in Hands : Scores[mode][k] = scoreFiveCards(k, mode)
  BY <1>1 DEF Scores
<1>3. \A k \in Hands : Merits[mode][k] = MeritsOf(k, mode)
  BY <1>1 DEF Merits
<1>4. Place[mode][h] = Cardinality({k \in Hands : Higher(Merits[mode][h], Merits[mode][k])})
  <2>1. Place = [n \in Modes |-> [x \in Hands |->
                   Cardinality({k \in Hands : Higher(Merits[n][x], Merits[n][k])})]]
    BY <1>1, Zenon DEF Place
  <2>2. QED
    BY <2>1, Zenon
<1>5. \A k \in Hands : Higher(Merits[mode][h], Merits[mode][k]) <=> Over(Scores[mode][h], Scores[mode][k])
  BY <1>2, <1>3, ScoresCompare
<1>6. {k \in Hands : Higher(Merits[mode][h], Merits[mode][k])}
        = {k \in Hands : Over(Scores[mode][h], Scores[mode][k])}
  BY <1>5
<1>7. scoreFiveCards(h, mode) \in [1 .. 6 -> Nat]
  BY ScoreIs
<1>8. QED
  BY <1>2, <1>3, <1>4, <1>6, <1>7

LEMMA PlacesAre ==
  ASSUME NEW h \in Hands, NEW k \in Hands, NEW mode \in Modes
  PROVE  /\ Place[mode][h] \in Nat /\ Place[mode][k] \in Nat
         /\ Over(Scores[mode][h], Scores[mode][k]) <=> Place[mode][h] > Place[mode][k]
         /\ Scores[mode][h] = Scores[mode][k] <=> Place[mode][h] = Place[mode][k]
<1> DEFINE below(x) == {y \in Hands : Over(Scores[mode][x], Scores[mode][y])}
<1>1. IsFiniteSet(Hands)
  <2>1. IsFiniteSet(SUBSET CardSet)
    BY HandRankAssumption, FS_SUBSET
  <2>2. Hands \in SUBSET (SUBSET CardSet)
    BY DEF Hands, kSubset
  <2>3. QED
    BY <2>1, <2>2, FS_Subset
<1>2. \A x \in Hands : Scores[mode][x] \in [1 .. 6 -> Nat] /\ Place[mode][x] = Cardinality(below(x))
  BY TablesAre
<1>3. \A x \in Hands : IsFiniteSet(below(x)) /\ Place[mode][x] \in Nat
  <2>1. \A x \in Hands : below(x) \in SUBSET Hands
    OBVIOUS
  <2>2. \A x \in Hands : IsFiniteSet(below(x)) /\ Cardinality(below(x)) \in Nat
    BY <1>1, <2>1, FS_Subset, FS_CardinalityType
  <2>3. QED
    BY <1>2, <2>2
<1>4. ASSUME NEW x \in Hands, NEW y \in Hands, Over(Scores[mode][x], Scores[mode][y])
      PROVE  Place[mode][x] > Place[mode][y]
  <2>1. y \notin below(y) /\ y \in below(x)
    BY <1>2, <1>4, OverOrders
  <2>2. \A z \in Hands : Over(Scores[mode][y], Scores[mode][z]) => Over(Scores[mode][x], Scores[mode][z])
    <3> SUFFICES ASSUME NEW z \in Hands, Over(Scores[mode][y], Scores[mode][z])
                 PROVE  Over(Scores[mode][x], Scores[mode][z])
      OBVIOUS
    <3>1. /\ Scores[mode][x] \in [1 .. 6 -> Nat] /\ Scores[mode][y] \in [1 .. 6 -> Nat]
          /\ Scores[mode][z] \in [1 .. 6 -> Nat]
      BY <1>2
    <3>2. QED
      BY <1>4, <3>1, OverOrders, Zenon
  <2> DEFINE A == below(x)
             B == below(y)
  <2>3. IsFiniteSet(A) /\ IsFiniteSet(B) /\ Place[mode][x] = Cardinality(A) /\ Place[mode][y] = Cardinality(B)
    BY <1>2, <1>3
  <2>4. Place[mode][x] \in Nat /\ Place[mode][y] \in Nat
    BY <1>3
  <2> HIDE DEF below, A, B
  <2>5. Cardinality(B \cup {y}) = Cardinality(B) + 1
    BY <2>1, <2>3, FS_AddElement DEF B
  <2>6. Cardinality(B \cup {y}) <= Cardinality(A)
    <3>1. B \cup {y} \in SUBSET A
      BY <2>1, <2>2 DEF A, B, below
    <3>2. QED
      BY <2>3, <3>1, FS_Subset
  <2>7. QED
    BY <2>3, <2>4, <2>5, <2>6
<1>5. Scores[mode][h] = Scores[mode][k] => Place[mode][h] = Place[mode][k]
  <2>1. Scores[mode][h] = Scores[mode][k] => below(h) = below(k)
    OBVIOUS
  <2>2. QED
    BY <1>2, <2>1, Zenon
<1>6. \/ Scores[mode][h] = Scores[mode][k]
      \/ Over(Scores[mode][h], Scores[mode][k]) \/ Over(Scores[mode][k], Scores[mode][h])
  BY <1>2, OverOrders
<1>7. /\ Over(Scores[mode][h], Scores[mode][k]) => Place[mode][h] > Place[mode][k]
      /\ Over(Scores[mode][k], Scores[mode][h]) => Place[mode][k] > Place[mode][h]
  BY <1>4
<1> HIDE DEF below
<1>8. QED
  BY <1>3, <1>5, <1>6, <1>7

\* The best hand of a choice: its place is the greatest, in the low games the least.
IsBest(b, hands, mode) ==
  /\ b \in hands
  /\ \A h \in hands : IF mode = "high" THEN Place[mode][h] <= Place[mode][b]
                      ELSE Place[mode][b] <= Place[mode][h]

LEMMA BestIsPicked ==
  ASSUME NEW hands \in SUBSET Hands, hands # {}, NEW mode \in Modes
  PROVE  \E b \in hands : pickBest(hands, mode) = Scores[mode][b] /\ IsBest(b, hands, mode)
<1> DEFINE places == {Place[mode][h] : h \in hands}
           scores == {Scores[mode][h] : h \in hands}
           no(s) == \A t \in scores : IF mode = "high" THEN ~Over(t, s) ELSE ~Over(s, t)
<1>1. places \in SUBSET Nat /\ places # {} /\ IsFiniteSet(places)
  <2>1. IsFiniteSet(hands)
    <3>1. IsFiniteSet(SUBSET CardSet)
      BY HandRankAssumption, FS_SUBSET
    <3>2. hands \in SUBSET (SUBSET CardSet)
      BY DEF Hands, kSubset
    <3>3. QED
      BY <3>1, <3>2, FS_Subset
  <2> DEFINE f == [h \in hands |-> Place[mode][h]]
  <2>2. f \in Surjection(hands, places)
    BY DEF Surjection
  <2>3. IsFiniteSet(places)
    BY <2>1, <2>2, FS_Surjection
  <2>4. \A h \in hands : Place[mode][h] \in Nat
    BY PlacesAre
  <2>5. QED
    BY <2>3, <2>4
<1>2. \E b \in hands : IsBest(b, hands, mode)
  <2>1. \A h \in hands : Place[mode][h] \in places
    OBVIOUS
  <2> HIDE DEF places
  <2>2. PICK x \in places : \A y \in places : y <= x
    BY <1>1, GreatestNatural
  <2>3. PICK z \in places : \A y \in places : z <= y
    BY <1>1, LeastNatural
  <2>4. PICK w \in places : \A y \in places : IF mode = "high" THEN y <= w ELSE w <= y
    BY <2>2, <2>3
  <2>5. PICK b \in hands : w = Place[mode][b]
    BY DEF places
  <2>6. QED
    BY <2>1, <2>4, <2>5 DEF IsBest
<1>3. \A b \in hands : no(Scores[mode][b]) <=> IsBest(b, hands, mode)
  <2>1. \A b \in hands, h \in hands :
          /\ Over(Scores[mode][h], Scores[mode][b]) <=> ~(Place[mode][h] <= Place[mode][b])
          /\ Over(Scores[mode][b], Scores[mode][h]) <=> ~(Place[mode][b] <= Place[mode][h])
    BY PlacesAre
  <2>2. QED
    BY <2>1 DEF IsBest
<1>4. pickBest(hands, mode) = CHOOSE s \in scores : no(s)
  BY DEF pickBest, modeConfig
<1> DEFINE p == pickBest(hands, mode)
<1>5. \E s \in scores : no(s)
  BY <1>2, <1>3
<1>6. p \in scores /\ no(p)
  <2> HIDE DEF scores, no
  <2>1. QED
    BY <1>4, <1>5
<1> HIDE DEF p
<1>7. PICK b \in hands : p = Scores[mode][b]
  BY <1>6
<1>8. IsBest(b, hands, mode)
  BY <1>3, <1>6, <1>7
<1>9. QED
  BY <1>7, <1>8 DEF p

-----------------------------------------------------------------------------
(* The hands a player may play.                                            *)

\* There are subsets of every size up to that of a finite set.
LEMMA SubsetsOfAnySize ==
  ASSUME NEW T, IsFiniteSet(T), NEW n \in 0 .. Cardinality(T)
  PROVE  \E U \in SUBSET T : Cardinality(U) = n
<1> DEFINE G == {U \in SUBSET T : \A i \in 0 .. Cardinality(U) : \E V \in SUBSET U : Cardinality(V) = i}
<1>1. {} \in G
  <2>1. Cardinality({}) = 0
    BY FS_EmptySet
  <2>2. QED
    BY <2>1
<1>2. \A U \in SUBSET T : \A x \in U : U \ {x} \in G => U \in G
  <2> SUFFICES ASSUME NEW U \in SUBSET T, NEW x \in U,
                      \A i \in 0 .. Cardinality(U \ {x}) : \E V \in SUBSET (U \ {x}) : Cardinality(V) = i,
                      NEW i \in 0 .. Cardinality(U)
               PROVE  \E V \in SUBSET U : Cardinality(V) = i
    OBVIOUS
  <2>1. IsFiniteSet(U) /\ Cardinality(U) \in Nat
    BY FS_Subset, FS_CardinalityType
  <2>2. Cardinality(U \ {x}) = Cardinality(U) - 1
    BY <2>1, FS_RemoveElement
  <2>3. CASE i = Cardinality(U)
    BY <2>3
  <2>4. CASE i # Cardinality(U)
    <3>1. i \in 0 .. Cardinality(U \ {x})
      BY <2>1, <2>2, <2>4
    <3>2. PICK V \in SUBSET (U \ {x}) : Cardinality(V) = i
      BY <3>1
    <3>3. QED
      BY <3>2
  <2>5. QED
    BY <2>3, <2>4
<1> HIDE DEF G
<1>3. T \in G
  BY <1>1, <1>2, SetInduction, Zenon
<1>4. QED
  BY <1>3 DEF G

\* Taking some of one's own cards and the others from the board.
LEMMA ExactHandsAre ==
  ASSUME NEW hole \in SUBSET CardSet, NEW board \in SUBSET CardSet, hole \cap board = {}
  PROVE  exactCombinations(hole, board)
           = {h \in kSubset(5, hole \cup board) : Cardinality(h \cap hole) = HoleCardsUsed}
<1> DEFINE E == exactCombinations(hole, board)
           P == {h \in kSubset(5, hole \cup board) : Cardinality(h \cap hole) = HoleCardsUsed}
           u == HoleCardsUsed
<1>1. u \in 0 .. 5 /\ IsFiniteSet(hole) /\ IsFiniteSet(board)
  BY HandRankAssumption, FS_Subset
<1>2. \A a \in SUBSET hole, b \in SUBSET board :
        Cardinality(a \cup b) = Cardinality(a) + Cardinality(b) /\ Cardinality(a) \in Nat /\ Cardinality(b) \in Nat
  <2> SUFFICES ASSUME NEW a \in SUBSET hole, NEW b \in SUBSET board
               PROVE  Cardinality(a \cup b) = Cardinality(a) + Cardinality(b)
                      /\ Cardinality(a) \in Nat /\ Cardinality(b) \in Nat
    OBVIOUS
  <2>1. IsFiniteSet(a) /\ IsFiniteSet(b) /\ a \cap b = {}
    BY <1>1, FS_Subset
  <2>2. Cardinality(a \cup b) = Cardinality(a) + Cardinality(b) - Cardinality({})
    BY <2>1, FS_Union
  <2>3. Cardinality(a) \in Nat /\ Cardinality(b) \in Nat /\ Cardinality({}) = 0
    BY <2>1, FS_CardinalityType, FS_EmptySet
  <2>4. QED
    BY <2>2, <2>3
<1>3. E \subseteq P
  <2> SUFFICES ASSUME NEW h \in E PROVE h \in P
    OBVIOUS
  <2>1. PICK a \in SUBSET hole, b \in SUBSET board :
          h = a \cup b /\ Cardinality(a) = u /\ Cardinality(b) = 5 - u
    BY DEF exactCombinations, kSubset
  <2>2. h \in SUBSET (hole \cup board) /\ h \cap hole = a
    BY <2>1
  <2>3. Cardinality(h) = 5
    BY <1>1, <1>2, <2>1
  <2>4. QED
    BY <2>1, <2>2, <2>3 DEF kSubset
<1>4. P \subseteq E
  <2> SUFFICES ASSUME NEW h \in P PROVE h \in E
    OBVIOUS
  <2> DEFINE a == h \cap hole
             b == h \cap board
  <2>1. h \in SUBSET (hole \cup board) /\ Cardinality(h) = 5 /\ Cardinality(a) = u
    BY DEF kSubset
  <2>2. a \in SUBSET hole /\ b \in SUBSET board /\ h = a \cup b
    BY <2>1
  <2> HIDE DEF a, b
  <2>3. Cardinality(b) = 5 - u
    BY <1>1, <1>2, <2>1, <2>2
  <2>4. a \in kSubset(u, hole) /\ b \in kSubset(5 - u, board)
    BY <2>1, <2>2, <2>3 DEF kSubset
  <2>5. QED
    BY <2>2, <2>4 DEF exactCombinations
<1>5. QED
  BY <1>3, <1>4

\* What holds of every deal: the board, the rules, and cards enough for both players.
DealInv ==
  /\ deal \in [mode : Modes, exact : BOOLEAN, board : SUBSET CardSet,
               mine : SUBSET CardSet, yours : SUBSET CardSet]
  /\ Cardinality(deal.board) = BoardSize
  /\ Dealt => \A hole \in {deal.mine, deal.yours} :
                hole \cap deal.board = {} /\ Cardinality(hole) >= HoleCardsUsed

\* The hands the evaluator tries.
Tried(hole) ==
  IF deal.exact THEN exactCombinations(hole, deal.board) ELSE bestCombination(hole \cup deal.board)

LEMMA PlayableAre ==
  ASSUME DealInv, Dealt, NEW hole \in {deal.mine, deal.yours}
  PROVE  /\ Playable(hole) \in SUBSET Hands /\ Playable(hole) # {}
         /\ Tried(hole) = Playable(hole)
<1>1. /\ hole \in SUBSET CardSet /\ deal.board \in SUBSET CardSet /\ hole \cap deal.board = {}
      /\ Cardinality(hole) >= HoleCardsUsed /\ Cardinality(deal.board) = BoardSize
      /\ deal.exact \in BOOLEAN
  BY DEF DealInv
<1>2. Playable(hole) \in SUBSET Hands
  BY <1>1 DEF Playable, Hands, kSubset
<1>3. Tried(hole) = Playable(hole)
  <2>1. CASE deal.exact
    BY <1>1, <2>1, ExactHandsAre DEF Tried, Playable
  <2>2. CASE ~deal.exact
    BY <2>2 DEF Tried, bestCombination, Playable
  <2>3. QED
    BY <1>1, <2>1, <2>2
<1>4. \E h \in exactCombinations(hole, deal.board) : TRUE
  <2>1. HoleCardsUsed \in 0 .. 5 /\ BoardSize \in Nat /\ BoardSize >= 5 - HoleCardsUsed
    BY HandRankAssumption
  <2>2. IsFiniteSet(hole) /\ IsFiniteSet(deal.board)
    BY <1>1, HandRankAssumption, FS_Subset
  <2>3. Cardinality(hole) \in Nat
    BY <2>2, FS_CardinalityType
  <2>4. PICK a \in SUBSET hole : Cardinality(a) = HoleCardsUsed
    <3>1. HoleCardsUsed \in 0 .. Cardinality(hole)
      BY <1>1, <2>1, <2>3
    <3>2. QED
      BY <2>2, <3>1, SubsetsOfAnySize
  <2>5. PICK b \in SUBSET deal.board : Cardinality(b) = 5 - HoleCardsUsed
    <3>1. 5 - HoleCardsUsed \in 0 .. Cardinality(deal.board)
      BY <1>1, <2>1
    <3>2. QED
      BY <2>2, <3>1, SubsetsOfAnySize
  <2>6. a \in kSubset(HoleCardsUsed, hole) /\ b \in kSubset(5 - HoleCardsUsed, deal.board)
    BY <2>4, <2>5 DEF kSubset
  <2>7. a \cup b \in exactCombinations(hole, deal.board)
    BY <2>6 DEF exactCombinations
  <2>8. QED
    BY <2>7
<1>5. Playable(hole) # {}
  <2>1. \E h \in kSubset(5, hole \cup deal.board) : Cardinality(h \cap hole) = HoleCardsUsed
    BY <1>1, <1>4, ExactHandsAre
  <2>2. QED
    BY <2>1 DEF Playable
<1>6. QED
  BY <1>2, <1>3, <1>5

-----------------------------------------------------------------------------
(* Low hands that qualify.                                                 *)

\* Five different ranks up to the qualifier.
LowHand(h) ==
  \A n \in 2 .. 4 : Sets(h, n, "low-ace-to-five") = {}
                    /\ \A r \in RanksIn(h, "low-ace-to-five") : r <= Qualifier

LEMMA QualifyingIs ==
  ASSUME NEW h \in Hands
  PROVE  qualifies(Scores["low-ace-to-five"][h]) <=> LowHand(h)
<1> DEFINE mode == "low-ace-to-five"
           s == Scores[mode][h]
           g == groupByRank(h, mode)
           c == CopiesOf(h, mode)
           m == Cardinality(RanksIn(h, mode))
<1>1. mode \in Modes
  BY DEF Modes
<1>2. ~Straight(h, mode) /\ ~Flush(h, mode)
  BY DEF Straight, Flush
<1>3. Shape(c, m) /\ Grouped(g, c, m)
  BY <1>1, HandShapes DEF HandShape
<1>4. Kind(h, mode) = KindBy(Straight(h, mode), Flush(h, mode), c[1], c[2])
  BY <1>1, KindIs
<1>5. s = scoreFiveCards(h, mode)
  BY <1>1, TablesAre
<1>6. /\ s[1] = 9 - Kind(h, mode) /\ Kind(h, mode) \in 1 .. 9
      /\ \A i \in 1 .. 5 : s[i + 1] = IF i <= m THEN g[i] ELSE 0
  BY <1>1, <1>2, <1>5, ScoreIs
<1>7. /\ Sets(h, 4, mode) # {} <=> c[1] = 4
      /\ Sets(h, 3, mode) # {} <=> c[1] = 3
      /\ Sets(h, 2, mode) # {} <=> c[1] = 2 \/ c[2] = 2
  BY SetsShow
<1>8. /\ \A i \in 1 .. m : g[i] \in RanksIn(h, mode)
      /\ \A r \in RanksIn(h, mode) : \E i \in 1 .. m : g[i] = r
  BY GroupsAre
<1> HIDE DEF mode, s, g, c, m
<1>9. s[1] = 0 <=> c[1] = 1
  BY <1>2, <1>3, <1>4, <1>6 DEF KindBy, Shape
<1>10. (\A n \in 2 .. 4 : Sets(h, n, mode) = {}) <=> c[1] = 1
  <2>1. \A n \in 2 .. 4 : n = 2 \/ n = 3 \/ n = 4
    OBVIOUS
  <2>2. (\A n \in 2 .. 4 : Sets(h, n, mode) = {})
          <=> Sets(h, 2, mode) = {} /\ Sets(h, 3, mode) = {} /\ Sets(h, 4, mode) = {}
    BY <2>1
  <2>3. QED
    BY <1>3, <1>7, <2>2 DEF Shape
<1>11. ASSUME c[1] = 1 PROVE (\A i \in 2 .. 6 : s[i] <= Qualifier) <=> \A r \in RanksIn(h, mode) : r <= Qualifier
  <2>1. m = 5
    BY <1>3, <1>11 DEF Shape
  <2>2. \A i \in 1 .. 5 : s[i + 1] = g[i]
    BY <1>6, <2>1
  <2>3. ASSUME \A i \in 2 .. 6 : s[i] <= Qualifier, NEW r \in RanksIn(h, mode) PROVE r <= Qualifier
    <3>1. PICK i \in 1 .. 5 : g[i] = r
      BY <1>8, <2>1
    <3>2. i + 1 \in 2 .. 6 /\ s[i + 1] = r
      BY <2>2, <3>1
    <3>3. QED
      BY <2>3, <3>2
  <2>4. ASSUME \A r \in RanksIn(h, mode) : r <= Qualifier, NEW i \in 2 .. 6 PROVE s[i] <= Qualifier
    <3>1. i - 1 \in 1 .. 5 /\ (i - 1) + 1 = i
      OBVIOUS
    <3>2. s[i] = g[i - 1] /\ g[i - 1] \in RanksIn(h, mode)
      BY <1>8, <2>1, <2>2, <3>1
    <3>3. QED
      BY <2>4, <3>2
  <2>5. QED
    BY <2>3, <2>4
<1>12. QED
  BY <1>9, <1>10, <1>11 DEF qualifies, LowHand, mode, s

\* A hand that is no worse than a low that qualifies does too: its single cards go down
\* from the highest, which is no higher than that of the other.
LEMMA LowerQualifies ==
  ASSUME NEW h \in Hands, NEW b \in Hands, qualifies(Scores["low-ace-to-five"][h]),
         ~Over(Scores["low-ace-to-five"][b], Scores["low-ace-to-five"][h])
  PROVE  qualifies(Scores["low-ace-to-five"][b])
<1> DEFINE mode == "low-ace-to-five"
           s == Scores[mode][h]
           t == Scores[mode][b]
           g == groupByRank(b, mode)
           c == CopiesOf(b, mode)
           m == Cardinality(RanksIn(b, mode))
<1>1. mode \in Modes
  BY DEF Modes
<1>2. ~Straight(b, mode) /\ ~Flush(b, mode)
  BY DEF Straight, Flush
<1>3. Shape(c, m) /\ Grouped(g, c, m)
  BY <1>1, HandShapes DEF HandShape
<1>4. Kind(b, mode) = KindBy(Straight(b, mode), Flush(b, mode), c[1], c[2])
  BY <1>1, KindIs
<1>5. t = scoreFiveCards(b, mode) /\ t \in [1 .. 6 -> Nat] /\ s \in [1 .. 6 -> Nat]
  BY <1>1, TablesAre
<1>6. /\ t[1] = 9 - Kind(b, mode) /\ Kind(b, mode) \in 1 .. 9
      /\ \A i \in 1 .. 5 : t[i + 1] = IF i <= m THEN g[i] ELSE 0
  BY <1>1, <1>2, <1>5, ScoreIs
<1>7. s[1] = 0 /\ (\A i \in 2 .. 6 : s[i] <= Qualifier) /\ ~Over(t, s)
  BY DEF qualifies
<1> HIDE DEF mode, s, t, g, c, m
<1>8. \A i \in 1 .. 6 : s[i] \in Nat /\ t[i] \in Nat
  BY <1>5
<1>9. DOMAIN t = 1 .. 6
  BY <1>5
<1>10. t[1] = 0
  <2>1. ~(t[1] > s[1])
    <3>1. 1 \in DOMAIN t /\ \A j \in 1 .. 1 - 1 : t[j] = s[j]
      BY <1>9
    <3>2. QED
      BY <1>7, <3>1 DEF Over
  <2>2. QED
    BY <1>7, <1>8, <2>1
<1>11. t[2] <= s[2]
  <2>1. ~(t[2] > s[2])
    <3>1. 2 \in DOMAIN t /\ \A j \in 1 .. 2 - 1 : t[j] = s[j]
      BY <1>7, <1>9, <1>10
    <3>2. QED
      BY <1>7, <3>1 DEF Over
  <2>2. QED
    BY <1>8, <2>1
<1>12. c[1] = 1 /\ m = 5 /\ \A i \in 1 .. 5 : c[i] = 1
  <2>1. c[1] = 1
    BY <1>2, <1>3, <1>4, <1>6, <1>10 DEF KindBy, Shape
  <2>2. m = 5 /\ c[2] = 1 /\ c[3] = 1 /\ c[4] = 1 /\ c[5] = 1
    BY <1>3, <2>1 DEF Shape
  <2>3. \A i \in 1 .. 5 : i = 1 \/ i = 2 \/ i = 3 \/ i = 4 \/ i = 5
    OBVIOUS
  <2>4. QED
    BY <2>1, <2>2, <2>3
<1>13. \A i \in 1 .. 5 : t[i + 1] = g[i] /\ g[i] \in 1 .. 14 /\ (1 < i => g[1] > g[i])
  <2>1. \A i \in 1 .. 5 : t[i + 1] = g[i]
    BY <1>6, <1>12
  <2>2. \A i \in 1 .. 5 : g[i] \in 1 .. 14 /\ (1 < i => g[1] > g[i])
    BY <1>3, <1>12 DEF Grouped
  <2>3. QED
    BY <2>1, <2>2
<1>14. ASSUME NEW i \in 2 .. 6 PROVE t[i] <= Qualifier
  <2>1. i - 1 \in 1 .. 5 /\ (i - 1) + 1 = i /\ 1 + 1 = 2 /\ 1 \in 1 .. 5 /\ 2 \in 2 .. 6
    OBVIOUS
  <2>2. t[i] <= t[2]
    <3>1. t[i] = g[i - 1] /\ t[2] = g[1] /\ g[i - 1] \in 1 .. 14 /\ g[1] \in 1 .. 14
      BY <1>13, <2>1
    <3>2. i - 1 = 1 \/ g[1] > g[i - 1]
      BY <1>13, <2>1
    <3>3. QED
      BY <3>1, <3>2
  <2>3. s[2] <= Qualifier /\ Qualifier \in Nat
    BY <1>7, <2>1, HandRankAssumption
  <2>4. QED
    BY <1>8, <1>11, <2>2, <2>3
<1>15. QED
  BY <1>10, <1>14 DEF qualifies, t, mode

-----------------------------------------------------------------------------
(* The verdict on a deal.                                                  *)

\* How good the best playable hand is, by the places of the hands.
BestPlace(hole) ==
  IF deal.mode = "high" THEN Max({Place[deal.mode][h] : h \in Playable(hole)})
  ELSE 0 - Min({Place[deal.mode][h] : h \in Playable(hole)})

LEMMA EvaluatedIs ==
  ASSUME DealInv, Dealt, NEW hole \in {deal.mine, deal.yours}
  PROVE  \E b \in Playable(hole) :
           /\ evaluated(hole) = Scores[deal.mode][b] /\ IsBest(b, Playable(hole), deal.mode)
           /\ BestPlace(hole) = IF deal.mode = "high" THEN Place[deal.mode][b]
                                ELSE 0 - Place[deal.mode][b]
<1> DEFINE hands == Playable(hole)
           mode == deal.mode
           places == {Place[mode][h] : h \in hands}
<1>1. hands \in SUBSET Hands /\ hands # {} /\ Tried(hole) = hands
  BY PlayableAre
<1>2. mode \in Modes
  BY DEF DealInv
<1>3. evaluated(hole) = pickBest(hands, mode)
  BY <1>1 DEF evaluated, Tried, evaluateBestHandExact, evaluateBestHand
<1> HIDE DEF hands, mode
<1>4. PICK b \in hands : pickBest(hands, mode) = Scores[mode][b] /\ IsBest(b, hands, mode)
  BY <1>1, <1>2, BestIsPicked
<1>5. places \in SUBSET Int /\ Place[mode][b] \in places
  <2>1. \A h \in hands : Place[mode][h] \in Nat
    BY <1>1, <1>2, PlacesAre
  <2>2. QED
    BY <2>1
<1>6. BestPlace(hole) = IF mode = "high" THEN Max(places) ELSE 0 - Min(places)
  BY DEF BestPlace, hands, mode
<1>7. /\ mode = "high" => \A p \in places : p <= Place[mode][b]
      /\ mode # "high" => \A p \in places : Place[mode][b] <= p
  BY <1>4 DEF IsBest
<1> HIDE DEF places
<1>8. /\ mode = "high" => Max(places) = Place[mode][b]
      /\ mode # "high" => Min(places) = Place[mode][b]
  BY <1>5, <1>7, MaxIs, MinIs
<1>9. QED
  BY <1>3, <1>4, <1>6, <1>8 DEF hands, mode

LEMMA VerdictIsRight ==
  ASSUME DealInv, Dealt
  PROVE  LET verdict == compareEvaluatedHands(evaluated(deal.mine), evaluated(deal.yours), deal.mode)
         IN  /\ verdict > 0 <=> BestPlace(deal.mine) > BestPlace(deal.yours)
             /\ verdict = 0 <=> BestPlace(deal.mine) = BestPlace(deal.yours)
<1> DEFINE mode == deal.mode
           s == evaluated(deal.mine)
           t == evaluated(deal.yours)
           p == BestPlace(deal.mine)
           q == BestPlace(deal.yours)
           raw == IF s = t THEN 0 ELSE IF Over(s, t) THEN 1 ELSE -1
           verdict == compareEvaluatedHands(s, t, mode)
<1>1. mode \in Modes
  BY DEF DealInv
<1>2. PICK a \in Playable(deal.mine) :
        s = Scores[mode][a] /\ p = IF mode = "high" THEN Place[mode][a] ELSE 0 - Place[mode][a]
  BY EvaluatedIs
<1>3. PICK b \in Playable(deal.yours) :
        t = Scores[mode][b] /\ q = IF mode = "high" THEN Place[mode][b] ELSE 0 - Place[mode][b]
  BY EvaluatedIs
<1>4. a \in Hands /\ b \in Hands
  BY PlayableAre
<1>5. /\ Place[mode][a] \in Nat /\ Place[mode][b] \in Nat
      /\ Over(s, t) <=> Place[mode][a] > Place[mode][b]
      /\ s = t <=> Place[mode][a] = Place[mode][b]
  BY <1>1, <1>2, <1>3, <1>4, PlacesAre
<1>6. verdict = IF mode = "high" THEN raw ELSE 0 - raw
  BY DEF compareEvaluatedHands
<1> HIDE DEF mode, s, t, p, q, verdict
<1>7. raw \in {-1, 0, 1} /\ (raw = 0 <=> s = t) /\ (raw = 1 <=> s # t /\ Over(s, t))
  OBVIOUS
<1> HIDE DEF raw
<1>8. (verdict > 0 <=> p > q) /\ (verdict = 0 <=> p = q)
  <2>1. CASE mode = "high"
    BY <1>2, <1>3, <1>5, <1>6, <1>7, <2>1
  <2>2. CASE mode # "high"
    BY <1>2, <1>3, <1>5, <1>6, <1>7, <2>2
  <2>3. QED
    BY <2>1, <2>2
<1>9. QED
  BY <1>8 DEF verdict, mode, s, t, p, q

LEMMA LowIsRight ==
  ASSUME DealInv, Dealt, deal.mode = "low-ace-to-five"
  PROVE  evaluatedLow(deal.mine) = IF {h \in Playable(deal.mine) : LowHand(h)} = {} THEN NoLow
                                   ELSE evaluated(deal.mine)
<1> DEFINE mode == "low-ace-to-five"
           hands == Playable(deal.mine)
           lows == {h \in hands : LowHand(h)}
           s == evaluated(deal.mine)
<1>1. mode \in Modes /\ deal.exact \in BOOLEAN
  BY DEF Modes, DealInv
<1>2. hands \in SUBSET Hands /\ Tried(deal.mine) = hands
  BY PlayableAre
<1>3. PICK b \in hands : s = Scores[mode][b] /\ IsBest(b, hands, mode)
  BY EvaluatedIs
<1>4. \A h \in hands : qualifies(Scores[mode][h]) <=> LowHand(h)
  BY <1>2, QualifyingIs
<1>5. \A h \in hands : LowHand(h) => LowHand(b)
  <2> SUFFICES ASSUME NEW h \in hands, LowHand(h) PROVE LowHand(b)
    OBVIOUS
  <2>1. h \in Hands /\ b \in Hands
    BY <1>2, <1>3
  <2>2. Place[mode][b] <= Place[mode][h]
    BY <1>3 DEF IsBest
  <2>3. ~Over(Scores[mode][b], Scores[mode][h])
    BY <1>1, <2>1, <2>2, PlacesAre
  <2>4. qualifies(Scores[mode][h])
    BY <1>4
  <2>5. qualifies(Scores[mode][b])
    BY <2>1, <2>3, <2>4, LowerQualifies
  <2>6. QED
    BY <1>3, <1>4, <2>5
<1>6. CASE deal.exact
  <2>1. exactCombinations(deal.mine, deal.board) = hands
    BY <1>2, <1>6 DEF Tried
  <2>2. {h \in hands : qualifies(Scores[mode][h])} = lows
    BY <1>4
  <2>3. evaluatedLow(deal.mine) = IF lows = {} THEN NoLow ELSE pickBest(lows, mode)
    BY <1>6, <2>1, <2>2 DEF evaluatedLow, evaluateQualifyingLowExact
  <2>4. ASSUME lows # {} PROVE pickBest(lows, mode) = s
    <3>1. lows \in SUBSET Hands
      BY <1>2
    <3>2. b \in lows
      BY <1>3, <1>5, <2>4
    <3> HIDE DEF mode, hands, lows
    <3>3. PICK x \in lows : pickBest(lows, mode) = Scores[mode][x] /\ IsBest(x, lows, mode)
      BY <1>1, <2>4, <3>1, BestIsPicked
    <3>4. x \in hands /\ x \in Hands /\ b \in Hands /\ mode # "high"
      BY <3>1, <3>2 DEF lows, mode
    <3>5. Place[mode][x] <= Place[mode][b] /\ Place[mode][b] <= Place[mode][x]
      BY <1>3, <3>2, <3>3, <3>4 DEF IsBest
    <3>6. Place[mode][x] = Place[mode][b]
      <4>1. Place[mode][x] \in Nat /\ Place[mode][b] \in Nat
        BY <1>1, <3>4, PlacesAre
      <4>2. QED
        BY <3>5, <4>1
    <3>7. Scores[mode][x] = Scores[mode][b]
      BY <1>1, <3>4, <3>6, PlacesAre
    <3>8. QED
      BY <1>3, <3>3, <3>7
  <2>5. QED
    BY <2>3, <2>4
<1>7. CASE ~deal.exact
  <2>1. bestCombination(deal.mine \cup deal.board) = hands
    BY <1>2, <1>7 DEF Tried
  <2>2. s = evaluateBestHand(deal.mine \cup deal.board, mode)
    BY <1>7 DEF evaluated
  <2>3. evaluatedLow(deal.mine) = IF qualifies(s) THEN s ELSE NoLow
    BY <1>7, <2>2 DEF evaluatedLow, evaluateQualifyingLow
  <2>4. qualifies(s) <=> lows # {}
    BY <1>3, <1>4, <1>5
  <2>5. QED
    BY <2>3, <2>4
<1>8. QED
  BY <1>1, <1>6, <1>7

LEMMA VerdictsHold ==
  ASSUME DealInv
  PROVE  BetterHandWins
<1> DEFINE verdict == compareEvaluatedHands(evaluated(deal.mine), evaluated(deal.yours), deal.mode)
           lows == {h \in Playable(deal.mine) : LowHand(h)}
<1>1. Dealt => /\ verdict > 0 <=> BestPlace(deal.mine) > BestPlace(deal.yours)
               /\ verdict = 0 <=> BestPlace(deal.mine) = BestPlace(deal.yours)
  BY VerdictIsRight
<1>2. Dealt /\ deal.mode = "low-ace-to-five" =>
        evaluatedLow(deal.mine) = IF lows = {} THEN NoLow ELSE evaluated(deal.mine)
  BY LowIsRight
<1>3. QED
  BY <1>1, <1>2, Zenon DEF BetterHandWins, BestPlace, LowHand

LEMMA CardsForBoth ==
  ASSUME NEW board \in SUBSET CardSet, Cardinality(board) = BoardSize,
         NEW mine \in SUBSET (CardSet \ board),
         Cardinality(mine) = Cardinality(CardSet \ board) \div 2
  PROVE  /\ Cardinality(mine) >= HoleCardsUsed
         /\ Cardinality((CardSet \ board) \ mine) >= HoleCardsUsed
<1> DEFINE others == CardSet \ board
           yours == others \ mine
<1>1. IsFiniteSet(CardSet) /\ IsFiniteSet(others) /\ IsFiniteSet(mine) /\ IsFiniteSet(board)
  <2>1. IsFiniteSet(CardSet)
    BY HandRankAssumption
  <2>2. others \in SUBSET CardSet /\ mine \in SUBSET CardSet
    OBVIOUS
  <2> HIDE DEF others
  <2>3. QED
    BY <2>1, <2>2, FS_Subset
<1>2. Cardinality(others) = Cardinality(CardSet) - BoardSize
  <2>1. Cardinality(CardSet \ board) = Cardinality(CardSet) - Cardinality(CardSet \cap board)
    BY <1>1, FS_Difference
  <2>2. CardSet \cap board = board
    OBVIOUS
  <2>3. QED
    BY <2>1, <2>2
<1>3. Cardinality(yours) = Cardinality(others) - Cardinality(mine)
  <2>1. Cardinality(others \ mine) = Cardinality(others) - Cardinality(others \cap mine)
    BY <1>1, FS_Difference
  <2>2. others \cap mine = mine
    OBVIOUS
  <2>3. QED
    BY <2>1, <2>2
<1>4. Cardinality(others) \in Nat /\ Cardinality(CardSet) \in Nat
  BY <1>1, FS_CardinalityType
<1>5. (Cardinality(CardSet) - BoardSize) \div 2 >= HoleCardsUsed /\ BoardSize \in Nat /\ HoleCardsUsed \in Nat
  BY HandRankAssumption
<1> DEFINE n == Cardinality(others)
<1> HIDE DEF n
<1>6. Cardinality(mine) = n \div 2 /\ n \in Nat /\ n \div 2 >= HoleCardsUsed
  BY <1>2, <1>4, <1>5 DEF n
<1>7. n - n \div 2 >= n \div 2 /\ n \div 2 \in Nat
  BY <1>6
<1>8. QED
  BY <1>3, <1>5, <1>6, <1>7 DEF n

\* The evaluator's verdicts follow the rules, under all three rankings, for every deck of
\* four suits, every number of cards on the board and every number to be played from one's
\* own: its scores, compared number by number, order the hands by kind, straight and sets.
THEOREM BetterHandsWin == HandSpec => []BetterHandWins
<1>1. ASSUME DealInit PROVE DealInv
  <2>1. PICK mode \in Modes, exact \in BOOLEAN, board \in kSubset(BoardSize, CardSet) :
          deal = [mode |-> mode, exact |-> exact, board |-> board, mine |-> {}, yours |-> {}]
    BY <1>1 DEF DealInit
  <2>2. board \in SUBSET CardSet /\ Cardinality(board) = BoardSize
    BY DEF kSubset
  <2>3. ~Dealt
    BY <2>1 DEF Dealt
  <2>4. QED
    BY <2>1, <2>2, <2>3 DEF DealInv
<1>2. ASSUME DealInv, [DealHands]_deal PROVE DealInv'
  <2>1. CASE DealHands
    <3> DEFINE board == deal.board
               others == CardSet \ board
    <3>1. PICK mine \in kSubset(Cardinality(others) \div 2, others) :
            deal' = [deal EXCEPT !.mine = mine, !.yours = others \ mine]
      BY <2>1 DEF DealHands
    <3>2. mine \in SUBSET others /\ Cardinality(mine) = Cardinality(others) \div 2
      BY DEF kSubset
    <3>3. /\ deal \in [mode : Modes, exact : BOOLEAN, board : SUBSET CardSet,
                       mine : SUBSET CardSet, yours : SUBSET CardSet]
          /\ Cardinality(board) = BoardSize
      BY <1>2 DEF DealInv
    <3>4. Cardinality(mine) >= HoleCardsUsed /\ Cardinality(others \ mine) >= HoleCardsUsed
      BY <3>2, <3>3, CardsForBoth
    <3>5. /\ deal' \in [mode : Modes, exact : BOOLEAN, board : SUBSET CardSet,
                        mine : SUBSET CardSet, yours : SUBSET CardSet]
          /\ deal'.board = board /\ deal'.mine = mine /\ deal'.yours = others \ mine
      BY <3>1, <3>2, <3>3
    <3>6. mine \cap board = {} /\ (others \ mine) \cap board = {}
      BY <3>2
    <3> HIDE DEF others, board
    <3>7. QED
      BY <3>3, <3>4, <3>5, <3>6 DEF DealInv
  <2>2. CASE UNCHANGED deal
    BY <1>2, <2>2 DEF DealInv, Dealt
  <2>3. QED
    BY <1>2, <2>1, <2>2
<1>3. DealInv => BetterHandWins
  BY VerdictsHold
<1>4. QED
  BY <1>1, <1>2, <1>3, PTL DEF HandSpec
=============================================================================
