----------------------------- MODULE TableSeats -----------------------------
(***************************************************************************)
(* Who sits at a table, with how many chips, and what of it is stored:     *)
(* the seat requests, the owner's corrections and the away flags of        *)
(* TablesService, around rounds of any game, with a server that may be     *)
(* restarted between any two requests.                                     *)
(*                                                                         *)
(* A request runs under the table's lock (TableLock), so each is one step. *)
(* A round moves chips between the seats dealt in; the modules of the      *)
(* games say how.  Left out: display names and the pause before the next   *)
(* start, which only make the server refuse requests that are allowed here;*)
(* and a poker hand with more players than its deck serves, which fails    *)
(* after the blinds are posted (StartHandThrows of PokerHand).             *)
(***************************************************************************)
EXTENDS Integers, FiniteSetsExt

CONSTANTS
  Users,
  Creator,      \* the user who made the table, its first owner
  NoUser,
  SeatIndexes,
  BuyIns,
  Amounts,      \* amounts of a correction
  MinStack,     \* bounds of the model: stacks a round may leave a player with, ...
  MaxStack,     \* (which also bounds what a correction may make of one)
  MaxWinnings   \* ... and what a player may have won or lost in all

ASSUME CreatorAssumption == Creator \in Users /\ NoUser \notin Users
ASSUME AmountsAssumption ==
  /\ BuyIns \subseteq Nat /\ Amounts \subseteq Nat
  /\ MinStack \in Int /\ MaxStack \in Nat /\ MaxWinnings \in Nat

VARIABLES
  seat,         \* RuntimeTable.table.seats: [user, stack, away], NoUser in an empty seat
  owner,        \* ownerId, in the runtime and in the database
  requests,     \* pendingRequests, as [user, at]
  corrections,  \* pendingStackAdjustments[i], None when there is none
  leaving,      \* awayAfterHandSeats
  dealt,        \* the seats in the round that is live, {} when isRoundInProgress is false
  before,       \* stacksBeforeCurrentRound, <<>> for null
  saved,        \* the Seat rows of the database
  ledger,       \* the ChipTransaction rows: cash-outs minus buy-ins of every user
  winnings      \* history: what each user has won in the rounds that were played out

memory == <<seat, requests, corrections, leaving, dealt, before>>
vars == <<memory, owner, saved, ledger, winnings>>

Empty == [user |-> NoUser, stack |-> 0, away |-> FALSE]
None == [user |-> NoUser, mode |-> "none", amount |-> 0]
NoCorrections == [i \in SeatIndexes |-> None]

Live == dealt # {}
Occupied == {i \in SeatIndexes : seat[i].user # NoUser}
Seated == {seat[i].user : i \in Occupied}

\* activeSeats: the seats the next round is dealt to.
activeSeats(seats) ==
  {i \in SeatIndexes : seats[i].user # NoUser /\ ~seats[i].away /\ seats[i].stack > 0}

Init ==
  /\ seat = [i \in SeatIndexes |-> Empty]
  /\ owner = Creator
  /\ requests = {} /\ corrections = NoCorrections /\ leaving = {}
  /\ dealt = {} /\ before = <<>>
  /\ saved = seat
  /\ ledger = [u \in Users |-> 0] /\ winnings = [u \in Users |-> 0]

-----------------------------------------------------------------------------
(* Sitting down.                                                           *)

seatPlayerDirect(i, u, buyIn) ==
  /\ seat' = [seat EXCEPT ![i] = [user |-> u, stack |-> buyIn, away |-> FALSE]]
  /\ saved' = [saved EXCEPT ![i] = [user |-> u, stack |-> buyIn, away |-> FALSE]]
  /\ ledger' = [ledger EXCEPT ![u] = @ - buyIn]

\* Mutant: a user who has asked for one seat may ask for another.
MayRequest_Again(u, i) == seat[i].user = NoUser /\ u \notin Seated

MayRequest(u, i) ==
  /\ seat[i].user = NoUser
  /\ u \notin Seated
  /\ \A r \in requests : r.user # u

\* The owner sits down at once; anybody else waits for the owner.
requestSeat(u, i) ==
  /\ MayRequest(u, i)
  /\ IF u = owner
       THEN \E buyIn \in BuyIns : seatPlayerDirect(i, u, buyIn) /\ UNCHANGED requests
       ELSE /\ requests' = requests \cup {[user |-> u, at |-> i]}
            /\ UNCHANGED <<seat, saved, ledger>>
  /\ UNCHANGED <<owner, corrections, leaving, dealt, before, winnings>>

\* The owner approves.  When the seat has been taken in the meantime seatPlayer
\* throws, and the request is gone all the same.
approveSeatRequest(r) ==
  /\ requests' = requests \ {r}
  /\ IF seat[r.at].user = NoUser
       THEN \E buyIn \in BuyIns : seatPlayerDirect(r.at, r.user, buyIn)
       ELSE UNCHANGED <<seat, saved, ledger>>
  /\ UNCHANGED <<owner, corrections, leaving, dealt, before, winnings>>

\* rejectSeatRequest by the owner, or cancelSeatRequest by the user.
DropSeatRequest(r) ==
  /\ requests' = requests \ {r}
  /\ UNCHANGED <<seat, owner, corrections, leaving, dealt, before, saved, ledger, winnings>>

-----------------------------------------------------------------------------
(* Leaving, and going away.                                                *)

\* Mutant: a correction outlives the player it was meant for.
clearSeat_KeepsCorrection(i) ==
  /\ seat' = [seat EXCEPT ![i] = Empty]
  /\ saved' = [saved EXCEPT ![i] = Empty]
  /\ ledger' = [ledger EXCEPT ![seat[i].user] = @ + seat[i].stack]
  /\ UNCHANGED corrections

clearSeat(i) ==
  /\ seat' = [seat EXCEPT ![i] = Empty]
  /\ corrections' = [corrections EXCEPT ![i] = None]
  /\ saved' = [saved EXCEPT ![i] = Empty]
  /\ ledger' = [ledger EXCEPT ![seat[i].user] = @ + seat[i].stack]

\* Mutant: players are removed while a round is live.
MayRemove_Anytime(i) == i \in Occupied

MayRemove(i) == i \in Occupied /\ ~Live

removePlayer(i) ==
  /\ MayRemove(i)
  /\ clearSeat(i)
  /\ UNCHANGED <<owner, requests, leaving, dealt, before, winnings>>

transferOwnership(i) ==
  /\ i \in Occupied
  /\ owner' = seat[i].user
  /\ UNCHANGED <<memory, saved, ledger, winnings>>

setSeatAway(i, away) ==
  /\ i \in Occupied
  /\ seat' = [seat EXCEPT ![i].away = away]
  /\ saved' = [saved EXCEPT ![i].away = away]
  /\ leaving' = leaving \ {i}
  /\ UNCHANGED <<owner, requests, corrections, dealt, before, ledger, winnings>>

setSeatAwayAfterHand(i, away) ==
  /\ i \in Occupied
  /\ leaving' = IF away THEN leaving \cup {i} ELSE leaving \ {i}
  /\ UNCHANGED <<seat, owner, requests, corrections, dealt, before, saved, ledger, winnings>>

-----------------------------------------------------------------------------
(* Corrections of a stack.                                                 *)

resolvePendingStackAdjustment(stack, c) ==
  CASE c.mode = "add" -> stack + c.amount
    [] c.mode = "remove" -> Max({0, stack - c.amount})
    [] c.mode = "set" -> c.amount
    [] OTHER -> stack

\* Mutant: a correction taken back is entered as a buy-in too.
LedgerEntry_Unsigned(delta) == IF delta < 0 THEN delta ELSE 0 - delta

\* A raise of the stack is a buy-in, a cut of it a cash-out.
LedgerEntry(delta) == 0 - delta

\* applyStackAdjustment for each seat with a correction in c, whose user is still there.
applyStackAdjustments(c) ==
  LET due(i) == c[i] # None /\ seat[i].user = c[i].user
      after(i) == IF due(i) THEN resolvePendingStackAdjustment(seat[i].stack, c[i])
                  ELSE seat[i].stack
      change(u) == MapThenSumSet(LAMBDA i : after(i) - seat[i].stack,
                                 {i \in Occupied : seat[i].user = u})
  IN  /\ \A i \in SeatIndexes : after(i) <= MaxStack
      /\ seat' = [i \in SeatIndexes |-> [seat[i] EXCEPT !.stack = after(i)]]
      /\ saved' = [i \in SeatIndexes |->
                     [saved[i] EXCEPT !.stack = IF due(i) /\ after(i) # seat[i].stack
                                                THEN after(i) ELSE @]]
      /\ ledger' = [u \in Users |-> ledger[u] + LedgerEntry(change(u))]

\* The owner corrects a stack, at once or, while a round is live, before the next.
adjustStack(i, mode, amount) ==
  LET c == [user |-> seat[i].user, mode |-> mode, amount |-> amount]
  IN  /\ i \in Occupied /\ ~seat[i].away
      /\ IF Live
           THEN /\ corrections' = [corrections EXCEPT ![i] = c]
                /\ UNCHANGED <<seat, saved, ledger>>
           ELSE applyStackAdjustments([NoCorrections EXCEPT ![i] = c]) /\ UNCHANGED corrections
      /\ UNCHANGED <<owner, requests, leaving, dealt, before, winnings>>

-----------------------------------------------------------------------------
(* Rounds.                                                                 *)

\* startHand, or startRound of Clang or Card Flip: the corrections are applied,
\* the stacks noted, and the round dealt; the engine throws when there are not two
\* seats to deal to.
startHand ==
  /\ ~Live
  /\ applyStackAdjustments(corrections)
  /\ corrections' = NoCorrections
  /\ before' = [i \in {j \in Occupied : ~seat[j].away} |-> seat'[i].stack]
  /\ dealt' = IF Cardinality(activeSeats(seat')) >= 2 THEN activeSeats(seat') ELSE {}
  /\ UNCHANGED <<owner, requests, leaving, winnings>>

\* In the course of the round i pays a chip to j.
ChipsMove(i, j) ==
  /\ {i, j} \subseteq dealt /\ i # j
  /\ seat[i].stack > MinStack /\ seat[j].stack < MaxStack
  /\ seat' = [seat EXCEPT ![i].stack = @ - 1, ![j].stack = @ + 1]
  /\ UNCHANGED <<owner, requests, corrections, leaving, dealt, before, saved, ledger, winnings>>

\* applyAwayAfterRound: whoever sits in a queued seat by now is sent away.
SentAway == leaving \cap Occupied

\* Mutant: only the stacks of the seats that are still active are written.
StoredStack_ActiveOnly(i) ==
  IF i \in Occupied /\ ~seat[i].away /\ i \notin SentAway THEN seat[i].stack ELSE saved[i].stack

\* persistHandResult and settleIfComplete write the stack of every occupied seat.
StoredStack(i) == IF i \in Occupied THEN seat[i].stack ELSE saved[i].stack

\* The round is over: persistHandResult of poker, settleIfComplete of the others.
SettleRound ==
  LET won(u) == MapThenSumSet(LAMBDA i : seat[i].stack - before[i],
                              {i \in dealt : seat[i].user = u})
  IN  /\ Live
      /\ \A u \in Users : winnings[u] + won(u) \in (0 - MaxWinnings) .. MaxWinnings
      /\ winnings' = [u \in Users |-> winnings[u] + won(u)]
      /\ seat' = [i \in SeatIndexes |-> [seat[i] EXCEPT !.away = @ \/ i \in SentAway]]
      /\ saved' = [i \in SeatIndexes |-> [saved[i] EXCEPT !.stack = StoredStack(i),
                                                         !.away = @ \/ i \in SentAway]]
      /\ leaving' = {}
      /\ dealt' = {} /\ before' = <<>>
      /\ UNCHANGED <<owner, requests, corrections, ledger>>

\* onModuleInit: the runtime is rebuilt from the database.
Restart ==
  /\ seat' = saved
  /\ requests' = {} /\ corrections' = NoCorrections /\ leaving' = {}
  /\ dealt' = {} /\ before' = <<>>
  /\ UNCHANGED <<owner, saved, ledger, winnings>>

\* getLedger: what the ledger says u is up or down.
net(u) ==
  ledger[u] + MapThenSumSet(LAMBDA i : seat[i].stack, {i \in Occupied : seat[i].user = u})

-----------------------------------------------------------------------------
(* The controls a user u has on the page (SeatView, AwayButton).           *)

\* An empty seat nobody is shown to wait for is offered to whoever has no seat.
canSit(u, i) ==
  seat[i].user = NoUser /\ u \notin Seated /\ \A r \in requests : r.at # i

\* A request is shown in its seat while that is empty, one for each seat: the owner
\* decides on it, and its user may take it back.
requestControls(u, r) ==
  IF seat[r.at].user # NoUser THEN {}
  ELSE (IF u = owner THEN {"approve", "reject"} ELSE IF u = r.user THEN {"cancel"} ELSE {})

\* The owner's menu for any occupied seat.
seatMenu(u, i) ==
  IF u # owner \/ i \notin Occupied THEN {}
  ELSE {"adjust", "remove", "transfer"} \cup (IF seat[i].away THEN {} ELSE {"away"})

\* The button of a player who is not the owner, for its own seat.
awayButton(u, i) ==
  IF u = owner \/ seat[i].user # u THEN {}
  ELSE IF seat[i].away THEN {"back"}
  ELSE IF i \in leaving THEN {"stay"}
  ELSE {"away"} \cup (IF Live THEN {"away after hand"} ELSE {})

seatControls(u, i) == seatMenu(u, i) \cup awayButton(u, i)

-----------------------------------------------------------------------------
Next ==
  \/ \E u \in Users, i \in SeatIndexes : requestSeat(u, i)
  \/ \E r \in requests : approveSeatRequest(r) \/ DropSeatRequest(r)
  \/ \E i \in SeatIndexes : removePlayer(i) \/ transferOwnership(i)
  \/ \E i \in SeatIndexes, away \in BOOLEAN : setSeatAway(i, away) \/ setSeatAwayAfterHand(i, away)
  \/ \E i \in SeatIndexes, mode \in {"add", "remove", "set"}, amount \in Amounts :
       adjustStack(i, mode, amount)
  \/ startHand
  \/ \E i, j \in SeatIndexes : ChipsMove(i, j)
  \/ SettleRound
  \/ Restart

Spec == Init /\ [][Next]_vars

-----------------------------------------------------------------------------
(* Properties.                                                             *)

\* Nobody has two places at a table, be it seats or requests for one, whatever was
\* asked for, approved, handed over and restarted in between.  A seat the page offers can
\* be had, but by those who wait for another; and a request its user cannot take back, nor
\* the owner decide on, is for a seat that somebody else was faster to take.
OnePlaceEach ==
  \A u \in Users :
    /\ Cardinality({i \in Occupied : seat[i].user = u})
         + Cardinality({r \in requests : r.user = u}) <= 1
    /\ \A i \in SeatIndexes :
         canSit(u, i) => MayRequest(u, i) \/ \E r \in requests : r.user = u /\ r.at # i
    /\ \A r \in requests :
         requestControls(owner, r) = {} \/ requestControls(r.user, r) = {} => seat[r.at].user \in Users \ {r.user}

\* Between rounds the ledger of a player shows exactly what it won in the rounds that
\* were played out: buying in, being corrected, leaving and sitting down again never
\* count as winning or losing, and a round cut short by a restart leaves no trace.
LedgerShowsWinnings == ~Live => \A u \in Users : net(u) = winnings[u]

\* The database always holds who sits where and who is away.  It holds the stacks
\* too, but for those of the round that is live: of these it holds the stack the
\* player went into the round with, which is what a restart goes back to.
StoredSeats ==
  \A i \in SeatIndexes :
    /\ saved[i].user = seat[i].user /\ saved[i].away = seat[i].away
    /\ saved[i].stack = IF i \in dealt THEN before[i] ELSE seat[i].stack

\* A correction waits for the player who sits in its seat, and no other.
CorrectionsFindTheirPlayer ==
  \A i \in SeatIndexes : corrections[i] # None => corrections[i].user = seat[i].user

\* "coming back is the player's own call (their seat controls have the "Back" button)"
\* (the comment on the owner's menu in SeatView).
AwayPlayersCanReturn ==
  \A i \in Occupied : seat[i].away => "back" \in seatControls(seat[i].user, i)

\* While a round is live nobody dealt into it leaves the table, and nobody sits
\* down in a seat that is (the pot and the turn order refer to the seat).
RoundKeepsItsPlayers ==
  [][Live /\ dealt' = dealt => \A i \in dealt : seat'[i].user = seat[i].user]_vars
=============================================================================
