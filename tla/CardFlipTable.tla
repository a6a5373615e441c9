---------------------------- MODULE CardFlipTable ----------------------------
(***************************************************************************)
(* The server around one round of Card Flip: CardFlipService in            *)
(* apps/server/src/card-flip/card-flip.service.ts and the parts of         *)
(* TablesService it uses.  A request runs under the table's lock; after    *)
(* the engine's draw `finish` draws for the seats that are away and, when  *)
(* the round is over, settles it and writes it to the database.            *)
(*                                                                         *)
(* The engine's draw is that of CardFlipRound.  `handler` is where the     *)
(* request that holds the lock has got to.                                 *)
(***************************************************************************)
EXTENDS CardFlipRound

CONSTANTS
  MaxQueued     \* bound of the model: seats queued to leave after the round

ASSUME MaxQueuedAssumption == MaxQueued \in Nat

VARIABLES
  handler,      \* "idle", or where the request holding the lock stands in finish
  away,         \* players whose seat status is "sitting-out"
  leaving,      \* runtime.awayAfterHandSeats
  settled,      \* round.settled
  rows,         \* how many rows of the round have been written
  saved         \* stack of every player in the database

seatVars == <<settled, rows, saved>>
tableVars == <<away, leaving, seatVars>>
vars2 == <<vars, handler, tableVars>>

-----------------------------------------------------------------------------
(* Requests.                                                               *)

\* cardflip:draw, sent by the player p, away or not.
PlayerDraw(p) ==
  /\ handler = "idle"
  /\ \E i \in Piles, r \in Ranks : draw(p, i, r)
  /\ handler' = "resolve"
  /\ UNCHANGED tableVars

\* setSeatAway with away = true, then advanceAwaySeats.
GoAway(p) ==
  /\ handler = "idle"
  /\ away' = away \cup {p}
  /\ leaving' = leaving \ {p}
  /\ handler' = IF settled THEN "idle" ELSE "resolve"
  /\ UNCHANGED <<vars, seatVars>>

\* setSeatAway with away = false.
ComeBack(p) ==
  /\ handler = "idle"
  /\ away' = away \ {p}
  /\ leaving' = leaving \ {p}
  /\ UNCHANGED <<vars, handler, seatVars>>

\* setSeatAwayAfterHand, with away = true or false.
QueueAway(p) ==
  /\ handler = "idle"
  /\ leaving' \in {leaving \cup {p}, leaving \ {p}}
  /\ Cardinality(leaving') <= MaxQueued
  /\ UNCHANGED <<vars, handler, away, seatVars>>

-----------------------------------------------------------------------------
(* resolveAwayTurns, one turn of its loop at a time.                       *)

\* Mutant: the draw for an away seat is always made from the first pile.
FirstPile_Only == {i \in {0} : piles[i] > 0}

\* The pile an away seat draws from: the first that is not empty.
FirstPile == {i \in Piles : piles[i] > 0 /\ \A j \in 0 .. i - 1 : piles[j] = 0}

AwayToDraw == phase = "turn" /\ turn \in away /\ FirstPile # {}

\* Mutant: one draw is made for an away seat, not all it has to make.
resolveAwayTurns_Once ==
  /\ handler = "resolve"
  /\ handler' = "settle"
  /\ \/ AwayToDraw /\ \E i \in FirstPile, r \in Ranks : draw(turn, i, r)
     \/ ~AwayToDraw /\ UNCHANGED vars
  /\ UNCHANGED tableVars

resolveAwayTurns ==
  /\ handler = "resolve"
  /\ \/ /\ AwayToDraw
        /\ \E i \in FirstPile, r \in Ranks : draw(turn, i, r)
        /\ UNCHANGED handler
     \/ /\ ~AwayToDraw
        /\ handler' = "settle"
        /\ UNCHANGED vars
  /\ UNCHANGED tableVars

-----------------------------------------------------------------------------
(* settleIfComplete.                                                       *)

Unsettled == phase = "complete" /\ ~settled

\* What is written: the stack of every occupied seat, away or not.
SavedStacks == stack

\* Mutant: the round is not marked as settled.
settleIfComplete_Unmarked ==
  /\ handler = "settle"
  /\ handler' = "idle"
  /\ \/ /\ Unsettled
        /\ away' = away \cup leaving
        /\ leaving' = {}
        /\ rows' = rows + 1
        /\ saved' = SavedStacks
        /\ UNCHANGED settled
     \/ ~Unsettled /\ UNCHANGED tableVars
  /\ UNCHANGED vars

settleIfComplete ==
  /\ handler = "settle"
  /\ handler' = "idle"
  /\ \/ /\ Unsettled
        /\ settled' = TRUE
        /\ away' = away \cup leaving
        /\ leaving' = {}
        /\ rows' = rows + 1
        /\ saved' = SavedStacks
     \/ ~Unsettled /\ UNCHANGED tableVars
  /\ UNCHANGED vars

-----------------------------------------------------------------------------
\* startRound has dealt the round to seats that were all active, and goes on to finish.
TableInit ==
  /\ Init
  /\ handler = "resolve" /\ away = {} /\ leaving = {}
  /\ settled = FALSE /\ rows = 0 /\ saved = stack

finish == resolveAwayTurns \/ settleIfComplete

TableNext ==
  \/ \E p \in Players : PlayerDraw(p) \/ GoAway(p) \/ ComeBack(p) \/ QueueAway(p)
  \/ finish

\* A request that holds the lock is never abandoned: its pauses end by themselves.
TableSpec == TableInit /\ [][TableNext]_vars2 /\ WF_vars2(finish)

-----------------------------------------------------------------------------
(* Properties.                                                             *)

TableTypeOK ==
  /\ TypeOK
  /\ handler \in {"idle", "resolve", "settle"}
  /\ away \subseteq Players /\ leaving \subseteq Players
  /\ settled \in BOOLEAN /\ rows \in 0 .. 1 /\ saved \in [Players -> Int]

\* Whenever no request is running, a round that is not over waits for a player who
\* is there, although an away seat may have to draw many times in a row and piles
\* run empty under it.
AwayNeverStalls == handler = "idle" /\ phase = "turn" => turn \notin away

\* The database holds the stacks from before the round until it is over and the final
\* ones of everybody, those who have left included, from then on, and between them
\* stakes and bonuses only moved chips from one player to another; the round's row is
\* written once, although finish runs again for every seat that goes away later.
SavedOnceAndWhole ==
  handler = "idle" =>
    /\ rows = (IF phase = "complete" THEN 1 ELSE 0)
    /\ saved = IF phase = "complete" THEN stack ELSE [p \in Players |-> StartStack]
    /\ SumFunction(saved) = NumPlayers * StartStack

\* A round everybody has walked away from is drawn to its end and settled.
DesertedRoundEnds == (handler = "resolve" /\ away = Players) ~> settled
=============================================================================
