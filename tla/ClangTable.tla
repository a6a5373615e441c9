----------------------------- MODULE ClangTable -----------------------------
(***************************************************************************)
(* The server around one round of Clang: ClangService in                   *)
(* apps/server/src/clang/clang.service.ts and the parts of TablesService   *)
(* it uses.  A request runs under the table's lock; after the engine's     *)
(* action `finish` plays for the seats that are away and, when the round   *)
(* is over, settles it and writes it to the database.                      *)
(*                                                                         *)
(* The engine's actions are those of ClangRound.  `finish` pauses between  *)
(* its steps, but the lock keeps every other request waiting: `handler` is *)
(* where the request that holds the lock has got to.                       *)
(***************************************************************************)
EXTENDS ClangRound

VARIABLES
  handler,      \* "idle", or where the request holding the lock stands in finish
  away,         \* players whose seat status is "sitting-out"
  leaving,      \* runtime.awayAfterHandSeats
  settled,      \* round.settled
  rows,         \* how many rows of the round have been written
  saved         \* stack of every player in the database

vars2 == <<vars, handler, away, leaving, settled, rows, saved>>
tableVars == <<away, leaving, settled, rows, saved>>
seatVars == <<settled, rows, saved>>

-----------------------------------------------------------------------------
(* Requests.                                                               *)

PlayerAction(p) ==
  /\ handler = "idle"
  /\ callInstantClang(p) \/ TakeTurn(p)
  /\ handler' = "resolve"
  /\ UNCHANGED tableVars

\* Mutant: the round is not advanced when a seat goes away.
GoAway_Only(p) ==
  /\ handler = "idle"
  /\ away' = away \cup {p}
  /\ leaving' = leaving \ {p}
  /\ UNCHANGED <<vars, handler, seatVars>>

\* setSeatAway with away = true, then advanceAwaySeats.
GoAway(p) ==
  /\ handler = "idle"
  /\ away' = away \cup {p}
  /\ leaving' = leaving \ {p}
  /\ handler' = IF settled THEN "idle" ELSE "resolve"
  /\ UNCHANGED <<vars, seatVars>>

\* setSeatAway with away = false.
ComeBack(p) ==
  /\ handler = "idle"
  /\ away' = away \ {p}
  /\ leaving' = leaving \ {p}
  /\ UNCHANGED <<vars, handler, seatVars>>

\* setSeatAwayAfterHand, with away = true or false.
QueueAway(p) ==
  /\ handler = "idle"
  /\ leaving' \in {leaving \cup {p}, leaving \ {p}}
  /\ UNCHANGED <<vars, handler, away, seatVars>>

-----------------------------------------------------------------------------
(* resolveAwayTurns, one turn of its loop at a time.                       *)

AwayPassEat == phase = "awaiting-eat" /\ turn \in away /\ passEat(pendingEat.eater)

\* The first away seat, in turn order, that holds up the turn with an instant Clang.
AwayInstantClang ==
  /\ phase \in {"turn", "instant-window"}
  /\ \E p \in away \cap outstandingInstantClangSeats :
       /\ \A q \in away \cap outstandingInstantClangSeats : p <= q
       /\ callInstantClang(p)

AwayDraw == turn \in away /\ draw(turn)

\* defaultRankToPlay: a rank worth the most points in the hand.
AwayPlay ==
  /\ phase = "awaiting-discard"
  /\ turn \in away
  /\ \E r \in Ranks :
       /\ \A q \in Ranks : Holds(turn, q) => cardPointValue[q] <= cardPointValue[r]
       /\ playRank(turn, r)

\* Mutant: an away seat to eat is left to decide for itself.
NobodyToPlayFor_NotEating ==
  \/ phase = "complete"
  \/ phase = "awaiting-eat"
  \/ phase = "awaiting-discard" /\ turn \notin away
  \/ /\ phase \in {"turn", "instant-window"}
     /\ IF outstandingInstantClangSeats = {} THEN turn \notin away
        ELSE outstandingInstantClangSeats \cap away = {}

\* The loop stops: somebody present has the decision, or the round is over.
NobodyToPlayFor ==
  \/ phase = "complete"
  \/ phase \in {"awaiting-eat", "awaiting-discard"} /\ turn \notin away
  \/ /\ phase \in {"turn", "instant-window"}
     /\ IF outstandingInstantClangSeats = {} THEN turn \notin away
        ELSE outstandingInstantClangSeats \cap away = {}

resolveAwayTurns ==
  /\ handler = "resolve"
  /\ \/ /\ AwayPassEat \/ AwayInstantClang \/ AwayDraw \/ AwayPlay
        /\ UNCHANGED handler
     \/ /\ NobodyToPlayFor
        /\ handler' = "settle"
        /\ UNCHANGED vars
  /\ UNCHANGED tableVars

-----------------------------------------------------------------------------
(* settleIfComplete.                                                       *)

Unsettled == phase = "complete" /\ ~settled

\* What is written when the players in `left` are away: every occupied seat.
SavedStacks(left) == stack

\* Mutant: the round is not marked as settled.
settleIfComplete_Unmarked ==
  /\ handler = "settle"
  /\ handler' = "idle"
  /\ \/ /\ Unsettled
        /\ away' = away \cup leaving
        /\ leaving' = {}
        /\ rows' = rows + 1
        /\ saved' = SavedStacks(away')
        /\ UNCHANGED settled
     \/ ~Unsettled /\ UNCHANGED tableVars
  /\ UNCHANGED vars

settleIfComplete ==
  /\ handler = "settle"
  /\ handler' = "idle"
  /\ \/ /\ Unsettled
        /\ settled' = TRUE
        /\ away' = away \cup leaving
        /\ leaving' = {}
        /\ rows' = rows + 1
        /\ saved' = SavedStacks(away')
     \/ ~Unsettled /\ UNCHANGED tableVars
  /\ UNCHANGED vars

-----------------------------------------------------------------------------
\* startRound has dealt the round to seats that were all active, and goes on to finish.
TableInit ==
  /\ Init
  /\ handler = "resolve" /\ away = {} /\ leaving = {}
  /\ settled = FALSE /\ rows = 0 /\ saved = [p \in Players |-> StartStack]

finish == resolveAwayTurns \/ settleIfComplete

TableNext ==
  \/ \E p \in Players : PlayerAction(p) \/ GoAway(p) \/ ComeBack(p) \/ QueueAway(p)
  \/ finish

\* A request that holds the lock is never abandoned: its pauses end by themselves.
TableSpec == TableInit /\ [][TableNext]_vars2 /\ WF_vars2(finish)

-----------------------------------------------------------------------------
(* Properties.                                                             *)

TableTypeOK ==
  /\ handler \in {"idle", "resolve", "settle"}
  /\ away \subseteq Players /\ leaving \subseteq Players
  /\ settled \in BOOLEAN /\ rows \in 0 .. 1 /\ saved \in [Players -> Int]

\* Whenever no request is running, a round that is not over waits for a player who
\* is there: nobody who is away has the turn, an eat or an instant Clang to decide.
AwayNeverStalls ==
  handler = "idle" /\ phase # "complete" =>
    /\ outstandingInstantClangSeats \cap away = {}
    /\ outstandingInstantClangSeats = {} => turn \notin away

\* The database holds the stacks from before the round until it is over, and the
\* final ones, of the players who have left as well, from then on: a restart
\* between two requests drops a round as a whole or keeps it as a whole.  The round is
\* written when it completes and never again, although finish runs once more for
\* every seat that goes away before the next round.
SavedOnceAndWhole ==
  handler = "idle" =>
    /\ saved = IF phase = "complete" THEN stack ELSE [p \in Players |-> StartStack]
    /\ rows = (IF phase = "complete" THEN 1 ELSE 0)

\* A round everybody has walked away from is played out and settled.
DesertedRoundEnds == (handler = "resolve" /\ away = Players) ~> settled
=============================================================================
