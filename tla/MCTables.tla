------------------------------ MODULE MCTables ------------------------------
(***************************************************************************)
(* The server around a hand of poker or, apart from that, around a round   *)
(* of Clang: two players, with a deck of seven cards.  The game that is    *)
(* not played stays as it is at the start.                                 *)
(***************************************************************************)
EXTENDS MCPokerTable

VARIABLES part,      \* "poker" or "clang"
  \* The round of Clang: the variables of ClangTable, named apart from those of poker.
  roundPhase, hand, pile, discards, roundTurn, closed, pendingEat, emptied, exhausted,
  roundStack, result, roundHandler, away, roundLeaving, settled, rows, saved

Clang == INSTANCE ClangTable WITH
  NumPlayers <- 2, Ranks <- {1, 2, 3},
  cardPointValue <- [r \in {1, 2, 3} |-> IF r = 3 THEN 4 ELSE r],
  Deck <- [r \in {1, 2, 3} |-> IF r = 1 THEN 3 ELSE 2],
  HandSize <- 2, InstantValue <- 5, Stake <- 3, EatPayment <- 1, BonusPayout <- 0,
  StartStack <- 4, MaxHits <- 0,
  phase <- roundPhase, turn <- roundTurn, stack <- roundStack,
  handler <- roundHandler, leaving <- roundLeaving

clangVars == <<roundPhase, hand, pile, discards, roundTurn, closed, pendingEat, emptied, exhausted,
               roundStack, result, roundHandler, away, roundLeaving, settled, rows, saved>>
tablesVars == <<vars, clangVars, part>>

TablesInit ==
  /\ TableInit /\ Clang!TableInit
  /\ part \in {"poker", "clang"}
  \* The one that waits has no choice of its own.
  /\ part = "poker" => hand[0] = hand[1] /\ hand[0][3] = 0 /\ hand[0][1] = 1
  /\ part = "clang" => button = NoSeat /\ \A s \in Seats : stack[s] = 2

TablesNext ==
  /\ UNCHANGED part
  /\ \/ part = "poker" /\ TableNext /\ UNCHANGED clangVars
     \/ part = "clang" /\ Clang!TableNext /\ UNCHANGED vars

\* A request that holds the lock is never abandoned.
TablesSpec ==
  /\ TablesInit /\ [][TablesNext]_tablesVars
  /\ WF_tablesVars(part = "poker" /\ advanceHand /\ UNCHANGED <<clangVars, part>>)
  /\ WF_tablesVars(part = "clang" /\ Clang!finish /\ UNCHANGED <<vars, part>>)

-----------------------------------------------------------------------------
(* The properties of ClangTable.                                           *)

\* Whenever no request is running, a round of Clang that is not over waits for a player
\* who is there (advanceAwaySeats, resolveAwayTurns).
ClangNeverStalls == Clang!AwayNeverStalls

\* A round of Clang is written once, with every stack, when it is over and not before
\* (settleIfComplete).
ClangSavedOnceAndWhole == Clang!SavedOnceAndWhole

\* A round of Clang everybody has walked away from is played out and settled.
ClangDesertedRoundEnds == Clang!DesertedRoundEnds
=============================================================================
