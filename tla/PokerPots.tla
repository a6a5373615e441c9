------------------------------ MODULE PokerPots ------------------------------
(***************************************************************************)
(* Settlement of a poker hand (settleShowdown in shared/pots.ts) as pure   *)
(* operators: the side pots of the contributions, and what each pot pays   *)
(* to whom under the four ways a game definition can score a showdown.     *)
(*                                                                         *)
(* Cards are abstracted to what the settlement tells apart, the order of   *)
(* the hands: a showdown is a record                                       *)
(*   board[b][s]  strength of s's best hand on board b (higher is better)  *)
(*   own[s]       strength of the hand s makes from hole cards alone       *)
(*   low[s]       strength of s's low hand, 0 if it has no qualifying low  *)
(* `rank[s]` is the place of s in seatOrder, the order odd chips go in.    *)
(***************************************************************************)
EXTENDS Integers, FiniteSetsExt

\* One pot per distinct contribution, as [level, amount, eligible].
Levels(contributed, players) == {contributed[s] : s \in players} \ {0}

\* Mutant: a short stack is eligible for the pots above what it put in.
PotForEverybody(level, contributed, players, folded) ==
  LET contributing == {s \in players : contributed[s] >= level}
      below == {m \in Levels(contributed, players) : m < level} \cup {0}
  IN  [level |-> level,
       amount |-> (level - Max(below)) * Cardinality(contributing),
       eligible |-> players \ folded]

PotAt(level, contributed, players, folded) ==
  LET contributing == {s \in players : contributed[s] >= level}
      below == {m \in Levels(contributed, players) : m < level} \cup {0}
  IN  [level |-> level,
       amount |-> (level - Max(below)) * Cardinality(contributing),
       eligible |-> contributing \ folded]

Pots(contributed, players, folded) ==
  {PotAt(level, contributed, players, folded) : level \in Levels(contributed, players)}

\* The share of s when `amount` is split among `winners`: the odd chips go one
\* each to the first winners in seat order.
splitAmountEvenly(amount, winners, rank, s) ==
  LET n == Cardinality(winners)
      earlier == {w \in winners : rank[w] < rank[s]}
  IN  IF s \notin winners THEN 0
      ELSE amount \div n + IF Cardinality(earlier) < amount % n THEN 1 ELSE 0

\* The seats of `eligible` with the best strength.
Best(strength, eligible) ==
  {s \in eligible : \A t \in eligible : strength[t] <= strength[s]}

-----------------------------------------------------------------------------
\* Mutant: the boards get equal shares and the odd chips go nowhere.
BoardShareEven(amount, boards, b) == amount \div boards

\* Each board's share goes to that board's best hand; board 1 takes the odd chips.
BoardShare(amount, boards, b) ==
  IF b = 1 THEN amount - (amount \div boards) * (boards - 1) ELSE amount \div boards

BestHandShare(pot, showdown, rank, s) ==
  LET boards == Cardinality(DOMAIN showdown.board)
  IN  MapThenSumSet(LAMBDA b : splitAmountEvenly(BoardShare(pot.amount, boards, b),
                                                 Best(showdown.board[b], pot.eligible), rank, s),
                    DOMAIN showdown.board)

\* hi-lo-8-or-better: half to the best hand on the first board, half to the best
\* qualifying low, if there is one; the odd chip goes to the high half.
HiLoShare(pot, showdown, rank, s) ==
  LET high == Best(showdown.board[1], pot.eligible)
      lows == {t \in pot.eligible : showdown.low[t] > 0}
      half == pot.amount \div 2
  IN  IF lows = {} THEN splitAmountEvenly(pot.amount, high, rank, s)
      ELSE splitAmountEvenly(pot.amount - half, high, rank, s)
             + splitAmountEvenly(half, Best(showdown.low, lows), rank, s)

POINT_SCALE == 2520

\* point-race: a point per board, and one for the hole cards alone, each split
\* among that category's best hands; the most points take the whole pot.
Points(pot, showdown, ownCategory, s) ==
  LET point(strength) ==
        LET winners == Best(strength, pot.eligible)
        IN  IF s \in winners THEN POINT_SCALE \div Cardinality(winners) ELSE 0
  IN  MapThenSumSet(LAMBDA b : point(showdown.board[b]), DOMAIN showdown.board)
        + IF ownCategory THEN point(showdown.own) ELSE 0

PointRaceShare(pot, showdown, ownCategory, rank, s) ==
  LET points == [t \in pot.eligible |-> Points(pot, showdown, ownCategory, t)]
  IN  splitAmountEvenly(pot.amount, Best(points, pot.eligible), rank, s)

\* What pot pays to s.  A pot nobody is eligible for is skipped, a pot with one
\* eligible seat goes to it whatever the game.
PotShare(pot, showdown, scoring, rank, s) ==
  CASE s \notin pot.eligible -> 0
    [] pot.eligible = {s} -> pot.amount
    [] OTHER -> CASE scoring = "hi-lo" -> HiLoShare(pot, showdown, rank, s)
                  [] scoring = "point-race" -> PointRaceShare(pot, showdown, FALSE, rank, s)
                  [] scoring = "point-race-own" -> PointRaceShare(pot, showdown, TRUE, rank, s)
                  [] scoring = "best-hand" -> BestHandShare(pot, showdown, rank, s)

Winnings(pots, showdown, scoring, rank, s) ==
  MapThenSumSet(LAMBDA pot : PotShare(pot, showdown, scoring, rank, s), pots)

\* The seats hiWinners names: a winner is listed even when its share rounds to 0.
HighWinners(pot, showdown, scoring) ==
  CASE pot.eligible = {} -> {}
    [] Cardinality(pot.eligible) = 1 -> pot.eligible
    [] OTHER -> CASE scoring = "hi-lo" -> Best(showdown.board[1], pot.eligible)
                  [] scoring = "best-hand" ->
                       UNION {Best(showdown.board[b], pot.eligible) : b \in DOMAIN showdown.board}
                  [] OTHER -> LET own == scoring = "point-race-own"
                                  points == [t \in pot.eligible |-> Points(pot, showdown, own, t)]
                              IN  Best(points, pot.eligible)
=============================================================================
