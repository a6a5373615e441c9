------------------------------ MODULE HandRank ------------------------------
(***************************************************************************)
(* Which of two poker hands is better: handEvaluator in packages/cards.    *)
(* A hand of five cards has a score, a category and up to five ranks; a    *)
(* player plays the best score among the five-card hands it may make, from *)
(* all its cards or from exactly some of its own, and in a high-low game   *)
(* the best low hand that qualifies, if there is one.                      *)
(*                                                                         *)
(* The module deals one showdown between two players; the property         *)
(* compares what the evaluator says of it with the rules of the game.      *)
(***************************************************************************)
EXTENDS Integers, Sequences, FiniteSetsExt

CONSTANTS
  CardSet,      \* the cards in play
  rankOf,       \* rankOf[c] \in 2 .. 14
  suitOf,
  BoardSize,    \* cards on the board; the others are shared out between two players
  HoleCardsUsed,\* exactHoleCardsUsed
  Qualifier     \* the highest rank of a low hand that qualifies

\* A deck of four suits, every card once, and cards enough for everybody: the evaluator
\* throws otherwise.
ASSUME HandRankAssumption ==
  /\ IsFiniteSet(CardSet)
  /\ \A c \in CardSet : rankOf[c] \in 2 .. 14 /\ suitOf[c] \in 1 .. 4
  /\ \A c, d \in CardSet : rankOf[c] = rankOf[d] /\ suitOf[c] = suitOf[d] => c = d
  /\ HoleCardsUsed \in 0 .. 5 /\ BoardSize \in Nat /\ BoardSize >= 5 - HoleCardsUsed
  /\ (Cardinality(CardSet) - BoardSize) \div 2 >= HoleCardsUsed
  /\ Qualifier \in Nat

Modes == {"high", "low-ace-to-five", "low-deuce-to-seven"}

VARIABLE deal   \* [mode, exact, board, mine, yours]

NoDeal == <<>>

Over(s, t) == \E i \in DOMAIN s : s[i] > t[i] /\ \A j \in 1 .. i - 1 : s[j] = t[j]

-----------------------------------------------------------------------------
\* Mutant: the wheel is a straight for every kind of hand.
modeConfig_WheelForAll(mode) ==
  [aceLow |-> mode = "low-ace-to-five", straights |-> mode # "low-ace-to-five",
   wheel |-> TRUE, pickMax |-> mode = "high"]

modeConfig(mode) ==
  [aceLow |-> mode = "low-ace-to-five", straights |-> mode # "low-ace-to-five",
   wheel |-> mode = "high", pickMax |-> mode = "high"]

value(c, mode) == IF modeConfig(mode).aceLow /\ rankOf[c] = 14 THEN 1 ELSE rankOf[c]
RanksIn(h, mode) == {value(c, mode) : c \in h}
Copies(h, r, mode) == Cardinality({c \in h : value(c, mode) = r})

\* The ranks of a hand, the most numerous first and the higher first among those.
Before(h, a, b, mode) ==
  \/ Copies(h, a, mode) > Copies(h, b, mode)
  \/ Copies(h, a, mode) = Copies(h, b, mode) /\ a > b

groupByRank(h, mode) ==
  LET ranks == RanksIn(h, mode)
  IN  [i \in 1 .. Cardinality(ranks) |->
         CHOOSE r \in ranks : Cardinality({q \in ranks : Before(h, q, r, mode)}) = i - 1]

isFlush(h, mode) == modeConfig(mode).straights /\ Cardinality({suitOf[c] : c \in h}) = 1

\* The rank a straight counts up to, 0 when the hand is none.
straightHigh(h, mode) ==
  LET ranks == RanksIn(h, mode)
  IN  IF ~modeConfig(mode).straights \/ Cardinality(ranks) < 5 THEN 0
      ELSE IF Max(ranks) - Min(ranks) = 4 THEN Max(ranks)
      ELSE IF modeConfig(mode).wheel /\ ranks = {14, 5, 4, 3, 2} THEN 5
      ELSE 0

\* A category and five ranks, 0 where there are fewer.
scoreFiveCards(h, mode) ==
  LET groups == groupByRank(h, mode)
      top == Copies(h, groups[1], mode)
      second == Copies(h, groups[2], mode)
      straight == straightHigh(h, mode)
      category == CASE straight > 0 /\ isFlush(h, mode) -> 8
                    [] top = 4 -> 7
                    [] top = 3 /\ second = 2 -> 6
                    [] isFlush(h, mode) /\ straight = 0 -> 5
                    [] straight > 0 /\ ~isFlush(h, mode) -> 4
                    [] top = 3 /\ second = 1 -> 3
                    [] top = 2 -> second
                    [] OTHER -> 0
      kickers == IF straight > 0 THEN <<straight>> ELSE groups
  IN  [i \in 1 .. 6 |-> IF i = 1 THEN category
                         ELSE IF i - 1 <= Len(kickers) THEN kickers[i - 1] ELSE 0]

Hands == kSubset(5, CardSet)

\* f itself; TLC works a function out once, instead of at every use, to compare it.
Tabulated(f) == CHOOSE g \in {f} : g = f

\* Every score the cards in play can make.
Scores == Tabulated([mode \in Modes |-> [h \in Hands |-> scoreFiveCards(h, mode)]])

pickBest(hands, mode) ==
  LET scores == {Scores[mode][h] : h \in hands}
  IN  CHOOSE s \in scores :
        \A t \in scores : IF modeConfig(mode).pickMax THEN ~Over(t, s) ELSE ~Over(s, t)

bestCombination(cards) == kSubset(5, cards)
exactCombinations(hole, board) ==
  {h \cup b : h \in kSubset(HoleCardsUsed, hole), b \in kSubset(5 - HoleCardsUsed, board)}

evaluateBestHand(cards, mode) == pickBest(bestCombination(cards), mode)
evaluateBestHandExact(hole, board, mode) == pickBest(exactCombinations(hole, board), mode)

compareEvaluatedHands(s, t, mode) ==
  LET raw == IF s = t THEN 0 ELSE IF Over(s, t) THEN 1 ELSE -1
  IN  IF mode = "high" THEN raw ELSE 0 - raw

NoLow == <<>>

\* No pair or better, and no rank above the qualifier.
qualifies(s) == s[1] = 0 /\ \A i \in 2 .. 6 : s[i] <= Qualifier

evaluateQualifyingLow(cards) ==
  LET best == evaluateBestHand(cards, "low-ace-to-five")
  IN  IF qualifies(best) THEN best ELSE NoLow

evaluateQualifyingLowExact(hole, board) ==
  LET hands == {h \in exactCombinations(hole, board) : qualifies(Scores["low-ace-to-five"][h])}
  IN  IF hands = {} THEN NoLow ELSE pickBest(hands, "low-ace-to-five")

-----------------------------------------------------------------------------
evaluated(hole) ==
  IF deal.exact THEN evaluateBestHandExact(hole, deal.board, deal.mode)
  ELSE evaluateBestHand(hole \cup deal.board, deal.mode)

evaluatedLow(hole) ==
  IF deal.exact THEN evaluateQualifyingLowExact(hole, deal.board)
  ELSE evaluateQualifyingLow(hole \cup deal.board)

\* The board and the rules are chosen, then the players get their cards.
DealInit ==
  \E mode \in Modes, exact \in BOOLEAN, board \in kSubset(BoardSize, CardSet) :
    deal = [mode |-> mode, exact |-> exact, board |-> board, mine |-> {}, yours |-> {}]

Dealt == deal # NoDeal /\ deal.mine # {}

DealHands ==
  /\ deal # NoDeal /\ ~Dealt
  /\ LET others == CardSet \ deal.board
     IN  \E mine \in kSubset(Cardinality(others) \div 2, others) :
           deal' = [deal EXCEPT !.mine = mine, !.yours = others \ mine]

HandSpec == DealInit /\ [][DealHands]_deal

-----------------------------------------------------------------------------
(* The rules, without scores.                                              *)

\* The ranks of which h has exactly n cards.
Sets(h, n, mode) == {r \in RanksIn(h, mode) : Copies(h, r, mode) = n}

Run(h) == \E top \in 6 .. 14 : RanksIn(h, "high") = (top - 4) .. top
Wheel(h) == RanksIn(h, "high") = {14, 2, 3, 4, 5}
Suited(h) == \E s \in {suitOf[c] : c \in CardSet} : \A c \in h : suitOf[c] = s

Straight(h, mode) == mode # "low-ace-to-five" /\ (Run(h) \/ (mode = "high" /\ Wheel(h)))
Flush(h, mode) == mode # "low-ace-to-five" /\ Suited(h)

\* The kind of a hand, from the highest of poker, 1, to a hand of single cards, 9.
Kind(h, mode) ==
  LET kinds == << Straight(h, mode) /\ Flush(h, mode),
                  Sets(h, 4, mode) # {},
                  Sets(h, 3, mode) # {} /\ Sets(h, 2, mode) # {},
                  Flush(h, mode),
                  Straight(h, mode),
                  Sets(h, 3, mode) # {},
                  Cardinality(Sets(h, 2, mode)) = 2,
                  Sets(h, 2, mode) # {},
                  TRUE >>
  IN  Min({i \in 1 .. 9 : kinds[i]})

\* The set of ranks S is the higher: it has the highest rank the two do not share.
HigherRanks(S, T) == LET d == (S \ T) \cup (T \ S) IN d # {} /\ Max(d) \in S

\* What the rules look at: the kind, the rank a straight goes up to, the ranks there
\* are four, three, two and one of.
MeritsOf(h, mode) ==
  [kind |-> Kind(h, mode), sets |-> [n \in 1 .. 4 |-> Sets(h, n, mode)],
   top |-> IF Straight(h, mode) /\ Wheel(h) THEN {5} ELSE RanksIn(h, mode)]
Merits == Tabulated([mode \in Modes |-> [h \in Hands |-> MeritsOf(h, mode)]])

\* A hand is higher than another when it is of a higher kind, or of the same kind with
\* the higher straight, or with the higher fours, threes, pairs or single cards.
Higher(m, n) ==
  IF m.kind # n.kind THEN m.kind < n.kind
  ELSE IF m.kind \in {1, 5} THEN HigherRanks(m.top, n.top)
  ELSE \E i \in 1 .. 4 : /\ HigherRanks(m.sets[i], n.sets[i])
                         /\ \A j \in i + 1 .. 4 : m.sets[j] = n.sets[j]

\* How many hands of the cards in play a hand is higher than.
Place == Tabulated([mode \in Modes |-> [h \in Hands |->
  Cardinality({k \in Hands : Higher(Merits[mode][h], Merits[mode][k])})]])

\* The five cards a player may make up its hand from.
Playable(hole) ==
  {h \in kSubset(5, hole \cup deal.board) : deal.exact => Cardinality(h \cap hole) = HoleCardsUsed}

\* A better hand wins and an equal one ties, under all three rankings and whether all
\* cards may be used or exactly some of one's own: the scores, compared number by
\* number, order the hands as the rules do.  A low hand is found exactly when five
\* different ranks up to the qualifier can be played, and it is the lowest of them.
BetterHandWins ==
  LET places(hole) == {Place[deal.mode][h] : h \in Playable(hole)}
      best(hole) == IF deal.mode = "high" THEN Max(places(hole)) ELSE 0 - Min(places(hole))
      verdict == compareEvaluatedHands(evaluated(deal.mine), evaluated(deal.yours), deal.mode)
      lows(hole) == {h \in Playable(hole) :
                       \A n \in 2 .. 4 : Sets(h, n, "low-ace-to-five") = {}
                                         /\ \A r \in RanksIn(h, "low-ace-to-five") : r <= Qualifier}
  IN  Dealt =>
        /\ verdict > 0 <=> best(deal.mine) > best(deal.yours)
        /\ verdict = 0 <=> best(deal.mine) = best(deal.yours)
        /\ deal.mode = "low-ace-to-five" =>
             evaluatedLow(deal.mine) = IF lows(deal.mine) = {} THEN NoLow ELSE evaluated(deal.mine)
=============================================================================
