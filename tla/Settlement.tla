------------------------------ MODULE Settlement -----------------------------
(***************************************************************************)
(* Settles every hand of a bounded set: contributions, folds and showdowns *)
(* are chosen in SettlementInit, one step pays the pots out, and the       *)
(* properties compare the payout with what it should be, stated without    *)
(* side pots.                                                              *)
(***************************************************************************)
EXTENDS PokerPots

CONSTANTS
  PotSeats,         \* the seats dealt in, in the order odd chips go
  Contributions,    \* what a seat may have contributed
  PotBoards,        \* boards of a game that is not high-low
  HandStrengths,    \* how strong a hand can be, where its board alone decides
  RaceStrengths     \* the same for hands in a point race, and for low hands

ASSUME SettlementAssumption ==
  /\ IsFiniteSet(PotSeats) /\ PotSeats \subseteq Nat /\ Contributions \subseteq Nat
  /\ PotBoards \in Nat \ {0}
  /\ HandStrengths \subseteq Nat \ {0} /\ RaceStrengths \subseteq Nat \ {0}

VARIABLES contribution, foldedSeats, scoring, hands, payout

settleVars == <<contribution, foldedSeats, scoring, hands, payout>>

Standing == PotSeats \ foldedSeats
PotRank == [s \in PotSeats |-> s]
AllPots == Pots(contribution, PotSeats, foldedSeats)

\* Some boards; or one board and a low, 0 for a hand that has none; or some boards and
\* the hole cards alone.
ShowdownsOf(mode, live) ==
  LET none == {[s \in live |-> 0]}
      boards(n, strengths) == [1 .. n -> [live -> strengths]]
  IN  CASE mode = "best-hand" ->
             [board : boards(PotBoards, HandStrengths), own : none, low : none]
        [] mode = "hi-lo" ->
             [board : boards(1, HandStrengths), own : none, low : [live -> {0} \cup RaceStrengths]]
        [] mode = "point-race" ->
             [board : boards(PotBoards, RaceStrengths), own : none, low : none]
        [] mode = "point-race-own" ->
             [board : boards(PotBoards, RaceStrengths), own : [live -> RaceStrengths], low : none]

\* Nothing to settle.
NoSettlement ==
  /\ contribution = [s \in PotSeats |-> 0] /\ foldedSeats = {} /\ scoring = "none"
  /\ hands = <<>> /\ payout = <<>>

SettlementInit ==
  /\ contribution \in [PotSeats -> Contributions]
  /\ foldedSeats \in SUBSET PotSeats /\ foldedSeats # PotSeats
  /\ scoring \in {"best-hand", "hi-lo", "point-race", "point-race-own"}
  /\ hands \in ShowdownsOf(scoring, Standing)
  /\ payout = <<>>

Settle ==
  /\ scoring # "none" /\ payout = <<>>
  /\ payout' = [s \in PotSeats |-> Winnings(AllPots, hands, scoring, PotRank, s)]
  /\ UNCHANGED <<contribution, foldedSeats, scoring, hands>>

SettlementSpec == SettlementInit /\ [][Settle]_settleVars

-----------------------------------------------------------------------------
PaidOut == payout # <<>>
SumOf(f) == MapThenSumSet(LAMBDA s : f[s], PotSeats)

\* Every pot with an eligible seat is paid out in full, to the chip.
PotsPaidExactly ==
  PaidOut => SumOf(payout) =
    MapThenSumSet(LAMBDA pot : pot.amount, {pot \in AllPots : pot.eligible # {}})

\* The categories hands are compared in, as strengths.
Categories ==
  {hands.board[b] : b \in DOMAIN hands.board}
    \cup (IF scoring = "point-race-own" THEN {hands.own} ELSE {})
    \cup (IF scoring = "hi-lo" THEN {hands.low} ELSE {})

\* What s can win of the chips of q: no more than s put in itself.
Covered(q, s) == IF contribution[q] <= contribution[s] THEN contribution[q] ELSE contribution[s]

\* What better hands leave of that, where `strength` compares the hands.
LeftBy(strength, q, s) ==
  Covered(q, s) - Max({0} \cup {Covered(q, t) : t \in {u \in Standing : strength[u] > strength[s]}})

\* When the live hands are strictly ordered, the same way in every category, each seat
\* collects from each player exactly what better hands left uncovered: the best one
\* everybody's chips up to its own contribution.
BestHandsCollectFirst ==
  PaidOut /\ (\A c, d \in Categories : c = d) =>
    \A strength \in Categories :
      (\A s, t \in Standing : strength[s] = strength[t] => s = t) =>
        \A s \in Standing :
          payout[s] = MapThenSumSet(LAMBDA q : Max({0, LeftBy(strength, q, s)}), PotSeats)

\* A showdown pays what the rules say: all chips of a pot that somebody can win, however
\* it is split between boards, high and low or tied hands (splitAmountEvenly), and to the
\* best hands first, from each player no more than they have put in themselves.
PaidByTheRules == PotsPaidExactly /\ BestHandsCollectFirst
=============================================================================
