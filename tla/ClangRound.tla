----------------------------- MODULE ClangRound -----------------------------
(***************************************************************************)
(* One round of Clang (ClangEngine in packages/clang-engine), from the deal*)
(* to the settlement, as its operations allow it to be played.             *)
(*                                                                         *)
(* Seats are named by their position in turnOrder, the order of the deal   *)
(* and of the odd chips.  A hand, the draw pile and the discard pile are   *)
(* bags of ranks, counted per rank: suits never matter here, and drawing   *)
(* any rank left in the pile stands for every shuffle.                     *)
(***************************************************************************)
EXTENDS Integers, Functions, FiniteSets

Pots == INSTANCE PokerPots

CONSTANTS
  NumPlayers,       \* seats dealt in
  Ranks,            \* ranks of cards
  cardPointValue,   \* cardPointValue[r]: points of a card of rank r
  Deck,             \* Deck[r]: cards of rank r in the shuffled deck
  HandSize,         \* HAND_SIZE
  InstantValue,     \* INSTANT_CLANG_VALUE
  Stake,            \* round.stake
  EatPayment,       \* round.eatPaymentPerCard
  BonusPayout,      \* payout of the starting-hand bounty, 0 when there is none
  StartStack,       \* what every seat sits down with
  MaxHits           \* bound of the model: seats dealt a hand with a bounty

Players == 0 .. NumPlayers - 1
NoPlayer == -1
Phases == {"instant-window", "awaiting-eat", "turn", "awaiting-discard", "complete"}
Bag == [Ranks -> Nat]
Size(h) == SumFunction(h)
NoCards == [r \in Ranks |-> 0]

ASSUME PlayersAssumption == NumPlayers \in Nat \ {0, 1}
ASSUME CardsAssumption == /\ IsFiniteSet(Ranks) /\ cardPointValue \in Bag /\ Deck \in Bag
                          /\ HandSize \in Nat \ {0} /\ InstantValue \in Nat
ASSUME MoneyAssumption == /\ Stake \in Nat /\ EatPayment \in Nat /\ BonusPayout \in Nat
                          /\ StartStack \in Nat /\ MaxHits \in Nat
\* One or two decks always leave cards to draw after the deal.
ASSUME DeckAssumption == Size(Deck) > NumPlayers * HandSize

VARIABLES
  phase,            \* round.phase
  hand,             \* hand[p]: the ranks p holds
  pile,             \* round.drawPile
  discards,         \* round.discardPile
  turn,             \* round.turnIndex
  closed,           \* round.instantClangClosedSeats
  pendingEat,       \* round.pendingEat, NoEat for null
  emptied,          \* round.emptyHandSeatIndex
  exhausted,        \* round.deckExhausted
  stack,            \* Seat.stack of every player
  result            \* round.result, NoResult for null

vars == <<phase, hand, pile, discards, turn, closed, pendingEat, emptied, exhausted, stack, result>>

NoEat == [discarder |-> NoPlayer, eater |-> NoPlayer, rank |-> 0]
NoResult == [type |-> "none", caller |-> NoPlayer, winners |-> {}]

-----------------------------------------------------------------------------
handValue(h) == SumFunction([r \in Ranks |-> cardPointValue[r] * h[r]])
Holds(p, r) == hand[p][r] > 0
NextInOrder(p) == (p + 1) % NumPlayers

\* outstandingInstantClangSeats: seats that can still call an instant Clang.
outstandingInstantClangSeats ==
  {p \in Players : p \notin closed /\ handValue(hand[p]) = InstantValue}

\* Everybody else pays `amount` to p.
PaidByAll(st, p, amount) ==
  [q \in Players |-> IF q = p THEN st[q] + amount * (NumPlayers - 1) ELSE st[q] - amount]

-----------------------------------------------------------------------------
(* Settlement.                                                             *)

Complete(type, caller, winners) ==
  /\ phase' = "complete"
  /\ result' = [type |-> type, caller |-> caller, winners |-> winners]

settleInstantWin(p) ==
  /\ Complete("instant", p, {p})
  /\ stack' = PaidByAll(stack, p, Stake)

settleEmptyHandWin(p, st) ==
  /\ Complete("emptyHand", NoPlayer, {p})
  /\ stack' = PaidByAll(st, p, Stake)

Lowest(hands) ==
  {p \in Players : \A q \in Players : handValue(hands[p]) <= handValue(hands[q])}

\* The caller who is not among the lowest pays for the whole table.
CallerPays == Stake * (NumPlayers - 1)

settleShowdown(caller, hands, st) ==
  LET lowest == Lowest(hands)
      share(amount, p) == Pots!splitAmountEvenly(amount, lowest, [q \in Players |-> q], p)
      losers == NumPlayers - Cardinality(lowest)
  IN  CASE caller \in lowest ->
             /\ Complete("call", caller, {caller})
             /\ stack' = PaidByAll(st, caller, Stake)
        [] caller # NoPlayer /\ caller \notin lowest ->
             /\ Complete("call", caller, lowest)
             /\ stack' = [p \in Players |-> IF p = caller THEN st[p] - CallerPays
                                            ELSE st[p] + share(CallerPays, p)]
        [] caller = NoPlayer ->
             /\ Complete("forced", NoPlayer, lowest)
             /\ stack' = [p \in Players |-> IF p \in lowest THEN st[p] + losers * share(Stake, p)
                                            ELSE st[p] - Stake]

\* Mutant: an exhausted deck is looked at before an emptied hand.
ShowdownFirst(next, st) ==
  CASE exhausted -> settleShowdown(NoPlayer, hand', st) /\ turn' = turn
    [] emptied' # NoPlayer /\ ~exhausted -> settleEmptyHandWin(emptied', st) /\ turn' = turn
    [] OTHER -> phase' = "turn" /\ turn' = next /\ stack' = st /\ UNCHANGED result

\* finishDiscarderTurn, once hand' and emptied' are settled and the stacks are st:
\* the round ends with an emptied hand or an exhausted deck, else next has the turn.
finishDiscarderTurn(next, st) ==
  CASE emptied' # NoPlayer -> settleEmptyHandWin(emptied', st) /\ turn' = turn
    [] emptied' = NoPlayer /\ exhausted -> settleShowdown(NoPlayer, hand', st) /\ turn' = turn
    [] OTHER -> phase' = "turn" /\ turn' = next /\ stack' = st /\ UNCHANGED result

-----------------------------------------------------------------------------
(* The operations of ClangEngine.                                          *)

callInstantClang(p) ==
  /\ phase # "complete"
  /\ p \notin closed
  /\ handValue(hand[p]) = InstantValue
  /\ settleInstantWin(p)
  /\ UNCHANGED <<hand, pile, discards, turn, closed, pendingEat, emptied, exhausted>>

\* Mutant: an uncalled instant Clang does not hold up the turn.
TurnWithoutWaiting(p) == phase \in {"turn", "instant-window"} /\ turn = p

\* requireTurn and requireNoOutstandingInstantClang.
MayTakeTurn(p) ==
  /\ phase \in {"turn", "instant-window"}
  /\ turn = p
  /\ outstandingInstantClangSeats = {}

NoCard == CHOOSE c : c \notin Ranks
\* What drawOne may bring: nothing only when the pile has run out.
Drawable == IF pile = NoCards THEN {NoCard} ELSE {r \in Ranks : pile[r] > 0}

\* Mutant: the pile is looked at before the draw, not after it.
draw_TestsPileFirst(p) ==
  /\ MayTakeTurn(p)
  /\ closed' = closed \cup {p}
  /\ phase' = "awaiting-discard"
  /\ \E c \in Drawable :
       /\ pile' = [r \in Ranks |-> pile[r] - (IF r = c THEN 1 ELSE 0)]
       /\ hand' = [hand EXCEPT ![p] = [r \in Ranks |-> @[r] + (IF r = c THEN 1 ELSE 0)]]
  /\ exhausted' = (exhausted \/ pile = NoCards)
  /\ UNCHANGED <<discards, turn, pendingEat, emptied, stack, result>>

\* The draw that takes the last card makes this the last turn of the round.
draw(p) ==
  /\ MayTakeTurn(p)
  /\ closed' = closed \cup {p}
  /\ phase' = "awaiting-discard"
  /\ \E c \in Drawable :
       /\ pile' = [r \in Ranks |-> pile[r] - (IF r = c THEN 1 ELSE 0)]
       /\ hand' = [hand EXCEPT ![p] = [r \in Ranks |-> @[r] + (IF r = c THEN 1 ELSE 0)]]
  /\ exhausted' = (exhausted \/ pile' = NoCards)
  /\ UNCHANGED <<discards, turn, pendingEat, emptied, stack, result>>

\* p throws every card of rank r; the first hand to empty is remembered.
Throw(p, r) ==
  /\ hand' = [hand EXCEPT ![p][r] = 0]
  /\ discards' = [discards EXCEPT ![r] = @ + hand[p][r]]
  /\ emptied' = IF hand'[p] = NoCards /\ emptied = NoPlayer THEN p ELSE emptied

playRank(p, r) ==
  /\ phase = "awaiting-discard"
  /\ turn = p
  /\ Holds(p, r)
  /\ Throw(p, r)
  /\ LET eater == NextInOrder(p)
     IN  \/ /\ Holds(eater, r)
            /\ turn' = eater
            /\ phase' = "awaiting-eat"
            /\ pendingEat' = [discarder |-> p, eater |-> eater, rank |-> r]
            /\ UNCHANGED <<stack, result>>
         \/ /\ ~Holds(eater, r)
            /\ finishDiscarderTurn(eater, stack)
            /\ UNCHANGED pendingEat
  /\ UNCHANGED <<pile, closed, exhausted>>

\* The discarder pays for every card the eater throws on top of its own.
PaidForEating(p) ==
  LET amount == EatPayment * hand[p][pendingEat.rank]
  IN  [stack EXCEPT ![pendingEat.discarder] = @ - amount, ![p] = @ + amount]

MayEat(p) == phase = "awaiting-eat" /\ pendingEat.eater = p

eat(p) ==
  /\ MayEat(p)
  /\ Holds(p, pendingEat.rank)
  /\ closed' = closed \cup {p}
  /\ Throw(p, pendingEat.rank)
  /\ LET next == NextInOrder(p)
         chained == next # pendingEat.discarder /\ Holds(next, pendingEat.rank)
     IN  \/ /\ chained
            /\ turn' = next
            /\ pendingEat' = [pendingEat EXCEPT !.eater = next]
            /\ stack' = PaidForEating(p)
            /\ UNCHANGED <<phase, result>>
         \/ /\ ~chained
            /\ pendingEat' = NoEat
            /\ finishDiscarderTurn(next, PaidForEating(p))
  /\ UNCHANGED <<pile, exhausted>>

\* Mutant: an eat that is declined is offered to the next seat that holds the rank.
passEat_AsksOn(p) ==
  LET at(step) == (p + step) % NumPlayers
      step == CHOOSE k \in 1 .. NumPlayers :
                /\ Holds(at(k), pendingEat.rank)
                /\ \A j \in 1 .. k - 1 : ~Holds(at(j), pendingEat.rank)
  IN  /\ MayEat(p)
      /\ turn' = at(step) /\ pendingEat' = [pendingEat EXCEPT !.eater = at(step)]
      /\ UNCHANGED <<phase, hand, pile, discards, closed, emptied, exhausted, stack, result>>

\* Declining an eat: the decliner keeps its own turn.
passEat(p) ==
  /\ MayEat(p)
  /\ pendingEat' = NoEat
  /\ UNCHANGED <<hand, pile, discards, closed, emptied, exhausted>>
  /\ finishDiscarderTurn(turn, stack)

callClangNormal(p) ==
  /\ MayTakeTurn(p)
  /\ closed' = closed \cup {p}
  /\ settleShowdown(p, hand, stack)
  /\ UNCHANGED <<hand, pile, discards, turn, pendingEat, emptied, exhausted>>

\* The round is over; the table starts another one from a fresh deal.
Done == phase = "complete" /\ UNCHANGED vars

-----------------------------------------------------------------------------
Hands == {h \in [Ranks -> 0 .. HandSize] : Size(h) = HandSize}
InHands(hands, r) == SumFunction([p \in Players |-> hands[p][r]])

\* applyBonusHits: the seats in `hits` were dealt a hand with a bounty.
AfterBonuses(hits) ==
  [p \in Players |->
     StartStack + (IF p \in hits THEN BonusPayout * NumPlayers ELSE 0)
                - BonusPayout * Cardinality(hits)]

\* startRoundWithDeck: any deal from a shuffled deck.
Init ==
  /\ hand \in [Players -> Hands]
  /\ \A r \in Ranks : InHands(hand, r) <= Deck[r]
  /\ pile = [r \in Ranks |-> Deck[r] - InHands(hand, r)]
  /\ discards = NoCards
  /\ phase = "instant-window" /\ turn = 0 /\ closed = {}
  /\ pendingEat = NoEat /\ emptied = NoPlayer /\ exhausted = FALSE
  /\ result = NoResult
  /\ \E hits \in SUBSET Players : Cardinality(hits) <= MaxHits /\ stack = AfterBonuses(hits)

TakeTurn(p) ==
  \/ draw(p)
  \/ callClangNormal(p)
  \/ \E r \in Ranks : playRank(p, r)
  \/ eat(p)
  \/ passEat(p)

Next == (\E p \in Players : callInstantClang(p) \/ TakeTurn(p)) \/ Done

Spec == Init /\ [][Next]_vars
FairSpec == Spec /\ WF_vars(Next)

-----------------------------------------------------------------------------
(* Properties.                                                             *)

TypeOK ==
  /\ phase \in Phases
  /\ hand \in [Players -> Bag] /\ pile \in Bag /\ discards \in Bag
  /\ turn \in Players /\ closed \subseteq Players
  /\ pendingEat \in [discarder : Players, eater : Players, rank : Ranks] \cup {NoEat}
  /\ emptied \in Players \cup {NoPlayer} /\ exhausted \in BOOLEAN
  /\ stack \in [Players -> Int]

\* turnOrder[turnIndex] always is a seat with a decision worth making.  Through eat
\* chains the eater holds the rank on offer and is not eating its own discard, and
\* whoever must discard has a card to; a turn that starts finds a card to draw, and
\* nobody starts one with an empty hand about: the round ended before.
TurnIsTheDecider ==
  /\ phase = "awaiting-eat" <=> pendingEat # NoEat
  /\ pendingEat # NoEat => /\ turn = pendingEat.eater
                          /\ Holds(turn, pendingEat.rank)
                          /\ turn # pendingEat.discarder
                          /\ hand[pendingEat.discarder][pendingEat.rank] = 0
  /\ phase = "awaiting-discard" => hand[turn] # NoCards
  /\ phase \in {"turn", "instant-window"} =>
       /\ pile # NoCards /\ ~exhausted /\ emptied = NoPlayer
       /\ \A p \in Players : hand[p] # NoCards

\* Once the first turn has been taken nobody holds an uncalled 21: the block on
\* drawing settles every instant Clang before the round gets going, and no seat
\* can come by one later.
NoLateInstantClang ==
  phase \in {"turn", "awaiting-discard", "awaiting-eat"} => outstandingInstantClangSeats = {}

\* Payments are zero-sum (applyPaymentsConservatively checks it at run time), also when
\* the stake does not divide evenly, and the winners are who the rules say: a hand
\* emptied during the round wins whatever else ended it, and a showdown is won by
\* lowest hands.
SettlementIsRight ==
  /\ SumFunction(stack) = NumPlayers * StartStack
  /\ phase = "complete" =>
       /\ result.type \in {"call", "forced"} =>
            /\ \A p \in Players : hand[p] # NoCards
            /\ result.winners \subseteq Lowest(hand)
            /\ result.winners # {}
       /\ result.type = "emptyHand" => \A p \in result.winners : hand[p] = NoCards
       /\ result.type = "instant" => \A p \in Players : hand[p] # NoCards /\ pile # NoCards

\* A round that keeps being played ends: the deck is finite and nothing refills it.
RoundEnds == <>(phase = "complete")
=============================================================================
