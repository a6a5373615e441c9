---------------------------- MODULE CardFlipRound ---------------------------
(***************************************************************************)
(* One round of Card Flip (CardFlipEngine in packages/card-flip-engine):   *)
(* players draw in turn from three face-down piles until they beat the     *)
(* leader or run into the cap, and the last leader is paid by the others.  *)
(*                                                                         *)
(* Seats are named by their position in turnOrder.  A hand is a bag of     *)
(* ranks counted per rank; caps of at most four cards are considered, for  *)
(* which hands are scored by partialHandScore and suits play no part.  The *)
(* piles are the sizes of what lies face down, its cards the bag `rest`:   *)
(* a shuffled pile may turn up any card nobody holds yet.                  *)
(***************************************************************************)
EXTENDS Integers, FiniteSets, Functions

CONSTANTS
  NumPlayers,       \* seats dealt in
  MaxRank,          \* ranks of cards are 1 .. MaxRank
  Deck,             \* Deck[r]: cards of rank r in the shuffled deck
  CardsPerPlayer,   \* round.cardsPerPlayer, the cap on a hand
  Stake,            \* round.stake
  UnopenedBonus,    \* bonusConfig.unopenedCardBonus
  FourBonus,        \* bonusConfig.fourOfAKindBonus
  StartStack        \* what every seat sits down with

Ranks == 1 .. MaxRank
Players == 0 .. NumPlayers - 1
NoPlayer == -1
Piles == 0 .. 2
Bag == [Ranks -> Nat]
Size(h) == SumFunction(h)
NoCards == [r \in Ranks |-> 0]

ASSUME PlayersAssumption == NumPlayers \in Nat \ {0, 1}
ASSUME CardsAssumption == MaxRank \in Nat \ {0} /\ Deck \in Bag /\ CardsPerPlayer \in 1 .. 4
\* startRound combines enough decks for every hand to reach the cap.
ASSUME DeckAssumption == Size(Deck) >= CardsPerPlayer * NumPlayers
ASSUME MoneyAssumption == {Stake, UnopenedBonus, FourBonus, StartStack} \subseteq Nat

VARIABLES
  phase,            \* round.phase: "turn" or "complete"
  piles,            \* piles[i]: cards left in round.piles[i]
  rest,             \* the cards in the piles, whichever pile they are in
  hand,             \* hand[p]: the ranks p holds
  turn,             \* round.turnIndex
  leader,           \* round.leaderSeatIndex, NoPlayer for null
  stack             \* Seat.stack of every player

vars == <<phase, piles, rest, hand, turn, leader, stack>>

-----------------------------------------------------------------------------
(* Scores of hands of at most four cards.                                  *)

RanksWith(h, n) == {r \in Ranks : h[r] >= n}

Category(h) ==
  CASE RanksWith(h, 4) # {} -> 7
    [] RanksWith(h, 4) = {} /\ RanksWith(h, 3) # {} -> 3
    [] RanksWith(h, 3) = {} /\ Cardinality(RanksWith(h, 2)) >= 2 -> 2
    [] RanksWith(h, 3) = {} /\ Cardinality(RanksWith(h, 2)) = 1 -> 1
    [] OTHER -> 0

\* The ranks of a hand with their places: the most numerous first and the higher first
\* among those.
Groups(h) ==
  {[rank |-> r,
    place |-> 1 + Cardinality({q \in Ranks : h[q] > h[r] \/ (h[q] = h[r] /\ q > r)})]
     : r \in RanksWith(h, 1)}

\* A category and five ranks, 0 where the hand has no such card.
partialHandScore(h) ==
  LET groups == Groups(h)
      At(i) == {g.rank : g \in {k \in groups : k.place = i}}
  IN  [i \in 0 .. 5 |-> IF i = 0 THEN Category(h)
                       ELSE IF At(i) = {} THEN 0 ELSE CHOOSE r \in At(i) : TRUE]

Higher(s, t) ==
  \E i \in 0 .. 5 : s[i] > t[i] /\ \A j \in 0 .. i - 1 : s[j] = t[j]

beats(h, k) == Higher(partialHandScore(h), partialHandScore(k))

-----------------------------------------------------------------------------
\* p's hand beats the leader's, or there is no leader yet.
TakesLead(p, hands) == leader # NoPlayer => beats(hands[p], hand[leader])

Full(hands, p) == Size(hands[p]) >= CardsPerPlayer

\* Somebody could still take the lead.
othersStillInPlay(hands, lead) == \E p \in Players \ {lead} : ~Full(hands, p)

\* Mutant: the turn passes to the next seat, whatever it holds.
NextInOrder(hands, p) == (p + 1) % NumPlayers

\* The next player, in turn order, who still needs cards.
NextToDraw(hands, p) ==
  LET at(step) == (p + step) % NumPlayers
      step == CHOOSE s \in 1 .. NumPlayers :
                ~Full(hands, at(s)) /\ \A t \in 1 .. s - 1 : Full(hands, at(t))
  IN  at(step)

\* Everybody pays the leader the stake and the bonuses its hand earns.
settle(hands, lead) ==
  LET unopened == CardsPerPlayer - Size(hands[lead])
      four == IF Category(hands[lead]) = 7 THEN FourBonus ELSE 0
      amount == Stake + unopened * UnopenedBonus + four
  IN  /\ phase' = "complete"
      /\ stack' = [p \in Players |-> IF p = lead THEN stack[p] + amount * (NumPlayers - 1)
                                     ELSE stack[p] - amount]

\* p takes the top card of pile i, which is of rank r.
Take(p, i, r) ==
  /\ piles[i] > 0
  /\ rest[r] > 0
  /\ piles' = [piles EXCEPT ![i] = @ - 1]
  /\ rest' = [rest EXCEPT ![r] = @ - 1]
  /\ hand' = [hand EXCEPT ![p][r] = @ + 1]

\* A turn goes on until it takes the lead or reaches the cap; the round ends when
\* nobody is left who could still take the lead.
draw(p, i, r) ==
  /\ phase = "turn"
  /\ turn = p
  /\ Take(p, i, r)
  /\ LET takesLead == TakesLead(p, hand')
     IN  /\ leader' = IF takesLead THEN p ELSE leader
         /\ \/ /\ ~takesLead /\ ~Full(hand', p)
               /\ UNCHANGED <<phase, turn, stack>>
            \/ /\ takesLead \/ Full(hand', p)
               /\ ~othersStillInPlay(hand', leader')
               /\ settle(hand', leader')
               /\ UNCHANGED turn
            \/ /\ takesLead \/ Full(hand', p)
               /\ othersStillInPlay(hand', leader')
               /\ turn' = NextToDraw(hand', p)
               /\ UNCHANGED <<phase, stack>>

\* The round is over; the table starts another one from a fresh deal.
Done == phase = "complete" /\ UNCHANGED vars

\* startRoundWithDeck: the deck is dealt round-robin into the piles.
Init ==
  /\ phase = "turn" /\ turn = 0 /\ leader = NoPlayer
  /\ piles = [i \in Piles |-> (Size(Deck) + 2 - i) \div 3]
  /\ rest = Deck
  /\ hand = [p \in Players |-> NoCards]
  /\ stack = [p \in Players |-> StartStack]

Next == (\E p \in Players, i \in Piles, r \in Ranks : draw(p, i, r)) \/ Done

Spec == Init /\ [][Next]_vars

-----------------------------------------------------------------------------
(* Properties.                                                             *)

TypeOK ==
  /\ phase \in {"turn", "complete"}
  /\ piles \in [Piles -> Nat] /\ rest \in Bag /\ hand \in [Players -> Bag]
  /\ turn \in Players /\ leader \in Players \cup {NoPlayer}
  /\ stack \in [Players -> Int]

\* Beat the leader: the lead is held by a strongest hand, which no hand on the table
\* beats after any number of turns, take-overs and draws out of turn order; and the
\* turn is with a challenger who can still draw, a player under the cap, with a pile
\* to draw from however the piles were chosen before, and never the leader, since
\* everybody else is at the cap by the time the turn would come back.
LeadIsFair ==
  /\ leader # NoPlayer => \A p \in Players : ~beats(hand[p], hand[leader])
  /\ phase = "turn" => /\ turn # leader /\ ~Full(hand, turn)
                       /\ \E i \in Piles : piles[i] > 0
=============================================================================
