------------------------------ MODULE PokerHand ------------------------------
(***************************************************************************)
(* A whole poker hand: the chips of PokerBetting together with the deck    *)
(* (packages/cards/src/deck.ts as DeclarativeEngine uses it) and the       *)
(* showdown of PokerPots.  Cards are counted, not named: `deck` is         *)
(* Deck.remaining and `hole` the number of hole cards of each seat.        *)
(***************************************************************************)
EXTENDS PokerBetting, PokerPots

CONSTANTS
  DeckSize,      \* cards in a fresh deck
  Boards,        \* gameDefinition.boards
  HoleCards,     \* dealHoleCards of the first street; no registered game deals more later
  Community,     \* Community[k]: dealCommunityCards of street k
  Redraw,        \* Redraw[k]: redrawHoleCardsTo of street k, 0 when it has none
  Reshuffle,     \* reshuffleFoldedCardsIntoDeck
  Scoring,       \* "best-hand", "hi-lo", "point-race" or "point-race-own"
  Bounty         \* bounty.payoutPerOpponent, 0 when the game has no bounty

VARIABLES
  deck,          \* cards left in the deck
  hole,          \* hole cards in front of each seat
  result         \* HandState.results: chips won from pots and from the bounty

cardVars == <<deck, hole>>
vars == <<bettingVars, cardVars, result>>

\* Every street's board cards, and the card burned before them, leave the deck
\* at the start of the hand (reservedCommunityDeals).
Reserved ==
  MapThenSumSet(LAMBDA k : IF Community[k] > 0 THEN 1 + Boards * Community[k] ELSE 0,
                DOMAIN Community)

ASSUME CardsAssumption ==
  /\ DeckSize \in Nat /\ Boards \in Nat \ {0} /\ HoleCards \in Nat /\ Bounty \in Nat
  /\ Community \in [DOMAIN StreetBets -> Nat] /\ Redraw \in [DOMAIN StreetBets -> Nat]
  /\ Reshuffle \in BOOLEAN /\ Scoring \in {"best-hand", "hi-lo", "point-race", "point-race-own"}
  /\ Reserved <= DeckSize

NoResult == [pots |-> [s \in Seats |-> 0], bounty |-> [s \in Seats |-> 0]]
TotalOver(f, S) == MapThenSumSet(LAMBDA s : f[s], S)

-----------------------------------------------------------------------------
\* Mutant: when the deck runs short, everybody still draws what it is owed as far
\* as the deck goes, in seat order.
DrawnInOrder(target, live, h, d) ==
  LET owed == [s \in live |-> Most(0, target - h[s])]
      before(s) == TotalOver(owed, {t \in live : t < s})
  IN  [s \in live |-> Least(owed[s], Most(0, d - before(s)))]

\* performRedraw: every unfolded seat is topped up to the target, or, when the
\* deck cannot cover that, all of them draw the same smaller number of cards.
DrawnInRedraw(target, live, h, d) ==
  LET owed == [s \in live |-> Most(0, target - h[s])]
  IN  IF d >= TotalOver(owed, live) THEN owed
      ELSE [s \in live |-> d \div Cardinality(live)]

\* The cards of dealAndMaybeStartRound, from the hole cards h and the deck d
\* at the moment the betting action is done.
DealStreetCards(h, d) ==
  LET k == street'
      live == dealt \ folded'
      drawn == DrawnInRedraw(Redraw[k], live, h, d)
  IN  IF k # street /\ k <= Len(StreetBets)
        THEN /\ hole' = [s \in Seats |-> IF s \in live THEN h[s] + drawn[s] ELSE h[s]]
             /\ deck' = d - TotalOver(drawn, live)
        ELSE hole' = h /\ deck' = d

HandInit ==
  /\ Init
  /\ deck = DeckSize
  /\ hole = [s \in Seats |-> 0]
  /\ result = NoResult

DealFits == Cardinality(activeSeats) * HoleCards <= DeckSize - Reserved

StartHand ==
  /\ DealFits
  /\ InitHand
  /\ hole' = [s \in Seats |-> IF s \in dealt' THEN HoleCards ELSE 0]
  /\ deck' = DeckSize - Reserved - Cardinality(dealt') * HoleCards
  /\ UNCHANGED result

\* The deck runs out while hole cards are dealt: initHand throws, and the button
\* it moved and the bets it had already posted stay in the table.
StartHandThrows ==
  LET btn == nextButtonSeatIndex
      sb == SmallBlindSeat(activeSeats, btn)
      bb == FirstAfter(sb, activeSeats)
  IN  /\ phase = "none" /\ ~AtMostOne(activeSeats)
      /\ ~DealFits
      /\ button' = btn
      /\ stack' = [s \in Seats |-> stack[s] - Posted(s, activeSeats, sb, bb)]
      /\ UNCHANGED <<active, handVars, startStack, cardVars, result>>

\* A folded hand goes back into the deck before the next street is dealt.
FoldHand(s) ==
  /\ Fold(s)
  /\ IF Reshuffle THEN DealStreetCards([hole EXCEPT ![s] = 0], deck + hole[s])
                  ELSE DealStreetCards(hole, deck)
  /\ UNCHANGED result

OtherAction(s) ==
  /\ \/ Check(s)
     \/ Call(s)
     \/ \E to \in 1 .. committed[s] + stack[s] : Raise(s, to)
  /\ DealStreetCards(hole, deck)
  /\ UNCHANGED result

DealNextStreet ==
  /\ ContinueDealing
  /\ DealStreetCards(hole, deck)
  /\ UNCHANGED result

-----------------------------------------------------------------------------
(* evaluateShowdown.                                                       *)

SeatRank == [s \in Seats |-> Clockwise(button, s)]
HandPots == Pots(contributed, dealt, folded)

\* All the ways the unfolded hands can compare.
Showdowns ==
  LET strengths == [activeHandPlayers -> 1 .. Cardinality(activeHandPlayers)]
      idle == {[s \in activeHandPlayers |-> 0]}
  IN  [board : [1 .. Boards -> strengths],
       own : IF Scoring = "point-race-own" THEN strengths ELSE idle,
       low : IF Scoring = "hi-lo" THEN [activeHandPlayers -> 0 .. 2] ELSE idle]

\* settleBounty: the lowest-numbered winner among the seats holding the bounty
\* combo collects from every other dealt seat what its stack can pay.
BountyMoves(winners, holders, st) ==
  IF winners \cap holders = {} THEN [s \in Seats |-> 0]
  ELSE LET winner == Min(winners \cap holders)
           pays == [s \in dealt \ {winner} |-> Least(Bounty, st[s])]
       IN  [s \in Seats |-> IF s = winner THEN TotalOver(pays, dealt \ {winner})
                            ELSE IF s \in dealt THEN -pays[s] ELSE 0]

EvaluateShowdown ==
  /\ phase = "showdown"
  /\ \E showdown \in Showdowns, holders \in (IF Bounty > 0 THEN SUBSET dealt ELSE {{}}) :
       LET won == [s \in Seats |-> Winnings(HandPots, showdown, Scoring, SeatRank, s)]
           winners == UNION {HighWinners(pot, showdown, Scoring) : pot \in HandPots}
           moves == BountyMoves(winners, holders, [s \in Seats |-> stack[s] + won[s]])
       IN  /\ stack' = [s \in Seats |-> stack[s] + won[s] + moves[s]]
           /\ result' = [pots |-> won, bounty |-> moves]
  /\ phase' = "complete"
  /\ UNCHANGED <<active, button, street, dealt, folded, allIn, committed, contributed, acted,
                 roundVars, startStack, cardVars>>

\* The hand is over, or the table has not two players to start one.
HandRest == /\ phase = "complete" \/ (phase = "none" /\ AtMostOne(activeSeats))
            /\ UNCHANGED vars

HandNext ==
  \/ StartHand
  \/ StartHandThrows
  \/ \E s \in Seats : FoldHand(s) \/ OtherAction(s)
  \/ DealNextStreet
  \/ EvaluateShowdown
  \/ HandRest

HandSpec == HandInit /\ [][HandNext]_vars

-----------------------------------------------------------------------------
(* Properties.                                                             *)

\* Types of the cards and of the result; the deck never runs below zero.
HandTypeOK ==
  /\ deck \in Nat /\ hole \in [Seats -> Nat]
  /\ result.pots \in [Seats -> Nat] /\ result.bounty \in [Seats -> Int]

CardsAccounted == deck + TotalOver(hole, Seats) + Reserved = DeckSize

HoleCardsEven ==
  \A s, t \in activeHandPlayers :
    /\ hole[s] = hole[t]
    /\ hole[s] <= Max({HoleCards} \cup {Redraw[k] : k \in DOMAIN Redraw})

\* Dealing is fair and loses no card.  Deck, hole cards and reserved boards add up to
\* the deck the hand was dealt from, through folds that return cards and redraws that
\* run short; and unfolded players always hold equally many cards, never more than the
\* street's target (performRedraw's short branch deals the same number to everybody
\* without looking at what each is owed).
DealIsFair == phase # "none" => CardsAccounted /\ HoleCardsEven

\* What s can win at most: from every player no more than s put in itself.
Cover(s) == TotalOver([q \in dealt |-> Least(contributed[q], contributed[s])], dealt)

SidePotsAreFair ==
  \A s \in dealt :
    /\ result.pots[s] <= (IF s \in folded THEN 0 ELSE Cover(s))
    /\ activeHandPlayers = {s} => result.pots[s] = Cover(s)
    /\ s \notin folded =>
         result.pots[s] >= contributed[s] - Max({contributed[q] : q \in dealt \ {s}})

ChipsAccounted ==
  TotalOver(stack, Seats)
    + MapThenSumSet(LAMBDA pot : pot.amount, {pot \in HandPots : pot.eligible = {}})
  = TotalOver(startStack, Seats)

\* The payout is right whatever was bet.  It creates no chips and loses none except
\* those of the pots that every contributor folded away from, the bounty only moving
\* chips; nobody wins more from a player than it put in itself and a folded player
\* wins nothing; the last player standing wins all it can; and what the others did
\* not match comes back to an unfolded player.
PayoutIsFair == phase = "complete" => ChipsAccounted /\ SidePotsAreFair

\* A finished hand has paid out every chip that was put in.
NoChipsVanish ==
  phase = "complete" => TotalOver(stack, Seats) = TotalOver(startStack, Seats)
=============================================================================
