---------------------------- MODULE PokerBetting ----------------------------
(***************************************************************************)
(* One poker hand of packages/game-engine, seen from its chips: the forced *)
(* bets, the betting rounds and the walk over the streets, from initHand   *)
(* to the moment the hand is ready for showdown (DeclarativeEngine in      *)
(* shared/engine.ts over shared/bettingRound.ts).                          *)
(*                                                                         *)
(* No decision of the betting reads a card, so cards are left to PokerHand,*)
(* which adds the deck, the showdown and the payout to these actions.      *)
(* JavaScript's null is NoSeat for a seat and inRound = FALSE for the      *)
(* betting round.  lastAggressorSeatIndex is written but never read by the *)
(* code, and the action log only feeds replays; neither is kept here.      *)
(***************************************************************************)
EXTENDS Integers, Sequences, Functions

CONSTANTS
  NumSeats,     \* seats at the table (MAX_SEATS in table.ts)
  Stacks,       \* stack sizes an occupied seat may bring to the hand
  Ante,         \* forcedBets.ante
  SmallBlind,   \* forcedBets.smallBlind
  BigBlind,     \* forcedBets.bigBlind
  PotLimit,     \* bettingStructure = "pot-limit"
  StreetBets    \* StreetBets[k]: does the k-th street have a betting round?

ASSUME NumSeatsAssumption == NumSeats \in Nat \ {0}
ASSUME StacksAssumption == Stacks \subseteq Nat
ASSUME ForcedBetsAssumption == Ante \in Nat /\ SmallBlind \in Nat /\ BigBlind \in Nat
ASSUME StructureAssumption == PotLimit \in BOOLEAN /\ StreetBets \in Seq(BOOLEAN)

Seats == 0 .. NumSeats - 1
NoSeat == -1

VARIABLES
  active,       \* seats whose status is "active"
  stack,        \* Seat.stack
  button,       \* TableState.buttonSeatIndex
  phase,        \* HandState.phase, "none" before initHand
  street,       \* HandState.streetIndex + 1: 0 before the first street
  dealt,        \* the keys of HandState.players
  folded,       \* seats whose HandPlayerState.folded is set
  allIn,        \* seats whose HandPlayerState.allIn is set
  committed,    \* HandPlayerState.committedThisStreet
  contributed,  \* HandPlayerState.totalContributed
  acted,        \* seats whose HandPlayerState.hasActedThisRound is set
  inRound,      \* HandState.bettingRound # null
  currentBet,   \* BettingRoundState.currentBet
  minRaise,     \* BettingRoundState.minRaiseIncrement
  turn,         \* BettingRoundState.turnSeatIndex
  startStack    \* history: each seat's stack when the hand was started

roundVars == <<inRound, currentBet, minRaise, turn>>
handVars == <<phase, street, dealt, folded, allIn, committed, contributed, acted, roundVars>>
bettingVars == <<active, stack, button, handVars, startStack>>

-----------------------------------------------------------------------------
AtMostOne(S) == \A x, y \in S : x = y
Least(a, b) == IF a <= b THEN a ELSE b
Most(a, b) == IF a >= b THEN a ELSE b

\* Steps clockwise from seat x to seat s; a full lap back to x itself.
Clockwise(x, s) == IF s > x THEN s - x ELSE s - x + NumSeats

\* The first seat of C met clockwise from x, x itself coming last.
FirstAfter(x, C) ==
  IF C = {} THEN NoSeat
  ELSE CHOOSE s \in C : \A t \in C : Clockwise(x, s) <= Clockwise(x, t)

activeSeats == {s \in active : stack[s] > 0}

nextButtonSeatIndex ==
  IF button = NoSeat THEN FirstAfter(NumSeats - 1, activeSeats)
                     ELSE FirstAfter(button, activeSeats)

activeHandPlayers == dealt \ folded
CanAct == activeHandPlayers \ allIn
totalPot == SumFunction(contributed)

-----------------------------------------------------------------------------
(* Streets: dealAndMaybeStartRound, with the betting round it may open.    *)

NoRound == /\ inRound' = FALSE
           /\ currentBet' = 0
           /\ minRaise' = 0
           /\ turn' = NoSeat

\* bigBlind || 1
RoundIncrement == IF BigBlind = 0 THEN 1 ELSE BigBlind

startBettingRound(live, firstActor, bet) ==
  /\ inRound' = TRUE
  /\ currentBet' = bet
  /\ minRaise' = RoundIncrement
  /\ turn' = firstActor

resetStreetContributions(com) == [s \in Seats |-> 0]

\* Street k is reached with `live` unfolded players, those in `broke` all-in,
\* `com` committed on the street that ended and `act` marked as having acted;
\* `first` is the seat to act if k is the first street.
dealAndMaybeStartRound(k, live, broke, com, act, first) ==
  /\ street' = k
  /\ \/ /\ k > Len(StreetBets) \/ AtMostOne(live)
        /\ phase' = "showdown"
        /\ NoRound
        /\ committed' = com /\ acted' = act
     \/ /\ k <= Len(StreetBets) /\ ~AtMostOne(live)
        /\ StreetBets[k] /\ ~AtMostOne(live \ broke)
        /\ phase' = "betting"
        /\ acted' = act \ live
        /\ IF k = 1
             THEN startBettingRound(live, first, RoundIncrement) /\ committed' = com
             ELSE /\ startBettingRound(live, FirstAfter(button', live \ broke), 0)
                  /\ committed' = resetStreetContributions(com)
     \/ /\ k <= Len(StreetBets) /\ ~AtMostOne(live)
        /\ ~(StreetBets[k] /\ ~AtMostOne(live \ broke))
        /\ phase' = "betting"
        /\ NoRound
        /\ committed' = com /\ acted' = act

-----------------------------------------------------------------------------
(* initHand.                                                               *)

\* What seat s has posted after the antes and the blinds: each forced bet is
\* capped by what the previous ones left of the stack.
Posted(s, players, sb, bb) ==
  LET ante  == Least(Ante, stack[s])
      blind == IF s = sb THEN SmallBlind ELSE IF s = bb THEN BigBlind ELSE 0
  IN  IF s \in players THEN ante + Least(blind, stack[s] - ante) ELSE 0

\* Heads-up the button posts the small blind, otherwise the seat after it.
SmallBlindSeat(players, btn) ==
  LET sb == FirstAfter(btn, players)
  IN  IF FirstAfter(sb, players) = btn THEN btn ELSE sb

InitHand ==
  /\ phase = "none"
  /\ ~AtMostOne(activeSeats)
  /\ button' = nextButtonSeatIndex
  /\ dealt' = activeSeats
  /\ startStack' = stack
  /\ folded' = {}
  /\ LET sb == SmallBlindSeat(dealt', button')
         bb == FirstAfter(sb, dealt')
         posted == [s \in Seats |-> Posted(s, dealt', sb, bb)]
     IN  /\ stack' = [s \in Seats |-> stack[s] - posted[s]]
         /\ contributed' = posted
         /\ allIn' = {s \in dealt' : stack'[s] = 0}
         /\ dealAndMaybeStartRound(1, dealt', allIn', posted, {},
                                   FirstAfter(bb, dealt' \ allIn'))
  /\ UNCHANGED active

-----------------------------------------------------------------------------
(* applyAction: one action of the seat whose turn it is.                   *)

potLimitMaxRaiseTo(s) ==
  LET callAmount == Least(Most(0, currentBet - committed[s]), stack[s])
  IN  Least(currentBet + totalPot + callAmount, committed[s] + stack[s])

getLegalActions(s) ==
  LET callAmount == Most(0, currentBet - committed[s])
      allInTo == committed[s] + stack[s]
      maxRaiseTo == IF PotLimit THEN potLimitMaxRaiseTo(s) ELSE allInTo
  IN  [canCheck |-> callAmount = 0,
       canCall |-> callAmount > 0,
       canBetOrRaise |-> stack[s] > 0 /\ maxRaiseTo > currentBet /\ s \notin acted,
       minRaiseTo |-> Least(maxRaiseTo, currentBet + minRaise),
       maxRaiseTo |-> maxRaiseTo]

\* Mutants: the round also waits for all-in players; the round closes once
\* everybody has acted, matched or not.
ClosedWhenAllMatch(live, broke, com, act, bet) ==
  AtMostOne(live) \/ \A p \in live : p \in act /\ com[p] = bet
ClosedWhenAllActed(live, broke, com, act, bet) ==
  AtMostOne(live) \/ live \ broke \subseteq act

\* isBettingRoundClosed, for the unfolded players `live`.
isBettingRoundClosed(live, broke, com, act, bet) ==
  \/ AtMostOne(live)
  \/ \A p \in live \ broke : p \in act /\ com[p] = bet

\* The tail of DeclarativeEngine.applyAction after s acted: the turn passes,
\* or the round closes and the hand ends or moves to the next street.
FinishAction(s, com, act, bet, increment) ==
  LET live == dealt \ folded'
  IN  \/ /\ ~isBettingRoundClosed(live, allIn', com, act, bet)
         /\ turn' = FirstAfter(s, live \ allIn')
         /\ inRound' = TRUE
         /\ currentBet' = bet /\ minRaise' = increment
         /\ committed' = com /\ acted' = act
         /\ UNCHANGED <<phase, street>>
      \/ /\ isBettingRoundClosed(live, allIn', com, act, bet)
         /\ AtMostOne(live)
         /\ phase' = "showdown"
         /\ NoRound
         /\ committed' = com /\ acted' = act
         /\ UNCHANGED street
      \/ /\ isBettingRoundClosed(live, allIn', com, act, bet)
         /\ ~AtMostOne(live)
         /\ dealAndMaybeStartRound(street + 1, live, allIn', com, act, NoSeat)

HasTurn(s) == phase = "betting" /\ inRound /\ turn = s

\* Mutant: a seat that puts its last chip in is not marked all-in.
CommitWithoutAllIn(s, amount) ==
  /\ stack' = [stack EXCEPT ![s] = @ - amount]
  /\ contributed' = [contributed EXCEPT ![s] = @ + amount]
  /\ allIn' = allIn

commitChips(s, amount) ==
  /\ stack' = [stack EXCEPT ![s] = @ - amount]
  /\ contributed' = [contributed EXCEPT ![s] = @ + amount]
  /\ allIn' = IF stack[s] = amount THEN allIn \cup {s} ELSE allIn

Fold(s) ==
  /\ HasTurn(s)
  /\ folded' = folded \cup {s}
  /\ UNCHANGED <<active, stack, button, dealt, allIn, contributed, startStack>>
  /\ FinishAction(s, committed, acted \cup {s}, currentBet, minRaise)

CheckAccepted(s) == committed[s] = currentBet

Check(s) ==
  /\ HasTurn(s)
  /\ CheckAccepted(s)
  /\ UNCHANGED <<active, stack, button, dealt, folded, allIn, contributed, startStack>>
  /\ FinishAction(s, committed, acted \cup {s}, currentBet, minRaise)

\* A call of zero is accepted: only a negative amount is refused.
CallAccepted(s) == currentBet - committed[s] >= 0

Call(s) ==
  LET amount == Least(currentBet - committed[s], stack[s])
  IN  /\ HasTurn(s)
      /\ CallAccepted(s)
      /\ commitChips(s, amount)
      /\ UNCHANGED <<active, button, dealt, folded, startStack>>
      /\ FinishAction(s, [committed EXCEPT ![s] = @ + amount], acted \cup {s},
                      currentBet, minRaise)

\* Mutant: the pot limit is forgotten.
RaiseWithoutPotLimit(s, to) ==
  /\ to > currentBet
  /\ s \notin acted
  /\ to - committed[s] <= stack[s]
  /\ to - committed[s] = stack[s] \/ to >= currentBet + minRaise

\* Every check applyAction makes on a bet or raise to a total of `to`.
RaiseAccepted(s, to) ==
  /\ to > currentBet
  /\ s \notin acted
  /\ to - committed[s] <= stack[s]
  /\ PotLimit => to <= potLimitMaxRaiseTo(s)
  /\ to - committed[s] = stack[s] \/ to >= currentBet + minRaise

Raise(s, to) ==
  LET raiseSize == to - currentBet
      reopens == raiseSize >= minRaise \/ currentBet = 0
  IN  /\ HasTurn(s)
      /\ RaiseAccepted(s, to)
      /\ commitChips(s, to - committed[s])
      /\ UNCHANGED <<active, button, dealt, folded, startStack>>
      /\ FinishAction(s, [committed EXCEPT ![s] = to],
                      IF reopens THEN (acted \ CanAct) \cup {s}
                                 ELSE acted \cup {s},
                      to,
                      IF reopens THEN raiseSize ELSE minRaise)

\* The server deals the next street of a hand that has nobody to wait for.
hasMoreDealing == phase = "betting" /\ ~inRound

\* Mutant: the street that is dealt is the one that is already there.
ContinueSameStreet ==
  /\ hasMoreDealing
  /\ UNCHANGED <<active, stack, button, dealt, folded, allIn, contributed, startStack>>
  /\ dealAndMaybeStartRound(street, activeHandPlayers, allIn, committed, acted, NoSeat)

ContinueDealing ==
  /\ hasMoreDealing
  /\ UNCHANGED <<active, stack, button, dealt, folded, allIn, contributed, startStack>>
  /\ dealAndMaybeStartRound(street + 1, activeHandPlayers, allIn, committed, acted, NoSeat)

\* Nothing is left to do: the hand waits for evaluateShowdown, or there were
\* not two players to start it.
Rest == /\ phase = "showdown" \/ (phase = "none" /\ AtMostOne(activeSeats))
        /\ UNCHANGED bettingVars

-----------------------------------------------------------------------------
Init ==
  /\ active \in SUBSET Seats
  /\ stack \in [Seats -> Stacks \cup {0}]
  /\ \A s \in Seats : stack[s] \in (IF s \in active THEN Stacks ELSE {0})
  /\ button \in Seats \cup {NoSeat}
  /\ phase = "none" /\ street = 0
  /\ dealt = {} /\ folded = {} /\ allIn = {} /\ acted = {}
  /\ committed = [s \in Seats |-> 0] /\ contributed = [s \in Seats |-> 0]
  /\ inRound = FALSE /\ currentBet = 0 /\ minRaise = 0 /\ turn = NoSeat
  /\ startStack = stack

ApplyAction(s) ==
  \/ Fold(s)
  \/ Check(s)
  \/ Call(s)
  \/ \E to \in 1 .. committed[s] + stack[s] : Raise(s, to)

Next ==
  \/ InitHand
  \/ \E s \in Seats : ApplyAction(s)
  \/ ContinueDealing
  \/ Rest

Spec == Init /\ [][Next]_bettingVars

-----------------------------------------------------------------------------
(* Properties.                                                             *)

\* Every variable has its type; amounts of chips never go below zero.
TypeOK ==
  /\ active \subseteq Seats
  /\ stack \in [Seats -> Nat] /\ startStack \in [Seats -> Nat]
  /\ button \in Seats \cup {NoSeat}
  /\ phase \in {"none", "betting", "showdown", "complete"} /\ street \in Nat
  /\ dealt \subseteq Seats /\ folded \subseteq dealt
  /\ allIn \subseteq dealt /\ acted \subseteq dealt
  /\ committed \in [Seats -> Nat] /\ contributed \in [Seats -> Nat]
  /\ inRound \in BOOLEAN /\ currentBet \in Nat /\ minRaise \in Nat
  /\ turn \in Seats \cup {NoSeat}

ChipsBalance ==
  /\ \A s \in Seats : stack[s] + contributed[s] = startStack[s]
  /\ \A s \in Seats : committed[s] <= contributed[s]
  /\ phase # "none" => allIn = {s \in dealt : stack[s] = 0}

\* A player's chips are never lost or created by betting: until the pots are paid
\* each seat's stack plus what it has put into the pot is the stack it started
\* with (commitChips is the only transfer), and the allIn flag commitChips caches
\* is right for every dealt seat.
ChipsStayWithTheirSeat == phase # "complete" => ChipsBalance

\* An open betting round always waits for somebody who can answer: the seat
\* nextToActSeatIndex chose is in the hand, has not folded and is not all-in.
\* (turnSeatIndex may be null in the code's types; then nobody could ever act.)
TurnCanAct == inRound => phase = "betting" /\ turn \in CanAct

\* What getLegalActions offers the seat to act is exactly what applyAction
\* accepts: a client that follows the offer is never refused, and no accepted
\* raise lies outside the offered range.
OffersAreAccepted ==
  \A s \in Seats : HasTurn(s) =>
    LET offer == getLegalActions(s)
    IN  /\ offer.canCheck <=> CheckAccepted(s)
        /\ offer.canCall => CallAccepted(s)
        /\ \A to \in 1 .. committed[s] + stack[s] :
             RaiseAccepted(s, to) <=> /\ offer.canBetOrRaise
                                     /\ to \in offer.minRaiseTo .. offer.maxRaiseTo

\* Whenever no betting round is open, two players who both still have chips
\* have put in the same total: a round never closes on an unmatched bet.
StakesMatched ==
  ~inRound => \A p, q \in CanAct : contributed[p] = contributed[q]

\* While the hand is dealt out without asking anybody, no player who still has
\* chips owes anything to another player in the hand.
NothingLeftToDecide ==
  hasMoreDealing => \A p \in CanAct, q \in activeHandPlayers : contributed[q] <= contributed[p]
=============================================================================
