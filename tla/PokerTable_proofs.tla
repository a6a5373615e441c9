-------------------------- MODULE PokerTable_proofs --------------------------
(* Proofs about PokerTable, for every table size, blind structure and list of streets: *)
(* how often a hand is saved, and whom it waits for.                                    *)
EXTENDS PokerTable, PokerBetting_proofs

\* Streets without betting come first.  So it is in every game definition of
\* packages/game-engine: the bomb pots skip the round of their first street only.
BettingOnceBegun ==
  \A j, k \in 1 .. Len(StreetBets) : j < k /\ StreetBets[j] => StreetBets[k]

\* Dealing a street, and finishing an action, leave a hand that is still being played.
LEMMA DealPhase ==
  ASSUME NEW k, NEW live, NEW broke, NEW com, NEW act, NEW first,
         dealAndMaybeStartRound(k, live, broke, com, act, first)
  PROVE  phase' \in {"betting", "showdown"} /\ street' = k
BY Zenon DEF dealAndMaybeStartRound

\* A step of the engine leaves a hand that is being played, and not yet completed.
LEMMA EngineStep ==
  ASSUME IInv, InitHand \/ ContinueDealing \/ \E s \in Seats : ApplyAction(s)
  PROVE  phase \in {"none", "betting"} /\ phase' \in {"betting", "showdown"}
<1>1. CASE InitHand
  <2>1. phase = "none" /\ phase' \in {"betting", "showdown"}
    BY <1>1, DealPhase, Zenon DEF InitHand
  <2>2. QED
    BY <2>1
<1>2. CASE ContinueDealing
  <2>1. phase = "betting" /\ phase' \in {"betting", "showdown"}
    BY <1>2, DealPhase, Zenon DEF ContinueDealing, hasMoreDealing
  <2>2. QED
    BY <2>1
<1>3. ASSUME NEW s \in Seats, ApplyAction(s)
      PROVE  phase = "betting" /\ phase' \in {"betting", "showdown"}
  <2>1. PICK com, act, bet, increment : Commits(s, com, act, bet, increment)
    BY <1>3, ActionCommits, Zenon
  <2>2. phase = "betting" /\ FinishAction(s, com, act, bet, increment)
    BY <2>1, Zenon DEF Commits
  <2>3. phase' = phase \/ phase' \in {"betting", "showdown"}
    <3>1. CASE ~isBettingRoundClosed(dealt \ folded', allIn', com, act, bet)
      BY <2>2, <3>1, Zenon DEF FinishAction
    <3>2. CASE isBettingRoundClosed(dealt \ folded', allIn', com, act, bet)
      <4>1. \/ phase' = "showdown"
            \/ dealAndMaybeStartRound(street + 1, dealt \ folded', allIn', com, act, NoSeat)
        BY <2>2, <3>2, Zenon DEF FinishAction
      <4>2. QED
        BY <4>1, DealPhase
    <3>3. QED
      BY <3>1, <3>2
  <2>4. QED
    BY <2>2, <2>3
<1>4. QED
  BY <1>1, <1>2, <1>3

\* Which step of the hand a step of the server is.
ServerStep ==
  \/ /\ InitHand \/ ContinueDealing \/ \E s \in Seats : ApplyAction(s)
     /\ handsSaved' = handsSaved
  \/ /\ UNCHANGED <<stack, button, handVars, startStack>> /\ active' \subseteq Seats
     /\ handsSaved' = handsSaved
  \/ Settle

\* A step of the table is one of these.
LEMMA EveryStepIsOne ==
  ASSUME IInv, [TableNext]_vars
  PROVE  ServerStep /\ (handler \in {"idle", "away", "deal"} => handler' \in {"idle", "away", "deal"})
<1>1. active \subseteq Seats
  BY DEF IInv, TypeOK
<1>2. CASE StartHand
  BY <1>2, Zenon DEF StartHand, tableVars, ServerStep
<1>3. CASE \E s \in Seats : PlayerAction(s)
  BY <1>3, Zenon DEF PlayerAction, tableVars, ServerStep
<1>4. CASE \E s \in Occupied : (GoAway(s) \/ ComeBack(s) \/ QueueAway(s))
  <2>1. PICK s \in Occupied : GoAway(s) \/ ComeBack(s) \/ QueueAway(s)
    BY <1>4
  <2>2. s \in Seats
    BY DEF Occupied
  <2>3. QED
    BY <1>1, <2>1, <2>2 DEF GoAway, ComeBack, QueueAway, bettingVars, ServerStep
<1>5. CASE AutoPlay
  <2>1. /\ AwayToAct /\ UNCHANGED tableVars /\ handler = "away"
        /\ \/ UNCHANGED bettingVars /\ handler' = "idle"
           \/ (Check(turn) \/ Fold(turn)) /\ handler' = handler
    BY <1>5, Zenon DEF AutoPlay
  <2>2. turn \in Seats
    BY <2>1 DEF AwayToAct, IInv, TurnCanAct, CanAct, activeHandPlayers, TypeOK
  <2>3. CASE UNCHANGED bettingVars
    BY <1>1, <2>1, <2>3 DEF bettingVars, tableVars, ServerStep
  <2>4. CASE Check(turn) \/ Fold(turn)
    BY <2>1, <2>2, <2>4, Zenon DEF tableVars, ServerStep, ApplyAction
  <2>5. QED
    BY <2>1, <2>3, <2>4
<1>6. CASE LeaveAwayLoop \/ Release
  <2>1. UNCHANGED <<bettingVars, tableVars>> /\ handler' \in {"idle", "deal"}
    BY <1>6 DEF LeaveAwayLoop, Release
  <2>2. QED
    BY <1>1, <2>1 DEF bettingVars, tableVars, ServerStep
<1>7. CASE DealStreet
  BY <1>7, Zenon DEF DealStreet, tableVars, ServerStep
<1>8. CASE Settle
  BY <1>8 DEF Settle, ServerStep
<1>9. CASE UNCHANGED vars
  BY <1>1, <1>9 DEF vars, bettingVars, ServerStep
<1>10. QED
  BY <1>2, <1>3, <1>4, <1>5, <1>6, <1>7, <1>8, <1>9, Zenon DEF TableNext, Request, advanceHand

\* Coming and going, and the end of a hand, leave the chips, the turn and the stakes alone.
LEMMA StepKeepsHand ==
  ASSUME IInv, ServerStep
  PROVE  IInv'
<1>1. CASE InitHand \/ ContinueDealing \/ \E s \in Seats : ApplyAction(s)
  BY <1>1, NextInv, Zenon DEF Next
<1>2. CASE UNCHANGED <<stack, button, handVars, startStack>> /\ active' \subseteq Seats
  BY <1>2 DEF handVars, roundVars, IInv, TypeOK, ChipsBalance, TurnCanAct, CanAct, activeHandPlayers
<1>3. CASE Settle
  <2>1. /\ phase = "showdown" /\ phase' = "complete" /\ active' \subseteq active
        /\ UNCHANGED <<stack, button, street, dealt, folded, allIn, committed, contributed,
                       acted, roundVars, startStack>>
    BY <1>3 DEF Settle
  <2>2. ~inRound
    BY <2>1 DEF IInv, TurnCanAct
  <2>3. QED
    BY <2>1, <2>2 DEF roundVars, IInv, TypeOK, ChipsBalance, TurnCanAct
<1>4. QED
  BY <1>1, <1>2, <1>3 DEF ServerStep

\* The invariant of the hand, and of what is saved of it.
SavedInv == IInv /\ SavedOnce

\* Every step of the table keeps a hand saved once.
LEMMA NextSaved ==
  ASSUME SavedInv, [TableNext]_vars
  PROVE  SavedInv'
<1>1. IInv /\ SavedOnce /\ ServerStep
  BY EveryStepIsOne DEF SavedInv
<1>2. IInv'
  BY <1>1, StepKeepsHand
<1>3. CASE /\ InitHand \/ ContinueDealing \/ \E s \in Seats : ApplyAction(s)
           /\ handsSaved' = handsSaved
  <2>1. phase \in {"none", "betting"} /\ phase' \in {"betting", "showdown"}
    BY <1>1, <1>3, EngineStep
  <2>2. QED
    BY <1>1, <1>2, <1>3, <2>1 DEF SavedOnce, SavedInv
<1>4. CASE UNCHANGED <<stack, button, handVars, startStack>> /\ handsSaved' = handsSaved
  BY <1>1, <1>2, <1>4 DEF handVars, SavedOnce, SavedInv
<1>5. CASE Settle
  <2>1. phase = "showdown" /\ phase' = "complete" /\ handsSaved' = handsSaved + 1
    BY <1>5 DEF Settle
  <2>2. QED
    BY <1>1, <1>2, <2>1 DEF SavedOnce, SavedInv
<1>6. QED
  BY <1>1, <1>3, <1>4, <1>5 DEF ServerStep

\* Whoever comes, goes and comes back while it is played, a hand is saved when it completes
\* and only then.
THEOREM HandIsSavedOnce == TableSpec => []SavedOnce
<1>1. TableInit => SavedInv
  <2>1. TableInit => Init /\ handsSaved = 0 /\ phase = "none"
    BY Zenon DEF TableInit, Init
  <2>2. QED
    BY <2>1, InitInv DEF SavedInv, SavedOnce
<1>2. SavedInv /\ [TableNext]_vars => SavedInv'
  BY NextSaved
<1>3. SavedInv => SavedOnce
  BY DEF SavedInv
<1>4. QED
  BY <1>1, <1>2, <1>3, PTL DEF TableSpec

-----------------------------------------------------------------------------
(* Away seats.                                                             *)

\* A round is open only on a street that is bet on.
OpenStreet == inRound => street <= Len(StreetBets) /\ StreetBets[street]

\* Dealing on without a round: one player has chips, or nobody has had the time to go away.
NobodyToAsk == AtMostOne(CanAct) \/ dealt \subseteq active

\* Where the server stands in a hand: it waits for a player only when that one is there, and
\* has nothing to deal.
Waits ==
  /\ handler \in {"idle", "away", "deal"}
  /\ handler = "idle" => phase \in {"none", "complete"} \/ (inRound /\ turn \in active)
  /\ handler = "deal" /\ inRound => turn \in active
  /\ hasMoreDealing => NobodyToAsk

AwayInv == StakesInv /\ OpenStreet /\ Waits

\* A street dealt after the first either opens a round with somebody who can act, or there
\* is nobody to ask, or it is not bet on.
LEMMA DealKeepsOpen ==
  ASSUME NEW k \in Nat \ {0}, NEW live, NEW broke, NEW com, NEW act, NEW first,
         dealAndMaybeStartRound(k, live, broke, com, act, first)
  PROVE  /\ OpenStreet'
         /\ hasMoreDealing' => AtMostOne(live \ broke) \/ (k <= Len(StreetBets) /\ ~StreetBets[k])
         /\ inRound' => ~AtMostOne(live \ broke)
<1>1. street' = k
  BY DealPhase
<1>2. CASE k <= Len(StreetBets) /\ ~AtMostOne(live) /\ StreetBets[k] /\ ~AtMostOne(live \ broke)
  <2>1. inRound' = TRUE
    <3>1. ~(k > Len(StreetBets))
      BY <1>2, StructureAssumption
    <3>2. QED
      BY <1>2, <3>1, Zenon DEF dealAndMaybeStartRound, startBettingRound
  <2>2. QED
    BY <1>1, <1>2, <2>1 DEF OpenStreet, hasMoreDealing
<1>3. CASE ~(k <= Len(StreetBets) /\ ~AtMostOne(live) /\ StreetBets[k] /\ ~AtMostOne(live \ broke))
  <2>1. inRound' = FALSE
    BY <1>3, Zenon DEF dealAndMaybeStartRound, NoRound
  <2>2. k > Len(StreetBets) \/ AtMostOne(live) => phase' = "showdown"
    <3>1. k > Len(StreetBets) => ~(k <= Len(StreetBets))
      BY StructureAssumption
    <3>2. QED
      BY <3>1, Zenon DEF dealAndMaybeStartRound
  <2>3. ~(k > Len(StreetBets)) => k <= Len(StreetBets)
    BY StructureAssumption
  <2>4. QED
    BY <1>3, <2>1, <2>2, <2>3 DEF OpenStreet, hasMoreDealing
<1>4. QED
  BY <1>2, <1>3

\* After an action the turn passes, or a street with its round follows, or nobody is to ask.
LEMMA ActionKeepsOpen ==
  ASSUME BettingOnceBegun, IInv, OpenStreet, NEW s \in Seats, ApplyAction(s)
  PROVE  OpenStreet' /\ (hasMoreDealing' => AtMostOne(CanAct'))
<1>1. PICK com, act, bet, increment : Commits(s, com, act, bet, increment)
  BY ActionCommits, Zenon
<1>2. inRound /\ phase = "betting" /\ dealt' = dealt /\ FinishAction(s, com, act, bet, increment)
  BY <1>1, Zenon DEF Commits
<1> DEFINE live == dealt \ folded'
<1>3. CanAct' = live \ allIn'
  BY <1>2 DEF CanAct, activeHandPlayers
<1>4. /\ street \in Nat \ {0} /\ street + 1 \in Nat \ {0}
      /\ street <= Len(StreetBets) /\ StreetBets[street]
  BY <1>2 DEF IInv, TypeOK, OpenStreet
<1>5. CASE ~isBettingRoundClosed(live, allIn', com, act, bet)
  <2>1. inRound' = TRUE /\ street' = street
    BY <1>2, <1>5, Zenon DEF FinishAction
  <2>2. QED
    BY <1>4, <2>1 DEF OpenStreet, hasMoreDealing
<1>6. CASE isBettingRoundClosed(live, allIn', com, act, bet)
  <2>1. \/ phase' = "showdown" /\ NoRound
        \/ dealAndMaybeStartRound(street + 1, live, allIn', com, act, NoSeat)
    BY <1>2, <1>6, Zenon DEF FinishAction
  <2>2. CASE phase' = "showdown" /\ NoRound
    BY <2>2 DEF NoRound, OpenStreet, hasMoreDealing
  <2>3. CASE dealAndMaybeStartRound(street + 1, live, allIn', com, act, NoSeat)
    <3>1. street + 1 <= Len(StreetBets) => StreetBets[street + 1]
      BY <1>4, StructureAssumption DEF BettingOnceBegun
    <3>2. QED
      BY <1>3, <1>4, <2>3, <3>1, DealKeepsOpen
  <2>4. QED
    BY <2>1, <2>2, <2>3
<1>7. QED
  BY <1>5, <1>6

\* A check that is offered is accepted: the away loop of advanceHand never throws.
LEMMA OfferedCheckIsAccepted ==
  ASSUME IInv, NoOverpay, NEW s \in Seats, inRound, getLegalActions(s).canCheck
  PROVE  CheckAccepted(s)
<1>1. Most(0, currentBet - committed[s]) = 0
  BY DEF getLegalActions
<1>2. QED
  BY <1>1 DEF IInv, TypeOK, NoOverpay, CheckAccepted, Most

\* Coming and going keep the stakes as they are.
LEMMA StepKeepsStakes ==
  ASSUME StakesInv, ServerStep
  PROVE  StakesInv'
<1>1. CASE InitHand \/ ContinueDealing \/ \E s \in Seats : ApplyAction(s)
  BY <1>1, NextStakes, Zenon DEF Next
<1>2. CASE \/ UNCHANGED <<stack, button, handVars, startStack>> /\ active' \subseteq Seats
           \/ Settle
  <2>1. IInv /\ IInv'
    BY StepKeepsHand DEF StakesInv
  <2>2. UNCHANGED <<dealt, folded, allIn, committed, contributed, inRound, currentBet, minRaise>>
    BY <1>2 DEF Settle, handVars, roundVars
  <2>3. UNCHANGED CanAct
    BY <2>2 DEF CanAct, activeHandPlayers
  <2>4. BlindsFitTheBet' = BlindsFitTheBet /\ BlindsAreCalled' = BlindsAreCalled
    BY DEF BlindsFitTheBet, BlindsAreCalled, RoundIncrement
  <2>5. QED
    BY <2>1, <2>2, <2>3, <2>4
    DEF StakesInv, EvenStakes, RaiseCovered, Paid, NoOverpay, RoundIncrement
<1>3. QED
  BY <1>1, <1>2 DEF ServerStep

\* A player's action leaves a hand to advance, with nobody else to ask if no round is open.
LEMMA ActionKeepsWaits ==
  ASSUME BettingOnceBegun, IInv, OpenStreet, NEW s \in Seats, ApplyAction(s), handler' = "away"
  PROVE  OpenStreet' /\ Waits'
BY ActionKeepsOpen DEF Waits, NobodyToAsk

\* Every step of the table keeps nobody waiting for a player who is away.
LEMMA NextAway ==
  ASSUME BlindsFitTheBet, BettingOnceBegun, AwayInv, [TableNext]_vars
  PROVE  AwayInv'
<1>1. StakesInv /\ IInv /\ NoOverpay /\ OpenStreet /\ Waits
  BY DEF AwayInv, StakesInv
<1>2. StakesInv' /\ IInv'
  BY <1>1, EveryStepIsOne, StepKeepsStakes, StepKeepsHand
<1> SUFFICES OpenStreet' /\ Waits'
  BY <1>2 DEF AwayInv
<1>3. CASE StartHand
  <2>1. InitHand /\ handler' = "away"
    BY <1>3 DEF StartHand
  <2>2. dealt' \subseteq active'
    BY <2>1, Zenon DEF InitHand, activeSeats
  <2>3. OpenStreet'
    <3>1. PICK live, broke, com, act, first : dealAndMaybeStartRound(1, live, broke, com, act, first)
      BY <2>1, Zenon DEF InitHand
    <3>2. 1 \in Nat \ {0}
      OBVIOUS
    <3>3. QED
      BY <3>1, <3>2, DealKeepsOpen, Zenon
  <2>4. QED
    BY <2>1, <2>2, <2>3 DEF Waits, NobodyToAsk
<1>4. ASSUME NEW s \in Seats, PlayerAction(s) PROVE OpenStreet' /\ Waits'
  <2>1. ApplyAction(s) /\ handler' = "away"
    BY <1>4, Zenon DEF PlayerAction
  <2>2. QED
    BY <1>1, <2>1, ActionKeepsWaits
<1>5. ASSUME NEW s \in Occupied, GoAway(s) \/ ComeBack(s) \/ QueueAway(s)
      PROVE  OpenStreet' /\ Waits'
  <2>1. /\ handler = "idle" /\ handler' \in {"idle", "away"}
        /\ UNCHANGED handVars /\ (handler' = "idle" => active \subseteq active')
    BY <1>5 DEF GoAway, ComeBack, QueueAway, bettingVars
  <2>2. ~hasMoreDealing
    BY <1>1, <2>1 DEF Waits, hasMoreDealing
  <2>3. QED
    BY <1>1, <2>1, <2>2 DEF handVars, roundVars, OpenStreet, Waits, hasMoreDealing
<1>6. CASE AutoPlay
  <2>1. AwayToAct /\ turn \in Seats
    BY <1>1, <1>6 DEF AutoPlay, AwayToAct, IInv, TurnCanAct, CanAct, activeHandPlayers, TypeOK
  <2>2. ~(getLegalActions(turn).canCheck /\ ~CheckAccepted(turn))
    BY <1>1, <2>1, OfferedCheckIsAccepted DEF AwayToAct
  <2>3. handler' = "away" /\ (Check(turn) \/ Fold(turn))
    BY <1>6, <2>2, Zenon DEF AutoPlay
  <2>4. ApplyAction(turn)
    BY <2>3, Zenon DEF ApplyAction
  <2>5. QED
    BY <1>1, <2>1, <2>3, <2>4, ActionKeepsWaits
<1>7. CASE LeaveAwayLoop
  <2>1. UNCHANGED bettingVars /\ ~AwayToAct /\ handler' = "deal"
    BY <1>7 DEF LeaveAwayLoop
  <2>2. inRound => turn \in active
    BY <1>1, <2>1 DEF AwayToAct, Away, IInv, TurnCanAct
  <2>3. QED
    BY <1>1, <2>1, <2>2 DEF bettingVars, handVars, roundVars, OpenStreet, Waits, hasMoreDealing,
       NobodyToAsk, CanAct, activeHandPlayers
<1>8. CASE DealStreet
  <2>1. /\ handler' = "deal" /\ ContinueDealing /\ hasMoreDealing
        /\ UNCHANGED <<active, dealt, folded, allIn>>
        /\ dealAndMaybeStartRound(street + 1, dealt \ folded, allIn, committed, acted, NoSeat)
    BY <1>1, <1>8, Zenon DEF DealStreet, ContinueDealing, Waits, activeHandPlayers
  <2>2. NobodyToAsk /\ street + 1 \in Nat \ {0}
    BY <1>1, <2>1 DEF Waits, IInv, TypeOK
  <2>3. CanAct' = CanAct /\ CanAct = (dealt \ folded) \ allIn
    BY <2>1 DEF CanAct, activeHandPlayers
  <2>4. NobodyToAsk'
    BY <2>1, <2>2, <2>3 DEF NobodyToAsk
  <2>5. OpenStreet' /\ (inRound' => ~AtMostOne(CanAct))
    BY <2>1, <2>2, <2>3, DealKeepsOpen
  <2>6. inRound' => turn' \in active'
    BY <1>2, <2>1, <2>2, <2>3, <2>5
    DEF NobodyToAsk, IInv, TurnCanAct, CanAct, activeHandPlayers
  <2>7. QED
    BY <2>1, <2>4, <2>5, <2>6 DEF Waits
<1>9. CASE Settle
  <2>1. ~inRound
    BY <1>1, <1>9 DEF Settle, IInv, TurnCanAct
  <2>2. QED
    BY <1>9, <2>1 DEF Settle, roundVars, OpenStreet, Waits, hasMoreDealing
<1>10. CASE Release
  <2>1. /\ handler = "deal" /\ ~hasMoreDealing /\ phase # "showdown" /\ handler' = "idle"
        /\ UNCHANGED bettingVars
    BY <1>10 DEF Release
  <2>2. phase \in {"none", "complete"} \/ (inRound /\ turn \in active)
    BY <1>1, <2>1 DEF Waits, hasMoreDealing, IInv, TypeOK
  <2>3. QED
    BY <1>1, <2>1, <2>2 DEF bettingVars, handVars, roundVars, OpenStreet, Waits, hasMoreDealing
<1>11. CASE UNCHANGED vars
  BY <1>1, <1>11 DEF vars, bettingVars, handVars, roundVars, OpenStreet, Waits, hasMoreDealing,
     NobodyToAsk, CanAct, activeHandPlayers
<1>12. QED
  BY <1>3, <1>4, <1>5, <1>6, <1>7, <1>8, <1>9, <1>10, <1>11, Zenon
  DEF TableNext, Request, advanceHand

\* The invariant of automatic play holds throughout.
LEMMA AwayInvariant ==
  ASSUME BlindsFitTheBet, BettingOnceBegun
  PROVE  TableSpec => []AwayInv
<1>1. TableInit => AwayInv
  <2>1. TableInit => Init /\ handler = "idle" /\ phase = "none" /\ inRound = FALSE
    BY Zenon DEF TableInit, Init
  <2>2. QED
    BY <2>1, InitStakes DEF AwayInv, OpenStreet, Waits, hasMoreDealing
<1>2. AwayInv /\ [TableNext]_vars => AwayInv'
  BY NextAway
<1>3. QED
  BY <1>1, <1>2, PTL DEF TableSpec

\* Under the game definitions' betting structures, no sequence of actions, departures and
\* returns leaves a hand waiting for a player who is away.
THEOREM NobodyAwayIsAwaited ==
  ASSUME BlindsFitTheBet, BettingOnceBegun
  PROVE  TableSpec => []AwayNeverStalls
<1>1. AwayInv => AwayNeverStalls
  BY DEF AwayInv, StakesInv, IInv, TurnCanAct, Waits, AwayNeverStalls, Away
<1>2. QED
  BY <1>1, AwayInvariant, PTL

\* Under the same structures a check that the server plays for an away player is never
\* refused: the request of advanceHand does not fail midway, with the loop not ended.
THEOREM AutoPlayNeverThrows ==
  ASSUME BlindsFitTheBet, BettingOnceBegun
  PROVE  TableSpec => [](AwayToAct /\ getLegalActions(turn).canCheck => CheckAccepted(turn))
<1>1. AwayInv => (AwayToAct /\ getLegalActions(turn).canCheck => CheckAccepted(turn))
  BY OfferedCheckIsAccepted
  DEF AwayInv, StakesInv, AwayToAct, IInv, TypeOK, TurnCanAct, CanAct, activeHandPlayers
<1>2. QED
  BY <1>1, AwayInvariant, PTL
=============================================================================
