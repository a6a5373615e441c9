------------------------- MODULE PokerBetting_proofs -------------------------
(* Proofs about PokerBetting, for every table size, blind structure and list of streets. *)
EXTENDS PokerBetting, Sums

\* FirstAfter picks a seat of the set it is given (nextToActSeatIndex never
\* returns null while somebody can act).
LEMMA FirstAfterIn ==
  ASSUME NEW x \in Seats, NEW C \in SUBSET Seats, C # {}
  PROVE  FirstAfter(x, C) \in C
<1> DEFINE D == {Clockwise(x, s) : s \in C}
<1>1. \A s \in C : Clockwise(x, s) \in Nat
  BY NumSeatsAssumption DEF Clockwise, Seats
<1>2. D \in SUBSET Nat /\ D # {}
  BY <1>1
<1>3. PICK m \in D : \A n \in D : m <= n
  BY <1>2, LeastNatural, Zenon
<1>4. PICK s \in C : m = Clockwise(x, s)
  BY <1>3
<1>5. \A t \in C : Clockwise(x, s) <= Clockwise(x, t)
  BY <1>3, <1>4
<1>6. QED
  BY <1>5, Zenon DEF FirstAfter
\* Over any set of seats FirstAfter stays within seats or null.
LEMMA FirstAfterType ==
  ASSUME NEW x \in Seats, NEW C \in SUBSET Seats
  PROVE  FirstAfter(x, C) \in Seats \cup {NoSeat}
BY FirstAfterIn, Zenon DEF FirstAfter

-----------------------------------------------------------------------------
\* What dealAndMaybeStartRound and the turn passing establish about the round.
RoundOK ==
  /\ phase \in {"betting", "showdown"}
  /\ street \in Nat \ {0}
  /\ acted \subseteq dealt
  /\ committed \in [Seats -> Nat]
  /\ inRound \in BOOLEAN /\ currentBet \in Nat /\ minRaise \in Nat
  /\ turn \in Seats \cup {NoSeat}
  /\ TurnCanAct

\* The strengthening TypeOK, ChipsBalance and TurnCanAct need together:
\* a turn belongs to a seat with chips, so that a call moves a positive amount
\* and allIn stays exact; and the button is a seat once a hand is dealt, so that
\* there is a first seat to act after it.
IInv ==
  /\ TypeOK
  /\ ChipsBalance
  /\ TurnCanAct
  /\ phase # "none" => button \in Seats /\ street >= 1

\* The first street reached or a later one leaves the round in a sound state.
LEMMA DealKeepsRound ==
  ASSUME NEW k \in Nat \ {0}, NEW com \in [Seats -> Nat], NEW act, NEW first,
         dealt' \subseteq Seats, act \subseteq dealt', button' \in Seats,
         k = 1 => \E x \in Seats : first = FirstAfter(x, (dealt' \ folded') \ allIn'),
         dealAndMaybeStartRound(k, dealt' \ folded', allIn', com, act, first)
  PROVE  RoundOK' /\ \A s \in Seats : committed'[s] \in {0, com[s]}
<1> DEFINE live == dealt' \ folded'
           canAct == live \ allIn'
<1> USE ForcedBetsAssumption
<1>1. CASE ~(k <= Len(StreetBets) /\ ~AtMostOne(live) /\ StreetBets[k] /\ ~AtMostOne(canAct))
  <2>1. /\ street' = k /\ phase' \in {"betting", "showdown"} /\ NoRound
        /\ committed' = com /\ acted' = act
    BY <1>1, Zenon DEF dealAndMaybeStartRound
  <2>2. QED
    BY <2>1 DEF NoRound, RoundOK, TurnCanAct
<1>2. CASE k <= Len(StreetBets) /\ ~AtMostOne(live) /\ StreetBets[k] /\ ~AtMostOne(canAct)
  <2>1. /\ street' = k /\ phase' = "betting" /\ acted' = act \ live
        /\ IF k = 1
             THEN startBettingRound(live, first, RoundIncrement) /\ committed' = com
             ELSE /\ startBettingRound(live, FirstAfter(button', canAct), 0)
                  /\ committed' = [s \in Seats |-> 0]
    <3>1. ~(k > Len(StreetBets))
      BY <1>2, StructureAssumption
    <3>2. QED
      BY <1>2, <3>1, Zenon DEF dealAndMaybeStartRound, resetStreetContributions
  <2>2. canAct # {} /\ canAct \in SUBSET Seats
    BY <1>2, Zenon DEF AtMostOne
  <2>3. RoundIncrement \in Nat
    BY DEF RoundIncrement
  <2>4. /\ inRound' = TRUE /\ minRaise' \in Nat /\ currentBet' \in Nat
        /\ committed' \in [Seats -> Nat]
        /\ \A s \in Seats : committed'[s] \in {0, com[s]}
    BY <2>1, <2>3 DEF startBettingRound
  <2>5. \E x \in Seats : turn' = FirstAfter(x, canAct)
    <3>1. CASE k = 1
      BY <2>1, <3>1, Zenon DEF startBettingRound
    <3>2. CASE k # 1
      BY <2>1, <3>2, Zenon DEF startBettingRound
    <3>3. QED
      BY <3>1, <3>2
  <2>6. turn' \in canAct
    <3>1. PICK x \in Seats : turn' = FirstAfter(x, canAct)
      BY <2>5
    <3>2. FirstAfter(x, canAct) \in canAct
      BY <2>2, FirstAfterIn, Zenon
    <3>3. QED
      BY <3>1, <3>2, Zenon
  <2>7. QED
    BY <2>1, <2>2, <2>4, <2>6 DEF RoundOK, TurnCanAct, CanAct, activeHandPlayers
<1>3. QED
  BY <1>1, <1>2, Zenon
\* The tail of applyAction: if folded' and allIn' are settled, the round that
\* goes on, closes or moves to the next street is sound.
LEMMA FinishKeepsRound ==
  ASSUME IInv, phase = "betting", inRound,
         NEW s \in Seats, NEW com \in [Seats -> Nat], NEW act \in SUBSET dealt,
         NEW bet \in Nat, NEW increment \in Nat,
         dealt' = dealt, button' = button,
         FinishAction(s, com, act, bet, increment)
  PROVE  RoundOK' /\ \A p \in Seats : committed'[p] \in {0, com[p]}
<1> DEFINE live == dealt' \ folded'
           canAct == live \ allIn'
<1>1. /\ street \in Nat \ {0} /\ button \in Seats /\ dealt \subseteq Seats
      /\ street + 1 \in Nat \ {0} /\ street + 1 # 1
  BY DEF IInv, TypeOK
<1>2. CASE ~isBettingRoundClosed(live, allIn', com, act, bet)
  <2>1. /\ turn' = FirstAfter(s, canAct) /\ inRound' = TRUE
        /\ currentBet' = bet /\ minRaise' = increment
        /\ committed' = com /\ acted' = act /\ phase' = phase /\ street' = street
    BY <1>2, Zenon DEF FinishAction
  <2>2. canAct # {} /\ canAct \in SUBSET Seats
    BY <1>1, <1>2 DEF isBettingRoundClosed
  <2>3. turn' \in canAct
    BY <2>1, <2>2, FirstAfterIn
  <2>4. QED
    BY <1>1, <2>1, <2>2, <2>3 DEF RoundOK, TurnCanAct, CanAct, activeHandPlayers
<1>3. CASE isBettingRoundClosed(live, allIn', com, act, bet) /\ AtMostOne(live)
  <2>1. /\ phase' = "showdown" /\ NoRound
        /\ committed' = com /\ acted' = act /\ street' = street
    BY <1>3, Zenon DEF FinishAction
  <2>2. QED
    BY <1>1, <2>1 DEF RoundOK, TurnCanAct, NoRound
<1>4. CASE isBettingRoundClosed(live, allIn', com, act, bet) /\ ~AtMostOne(live)
  <2>1. dealAndMaybeStartRound(street + 1, live, allIn', com, act, NoSeat)
    BY <1>4, Zenon DEF FinishAction
  <2>2. QED
    BY <1>1, <2>1, DealKeepsRound
<1>5. QED
  BY <1>2, <1>3, <1>4

-----------------------------------------------------------------------------
\* RoundOK, exact chips and the untouched table give back the invariant.
LEMMA RoundGivesInvariant ==
  ASSUME RoundOK',
         active' \subseteq Seats, button' \in Seats, dealt' \subseteq Seats,
         folded' \subseteq dealt',
         stack' \in [Seats -> Nat], startStack' \in [Seats -> Nat],
         contributed' \in [Seats -> Nat],
         ChipsBalance'
  PROVE  IInv'
<1>1. allIn' \subseteq dealt'
  BY DEF ChipsBalance, RoundOK
<1>2. QED
  BY <1>1 DEF IInv, TypeOK, RoundOK

\* Forced bets never take more than the stack.
LEMMA PostedIsCovered ==
  ASSUME TypeOK, NEW s \in Seats, NEW players, NEW sb, NEW bb
  PROVE  Posted(s, players, sb, bb) \in Nat /\ Posted(s, players, sb, bb) <= stack[s]
BY ForcedBetsAssumption DEF TypeOK, Posted, Least

\* The small blind is a seat at the table.
LEMMA SmallBlindIsSeat ==
  ASSUME NEW btn \in Seats, NEW players \in SUBSET Seats, players # {}
  PROVE  SmallBlindSeat(players, btn) \in Seats
BY FirstAfterIn DEF SmallBlindSeat

\* A hand just dealt satisfies the invariant.
LEMMA InitHandInv ==
  ASSUME TypeOK, InitHand
  PROVE  IInv'
<1> DEFINE sb == SmallBlindSeat(dealt', button')
           bb == FirstAfter(sb, dealt')
           posted == [s \in Seats |-> Posted(s, dealt', sb, bb)]
           first == FirstAfter(bb, dealt' \ allIn')
<1>1. /\ button' = nextButtonSeatIndex /\ dealt' = activeSeats /\ startStack' = stack
      /\ folded' = {} /\ active' = active
      /\ stack' = [s \in Seats |-> stack[s] - posted[s]]
      /\ contributed' = posted
      /\ allIn' = {s \in dealt' : stack'[s] = 0}
      /\ dealAndMaybeStartRound(1, dealt', allIn', posted, {}, first)
      /\ ~AtMostOne(activeSeats)
  BY Zenon DEF InitHand
<1>2. dealt' \in SUBSET Seats /\ dealt' # {}
  BY <1>1 DEF activeSeats, TypeOK, AtMostOne
<1>3. button' \in Seats
  <2>1. NumSeats - 1 \in Seats
    BY NumSeatsAssumption DEF Seats
  <2>2. button \in Seats \cup {NoSeat}
    BY DEF TypeOK
  <2>3. QED
    BY <1>1, <1>2, <2>1, <2>2, FirstAfterIn DEF nextButtonSeatIndex
<1>4. sb \in Seats /\ bb \in Seats
  BY <1>2, <1>3, SmallBlindIsSeat, FirstAfterIn
<1>5. \A s \in Seats : posted[s] \in Nat /\ posted[s] <= stack[s]
  BY PostedIsCovered
<1>6. posted \in [Seats -> Nat] /\ stack' \in [Seats -> Nat] /\ startStack' \in [Seats -> Nat]
  BY <1>1, <1>5 DEF TypeOK
<1>7. RoundOK' /\ \A s \in Seats : committed'[s] \in {0, posted[s]}
  <2>1. dealt' \ folded' = dealt'
    BY <1>1
  <2>2. dealAndMaybeStartRound(1, dealt' \ folded', allIn', posted, {}, first)
    BY <1>1, <2>1
  <2>3. \E x \in Seats : first = FirstAfter(x, (dealt' \ folded') \ allIn')
    BY <1>4, <2>1
  <2> HIDE DEF posted, first
  <2>4. QED
    BY <1>2, <1>3, <1>6, <2>2, <2>3, DealKeepsRound
<1>8. ChipsBalance'
  <2>1. stack \in [Seats -> Nat]
    BY DEF TypeOK
  <2> HIDE DEF posted
  <2>2. \A s \in Seats : stack'[s] + contributed'[s] = startStack'[s]
    BY <1>1, <1>5, <2>1
  <2>3. \A s \in Seats : committed'[s] <= contributed'[s]
    BY <1>1, <1>5, <1>7
  <2>4. QED
    BY <1>1, <2>2, <2>3, Zenon DEF ChipsBalance
<1>9. QED
  BY <1>1, <1>2, <1>3, <1>6, <1>7, <1>8, RoundGivesInvariant DEF TypeOK

\* The seat to act is dealt in, has chips and has not folded.
LEMMA TurnSeat ==
  ASSUME IInv, NEW s \in Seats, HasTurn(s)
  PROVE  /\ phase = "betting" /\ inRound /\ s \in dealt /\ s \notin folded
         /\ s \notin allIn /\ stack[s] > 0 /\ button \in Seats
         /\ dealt \subseteq Seats /\ acted \cup {s} \in SUBSET dealt
BY DEF IInv, TypeOK, TurnCanAct, HasTurn, CanAct, activeHandPlayers, ChipsBalance

\* commitChips keeps chips with their seat and the all-in flag exact.
LEMMA CommitKeepsChips ==
  ASSUME IInv, NEW s \in Seats, HasTurn(s), NEW amount \in Int,
         amount <= stack[s], committed[s] + amount >= 0,
         commitChips(s, amount), startStack' = startStack, dealt' = dealt, phase' # "none",
         \A p \in Seats : committed'[p] \in {0, [committed EXCEPT ![s] = @ + amount][p]}
  PROVE  /\ stack' \in [Seats -> Nat] /\ contributed' \in [Seats -> Nat]
         /\ ChipsBalance'
<1>1. /\ stack' = [stack EXCEPT ![s] = @ - amount]
      /\ contributed' = [contributed EXCEPT ![s] = @ + amount]
      /\ allIn' = IF stack[s] = amount THEN allIn \cup {s} ELSE allIn
  BY DEF commitChips
<1>2. /\ stack \in [Seats -> Nat] /\ contributed \in [Seats -> Nat]
      /\ committed \in [Seats -> Nat] /\ startStack \in [Seats -> Nat]
      /\ \A p \in Seats : stack[p] + contributed[p] = startStack[p]
      /\ \A p \in Seats : committed[p] <= contributed[p]
  BY DEF IInv, TypeOK, ChipsBalance
<1>3. \A p \in Seats : /\ stack'[p] \in Nat /\ contributed'[p] \in Nat
                       /\ stack'[p] + contributed'[p] = startStack[p]
                       /\ committed'[p] <= contributed'[p]
  BY <1>1, <1>2
<1>4. stack' \in [Seats -> Nat] /\ contributed' \in [Seats -> Nat]
  BY <1>1, <1>2, <1>3
<1>5. allIn' = {p \in dealt' : stack'[p] = 0}
  <2>1. allIn = {p \in dealt : stack[p] = 0} /\ s \in dealt /\ s \notin allIn /\ dealt \subseteq Seats
    BY TurnSeat DEF IInv, ChipsBalance
  <2>2. QED
    BY <1>1, <1>2, <2>1
<1>6. QED
  BY <1>3, <1>4, <1>5 DEF ChipsBalance

-----------------------------------------------------------------------------
\* The four actions of a player, the streets dealt without one, and the end.
LEMMA FoldInv ==
  ASSUME IInv, NEW s \in Seats, Fold(s)
  PROVE  IInv'
<1>1. /\ HasTurn(s) /\ folded' = folded \cup {s}
      /\ UNCHANGED <<active, stack, button, dealt, allIn, contributed, startStack>>
      /\ FinishAction(s, committed, acted \cup {s}, currentBet, minRaise)
  BY Zenon DEF Fold
<1>2. IInv /\ TypeOK /\ ChipsBalance
  BY DEF IInv
<1>3. RoundOK' /\ \A p \in Seats : committed'[p] \in {0, committed[p]}
  BY <1>1, <1>2, TurnSeat, FinishKeepsRound DEF TypeOK
<1>4. ChipsBalance'
  BY <1>1, <1>2, <1>3, TurnSeat DEF ChipsBalance, TypeOK, RoundOK
<1>5. QED
  BY <1>1, <1>2, <1>3, <1>4, TurnSeat, RoundGivesInvariant DEF TypeOK

\* A check keeps the invariant.
LEMMA CheckInv ==
  ASSUME IInv, NEW s \in Seats, Check(s)
  PROVE  IInv'
<1>1. /\ HasTurn(s)
      /\ UNCHANGED <<active, stack, button, dealt, folded, allIn, contributed, startStack>>
      /\ FinishAction(s, committed, acted \cup {s}, currentBet, minRaise)
  BY Zenon DEF Check
<1>2. IInv /\ TypeOK /\ ChipsBalance
  BY DEF IInv
<1>3. RoundOK' /\ \A p \in Seats : committed'[p] \in {0, committed[p]}
  BY <1>1, <1>2, TurnSeat, FinishKeepsRound DEF TypeOK
<1>4. ChipsBalance'
  BY <1>1, <1>2, <1>3, TurnSeat DEF ChipsBalance, TypeOK, RoundOK
<1>5. QED
  BY <1>1, <1>2, <1>3, <1>4, TurnSeat, RoundGivesInvariant DEF TypeOK

\* A call or a raise: chips move from the stack of s into the pot.
LEMMA CommitInv ==
  ASSUME IInv, NEW s \in Seats, HasTurn(s), NEW amount \in Int,
         amount <= stack[s], committed[s] + amount >= 0,
         commitChips(s, amount), UNCHANGED <<active, button, dealt, folded, startStack>>,
         NEW com, com = [committed EXCEPT ![s] = @ + amount],
         NEW act \in SUBSET dealt, NEW bet \in Nat, NEW increment \in Nat,
         FinishAction(s, com, act, bet, increment)
  PROVE  IInv'
<1>1. IInv /\ TypeOK
  BY DEF IInv
<1>2. com \in [Seats -> Nat]
  BY <1>1 DEF TypeOK
<1>3. RoundOK' /\ \A p \in Seats : committed'[p] \in {0, com[p]}
  BY <1>1, <1>2, TurnSeat, FinishKeepsRound
<1>4. /\ stack' \in [Seats -> Nat] /\ contributed' \in [Seats -> Nat]
      /\ ChipsBalance'
  <2>1. phase' # "none"
    BY <1>3 DEF RoundOK
  <2>2. \A p \in Seats : committed'[p] \in {0, [committed EXCEPT ![s] = @ + amount][p]}
    BY <1>3, Zenon
  <2>3. QED
    BY <2>1, <2>2, CommitKeepsChips
<1>5. QED
  BY <1>1, <1>3, <1>4, TurnSeat, RoundGivesInvariant DEF TypeOK

\* A call keeps the invariant.
LEMMA CallInv ==
  ASSUME IInv, NEW s \in Seats, Call(s)
  PROVE  IInv'
<1> DEFINE amount == Least(currentBet - committed[s], stack[s])
           com == [committed EXCEPT ![s] = @ + amount]
<1>1. /\ HasTurn(s) /\ CallAccepted(s) /\ commitChips(s, amount)
      /\ UNCHANGED <<active, button, dealt, folded, startStack>>
      /\ FinishAction(s, com, acted \cup {s}, currentBet, minRaise)
  BY Zenon DEF Call
<1>2. /\ stack[s] \in Nat /\ committed[s] \in Nat /\ currentBet \in Nat /\ minRaise \in Nat
      /\ acted \cup {s} \in SUBSET dealt
  BY <1>1, TurnSeat DEF IInv, TypeOK
<1>3. amount \in Int /\ amount <= stack[s] /\ committed[s] + amount >= 0
  BY <1>1, <1>2 DEF CallAccepted, Least
<1> HIDE DEF amount
<1>4. QED
  BY <1>1, <1>2, <1>3, CommitInv

\* A raise keeps the invariant.
LEMMA RaiseInv ==
  ASSUME IInv, NEW s \in Seats, NEW to \in 1 .. committed[s] + stack[s], Raise(s, to)
  PROVE  IInv'
<1> DEFINE amount == to - committed[s]
           raiseSize == to - currentBet
           reopens == raiseSize >= minRaise \/ currentBet = 0
           com == [committed EXCEPT ![s] = to]
           act == IF reopens THEN (acted \ CanAct) \cup {s} ELSE acted \cup {s}
           increment == IF reopens THEN raiseSize ELSE minRaise
<1>1. /\ HasTurn(s) /\ RaiseAccepted(s, to) /\ commitChips(s, amount)
      /\ UNCHANGED <<active, button, dealt, folded, startStack>>
      /\ FinishAction(s, com, act, to, increment)
  BY Zenon DEF Raise
<1>2. /\ stack[s] \in Nat /\ committed \in [Seats -> Nat] /\ committed[s] \in Nat
      /\ currentBet \in Nat /\ minRaise \in Nat
      /\ acted \cup {s} \in SUBSET dealt
  BY <1>1, TurnSeat DEF IInv, TypeOK
<1>3. /\ to \in Nat /\ amount \in Int /\ amount <= stack[s] /\ committed[s] + amount >= 0
      /\ to > currentBet
  BY <1>1, <1>2 DEF RaiseAccepted
<1>4. com = [committed EXCEPT ![s] = @ + amount]
  <2>1. committed[s] + amount = to
    BY <1>2, <1>3
  <2>2. QED
    BY <2>1, Zenon
<1>5. act \in SUBSET dealt
  BY <1>2
<1>6. increment \in Nat
  BY <1>2, <1>3
<1> HIDE DEF amount, com, act, increment
<1>7. QED
  BY <1>1, <1>3, <1>4, <1>5, <1>6, CommitInv

\* Dealing on after an all-in keeps the invariant.
LEMMA ContinueDealingInv ==
  ASSUME IInv, ContinueDealing
  PROVE  IInv'
<1>1. /\ phase = "betting"
      /\ UNCHANGED <<active, stack, button, dealt, folded, allIn, contributed, startStack>>
      /\ dealAndMaybeStartRound(street + 1, dealt \ folded, allIn, committed, acted, NoSeat)
  BY Zenon DEF ContinueDealing, hasMoreDealing, activeHandPlayers
<1>2. TypeOK /\ ChipsBalance /\ button \in Seats /\ street + 1 \in Nat \ {0}
      /\ street + 1 # 1
  BY <1>1 DEF IInv, TypeOK
<1>3. dealAndMaybeStartRound(street + 1, dealt' \ folded', allIn', committed, acted, NoSeat)
  BY <1>1
<1>4. RoundOK' /\ \A p \in Seats : committed'[p] \in {0, committed[p]}
  BY <1>1, <1>2, <1>3, DealKeepsRound DEF TypeOK
<1>5. ChipsBalance'
  BY <1>1, <1>2, <1>4 DEF ChipsBalance, TypeOK, RoundOK
<1>6. QED
  BY <1>1, <1>2, <1>4, <1>5, RoundGivesInvariant DEF TypeOK

\* The invariant holds at the start.
LEMMA InitInv == Init => IInv
<1> SUFFICES ASSUME Init PROVE IInv
  OBVIOUS
<1>1. /\ active \in SUBSET Seats
      /\ stack \in [Seats -> Stacks \cup {0}] /\ startStack = stack
      /\ button \in Seats \cup {NoSeat}
      /\ phase = "none" /\ street = 0
      /\ dealt = {} /\ folded = {} /\ allIn = {} /\ acted = {}
      /\ committed = [s \in Seats |-> 0] /\ contributed = [s \in Seats |-> 0]
      /\ inRound = FALSE /\ currentBet = 0 /\ minRaise = 0 /\ turn = NoSeat
  BY Zenon DEF Init
<1>2. stack \in [Seats -> Nat]
  <2>1. stack \in [Seats -> Stacks \cup {0}]
    BY <1>1, Zenon
  <2>2. Stacks \cup {0} \subseteq Nat
    BY StacksAssumption
  <2>3. QED
    BY <2>1, <2>2
<1>3. TypeOK
  BY <1>1, <1>2 DEF TypeOK
<1>4. ChipsBalance
  BY <1>1, <1>2 DEF ChipsBalance
<1>5. QED
  BY <1>1, <1>3, <1>4 DEF IInv, TurnCanAct

\* Every step keeps the invariant.
LEMMA NextInv == IInv /\ [Next]_bettingVars => IInv'
<1> SUFFICES ASSUME IInv, [Next]_bettingVars PROVE IInv'
  OBVIOUS
<1>1. CASE InitHand
  BY <1>1, InitHandInv DEF IInv
<1>2. CASE \E s \in Seats : ApplyAction(s)
  <2>1. PICK s \in Seats : ApplyAction(s)
    BY <1>2
  <2>2. QED
    BY <2>1, FoldInv, CheckInv, CallInv, RaiseInv DEF ApplyAction
<1>3. CASE ContinueDealing
  BY <1>3, ContinueDealingInv
<1>4. CASE UNCHANGED bettingVars
  BY <1>4 DEF bettingVars, handVars, roundVars, IInv, TypeOK, ChipsBalance,
              TurnCanAct, CanAct, activeHandPlayers
<1>5. QED
  BY <1>1, <1>2, <1>3, <1>4, Zenon DEF Next, Rest

-----------------------------------------------------------------------------
\* The strengthened invariant holds throughout every hand.
THEOREM InvariantHolds == Spec => []IInv
BY InitInv, NextInv, PTL DEF Spec

\* Every variable keeps its type; in particular no stack, however deep the forced
\* bets and the raises, ever goes below zero.
THEOREM TypeCorrect == Spec => []TypeOK
<1>1. IInv => TypeOK
  BY DEF IInv
<1>2. QED
  BY <1>1, InvariantHolds, PTL

\* No chip is lost or created while a hand is bet, and nobody is treated as
\* all-in who still has chips, at any table size and under any forced bets.
THEOREM ChipsConserved == Spec => []ChipsStayWithTheirSeat
<1>1. IInv => ChipsStayWithTheirSeat
  BY DEF IInv, ChipsStayWithTheirSeat
<1>2. QED
  BY <1>1, InvariantHolds, PTL

\* An open betting round always waits for a seat that can answer it.
THEOREM TurnAlwaysAnswerable == Spec => []TurnCanAct
<1>1. IInv => TurnCanAct
  BY DEF IInv
<1>2. QED
  BY <1>1, InvariantHolds, PTL

-----------------------------------------------------------------------------
(* Stakes: who has put in how much when a round closes.                    *)

\* Blinds are posted only when the first street is bet on, where they are called.  So it is
\* in every game definition of packages/game-engine (the bomb pots have antes alone).
BlindsAreCalled ==
  \/ StreetBets # <<>> /\ StreetBets[1]
  \/ SmallBlind = 0 /\ BigBlind = 0

\* A first street that is bet on has no antes, which would count toward its bet, and no
\* small blind above that bet.  So it is in every game definition of packages/game-engine;
\* settings of the owner may change it.
BlindsFitTheBet ==
  StreetBets # <<>> /\ StreetBets[1] => Ante = 0 /\ SmallBlind <= RoundIncrement

\* Players with chips have put in the same, but for what they have put in on a street that
\* is still bet on.
EvenStakes ==
  \A p, q \in CanAct : IF inRound THEN contributed[p] - committed[p] = contributed[q] - committed[q]
                                  ELSE contributed[p] = contributed[q]

Paid(amount) == \E p \in Seats : contributed[p] >= amount

\* A raise by the minimum is within the pot: somebody has put as much in, or has bet it.
RaiseCovered ==
  /\ inRound => minRaise >= 1 /\ (minRaise <= currentBet \/ minRaise = 1 \/ Paid(minRaise))
  /\ ~AtMostOne(CanAct) =>
       RoundIncrement = 1 \/ Paid(RoundIncrement) \/ (inRound /\ currentBet >= RoundIncrement)

\* Nobody has put in more than the bet to match.
NoOverpay == inRound => \A p \in Seats : committed[p] <= currentBet

\* The round a street may open.
LEMMA DealOutcome ==
  ASSUME NEW k \in Nat \ {0}, NEW live, NEW broke, NEW com, NEW act, NEW first,
         dealAndMaybeStartRound(k, live, broke, com, act, first)
  PROVE  \/ /\ inRound' = FALSE
            /\ k = 1 /\ StreetBets # <<>> /\ StreetBets[1] =>
                 AtMostOne(live) \/ AtMostOne(live \ broke)
         \/ /\ inRound' = TRUE /\ minRaise' = RoundIncrement /\ k <= Len(StreetBets) /\ StreetBets[k]
            /\ currentBet' = (IF k = 1 THEN RoundIncrement ELSE 0)
            /\ committed' = (IF k = 1 THEN com ELSE [s \in Seats |-> 0])
            /\ ~AtMostOne(live \ broke)
<1>1. CASE ~(k <= Len(StreetBets) /\ ~AtMostOne(live) /\ StreetBets[k] /\ ~AtMostOne(live \ broke))
  <2>1. NoRound
    BY <1>1, Zenon DEF dealAndMaybeStartRound
  <2>2. StreetBets # <<>> => Len(StreetBets) >= 1
    BY StructureAssumption
  <2>3. QED
    BY <1>1, <2>1, <2>2 DEF NoRound
<1>2. CASE k <= Len(StreetBets) /\ ~AtMostOne(live) /\ StreetBets[k] /\ ~AtMostOne(live \ broke)
  <2>1. ~(k > Len(StreetBets))
    BY <1>2, StructureAssumption
  <2>2. IF k = 1 THEN startBettingRound(live, first, RoundIncrement) /\ committed' = com
        ELSE /\ startBettingRound(live, FirstAfter(button', live \ broke), 0)
             /\ committed' = [s \in Seats |-> 0]
    BY <1>2, <2>1, Zenon DEF dealAndMaybeStartRound, resetStreetContributions
  <2>3. QED
    BY <1>2, <2>2 DEF startBettingRound
<1>3. QED
  BY <1>1, <1>2, Zenon

\* The tail of applyAction: the round goes on, or everybody who can still act has matched.
LEMMA FinishOutcome ==
  ASSUME IInv, phase = "betting", dealt' = dealt,
         NEW s, NEW com, NEW act, NEW bet, NEW increment,
         FinishAction(s, com, act, bet, increment)
  PROVE  \/ inRound' = TRUE /\ currentBet' = bet /\ minRaise' = increment /\ committed' = com
         \/ /\ AtMostOne(CanAct') \/ \A p \in CanAct' : com[p] = bet
            /\ \/ inRound' = FALSE
               \/ /\ inRound' = TRUE /\ minRaise' = RoundIncrement /\ currentBet' = 0
                  /\ committed' = [p \in Seats |-> 0] /\ ~AtMostOne(CanAct')
<1> DEFINE live == dealt' \ folded'
           canAct == live \ allIn'
           closed == isBettingRoundClosed(live, allIn', com, act, bet)
<1>1. street + 1 \in Nat \ {0} /\ street + 1 # 1
  BY DEF IInv, TypeOK
<1>2. live = dealt \ folded' /\ CanAct' = canAct
  BY DEF CanAct, activeHandPlayers
<1>3. CASE ~closed
  BY <1>2, <1>3, Zenon DEF FinishAction
<1>4. CASE closed
  <2>1. AtMostOne(CanAct') \/ \A p \in CanAct' : com[p] = bet
    BY <1>2, <1>4 DEF isBettingRoundClosed, AtMostOne
  <2>2. \/ NoRound
        \/ dealAndMaybeStartRound(street + 1, live, allIn', com, act, NoSeat)
    BY <1>2, <1>4, Zenon DEF FinishAction
  <2>3. CASE NoRound
    BY <2>1, <2>3 DEF NoRound
  <2>4. CASE dealAndMaybeStartRound(street + 1, live, allIn', com, act, NoSeat)
    <3>1. \/ inRound' = FALSE
          \/ inRound' = TRUE /\ minRaise' = RoundIncrement /\ currentBet' = 0
             /\ committed' = [p \in Seats |-> 0] /\ ~AtMostOne(CanAct')
      BY <1>1, <1>2, <2>4, DealOutcome
    <3>2. QED
      BY <2>1, <3>1
  <2>5. QED
    BY <2>2, <2>3, <2>4
<1>5. QED
  BY <1>3, <1>4

\* An action that contributes what it commits leaves even stakes behind.
LEMMA FinishKeepsEven ==
  ASSUME IInv, EvenStakes, phase = "betting", inRound,
         NEW s, NEW com \in [Seats -> Nat], NEW act, NEW bet, NEW increment,
         dealt' = dealt, FinishAction(s, com, act, bet, increment),
         CanAct' \subseteq CanAct, contributed' \in [Seats -> Nat],
         \A p \in Seats : contributed'[p] - com[p] = contributed[p] - committed[p]
  PROVE  EvenStakes'
<1>1. CanAct' \subseteq Seats
  BY DEF IInv, TypeOK, CanAct, activeHandPlayers
<1>2. \A p, q \in CanAct' : contributed'[p] - com[p] = contributed'[q] - com[q]
  BY <1>1 DEF EvenStakes
<1>3. CASE inRound' = TRUE /\ committed' = com
  BY <1>2, <1>3 DEF EvenStakes
<1>4. CASE AtMostOne(CanAct')
  BY <1>4 DEF EvenStakes, AtMostOne
<1>5. CASE /\ \A p \in CanAct' : com[p] = bet
           /\ inRound' = FALSE \/ (inRound' = TRUE /\ committed' = [p \in Seats |-> 0])
  <2>1. \A p \in CanAct' : contributed'[p] \in Int /\ com[p] \in Int /\ com[p] = bet
    BY <1>1, <1>5
  <2>2. \A p, q \in CanAct' : contributed'[p] = contributed'[q]
    BY <1>2, <2>1
  <2>3. CASE inRound' = FALSE
    BY <2>2, <2>3 DEF EvenStakes
  <2>4. CASE inRound' = TRUE /\ committed' = [p \in Seats |-> 0]
    <3>1. \A p \in CanAct' : committed'[p] = 0
      BY <1>1, <2>4
    <3>2. QED
      BY <2>2, <2>4, <3>1 DEF EvenStakes
  <2>5. QED
    BY <1>5, <2>3, <2>4
<1>6. QED
  BY <1>3, <1>4, <1>5, FinishOutcome

\* An action that takes nothing back, to a bet that is not lowered, leaves room for a raise.
LEMMA FinishKeepsCovered ==
  ASSUME IInv, RaiseCovered, phase = "betting", inRound,
         NEW s, NEW com \in [Seats -> Nat], NEW act, NEW bet \in Nat, NEW increment \in Nat,
         dealt' = dealt, FinishAction(s, com, act, bet, increment),
         CanAct' \subseteq CanAct, contributed' \in [Seats -> Nat],
         \A p \in Seats : contributed'[p] >= contributed[p] /\ contributed'[p] >= com[p],
         bet >= currentBet, increment >= 1, increment <= bet \/ increment = minRaise
  PROVE  RaiseCovered'
<1>1. /\ contributed \in [Seats -> Nat]
      /\ CanAct \subseteq Seats /\ CanAct' \subseteq Seats
      /\ currentBet \in Nat /\ minRaise \in Nat
  BY DEF IInv, TypeOK, CanAct, activeHandPlayers
<1>2. RoundIncrement \in Nat /\ RoundIncrement >= 1
  BY ForcedBetsAssumption DEF RoundIncrement
<1>3. ASSUME NEW amount \in Nat, Paid(amount) PROVE Paid(amount)'
  BY <1>1, <1>3 DEF Paid
<1>4. ~AtMostOne(CanAct') => ~AtMostOne(CanAct)
  BY DEF AtMostOne
<1>5. CASE inRound' = TRUE /\ currentBet' = bet /\ minRaise' = increment /\ committed' = com
  <2>1. minRaise' >= 1 /\ (minRaise' <= currentBet' \/ minRaise' = 1 \/ Paid(minRaise)')
    <3>1. CASE increment <= bet
      BY <1>5, <3>1
    <3>2. CASE increment = minRaise
      <4>1. minRaise <= currentBet \/ minRaise = 1 \/ Paid(minRaise)
        BY DEF RaiseCovered
      <4>2. CASE Paid(minRaise)
        <5>1. PICK p \in Seats : contributed[p] >= minRaise
          BY <4>2 DEF Paid
        <5>2. contributed'[p] >= minRaise'
          BY <1>1, <1>5, <3>2, <5>1
        <5>3. QED
          BY <1>5, <5>2 DEF Paid
      <4>3. QED
        BY <1>1, <1>5, <3>2, <4>1, <4>2
    <3>3. QED
      BY <3>1, <3>2
  <2>2. ~AtMostOne(CanAct') =>
          RoundIncrement = 1 \/ Paid(RoundIncrement)' \/ currentBet' >= RoundIncrement
    BY <1>1, <1>2, <1>3, <1>4, <1>5 DEF RaiseCovered
  <2>3. QED
    BY <1>5, <2>1, <2>2 DEF RaiseCovered, RoundIncrement, Paid
<1>6. CASE /\ AtMostOne(CanAct') \/ \A p \in CanAct' : com[p] = bet
           /\ \/ inRound' = FALSE
              \/ inRound' = TRUE /\ minRaise' = RoundIncrement /\ ~AtMostOne(CanAct')
  <2>1. ~AtMostOne(CanAct') => RoundIncrement = 1 \/ Paid(RoundIncrement)'
    <3> SUFFICES ASSUME ~AtMostOne(CanAct'), RoundIncrement # 1 PROVE Paid(RoundIncrement)'
      OBVIOUS
    <3>1. CASE Paid(RoundIncrement)
      BY <1>2, <1>3, <3>1
    <3>2. CASE currentBet >= RoundIncrement
      <4>1. PICK p \in CanAct' : com[p] = bet
        BY <1>6 DEF AtMostOne
      <4>2. contributed'[p] >= RoundIncrement
        BY <1>1, <1>2, <3>2, <4>1
      <4>3. QED
        BY <1>1, <4>1, <4>2 DEF Paid, RoundIncrement
    <3>3. QED
      BY <1>4, <3>1, <3>2 DEF RaiseCovered
  <2>2. inRound' => minRaise' >= 1 /\ (minRaise' = 1 \/ Paid(minRaise)')
    BY <1>2, <1>6, <2>1 DEF Paid, RoundIncrement
  <2>3. QED
    BY <2>1, <2>2 DEF RaiseCovered, RoundIncrement
<1>7. QED
  BY <1>5, <1>6, FinishOutcome

\* The players who can act grow fewer, and a raise leaves its maker in the hand.
LEMMA FewerCanAct ==
  ASSUME dealt' = dealt, folded \subseteq folded', allIn \subseteq allIn'
  PROVE  CanAct' \subseteq CanAct
BY DEF CanAct, activeHandPlayers

\* What every action of the seat to act comes down to.  A raise may even take chips back,
\* when an ante has made a player commit more than the bet.
Commits(s, com, act, bet, increment) ==
  /\ phase = "betting" /\ inRound /\ dealt' = dealt
  /\ FinishAction(s, com, act, bet, increment)
  /\ CanAct' \subseteq CanAct
  /\ com \in [Seats -> Nat] /\ contributed' \in [Seats -> Nat]
  /\ bet \in Nat /\ increment \in Nat /\ bet >= currentBet
  /\ \A p \in Seats : /\ contributed'[p] - com[p] = contributed[p] - committed[p]
                      /\ com[p] = committed[p] \/ com[p] <= bet
                      /\ currentBet >= committed[s] => contributed'[p] >= contributed[p]
  /\ increment = minRaise \/ (increment >= 1 /\ increment <= bet)

\* An action of any kind is the payment of one player, of nothing in a fold or check.
LEMMA ActionCommits ==
  ASSUME IInv, NEW s \in Seats, ApplyAction(s)
  PROVE  \E com, act, bet, increment : Commits(s, com, act, bet, increment)
<1>1. /\ contributed \in [Seats -> Nat] /\ committed \in [Seats -> Nat] /\ stack \in [Seats -> Nat]
      /\ currentBet \in Nat /\ minRaise \in Nat
      /\ \A p \in Seats : committed[p] <= contributed[p]
  BY DEF IInv, TypeOK, ChipsBalance
<1>2. CASE Fold(s) \/ Check(s)
  <2>1. /\ HasTurn(s) /\ UNCHANGED <<dealt, allIn, contributed>> /\ folded \subseteq folded'
        /\ FinishAction(s, committed, acted \cup {s}, currentBet, minRaise)
    BY <1>2, Zenon DEF Fold, Check
  <2>2. CanAct' \subseteq CanAct
    BY <2>1, FewerCanAct
  <2>3. \A p \in Seats : contributed'[p] - committed[p] = contributed[p] - committed[p]
                         /\ contributed'[p] >= contributed[p]
    BY <1>1, <2>1
  <2>4. Commits(s, committed, acted \cup {s}, currentBet, minRaise)
    BY <1>1, <2>1, <2>2, <2>3 DEF HasTurn, Commits
  <2>5. QED
    BY <2>4, Zenon
<1>3. CASE Call(s)
  <2> DEFINE amount == Least(currentBet - committed[s], stack[s])
             com == [committed EXCEPT ![s] = @ + amount]
  <2>1. /\ HasTurn(s) /\ CallAccepted(s) /\ commitChips(s, amount)
        /\ UNCHANGED <<dealt, folded>>
        /\ FinishAction(s, com, acted \cup {s}, currentBet, minRaise)
    BY <1>3, Zenon DEF Call
  <2>2. amount \in Nat /\ committed[s] + amount <= currentBet
    BY <1>1, <2>1 DEF CallAccepted, Least
  <2> HIDE DEF amount
  <2>3. /\ contributed' = [contributed EXCEPT ![s] = @ + amount] /\ allIn \subseteq allIn'
    BY <2>1 DEF commitChips
  <2>4. CanAct' \subseteq CanAct
    BY <2>1, <2>3, FewerCanAct
  <2>5. com \in [Seats -> Nat] /\ contributed' \in [Seats -> Nat] /\ com[s] <= currentBet
    BY <1>1, <2>2, <2>3
  <2>6. Commits(s, com, acted \cup {s}, currentBet, minRaise)
    BY <1>1, <2>1, <2>2, <2>3, <2>4, <2>5 DEF HasTurn, Commits
  <2>7. QED
    BY <2>6, Zenon
<1>4. CASE \E to \in 1 .. committed[s] + stack[s] : Raise(s, to)
  <2>1. PICK to \in 1 .. committed[s] + stack[s] : Raise(s, to)
    BY <1>4
  <2> DEFINE amount == to - committed[s]
             raiseSize == to - currentBet
             reopens == raiseSize >= minRaise \/ currentBet = 0
             com == [committed EXCEPT ![s] = to]
             act == IF reopens THEN (acted \ CanAct) \cup {s} ELSE acted \cup {s}
             increment == IF reopens THEN raiseSize ELSE minRaise
  <2>2. /\ HasTurn(s) /\ RaiseAccepted(s, to) /\ commitChips(s, amount)
        /\ UNCHANGED <<dealt, folded>>
        /\ FinishAction(s, com, act, to, increment)
    BY <2>1, Zenon DEF Raise
  <2>3. /\ to \in Nat /\ to > currentBet /\ increment \in Nat
        /\ increment = minRaise \/ (increment >= 1 /\ increment <= to)
    BY <1>1, <2>2 DEF RaiseAccepted
  <2>4. /\ contributed' = [contributed EXCEPT ![s] = @ + amount] /\ allIn \subseteq allIn'
    BY <2>2 DEF commitChips
  <2>5. CanAct' \subseteq CanAct
    BY <2>2, <2>4, FewerCanAct
  <2>6. com \in [Seats -> Nat] /\ amount \in Int /\ contributed[s] + amount >= 0
    BY <1>1, <2>3
  <2>7. contributed' \in [Seats -> Nat]
    <3> HIDE DEF amount
    <3>1. QED
      BY <1>1, <2>4, <2>6
  <2>8. \A p \in Seats : /\ contributed'[p] - com[p] = contributed[p] - committed[p]
                         /\ com[p] = committed[p] \/ com[p] <= to
                         /\ currentBet >= committed[s] => contributed'[p] >= contributed[p]
    BY <1>1, <2>3, <2>4
  <2>9. to >= currentBet
    BY <1>1, <2>3
  <2> HIDE DEF com, amount, act, increment
  <2>10. Commits(s, com, act, to, increment)
    BY <2>2, <2>3, <2>5, <2>6, <2>7, <2>8, <2>9 DEF HasTurn, Commits
  <2>11. QED
    BY <2>10, Zenon
<1>5. QED
  BY <1>2, <1>3, <1>4 DEF ApplyAction

\* Every action of a player keeps the stakes even and the next raise within the pot.
LEMMA ActionKeepsStakes ==
  ASSUME IInv, NEW s \in Seats, ApplyAction(s)
  PROVE  /\ EvenStakes => EvenStakes'
         /\ NoOverpay => NoOverpay'
         /\ RaiseCovered /\ NoOverpay => RaiseCovered'
<1>1. PICK com, act, bet, increment : Commits(s, com, act, bet, increment)
  BY ActionCommits, Zenon
<1>2. /\ phase = "betting" /\ inRound /\ dealt' = dealt
      /\ FinishAction(s, com, act, bet, increment)
      /\ CanAct' \subseteq CanAct
      /\ com \in [Seats -> Nat] /\ contributed' \in [Seats -> Nat]
      /\ bet \in Nat /\ increment \in Nat /\ bet >= currentBet
      /\ \A p \in Seats : /\ contributed'[p] - com[p] = contributed[p] - committed[p]
                          /\ com[p] = committed[p] \/ com[p] <= bet
                          /\ currentBet >= committed[s] => contributed'[p] >= contributed[p]
      /\ increment = minRaise \/ (increment >= 1 /\ increment <= bet)
  BY <1>1, Zenon DEF Commits
<1>3. EvenStakes => EvenStakes'
  BY <1>2, FinishKeepsEven
<1>4. ASSUME NoOverpay PROVE NoOverpay' /\ (RaiseCovered => RaiseCovered')
  <2>1. /\ contributed \in [Seats -> Nat] /\ committed \in [Seats -> Nat]
        /\ currentBet \in Nat /\ minRaise \in Nat
        /\ \A p \in Seats : committed[p] <= contributed[p] /\ committed[p] <= currentBet
    BY <1>2, <1>4 DEF IInv, TypeOK, ChipsBalance, NoOverpay
  <2>2. \A p \in Seats : contributed'[p] >= contributed[p] /\ contributed'[p] >= com[p]
    BY <1>2, <2>1
  <2>3. RaiseCovered => increment >= 1 /\ (increment <= bet \/ increment = minRaise)
    BY <1>2, <2>1 DEF RaiseCovered
  <2>4. RaiseCovered => RaiseCovered'
    BY <1>2, <2>2, <2>3, FinishKeepsCovered
  <2>5. \A p \in Seats : com[p] <= bet
    BY <1>2, <2>1
  <2>6. \/ inRound' = FALSE
        \/ inRound' = TRUE /\ currentBet' = bet /\ committed' = com
        \/ inRound' = TRUE /\ currentBet' = 0 /\ committed' = [p \in Seats |-> 0]
    BY <1>2, FinishOutcome
  <2>7. NoOverpay'
    BY <2>5, <2>6 DEF NoOverpay
  <2>8. QED
    BY <2>4, <2>7
<1>5. QED
  BY <1>3, <1>4

\* What is posted before the first street.
LEMMA PostedIs ==
  ASSUME TypeOK, NEW players \in SUBSET activeSeats, NEW p \in players, NEW sb, NEW bb
  PROVE  /\ SmallBlind = 0 /\ BigBlind = 0 =>
              \/ Posted(p, players, sb, bb) = stack[p]
              \/ Posted(p, players, sb, bb) = Ante /\ Ante < stack[p]
         /\ Ante = 0 => Posted(p, players, sb, bb) <= Most(SmallBlind, BigBlind)
BY ForcedBetsAssumption DEF TypeOK, activeSeats, Posted, Least, Most

\* The forced bets leave even stakes, a raise within the pot, and nobody beyond the bet.
LEMMA InitHandStakes ==
  ASSUME IInv, InitHand
  PROVE  /\ BlindsAreCalled => EvenStakes' /\ RaiseCovered'
         /\ BlindsFitTheBet => NoOverpay'
<1> DEFINE sb == SmallBlindSeat(dealt', button')
           bb == FirstAfter(sb, dealt')
           posted == [s \in Seats |-> Posted(s, dealt', sb, bb)]
           first == FirstAfter(bb, dealt' \ allIn')
<1>1. /\ dealt' = activeSeats /\ folded' = {}
      /\ stack' = [s \in Seats |-> stack[s] - posted[s]]
      /\ contributed' = posted
      /\ allIn' = {s \in dealt' : stack'[s] = 0}
      /\ dealAndMaybeStartRound(1, dealt', allIn', posted, {}, first)
      /\ ~AtMostOne(dealt')
  BY Zenon DEF InitHand
<1>2. TypeOK /\ stack \in [Seats -> Nat] /\ dealt' \subseteq Seats
  BY <1>1 DEF IInv, TypeOK, activeSeats
<1>3. CanAct' = dealt' \ allIn' /\ CanAct' \subseteq dealt'
  BY <1>1 DEF CanAct, activeHandPlayers
<1>4. RoundIncrement \in Nat /\ RoundIncrement >= 1
  BY ForcedBetsAssumption DEF RoundIncrement
<1>5. \A p \in Seats : posted[p] = Posted(p, dealt', sb, bb)
  OBVIOUS
<1>6. \A p \in Seats : posted[p] \in Nat /\ posted[p] <= stack[p]
  BY <1>2, PostedIsCovered
<1> HIDE DEF posted, first
<1>7. CASE /\ inRound' = TRUE /\ minRaise' = RoundIncrement /\ StreetBets # <<>> /\ StreetBets[1]
           /\ currentBet' = RoundIncrement /\ committed' = posted
  <2>1. EvenStakes'
    BY <1>1, <1>2, <1>3, <1>6, <1>7 DEF EvenStakes
  <2>2. RaiseCovered'
    BY <1>4, <1>7 DEF RaiseCovered, RoundIncrement
  <2>3. ASSUME BlindsFitTheBet PROVE NoOverpay'
    <3>1. Ante = 0 /\ SmallBlind <= RoundIncrement
      BY <1>7, <2>3 DEF BlindsFitTheBet
    <3>2. Most(SmallBlind, BigBlind) <= RoundIncrement
      BY <3>1, ForcedBetsAssumption DEF Most, RoundIncrement
    <3>3. \A p \in Seats : posted[p] <= RoundIncrement
      <4> SUFFICES ASSUME NEW p \in Seats PROVE posted[p] <= RoundIncrement
        OBVIOUS
      <4>1. CASE p \in dealt'
        <5>1. posted[p] <= Most(SmallBlind, BigBlind)
          BY <1>1, <1>2, <1>5, <3>1, <4>1, PostedIs
        <5>2. QED
          BY <1>4, <1>6, <3>2, <5>1, ForcedBetsAssumption DEF Most
      <4>2. CASE p \notin dealt'
        <5>1. posted[p] = 0
          BY <1>5, <4>2 DEF Posted
        <5>2. QED
          BY <1>4, <5>1
      <4>3. QED
        BY <4>1, <4>2
    <3>4. QED
      BY <1>7, <3>3 DEF NoOverpay
  <2>4. QED
    BY <2>1, <2>2, <2>3
<1>8. CASE inRound' = FALSE /\ (StreetBets # <<>> /\ StreetBets[1] => AtMostOne(CanAct'))
  <2>1. CASE AtMostOne(CanAct')
    BY <1>8, <2>1 DEF AtMostOne, EvenStakes, RaiseCovered, NoOverpay
  <2>2. CASE BlindsAreCalled /\ ~(StreetBets # <<>> /\ StreetBets[1])
    <3>1. SmallBlind = 0 /\ BigBlind = 0
      BY <2>2 DEF BlindsAreCalled
    <3>2. \A p \in CanAct' : contributed'[p] = Ante
      <4> SUFFICES ASSUME NEW p \in CanAct' PROVE posted[p] = Ante
        BY <1>1
      <4>1. p \in dealt' /\ p \in Seats /\ stack[p] - posted[p] # 0
        BY <1>1, <1>2, <1>3
      <4>2. posted[p] = stack[p] \/ posted[p] = Ante
        BY <1>1, <1>2, <1>5, <3>1, <4>1, PostedIs
      <4>3. QED
        BY <1>2, <4>1, <4>2
    <3>3. EvenStakes'
      BY <1>8, <3>2 DEF EvenStakes
    <3>4. RoundIncrement = 1
      BY <3>1 DEF RoundIncrement
    <3>5. QED
      BY <1>8, <3>3, <3>4 DEF RaiseCovered, NoOverpay, RoundIncrement
  <2>3. NoOverpay'
    BY <1>8 DEF NoOverpay
  <2>4. QED
    BY <1>8, <2>1, <2>2, <2>3
<1>9. QED
  <2>1. \/ inRound' = FALSE /\ (StreetBets # <<>> /\ StreetBets[1] =>
                                  AtMostOne(dealt') \/ AtMostOne(dealt' \ allIn'))
        \/ /\ inRound' = TRUE /\ minRaise' = RoundIncrement /\ 1 <= Len(StreetBets) /\ StreetBets[1]
           /\ currentBet' = RoundIncrement /\ committed' = posted
    <3>1. 1 \in Nat \ {0} /\ dealAndMaybeStartRound(1, dealt', allIn', posted, {}, first)
      BY <1>1
    <3>2. \/ /\ inRound' = FALSE
             /\ 1 = 1 /\ StreetBets # <<>> /\ StreetBets[1] =>
                  AtMostOne(dealt') \/ AtMostOne(dealt' \ allIn')
          \/ /\ inRound' = TRUE /\ minRaise' = RoundIncrement /\ 1 <= Len(StreetBets) /\ StreetBets[1]
             /\ currentBet' = (IF 1 = 1 THEN RoundIncrement ELSE 0)
             /\ committed' = (IF 1 = 1 THEN posted ELSE [s \in Seats |-> 0])
             /\ ~AtMostOne(dealt' \ allIn')
      BY <3>1, DealOutcome, Zenon
    <3>3. QED
      BY <3>2, Zenon
  <2>2. 1 <= Len(StreetBets) => StreetBets # <<>>
    BY StructureAssumption
  <2>3. QED
    BY <1>1, <1>3, <1>7, <1>8, <2>1, <2>2

\* A street dealt without a round before it starts from even stakes.
LEMMA ContinueDealingStakes ==
  ASSUME IInv, ContinueDealing
  PROVE  /\ EvenStakes => EvenStakes'
         /\ RaiseCovered => RaiseCovered'
         /\ NoOverpay'
<1>1. /\ ~inRound /\ phase = "betting"
      /\ UNCHANGED <<dealt, folded, allIn, contributed>>
      /\ dealAndMaybeStartRound(street + 1, dealt \ folded, allIn, committed, acted, NoSeat)
  BY Zenon DEF ContinueDealing, hasMoreDealing, activeHandPlayers
<1>2. /\ street + 1 \in Nat \ {0} /\ street + 1 # 1
      /\ contributed \in [Seats -> Nat] /\ CanAct \subseteq Seats
  BY <1>1 DEF IInv, TypeOK, CanAct, activeHandPlayers
<1>3. CanAct' = CanAct /\ CanAct = (dealt \ folded) \ allIn
  BY <1>1 DEF CanAct, activeHandPlayers
<1>4. \/ inRound' = FALSE
      \/ /\ inRound' = TRUE /\ minRaise' = RoundIncrement /\ currentBet' = 0
         /\ committed' = [s \in Seats |-> 0] /\ ~AtMostOne(CanAct)
  BY <1>1, <1>2, <1>3, DealOutcome
<1>5. ASSUME EvenStakes PROVE \A p, q \in CanAct' : contributed'[p] = contributed'[q]
  BY <1>1, <1>3, <1>5 DEF EvenStakes
<1>6. EvenStakes => EvenStakes'
  <2>1. CASE inRound' = FALSE
    BY <1>5, <2>1 DEF EvenStakes
  <2>2. CASE inRound' = TRUE /\ committed' = [s \in Seats |-> 0]
    <3>1. \A p \in CanAct' : committed'[p] = 0
      BY <1>2, <1>3, <2>2
    <3>2. QED
      BY <1>5, <2>2, <3>1 DEF EvenStakes
  <2>3. QED
    BY <1>4, <2>1, <2>2
<1>7. NoOverpay'
  BY <1>4 DEF NoOverpay
<1>8. ASSUME RaiseCovered PROVE RaiseCovered'
  <2>1. Paid(RoundIncrement) => Paid(RoundIncrement)'
    BY <1>1 DEF Paid, RoundIncrement
  <2>2. ~AtMostOne(CanAct') => RoundIncrement = 1 \/ Paid(RoundIncrement)'
    BY <1>1, <1>3, <1>8, <2>1 DEF RaiseCovered
  <2>3. RoundIncrement >= 1
    BY ForcedBetsAssumption DEF RoundIncrement
  <2>4. inRound' => minRaise' >= 1 /\ (minRaise' = 1 \/ Paid(minRaise)')
    BY <1>3, <1>4, <2>2, <2>3 DEF Paid, RoundIncrement
  <2>5. QED
    BY <2>2, <2>4 DEF RaiseCovered, RoundIncrement
<1>9. QED
  BY <1>6, <1>7, <1>8

\* What each condition on the blinds grants, and what both do.
StakesInv ==
  /\ IInv
  /\ BlindsAreCalled => EvenStakes
  /\ BlindsFitTheBet => NoOverpay
  /\ BlindsAreCalled /\ BlindsFitTheBet => RaiseCovered

\* The invariant of the stakes holds at the start.
LEMMA InitStakes == Init => StakesInv
<1> SUFFICES ASSUME Init PROVE StakesInv
  OBVIOUS
<1>1. dealt = {} /\ inRound = FALSE /\ IInv
  BY InitInv, Zenon DEF Init
<1>2. CanAct = {}
  BY <1>1 DEF CanAct, activeHandPlayers
<1>3. QED
  BY <1>1, <1>2 DEF StakesInv, EvenStakes, RaiseCovered, NoOverpay, AtMostOne

\* Every step keeps the invariant of the stakes.
LEMMA NextStakes ==
  ASSUME StakesInv, [Next]_bettingVars
  PROVE  StakesInv'
<1>1. IInv' /\ IInv
  BY NextInv DEF StakesInv
<1>2. BlindsFitTheBet' = BlindsFitTheBet /\ BlindsAreCalled' = BlindsAreCalled
  BY DEF BlindsFitTheBet, BlindsAreCalled, RoundIncrement
<1>3. CASE InitHand
  BY <1>1, <1>2, <1>3, InitHandStakes DEF StakesInv
<1>4. CASE \E s \in Seats : ApplyAction(s)
  BY <1>1, <1>2, <1>4, ActionKeepsStakes DEF StakesInv
<1>5. CASE ContinueDealing
  BY <1>1, <1>2, <1>5, ContinueDealingStakes DEF StakesInv
<1>6. CASE UNCHANGED bettingVars
  <2>1. UNCHANGED <<dealt, folded, allIn, committed, contributed, inRound, currentBet, minRaise>>
    BY <1>6 DEF bettingVars, handVars, roundVars
  <2>2. UNCHANGED CanAct
    BY <2>1 DEF CanAct, activeHandPlayers
  <2>3. QED
    BY <1>1, <1>2, <2>1, <2>2
    DEF StakesInv, EvenStakes, RaiseCovered, Paid, NoOverpay, RoundIncrement
<1>7. QED
  BY <1>3, <1>4, <1>5, <1>6, Zenon DEF Next, Rest

\* Where blinds are called, a betting round never closes, and a hand is never dealt on, while
\* two players with chips have put in different totals; raises short of the minimum, players
\* all-in for less and folds included.
THEOREM StakesAreMatched ==
  ASSUME BlindsAreCalled
  PROVE  Spec => []StakesMatched
<1>1. StakesInv => StakesMatched
  BY DEF StakesInv, EvenStakes, StakesMatched
<1>2. StakesInv /\ [Next]_bettingVars => StakesInv'
  BY NextStakes
<1>3. QED
  BY <1>1, <1>2, InitStakes, PTL DEF Spec

\* What the pot holds is at least what each seat has put in.
LEMMA PotHoldsAll ==
  ASSUME TypeOK, NEW p \in Seats
  PROVE  totalPot \in Nat /\ totalPot >= contributed[p]
<1>1. IsFiniteSet(Seats)
  BY NumSeatsAssumption, FS_Interval DEF Seats
<1>2. contributed \in [Seats -> Nat]
  BY DEF TypeOK
<1>3. totalPot = SumFunctionOnSet(contributed, Seats)
  BY <1>2, Zenon DEF totalPot, SumFunction
<1>4. QED
  BY <1>1, <1>2, <1>3, SumCoversTerms

\* The largest raise on offer reaches the minimum, or all the player has, or is no raise.
LEMMA OfferReachesMinimum ==
  ASSUME IInv, RaiseCovered, NoOverpay, NEW s \in Seats, HasTurn(s), PotLimit
  PROVE  /\ potLimitMaxRaiseTo(s) \in Nat
         /\ potLimitMaxRaiseTo(s) <= committed[s] + stack[s]
         /\ \/ potLimitMaxRaiseTo(s) <= currentBet
            \/ potLimitMaxRaiseTo(s) = committed[s] + stack[s]
            \/ potLimitMaxRaiseTo(s) >= currentBet + minRaise
<1> DEFINE callAmount == Least(Most(0, currentBet - committed[s]), stack[s])
<1>1. /\ committed[s] \in Nat /\ stack[s] \in Nat /\ currentBet \in Nat /\ minRaise \in Nat
      /\ committed[s] <= currentBet /\ inRound
      /\ contributed \in [Seats -> Nat]
      /\ committed[s] <= contributed[s]
  BY DEF IInv, TypeOK, NoOverpay, HasTurn, ChipsBalance
<1>2. callAmount \in Nat
  BY <1>1 DEF Least, Most
<1>3. totalPot \in Nat /\ \A p \in Seats : totalPot >= contributed[p]
  BY PotHoldsAll DEF IInv
<1>4. minRaise >= 1 /\ (minRaise <= currentBet \/ minRaise = 1 \/ Paid(minRaise))
  BY <1>1 DEF RaiseCovered
<1>5. potLimitMaxRaiseTo(s) = Least(currentBet + totalPot + callAmount, committed[s] + stack[s])
  BY Zenon DEF potLimitMaxRaiseTo
<1>6. callAmount \in {stack[s], currentBet - committed[s]}
  BY <1>1 DEF Least, Most
<1> HIDE DEF callAmount
<1>7. CASE callAmount = stack[s]
  BY <1>1, <1>2, <1>3, <1>5, <1>7 DEF Least
<1>8. CASE callAmount = currentBet - committed[s]
  <2>1. totalPot + callAmount >= currentBet
    BY <1>1, <1>2, <1>3, <1>8
  <2>2. totalPot + callAmount >= minRaise \/ totalPot + callAmount = 0
    <3>1. CASE Paid(minRaise)
      BY <1>1, <1>2, <1>3, <3>1 DEF Paid
    <3>2. CASE minRaise <= currentBet \/ minRaise = 1
      BY <1>1, <1>2, <1>3, <2>1, <3>2
    <3>3. QED
      BY <1>4, <3>1, <3>2
  <2>3. QED
    BY <1>1, <1>2, <1>3, <1>5, <2>2 DEF Least
<1>9. QED
  BY <1>6, <1>7, <1>8

\* Where blinds are called and fit the first bet, a player is never refused what
\* getLegalActions offered and never offered less than applyAction takes, in no-limit and
\* pot-limit games: the pot always covers the least raise.
THEOREM OffersAreHonoured ==
  ASSUME BlindsAreCalled, BlindsFitTheBet
  PROVE  Spec => []OffersAreAccepted
<1>1. ASSUME StakesInv PROVE OffersAreAccepted
  <2> SUFFICES ASSUME NEW s \in Seats, HasTurn(s)
               PROVE LET offer == getLegalActions(s)
                     IN  /\ offer.canCheck <=> CheckAccepted(s)
                         /\ offer.canCall => CallAccepted(s)
                         /\ \A to \in 1 .. committed[s] + stack[s] :
                              RaiseAccepted(s, to) <=>
                                /\ offer.canBetOrRaise
                                /\ to \in offer.minRaiseTo .. offer.maxRaiseTo
    BY Zenon DEF OffersAreAccepted
  <2> DEFINE callAmount == Most(0, currentBet - committed[s])
             top == IF PotLimit THEN potLimitMaxRaiseTo(s) ELSE committed[s] + stack[s]
             offer == getLegalActions(s)
  <2>1. IInv /\ RaiseCovered /\ NoOverpay
    BY <1>1 DEF StakesInv
  <2>2. /\ committed[s] \in Nat /\ stack[s] \in Nat /\ stack[s] > 0
        /\ currentBet \in Nat /\ minRaise \in Nat /\ committed[s] <= currentBet /\ minRaise >= 1
    BY <2>1, TurnSeat DEF IInv, TypeOK, NoOverpay, HasTurn, RaiseCovered
  <2>3. /\ offer.canCheck <=> callAmount = 0
        /\ offer.canCall <=> callAmount > 0
        /\ offer.canBetOrRaise <=> stack[s] > 0 /\ top > currentBet /\ s \notin acted
        /\ offer.minRaiseTo = Least(top, currentBet + minRaise) /\ offer.maxRaiseTo = top
    BY DEF getLegalActions
  <2>4. /\ top \in Nat /\ top <= committed[s] + stack[s]
        /\ \/ top <= currentBet
           \/ top = committed[s] + stack[s]
           \/ top >= currentBet + minRaise
    BY <2>1, <2>2, OfferReachesMinimum
  <2>5. offer.canCheck <=> CheckAccepted(s)
    BY <2>2, <2>3 DEF CheckAccepted, Most
  <2>6. offer.canCall => CallAccepted(s)
    BY <2>2, <2>3 DEF CallAccepted, Most
  <2>7. ASSUME NEW to \in 1 .. committed[s] + stack[s]
        PROVE  RaiseAccepted(s, to) <=>
                 offer.canBetOrRaise /\ to \in offer.minRaiseTo .. offer.maxRaiseTo
    <3>1. RaiseAccepted(s, to) <=>
            /\ to > currentBet /\ s \notin acted /\ to <= top
            /\ to = committed[s] + stack[s] \/ to >= currentBet + minRaise
      BY <2>2, <2>7 DEF RaiseAccepted
    <3> HIDE DEF top, offer
    <3>2. QED
      BY <2>2, <2>3, <2>4, <3>1 DEF Least
  <2>8. QED
    BY <2>5, <2>6, <2>7
<1>2. StakesInv /\ [Next]_bettingVars => StakesInv'
  BY NextStakes
<1>3. QED
  BY <1>1, <1>2, InitStakes, PTL DEF Spec

=============================================================================
