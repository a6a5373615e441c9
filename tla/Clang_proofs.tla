---------------------------- MODULE Clang_proofs ----------------------------
(* Proofs about ClangRound, ClangTable and ClangReplay, for every number of players, deck and *)
(* stake.                                                                                     *)
EXTENDS ClangTable, ClangReplay, Sums

\* As many seats as players.
LEMMA PlayersAreFinite == IsFiniteSet(Players) /\ Cardinality(Players) = NumPlayers
BY PlayersAssumption, FS_Interval DEF Players

\* The seat after a player is a seat, and another one.
LEMMA NextIsAnother ==
  ASSUME NEW p \in Players
  PROVE  NextInOrder(p) \in Players /\ NextInOrder(p) # p
<1>1. CASE p + 1 \in 0 .. NumPlayers - 1
  BY <1>1, PlayersAssumption DEF NextInOrder, Players
<1>2. CASE p + 1 = NumPlayers
  BY <1>2, PlayersAssumption DEF NextInOrder, Players
<1>3. QED
  BY <1>1, <1>2, PlayersAssumption DEF Players

-----------------------------------------------------------------------------
(* Payments.                                                               *)

\* What is on the table, on which payments must not have an effect.
Total(st) == SumFunctionOnSet(st, Players)

\* The sum of all stacks is an integer.
LEMMA TotalIsSum ==
  ASSUME NEW st \in [Players -> Int]
  PROVE  SumFunction(st) = Total(st) /\ Total(st) \in Int
BY PlayersAreFinite, SumIsInteger DEF SumFunction, Total

\* Payments that add up to nothing leave the total as it is.
LEMMA PaymentsKeepTotal ==
  ASSUME NEW st \in [Players -> Int], NEW paid, \A p \in Players : paid[p] \in Int,
         Total(paid) = 0,
         NEW after \in [Players -> Int], \A p \in Players : after[p] = st[p] + paid[p]
  PROVE  Total(after) = Total(st)
<1>1. \A p \in Players : st[p] \in Int /\ paid[p] \in Int /\ after[p] = st[p] + paid[p]
  OBVIOUS
<1>2. Total(after) = Total(st) + Total(paid)
  BY <1>1, PlayersAreFinite, SumOfSum DEF Total
<1>3. QED
  BY <1>2, TotalIsSum

\* What every seat but p gives and p gets.
LEMMA PaidByAllKeepsTotal ==
  ASSUME NEW st \in [Players -> Int], NEW p \in Players, NEW amount \in Int
  PROVE  /\ PaidByAll(st, p, amount) \in [Players -> Int]
         /\ Total(PaidByAll(st, p, amount)) = Total(st)
<1> DEFINE after == PaidByAll(st, p, amount)
           paid == [q \in Players |-> IF q = p THEN amount * (NumPlayers - 1) ELSE -amount]
<1>1. NumPlayers - 1 \in Nat /\ amount * (NumPlayers - 1) \in Int
  BY PlayersAssumption
<1>2. /\ after \in [Players -> Int]
      /\ \A q \in Players : paid[q] \in Int /\ after[q] = st[q] + paid[q]
  BY <1>1 DEF PaidByAll
<1>3. IsFiniteSet(Players \ {p}) /\ Cardinality(Players \ {p}) = NumPlayers - 1
  BY PlayersAreFinite, FS_RemoveElement
<1>4. paid[p] = amount * (NumPlayers - 1) /\ \A q \in Players \ {p} : paid[q] = -amount
  OBVIOUS
<1> HIDE DEF paid, after
<1>5. SumFunctionOnSet(paid, Players \ {p}) = (-amount) * (NumPlayers - 1)
  BY <1>3, <1>4, SumOfConstant
<1>6. Total(paid) = paid[p] + SumFunctionOnSet(paid, Players \ {p})
  BY <1>2, PlayersAreFinite, SumWithout DEF Total
<1>7. Total(paid) = amount * (NumPlayers - 1) + (-amount) * (NumPlayers - 1)
  BY <1>4, <1>5, <1>6
<1>8. Total(paid) = 0
  BY <1>1, <1>7
<1>9. Total(after) = Total(st)
  BY <1>2, <1>8, PaymentsKeepTotal
<1>10. QED
  BY <1>2, <1>9 DEF after

\* The share of p when winners split an amount, with odd chips to the first in order.
Share(amount, winners, p) == Pots!splitAmountEvenly(amount, winners, [q \in Players |-> q], p)

\* Nothing is lost in a split: the odd chips make up for what does not divide.
LEMMA SharesAddUp ==
  ASSUME NEW amount \in Nat, NEW winners \in SUBSET Players, winners # {}
  PROVE  /\ \A p \in Players : Share(amount, winners, p) \in Nat
         /\ \A p \in Players \ winners : Share(amount, winners, p) = 0
         /\ Total([p \in Players |-> Share(amount, winners, p)]) = amount
<1> DEFINE n == Cardinality(winners)
           odd == LowestOf(winners, amount % n)
           base == [p \in Players |-> IF p \in winners THEN amount \div n ELSE 0]
           extra == [p \in Players |-> IF p \in odd THEN 1 ELSE 0]
           share == [p \in Players |-> Share(amount, winners, p)]
<1>1. IsFiniteSet(winners) /\ n \in Nat \ {0} /\ winners \subseteq Nat
  <2>1. IsFiniteSet(winners)
    BY PlayersAreFinite, FS_Subset
  <2>2. Cardinality(winners) \in Nat /\ Cardinality(winners) # 0
    BY <2>1, FS_CardinalityType, FS_EmptySet
  <2>3. QED
    BY <2>1, <2>2 DEF Players
<1>2. /\ amount \div n \in Nat /\ amount % n \in 0 .. n - 1
      /\ amount = n * (amount \div n) + (amount % n)
  <2> HIDE DEF n
  <2>1. QED
    BY <1>1
<1>3. Cardinality(odd) = amount % n /\ odd \subseteq winners
  <2>1. amount % n \in 0 .. n
    BY <1>1, <1>2
  <2>2. QED
    BY <1>1, <2>1, LowestAreAsMany DEF LowestOf
<1>4. \A p \in Players : share[p] = base[p] + extra[p]
  <2> SUFFICES ASSUME NEW p \in Players PROVE share[p] = base[p] + extra[p]
    OBVIOUS
  <2>1. share[p] = IF p \notin winners THEN 0
                   ELSE amount \div n
                          + IF Cardinality({w \in winners : [q \in Players |-> q][w] < [q \in Players |-> q][p]})
                                 < amount % n THEN 1 ELSE 0
    <3>1. \A S : Pots!Cardinality(S) = Cardinality(S)
      BY DEF Pots!Cardinality, Cardinality
    <3>2. QED
      BY <3>1 DEF Share, Pots!splitAmountEvenly
  <2>2. {w \in winners : [q \in Players |-> q][w] < [q \in Players |-> q][p]} = {w \in winners : w < p}
    OBVIOUS
  <2>3. p \in odd <=> p \in winners /\ Cardinality({w \in winners : w < p}) < amount % n
    BY DEF LowestOf
  <2>4. base[p] = (IF p \in winners THEN amount \div n ELSE 0) /\ extra[p] = (IF p \in odd THEN 1 ELSE 0)
    OBVIOUS
  <2>5. CASE p \in winners
    <3>1. share[p] = amount \div n + (IF p \in odd THEN 1 ELSE 0)
      BY <2>1, <2>2, <2>3, <2>5, Zenon
    <3>2. QED
      BY <2>4, <2>5, <3>1, Zenon
  <2>6. CASE p \notin winners
    <3>1. share[p] = 0 /\ base[p] = 0 /\ extra[p] = 0
      BY <2>1, <2>3, <2>4, <2>6, Zenon
    <3>2. QED
      BY <3>1
  <2>7. QED
    BY <2>5, <2>6
<1>5. \A p \in Players : /\ base[p] \in Nat /\ extra[p] \in Nat
                         /\ p \notin winners => base[p] = 0 /\ extra[p] = 0
  BY <1>2, <1>3
<1>6. /\ \A p \in winners : base[p] = amount \div n
      /\ \A p \in odd : extra[p] = 1
      /\ \A p \in Players \ odd : extra[p] = 0
  BY <1>3
<1>7. IsFiniteSet(odd)
  BY <1>1, <1>3, FS_Subset
<1>8. \A p \in Players : share[p] = Share(amount, winners, p)
  OBVIOUS
<1> HIDE DEF base, extra, share, odd, n
<1>9. Total(base) = (amount \div n) * n
  <2>1. Total(base) = SumFunctionOnSet(base, winners)
    BY <1>5, PlayersAreFinite, SumOverPart DEF Total
  <2>2. SumFunctionOnSet(base, winners) = (amount \div n) * Cardinality(winners)
    <3>1. amount \div n \in Int
      BY <1>2
    <3>2. QED
      BY <1>1, <1>6, <3>1, SumOfConstant
  <2>3. QED
    BY <2>1, <2>2 DEF n
<1>10. Total(extra) = amount % n
  <2>1. odd \in SUBSET Players /\ \A p \in Players : extra[p] \in Int
    BY <1>3, <1>5
  <2>2. Total(extra) = SumFunctionOnSet(extra, odd)
    BY <1>6, <2>1, PlayersAreFinite, SumOverPart DEF Total
  <2>3. SumFunctionOnSet(extra, odd) = 1 * Cardinality(odd)
    BY <1>6, <1>7, SumOfConstant
  <2>4. QED
    BY <1>2, <1>3, <2>2, <2>3
<1>11. Total(share) = Total(base) + Total(extra)
  BY <1>4, <1>5, PlayersAreFinite, SumOfSum DEF Total
<1>12. Total(share) = amount
  BY <1>1, <1>2, <1>9, <1>10, <1>11
<1>13. QED
  BY <1>4, <1>5, <1>8, <1>12 DEF share

\* The points of a hand.
LEMMA HandValueIsNatural ==
  ASSUME NEW h \in Bag
  PROVE  handValue(h) \in Nat
<1> DEFINE points == [r \in Ranks |-> cardPointValue[r] * h[r]]
<1>1. \A r \in Ranks : cardPointValue[r] \in Nat /\ h[r] \in Nat
  BY CardsAssumption DEF Bag
<1>2. \A r \in Ranks : points[r] \in Nat
  BY <1>1
<1>3. handValue(h) = SumFunctionOnSet(points, Ranks)
  BY Zenon DEF handValue, SumFunction
<1> HIDE DEF points
<1>4. QED
  BY <1>2, <1>3, CardsAssumption, SumCoversTerms

\* Somebody always has a lowest hand.
LEMMA SomebodyIsLowest ==
  ASSUME NEW hands \in [Players -> Bag]
  PROVE  Lowest(hands) # {} /\ Lowest(hands) \subseteq Players
<1> DEFINE values == {handValue(hands[p]) : p \in Players}
<1>1. \A p \in Players : handValue(hands[p]) \in Nat
  BY HandValueIsNatural
<1>2. values \in SUBSET Nat /\ values # {}
  <2>1. 0 \in Players
    BY PlayersAssumption DEF Players
  <2>2. QED
    BY <1>1, <2>1
<1>3. PICK m \in values : \A n \in values : m <= n
  BY <1>2, LeastNatural, Zenon
<1>4. PICK p \in Players : m = handValue(hands[p])
  BY <1>3
<1>5. \A q \in Players : handValue(hands[p]) <= handValue(hands[q])
  BY <1>3, <1>4
<1>6. QED
  BY <1>5, Zenon DEF Lowest

\* The three ways a showdown is settled: each keeps the total and names lowest hands, or a
\* caller who has one.
LEMMA ShowdownOutcome ==
  ASSUME NEW caller \in Players \cup {NoPlayer}, NEW hands \in [Players -> Bag],
         NEW st \in [Players -> Int], settleShowdown(caller, hands, st)
  PROVE  /\ phase' = "complete" /\ result'.type \in {"call", "forced"}
         /\ result'.winners \subseteq Lowest(hands) /\ result'.winners # {}
         /\ stack' \in [Players -> Int] /\ Total(stack') = Total(st)
<1> DEFINE lowest == Lowest(hands)
           losers == NumPlayers - Cardinality(lowest)
<1>1. lowest # {} /\ lowest \in SUBSET Players
  BY SomebodyIsLowest
<1>2. NoPlayer \notin Players
  BY DEF NoPlayer, Players
<1>3. Stake \in Nat /\ CallerPays \in Nat
  BY MoneyAssumption, PlayersAssumption DEF CallerPays
<1>4. CASE caller \in lowest
  <2>1. Complete("call", caller, {caller}) /\ stack' = PaidByAll(st, caller, Stake)
    BY <1>1, <1>2, <1>4 DEF settleShowdown
  <2>2. QED
    BY <1>1, <1>3, <1>4, <2>1, PaidByAllKeepsTotal DEF Complete
<1>5. CASE caller # NoPlayer /\ caller \notin lowest
  <2> DEFINE share == [p \in Players |-> Share(CallerPays, lowest, p)]
             paid == [p \in Players |-> IF p = caller THEN - CallerPays ELSE share[p]]
             got == [p \in Players |-> IF p = caller THEN - CallerPays ELSE 0]
  <2>1. /\ Complete("call", caller, lowest)
        /\ stack' = [p \in Players |-> IF p = caller THEN st[p] - CallerPays
                                       ELSE st[p] + Share(CallerPays, lowest, p)]
    BY <1>5 DEF settleShowdown, Share
  <2>2. caller \in Players
    BY <1>5
  <2>3. /\ \A p \in Players : share[p] \in Nat
        /\ \A p \in Players \ lowest : share[p] = 0
        /\ Total(share) = CallerPays
    BY <1>1, <1>3, SharesAddUp
  <2>4. \A p \in Players : got[p] \in Int /\ paid[p] \in Int /\ paid[p] = share[p] + got[p]
    BY <1>3, <1>5, <2>2, <2>3
  <2>5. /\ stack' \in [Players -> Int]
        /\ \A p \in Players : stack'[p] = st[p] + paid[p]
    BY <1>3, <2>1, <2>3
  <2>6. got[caller] = - CallerPays /\ \A p \in Players \ {caller} : got[p] = 0
    BY <2>2
  <2> HIDE DEF share, paid, got, lowest
  <2>7. Total(got) = - CallerPays
    <3>1. Total(got) = SumFunctionOnSet(got, {caller})
      BY <2>2, <2>4, <2>6, PlayersAreFinite, SumOverPart DEF Total
    <3>2. QED
      BY <1>3, <2>6, <3>1, SumOfOne
  <2>8. Total(paid) = Total(share) + Total(got)
    BY <2>3, <2>4, PlayersAreFinite, SumOfSum DEF Total
  <2>9. Total(paid) = 0
    BY <1>3, <2>3, <2>7, <2>8
  <2>10. Total(stack') = Total(st)
    BY <2>4, <2>5, <2>9, PaymentsKeepTotal
  <2>11. phase' = "complete" /\ result'.type = "call" /\ result'.winners = lowest
    BY <2>1 DEF Complete
  <2>12. QED
    BY <1>1, <2>5, <2>10, <2>11 DEF lowest
<1>6. CASE caller = NoPlayer
  <2> DEFINE share == [p \in Players |-> Share(Stake, lowest, p)]
             gain == [p \in Players |-> IF p \in lowest THEN losers * share[p] ELSE 0]
             loss == [p \in Players |-> IF p \in lowest THEN 0 ELSE - Stake]
             paid == [p \in Players |-> gain[p] + loss[p]]
  <2>1. /\ Complete("forced", NoPlayer, lowest)
        /\ stack' = [p \in Players |-> IF p \in lowest THEN st[p] + losers * Share(Stake, lowest, p)
                                       ELSE st[p] - Stake]
    BY <1>1, <1>2, <1>6 DEF settleShowdown, Share
  <2>2. /\ \A p \in Players : share[p] \in Nat
        /\ \A p \in Players \ lowest : share[p] = 0
        /\ Total(share) = Stake
    BY <1>1, <1>3, SharesAddUp
  <2>3. losers \in Int /\ Cardinality(Players \ lowest) = losers /\ IsFiniteSet(Players \ lowest)
        /\ losers \in Nat
    <3>1. IsFiniteSet(lowest) /\ IsFiniteSet(Players \ lowest)
      BY <1>1, PlayersAreFinite, FS_Subset
    <3>2. Cardinality(Players \ lowest) = Cardinality(Players) - Cardinality(Players \cap lowest)
      BY PlayersAreFinite, FS_Difference
    <3>3. Players \cap lowest = lowest
      BY <1>1
    <3>4. Cardinality(lowest) \in Nat /\ Cardinality(Players \ lowest) \in Nat
      BY <3>1, FS_CardinalityType
    <3>5. Cardinality(Players \ lowest) = NumPlayers - Cardinality(lowest)
      BY <3>2, <3>3, PlayersAreFinite
    <3>6. QED
      BY <3>1, <3>4, <3>5
  <2>4. \A p \in Players : share[p] = Share(Stake, lowest, p)
    OBVIOUS
  <2> HIDE DEF share, losers, lowest
  <2>5. \A p \in Players : losers * share[p] \in Int
    BY <2>2, <2>3
  <2>6. \A p \in Players : gain[p] \in Int /\ loss[p] \in Int /\ paid[p] \in Int
    BY <1>3, <2>5
  <2>7. /\ stack' \in [Players -> Int]
        /\ \A p \in Players : stack'[p] = st[p] + paid[p]
    <3>1. \A p \in Players : stack'[p] = (IF p \in lowest THEN st[p] + losers * share[p]
                                          ELSE st[p] - Stake)
      BY <2>1, <2>4
    <3>2. \A p \in Players : paid[p] = IF p \in lowest THEN losers * share[p] ELSE - Stake
      BY <1>3, <2>5
    <3>3. \A p \in Players : stack'[p] = st[p] + paid[p] /\ stack'[p] \in Int
      BY <1>3, <2>5, <3>1, <3>2
    <3>4. QED
      BY <2>1, <3>3
  <2>8. Total(loss) = (- Stake) * losers
    <3> DEFINE rest == Players \ lowest
    <3>1. \A p \in rest : loss[p] = - Stake
      OBVIOUS
    <3>2. \A p \in Players \ rest : loss[p] = 0
      OBVIOUS
    <3>3. rest \in SUBSET Players /\ IsFiniteSet(rest) /\ Cardinality(rest) = losers /\ - Stake \in Int
      BY <1>3, <2>3
    <3> HIDE DEF rest, loss
    <3>4. Total(loss) = SumFunctionOnSet(loss, rest)
      BY <2>6, <3>2, <3>3, PlayersAreFinite, SumOverPart DEF Total
    <3>5. SumFunctionOnSet(loss, rest) = (- Stake) * Cardinality(rest)
      BY <3>1, <3>3, SumOfConstant
    <3>6. QED
      BY <3>3, <3>4, <3>5
  <2>9. Total(gain) = losers * Stake
    <3>1. \A p \in Players : gain[p] = losers * share[p]
      BY <2>2, <2>3
    <3> HIDE DEF gain
    <3>2. SumFunctionOnSet(gain, Players) = losers * SumFunctionOnSet(share, Players)
      BY <2>2, <2>3, <3>1, PlayersAreFinite, SumOfMultiples
    <3>3. QED
      BY <2>2, <3>2 DEF Total
  <2>10. Total(paid) = Total(gain) + Total(loss)
    <3>1. \A p \in Players : paid[p] = gain[p] + loss[p]
      OBVIOUS
    <3> HIDE DEF paid, gain, loss
    <3>2. QED
      BY <2>6, <3>1, PlayersAreFinite, SumOfSum DEF Total
  <2> HIDE DEF paid, gain, loss
  <2>11. Total(paid) = 0
    BY <1>3, <2>3, <2>8, <2>9, <2>10
  <2>12. Total(stack') = Total(st)
    BY <2>6, <2>7, <2>11, PaymentsKeepTotal
  <2>13. phase' = "complete" /\ result'.type = "forced" /\ result'.winners = lowest
    BY <2>1 DEF Complete
  <2>14. QED
    BY <1>1, <2>7, <2>12, <2>13 DEF lowest
<1>7. QED
  BY <1>4, <1>5, <1>6

-----------------------------------------------------------------------------
(* The deal.                                                               *)

\* Starting-hand bounties only move chips.
LEMMA BonusesKeepTotal ==
  ASSUME NEW hits \in SUBSET Players
  PROVE  /\ AfterBonuses(hits) \in [Players -> Int]
         /\ Total(AfterBonuses(hits)) = NumPlayers * StartStack
<1> DEFINE c == Cardinality(hits)
           gain == [p \in Players |-> IF p \in hits THEN BonusPayout * NumPlayers ELSE 0]
           base == [p \in Players |-> StartStack - BonusPayout * c]
           after == AfterBonuses(hits)
<1>1. IsFiniteSet(hits) /\ c \in Nat
  BY PlayersAreFinite, FS_Subset, FS_CardinalityType
<1>2. /\ BonusPayout \in Nat /\ StartStack \in Nat /\ NumPlayers \in Nat
      /\ BonusPayout * NumPlayers \in Int /\ BonusPayout * c \in Int
      /\ StartStack - BonusPayout * c \in Int
  BY <1>1, MoneyAssumption, PlayersAssumption
<1>3. after = [p \in Players |-> StartStack + (IF p \in hits THEN BonusPayout * NumPlayers ELSE 0)
                                            - BonusPayout * c]
  BY Zenon DEF AfterBonuses
<1> HIDE DEF c, after
<1>4. \A p \in Players : /\ gain[p] \in Int /\ base[p] \in Int /\ after[p] \in Int
                         /\ after[p] = gain[p] + base[p]
  BY <1>2, <1>3
<1>5. after \in [Players -> Int]
  BY <1>3, <1>4
<1>6. /\ \A p \in hits : gain[p] = BonusPayout * NumPlayers
      /\ \A p \in Players \ hits : gain[p] = 0
      /\ \A p \in Players : base[p] = StartStack - BonusPayout * c
  OBVIOUS
<1> HIDE DEF gain, base
<1>7. Total(gain) = (BonusPayout * NumPlayers) * c
  <2>1. Total(gain) = SumFunctionOnSet(gain, hits)
    BY <1>4, <1>6, PlayersAreFinite, SumOverPart DEF Total
  <2>2. SumFunctionOnSet(gain, hits) = (BonusPayout * NumPlayers) * Cardinality(hits)
    BY <1>1, <1>2, <1>6, SumOfConstant
  <2>3. QED
    BY <2>1, <2>2 DEF c
<1>8. Total(base) = (StartStack - BonusPayout * c) * NumPlayers
  BY <1>2, <1>6, PlayersAreFinite, SumOfConstant DEF Total
<1>9. Total(after) = Total(gain) + Total(base)
  BY <1>4, PlayersAreFinite, SumOfSum DEF Total
<1>10. Total(after) = NumPlayers * StartStack
  BY <1>1, <1>2, <1>7, <1>8, <1>9
<1>11. QED
  BY <1>5, <1>10 DEF after

\* There are finitely many ranks.
LEMMA RanksAreFinite == IsFiniteSet(Ranks)
BY CardsAssumption

\* A bag of cards has a natural number of them.
LEMMA SizeIsNatural ==
  ASSUME NEW h \in Bag
  PROVE  Size(h) = SumFunctionOnSet(h, Ranks) /\ Size(h) \in Nat
<1>1. \A r \in Ranks : h[r] \in Nat
  BY DEF Bag
<1>2. SumFunctionOnSet(h, Ranks) \in Nat
  BY <1>1, RanksAreFinite, SumCoversTerms
<1>3. Size(h) = SumFunctionOnSet(h, Ranks)
  BY DEF Size, SumFunction, Bag
<1>4. QED
  BY <1>2, <1>3

\* The empty bag holds no card.
LEMMA NoCardsAreNone == NoCards \in Bag /\ Size(NoCards) = 0
<1>1. NoCards \in Bag /\ \A r \in Ranks : NoCards[r] = 0
  BY DEF NoCards, Bag
<1>2. SumFunctionOnSet(NoCards, Ranks) = 0 * Cardinality(Ranks)
  BY <1>1, RanksAreFinite, SumOfConstant
<1>3. Cardinality(Ranks) \in Nat
  BY RanksAreFinite, FS_CardinalityType
<1>4. QED
  BY <1>1, <1>2, <1>3, SizeIsNatural

\* Cards of a rank that come or go count as many.
LEMMA SizeAfterCards ==
  ASSUME NEW h \in Bag, NEW g \in Bag, NEW r \in Ranks, NEW d \in Int,
         g[r] = h[r] + d, \A q \in Ranks \ {r} : g[q] = h[q]
  PROVE  Size(g) = Size(h) + d
<1>1. \A q \in Ranks : h[q] \in Int
  BY DEF Bag
<1>2. SumFunctionOnSet(g, Ranks) = SumFunctionOnSet(h, Ranks) + d
  BY <1>1, RanksAreFinite, SumAfterChange
<1>3. QED
  BY <1>2, SizeIsNatural

\* The deal leaves cards in the pile, and everybody with some.
LEMMA DealLeavesCards ==
  ASSUME NEW h \in [Players -> Hands], NEW rest,
         \A r \in Ranks : InHands(h, r) <= Deck[r],
         rest = [r \in Ranks |-> Deck[r] - InHands(h, r)]
  PROVE  /\ h \in [Players -> Bag] /\ rest \in Bag /\ rest # NoCards
         /\ \A p \in Players : h[p] # NoCards
         /\ Size(rest) = Size(Deck) - NumPlayers * HandSize
<1> DEFINE row == [p \in Players |-> SumFunctionOnSet(h[p], Ranks)]
           column == [r \in Ranks |-> SumFunctionOnSet([p \in Players |-> h[p][r]], Players)]
<1>1. IsFiniteSet(Ranks) /\ IsFiniteSet(Players) /\ Deck \in [Ranks -> Nat] /\ HandSize \in Nat \ {0}
  BY CardsAssumption, PlayersAreFinite DEF Bag
<1>2. \A p \in Players : h[p] \in [Ranks -> 0 .. HandSize] /\ Size(h[p]) = HandSize
  BY DEF Hands
<1>3. \A p \in Players : Size(h[p]) = SumFunctionOnSet(h[p], Ranks)
  <2> SUFFICES ASSUME NEW p \in Players PROVE Size(h[p]) = SumFunctionOnSet(h[p], Ranks)
    OBVIOUS
  <2>1. DOMAIN h[p] = Ranks
    BY <1>2
  <2>2. QED
    BY <2>1, Zenon DEF Size, SumFunction
<1>4. \A p \in Players, r \in Ranks : h[p][r] \in Nat
  BY <1>1, <1>2
<1>5. \A r \in Ranks : InHands(h, r) = column[r]
  BY Zenon DEF InHands, SumFunction
<1>6. \A r \in Ranks : column[r] \in Nat
  <2> SUFFICES ASSUME NEW r \in Ranks PROVE column[r] \in Nat
    OBVIOUS
  <2> DEFINE cards == [p \in Players |-> h[p][r]]
  <2>1. (\A p \in Players : cards[p] \in Nat) /\ column[r] = SumFunctionOnSet(cards, Players)
    BY <1>4
  <2> HIDE DEF cards, column
  <2>2. QED
    BY <2>1, <1>1, SumCoversTerms
<1>7. \A p \in Players : row[p] = HandSize
  BY <1>2, <1>3
<1>8. SumFunctionOnSet(row, Players) = SumFunctionOnSet(column, Ranks)
  BY <1>1, <1>4, SumOfRows
<1>9. h \in [Players -> Bag] /\ \A p \in Players : h[p] # NoCards
  <2>1. \A p \in Players : h[p] \in Bag
    BY <1>1, <1>2 DEF Bag
  <2>2. SumFunctionOnSet(NoCards, Ranks) = 0
    <3>1. \A r \in Ranks : NoCards[r] = 0
      BY DEF NoCards
    <3>2. SumFunctionOnSet(NoCards, Ranks) = 0 * Cardinality(Ranks) /\ Cardinality(Ranks) \in Nat
      BY <1>1, <3>1, SumOfConstant, FS_CardinalityType
    <3>3. QED
      BY <3>2
  <2>3. \A p \in Players : h[p] # NoCards
    BY <1>1, <1>2, <1>3, <2>2
  <2>4. QED
    BY <2>1, <2>3
<1> HIDE DEF row, column
<1>10. rest \in Bag
  BY <1>1, <1>5, <1>6 DEF Bag
<1>11. Size(rest) = Size(Deck) - NumPlayers * HandSize /\ Size(rest) > 0
  <2>1. \A r \in Ranks : /\ column[r] \in Int /\ rest[r] \in Int
                         /\ Deck[r] = column[r] + rest[r]
    BY <1>1, <1>5, <1>6
  <2>2. SumFunctionOnSet(Deck, Ranks) = SumFunctionOnSet(column, Ranks) + SumFunctionOnSet(rest, Ranks)
    BY <1>1, <2>1, SumOfSum
  <2>3. SumFunctionOnSet(row, Players) = HandSize * NumPlayers
    BY <1>1, <1>7, PlayersAreFinite, SumOfConstant
  <2>4. Size(Deck) = SumFunctionOnSet(Deck, Ranks) /\ Size(rest) = SumFunctionOnSet(rest, Ranks)
    BY <1>1, Zenon DEF Size, SumFunction
  <2>5. SumFunctionOnSet(rest, Ranks) \in Int
    BY <1>1, <2>1, SumIsInteger
  <2>6. NumPlayers \in Nat /\ HandSize * NumPlayers = NumPlayers * HandSize
        /\ NumPlayers * HandSize \in Nat
    BY <1>1, PlayersAssumption
  <2> DEFINE dealt == NumPlayers * HandSize
  <2>7. SumFunctionOnSet(column, Ranks) = dealt
    BY <1>8, <2>3, <2>6
  <2>8. dealt \in Nat /\ Size(Deck) > dealt
    BY <2>6, DeckAssumption
  <2> HIDE DEF dealt
  <2>9. Size(rest) = Size(Deck) - dealt /\ Size(rest) > 0
    BY <2>2, <2>4, <2>5, <2>7, <2>8
  <2>10. QED
    BY <2>9 DEF dealt
<1>12. rest # NoCards
  <2>1. Size(NoCards) = 0
    BY NoCardsAreNone
  <2>2. QED
    BY <1>11, <2>1
<1>13. QED
  BY <1>9, <1>10, <1>11, <1>12

-----------------------------------------------------------------------------
(* The round.                                                              *)

\* The first emptied hand is remembered, and stays empty.
EmptiedFirst ==
  /\ emptied = NoPlayer <=> \A p \in Players : hand[p] # NoCards
  /\ emptied # NoPlayer => hand[emptied] = NoCards

\* What the properties of a round need together: whoever discards has closed the instant
\* window, so that no hand it is left with can call; exhaustion is seen when it happens, so
\* that a turn always finds a card; and the first emptied hand is known whoever throws next.
RoundInv ==
  /\ TypeOK
  /\ TurnIsTheDecider
  /\ NoLateInstantClang
  /\ SettlementIsRight
  /\ phase = "awaiting-discard" => turn \in closed
  /\ exhausted <=> pile = NoCards
  /\ EmptiedFirst

\* How a turn ends: with the next player's, an emptied hand or an exhausted deck.
LEMMA TurnOutcome ==
  ASSUME TypeOK, NEW next \in Players, NEW st \in [Players -> Int],
         hand' \in [Players -> Bag], emptied' \in Players \cup {NoPlayer},
         finishDiscarderTurn(next, st)
  PROVE  /\ stack' \in [Players -> Int] /\ Total(stack') = Total(st) /\ turn' \in Players
         /\ \/ phase' = "turn" /\ emptied' = NoPlayer /\ ~exhausted /\ turn' = next
            \/ /\ phase' = "complete" /\ emptied' # NoPlayer
               /\ result'.type = "emptyHand" /\ result'.winners = {emptied'}
            \/ /\ phase' = "complete" /\ emptied' = NoPlayer
               /\ result'.type \in {"call", "forced"}
               /\ result'.winners \subseteq Lowest(hand') /\ result'.winners # {}
<1>1. turn \in Players /\ exhausted \in BOOLEAN /\ Stake \in Int
  BY MoneyAssumption DEF TypeOK
<1>2. CASE emptied' # NoPlayer
  <2>1. settleEmptyHandWin(emptied', st) /\ turn' = turn
    BY <1>2 DEF finishDiscarderTurn
  <2>2. emptied' \in Players
    BY <1>2
  <2>3. stack' = PaidByAll(st, emptied', Stake)
        /\ phase' = "complete" /\ result'.type = "emptyHand" /\ result'.winners = {emptied'}
    BY <2>1 DEF settleEmptyHandWin, Complete
  <2>4. stack' \in [Players -> Int] /\ Total(stack') = Total(st)
    BY <1>1, <2>2, <2>3, PaidByAllKeepsTotal
  <2>5. QED
    BY <1>1, <1>2, <2>1, <2>3, <2>4
<1>3. CASE emptied' = NoPlayer /\ exhausted
  <2>1. settleShowdown(NoPlayer, hand', st) /\ turn' = turn
    BY <1>3 DEF finishDiscarderTurn
  <2>2. QED
    BY <1>1, <1>3, <2>1, ShowdownOutcome
<1>4. CASE emptied' = NoPlayer /\ ~exhausted
  <2>1. phase' = "turn" /\ turn' = next /\ stack' = st
    BY <1>4 DEF finishDiscarderTurn
  <2>2. QED
    BY <1>4, <2>1
<1>5. QED
  BY <1>2, <1>3, <1>4

\* What throwing the cards of one rank does.
LEMMA ThrowOutcome ==
  ASSUME TypeOK, EmptiedFirst, NEW p \in Players, NEW r \in Ranks, Throw(p, r)
  PROVE  /\ hand' \in [Players -> Bag] /\ discards' \in Bag
         /\ emptied' \in Players \cup {NoPlayer} /\ EmptiedFirst'
         /\ hand'[p][r] = 0 /\ \A q \in Players \ {p} : hand'[q] = hand[q]
<1>1. /\ hand' = [hand EXCEPT ![p][r] = 0]
      /\ discards' = [discards EXCEPT ![r] = @ + hand[p][r]]
      /\ emptied' = IF hand'[p] = NoCards /\ emptied = NoPlayer THEN p ELSE emptied
  BY DEF Throw
<1>2. /\ hand \in [Players -> [Ranks -> Nat]] /\ discards \in [Ranks -> Nat]
      /\ emptied \in Players \cup {NoPlayer}
  BY DEF TypeOK, Bag
<1>3. hand' \in [Players -> Bag] /\ discards' \in Bag
  BY <1>1, <1>2 DEF Bag
<1>4. /\ hand'[p] = [hand[p] EXCEPT ![r] = 0] /\ hand'[p][r] = 0
      /\ \A q \in Players \ {p} : hand'[q] = hand[q]
  BY <1>1, <1>2
<1>5. hand[p] = NoCards => hand'[p] = NoCards
  BY <1>2, <1>4 DEF NoCards
<1>6. emptied' \in Players \cup {NoPlayer} /\ NoPlayer \notin Players
  BY <1>1, <1>2 DEF NoPlayer, Players
<1>7. EmptiedFirst'
  <2>1. CASE emptied # NoPlayer
    <3>1. emptied' = emptied /\ emptied \in Players
      BY <1>1, <1>2, <2>1
    <3>2. hand'[emptied] = NoCards
      BY <1>4, <1>5, <2>1, <3>1 DEF EmptiedFirst
    <3>3. QED
      BY <2>1, <3>1, <3>2 DEF EmptiedFirst, NoCards, NoPlayer
  <2>2. CASE emptied = NoPlayer /\ hand'[p] = NoCards
    BY <1>1, <1>6, <2>2 DEF EmptiedFirst, NoCards, NoPlayer
  <2>3. CASE emptied = NoPlayer /\ hand'[p] # NoCards
    <3>1. emptied' = NoPlayer
      BY <1>1, <2>3
    <3>2. \A q \in Players : hand'[q] # NoCards
      BY <1>4, <2>3 DEF EmptiedFirst
    <3>3. QED
      BY <3>1, <3>2 DEF EmptiedFirst, NoCards, NoPlayer
  <2>4. QED
    BY <2>1, <2>2, <2>3
<1>8. QED
  BY <1>3, <1>4, <1>6, <1>7

\* Nobody comes by an instant Clang when the only hand that changes is closed.
LEMMA NoNewInstantClang ==
  ASSUME NEW p \in Players, \A q \in Players \ {p} : hand'[q] = hand[q],
         closed \subseteq closed', p \in closed', outstandingInstantClangSeats = {}
  PROVE  outstandingInstantClangSeats' = {}
BY DEF outstandingInstantClangSeats

\* The discarder pays the eater.
LEMMA EatingKeepsTotal ==
  ASSUME TypeOK, NEW p \in Players, pendingEat # NoEat, pendingEat.discarder # p
  PROVE  PaidForEating(p) \in [Players -> Int] /\ Total(PaidForEating(p)) = Total(stack)
<1> DEFINE d == pendingEat.discarder
           amount == EatPayment * hand[p][pendingEat.rank]
           paid == [q \in Players |-> IF q = d THEN - amount ELSE IF q = p THEN amount ELSE 0]
<1>1. d \in Players /\ pendingEat.rank \in Ranks
  BY DEF TypeOK
<1>2. hand[p][pendingEat.rank] \in Nat /\ amount \in Int /\ stack \in [Players -> Int]
  BY <1>1, MoneyAssumption DEF TypeOK, Bag
<1>3. PaidForEating(p) = [stack EXCEPT ![d] = @ - amount, ![p] = @ + amount]
  BY Zenon DEF PaidForEating
<1> HIDE DEF amount
<1>4. /\ PaidForEating(p) \in [Players -> Int]
      /\ \A q \in Players : paid[q] \in Int /\ PaidForEating(p)[q] = stack[q] + paid[q]
  BY <1>1, <1>2, <1>3
<1>5. paid[d] = - amount /\ paid[p] = amount /\ \A q \in Players \ {d, p} : paid[q] = 0
  BY <1>1
<1> HIDE DEF d, paid
<1>6. Total(paid) = 0
  <2>1. {d, p} \in SUBSET Players /\ IsFiniteSet({d, p}) /\ {d, p} \ {d} = {p} /\ d \in {d, p}
    BY <1>1, FS_Singleton, FS_AddElement, FS_Subset, PlayersAreFinite DEF d
  <2>2. Total(paid) = SumFunctionOnSet(paid, {d, p})
    BY <1>4, <1>5, <2>1, PlayersAreFinite, SumOverPart DEF Total
  <2>3. SumFunctionOnSet(paid, {d, p}) = paid[d] + SumFunctionOnSet(paid, {p})
    BY <1>4, <2>1, SumWithout
  <2>4. SumFunctionOnSet(paid, {p}) = amount
    BY <1>2, <1>5, SumOfOne
  <2>5. QED
    BY <1>2, <1>5, <2>2, <2>3, <2>4
<1>7. QED
  BY <1>2, <1>4, <1>6, PaymentsKeepTotal

\* A turn that ends keeps the invariant.
LEMMA TurnEnds ==
  ASSUME RoundInv, NEW next \in Players, NEW st \in [Players -> Int], Total(st) = Total(stack),
         hand' \in [Players -> Bag], discards' \in Bag, emptied' \in Players \cup {NoPlayer},
         EmptiedFirst', closed' \subseteq Players,
         UNCHANGED <<pile, exhausted>>, pendingEat' = NoEat,
         outstandingInstantClangSeats' = {}, finishDiscarderTurn(next, st)
  PROVE  RoundInv'
<1>1. TypeOK /\ SumFunction(stack) = NumPlayers * StartStack /\ (exhausted <=> pile = NoCards)
  BY DEF RoundInv, SettlementIsRight
<1>2. stack \in [Players -> Int] /\ Total(stack) = NumPlayers * StartStack
  BY <1>1, TotalIsSum DEF TypeOK
<1>3. /\ stack' \in [Players -> Int] /\ Total(stack') = Total(st) /\ turn' \in Players
      /\ \/ phase' = "turn" /\ emptied' = NoPlayer /\ ~exhausted /\ turn' = next
         \/ /\ phase' = "complete" /\ emptied' # NoPlayer
            /\ result'.type = "emptyHand" /\ result'.winners = {emptied'}
         \/ /\ phase' = "complete" /\ emptied' = NoPlayer
            /\ result'.type \in {"call", "forced"}
            /\ result'.winners \subseteq Lowest(hand') /\ result'.winners # {}
  BY <1>1, TurnOutcome
<1>4. TypeOK'
  <2>1. phase' \in Phases
    BY <1>3 DEF Phases
  <2>2. pendingEat' \in [discarder : Players, eater : Players, rank : Ranks] \cup {NoEat}'
    BY DEF NoEat, NoPlayer
  <2>3. pile' \in Bag /\ exhausted' \in BOOLEAN
    BY <1>1 DEF TypeOK
  <2>4. QED
    BY <1>3, <2>1, <2>2, <2>3, Zenon DEF TypeOK, Players, Bag, Phases, NoPlayer
<1>5. SumFunction(stack') = NumPlayers * StartStack
  BY <1>2, <1>3, TotalIsSum
<1>6. emptied' = NoPlayer <=> \A p \in Players : hand'[p] # NoCards
  BY DEF EmptiedFirst, NoCards, NoPlayer, Players
<1>7. emptied' # NoPlayer => hand'[emptied'] = NoCards
  BY DEF EmptiedFirst, NoCards, NoPlayer
<1>8. SettlementIsRight'
  <2>1. phase' = "complete" =>
          /\ result'.type \in {"call", "forced"} =>
               /\ \A p \in Players : hand'[p] # NoCards
               /\ result'.winners \subseteq Lowest(hand')
               /\ result'.winners # {}
          /\ result'.type = "emptyHand" => \A p \in result'.winners : hand'[p] = NoCards
          /\ result'.type # "instant"
    BY <1>3, <1>6, <1>7
  <2>2. QED
    BY <1>5, <2>1 DEF SettlementIsRight, NoCards, Players, Lowest, handValue
<1>9. TurnIsTheDecider'
  <2>1. phase' \in {"turn", "complete"}
    BY <1>3
  <2>2. phase' = "turn" => /\ pile' # NoCards /\ ~exhausted' /\ emptied' = NoPlayer
                           /\ \A p \in Players : hand'[p] # NoCards
    BY <1>1, <1>3, <1>6
  <2>3. QED
    BY <2>1, <2>2 DEF TurnIsTheDecider, NoEat, NoPlayer, NoCards, Players
<1>10. NoLateInstantClang'
  BY DEF NoLateInstantClang
<1>11. phase' # "awaiting-discard"
  BY <1>3
<1>12. exhausted' <=> pile' = NoCards
  BY <1>1
<1>13. QED
  BY <1>4, <1>8, <1>9, <1>10, <1>11, <1>12 DEF RoundInv, NoCards

\* A clang before the first draw keeps the invariant of the round.
LEMMA InstantClangKeeps ==
  ASSUME RoundInv, NEW p \in Players, callInstantClang(p)
  PROVE  RoundInv'
<1>1. /\ phase # "complete" /\ p \in outstandingInstantClangSeats
      /\ phase' = "complete" /\ result' = [type |-> "instant", caller |-> p, winners |-> {p}]
      /\ stack' = PaidByAll(stack, p, Stake)
      /\ UNCHANGED <<hand, pile, discards, turn, closed, pendingEat, emptied, exhausted>>
  BY DEF callInstantClang, settleInstantWin, Complete, outstandingInstantClangSeats
<1>2. phase = "instant-window"
  BY <1>1 DEF RoundInv, NoLateInstantClang, TypeOK, Phases
<1>3. TypeOK /\ TurnIsTheDecider /\ SumFunction(stack) = NumPlayers * StartStack
  BY DEF RoundInv, SettlementIsRight
<1>4. pendingEat = NoEat /\ pile # NoCards /\ \A q \in Players : hand[q] # NoCards
  BY <1>2, <1>3 DEF TurnIsTheDecider
<1>5. stack' \in [Players -> Int] /\ SumFunction(stack') = NumPlayers * StartStack
  <2>1. stack \in [Players -> Int] /\ Stake \in Int
    BY <1>3, MoneyAssumption DEF TypeOK
  <2>2. QED
    BY <1>1, <1>3, <2>1, PaidByAllKeepsTotal, TotalIsSum
<1>6. TypeOK'
  BY <1>1, <1>3, <1>5 DEF TypeOK, Phases
<1>7. SettlementIsRight'
  BY <1>1, <1>4, <1>5 DEF SettlementIsRight
<1>8. TurnIsTheDecider' /\ NoLateInstantClang'
  BY <1>1, <1>4 DEF TurnIsTheDecider, NoLateInstantClang
<1>9. (exhausted' <=> pile' = NoCards) /\ EmptiedFirst' /\ phase' # "awaiting-discard"
  BY <1>1 DEF RoundInv, EmptiedFirst
<1>10. QED
  BY <1>6, <1>7, <1>8, <1>9 DEF RoundInv, NoCards

\* Whoever may take the turn finds the round as it was dealt or left by another turn.
LEMMA TurnStarts ==
  ASSUME RoundInv, NEW p \in Players, MayTakeTurn(p)
  PROVE  /\ TypeOK /\ pendingEat = NoEat /\ outstandingInstantClangSeats = {} /\ turn = p
         /\ pile # NoCards /\ ~exhausted /\ emptied = NoPlayer
         /\ \A q \in Players : hand[q] # NoCards
         /\ Total(stack) = NumPlayers * StartStack
<1>1. TypeOK /\ TurnIsTheDecider /\ SumFunction(stack) = NumPlayers * StartStack
  BY DEF RoundInv, SettlementIsRight
<1>2. Total(stack) = NumPlayers * StartStack
  BY <1>1, TotalIsSum DEF TypeOK
<1>3. QED
  BY <1>1, <1>2 DEF MayTakeTurn, TurnIsTheDecider

\* A clang at the start of a turn keeps the invariant of the round.
LEMMA CallKeeps ==
  ASSUME RoundInv, NEW p \in Players, callClangNormal(p)
  PROVE  RoundInv'
<1>1. /\ MayTakeTurn(p) /\ closed' = closed \cup {p} /\ settleShowdown(p, hand, stack)
      /\ UNCHANGED <<hand, pile, discards, turn, pendingEat, emptied, exhausted>>
  BY Zenon DEF callClangNormal
<1>2. /\ TypeOK /\ pendingEat = NoEat
      /\ pile # NoCards /\ ~exhausted /\ emptied = NoPlayer
      /\ \A q \in Players : hand[q] # NoCards
      /\ Total(stack) = NumPlayers * StartStack
  BY <1>1, TurnStarts
<1>3. /\ phase' = "complete" /\ result'.type \in {"call", "forced"}
      /\ result'.winners \subseteq Lowest(hand) /\ result'.winners # {}
      /\ stack' \in [Players -> Int] /\ Total(stack') = Total(stack)
  BY <1>1, <1>2, ShowdownOutcome DEF TypeOK
<1>4. SumFunction(stack') = NumPlayers * StartStack
  BY <1>2, <1>3, TotalIsSum
<1>5. TypeOK'
  BY <1>1, <1>2, <1>3 DEF TypeOK, Phases
<1>6. Lowest(hand') = Lowest(hand)
  BY <1>1
<1>7. SettlementIsRight'
  BY <1>1, <1>2, <1>3, <1>4, <1>6 DEF SettlementIsRight
<1>8. TurnIsTheDecider' /\ NoLateInstantClang'
  BY <1>1, <1>2, <1>3 DEF TurnIsTheDecider, NoLateInstantClang
<1>9. (exhausted' <=> pile' = NoCards) /\ EmptiedFirst' /\ phase' # "awaiting-discard"
  BY <1>1, <1>2, <1>3 DEF EmptiedFirst
<1>10. QED
  BY <1>5, <1>7, <1>8, <1>9 DEF RoundInv, NoCards

\* A draw keeps the invariant of the round, from an exhausted deck too.
LEMMA DrawKeeps ==
  ASSUME RoundInv, NEW p \in Players, draw(p)
  PROVE  RoundInv'
<1>1. PICK c \in Drawable :
        /\ pile' = [r \in Ranks |-> pile[r] - (IF r = c THEN 1 ELSE 0)]
        /\ hand' = [hand EXCEPT ![p] = [r \in Ranks |-> @[r] + (IF r = c THEN 1 ELSE 0)]]
  BY Zenon DEF draw
<1>2. /\ MayTakeTurn(p) /\ closed' = closed \cup {p} /\ phase' = "awaiting-discard"
      /\ exhausted' = (exhausted \/ pile' = NoCards)
      /\ UNCHANGED <<discards, turn, pendingEat, emptied, stack, result>>
  BY Zenon DEF draw
<1>3. /\ TypeOK /\ pendingEat = NoEat /\ outstandingInstantClangSeats = {} /\ turn = p
      /\ pile # NoCards /\ ~exhausted /\ emptied = NoPlayer
      /\ \A q \in Players : hand[q] # NoCards
  BY <1>2, TurnStarts
<1>4. /\ hand \in [Players -> [Ranks -> Nat]] /\ pile \in [Ranks -> Nat] /\ closed \subseteq Players
  BY <1>3 DEF TypeOK, Bag
<1>5. c \in Ranks /\ pile[c] > 0
  BY <1>3 DEF Drawable
<1>6. pile' \in Bag
  BY <1>1, <1>4, <1>5 DEF Bag
<1>7. /\ hand'[p] = [r \in Ranks |-> hand[p][r] + (IF r = c THEN 1 ELSE 0)]
      /\ \A q \in Players \ {p} : hand'[q] = hand[q]
  BY <1>1, <1>4
<1>8. hand' \in [Players -> Bag]
  <2>1. hand'[p] \in Bag
    BY <1>4, <1>7 DEF Bag
  <2>2. QED
    BY <1>1, <1>4, <2>1 DEF Bag
<1>9. \A q \in Players : hand'[q] # NoCards
  <2>1. hand'[p][c] > 0
    BY <1>4, <1>5, <1>7
  <2>2. hand'[p] # NoCards
    BY <1>5, <2>1 DEF NoCards
  <2>3. QED
    BY <1>3, <1>7, <2>2
<1>10. TypeOK'
  <2>1. phase' \in Phases /\ closed' \subseteq Players /\ exhausted' \in BOOLEAN
    BY <1>2, <1>3, <1>4 DEF Phases
  <2>2. QED
    BY <1>2, <1>3, <1>6, <1>8, <2>1 DEF TypeOK
<1>11. outstandingInstantClangSeats' = {}
  BY <1>2, <1>3, <1>7, NoNewInstantClang
<1>12. exhausted' <=> pile' = NoCards
  BY <1>2, <1>3
<1>13. SettlementIsRight' /\ TurnIsTheDecider' /\ NoLateInstantClang'
  BY <1>2, <1>3, <1>9, <1>11 DEF RoundInv, SettlementIsRight, TurnIsTheDecider, NoLateInstantClang
<1>14. EmptiedFirst' /\ turn' \in closed'
  BY <1>2, <1>3, <1>9 DEF EmptiedFirst
<1>15. QED
  BY <1>10, <1>12, <1>13, <1>14 DEF RoundInv, NoCards

\* The next player is offered the cards that were thrown.
LEMMA EatIsOffered ==
  ASSUME RoundInv, NEW d \in Players, NEW p \in Players, NEW r \in Ranks, d # p,
         hand' \in [Players -> Bag], discards' \in Bag, emptied' \in Players \cup {NoPlayer},
         EmptiedFirst', closed' \subseteq Players, hand'[d][r] = 0, hand'[p][r] > 0,
         UNCHANGED <<pile, exhausted>>, phase' = "awaiting-eat", turn' = p,
         pendingEat' = [discarder |-> d, eater |-> p, rank |-> r],
         outstandingInstantClangSeats' = {},
         stack' \in [Players -> Int], Total(stack') = Total(stack)
  PROVE  RoundInv'
<1>1. /\ TypeOK /\ SumFunction(stack) = NumPlayers * StartStack
      /\ (exhausted <=> pile = NoCards) /\ stack \in [Players -> Int]
  BY DEF RoundInv, SettlementIsRight, TypeOK
<1>2. SumFunction(stack') = NumPlayers * StartStack
  BY <1>1, TotalIsSum
<1>3. pendingEat' # NoEat /\ pendingEat'.eater = p /\ pendingEat'.discarder = d /\ pendingEat'.rank = r
  <2>1. d # NoPlayer
    BY DEF NoPlayer, Players
  <2>2. QED
    BY <2>1 DEF NoEat
<1>4. TypeOK'
  <2>1. /\ phase' \in Phases /\ pile' \in Bag /\ exhausted' \in BOOLEAN
        /\ pendingEat' \in [discarder : Players, eater : Players, rank : Ranks]
    BY <1>1 DEF TypeOK, Phases
  <2>2. QED
    BY <2>1, Zenon DEF TypeOK, Players, Bag, Phases, NoPlayer
<1>5. SettlementIsRight' /\ NoLateInstantClang'
  BY <1>2 DEF SettlementIsRight, NoLateInstantClang
<1>6. TurnIsTheDecider'
  BY <1>3 DEF TurnIsTheDecider, NoEat, NoPlayer, Holds
<1>7. (exhausted' <=> pile' = NoCards) /\ phase' # "awaiting-discard"
  BY <1>1
<1>8. QED
  BY <1>4, <1>5, <1>6, <1>7 DEF RoundInv, NoCards

\* A throw keeps the invariant of the round.
LEMMA PlayKeeps ==
  ASSUME RoundInv, NEW p \in Players, NEW r \in Ranks, playRank(p, r)
  PROVE  RoundInv'
<1> DEFINE eater == NextInOrder(p)
<1>1. /\ phase = "awaiting-discard" /\ turn = p /\ Holds(p, r) /\ Throw(p, r)
      /\ UNCHANGED <<pile, closed, exhausted>>
      /\ \/ /\ Holds(eater, r) /\ turn' = eater /\ phase' = "awaiting-eat"
            /\ pendingEat' = [discarder |-> p, eater |-> eater, rank |-> r]
            /\ UNCHANGED <<stack, result>>
         \/ finishDiscarderTurn(eater, stack) /\ UNCHANGED pendingEat
  BY Zenon DEF playRank
<1>2. /\ TypeOK /\ EmptiedFirst /\ pendingEat = NoEat /\ outstandingInstantClangSeats = {}
      /\ p \in closed /\ closed \subseteq Players /\ stack \in [Players -> Int]
  BY <1>1 DEF RoundInv, TurnIsTheDecider, NoLateInstantClang, TypeOK
<1>3. eater \in Players /\ eater # p
  BY NextIsAnother
<1>4. /\ hand' \in [Players -> Bag] /\ discards' \in Bag
      /\ emptied' \in Players \cup {NoPlayer} /\ EmptiedFirst'
      /\ hand'[p][r] = 0 /\ \A q \in Players \ {p} : hand'[q] = hand[q]
  BY <1>1, <1>2, ThrowOutcome
<1>5. outstandingInstantClangSeats' = {}
  BY <1>1, <1>2, <1>4, NoNewInstantClang
<1>6. CASE /\ Holds(eater, r) /\ turn' = eater /\ phase' = "awaiting-eat"
           /\ pendingEat' = [discarder |-> p, eater |-> eater, rank |-> r]
           /\ UNCHANGED <<stack, result>>
  <2>1. hand'[eater][r] > 0
    BY <1>3, <1>4, <1>6 DEF Holds
  <2> HIDE DEF eater
  <2>2. QED
    BY <1>1, <1>2, <1>3, <1>4, <1>5, <1>6, <2>1, EatIsOffered
<1>7. CASE finishDiscarderTurn(eater, stack) /\ UNCHANGED pendingEat
  <2> HIDE DEF eater
  <2>1. QED
    BY <1>1, <1>2, <1>3, <1>4, <1>5, <1>7, TurnEnds
<1>8. QED
  BY <1>1, <1>6, <1>7

\* An eat keeps the invariant of the round.
LEMMA EatKeeps ==
  ASSUME RoundInv, NEW p \in Players, eat(p)
  PROVE  RoundInv'
<1> DEFINE d == pendingEat.discarder
           r == pendingEat.rank
           next == NextInOrder(p)
<1>1. /\ phase = "awaiting-eat" /\ pendingEat.eater = p /\ Holds(p, r) /\ Throw(p, r)
      /\ closed' = closed \cup {p} /\ UNCHANGED <<pile, exhausted>>
      /\ \/ /\ next # d /\ Holds(next, r) /\ turn' = next
            /\ pendingEat' = [pendingEat EXCEPT !.eater = next]
            /\ stack' = PaidForEating(p) /\ UNCHANGED <<phase, result>>
         \/ pendingEat' = NoEat /\ finishDiscarderTurn(next, PaidForEating(p))
  BY Zenon DEF eat, MayEat
<1>2. /\ TypeOK /\ EmptiedFirst /\ pendingEat # NoEat /\ outstandingInstantClangSeats = {}
      /\ turn = p /\ p # d /\ hand[d][r] = 0 /\ closed \subseteq Players
  BY <1>1 DEF RoundInv, TurnIsTheDecider, NoLateInstantClang, TypeOK
<1>3. /\ d \in Players /\ r \in Ranks /\ next \in Players /\ next # p
      /\ pendingEat = [discarder |-> d, eater |-> p, rank |-> r]
  <2>1. pendingEat \in [discarder : Players, eater : Players, rank : Ranks]
    BY <1>2 DEF TypeOK
  <2>2. QED
    BY <1>1, <2>1, NextIsAnother
<1>4. /\ hand' \in [Players -> Bag] /\ discards' \in Bag
      /\ emptied' \in Players \cup {NoPlayer} /\ EmptiedFirst'
      /\ hand'[p][r] = 0 /\ \A q \in Players \ {p} : hand'[q] = hand[q]
  BY <1>1, <1>2, <1>3, ThrowOutcome
<1>5. outstandingInstantClangSeats' = {} /\ closed' \subseteq Players
  <2>1. closed' \subseteq Players
    BY <1>1, <1>2
  <2>2. QED
    BY <1>1, <1>2, <1>4, <2>1, NoNewInstantClang
<1>6. PaidForEating(p) \in [Players -> Int] /\ Total(PaidForEating(p)) = Total(stack)
  BY <1>2, EatingKeepsTotal
<1>7. CASE /\ next # d /\ Holds(next, r) /\ turn' = next
           /\ pendingEat' = [pendingEat EXCEPT !.eater = next]
           /\ stack' = PaidForEating(p) /\ UNCHANGED <<phase, result>>
  <2>1. hand'[next][r] > 0 /\ hand'[d][r] = 0
    BY <1>2, <1>3, <1>4, <1>7 DEF Holds
  <2> HIDE DEF next, d, r
  <2>2. pendingEat' = [discarder |-> d, eater |-> next, rank |-> r]
    BY <1>3, <1>7
  <2>3. QED
    BY <1>1, <1>2, <1>3, <1>4, <1>5, <1>6, <1>7, <2>1, <2>2, EatIsOffered
<1>8. CASE pendingEat' = NoEat /\ finishDiscarderTurn(next, PaidForEating(p))
  <2> HIDE DEF next, d, r
  <2>1. QED
    BY <1>1, <1>2, <1>3, <1>4, <1>5, <1>6, <1>8, TurnEnds
<1>9. QED
  BY <1>1, <1>7, <1>8

\* A pass keeps the invariant of the round.
LEMMA PassKeeps ==
  ASSUME RoundInv, NEW p \in Players, passEat(p)
  PROVE  RoundInv'
<1>1. /\ phase = "awaiting-eat" /\ pendingEat' = NoEat /\ finishDiscarderTurn(turn, stack)
      /\ UNCHANGED <<hand, pile, discards, closed, emptied, exhausted>>
  BY Zenon DEF passEat, MayEat
<1>2. /\ TypeOK /\ EmptiedFirst' /\ outstandingInstantClangSeats' = {}
  BY <1>1 DEF RoundInv, NoLateInstantClang, EmptiedFirst, outstandingInstantClangSeats
<1>3. /\ hand' \in [Players -> Bag] /\ discards' \in Bag /\ emptied' \in Players \cup {NoPlayer}
      /\ closed' \subseteq Players /\ turn \in Players /\ stack \in [Players -> Int]
  BY <1>1, <1>2 DEF TypeOK
<1>4. QED
  BY <1>1, <1>2, <1>3, TurnEnds

\* A round just dealt is in order.
LEMMA DealInv == Init => RoundInv
<1> SUFFICES ASSUME Init PROVE RoundInv
  OBVIOUS
<1>1. /\ hand \in [Players -> Hands] /\ \A r \in Ranks : InHands(hand, r) <= Deck[r]
      /\ pile = [r \in Ranks |-> Deck[r] - InHands(hand, r)]
      /\ discards = NoCards
      /\ phase = "instant-window" /\ turn = 0 /\ closed = {}
      /\ pendingEat = NoEat /\ emptied = NoPlayer /\ exhausted = FALSE
      /\ result = NoResult
  BY Zenon DEF Init
<1>2. PICK hits \in SUBSET Players : stack = AfterBonuses(hits)
  BY Zenon DEF Init
<1>3. stack \in [Players -> Int] /\ SumFunction(stack) = NumPlayers * StartStack
  BY <1>2, BonusesKeepTotal, TotalIsSum
<1>4. /\ hand \in [Players -> Bag] /\ pile \in Bag /\ pile # NoCards
      /\ \A p \in Players : hand[p] # NoCards
  BY <1>1, DealLeavesCards
<1>5. NoCards \in Bag /\ 0 \in Players
  BY PlayersAssumption DEF NoCards, Bag, Players
<1>6. TypeOK
  BY <1>1, <1>3, <1>4, <1>5 DEF TypeOK, Phases
<1>7. QED
  BY <1>1, <1>3, <1>4, <1>6
  DEF RoundInv, TurnIsTheDecider, NoLateInstantClang, SettlementIsRight, EmptiedFirst

\* Every step of the engine keeps the invariant of the round.
LEMMA RoundKeeps ==
  ASSUME RoundInv, [Next]_vars
  PROVE  RoundInv'
<1>1. ASSUME NEW p \in Players, callInstantClang(p) \/ TakeTurn(p) PROVE RoundInv'
  BY <1>1, InstantClangKeeps, DrawKeeps, CallKeeps, PlayKeeps, EatKeeps, PassKeeps DEF TakeTurn
<1>2. CASE UNCHANGED vars
  BY <1>2 DEF vars, RoundInv, TypeOK, TurnIsTheDecider, NoLateInstantClang, SettlementIsRight,
     EmptiedFirst, outstandingInstantClangSeats, Holds
<1>3. QED
  BY <1>1, <1>2, Zenon DEF Next, Done

\* The whole invariant of a round of Clang.
THEOREM RoundInOrder == Spec => []RoundInv
BY DealInv, RoundKeeps, PTL DEF Spec

\* Whatever is drawn, thrown, eaten and declined, the turn is with somebody who can take it:
\* an eater holds the rank on offer, a discarder has a card, a turn finds one to draw.
THEOREM DeciderCanDecide == Spec => []TurnIsTheDecider
<1>1. RoundInv => TurnIsTheDecider
  BY DEF RoundInv
<1>2. QED
  BY <1>1, RoundInOrder, PTL

\* An instant Clang is called before the first turn or not at all.
THEOREM InstantClangIsEarly == Spec => []NoLateInstantClang
<1>1. RoundInv => NoLateInstantClang
  BY DEF RoundInv
<1>2. QED
  BY <1>1, RoundInOrder, PTL

\* Bounties, eats and settlements neither make nor lose a chip, odd ones included, and a
\* showdown is won by lowest hands, however many tie.
THEOREM SettlementAddsUp == Spec => []SettlementIsRight
<1>1. RoundInv => SettlementIsRight
  BY DEF RoundInv
<1>2. QED
  BY <1>1, RoundInOrder, PTL

-----------------------------------------------------------------------------
(* The server around the round.                                            *)

\* Everybody whose decision the round waits for is there.
DecidersAreThere ==
  phase # "complete" =>
    /\ outstandingInstantClangSeats \cap away = {}
    /\ outstandingInstantClangSeats = {} => turn \notin away

\* The database is behind by one round until the round is settled, which happens in the
\* request that completes it, after the away seats have been played for.
TableInv ==
  /\ RoundInv
  /\ handler \in {"idle", "resolve", "settle"} /\ settled \in BOOLEAN
  /\ settled => phase = "complete" /\ handler = "idle"
  /\ rows = IF settled THEN 1 ELSE 0
  /\ saved = IF settled THEN stack ELSE [p \in Players |-> StartStack]
  /\ handler = "idle" /\ phase = "complete" => settled
  /\ handler # "resolve" => DecidersAreThere

\* An operation of the engine, by a player or for one who is away.
EngineStep == \E p \in Players : callInstantClang(p) \/ TakeTurn(p)

\* The engine acts only in a round that is not over, and what it does is a step of the
\* round.
LEMMA EngineStepIsLive ==
  ASSUME EngineStep
  PROVE  phase # "complete" /\ [Next]_vars
<1>1. PICK p \in Players : callInstantClang(p) \/ TakeTurn(p)
  BY DEF EngineStep
<1>2. phase # "complete"
  BY <1>1 DEF callInstantClang, TakeTurn, draw, callClangNormal, playRank, eat, passEat,
     MayTakeTurn, MayEat
<1>3. Next
  BY <1>1, Zenon DEF Next
<1>4. QED
  BY <1>2, <1>3

\* resolveAwayTurns plays by the rules of the engine.
LEMMA AwayStepIsEngineStep ==
  ASSUME RoundInv, AwayPassEat \/ AwayInstantClang \/ AwayDraw \/ AwayPlay
  PROVE  EngineStep
<1>1. turn \in Players /\ (phase = "awaiting-eat" => pendingEat.eater \in Players)
  BY DEF RoundInv, TypeOK, TurnIsTheDecider
<1>2. CASE AwayPassEat
  BY <1>1, <1>2, Zenon DEF AwayPassEat, EngineStep, TakeTurn
<1>3. CASE AwayInstantClang
  <2>1. PICK p \in outstandingInstantClangSeats : callInstantClang(p)
    BY <1>3, Zenon DEF AwayInstantClang
  <2>2. p \in Players
    BY DEF outstandingInstantClangSeats
  <2>3. QED
    BY <2>1, <2>2, Zenon DEF EngineStep
<1>4. CASE AwayDraw
  BY <1>1, <1>4, Zenon DEF AwayDraw, EngineStep, TakeTurn
<1>5. CASE AwayPlay
  <2>1. \E r \in Ranks : playRank(turn, r)
    BY <1>5, Zenon DEF AwayPlay
  <2>2. QED
    BY <1>1, <2>1, Zenon DEF EngineStep, TakeTurn
<1>6. QED
  BY <1>2, <1>3, <1>4, <1>5

\* Where automatic play finds nobody to play for, the round waits for somebody who is
\* there.
LEMMA NobodyToPlayForIsEnough ==
  ASSUME RoundInv, NobodyToPlayFor
  PROVE  DecidersAreThere
BY DEF RoundInv, NoLateInstantClang, NobodyToPlayFor, DecidersAreThere

\* Every step of the server around a round keeps its invariant.
LEMMA TableKeeps ==
  ASSUME TableInv, [TableNext]_vars2
  PROVE  TableInv'
<1>1. RoundInv
  BY DEF TableInv
<1>2. ASSUME EngineStep, handler' = "resolve", UNCHANGED tableVars PROVE TableInv'
  <2>1. phase # "complete" /\ RoundInv'
    BY <1>1, <1>2, EngineStepIsLive, RoundKeeps
  <2>2. QED
    BY <1>2, <2>1 DEF TableInv, tableVars
<1>3. ASSUME UNCHANGED vars
      PROVE  RoundInv' /\ (away' \subseteq away /\ DecidersAreThere => DecidersAreThere')
  <2>1. RoundInv'
    BY <1>1, <1>3, RoundKeeps
  <2>2. UNCHANGED <<phase, turn>> /\ outstandingInstantClangSeats' = outstandingInstantClangSeats
    BY <1>3 DEF vars, outstandingInstantClangSeats
  <2>3. QED
    BY <2>1, <2>2 DEF DecidersAreThere
<1>4. ASSUME NEW p \in Players, PlayerAction(p) PROVE TableInv'
  BY <1>2, <1>4, Zenon DEF PlayerAction, EngineStep
<1>5. ASSUME NEW p \in Players, GoAway(p) PROVE TableInv'
  <2>1. /\ handler = "idle" /\ handler' = (IF settled THEN "idle" ELSE "resolve")
        /\ UNCHANGED <<vars, seatVars>>
    BY <1>5 DEF GoAway
  <2>2. settled => phase = "complete"
    BY DEF TableInv
  <2>3. RoundInv' /\ UNCHANGED <<phase, stack, settled, rows, saved>>
    BY <1>3, <2>1 DEF vars, seatVars
  <2>4. QED
    BY <2>1, <2>2, <2>3 DEF TableInv, DecidersAreThere
<1>6. ASSUME NEW p \in Players, ComeBack(p) \/ QueueAway(p) PROVE TableInv'
  <2>1. /\ handler = "idle" /\ handler' = "idle" /\ away' \subseteq away
        /\ UNCHANGED <<vars, seatVars>>
    BY <1>6 DEF ComeBack, QueueAway
  <2>2. RoundInv' /\ UNCHANGED <<phase, stack, settled, rows, saved>>
        /\ (DecidersAreThere => DecidersAreThere')
    BY <1>3, <2>1 DEF vars, seatVars
  <2>3. QED
    BY <2>1, <2>2 DEF TableInv
<1>7. CASE resolveAwayTurns
  <2>1. handler = "resolve" /\ UNCHANGED tableVars
        /\ \/ (AwayPassEat \/ AwayInstantClang \/ AwayDraw \/ AwayPlay) /\ UNCHANGED handler
           \/ NobodyToPlayFor /\ handler' = "settle" /\ UNCHANGED vars
    BY <1>7, Zenon DEF resolveAwayTurns
  <2>2. CASE (AwayPassEat \/ AwayInstantClang \/ AwayDraw \/ AwayPlay) /\ UNCHANGED handler
    BY <1>1, <1>2, <2>1, <2>2, AwayStepIsEngineStep
  <2>3. CASE NobodyToPlayFor /\ handler' = "settle" /\ UNCHANGED vars
    <3>1. RoundInv' /\ DecidersAreThere'
      BY <1>1, <1>3, <2>1, <2>3, NobodyToPlayForIsEnough DEF tableVars
    <3>2. QED
      BY <2>1, <2>3, <3>1 DEF TableInv, tableVars, vars
  <2>4. QED
    BY <2>1, <2>2, <2>3
<1>8. CASE settleIfComplete
  <2>1. /\ handler = "settle" /\ handler' = "idle" /\ UNCHANGED vars
        /\ \/ /\ Unsettled /\ settled' = TRUE /\ rows' = rows + 1 /\ saved' = stack
           \/ ~Unsettled /\ UNCHANGED tableVars
    BY <1>8, Zenon DEF settleIfComplete, SavedStacks
  <2>2. RoundInv' /\ UNCHANGED <<phase, stack>>
    BY <1>3, <2>1 DEF vars
  <2>3. CASE Unsettled /\ settled' = TRUE /\ rows' = rows + 1 /\ saved' = stack
    <3>1. ~settled /\ phase = "complete"
      BY <2>3 DEF Unsettled
    <3>2. QED
      BY <2>1, <2>2, <2>3, <3>1 DEF TableInv, DecidersAreThere
  <2>4. CASE ~Unsettled /\ UNCHANGED tableVars
    <3>1. ~settled /\ phase # "complete" /\ DecidersAreThere
      BY <2>1, <2>4 DEF TableInv, Unsettled
    <3>2. DecidersAreThere'
      BY <1>3, <2>1, <2>4, <3>1 DEF tableVars
    <3>3. QED
      BY <2>1, <2>2, <2>4, <3>1, <3>2 DEF TableInv, tableVars
  <2>5. QED
    BY <2>1, <2>3, <2>4
<1>9. CASE UNCHANGED vars2
  <2>1. RoundInv' /\ (DecidersAreThere => DecidersAreThere')
    BY <1>3, <1>9 DEF vars2
  <2>2. QED
    BY <1>9, <2>1 DEF TableInv, vars2, vars
<1>10. QED
  BY <1>4, <1>5, <1>6, <1>7, <1>8, <1>9, Zenon DEF TableNext, finish

\* Around every round the server keeps its books: the round is in order, automatic play has
\* been through for whoever is away, and the round is stored when it is over and never
\* before (processClangRunout, handleClangAction).
THEOREM TableInOrder == TableSpec => []TableInv
<1>1. TableInit => TableInv
  BY DealInv, Zenon DEF TableInit, TableInv
<1>2. QED
  BY <1>1, TableKeeps, PTL DEF TableSpec

\* However players come and go, between two requests a round waits for somebody who is there.
THEOREM NobodyAwayIsAwaited == TableSpec => []AwayNeverStalls
<1>1. TableInv => AwayNeverStalls
  BY DEF TableInv, DecidersAreThere, AwayNeverStalls
<1>2. QED
  BY <1>1, TableInOrder, PTL

\* Between two requests the database holds the stacks from before the round or, once it is
\* over, the final ones, and its row once.
THEOREM RoundIsSavedWhole == TableSpec => []SavedOnceAndWhole
<1>1. TableInv => SavedOnceAndWhole
  <2> SUFFICES ASSUME TableInv, handler = "idle" PROVE SavedOnceAndWhole
    BY DEF SavedOnceAndWhole
  <2>1. settled <=> phase = "complete"
    BY DEF TableInv
  <2>2. QED
    BY <2>1 DEF TableInv, SavedOnceAndWhole
<1>2. QED
  BY <1>1, TableInOrder, PTL

-----------------------------------------------------------------------------
(* What a step does to the cards, as the log tells it.                     *)

\* p has drawn a card of rank c, and now has to throw.
Drawn(p, c) ==
  /\ phase \in {"turn", "instant-window"} /\ turn = p
  /\ pile[c] > 0 /\ pile'[c] = pile[c] - 1 /\ \A r \in Ranks \ {c} : pile'[r] = pile[r]
  /\ hand'[p][c] = hand[p][c] + 1 /\ \A r \in Ranks \ {c} : hand'[p][r] = hand[p][r]
  /\ \A q \in Players \ {p} : hand'[q] = hand[q]
  /\ discards' = discards /\ phase' = "awaiting-discard" /\ turn' = p

\* p has thrown its cards of rank c, which the next player may eat.
Thrown(p, c) ==
  /\ phase \in {"awaiting-discard", "awaiting-eat"} /\ turn = p
  /\ hand[p][c] > 0 /\ hand'[p][c] = 0 /\ \A r \in Ranks \ {c} : hand'[p][r] = hand[p][r]
  /\ \A q \in Players \ {p} : hand'[q] = hand[q]
  /\ discards'[c] = discards[c] + hand[p][c]
  /\ \A r \in Ranks \ {c} : discards'[r] = discards[r]
  /\ pile' = pile /\ phase' \in {"turn", "awaiting-eat", "complete"}
  /\ phase' = "awaiting-eat" => turn' = NextInOrder(p)

\* No card has moved, and nobody had or has one to throw, or has one to eat.
NothingMoved ==
  UNCHANGED <<hand, pile, discards>> /\ phase # "awaiting-discard" /\ phase' \in {"turn", "complete"}

\* What ends a turn passes it on or ends the round.
LEMMA TurnEndsOrRoundDoes ==
  ASSUME NEW next, NEW st, finishDiscarderTurn(next, st)
  PROVE  phase' \in {"turn", "complete"}
<1>1. ASSUME NEW p, settleEmptyHandWin(p, st) PROVE phase' = "complete"
  BY <1>1 DEF settleEmptyHandWin, Complete
<1>2. ASSUME settleShowdown(NoPlayer, hand', st) PROVE phase' = "complete"
  BY <1>2 DEF settleShowdown, Complete
<1>3. QED
  BY <1>1, <1>2 DEF finishDiscarderTurn

\* A draw moves one card from the pile into the hand of whoever has the turn.
LEMMA DrawMoves ==
  ASSUME RoundInv, NEW p \in Players, draw(p)
  PROVE  \E c \in Ranks : Drawn(p, c)
<1>1. PICK c \in Drawable :
        /\ pile' = [r \in Ranks |-> pile[r] - (IF r = c THEN 1 ELSE 0)]
        /\ hand' = [hand EXCEPT ![p] = [r \in Ranks |-> @[r] + (IF r = c THEN 1 ELSE 0)]]
  BY Zenon DEF draw
<1>2. /\ MayTakeTurn(p) /\ phase' = "awaiting-discard" /\ UNCHANGED <<discards, turn>>
  BY Zenon DEF draw
<1>3. TypeOK /\ turn = p /\ pile # NoCards
  BY <1>2, TurnStarts
<1>4. hand \in [Players -> [Ranks -> Nat]] /\ pile \in [Ranks -> Nat]
  BY <1>3 DEF TypeOK, Bag
<1>5. c \in Ranks /\ pile[c] > 0
  BY <1>3 DEF Drawable
<1>6. pile'[c] = pile[c] - 1 /\ \A r \in Ranks \ {c} : pile'[r] = pile[r]
  BY <1>1, <1>4, <1>5
<1>7. /\ hand'[p] = [r \in Ranks |-> hand[p][r] + (IF r = c THEN 1 ELSE 0)]
      /\ \A q \in Players \ {p} : hand'[q] = hand[q]
  BY <1>1, <1>4
<1>8. hand'[p][c] = hand[p][c] + 1 /\ \A r \in Ranks \ {c} : hand'[p][r] = hand[p][r]
  BY <1>4, <1>5, <1>7
<1>9. phase \in {"turn", "instant-window"}
  BY <1>2 DEF MayTakeTurn
<1>10. QED
  BY <1>2, <1>3, <1>5, <1>6, <1>7, <1>8, <1>9 DEF Drawn

\* A throw or an eat moves all cards of one rank from the hand to the discards.
LEMMA ThrowMoves ==
  ASSUME RoundInv, NEW p \in Players, NEW c \in Ranks, Holds(p, c), Throw(p, c), pile' = pile,
         phase \in {"awaiting-discard", "awaiting-eat"}, turn = p,
         phase' \in {"turn", "awaiting-eat", "complete"},
         phase' = "awaiting-eat" => turn' = NextInOrder(p)
  PROVE  Thrown(p, c)
<1>1. /\ hand' = [hand EXCEPT ![p][c] = 0]
      /\ discards' = [discards EXCEPT ![c] = @ + hand[p][c]]
  BY DEF Throw
<1>2. hand \in [Players -> [Ranks -> Nat]] /\ discards \in [Ranks -> Nat]
  BY DEF RoundInv, TypeOK, Bag
<1>3. /\ hand'[p][c] = 0 /\ \A r \in Ranks \ {c} : hand'[p][r] = hand[p][r]
      /\ \A q \in Players \ {p} : hand'[q] = hand[q]
  BY <1>1, <1>2
<1>4. discards'[c] = discards[c] + hand[p][c] /\ \A r \in Ranks \ {c} : discards'[r] = discards[r]
  BY <1>1, <1>2
<1>5. QED
  BY <1>3, <1>4 DEF Thrown, Holds

\* A step of the round draws a card, throws those of a rank, or moves none.
LEMMA StepMovesCards ==
  ASSUME RoundInv, Next
  PROVE  \/ \E p \in Players, c \in Ranks : Drawn(p, c) \/ Thrown(p, c)
         \/ NothingMoved
<1>1. ASSUME NEW p \in Players, callInstantClang(p) PROVE NothingMoved
  <2>1. /\ phase # "complete" /\ p \in outstandingInstantClangSeats
        /\ phase' = "complete" /\ UNCHANGED <<hand, pile, discards>>
    BY <1>1 DEF callInstantClang, settleInstantWin, Complete, outstandingInstantClangSeats
  <2>2. phase # "awaiting-discard"
    BY <2>1 DEF RoundInv, NoLateInstantClang
  <2>3. QED
    BY <2>1, <2>2 DEF NothingMoved
<1>2. ASSUME NEW p \in Players, callClangNormal(p) PROVE NothingMoved
  <2>1. /\ MayTakeTurn(p) /\ settleShowdown(p, hand, stack) /\ UNCHANGED <<hand, pile, discards>>
    BY <1>2, Zenon DEF callClangNormal
  <2>2. hand \in [Players -> Bag] /\ stack \in [Players -> Int]
    BY DEF RoundInv, TypeOK
  <2>3. phase' = "complete"
    BY <2>1, <2>2, ShowdownOutcome
  <2>4. QED
    BY <2>1, <2>3 DEF NothingMoved, MayTakeTurn
<1>3. ASSUME NEW p \in Players, draw(p) PROVE \E c \in Ranks : Drawn(p, c)
  BY <1>3, DrawMoves
<1>4. ASSUME NEW p \in Players, NEW c \in Ranks, playRank(p, c) PROVE Thrown(p, c)
  <2>1. /\ phase = "awaiting-discard" /\ turn = p /\ Holds(p, c) /\ Throw(p, c) /\ pile' = pile
        /\ \/ turn' = NextInOrder(p) /\ phase' = "awaiting-eat"
           \/ finishDiscarderTurn(NextInOrder(p), stack)
    BY <1>4, Zenon DEF playRank
  <2>2. \/ turn' = NextInOrder(p) /\ phase' = "awaiting-eat"
        \/ phase' \in {"turn", "complete"}
    BY <2>1, TurnEndsOrRoundDoes
  <2>3. QED
    BY <2>1, <2>2, ThrowMoves
<1>5. ASSUME NEW p \in Players, eat(p) PROVE Thrown(p, pendingEat.rank) /\ pendingEat.rank \in Ranks
  <2>1. /\ phase = "awaiting-eat" /\ pendingEat.eater = p
        /\ Holds(p, pendingEat.rank) /\ Throw(p, pendingEat.rank) /\ pile' = pile
        /\ \/ turn' = NextInOrder(p) /\ phase' = phase
           \/ finishDiscarderTurn(NextInOrder(p), PaidForEating(p))
    BY <1>5, Zenon DEF eat, MayEat
  <2>2. turn = p /\ pendingEat.rank \in Ranks
    BY <2>1 DEF RoundInv, TurnIsTheDecider, TypeOK
  <2>3. \/ turn' = NextInOrder(p) /\ phase' = "awaiting-eat"
        \/ phase' \in {"turn", "complete"}
    BY <2>1, TurnEndsOrRoundDoes
  <2>4. QED
    BY <2>1, <2>2, <2>3, ThrowMoves
<1>6. ASSUME NEW p \in Players, passEat(p) PROVE NothingMoved
  <2>1. /\ phase = "awaiting-eat" /\ finishDiscarderTurn(turn, stack)
        /\ UNCHANGED <<hand, pile, discards>>
    BY <1>6, Zenon DEF passEat, MayEat
  <2>2. QED
    BY <2>1, TurnEndsOrRoundDoes DEF NothingMoved
<1>7. CASE Done
  BY <1>7 DEF Done, vars, NothingMoved
<1>8. QED
  BY <1>1, <1>2, <1>3, <1>4, <1>5, <1>6, <1>7, Zenon DEF Next, TakeTurn

-----------------------------------------------------------------------------
(* The replay.                                                             *)

\* Every card of h, and at most one of them twice.
OneTwice(g, h) ==
  /\ \A r \in Ranks : g[r] = h[r] \/ g[r] = h[r] + 1
  /\ \A r, q \in Ranks : g[r] # h[r] /\ g[q] # h[q] => r = q

\* A hand shown with one card twice has at most one card too many, and none too few.
LEMMA OneTwiceIsOneMore ==
  ASSUME NEW g \in Bag, NEW h \in Bag, OneTwice(g, h)
  PROVE  Size(g) <= Size(h) + 1 /\ \A r \in Ranks : g[r] >= h[r]
<1>1. \A r \in Ranks : g[r] \in Nat /\ h[r] \in Nat
  BY DEF Bag
<1>2. \A r \in Ranks : g[r] >= h[r]
  BY <1>1 DEF OneTwice
<1>3. Size(g) \in Nat /\ Size(h) \in Nat
  BY SizeIsNatural
<1>4. CASE \A r \in Ranks : g[r] = h[r]
  <2>1. g = h
    BY <1>4 DEF Bag
  <2>2. QED
    BY <1>2, <1>3, <2>1
<1>5. CASE \E r \in Ranks : g[r] # h[r]
  <2>1. PICK r \in Ranks : g[r] # h[r]
    BY <1>5
  <2>2. g[r] = h[r] + 1 /\ \A q \in Ranks \ {r} : g[q] = h[q]
    BY <2>1 DEF OneTwice
  <2>3. Size(g) = Size(h) + 1
    BY <2>2, SizeAfterCards
  <2>4. QED
    BY <1>2, <1>3, <2>3
<1>6. QED
  BY <1>4, <1>5

\* The replay counts the piles right and has every card a player holds.  A hand is in it as it is
\* until its player, who still shares the array of the deal, draws; the card drawn is there twice
\* until it is thrown.  The last entry tells who has to throw, and before an eat who threw.
ReplayInv ==
  /\ RoundInv
  /\ frame \in [hand : [Players -> Bag], pile : Nat, discarded : Nat]
  /\ frame.pile = Size(pile) /\ frame.discarded = Size(discards)
  /\ \A p \in Players : OneTwice(frame.hand[p], hand[p])
  /\ shared \subseteq Players
  /\ \A p \in shared : (phase = "awaiting-discard" /\ turn = p) \/ frame.hand[p] = hand[p]
  /\ last.type = "draw" <=> phase = "awaiting-discard"
  /\ last.type = "draw" => last.seat = turn
  /\ phase = "awaiting-eat" => last.type \in {"play", "eat"} /\ NextInOrder(last.seat) = turn

\* The replay of a draw shows the hands the engine holds after it.
LEMMA DrawnIsReplayed ==
  ASSUME ReplayInv, RoundInv', NEW p \in Players, NEW c \in Ranks, Drawn(p, c), Logged
  PROVE  ReplayInv'
<1>1. /\ phase \in {"turn", "instant-window"} /\ turn = p
      /\ pile[c] > 0 /\ pile'[c] = pile[c] - 1 /\ \A r \in Ranks \ {c} : pile'[r] = pile[r]
      /\ hand'[p][c] = hand[p][c] + 1 /\ \A r \in Ranks \ {c} : hand'[p][r] = hand[p][r]
      /\ \A q \in Players \ {p} : hand'[q] = hand[q]
      /\ discards' = discards /\ phase' = "awaiting-discard" /\ turn' = p
  BY DEF Drawn
<1>2. /\ hand \in [Players -> Bag] /\ pile \in Bag /\ discards \in Bag
      /\ hand' \in [Players -> Bag] /\ pile' \in Bag
  BY DEF ReplayInv, RoundInv, TypeOK, Bag, Players
<1>3. \A q \in Players, r \in Ranks : hand[q][r] \in Nat /\ hand'[q][r] \in Nat
  BY <1>2 DEF Bag
<1>4. \A q \in Players, r \in Ranks :
        ~LoggedThrow(q, r) /\ (LoggedDraw(q, r) => q = p /\ r = c)
  BY <1>1, <1>3 DEF LoggedThrow, LoggedDraw
<1>5. hand' # hand
  BY <1>1, <1>3
<1>6. frame' = DrawFrame(frame, p, c) /\ last' = Entry("draw", p) /\ shared' = shared
  BY <1>4, <1>5, Zenon DEF Logged
<1> DEFINE more == IF p \in shared THEN 2 ELSE 1
<1>7. /\ frame \in [hand : [Players -> Bag], pile : Nat, discarded : Nat]
      /\ frame.hand \in [Players -> Bag] /\ frame.pile = Size(pile)
      /\ more \in Nat
  BY DEF ReplayInv
<1>8. Size(pile') = Size(pile) - 1 /\ Size(pile) > 0 /\ Size(pile') \in Nat
  <2>1. pile'[c] = pile[c] + (-1) /\ -1 \in Int
    BY <1>1, <1>2 DEF Bag
  <2>2. Size(pile') = Size(pile) + (-1)
    BY <1>1, <1>2, <2>1, SizeAfterCards, Zenon
  <2>3. Size(pile) \in Nat /\ Size(pile') \in Nat
    BY <1>2, SizeIsNatural
  <2>4. QED
    BY <2>2, <2>3
<1>9. /\ frame'.hand = [frame.hand EXCEPT ![p][c] = @ + more]
      /\ frame'.pile = Size(pile') /\ frame'.discarded = frame.discarded
      /\ frame' = [hand |-> frame'.hand, pile |-> frame'.pile, discarded |-> frame'.discarded]
  BY <1>6, <1>7, <1>8 DEF DrawFrame
<1>10. /\ frame'.hand \in [Players -> Bag]
       /\ frame'.hand[p][c] = frame.hand[p][c] + more
       /\ \A r \in Ranks \ {c} : frame'.hand[p][r] = frame.hand[p][r]
       /\ \A q \in Players \ {p} : frame'.hand[q] = frame.hand[q]
  <2> HIDE DEF more
  <2>1. QED
    BY <1>7, <1>9 DEF Bag
<1>11. frame' \in [hand : [Players -> Bag], pile : Nat, discarded : Nat]
  BY <1>7, <1>8, <1>9, <1>10
<1>12. \A q \in Players : OneTwice(frame'.hand[q], hand'[q])
  <2>1. OneTwice(frame.hand[p], hand[p]) /\ (p \in shared => frame.hand[p] = hand[p])
    BY <1>1 DEF ReplayInv
  <2>2. \A r \in Ranks : frame.hand[p][r] \in Nat
    BY <1>7 DEF Bag
  <2>3. OneTwice(frame'.hand[p], hand'[p])
    BY <1>1, <1>3, <1>10, <2>1, <2>2 DEF OneTwice
  <2>4. QED
    BY <1>1, <1>10, <2>3 DEF ReplayInv
<1>13. \A q \in shared' : (phase' = "awaiting-discard" /\ turn' = q) \/ frame'.hand[q] = hand'[q]
  BY <1>1, <1>6, <1>10 DEF ReplayInv
<1>14. last'.type = "draw" /\ last'.seat = p
  BY <1>6 DEF Entry
<1>15. frame'.discarded = Size(discards') /\ shared' \subseteq Players
  BY <1>1, <1>6, <1>9 DEF ReplayInv
<1>16. QED
  BY <1>1, <1>9, <1>11, <1>12, <1>13, <1>14, <1>15 DEF ReplayInv, OneTwice, Size, Bag, Players,
     NextInOrder

\* The replay of a throw or an eat shows the hands the engine holds after it.
LEMMA ThrownIsReplayed ==
  ASSUME ReplayInv, RoundInv', NEW p \in Players, NEW c \in Ranks, Thrown(p, c), Logged
  PROVE  ReplayInv'
<1>1. /\ phase \in {"awaiting-discard", "awaiting-eat"} /\ turn = p
      /\ hand[p][c] > 0 /\ hand'[p][c] = 0 /\ \A r \in Ranks \ {c} : hand'[p][r] = hand[p][r]
      /\ \A q \in Players \ {p} : hand'[q] = hand[q]
      /\ discards'[c] = discards[c] + hand[p][c]
      /\ \A r \in Ranks \ {c} : discards'[r] = discards[r]
      /\ pile' = pile /\ phase' \in {"turn", "awaiting-eat", "complete"}
      /\ phase' = "awaiting-eat" => turn' = NextInOrder(p)
  BY DEF Thrown
<1>2. /\ hand \in [Players -> Bag] /\ pile \in Bag /\ discards \in Bag
      /\ hand' \in [Players -> Bag] /\ discards' \in Bag
  BY DEF ReplayInv, RoundInv, TypeOK, Bag, Players
<1>3. \A q \in Players, r \in Ranks : hand[q][r] \in Nat /\ hand'[q][r] \in Nat
  BY <1>2 DEF Bag
<1>4. \A q \in Players, r \in Ranks :
        ~LoggedDraw(q, r) /\ (LoggedThrow(q, r) => q = p /\ r = c)
  BY <1>1, <1>3 DEF LoggedThrow, LoggedDraw
<1>5. hand' # hand
  BY <1>1, <1>3
<1>6. /\ frame' = ThrowFrame(frame, p, c, hand[p][c])
      /\ last' = IF phase' = "complete" THEN OtherEntry ELSE ThrowEntry(p)
      /\ shared' = shared \ {p}
  BY <1>4, <1>5, Zenon DEF Logged
<1>7. /\ frame \in [hand : [Players -> Bag], pile : Nat, discarded : Nat]
      /\ frame.hand \in [Players -> Bag] /\ frame.discarded = Size(discards)
      /\ frame.pile = Size(pile)
  BY DEF ReplayInv
<1>8. Size(discards') = Size(discards) + hand[p][c] /\ Size(discards') \in Nat
  BY <1>1, <1>2, <1>3, SizeAfterCards, SizeIsNatural
<1>9. /\ frame'.hand = [frame.hand EXCEPT ![p][c] = 0]
      /\ frame'.pile = frame.pile /\ frame'.discarded = Size(discards')
      /\ frame' = [hand |-> frame'.hand, pile |-> frame'.pile, discarded |-> frame'.discarded]
  BY <1>6, <1>7, <1>8 DEF ThrowFrame
<1>10. /\ frame'.hand \in [Players -> Bag]
       /\ frame'.hand[p][c] = 0
       /\ \A r \in Ranks \ {c} : frame'.hand[p][r] = frame.hand[p][r]
       /\ \A q \in Players \ {p} : frame'.hand[q] = frame.hand[q]
  BY <1>7, <1>9 DEF Bag
<1>11. frame' \in [hand : [Players -> Bag], pile : Nat, discarded : Nat]
  BY <1>7, <1>8, <1>9, <1>10
<1>12. \A q \in Players : OneTwice(frame'.hand[q], hand'[q])
  <2>1. OneTwice(frame.hand[p], hand[p])
    BY DEF ReplayInv
  <2>2. OneTwice(frame'.hand[p], hand'[p])
    BY <1>1, <1>3, <1>10, <2>1 DEF OneTwice
  <2>3. QED
    BY <1>1, <1>10, <2>2 DEF ReplayInv
<1>13. \A q \in shared' : frame'.hand[q] = hand'[q]
  BY <1>1, <1>6, <1>10 DEF ReplayInv
<1>14. /\ last'.type # "draw"
       /\ phase' = "awaiting-eat" => last'.type \in {"play", "eat"} /\ last'.seat = p
  BY <1>6 DEF ThrowEntry, OtherEntry, Entry
<1>15. frame'.pile = Size(pile') /\ shared' \subseteq Players
  BY <1>1, <1>6, <1>7, <1>9 DEF ReplayInv
<1>16. phase' = "awaiting-eat" => NextInOrder(last'.seat) = turn'
  BY <1>1, <1>14
<1>17. QED
  BY <1>1, <1>9, <1>11, <1>12, <1>13, <1>14, <1>15, <1>16 DEF ReplayInv, OneTwice, Size, Bag,
     Players, NextInOrder

\* Every entry of the log keeps the replay as right as it was.
LEMMA ReplayKeeps ==
  ASSUME ReplayInv, [ReplayNext]_replayVars
  PROVE  ReplayInv'
<1>1. CASE UNCHANGED replayVars
  BY <1>1, RoundKeeps DEF ReplayInv, replayVars, vars, NextInOrder
<1>2. CASE ReplayNext
  <2>1. Next /\ Logged /\ RoundInv /\ RoundInv'
    BY <1>2, RoundKeeps DEF ReplayNext, ReplayInv
  <2>2. CASE NothingMoved
    <3>1. \A q \in Players, r \in Ranks : ~LoggedThrow(q, r) /\ ~LoggedDraw(q, r)
      <4>1. \A q \in Players, r \in Ranks : hand[q][r] \in Nat /\ hand' = hand
        BY <2>1, <2>2 DEF RoundInv, TypeOK, Bag, NothingMoved
      <4>2. QED
        BY <4>1 DEF LoggedThrow, LoggedDraw
    <3>2. last' = OtherEntry /\ UNCHANGED <<frame, shared>>
      BY <2>1, <3>1, Zenon DEF Logged
    <3>3. QED
      BY <2>1, <2>2, <3>2 DEF NothingMoved, ReplayInv, OtherEntry, Entry
  <2>3. QED
    BY <2>1, <2>2, StepMovesCards, DrawnIsReplayed, ThrownIsReplayed
<1>3. QED
  BY <1>1, <1>2

-----------------------------------------------------------------------------
(* The buttons.                                                            *)

\* The snapshot offers what the engine accepts, but for the draw an instant Clang holds up.
LEMMA OffersAreAccepted ==
  ASSUME phase # "complete", NEW p \in Players
  PROVE  IF outstandingInstantClangSeats = {} THEN legalActions(p) = Accepted(p)
         ELSE Accepted(p) = [legalActions(p) EXCEPT !.canDraw = FALSE]
<1> DEFINE turnHere == turn = p /\ phase \in {"turn", "instant-window"}
           open == outstandingInstantClangSeats = {}
           play == phase = "awaiting-discard" /\ turn = p
           call == p \notin closed /\ handValue(hand[p]) = InstantValue
           eater == phase = "awaiting-eat" /\ pendingEat.eater = p
           holds == Holds(p, pendingEat.rank)
           offered(d) == [canDraw |-> d, canPlay |-> play, canCallInstantClang |-> call,
                          canEat |-> eater /\ holds, canPassEat |-> eater]
<1>1. legalActions(p) = offered(turnHere)
  <2>1. (turnSeatIndex = p) = (turn = p)
    BY DEF turnSeatIndex
  <2>2. /\ (turnSeatIndex = p /\ phase \in {"turn", "instant-window"}) = turnHere
        /\ (turnSeatIndex = p /\ phase = "awaiting-discard") = play
    BY <2>1
  <2>3. legalActions(p) = [canDraw |-> turnSeatIndex = p /\ phase \in {"turn", "instant-window"},
                           canPlay |-> turnSeatIndex = p /\ phase = "awaiting-discard",
                           canCallInstantClang |-> call,
                           canEat |-> eater /\ holds, canPassEat |-> eater]
    BY Zenon DEF legalActions
  <2>4. QED
    BY <2>2, <2>3, Zenon
<1>2. Accepted(p) = offered(turnHere /\ open)
  <2>1. MayTakeTurn(p) = (turnHere /\ open)
    BY DEF MayTakeTurn
  <2>2. MayEat(p) = eater
    BY DEF MayEat
  <2>3. Accepted(p) = [canDraw |-> MayTakeTurn(p), canPlay |-> play, canCallInstantClang |-> call,
                       canEat |-> MayEat(p) /\ holds, canPassEat |-> MayEat(p)]
    BY Zenon DEF Accepted
  <2>4. QED
    BY <2>1, <2>2, <2>3, Zenon
<1>3. CASE open
  <2>1. (turnHere /\ open) = turnHere
    BY <1>3
  <2>2. QED
    BY <1>1, <1>2, <1>3, <2>1, Zenon
<1>4. CASE ~open
  <2>1. (turnHere /\ open) = FALSE
    BY <1>4
  <2>2. PICK d, e, f, g, h, k :
          d = turnHere /\ e = play /\ f = call /\ g = (eater /\ holds) /\ h = eater /\ k = FALSE
    BY Zenon
  <2>3. legalActions(p) = [canDraw |-> d, canPlay |-> e, canCallInstantClang |-> f, canEat |-> g,
                           canPassEat |-> h]
    BY <1>1, <2>2, Zenon
  <2>4. Accepted(p) = [canDraw |-> k, canPlay |-> e, canCallInstantClang |-> f, canEat |-> g,
                       canPassEat |-> h]
    BY <1>2, <2>1, <2>2, Zenon
  <2> HIDE DEF turnHere, open, play, call, eater, holds
  <2>5. [[canDraw |-> d, canPlay |-> e, canCallInstantClang |-> f, canEat |-> g,
          canPassEat |-> h] EXCEPT !.canDraw = k]
          = [canDraw |-> k, canPlay |-> e, canCallInstantClang |-> f, canEat |-> g,
             canPassEat |-> h]
    BY SMT
  <2>6. [legalActions(p) EXCEPT !.canDraw = k] = Accepted(p)
    BY <2>3, <2>4, <2>5
  <2>7. [legalActions(p) EXCEPT !.canDraw = FALSE] = Accepted(p)
    BY <2>2, <2>6, Zenon
  <2>8. QED
    BY <1>4, <2>7, Zenon DEF open
<1>5. QED
  BY <1>3, <1>4

\* Every request that would be accepted has its button.
LEMMA AcceptedHasButton ==
  ASSUME phase # "complete", NEW p \in Players
  PROVE  AcceptedRequests(p) \subseteq panelButtons(p)
<1> SUFFICES ASSUME NEW x \in AcceptedRequests(p) PROVE x \in panelButtons(p)
  OBVIOUS
<1> DEFINE a == Accepted(p)
           b == legalActions(p)
<1>1. /\ a.canPlay => b.canPlay
      /\ a.canCallInstantClang => b.canCallInstantClang
      /\ a.canEat => b.canEat
      /\ a.canPassEat => b.canPassEat
      /\ a.canDraw => ~b.canPlay
  BY DEF Accepted, legalActions, MayEat, MayTakeTurn, turnSeatIndex
<1>2. \/ a.canDraw /\ x \in {<<"draw">>, <<"callClang">>}
      \/ a.canPlay /\ x \in {<<"play", r>> : r \in {y \in Ranks : Holds(p, y)}}
      \/ a.canCallInstantClang /\ x \in {<<"callClangInstant">>}
      \/ a.canEat /\ x \in {<<"eat">>}
      \/ a.canPassEat /\ x \in {<<"passEat">>}
  BY Zenon DEF AcceptedRequests
<1>3. {y \in Ranks : Holds(p, y)} = groupByRank(hand[p])
  BY DEF Holds, groupByRank
<1>4. \A y :
        \/ b.canEat /\ y \in {<<"eat">>}
        \/ b.canPassEat /\ y \in {<<"passEat">>}
        \/ b.canCallInstantClang /\ y \in {<<"callClangInstant">>}
        \/ b.canPlay /\ y \in {<<"play", r>> : r \in groupByRank(hand[p])}
        \/ ~b.canPlay /\ y \in {<<"draw">>}
        \/ y \in {<<"callClang">>}
        => y \in panelButtons(p)
  BY Zenon DEF panelButtons
<1> HIDE DEF a, b
<1>5. CASE a.canDraw /\ x \in {<<"draw">>, <<"callClang">>}
  BY <1>1, <1>4, <1>5
<1>6. CASE a.canPlay /\ x \in {<<"play", r>> : r \in {y \in Ranks : Holds(p, y)}}
  BY <1>1, <1>3, <1>4, <1>6, Zenon
<1>7. CASE \/ a.canCallInstantClang /\ x \in {<<"callClangInstant">>}
           \/ a.canEat /\ x \in {<<"eat">>}
           \/ a.canPassEat /\ x \in {<<"passEat">>}
  BY <1>1, <1>4, <1>7, Zenon
<1>8. QED
  BY <1>2, <1>5, <1>6, <1>7, Zenon

\* Until the round is over somebody has a request to make that is accepted.
LEMMA SomebodyCanAct ==
  ASSUME RoundInv, phase # "complete"
  PROVE  \E p \in Players : AcceptedRequests(p) # {}
<1>1. TypeOK /\ TurnIsTheDecider /\ turn \in Players
  BY DEF RoundInv, TypeOK
<1>2. CASE phase \in {"turn", "instant-window"} /\ outstandingInstantClangSeats = {}
  <2>1. Accepted(turn).canDraw
    BY <1>2 DEF Accepted, MayTakeTurn
  <2>2. <<"draw">> \in AcceptedRequests(turn)
    BY <2>1, Zenon DEF AcceptedRequests
  <2>3. QED
    BY <1>1, <2>2
<1>3. CASE outstandingInstantClangSeats # {}
  <2>1. PICK p \in Players : p \notin closed /\ handValue(hand[p]) = InstantValue
    BY <1>3 DEF outstandingInstantClangSeats
  <2>2. Accepted(p).canCallInstantClang
    BY <2>1 DEF Accepted
  <2>3. <<"callClangInstant">> \in AcceptedRequests(p)
    BY <2>2, Zenon DEF AcceptedRequests
  <2>4. QED
    BY <2>3
<1>4. CASE phase = "awaiting-discard"
  <2>1. hand[turn] # NoCards /\ hand[turn] \in [Ranks -> Nat]
    BY <1>1, <1>4 DEF TurnIsTheDecider, TypeOK, Bag
  <2>2. PICK r \in Ranks : hand[turn][r] # 0
    BY <2>1 DEF NoCards
  <2>3. Holds(turn, r)
    BY <2>1, <2>2 DEF Holds
  <2>4. Accepted(turn).canPlay
    BY <1>4 DEF Accepted
  <2>5. <<"play", r>> \in AcceptedRequests(turn)
    BY <2>3, <2>4, Zenon DEF AcceptedRequests
  <2>6. QED
    BY <1>1, <2>5
<1>5. CASE phase = "awaiting-eat"
  <2>1. MayEat(turn)
    BY <1>1, <1>5 DEF TurnIsTheDecider, MayEat
  <2>2. Accepted(turn).canPassEat
    BY <2>1 DEF Accepted
  <2>3. <<"passEat">> \in AcceptedRequests(turn)
    BY <2>2, Zenon DEF AcceptedRequests
  <2>4. QED
    BY <1>1, <2>3
<1>6. QED
  BY <1>1, <1>2, <1>3, <1>4, <1>5 DEF TypeOK, Phases

\* What is shown of a round of Clang is what there is: no card of the table is missing from its
\* replay, whose piles are the table's; the entries beside a throw or an eat are those it follows;
\* and every request the engine would accept has a button, somebody always one that works.
THEOREM RoundIsShown == ReplaySpec => []ViewsShowTheRound
<1>1. ReplayInit => ReplayInv
  <2> SUFFICES ASSUME ReplayInit PROVE ReplayInv
    OBVIOUS
  <2>1. Init /\ RoundInv /\ frame = DealFrame(hand) /\ shared = Players /\ last = OtherEntry
    BY DealInv DEF ReplayInit
  <2>2. /\ hand \in [Players -> Hands] /\ \A r \in Ranks : InHands(hand, r) <= Deck[r]
        /\ pile = [r \in Ranks |-> Deck[r] - InHands(hand, r)]
        /\ discards = NoCards /\ phase = "instant-window"
    BY <2>1, Zenon DEF Init
  <2>3. /\ Size(pile) = Size(Deck) - NumPlayers * HandSize
        /\ hand \in [Players -> Bag] /\ pile \in Bag
    BY <2>2, DealLeavesCards
  <2>4. Size(pile) \in Nat /\ Size(discards) = 0
    BY <2>2, <2>3, SizeIsNatural, NoCardsAreNone
  <2>5. frame = [hand |-> hand, pile |-> Size(pile), discarded |-> Size(discards)]
    BY <2>1, <2>3, <2>4 DEF DealFrame
  <2>6. \A p \in Players : OneTwice(hand[p], hand[p])
    BY DEF OneTwice
  <2>7. QED
    BY <2>1, <2>2, <2>3, <2>4, <2>5, <2>6 DEF ReplayInv, OtherEntry, Entry
<1>2. ReplayInv => ViewsShowTheRound
  <2> SUFFICES ASSUME ReplayInv PROVE ViewsShowTheRound
    OBVIOUS
  <2>1. RoundInv /\ hand \in [Players -> Bag] /\ frame.hand \in [Players -> Bag]
    BY DEF ReplayInv, RoundInv, TypeOK
  <2>2. \A p \in Players : /\ \A r \in Ranks : frame.hand[p][r] >= hand[p][r]
                           /\ Size(frame.hand[p]) <= Size(hand[p]) + 1
    BY <2>1, OneTwiceIsOneMore DEF ReplayInv
  <2>3. /\ lastDraw # {} <=> phase = "awaiting-discard"
        /\ \A e \in lastDraw : e.seat = turn
        /\ phase = "awaiting-eat" => \E e \in lastThrow : NextInOrder(e.seat) = turn
    BY DEF ReplayInv, lastDraw, lastThrow
  <2>4. phase # "complete" =>
          \E p \in Players : AcceptedRequests(p) \cap panelButtons(p) # {}
    <3> SUFFICES ASSUME phase # "complete"
                 PROVE  \E p \in Players : AcceptedRequests(p) \cap panelButtons(p) # {}
      OBVIOUS
    <3>1. PICK p \in Players : AcceptedRequests(p) # {}
      BY <2>1, SomebodyCanAct
    <3>2. AcceptedRequests(p) \subseteq panelButtons(p)
      BY AcceptedHasButton
    <3>3. QED
      BY <3>1, <3>2
  <2>5. QED
    BY <2>2, <2>3, <2>4, AcceptedHasButton, OffersAreAccepted DEF ReplayInv, ViewsShowTheRound
<1>3. QED
  BY <1>1, <1>2, ReplayKeeps, PTL DEF ReplaySpec
=============================================================================
