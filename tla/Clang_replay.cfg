CONSTANTS
  NumPlayers = 2
  Ranks = {1, 2, 3}
  cardPointValue <- SmallPoints
  Deck <- WiderDeck
  HandSize = 2
  InstantValue = 5
  Stake = 3
  EatPayment = 1
  BonusPayout = 2
  StartStack = 4
  MaxHits = 1
SPECIFICATION ReplaySpec
INVARIANTS
  ReplayShowsTheHands
