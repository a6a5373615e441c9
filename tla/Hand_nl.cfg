\* No-limit blinds, a bounty, a street without betting, from short stacks to deep ones.
CONSTANTS
  NumSeats = 3
  Stacks = {1, 2, 3, 5}
  Ante = 0
  SmallBlind = 1
  BigBlind = 2
  PotLimit = FALSE
  StreetBets <- ThreeStreets
  DeckSize = 12
  Boards = 1
  HoleCards = 2
  Community <- FlopThenTurn
  Redraw <- NoRedraws
  Reshuffle = FALSE
  Scoring = "best-hand"
  Bounty = 1
SPECIFICATION ReplaySpec
INVARIANTS
  ChipsStayWithTheirSeat
  TurnCanAct
  StakesMatched
  ReplayShowsTheHand
  PayoutIsFair
