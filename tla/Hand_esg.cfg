CONSTANTS
  NumSeats = 4
  Stacks = {2, 7}
  Ante = 0
  SmallBlind = 1
  BigBlind = 2
  PotLimit = TRUE
  StreetBets <- EsgStreets
  DeckSize = 15
  Boards = 1
  HoleCards = 3
  Community <- EsgCommunity
  Redraw <- EsgRedraw
  Reshuffle = TRUE
  Scoring = "point-race"
  Bounty = 0
SPECIFICATION ReplaySpec
INVARIANTS
  DealIsFair
  OffersAreAccepted
