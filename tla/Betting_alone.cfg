\* Who is still asked once only one player has chips left?
CONSTANTS
  NumSeats = 3
  Stacks = {1, 2, 3, 5}
  Ante = 0
  SmallBlind = 1
  BigBlind = 2
  PotLimit = FALSE
  StreetBets <- TwoStreets
SPECIFICATION Spec
INVARIANTS
  NothingLeftToDecide
