CONSTANTS
  NumSeats = 3
  Stacks = {3, 5}
  Ante = 1
  SmallBlind = 1
  BigBlind = 2
  PotLimit = FALSE
  StreetBets <- TwoStreets
SPECIFICATION TableSpec
INVARIANTS
  AwayNeverStalls
