CONSTANTS
  NumSeats = 3
  Stacks = {2, 4}
  Ante = 0
  SmallBlind = 1
  BigBlind = 2
  PotLimit = FALSE
  StreetBets <- TwoStreets
SPECIFICATION TablesSpec
INVARIANTS
  AwayNeverStalls
  SavedOnce
  ClangNeverStalls
  ClangSavedOnceAndWhole
PROPERTIES
  DesertedHandEnds
  ClangDesertedRoundEnds
