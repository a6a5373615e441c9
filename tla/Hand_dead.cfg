CONSTANTS
  NumSeats = 3
  Stacks = {1, 2, 4}
  Ante = 0
  SmallBlind = 1
  BigBlind = 2
  PotLimit = FALSE
  StreetBets <- TwoStreets
  DeckSize = 12
  Boards = 1
  HoleCards = 2
  Community <- FlopOnly
  Redraw <- NoRedraw
  Reshuffle = FALSE
  Scoring = "best-hand"
  Bounty = 0
SPECIFICATION ReplaySpec
INVARIANTS
  NoChipsVanish
