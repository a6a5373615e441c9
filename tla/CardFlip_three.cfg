\* Three players, each up to four cards of two ranks; one at a time is queued to leave.
CONSTANTS
  NumPlayers = 3
  MaxRank = 2
  Deck <- SixOfEach
  CardsPerPlayer = 4
  Stake = 2
  UnopenedBonus = 1
  FourBonus = 3
  StartStack = 5
  MaxQueued = 1
SPECIFICATION ReplaySpec
INVARIANTS
  LeadIsFair
  AwayNeverStalls
  SavedOnceAndWhole
  ViewsShowTheRound
PROPERTIES
  DesertedRoundEnds
