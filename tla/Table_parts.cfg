\* A part at rest, a settled pot and a dealt showdown have no next step.
CHECK_DEADLOCK FALSE
CONSTANTS
  olga = olga
  vera = vera
  nobody = nobody
  east = east
  west = west
  Users = {olga, vera}
  Creator = olga
  NoUser = nobody
  SeatIndexes = {east, west}
  BuyIns = {1}
  Amounts = {1}
  MinStack <- MinusOne
  MaxStack = 2
  MaxWinnings = 2
\* Three seats; the contributions differ by odd numbers so that splits leave odd chips.
  PotSeats = {1, 2, 3}
  Contributions = {0, 1, 4}
  PotBoards = 2
  HandStrengths = {1, 2, 3}
  RaceStrengths = {1, 2}
  CardSet = {1, 2, 3, 4, 5, 6, 7, 8, 9, 10}
  rankOf <- CardRanks
  suitOf <- CardSuits
  BoardSize = 4
  HoleCardsUsed = 2
  Qualifier = 5
  Games = {"nlh", "bounty", "omaha", "clang"}
  gameRow <- GameRows
  FirstGame = "nlh"
  NoGame = "none"
  Bets = {1, 2}
  MaxRounds = 2
  RecordSeats = {1, 2}
  Viewers = {olga, vera}
  NoViewer = nobody
  BoardStreets = {3}
  LastStreet = 3
  MaxHands = 1
  PagePlayers = {1, 2}
  Me = 1
  Ranges <- RaiseRanges
  MaxGames = 2
  MaxLog = 2
SYMMETRY SeatSymmetry
SPECIFICATION PartsSpec
INVARIANTS
  
  LedgerShowsWinnings
  StoredSeats
  CorrectionsFindTheirPlayer
  OneTimeline
  RecordMatchesTable
  PaidByTheRules
  BetterHandWins
  PageFollowsTable
PROPERTIES
  RoundKeepsItsPlayers
  
