CONSTANTS
  olga = olga
  vera = vera
  nobody = nobody
  Users = {olga, vera}
  Creator = olga
  NoUser = nobody
  SeatIndexes = {1, 2}
  BuyIns = {1}
  Amounts = {1}
  MinStack = 0
  MaxStack = 3
  MaxWinnings = 2
SPECIFICATION Spec
INVARIANTS
  AwayPlayersCanReturn
