CONSTANTS
  a = a
  b = b
  Tables = {a, b}
  Ops <- FiveOps
  TableOf <- TableOfFive
  NoOp = 0
  Home = a
  ChatOps = {3, 4}
  PlayOps = {2}
  HistoryLimit = 1
  MaxChanges = 2
  MaxMishaps = 2
SPECIFICATION SocketsSpec
INVARIANTS
  MutualExclusion
  FirstComeFirstServed
  ChatIsWhole
PROPERTIES
  EveryRequestEnds
  ImplementsQueue
  SnapshotsCatchUp
