SPECIFICATION Spec
CONSTANTS
  main = main
  tcpip = tcpip
  short = short
  long = long
  Tasks <- TwoTasks
  Main = main
  Writes <- WritesShared
  Values <- TwoValues
  NoValue = NoValue
  Erased = Erased
  Unreadable = Unreadable
  EntrySize <- SizesOffBoundary
  NullSize = 4
  PageSize = 8
  SectorSize = 16
  Faults = {}
INVARIANTS
  Durable
