SPECIFICATION Spec
CONSTANTS
  main = main
  tcpip = tcpip
  short = short
  long = long
  Tasks <- OneTask
  Main = main
  Writes <- WritesAll
  Values <- TwoValues
  NoValue = NoValue
  Erased = Erased
  Unreadable = Unreadable
  EntrySize <- SizesOnBoundary
  NullSize = 4
  PageSize = 8
  SectorSize = 16
  Faults = {"error", "restart"}
INVARIANTS
  TypeOK
  NeverStale
