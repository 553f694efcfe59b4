SPECIFICATION FairSpec
CONSTANTS
  main = main
  tcpip = tcpip
  short = short
  long = long
  Tasks <- OneTask
  Main = main
  Writes <- WritesAll
  Values <- TwoValues
  NoValue = NoValue
  Erased = Erased
  Unreadable = Unreadable
  EntrySize <- SizesOffBoundary
  NullSize = 4
  PageSize = 8
  SectorSize = 16
  Faults = {"restart"}
INVARIANTS
  Durable
PROPERTIES
  Atomic
  Recovers
