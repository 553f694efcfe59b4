SPECIFICATION Spec
CONSTANTS
  Pcbs = {c1, c2, c3}
  Null = Null
INVARIANTS
  TypeOK
  SlotLive
  Listening
  NoOrphan
PROPERTIES
  AnsweredFirst
  Drains
CHECK_DEADLOCK FALSE
