SPECIFICATION Spec
CONSTANTS
  Blocks = 3
  RETRIES = 2
  Faults = {"device", "answer"}
INVARIANTS
  TypeOK
  HeaderFirst
  InOrder
  NoneMissing
  FileArrives
PROPERTIES
  UploadEnds
CHECK_DEADLOCK FALSE
