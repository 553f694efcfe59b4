SPECIFICATION Spec
CONSTANTS
  NumberOfSensors = 3
  Measurements = {m1, m2}
  SHA256_DIGEST_SIZE = 2
  DOWNLOAD_BLOCK_SIZE = 3
  Lengths <- MCLengths
  Null = Null
INVARIANTS
  TypeOK
  RaceIsFirst
  InsideBuffers
PROPERTIES
  Whole
  GivenBack
  CatchesUp
