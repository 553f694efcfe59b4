SPECIFICATION Spec
CONSTANTS
  Pins = {1, 2, 9}
  Usable = {1, 2}
  Readings = {0, 1, 2}
  FullScale = 2
  SAMPLES_TO_COMPLETE_CALIBRATION = 2
  Posts <- MCPosts
  Faults = {"error"}
INVARIANTS
  TypeOK
  Exact
  CompleteTogether
  CalibrationStored
  ReportedFinal
PROPERTIES
  
  CalibrationEnds
