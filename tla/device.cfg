SPECIFICATION DeviceSpec
CONSTANTS
  Slots = {b1, b2}
  Delays <- MCDelays
  min_delay = 100
  WIFI_RETRIES = 2
  Right = right
  Wrong = wrong
  Empty = Empty
  Pins = {0, 4}
  ButtonC = 0
  QueueLength = 2
  None = None
INVARIANTS
  DeviceTypeOK
  OneBlinker
  Steady
  LedTells
  OnlyProvenStored
PROPERTIES
  SetReturns
  Blinks
  BootEnds
  FailedLinkIsJoined
  PressIsServed
