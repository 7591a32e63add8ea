CONSTANTS
  Units = {"RANGE", "COUNT", "METRO"}
  Distances = {0, 5}
  Tolerances = {1, 5}
  Numbers <- UnitNumbers
  Keys <- UnitKeys
  Fed <- UnitFed
  FactoryTop = 2
  FactoryBpm = 1
  MaxBpm = 4
  Debounce = 1
  Latch = 1
  Pulse = 1
  ToggleDelay = 1
  Minute = 6
  MaxGap = 1
  Byte = 4
  Word = 16
SPECIFICATION Spec
INVARIANTS
  TypeOK
  SensorFollows
  BeatsKeepTime
  LightGoesOff
  CountStaysBelowTop
PROPERTIES
  PressIsNotRepeated
  BeatsAreSent
  RestartKeepsSettings
