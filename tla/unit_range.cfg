CONSTANTS
  Units = {"RANGE"}
  Distances = {0, 1, 3}
  Tolerances = {1}
  Numbers <- UnitNumbers
  Keys <- UnitKeys
  Fed <- UnitFed
  FactoryTop = 2
  FactoryBpm = 1
  MaxBpm = 7
  Debounce = 1
  Latch = 2
  Pulse = 1
  ToggleDelay = 1
  Minute = 7
  MaxGap = 1
  Byte = 4
  Word = 16
SPECIFICATION Spec
INVARIANTS
  RangeHasTwoSides
