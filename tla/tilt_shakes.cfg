CONSTANTS
  Times = 3
  Interval = 5
  MinTick = 1
  MaxGap = 3
  Word = 32
  Start = 10
  MaxTime = 41
SPECIFICATION Spec
INVARIANTS
  TypeOK
PROPERTIES
  ShakesAreReal
  ShakesAreSeen
CHECK_DEADLOCK FALSE
