CONSTANTS
  ByteSize = 5
  NumInlets = 2
  FanIn = 2
  FanOut = 1
  NumSensors = 1
  NumData = 1
  Ids = {2, 3}
  Numbers = {7}
  UpdateModes = {1}
  MaxSaves = 4
SPECIFICATION Spec
INVARIANTS
  TypeOK
  SavedIsLoaded
  WholeButOne
  TornTable
PROPERTIES
  ImplementsRecordStore
