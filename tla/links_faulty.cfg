CONSTANTS
  n1 = n1
  n2 = n2
  n3 = n3
  Nodes = {n1, n2, n3}
  NoNode = NoNode
  LoosePeriod = 2
  NumInlets = 2
  FanIn = 2
  FanOut = 1
  Retries = 1
  Facing <- OneListener
  Events = {"lost", "data", "noack", "late", "clear", "reset", "power"}
SPECIFICATION Spec
SYMMETRY AnyTalker
INVARIANTS
  TypeOK
  RestartKeepsLinks
  OneInletPerNode
PROPERTIES
  ImplementsPatchTable
  SavesAreSmall
