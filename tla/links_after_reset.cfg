CONSTANTS
  n1 = n1
  n2 = n2
  n3 = n3
  Nodes = {n1, n2, n3}
  NoNode = NoNode
  LoosePeriod = 1
  NumInlets = 2
  FanIn = 1
  FanOut = 2
  Retries = 1
  Facing <- Row
  Events = {"lost", "reset"}
SPECIFICATION Spec
SYMMETRY SwapEnds
PROPERTY
  CallConcernsPeerOnly
