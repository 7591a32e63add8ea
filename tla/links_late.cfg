CONSTANTS
  n1 = n1
  n2 = n2
  n3 = n3
  Nodes = {n1, n2, n3}
  NoNode = NoNode
  LoosePeriod = 1
  NumInlets = 2
  FanIn = 1
  FanOut = 1
  Retries = 1
  Facing <- Corner
  Events = {"lost", "data", "noack", "late"}
SPECIFICATION FairSpec
PROPERTIES
  AcknowledgedMeansDone
  CallConcernsPeerOnly
  EveryCallEnds
