CONSTANTS
  n1 = n1
  n2 = n2
  n3 = n3
  Nodes = {n1, n2}
  NoNode = NoNode
  LoosePeriod = 1
  Retries = 1
  Events = {"lost", "late"}
  NumInlets = 1
  FanOut = 1
  Outlet <- PairOutlet
  Senders <- PairSenders
  Modes <- FactoryModes
  Dials = {n1}
  Positions = {0, 1}
  Start = 0
  MaxTouches = 2
SPECIFICATION Spec
INVARIANTS
  SentMeansReceived
