CONSTANTS
  n1 = n1
  n2 = n2
  n3 = n3
  Nodes = {n1, n2, n3}
  NoNode = NoNode
  LoosePeriod = 1
  Retries = 1
  Events = {"lost", "noack", "bang", "shake"}
  NumInlets = 2
  FanOut = 2
  Outlet <- TriangleOutlet
  Senders <- TriangleSenders
  Modes <- FactoryModes
  Dials = {n1}
  Positions = {0, 1}
  Start = 0
  MaxTouches = 2
SPECIFICATION FairSpec
INVARIANTS
  TypeOK
  DeliveredWhenClear
  SentMeansReceived
  QuietIsShown
PROPERTIES
  EventuallyShown
