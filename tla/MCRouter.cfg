CONSTANTS
  a1 = a1
  a2 = a2
  i1 = i1
  i2 = i2
  i3 = i3
  p1 = p1
  p2 = p2
  r1 = r1
  r2 = r2
  k1 = k1
  k2 = k2
  Apps <- TwoApps
  Instances <- ThreeOfThem
  Ports <- TwoPorts
  Requests <- TwoRequests
  Handlers <- TwoRequests
  NoApp = NoApp
  NoInstance = NoInstance
  NoPort = NoPort
  Native = FALSE
  MaxExits = 1
  Clients <- TwoClients
  Cost = 2
  Full = 4
  MaxBuckets = 1
  Delay = 1
  MaxTime = 6
SYMMETRY Symmetry
SPECIFICATION MCSpec
CHECK_DEADLOCK FALSE
INVARIANT DeploysDropNothing
INVARIANT CollisionsFail
PROPERTY SweepIsInvisible
