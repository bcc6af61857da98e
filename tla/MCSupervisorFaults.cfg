CONSTANTS
  app = app
  c1 = c1
  c2 = c2
  c3 = c3
  App <- app
  Callers <- OneCaller
  Kinds <- JustPush
  Faults <- Outside
  Image = image
  NoImage = noimage
  NoRow = NoRow
  Nobody = Nobody
  MaxRelease = 2
  MaxInstance = 3
  CrashThreshold = 2
  WindowExpires = FALSE
  MaxStops = 1
SPECIFICATION FairSpec
CHECK_DEADLOCK FALSE
PROPERTY ShutdownEnds
PROPERTY DeathIsHandled
INVARIANT RetryOnlyForDead
INVARIANT CurrentIsWatched
PROPERTY RouteIsMoved
