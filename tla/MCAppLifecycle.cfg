CONSTANTS
  n1 = n1
  n2 = n2
  c1 = c1
  c2 = c2
  Apps <- TwoIds
  Images <- TwoNames
  Names <- TwoNames
  NoImage = NoImage
  NoName = NoName
  NoRow = NoRow
  Callers <- TwoCalls
  Slots = 1
  MaxRelease = 3
  MaxConfig = 2
  MaxCalls = 5
  MaxPanics = 1
SYMMETRY Symmetry
SPECIFICATION LifeSpec
CHECK_DEADLOCK FALSE
INVARIANT AppHasRepo
INVARIANT ImagesAreOwn
INVARIANT ConfigIsApplied
INVARIANT SlotsAreReturned
INVARIANT LivePointerAgrees
INVARIANT VersionsInOrder
PROPERTY HistoryIsNeverRewritten
