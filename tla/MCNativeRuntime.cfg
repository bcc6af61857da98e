CONSTANTS
  i1 = i1
  i2 = i2
  image = image
  Instances <- TwoInstances
  Images <- OneImage
  ImageOf <- AllOfImage
  Called <- JustOne
  Pids = {101}
  NoPid = NoPid
  Unknown = Unknown
  BigSpec = FALSE
  MaxOutput = 1
  MaxRestarts = 2
SPECIFICATION FairSpec
CHECK_DEADLOCK FALSE
INVARIANT RootfsIsWhole
INVARIANT FailedStartLeavesNothing
INVARIANT ReturnedIsListed
INVARIANT EndIsTrue
INVARIANT LogsAreComplete
PROPERTY EveryCallReturns
