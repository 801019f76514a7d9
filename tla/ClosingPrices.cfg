SPECIFICATION FairClosingSpec
CONSTANTS
  Stocks = {1, 2, 3, 4}
  CHECKPOINT = 2
  max_retries = 1
  LastDate = 2
INVARIANT ClosingTypeOK
INVARIANT CountsAreRight
INVARIANT CrashLosesLessThanCheckpoint
INVARIANT NeverAskedAgain
PROPERTY UpdateEnds
