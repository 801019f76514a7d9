SPECIFICATION FlushSpec
CONSTANTS
  s1 = s1
  s2 = s2
  Stocks <- MCStocks
  Unknown = Unknown
  Prices <- MCPrices
  Changes <- InOut
  Closes <- NoCloses
  StoredCloses <- NoStoredCloses
  None = None
  MaxTicks = 3
  DbMayFail = TRUE
  RedisMayFail = TRUE
  MaxDay = 2
  MaxMessages = 3
  FlushMayDie = TRUE
  FlushInSession = FALSE
  MaxFlushes = 2
SYMMETRY StockSymmetry
INVARIANTS PipelineTypeOK FlushedOnce OnlyFlushAddsRows
PROPERTY RestartFollowsEvents
CHECK_DEADLOCK FALSE
