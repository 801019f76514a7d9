SPECIFICATION FairPipelineSpec
CONSTANTS
  s1 = s1
  s2 = s2
  Stocks <- MCStocks
  Unknown = Unknown
  Prices <- MCPrices
  Changes <- InOut
  Closes <- NoCloses
  StoredCloses <- NoStoredCloses
  None = None
  MaxTicks = 4
  DbMayFail = FALSE
  RedisMayFail = FALSE
  MaxDay = 2
  MaxMessages = 4
PROPERTIES ImplementsLedger RowsCatchUp
INVARIANTS RowIffLastLogged PendingReplay StreamCoversLog
CHECK_DEADLOCK FALSE
