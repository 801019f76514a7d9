SPECIFICATION ScreenerSpec
CONSTANTS
  s1 = s1
  s2 = s2
  Stocks <- OneStock
  Unknown = Unknown
  Prices <- MCPrices
  Changes <- MCChanges
  Closes <- MCCloses
  StoredCloses <- MCStoredCloses
  None = None
  MaxTicks = 4
INVARIANT ScreenedIffCrossed
CHECK_DEADLOCK FALSE
