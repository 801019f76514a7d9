SPECIFICATION FeedSpec
CONSTANTS
  Equities <- MCEquities
  Masters <- MCMasters
  MaxSyncs = 2
  Delisted <- MCDelisted
  Tradable <- MCTradable
  MAX_SUBSCRIPTIONS = 3
  MaxStarts = 2
  MaxCloses = 1
  MaxTokens = 2
INVARIANTS SyncMirrorsMaster IdsStayTrue ScreenerKnowsFeed
PROPERTY SubscriptionRecovers
CHECK_DEADLOCK FALSE
