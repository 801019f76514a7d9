SPECIFICATION LimiterSpec
CONSTANTS
  requests_per_second = 2
  requests_per_minute = 3
  SECOND = 2
  MINUTE = 5
  NAP = 1
  MaxTime = 13
  MaxRequests = 5
INVARIANTS LimitsKept OneNapSuffices
CHECK_DEADLOCK FALSE
