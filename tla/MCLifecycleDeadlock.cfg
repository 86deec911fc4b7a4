CONSTANTS
  c1 = c1  i1 = i1  i2 = i2
  Ticker <- OneTicker
  Conn <- OneConn
  Instance <- OneInstance
  DiscoveryFlag = FALSE
  PeersFile = TRUE
  None = None
SPECIFICATION FairSpec
PROPERTIES StopReturns
CHECK_DEADLOCK FALSE
