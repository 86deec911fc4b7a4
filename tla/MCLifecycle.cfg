CONSTANTS
  c1 = c1  i1 = i1  i2 = i2
  Ticker <- TwoTickers
  Conn <- OneConn
  Instance <- TwoInstances
  DiscoveryFlag = TRUE
  PeersFile = FALSE
  None = None
SPECIFICATION FairSpec
INVARIANTS TypeOK OneStop OneDiscovery HolderUnlocks
PROPERTIES StopReturns LoopsEnd StoppedStaysStopped
CHECK_DEADLOCK FALSE
