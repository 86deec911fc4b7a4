CONSTANTS
  a = a
  u1 = u1  k1 = k1
  proxy = proxy
  Caller <- OneCaller
  MaxMessages = 2
  Name <- OneName
  Key <- OneKey
  Unset = Unset
  BadKey = BadKey
  MaxRetries = 1
  ApiToken = FALSE
  Client <- OneClient
  TicksPerSecond = 2
  Minute = 3
  burstSize = 1
  MaxTime = 4
SPECIFICATION FairSpec
INVARIANTS TypeOK FirstCopiesInOrder
PROPERTIES ImplementsDelivery QuietClientIsServed EveryCallReturns CallsMoveOn
