CONSTANTS
  n1 = n1  n2 = n2  n3 = n3
  m1 = m1  m2 = m2  m3 = m3
  Message <- OneMessage
  Nonce <- MCNonce
  Difficulty = 1
  LeadingZeros <- MCLeadingZeros
  Node <- TwoNodes
  Overlay <- PairDial
  InitialLinks <- NoDial
  Poster = {n1}
  Keyed <- TwoNodes
  Filed <- NoNode
  MaxBroadcastRetries = 1
  MaxFaults = 0
SPECIFICATION FairSpec
PROPERTIES AckedReachesEveryone
