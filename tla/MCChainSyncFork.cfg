CONSTANTS
  n1 = n1  n2 = n2  n3 = n3
  m1 = m1  m2 = m2  m3 = m3
  Message <- ThreeMessages
  Nonce <- MCNonce
  Difficulty = 1
  LeadingZeros <- MCLeadingZeros
  Node <- TwoNodes
  Overlay <- PairDial
  InitialLinks <- PairDial
  Poster <- TwoNodes
  Keyed <- NoNode
  Filed <- NoNode
  MaxBroadcastRetries = 1
  MaxFaults = 0
SPECIFICATION FairSpec
INVARIANTS QuietIsLevel
PROPERTIES EventuallySameHeight
