CONSTANTS
  n1 = n1  n2 = n2  n3 = n3
  m1 = m1  m2 = m2  m3 = m3
  Message <- OneMessage
  Nonce <- MCNonce
  Difficulty = 1
  LeadingZeros <- MCLeadingZeros
  Node <- ThreeNodes
  Overlay <- MeshDial
  InitialLinks <- MeshDial
  Poster = {n1}
  Keyed <- NoNode
  Filed <- NoNode
  MaxBroadcastRetries = 1
  MaxFaults = 1
SPECIFICATION Spec
PROPERTIES RetriesFailedPeers
